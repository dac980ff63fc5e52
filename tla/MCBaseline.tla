----------------------------- MODULE MCBaseline -----------------------------
(* A target with two resources, the second one found only after the       *)
(* captures, and a check for each way of comparing.                        *)
EXTENDS Baseline

CONSTANTS disc, gcap, cap, more, cmp, prb, fol, r1, r2, w1, w2

MCCheck  == {disc, gcap, cap, more, cmp, prb}
MCBehind == {disc, gcap, cap, more, cmp, fol}
MCKind  == disc :> "discover" @@ more :> "discover" @@ gcap :> "capture" @@ cap :> "capture"
             @@ cmp :> "compare" @@ prb :> "probe" @@ fol :> "discover"
MCOrder == disc :> 0 @@ gcap :> 0 @@ cap :> 1 @@ more :> 1 @@ cmp :> 2 @@ prb :> 2 @@ fol :> 3

\* The ID strings, in an order that is neither that of the levels nor of the discoveries.
MCRank == None :> 0 @@ fol :> 1 @@ cmp :> 2 @@ more :> 3 @@ cap :> 4 @@ prb :> 5 @@ disc :> 6 @@ gcap :> 7
            @@ r2 :> 8 @@ r1 :> 9

Page(status, words) == [status |-> status, words |-> words]
MCPages == {Page(200, <<w1, w2, w2>>), Page(200, <<w1>>), Page(404, <<w1>>)}
MCFirst == Page(200, <<w1>>)
MCManual == Manual(MCFirst)

Found1(data)  == <<[id |-> r1, data |-> data]>>
MCListings == disc :> {<<>>, Found1(None)}
                @@ more :> {<<[id |-> r2, data |-> MCManual]>> \o Found1(Manual(Page(404, <<w1>>)))}
                @@ fol :> {<<>>}

OfCheck(c) == [of |-> "check", check |-> c]
MCSources == cmp :> {OfCheck(cap), OfCheck(gcap), [of |-> "resource"]}
               @@ prb :> {OfCheck(gcap)}

MCComparators == cmp :> {{"length"}, {"similarity"}, {"custom"}} @@ prb :> {{"custom", "length"}, {"similarity"}}
MCDefaults    == cmp :> {{}} @@ prb :> {{}}

IfPassed(c)  == {[of |-> "passed", check |-> c, negated |-> FALSE]}
MCConditions == [c \in MCCheck \cup MCBehind |-> IF c = fol THEN IfPassed(cmp) ELSE IF c = more THEN IfPassed(gcap) ELSE {}]
MCMaxBody    == [c \in MCCheck \cup MCBehind |-> IF c = cap THEN 2 ELSE 3]
MCWordBits   == w1 :> {1, 2} @@ w2 :> {2, 3}
=============================================================================
