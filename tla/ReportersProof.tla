---------------------------- MODULE ReportersProof ----------------------------
(***************************************************************************)
(* The trace, the metrics and the written lines of scans that take turns   *)
(* on their reporters, for any scans and keys.  At most one scan is under  *)
(* way (OneAtATime), so the span in scanSpan is its own and the map of     *)
(* spans holds nothing but its running executions (Current, Actives).  For *)
(* every place where a goroutine can be, RootTraced and Traced say what    *)
(* has become of its span or event by then.  The counters and the lines    *)
(* follow from that, one step at a time.                                   *)
(***************************************************************************)
EXTENDS Reporters, FiniteSetTheorems, TLAPS

Node     == Scan \X (Key \cup {None})
Statuses == Results \cup {"skipped"}
Span     == [parent : Node \cup {None}, ended : Nat, skips : SUBSET Exec,
             status : Statuses \cup {"none", "summary"}]
Phases   == {"idle", "starting", "header", "open", "closing", "footer", "over"}
PCs      == {"idle", "parent", "running", "taken", "event", "line", "done"}

SpansTyped(sp) == sp \in [DOMAIN sp -> Span] /\ DOMAIN sp \subseteq Node

Types == /\ phase \in [Scan -> Phases] /\ pc \in [Exec -> PCs]
         /\ result \in [Exec -> Statuses \cup {"none"}]
         /\ local \in [Node -> Node \cup {None}]
         /\ SpansTyped(spans) /\ scanSpan \in Node \cup {None}

\* A scan begins after those before it, and its goroutines run while it is open.
Turns ==
  /\ \A s \in Scan : phase[s] # "idle" => \A t \in Before[s] : phase[t] = "over"
  /\ \A e \in Exec :
       /\ phase[e[1]] \in {"idle", "starting", "header"} => pc[e] = "idle"
       /\ phase[e[1]] \in {"closing", "footer", "over"} => pc[e] \in {"idle", "done"}

Ends == {"footer", "over"}

\* The span of scan s.
RootTraced(s) ==
  /\ phase[s] = "idle" => Root(s) \notin DOMAIN spans
  /\ phase[s] \in {"starting", "header", "open"} => Root(s) \in DOMAIN spans /\ spans[Root(s)].ended = 0
  /\ phase[s] = "closing" =>
       \/ local[Root(s)] = Root(s) /\ Root(s) \in DOMAIN spans /\ spans[Root(s)].ended = 0
       \/ local[Root(s)] = None /\ Root(s) \notin DOMAIN spans
  /\ phase[s] \in Ends => Root(s) \in DOMAIN spans /\ spans[Root(s)].ended = 1
  /\ Root(s) \in DOMAIN spans => spans[Root(s)].parent = None
  /\ phase[s] \in {"header", "open"} => scanSpan = Root(s)

Current == scanSpan # None => \E s \in Scan : phase[s] \in {"header", "open"} /\ scanSpan = Root(s)

HasSpan(e) == e \in DOMAIN spans

\* The span of execution e, or the event told instead.
Traced(e) ==
  /\ pc[e] \in {"idle", "parent", "event"} => ~HasSpan(e)
  /\ pc[e] \in {"parent", "event"} => local[e] = Root(e[1])
  /\ pc[e] = "event" => result[e] = "skipped"
  /\ pc[e] = "running" => /\ HasSpan(e) /\ spans[e].ended = 0
                          /\ e[2] \in DOMAIN active /\ active[e[2]] = e
  /\ pc[e] = "taken" => /\ result[e] \in Statuses
                        /\ IF HasSpan(e) THEN local[e] = e /\ spans[e].ended = 0
                                         ELSE local[e] = None /\ result[e] = "skipped"
  /\ pc[e] \in {"line", "done"} =>
       /\ result[e] \in Statuses
       /\ IF HasSpan(e) THEN spans[e].ended = 1 /\ spans[e].status = result[e]
                       ELSE result[e] = "skipped" /\ Root(e[1]) \in DOMAIN spans
  /\ HasSpan(e) => spans[e].parent = Root(e[1])
  /\ \A x \in DOMAIN spans :
       e \in spans[x].skips <=> x = Root(e[1]) /\ pc[e] \in {"line", "done"} /\ ~HasSpan(e)

Actives == \A k \in DOMAIN active : active[k] \in Exec /\ active[k][2] = k /\ pc[active[k]] = "running"

TInv == /\ Types /\ Turns /\ Current /\ Actives
        /\ \A s \in Scan : RootTraced(s)
        /\ \A e \in Exec : Traced(e)

-----------------------------------------------------------------------------
(* Names, and the operations on spans.                                     *)

LEMMA Names ==
  /\ \A s \in Scan : Root(s) \in Node /\ Root(s) \notin Exec /\ Root(s) # None
  /\ \A s, t \in Scan : Root(s) = Root(t) => s = t
  /\ \A e \in Exec : /\ e \in Node /\ e # None /\ e[1] \in Scan /\ e[2] \in Key
                     /\ \A f \in Exec : e[1] = f[1] /\ e[2] = f[2] => e = f
  /\ \A s \in Scan : \A e \in Exec : e \in Of(s) <=> e[1] = s
  /\ None \notin Node
BY NamesAssumption DEF Root, Node, Exec, Of

LEMMA StartedFacts ==
  ASSUME NEW sp, SpansTyped(sp), NEW x \in Node, NEW p \in Node \cup {None}
  PROVE  /\ SpansTyped(Started(sp, x, p)) /\ DOMAIN Started(sp, x, p) = DOMAIN sp \cup {x}
         /\ Started(sp, x, p)[x] = [parent |-> p, ended |-> 0, skips |-> {}, status |-> "none"]
         /\ \A y \in DOMAIN sp : y # x => Started(sp, x, p)[y] = sp[y]
<1>1. [parent |-> p, ended |-> 0, skips |-> {}, status |-> "none"] \in Span
  BY DEF Span
<1> QED
  BY <1>1 DEF SpansTyped, Started, Put

LEMMA NotedFacts ==
  ASSUME NEW sp, SpansTyped(sp), NEW x \in DOMAIN sp, sp[x].ended = 0, NEW e \in Exec
  PROVE  /\ SpansTyped(Noted(sp, x, e)) /\ DOMAIN Noted(sp, x, e) = DOMAIN sp
         /\ Noted(sp, x, e)[x].parent = sp[x].parent /\ Noted(sp, x, e)[x].ended = 0
         /\ Noted(sp, x, e)[x].skips = sp[x].skips \cup {e}
         /\ \A y \in DOMAIN sp : y # x => Noted(sp, x, e)[y] = sp[y]
<1> DEFINE new == [sp[x] EXCEPT !.skips = @ \cup {e}]
<1>1. sp[x] \in Span /\ Noted(sp, x, e) = [sp EXCEPT ![x] = new]
  BY DEF SpansTyped, Noted
<1>2. /\ new \in Span /\ new.parent = sp[x].parent /\ new.ended = 0
      /\ new.skips = sp[x].skips \cup {e}
  BY <1>1 DEF Span
<1> HIDE DEF new
<1> QED
  BY <1>1, <1>2 DEF SpansTyped

LEMMA EndedFacts ==
  ASSUME NEW sp, SpansTyped(sp), NEW x \in DOMAIN sp, sp[x].ended = 0,
         NEW r \in Statuses \cup {"summary"}
  PROVE  /\ SpansTyped(Ended(sp, x, r)) /\ DOMAIN Ended(sp, x, r) = DOMAIN sp
         /\ Ended(sp, x, r)[x].parent = sp[x].parent /\ Ended(sp, x, r)[x].ended = 1
         /\ Ended(sp, x, r)[x].skips = sp[x].skips /\ Ended(sp, x, r)[x].status = r
         /\ \A y \in DOMAIN sp : y # x => Ended(sp, x, r)[y] = sp[y]
<1> DEFINE new == [sp[x] EXCEPT !.status = r, !.ended = 1]
<1>1. sp[x] \in Span /\ Ended(sp, x, r) = [sp EXCEPT ![x] = new]
  <2>1. sp[x] \in Span
    BY DEF SpansTyped
  <2>2. Ended(sp, x, r) = [sp EXCEPT ![x].status = r, ![x].ended = 1]
    BY DEF Ended
  <2> QED
    BY <2>1, <2>2 DEF SpansTyped
<1>2. /\ new \in Span /\ new.parent = sp[x].parent /\ new.ended = 1
      /\ new.skips = sp[x].skips /\ new.status = r
  BY <1>1 DEF Span
<1> HIDE DEF new
<1> QED
  BY <1>1, <1>2 DEF SpansTyped

-----------------------------------------------------------------------------
(* The trace.                                                              *)

Busy(s) == phase[s] \notin {"idle", "over"}

LEMMA OneAtATime ==
  ASSUME TInv, NEW s \in Scan, NEW t \in Scan, s # t, Busy(s)
  PROVE  ~Busy(t)
BY InTurnAssumption DEF TInv, Turns, Busy

LEMMA InitTrace == Init => TInv
<1> SUFFICES ASSUME Init PROVE TInv
  OBVIOUS
<1>1. Types
  <2>1. Exec \cup {Root(s) : s \in Scan} = Node
    BY DEF Exec, Root, Node
  <2> QED
    BY <2>1 DEF Init, Types, SpansTyped, Phases, PCs
<1>2. Turns /\ Current /\ Actives
  BY DEF Init, Turns, Current, Actives
<1>3. (\A s \in Scan : RootTraced(s)) /\ \A e \in Exec : Traced(e)
  BY DEF Init, RootTraced, Traced, HasSpan, Ends
<1> QED
  BY <1>1, <1>2, <1>3 DEF TInv

\* OnScanStart.
LEMMA StartScanTrace == ASSUME TInv, NEW s \in Scan, StartScan(s) PROVE TInv'
<1> USE DEF HasSpan
<1>0. /\ phase[s] = "idle" /\ phase' = [phase EXCEPT ![s] = "starting"]
      /\ spans' = Started(spans, Root(s), None) /\ UNCHANGED <<pc, result, local, active, scanSpan>>
      /\ \A t \in Before[s] : phase[t] = "over"
  BY DEF StartScan, ScanGoto
<1>1. /\ SpansTyped(spans') /\ DOMAIN spans' = DOMAIN spans \cup {Root(s)}
      /\ spans'[Root(s)] = [parent |-> None, ended |-> 0, skips |-> {}, status |-> "none"]
      /\ \A y \in DOMAIN spans : y # Root(s) => spans'[y] = spans[y]
      /\ Root(s) \notin DOMAIN spans
  <2>1. SpansTyped(spans) /\ Root(s) \in Node /\ Root(s) \notin DOMAIN spans
    BY <1>0, Names DEF TInv, Types, RootTraced
  <2> QED
    BY <1>0, <2>1, StartedFacts
<1>2. Types'
  BY <1>0, <1>1 DEF TInv, Types, Phases
<1>3. Turns'
  BY <1>0, Names, ScansAssumption DEF TInv, Types, Turns
<1>4. Current' /\ Actives'
  BY <1>0 DEF TInv, Types, Current, Actives
<1>5. ASSUME NEW t \in Scan PROVE RootTraced(t)'
  BY <1>0, <1>1, Names DEF TInv, Types, RootTraced, Ends
<1>6. ASSUME NEW e \in Exec PROVE Traced(e)'
  <2>1. e[1] = s => pc[e] = "idle"
    BY <1>0 DEF TInv, Turns
  <2> QED
    BY <1>0, <1>1, <2>1, Names DEF TInv, Types, Traced
<1> QED
  BY <1>2, <1>3, <1>4, <1>5, <1>6 DEF TInv

LEMMA SetScanTrace == ASSUME TInv, NEW s \in Scan, SetScan(s) PROVE TInv'
<1> USE DEF HasSpan
<1>0. /\ phase[s] = "starting" /\ phase' = [phase EXCEPT ![s] = "header"]
      /\ scanSpan' = Root(s) /\ UNCHANGED <<pc, result, local, active, spans>>
  BY DEF SetScan, ScanGoto
<1>1. Types' /\ Turns' /\ Current' /\ Actives'
  BY <1>0, Names DEF TInv, Types, Phases, Turns, Current, Actives
<1>2. ASSUME NEW t \in Scan PROVE RootTraced(t)'
  <2>1. t # s => phase[t] \in {"idle", "over"}
    BY <1>0, OneAtATime DEF Busy
  <2> QED
    BY <1>0, <2>1 DEF TInv, Types, RootTraced, Ends
<1>3. ASSUME NEW e \in Exec PROVE Traced(e)'
  BY <1>0 DEF TInv, Types, Traced
<1> QED
  BY <1>1, <1>2, <1>3 DEF TInv

LEMMA HeaderTrace == ASSUME TInv, NEW s \in Scan, Header(s) PROVE TInv'
<1> USE DEF HasSpan
<1>0. /\ phase[s] = "header" /\ phase' = [phase EXCEPT ![s] = "open"]
      /\ UNCHANGED <<pc, result, local, active, spans, scanSpan>>
  BY DEF Header, ScanGoto
<1>1. Types' /\ Turns' /\ Current' /\ Actives'
  BY <1>0, Names DEF TInv, Types, Phases, Turns, Current, Actives
<1>2. ASSUME NEW t \in Scan PROVE RootTraced(t)'
  BY <1>0 DEF TInv, Types, RootTraced, Ends
<1>3. ASSUME NEW e \in Exec PROVE Traced(e)'
  BY <1>0 DEF TInv, Types, Traced
<1> QED
  BY <1>1, <1>2, <1>3 DEF TInv

\* OnScanComplete.
LEMMA SwapTrace == ASSUME TInv, NEW s \in Scan, Swap(s) PROVE TInv'
<1> USE DEF HasSpan
<1>0. /\ phase' = [phase EXCEPT ![s] = "closing"]
      /\ local' = [local EXCEPT ![Root(s)] = scanSpan] /\ scanSpan' = None
      /\ UNCHANGED <<pc, result, active, spans>>
  BY DEF Swap, ScanGoto
<1>1. \/ phase[s] = "open" /\ \A e \in Exec : e[1] = s => pc[e] = "done"
      \/ phase[s] = "idle" /\ \A t \in Before[s] : phase[t] = "over"
  BY Names DEF Swap, ScanGoto
<1>2. \A t \in Scan : t # s => phase[t] \in {"idle", "over"}
  <2>1. CASE phase[s] = "open"
    BY <2>1, OneAtATime DEF Busy
  <2>2. CASE phase[s] = "idle" /\ \A t \in Before[s] : phase[t] = "over"
    BY <2>2, InTurnAssumption DEF TInv, Turns
  <2> QED
    BY <1>1, <2>1, <2>2
<1>3. scanSpan = IF phase[s] = "open" THEN Root(s) ELSE None
  BY <1>1, <1>2 DEF TInv, Current, RootTraced
<1>4. Types'
  BY <1>0, Names DEF TInv, Types, Phases
<1>5. Turns'
  BY <1>0, <1>1, Names, ScansAssumption DEF TInv, Types, Turns
<1>6. Current' /\ Actives'
  BY <1>0 DEF TInv, Current, Actives
<1>7. ASSUME NEW t \in Scan PROVE RootTraced(t)'
  <2>1. CASE t = s
    BY <1>0, <1>1, <1>3, <2>1, Names DEF TInv, Types, RootTraced, Ends
  <2>2. CASE t # s
    BY <1>0, <1>2, <2>2, Names DEF TInv, Types, RootTraced, Ends
  <2> QED
    BY <2>1, <2>2
<1>8. ASSUME NEW e \in Exec PROVE Traced(e)'
  <2>1. local'[e] = local[e]
    BY <1>0, Names DEF TInv, Types
  <2> QED
    BY <1>0, <2>1 DEF TInv, Types, Traced
<1> QED
  BY <1>4, <1>5, <1>6, <1>7, <1>8 DEF TInv

LEMMA CloseTrace == ASSUME TInv, NEW s \in Scan, Close(s) PROVE TInv'
<1> USE DEF HasSpan
<1> DEFINE root == Root(s)
           old == IF local[root] = None THEN Started(spans, root, None) ELSE spans
<1>0. /\ phase[s] = "closing" /\ phase' = [phase EXCEPT ![s] = "footer"]
      /\ UNCHANGED <<pc, result, local, active, scanSpan>>
  BY DEF Close, ScanGoto
<1>1. \/ local[root] = root /\ root \in DOMAIN spans /\ spans[root].ended = 0 /\ spans[root].parent = None
      \/ local[root] = None /\ root \notin DOMAIN spans
  BY <1>0 DEF TInv, RootTraced
<1>2. spans' = Ended(old, root, "summary")
  BY <1>1, Names DEF Close
<1>3. /\ SpansTyped(old) /\ DOMAIN old = DOMAIN spans \cup {root}
      /\ old[root].ended = 0 /\ old[root].parent = None
      /\ \A e : e \in old[root].skips <=> root \in DOMAIN spans /\ e \in spans[root].skips
      /\ \A y \in DOMAIN spans : y # root => old[y] = spans[y]
  <2>1. CASE local[root] = None
    <3>1. SpansTyped(spans) /\ root \in Node /\ root \notin DOMAIN spans
      BY <1>1, <2>1, Names DEF TInv, Types
    <3> HIDE DEF root
    <3> DEFINE new == Started(spans, root, None)
    <3>2. /\ SpansTyped(new) /\ DOMAIN new = DOMAIN spans \cup {root}
          /\ new[root] = [parent |-> None, ended |-> 0, skips |-> {}, status |-> "none"]
          /\ \A y \in DOMAIN spans : y # root => new[y] = spans[y]
      <4>1. None \in Node \cup {None}
        OBVIOUS
      <4> QED
        BY <3>1, <4>1, StartedFacts
    <3>3. old = new
      BY <2>1
    <3> HIDE DEF old, new
    <3> QED
      BY <3>1, <3>2, <3>3
  <2>2. CASE local[root] # None
    BY <1>1, <2>2 DEF TInv, Types
  <2> QED
    BY <2>1, <2>2
<1> HIDE DEF old
<1>4. /\ SpansTyped(spans') /\ DOMAIN spans' = DOMAIN spans \cup {root}
      /\ spans'[root].ended = 1 /\ spans'[root].parent = None
      /\ \A e : e \in spans'[root].skips <=> root \in DOMAIN spans /\ e \in spans[root].skips
      /\ \A y \in DOMAIN spans : y # root => spans'[y] = spans[y]
  BY <1>2, <1>3, EndedFacts
<1>5. Types'
  BY <1>0, <1>4 DEF TInv, Types, Phases
<1>6. Turns'
  BY <1>0, Names, ScansAssumption DEF TInv, Types, Turns
<1>7. Current' /\ Actives'
  BY <1>0 DEF TInv, Types, Current, Actives
<1>8. ASSUME NEW t \in Scan PROVE RootTraced(t)'
  BY <1>0, <1>4, Names DEF TInv, Types, RootTraced, Ends
<1>9. ASSUME NEW e \in Exec PROVE Traced(e)'
  <2>1. e # root /\ (e \in DOMAIN spans' <=> e \in DOMAIN spans)
    BY <1>4, Names
  <2>2. e[1] = s /\ pc[e] \in {"line", "done"} /\ e \notin DOMAIN spans => root \in DOMAIN spans
    BY DEF TInv, Traced
  <2> QED
    BY <1>0, <1>4, <2>1, <2>2, Names DEF TInv, Types, Traced
<1> QED
  BY <1>5, <1>6, <1>7, <1>8, <1>9 DEF TInv

LEMMA FooterTrace == ASSUME TInv, NEW s \in Scan, Footer(s) PROVE TInv'
<1> USE DEF HasSpan
<1>0. /\ phase[s] = "footer" /\ phase' = [phase EXCEPT ![s] = "over"]
      /\ UNCHANGED <<pc, result, local, active, spans, scanSpan>>
  BY DEF Footer, ScanGoto
<1>1. Types' /\ Turns' /\ Current' /\ Actives'
  BY <1>0, Names, ScansAssumption DEF TInv, Types, Phases, Turns, Current, Actives
<1>2. ASSUME NEW t \in Scan PROVE RootTraced(t)'
  BY <1>0 DEF TInv, Types, RootTraced, Ends
<1>3. ASSUME NEW e \in Exec PROVE Traced(e)'
  BY <1>0 DEF TInv, Types, Traced
<1> QED
  BY <1>1, <1>2, <1>3 DEF TInv

\* A step of execution e leaves the scans where they are, and the others of its scan too.
ExecMoves(e, to) == /\ phase[e[1]] = "open" /\ pc' = [pc EXCEPT ![e] = to] /\ to \in PCs
                    /\ UNCHANGED <<phase, scanSpan>>

LEMMA ExecTurns == ASSUME TInv, NEW e \in Exec, NEW to, ExecMoves(e, to) PROVE Turns' /\ Current'
<1>1. Turns'
  BY Names DEF TInv, Types, Turns, ExecMoves
<1>2. Current'
  BY DEF TInv, Types, Current, ExecMoves
<1> QED
  BY <1>1, <1>2

\* Two executions that are under way have different keys, being of one scan.
LEMMA KeysApart ==
  ASSUME TInv, NEW e \in Exec, NEW f \in Exec, e # f, phase[e[1]] = "open", pc[f] \notin {"idle", "done"}
  PROVE  e[2] # f[2]
<1>1. phase[f[1]] = "open"
  BY Names DEF TInv, Types, Turns, Phases
<1>2. e[1] = f[1]
  BY <1>1, Names, OneAtATime DEF Busy
<1> QED
  BY <1>2, Names

\* OnCheckStart.
LEMMA ParentTrace == ASSUME TInv, NEW e \in Exec, Parent(e) PROVE TInv'
<1> USE DEF HasSpan
<1>0. /\ ExecMoves(e, "parent") /\ pc[e] = "idle" /\ local' = [local EXCEPT ![e] = Root(e[1])]
      /\ UNCHANGED <<result, spans, active>>
  BY Names DEF Parent, Goto, ExecMoves, PCs, TInv, RootTraced
<1>1. Types'
  BY <1>0, Names DEF TInv, Types, ExecMoves
<1>2. Actives'
  BY <1>0 DEF TInv, Types, Actives, ExecMoves
<1>3. ASSUME NEW t \in Scan PROVE RootTraced(t)'
  <2>1. local'[Root(t)] = local[Root(t)]
    BY <1>0, Names DEF TInv, Types
  <2> QED
    BY <1>0, <2>1 DEF TInv, RootTraced, ExecMoves
<1>4. ASSUME NEW f \in Exec PROVE Traced(f)'
  BY <1>0, Names DEF TInv, Types, Traced, ExecMoves
<1> QED
  BY <1>0, <1>1, <1>2, <1>3, <1>4, ExecTurns DEF TInv

LEMMA OpenTrace == ASSUME TInv, NEW e \in Exec, Open(e) PROVE TInv'
<1> USE DEF HasSpan
<1>0. /\ ExecMoves(e, "running") /\ pc[e] = "parent"
      /\ local[e] = Root(e[1]) /\ e \notin DOMAIN spans
      /\ spans' = Started(spans, e, Root(e[1])) /\ active' = Put(active, e[2], e)
      /\ UNCHANGED <<result, local>>
  BY Names DEF Open, Goto, ExecMoves, PCs, TInv, Types, Turns, Traced, Phases
<1>1. /\ SpansTyped(spans') /\ DOMAIN spans' = DOMAIN spans \cup {e}
      /\ spans'[e] = [parent |-> Root(e[1]), ended |-> 0, skips |-> {}, status |-> "none"]
      /\ \A y \in DOMAIN spans : y # e => spans'[y] = spans[y]
  <2> DEFINE root == Root(e[1])
  <2>1. SpansTyped(spans) /\ e \in Node /\ root \in Node \cup {None}
    BY Names DEF TInv, Types
  <2> HIDE DEF root
  <2>2. /\ SpansTyped(Started(spans, e, root)) /\ DOMAIN Started(spans, e, root) = DOMAIN spans \cup {e}
        /\ Started(spans, e, root)[e] = [parent |-> root, ended |-> 0, skips |-> {}, status |-> "none"]
        /\ \A y \in DOMAIN spans : y # e => Started(spans, e, root)[y] = spans[y]
    BY <2>1, StartedFacts
  <2> QED
    BY <1>0, <2>2 DEF root
<1>2. Types'
  BY <1>0, <1>1, Names DEF TInv, Types, ExecMoves
<1>3. /\ DOMAIN active' = DOMAIN active \cup {e[2]} /\ active'[e[2]] = e
      /\ \A k \in DOMAIN active : k # e[2] => active'[k] = active[k]
  BY <1>0 DEF Put
<1>4. Actives'
  BY <1>0, <1>3 DEF TInv, Types, Actives, ExecMoves
<1>5. ASSUME NEW t \in Scan PROVE RootTraced(t)'
  BY <1>0, <1>1, Names DEF TInv, Types, RootTraced, ExecMoves
<1>6. ASSUME NEW f \in Exec PROVE Traced(f)'
  <2>1. CASE f = e
    <3>1. \A x \in DOMAIN spans : f \notin spans[x].skips
      BY <1>0, <2>1 DEF TInv, Traced
    <3> QED
      BY <1>0, <1>1, <1>3, <2>1, <3>1, Names DEF TInv, Types, Traced, ExecMoves
  <2>2. CASE f # e
    <3>1. pc'[f] = pc[f] /\ (f \in DOMAIN spans' <=> f \in DOMAIN spans)
      BY <1>0, <1>1, <2>2 DEF TInv, Types, ExecMoves
    <3>2. pc[f] = "running" => e[2] # f[2]
      BY <1>0, <2>2, KeysApart DEF ExecMoves
    <3>3. e # Root(f[1])
      BY Names
    <3> QED
      BY <1>0, <1>1, <1>3, <2>2, <3>1, <3>2, <3>3 DEF TInv, Traced
  <2> QED
    BY <2>1, <2>2
<1> QED
  BY <1>0, <1>2, <1>4, <1>5, <1>6, ExecTurns DEF TInv

\* OnCheckComplete.
LEMMA TakeTrace == ASSUME TInv, NEW e \in Exec, Take(e) PROVE TInv'
<1> USE DEF HasSpan
<1>1. PICK r \in Statuses :
        /\ ExecMoves(e, "taken") /\ result' = [result EXCEPT ![e] = r]
        /\ pc[e] = "running" \/ (pc[e] = "idle" /\ r = "skipped")
        /\ local' = [local EXCEPT ![e] = IF e[2] \in DOMAIN active THEN active[e[2]] ELSE None]
        /\ active' = Without(active, e[2]) /\ UNCHANGED spans
  BY DEF Take, Goto, ExecMoves, PCs, Statuses
<1>2. \A f \in Exec : f # e /\ pc[f] = "running" => e[2] # f[2]
  BY <1>1, KeysApart DEF ExecMoves
<1>3. local' = [local EXCEPT ![e] = IF pc[e] = "running" THEN e ELSE None]
  <2>1. pc[e] = "running" => e[2] \in DOMAIN active /\ active[e[2]] = e
    BY DEF TInv, Traced
  <2>2. pc[e] # "running" => e[2] \notin DOMAIN active
    BY <1>2 DEF TInv, Actives
  <2> QED
    BY <1>1, <2>1, <2>2
<1>4. /\ DOMAIN active' = DOMAIN active \ {e[2]}
      /\ \A k \in DOMAIN active : k # e[2] => active'[k] = active[k]
  BY <1>1 DEF Without
<1>5. Types'
  BY <1>1, <1>3, Names DEF TInv, Types, ExecMoves
<1>6. Actives'
  <2>1. \A k \in DOMAIN active' : active'[k] = active[k] /\ active[k] # e
    BY <1>4 DEF TInv, Actives
  <2> QED
    BY <1>1, <1>4, <2>1 DEF TInv, Types, Actives, ExecMoves
<1>7. ASSUME NEW t \in Scan PROVE RootTraced(t)'
  <2>1. local'[Root(t)] = local[Root(t)]
    BY <1>1, Names DEF TInv, Types
  <2> QED
    BY <1>1, <2>1 DEF TInv, RootTraced, ExecMoves
<1>8. ASSUME NEW f \in Exec PROVE Traced(f)'
  <2>1. CASE f = e
    BY <1>1, <1>3, <2>1, Names DEF TInv, Types, Traced, ExecMoves
  <2>2. CASE f # e
    <3>1. pc'[f] = pc[f] /\ local'[f] = local[f] /\ result'[f] = result[f]
      BY <1>1, <2>2, Names DEF TInv, Types, ExecMoves
    <3> QED
      BY <1>1, <1>2, <1>4, <2>2, <3>1 DEF TInv, Traced
  <2> QED
    BY <2>1, <2>2
<1> QED
  BY <1>1, <1>5, <1>6, <1>7, <1>8, ExecTurns DEF TInv

\* An execution has a span if and only if it was found in the map.
LEMMA Found == ASSUME TInv, NEW e \in Exec, pc[e] = "taken"
               PROVE  /\ Unstarted(e) <=> ~HasSpan(e)
                      /\ local[e] = IF HasSpan(e) THEN e ELSE None
BY Names DEF TInv, Traced, Unstarted

LEMMA EndTrace == ASSUME TInv, NEW e \in Exec, End(e) PROVE TInv'
<1> USE DEF HasSpan
<1>0. /\ ExecMoves(e, "line") /\ pc[e] = "taken" /\ UNCHANGED <<result, local, active>>
      /\ e \in DOMAIN spans /\ spans[e].ended = 0 /\ local[e] = e
      /\ result[e] \in Statuses /\ spans' = Ended(spans, e, result[e])
  <2>1. pc[e] = "taken" /\ ~Unstarted(e)
    BY DEF End, Goto
  <2>2. HasSpan(e) /\ local[e] = e /\ phase[e[1]] = "open"
    BY <2>1, Found, Names DEF TInv, Types, Turns, Phases
  <2> QED
    BY <2>1, <2>2, Names DEF End, Goto, ExecMoves, PCs, TInv, Traced
<1>1. /\ SpansTyped(spans') /\ DOMAIN spans' = DOMAIN spans
      /\ spans'[e].parent = spans[e].parent /\ spans'[e].ended = 1
      /\ spans'[e].skips = spans[e].skips /\ spans'[e].status = result[e]
      /\ \A y \in DOMAIN spans : y # e => spans'[y] = spans[y]
  <2>1. SpansTyped(spans)
    BY DEF TInv, Types
  <2> QED
    BY <1>0, <2>1, EndedFacts
<1>2. Types'
  BY <1>0, <1>1 DEF TInv, Types, ExecMoves
<1>3. Actives'
  BY <1>0 DEF TInv, Types, Actives, ExecMoves
<1>4. ASSUME NEW t \in Scan PROVE RootTraced(t)'
  BY <1>0, <1>1, Names DEF TInv, Types, RootTraced, ExecMoves
<1>5. ASSUME NEW f \in Exec PROVE Traced(f)'
  <2>1. CASE f = e
    <3>1. pc'[f] = "line"
      BY <1>0, <2>1 DEF TInv, Types, ExecMoves
    <3>2. \A x \in DOMAIN spans : f \notin spans'[x].skips
      BY <1>0, <1>1, <2>1 DEF TInv, Traced
    <3> QED
      BY <1>0, <1>1, <2>1, <3>1, <3>2 DEF TInv, Traced
  <2>2. CASE f # e
    <3>1. pc'[f] = pc[f] /\ e # Root(f[1])
      BY <1>0, <2>2, Names DEF TInv, Types, ExecMoves
    <3> QED
      BY <1>0, <1>1, <2>2, <3>1 DEF TInv, Traced
  <2> QED
    BY <2>1, <2>2
<1> QED
  BY <1>0, <1>2, <1>3, <1>4, <1>5, ExecTurns DEF TInv

LEMMA LookTrace == ASSUME TInv, NEW e \in Exec, Look(e) PROVE TInv'
<1> USE DEF HasSpan
<1>0. /\ ExecMoves(e, "event") /\ pc[e] = "taken" /\ e \notin DOMAIN spans /\ result[e] = "skipped"
      /\ local' = [local EXCEPT ![e] = Root(e[1])] /\ UNCHANGED <<result, spans, active>>
  <2>1. pc[e] = "taken" /\ Unstarted(e)
    BY DEF Look, Goto
  <2>2. ~HasSpan(e) /\ phase[e[1]] = "open"
    BY <2>1, Found, Names DEF TInv, Types, Turns, Phases
  <2> QED
    BY <2>1, <2>2, Names DEF Look, Goto, ExecMoves, PCs, TInv, RootTraced, Unstarted
<1>1. Types'
  BY <1>0, Names DEF TInv, Types, ExecMoves
<1>2. Actives'
  BY <1>0 DEF TInv, Types, Actives, ExecMoves
<1>3. ASSUME NEW t \in Scan PROVE RootTraced(t)'
  <2>1. local'[Root(t)] = local[Root(t)]
    BY <1>0, Names DEF TInv, Types
  <2> QED
    BY <1>0, <2>1 DEF TInv, RootTraced, ExecMoves
<1>4. ASSUME NEW f \in Exec PROVE Traced(f)'
  BY <1>0, Names DEF TInv, Types, Traced, ExecMoves
<1> QED
  BY <1>0, <1>1, <1>2, <1>3, <1>4, ExecTurns DEF TInv

LEMMA EventTrace == ASSUME TInv, NEW e \in Exec, Event(e) PROVE TInv'
<1> USE DEF HasSpan
<1> DEFINE root == Root(e[1])
<1>0. /\ ExecMoves(e, "line") /\ pc[e] = "event" /\ UNCHANGED <<result, local, active>>
      /\ root \in DOMAIN spans /\ spans[root].ended = 0 /\ spans' = Noted(spans, root, e)
      /\ e \notin DOMAIN spans /\ result[e] = "skipped"
  <2>1. pc[e] = "event" /\ phase[e[1]] = "open"
    BY Names DEF Event, Goto, TInv, Types, Turns, Phases
  <2>2. local[e] = root /\ root # None /\ e \notin DOMAIN spans /\ result[e] = "skipped"
    BY <2>1, Names DEF TInv, Traced
  <2> QED
    BY <2>1, <2>2, Names DEF Event, Goto, ExecMoves, PCs, TInv, RootTraced
<1>1. /\ SpansTyped(spans') /\ DOMAIN spans' = DOMAIN spans
      /\ spans'[root].parent = spans[root].parent /\ spans'[root].ended = 0
      /\ spans'[root].skips = spans[root].skips \cup {e}
      /\ \A y \in DOMAIN spans : y # root => spans'[y] = spans[y]
  <2>1. SpansTyped(spans)
    BY DEF TInv, Types
  <2> HIDE DEF root
  <2> QED
    BY <1>0, <2>1, NotedFacts
<1>2. Types'
  BY <1>0, <1>1 DEF TInv, Types, ExecMoves
<1>3. Actives'
  BY <1>0 DEF TInv, Types, Actives, ExecMoves
<1>4. ASSUME NEW t \in Scan PROVE RootTraced(t)'
  BY <1>0, <1>1, Names DEF TInv, Types, RootTraced, ExecMoves, Ends
<1>5. ASSUME NEW f \in Exec PROVE Traced(f)'
  <2>0. f # root
    BY Names
  <2>1. CASE f = e
    <3>1. pc'[f] = "line"
      BY <1>0, <2>1 DEF TInv, Types, ExecMoves
    <3>2. \A x \in DOMAIN spans : f \in spans'[x].skips <=> x = root
      BY <1>0, <1>1, <2>1 DEF TInv, Traced
    <3> QED
      BY <1>0, <1>1, <2>0, <2>1, <3>1, <3>2 DEF TInv, Traced, Statuses
  <2>2. CASE f # e
    <3>1. pc'[f] = pc[f]
      BY <1>0, <2>2 DEF TInv, Types, ExecMoves
    <3> QED
      BY <1>0, <1>1, <2>0, <2>2, <3>1 DEF TInv, Traced
  <2> QED
    BY <2>1, <2>2
<1> QED
  BY <1>0, <1>2, <1>3, <1>4, <1>5, ExecTurns DEF TInv

LEMMA LineTrace == ASSUME TInv, NEW e \in Exec, Line(e) PROVE TInv'
<1> USE DEF HasSpan
<1>0. /\ ExecMoves(e, "done") /\ pc[e] = "line" /\ UNCHANGED <<result, local, spans, active>>
  BY Names DEF Line, Goto, ExecMoves, PCs, TInv, Types, Turns, Phases
<1>1. Types' /\ Actives'
  BY <1>0 DEF TInv, Types, Actives, ExecMoves
<1>2. ASSUME NEW t \in Scan PROVE RootTraced(t)'
  BY <1>0 DEF TInv, Types, RootTraced, ExecMoves
<1>3. ASSUME NEW f \in Exec PROVE Traced(f)'
  BY <1>0 DEF TInv, Types, Traced, ExecMoves
<1> QED
  BY <1>0, <1>1, <1>2, <1>3, ExecTurns DEF TInv

LEMMA NextTrace == TInv /\ [Next]_vars => TInv'
<1> SUFFICES ASSUME TInv, [Next]_vars PROVE TInv'
  OBVIOUS
<1>1. CASE UNCHANGED vars
  BY <1>1 DEF vars, TInv, Types, Turns, Current, Actives, RootTraced, Traced, HasSpan
<1>2. ASSUME NEW s \in Scan, OfScan(s) PROVE TInv'
  BY <1>2, StartScanTrace, SetScanTrace, HeaderTrace, SwapTrace, CloseTrace, FooterTrace DEF OfScan
<1>3. ASSUME NEW e \in Exec, OfExec(e) PROVE TInv'
  BY <1>3, ParentTrace, OpenTrace, TakeTrace, EndTrace, LookTrace, EventTrace, LineTrace DEF OfExec
<1> QED
  BY <1>1, <1>2, <1>3 DEF Next

LEMMA TraceInvariance == Spec => []TInv
<1>1. Init => TInv
  BY InitTrace
<1>2. TInv /\ [Next]_vars => TInv'
  BY NextTrace
<1> QED
  BY <1>1, <1>2, PTL DEF Spec

\* The spans of scans that take turns on an OTelReporter form a tree, each with its own
\* result and closed before its parent (OnScanStart, OnCheckStart, OnCheckComplete and
\* OnScanComplete in reporters/otel.go).
THEOREM SpansFormATree == Spec => []SpanTree
<1>1. TInv => SpanTree
  <2> SUFFICES ASSUME TInv PROVE SpanTree
    OBVIOUS
  <2>1. ASSUME NEW e \in Exec, e \in DOMAIN spans
        PROVE  /\ spans[e].parent = Root(e[1]) /\ spans[e].ended <= 1
               /\ spans[e].ended = 1 => spans[e].status = result[e]
               /\ spans[e].ended = 0 => spans[Root(e[1])].ended = 0
    <3>1. /\ spans[e].parent = Root(e[1]) /\ spans[e].ended \in {0, 1}
          /\ spans[e].ended = 1 => spans[e].status = result[e]
          /\ spans[e].ended = 0 => pc[e] \in {"running", "taken"}
      BY <2>1 DEF TInv, Types, PCs, Traced, HasSpan
    <3>2. pc[e] \in {"running", "taken"} => phase[e[1]] = "open"
      BY Names DEF TInv, Types, Turns, Phases
    <3> QED
      BY <3>1, <3>2, Names DEF TInv, RootTraced
  <2>2. ASSUME NEW s \in Scan, Root(s) \in DOMAIN spans
        PROVE  /\ spans[Root(s)].parent = None
               /\ spans[Root(s)].ended = IF phase[s] \in {"footer", "over"} THEN 1 ELSE 0
    BY <2>2, Names DEF TInv, Types, Phases, RootTraced, Ends
  <2>3. ASSUME NEW s \in Scan, Over(s) PROVE Root(s) \in DOMAIN spans
    BY <2>3 DEF Over, TInv, RootTraced, Ends
  <2> QED
    BY <2>1, <2>2, <2>3 DEF SpanTree
<1> QED
  BY <1>1, TraceInvariance, PTL

\* Every result is in the trace of its own scan once: on its own span if its start was
\* announced, and else as an event of a skip (OnCheckComplete and recordSkipEvent in
\* reporters/otel.go).
THEOREM ResultsAreTraced == Spec => []EveryResultTraced
<1>1. TInv => EveryResultTraced
  <2> SUFFICES ASSUME TInv, NEW e \in Exec, pc[e] \in {"line", "done"}
               PROVE  LET told == {x \in DOMAIN spans : e \in spans[x].skips}
                      IN  IF e \in DOMAIN spans
                          THEN spans[e].ended = 1 /\ spans[e].status = result[e] /\ told = {}
                          ELSE result[e] = "skipped" /\ told = {Root(e[1])}
    BY DEF EveryResultTraced
  <2> QED
    BY DEF TInv, Traced, HasSpan
<1> QED
  BY <1>1, TraceInvariance, PTL

-----------------------------------------------------------------------------
(* The metrics.                                                            *)

ScansEnded == {s \in Scan : phase[s] \in {"footer", "over"}}
WithResult(r) == {e \in Reported : result[e] = r}

IsMetrics == metrics = [executions |-> metrics.executions, durations |-> metrics.durations,
                        scans |-> metrics.scans]

MInv == /\ IsMetrics /\ metrics.executions \in [Statuses -> Nat]
        /\ \A r \in Statuses : metrics.executions[r] = Cardinality(WithResult(r))
        /\ metrics.durations = Cardinality(Reported \cap DOMAIN spans)
        /\ metrics.scans = Cardinality(ScansEnded)

LEMMA AllFinite == /\ IsFiniteSet(Reported) /\ IsFiniteSet(ScansEnded)
                   /\ \A r : IsFiniteSet(WithResult(r))
                   /\ IsFiniteSet(Reported \cap DOMAIN spans)
<1>1. IsFiniteSet(Exec)
  BY ScansAssumption, FS_Product DEF Exec
<1> QED
  BY <1>1, ScansAssumption, FS_Subset DEF Reported, ScansEnded, WithResult

LEMMA InitMetrics == Init => MInv
<1> SUFFICES ASSUME Init PROVE MInv
  OBVIOUS
<1>1. Reported = {} /\ ScansEnded = {} /\ \A r : WithResult(r) = {}
  BY DEF Init, Reported, ScansEnded, WithResult
<1> QED
  BY <1>1, FS_EmptySet DEF Init, MInv, IsMetrics, Statuses

\* A result that is counted is counted once, with a duration if it has a span.
LEMMA CountedMetrics ==
  ASSUME TInv, MInv, NEW e \in Exec, ExecMoves(e, "line"), pc[e] \notin {"line", "done"},
         result[e] \in Statuses, UNCHANGED result, DOMAIN spans' = DOMAIN spans,
         metrics' = Counted(e, HasSpan(e))
  PROVE  MInv'
<1>1. /\ Reported' = Reported \cup {e} /\ e \notin Reported /\ ScansEnded' = ScansEnded
      /\ WithResult(result[e])' = WithResult(result[e]) \cup {e} /\ e \notin WithResult(result[e])
      /\ \A r : r # result[e] => WithResult(r)' = WithResult(r)
  <2>1. /\ \A f \in Exec : f # e => pc'[f] = pc[f]
        /\ pc'[e] = "line" /\ phase' = phase /\ result' = result
    BY DEF TInv, Types, ExecMoves
  <2> QED
    BY <2>1 DEF Reported, ScansEnded, WithResult
<1>2. Cardinality(WithResult(result[e]))' = Cardinality(WithResult(result[e])) + 1
  BY <1>1, AllFinite, FS_AddElement
<1>3. Cardinality(Reported \cap DOMAIN spans)' =
        IF HasSpan(e) THEN Cardinality(Reported \cap DOMAIN spans) + 1
                      ELSE Cardinality(Reported \cap DOMAIN spans)
  <2>1. CASE HasSpan(e)
    <3>1. /\ (Reported \cap DOMAIN spans)' = (Reported \cap DOMAIN spans) \cup {e}
          /\ e \notin Reported \cap DOMAIN spans
      BY <1>1, <2>1 DEF HasSpan
    <3> QED
      BY <2>1, <3>1, AllFinite, FS_AddElement
  <2>2. CASE ~HasSpan(e)
    <3>1. (Reported \cap DOMAIN spans)' = Reported \cap DOMAIN spans
      BY <1>1, <2>2 DEF HasSpan
    <3> QED
      BY <2>2, <3>1
  <2> QED
    BY <2>1, <2>2
<1>4. /\ metrics' = [executions |-> [metrics.executions EXCEPT ![result[e]] = @ + 1],
                     durations |-> IF HasSpan(e) THEN metrics.durations + 1 ELSE metrics.durations,
                     scans |-> metrics.scans]
  BY DEF MInv, IsMetrics, Counted
<1>5. metrics.executions[result[e]] \in Nat
  BY DEF MInv
<1>6. metrics'.executions \in [Statuses -> Nat]
  BY <1>4, <1>5 DEF MInv
<1>7. ASSUME NEW r \in Statuses PROVE metrics'.executions[r] = Cardinality(WithResult(r))'
  <2>1. CASE r = result[e]
    BY <1>2, <1>4, <2>1 DEF MInv
  <2>2. CASE r # result[e]
    BY <1>1, <1>4, <2>2 DEF MInv
  <2> QED
    BY <2>1, <2>2
<1>8. /\ metrics'.durations = Cardinality(Reported \cap DOMAIN spans)'
      /\ metrics'.scans = Cardinality(ScansEnded)'
  BY <1>1, <1>3, <1>4 DEF MInv
<1>9. IsMetrics'
  BY <1>4 DEF IsMetrics
<1> QED
  BY <1>6, <1>7, <1>8, <1>9 DEF MInv

\* A step that counts nothing finishes no scan and reports no result; a span it starts
\* is one of a scan or of an execution that has not reported.
LEMMA QuietMetrics ==
  ASSUME MInv, UNCHANGED metrics, Reported' = Reported, ScansEnded' = ScansEnded,
         \A e \in Reported : result'[e] = result[e] /\ (e \in DOMAIN spans' <=> e \in DOMAIN spans)
  PROVE  MInv'
<1>1. (Reported \cap DOMAIN spans)' = Reported \cap DOMAIN spans
  OBVIOUS
<1>2. \A r : WithResult(r)' = WithResult(r)
  BY DEF WithResult
<1> QED
  BY <1>1, <1>2 DEF MInv, IsMetrics

LEMMA ScanMetrics == ASSUME TInv, MInv, NEW s \in Scan, OfScan(s) PROVE MInv'
<1>1. Reported' = Reported /\ UNCHANGED <<pc, result>>
  BY DEF OfScan, StartScan, SetScan, Header, Swap, Close, Footer, Reported
<1>2. \A e \in Exec : e \in DOMAIN spans' <=> e \in DOMAIN spans
  <2>1. CASE StartScan(s)
    BY <2>1, Names DEF StartScan, Started, Put
  <2>2. CASE Close(s)
    <3>1. DOMAIN spans' \subseteq DOMAIN spans \cup {Root(s)} /\ DOMAIN spans \subseteq DOMAIN spans'
      BY <2>2 DEF Close, Ended, Started, Put
    <3> QED
      BY <3>1, Names
  <2>3. CASE SetScan(s) \/ Header(s) \/ Swap(s) \/ Footer(s)
    BY <2>3 DEF SetScan, Header, Swap, Footer
  <2> QED
    BY <2>1, <2>2, <2>3 DEF OfScan
<1>3. CASE Close(s)
  <2>1. phase[s] = "closing" /\ phase' = [phase EXCEPT ![s] = "footer"]
        /\ metrics' = [metrics EXCEPT !.scans = @ + 1]
    BY <1>3 DEF Close, ScanGoto
  <2>2. ScansEnded' = ScansEnded \cup {s} /\ s \notin ScansEnded
    BY <2>1 DEF ScansEnded, TInv, Types
  <2>3. Cardinality(ScansEnded') = Cardinality(ScansEnded) + 1
    BY <2>2, AllFinite, FS_AddElement
  <2>4. (Reported \cap DOMAIN spans)' = Reported \cap DOMAIN spans
    BY <1>1, <1>2 DEF Reported
  <2>5. \A r : WithResult(r)' = WithResult(r)
    BY <1>1 DEF WithResult
  <2>6. metrics' = [executions |-> metrics.executions, durations |-> metrics.durations,
                    scans |-> metrics.scans + 1]
    BY <2>1 DEF MInv, IsMetrics
  <2> QED
    BY <2>3, <2>4, <2>5, <2>6 DEF MInv, IsMetrics
<1>4. CASE ~Close(s)
  <2>1. UNCHANGED metrics
    BY <1>4 DEF OfScan, StartScan, SetScan, Header, Swap, Footer
  <2>2. ScansEnded' = ScansEnded
    BY <1>4 DEF OfScan, StartScan, SetScan, Header, Swap, Footer, ScanGoto, ScansEnded, TInv, Types
  <2>3. Reported \subseteq Exec
    BY DEF Reported
  <2> QED
    BY <1>1, <1>2, <2>1, <2>2, <2>3, QuietMetrics
<1> QED
  BY <1>3, <1>4

LEMMA ExecMetrics == ASSUME TInv, MInv, NEW e \in Exec, OfExec(e) PROVE MInv'
<1>1. CASE End(e)
  <2>1. pc[e] = "taken" /\ ~Unstarted(e)
    BY <1>1 DEF End, Goto
  <2>2. HasSpan(e) /\ local[e] = e /\ result[e] \in Statuses /\ phase[e[1]] = "open"
    BY <2>1, Found, Names DEF TInv, Types, Turns, Phases, Traced
  <2>3. /\ ExecMoves(e, "line") /\ UNCHANGED result /\ metrics' = Counted(e, TRUE)
        /\ DOMAIN spans' = DOMAIN spans
    BY <1>1, <2>2, Names DEF End, Goto, ExecMoves, PCs, Ended
  <2>4. Counted(e, TRUE) = Counted(e, HasSpan(e))
    BY <2>2 DEF Counted
  <2> QED
    BY <2>1, <2>2, <2>3, <2>4, CountedMetrics
<1>2. CASE Event(e)
  <2>1. pc[e] = "event"
    BY <1>2 DEF Event, Goto
  <2>2. ~HasSpan(e) /\ result[e] \in Statuses /\ phase[e[1]] = "open"
    BY <2>1, Names DEF TInv, Types, Turns, Phases, Traced, Statuses
  <2>3. /\ ExecMoves(e, "line") /\ UNCHANGED result /\ metrics' = Counted(e, FALSE)
        /\ DOMAIN spans' = DOMAIN spans
    BY <1>2, <2>2, Names DEF Event, Goto, ExecMoves, PCs, Noted
  <2>4. Counted(e, FALSE) = Counted(e, HasSpan(e))
    BY <2>2 DEF Counted
  <2> QED
    BY <2>1, <2>2, <2>3, <2>4, CountedMetrics
<1>3. CASE Parent(e) \/ Open(e) \/ Take(e) \/ Look(e) \/ Line(e)
  <2>1. UNCHANGED <<metrics, phase>>
    BY <1>3 DEF Parent, Open, Take, Look, Line
  <2>2. Reported' = Reported
    BY <1>3 DEF Parent, Open, Take, Look, Line, Goto, Reported, TInv, Types
  <2>3. \A f \in Exec : f # e => result'[f] = result[f] /\ (f \in DOMAIN spans' <=> f \in DOMAIN spans)
    BY <1>3 DEF Parent, Open, Take, Look, Line, Started, Put, TInv, Types
  <2>4. e \in Reported => UNCHANGED <<result, spans>>
    BY <1>3 DEF Parent, Open, Take, Look, Line, Goto, Reported
  <2>5. ScansEnded' = ScansEnded /\ Reported \subseteq Exec
    BY <2>1 DEF ScansEnded, Reported
  <2> QED
    BY <2>1, <2>2, <2>3, <2>4, <2>5, QuietMetrics
<1> QED
  BY <1>1, <1>2, <1>3 DEF OfExec

\* Every result is counted once under its status, those that ran have a duration, and
\* every scan has one (OnCheckComplete, recordSkipEvent and OnScanComplete in
\* reporters/otel.go).
THEOREM MetricsAreRight == Spec => []MetricsAgree
<1>1. Init => TInv /\ MInv
  BY InitTrace, InitMetrics
<1>2. (TInv /\ MInv) /\ [Next]_vars => (TInv /\ MInv)'
  <2> SUFFICES ASSUME TInv, MInv, [Next]_vars PROVE TInv' /\ MInv'
    OBVIOUS
  <2>1. TInv'
    BY NextTrace
  <2>2. CASE UNCHANGED vars
    <3>1. Reported' = Reported /\ ScansEnded' = ScansEnded /\ UNCHANGED <<metrics, result, spans>>
      BY <2>2 DEF vars, Reported, ScansEnded
    <3> QED
      BY <2>1, <3>1, QuietMetrics
  <2> QED
    BY <2>1, <2>2, ScanMetrics, ExecMetrics DEF Next
<1>3. TInv /\ MInv => MetricsAgree
  <2> SUFFICES ASSUME MInv PROVE MetricsAgree
    OBVIOUS
  <2>1. DOMAIN metrics.executions = Statuses
    BY DEF MInv
  <2>2. \A r \in Statuses : metrics.executions[r] = Cardinality({e \in Reported : result[e] = r})
    BY DEF MInv, WithResult
  <2>3. metrics.scans = Cardinality({s \in Scan : phase[s] \in {"footer", "over"}})
    BY DEF MInv, ScansEnded
  <2>4. metrics.durations = Cardinality(Reported \cap DOMAIN spans)
    BY DEF MInv
  <2> QED
    BY <2>1, <2>2, <2>3, <2>4 DEF MetricsAgree
<1> QED
  BY <1>1, <1>2, <1>3, PTL DEF Spec

-----------------------------------------------------------------------------
(* The lines.                                                              *)

LineName == Scan \X (Key \cup {"start", "complete"})
OfLine(x) == {i \in DOMAIN lines : lines[i].of = x}

\* The line x is there once if its time has come, and not before.
WrittenOnce(x, done) == IF done THEN \E i \in DOMAIN lines : OfLine(x) = {i} ELSE OfLine(x) = {}

Lines ==
  /\ phase \in [Scan -> Phases] /\ pc \in [Exec -> PCs]
  /\ lines \in Seq([of : LineName, ok : BOOLEAN])

FirstError == IF Lost = {} THEN err = None
                           ELSE \E i \in Lost : err = lines[i].of /\ \A j \in Lost : i <= j

Stops == format = "json" => \A i \in Lost : \A j \in i..Len(lines) : j \in Lost

Offered == /\ \A e \in Exec : WrittenOnce(e, pc[e] = "done")
           /\ \A s \in Scan : WrittenOnce(<<s, "complete">>, phase[s] = "over")

WInv == Lines /\ FirstError /\ Stops /\ Offered

LEMMA LineNames ==
  /\ \A s \in Scan : <<s, "start">> \in LineName /\ <<s, "complete">> \in LineName
  /\ \A e \in Exec : e \in LineName
  /\ None \notin LineName
  /\ \A s \in Scan : \A e \in Exec : <<s, "start">> # e /\ <<s, "complete">> # e
  /\ \A s, t \in Scan : /\ <<s, "start">> # <<t, "complete">>
                        /\ <<s, "complete">> = <<t, "complete">> => s = t
BY NamesAssumption DEF LineName, Exec

LEMMA InitLines == Init => WInv
BY DEF Init, WInv, Lines, FirstError, Stops, Offered, WrittenOnce, OfLine, Lost, Phases, PCs

\* Emit appends one line and remembers the first error; once a JSON line is lost no later
\* one is written.
LEMMA EmitLine ==
  ASSUME WInv, NEW x \in LineName, Emit(x), UNCHANGED format
  PROVE  /\ lines' \in Seq([of : LineName, ok : BOOLEAN]) /\ FirstError' /\ Stops'
         /\ Len(lines') = Len(lines) + 1
         /\ \A y : OfLine(y)' = IF y = x THEN OfLine(y) \cup {Len(lines')} ELSE OfLine(y)
<1> DEFINE n == Len(lines)
<1>1. PICK ok \in BOOLEAN : /\ Write(x, ok) /\ err' = IF ~ok /\ err = None THEN x ELSE err
  BY DEF Emit
<1>2. /\ lines \in Seq([of : LineName, ok : BOOLEAN]) /\ n \in Nat /\ DOMAIN lines = 1..n
      /\ [of |-> x, ok |-> ok] \in [of : LineName, ok : BOOLEAN]
  BY DEF WInv, Lines
<1>3. lines' = Append(lines, [of |-> x, ok |-> ok])
  BY <1>1 DEF Write
<1>4. /\ lines' \in Seq([of : LineName, ok : BOOLEAN]) /\ Len(lines') = n + 1
      /\ DOMAIN lines' = (1..n) \cup {n + 1}
      /\ \A i \in 1..n : lines'[i] = lines[i]
      /\ lines'[n + 1] = [of |-> x, ok |-> ok]
  BY <1>2, <1>3
<1>5. Lost' = IF ok THEN Lost ELSE Lost \cup {n + 1}
  BY <1>2, <1>4 DEF Lost
<1>6. \A i \in Lost : i \in 1..n /\ lines[i].of \in LineName
  <2>1. \A i \in 1..n : lines[i] \in [of : LineName, ok : BOOLEAN]
    <3> DEFINE S == [of : LineName, ok : BOOLEAN]
    <3>1. lines \in Seq(S)
      BY <1>2
    <3> HIDE DEF S
    <3>2. \A i \in 1..Len(lines) : lines[i] \in S
      BY <3>1
    <3> QED
      BY <3>2 DEF S
  <2> QED
    BY <1>2, <2>1 DEF Lost
<1>7. err = None <=> Lost = {}
  BY <1>6, LineNames DEF WInv, FirstError
<1>8. FirstError'
  <2>1. CASE ok
    <3>1. Lost' = Lost /\ err' = err
      BY <1>1, <1>5, <2>1
    <3> QED
      BY <1>4, <1>6, <3>1 DEF WInv, FirstError
  <2>2. CASE ~ok /\ Lost = {}
    <3>1. Lost' = {n + 1} /\ err' = x /\ lines'[n + 1].of = x
      BY <1>1, <1>4, <1>5, <1>7, <2>2
    <3> QED
      BY <1>2, <3>1 DEF FirstError
  <2>3. CASE ~ok /\ Lost # {}
    <3>1. PICK i \in Lost : err = lines[i].of /\ \A j \in Lost : i <= j
      BY <2>3 DEF WInv, FirstError
    <3>2. Lost' = Lost \cup {n + 1} /\ err' = err /\ lines'[i].of = err /\ i <= n + 1
      BY <1>1, <1>2, <1>4, <1>5, <1>6, <1>7, <2>3, <3>1
    <3> QED
      BY <3>1, <3>2 DEF FirstError
  <2> QED
    BY <2>1, <2>2, <2>3
<1>9. Stops'
  <2> SUFFICES ASSUME format = "json", NEW i \in Lost', NEW j \in i..(n + 1) PROVE j \in Lost'
    BY <1>4 DEF Stops
  <2>1. CASE Lost = {}
    BY <1>2, <1>5, <2>1
  <2>2. CASE Lost # {}
    <3>1. ~ok
      BY <1>1, <1>7, <2>2 DEF Write
    <3>2. CASE i = n + 1
      BY <1>2, <1>5, <3>1, <3>2
    <3>3. CASE i \in Lost
      <4>1. j \in i..n => j \in Lost
        BY <3>3 DEF WInv, Stops
      <4> QED
        BY <1>2, <1>5, <1>6, <3>1, <3>3, <4>1
    <3> QED
      BY <1>5, <3>1, <3>2, <3>3
  <2> QED
    BY <2>1, <2>2
<1>10. \A y : OfLine(y)' = IF y = x THEN OfLine(y) \cup {n + 1} ELSE OfLine(y)
  BY <1>2, <1>4 DEF OfLine
<1> QED
  BY <1>4, <1>8, <1>9, <1>10

\* A line keeps its place; a new one is the first with its name.
LEMMA OfferedStays ==
  ASSUME NEW x, NEW y, NEW was \in BOOLEAN, NEW is \in BOOLEAN, WrittenOnce(y, was),
         lines \in Seq([of : LineName, ok : BOOLEAN]), lines' \in Seq([of : LineName, ok : BOOLEAN]),
         Len(lines') = Len(lines) + 1,
         OfLine(y)' = IF y = x THEN OfLine(y) \cup {Len(lines')} ELSE OfLine(y),
         IF y = x THEN ~was /\ is ELSE was = is
  PROVE  WrittenOnce(y, is)'
<1>1. DOMAIN lines = 1..Len(lines) /\ DOMAIN lines' = 1..(Len(lines) + 1) /\ Len(lines) \in Nat
  OBVIOUS
<1>2. CASE y = x
  <2>1. OfLine(y)' = {Len(lines')} /\ Len(lines') \in DOMAIN lines' /\ is
    BY <1>1, <1>2 DEF WrittenOnce
  <2> QED
    BY <2>1 DEF WrittenOnce
<1>3. CASE y # x
  BY <1>1, <1>3 DEF WrittenOnce
<1> QED
  BY <1>2, <1>3

LEMMA HeaderLines == ASSUME WInv, NEW s \in Scan, Header(s) PROVE WInv'
<1> DEFINE x == <<s, "start">>
<1>1. /\ phase[s] = "header" /\ phase' = [phase EXCEPT ![s] = "open"]
      /\ Emit(x) /\ UNCHANGED <<pc, format>>
  BY DEF Header, ScanGoto
<1>2. x \in LineName
  BY LineNames
<1>3. /\ lines' \in Seq([of : LineName, ok : BOOLEAN]) /\ FirstError' /\ Stops'
      /\ Len(lines') = Len(lines) + 1
      /\ \A y : OfLine(y)' = IF y = x THEN OfLine(y) \cup {Len(lines')} ELSE OfLine(y)
  BY <1>1, <1>2, EmitLine
<1>4. Lines'
  BY <1>1, <1>3 DEF WInv, Lines, Phases
<1>5. ASSUME NEW e \in Exec PROVE WrittenOnce(e, pc[e] = "done")'
  <2>1. e # x /\ (pc'[e] = "done") = (pc[e] = "done")
    BY <1>1, LineNames
  <2> QED
    BY <1>3, <2>1, OfferedStays DEF WInv, Lines, Offered
<1>6. ASSUME NEW t \in Scan PROVE WrittenOnce(<<t, "complete">>, phase[t] = "over")'
  <2>1. <<t, "complete">> # x /\ (phase'[t] = "over") = (phase[t] = "over")
    BY <1>1, LineNames DEF WInv, Lines
  <2> QED
    BY <1>3, <2>1, OfferedStays DEF WInv, Lines, Offered
<1> QED
  BY <1>3, <1>4, <1>5, <1>6 DEF WInv, Offered

LEMMA FooterLines == ASSUME WInv, NEW s \in Scan, Footer(s) PROVE WInv'
<1> DEFINE x == <<s, "complete">>
<1>1. /\ phase[s] = "footer" /\ phase' = [phase EXCEPT ![s] = "over"]
      /\ Emit(x) /\ UNCHANGED <<pc, format>>
  BY DEF Footer, ScanGoto
<1>2. x \in LineName
  BY LineNames
<1>3. /\ lines' \in Seq([of : LineName, ok : BOOLEAN]) /\ FirstError' /\ Stops'
      /\ Len(lines') = Len(lines) + 1
      /\ \A y : OfLine(y)' = IF y = x THEN OfLine(y) \cup {Len(lines')} ELSE OfLine(y)
  BY <1>1, <1>2, EmitLine
<1>4. Lines'
  BY <1>1, <1>3 DEF WInv, Lines, Phases
<1>5. ASSUME NEW e \in Exec PROVE WrittenOnce(e, pc[e] = "done")'
  <2>1. e # x /\ (pc'[e] = "done") = (pc[e] = "done")
    BY <1>1, LineNames
  <2> QED
    BY <1>3, <2>1, OfferedStays DEF WInv, Lines, Offered
<1>6. ASSUME NEW t \in Scan PROVE WrittenOnce(<<t, "complete">>, phase[t] = "over")'
  <2>1. IF <<t, "complete">> = x THEN ~(phase[t] = "over") /\ phase'[t] = "over"
                                 ELSE (phase'[t] = "over") = (phase[t] = "over")
    BY <1>1 DEF WInv, Lines
  <2> QED
    BY <1>3, <2>1, OfferedStays DEF WInv, Lines, Offered
<1> QED
  BY <1>3, <1>4, <1>5, <1>6 DEF WInv, Offered

LEMMA LineLines == ASSUME WInv, NEW x \in Exec, Line(x) PROVE WInv'
<1>1. /\ pc[x] = "line" /\ pc' = [pc EXCEPT ![x] = "done"]
      /\ Emit(x) /\ UNCHANGED <<phase, format>>
  BY DEF Line, Goto
<1>2. x \in LineName
  BY LineNames
<1>3. /\ lines' \in Seq([of : LineName, ok : BOOLEAN]) /\ FirstError' /\ Stops'
      /\ Len(lines') = Len(lines) + 1
      /\ \A y : OfLine(y)' = IF y = x THEN OfLine(y) \cup {Len(lines')} ELSE OfLine(y)
  BY <1>1, <1>2, EmitLine
<1>4. Lines'
  BY <1>1, <1>3 DEF WInv, Lines, PCs
<1>5. ASSUME NEW e \in Exec PROVE WrittenOnce(e, pc[e] = "done")'
  <2>1. IF e = x THEN ~(pc[e] = "done") /\ pc'[e] = "done" ELSE (pc'[e] = "done") = (pc[e] = "done")
    BY <1>1 DEF WInv, Lines
  <2> QED
    BY <1>3, <2>1, OfferedStays DEF WInv, Lines, Offered
<1>6. ASSUME NEW t \in Scan PROVE WrittenOnce(<<t, "complete">>, phase[t] = "over")'
  <2>1. <<t, "complete">> # x /\ (phase'[t] = "over") = (phase[t] = "over")
    BY <1>1, LineNames
  <2> QED
    BY <1>3, <2>1, OfferedStays DEF WInv, Lines, Offered
<1> QED
  BY <1>3, <1>4, <1>5, <1>6 DEF WInv, Offered

\* The other steps write nothing, and nothing is over or done by them.
LEMMA QuietLines ==
  ASSUME WInv, UNCHANGED <<format, lines, err>>, Lines',
         \A e \in Exec : pc'[e] = "done" <=> pc[e] = "done",
         \A s \in Scan : phase'[s] = "over" <=> phase[s] = "over"
  PROVE  WInv'
<1>1. Lost' = Lost /\ \A x : OfLine(x)' = OfLine(x)
  BY DEF Lost, OfLine
<1>2. FirstError' /\ Stops'
  BY <1>1 DEF WInv, FirstError, Stops
<1>3. Offered'
  BY <1>1 DEF WInv, Offered, WrittenOnce
<1> QED
  BY <1>2, <1>3 DEF WInv

LEMMA ScanLines == ASSUME WInv, NEW s \in Scan, OfScan(s) PROVE WInv'
<1>1. CASE StartScan(s) \/ SetScan(s) \/ Swap(s) \/ Close(s)
  <2>1. PICK to \in {"starting", "header", "closing", "footer"} :
          /\ phase[s] # "over" /\ phase' = [phase EXCEPT ![s] = to]
          /\ UNCHANGED <<format, pc, lines, err>>
    BY <1>1 DEF StartScan, SetScan, Swap, Close, ScanGoto
  <2>2. Lines'
    BY <2>1 DEF WInv, Lines, Phases
  <2>3. \A t \in Scan : phase'[t] = "over" <=> phase[t] = "over"
    BY <2>1 DEF WInv, Lines
  <2> QED
    BY <2>1, <2>2, <2>3, QuietLines
<1> QED
  BY <1>1, HeaderLines, FooterLines DEF OfScan

LEMMA ExecLines == ASSUME WInv, NEW x \in Exec, OfExec(x) PROVE WInv'
<1>1. CASE Parent(x) \/ Open(x) \/ Take(x) \/ End(x) \/ Look(x) \/ Event(x)
  <2>1. PICK to \in {"parent", "running", "taken", "line", "event"} :
          /\ pc[x] # "done" /\ pc' = [pc EXCEPT ![x] = to]
          /\ UNCHANGED <<format, phase, lines, err>>
    BY <1>1 DEF Parent, Open, Take, End, Look, Event, Goto
  <2>2. Lines'
    BY <2>1 DEF WInv, Lines, PCs
  <2>3. \A e \in Exec : pc'[e] = "done" <=> pc[e] = "done"
    BY <2>1 DEF WInv, Lines
  <2> QED
    BY <2>1, <2>2, <2>3, QuietLines
<1> QED
  BY <1>1, LineLines DEF OfExec

\* The writer remembers the first error, loses nothing else, and is offered every
\* result and every summary once (printf in reporters/text.go, emit in
\* reporters/json.go).
THEOREM WriterKeepsFirstError == Spec => []FirstErrorKept
<1>1. WInv /\ [Next]_vars => WInv'
  <2> SUFFICES ASSUME WInv, [Next]_vars PROVE WInv'
    OBVIOUS
  <2>1. CASE UNCHANGED vars
    BY <2>1, QuietLines DEF vars, WInv, Lines
  <2> QED
    BY <2>1, ScanLines, ExecLines DEF Next
<1>2. WInv => FirstErrorKept
  <2> SUFFICES ASSUME WInv PROVE FirstErrorKept
    OBVIOUS
  <2>1. ASSUME NEW s \in Scan, Over(s), NEW x \in {<<s, "complete">>} \cup {e \in Of(s) : pc[e] = "done"}
        PROVE  Cardinality({i \in DOMAIN lines : lines[i].of = x}) = 1
    <3>1. WrittenOnce(x, TRUE)
      BY <2>1 DEF WInv, Offered, Over, Of, Exec
    <3>2. PICK i \in DOMAIN lines : {j \in DOMAIN lines : lines[j].of = x} = {i}
      BY <3>1 DEF WrittenOnce, OfLine
    <3> QED
      BY <3>2, FS_Singleton
  <2> QED
    BY <2>1 DEF WInv, FirstError, Stops, FirstErrorKept
<1> QED
  BY <1>1, <1>2, InitLines, PTL DEF Spec
=============================================================================
