------------------------------ MODULE MCPrepare ------------------------------
(* Batches that share an ID with one another or with New or that hold an     *)
(* invalid check, over a chain behind a shared check, a cycle, and a chain   *)
(* that leads to an ID that may not be registered.                           *)
EXTENDS Prepare

IDSet == {"a", "b", "c", "d", "bad"}

SomeBatches == {<<"a", "b">>, <<"c", "d">>, <<"b", "c">>, <<"d", "bad">>}
SomeInitial == {<<>>, <<"c">>, <<"a", "a">>}
SomeScenarios == {<<"b", "a", "d", "b">>}

Chain  == [a |-> {"b"}, b |-> {"c"}, c |-> {}, d |-> {"b", "c"}, bad |-> {}]
Cycle  == [a |-> {"b"}, b |-> {"c"}, c |-> {"a"}, d |-> {"d"}, bad |-> {}]
Broken == [a |-> {"b"}, b |-> {"bad"}, c |-> {}, d |-> {"c", "a"}, bad |-> {}]
ThreeGraphs == {Chain, Cycle, Broken}

MCOptions == [only : {{}, {"a"}, {"b", "d"}, {"c"}}, exclude : {{}, {"b"}, {"c", "bad"}},
              kept : {IDSet, {"a"}, {"b", "c"}}]
=============================================================================
