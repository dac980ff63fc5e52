------------------------------ MODULE Prepare ------------------------------
(***************************************************************************)
(* From registrations to the checks of a scan: a Run of the engine         *)
(* (engine.go) copies the checks registered so far under the read lock,    *)
(* while other goroutines register more, and selects among its copy        *)
(* (run_options.go).  A RunScenario selects among the checks of its        *)
(* scenario instead, whatever the engine holds.                            *)
(***************************************************************************)
EXTENDS Engine, RunSelect

CONSTANT Scenarios  \* the ID lists a scenario may have, duplicates included

ASSUME BatchesAssumption == Batches \cup Initial \cup Scenarios \subseteq Seq(ID) /\ Invalid \subseteq ID

VARIABLES seen,     \* the copy of the checks it works on
          scenario  \* the scenario of a RunScenario, None for a Run

callVars == <<seen, scenario>>
vars     == <<engineVars, selectVars, callVars>>

\* The checks of a scenario belong to no batch.
Listed(ids) == [i \in DOMAIN ids |-> [id |-> ids[i], by |-> None]]

Init == /\ EngineInit /\ SelectInit
        /\ seen = <<>> /\ scenario \in Scenarios \cup {None}

\* The copy under the read lock.  The error of New stops the Run before it selects.
Run == /\ phase = "idle" /\ scenario = None /\ lock = None
       /\ phase' = IF initErr THEN "refused" ELSE "select"
       /\ seen' = checks
       /\ Take(IDs(checks))
       /\ UNCHANGED <<engineVars, scenario>>

\* RunScenario takes no lock and does not look at the error of New.
RunScenario == /\ phase = "idle" /\ scenario # None
               /\ phase' = "select"
               /\ seen' = Listed(scenario)
               /\ Take(IDs(seen'))
               /\ UNCHANGED <<engineVars, scenario>>

Next == \/ Registration /\ UNCHANGED <<selectVars, callVars>>
        \/ Selection /\ UNCHANGED <<engineVars, callVars>>
        \/ Run \/ RunScenario

\* The caller's own goroutine goes on, and whoever holds the lock leaves Register; nobody
\* has to register anything.
Spec == /\ Init /\ [][Next]_vars
        /\ WF_vars(Run \/ RunScenario) /\ WF_vars(Selection /\ UNCHANGED <<engineVars, callVars>>)
        /\ WF_vars(Registration /\ lock # None /\ UNCHANGED <<selectVars, callVars>>)

-----------------------------------------------------------------------------

\* The batch of p stands in cs, in one piece.
Places(cs, p) == {i \in DOMAIN cs : cs[i].by = p}
Whole(cs, p)  == \E k \in 0..Len(cs) : /\ Places(cs, p) = {k + i : i \in DOMAIN batch[p]}
                                      /\ \A i \in DOMAIN batch[p] : cs[k + i].id = batch[p][i]

\* "All or nothing" (engine.go:201): a Run that races with a registration works on
\* all the checks of a batch in their order or on none, on none of a batch that was
\* refused, never on two checks with one ID, and on nothing at all when New failed.
\* RunScenario works on its own list, whatever is registered (engine.go:250).
AllOrNothing ==
  IF scenario # None THEN phase = "idle" \/ seen = Listed(scenario)
  ELSE /\ Distinct(seen)
       /\ ~Valid(<<>>, Batch(New)) => phase \in {"idle", "refused"}
       /\ \A p \in Registrar : Places(seen, p) = {} \/ (pc[p] = "registered" /\ Whole(seen, p))

\* Nothing but what the options keep and what that needs: the least set that
\* contains the seeds and every registered dependency that is not excluded.
Kept           == {c \in given : (options.only = {} \/ c \in options.only) /\ c \in options.kept}
ClosedUnder(S) == \A c \in S : (dependsOn[c] \ options.exclude) \cap given \subseteq S

LeastClosure == phase = "done" =>
  LET seeds == Kept \ options.exclude
  IN  /\ seeds \subseteq Filtered /\ ClosedUnder(Filtered)
      /\ \A S \in SUBSET Filtered : seeds \subseteq S /\ ClosedUnder(S) => S = Filtered

\* A Run gets through its selection on every graph, cyclic ones included.
Terminates == <>(phase \in {"done", "refused", "unknown ID"})

=============================================================================
