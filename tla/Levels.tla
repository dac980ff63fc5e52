------------------------------- MODULE Levels -------------------------------
(***************************************************************************)
(* graph.go, levels: Kahn's algorithm, one level at a time.  The input is  *)
(* any assignment of a DependsOn list to every check: lists may be empty,  *)
(* name a check twice, name the check itself, or name a check that is not  *)
(* registered (Unknown).  The queues are sets: the order of the checks     *)
(* inside a level has no meaning, they run concurrently.                   *)
(***************************************************************************)
EXTENDS Naturals, Sequences, FiniteSets

CONSTANTS Check,    \* the checks of the scan, each with its own ID
          Unknown,  \* an ID that names none of them
          Inputs    \* the DependsOn lists considered

ASSUME CheckAssumption  == IsFiniteSet(Check) /\ Check # {} /\ Unknown \notin Check
ASSUME InputsAssumption == Inputs \subseteq [Check -> Seq(Check \cup {Unknown})]

VARIABLES dependsOn,  \* the input
          inDegree,   \* how many entries of its list each check still waits for
          queue,      \* the checks of the next level, found so far
          pending,    \* the checks of the current level still to be relaxed
          order,      \* the level of every check placed so far
          depth,      \* number of levels
          verdict     \* "count" and "order" while running, then what is returned

vars == <<dependsOn, inDegree, queue, pending, order, depth, verdict>>

Entries(c, d) == {i \in DOMAIN dependsOn[c] : dependsOn[c][i] = d}
Deps(c)       == {dependsOn[c][i] : i \in DOMAIN dependsOn[c]}
Placed        == DOMAIN order

Init == /\ dependsOn \in Inputs
        /\ inDegree = [c \in Check |-> 0]
        /\ queue = {} /\ pending = {}
        /\ order = [c \in {} |-> 0]
        /\ depth = 0
        /\ verdict = "count"

\* inDegree counts list entries, so a check named twice counts twice.
InDegrees == [c \in Check |-> Len(dependsOn[c])]

\* The first loop: count the entries, refuse an unknown ID.
Count == /\ verdict = "count"
         /\ IF \E c \in Check : Unknown \in Deps(c)
              THEN verdict' = "unknown dependency" /\ UNCHANGED <<inDegree, queue>>
              ELSE /\ inDegree' = InDegrees
                   /\ queue' = {c \in Check : inDegree'[c] = 0}
                   /\ verdict' = "order"
         /\ UNCHANGED <<dependsOn, pending, order, depth>>

\* Mutant: one check of the queue becomes a level of its own.
TakeOne == /\ verdict = "order" /\ pending = {} /\ queue # {}
           /\ \E id \in queue :
                /\ order' = [c \in Placed \cup {id} |-> IF c = id THEN depth ELSE order[c]]
                /\ pending' = {id} /\ queue' = queue \ {id}
           /\ depth' = depth + 1
           /\ UNCHANGED <<dependsOn, inDegree, verdict>>

\* The queue becomes the next level.
TakeLevel == /\ verdict = "order" /\ pending = {} /\ queue # {}
             /\ order' = [c \in Placed \cup queue |-> IF c \in queue THEN depth ELSE order[c]]
             /\ depth' = depth + 1
             /\ pending' = queue
             /\ queue' = {}
             /\ UNCHANGED <<dependsOn, inDegree, verdict>>

\* Mutants: one decrement for each dependent instead of each entry; a check
\* queued by any decrement.
RelaxOnce(id) ==
  /\ id \in pending
  /\ inDegree' = [c \in Check |-> IF id \in Deps(c) THEN inDegree[c] - 1 ELSE inDegree[c]]
  /\ queue' = queue \cup {c \in Check : id \in Deps(c) /\ inDegree'[c] = 0}
  /\ pending' = pending \ {id}
  /\ UNCHANGED <<dependsOn, order, depth, verdict>>
RelaxEager(id) ==
  /\ id \in pending
  /\ inDegree' = [c \in Check |-> inDegree[c] - Cardinality(Entries(c, id))]
  /\ queue' = queue \cup {c \in Check \ Placed : id \in Deps(c)}
  /\ pending' = pending \ {id}
  /\ UNCHANGED <<dependsOn, order, depth, verdict>>

\* One check of the level lets go of its dependents, once for every entry; the
\* decrement that reaches zero queues the dependent.
Relax(id) == /\ id \in pending
             /\ inDegree' = [c \in Check |-> inDegree[c] - Cardinality(Entries(c, id))]
             /\ queue' = queue \cup {c \in Check : id \in Deps(c) /\ inDegree'[c] = 0}
             /\ pending' = pending \ {id}
             /\ UNCHANGED <<dependsOn, order, depth, verdict>>

\* Mutant: the loop runs until every check is placed.
FinishWhenPlaced == /\ verdict = "order" /\ pending = {} /\ queue = {} /\ Placed = Check
                    /\ verdict' = "ok"
                    /\ UNCHANGED <<dependsOn, inDegree, queue, pending, order, depth>>

\* The queue ran dry: every check was placed, or some can never be.
Finish == /\ verdict = "order" /\ pending = {} /\ queue = {}
          /\ verdict' = IF Placed = Check THEN "ok" ELSE "cycle"
          /\ UNCHANGED <<dependsOn, inDegree, queue, pending, order, depth>>

Next == Count \/ TakeLevel \/ Finish \/ \E id \in Check : Relax(id)

SafeSpec == Init /\ [][Next]_vars
Spec     == SafeSpec /\ WF_vars(Next)

-----------------------------------------------------------------------------

\* Every variable has its type; a placed check is on a level that exists.
TypeOK == /\ dependsOn \in [Check -> Seq(Check \cup {Unknown})]
          /\ inDegree \in [Check -> Nat]
          /\ queue \in SUBSET Check /\ pending \in SUBSET Check
          /\ Placed \in SUBSET Check
          /\ depth \in Nat
          /\ \A c \in Placed : order[c] \in 0..(depth - 1)
          /\ verdict \in {"count", "order", "ok", "cycle", "unknown dependency"}

\* Every check of a level depends only on checks of earlier levels, so the
\* snapshot a level runs against holds the results it waits for.
DependenciesFirst ==
  \A c \in Placed : \A d \in Deps(c) : d \in Placed /\ order[d] < order[c]

\* No check waits longer than it must: a check off the first level has a
\* dependency on the level just before its own.
NoNeedlessWait ==
  \A c \in Placed : order[c] > 0 => \E d \in Deps(c) : order[d] = order[c] - 1

\* A check is placed for good: no later level takes it again.
PlacedOnce == [][\A c \in Placed : c \in Placed' /\ order'[c] = order[c]]_vars

\* The checks named in the ErrCycleDetected error.
Stuck == {c \in Check : inDegree[c] > 0}

\* The verdict is the right one, a cycle being a set of checks each of which
\* waits for another of the set, and the checks named as stuck are the largest
\* such set, that is every check on a cycle or behind one.
Blocked(X)  == \A c \in X : Deps(c) \cap X # {}
LargestBlocked == UNION {X \in SUBSET Check : Blocked(X)}

VerdictRight ==
  /\ verdict = "ok" => Placed = Check /\ LargestBlocked = {}
  /\ verdict = "cycle" => Stuck = LargestBlocked /\ Stuck # {}
  /\ verdict = "unknown dependency" <=>
       verdict # "count" /\ \E c \in Check : Unknown \in Deps(c)

\* The loop ends on every input, cyclic ones included.
Terminates == <>(verdict \notin {"count", "order"})
=============================================================================
