---------------------------- MODULE LevelsProof ----------------------------
(***************************************************************************)
(* What Scan assumes of the order of the checks, for any set of checks and *)
(* any DependsOn lists: a level depends on earlier levels only, and a      *)
(* check waits for no longer than its dependencies make it.                *)
(*                                                                         *)
(* The inductive invariant ties the counter of the code to the graph:      *)
(* inDegree[c] is the number of list entries of c whose check has not been *)
(* relaxed yet, and a check is queued or placed exactly when none is left. *)
(***************************************************************************)
EXTENDS Levels, FiniteSetTheorems, TLAPS

Relaxed == Placed \ pending
Open(c) == {i \in DOMAIN dependsOn[c] : dependsOn[c][i] \notin Relaxed}

\* While the loop runs, or after it has ended.
Ordering == verdict \in {"order", "ok", "cycle"}

Counted == \A c \in Check : /\ IsFiniteSet(Open(c))
                            /\ inDegree[c] = Cardinality(Open(c))
                            /\ c \in queue \cup Placed <=> Open(c) = {}

\* The checks being relaxed are the last level; those queued after the first
\* level have a dependency on it.
Frontier == /\ pending \subseteq Placed /\ queue \cap Placed = {}
            /\ \A c \in pending : order[c] = depth - 1
            /\ depth > 0 => \A c \in queue : \E d \in Deps(c) \cap Placed : order[d] = depth - 1

Typed == /\ dependsOn \in [Check -> Seq(Check \cup {Unknown})]
         /\ inDegree \in [Check -> Int]
         /\ queue \in SUBSET Check /\ pending \in SUBSET Check
         /\ Placed \in SUBSET Check
         /\ depth \in Nat
         /\ \A c \in Placed : order[c] \in Nat /\ order[c] < depth
         /\ verdict \in {"count", "order", "ok", "cycle", "unknown dependency"}

NotStarted == /\ queue = {} /\ pending = {} /\ Placed = {} /\ depth = 0
              /\ inDegree = [c \in Check |-> 0]

IInv == /\ Typed
        /\ ~Ordering => NotStarted
        /\ Ordering => Counted /\ Frontier
        /\ DependenciesFirst /\ NoNeedlessWait

LEMMA InitIInv == Init => IInv
<1> SUFFICES ASSUME Init PROVE IInv
  OBVIOUS
<1>1. NotStarted /\ verdict = "count"
  BY DEF Init, Placed, NotStarted
<1>2. Typed
  BY <1>1, InputsAssumption DEF Init, Typed, Placed, NotStarted
<1> QED
  BY <1>1, <1>2 DEF IInv, Ordering, NotStarted, DependenciesFirst, NoNeedlessWait

\* Relaxing id takes away the entries that name it.
LEMMA RelaxCounts ==
  ASSUME IInv, NEW id \in pending, Ordering, NEW c \in Check,
         Relaxed' = Relaxed \cup {id}, UNCHANGED dependsOn
  PROVE  /\ Open(c)' = Open(c) \ Entries(c, id)
         /\ Entries(c, id) \subseteq Open(c)
         /\ IsFiniteSet(Open(c)')
         /\ Cardinality(Open(c)') = Cardinality(Open(c)) - Cardinality(Entries(c, id))
<1>1. /\ Open(c)' = Open(c) \ Entries(c, id)
      /\ Entries(c, id) \subseteq Open(c)
  BY DEF Open, Entries, Relaxed
<1>2. IsFiniteSet(Open(c)) /\ IsFiniteSet(Open(c) \ Entries(c, id)) /\ IsFiniteSet(Entries(c, id))
  BY <1>1, FS_Subset DEF IInv, Counted
<1>3. Cardinality(Open(c)) = Cardinality(Open(c) \ Entries(c, id)) + Cardinality(Entries(c, id))
  <2> DEFINE A == Open(c) \ Entries(c, id)
             B == Entries(c, id)
  <2>1. A \cup B = Open(c) /\ A \cap B = {}
    BY <1>1
  <2>2. Cardinality(A \cup B) = Cardinality(A) + Cardinality(B) - Cardinality(A \cap B)
    BY <1>2, FS_Union
  <2>3. Cardinality(A) \in Nat /\ Cardinality(B) \in Nat /\ Cardinality({}) = 0
    BY <1>2, FS_CardinalityType, FS_EmptySet
  <2> HIDE DEF A, B
  <2>4. /\ Cardinality(A \cup B) = Cardinality(Open(c))
        /\ Cardinality(A \cap B) = 0
    BY <2>1, <2>3
  <2>5. Cardinality(Open(c)) = Cardinality(A) + Cardinality(B)
    BY <2>2, <2>3, <2>4
  <2> QED
    BY <2>5 DEF A, B
<1> QED
  BY <1>1, <1>2, <1>3, FS_CardinalityType

LEMMA CountIInv == ASSUME IInv, Count PROVE IInv'
<1>0. /\ Typed /\ NotStarted /\ verdict = "count"
      /\ UNCHANGED <<dependsOn, pending, order, depth>> /\ Placed' = Placed
  BY DEF IInv, Count, Ordering, Placed
<1>1. CASE \E c \in Check : Unknown \in Deps(c)
  <2>1. verdict' = "unknown dependency" /\ UNCHANGED <<inDegree, queue>>
    BY <1>1 DEF Count
  <2> QED
    BY <1>0, <2>1
       DEF IInv, Typed, Ordering, NotStarted, DependenciesFirst, NoNeedlessWait, Placed, Deps
<1>2. CASE ~\E c \in Check : Unknown \in Deps(c)
  <2>1. /\ inDegree' = [c \in Check |-> Len(dependsOn[c])]
        /\ queue' = {c \in Check : inDegree'[c] = 0}
        /\ verdict' = "order"
    BY <1>2 DEF Count, InDegrees
  <2>2. ASSUME NEW c \in Check
        PROVE  /\ Open(c)' = 1..Len(dependsOn[c])
               /\ Len(dependsOn[c]) \in Nat
    BY <1>0 DEF Open, Relaxed, NotStarted, Typed
  <2>3. ASSUME NEW c \in Check
        PROVE  /\ IsFiniteSet(Open(c)')
               /\ inDegree'[c] = Cardinality(Open(c)')
               /\ c \in queue' <=> Open(c)' = {}
    <3> DEFINE n == Len(dependsOn[c])
    <3>1. n \in Nat /\ Open(c)' = 1..n /\ inDegree'[c] = n
      BY <2>1, <2>2
    <3>2. c \in queue' <=> n = 0
      BY <2>1, <3>1
    <3> HIDE DEF n
    <3>3. IsFiniteSet(1..n) /\ Cardinality(1..n) = n
      <4>1. /\ IsFiniteSet(1..n)
            /\ Cardinality(1..n) = IF 1 > n THEN 0 ELSE n - 1 + 1
        BY <3>1, FS_Interval
      <4> QED
        BY <3>1, <4>1
    <3>4. (1..n) = {} <=> n = 0
      BY <3>1
    <3> QED
      BY <3>1, <3>2, <3>3, <3>4
  <2>4. Counted'
    BY <1>0, <2>3 DEF Counted, NotStarted
  <2>5. Typed'
    <3>1. \A c \in Check : Len(dependsOn[c]) \in Int
      BY <2>2
    <3> QED
      BY <1>0, <2>1, <3>1 DEF Typed, NotStarted, Placed
  <2> QED
    BY <1>0, <2>1, <2>4, <2>5
       DEF IInv, Ordering, NotStarted, Frontier, DependenciesFirst, NoNeedlessWait, Placed, Deps
<1> QED
  BY <1>1, <1>2

LEMMA TakeLevelIInv == ASSUME IInv, TakeLevel PROVE IInv'
<1>0. /\ Typed /\ Ordering /\ Counted /\ Frontier /\ DependenciesFirst /\ NoNeedlessWait
      /\ pending = {} /\ pending' = queue /\ queue' = {} /\ depth' = depth + 1
      /\ UNCHANGED <<dependsOn, inDegree, verdict>>
  BY DEF IInv, TakeLevel, Ordering
<1>1. /\ Placed' = Placed \cup queue
      /\ \A c \in queue : order'[c] = depth
      /\ \A c \in Placed : order'[c] = order[c]
  BY <1>0 DEF TakeLevel, Placed, Frontier
<1>2. Relaxed' = Relaxed /\ \A c \in Check : Open(c)' = Open(c)
  BY <1>0, <1>1 DEF Relaxed, Open, Frontier
<1>3. Typed'
  <2>0. /\ \A c \in Placed : order[c] \in Nat /\ order[c] < depth
        /\ Placed \subseteq Check /\ queue \subseteq Check /\ depth \in Nat
    BY <1>0 DEF Typed
  <2>1. \A c \in Placed' : order'[c] \in Nat /\ order'[c] < depth'
    BY <1>0, <1>1, <2>0
  <2>2. Placed' \in SUBSET Check /\ depth' \in Nat
    BY <1>0, <1>1, <2>0
  <2> QED
    BY <1>0, <1>1, <2>1, <2>2 DEF Typed
<1>4. Counted'
  BY <1>0, <1>1, <1>2 DEF Counted
<1>5. Frontier'
  <2>0. depth \in Nat
    BY <1>0 DEF Typed
  <2>1. \A c \in queue : order'[c] = depth' - 1
    BY <1>0, <1>1, <2>0
  <2> QED
    BY <1>0, <1>1, <2>1 DEF Frontier
<1>6. ASSUME NEW c \in queue, NEW d \in Deps(c)
      PROVE  d \in Placed
  <2>1. c \in Check /\ Open(c) = {}
    BY <1>0 DEF Typed, Counted
  <2> QED
    BY <2>1 DEF Open, Relaxed, Deps
<1>7. DependenciesFirst'
  <2> SUFFICES ASSUME NEW c \in Placed', NEW d \in Deps(c)
               PROVE  d \in Placed' /\ order'[d] < order'[c]
    BY <1>0 DEF DependenciesFirst, Deps
  <2>1. CASE c \in Placed
    BY <1>0, <1>1, <2>1 DEF DependenciesFirst
  <2>2. CASE c \in queue
    BY <1>0, <1>1, <1>6, <2>2 DEF Typed
  <2> QED
    BY <1>1, <2>1, <2>2
<1>8. NoNeedlessWait'
  <2> SUFFICES ASSUME NEW c \in Placed', order'[c] > 0
               PROVE  \E d \in Deps(c) : order'[d] = order'[c] - 1
    BY <1>0 DEF NoNeedlessWait, Deps
  <2>1. CASE c \in Placed
    BY <1>0, <1>1, <2>1 DEF NoNeedlessWait, DependenciesFirst
  <2>2. CASE c \in queue
    BY <1>0, <1>1, <2>2 DEF Frontier, Typed
  <2> QED
    BY <1>1, <2>1, <2>2
<1> QED
  BY <1>0, <1>3, <1>4, <1>5, <1>7, <1>8 DEF IInv, Ordering

LEMMA RelaxIInv == ASSUME IInv, NEW id \in Check, Relax(id) PROVE IInv'
<1>0. /\ Typed /\ Counted /\ Frontier /\ DependenciesFirst /\ NoNeedlessWait
      /\ id \in pending /\ Ordering
      /\ UNCHANGED <<dependsOn, order, depth, verdict>> /\ Placed' = Placed
      /\ pending' = pending \ {id}
      /\ queue' = queue \cup {c \in Check : id \in Deps(c) /\ inDegree'[c] = 0}
      /\ inDegree' = [c \in Check |-> inDegree[c] - Cardinality(Entries(c, id))]
  BY DEF IInv, Relax, NotStarted, Placed
<1>1. Relaxed' = Relaxed \cup {id} /\ id \notin Relaxed
  BY <1>0 DEF Relaxed, Frontier
<1>2. ASSUME NEW c \in Check
      PROVE  /\ Open(c)' = Open(c) \ Entries(c, id) /\ Entries(c, id) \subseteq Open(c)
             /\ IsFiniteSet(Open(c)') /\ Cardinality(Open(c)') \in Nat
             /\ inDegree'[c] = Cardinality(Open(c)')
             /\ inDegree'[c] = 0 <=> Open(c)' = {}
  <2>1. /\ Open(c)' = Open(c) \ Entries(c, id) /\ Entries(c, id) \subseteq Open(c)
        /\ IsFiniteSet(Open(c)')
        /\ Cardinality(Open(c)') = Cardinality(Open(c)) - Cardinality(Entries(c, id))
    BY <1>0, <1>1, RelaxCounts
  <2>2. inDegree'[c] = Cardinality(Open(c)')
    BY <1>0, <2>1 DEF Counted
  <2> QED
    BY <2>1, <2>2, FS_EmptySet, FS_CardinalityType
<1>3. ASSUME NEW c \in Check PROVE id \in Deps(c) <=> Entries(c, id) # {}
  BY DEF Deps, Entries
<1>4. Typed'
  <2>1. inDegree' \in [Check -> Int]
    <3>1. \A c \in Check : inDegree'[c] \in Int
      BY <1>2
    <3> QED
      BY <1>0, <3>1
  <2>2. queue' \in SUBSET Check /\ pending' \in SUBSET Check
    BY <1>0 DEF Typed
  <2>3. \A c \in Placed' : order'[c] \in Nat /\ order'[c] < depth'
    BY <1>0 DEF Typed
  <2> QED
    BY <1>0, <2>1, <2>2, <2>3 DEF Typed
<1>5. Counted'
  <2> SUFFICES ASSUME NEW c \in Check
               PROVE  c \in queue' \cup Placed' <=> Open(c)' = {}
    BY <1>2 DEF Counted
  <2>1. CASE id \in Deps(c)
    BY <1>0, <1>2, <1>3, <2>1 DEF Counted
  <2>2. CASE id \notin Deps(c)
    BY <1>0, <1>2, <1>3, <2>2 DEF Counted
  <2> QED
    BY <2>1, <2>2
<1>6. Frontier'
  <2>1. ASSUME NEW c \in Check, id \in Deps(c) PROVE c \notin Placed
    BY <1>0, <1>2, <1>3, <2>1 DEF Counted
  <2>2. id \in Placed /\ order[id] = depth - 1
    BY <1>0 DEF Frontier
  <2> QED
    BY <1>0, <2>1, <2>2 DEF Frontier, Deps
<1> QED
  BY <1>0, <1>4, <1>5, <1>6
     DEF IInv, Ordering, DependenciesFirst, NoNeedlessWait, Deps, Placed

LEMMA NextIInv == IInv /\ [Next]_vars => IInv'
<1> SUFFICES ASSUME IInv, [Next]_vars PROVE IInv'
  OBVIOUS
<1>1. CASE Count
  BY <1>1, CountIInv
<1>2. CASE TakeLevel
  BY <1>2, TakeLevelIInv
<1>3. CASE \E id \in Check : Relax(id)
  BY <1>3, RelaxIInv
<1>4. ASSUME Finish \/ UNCHANGED vars PROVE IInv'
  <2>1. UNCHANGED <<dependsOn, inDegree, queue, pending, order, depth>>
    BY <1>4 DEF Finish, vars
  <2>2. Ordering' = Ordering /\ verdict' \in {"count", "order", "ok", "cycle", "unknown dependency"}
    <3>1. CASE Finish
      BY <3>1 DEF Finish, Ordering
    <3>2. CASE UNCHANGED vars
      BY <3>2 DEF vars, Ordering, IInv, Typed
    <3> QED
      BY <1>4, <3>1, <3>2
  <2>3. Placed' = Placed /\ Relaxed' = Relaxed
    BY <2>1 DEF Placed, Relaxed
  <2>4. Typed' /\ (~Ordering' => NotStarted')
    BY <2>1, <2>2, <2>3 DEF IInv, Typed, NotStarted
  <2>5. Ordering' => Counted' /\ Frontier'
    <3>1. \A c \in Check : Open(c)' = Open(c)
      BY <2>1, <2>3 DEF Open
    <3>2. Ordering' => Counted'
      BY <2>1, <2>2, <2>3, <3>1 DEF IInv, Counted
    <3>3. Frontier' <=> Frontier
      <4>1. \A c \in queue : Deps(c)' = Deps(c)
        BY <2>1 DEF Deps
      <4> QED
        BY <2>1, <2>3, <4>1 DEF Frontier
    <3> QED
      BY <2>2, <3>2, <3>3 DEF IInv
  <2>6. DependenciesFirst' /\ NoNeedlessWait'
    BY <2>1, <2>3 DEF IInv, DependenciesFirst, NoNeedlessWait, Deps
  <2> QED
    BY <2>4, <2>5, <2>6 DEF IInv
<1> QED
  BY <1>1, <1>2, <1>3, <1>4 DEF Next

LEMMA Invariance == SafeSpec => []IInv
BY InitIInv, NextIInv, PTL DEF SafeSpec

\* inDegree is never negative: no entry is taken away twice.
THEOREM LevelsTyped == SafeSpec => []TypeOK
<1>1. IInv => TypeOK
  <2> SUFFICES ASSUME IInv PROVE TypeOK
    OBVIOUS
  <2>1. Typed
    BY DEF IInv
  <2>2. ASSUME NEW c \in Check PROVE inDegree[c] \in Nat
    <3>1. CASE Ordering
      BY <3>1, FS_CardinalityType DEF IInv, Counted
    <3>2. CASE ~Ordering
      BY <3>2 DEF IInv, NotStarted
    <3> QED
      BY <3>1, <3>2
  <2>3. inDegree \in [Check -> Nat]
    BY <2>1, <2>2 DEF Typed
  <2>4. ASSUME NEW c \in Placed PROVE order[c] \in 0..(depth - 1)
    <3>1. order[c] \in Nat /\ order[c] < depth /\ depth \in Nat
      BY <2>1 DEF Typed
    <3> QED
      BY <3>1
  <2> QED
    BY <2>1, <2>3, <2>4 DEF Typed, TypeOK
<1> QED
  BY <1>1, Invariance, PTL

\* Every check of a level depends only on checks of earlier levels (graph.go:9).
THEOREM DependenciesComeFirst == SafeSpec => []DependenciesFirst
BY Invariance, PTL DEF IInv

\* No check is placed on a later level than its dependencies require.
THEOREM EarliestLevel == SafeSpec => []NoNeedlessWait
BY Invariance, PTL DEF IInv

\* A check that has a level keeps it.
THEOREM PlacedForGood == SafeSpec => PlacedOnce
<1> DEFINE Keeps == \A c \in Placed : c \in Placed' /\ order'[c] = order[c]
<1>1. IInv /\ [Next]_vars => [Keeps]_vars
  <2> SUFFICES ASSUME IInv, Next PROVE Keeps
    OBVIOUS
  <2>1. CASE TakeLevel
    <3>1. queue \cap Placed = {}
      BY <2>1 DEF TakeLevel, IInv, Ordering, Frontier
    <3> QED
      BY <2>1, <3>1 DEF TakeLevel, Placed
  <2>2. CASE Count \/ Finish \/ \E id \in Check : Relax(id)
    BY <2>2 DEF Count, Finish, Relax, Placed
  <2> QED
    BY <2>1, <2>2 DEF Next
<1> QED
  BY <1>1, Invariance, PTL DEF SafeSpec, PlacedOnce

-----------------------------------------------------------------------------
(* The verdict.  A blocked set is never entered: the first of its checks   *)
(* to be placed would have had all its dependencies placed before.         *)

HasUnknown == \E c \in Check : Unknown \in Deps(c)

Ends == /\ verdict \in {"ok", "cycle"} => /\ queue = {} /\ pending = {}
                                          /\ verdict = "ok" <=> Placed = Check
        /\ Ordering => ~HasUnknown
        /\ verdict = "unknown dependency" => HasUnknown

BlockedNeverPlaced == \A X \in SUBSET Check : Blocked(X) => X \cap Placed = {}

LEMMA InitEnds == Init => Ends /\ BlockedNeverPlaced
BY DEF Init, Ends, Ordering, BlockedNeverPlaced, Placed

LEMMA NextEnds == IInv /\ Ends /\ BlockedNeverPlaced /\ [Next]_vars => (Ends /\ BlockedNeverPlaced)'
<1> SUFFICES ASSUME IInv, Ends, BlockedNeverPlaced, [Next]_vars PROVE (Ends /\ BlockedNeverPlaced)'
  OBVIOUS
<1>1. dependsOn' = dependsOn
  BY DEF Next, Count, TakeLevel, Relax, Finish, vars
<1>2. HasUnknown' = HasUnknown /\ \A X : Blocked(X)' <=> Blocked(X)
  BY <1>1 DEF HasUnknown, Blocked, Deps
<1>3. CASE Count
  <2>1. Placed' = Placed /\ verdict' = IF HasUnknown THEN "unknown dependency" ELSE "order"
    BY <1>3 DEF Count, Placed, HasUnknown
  <2> QED
    BY <1>2, <2>1 DEF Ends, Ordering, BlockedNeverPlaced
<1>4. CASE TakeLevel
  <2>1. Ordering /\ verdict = "order" /\ verdict' = verdict /\ Placed' = Placed \cup queue
    BY <1>4 DEF TakeLevel, Ordering, Placed
  <2>2. ASSUME NEW X \in SUBSET Check, Blocked(X), NEW c \in X \cap queue PROVE FALSE
    <3>1. PICK d \in Deps(c) : d \in X
      BY <2>2 DEF Blocked
    <3>2. Open(c) = {}
      BY <2>1, <2>2 DEF IInv, Counted
    <3>3. d \in Placed
      BY <3>1, <3>2 DEF Open, Deps, Relaxed
    <3> QED
      BY <2>2, <3>1, <3>3 DEF BlockedNeverPlaced
  <2>3. BlockedNeverPlaced'
    BY <1>2, <2>1, <2>2 DEF BlockedNeverPlaced
  <2> QED
    BY <1>2, <2>1, <2>3 DEF Ends, Ordering
<1>5. CASE \E id \in Check : Relax(id)
  <2>1. Placed' = Placed /\ verdict' = verdict /\ pending # {}
    BY <1>5 DEF Relax, Placed
  <2> QED
    BY <1>2, <2>1 DEF Ends, Ordering, BlockedNeverPlaced
<1>6. CASE Finish
  <2>1. /\ Placed' = Placed /\ queue' = {} /\ pending' = {} /\ Ordering
        /\ verdict' = IF Placed = Check THEN "ok" ELSE "cycle"
    BY <1>6 DEF Finish, Placed, Ordering
  <2> QED
    BY <1>2, <2>1 DEF Ends, Ordering, BlockedNeverPlaced
<1>7. CASE UNCHANGED vars
  <2>1. Placed' = Placed /\ verdict' = verdict /\ queue' = queue /\ pending' = pending
    BY <1>7 DEF vars, Placed
  <2> QED
    BY <1>2, <2>1 DEF Ends, Ordering, BlockedNeverPlaced
<1> QED
  BY <1>3, <1>4, <1>5, <1>6, <1>7 DEF Next

\* A cycle is reported exactly when there is one, and the checks named are those on a cycle
\* or behind one, for any graph (graph.go:62).
THEOREM VerdictIsRight == SafeSpec => []VerdictRight
<1>1. IInv /\ Ends /\ BlockedNeverPlaced => VerdictRight
  <2> SUFFICES ASSUME IInv, Ends, BlockedNeverPlaced PROVE VerdictRight
    OBVIOUS
  <2>1. verdict = "ok" => Placed = Check /\ LargestBlocked = {}
    <3> SUFFICES ASSUME verdict = "ok" PROVE Placed = Check /\ LargestBlocked = {}
      OBVIOUS
    <3>1. Placed = Check
      BY DEF Ends
    <3> QED
      BY <3>1 DEF BlockedNeverPlaced, LargestBlocked
  <2>2. verdict = "cycle" => Stuck = LargestBlocked /\ Stuck # {}
    <3> SUFFICES ASSUME verdict = "cycle" PROVE Stuck = LargestBlocked /\ Stuck # {}
      OBVIOUS
    <3>1. queue = {} /\ pending = {} /\ Placed # Check /\ Ordering /\ ~HasUnknown
      BY DEF Ends, Ordering
    <3>2. Placed \subseteq Check /\ \A c \in Check : Deps(c) \subseteq Check
      <4>1. \A c \in Check : Deps(c) \subseteq Check \cup {Unknown}
        BY DEF IInv, Typed, Deps
      <4> QED
        BY <3>1, <4>1 DEF IInv, Typed, HasUnknown
    <3>3. \A c \in Check : inDegree[c] > 0 <=> Open(c) # {}
      BY <3>1, FS_EmptySet, FS_CardinalityType DEF IInv, Counted
    <3>4. Stuck = Check \ Placed
      BY <3>1, <3>3 DEF Stuck, IInv, Counted
    <3>5. Blocked(Stuck)
      <4> SUFFICES ASSUME NEW c \in Stuck PROVE Deps(c) \cap Stuck # {}
        BY DEF Blocked
      <4>1. PICK i \in DOMAIN dependsOn[c] : c \in Check /\ dependsOn[c][i] \notin Relaxed
        BY <3>3 DEF Stuck, Open
      <4> QED
        BY <3>1, <3>2, <3>4, <4>1 DEF Relaxed, Deps
    <3>6. \A X \in SUBSET Check : Blocked(X) => X \subseteq Stuck
      BY <3>4 DEF BlockedNeverPlaced
    <3>7. Stuck \in SUBSET Check /\ Stuck # {}
      BY <3>1, <3>2, <3>4
    <3> QED
      BY <3>5, <3>6, <3>7 DEF LargestBlocked
  <2>3. verdict = "unknown dependency" <=> verdict # "count" /\ HasUnknown
    BY DEF Ends, Ordering, IInv, Typed
  <2> QED
    BY <2>1, <2>2, <2>3 DEF VerdictRight, HasUnknown
<1> QED
  BY <1>1, InitEnds, NextEnds, Invariance, PTL DEF SafeSpec
=============================================================================
