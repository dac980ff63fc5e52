------------------------------ MODULE ScanProof ------------------------------
(***************************************************************************)
(* Safety of Scan for any number of checks, resources and slots, any       *)
(* dependency graph whose levels are in order, and any outcome of the      *)
(* checks.  The invariants come in layers, each proved from the ones       *)
(* before it.                                                              *)
(*                                                                         *)
(* The barrier: while the level loop waits, the checks of the earlier      *)
(* levels are done, those of the later ones have not begun, and a resource *)
(* runs only while its check fans out.  What is in the store follows from  *)
(* where the goroutines are, and what is in the snapshot from what was in  *)
(* the store when the level was opened.                                    *)
(*                                                                         *)
(* The slots: the semaphores bound the units that hold one, the options    *)
(* bound the code that runs, and a check keeps its own slot until all its  *)
(* resources are done.                                                     *)
(*                                                                         *)
(* Types and callbacks: what the reporters were told about a unit is       *)
(* decided by where its goroutine is.                                      *)
(*                                                                         *)
(* Entries: resources are only ever appended; a rolled-up result agrees    *)
(* with the stored results it was made of, because it is made when they    *)
(* can change no more; and every check, or every resource it fans out      *)
(* over, has exactly one entry in the summary: the resources that fan-out  *)
(* reads are those that the recorded units of earlier levels found, which  *)
(* holds because the snapshot is taken where no goroutine runs.            *)
(*                                                                         *)
(* Sums: what the snapshot and the summary add up is what the units with   *)
(* an entry observed, and the completions are as many as were announced.   *)
(* They rest on lemmas about sums over finite sets, which stand before     *)
(* them.                                                                   *)
(***************************************************************************)
EXTENDS Scan, FiniteSetTheorems, WellFoundedInduction, TLAPS

Phases == {"start", "level", "wait", "drain", "final", "done"}

ControlTypes == /\ phase \in Phases
                /\ level \in Nat /\ level <= Depth
                /\ phase = "wait" => level < Depth
                /\ pc \in [Unit -> PCs]

\* Where the goroutines of the checks are, seen from the level loop.
Barrier ==
  /\ phase = "start" => level = 0 /\ \A u \in Unit : pc[u] = "idle"
  /\ \A c \in Check :
       /\ phase \in {"level", "wait", "drain"} /\ Order[c] < level => pc[U(c)] = "done"
       /\ phase = "level" /\ Order[c] >= level => pc[U(c)] = "idle"
       /\ phase = "wait" /\ Order[c] = level   => pc[U(c)] # "idle"
       /\ phase = "wait" /\ Order[c] > level   => pc[U(c)] = "idle"
       /\ phase \in {"drain", "final", "done"} => pc[U(c)] \in {"idle", "done"}

\* A resource runs only while its check fans out.
FansInside == \A v \in Unit : ~IsGlobal(v) /\ pc[v] # "idle" =>
  /\ pc[U(v[1])] \in {"fan", "exit", "done"}
  /\ pc[U(v[1])] # "fan" => pc[v] = "done"

Control == ControlTypes /\ Barrier /\ FansInside

-----------------------------------------------------------------------------
(* Units.                                                                  *)

LEMMA UnitFacts ==
  /\ \A c \in Check : U(c) \in Unit /\ IsGlobal(U(c)) /\ U(c)[1] = c
  /\ \A u \in Unit : u[1] \in Check /\ U(u[1]) \in Unit
  /\ \A u \in Unit : IsGlobal(u) => u = U(u[1])
  /\ \A u \in Unit : ~IsGlobal(u) => u # U(u[1]) /\ u \in Fan(u[1])
  /\ \A c \in Check : \A v \in Fan(c) : v \in Unit /\ v[1] = c /\ ~IsGlobal(v)
BY SetsAssumption DEF Unit, U, IsGlobal, Fan

LEMMA OrderFacts == \A c \in Check : Order[c] \in Nat /\ Order[c] < Depth
BY OrderAssumption

\* A goroutine that runs belongs to the level the loop waits for.
LEMMA Active ==
  ASSUME Control, NEW u \in Unit, pc[u] \notin {"idle", "done"}
  PROVE  /\ phase = "wait" /\ Order[u[1]] = level
         /\ pc[U(u[1])] \notin {"idle", "done"}
<1> DEFINE c == u[1]
<1>1. c \in Check /\ U(c) \in Unit
  BY UnitFacts
<1>2. pc[U(c)] \notin {"idle", "done"}
  BY UnitFacts DEF Control, FansInside
<1>3. phase \in Phases /\ level \in Nat /\ Order[c] \in Nat
  BY <1>1, OrderFacts DEF Control, ControlTypes
<1>4. phase = "wait"
  BY <1>1, <1>2, <1>3 DEF Control, Barrier, Phases
<1>5. Order[c] = level
  BY <1>1, <1>2, <1>3, <1>4 DEF Control, Barrier
<1> QED
  BY <1>2, <1>4, <1>5

-----------------------------------------------------------------------------
(* Control.                                                                *)

LEMMA InitControl == Init => Control
<1> SUFFICES ASSUME Init PROVE Control
  OBVIOUS
<1>1. ControlTypes
  BY OrderAssumption DEF Init, ControlTypes, Phases, PCs
<1>2. \A u \in Unit : pc[u] = "idle"
  BY DEF Init
<1> QED
  BY <1>1, <1>2, UnitFacts DEF Init, Control, Barrier, FansInside

\* What a step of a goroutine does to the control state, FanOut apart.
Moves(u, to) == /\ pc[u] \notin {"idle", "done"} /\ to \in PCs /\ to \notin {"idle", "fan"}
                /\ pc' = [pc EXCEPT ![u] = to]
                /\ to = "done" <=> pc[u] = "exit"
                /\ pc[u] = "fan" => /\ to = "exit" /\ IsGlobal(u)
                                    /\ \A v \in Spawned(u[1]) : pc[v] = "done"
                /\ UNCHANGED mainVars

LEMMA StepMoves ==
  ASSUME ControlTypes, NEW u \in Unit, Step(u)
  PROVE  FanOut(u) \/ \E to \in PCs : Moves(u, to)
<1>1. CASE Acquire(u)
  BY <1>1 DEF Acquire, Goto, Moves, PCs
<1>2. CASE Refuse(u) \/ Skip(u) \/ NoResources(u)
  BY <1>2 DEF Refuse, Skip, NoResources, Goto, Moves, PCs
<1>3. CASE Start(u)
  BY <1>3 DEF Start, Goto, Moves, PCs
<1>4. CASE Return(u)
  BY <1>4 DEF Return, Goto, Moves, PCs
<1>5. CASE Set(u) \/ Merge(u)
  BY <1>5 DEF Set, Merge, Goto, Moves, PCs
<1>6. CASE Report(u) \/ Count(u) \/ Exit(u)
  BY <1>6 DEF Report, Count, Exit, Goto, Moves, PCs
<1>7. CASE FanIn(u)
  BY <1>7 DEF FanIn, Goto, Moves, PCs
<1> QED
  BY <1>1, <1>2, <1>3, <1>4, <1>5, <1>6, <1>7 DEF Step

LEMMA MovesControl ==
  ASSUME Control, NEW u \in Unit, NEW to \in PCs, Moves(u, to)
  PROVE  Control'
<1> DEFINE c == u[1]
<1>1. /\ phase = "wait" /\ Order[c] = level
      /\ pc[U(c)] \notin {"idle", "done"} /\ c \in Check
  BY Active, UnitFacts DEF Moves
<1>2. /\ phase' = phase /\ level' = level
      /\ pc' \in [Unit -> PCs] /\ pc'[u] = to
      /\ \A v \in Unit : v # u => pc'[v] = pc[v]
  BY DEF Moves, mainVars, Control, ControlTypes
<1>3. ControlTypes'
  BY <1>2 DEF Control, ControlTypes
<1>4. Barrier'
  <2> SUFFICES ASSUME NEW d \in Check
               PROVE  /\ Order[d] < level => pc'[U(d)] = "done"
                      /\ Order[d] = level => pc'[U(d)] # "idle"
                      /\ Order[d] > level => pc'[U(d)] = "idle"
    BY <1>1, <1>2 DEF Barrier
  <2>1. CASE d = c
    BY <1>1, <1>2, <2>1, OrderFacts, UnitFacts DEF Moves, Control, ControlTypes
  <2>2. CASE d # c
    <3>1. U(d) # u /\ U(d) \in Unit
      BY <2>2, UnitFacts
    <3> QED
      BY <1>1, <1>2, <3>1 DEF Control, Barrier
  <2> QED
    BY <2>1, <2>2
<1>5. FansInside'
  <2> SUFFICES ASSUME NEW v \in Unit, ~IsGlobal(v), pc'[v] # "idle"
               PROVE  /\ pc'[U(v[1])] \in {"fan", "exit", "done"}
                      /\ pc'[U(v[1])] # "fan" => pc'[v] = "done"
    BY DEF FansInside
  <2>1. U(v[1]) \in Unit /\ v # U(v[1]) /\ v \in Fan(v[1])
    BY UnitFacts
  <2>2. CASE v = u
    BY <1>2, <2>1, <2>2 DEF Control, FansInside, Moves
  <2>3. CASE v # u /\ U(v[1]) # u
    BY <1>2, <2>1, <2>3 DEF Control, FansInside
  <2>4. CASE v # u /\ U(v[1]) = u
    <3>1. v[1] = c /\ pc'[v] = pc[v] /\ pc[u] \in {"fan", "exit", "done"}
      BY <1>2, <2>1, <2>4, UnitFacts DEF Control, FansInside
    <3>2. CASE pc[u] = "fan"
      <4>1. v \in Spawned(c)
        BY <1>2, <2>1, <3>1 DEF Spawned
      <4> QED
        BY <1>2, <2>4, <3>1, <3>2, <4>1 DEF Moves
    <3>3. CASE pc[u] = "exit"
      <4>1. pc[v] = "done"
        BY <2>4, <3>1, <3>3 DEF Control, FansInside
      <4> QED
        BY <1>2, <2>4, <3>1, <3>3, <4>1 DEF Moves
    <3> QED
      BY <3>1, <3>2, <3>3 DEF Moves
  <2> QED
    BY <2>2, <2>3, <2>4
<1> QED
  BY <1>3, <1>4, <1>5 DEF Control

LEMMA FanOutControl ==
  ASSUME Control, NEW u \in Unit, FanOut(u)
  PROVE  Control'
<1> DEFINE c == u[1]
<1>1. /\ phase = "wait" /\ Order[c] = level /\ c \in Check
      /\ IsGlobal(u) /\ u = U(c) /\ pc[u] = "decide"
  BY Active, UnitFacts DEF FanOut
<1>2. /\ phase' = phase /\ level' = level
      /\ pc' \in [Unit -> PCs] /\ pc'[u] = "fan"
      /\ \A v \in Unit : v[1] # c => pc'[v] = pc[v]
      /\ \A v \in Unit : v # u /\ IsGlobal(v) => pc'[v] = pc[v]
  <2>1. \A v \in Unit : IsGlobal(v) /\ v[1] = c => v = u
    BY <1>1, UnitFacts
  <2>2. \A v \in Unit : IsGlobal(v) => v[2] = None
    BY DEF IsGlobal
  <2>3. None \notin Range(snapshot.resources) \/ None \in Range(snapshot.resources)
    OBVIOUS
  <2>4. pc' \in [Unit -> PCs]
    BY <1>1 DEF FanOut, Control, ControlTypes, PCs
  <2> QED
    BY <1>1, <2>1, <2>2, <2>4 DEF FanOut, mainVars
<1>3. ControlTypes'
  BY <1>2 DEF Control, ControlTypes
<1>4. Barrier'
  <2> SUFFICES ASSUME NEW d \in Check
               PROVE  /\ Order[d] < level => pc'[U(d)] = "done"
                      /\ Order[d] = level => pc'[U(d)] # "idle"
                      /\ Order[d] > level => pc'[U(d)] = "idle"
    BY <1>1, <1>2 DEF Barrier
  <2>1. CASE d = c
    BY <1>1, <1>2, <2>1, OrderFacts DEF Control, ControlTypes
  <2>2. CASE d # c
    <3>1. U(d) # u /\ U(d) \in Unit /\ IsGlobal(U(d))
      BY <1>1, <2>2, UnitFacts
    <3> QED
      BY <1>1, <1>2, <3>1 DEF Control, Barrier
  <2> QED
    BY <2>1, <2>2
<1>5. FansInside'
  <2> SUFFICES ASSUME NEW v \in Unit, ~IsGlobal(v), pc'[v] # "idle"
               PROVE  /\ pc'[U(v[1])] \in {"fan", "exit", "done"}
                      /\ pc'[U(v[1])] # "fan" => pc'[v] = "done"
    BY DEF FansInside
  <2>1. CASE v[1] = c
    BY <1>1, <1>2, <2>1
  <2>2. CASE v[1] # c
    <3>1. pc'[v] = pc[v] /\ U(v[1]) # u /\ U(v[1]) \in Unit /\ IsGlobal(U(v[1]))
      BY <1>1, <1>2, <2>2, UnitFacts
    <3> QED
      BY <1>2, <3>1 DEF Control, FansInside
  <2> QED
    BY <2>1, <2>2
<1> QED
  BY <1>3, <1>4, <1>5 DEF Control

LEMMA MainControl ==
  ASSUME Control, Cancel \/ Main \/ UNCHANGED vars
  PROVE  Control'
<1>1. /\ phase \in Phases /\ level \in Nat /\ level <= Depth /\ pc \in [Unit -> PCs]
      /\ Depth \in Nat
  BY OrderAssumption DEF Control, ControlTypes
<1>2. CASE Cancel \/ UNCHANGED vars
  BY <1>2 DEF Cancel, vars, mainVars, Control, ControlTypes, Barrier, FansInside
<1>3. CASE Reject
  <2>1. \A c \in Check : pc[U(c)] = "idle"
    BY <1>3, UnitFacts DEF Reject, Control, Barrier
  <2> QED
    BY <1>1, <1>3, <2>1 DEF Reject, Control, ControlTypes, Barrier, FansInside, Phases
<1>4. CASE Begin
  <2>1. level = 0 /\ \A u \in Unit : pc[u] = "idle"
    BY <1>4 DEF Begin, Control, Barrier
  <2>2. \A c \in Check : pc[U(c)] = "idle" /\ Order[c] \in Nat /\ ~(Order[c] < 0)
    BY <2>1, UnitFacts, OrderFacts
  <2> QED
    BY <1>1, <1>4, <2>1, <2>2 DEF Begin, Control, ControlTypes, Barrier, FansInside, Phases
<1>5. CASE OpenLevel
  <2>1. /\ phase = "level" /\ phase' = "wait" /\ level' = level /\ level < Depth
        /\ pc' \in [Unit -> PCs]
        /\ \A u \in Unit : pc'[u] = IF IsGlobal(u) /\ Order[u[1]] = level THEN "acquire" ELSE pc[u]
    BY <1>1, <1>5 DEF OpenLevel, PCs
  <2>2. \A c \in Check : pc'[U(c)] = IF Order[c] = level THEN "acquire" ELSE pc[U(c)]
    BY <2>1, UnitFacts
  <2>3. Barrier'
    BY <1>1, <2>1, <2>2, OrderFacts DEF Control, Barrier
  <2>4. FansInside'
    <3> SUFFICES ASSUME NEW v \in Unit, ~IsGlobal(v), pc'[v] # "idle"
                 PROVE  /\ pc'[U(v[1])] \in {"fan", "exit", "done"}
                        /\ pc'[U(v[1])] # "fan" => pc'[v] = "done"
      BY DEF FansInside
    <3>1. v[1] \in Check /\ pc'[v] = pc[v]
      BY <2>1, UnitFacts
    <3>2. pc[U(v[1])] # "idle" /\ Order[v[1]] # level
      BY <1>1, <2>1, <3>1, OrderFacts DEF Control, FansInside, Barrier
    <3> QED
      BY <2>2, <3>1, <3>2 DEF Control, FansInside
  <2> QED
    BY <1>1, <2>1, <2>3, <2>4 DEF Control, ControlTypes, Phases
<1>6. CASE CloseLevel
  <2>1. /\ phase = "wait" /\ phase' = "level" /\ level' = level + 1 /\ pc' = pc /\ level < Depth
        /\ \A c \in Check : Order[c] = level => pc[U(c)] = "done"
    BY <1>6 DEF CloseLevel, AtLevel, Control, ControlTypes
  <2>2. Barrier'
    BY <1>1, <2>1, OrderFacts DEF Control, Barrier
  <2> QED
    BY <1>1, <2>1, <2>2 DEF Control, ControlTypes, FansInside, Phases
<1>7. CASE Abandon
  <2>1. phase = "level" /\ phase' = "drain" /\ level' = level /\ pc' = pc
    BY <1>7 DEF Abandon
  <2>2. Barrier'
    BY <1>1, <2>1, OrderFacts DEF Control, Barrier
  <2> QED
    BY <1>1, <2>1, <2>2 DEF Control, ControlTypes, FansInside, Phases
<1>8. CASE EndLoop
  <2>1. phase \in {"level", "drain"} /\ phase' = "final" /\ level' = level /\ pc' = pc
    BY <1>8 DEF EndLoop
  <2>2. Barrier'
    BY <1>1, <2>1, OrderFacts DEF Control, Barrier
  <2> QED
    BY <1>1, <2>1, <2>2 DEF Control, ControlTypes, FansInside, Phases
<1>9. CASE Finalize
  BY <1>1, <1>9 DEF Finalize, Control, ControlTypes, Barrier, FansInside, Phases
<1>10. ASSUME NEW c \in Check, RecordCancelled(c) PROVE Control'
  <2>1. /\ phase = "drain" /\ phase' = phase /\ level' = level
        /\ Order[c] >= level /\ pc[U(c)] = "idle"
        /\ pc' \in [Unit -> PCs] /\ pc'[U(c)] = "done"
        /\ \A u \in Unit : u # U(c) => pc'[u] = pc[u]
    BY <1>1, <1>10, UnitFacts DEF RecordCancelled, Undrained, mainVars, PCs
  <2>2. Barrier'
    BY <1>1, <2>1, UnitFacts DEF Control, Barrier
  <2>3. FansInside'
    <3> SUFFICES ASSUME NEW v \in Unit, ~IsGlobal(v), pc'[v] # "idle"
                 PROVE  /\ pc'[U(v[1])] \in {"fan", "exit", "done"}
                        /\ pc'[U(v[1])] # "fan" => pc'[v] = "done"
      BY DEF FansInside
    <3>1. v # U(c) /\ pc'[v] = pc[v] /\ U(v[1]) \in Unit
      BY <2>1, UnitFacts
    <3>2. U(v[1]) # U(c)
      BY <2>1, <3>1 DEF Control, FansInside
    <3> QED
      BY <2>1, <3>1, <3>2 DEF Control, FansInside
  <2> QED
    BY <1>1, <2>1, <2>2, <2>3 DEF Control, ControlTypes
<1> QED
  BY <1>2, <1>3, <1>4, <1>5, <1>6, <1>7, <1>8, <1>9, <1>10 DEF Main

LEMMA NextControl == Control /\ [Next]_vars => Control'
<1> SUFFICES ASSUME Control, [Next]_vars PROVE Control'
  OBVIOUS
<1>1. ASSUME NEW u \in Unit, Step(u) PROVE Control'
  BY <1>1, StepMoves, MovesControl, FanOutControl DEF Control
<1> QED
  BY <1>1, MainControl DEF Next, Progress

-----------------------------------------------------------------------------
(* The store and the snapshot.                                             *)

IsStore(s) == s = [results    |-> s.results,    perRes    |-> s.perRes,
                   aggregates |-> s.aggregates, resources |-> s.resources]

\* A check has a check-level result from the moment its goroutine stored it.
StoredWhen ==
  /\ \A c \in Check : Has(store, c) <=> pc[U(c)] \in {"merge", "report", "count", "exit", "done"}
  /\ \A v \in Unit : v \in DOMAIN store.perRes => ~IsGlobal(v) /\ pc[v] # "idle"

\* The snapshot of the level that runs: the final results of the earlier levels.
SnapshotHolds == phase = "wait" => \A d \in Check :
  /\ Order[d] < level => Has(snapshot, d) /\ Get(snapshot, d) = Get(store, d)
  /\ Order[d] >= level => ~Has(snapshot, d) /\ Fan(d) \cap DOMAIN snapshot.perRes = {}

Data == IsStore(store) /\ IsStore(snapshot) /\ StoredWhen /\ SnapshotHolds

IInv == Control /\ Data

\* What two stores say of one check.
SameFor(s, t, d) == /\ Has(s, d) <=> Has(t, d)
                    /\ Has(s, d) => Get(s, d) = Get(t, d)

\* Storing the result of u changes nothing for the other checks.
LEMMA StoredFacts ==
  ASSUME NEW s, IsStore(s), NEW u \in Unit, NEW r
  PROVE  /\ IsStore(Stored(s, u, r))
         /\ \A d \in Check : d # u[1] \/ ~IsGlobal(u) => SameFor(Stored(s, u, r), s, d)
         /\ IsGlobal(u) => Has(Stored(s, u, r), u[1])
         /\ \A v \in DOMAIN Stored(s, u, r).perRes : v \in DOMAIN s.perRes \/ (v = u /\ ~IsGlobal(u))
<1> DEFINE t == Stored(s, u, r)
<1>1. CASE IsGlobal(u)
  <2>1. t = [results    |-> Put(s.results, u[1], r), perRes    |-> s.perRes,
             aggregates |-> s.aggregates,            resources |-> s.resources]
    BY <1>1 DEF Stored, IsStore
  <2>2. \A d \in Check : d # u[1] => SameFor(t, s, d)
    <3> SUFFICES ASSUME NEW d \in Check, d # u[1] PROVE SameFor(t, s, d)
      OBVIOUS
    <3>1. d \in DOMAIN t.results <=> d \in DOMAIN s.results
      BY <2>1 DEF Put
    <3>2. d \in DOMAIN s.results => t.results[d] = s.results[d]
      BY <2>1 DEF Put
    <3> QED
      BY <2>1, <3>1, <3>2 DEF SameFor, Has, Get
  <2>3. Has(t, u[1])
    BY <2>1 DEF Put, Has
  <2> QED
    BY <1>1, <2>1, <2>2, <2>3 DEF IsStore
<1>2. CASE ~IsGlobal(u)
  <2>1. t = [results    |-> s.results,    perRes    |-> Put(s.perRes, u, r),
             aggregates |-> s.aggregates, resources |-> s.resources]
    BY <1>2 DEF Stored, IsStore
  <2> QED
    BY <1>2, <2>1 DEF Put, IsStore, SameFor, Has, Get
<1> QED
  BY <1>1, <1>2

\* A step of the goroutine of u changes the store for its own check only.
Writes(u) ==
  /\ IsStore(store') /\ snapshot' = snapshot
  /\ \A d \in Check : SameFor(store', store, d) \/ (d = u[1] /\ IsGlobal(u))
  /\ IsGlobal(u) => (Has(store', u[1]) <=> pc'[u] \in {"merge", "report", "count", "exit", "done"})
  /\ \A v \in DOMAIN store'.perRes : v \in DOMAIN store.perRes \/ (v = u /\ ~IsGlobal(u))

LEMMA StepWrites ==
  ASSUME Control, IsStore(store), StoredWhen, NEW u \in Unit, Step(u)
  PROVE  Writes(u)
<1>1. /\ pc \in [Unit -> PCs] /\ u[1] \in Check
      /\ IsGlobal(u) => u = U(u[1])
      /\ IsGlobal(u) => (Has(store, u[1]) <=> pc[u] \in {"merge", "report", "count", "exit", "done"})
  BY UnitFacts DEF Control, ControlTypes, StoredWhen
<1>2. ASSUME UNCHANGED <<mainVars, store>>,
             IsGlobal(u) => (pc[u]  \in {"merge", "report", "count", "exit", "done"} <=>
                             pc'[u] \in {"merge", "report", "count", "exit", "done"})
      PROVE  Writes(u)
  BY <1>1, <1>2 DEF Writes, SameFor, mainVars
<1>3. CASE Acquire(u) \/ Refuse(u) \/ Skip(u) \/ NoResources(u) \/ Start(u) \/ Return(u)
  BY <1>1, <1>2, <1>3 DEF Acquire, Refuse, Skip, NoResources, Start, Return, Goto
<1>4. CASE Report(u) \/ Count(u) \/ Exit(u)
  BY <1>1, <1>2, <1>4 DEF Report, Count, Exit, Goto
<1>5. CASE FanOut(u)
  <2>1. UNCHANGED <<mainVars, store>> /\ pc[u] = "decide" /\ pc'[u] = "fan"
    BY <1>1, <1>5 DEF FanOut
  <2> QED
    BY <1>2, <2>1
<1>6. CASE Set(u)
  <2>1. /\ store' = Stored(store, u, result[u]) /\ snapshot' = snapshot
        /\ pc'[u] \in {"merge", "report"}
    BY <1>1, <1>6 DEF Set, Goto, mainVars
  <2> QED
    BY <1>1, <2>1, StoredFacts DEF Writes
<1>7. CASE Merge(u)
  <2>1. /\ \E l : store' = [store EXCEPT !.resources = @ \o l]
        /\ snapshot' = snapshot
        /\ IsGlobal(u) => pc[u] = "merge" /\ pc'[u] = "report"
    BY <1>1, <1>7 DEF Merge, Merged, Goto, mainVars
  <2>2. PICK l : store' = [results    |-> store.results,    perRes    |-> store.perRes,
                           aggregates |-> store.aggregates, resources |-> store.resources \o l]
    BY <2>1 DEF IsStore
  <2> QED
    BY <1>1, <2>1, <2>2 DEF Writes, IsStore, SameFor, Has, Get
<1>8. CASE FanIn(u)
  <2>1. PICK a : /\ store' = [store EXCEPT !.aggregates = Put(@, u[1], a)]
                 /\ snapshot' = snapshot /\ pc'[u] = "exit" /\ IsGlobal(u)
    BY <1>1, <1>8 DEF FanIn, Goto, mainVars
  <2>2. store' = [results    |-> store.results,                  perRes    |-> store.perRes,
                  aggregates |-> Put(store.aggregates, u[1], a), resources |-> store.resources]
    BY <2>1 DEF IsStore
  <2>3. Has(store', u[1])
    BY <2>2 DEF Put, Has
  <2>4. \A d \in Check : d # u[1] => SameFor(store', store, d)
    <3> SUFFICES ASSUME NEW d \in Check, d # u[1] PROVE SameFor(store', store, d)
      OBVIOUS
    <3>1. d \in DOMAIN store'.aggregates <=> d \in DOMAIN store.aggregates
      BY <2>2 DEF Put
    <3>2. d \in DOMAIN store.aggregates => store'.aggregates[d] = store.aggregates[d]
      BY <2>2 DEF Put
    <3> QED
      BY <2>2, <3>1, <3>2 DEF SameFor, Has, Get
  <2> QED
    BY <2>1, <2>2, <2>3, <2>4 DEF Writes, IsStore
<1> QED
  BY <1>3, <1>4, <1>5, <1>6, <1>7, <1>8 DEF Step

LEMMA InitData == Init => Data
<1> SUFFICES ASSUME Init PROVE Data
  OBVIOUS
<1>1. IsStore(store) /\ IsStore(snapshot)
  BY DEF Init, EmptyStore, IsStore
<1>2. \A c \in Check : ~Has(store, c) /\ pc[U(c)] = "idle"
  BY UnitFacts DEF Init, EmptyStore, Has
<1>3. StoredWhen
  BY <1>2 DEF StoredWhen, Init, EmptyStore
<1>4. SnapshotHolds
  BY DEF SnapshotHolds, Init
<1> QED
  BY <1>1, <1>3, <1>4 DEF Data

LEMMA StepData ==
  ASSUME IInv, NEW u \in Unit, Step(u)
  PROVE  Data'
<1>1. /\ phase' = phase /\ level' = level /\ snapshot' = snapshot
      /\ pc \in [Unit -> PCs] /\ pc[u] \notin {"idle", "done"}
      /\ phase = "wait" /\ Order[u[1]] = level /\ u[1] \in Check
  <2>1. mainVars' = mainVars /\ pc[u] \notin {"idle", "done"}
    BY StepMoves DEF IInv, Control, Moves, FanOut
  <2> QED
    BY <2>1, Active, UnitFacts DEF IInv, Control, ControlTypes, mainVars
<1>2. Writes(u)
  BY StepWrites DEF IInv, Data
<1>3. \A v \in Unit : /\ pc[v] # "idle" => pc'[v] # "idle"
                      /\ v # u /\ IsGlobal(v) => pc'[v] = pc[v]
  <2>1. CASE FanOut(u)
    BY <1>1, <2>1, UnitFacts DEF FanOut, IsGlobal
  <2>2. CASE \E to \in PCs : Moves(u, to)
    BY <1>1, <2>2 DEF Moves
  <2> QED
    BY <2>1, <2>2, StepMoves DEF IInv, Control
<1>4. IsStore(store') /\ IsStore(snapshot')
  BY <1>1, <1>2 DEF Writes, IInv, Data
<1>5. StoredWhen'
  <2>1. ASSUME NEW c \in Check
        PROVE  Has(store', c) <=> pc'[U(c)] \in {"merge", "report", "count", "exit", "done"}
    <3>1. CASE U(c) = u
      BY <1>2, <2>1, <3>1, UnitFacts DEF Writes
    <3>2. CASE U(c) # u
      <4>1. pc'[U(c)] = pc[U(c)] /\ SameFor(store', store, c)
        BY <1>1, <1>2, <1>3, <3>2, UnitFacts DEF Writes
      <4> QED
        BY <4>1 DEF SameFor, IInv, Data, StoredWhen
    <3> QED
      BY <3>1, <3>2
  <2>2. ASSUME NEW v \in Unit, v \in DOMAIN store'.perRes
        PROVE  ~IsGlobal(v) /\ pc'[v] # "idle"
    BY <1>1, <1>2, <1>3, <2>2 DEF Writes, IInv, Data, StoredWhen
  <2> QED
    BY <2>1, <2>2 DEF StoredWhen
<1>6. SnapshotHolds'
  <2> SUFFICES ASSUME NEW d \in Check
               PROVE  /\ Order[d] < level => Has(snapshot, d) /\ Get(snapshot, d) = Get(store', d)
                      /\ Order[d] >= level => ~Has(snapshot, d) /\ Fan(d) \cap DOMAIN snapshot.perRes = {}
    BY <1>1 DEF SnapshotHolds
  <2>1. Order[d] >= level => ~Has(snapshot, d) /\ Fan(d) \cap DOMAIN snapshot.perRes = {}
    BY <1>1 DEF IInv, Data, SnapshotHolds
  <2>2. ASSUME Order[d] < level PROVE Has(snapshot, d) /\ Get(snapshot, d) = Get(store', d)
    <3>1. Has(snapshot, d) /\ Get(snapshot, d) = Get(store, d)
      BY <1>1, <2>2 DEF IInv, Data, SnapshotHolds
    <3>2. d # u[1] /\ pc[U(d)] = "done"
      BY <1>1, <2>2, OrderFacts DEF IInv, Control, ControlTypes, Barrier
    <3>3. SameFor(store', store, d) /\ Has(store, d)
      BY <1>2, <3>2 DEF Writes, IInv, Data, StoredWhen
    <3> QED
      BY <3>1, <3>3 DEF SameFor
  <2> QED
    BY <2>1, <2>2
<1> QED
  BY <1>4, <1>5, <1>6 DEF Data

LEMMA MainData ==
  ASSUME IInv, Cancel \/ Main \/ UNCHANGED vars
  PROVE  Data'
<1>1. /\ phase \in Phases /\ level \in Nat /\ pc \in [Unit -> PCs]
      /\ IsStore(store) /\ IsStore(snapshot) /\ StoredWhen
  BY DEF IInv, Data, Control, ControlTypes
<1>2. CASE Cancel \/ UNCHANGED vars
  BY <1>2 DEF Cancel, vars, mainVars, IInv, Data, StoredWhen, SnapshotHolds
<1>3. ASSUME UNCHANGED <<store, snapshot, pc>>, phase' # "wait" PROVE Data'
  BY <1>1, <1>3 DEF Data, StoredWhen, SnapshotHolds
<1>4. CASE Reject \/ Begin \/ CloseLevel \/ Abandon \/ EndLoop \/ Finalize
  BY <1>3, <1>4 DEF Reject, Begin, CloseLevel, Abandon, EndLoop, Finalize
<1>5. CASE OpenLevel
  <2>1. /\ phase = "level" /\ snapshot' = store /\ store' = store /\ level' = level
        /\ \A u \in Unit : pc'[u] = IF IsGlobal(u) /\ Order[u[1]] = level THEN "acquire" ELSE pc[u]
    BY <1>1, <1>5 DEF OpenLevel
  <2>2. \A c \in Check : Order[c] >= level => pc[U(c)] = "idle"
    BY <2>1 DEF IInv, Control, Barrier
  <2>3. \A c \in Check : pc'[U(c)] = IF Order[c] = level THEN "acquire" ELSE pc[U(c)]
    BY <2>1, UnitFacts
  <2>4. StoredWhen'
    <3>1. ASSUME NEW c \in Check
          PROVE  Has(store, c) <=> pc'[U(c)] \in {"merge", "report", "count", "exit", "done"}
      BY <1>1, <2>2, <2>3, OrderFacts DEF StoredWhen
    <3>2. ASSUME NEW v \in Unit, v \in DOMAIN store.perRes
          PROVE  ~IsGlobal(v) /\ pc'[v] # "idle"
      BY <1>1, <2>1, <3>2 DEF StoredWhen
    <3> QED
      BY <2>1, <3>1, <3>2 DEF StoredWhen
  <2>5. ASSUME NEW d \in Check, Order[d] < level PROVE Has(store, d)
    BY <1>1, <2>1, <2>5 DEF StoredWhen, IInv, Control, Barrier
  <2>6. ASSUME NEW d \in Check, Order[d] >= level
        PROVE  ~Has(store, d) /\ Fan(d) \cap DOMAIN store.perRes = {}
    <3>1. pc[U(d)] = "idle"
      BY <2>2, <2>6
    <3>2. \A v \in Fan(d) : v \in Unit /\ pc[v] = "idle"
      BY <3>1, UnitFacts DEF IInv, Control, FansInside
    <3> QED
      BY <1>1, <3>1, <3>2 DEF StoredWhen
  <2> QED
    BY <1>1, <2>1, <2>4, <2>5, <2>6 DEF Data, SnapshotHolds
<1>6. ASSUME NEW c \in Check, RecordCancelled(c) PROVE Data'
  <2>1. /\ store' = Stored(store, U(c), Skipped("cancelled")) /\ snapshot' = snapshot
        /\ phase' = "drain" /\ pc'[U(c)] = "done"
        /\ \A u \in Unit : u # U(c) => pc'[u] = pc[u]
    BY <1>1, <1>6, UnitFacts DEF RecordCancelled, mainVars
  <2>2. /\ IsStore(store') /\ Has(store', c) /\ DOMAIN store'.perRes \subseteq DOMAIN store.perRes
        /\ \A d \in Check : d # c => SameFor(store', store, d)
    <3>1. U(c) \in Unit /\ IsGlobal(U(c)) /\ U(c)[1] = c
      BY UnitFacts
    <3>2. PICK u \in Unit : u = U(c)
      BY <3>1
    <3>3. PICK r : store' = Stored(store, u, r)
      BY <2>1, <3>2
    <3>4. \A d \in Check : d # u[1] => SameFor(store', store, d)
      BY <1>1, <3>3, StoredFacts
    <3>5. IsStore(store') /\ Has(store', u[1]) /\ DOMAIN store'.perRes \subseteq DOMAIN store.perRes
      BY <1>1, <3>1, <3>2, <3>3, StoredFacts
    <3> QED
      BY <3>1, <3>2, <3>4, <3>5
  <2>3. StoredWhen'
    <3>1. ASSUME NEW d \in Check
          PROVE  Has(store', d) <=> pc'[U(d)] \in {"merge", "report", "count", "exit", "done"}
      <4>1. CASE d = c
        BY <2>1, <2>2, <4>1
      <4>2. CASE d # c
        <5>1. pc'[U(d)] = pc[U(d)]
          BY <2>1, <4>2, UnitFacts
        <5> QED
          BY <1>1, <2>2, <4>2, <5>1 DEF SameFor, StoredWhen
      <4> QED
        BY <4>1, <4>2
    <3>2. ASSUME NEW v \in Unit, v \in DOMAIN store'.perRes
          PROVE  ~IsGlobal(v) /\ pc'[v] # "idle"
      BY <1>1, <2>1, <2>2, <3>2 DEF StoredWhen
    <3> QED
      BY <3>1, <3>2 DEF StoredWhen
  <2> QED
    BY <1>1, <2>1, <2>2, <2>3 DEF Data, SnapshotHolds
<1> QED
  BY <1>2, <1>4, <1>5, <1>6 DEF Main

LEMMA Invariance == SafeSpec => []IInv
<1>1. Init => IInv
  BY InitControl, InitData DEF IInv
<1>2. IInv /\ [Next]_vars => IInv'
  <2> SUFFICES ASSUME IInv, [Next]_vars PROVE IInv'
    OBVIOUS
  <2>1. Control'
    BY NextControl DEF IInv
  <2>2. Data'
    BY StepData, MainData DEF Next, Progress
  <2> QED
    BY <2>1, <2>2 DEF IInv
<1> QED
  BY <1>1, <1>2, PTL DEF SafeSpec

\* A goroutine that decides or runs belongs to the level the loop waits for.
LEMMA DecidingNow ==
  ASSUME IInv, NEW u \in Deciding
  PROVE  u[1] \in Check /\ phase = "wait" /\ Order[u[1]] = level
BY Active, UnitFacts DEF IInv, Deciding

\* When a check decides whether to run, and while it runs, its snapshot holds the
\* final result of every check it depends on (engine.go, runLevel).
THEOREM DependenciesAreThere == SafeSpec => []DependenciesVisible
<1>1. IInv => DependenciesVisible
  <2> SUFFICES ASSUME IInv, NEW u \in Deciding, NEW d \in DependsOn[u[1]]
               PROVE  /\ Has(snapshot, d) /\ Get(snapshot, d) = Get(store, d)
                      /\ pc[U(d)] = "done"
    BY DEF DependenciesVisible
  <2>1. u[1] \in Check /\ phase = "wait" /\ Order[u[1]] = level
    BY DecidingNow
  <2>2. d \in Check /\ Order[d] < level
    BY <2>1, OrderAssumption
  <2> QED
    BY <2>1, <2>2 DEF IInv, Data, SnapshotHolds, Control, Barrier
<1> QED
  BY <1>1, Invariance, PTL

\* It finds no result of its own level or of a later one (check.go, ResultStore).
THEOREM OthersAreNot == SafeSpec => []SameLevelInvisible
<1>1. IInv => SameLevelInvisible
  BY DecidingNow DEF SameLevelInvisible, IInv, Data, SnapshotHolds
<1> QED
  BY <1>1, Invariance, PTL

-----------------------------------------------------------------------------
(* The concurrency limits.                                                 *)

GlobalHolders      == {v \in holding : IsGlobal(v)}
ResourceHolders(c) == holding \cap Fan(c)

Limits ==
  /\ holding \subseteq Unit
  /\ Cardinality(GlobalHolders) <= MaxConcurrency
  /\ \A c \in Check : Cardinality(ResourceHolders(c)) <= ResConcurrency[c]
  /\ \A u \in Unit : pc[u] \in {"decide", "exec", "fan"} => u \in holding

LInv == IInv /\ Limits

LEMMA UnitFinite == IsFiniteSet(Unit)
<1>1. IsFiniteSet(Resource \cup {None})
  BY SetsAssumption, FS_AddElement
<1> QED
  BY <1>1, SetsAssumption, FS_Product DEF Unit

LEMMA HoldersFinite ==
  ASSUME NEW H, H \subseteq Unit
  PROVE  /\ IsFiniteSet(H) /\ Cardinality(H) \in Nat
         /\ \A T \in SUBSET H : Cardinality(T) \in Nat /\ Cardinality(T) <= Cardinality(H)
         /\ \A x : Cardinality(H \cup {x}) <= Cardinality(H) + 1
<1>1. IsFiniteSet(H)
  BY UnitFinite, FS_Subset
<1>2. Cardinality(H) \in Nat
  BY <1>1, FS_CardinalityType
<1>3. \A T \in SUBSET H : Cardinality(T) \in Nat /\ Cardinality(T) <= Cardinality(H)
  BY <1>1, FS_Subset, FS_CardinalityType
<1>4. ASSUME NEW x PROVE Cardinality(H \cup {x}) <= Cardinality(H) + 1
  BY <1>1, <1>2, FS_AddElement
<1> QED
  BY <1>1, <1>2, <1>3, <1>4

LEMMA InitLimits == Init => Limits
<1> SUFFICES ASSUME Init PROVE Limits
  OBVIOUS
<1>1. GlobalHolders = {} /\ \A c \in Check : ResourceHolders(c) = {}
  BY DEF Init, GlobalHolders, ResourceHolders
<1>2. Cardinality({}) = 0
  BY FS_EmptySet
<1>3. /\ Cardinality(GlobalHolders) <= MaxConcurrency
      /\ \A c \in Check : Cardinality(ResourceHolders(c)) <= ResConcurrency[c]
  BY <1>1, <1>2, LimitsAssumption
<1> QED
  BY <1>3 DEF Init, Limits

\* A slot is taken only where one is free.
LEMMA AcquireLimits ==
  ASSUME Control, Limits, NEW u \in Unit, Acquire(u)
  PROVE  Limits'
<1>1. /\ pc \in [Unit -> PCs] /\ holding \subseteq Unit /\ holding' = holding \cup {u}
      /\ pc' = [pc EXCEPT ![u] = "decide"] /\ Cardinality(Rivals(u)) < Slots(u)
      /\ u[1] \in Check
  BY UnitFacts DEF Acquire, Goto, Control, ControlTypes, Limits
<1>2. /\ Cardinality(GlobalHolders) \in Nat /\ MaxConcurrency \in Nat
      /\ \A c \in Check : Cardinality(ResourceHolders(c)) \in Nat /\ ResConcurrency[c] \in Nat
  BY <1>1, HoldersFinite, LimitsAssumption DEF GlobalHolders, ResourceHolders
<1>3. CASE IsGlobal(u)
  <2>1. /\ GlobalHolders' = GlobalHolders \cup {u}
        /\ \A c \in Check : ResourceHolders(c)' = ResourceHolders(c)
    BY <1>1, <1>3, UnitFacts DEF GlobalHolders, ResourceHolders, IsGlobal
  <2>2. Cardinality(GlobalHolders) < MaxConcurrency
    BY <1>1, <1>3 DEF Rivals, Slots, GlobalHolders
  <2>3. Cardinality(GlobalHolders \cup {u}) <= Cardinality(GlobalHolders) + 1
    BY <1>1, HoldersFinite DEF GlobalHolders
  <2>4. Cardinality(GlobalHolders \cup {u}) \in Nat
    BY <1>1, HoldersFinite DEF GlobalHolders
  <2>5. Cardinality(GlobalHolders') <= MaxConcurrency
    BY <1>2, <2>1, <2>2, <2>3, <2>4
  <2> QED
    BY <1>1, <2>1, <2>5 DEF Limits
<1>4. CASE ~IsGlobal(u)
  <2> DEFINE c == u[1]
  <2>1. /\ GlobalHolders' = GlobalHolders /\ ResourceHolders(c)' = ResourceHolders(c) \cup {u}
        /\ \A d \in Check : d # c => ResourceHolders(d)' = ResourceHolders(d)
    BY <1>1, <1>4, UnitFacts DEF GlobalHolders, ResourceHolders, IsGlobal
  <2>2. Cardinality(ResourceHolders(c)) < ResConcurrency[c]
    BY <1>1, <1>4 DEF Rivals, Slots, ResourceHolders
  <2>3. Cardinality(ResourceHolders(c) \cup {u}) <= Cardinality(ResourceHolders(c)) + 1
    BY <1>1, HoldersFinite DEF ResourceHolders
  <2>4. Cardinality(ResourceHolders(c) \cup {u}) \in Nat
    BY <1>1, HoldersFinite DEF ResourceHolders
  <2>5. Cardinality(ResourceHolders(c)') <= ResConcurrency[c]
    BY <1>1, <1>2, <2>1, <2>2, <2>3, <2>4
  <2>6. \A d \in Check : Cardinality(ResourceHolders(d)') <= ResConcurrency[d]
    BY <2>1, <2>5 DEF Limits
  <2> QED
    BY <1>1, <2>1, <2>6 DEF Limits
<1> QED
  BY <1>3, <1>4

LEMMA StepLimits ==
  ASSUME Control, Limits, NEW u \in Unit, Step(u)
  PROVE  Limits'
<1>1. pc \in [Unit -> PCs] /\ holding \subseteq Unit
  BY DEF Control, ControlTypes, Limits
<1>2. ASSUME holding' = holding,
             \A v \in Unit : pc'[v] \in {"decide", "exec", "fan"} => pc[v] \in {"decide", "exec", "fan"}
      PROVE  Limits'
  BY <1>2 DEF Limits, GlobalHolders, ResourceHolders
<1>3. CASE Refuse(u) \/ Skip(u) \/ NoResources(u) \/ Start(u)
  BY <1>1, <1>2, <1>3 DEF Refuse, Skip, NoResources, Start, Goto
<1>4. CASE Return(u)
  BY <1>1, <1>2, <1>4 DEF Return, Goto
<1>5. CASE Set(u) \/ Merge(u) \/ Report(u) \/ Count(u) \/ FanIn(u)
  BY <1>1, <1>2, <1>5 DEF Set, Merge, Report, Count, FanIn, Goto
<1>6. CASE FanOut(u)
  BY <1>1, <1>2, <1>6 DEF FanOut
<1>7. CASE Exit(u)
  <2>1. /\ holding' \subseteq holding /\ pc[u] = "exit" /\ pc' = [pc EXCEPT ![u] = "done"]
        /\ \A v \in holding : v # u => v \in holding'
    BY <1>1, <1>7 DEF Exit, Goto
  <2>2. GlobalHolders' \subseteq GlobalHolders
        /\ \A c \in Check : ResourceHolders(c)' \subseteq ResourceHolders(c)
    BY <2>1 DEF GlobalHolders, ResourceHolders
  <2>3. /\ Cardinality(GlobalHolders) \in Nat /\ Cardinality(GlobalHolders') \in Nat
        /\ Cardinality(GlobalHolders') <= Cardinality(GlobalHolders)
        /\ MaxConcurrency \in Nat
    BY <1>1, <2>2, HoldersFinite, LimitsAssumption DEF GlobalHolders
  <2>4. ASSUME NEW c \in Check
        PROVE  /\ Cardinality(ResourceHolders(c)) \in Nat /\ Cardinality(ResourceHolders(c)') \in Nat
               /\ Cardinality(ResourceHolders(c)') <= Cardinality(ResourceHolders(c))
               /\ ResConcurrency[c] \in Nat
    BY <1>1, <2>2, HoldersFinite, LimitsAssumption DEF ResourceHolders
  <2>5. Cardinality(GlobalHolders') <= MaxConcurrency
    BY <2>3 DEF Limits
  <2>6. \A c \in Check : Cardinality(ResourceHolders(c)') <= ResConcurrency[c]
    BY <2>4 DEF Limits
  <2> QED
    BY <1>1, <2>1, <2>5, <2>6 DEF Limits
<1> QED
  BY <1>3, <1>4, <1>5, <1>6, <1>7, AcquireLimits DEF Step

LEMMA MainLimits ==
  ASSUME Control, Limits, Cancel \/ Main \/ UNCHANGED vars
  PROVE  Limits'
<1>1. pc \in [Unit -> PCs]
  BY DEF Control, ControlTypes
<1>2. ASSUME holding' = holding,
             \A v \in Unit : pc'[v] \in {"decide", "exec", "fan"} => pc[v] \in {"decide", "exec", "fan"}
      PROVE  Limits'
  BY <1>2 DEF Limits, GlobalHolders, ResourceHolders
<1>3. CASE Cancel \/ UNCHANGED vars \/ Reject \/ Begin \/ CloseLevel \/ Abandon \/ EndLoop
  BY <1>2, <1>3 DEF Cancel, vars, Reject, Begin, CloseLevel, Abandon, EndLoop
<1>4. CASE Finalize
  <2>1. UNCHANGED <<pc, holding>>
    BY <1>4, Zenon DEF Finalize
  <2> QED
    BY <1>2, <2>1
<1>5. CASE OpenLevel
  BY <1>1, <1>2, <1>5 DEF OpenLevel
<1>6. ASSUME NEW c \in Check, RecordCancelled(c) PROVE Limits'
  BY <1>1, <1>2, <1>6 DEF RecordCancelled
<1> QED
  BY <1>3, <1>4, <1>5, <1>6 DEF Main

LEMMA LimitsInvariance == SafeSpec => []LInv
<1>1. Init => LInv
  BY InitControl, InitData, InitLimits DEF LInv, IInv
<1>2. LInv /\ [Next]_vars => LInv'
  <2> SUFFICES ASSUME LInv, [Next]_vars PROVE LInv'
    OBVIOUS
  <2>1. Limits'
    BY StepLimits, MainLimits DEF LInv, IInv, Next, Progress
  <2>2. Control' /\ Data'
    BY NextControl, StepData, MainData DEF LInv, IInv, Next, Progress
  <2> QED
    BY <2>1, <2>2 DEF LInv, IInv
<1> QED
  BY <1>1, <1>2, PTL DEF SafeSpec

\* WithMaxConcurrency bounds the checks of a level that run, each counted for as long
\* as one of its resources runs, and Check.Concurrency the resources of one check
\* (options.go, check.go).
THEOREM LimitsHold == SafeSpec => []ConcurrencyBounds
<1>1. LInv => ConcurrencyBounds
  <2> SUFFICES ASSUME LInv PROVE ConcurrencyBounds
    OBVIOUS
  <2> DEFINE A == {u[1] : u \in Running}
             f == [c \in A |-> U(c)]
  <2>1. /\ holding \subseteq Unit /\ Control /\ Limits
        /\ IsFiniteSet(GlobalHolders) /\ Cardinality(GlobalHolders) \in Nat
    BY HoldersFinite DEF LInv, IInv, Limits, GlobalHolders
  <2>2. ASSUME NEW u \in Running PROVE u \in holding /\ u[1] \in Check /\ U(u[1]) \in GlobalHolders
    <3>1. u \in Unit /\ pc[u] = "exec" /\ u \in holding
      BY <2>1 DEF Running, Limits
    <3>2. pc[U(u[1])] \in {"exec", "fan"}
      BY <2>1, <3>1, UnitFacts DEF Control, FansInside
    <3> QED
      BY <2>1, <3>1, <3>2, UnitFacts DEF Limits, GlobalHolders
  <2>3. f \in Injection(A, GlobalHolders)
    <3>1. f \in [A -> GlobalHolders]
      BY <2>2
    <3>2. \A a, b \in DOMAIN f : f[a] = f[b] => a = b
      BY DEF U
    <3> QED
      BY <3>1, <3>2 DEF Injection, IsInjective
  <2>4. Cardinality(A) <= Cardinality(GlobalHolders) /\ Cardinality(A) \in Nat
    BY <2>1, <2>3, FS_Injection, FS_CardinalityType
  <2>5. Cardinality(A) <= MaxConcurrency
    BY <2>1, <2>4, LimitsAssumption DEF Limits
  <2>6. ASSUME NEW c \in Check PROVE Cardinality(Running \cap Fan(c)) <= ResConcurrency[c]
    <3>1. Running \cap Fan(c) \subseteq ResourceHolders(c)
      BY <2>2 DEF ResourceHolders
    <3>2. /\ Cardinality(Running \cap Fan(c)) <= Cardinality(ResourceHolders(c))
          /\ Cardinality(Running \cap Fan(c)) \in Nat /\ Cardinality(ResourceHolders(c)) \in Nat
      BY <2>1, <3>1, HoldersFinite DEF ResourceHolders
    <3> QED
      BY <2>1, <3>2, LimitsAssumption DEF Limits
  <2> QED
    BY <2>5, <2>6 DEF ConcurrencyBounds
<1> QED
  BY <1>1, LimitsInvariance, PTL

-----------------------------------------------------------------------------
(* What the variables hold: the invariant.                                 *)

\* The domains of a store; its entries are whatever was put there.
StoreTyped(s) == /\ IsStore(s)
                 /\ DOMAIN s.results \subseteq Check /\ DOMAIN s.aggregates \subseteq Check
                 /\ DOMAIN s.perRes \subseteq Unit /\ s.resources \in Seq(Resource)

IsSummary(s) == s = [total |-> s.total, executed |-> s.executed, skipped |-> s.skipped,
                     failed |-> s.failed, results |-> s.results,
                     observations |-> s.observations, err |-> s.err]

SummaryTyped(s) == /\ IsSummary(s)
                   /\ s.total \in Nat /\ s.executed \in Nat /\ s.skipped \in Nat /\ s.failed \in Nat
                   /\ s.results \in [Unit -> Nat]
                   /\ s.err \in Rejections \cup {"none", "cancelled"}

ReportTypes == /\ starts \in [Unit -> Nat] /\ completes \in [Unit -> Nat]
               /\ planned \in [Check -> Nat]
               /\ scanEvents \in [start : Nat, complete : Nat]

DataTypes == /\ refusal \in Rejections \cup {"none"} /\ cancelled \in BOOLEAN
             /\ StoreTyped(store) /\ StoreTyped(snapshot)
             /\ holding \subseteq Unit /\ result \in [Unit -> Result]
             /\ ReportTypes /\ SummaryTyped(summary)

-----------------------------------------------------------------------------
(* Types.                                                                  *)

LEMMA SkippedType ==
  \A why \in SkipReasons : Skipped(why) \in Result /\ (why # "no" => Status(Skipped(why)) = "skipped")
BY DEF Skipped, NoResult, Result, Status

LEMMA StoredType ==
  ASSUME NEW s, StoreTyped(s), NEW u \in Unit, NEW r
  PROVE  StoreTyped(Stored(s, u, r))
<1>0. u[1] \in Check
  BY UnitFacts
<1>1. CASE IsGlobal(u)
  <2>1. Stored(s, u, r) = [results    |-> Put(s.results, u[1], r), perRes    |-> s.perRes,
                           aggregates |-> s.aggregates,            resources |-> s.resources]
    BY <1>1 DEF Stored, IsStore, StoreTyped
  <2>2. DOMAIN Put(s.results, u[1], r) = DOMAIN s.results \cup {u[1]}
    BY DEF Put
  <2> QED
    BY <1>0, <2>1, <2>2 DEF StoreTyped, IsStore
<1>2. CASE ~IsGlobal(u)
  <2>1. Stored(s, u, r) = [results    |-> s.results,    perRes    |-> Put(s.perRes, u, r),
                           aggregates |-> s.aggregates, resources |-> s.resources]
    BY <1>2 DEF Stored, IsStore, StoreTyped
  <2>2. DOMAIN Put(s.perRes, u, r) = DOMAIN s.perRes \cup {u}
    BY DEF Put
  <2> QED
    BY <2>1, <2>2 DEF StoreTyped, IsStore
<1> QED
  BY <1>1, <1>2

LEMMA MergedType ==
  ASSUME NEW s, StoreTyped(s), NEW emits \in SUBSET Resource, NEW t \in Merged(s, emits)
  PROVE  StoreTyped(t)
<1> DEFINE new == emits \ Range(s.resources)
<1>1. IsFiniteSet(new) /\ Cardinality(new) \in Nat
  BY SetsAssumption, FS_Subset, FS_CardinalityType
<1>2. PICK l \in Listings(new) : t = [s EXCEPT !.resources = @ \o l]
  BY DEF Merged
<1>3. l \in Seq(Resource)
  <2>1. PICK n \in Nat : l \in [1..n -> new]
    BY <1>1, <1>2 DEF Listings
  <2> QED
    BY <2>1
<1>4. t = [results    |-> s.results,    perRes    |-> s.perRes,
           aggregates |-> s.aggregates, resources |-> s.resources \o l]
  BY <1>2 DEF StoreTyped, IsStore
<1> QED
  BY <1>3, <1>4 DEF StoreTyped, IsStore

LEMMA RecordedType ==
  ASSUME NEW s, SummaryTyped(s), NEW u \in Unit, NEW r
  PROVE  SummaryTyped(Recorded(s, u, r))
<1> DEFINE failed   == IF Status(r) = "error"   THEN s.failed + 1 ELSE s.failed
           skipped  == IF Status(r) = "skipped" THEN s.skipped + 1 ELSE s.skipped
           executed == IF Status(r) \notin {"error", "skipped"} THEN s.executed + 1 ELSE s.executed
           results  == [s.results EXCEPT ![u] = @ + 1]
<1>1. Recorded(s, u, r) = [total |-> s.total, executed |-> executed, skipped |-> skipped,
                           failed |-> failed, results |-> results,
                           observations |-> s.observations, err |-> s.err]
  <2>1. s = [total |-> s.total, executed |-> s.executed, skipped |-> s.skipped,
             failed |-> s.failed, results |-> s.results,
             observations |-> s.observations, err |-> s.err]
    BY DEF SummaryTyped, IsSummary
  <2>2. Recorded(s, u, r) = [s EXCEPT !.failed = failed, !.skipped = skipped,
                                      !.executed = executed, !.results = results]
    BY <2>1 DEF Recorded
  <2> HIDE DEF failed, skipped, executed, results
  <2> QED
    BY <2>1, <2>2
<1>2. failed \in Nat /\ skipped \in Nat /\ executed \in Nat /\ results \in [Unit -> Nat]
  BY DEF SummaryTyped
<1> HIDE DEF failed, skipped, executed, results
<1> QED
  BY <1>1, <1>2 DEF SummaryTyped, IsSummary

LEMMA InitTypes == Init => DataTypes
<1> SUFFICES ASSUME Init PROVE DataTypes
  OBVIOUS
<1>1. StoreTyped(EmptyStore)
  BY DEF EmptyStore, StoreTyped, IsStore
<1>2. NoResult \in Result
  BY DEF NoResult, Result, SkipReasons
<1>3. SummaryTyped(summary)
  BY DEF Init, SummaryTyped, IsSummary
<1>4. ReportTypes
  BY DEF Init, ReportTypes
<1> QED
  BY <1>1, <1>2, <1>3, <1>4 DEF Init, DataTypes

LEMMA StepTypes ==
  ASSUME DataTypes, NEW u \in Unit, Step(u)
  PROVE  DataTypes'
<1>1. /\ refusal \in Rejections \cup {"none"} /\ cancelled \in BOOLEAN
      /\ StoreTyped(store) /\ StoreTyped(snapshot) /\ holding \subseteq Unit
      /\ result \in [Unit -> Result] /\ ReportTypes /\ SummaryTyped(summary)
      /\ u[1] \in Check
  BY UnitFacts DEF DataTypes
<1>2. ASSUME UNCHANGED <<mainVars, cancelled, reportVars, summary>>, StoreTyped(store'),
             holding' \subseteq Unit, result' \in [Unit -> Result]
      PROVE  DataTypes'
  BY <1>1, <1>2 DEF DataTypes, ReportTypes, SummaryTyped, IsSummary, StoreTyped, IsStore,
                    mainVars, reportVars
<1>3. ASSUME UNCHANGED <<mainVars, cancelled, store, holding, result, summary>>, ReportTypes'
      PROVE  DataTypes'
  BY <1>1, <1>3 DEF DataTypes, SummaryTyped, IsSummary, StoreTyped, IsStore, mainVars
<1>4. CASE Acquire(u) \/ Exit(u)
  BY <1>1, <1>2, <1>4 DEF Acquire, Exit, StoreTyped, IsStore
<1>5. CASE Refuse(u) \/ Skip(u) \/ NoResources(u)
  <2>1. PICK why \in SkipReasons : /\ result' = [result EXCEPT ![u] = Skipped(why)]
                                   /\ UNCHANGED <<mainVars, cancelled, store, holding, reportVars, summary>>
    BY <1>5 DEF Refuse, Skip, NoResources, SkipReasons
  <2>2. result' \in [Unit -> Result]
    BY <1>1, <2>1, SkippedType
  <2> QED
    BY <1>1, <1>2, <2>1, <2>2 DEF StoreTyped, IsStore
<1>6. CASE FanOut(u)
  <2>1. Len(snapshot.resources) \in Nat
    BY <1>1 DEF StoreTyped
  <2>2. ReportTypes'
    BY <1>1, <1>6, <2>1 DEF FanOut, ReportTypes
  <2> QED
    BY <1>3, <1>6, <2>2 DEF FanOut
<1>7. CASE Start(u) \/ Report(u)
  <2>1. ReportTypes'
    BY <1>1, <1>7 DEF Start, Report, ReportTypes
  <2> QED
    BY <1>3, <1>7, <2>1 DEF Start, Report
<1>8. CASE Return(u)
  <2>1. PICK o \in Outcomes[u[1]] : result' = [result EXCEPT ![u] = o]
    BY <1>8 DEF Return
  <2>2. result' \in [Unit -> Result]
    BY <1>1, <2>1, OutcomesAssumption
  <2> QED
    BY <1>1, <1>2, <1>8, <2>2 DEF Return, StoreTyped, IsStore
<1>9. CASE Set(u)
  <2>1. PICK r : store' = Stored(store, u, r)
    BY <1>9 DEF Set
  <2>2. StoreTyped(store')
    BY <1>1, <2>1, StoredType
  <2> QED
    BY <1>1, <1>2, <1>9, <2>2 DEF Set
<1>10. CASE Merge(u)
  <2>1. result[u].emits \in SUBSET Resource
    BY <1>1 DEF Result
  <2>2. PICK t \in Merged(store, result[u].emits) : store' = t
    BY <1>10 DEF Merge
  <2>3. StoreTyped(store')
    BY <1>1, <2>1, <2>2, MergedType
  <2> QED
    BY <1>1, <1>2, <1>10, <2>3 DEF Merge
<1>11. CASE Count(u)
  <2>1. PICK r : summary' = Recorded(summary, u, r)
    BY <1>11 DEF Count
  <2>2. SummaryTyped(summary')
    BY <1>1, <2>1, RecordedType
  <2> QED
    BY <1>1, <1>11, <2>2 DEF Count, DataTypes, ReportTypes, StoreTyped, IsStore, mainVars, reportVars
<1>12. CASE FanIn(u)
  <2>1. PICK a : store' = [store EXCEPT !.aggregates = Put(@, u[1], a)]
    BY <1>12 DEF FanIn
  <2>2. /\ store' = [results    |-> store.results,                  perRes    |-> store.perRes,
                     aggregates |-> Put(store.aggregates, u[1], a), resources |-> store.resources]
        /\ DOMAIN Put(store.aggregates, u[1], a) = DOMAIN store.aggregates \cup {u[1]}
    BY <1>1, <2>1 DEF StoreTyped, IsStore, Put
  <2>3. StoreTyped(store')
    BY <1>1, <2>2 DEF StoreTyped, IsStore
  <2> QED
    BY <1>1, <1>2, <1>12, <2>3 DEF FanIn
<1> QED
  BY <1>4, <1>5, <1>6, <1>7, <1>8, <1>9, <1>10, <1>11, <1>12 DEF Step

LEMMA MainTypes ==
  ASSUME DataTypes, Cancel \/ Main \/ UNCHANGED vars
  PROVE  DataTypes'
<1>1. /\ refusal \in Rejections \cup {"none"} /\ cancelled \in BOOLEAN
      /\ StoreTyped(store) /\ StoreTyped(snapshot) /\ holding \subseteq Unit
      /\ result \in [Unit -> Result] /\ ReportTypes /\ SummaryTyped(summary)
  BY DEF DataTypes
<1>2. ASSUME UNCHANGED <<refusal, store, holding, result, reportVars, summary>>,
             cancelled' \in BOOLEAN, StoreTyped(snapshot')
      PROVE  DataTypes'
  BY <1>1, <1>2 DEF DataTypes, ReportTypes, SummaryTyped, IsSummary, StoreTyped, IsStore, reportVars
<1>3. CASE Cancel \/ UNCHANGED vars
  BY <1>1, <1>2, <1>3 DEF Cancel, vars, mainVars, reportVars, StoreTyped, IsStore
<1>4. CASE OpenLevel \/ CloseLevel \/ Abandon
  BY <1>1, <1>2, <1>4 DEF OpenLevel, CloseLevel, Abandon, StoreTyped, IsStore
<1>5. ASSUME UNCHANGED <<refusal, cancelled, store, snapshot, holding, result>>,
             ReportTypes', SummaryTyped(summary')
      PROVE  DataTypes'
  BY <1>1, <1>5 DEF DataTypes, StoreTyped, IsStore
<1>6. summary = [total |-> summary.total, executed |-> summary.executed, skipped |-> summary.skipped,
                 failed |-> summary.failed, results |-> summary.results,
                 observations |-> summary.observations, err |-> summary.err]
  BY <1>1 DEF SummaryTyped, IsSummary
<1>7. ASSUME NEW e \in Rejections \cup {"none", "cancelled"}, summary' = [summary EXCEPT !.err = e],
             UNCHANGED <<refusal, cancelled, store, snapshot, holding, result, reportVars>>
      PROVE  DataTypes'
  <2>1. SummaryTyped(summary')
    BY <1>1, <1>6, <1>7 DEF SummaryTyped, IsSummary
  <2>2. ReportTypes'
    BY <1>1, <1>7 DEF ReportTypes, reportVars
  <2> QED
    BY <1>5, <1>7, <2>1, <2>2
<1>8. CASE Reject
  BY <1>1, <1>7, <1>8 DEF Reject
<1>9. CASE EndLoop
  BY <1>1, <1>7, <1>9 DEF EndLoop
<1>10. CASE Begin
  <2>1. Cardinality(Check) \in Nat
    BY SetsAssumption, FS_CardinalityType
  <2>2. SummaryTyped(summary')
    BY <1>1, <1>6, <1>10, <2>1 DEF Begin, SummaryTyped, IsSummary
  <2>3. ReportTypes'
    BY <1>1, <1>10 DEF Begin, ReportTypes
  <2> QED
    BY <1>5, <1>10, <2>2, <2>3 DEF Begin
<1>11. CASE Finalize
  <2>1. PICK n : summary' = [summary EXCEPT !.observations = n]
    BY <1>11 DEF Finalize
  <2>2. SummaryTyped(summary')
    BY <1>1, <1>6, <2>1 DEF SummaryTyped, IsSummary
  <2>3. ReportTypes'
    <3>1. /\ scanEvents' = [scanEvents EXCEPT !.complete = @ + 1]
          /\ UNCHANGED <<starts, completes, planned>>
      BY <1>11, Zenon DEF Finalize
    <3> QED
      BY <1>1, <3>1 DEF ReportTypes
  <2> QED
    BY <1>5, <1>11, <2>2, <2>3 DEF Finalize
<1>12. ASSUME NEW c \in Check, RecordCancelled(c) PROVE DataTypes'
  <2>1. PICK u \in Unit : u = U(c)
    BY UnitFacts
  <2>2. PICK r \in Result : /\ result' = [result EXCEPT ![u] = r]
                            /\ store' = Stored(store, u, r)
                            /\ summary' = Recorded(summary, u, r)
                            /\ completes' = [completes EXCEPT ![u] = @ + 1]
                            /\ UNCHANGED <<mainVars, cancelled, holding, starts, planned, scanEvents>>
    <3>1. PICK r \in Result : r = Skipped("cancelled")
      BY SkippedType DEF SkipReasons
    <3> QED
      BY <1>12, <2>1, <3>1 DEF RecordCancelled
  <2>3. StoreTyped(store')
    BY <1>1, <2>2, StoredType
  <2>4. SummaryTyped(summary')
    BY <1>1, <2>2, RecordedType
  <2>5. ReportTypes' /\ result' \in [Unit -> Result]
    BY <1>1, <2>2 DEF ReportTypes
  <2> QED
    BY <1>1, <2>2, <2>3, <2>4, <2>5 DEF DataTypes, StoreTyped, IsStore, mainVars
<1> QED
  BY <1>3, <1>4, <1>8, <1>9, <1>10, <1>11, <1>12 DEF Main

\* Every variable of a scan keeps its type.
THEOREM Typed == SafeSpec => []TypeOK
<1>1. Init => DataTypes
  BY InitTypes
<1>2. DataTypes /\ [Next]_vars => DataTypes'
  BY StepTypes, MainTypes DEF Next, Progress
<1>3. Control /\ DataTypes => TypeOK
  BY OrderAssumption DEF Control, ControlTypes, Phases, DataTypes, StoreTyped, ReportTypes, SummaryTyped, TypeOK
<1> QED
  BY <1>1, <1>2, <1>3, Invariance, PTL DEF SafeSpec, IInv

-----------------------------------------------------------------------------
(* The reporters.                                                          *)

\* What was reported about a unit, by where its goroutine is.
Reported(u) ==
  /\ pc[u] \in {"idle", "acquire", "decide", "fan"} => starts[u] = 0 /\ completes[u] = 0
  /\ pc[u] = "exec" => starts[u] = 1 /\ completes[u] = 0
  /\ pc[u] \in {"set", "merge", "report"} => starts[u] \in {0, 1} /\ completes[u] = 0
  /\ pc[u] = "count" => starts[u] \in {0, 1} /\ completes[u] = 1
  /\ pc[u] \in {"exit", "done"} => completes[u] \in {0, 1} /\ starts[u] \in 0..completes[u]
  /\ pc[u] \in {"set", "merge", "report", "count", "exit", "done"} /\ starts[u] = 0 =>
       \/ Status(result[u]) = "skipped"
       \/ pc[u] \in {"exit", "done"} /\ completes[u] = 0

\* What was reported about the scan, by where the level loop is.
ScanReported ==
  /\ phase = "start" => scanEvents.start = 0
  /\ phase \in {"level", "wait", "drain"} => scanEvents.start = 1
  /\ scanEvents.start = 1 \/ \A u \in Unit : pc[u] = "idle"
  /\ phase # "done" => scanEvents.complete = 0

Reports == (\A u \in Unit : Reported(u)) /\ ScanReported

RInv == IInv /\ DataTypes /\ Reports

LEMMA InitReports == Init => Reports
BY DEF Init, Reports, Reported, ScanReported

\* A step that changes only the goroutine of u.
LEMMA OneReported ==
  ASSUME Control, DataTypes, Reports, NEW u \in Unit, Reported(u)',
         \A v \in Unit : v # u => /\ pc'[v] = pc[v] /\ result'[v] = result[v]
                                  /\ starts'[v] = starts[v] /\ completes'[v] = completes[v],
         UNCHANGED <<phase, scanEvents>>, scanEvents.start = 1
  PROVE  Reports'
BY DEF Reports, Reported, ScanReported

LEMMA StepReports ==
  ASSUME RInv, NEW u \in Unit, Step(u)
  PROVE  Reports'
<1>1. /\ Control /\ DataTypes /\ Reports /\ Reported(u)
      /\ pc \in [Unit -> PCs] /\ result \in [Unit -> Result]
      /\ starts \in [Unit -> Nat] /\ completes \in [Unit -> Nat]
  BY DEF RInv, IInv, Control, ControlTypes, DataTypes, ReportTypes, Reports
<1>2. /\ phase = "wait" /\ scanEvents.start = 1
      /\ UNCHANGED mainVars
  <2>1. pc[u] \notin {"idle", "done"} /\ UNCHANGED mainVars
    BY <1>1, StepMoves DEF Control, Moves, FanOut
  <2> QED
    BY <1>1, <2>1, Active DEF Reports, ScanReported
<1>3. CASE FanOut(u)
  <2>1. /\ pc[u] = "decide" /\ pc'[u] = "fan" /\ IsGlobal(u)
        /\ UNCHANGED <<result, starts, completes, scanEvents>>
        /\ \A v \in Unit : v # u => pc'[v] = pc[v] \/ (v[1] = u[1] /\ pc'[v] = "acquire")
    BY <1>1, <1>3 DEF FanOut
  <2>2. ASSUME NEW v \in Unit, v # u, v[1] = u[1] PROVE pc[v] = "idle"
    <3>1. ~IsGlobal(v) /\ U(v[1]) = u
      BY <2>1, <2>2, UnitFacts
    <3> QED
      BY <1>1, <2>1, <3>1 DEF Control, FansInside
  <2>3. ASSUME NEW v \in Unit PROVE Reported(v)'
    <3>1. Reported(v)
      BY <1>1 DEF Reports
    <3>2. CASE v = u
      BY <2>1, <3>1, <3>2 DEF Reported
    <3>3. CASE v # u
      <4>1. pc'[v] = pc[v] \/ (pc[v] = "idle" /\ pc'[v] = "acquire")
        BY <2>1, <2>2, <3>3
      <4> QED
        BY <2>1, <3>1, <4>1 DEF Reported
    <3> QED
      BY <3>2, <3>3
  <2> QED
    BY <1>1, <1>2, <2>1, <2>3 DEF Reports, ScanReported, mainVars
<1>4. CASE ~FanOut(u)
  <2>1. PICK to \in PCs : Moves(u, to)
    BY <1>1, <1>4, StepMoves DEF Control
  <2>2. /\ pc'[u] = to /\ \A v \in Unit : v # u => pc'[v] = pc[v]
        /\ scanEvents' = scanEvents
        /\ \A v \in Unit : v # u => /\ result'[v] = result[v]
                                    /\ starts'[v] = starts[v] /\ completes'[v] = completes[v]
    <3>1. pc'[u] = to /\ \A v \in Unit : v # u => pc'[v] = pc[v]
      BY <1>1, <2>1 DEF Moves
    <3>2. CASE Acquire(u) \/ Refuse(u) \/ Skip(u) \/ NoResources(u) \/ Return(u)
      BY <1>1, <3>1, <3>2 DEF Acquire, Refuse, Skip, NoResources, Return, reportVars
    <3>3. CASE Start(u) \/ Report(u)
      BY <1>1, <3>1, <3>3 DEF Start, Report
    <3>4. CASE Set(u) \/ Merge(u) \/ Count(u) \/ FanIn(u) \/ Exit(u)
      BY <1>1, <3>1, <3>4 DEF Set, Merge, Count, FanIn, Exit, reportVars
    <3> QED
      BY <1>4, <3>1, <3>2, <3>3, <3>4 DEF Step
  <2>3. Reported(u)'
    <3>1. CASE Acquire(u)
      BY <1>1, <3>1 DEF Acquire, Goto, Reported, reportVars
    <3>2. CASE Refuse(u) \/ Skip(u) \/ NoResources(u)
      <4>1. /\ pc[u] \in {"acquire", "decide"} /\ pc'[u] = "set"
            /\ Status(result'[u]) = "skipped"
            /\ UNCHANGED <<starts, completes>>
        BY <1>1, <3>2, SkippedType DEF Refuse, Skip, NoResources, Goto, reportVars, SkipReasons
      <4> QED
        BY <1>1, <4>1 DEF Reported
    <3>3. CASE Start(u)
      BY <1>1, <3>3 DEF Start, Goto, Reported
    <3>4. CASE Return(u)
      <4>1. pc[u] = "exec" /\ pc'[u] \in {"set", "merge"} /\ UNCHANGED <<starts, completes>>
        BY <1>1, <3>4 DEF Return, Goto, reportVars
      <4> QED
        BY <1>1, <4>1 DEF Reported
    <3>5. CASE Set(u) \/ Merge(u)
      <4>1. /\ pc[u] \in {"set", "merge"} /\ pc'[u] \in {"set", "merge", "report"}
            /\ UNCHANGED <<result, starts, completes>>
        BY <1>1, <3>5 DEF Set, Merge, Goto, reportVars
      <4> QED
        BY <1>1, <4>1 DEF Reported
    <3>6. CASE Report(u)
      BY <1>1, <3>6 DEF Report, Goto, Reported
    <3>7. CASE Count(u) \/ FanIn(u) \/ Exit(u)
      <4>1. /\ pc[u] \in {"count", "fan", "exit"} /\ pc'[u] \in {"exit", "done"}
            /\ UNCHANGED <<result, starts, completes>>
        BY <1>1, <3>7 DEF Count, FanIn, Exit, Goto, reportVars
      <4> QED
        BY <1>1, <4>1 DEF Reported
    <3> QED
      BY <1>4, <3>1, <3>2, <3>3, <3>4, <3>5, <3>6, <3>7 DEF Step
  <2> QED
    BY <1>1, <1>2, <2>2, <2>3, OneReported DEF mainVars
<1> QED
  BY <1>3, <1>4

LEMMA MainReports ==
  ASSUME RInv, Cancel \/ Main \/ UNCHANGED vars
  PROVE  Reports'
<1>1. /\ Control /\ DataTypes /\ Reports /\ (\A u \in Unit : Reported(u)) /\ ScanReported
      /\ pc \in [Unit -> PCs] /\ phase \in Phases
      /\ scanEvents \in [start : Nat, complete : Nat]
  BY DEF RInv, IInv, Control, ControlTypes, DataTypes, ReportTypes, Reports
<1>2. ASSUME UNCHANGED <<pc, result, starts, completes>>, ScanReported' PROVE Reports'
  BY <1>1, <1>2 DEF Reports, Reported
<1>3. CASE Cancel \/ UNCHANGED vars
  BY <1>1, <1>2, <1>3 DEF Cancel, vars, mainVars, reportVars, ScanReported
<1>4. CASE Reject
  <2>1. ScanReported'
    BY <1>1, <1>4 DEF Reject, reportVars, ScanReported, Control, Barrier
  <2> QED
    BY <1>2, <1>4, <2>1 DEF Reject, reportVars
<1>5. CASE Begin
  <2>1. ScanReported'
    BY <1>1, <1>5 DEF Begin, ScanReported
  <2> QED
    BY <1>2, <1>5, <2>1 DEF Begin
<1>6. CASE CloseLevel \/ Abandon \/ EndLoop
  <2>1. ScanReported'
    BY <1>1, <1>6 DEF CloseLevel, Abandon, EndLoop, reportVars, ScanReported
  <2> QED
    BY <1>2, <1>6, <2>1 DEF CloseLevel, Abandon, EndLoop, reportVars
<1>7. CASE Finalize
  <2>1. /\ phase' = "done" /\ scanEvents' = [scanEvents EXCEPT !.complete = @ + 1]
        /\ UNCHANGED <<pc, result, starts, completes>>
    BY <1>7, Zenon DEF Finalize
  <2>2. ScanReported'
    BY <1>1, <2>1 DEF ScanReported
  <2> QED
    BY <1>2, <2>1, <2>2
<1>8. CASE OpenLevel
  <2>1. /\ phase = "level" /\ phase' = "wait"
        /\ UNCHANGED <<result, starts, completes, scanEvents>>
        /\ \A u \in Unit : pc'[u] = IF IsGlobal(u) /\ Order[u[1]] = level THEN "acquire" ELSE pc[u]
    BY <1>1, <1>8 DEF OpenLevel, reportVars
  <2>2. ASSUME NEW u \in Unit PROVE Reported(u)'
    <3>1. pc'[u] = pc[u] \/ (pc[u] = "idle" /\ pc'[u] = "acquire")
      BY <1>1, <2>1, UnitFacts, OrderFacts DEF Control, ControlTypes, Barrier
    <3> QED
      BY <1>1, <2>1, <3>1 DEF Reported
  <2> QED
    BY <1>1, <2>1, <2>2 DEF Reports, ScanReported
<1>9. ASSUME NEW c \in Check, RecordCancelled(c) PROVE Reports'
  <2>1. PICK u \in Unit : u = U(c)
    BY UnitFacts
  <2>2. /\ phase = "drain" /\ pc[u] = "idle" /\ UNCHANGED <<phase, scanEvents>>
        /\ pc' = [pc EXCEPT ![u] = "done"] /\ starts' = starts
        /\ result' = [result EXCEPT ![u] = Skipped("cancelled")]
        /\ completes' = [completes EXCEPT ![u] = @ + 1]
    BY <1>9, <2>1 DEF RecordCancelled, Undrained, mainVars
  <2>3. /\ pc'[u] = "done" /\ starts'[u] = 0 /\ completes'[u] = 1
        /\ Status(result'[u]) = "skipped"
    <3>1. Reported(u) /\ Status(Skipped("cancelled")) = "skipped"
      BY <1>1, SkippedType DEF SkipReasons
    <3>2. starts[u] = 0 /\ completes[u] = 0
      BY <2>2, <3>1 DEF Reported
    <3> QED
      BY <1>1, <2>2, <3>1, <3>2 DEF DataTypes, ReportTypes
  <2>4. Reported(u)'
    BY <2>3 DEF Reported
  <2>5. \A v \in Unit : v # u => /\ pc'[v] = pc[v] /\ result'[v] = result[v]
                                 /\ starts'[v] = starts[v] /\ completes'[v] = completes[v]
    BY <1>1, <2>2 DEF DataTypes, ReportTypes
  <2> QED
    BY <1>1, <2>2, <2>4, <2>5, OneReported DEF ScanReported
<1> QED
  BY <1>3, <1>4, <1>5, <1>6, <1>7, <1>8, <1>9 DEF Main

LEMMA ReportsInvariance == SafeSpec => []RInv
<1>1. Init => RInv
  BY InitControl, InitData, InitTypes, InitReports DEF RInv, IInv
<1>2. RInv /\ [Next]_vars => RInv'
  <2> SUFFICES ASSUME RInv, [Next]_vars PROVE RInv'
    OBVIOUS
  <2>1. Control'
    BY NextControl DEF RInv, IInv
  <2>2. Data'
    BY StepData, MainData DEF RInv, Next, Progress
  <2>3. DataTypes'
    BY StepTypes, MainTypes DEF RInv, Next, Progress
  <2>4. Reports'
    BY StepReports, MainReports DEF Next, Progress
  <2> QED
    BY <2>1, <2>2, <2>3, <2>4 DEF RInv, IInv
<1> QED
  BY <1>1, <1>2, PTL DEF SafeSpec

\* Once the scan is over every goroutine has ended.
LEMMA AllEnded == ASSUME Control, phase = "done", NEW u \in Unit
                  PROVE  pc[u] \in {"idle", "done"}
BY Active

\* The callbacks come in the order the Reporter interface promises (reporter.go).
THEOREM CallbacksInOrder == SafeSpec => []ReporterProtocol
<1>1. RInv => ReporterProtocol
  <2> SUFFICES ASSUME RInv PROVE ReporterProtocol
    OBVIOUS
  <2>1. ASSUME NEW u \in Unit
        PROVE  /\ starts[u] + completes[u] > 0 => scanEvents.start = 1
               /\ starts[u] <= 1 /\ completes[u] <= 1
               /\ completes[u] = 1 /\ starts[u] = 0 => Status(result[u]) = "skipped"
               /\ scanEvents.complete = 1 /\ starts[u] = 1 => completes[u] = 1
    <3>1. /\ Reported(u) /\ ScanReported /\ pc[u] \in PCs
          /\ starts[u] \in Nat /\ completes[u] \in Nat
      BY DEF RInv, IInv, Control, ControlTypes, Reports, DataTypes, ReportTypes
    <3>2. scanEvents.complete = 1 => pc[u] \in {"idle", "done"}
      BY <3>1, AllEnded DEF ScanReported, RInv, IInv
    <3> QED
      BY <3>1, <3>2 DEF Reported, ScanReported, PCs
  <2> QED
    BY <2>1 DEF ReporterProtocol
<1> QED
  BY <1>1, ReportsInvariance, PTL

\* OnScanComplete is the last callback of the scan (engine.go, finalize).
THEOREM CompleteIsLast == SafeSpec => NothingAfterScanComplete
<1>1. RInv /\ [Next]_vars => [scanEvents.complete = 1 => UNCHANGED reportVars]_vars
  <2> SUFFICES ASSUME RInv, Next, scanEvents.complete = 1 PROVE UNCHANGED reportVars
    OBVIOUS
  <2>1. phase = "done" /\ Control
    BY DEF RInv, IInv, Reports, ScanReported
  <2>2. CASE Cancel
    BY <2>2 DEF Cancel
  <2>3. CASE Main
    <3>1. ~Finalize
      BY <2>1, Zenon DEF Finalize
    <3> QED
      BY <2>1, <2>3, <3>1 DEF Main, Reject, Begin, OpenLevel, CloseLevel, Abandon, EndLoop, RecordCancelled
  <2>4. ASSUME NEW u \in Unit, Step(u) PROVE FALSE
    <3>1. pc[u] \notin {"idle", "done"}
      BY <2>1, <2>4, StepMoves DEF Control, Moves, FanOut
    <3> QED
      BY <2>1, <3>1, AllEnded
  <2> QED
    BY <2>2, <2>3, <2>4 DEF Next, Progress
<1> QED
  BY <1>1, ReportsInvariance, PTL DEF SafeSpec, NothingAfterScanComplete

-----------------------------------------------------------------------------
(* Resources.                                                              *)

\* An injective list of the members of S lists them all.
LEMMA ListingsCover ==
  ASSUME NEW S, IsFiniteSet(S), NEW l \in Listings(S)
  PROVE  /\ l \in Seq(S) /\ IsInjective(l) /\ Range(l) = S
<1> DEFINE n == Cardinality(S)
<1>1. n \in Nat /\ l \in [1..n -> S] /\ IsInjective(l)
  BY FS_CardinalityType DEF Listings
<1>2. IsFiniteSet(1..n) /\ Cardinality(1..n) = n
  BY <1>1, FS_Interval
<1>3. l \in Injection(1..n, S)
  BY <1>1 DEF Injection, IsInjective
<1>4. l \in Surjection(1..n, S)
  BY <1>2, <1>3, FS_Injection
<1>5. Range(l) = S
  BY <1>1, <1>4 DEF Surjection, Range
<1> QED
  BY <1>1, <1>5

\* mergeResources: the known resources stay where they are, the new ones come behind.
LEMMA MergedAppends ==
  ASSUME NEW s, StoreTyped(s), IsInjective(s.resources), NEW emits \in SUBSET Resource, NEW t \in Merged(s, emits)
  PROVE  /\ IsInjective(t.resources) /\ Len(s.resources) <= Len(t.resources)
         /\ \A i \in DOMAIN s.resources : t.resources[i] = s.resources[i]
         /\ Range(t.resources) = Range(s.resources) \cup emits
<1> DEFINE old == s.resources  new == emits \ Range(old)
<1>1. IsFiniteSet(new) /\ old \in Seq(Resource)
  BY SetsAssumption, FS_Subset DEF StoreTyped
<1>2. PICK l \in Listings(new) : t.resources = old \o l
  BY DEF Merged, StoreTyped, IsStore
<1>3. l \in Seq(new) /\ IsInjective(l) /\ Range(l) = new
  BY <1>1, ListingsCover
<1> DEFINE both == old \o l
<1>0. l \in Seq(Resource) /\ \A x \in Seq(Resource) : Len(x) \in Nat /\ DOMAIN x = 1..Len(x)
  BY <1>3
<1>4. /\ Len(both) = Len(old) + Len(l) /\ DOMAIN both = 1..Len(both)
      /\ \A i \in 1..Len(old) : both[i] = old[i]
      /\ \A i \in 1..Len(l) : both[Len(old) + i] = l[i]
      /\ \A i \in DOMAIN both : i \in DOMAIN old \/ \E j \in DOMAIN l : i = Len(old) + j
      /\ DOMAIN old = 1..Len(old) /\ DOMAIN l = 1..Len(l) /\ Len(old) \in Nat /\ Len(l) \in Nat
  <2>1. /\ Len(both) = Len(old) + Len(l) /\ DOMAIN both = 1..Len(both)
        /\ \A i \in 1..Len(old) : both[i] = old[i]
        /\ \A i \in 1..Len(l) : both[Len(old) + i] = l[i]
    BY <1>0, <1>1
  <2>2. ASSUME NEW i \in DOMAIN both, i \notin DOMAIN old PROVE i - Len(old) \in DOMAIN l /\ i = Len(old) + (i - Len(old))
    BY <1>0, <1>1, <2>1, <2>2
  <2> QED
    BY <1>0, <1>1, <2>1, <2>2
<1> HIDE DEF both
<1>5. Range(both) = Range(old) \cup Range(l)
  <2>1. \A i \in DOMAIN old : i \in DOMAIN both /\ both[i] = old[i]
    BY <1>4
  <2>2. \A j \in DOMAIN l : Len(old) + j \in DOMAIN both /\ both[Len(old) + j] = l[j]
    BY <1>4
  <2>3. \A i \in DOMAIN both : both[i] \in Range(old) \cup Range(l)
    BY <1>4, <2>1, <2>2 DEF Range
  <2> QED
    BY <2>1, <2>2, <2>3 DEF Range
<1>6. IsInjective(both)
  <2> SUFFICES ASSUME NEW a \in DOMAIN both, NEW b \in DOMAIN both, both[a] = both[b] PROVE a = b
    BY DEF IsInjective
  <2>1. \A i \in DOMAIN old, j \in DOMAIN l : old[i] # l[j]
    BY <1>3 DEF Range
  <2> QED
    BY <1>3, <1>4, <2>1 DEF IsInjective
<1>7. t.resources = both
  BY <1>2 DEF both
<1> QED
  BY <1>3, <1>4, <1>5, <1>6, <1>7

\* Only Merge changes what is known.
LEMMA StepKeepsResources ==
  ASSUME StoreTyped(store), NEW u \in Unit, Step(u), ~Merge(u)
  PROVE  store'.resources = store.resources
<1>1. CASE Acquire(u) \/ Refuse(u) \/ Skip(u) \/ NoResources(u) \/ Start(u) \/ Return(u)
  BY <1>1 DEF Acquire, Refuse, Skip, NoResources, Start, Return
<1>2. CASE FanOut(u) \/ Report(u) \/ Count(u) \/ Exit(u)
  BY <1>2 DEF FanOut, Report, Count, Exit
<1>3. CASE Set(u)
  BY <1>3 DEF Set, Stored, StoreTyped, IsStore
<1>4. CASE FanIn(u)
  <2>1. PICK a : store' = [store EXCEPT !.aggregates = Put(@, u[1], a)]
    BY <1>4 DEF FanIn
  <2> QED
    BY <2>1 DEF StoreTyped, IsStore
<1> QED
  BY <1>1, <1>2, <1>3, <1>4 DEF Step

\* A step appends to the resources of the store, or leaves them.
LEMMA Appends ==
  ASSUME DataTypes, IsInjective(store.resources), [Next]_vars
  PROVE  /\ IsInjective(store'.resources)
         /\ Len(store.resources) <= Len(store'.resources)
         /\ \A i \in DOMAIN store.resources : store'.resources[i] = store.resources[i]
<1>1. StoreTyped(store) /\ store.resources \in Seq(Resource) /\ Len(store.resources) \in Nat /\ result \in [Unit -> Result]
  BY DEF DataTypes, StoreTyped
<1>2. ASSUME store'.resources = store.resources
      PROVE  /\ IsInjective(store'.resources)
             /\ Len(store.resources) <= Len(store'.resources)
             /\ \A i \in DOMAIN store.resources : store'.resources[i] = store.resources[i]
  BY <1>1, <1>2
<1>3. ASSUME NEW u \in Unit, NEW r, store' = Stored(store, u, r) PROVE store'.resources = store.resources
  BY <1>1, <1>3 DEF Stored, StoreTyped, IsStore
<1>4. CASE Cancel \/ UNCHANGED vars \/ Reject \/ Begin \/ OpenLevel \/ CloseLevel \/ Abandon \/ EndLoop
  BY <1>2, <1>4 DEF Cancel, vars, Reject, Begin, OpenLevel, CloseLevel, Abandon, EndLoop
<1>5. CASE Finalize
  <2>1. store' = store
    BY <1>5, Zenon DEF Finalize
  <2> QED
    BY <1>2, <2>1
<1>6. ASSUME NEW c \in Check, RecordCancelled(c) PROVE store'.resources = store.resources
  BY <1>3, <1>6, UnitFacts DEF RecordCancelled
<1>7. ASSUME NEW u \in Unit, Step(u), ~Merge(u) PROVE store'.resources = store.resources
  BY <1>1, <1>7, StepKeepsResources
<1>8. ASSUME NEW u \in Unit, Merge(u)
      PROVE  /\ IsInjective(store'.resources)
             /\ Len(store.resources) <= Len(store'.resources)
             /\ \A i \in DOMAIN store.resources : store'.resources[i] = store.resources[i]
  <2>1. result[u].emits \in SUBSET Resource
    BY <1>1 DEF Result
  <2>2. store' \in Merged(store, result[u].emits)
    BY <1>8 DEF Merge
  <2> QED
    BY <1>1, <2>1, <2>2, MergedAppends
<1> QED
  BY <1>2, <1>4, <1>5, <1>6, <1>7, <1>8 DEF Next, Progress, Main

-----------------------------------------------------------------------------
(* Rolled-up results.                                                      *)

\* Past the place where a resource's result is stored.
After == {"report", "count", "exit", "done"}

\* What the store holds of resources is what their goroutines have, and a roll-up is made of
\* results that no longer change.
RollUps ==
  /\ \A v \in Unit : ~IsGlobal(v) =>
       /\ v \in DOMAIN store.perRes <=> pc[v] \in After
       /\ pc[v] \in After => store.perRes[v] = result[v]
  /\ \A c \in Check : pc[U(c)] = "fan" => Spawned(c) # {}
  /\ \A c \in DOMAIN store.aggregates :
       /\ pc[U(c)] \in {"exit", "done"} /\ Spawned(c) # {}
       /\ store.aggregates[c] = Aggregate([v \in Spawned(c) |-> result[v]])

\* What a step of u leaves alone; FanOut starts goroutines of the same check.
Alone(u) == \A v \in Unit \ {u} :
  /\ result'[v] = result[v] /\ summary'.results[v] = summary.results[v]
  /\ \/ pc'[v] = pc[v]
     \/ /\ pc[v] = "idle" /\ pc'[v] = "acquire" /\ ~IsGlobal(v) /\ v[1] = u[1]
        /\ IsGlobal(u) /\ pc[u] = "decide" /\ pc'[u] = "fan"

LEMMA RecordedCounts ==
  ASSUME NEW s, SummaryTyped(s), NEW u \in Unit, NEW r
  PROVE  LET t == Recorded(s, u, r) IN
         /\ t.results = [s.results EXCEPT ![u] = @ + 1]
         /\ t.executed + t.skipped + t.failed = s.executed + s.skipped + s.failed + 1
         /\ t.total = s.total /\ t.err = s.err
<1>1. s = [total |-> s.total, executed |-> s.executed, skipped |-> s.skipped,
           failed |-> s.failed, results |-> s.results,
           observations |-> s.observations, err |-> s.err]
  BY DEF SummaryTyped, IsSummary
<1> DEFINE failed   == IF Status(r) = "error"   THEN s.failed + 1 ELSE s.failed
           skipped  == IF Status(r) = "skipped" THEN s.skipped + 1 ELSE s.skipped
           executed == IF Status(r) \notin {"error", "skipped"} THEN s.executed + 1 ELSE s.executed
           results  == [s.results EXCEPT ![u] = @ + 1]
<1>2. executed + skipped + failed = s.executed + s.skipped + s.failed + 1
  <2>1. s.executed \in Nat /\ s.skipped \in Nat /\ s.failed \in Nat
    BY DEF SummaryTyped
  <2>2. CASE Status(r) = "error"
    <3>1. failed = s.failed + 1 /\ skipped = s.skipped /\ executed = s.executed
      BY <2>2
    <3> HIDE DEF failed, skipped, executed
    <3> QED
      BY <2>1, <3>1
  <2>3. CASE Status(r) = "skipped"
    <3>1. failed = s.failed /\ skipped = s.skipped + 1 /\ executed = s.executed
      BY <2>3
    <3> HIDE DEF failed, skipped, executed
    <3> QED
      BY <2>1, <3>1
  <2>4. CASE Status(r) \notin {"error", "skipped"}
    <3>1. failed = s.failed /\ skipped = s.skipped /\ executed = s.executed + 1
      BY <2>4
    <3> HIDE DEF failed, skipped, executed
    <3> QED
      BY <2>1, <3>1
  <2> QED
    BY <2>2, <2>3, <2>4
<1>3. Recorded(s, u, r) = [s EXCEPT !.failed = failed, !.skipped = skipped, !.executed = executed, !.results = results]
  BY <1>1 DEF Recorded
<1> HIDE DEF failed, skipped, executed, results
<1>4. LET t == Recorded(s, u, r) IN
      /\ t.results = results /\ t.executed = executed /\ t.skipped = skipped /\ t.failed = failed
      /\ t.total = s.total /\ t.err = s.err
  BY <1>1, <1>3
<1> QED
  BY <1>2, <1>4 DEF results

LEMMA StepAlone ==
  ASSUME Control, DataTypes, NEW u \in Unit, Step(u)
  PROVE  Alone(u) /\ pc[u] \notin {"idle", "done"} /\ phase = "wait" /\ Order[u[1]] = level /\ UNCHANGED mainVars
<1>1. /\ pc \in [Unit -> PCs] /\ result \in [Unit -> Result] /\ SummaryTyped(summary)
      /\ summary.results \in [Unit -> Nat]
  BY DEF Control, ControlTypes, DataTypes, SummaryTyped
<1>2. pc[u] \notin {"idle", "done"} /\ UNCHANGED mainVars
  BY StepMoves DEF Control, Moves, FanOut
<1>3. phase = "wait" /\ Order[u[1]] = level
  BY <1>2, Active
<1>4. \A v \in Unit \ {u} : result'[v] = result[v]
  <2>1. CASE Acquire(u) \/ Refuse(u) \/ Skip(u) \/ NoResources(u) \/ Return(u)
    BY <1>1, <2>1 DEF Acquire, Refuse, Skip, NoResources, Return
  <2>2. CASE Start(u) \/ Report(u) \/ FanOut(u)
    BY <2>2 DEF Start, Report, FanOut
  <2>3. CASE Set(u) \/ Merge(u) \/ Count(u) \/ FanIn(u) \/ Exit(u)
    BY <2>3 DEF Set, Merge, Count, FanIn, Exit
  <2> QED
    BY <2>1, <2>2, <2>3 DEF Step
<1>5. \A v \in Unit \ {u} : summary'.results[v] = summary.results[v]
  <2>1. CASE Count(u)
    <3>1. summary' = Recorded(summary, u, result[u])
      BY <2>1 DEF Count
    <3>2. summary'.results = [summary.results EXCEPT ![u] = @ + 1]
      BY <1>1, <3>1, RecordedCounts
    <3> QED
      BY <1>1, <3>2
  <2>2. CASE ~Count(u)
    <3>1. summary' = summary
      BY <2>2 DEF Step, Acquire, Refuse, Skip, NoResources, FanOut, Start, Return, Set, Merge, Report, FanIn, Exit
    <3> QED
      BY <3>1
  <2> QED
    BY <2>1, <2>2
<1>6. ASSUME NEW v \in Unit \ {u}
      PROVE  \/ pc'[v] = pc[v]
             \/ /\ pc[v] = "idle" /\ pc'[v] = "acquire" /\ ~IsGlobal(v) /\ v[1] = u[1]
                /\ IsGlobal(u) /\ pc[u] = "decide" /\ pc'[u] = "fan"
  <2>1. CASE FanOut(u)
    <3>1. /\ pc[u] = "decide" /\ pc'[u] = "fan" /\ IsGlobal(u)
          /\ pc'[v] = pc[v] \/ (v[1] = u[1] /\ pc'[v] = "acquire")
      BY <1>1, <2>1 DEF FanOut
    <3>2. v[1] = u[1] => ~IsGlobal(v) /\ U(v[1]) = u
      BY <3>1, UnitFacts
    <3>3. v[1] = u[1] => pc[v] = "idle"
      BY <3>1, <3>2 DEF Control, FansInside
    <3> QED
      BY <3>1, <3>2, <3>3
  <2>2. CASE \E to \in PCs : Moves(u, to)
    BY <1>1, <2>2 DEF Moves
  <2> QED
    BY <2>1, <2>2, StepMoves DEF Control
<1> QED
  BY <1>2, <1>3, <1>4, <1>5, <1>6 DEF Alone

\* A step that leaves the tables of the store alone.
LEMMA RollUpsKept ==
  ASSUME Control, RollUps, DOMAIN store.aggregates \subseteq Check, NEW u \in Unit, Alone(u), pc[u] \notin {"idle", "done"},
         pc' \in [Unit -> PCs], pc'[u] # "idle",
         store'.perRes = store.perRes, store'.aggregates = store.aggregates,
         ~IsGlobal(u) => /\ pc[u] \in After <=> pc'[u] \in After
                         /\ pc[u] \in After => result'[u] = result[u],
         pc[u] = "exit" => pc'[u] = "done",
         IsGlobal(u) /\ pc'[u] = "fan" => Spawned(u[1])' # {}
  PROVE  RollUps'
<1>1. ASSUME NEW c \in Check, pc[U(c)] \in {"fan", "exit", "done"} PROVE Spawned(c) \subseteq Spawned(c)'
  BY UnitFacts DEF Spawned, Alone
<1>2. ASSUME NEW c \in Check, pc[U(c)] \in {"exit", "done"}
      PROVE  /\ Spawned(c)' = Spawned(c)
             /\ \A v \in Spawned(c) : result'[v] = result[v]
  <2>1. \A v \in Fan(c) : v \in Unit /\ v[1] = c /\ ~IsGlobal(v) /\ pc[v] \in {"idle", "done"}
    BY <1>2, UnitFacts DEF Control, FansInside
  <2>2. \A v \in Spawned(c) : v \in Unit \ {u} /\ pc[v] = "done"
    BY <2>1 DEF Spawned
  <2>3. \A v \in Fan(c) : pc[v] = "idle" => pc'[v] = "idle"
    <3> SUFFICES ASSUME NEW v \in Fan(c), pc[v] = "idle", pc'[v] # "idle" PROVE FALSE
      OBVIOUS
    <3>1. v \in Unit /\ v[1] = c /\ ~IsGlobal(v)
      BY <2>1
    <3>2. CASE v = u
      BY <3>2
    <3>3. CASE v # u
      <4>1. IsGlobal(u) /\ v[1] = u[1] /\ pc[u] = "decide"
        BY <3>1, <3>3 DEF Alone
      <4>2. u = U(c)
        BY <3>1, <4>1, UnitFacts
      <4> QED
        BY <1>2, <4>1, <4>2
    <3> QED
      BY <3>2, <3>3
  <2> QED
    BY <2>1, <2>2, <2>3 DEF Spawned, Alone
<1>3. ASSUME NEW v \in Unit, ~IsGlobal(v)
      PROVE  /\ v \in DOMAIN store'.perRes <=> pc'[v] \in After
             /\ pc'[v] \in After => store'.perRes[v] = result'[v]
  BY <1>3 DEF RollUps, Alone, After
<1>4. ASSUME NEW c \in Check, pc'[U(c)] = "fan" PROVE Spawned(c)' # {}
  <2>1. CASE U(c) = u
    BY <1>4, <2>1, UnitFacts
  <2>2. CASE U(c) # u
    BY <1>1, <1>4, <2>2, UnitFacts DEF Alone, RollUps
  <2> QED
    BY <2>1, <2>2
<1>5. ASSUME NEW c \in DOMAIN store'.aggregates
      PROVE  /\ pc'[U(c)] \in {"exit", "done"} /\ Spawned(c)' # {}
             /\ store'.aggregates[c] = Aggregate([v \in Spawned(c)' |-> result'[v]])
  <2>1. c \in Check /\ pc[U(c)] \in {"exit", "done"} /\ Spawned(c) # {}
        /\ store.aggregates[c] = Aggregate([v \in Spawned(c) |-> result[v]])
    BY DEF RollUps
  <2>2. [v \in Spawned(c)' |-> result'[v]] = [v \in Spawned(c) |-> result[v]]
    BY <1>2, <2>1
  <2>3. pc'[U(c)] \in {"exit", "done"}
    BY <2>1, UnitFacts DEF Alone
  <2> QED
    BY <1>2, <2>1, <2>2, <2>3
<1> QED
  BY <1>3, <1>4, <1>5 DEF RollUps

LEMMA StepRollUps ==
  ASSUME RInv, RollUps, NEW u \in Unit, Step(u)
  PROVE  RollUps'
<1>1. /\ Control /\ Control' /\ DataTypes /\ StoreTyped(store) /\ Alone(u) /\ pc[u] \notin {"idle", "done"}
      /\ pc \in [Unit -> PCs] /\ pc' \in [Unit -> PCs] /\ result \in [Unit -> Result] /\ u[1] \in Check
      /\ DOMAIN store.aggregates \subseteq Check
  <2>1. Control' /\ pc' \in [Unit -> PCs]
    BY NextControl DEF RInv, IInv, Next, Progress, Control, ControlTypes
  <2> QED
    BY <2>1, StepAlone, UnitFacts DEF RInv, IInv, DataTypes, StoreTyped, Control, ControlTypes
<1>2. ASSUME pc'[u] # "idle", store'.perRes = store.perRes, store'.aggregates = store.aggregates,
             ~IsGlobal(u) => /\ pc[u] \in After <=> pc'[u] \in After
                             /\ pc[u] \in After => result'[u] = result[u],
             pc[u] = "exit" => pc'[u] = "done",
             IsGlobal(u) /\ pc'[u] = "fan" => Spawned(u[1])' # {}
      PROVE  RollUps'
  BY <1>1, <1>2, RollUpsKept
<1>3. CASE Acquire(u) \/ Refuse(u) \/ Skip(u) \/ NoResources(u) \/ Start(u)
  BY <1>1, <1>2, <1>3 DEF Acquire, Refuse, Skip, NoResources, Start, Goto, After
<1>4. CASE Return(u)
  BY <1>1, <1>2, <1>4 DEF Return, Goto, After
<1>5. CASE Report(u) \/ Count(u) \/ Exit(u)
  BY <1>1, <1>2, <1>5 DEF Report, Count, Exit, Goto, After
<1>6. CASE FanOut(u)
  <2>1. /\ pc[u] = "decide" /\ pc'[u] = "fan" /\ store' = store /\ IsGlobal(u) /\ snapshot.resources # <<>>
    BY <1>1, <1>6 DEF FanOut
  <2>2. snapshot.resources \in Seq(Resource)
    BY <1>1 DEF DataTypes, StoreTyped
  <2>3. snapshot.resources[1] \in Resource /\ snapshot.resources[1] \in Range(snapshot.resources)
    BY <2>1, <2>2 DEF Range
  <2>4. PICK r \in Resource : r \in Range(snapshot.resources)
    BY <2>3
  <2>5. <<u[1], r>> \in Unit /\ <<u[1], r>> \in Fan(u[1]) /\ <<u[1], r>> # u
    BY <1>1, <2>1, SetsAssumption DEF Unit, Fan, IsGlobal
  <2>6. pc'[<<u[1], r>>] = "acquire"
    BY <1>6, <2>4, <2>5 DEF FanOut
  <2>7. Spawned(u[1])' # {}
    BY <2>5, <2>6 DEF Spawned
  <2> QED
    BY <1>2, <2>1, <2>7 DEF After
<1>7. CASE Merge(u)
  <2>1. store'.perRes = store.perRes /\ store'.aggregates = store.aggregates
    BY <1>1, <1>7 DEF Merge, Merged, StoreTyped, IsStore
  <2> QED
    BY <1>1, <1>2, <1>7, <2>1 DEF Merge, Goto, After
<1>8. CASE Set(u)
  <2>1. /\ pc[u] = "set" /\ pc'[u] \in {"merge", "report"}
        /\ ~IsGlobal(u) => pc'[u] = "report"
        /\ result' = result /\ store' = Stored(store, u, result[u])
    BY <1>1, <1>8 DEF Set, Goto
  <2>2. store'.aggregates = store.aggregates
        /\ store'.perRes = IF IsGlobal(u) THEN store.perRes ELSE Put(store.perRes, u, result[u])
    BY <1>1, <2>1 DEF Stored, StoreTyped, IsStore
  <2>3. CASE IsGlobal(u)
    BY <1>2, <2>1, <2>2, <2>3
  <2>4. CASE ~IsGlobal(u)
    <3>0. \A v \in Unit : v # u => pc'[v] = pc[v]
      BY <1>1, <1>8 DEF Set, Goto
    <3>1. ASSUME NEW v \in Unit, ~IsGlobal(v)
          PROVE  /\ v \in DOMAIN store'.perRes <=> pc'[v] \in After
                 /\ pc'[v] \in After => store'.perRes[v] = result'[v]
      <4>1. CASE v = u
        BY <2>1, <2>2, <2>4, <4>1 DEF Put, After
      <4>2. CASE v # u
        <5>1. pc'[v] = pc[v] /\ result'[v] = result[v]
          BY <2>1, <3>0, <4>2
        <5>2. v \in DOMAIN store'.perRes <=> v \in DOMAIN store.perRes
          BY <2>2, <2>4, <4>2 DEF Put
        <5>3. v \in DOMAIN store.perRes => store'.perRes[v] = store.perRes[v]
          BY <2>2, <2>4, <4>2 DEF Put
        <5> QED
          BY <3>1, <5>1, <5>2, <5>3 DEF RollUps
      <4> QED
        BY <4>1, <4>2
    <3>2. \A c \in Check : U(c) # u /\ pc'[U(c)] = pc[U(c)]
      BY <2>4, <3>0, UnitFacts
    <3>3. \A v \in Unit : pc'[v] = "idle" <=> pc[v] = "idle"
      <4>1. pc' = [pc EXCEPT ![u] = pc'[u]]
        BY <1>1, <1>8 DEF Set, Goto
      <4> QED
        BY <1>1, <2>1, <4>1
    <3>4. \A c \in Check : Spawned(c)' = Spawned(c)
      BY <3>3, UnitFacts DEF Spawned
    <3>5. \A c \in Check : [v \in Spawned(c)' |-> result'[v]] = [v \in Spawned(c) |-> result[v]]
      BY <2>1, <3>4
    <3> QED
      BY <1>1, <2>2, <3>1, <3>2, <3>4, <3>5 DEF RollUps
  <2> QED
    BY <2>3, <2>4
<1>9. CASE FanIn(u)
  <2> DEFINE c == u[1]
             new == Aggregate([v \in Spawned(c) |-> result[v]])
  <2>1. /\ pc' = [pc EXCEPT ![u] = "exit"] /\ pc[u] = "fan" /\ IsGlobal(u) /\ u = U(c) /\ result' = result
        /\ store' = [store EXCEPT !.aggregates = Put(@, c, new)]
    BY <1>1, <1>9, UnitFacts DEF FanIn, Goto
  <2> HIDE DEF new
  <2>2. store'.perRes = store.perRes /\ store'.aggregates = Put(store.aggregates, c, new)
    BY <1>1, <2>1 DEF StoreTyped, IsStore
  <2>3. \A v \in Unit : v # u => pc'[v] = pc[v]
    BY <1>1, <2>1
  <2>4. \A d \in Check : Spawned(d)' = Spawned(d)
    BY <1>1, <2>1, UnitFacts DEF Spawned
  <2>5. \A d \in Check : [v \in Spawned(d)' |-> result'[v]] = [v \in Spawned(d) |-> result[v]]
    BY <2>1, <2>4
  <2>6. ASSUME NEW v \in Unit, ~IsGlobal(v)
        PROVE  /\ v \in DOMAIN store'.perRes <=> pc'[v] \in After
               /\ pc'[v] \in After => store'.perRes[v] = result'[v]
    BY <2>1, <2>2, <2>3, <2>6 DEF RollUps
  <2>7. ASSUME NEW d \in Check, pc'[U(d)] = "fan" PROVE Spawned(d)' # {}
    BY <1>1, <2>1, <2>3, <2>4, <2>7, UnitFacts DEF RollUps
  <2>8. ASSUME NEW d \in DOMAIN store'.aggregates
        PROVE  /\ pc'[U(d)] \in {"exit", "done"} /\ Spawned(d)' # {}
               /\ store'.aggregates[d] = Aggregate([v \in Spawned(d)' |-> result'[v]])
    <3>1. CASE d = c
      <4>1. store'.aggregates[d] = new
        BY <2>2, <3>1 DEF Put
      <4>2. Spawned(d)' # {}
        BY <1>1, <2>1, <2>4, <3>1 DEF RollUps
      <4> QED
        BY <1>1, <2>1, <2>5, <3>1, <4>1, <4>2 DEF new
    <3>2. CASE d # c
      <4>1. d \in DOMAIN store.aggregates /\ d \in Check /\ store'.aggregates[d] = store.aggregates[d]
        BY <1>1, <2>2, <3>2 DEF Put
      <4>2. U(d) # u /\ pc'[U(d)] = pc[U(d)]
        BY <2>1, <2>3, <3>2, <4>1, UnitFacts
      <4> QED
        BY <2>4, <2>5, <4>1, <4>2 DEF RollUps
    <3> QED
      BY <3>1, <3>2
  <2> QED
    BY <2>6, <2>7, <2>8 DEF RollUps
<1> QED
  BY <1>3, <1>4, <1>5, <1>6, <1>7, <1>8, <1>9 DEF Step

LEMMA MainRollUps ==
  ASSUME RInv, RollUps, Cancel \/ Main \/ UNCHANGED vars
  PROVE  RollUps'
<1>1. /\ Control /\ DataTypes /\ StoreTyped(store) /\ result \in [Unit -> Result]
      /\ pc \in [Unit -> PCs] /\ DOMAIN store.aggregates \subseteq Check
  BY DEF RInv, IInv, DataTypes, StoreTyped, Control, ControlTypes
<1>2. ASSUME UNCHANGED <<pc, result, store>> PROVE RollUps'
  <2>1. \A c \in Check : [v \in Spawned(c)' |-> result'[v]] = [v \in Spawned(c) |-> result[v]]
    BY <1>2 DEF Spawned
  <2> QED
    BY <1>1, <1>2, <2>1 DEF RollUps, Spawned
<1>3. CASE Cancel \/ UNCHANGED vars \/ Reject \/ Begin \/ CloseLevel \/ Abandon \/ EndLoop
  BY <1>2, <1>3 DEF Cancel, vars, Reject, Begin, CloseLevel, Abandon, EndLoop
<1>4. CASE Finalize
  <2>1. UNCHANGED <<pc, result, store>>
    BY <1>4, Zenon DEF Finalize
  <2> QED
    BY <1>2, <2>1
\* Checks that had not begun begin or are drained; their resources stay idle.
<1>5. ASSUME NEW C \in SUBSET Check, \A c \in C : pc[U(c)] = "idle",
             NEW to \in {"acquire", "done"},
             \A v \in Unit : pc'[v] = IF IsGlobal(v) /\ v[1] \in C THEN to ELSE pc[v],
             \A v \in Unit : ~IsGlobal(v) \/ v[1] \notin C => result'[v] = result[v],
             store'.perRes = store.perRes, store'.aggregates = store.aggregates
      PROVE  RollUps'
  <2>1. \A c \in Check : Spawned(c)' = Spawned(c)
    BY <1>5, UnitFacts DEF Spawned
  <2>2. \A v \in Unit : ~IsGlobal(v) => pc'[v] = pc[v] /\ result'[v] = result[v]
    BY <1>5
  <2>3. \A c \in Check : [v \in Spawned(c)' |-> result'[v]] = [v \in Spawned(c) |-> result[v]]
    BY <2>1, <2>2, UnitFacts DEF Spawned
  <2>4. \A c \in Check : c \notin C => pc'[U(c)] = pc[U(c)]
    BY <1>5, UnitFacts
  <2>5. \A c \in C : pc'[U(c)] = to /\ to # "fan"
    BY <1>5, UnitFacts
  <2>6. \A c \in DOMAIN store.aggregates : c \notin C
    BY <1>1, <1>5 DEF RollUps
  <2> QED
    BY <1>1, <1>5, <2>1, <2>2, <2>3, <2>4, <2>5, <2>6 DEF RollUps
<1>6. CASE OpenLevel
  <2>1. /\ phase = "level" /\ UNCHANGED <<store, result>>
        /\ \A v \in Unit : pc'[v] = IF IsGlobal(v) /\ v[1] \in AtLevel(level) THEN "acquire" ELSE pc[v]
    BY <1>1, <1>6, UnitFacts DEF OpenLevel, AtLevel
  <2>2. \A c \in AtLevel(level) : pc[U(c)] = "idle"
    BY <1>1, <2>1, OrderFacts DEF Control, ControlTypes, Barrier, AtLevel
  <2>3. AtLevel(level) \in SUBSET Check
    BY DEF AtLevel
  <2> QED
    BY <1>5, <2>1, <2>2, <2>3
<1>7. ASSUME NEW c \in Check, RecordCancelled(c) PROVE RollUps'
  <2>1. PICK u \in Unit : u = U(c) /\ IsGlobal(u)
    BY UnitFacts
  <2>2. /\ pc[u] = "idle" /\ pc' = [pc EXCEPT ![u] = "done"]
        /\ result' = [result EXCEPT ![u] = Skipped("cancelled")]
        /\ store' = Stored(store, u, Skipped("cancelled"))
    BY <1>7, <2>1 DEF RecordCancelled, Undrained
  <2>3. store'.perRes = store.perRes /\ store'.aggregates = store.aggregates
    BY <1>1, <2>1, <2>2 DEF Stored, StoreTyped, IsStore
  <2>4. \A v \in Unit : IsGlobal(v) /\ v[1] \in {c} <=> v = u
    BY <2>1, UnitFacts
  <2>5. /\ \A v \in Unit : pc'[v] = IF IsGlobal(v) /\ v[1] \in {c} THEN "done" ELSE pc[v]
        /\ \A v \in Unit : ~IsGlobal(v) \/ v[1] \notin {c} => result'[v] = result[v]
    BY <1>1, <2>2, <2>4
  <2>6. \A d \in {c} : pc[U(d)] = "idle"
    BY <2>1, <2>2
  <2> QED
    BY <1>5, <2>3, <2>5, <2>6
<1> QED
  BY <1>3, <1>4, <1>6, <1>7 DEF Main

LEMMA InitRollUps == Init => RollUps
BY UnitFacts DEF Init, EmptyStore, RollUps, After

LEMMA RollUpsInvariance == SafeSpec => [](RInv /\ RollUps)
<1>1. RInv /\ RollUps /\ [Next]_vars => RollUps'
  BY StepRollUps, MainRollUps DEF Next, Progress
<1> QED
  BY <1>1, InitRollUps, ReportsInvariance, PTL DEF SafeSpec

\* A rolled-up result says what the stored results of the resources say (engine.go, aggregateResources).
THEOREM AggregatesAgree == SafeSpec => []AggregateFaithful
<1>1. RInv /\ RollUps => AggregateFaithful
  <2> SUFFICES ASSUME RInv, RollUps, NEW c \in DOMAIN store.aggregates
               PROVE  LET mine == Fan(c) \cap DOMAIN store.perRes
                          agg  == store.aggregates[c]
                      IN /\ mine = Spawned(c)
                         /\ agg.err <=> \E u \in mine : Status(store.perRes[u]) = "error"
                         /\ Status(agg) = "skipped" <=> \A u \in mine : Status(store.perRes[u]) = "skipped"
                         /\ agg.obs = TotalObs([u \in mine |-> store.perRes[u]])
    BY DEF AggregateFaithful
  <2> DEFINE rs == [v \in Spawned(c) |-> result[v]]
             agg == store.aggregates[c]
  <2>1. /\ c \in Check /\ pc[U(c)] \in {"exit", "done"} /\ Spawned(c) # {} /\ agg = Aggregate(rs)
        /\ result \in [Unit -> Result]
    BY DEF RInv, DataTypes, StoreTyped, RollUps
  <2>2. \A v \in Fan(c) : v \in Unit /\ ~IsGlobal(v) /\ pc[v] \in {"idle", "done"}
    BY <2>1, UnitFacts DEF RInv, IInv, Control, FansInside
  <2>3. \A v \in Fan(c) : v \in DOMAIN store.perRes <=> pc[v] = "done"
    BY <2>2 DEF RollUps, After
  <2>4. Fan(c) \cap DOMAIN store.perRes = Spawned(c)
    BY <2>2, <2>3 DEF Spawned
  <2>5. \A v \in Spawned(c) : store.perRes[v] = result[v] /\ result[v] \in Result
    BY <2>1, <2>2 DEF RollUps, After, Spawned
  <2>6. [u \in Fan(c) \cap DOMAIN store.perRes |-> store.perRes[u]] = rs
    BY <2>4, <2>5
  <2>0. DOMAIN rs = Spawned(c) /\ \A u \in Spawned(c) : rs[u] = result[u]
    OBVIOUS
  <2> HIDE DEF rs
  <2>10. agg = [err   |-> \E u \in DOMAIN rs : rs[u].err,
               skip  |-> IF DOMAIN rs # {} /\ \A u \in DOMAIN rs : ~rs[u].err /\ rs[u].skip # "no"
                         THEN "all resources" ELSE "no",
               obs   |-> TotalObs(rs),
               emits |-> {}]
    BY <2>1 DEF Aggregate
  <2> HIDE DEF agg
  <2>7. agg.obs = TotalObs(rs) /\ (agg.err <=> \E u \in DOMAIN rs : rs[u].err)
    <3>1. agg.obs = TotalObs(rs)
      BY <2>10
    <3>2. agg.err = (\E u \in DOMAIN rs : rs[u].err)
      BY <2>10, Zenon
    <3> QED
      BY <3>1, <3>2
  <2>8. \A u \in Spawned(c) : /\ Status(result[u]) = "error" <=> result[u].err
                              /\ Status(result[u]) = "skipped" <=> ~result[u].err /\ result[u].skip # "no"
    BY DEF Status
  <2>9. Status(agg) = "skipped" <=> \A u \in Spawned(c) : ~result[u].err /\ result[u].skip # "no"
    <3>1. agg.skip = IF DOMAIN rs # {} /\ \A u \in DOMAIN rs : ~rs[u].err /\ rs[u].skip # "no"
                     THEN "all resources" ELSE "no"
      BY <2>10
    <3> QED
      BY <2>0, <2>1, <2>7, <3>1 DEF Status
  <2> QED
    BY <2>0, <2>4, <2>5, <2>6, <2>7, <2>8, <2>9 DEF agg
<1> QED
  BY <1>1, RollUpsInvariance, PTL

-----------------------------------------------------------------------------
(* The entries of the summary.                                             *)

\* The entries of a unit, by where its goroutine is; who has none has found nothing.
Entry(u) ==
  /\ pc[u] \notin {"exit", "done"} => summary.results[u] = 0
  /\ pc[u] \in {"exit", "done"} => summary.results[u] \in {0, 1}
  /\ pc[u] \in {"exit", "done"} /\ ~IsGlobal(u) => summary.results[u] = 1
  /\ pc[u] \in {"idle", "acquire", "decide", "exec", "fan"} => result[u].emits = {}
  /\ pc[u] \in {"exit", "done"} /\ summary.results[u] = 0 => result[u].emits = {}

\* The resources that the recorded units of the levels below l have found.
Emitted(l) == UNION {result[u].emits : u \in {v \in RecordedUnits : Order[v[1]] < l}}

\* A check that fanned out has no entry, but one for each resource found before its level.
Fanned(c) ==
  /\ pc[U(c)] \in {"exit", "done"} => (summary.results[U(c)] = 0 <=> Spawned(c) # {})
  /\ \A r \in Resource : Spawned(c) # {} => (<<c, r>> \in Spawned(c) <=> r \in Emitted(Order[c]))

\* The store has the resources of whoever is past its merge, the snapshot those of earlier levels.
Merging(u) == pc[u] \in After \/ (~IsGlobal(u) /\ pc[u] = "set")

Gathered ==
  /\ IsInjective(store.resources)
  /\ \A r \in Resource : r \in Range(store.resources) <=> \E u \in Unit : Merging(u) /\ r \in result[u].emits
  /\ phase = "wait" => \A r \in Resource : r \in Range(snapshot.resources) <=> r \in Emitted(level)

Counters == summary.executed + summary.skipped + summary.failed = Cardinality(RecordedUnits)

\* A scan that began ends with every check done.
Ending ==
  /\ phase = "start" => summary.total = 0
  /\ phase \in {"final", "done"} /\ summary.total > 0 => \A c \in Check : pc[U(c)] = "done"

\* Nothing is dropped before the context ends, nor by a scan that returned nil.
Dropped == \E u \in Unit : result[u].skip = "cancelled"
Honest ==
  /\ phase = "drain" => cancelled
  /\ Dropped => cancelled
  /\ phase \in {"final", "done"} /\ summary.err = "none" => ~Dropped

Entries == /\ \A u \in Unit : Entry(u)
           /\ \A c \in Check : Fanned(c)
           /\ Gathered /\ Counters /\ Ending /\ Honest

EInv == RInv /\ RollUps /\ Entries

\* Where the invariant leads.
LEMMA AllAccounted == EInv => EveryCheckAccounted
<1> SUFFICES ASSUME EInv, phase = "done", summary.total > 0 PROVE EveryCheckAccounted
  BY DEF EveryCheckAccounted
<1>1. /\ Control /\ Entries /\ pc \in [Unit -> PCs] /\ summary.results \in [Unit -> Nat]
      /\ result \in [Unit -> Result] /\ \A c \in Check : pc[U(c)] = "done"
  BY DEF EInv, RInv, IInv, DataTypes, SummaryTyped, Entries, Ending, Control, ControlTypes
<1>2. ASSUME NEW c \in Check
      PROVE  LET fanned == {u[2] : u \in RecordedUnits \cap Fan(c)} IN
             IF U(c) \in RecordedUnits THEN fanned = {} ELSE fanned = Known(c) /\ fanned # {}
  <2>1. RecordedUnits \cap Fan(c) = Spawned(c)
    <3>1. \A v \in Fan(c) : v \in Unit /\ ~IsGlobal(v) /\ pc[v] \in {"idle", "done"}
      BY <1>1, UnitFacts DEF Control, FansInside
    <3>2. \A v \in Fan(c) : v \in RecordedUnits <=> pc[v] = "done"
      BY <1>1, <3>1 DEF Entries, Entry, RecordedUnits
    <3> QED
      BY <3>1, <3>2 DEF Spawned
  <2>2. U(c) \in RecordedUnits <=> Spawned(c) = {}
    BY <1>1, UnitFacts DEF Entries, Fanned, RecordedUnits
  <2>3. Known(c) = Emitted(Order[c])
    BY DEF Known, Emitted
  <2>4. Emitted(Order[c]) \subseteq Resource
    BY <1>1 DEF Emitted, RecordedUnits, Result
  <2>5. ASSUME Spawned(c) # {} PROVE {u[2] : u \in Spawned(c)} = Emitted(Order[c])
    <3>1. \A r \in Resource : <<c, r>> \in Spawned(c) <=> r \in Emitted(Order[c])
      BY <1>1, <2>5 DEF Entries, Fanned
    <3>2. \A u \in Spawned(c) : u = <<c, u[2]>> /\ u[2] \in Resource
      BY DEF Spawned, Fan
    <3> QED
      BY <2>4, <3>1, <3>2
  <2> QED
    BY <2>1, <2>2, <2>3, <2>5
<1>3. \A u \in Unit : summary.results[u] <= 1
  BY <1>1 DEF Entries, Entry
<1>4. summary.executed + summary.skipped + summary.failed = Cardinality(RecordedUnits)
  BY <1>1 DEF Entries, Counters
<1>5. summary.err = "none" => \A u \in RecordedUnits : result[u].skip # "cancelled"
  BY <1>1 DEF Entries, Honest, Dropped, RecordedUnits
<1> QED
  BY <1>2, <1>3, <1>4, <1>5 DEF EveryCheckAccounted

LEMMA InitEntries == Init => Entries
<1> SUFFICES ASSUME Init PROVE Entries
  OBVIOUS
<1>1. \A u \in Unit : Entry(u)
  BY DEF Init, Entry, NoResult
<1>2. \A c \in Check : pc[U(c)] = "idle" /\ Spawned(c) = {}
  BY UnitFacts DEF Init, Spawned
<1>3. Gathered
  BY DEF Init, Gathered, Merging, After, EmptyStore, Range, IsInjective
<1>4. Counters
  <2>1. RecordedUnits = {}
    BY DEF Init, RecordedUnits
  <2> QED
    BY <2>1, FS_EmptySet DEF Init, Counters
<1>5. Ending /\ Honest
  BY DEF Init, Ending, Honest, Dropped, NoResult
<1> QED
  BY <1>1, <1>2, <1>3, <1>4, <1>5 DEF Entries, Fanned

\* What every goroutine step keeps, whatever else it does.
LEMMA StepFacts ==
  ASSUME EInv, NEW u \in Unit, Step(u)
  PROVE  /\ Control /\ DataTypes /\ RollUps /\ Entries /\ Control' /\ Alone(u) /\ SummaryTyped(summary)
         /\ pc[u] \notin {"idle", "done"} /\ phase = "wait" /\ Order[u[1]] = level
         /\ phase' = phase /\ level' = level /\ snapshot' = snapshot /\ cancelled' = cancelled
         /\ pc \in [Unit -> PCs] /\ pc' \in [Unit -> PCs] /\ result \in [Unit -> Result]
         /\ summary.results \in [Unit -> Nat] /\ u[1] \in Check /\ level \in Nat
<1>1. Control /\ DataTypes /\ RollUps /\ Entries
  BY DEF EInv, RInv, IInv
<1>2. Control'
  BY <1>1, NextControl DEF Next, Progress
<1>3. Alone(u) /\ pc[u] \notin {"idle", "done"} /\ phase = "wait" /\ Order[u[1]] = level /\ UNCHANGED mainVars
  BY <1>1, StepAlone
<1>4. cancelled' = cancelled
  <2>1. CASE Acquire(u) \/ Refuse(u) \/ Skip(u) \/ NoResources(u) \/ Return(u)
    BY <2>1 DEF Acquire, Refuse, Skip, NoResources, Return
  <2>2. CASE Start(u) \/ Report(u) \/ FanOut(u)
    BY <2>2 DEF Start, Report, FanOut
  <2>3. CASE Set(u) \/ Merge(u) \/ Count(u) \/ FanIn(u) \/ Exit(u)
    BY <2>3 DEF Set, Merge, Count, FanIn, Exit
  <2> QED
    BY <2>1, <2>2, <2>3 DEF Step
<1> QED
  BY <1>1, <1>2, <1>3, <1>4, UnitFacts DEF mainVars, Control, ControlTypes, DataTypes, SummaryTyped

\* Only Count writes the summary.
LEMMA OnlyCount == ASSUME NEW u \in Unit, Step(u), ~Count(u) PROVE summary' = summary
BY DEF Step, Acquire, Refuse, Skip, NoResources, FanOut, Start, Return, Set, Merge, Report, FanIn, Exit

LEMMA StepEntry ==
  ASSUME EInv, NEW u \in Unit, Step(u)
  PROVE  \A v \in Unit : Entry(v)'
<1>1. /\ Entries /\ Alone(u) /\ SummaryTyped(summary) /\ pc[u] \notin {"idle", "done"}
      /\ pc \in [Unit -> PCs] /\ result \in [Unit -> Result] /\ summary.results \in [Unit -> Nat]
  BY StepFacts
<1>2. Entry(u)
  BY <1>1 DEF Entries
<1>3. Entry(u)'
  <2>1. CASE Acquire(u) \/ Start(u)
    BY <1>1, <1>2, <2>1 DEF Acquire, Start, Goto, Entry
  <2>2. CASE Refuse(u) \/ Skip(u) \/ NoResources(u)
    BY <1>1, <1>2, <2>2 DEF Refuse, Skip, NoResources, Goto, Entry
  <2>3. CASE Return(u)
    BY <1>1, <1>2, <2>3 DEF Return, Goto, Entry
  <2>4. CASE Set(u) \/ Merge(u) \/ Report(u) \/ Exit(u)
    BY <1>1, <1>2, <2>4 DEF Set, Merge, Report, Exit, Goto, Entry
  <2>5. CASE FanOut(u)
    BY <1>1, <1>2, <2>5 DEF FanOut, Entry
  <2>6. CASE FanIn(u)
    BY <1>1, <1>2, <2>6 DEF FanIn, Goto, Entry
  <2>7. CASE Count(u)
    <3>1. /\ summary' = Recorded(summary, u, result[u]) /\ pc[u] = "count" /\ result' = result
          /\ pc'[u] = "exit"
      BY <1>1, <2>7 DEF Count, Goto
    <3>2. summary'.results = [summary.results EXCEPT ![u] = @ + 1]
      BY <1>1, <3>1, RecordedCounts
    <3>3. summary'.results[u] = 1
      BY <1>1, <1>2, <3>1, <3>2 DEF Entry
    <3> QED
      BY <3>1, <3>3 DEF Entry
  <2> QED
    BY <2>1, <2>2, <2>3, <2>4, <2>5, <2>6, <2>7 DEF Step
<1>4. ASSUME NEW v \in Unit \ {u} PROVE Entry(v)'
  <2>1. Entry(v) /\ result'[v] = result[v] /\ summary'.results[v] = summary.results[v]
        /\ (pc'[v] = pc[v] \/ (pc[v] = "idle" /\ pc'[v] = "acquire"))
    BY <1>1 DEF Entries, Alone
  <2> QED
    BY <2>1 DEF Entry
<1> QED
  BY <1>3, <1>4

\* What the earlier levels have found stays.
LEMMA EmittedStays ==
  ASSUME EInv, NEW u \in Unit, Step(u), NEW l \in Nat, l <= level
  PROVE  Emitted(l)' = Emitted(l)
<1>1. Alone(u) /\ Order[u[1]] = level /\ level \in Nat
  BY StepFacts
<1>2. ASSUME NEW v \in Unit, Order[v[1]] < l PROVE result'[v] = result[v] /\ summary'.results[v] = summary.results[v]
  <2>1. v # u
    BY <1>1, <1>2
  <2> QED
    BY <1>1, <2>1 DEF Alone
<1>3. {v \in RecordedUnits' : Order[v[1]] < l} = {v \in RecordedUnits : Order[v[1]] < l}
  BY <1>2 DEF RecordedUnits
<1>4. \A v \in {v \in RecordedUnits : Order[v[1]] < l} : result'[v] = result[v]
  BY <1>2 DEF RecordedUnits
<1> QED
  BY <1>3, <1>4 DEF Emitted

\* Only FanOut starts goroutines.
LEMMA SpawnedStays ==
  ASSUME EInv, NEW u \in Unit, Step(u), ~FanOut(u), NEW c \in Check
  PROVE  Spawned(c)' = Spawned(c)
<1>1. PICK to \in PCs : Moves(u, to)
  BY StepMoves, StepFacts DEF Control
<1>2. /\ pc \in [Unit -> PCs] /\ pc' = [pc EXCEPT ![u] = to] /\ pc[u] # "idle" /\ to # "idle"
  BY <1>1, StepFacts DEF Moves
<1>3. \A v \in Unit : pc'[v] = "idle" <=> pc[v] = "idle"
  BY <1>2
<1> QED
  BY <1>3, UnitFacts DEF Spawned

LEMMA StepFanned ==
  ASSUME EInv, NEW u \in Unit, Step(u), NEW c \in Check
  PROVE  Fanned(c)'
<1>1. /\ Control /\ RollUps /\ Entries /\ Alone(u) /\ SummaryTyped(summary) /\ pc[u] \notin {"idle", "done"}
      /\ pc \in [Unit -> PCs] /\ summary.results \in [Unit -> Nat] /\ level \in Nat
      /\ phase = "wait" /\ Order[u[1]] = level /\ Fanned(c) /\ Entry(U(c)) /\ u[1] \in Check
  BY StepFacts, UnitFacts DEF Entries
<1>2. U(c) \in Unit /\ IsGlobal(U(c)) /\ \A v \in Fan(c) : v \in Unit /\ v[1] = c /\ ~IsGlobal(v)
  BY UnitFacts
<1>3. Order[c] > level => Spawned(c) = {}
  BY <1>1, <1>2 DEF Control, FansInside, Barrier, Spawned
<1>4. Order[c] \in Nat /\ (Order[c] <= level \/ Order[c] > level)
  BY <1>1, OrderFacts
<1>5. Order[c] <= level => Emitted(Order[c])' = Emitted(Order[c])
  BY <1>4, EmittedStays
<1>6. CASE FanOut(u)
  <2>1. /\ pc[u] = "decide" /\ IsGlobal(u) /\ summary' = summary
        /\ \A v \in Unit : pc'[v] = IF v = u THEN "fan"
             ELSE IF v[1] = u[1] /\ v[2] \in Range(snapshot.resources) THEN "acquire" ELSE pc[v]
    BY <1>6 DEF FanOut
  <2>2. CASE c = u[1]
    <3>1. u = U(c) /\ pc'[u] = "fan"
      BY <2>1, <2>2, UnitFacts
    <3>2. \A v \in Fan(c) : pc[v] = "idle" /\ v # u
      BY <1>1, <1>2, <2>1, <3>1 DEF Control, FansInside
    <3>3. ASSUME NEW r \in Resource PROVE <<c, r>> \in Spawned(c)' <=> r \in Range(snapshot.resources)
      <4>1. <<c, r>> \in Fan(c) /\ <<c, r>> \in Unit /\ pc[<<c, r>>] = "idle" /\ <<c, r>> # u
        BY <1>2, <3>2 DEF Fan
      <4>2. pc'[<<c, r>>] = IF r \in Range(snapshot.resources) THEN "acquire" ELSE "idle"
        BY <2>1, <2>2, <4>1
      <4> QED
        BY <4>1, <4>2 DEF Spawned
    <3>4. \A r \in Resource : r \in Range(snapshot.resources) <=> r \in Emitted(level)
      BY <1>1 DEF Entries, Gathered
    <3>5. Emitted(Order[c])' = Emitted(level) /\ Order[c] = level
      BY <1>1, <1>4, <1>5, <2>2
    <3> QED
      BY <3>1, <3>3, <3>4, <3>5 DEF Fanned
  <2>3. CASE c # u[1]
    <3>1. \A v \in Unit : v[1] = c => pc'[v] = pc[v]
      BY <2>1, <2>3
    <3>2. Spawned(c)' = Spawned(c) /\ pc'[U(c)] = pc[U(c)]
      BY <1>2, <3>1, UnitFacts DEF Spawned
    <3> QED
      BY <1>1, <1>3, <1>4, <1>5, <2>1, <3>2 DEF Fanned
  <2> QED
    BY <2>2, <2>3
<1>7. CASE ~FanOut(u)
  <2>1. Spawned(c)' = Spawned(c)
    BY <1>7, SpawnedStays
  <2>2. ASSUME pc'[U(c)] \in {"exit", "done"}
        PROVE  summary'.results[U(c)] = 0 <=> Spawned(c) # {}
    <3>1. CASE U(c) # u
      <4>1. pc'[U(c)] = pc[U(c)] /\ summary'.results[U(c)] = summary.results[U(c)]
        BY <1>1, <1>2, <3>1 DEF Alone
      <4> QED
        BY <1>1, <2>2, <4>1 DEF Fanned
    <3>2. CASE U(c) = u /\ Count(u)
      <4>1. pc[u] = "count" /\ summary' = Recorded(summary, u, result[u])
        BY <3>2 DEF Count, Goto
      <4>2. summary'.results = [summary.results EXCEPT ![u] = @ + 1]
        BY <1>1, <4>1, RecordedCounts
      <4>3. summary'.results[u] = 1
        BY <1>1, <3>2, <4>1, <4>2 DEF Entry
      <4>4. Spawned(c) = {}
        BY <1>1, <1>2, <3>2, <4>1 DEF Control, FansInside, Spawned
      <4> QED
        BY <3>2, <4>3, <4>4
    <3>3. CASE U(c) = u /\ FanIn(u)
      <4>1. pc[u] = "fan" /\ summary' = summary
        BY <3>3 DEF FanIn, Goto
      <4> QED
        BY <1>1, <3>3, <4>1 DEF RollUps, Entry
    <3>4. CASE U(c) = u /\ Exit(u)
      <4>1. pc[u] = "exit" /\ summary' = summary
        BY <3>4 DEF Exit, Goto
      <4> QED
        BY <1>1, <3>4, <4>1 DEF Fanned
    <3>5. CASE U(c) = u /\ ~Count(u) /\ ~FanIn(u) /\ ~Exit(u)
      <4>1. CASE Return(u)
        BY <1>1, <2>2, <3>5, <4>1 DEF Return, Goto
      <4>2. CASE Acquire(u) \/ Refuse(u) \/ Skip(u) \/ NoResources(u) \/ Start(u)
        BY <1>1, <2>2, <3>5, <4>2 DEF Acquire, Refuse, Skip, NoResources, Start, Goto
      <4>3. CASE Set(u) \/ Merge(u) \/ Report(u)
        BY <1>1, <2>2, <3>5, <4>3 DEF Set, Merge, Report, Goto
      <4> QED
        BY <1>7, <3>5, <4>1, <4>2, <4>3 DEF Step
    <3> QED
      BY <3>1, <3>2, <3>3, <3>4, <3>5
  <2> QED
    BY <1>1, <1>3, <1>4, <1>5, <2>1, <2>2 DEF Fanned
<1> QED
  BY <1>6, <1>7

LEMMA StepGathered ==
  ASSUME EInv, NEW u \in Unit, Step(u)
  PROVE  Gathered'
<1>1. /\ DataTypes /\ Entries /\ Alone(u) /\ StoreTyped(store) /\ IsInjective(store.resources)
      /\ pc \in [Unit -> PCs] /\ result \in [Unit -> Result] /\ pc[u] \notin {"idle", "done"}
      /\ phase = "wait" /\ phase' = phase /\ level' = level /\ snapshot' = snapshot /\ level \in Nat
      /\ Entry(u) /\ Gathered
  BY StepFacts DEF EInv, Entries, Gathered, DataTypes
<1>2. ASSUME NEW v \in Unit \ {u} PROVE result'[v] = result[v] /\ (Merging(v)' <=> Merging(v))
  BY <1>1 DEF Alone, Merging, After
<1>3. \A r \in Resource : r \in Range(snapshot'.resources) <=> r \in Emitted(level)'
  BY <1>1, EmittedStays DEF Gathered
<1>4. ASSUME store'.resources = store.resources,
             \A r \in Resource : Merging(u)' /\ r \in result'[u].emits <=> Merging(u) /\ r \in result[u].emits
      PROVE  Gathered'
  <2>1. ASSUME NEW r \in Resource
        PROVE  (\E v \in Unit : Merging(v)' /\ r \in result'[v].emits) <=> (\E v \in Unit : Merging(v) /\ r \in result[v].emits)
    BY <1>2, <1>4
  <2> QED
    BY <1>1, <1>3, <1>4, <2>1 DEF Gathered
<1>5. CASE Merge(u)
  <2>1. /\ pc[u] = "merge" /\ pc'[u] \in {"report", "set"} /\ (IsGlobal(u) <=> pc'[u] = "report")
        /\ result' = result /\ store' \in Merged(store, result[u].emits) /\ result[u].emits \in SUBSET Resource
    BY <1>1, <1>5 DEF Merge, Goto, Result
  <2>2. IsInjective(store'.resources) /\ Range(store'.resources) = Range(store.resources) \cup result[u].emits
    BY <1>1, <2>1, MergedAppends
  <2>3. ~Merging(u) /\ Merging(u)'
    BY <2>1 DEF Merging, After
  <2>4. ASSUME NEW r \in Resource
        PROVE  r \in Range(store'.resources) <=> \E v \in Unit : Merging(v)' /\ r \in result'[v].emits
    BY <1>1, <1>2, <2>1, <2>2, <2>3 DEF Gathered
  <2> QED
    BY <1>1, <1>3, <2>2, <2>4 DEF Gathered
<1>6. CASE ~Merge(u)
  <2>0. store'.resources = store.resources
    BY <1>1, <1>6, StepKeepsResources
  <2>1. CASE Acquire(u) \/ Start(u)
    BY <1>1, <1>4, <2>0, <2>1 DEF Acquire, Start, Goto, Merging, After
  <2>2. CASE Refuse(u) \/ Skip(u) \/ NoResources(u)
    <3>1. result'[u].emits = {} /\ result[u].emits = {}
      BY <1>1, <2>2 DEF Refuse, Skip, NoResources, Goto, Skipped, NoResult, Entry
    <3> QED
      BY <1>4, <2>0, <3>1
  <2>3. CASE Return(u)
    BY <1>1, <1>4, <2>0, <2>3 DEF Return, Goto, Merging, After
  <2>4. CASE Set(u)
    BY <1>1, <1>4, <2>0, <2>4 DEF Set, Goto, Merging, After
  <2>5. CASE Report(u) \/ Count(u) \/ Exit(u)
    BY <1>1, <1>4, <2>0, <2>5 DEF Report, Count, Exit, Goto, Merging, After
  <2>6. CASE FanIn(u) \/ FanOut(u)
    <3>1. result' = result /\ result[u].emits = {}
      BY <1>1, <2>6 DEF FanIn, FanOut, Goto, Entry
    <3> QED
      BY <1>4, <2>0, <3>1
  <2> QED
    BY <1>6, <2>1, <2>2, <2>3, <2>4, <2>5, <2>6 DEF Step
<1> QED
  BY <1>5, <1>6

\* One more entry, one more unit that has one.
LEMMA CountersGrow ==
  ASSUME NEW s, SummaryTyped(s), NEW u \in Unit, NEW r, s.results[u] = 0,
         s.executed + s.skipped + s.failed = Cardinality({v \in Unit : s.results[v] > 0}),
         NEW t, t = Recorded(s, u, r)
  PROVE  t.executed + t.skipped + t.failed = Cardinality({v \in Unit : t.results[v] > 0})
<1> DEFINE A == {v \in Unit : s.results[v] > 0}  B == {v \in Unit : t.results[v] > 0}
<1>1. /\ t.results = [s.results EXCEPT ![u] = @ + 1]
      /\ t.executed + t.skipped + t.failed = s.executed + s.skipped + s.failed + 1
  BY RecordedCounts
<1>2. s.results \in [Unit -> Nat]
  BY DEF SummaryTyped
<1>3. u \notin A /\ B = A \cup {u}
  BY <1>1, <1>2
<1>4. IsFiniteSet(A)
  BY UnitFinite, FS_Subset
<1>5. Cardinality(B) = Cardinality(A) + 1
  BY <1>3, <1>4, FS_AddElement
<1> QED
  BY <1>1, <1>5

LEMMA StepEntries ==
  ASSUME EInv, NEW u \in Unit, Step(u)
  PROVE  Entries'
<1>1. /\ Entries /\ Alone(u) /\ SummaryTyped(summary) /\ phase = "wait" /\ phase' = phase /\ cancelled' = cancelled
      /\ pc \in [Unit -> PCs] /\ result \in [Unit -> Result]
  BY StepFacts
<1>2. (\A v \in Unit : Entry(v)') /\ (\A c \in Check : Fanned(c)') /\ Gathered'
  BY StepEntry, StepFanned, StepGathered
<1>3. Counters'
  <2>1. CASE Count(u)
    <3>1. summary' = Recorded(summary, u, result[u]) /\ pc[u] = "count"
      BY <2>1 DEF Count, Goto
    <3>2. summary.results[u] = 0
      BY <1>1, <3>1 DEF Entries, Entry
    <3>3. summary.executed + summary.skipped + summary.failed = Cardinality({v \in Unit : summary.results[v] > 0})
      BY <1>1 DEF Entries, Counters, RecordedUnits
    <3> QED
      BY <1>1, <3>1, <3>2, <3>3, CountersGrow DEF Counters, RecordedUnits
  <2>2. CASE ~Count(u)
    BY <1>1, <2>2, OnlyCount DEF Entries, Counters, RecordedUnits
  <2> QED
    BY <2>1, <2>2
<1>4. Ending'
  BY <1>1 DEF Ending
<1>5. result'[u].skip = "cancelled" => cancelled \/ result[u].skip = "cancelled"
  <2>1. CASE Refuse(u)
    BY <2>1 DEF Refuse
  <2>2. CASE Skip(u) \/ NoResources(u)
    BY <1>1, <2>2 DEF Skip, NoResources, Skipped, NoResult
  <2>3. CASE Return(u)
    <3>1. PICK o \in Outcomes[u[1]] : result' = [result EXCEPT ![u] = o]
      BY <2>3 DEF Return
    <3>2. o.skip # "cancelled"
      BY <3>1, OutcomesAssumption, UnitFacts
    <3> QED
      BY <1>1, <3>1, <3>2
  <2>4. CASE result' = result
    BY <2>4
  <2>5. result' = result \/ Refuse(u) \/ Skip(u) \/ NoResources(u) \/ Return(u)
    <3>1. CASE Start(u) \/ Report(u) \/ FanOut(u)
      BY <3>1 DEF Start, Report, FanOut
    <3>2. CASE Acquire(u) \/ Set(u) \/ Merge(u) \/ Count(u) \/ FanIn(u) \/ Exit(u)
      BY <3>2 DEF Acquire, Set, Merge, Count, FanIn, Exit
    <3> QED
      BY <3>1, <3>2 DEF Step
  <2> QED
    BY <2>1, <2>2, <2>3, <2>4, <2>5
<1>6. Honest'
  <2>1. Dropped' => cancelled
    BY <1>1, <1>5 DEF Dropped, Alone, Entries, Honest
  <2> QED
    BY <1>1, <2>1 DEF Honest
<1> QED
  BY <1>2, <1>3, <1>4, <1>6 DEF Entries

\* A drained check gets its one entry.
LEMMA DrainEntries ==
  ASSUME EInv, NEW c \in Check, RecordCancelled(c)
  PROVE  Entries'
<1> DEFINE u == U(c)
<1>1. /\ Control /\ DataTypes /\ RollUps /\ Entries /\ StoreTyped(store) /\ SummaryTyped(summary)
      /\ pc \in [Unit -> PCs] /\ result \in [Unit -> Result] /\ summary.results \in [Unit -> Nat]
      /\ u \in Unit /\ IsGlobal(u) /\ u[1] = c /\ Entry(u) /\ Gathered
  BY UnitFacts DEF EInv, RInv, IInv, DataTypes, SummaryTyped, Control, ControlTypes, Entries
<1>2. /\ phase = "drain" /\ pc[u] = "idle" /\ pc' = [pc EXCEPT ![u] = "done"]
      /\ \A d \in Check : Order[d] < Order[c] => pc[U(d)] # "idle" \/ Order[d] < level
      /\ result' = [result EXCEPT ![u] = Skipped("cancelled")]
      /\ store' = Stored(store, u, Skipped("cancelled"))
      /\ summary' = Recorded(summary, u, Skipped("cancelled"))
      /\ phase' = phase /\ cancelled' = cancelled
  BY <1>1, OrderFacts DEF RecordCancelled, Undrained, mainVars, Control, ControlTypes
<1>3. Skipped("cancelled").emits = {} /\ result[u].emits = {} /\ summary.results[u] = 0
  BY <1>1, <1>2 DEF Skipped, NoResult, Entry
<1>4. summary'.results = [summary.results EXCEPT ![u] = @ + 1]
  BY <1>1, <1>2, RecordedCounts
<1>5. /\ \A v \in Unit \ {u} : pc'[v] = pc[v] /\ result'[v] = result[v] /\ summary'.results[v] = summary.results[v]
      /\ pc'[u] = "done" /\ result'[u].emits = {} /\ summary'.results[u] = 1
  BY <1>1, <1>2, <1>3, <1>4
<1>6. ASSUME NEW v \in Unit PROVE Entry(v)'
  <2>1. CASE v = u
    BY <1>5, <2>1 DEF Entry
  <2>2. CASE v # u
    BY <1>1, <1>5, <2>2 DEF Entries, Entry
  <2> QED
    BY <2>1, <2>2
<1>7. \A l : Emitted(l)' = Emitted(l)
  <2>1. \A l : \A r : (\E v \in Unit : summary'.results[v] > 0 /\ Order[v[1]] < l /\ r \in result'[v].emits)
                  <=> (\E v \in Unit : summary.results[v] > 0 /\ Order[v[1]] < l /\ r \in result[v].emits)
    BY <1>3, <1>5
  <2> QED
    BY <2>1 DEF Emitted, RecordedUnits
<1>8. ASSUME NEW d \in Check PROVE Fanned(d)'
  <2>1. Spawned(d)' = Spawned(d)
    BY <1>1, <1>5, UnitFacts DEF Spawned
  <2>2. CASE d = c
    <3>1. Spawned(d) = {}
      BY <1>1, <1>2, <2>2, UnitFacts DEF Control, FansInside, Spawned
    <3> QED
      BY <1>5, <2>1, <2>2, <3>1 DEF Fanned
  <2>3. CASE d # c
    <3>1. U(d) \in Unit \ {u}
      BY <1>1, <2>3, UnitFacts
    <3> QED
      BY <1>1, <1>5, <1>7, <2>1, <3>1 DEF Fanned, Entries
  <2> QED
    BY <2>2, <2>3
<1>9. Gathered'
  <2>1. store'.resources = store.resources
    BY <1>1, <1>2 DEF Stored, StoreTyped, IsStore
  <2>2. ASSUME NEW r \in Resource
        PROVE  (\E v \in Unit : Merging(v)' /\ r \in result'[v].emits) <=> (\E v \in Unit : Merging(v) /\ r \in result[v].emits)
    BY <1>3, <1>5 DEF Merging
  <2> QED
    BY <1>1, <1>2, <2>1, <2>2 DEF Gathered
<1>10. Counters'
  <2>1. summary.executed + summary.skipped + summary.failed = Cardinality({v \in Unit : summary.results[v] > 0})
    BY <1>1 DEF Entries, Counters, RecordedUnits
  <2> QED
    BY <1>1, <1>2, <1>3, <2>1, CountersGrow DEF Counters, RecordedUnits
<1>11. Ending' /\ Honest'
  BY <1>1, <1>2 DEF Ending, Honest, Entries
<1> QED
  BY <1>6, <1>8, <1>9, <1>10, <1>11 DEF Entries

LEMMA MainEntries ==
  ASSUME EInv, Cancel \/ Main \/ UNCHANGED vars
  PROVE  Entries'
<1>1. /\ Control /\ DataTypes /\ RollUps /\ Entries /\ StoreTyped(store) /\ SummaryTyped(summary)
      /\ pc \in [Unit -> PCs] /\ result \in [Unit -> Result] /\ level \in Nat /\ Gathered
  BY DEF EInv, RInv, IInv, DataTypes, Control, ControlTypes, Entries
<1>2. \A c \in Check : U(c) \in Unit /\ IsGlobal(U(c)) /\ U(c)[1] = c
  BY UnitFacts
\* What is left to show where no goroutine moves.
<1>3. ASSUME UNCHANGED <<pc, result, store>>, summary'.results = summary.results,
             summary'.executed = summary.executed, summary'.skipped = summary.skipped, summary'.failed = summary.failed,
             phase' = "wait" => phase = "wait" /\ UNCHANGED <<snapshot, level>>,
             Ending', Honest'
      PROVE  Entries'
  <2>1. RecordedUnits' = RecordedUnits /\ \A l : Emitted(l)' = Emitted(l)
    BY <1>3 DEF RecordedUnits, Emitted
  <2>2. \A v \in Unit : Entry(v)'
    BY <1>1, <1>3 DEF Entries, Entry
  <2>3. \A c \in Check : Spawned(c)' = Spawned(c)
    BY <1>3 DEF Spawned
  <2>4. \A c \in Check : Fanned(c)'
    BY <1>1, <1>3, <2>1, <2>3 DEF Entries, Fanned
  <2>5. Gathered'
    BY <1>1, <1>3, <2>1 DEF Gathered, Merging
  <2>6. Counters'
    BY <1>1, <1>3, <2>1 DEF Entries, Counters
  <2> QED
    BY <1>3, <2>2, <2>4, <2>5, <2>6 DEF Entries
<1>4. CASE Cancel \/ UNCHANGED vars
  BY <1>1, <1>3, <1>4 DEF Cancel, vars, mainVars, Entries, Ending, Honest, Dropped
<1>5. CASE CloseLevel \/ Abandon
  BY <1>1, <1>3, <1>5 DEF CloseLevel, Abandon, Entries, Ending, Honest, Dropped
<1>6. CASE Begin
  <2>1. /\ phase' = "level" /\ UNCHANGED <<pc, result, store, cancelled>>
        /\ summary' = [summary EXCEPT !.total = Cardinality(Check)]
    BY <1>6 DEF Begin
  <2>2. /\ summary'.results = summary.results /\ summary'.executed = summary.executed
        /\ summary'.skipped = summary.skipped /\ summary'.failed = summary.failed
    BY <1>1, <2>1 DEF SummaryTyped, IsSummary
  <2>3. Ending' /\ Honest'
    BY <1>1, <2>1 DEF Entries, Ending, Honest, Dropped
  <2> QED
    BY <1>3, <2>1, <2>2, <2>3
<1>7. CASE Reject
  <2>1. /\ phase = "start" /\ phase' = "final" /\ UNCHANGED <<pc, result, store, cancelled>>
        /\ summary' = [summary EXCEPT !.err = refusal] /\ refusal \in Rejections
    BY <1>1, <1>7 DEF Reject, DataTypes
  <2>2. /\ summary'.results = summary.results /\ summary'.executed = summary.executed
        /\ summary'.skipped = summary.skipped /\ summary'.failed = summary.failed
        /\ summary'.total = summary.total /\ summary'.err = refusal
    BY <1>1, <2>1 DEF SummaryTyped, IsSummary
  <2>3. Ending' /\ Honest'
    BY <1>1, <2>1, <2>2, RejectionsAssumption DEF Entries, Ending, Honest, Dropped
  <2> QED
    BY <1>3, <2>1, <2>2, <2>3
<1>8. CASE EndLoop
  <2>1. /\ phase' = "final" /\ UNCHANGED <<pc, result, store, cancelled>>
        /\ summary' = [summary EXCEPT !.err = IF cancelled THEN "cancelled" ELSE "none"]
        /\ (phase = "drain" /\ Undrained = {}) \/ (phase = "level" /\ level = Depth)
    BY <1>8 DEF EndLoop
  <2>2. /\ summary'.results = summary.results /\ summary'.executed = summary.executed
        /\ summary'.skipped = summary.skipped /\ summary'.failed = summary.failed
        /\ summary'.err = (IF cancelled THEN "cancelled" ELSE "none")
    BY <1>1, <2>1 DEF SummaryTyped, IsSummary
  <2>3. ASSUME NEW c \in Check PROVE pc[U(c)] = "done"
    <3>1. Order[c] \in Nat /\ Order[c] < Depth
      BY OrderFacts
    <3>2. CASE phase = "level" /\ level = Depth
      BY <1>1, <3>1, <3>2 DEF Control, Barrier
    <3>3. CASE phase = "drain" /\ Undrained = {}
      <4>1. CASE Order[c] < level
        BY <1>1, <3>3, <4>1 DEF Control, Barrier
      <4>2. CASE Order[c] >= level
        BY <1>1, <3>3, <4>2 DEF Control, Barrier, Undrained
      <4> QED
        BY <1>1, <3>1, <4>1, <4>2
    <3> QED
      BY <2>1, <3>2, <3>3
  <2>4. Ending' /\ Honest'
    BY <1>1, <2>1, <2>2, <2>3 DEF Entries, Ending, Honest, Dropped
  <2> QED
    BY <1>3, <2>1, <2>2, <2>4
<1>9. CASE Finalize
  <2>1. /\ phase = "final" /\ phase' = "done" /\ UNCHANGED <<pc, result, store, cancelled>>
        /\ \E o : summary' = [summary EXCEPT !.observations = o]
    BY <1>9, Zenon DEF Finalize
  <2>2. /\ summary'.results = summary.results /\ summary'.executed = summary.executed
        /\ summary'.skipped = summary.skipped /\ summary'.failed = summary.failed
        /\ summary'.err = summary.err /\ summary'.total = summary.total
    BY <1>1, <2>1 DEF SummaryTyped, IsSummary
  <2>3. Ending' /\ Honest'
    BY <1>1, <2>1, <2>2 DEF Entries, Ending, Honest, Dropped
  <2> QED
    BY <1>3, <2>1, <2>2, <2>3
<1>10. CASE OpenLevel
  <2>1. /\ phase = "level" /\ phase' = "wait" /\ snapshot' = store
        /\ UNCHANGED <<level, store, result, summary, cancelled>>
        /\ \A v \in Unit : pc'[v] = IF IsGlobal(v) /\ Order[v[1]] = level THEN "acquire" ELSE pc[v]
    BY <1>10 DEF OpenLevel
  <2>2. ASSUME NEW v \in Unit PROVE pc[v] = "idle" \/ (pc[v] = "done" /\ Order[v[1]] < level)
    <3>1. pc[v] \in {"idle", "done"}
      BY <1>1, <2>1, Active
    <3>2. v[1] \in Check /\ Order[v[1]] \in Nat /\ (IsGlobal(v) => v = U(v[1]))
      BY OrderFacts, UnitFacts
    <3>3. Order[v[1]] >= level => pc[v] = "idle"
      BY <1>1, <2>1, <3>1, <3>2 DEF Control, Barrier, FansInside
    <3> QED
      BY <1>1, <3>1, <3>2, <3>3
  <2>3. ASSUME NEW v \in Unit, pc'[v] # pc[v] PROVE pc[v] = "idle" /\ pc'[v] = "acquire" /\ IsGlobal(v)
    <3>1. IsGlobal(v) /\ Order[v[1]] = level /\ pc'[v] = "acquire"
      BY <2>1, <2>3
    <3> QED
      BY <1>1, <2>2, <3>1
  <2>4. \A v \in Unit : Entry(v)'
    BY <1>1, <2>1, <2>3 DEF Entries, Entry
  <2>5. \A l : Emitted(l)' = Emitted(l)
    BY <2>1 DEF Emitted, RecordedUnits
  <2>6. \A c \in Check : Spawned(c)' = Spawned(c)
    BY <2>3, UnitFacts DEF Spawned
  <2>7. \A c \in Check : Fanned(c)'
    BY <1>1, <1>2, <2>1, <2>3, <2>5, <2>6 DEF Entries, Fanned
  <2>8. \A v \in Unit : Merging(v)' <=> Merging(v)
    BY <2>2, <2>3 DEF Merging, After
  <2>9. ASSUME NEW r \in Resource
        PROVE  (\E v \in Unit : Merging(v) /\ r \in result[v].emits) <=> r \in Emitted(level)
    <3>1. \A v \in Unit : Entry(v)
      BY <1>1 DEF Entries
    <3>2. ASSUME NEW v \in Unit PROVE pc[v] = "idle" => summary.results[v] = 0
      BY <3>1 DEF Entry
    <3>3. ASSUME NEW v \in Unit, r \in result[v].emits
          PROVE  Merging(v) <=> v \in RecordedUnits /\ Order[v[1]] < level
      <4>1. CASE pc[v] = "idle"
        BY <3>2, <4>1 DEF Merging, After, RecordedUnits
      <4>2. CASE pc[v] = "done"
        <5>1. summary.results[v] = 1
          BY <3>1, <3>3, <4>2 DEF Entry
        <5> QED
          BY <2>2, <4>2, <5>1 DEF Merging, After, RecordedUnits
      <4> QED
        BY <2>2, <4>1, <4>2
    <3> QED
      BY <3>3 DEF Emitted, RecordedUnits
  <2>10. Gathered'
    BY <1>1, <2>1, <2>5, <2>8, <2>9 DEF Gathered
  <2>11. Counters' /\ Ending' /\ Honest'
    BY <1>1, <2>1 DEF Entries, Counters, Ending, Honest, Dropped, RecordedUnits
  <2> QED
    BY <2>4, <2>7, <2>10, <2>11 DEF Entries
<1> QED
  BY <1>4, <1>5, <1>6, <1>7, <1>8, <1>9, <1>10, DrainEntries DEF Main

\* Every check or resource has exactly one entry when a scan that began ends (engine.go, run).
THEOREM AllHaveEntries == SafeSpec => []EveryCheckAccounted
<1>1. EInv /\ [Next]_vars => Entries'
  BY StepEntries, MainEntries DEF Next, Progress
<1>2. (RInv /\ RollUps) /\ Entries => EInv
  BY DEF EInv
<1>3. EInv => EveryCheckAccounted
  BY AllAccounted
<1> QED
  BY <1>1, <1>2, <1>3, InitEntries, RollUpsInvariance, PTL DEF SafeSpec

-----------------------------------------------------------------------------
(* Sums over finite sets.  What SumFunctionOnSet adds up is defined by     *)
(* recursion over the subsets; what is shown of it is shown by induction   *)
(* over them, with the set of the subsets that have the property (G) in    *)
(* place of a property.                                                    *)

LEMMA SubsetInduction ==
  ASSUME NEW S, IsFiniteSet(S), NEW G \in SUBSET SUBSET S,
         \A A \in SUBSET S : (\A B \in SUBSET A : B # A => B \in G) => A \in G
  PROVE  \A A \in SUBSET S : A \in G
<1> DEFINE bad == (SUBSET S) \ G
<1> SUFFICES ASSUME bad # {} PROVE FALSE
  OBVIOUS
<1>1. IsWellFoundedOn(StrictSubsetOrdering(S), FiniteSubsetsOf(S))
  BY FS_StrictSubsetOrderingWellFounded
<1>2. bad \subseteq FiniteSubsetsOf(S)
  BY FS_FiniteSubsetsOfFinite
<1> HIDE DEF bad
<1>3. PICK A \in bad : \A B \in bad : ~(<<B, A>> \in StrictSubsetOrdering(S))
  BY <1>1, <1>2, WFMin
<1>4. \A B \in SUBSET A : B # A => B \in G
  BY <1>3 DEF StrictSubsetOrdering, bad
<1> QED
  BY <1>3, <1>4 DEF bad

\* The element that the fold takes out of s first, and what it makes of s.
First(s) == CHOOSE x \in s : TRUE
Turn(f, g, s) == IF s = {} THEN 0 ELSE f[First(s)] + g[s \ {First(s)}]
IsFold(f, g, S) == g = [s \in SUBSET S |-> Turn(f, g, s)]

LEMMA FirstIn == \A s : s # {} => First(s) \in s
BY DEF First

LEMMA SumIsFold == ASSUME NEW f, NEW S PROVE SumFunctionOnSet(f, S) = (CHOOSE g : IsFold(f, g, S))[S]
BY DEF SumFunctionOnSet, FoldFunctionOnSet, MapThenFoldSet, IsFold, Turn, First

LEMMA FoldUnique ==
  ASSUME NEW f, NEW A, NEW B, A \subseteq B, IsFiniteSet(A), NEW g, NEW h, IsFold(f, g, A), IsFold(f, h, B)
  PROVE  \A s \in SUBSET A : g[s] = h[s]
<1> DEFINE G == {s \in SUBSET A : g[s] = h[s]}
<1>1. ASSUME NEW s \in SUBSET A, \A t \in SUBSET s : t # s => t \in G PROVE s \in G
  <2>1. g[s] = Turn(f, g, s) /\ h[s] = Turn(f, h, s)
    BY DEF IsFold
  <2>2. s # {} => g[s \ {First(s)}] = h[s \ {First(s)}]
    BY <1>1, FirstIn
  <2> QED
    BY <2>1, <2>2 DEF Turn
<1>2. G \in SUBSET SUBSET A
  OBVIOUS
<1> HIDE DEF G
<1>3. \A s \in SUBSET A : s \in G
  BY <1>1, <1>2, SubsetInduction
<1> QED
  BY <1>3 DEF G

LEMMA FoldExists ==
  ASSUME NEW f, NEW S, IsFiniteSet(S)
  PROVE  \A A \in SUBSET S : \E g : IsFold(f, g, A)
<1> DEFINE G == {A \in SUBSET S : \E g : IsFold(f, g, A)}
<1>1. ASSUME NEW A \in SUBSET S, \A B \in SUBSET A : B # A => B \in G PROVE A \in G
  <2> DEFINE of(s) == CHOOSE g : IsFold(f, g, s)
             small == [s \in SUBSET A |-> of(s)[s]]
             all == [s \in SUBSET A |-> IF s = A THEN Turn(f, small, s) ELSE of(s)[s]]
  <2>1. \A s \in SUBSET A : s # A => IsFold(f, of(s), s)
    BY <1>1
  <2> HIDE DEF of
  <2>2. \A s \in SUBSET A : \A x \in s : all[s \ {x}] = small[s \ {x}]
    OBVIOUS
  <2>3. ASSUME NEW s \in SUBSET A, s # A PROVE of(s)[s] = Turn(f, small, s)
    <3>1. of(s)[s] = Turn(f, of(s), s)
      BY <2>1, <2>3 DEF IsFold
    <3>2. ASSUME s # {} PROVE of(s)[s \ {First(s)}] = small[s \ {First(s)}]
      <4> DEFINE t == s \ {First(s)}
      <4>1. t \in SUBSET A /\ t # A /\ t \subseteq s /\ IsFiniteSet(t)
        BY <2>3, <3>2, FirstIn, FS_Subset
      <4>2. IsFold(f, of(t), t) /\ IsFold(f, of(s), s)
        BY <2>1, <2>3, <4>1
      <4>3. of(t)[t] = of(s)[t]
        BY <4>1, <4>2, FoldUnique
      <4> QED
        BY <4>1, <4>3
    <3> QED
      BY <3>1, <3>2 DEF Turn
  <2>4. \A s \in SUBSET A : Turn(f, small, s) = Turn(f, all, s)
    BY <2>2, FirstIn DEF Turn
  <2>5. IsFold(f, all, A)
    <3>1. \A s \in SUBSET A : all[s] = Turn(f, all, s)
      BY <2>3, <2>4
    <3> QED
      BY <3>1 DEF IsFold
  <2> QED
    BY <2>5
<1>2. G \in SUBSET SUBSET S
  OBVIOUS
<1> HIDE DEF G
<1>3. \A A \in SUBSET S : A \in G
  BY <1>1, <1>2, SubsetInduction
<1> QED
  BY <1>3 DEF G

\* What the recursion says: nothing adds up to zero, and the first element is added to the rest.
LEMMA SumEmpty == ASSUME NEW f PROVE SumFunctionOnSet(f, {}) = 0
<1> DEFINE h == CHOOSE g : IsFold(f, g, {})
<1>1. IsFold(f, h, {})
  BY FS_EmptySet, FoldExists
<1> HIDE DEF h
<1>2. h[{}] = Turn(f, h, {})
  BY <1>1 DEF IsFold
<1> QED
  BY <1>2, SumIsFold DEF Turn, h

LEMMA SumFirst ==
  ASSUME NEW f, NEW S, IsFiniteSet(S), S # {}
  PROVE  SumFunctionOnSet(f, S) = f[First(S)] + SumFunctionOnSet(f, S \ {First(S)})
<1> DEFINE of(s) == CHOOSE g : IsFold(f, g, s)
           t == S \ {First(S)}
<1>1. IsFiniteSet(t) /\ t \subseteq S /\ t \in SUBSET t
  BY FS_Subset
<1>2. IsFold(f, of(S), S) /\ IsFold(f, of(t), t)
  BY <1>1, FoldExists
<1>3. SumFunctionOnSet(f, S) = of(S)[S] /\ SumFunctionOnSet(f, t) = of(t)[t]
  BY SumIsFold
<1>4. t \in SUBSET t
  OBVIOUS
<1> HIDE DEF of, t
<1>5. of(S)[S] = Turn(f, of(S), S)
  BY <1>2 DEF IsFold
<1>6. of(S)[t] = of(t)[t]
  <2> DEFINE g == of(t)  h == of(S)
  <2>1. t \subseteq S /\ IsFiniteSet(t) /\ IsFold(f, g, t) /\ IsFold(f, h, S)
    BY <1>1, <1>2
  <2> HIDE DEF g, h
  <2>2. \A s \in SUBSET t : g[s] = h[s]
    BY <2>1, FoldUnique
  <2> QED
    BY <1>4, <2>2 DEF g, h
<1> QED
  BY <1>3, <1>5, <1>6 DEF Turn, t

\* A sum of naturals is one, and every element can be taken out of it.
LEMMA SumType ==
  ASSUME NEW f, NEW S, IsFiniteSet(S), \A x \in S : f[x] \in Nat
  PROVE  SumFunctionOnSet(f, S) \in Nat
<1> DEFINE G == {A \in SUBSET S : SumFunctionOnSet(f, A) \in Nat}
<1>1. ASSUME NEW A \in SUBSET S, \A B \in SUBSET A : B # A => B \in G PROVE A \in G
  <2>1. CASE A = {}
    BY <2>1, SumEmpty
  <2>2. CASE A # {}
    <3> DEFINE x == First(A)
    <3>1. x \in A /\ IsFiniteSet(A) /\ SumFunctionOnSet(f, A \ {x}) \in Nat
      BY <1>1, <2>2, FirstIn, FS_Subset
    <3>2. SumFunctionOnSet(f, A) = f[x] + SumFunctionOnSet(f, A \ {x})
      BY <2>2, <3>1, SumFirst
    <3> HIDE DEF x
    <3> QED
      BY <3>1, <3>2
  <2> QED
    BY <2>1, <2>2
<1>2. G \in SUBSET SUBSET S
  OBVIOUS
<1> HIDE DEF G
<1>3. S \in G
  BY <1>1, <1>2, SubsetInduction
<1> QED
  BY <1>3 DEF G

LEMMA SumRemove ==
  ASSUME NEW f, NEW S, IsFiniteSet(S), \A x \in S : f[x] \in Nat
  PROVE  \A x \in S : SumFunctionOnSet(f, S) = f[x] + SumFunctionOnSet(f, S \ {x})
<1> DEFINE G == {A \in SUBSET S : \A x \in A : SumFunctionOnSet(f, A) = f[x] + SumFunctionOnSet(f, A \ {x})}
<1>1. ASSUME NEW A \in SUBSET S, \A B \in SUBSET A : B # A => B \in G PROVE A \in G
  <2> SUFFICES ASSUME NEW x \in A PROVE SumFunctionOnSet(f, A) = f[x] + SumFunctionOnSet(f, A \ {x})
    OBVIOUS
  <2> DEFINE y == First(A)
             C == (A \ {y}) \ {x}
  <2>1. y \in A /\ IsFiniteSet(A) /\ C \subseteq S /\ IsFiniteSet(C)
    BY FirstIn, FS_Subset
  <2>2. SumFunctionOnSet(f, A) = f[y] + SumFunctionOnSet(f, A \ {y})
    BY <2>1, SumFirst
  <2> HIDE DEF y
  <2>3. CASE x = y
    BY <2>2, <2>3
  <2>4. CASE x # y
    <3>1. A \ {y} \in G /\ A \ {x} \in G
      BY <1>1, <2>1
    <3>2. x \in A \ {y} /\ y \in A \ {x} /\ (A \ {x}) \ {y} = C
      BY <2>1, <2>4
    <3>3. /\ SumFunctionOnSet(f, A \ {y}) = f[x] + SumFunctionOnSet(f, C)
          /\ SumFunctionOnSet(f, A \ {x}) = f[y] + SumFunctionOnSet(f, C)
      BY <3>1, <3>2
    <3>4. f[x] \in Nat /\ f[y] \in Nat /\ SumFunctionOnSet(f, C) \in Nat
      BY <2>1, SumType
    <3> HIDE DEF C
    <3> QED
      BY <2>2, <3>3, <3>4
  <2> QED
    BY <2>3, <2>4
<1>2. G \in SUBSET SUBSET S
  OBVIOUS
<1> HIDE DEF G
<1>3. S \in G
  BY <1>1, <1>2, SubsetInduction
<1> QED
  BY <1>3 DEF G

\* Sums of equal numbers are equal, whatever else the functions hold; k renames the elements.
LEMMA SumRenamed ==
  ASSUME NEW f, NEW g, NEW S, IsFiniteSet(S), NEW k, \A x, y \in S : k[x] = k[y] => x = y,
         \A x \in S : f[x] \in Nat /\ f[x] = g[k[x]]
  PROVE  SumFunctionOnSet(f, S) = SumFunctionOnSet(g, {k[x] : x \in S})
<1> DEFINE Image(A) == {k[x] : x \in A}
           G == {A \in SUBSET S : SumFunctionOnSet(f, A) = SumFunctionOnSet(g, Image(A))}
<1>1. ASSUME NEW A \in SUBSET S, \A B \in SUBSET A : B # A => B \in G PROVE A \in G
  <2>1. CASE A = {}
    <3>1. Image(A) = {}
      BY <2>1
    <3> QED
      BY <2>1, <3>1, SumEmpty
  <2>2. CASE A # {}
    <3>1. PICK x \in A : TRUE
      BY <2>2
    <3>2. IsFiniteSet(A) /\ IsFiniteSet(Image(A)) /\ A \ {x} \in G
      <4>1. IsFiniteSet(A) /\ A \ {x} \in G
        BY <1>1, FS_Subset
      <4> DEFINE h == [y \in A |-> k[y]]
      <4>2. h \in Surjection(A, Image(A))
        BY DEF Surjection
      <4> HIDE DEF h, Image
      <4>3. IsFiniteSet(Image(A))
        BY <4>1, <4>2, FS_Surjection
      <4> QED
        BY <4>1, <4>3
    <3>3. SumFunctionOnSet(f, A) = f[x] + SumFunctionOnSet(f, A \ {x})
      BY <3>2, SumRemove
    <3>4. k[x] \in Image(A) /\ Image(A) \ {k[x]} = Image(A \ {x}) /\ \A y \in Image(A) : g[y] \in Nat
      OBVIOUS
    <3>5. SumFunctionOnSet(g, Image(A)) = g[k[x]] + SumFunctionOnSet(g, Image(A \ {x}))
      BY <3>2, <3>4, SumRemove
    <3> QED
      BY <3>2, <3>3, <3>5
  <2> QED
    BY <2>1, <2>2
<1>2. G \in SUBSET SUBSET S
  OBVIOUS
<1> HIDE DEF G
<1>3. S \in G
  BY <1>1, <1>2, SubsetInduction
<1> QED
  BY <1>3 DEF G

LEMMA SumSame ==
  ASSUME NEW f, NEW g, NEW S, IsFiniteSet(S), \A x \in S : f[x] \in Nat /\ f[x] = g[x]
  PROVE  SumFunctionOnSet(f, S) = SumFunctionOnSet(g, S)
<1> DEFINE k == [x \in S |-> x]
<1>1. {k[x] : x \in S} = S /\ (\A x, y \in S : k[x] = k[y] => x = y) /\ \A x \in S : f[x] \in Nat /\ f[x] = g[k[x]]
  OBVIOUS
<1> HIDE DEF k
<1> QED
  BY <1>1, SumRenamed

\* Two parts of a sum, and a part that is nothing.
LEMMA SumUnion ==
  ASSUME NEW f, NEW S, IsFiniteSet(S), NEW T, IsFiniteSet(T), S \cap T = {}, \A x \in S \cup T : f[x] \in Nat
  PROVE  SumFunctionOnSet(f, S \cup T) = SumFunctionOnSet(f, S) + SumFunctionOnSet(f, T)
<1> DEFINE G == {A \in SUBSET T : SumFunctionOnSet(f, S \cup A) = SumFunctionOnSet(f, S) + SumFunctionOnSet(f, A)}
<1>0. SumFunctionOnSet(f, S) \in Nat
  BY SumType
<1>1. ASSUME NEW A \in SUBSET T, \A B \in SUBSET A : B # A => B \in G PROVE A \in G
  <2>1. CASE A = {}
    <3>1. S \cup A = S
      BY <2>1
    <3> QED
      BY <1>0, <2>1, <3>1, SumEmpty
  <2>2. CASE A # {}
    <3>1. PICK x \in A : TRUE
      BY <2>2
    <3>2. /\ IsFiniteSet(A) /\ IsFiniteSet(S \cup A) /\ IsFiniteSet(A \ {x}) /\ A \ {x} \in G
          /\ \A y \in S \cup A : f[y] \in Nat
      BY <1>1, FS_Subset, FS_Union
    <3>3. SumFunctionOnSet(f, A) = f[x] + SumFunctionOnSet(f, A \ {x})
      BY <3>2, SumRemove
    <3>4. SumFunctionOnSet(f, S \cup A) = f[x] + SumFunctionOnSet(f, (S \cup A) \ {x})
      BY <3>2, SumRemove
    <3>5. (S \cup A) \ {x} = S \cup (A \ {x})
      OBVIOUS
    <3>6. SumFunctionOnSet(f, A \ {x}) \in Nat /\ f[x] \in Nat
      BY <3>2, SumType
    <3>7. SumFunctionOnSet(f, S \cup (A \ {x})) = SumFunctionOnSet(f, S) + SumFunctionOnSet(f, A \ {x})
      BY <3>2
    <3> DEFINE s == SumFunctionOnSet(f, S)  a == SumFunctionOnSet(f, A \ {x})
    <3>8. SumFunctionOnSet(f, S \cup A) = f[x] + (s + a) /\ SumFunctionOnSet(f, A) = f[x] + a
      BY <3>3, <3>4, <3>5, <3>7
    <3>9. s \in Nat /\ a \in Nat /\ f[x] \in Nat
      BY <1>0, <3>6
    <3> HIDE DEF a
    <3>10. SumFunctionOnSet(f, S \cup A) = s + SumFunctionOnSet(f, A)
      <4> HIDE DEF s
      <4> QED
        BY <3>8, <3>9
    <3> QED
      BY <3>10
  <2> QED
    BY <2>1, <2>2
<1>2. G \in SUBSET SUBSET T
  OBVIOUS
<1> HIDE DEF G
<1>3. T \in G
  <2>1. \A A \in SUBSET T : A \in G
    BY <1>1, <1>2, SubsetInduction
  <2> QED
    BY <2>1
<1> QED
  BY <1>3 DEF G

LEMMA SumZero ==
  ASSUME NEW f, NEW S, IsFiniteSet(S), \A x \in S : f[x] = 0
  PROVE  SumFunctionOnSet(f, S) = 0
<1> DEFINE G == {A \in SUBSET S : SumFunctionOnSet(f, A) = 0}
<1>1. ASSUME NEW A \in SUBSET S, \A B \in SUBSET A : B # A => B \in G PROVE A \in G
  <2>1. CASE A = {}
    BY <2>1, SumEmpty
  <2>2. CASE A # {}
    <3>1. IsFiniteSet(A) /\ First(A) \in A /\ SumFunctionOnSet(f, A \ {First(A)}) = 0
      BY <1>1, <2>2, FirstIn, FS_Subset
    <3> QED
      BY <2>2, <3>1, SumFirst
  <2> QED
    BY <2>1, <2>2
<1>2. G \in SUBSET SUBSET S
  OBVIOUS
<1> HIDE DEF G
<1>3. S \in G
  BY <1>1, <1>2, SubsetInduction
<1> QED
  BY <1>3 DEF G

\* Only the elements of T count.
LEMMA SumPart ==
  ASSUME NEW f, NEW S, IsFiniteSet(S), NEW T \in SUBSET S, \A x \in T : f[x] \in Nat, \A x \in S \ T : f[x] = 0
  PROVE  SumFunctionOnSet(f, S) = SumFunctionOnSet(f, T)
<1> DEFINE R == S \ T
<1>1. IsFiniteSet(T) /\ IsFiniteSet(R) /\ T \cap R = {} /\ T \cup R = S /\ \A x \in T \cup R : f[x] \in Nat
  BY FS_Subset
<1>2. SumFunctionOnSet(f, R) = 0
  BY <1>1, SumZero
<1>3. SumFunctionOnSet(f, T) \in Nat
  BY <1>1, SumType
<1> HIDE DEF R
<1>4. SumFunctionOnSet(f, T \cup R) = SumFunctionOnSet(f, T) + SumFunctionOnSet(f, R)
  BY <1>1, SumUnion
<1>5. SumFunctionOnSet(f, T \cup R) = SumFunctionOnSet(f, T)
  BY <1>2, <1>3, <1>4
<1> QED
  BY <1>1, <1>5

\* The sizes of disjoint sets add up to that of their union.
LEMMA SumOfSizes ==
  ASSUME NEW f, NEW m, NEW S, IsFiniteSet(S), \A x \in S : IsFiniteSet(m[x]) /\ f[x] = Cardinality(m[x]),
         \A x, y \in S : x # y => m[x] \cap m[y] = {}
  PROVE  /\ IsFiniteSet(UNION {m[x] : x \in S})
         /\ Cardinality(UNION {m[x] : x \in S}) = SumFunctionOnSet(f, S)
<1> DEFINE All(A) == UNION {m[x] : x \in A}
           G == {A \in SUBSET S : IsFiniteSet(All(A)) /\ Cardinality(All(A)) = SumFunctionOnSet(f, A)}
<1>0. \A x \in S : f[x] \in Nat
  BY FS_CardinalityType
<1>1. ASSUME NEW A \in SUBSET S, \A B \in SUBSET A : B # A => B \in G PROVE A \in G
  <2>1. CASE A = {}
    <3>1. All(A) = {}
      BY <2>1
    <3> QED
      BY <2>1, <3>1, SumEmpty, FS_EmptySet
  <2>2. CASE A # {}
    <3>1. PICK x \in A : TRUE
      BY <2>2
    <3> DEFINE B == A \ {x}
    <3>2. B \in G /\ IsFiniteSet(A) /\ \A y \in A : f[y] \in Nat
      BY <1>0, <1>1, FS_Subset
    <3>3. SumFunctionOnSet(f, A) = f[x] + SumFunctionOnSet(f, B)
      BY <3>2, SumRemove
    <3>4. All(A) = All(B) \cup m[x] /\ All(B) \cap m[x] = {} /\ IsFiniteSet(m[x]) /\ f[x] = Cardinality(m[x])
      OBVIOUS
    <3>5. IsFiniteSet(All(B)) /\ Cardinality(All(B)) = SumFunctionOnSet(f, B)
      BY <3>2
    <3>6. IsFiniteSet(All(A)) /\ Cardinality(All(A)) = SumFunctionOnSet(f, A)
      <4> HIDE DEF All, B, G
      <4>1. /\ IsFiniteSet(All(B) \cup m[x])
            /\ Cardinality(All(B) \cup m[x]) = Cardinality(All(B)) + Cardinality(m[x]) - Cardinality(All(B) \cap m[x])
        BY <3>4, <3>5, FS_Union
      <4>2. Cardinality(All(B)) \in Nat /\ Cardinality(m[x]) \in Nat
        BY <3>4, <3>5, FS_CardinalityType
      <4>3. Cardinality(All(B) \cap m[x]) = 0
        BY <3>4, FS_EmptySet
      <4>4. Cardinality(All(A)) = Cardinality(All(B)) + Cardinality(m[x])
        <5>1. Cardinality(All(A)) = Cardinality(All(B) \cup m[x])
          BY <3>4
        <5> QED
          BY <4>1, <4>2, <4>3, <5>1
      <4>5. IsFiniteSet(All(A))
        BY <3>4, <4>1
      <4> QED
        BY <3>3, <3>4, <3>5, <4>2, <4>4, <4>5
    <3> QED
      BY <3>6
  <2> QED
    BY <2>1, <2>2
<1>2. G \in SUBSET SUBSET S
  OBVIOUS
<1> HIDE DEF G
<1>3. S \in G
  BY <1>1, <1>2, SubsetInduction
<1> QED
  BY <1>3 DEF G

-----------------------------------------------------------------------------
(* What is observed and what is announced: the invariant.                  *)

Below(l) == {v \in RecordedUnits : Order[v[1]] < l}

\* A check has a result in the store from the moment its goroutine put it there.
InStore(c) == \/ pc[U(c)] \in {"merge", "report", "count"}
              \/ pc[U(c)] \in {"exit", "done"} /\ summary.results[U(c)] = 1
ResultOf(c) == /\ c \in DOMAIN store.results <=> InStore(c)
               /\ c \in DOMAIN store.results => store.results[c] = result[U(c)]

\* The snapshot has the results of the units recorded below its level, and no others.
SnapshotOfBelow == phase = "wait" =>
  /\ DOMAIN snapshot.results = {c \in Check : U(c) \in Below(level)}
  /\ \A c \in DOMAIN snapshot.results : snapshot.results[c] = result[U(c)]
  /\ DOMAIN snapshot.perRes = {v \in Below(level) : ~IsGlobal(v)}
  /\ \A v \in DOMAIN snapshot.perRes : snapshot.perRes[v] = result[v]

Observed == phase = "done" => summary.observations = TotalObs([u \in RecordedUnits |-> result[u]])

\* A check announces as many resources as it starts goroutines.
Announced(c) == planned[c] = Cardinality(Spawned(c))

\* The callback comes just before the entry.
Tallied(u) == completes[u] = IF pc[u] = "count" THEN 1 ELSE summary.results[u]

Sized ==
  /\ summary.total = Cardinality(Check) \/ (summary.total = 0 /\ \A u \in Unit : pc[u] = "idle")
  /\ phase \in {"level", "wait", "drain"} => summary.total = Cardinality(Check)

Sums == /\ \A c \in Check : ResultOf(c) /\ Announced(c)
        /\ \A u \in Unit : Tallied(u)
        /\ SnapshotOfBelow /\ IsInjective(snapshot.resources)
        /\ Observed /\ Sized

SInv == EInv /\ Sums

LEMMA EntriesInvariance == SafeSpec => []EInv
<1>1. EInv /\ [Next]_vars => Entries'
  BY StepEntries, MainEntries DEF Next, Progress
<1>2. (RInv /\ RollUps) /\ Entries => EInv
  BY DEF EInv
<1> QED
  BY <1>1, <1>2, InitEntries, RollUpsInvariance, PTL DEF SafeSpec

\* A resource is known once, for good, at one index, and none that was discovered is lost
\* (engine.go, mergeResources).
THEOREM ResourcesStay == SafeSpec => ResourcesAppend
<1> DEFINE Kept == /\ IsInjective(store'.resources)
                   /\ Len(store.resources) <= Len(store'.resources)
                   /\ \A i \in DOMAIN store.resources : store'.resources[i] = store.resources[i]
                   /\ \A u \in Unit : pc'[u] = "done" => result'[u].emits \subseteq Range(store'.resources)
<1>1. ASSUME EInv, EInv', [Next]_vars PROVE Kept
  <2>1. DataTypes /\ IsInjective(store.resources)
    BY <1>1 DEF EInv, RInv, Entries, Gathered
  <2>2. DataTypes' /\ Gathered'
    BY <1>1 DEF EInv, RInv, Entries
  <2>3. ASSUME NEW u \in Unit, pc'[u] = "done" PROVE result'[u].emits \subseteq Range(store'.resources)
    <3>1. result'[u].emits \in SUBSET Resource
      BY <2>2 DEF DataTypes, Result
    <3>2. Merging(u)'
      BY <2>3 DEF Merging, After
    <3> QED
      BY <2>2, <3>1, <3>2 DEF Gathered
  <2> QED
    BY <1>1, <2>1, <2>3, Appends
<1>2. EInv /\ EInv' /\ [Next]_vars => [Kept]_vars
  BY <1>1
<1> QED
  BY <1>2, EntriesInvariance, PTL DEF SafeSpec, ResourcesAppend

LEMMA InitSums == Init => Sums
<1> SUFFICES ASSUME Init PROVE Sums
  OBVIOUS
<1>1. ASSUME NEW c \in Check PROVE ResultOf(c)
  BY UnitFacts DEF Init, EmptyStore, ResultOf, InStore
<1>2. ASSUME NEW c \in Check PROVE Announced(c)
  <2>1. Spawned(c) = {}
    BY UnitFacts DEF Init, Spawned
  <2> QED
    BY <2>1, FS_EmptySet DEF Init, Announced
<1>3. ASSUME NEW u \in Unit PROVE Tallied(u)
  BY DEF Init, Tallied
<1>4. SnapshotOfBelow /\ Observed /\ Sized /\ IsInjective(snapshot.resources)
  BY DEF Init, EmptyStore, SnapshotOfBelow, Observed, Sized, IsInjective
<1> QED
  BY <1>1, <1>2, <1>3, <1>4 DEF Sums

\* Only Set writes the table of the check-level results, and only for a check.
LEMMA StepResults ==
  ASSUME StoreTyped(store), NEW u \in Unit, Step(u)
  PROVE  \/ Set(u) /\ IsGlobal(u) /\ store'.results = Put(store.results, u[1], result[u])
         \/ ~(Set(u) /\ IsGlobal(u)) /\ store'.results = store.results
<1>1. CASE Acquire(u) \/ Refuse(u) \/ Skip(u) \/ NoResources(u) \/ Start(u) \/ Return(u)
  <2>1. store' = store
    BY <1>1 DEF Acquire, Refuse, Skip, NoResources, Start, Return
  <2>2. ASSUME Set(u), IsGlobal(u) PROVE store'.results = Put(store.results, u[1], result[u])
    BY <2>2 DEF Set, Stored, StoreTyped, IsStore
  <2> QED
    BY <2>1, <2>2
<1>2. CASE FanOut(u) \/ Report(u) \/ Count(u) \/ Exit(u)
  <2>1. store' = store
    BY <1>2 DEF FanOut, Report, Count, Exit
  <2>2. ASSUME Set(u), IsGlobal(u) PROVE store'.results = Put(store.results, u[1], result[u])
    BY <2>2 DEF Set, Stored, StoreTyped, IsStore
  <2> QED
    BY <2>1, <2>2
<1>3. CASE Set(u)
  BY <1>3 DEF Set, Stored, StoreTyped, IsStore
<1>4. CASE Merge(u)
  <2>1. store'.results = store.results
    BY <1>4 DEF Merge, Merged, StoreTyped, IsStore
  <2>2. ASSUME Set(u), IsGlobal(u) PROVE store'.results = Put(store.results, u[1], result[u])
    BY <2>2 DEF Set, Stored, StoreTyped, IsStore
  <2> QED
    BY <2>1, <2>2
<1>5. CASE FanIn(u)
  <2>1. PICK a : store' = [store EXCEPT !.aggregates = Put(@, u[1], a)]
    BY <1>5 DEF FanIn
  <2>2. store'.results = store.results
    BY <2>1 DEF StoreTyped, IsStore
  <2>3. ASSUME Set(u), IsGlobal(u) PROVE store'.results = Put(store.results, u[1], result[u])
    BY <2>3 DEF Set, Stored, StoreTyped, IsStore
  <2> QED
    BY <2>2, <2>3
<1> QED
  BY <1>1, <1>2, <1>3, <1>4, <1>5 DEF Step

LEMMA StepResultOf ==
  ASSUME EInv, Sums, NEW u \in Unit, Step(u), NEW c \in Check
  PROVE  ResultOf(c)'
<1>1. /\ Alone(u) /\ StoreTyped(store) /\ pc \in [Unit -> PCs] /\ result \in [Unit -> Result]
      /\ summary.results \in [Unit -> Nat] /\ SummaryTyped(summary) /\ u[1] \in Check
      /\ ResultOf(c) /\ Entry(u) /\ Entry(U(c)) /\ U(c) \in Unit /\ IsGlobal(U(c)) /\ U(c)[1] = c
  BY StepFacts, UnitFacts DEF Sums, DataTypes, Entries
<1>2. CASE U(c) # u
  <2>1. pc'[U(c)] = pc[U(c)] /\ result'[U(c)] = result[U(c)] /\ summary'.results[U(c)] = summary.results[U(c)]
    BY <1>1, <1>2 DEF Alone
  <2>2. IsGlobal(u) => c # u[1]
    BY <1>2, UnitFacts
  <2>3. (c \in DOMAIN store'.results <=> c \in DOMAIN store.results)
        /\ (c \in DOMAIN store.results => store'.results[c] = store.results[c])
    <3>1. CASE IsGlobal(u) /\ store'.results = Put(store.results, u[1], result[u])
      BY <2>2, <3>1 DEF Put
    <3> QED
      BY <1>1, <3>1, StepResults
  <2> QED
    BY <1>1, <2>1, <2>3 DEF ResultOf, InStore
<1>3. CASE U(c) = u
  <2>0. ASSUME store'.results = store.results, result'[u] = result[u] \/ ~InStore(c),
               InStore(c)' <=> InStore(c)
        PROVE  ResultOf(c)'
    BY <1>1, <1>3, <2>0 DEF ResultOf
  <2>1. CASE Set(u)
    <3>1. store'.results = Put(store.results, c, result[u]) /\ pc'[u] \in {"merge", "report"} /\ result' = result
      BY <1>1, <1>3, <2>1, StepResults DEF Set, Goto
    <3> QED
      BY <1>3, <3>1 DEF ResultOf, InStore, Put
  <2>2. CASE ~Set(u)
    <3>1. store'.results = store.results
      BY <1>1, <2>2, StepResults
    <3>2. CASE Acquire(u) \/ Refuse(u) \/ Skip(u) \/ NoResources(u) \/ Start(u)
      BY <1>1, <1>3, <2>0, <3>1, <3>2 DEF Acquire, Refuse, Skip, NoResources, Start, Goto, InStore
    <3>3. CASE Return(u)
      <4>1. pc[u] = "exec" /\ pc'[u] \in {"set", "merge"} /\ (IsGlobal(u) => pc'[u] = "set")
        BY <1>1, <3>3 DEF Return, Goto
      <4> QED
        BY <1>1, <1>3, <2>0, <3>1, <4>1 DEF InStore
    <3>4. CASE FanOut(u)
      <4>1. pc[u] = "decide" /\ pc'[u] = "fan"
        BY <1>1, <3>4 DEF FanOut
      <4> QED
        BY <1>1, <1>3, <2>0, <3>1, <4>1 DEF InStore
    <3>5. CASE Merge(u) \/ Report(u)
      BY <1>1, <1>3, <2>0, <3>1, <3>5 DEF Merge, Report, Goto, InStore
    <3>6. CASE FanIn(u)
      <4>1. pc[u] = "fan" /\ pc'[u] = "exit" /\ summary' = summary
        BY <1>1, <3>6 DEF FanIn, Goto
      <4>2. summary.results[u] = 0
        BY <1>1, <4>1 DEF Entry
      <4> QED
        BY <1>1, <1>3, <2>0, <3>1, <4>1, <4>2 DEF InStore
    <3>7. CASE Exit(u)
      BY <1>1, <1>3, <2>0, <3>1, <3>7 DEF Exit, Goto, InStore
    <3>8. CASE Count(u)
      <4>1. pc[u] = "count" /\ pc'[u] = "exit" /\ result' = result /\ summary' = Recorded(summary, u, result[u])
        BY <1>1, <3>8 DEF Count, Goto
      <4>2. summary'.results = [summary.results EXCEPT ![u] = @ + 1]
        BY <1>1, <4>1, RecordedCounts
      <4>3. summary'.results[u] = 1
        BY <1>1, <4>1, <4>2 DEF Entry
      <4> QED
        BY <1>1, <1>3, <2>0, <3>1, <4>1, <4>3 DEF InStore
    <3> QED
      BY <2>2, <3>2, <3>3, <3>4, <3>5, <3>6, <3>7, <3>8 DEF Step
  <2> QED
    BY <2>1, <2>2
<1> QED
  BY <1>2, <1>3

\* A set and its one-to-one image are of one size.
LEMMA ImageSize ==
  ASSUME NEW S, IsFiniteSet(S), NEW k, \A x, y \in S : k[x] = k[y] => x = y
  PROVE  Cardinality({k[x] : x \in S}) = Cardinality(S) /\ IsFiniteSet({k[x] : x \in S})
<1> DEFINE T == {k[x] : x \in S}
           f == [x \in S |-> k[x]]
<1>1. f \in Surjection(S, T) /\ f \in Injection(S, T)
  BY DEF Surjection, Injection, IsInjective
<1> HIDE DEF T, f
<1>2. IsFiniteSet(T) /\ Cardinality(T) <= Cardinality(S)
  BY <1>1, FS_Surjection
<1>3. Cardinality(S) <= Cardinality(T)
  BY <1>1, <1>2, FS_Injection
<1>4. Cardinality(T) \in Nat /\ Cardinality(S) \in Nat
  BY <1>2, FS_CardinalityType
<1>5. Cardinality(T) = Cardinality(S)
  BY <1>2, <1>3, <1>4
<1> QED
  BY <1>2, <1>5 DEF T

\* As many units as the list that starts them is long.
LEMMA ListedUnits ==
  ASSUME NEW c \in Check, NEW l \in Seq(Resource), IsInjective(l)
  PROVE  Cardinality({<<c, r>> : r \in Range(l)}) = Len(l)
<1> DEFINE n == 1..Len(l)
           k == [i \in n |-> <<c, l[i]>>]
<1>1. Len(l) \in Nat /\ DOMAIN l = n
  OBVIOUS
<1>2. IsFiniteSet(n) /\ Cardinality(n) = Len(l)
  BY <1>1, FS_Interval
<1>3. \A x, y \in n : k[x] = k[y] => x = y
  BY <1>1 DEF IsInjective
<1>4. {k[i] : i \in n} = {<<c, r>> : r \in Range(l)}
  BY <1>1 DEF Range
<1> HIDE DEF n, k
<1>5. Cardinality({k[i] : i \in n}) = Cardinality(n)
  BY <1>2, <1>3, ImageSize
<1> QED
  BY <1>2, <1>4, <1>5

LEMMA StepAnnounced ==
  ASSUME EInv, Sums, NEW u \in Unit, Step(u), NEW c \in Check
  PROVE  Announced(c)'
<1>1. /\ Control /\ DataTypes /\ pc \in [Unit -> PCs] /\ u[1] \in Check /\ planned \in [Check -> Nat]
      /\ snapshot.resources \in Seq(Resource) /\ IsInjective(snapshot.resources) /\ Announced(c)
  BY StepFacts DEF Sums, DataTypes, ReportTypes, StoreTyped
<1>2. CASE ~FanOut(u)
  <2>1. Spawned(c)' = Spawned(c)
    BY <1>2, SpawnedStays
  <2>2. planned' = planned
    <3>1. CASE Acquire(u) \/ Refuse(u) \/ Skip(u) \/ NoResources(u) \/ Return(u)
      BY <3>1 DEF Acquire, Refuse, Skip, NoResources, Return, reportVars
    <3>2. CASE Start(u) \/ Report(u)
      BY <3>2 DEF Start, Report
    <3>3. CASE Set(u) \/ Merge(u) \/ Count(u) \/ FanIn(u) \/ Exit(u)
      BY <3>3 DEF Set, Merge, Count, FanIn, Exit, reportVars
    <3> QED
      BY <1>2, <3>1, <3>2, <3>3 DEF Step
  <2> QED
    BY <1>1, <2>1, <2>2 DEF Announced
<1>3. CASE FanOut(u)
  <2>1. /\ pc[u] = "decide" /\ IsGlobal(u) /\ planned' = [planned EXCEPT ![u[1]] = Len(snapshot.resources)]
        /\ \A v \in Unit : pc'[v] = IF v = u THEN "fan"
             ELSE IF v[1] = u[1] /\ v[2] \in Range(snapshot.resources) THEN "acquire" ELSE pc[v]
    BY <1>3 DEF FanOut
  <2>2. CASE c = u[1]
    <3>1. u = U(c)
      BY <2>1, <2>2, UnitFacts
    <3>2. \A v \in Fan(c) : v \in Unit /\ v[1] = c /\ ~IsGlobal(v) /\ pc[v] = "idle" /\ v # u
      BY <1>1, <2>1, <3>1, UnitFacts DEF Control, FansInside
    <3>3. Range(snapshot.resources) \subseteq Resource
      BY <1>1 DEF Range
    <3>4. \A v \in Fan(c) : v = <<c, v[2]>> /\ v[2] \in Resource
      BY DEF Fan
    <3>5. \A r \in Resource : <<c, r>> \in Fan(c)
      BY DEF Fan
    <3>6. \A v \in Fan(c) : pc'[v] # "idle" <=> v[2] \in Range(snapshot.resources)
      BY <2>1, <2>2, <3>2
    <3>7. Spawned(c)' = {<<c, r>> : r \in Range(snapshot.resources)}
      <4>1. Spawned(c)' = {v \in Fan(c) : pc'[v] # "idle"}
        BY DEF Spawned
      <4> QED
        BY <3>3, <3>4, <3>5, <3>6, <4>1
    <3>8. Cardinality(Spawned(c)') = Len(snapshot.resources)
      BY <1>1, <3>7, ListedUnits
    <3>9. planned'[c] = Len(snapshot.resources)
      BY <1>1, <2>1, <2>2
    <3> QED
      BY <3>8, <3>9 DEF Announced
  <2>3. CASE c # u[1]
    <3>1. \A v \in Unit : v[1] = c => pc'[v] = pc[v]
      BY <2>1, <2>3
    <3>2. Spawned(c)' = Spawned(c)
      BY <3>1, UnitFacts DEF Spawned
    <3>3. planned'[c] = planned[c]
      BY <1>1, <2>1, <2>3
    <3> QED
      BY <1>1, <3>2, <3>3 DEF Announced
  <2> QED
    BY <2>2, <2>3
<1> QED
  BY <1>2, <1>3

LEMMA StepTallied ==
  ASSUME EInv, Sums, NEW u \in Unit, Step(u), NEW v \in Unit
  PROVE  Tallied(v)'
<1>1. /\ Alone(u) /\ pc \in [Unit -> PCs] /\ completes \in [Unit -> Nat]
      /\ summary.results \in [Unit -> Nat] /\ SummaryTyped(summary) /\ Tallied(v) /\ Entry(u)
  BY StepFacts DEF Sums, DataTypes, ReportTypes, Entries
<1>2. CASE Report(u)
  <2>1. /\ pc[u] = "report" /\ pc'[u] = "count" /\ completes' = [completes EXCEPT ![u] = @ + 1] /\ summary' = summary
        /\ \A w \in Unit : w # u => pc'[w] = pc[w]
    BY <1>1, <1>2 DEF Report, Goto
  <2>2. summary.results[u] = 0
    BY <1>1, <2>1 DEF Entry
  <2> QED
    BY <1>1, <2>1, <2>2 DEF Tallied
<1>3. CASE Count(u)
  <2>1. /\ pc[u] = "count" /\ pc'[u] = "exit" /\ completes' = completes
        /\ summary' = Recorded(summary, u, result[u])
        /\ \A w \in Unit : w # u => pc'[w] = pc[w]
    BY <1>1, <1>3 DEF Count, Goto, reportVars
  <2>2. summary'.results = [summary.results EXCEPT ![u] = @ + 1] /\ summary.results[u] = 0
    BY <1>1, <2>1, RecordedCounts DEF Entry
  <2>3. summary'.results[u] = 1 /\ \A w \in Unit : w # u => summary'.results[w] = summary.results[w]
    BY <1>1, <2>2
  <2> QED
    BY <1>1, <2>1, <2>3 DEF Tallied
<1>4. CASE ~Report(u) /\ ~Count(u)
  <2>1. summary' = summary
    BY <1>4, OnlyCount
  <2>2. completes' = completes /\ pc[u] # "count" /\ pc'[u] # "count"
    <3>1. CASE Acquire(u) \/ Refuse(u) \/ Skip(u) \/ NoResources(u)
      BY <1>1, <3>1 DEF Acquire, Refuse, Skip, NoResources, Goto, reportVars
    <3>2. CASE Start(u) \/ FanOut(u)
      BY <1>1, <3>2 DEF Start, FanOut, Goto
    <3>3. CASE Set(u) \/ Merge(u) \/ FanIn(u) \/ Exit(u)
      BY <1>1, <3>3 DEF Set, Merge, FanIn, Exit, Goto, reportVars
    <3>4. CASE Return(u)
      BY <1>1, <3>4 DEF Return, Goto, reportVars
    <3> QED
      BY <1>4, <3>1, <3>2, <3>3, <3>4 DEF Step
  <2> QED
    BY <1>1, <2>1, <2>2 DEF Tallied, Alone
<1> QED
  BY <1>2, <1>3, <1>4

LEMMA BelowStays ==
  ASSUME EInv, NEW u \in Unit, Step(u)
  PROVE  /\ Below(level)' = Below(level)
         /\ \A v \in Unit : Order[v[1]] < level => result'[v] = result[v]
<1>1. Alone(u) /\ Order[u[1]] = level /\ level \in Nat /\ level' = level
  BY StepFacts
<1>2. ASSUME NEW v \in Unit, Order[v[1]] < level PROVE result'[v] = result[v] /\ summary'.results[v] = summary.results[v]
  <2>1. v # u
    BY <1>1, <1>2
  <2> QED
    BY <1>1, <2>1 DEF Alone
<1> QED
  BY <1>1, <1>2 DEF Below, RecordedUnits

LEMMA StepSums ==
  ASSUME EInv, Sums, NEW u \in Unit, Step(u)
  PROVE  Sums'
<1>1. /\ phase = "wait" /\ phase' = phase /\ level' = level /\ snapshot' = snapshot
      /\ SummaryTyped(summary) /\ pc \in [Unit -> PCs] /\ pc[u] \notin {"idle", "done"} /\ pc' \in [Unit -> PCs]
  BY StepFacts
<1>2. /\ \A c \in Check : ResultOf(c)' /\ Announced(c)'
      /\ \A v \in Unit : Tallied(v)'
  BY StepResultOf, StepAnnounced, StepTallied
<1>3. SnapshotOfBelow'
  <2>1. Below(level)' = Below(level) /\ \A v \in Below(level) : v \in Unit /\ result'[v] = result[v]
    BY BelowStays DEF Below, RecordedUnits
  <2> QED
    BY <1>1, <2>1 DEF Sums, SnapshotOfBelow
<1>4. summary'.total = summary.total
  <2>1. CASE Count(u)
    BY <1>1, <2>1, RecordedCounts DEF Count
  <2> QED
    BY <2>1, OnlyCount
<1>5. Sized' /\ Observed' /\ IsInjective(snapshot'.resources)
  BY <1>1, <1>4 DEF Sums, Sized, Observed
<1> QED
  BY <1>2, <1>3, <1>5 DEF Sums

LEMMA DrainSums ==
  ASSUME EInv, Sums, NEW c \in Check, RecordCancelled(c)
  PROVE  Sums'
<1> DEFINE u == U(c)
<1>1. /\ Control /\ StoreTyped(store) /\ SummaryTyped(summary) /\ Entry(u)
      /\ pc \in [Unit -> PCs] /\ result \in [Unit -> Result] /\ summary.results \in [Unit -> Nat]
      /\ completes \in [Unit -> Nat] /\ u \in Unit /\ IsGlobal(u) /\ u[1] = c
  BY UnitFacts DEF EInv, RInv, IInv, DataTypes, ReportTypes, SummaryTyped, Control, ControlTypes, Entries
<1>2. /\ phase = "drain" /\ phase' = phase /\ snapshot' = snapshot /\ planned' = planned
      /\ pc[u] = "idle" /\ pc' = [pc EXCEPT ![u] = "done"]
      /\ result' = [result EXCEPT ![u] = Skipped("cancelled")]
      /\ store' = Stored(store, u, Skipped("cancelled"))
      /\ completes' = [completes EXCEPT ![u] = @ + 1]
      /\ summary' = Recorded(summary, u, Skipped("cancelled"))
  BY DEF RecordCancelled, Undrained, mainVars
<1>3. /\ summary'.results = [summary.results EXCEPT ![u] = @ + 1] /\ summary'.total = summary.total
      /\ summary.results[u] = 0
  BY <1>1, <1>2, RecordedCounts DEF Entry
<1>4. /\ \A v \in Unit \ {u} : /\ pc'[v] = pc[v] /\ result'[v] = result[v] /\ completes'[v] = completes[v]
                               /\ summary'.results[v] = summary.results[v]
      /\ pc'[u] = "done" /\ result'[u] = Skipped("cancelled") /\ summary'.results[u] = 1
      /\ completes'[u] = completes[u] + 1
  BY <1>1, <1>2, <1>3
<1>5. store'.results = Put(store.results, c, Skipped("cancelled"))
  BY <1>1, <1>2 DEF Stored, StoreTyped, IsStore
<1>6. ASSUME NEW d \in Check PROVE ResultOf(d)' /\ Announced(d)'
  <2>1. Spawned(d)' = Spawned(d)
    BY <1>1, <1>4, UnitFacts DEF Spawned
  <2>2. Announced(d)'
    BY <1>2, <2>1 DEF Sums, Announced
  <2>3. CASE d = c
    BY <1>4, <1>5, <2>2, <2>3 DEF ResultOf, InStore, Put
  <2>4. CASE d # c
    <3>1. U(d) \in Unit \ {u}
      BY <1>1, <2>4, UnitFacts
    <3>2. (d \in DOMAIN store'.results <=> d \in DOMAIN store.results)
          /\ (d \in DOMAIN store.results => store'.results[d] = store.results[d])
      BY <1>5, <2>4 DEF Put
    <3>3. ResultOf(d)
      BY DEF Sums
    <3> QED
      BY <1>4, <2>2, <3>1, <3>2, <3>3 DEF ResultOf, InStore
  <2> QED
    BY <2>3, <2>4
<1>7. ASSUME NEW v \in Unit PROVE Tallied(v)'
  <2>1. Tallied(v)
    BY DEF Sums
  <2>2. CASE v = u
    BY <1>2, <1>3, <1>4, <2>1, <2>2 DEF Tallied
  <2>3. CASE v # u
    BY <1>4, <2>1, <2>3 DEF Tallied
  <2> QED
    BY <2>2, <2>3
<1>8. SnapshotOfBelow' /\ Observed' /\ Sized' /\ IsInjective(snapshot'.resources)
  BY <1>2, <1>3 DEF Sums, Sized, SnapshotOfBelow, Observed
<1> QED
  BY <1>6, <1>7, <1>8 DEF Sums

\* The observations of a table, by whatever function gives them.
LEMMA TotalIs ==
  ASSUME NEW rs, NEW S, DOMAIN rs = S, IsFiniteSet(S), NEW f, \A x \in S : f[x] \in Nat /\ f[x] = rs[x].obs
  PROVE  TotalObs(rs) = SumFunctionOnSet(f, S)
<1> DEFINE g == [x \in S |-> rs[x].obs]
<1>1. TotalObs(rs) = SumFunctionOnSet(g, S)
  BY DEF TotalObs, SumFunction
<1>2. \A x \in S : f[x] \in Nat /\ f[x] = g[x]
  OBVIOUS
<1> HIDE DEF g
<1>3. SumFunctionOnSet(f, S) = SumFunctionOnSet(g, S)
  BY <1>2, SumSame
<1> QED
  BY <1>1, <1>3

\* sortSummary: the observations of the entries there are.
LEMMA FinalizeSums ==
  ASSUME EInv, Finalize
  PROVE  Observed'
<1>1. /\ SummaryTyped(summary) /\ summary.results \in [Unit -> Nat] /\ result \in [Unit -> Result]
      /\ pc \in [Unit -> PCs] /\ \A u \in Unit : Entry(u)
  BY DEF EInv, RInv, IInv, DataTypes, SummaryTyped, Control, ControlTypes, Entries
<1> DEFINE f == [u \in Unit |-> summary.results[u] * result[u].obs]
           R == RecordedUnits
           rs == [u \in R |-> result[u]]
<1>2. /\ summary' = [summary EXCEPT !.observations = SumFunction(f)] /\ result' = result
  BY Zenon DEF Finalize
<1>3. SumFunction(f) = SumFunctionOnSet(f, Unit)
  BY DEF SumFunction
<1>4. summary'.observations = SumFunctionOnSet(f, Unit) /\ summary'.results = summary.results
  <2> HIDE DEF f
  <2> QED
    BY <1>1, <1>2, <1>3 DEF SummaryTyped, IsSummary
<1>5. \A u \in Unit : summary.results[u] \in {0, 1} /\ result[u].obs \in Nat
  BY <1>1 DEF Entry, Result
<1>6. /\ \A u \in R : f[u] \in Nat /\ f[u] = result[u].obs
      /\ \A u \in Unit \ R : f[u] = 0
      /\ R \in SUBSET Unit
  BY <1>5 DEF RecordedUnits
<1>7. IsFiniteSet(Unit) /\ IsFiniteSet(R)
  BY <1>6, UnitFinite, FS_Subset
<1>8. DOMAIN rs = R /\ \A u \in R : f[u] \in Nat /\ f[u] = rs[u].obs
  BY <1>6
<1> HIDE DEF f, rs, R
<1>9. SumFunctionOnSet(f, Unit) = SumFunctionOnSet(f, R)
  BY <1>6, <1>7, SumPart
<1>10. TotalObs(rs) = SumFunctionOnSet(f, R)
  BY <1>7, <1>8, TotalIs
<1>11. R' = R
  BY <1>4 DEF R, RecordedUnits
<1>12. rs' = rs
  BY <1>2, <1>11 DEF rs
<1>13. TotalObs(rs') = TotalObs(rs)
  BY <1>12
<1>14. summary'.observations = TotalObs(rs')
  BY <1>4, <1>9, <1>10, <1>13
<1> QED
  BY <1>14 DEF Observed, rs, R

LEMMA MainSums ==
  ASSUME EInv, Sums, Cancel \/ Main \/ UNCHANGED vars
  PROVE  Sums'
<1>1. /\ Control /\ DataTypes /\ RollUps /\ Gathered /\ SummaryTyped(summary) /\ StoreTyped(store) /\ StoredWhen
      /\ pc \in [Unit -> PCs] /\ result \in [Unit -> Result] /\ summary.results \in [Unit -> Nat]
      /\ level \in Nat /\ \A u \in Unit : Entry(u)
  BY DEF EInv, RInv, IInv, Data, DataTypes, SummaryTyped, Control, ControlTypes, Entries
\* What is left to show where no goroutine moves.
<1>2. ASSUME UNCHANGED <<pc, result, store, completes, planned, snapshot>>, summary'.results = summary.results,
             phase' = "wait" => phase = "wait" /\ level' = level,
             Sized', Observed'
      PROVE  Sums'
  <2>1. ASSUME NEW c \in Check PROVE ResultOf(c)' /\ Announced(c)'
    <3>1. Spawned(c)' = Spawned(c) /\ ResultOf(c) /\ Announced(c)
      BY <1>2 DEF Spawned, Sums
    <3> QED
      BY <1>2, <3>1 DEF ResultOf, InStore, Announced
  <2>2. ASSUME NEW u \in Unit PROVE Tallied(u)'
    BY <1>2 DEF Sums, Tallied
  <2>3. SnapshotOfBelow' /\ IsInjective(snapshot'.resources)
    <3>1. RecordedUnits' = RecordedUnits
      BY <1>2 DEF RecordedUnits
    <3>2. level' = level => Below(level)' = Below(level)
      BY <3>1 DEF Below
    <3> QED
      BY <1>2, <3>2 DEF Sums, SnapshotOfBelow
  <2> QED
    BY <1>2, <2>1, <2>2, <2>3 DEF Sums
<1>3. CASE Cancel \/ UNCHANGED vars
  <2>1. UNCHANGED <<pc, result, store, completes, planned, snapshot, summary, phase, level>>
    BY <1>3 DEF Cancel, vars, mainVars, reportVars
  <2>2. TotalObs([u \in RecordedUnits |-> result[u]])' = TotalObs([u \in RecordedUnits |-> result[u]])
    <3>1. [u \in RecordedUnits |-> result[u]]' = [u \in RecordedUnits |-> result[u]]
      BY <2>1 DEF RecordedUnits
    <3> QED
      BY <3>1
  <2> QED
    BY <1>2, <2>1, <2>2 DEF Sums, Sized, Observed
<1>4. CASE CloseLevel \/ Abandon
  BY <1>1, <1>2, <1>4 DEF CloseLevel, Abandon, reportVars, Sums, Sized, Observed
<1>5. CASE Begin
  <2>1. /\ phase' = "level" /\ UNCHANGED <<pc, result, store, completes, planned, snapshot>>
        /\ summary' = [summary EXCEPT !.total = Cardinality(Check)]
    BY <1>5 DEF Begin
  <2>2. summary'.results = summary.results /\ summary'.total = Cardinality(Check)
    BY <1>1, <2>1 DEF SummaryTyped, IsSummary
  <2>3. Sized' /\ Observed'
    BY <2>1, <2>2 DEF Sized, Observed
  <2> QED
    BY <1>2, <2>1, <2>2, <2>3
<1>6. CASE Reject
  <2>1. /\ phase' = "final" /\ UNCHANGED <<pc, result, store, completes, planned, snapshot>>
        /\ summary' = [summary EXCEPT !.err = refusal]
    BY <1>6 DEF Reject, reportVars
  <2>2. summary'.results = summary.results /\ summary'.total = summary.total
    BY <1>1, <2>1 DEF SummaryTyped, IsSummary
  <2>3. Sized' /\ Observed'
    BY <2>1, <2>2 DEF Sums, Sized, Observed
  <2> QED
    BY <1>2, <2>1, <2>2, <2>3
<1>7. CASE EndLoop
  <2>1. /\ phase' = "final" /\ UNCHANGED <<pc, result, store, completes, planned, snapshot>>
        /\ \E e : summary' = [summary EXCEPT !.err = e]
    BY <1>7 DEF EndLoop, reportVars
  <2>2. summary'.results = summary.results /\ summary'.total = summary.total
    BY <1>1, <2>1 DEF SummaryTyped, IsSummary
  <2>3. Sized' /\ Observed'
    BY <2>1, <2>2 DEF Sums, Sized, Observed
  <2> QED
    BY <1>2, <2>1, <2>2, <2>3
<1>8. CASE Finalize
  <2>1. /\ phase' = "done" /\ UNCHANGED <<pc, result, store, completes, planned, snapshot>>
        /\ \E o : summary' = [summary EXCEPT !.observations = o]
    BY <1>8, Zenon DEF Finalize
  <2>2. summary'.results = summary.results /\ summary'.total = summary.total
    BY <1>1, <2>1 DEF SummaryTyped, IsSummary
  <2>3. Observed'
    BY <1>8, FinalizeSums
  <2>4. Sized'
    BY <2>1, <2>2 DEF Sums, Sized
  <2> QED
    BY <1>2, <2>1, <2>2, <2>3, <2>4
<1>9. CASE OpenLevel
  <2>1. /\ phase = "level" /\ phase' = "wait" /\ snapshot' = store
        /\ UNCHANGED <<level, store, result, summary, completes, planned>>
        /\ \A v \in Unit : pc'[v] = IF IsGlobal(v) /\ Order[v[1]] = level THEN "acquire" ELSE pc[v]
    BY <1>9 DEF OpenLevel, reportVars
  <2>2. ASSUME NEW v \in Unit
        PROVE  \/ pc[v] = "idle" /\ summary.results[v] = 0
               \/ pc[v] = "done" /\ Order[v[1]] < level /\ summary.results[v] \in {0, 1}
    <3>1. pc[v] \in {"idle", "done"} /\ Entry(v)
      BY <1>1, <2>1, Active
    <3>2. v[1] \in Check /\ Order[v[1]] \in Nat /\ (IsGlobal(v) => v = U(v[1]))
      BY OrderFacts, UnitFacts
    <3>3. Order[v[1]] >= level => pc[v] = "idle"
      BY <1>1, <2>1, <3>1, <3>2 DEF Control, Barrier, FansInside
    <3> QED
      BY <1>1, <3>1, <3>2, <3>3 DEF Entry
  <2>3. ASSUME NEW v \in Unit, pc'[v] # pc[v] PROVE pc[v] = "idle" /\ pc'[v] = "acquire" /\ IsGlobal(v)
    <3>1. IsGlobal(v) /\ Order[v[1]] = level /\ pc'[v] = "acquire"
      BY <2>1, <2>3
    <3> QED
      BY <1>1, <2>2, <3>1
  <2>4. ASSUME NEW c \in Check PROVE ResultOf(c)' /\ Announced(c)'
    <3>1. Spawned(c)' = Spawned(c) /\ ResultOf(c) /\ Announced(c) /\ U(c) \in Unit
      BY <2>3, UnitFacts DEF Spawned, Sums
    <3>2. pc'[U(c)] = pc[U(c)] \/ (pc[U(c)] = "idle" /\ pc'[U(c)] = "acquire")
      BY <2>3, <3>1
    <3>3. InStore(c)' <=> InStore(c)
      BY <2>1, <3>2 DEF InStore
    <3> QED
      BY <2>1, <3>1, <3>3 DEF ResultOf, Announced
  <2>5. ASSUME NEW v \in Unit PROVE Tallied(v)'
    <3>1. Tallied(v)
      BY DEF Sums
    <3> QED
      BY <2>1, <2>3, <3>1 DEF Tallied
  <2>6. Below(level)' = Below(level)
    BY <2>1 DEF Below, RecordedUnits
  <2>7. ASSUME NEW c \in Check PROVE c \in DOMAIN store.results <=> U(c) \in Below(level)
    <3>1. U(c) \in Unit /\ ResultOf(c) /\ U(c)[1] = c
      BY UnitFacts DEF Sums
    <3> QED
      BY <2>2, <3>1 DEF ResultOf, InStore, Below, RecordedUnits
  <2>8. DOMAIN store.results = {c \in Check : U(c) \in Below(level)}
        /\ \A c \in DOMAIN store.results : store.results[c] = result[U(c)]
    BY <1>1, <2>7 DEF StoreTyped, Sums, ResultOf
  <2>9. ASSUME NEW v \in Unit, ~IsGlobal(v)
        PROVE  /\ v \in DOMAIN store.perRes <=> v \in Below(level)
               /\ v \in DOMAIN store.perRes => store.perRes[v] = result[v]
    <3>1. Entry(v) /\ (v \in DOMAIN store.perRes <=> pc[v] \in After) /\ (pc[v] \in After => store.perRes[v] = result[v])
      BY <1>1, <2>9 DEF RollUps
    <3>2. pc[v] = "done" => summary.results[v] = 1
      BY <2>9, <3>1 DEF Entry
    <3> QED
      BY <2>2, <3>1, <3>2 DEF After, Below, RecordedUnits
  <2>10. \A v \in DOMAIN store.perRes : v \in Unit /\ ~IsGlobal(v)
    BY <1>1 DEF StoreTyped, StoredWhen
  <2>11. Below(level) \subseteq Unit
    BY DEF Below, RecordedUnits
  <2>12. DOMAIN store.perRes = {v \in Below(level) : ~IsGlobal(v)}
    BY <2>9, <2>10, <2>11
  <2>13. \A v \in DOMAIN store.perRes : store.perRes[v] = result[v]
    BY <2>9, <2>10
  <2>14. SnapshotOfBelow' /\ IsInjective(snapshot'.resources)
    BY <1>1, <2>1, <2>6, <2>8, <2>12, <2>13 DEF SnapshotOfBelow, Gathered
  <2>15. Observed' /\ Sized'
    BY <2>1 DEF Sums, Sized, Observed
  <2> QED
    BY <2>4, <2>5, <2>14, <2>15 DEF Sums
<1> QED
  BY <1>3, <1>4, <1>5, <1>6, <1>7, <1>8, <1>9, DrainSums DEF Main

LEMMA SumsInvariance == SafeSpec => []SInv
<1>1. EInv /\ Sums /\ [Next]_vars => Sums'
  BY StepSums, MainSums DEF Next, Progress
<1> QED
  BY <1>1, InitSums, EntriesInvariance, PTL DEF SafeSpec, SInv

-----------------------------------------------------------------------------
(* What is observed and what is announced: the theorems.                   *)

\* What the snapshot adds up is what the units below its level observed.
LEMMA SnapshotAddsUp ==
  ASSUME SInv, phase = "wait"
  PROVE  Observations(snapshot) = TotalObs([u \in Below(level) |-> result[u]])
<1> DEFINE f == [u \in Unit |-> result[u].obs]
           k == [c \in Check |-> U(c)]
           B == Below(level)
           G == {v \in B : IsGlobal(v)}
           R == {v \in B : ~IsGlobal(v)}
           C == DOMAIN snapshot.results
           g == [c \in C |-> snapshot.results[c].obs]
           all == [u \in B |-> result[u]]
<1>1. result \in [Unit -> Result] /\ SnapshotOfBelow
  BY DEF SInv, Sums, EInv, RInv, DataTypes
<1>2. B \subseteq Unit /\ B = G \cup R /\ G \cap R = {} /\ \A u \in B : f[u] \in Nat /\ f[u] = all[u].obs
  BY <1>1 DEF Below, RecordedUnits, Result
<1>3. IsFiniteSet(B) /\ IsFiniteSet(G) /\ IsFiniteSet(R)
  BY <1>2, UnitFinite, FS_Subset
<1>4. C = {c \in Check : U(c) \in B} /\ \A c \in C : snapshot.results[c] = result[U(c)]
  BY <1>1 DEF SnapshotOfBelow
<1>5. DOMAIN snapshot.perRes = R /\ \A u \in R : f[u] \in Nat /\ f[u] = snapshot.perRes[u].obs
  <2>1. DOMAIN snapshot.perRes = R /\ \A u \in R : snapshot.perRes[u] = result[u]
    BY <1>1 DEF SnapshotOfBelow
  <2> QED
    BY <1>2, <2>1
<1>6. IsFiniteSet(C)
  BY <1>4, SetsAssumption, FS_Subset
<1>7. \A c \in C : k[c] \in Unit /\ g[c] = f[k[c]] /\ g[c] \in Nat
  BY <1>2, <1>4, UnitFacts
<1>8. {k[c] : c \in C} = G
  <2>1. \A v \in G : v[1] \in C /\ k[v[1]] = v
    BY <1>2, <1>4, UnitFacts
  <2>2. \A c \in C : k[c] \in G
    BY <1>4, UnitFacts
  <2> QED
    BY <2>1, <2>2
<1>9. \A x, y \in C : k[x] = k[y] => x = y
  BY <1>4 DEF U
<1>10. TotalObs(snapshot.results) = SumFunctionOnSet(g, C)
  BY DEF TotalObs, SumFunction
<1>11. DOMAIN all = B
  OBVIOUS
<1> HIDE DEF f, k, B, G, R, C, g, all
<1>12. SumFunctionOnSet(g, C) = SumFunctionOnSet(f, G)
  BY <1>6, <1>7, <1>8, <1>9, SumRenamed
<1>13. TotalObs(snapshot.perRes) = SumFunctionOnSet(f, R)
  BY <1>3, <1>5, TotalIs
<1>14. TotalObs(all) = SumFunctionOnSet(f, B)
  BY <1>2, <1>3, <1>11, TotalIs
<1>15. SumFunctionOnSet(f, G \cup R) = SumFunctionOnSet(f, G) + SumFunctionOnSet(f, R)
  BY <1>2, <1>3, SumUnion
<1>16. SumFunctionOnSet(f, B) = SumFunctionOnSet(f, G) + SumFunctionOnSet(f, R)
  BY <1>2, <1>15
<1>17. Observations(snapshot) = TotalObs(all)
  BY <1>10, <1>12, <1>13, <1>14, <1>16 DEF Observations
<1> QED
  BY <1>17 DEF all, B

\* Each observation is counted once, in the snapshot of a level and in the summary
\* (engine.go, storeSnapshot.Observations and sortSummary).
THEOREM ObservedOnce == SafeSpec => []ObservationsOnce
<1>1. SInv => ObservationsOnce
  <2> SUFFICES ASSUME SInv PROVE ObservationsOnce
    OBVIOUS
  <2>1. Below(level) = {v \in RecordedUnits : Order[v[1]] < level}
    BY DEF Below
  <2>2. [u \in Below(level) |-> result[u]] = [u \in {v \in RecordedUnits : Order[v[1]] < level} |-> result[u]]
    BY <2>1
  <2>3. phase = "wait" => Observations(snapshot) = TotalObs([u \in {v \in RecordedUnits : Order[v[1]] < level} |-> result[u]])
    BY <2>2, SnapshotAddsUp
  <2>4. Observed
    BY DEF SInv, Sums
  <2> QED
    BY <2>3, <2>4 DEF ObservationsOnce, Observed
<1> QED
  BY <1>1, SumsInvariance, PTL

\* The entries of a scan that is over: one for each check that did not fan out, and one for
\* each goroutine of those that did.
LEMMA EntriesAre ==
  ASSUME SInv, phase = "done", summary.total > 0, NEW F, F = {c \in Check : planned[c] > 0}
  PROVE  /\ \A u \in Unit : summary.results[u] = IF u \in RecordedUnits THEN 1 ELSE 0
         /\ RecordedUnits = {U(c) : c \in Check \ F} \cup UNION {Spawned(c) : c \in F}
<1>1. /\ Control /\ Entries /\ pc \in [Unit -> PCs] /\ summary.results \in [Unit -> Nat]
      /\ \A c \in Check : pc[U(c)] = "done" /\ Announced(c) /\ Fanned(c) /\ U(c) \in Unit
      /\ \A u \in Unit : Entry(u) /\ pc[u] \in {"idle", "done"}
  BY AllEnded, UnitFacts DEF SInv, Sums, EInv, RInv, IInv, DataTypes, SummaryTyped, Entries, Ending, Control, ControlTypes
<1>2. ASSUME NEW u \in Unit PROVE summary.results[u] = IF u \in RecordedUnits THEN 1 ELSE 0
  BY <1>1 DEF Entry, RecordedUnits
<1>3. ASSUME NEW c \in Check PROVE c \in F <=> Spawned(c) # {}
  <2>1. Spawned(c) \subseteq Unit /\ planned[c] = Cardinality(Spawned(c))
    BY <1>1, UnitFacts DEF Spawned, Announced
  <2>2. IsFiniteSet(Spawned(c))
    BY <2>1, UnitFinite, FS_Subset
  <2>3. Cardinality(Spawned(c)) \in Nat /\ (Cardinality(Spawned(c)) = 0 <=> Spawned(c) = {})
    BY <2>2, FS_CardinalityType, FS_EmptySet
  <2> QED
    BY <2>1, <2>3
<1>4. ASSUME NEW c \in Check PROVE U(c) \in RecordedUnits <=> c \notin F
  BY <1>1, <1>3 DEF Fanned, Entry, RecordedUnits
<1>5. ASSUME NEW v \in Unit, ~IsGlobal(v) PROVE v \in RecordedUnits <=> v \in Spawned(v[1])
  <2>1. v \in Fan(v[1]) /\ Entry(v) /\ pc[v] \in {"idle", "done"}
    BY <1>1, <1>5, UnitFacts
  <2> QED
    BY <1>1, <1>5, <2>1 DEF Entry, RecordedUnits, Spawned
<1>6. \A v \in Unit : v[1] \in Check /\ (IsGlobal(v) => v = U(v[1]))
  BY UnitFacts
<1>7. \A c \in Check : \A v \in Spawned(c) : v \in Unit /\ ~IsGlobal(v) /\ v[1] = c
  BY UnitFacts DEF Spawned
<1>8. \A v \in RecordedUnits : v \in Unit
  BY DEF RecordedUnits
<1>9. \A v \in RecordedUnits : v \in {U(c) : c \in Check \ F} \cup UNION {Spawned(c) : c \in F}
  <2> SUFFICES ASSUME NEW v \in RecordedUnits PROVE v \in {U(c) : c \in Check \ F} \cup UNION {Spawned(c) : c \in F}
    OBVIOUS
  <2>1. v \in Unit /\ v[1] \in Check
    BY <1>6, <1>8
  <2>2. CASE IsGlobal(v)
    <3>1. v = U(v[1]) /\ v[1] \in Check \ F
      BY <1>4, <1>6, <2>1, <2>2
    <3> QED
      BY <3>1
  <2>3. CASE ~IsGlobal(v)
    <3>1. v \in Spawned(v[1]) /\ v[1] \in F
      BY <1>3, <1>5, <2>1, <2>3
    <3> QED
      BY <3>1
  <2> QED
    BY <2>2, <2>3
<1>10. \A c \in Check \ F : U(c) \in RecordedUnits
  BY <1>4
<1>11. \A c \in F : \A v \in Spawned(c) : v \in RecordedUnits
  <2> SUFFICES ASSUME NEW c \in F, NEW v \in Spawned(c) PROVE v \in RecordedUnits
    OBVIOUS
  <2>1. c \in Check
    OBVIOUS
  <2>2. v \in Unit /\ ~IsGlobal(v) /\ v[1] = c
    BY <1>7, <2>1
  <2> QED
    BY <1>5, <2>2
<1> QED
  BY <1>2, <1>9, <1>10, <1>11

LEMMA BarFills == SInv => ProgressBarFills
<1> SUFFICES ASSUME SInv, phase = "done" PROVE ProgressBarFills
  BY DEF ProgressBarFills
<1> DEFINE F == {c \in Check : planned[c] > 0}
           R == RecordedUnits
           G == {U(c) : c \in Check \ F}
           H == UNION {Spawned(c) : c \in F}
<1>1. /\ Control /\ pc \in [Unit -> PCs] /\ summary.results \in [Unit -> Nat] /\ planned \in [Check -> Nat]
      /\ completes \in [Unit -> Nat] /\ \A c \in Check : Announced(c)
      /\ \A u \in Unit : Entry(u) /\ Tallied(u) /\ pc[u] \in {"idle", "done"}
      /\ Sized /\ summary.total \in Nat
  BY AllEnded DEF SInv, Sums, EInv, RInv, IInv, DataTypes, ReportTypes, SummaryTyped, Entries, Control, ControlTypes
<1>2. SumFunction(completes) = SumFunctionOnSet(completes, Unit) /\ IsFiniteSet(Unit)
  BY <1>1, UnitFinite DEF SumFunction
<1>3. \A u \in Unit : completes[u] = summary.results[u]
  BY <1>1 DEF Tallied
<1>4. IsFiniteSet(Check) /\ IsFiniteSet(F) /\ IsFiniteSet(Check \ F) /\ F \subseteq Check /\ Check \ F \subseteq Check
  BY SetsAssumption, FS_Subset
<1>5. CASE summary.total = 0
  <2>1. Cardinality(Check) # 0
    BY SetsAssumption, FS_EmptySet
  <2>2. \A u \in Unit : pc[u] = "idle"
    BY <1>1, <1>5, <2>1 DEF Sized
  <2>3. \A u \in Unit : completes[u] = 0
    BY <1>1, <1>3, <2>2 DEF Entry
  <2>4. F = {}
    <3>1. ASSUME NEW c \in Check PROVE planned[c] = 0
      <4>1. Spawned(c) = {}
        BY <2>2, UnitFacts DEF Spawned
      <4> QED
        BY <1>1, <4>1, FS_EmptySet DEF Announced
    <3> QED
      BY <3>1
  <2>5. SumFunctionOnSet(completes, Unit) = 0
    BY <1>2, <2>3, SumZero
  <2>6. Cardinality(F) = 0 /\ SumFunctionOnSet(planned, F) = 0
    BY <2>4, FS_EmptySet, SumEmpty
  <2>7. SumFunction(completes) = summary.total - Cardinality(F) + SumFunctionOnSet(planned, F)
    <3> HIDE DEF F
    <3> QED
      BY <1>2, <1>5, <2>5, <2>6
  <2> QED
    BY <2>7 DEF ProgressBarFills
<1>6. CASE summary.total > 0
  <2>1. summary.total = Cardinality(Check)
    BY <1>1, <1>6 DEF Sized
  <2>2. R = G \cup H /\ \A u \in Unit : completes[u] = IF u \in R THEN 1 ELSE 0
    BY <1>3, <1>6, EntriesAre
  <2>3. R \in SUBSET Unit /\ G \subseteq R /\ H \subseteq R
    BY <2>2 DEF RecordedUnits
  <2>4. G \cap H = {}
    <3>1. \A c \in Check : IsGlobal(U(c))
      BY UnitFacts
    <3>2. \A c \in F : \A v \in Spawned(c) : ~IsGlobal(v)
      BY UnitFacts DEF Spawned
    <3> QED
      BY <3>1, <3>2
  <2>5. IsFiniteSet(R) /\ IsFiniteSet(G) /\ IsFiniteSet(H)
    <3> HIDE DEF R, G, H
    <3> QED
      BY <1>2, <2>3, FS_Subset
  <2>6. SumFunctionOnSet(completes, Unit) = SumFunctionOnSet(completes, R)
    <3> HIDE DEF R
    <3>1. (\A u \in R : completes[u] \in Nat) /\ \A u \in Unit \ R : completes[u] = 0
      BY <2>2, <2>3
    <3> QED
      BY <1>2, <2>3, <3>1, SumPart
  <2>7. SumFunctionOnSet(completes, R) = Cardinality(R)
    <3> DEFINE m == [u \in R |-> {u}]
    <3>1. \A u \in R : IsFiniteSet(m[u]) /\ completes[u] = Cardinality(m[u])
      BY <2>2, <2>3, FS_Singleton
    <3>2. \A x, y \in R : x # y => m[x] \cap m[y] = {}
      OBVIOUS
    <3>3. UNION {m[x] : x \in R} = R
      OBVIOUS
    <3> HIDE DEF m, R
    <3>4. Cardinality(UNION {m[x] : x \in R}) = SumFunctionOnSet(completes, R)
      BY <2>5, <3>1, <3>2, SumOfSizes
    <3> QED
      BY <3>3, <3>4
  <2>8. Cardinality(H) = SumFunctionOnSet(planned, F)
    <3> DEFINE m == [c \in F |-> Spawned(c)]
    <3>1. \A c \in F : IsFiniteSet(m[c]) /\ planned[c] = Cardinality(m[c])
      <4> SUFFICES ASSUME NEW c \in F PROVE IsFiniteSet(Spawned(c)) /\ planned[c] = Cardinality(Spawned(c))
        OBVIOUS
      <4>1. Spawned(c) \subseteq Unit
        BY UnitFacts DEF Spawned
      <4> QED
        BY <1>1, <1>2, <4>1, FS_Subset DEF Announced
    <3>2. \A x, y \in F : x # y => m[x] \cap m[y] = {}
      BY UnitFacts DEF Spawned
    <3>3. UNION {m[x] : x \in F} = H
      OBVIOUS
    <3>4. IsFiniteSet(F)
      BY <1>4
    <3> HIDE DEF m, F, H
    <3>5. Cardinality(UNION {m[x] : x \in F}) = SumFunctionOnSet(planned, F)
      BY <3>1, <3>2, <3>4, SumOfSizes
    <3> QED
      BY <3>3, <3>5
  <2>9. Cardinality(G) = Cardinality(Check) - Cardinality(F)
    <3> DEFINE k == [c \in Check |-> U(c)]
    <3>1. {k[c] : c \in Check \ F} = G
      OBVIOUS
    <3>2. \A x, y \in Check \ F : k[x] = k[y] => x = y
      BY DEF U
    <3> HIDE DEF k, F, G
    <3>3. Cardinality(G) = Cardinality(Check \ F)
      BY <1>4, <3>1, <3>2, ImageSize
    <3>4. Cardinality(Check \ F) = Cardinality(Check) - Cardinality(Check \cap F)
      BY <1>4, FS_Difference
    <3>5. Check \cap F = F
      BY <1>4
    <3> QED
      BY <3>3, <3>4, <3>5
  <2>10. Cardinality(R) = Cardinality(G) + Cardinality(H)
    <3> HIDE DEF R, G, H
    <3>1. Cardinality(G \cup H) = Cardinality(G) + Cardinality(H) - Cardinality(G \cap H)
      BY <2>5, FS_Union
    <3>2. Cardinality(G \cap H) = 0
      BY <2>4, FS_EmptySet
    <3>3. Cardinality(G) \in Nat /\ Cardinality(H) \in Nat
      BY <2>5, FS_CardinalityType
    <3>4. Cardinality(R) = Cardinality(G \cup H)
      BY <2>2
    <3> QED
      BY <3>1, <3>2, <3>3, <3>4
  <2>11. SumFunction(completes) = summary.total - Cardinality(F) + SumFunctionOnSet(planned, F)
    <3> HIDE DEF F, G, H, R
    <3> QED
      BY <1>2, <2>1, <2>6, <2>7, <2>8, <2>9, <2>10
  <2> QED
    BY <2>11 DEF ProgressBarFills
<1> QED
  BY <1>1, <1>5, <1>6

\* The completions that come are those announced (reporter.go, OnResourcesDiscovered).
THEOREM AnnouncedIsReported == SafeSpec => []ProgressBarFills
BY BarFills, SumsInvariance, PTL
=============================================================================
