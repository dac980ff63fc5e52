---------------------------- MODULE BaselineProof ----------------------------
(***************************************************************************)
(* What a missing baseline, a capture and a shared slice of observations   *)
(* come to, what the merge of resources keeps, and that a store seeded     *)
(* with the summary answers as the engine's store does, for any checks,    *)
(* sources, pages and comparators.  All but the merge need to know which   *)
(* invocations can still run (Control) and what they find in the store:    *)
(* the results of earlier levels do not change while a level runs, so its  *)
(* snapshot and the store agree on them (SnapshotHolds).  The summary needs*)
(* three more: it lists the results of the store (Told), an aggregate rolls*)
(* up all results of its check (Rolled), and sorting keeps what is listed  *)
(* (Ordered).                                                              *)
(***************************************************************************)
EXTENDS Baseline, FiniteSetTheorems, WellFoundedInduction, TLAPS

IsStore(s) == s = [results |-> s.results, perRes |-> s.perRes,
                   aggregates |-> s.aggregates, resources |-> s.resources]

Types == /\ IsStore(store) /\ IsStore(snapshot)
         /\ pc \in [Unit -> {"idle", "skip", "run", "fan", "done"}]
         /\ seen = [u \in Unit |-> seen[u]]
         /\ level \in Nat /\ phase \in {"level", "wait", "done"}
         /\ \A c \in Asking : source[c] \in Sources[c]

\* Only invocations of the current level can move, and a resource runs only while its
\* check waits for it.
Control ==
  /\ \A u \in Unit : pc[u] \in {"skip", "run", "fan"} => phase = "wait" /\ Order[u[1]] = level
  /\ \A u \in Unit : pc[u] = "done" => Order[u[1]] < level \/ (phase = "wait" /\ Order[u[1]] = level)
  /\ \A u \in Unit : pc[u] \in {"skip", "fan"} => u[2] = None
  /\ \A u \in Unit : pc[u] = "run" /\ u[2] # None => pc[<<u[1], None>>] = "fan" /\ u[2] \in Listed(snapshot)

ResultIn(s, u) == IF u[2] = None THEN Found(s.results, u[1]) ELSE Found(s.perRes, u)

\* Who has a result is done, who has not run has asked nothing, and an aggregate holds no baseline.
Stored ==
  /\ \A u \in Unit : ResultOf(u) # {} => pc[u] = "done"
  /\ \A u \in Unit : pc[u] # "done" => seen[u] = None
  /\ \A c \in DOMAIN store.aggregates : store.aggregates[c].data = None
  /\ \A c \in DOMAIN snapshot.aggregates : snapshot.aggregates[c].data = None

SnapshotHolds ==
  phase = "wait" => \A u \in Unit : Order[u[1]] < level => ResultIn(snapshot, u) = ResultOf(u)

IInv == Types /\ Control /\ Stored /\ SnapshotHolds

-----------------------------------------------------------------------------
(* What an invocation leaves behind.                                       *)

IsResult(u, r) == /\ {"check", "res", "obs", "skip", "err", "data"} \subseteq DOMAIN r
                  /\ r.check = u[1] /\ r.res = u[2]

Filled(u, r) == [r EXCEPT !.obs = Fill(@, u)]

Recorded(u, r) ==
  /\ IsStore(store')
  /\ store'.results = IF u[2] = None THEN With(store.results, u[1], r) ELSE store.results
  /\ store'.perRes = IF u[2] = None THEN store.perRes ELSE With(store.perRes, u, r)
  /\ store'.aggregates = store.aggregates
  /\ pc' = [pc EXCEPT ![u] = "done"] /\ slice' = slice

LEMMA FilledFields ==
  ASSUME NEW u, NEW r, IsResult(u, r)
  PROVE  /\ Filled(u, r).check = u[1] /\ Filled(u, r).res = u[2]
         /\ Filled(u, r).obs = Fill(r.obs, u) /\ Filled(u, r).skip = r.skip
         /\ Filled(u, r).err = r.err /\ Filled(u, r).data = r.data
<1>1. r.obs = r["obs"]
  OBVIOUS
<1> QED
  BY <1>1 DEF IsResult, Filled

LEMMA FinishRecords ==
  ASSUME IsStore(store), NEW u \in Unit, NEW r, IsResult(u, r), Finish(u, r)
  PROVE  Recorded(u, Filled(u, r))
<1> DEFINE full == Filled(u, r)
<1>1. /\ store' = MergeResources(policy, Put(store, full), r.emits)
      /\ pc' = [pc EXCEPT ![u] = "done"] /\ slice' = slice
  BY DEF Finish, Filled
<1>2. u = <<u[1], u[2]>>
  BY DEF Unit
<1>3. full.check = u[1] /\ full.res = u[2]
  BY FilledFields
<1>4. Put(store, full) = IF u[2] = None THEN [store EXCEPT !.results = With(@, u[1], full)]
                         ELSE [store EXCEPT !.perRes = With(@, u, full)]
  BY <1>2, <1>3 DEF Put
<1> HIDE DEF full
<1>5. /\ IsStore(Put(store, full))
      /\ Put(store, full).results = IF u[2] = None THEN With(store.results, u[1], full) ELSE store.results
      /\ Put(store, full).perRes = IF u[2] = None THEN store.perRes ELSE With(store.perRes, u, full)
      /\ Put(store, full).aggregates = store.aggregates
  BY <1>4 DEF IsStore
<1> DEFINE p == Put(store, full)
<1>6. store' = [p EXCEPT !.resources = MergeAll(policy, @, r.emits)]
  BY <1>1 DEF MergeResources
<1> HIDE DEF p
<1>7. IsStore(p)
  BY <1>5 DEF p
<1>8. /\ IsStore(store') /\ store'.results = p.results /\ store'.perRes = p.perRes
      /\ store'.aggregates = p.aggregates
  BY <1>6, <1>7 DEF IsStore
<1> QED
  BY <1>1, <1>5, <1>8 DEF Recorded, p, full

LEMMA RecordedChanges ==
  ASSUME NEW u \in Unit, NEW r, Recorded(u, r)
  PROVE  /\ ResultOf(u)' = {r}
         /\ \A v \in Unit \ {u} : ResultOf(v)' = ResultOf(v)
<1>1. \A x, y \in Unit : x[1] = y[1] /\ x[2] = y[2] => x = y
  BY DEF Unit
<1>2. \A f, k, v : /\ Found(With(f, k, v), k) = {v}
                   /\ \A j : j # k => Found(With(f, k, v), j) = Found(f, j)
  BY DEF Found, With
<1>3. CASE u[2] = None
  <2>1. store'.results = With(store.results, u[1], r) /\ store'.perRes = store.perRes
    BY <1>3 DEF Recorded
  <2> QED
    BY <1>1, <1>2, <1>3, <2>1 DEF ResultOf
<1>4. CASE u[2] # None
  <2>1. store'.results = store.results /\ store'.perRes = With(store.perRes, u, r)
    BY <1>4 DEF Recorded
  <2> QED
    BY <1>2, <1>4, <2>1 DEF ResultOf
<1> QED
  BY <1>3, <1>4

-----------------------------------------------------------------------------
(* What a lookup can find.                                                 *)

\* Whoever relies on a capture that left no data finds no baseline.
LEMMA NothingToFind ==
  ASSUME IInv, NEW u \in Unit, pc[u] \in {"run", "skip"}, Relies(u), \A q \in ResultOf(Reference(u)) : q.data = None
  PROVE  Lookup(u) = {}
<1> DEFINE s == source[u[1]]
<1>1. /\ u[1] \in Asking /\ s \in Sources[u[1]] /\ s.of = "check" /\ s.check \in Check
      /\ Order[s.check] < Order[u[1]] /\ u[1] \in Check /\ u[2] \in Place
  BY SourcesAssumption DEF IInv, Types, Relies, Unit
<1>2. phase = "wait" /\ Order[u[1]] = level
  BY DEF IInv, Control
<1>3. \A v \in Unit : v[1] = s.check => ResultIn(snapshot, v) = ResultOf(v)
  BY <1>1, <1>2 DEF IInv, SnapshotHolds
<1> HIDE DEF s
<1>4. CASE u[2] = None \/ Kind[u[1]] = "probe"
  <2>1. Reference(u) = <<s.check, None>> /\ <<s.check, None>> \in Unit
    BY <1>1, <1>4 DEF Reference, s, Unit, Place
  <2>2. ResultOf(<<s.check, None>>) = Found(snapshot.results, s.check)
    BY <1>3, <2>1 DEF ResultIn
  <2>3. \A q \in Get(snapshot, s.check) : q.data = None
    BY <2>1, <2>2 DEF Get, Found, IInv, Stored
  <2>4. GetData(snapshot, s.check) = {}
    BY <2>3 DEF GetData
  <2> QED
    BY <1>1, <1>4, <2>4 DEF Lookup, s
<1>5. CASE ~(u[2] = None \/ Kind[u[1]] = "probe")
  <2>1. Reference(u) = <<s.check, u[2]>> /\ <<s.check, u[2]>> \in Unit
    BY <1>1, <1>5 DEF Reference, s, Unit
  <2>2. ResultOf(<<s.check, u[2]>>) = GetForResource(snapshot, s.check, u[2])
    BY <1>3, <1>5, <2>1 DEF ResultIn, GetForResource
  <2> QED
    BY <1>1, <1>5, <2>1, <2>2 DEF Lookup, s
<1> QED
  BY <1>4, <1>5

-----------------------------------------------------------------------------
(* One invocation.                                                         *)

\* What is recorded for an invocation when it returns, and what it was answered.
Recording(u) ==
  \E r : \E obs \in {<<>>, <<Blank>>, slice} :
    /\ Recorded(u, r) /\ r.check = u[1] /\ r.res = u[2] /\ r.obs = Fill(obs, u)
    /\ Kind[u[1]] = "compare" => r.skip = TRUE \/ Lookup(u) # {}
    /\ Kind[u[1]] = "probe" => r.skip = TRUE \/ r.err # None \/ Lookup(u) # {}
    /\ r.skip = TRUE \/ r.err # None => obs = <<>>
    /\ r.skip = TRUE => seen' = seen

Answer(u) == seen' = seen \/ \E p : seen' = [seen EXCEPT ![u] = p]

Constant == UNCHANGED <<source, compare, phase, level, snapshot>>

LEMMA Invocation ==
  ASSUME IsStore(store), NEW u \in Unit, Invoke(u)
  PROVE  pc[u] = "run" /\ Recording(u) /\ Answer(u) /\ Constant
<1>1. ASSUME NEW r, IsResult(u, r), Finish(u, r), r.obs \in {<<>>, <<Blank>>, slice},
             Kind[u[1]] = "compare" => r.skip = TRUE \/ Lookup(u) # {},
             Kind[u[1]] = "probe" => r.skip = TRUE \/ r.err # None \/ Lookup(u) # {},
             r.skip = TRUE \/ r.err # None => r.obs = <<>>,
             r.skip = TRUE => seen' = seen
      PROVE  Recording(u)
  <2>1. Recorded(u, Filled(u, r))
    BY <1>1, FinishRecords
  <2> QED
    BY <1>1, <2>1, FilledFields DEF Recording
<1>2. ASSUME Unasked(u) PROVE pc[u] = "run" /\ seen' = seen /\ Constant
  BY <1>2 DEF Unasked, Constant, config
<1>3. ASSUME NEW p, Asked(u, p) PROVE pc[u] = "run" /\ Answer(u) /\ Constant
  BY <1>3 DEF Asked, Answer, Constant, config
<1>4. CASE Discover(u)
  <2>1. PICK l : Finish(u, [Result(u) EXCEPT !.emits = l])
    BY <1>4 DEF Discover
  <2> DEFINE r == [Result(u) EXCEPT !.emits = l]
  <2>2. IsResult(u, r) /\ r.obs = <<>> /\ r.skip = FALSE /\ r.err = None
    BY DEF Result, NewResult, IsResult
  <2> HIDE DEF r
  <2>3. Recording(u)
    BY <1>1, <1>4, <2>1, <2>2 DEF Discover, r
  <2> QED
    BY <1>2, <1>4, <2>3 DEF Discover, Answer
<1>5. CASE Unanswered(u)
  <2> DEFINE r == [Result(u) EXCEPT !.err = "unanswered"]
  <2>1. IsResult(u, r) /\ r.obs = <<>> /\ r.skip = FALSE /\ r.err = "unanswered"
    BY DEF Result, NewResult, IsResult
  <2>2. Finish(u, r)
    BY <1>5 DEF Unanswered
  <2> HIDE DEF r
  <2>3. Recording(u)
    BY <1>1, <1>5, <2>1, <2>2, NoneAssumption DEF Unanswered
  <2> QED
    BY <1>2, <1>5, <2>3 DEF Unanswered, Answer
<1>6. CASE Capture(u)
  <2>1. PICK p : Finish(u, [Result(u) EXCEPT !.data = Current(u, p)]) /\ Asked(u, p)
    BY <1>6 DEF Capture
  <2> DEFINE r == [Result(u) EXCEPT !.data = Current(u, p)]
  <2>2. IsResult(u, r) /\ r.obs = <<>> /\ r.skip = FALSE /\ r.err = None
    BY DEF Result, NewResult, IsResult
  <2> HIDE DEF r
  <2>3. Recording(u)
    BY <1>1, <1>6, <2>1, <2>2 DEF Capture, r
  <2> QED
    BY <1>3, <2>1, <2>3
<1>7. CASE NoBaseline(u)
  <2> DEFINE r == [Result(u) EXCEPT !.skip = TRUE]
  <2>1. IsResult(u, r) /\ r.obs = <<>> /\ r.skip = TRUE /\ r.err = None
    BY DEF Result, NewResult, IsResult
  <2>2. Finish(u, r) /\ seen' = seen
    BY <1>2, <1>7 DEF NoBaseline
  <2> HIDE DEF r
  <2>3. Recording(u)
    BY <1>1, <2>1, <2>2
  <2> QED
    BY <1>2, <1>7, <2>3 DEF NoBaseline, Answer
<1>8. CASE ProbeNoBaseline(u)
  <2>1. PICK p : Asked(u, p)
    BY <1>8 DEF ProbeNoBaseline
  <2> DEFINE r == [Result(u) EXCEPT !.err = "no baseline"]
  <2>2. IsResult(u, r) /\ r.obs = <<>> /\ r.skip = FALSE /\ r.err = "no baseline"
    BY DEF Result, NewResult, IsResult
  <2>3. Finish(u, r)
    BY <1>8 DEF ProbeNoBaseline
  <2> HIDE DEF r
  <2>4. Recording(u)
    BY <1>1, <1>8, <2>2, <2>3, NoneAssumption DEF ProbeNoBaseline
  <2> QED
    BY <1>3, <2>1, <2>4
<1>9. CASE Compare(u)
  <2>1. PICK b \in Lookup(u), p \in Answers(u) :
          Finish(u, [Result(u) EXCEPT !.obs = Compared(u, b, Current(u, p))]) /\ Asked(u, p)
    BY <1>9 DEF Compare
  <2> DEFINE r == [Result(u) EXCEPT !.obs = Compared(u, b, Current(u, p))]
  <2>2. IsResult(u, r) /\ r.obs = Compared(u, b, Current(u, p)) /\ r.skip = FALSE /\ r.err = None
    BY DEF Result, NewResult, IsResult
  <2>3. Compared(u, b, Current(u, p)) \in {<<>>, <<Blank>>, slice}
    BY DEF Compared
  <2> HIDE DEF r
  <2>4. Recording(u)
    BY <1>1, <2>1, <2>2, <2>3 DEF r
  <2> QED
    BY <1>3, <2>1, <2>4
<1> QED
  BY <1>4, <1>5, <1>6, <1>7, <1>8, <1>9 DEF Invoke

LEMMA SkipRecords ==
  ASSUME IsStore(store), NEW c \in Check, SkipCheck(c)
  PROVE  pc[<<c, None>>] = "skip" /\ Recording(<<c, None>>) /\ seen' = seen /\ Constant
<1> DEFINE u == <<c, None>>
           r == Skipped(c, None)
<1>1. u \in Unit
  BY DEF Unit, Place
<1>2. IsResult(u, r) /\ r.obs = <<>> /\ r.skip = TRUE /\ r.err = None
  BY DEF Skipped, NewResult, IsResult
<1>3. Finish(u, r) /\ seen' = seen /\ pc[u] = "skip" /\ Constant
  BY DEF SkipCheck, Quiet, Constant, config
<1> HIDE DEF u, r
<1>4. Recorded(u, Filled(u, r))
  BY <1>1, <1>2, <1>3, FinishRecords
<1>5. Recording(u)
  BY <1>2, <1>3, <1>4, FilledFields DEF Recording
<1> QED
  BY <1>3, <1>5 DEF u

-----------------------------------------------------------------------------
(* Every step keeps the invariant.                                         *)

LEMMA InitInv == Init => IInv
<1> SUFFICES ASSUME Init PROVE IInv
  OBVIOUS
<1>1. /\ store = EmptyStore /\ snapshot = EmptyStore /\ phase = "level" /\ level = 0
      /\ pc = [u \in Unit |-> "idle"] /\ seen = [u \in Unit |-> None]
  BY DEF Init
<1>2. \A c \in Asking : source[c] \in Sources[c]
  BY DEF Init
<1>3. Types
  BY <1>1, <1>2 DEF Types, IsStore, EmptyStore
<1>4. \A u \in Unit : ResultOf(u) = {}
  BY <1>1 DEF EmptyStore, ResultOf, Found
<1> QED
  BY <1>1, <1>3, <1>4 DEF IInv, Control, Stored, SnapshotHolds, EmptyStore

LEMMA RecordingInv ==
  ASSUME IInv, NEW u \in Unit, pc[u] \in {"run", "skip"}, Recording(u), Answer(u), Constant
  PROVE  IInv'
<1>1. PICK r : Recorded(u, r)
  BY DEF Recording
<1>2. /\ phase = "wait" /\ phase' = "wait" /\ Order[u[1]] = level /\ level' = level /\ snapshot' = snapshot
      /\ source' = source
  BY DEF IInv, Control, Constant
<1>3. pc \in [Unit -> {"idle", "skip", "run", "fan", "done"}] /\ pc' = [pc EXCEPT ![u] = "done"]
  BY <1>1 DEF IInv, Types, Recorded
<1>4. seen' = [v \in Unit |-> seen'[v]] /\ \A v \in Unit \ {u} : seen'[v] = seen[v]
  BY DEF Answer, IInv, Types
<1>5. Types'
  BY <1>1, <1>2, <1>3, <1>4 DEF Types, IInv, Recorded
<1>6. pc[<<u[1], None>>] = "fan" => u[2] # None
  <2>1. u[2] = None => <<u[1], None>> = u
    BY DEF Unit
  <2> QED
    BY <2>1
<1>7. \A v \in Unit : <<v[1], None>> \in Unit
  BY DEF Unit, Place
<1>8. Control'
  BY <1>2, <1>3, <1>6, <1>7 DEF IInv, Control, Listed
<1>9. Stored'
  <2>1. \A v \in Unit : ResultOf(v)' # {} => pc'[v] = "done"
    <3> SUFFICES ASSUME NEW v \in Unit, v # u, ResultOf(v)' # {} PROVE pc'[v] = "done"
      BY <1>3
    <3>1. ResultOf(v) # {}
      BY <1>1, RecordedChanges
    <3> QED
      BY <1>3, <3>1 DEF IInv, Stored
  <2>2. \A v \in Unit : pc'[v] # "done" => seen'[v] = None
    BY <1>3, <1>4 DEF IInv, Stored
  <2>3. UNCHANGED <<snapshot, store.aggregates>>
    BY <1>1, <1>2 DEF Recorded
  <2> QED
    BY <2>1, <2>2, <2>3 DEF IInv, Stored
<1>10. SnapshotHolds'
  <2> SUFFICES ASSUME NEW v \in Unit, Order[v[1]] < level PROVE ResultIn(snapshot, v) = ResultOf(v)'
    BY <1>2 DEF SnapshotHolds, ResultIn
  <2>1. v # u
    BY <1>2 DEF IInv, Types
  <2> QED
    BY <1>1, <1>2, <2>1, RecordedChanges DEF IInv, SnapshotHolds
<1> QED
  BY <1>5, <1>8, <1>9, <1>10 DEF IInv

LEMMA OpenLevelInv == IInv /\ OpenLevel => IInv'
<1> SUFFICES ASSUME IInv, OpenLevel PROVE IInv'
  OBVIOUS
<1>1. /\ phase = "level" /\ phase' = "wait" /\ level' = level /\ store' = store /\ snapshot' = store
      /\ source' = source /\ seen' = seen
  BY DEF OpenLevel, config
<1>2. \A u \in Unit : pc[u] \in {"idle", "done"} /\ (pc[u] = "done" => Order[u[1]] < level)
  BY <1>1 DEF IInv, Types, Control
<1>3. /\ pc' \in [Unit -> {"idle", "skip", "run", "fan", "done"}]
      /\ \A u \in Unit : u[1] \notin AtLevel => pc'[u] = pc[u]
      /\ \A u \in Unit : u[1] \in AtLevel => pc'[u] \in {"idle", "skip", "run", "fan"}
      /\ \A u \in Unit : u[1] \in AtLevel /\ pc'[u] \in {"skip", "fan"} => u[2] = None
      /\ \A u \in Unit : u[1] \in AtLevel /\ pc'[u] = "run" /\ u[2] # None =>
           pc'[<<u[1], None>>] = "fan" /\ u[2] \in Listed(store)
  <2>1. pc' = [u \in Unit |->
                IF u[1] \notin AtLevel THEN pc[u]
                ELSE IF NothingToDo(u[1]) THEN (IF u[2] = None THEN "skip" ELSE "idle")
                ELSE IF u[1] \in Global THEN (IF u[2] = None THEN "run" ELSE "idle")
                ELSE IF u[2] = None THEN "fan" ELSE IF u[2] \in Listed(store) THEN "run" ELSE "idle"]
    BY DEF OpenLevel
  <2>2. \A u \in Unit : <<u[1], None>> \in Unit
    BY DEF Unit, Place
  <2> QED
    BY <1>2, <2>1, <2>2
<1>4. \A u \in Unit : u[1] \in AtLevel <=> Order[u[1]] = level
  BY DEF AtLevel, Unit
<1>5. Types'
  BY <1>1, <1>3 DEF IInv, Types
<1>6. Control'
  <2>1. \A u \in Unit : pc'[u] \in {"skip", "run", "fan"} => u[1] \in AtLevel
    BY <1>2, <1>3
  <2>2. \A u \in Unit : pc'[u] = "done" => Order[u[1]] < level
    BY <1>2, <1>3
  <2>3. Listed(snapshot)' = Listed(store)
    BY <1>1 DEF Listed
  <2> QED
    BY <1>1, <1>3, <1>4, <2>1, <2>2, <2>3 DEF Control
<1>7. \A u \in Unit : ResultOf(u)' = ResultOf(u) /\ ResultIn(store, u) = ResultOf(u)
  BY <1>1 DEF ResultOf, ResultIn
<1>8. \A u \in Unit : pc[u] = "done" <=> pc'[u] = "done"
  BY <1>2, <1>3, <1>4 DEF IInv, Types
<1>9. Stored' /\ SnapshotHolds'
  BY <1>1, <1>7, <1>8 DEF IInv, Stored, SnapshotHolds, ResultIn
<1> QED
  BY <1>5, <1>6, <1>9 DEF IInv

LEMMA FanInInv == ASSUME IInv, NEW c \in Check, FanIn(c) PROVE IInv' /\ \A u \in Unit : ResultOf(u)' = ResultOf(u)
<1> DEFINE u == <<c, None>>
           a == Aggregate(c, [i \in DOMAIN snapshot.resources |-> store.perRes[<<c, snapshot.resources[i].id>>]])
<1>1. /\ u \in Unit /\ pc[u] = "fan" /\ store' = SetAggregate(store, a) /\ pc' = [pc EXCEPT ![u] = "done"]
      /\ \A r \in Listed(snapshot) : pc[<<c, r>>] = "done"
      /\ phase' = phase /\ level' = level /\ snapshot' = snapshot /\ source' = source /\ seen' = seen
  BY DEF FanIn, Quiet, config, Unit, Place
<1>2. a.data = None /\ a.check = c
  BY DEF Aggregate, NewResult
<1>3. phase = "wait" /\ Order[c] = level
  BY <1>1 DEF IInv, Control
<1>4. u[1] = c /\ u[2] = None
  OBVIOUS
<1>5. \A v \in Unit : v = <<v[1], v[2]>> /\ <<v[1], None>> \in Unit
  BY DEF Unit, Place
<1> HIDE DEF u, a
<1>6. /\ IsStore(store') /\ store'.results = store.results /\ store'.perRes = store.perRes
      /\ store'.aggregates = With(store.aggregates, c, a)
  BY <1>1, <1>2 DEF SetAggregate, IInv, Types, IsStore
<1>7. \A v \in Unit : ResultOf(v)' = ResultOf(v)
  BY <1>6 DEF ResultOf
<1>8. Types'
  BY <1>1, <1>6 DEF IInv, Types
<1>9. \A v \in Unit : v[1] = c /\ v[2] # None => pc[v] # "run"
  BY <1>1, <1>5 DEF IInv, Control
<1>10. Control'
  BY <1>1, <1>3, <1>4, <1>5, <1>9 DEF IInv, Types, Control, Listed
<1>11. \A d \in DOMAIN store'.aggregates : store'.aggregates[d].data = None
  BY <1>2, <1>6 DEF With, IInv, Stored
<1>12. Stored'
  BY <1>1, <1>7, <1>11 DEF IInv, Types, Stored
<1>13. SnapshotHolds'
  BY <1>1, <1>7 DEF IInv, SnapshotHolds, ResultIn
<1> QED
  BY <1>7, <1>8, <1>10, <1>12, <1>13 DEF IInv

LEMMA CloseLevelInv == IInv /\ CloseLevel => IInv'
<1> SUFFICES ASSUME IInv, CloseLevel PROVE IInv'
  OBVIOUS
<1>1. /\ phase = "wait" /\ phase' = "level" /\ level' = level + 1 /\ level \in Nat
      /\ store' = store /\ snapshot' = snapshot /\ pc' = pc /\ seen' = seen /\ source' = source
  BY DEF CloseLevel, config, IInv, Types
<1>2. \A u \in Unit : pc[u] \notin {"skip", "run", "fan"}
  <2> SUFFICES ASSUME NEW u \in Unit, pc[u] \in {"skip", "run", "fan"} PROVE FALSE
    OBVIOUS
  <2>1. u[1] \in AtLevel
    BY DEF IInv, Control, AtLevel, Unit
  <2>2. pc[<<u[1], None>>] = "done"
    BY <2>1 DEF CloseLevel
  <2>3. u[2] = None => u = <<u[1], None>>
    BY DEF Unit
  <2> QED
    BY <2>2, <2>3 DEF IInv, Control
<1>3. \A u \in Unit : pc[u] = "done" => Order[u[1]] < level + 1
  BY <1>1, PlanAssumption DEF IInv, Control, Unit
<1>4. \A u \in Unit : ResultOf(u)' = ResultOf(u)
  BY <1>1 DEF ResultOf
<1>5. Types' /\ Stored' /\ SnapshotHolds'
  BY <1>1, <1>4 DEF IInv, Types, Stored, SnapshotHolds
<1>6. Control'
  <2>1. \A u \in Unit : pc'[u] \notin {"skip", "run", "fan"}
    BY <1>1, <1>2
  <2>2. \A u \in Unit : pc'[u] = "done" => Order[u[1]] < level'
    BY <1>1, <1>3
  <2> QED
    BY <2>1, <2>2 DEF Control
<1> QED
  BY <1>5, <1>6 DEF IInv

LEMMA QuietInv ==
  ASSUME IInv, phase' = phase \/ (phase = "level" /\ phase' = "done"),
         UNCHANGED <<store, snapshot, pc, seen, source, level>>
  PROVE  IInv' /\ \A u \in Unit : ResultOf(u)' = ResultOf(u)
<1>1. \A u \in Unit : ResultOf(u)' = ResultOf(u)
  BY DEF ResultOf
<1>2. Types' /\ Stored' /\ SnapshotHolds'
  BY <1>1 DEF IInv, Types, Stored, SnapshotHolds, ResultIn
<1>3. Control'
  BY DEF IInv, Types, Control, Listed
<1> QED
  BY <1>1, <1>2, <1>3 DEF IInv

\* A step is an invocation that returns, or leaves all results as they are.
LEMMA Steps ==
  ASSUME IInv, [Next]_vars
  PROVE  /\ IInv' /\ source' = source /\ compare' = compare
         /\ \/ /\ \A u \in Unit : ResultOf(u)' = ResultOf(u)
               /\ store'.results = store.results /\ store'.perRes = store.perRes
               /\ seen' = seen /\ slice' = slice
            \/ \E u \in Unit : pc[u] \in {"run", "skip"} /\ Recording(u) /\ Answer(u) /\ Constant
<1>1. IsStore(store)
  BY DEF IInv, Types
<1>2. ASSUME NEW u \in Unit, Invoke(u)
      PROVE  IInv' /\ Constant /\ pc[u] = "run" /\ Recording(u) /\ Answer(u)
  BY <1>1, <1>2, Invocation, RecordingInv
<1>3. ASSUME NEW c \in Check, SkipCheck(c)
      PROVE  \E u \in Unit : IInv' /\ Constant /\ pc[u] = "skip" /\ Recording(u) /\ Answer(u)
  <2>1. <<c, None>> \in Unit
    BY DEF Unit, Place
  <2> QED
    BY <1>1, <1>3, <2>1, SkipRecords, RecordingInv DEF Answer
<1>4. ASSUME NEW c \in Check, FanIn(c)
      PROVE  /\ IInv' /\ source' = source /\ compare' = compare /\ seen' = seen /\ slice' = slice
             /\ \A u \in Unit : ResultOf(u)' = ResultOf(u)
             /\ store'.results = store.results /\ store'.perRes = store.perRes
  <2>1. store'.results = store.results /\ store'.perRes = store.perRes
    BY <1>1, <1>4 DEF FanIn, SetAggregate, IsStore
  <2> QED
    BY <1>4, <2>1, FanInInv DEF FanIn, Quiet, Unrecorded, config
<1>5. CASE OpenLevel
  BY <1>5, OpenLevelInv DEF OpenLevel, config, Unrecorded, ResultOf
<1>6. CASE CloseLevel
  BY <1>6, CloseLevelInv DEF CloseLevel, config, Unrecorded, ResultOf
<1>7. CASE Finalize
  BY <1>7, QuietInv DEF Finalize, config
<1>8. CASE UNCHANGED vars
  <2>1. /\ phase' = phase /\ level' = level /\ store' = store /\ snapshot' = snapshot /\ pc' = pc
        /\ seen' = seen /\ source' = source /\ compare' = compare /\ slice' = slice
    BY <1>8 DEF vars, config
  <2> QED
    BY <2>1, QuietInv
<1> QED
  BY <1>2, <1>3, <1>4, <1>5, <1>6, <1>7, <1>8 DEF Next, Constant

LEMMA Invariance == Spec => []IInv
<1>1. IInv /\ [Next]_vars => IInv'
  BY Steps
<1> QED
  BY <1>1, InitInv, PTL DEF Spec

-----------------------------------------------------------------------------

\* Nothing is judged where the capture left no baseline (baseline.go:187, baseline.go:137).
THEOREM NothingJudged == Spec => []MissingIsSkipped
<1>1. Init => MissingIsSkipped
  BY DEF Init, EmptyStore, MissingIsSkipped, ResultOf, Found
<1>2. IInv /\ MissingIsSkipped /\ [Next]_vars => MissingIsSkipped'
  <2> SUFFICES ASSUME IInv, MissingIsSkipped, [Next]_vars PROVE MissingIsSkipped'
    OBVIOUS
  <2>1. source' = source /\ \A v \in Unit : (Relies(v)' <=> Relies(v)) /\ Reference(v)' = Reference(v)
    BY Steps DEF Relies, Reference
  <2>2. \A v \in Unit : Relies(v) => Reference(v) \in Unit /\ Order[Reference(v)[1]] < Order[v[1]]
    BY SourcesAssumption DEF IInv, Types, Relies, Reference, Unit, Place
  <2>3. CASE /\ \A u \in Unit : ResultOf(u)' = ResultOf(u)
             /\ seen' = seen
    BY <2>1, <2>2, <2>3 DEF MissingIsSkipped
  <2>4. CASE \E u \in Unit : pc[u] \in {"run", "skip"} /\ Recording(u) /\ Answer(u) /\ Constant
    <3>1. PICK u \in Unit : pc[u] \in {"run", "skip"} /\ Recording(u) /\ Answer(u)
      BY <2>4
    <3>2. PICK r : \E obs \in {<<>>, <<Blank>>, slice} :
            /\ Recorded(u, r) /\ r.check = u[1] /\ r.res = u[2] /\ r.obs = Fill(obs, u)
            /\ Kind[u[1]] = "compare" => r.skip = TRUE \/ Lookup(u) # {}
            /\ Kind[u[1]] = "probe" => r.skip = TRUE \/ r.err # None \/ Lookup(u) # {}
            /\ r.skip = TRUE \/ r.err # None => obs = <<>>
            /\ r.skip = TRUE => seen' = seen
      BY <3>1 DEF Recording
    <3>3. ResultOf(u)' = {r} /\ \A v \in Unit \ {u} : ResultOf(v)' = ResultOf(v)
      BY <3>2, RecordedChanges
    <3>4. Order[u[1]] = level /\ pc[u] # "done" /\ seen[u] = None
      BY <3>1 DEF IInv, Control, Stored
    <3>5. \A v \in Unit \ {u} : seen'[v] = seen[v]
      BY <3>1 DEF Answer, IInv, Types
    <3>0. \A v \in Unit : /\ ResultOf(v)' = ResultIn(store', v)
                          /\ ResultOf(Reference(v))' = ResultIn(store', Reference(v))
      BY <2>1 DEF ResultOf, ResultIn
    <3> SUFFICES ASSUME NEW v \in Unit, NEW q \in ResultOf(v)', Relies(v),
                        \A p \in ResultIn(store', Reference(v)) : p.data = None
                 PROVE  /\ q.obs = <<>>
                        /\ IF Kind[v[1]] = "compare" THEN q.skip /\ seen'[v] = None ELSE q.skip \/ q.err # None
      BY <2>1, <3>0 DEF MissingIsSkipped
    <3>6. CASE v # u
      <4>1. q \in ResultOf(v) /\ pc[v] = "done"
        BY <3>3, <3>6 DEF IInv, Stored
      <4>2. Reference(v) # u
        BY <2>2, <3>4, <4>1, PlanAssumption DEF IInv, Control, Types, Unit
      <4> QED
        BY <2>2, <3>3, <3>5, <3>6, <3>0, <4>1, <4>2 DEF MissingIsSkipped
    <3>7. CASE v = u
      <4>1. Reference(u) # u /\ Reference(u) \in Unit
        BY <2>2, <3>7, PlanAssumption DEF Unit
      <4>2. Lookup(u) = {}
        BY <3>1, <3>3, <3>7, <3>0, <4>1, NothingToFind
      <4>3. Kind[u[1]] \in {"compare", "probe"}
        BY <3>7 DEF Relies, Asking
      <4>4. r.skip = TRUE \/ r.err # None
        BY <3>2, <4>2, <4>3
      <4>5. r.obs = Fill(<<>>, u)
        BY <3>2, <4>4
      <4>6. Fill(<<>>, u) = <<>>
        BY DEF Fill
      <4> QED
        BY <3>2, <3>3, <3>4, <3>7, <4>2, <4>3, <4>4, <4>5, <4>6
    <3> QED
      BY <3>6, <3>7
  <2> QED
    BY <2>3, <2>4, Steps
<1> QED
  BY <1>1, <1>2, Invariance, PTL DEF Spec

\* Observations name whoever made them, and a slice a comparator shares is left as it is
\* (engine.go:541).
THEOREM ObservationsNamed == Spec => []Attributed
<1>1. Init => Attributed
  BY DEF Init, EmptyStore, Attributed, Range
<1>2. IInv /\ Attributed /\ [Next]_vars => Attributed'
  <2> SUFFICES ASSUME IInv, Attributed, [Next]_vars PROVE Attributed'
    OBVIOUS
  <2>1. CASE store'.results = store.results /\ store'.perRes = store.perRes /\ slice' = slice
    BY <2>1 DEF Attributed, Range
  <2>2. CASE \E u \in Unit : Recording(u)
    <3>1. PICK u \in Unit : Recording(u)
      BY <2>2
    <3>2. PICK r : \E obs \in {<<>>, <<Blank>>} :
            Recorded(u, r) /\ r.check = u[1] /\ r.res = u[2] /\ r.obs = Fill(obs, u)
      BY <3>1 DEF Recording, Attributed
    <3>3. \A i \in DOMAIN r.obs : r.obs[i] = [check |-> r.check, res |-> r.res]
      <4>1. \A obs \in {<<>>, <<Blank>>} : \A i \in DOMAIN obs : obs[i] = Blank
        OBVIOUS
      <4> QED
        BY <3>2, <4>1 DEF Fill, Blank, Or
    <3>4. \A f, k, q : q \in Range(With(f, k, r)) => q = r \/ q \in Range(f)
      BY DEF Range, With
    <3> QED
      BY <3>2, <3>3, <3>4 DEF Attributed, Recorded
  <2> QED
    BY <2>1, <2>2, Steps
<1> QED
  BY <1>1, <1>2, Invariance, PTL DEF Spec

-----------------------------------------------------------------------------
(* What a verdict compares.                                                *)

\* What was captured is what the place answered, and every answer is a page.
Kept == /\ page \in [Place -> Pages]
        /\ \A u \in Unit : seen[u] \in Pages \cup {None}
        /\ \A u \in Unit : \A q \in ResultOf(u) :
             q.data # None => seen[u] \in Pages /\ q.data = Current(u, seen[u])

\* No comparator flags two captures of one page, but for the similarity of different prefixes.
LEMMA SamePage ==
  ASSUME NEW p \in Pages, NEW m \in Nat, NEW n \in Nat, NEW k,
         k = "similarity" => m = n \/ (Len(p.words) <= m /\ Len(p.words) <= n)
  PROVE  ~Flags(k, CaptureSnapshot(p, m), CaptureSnapshot(p, n))
<1> DEFINE a == CaptureSnapshot(p, m)
           b == CaptureSnapshot(p, n)
<1>1. Len(p.words) \in Nat
  BY PagesAssumption
<1>2. /\ a.status = p.status /\ b.status = p.status
      /\ a.cut = (Len(p.words) > m) /\ b.cut = (Len(p.words) > n)
      /\ Len(p.words) <= m /\ Len(p.words) <= n => a = b
      /\ m = n => a = b
  BY <1>1 DEF CaptureSnapshot
<1>3. a.body = SubSeq(p.words, 1, IF Len(p.words) < m THEN Len(p.words) ELSE m)
  BY DEF CaptureSnapshot
<1>4. Len(a.body) \in Nat
  BY <1>1, <1>3, PagesAssumption
<1> HIDE DEF a, b
<1>5. a = b => ~LengthDeviates(a, b)
  <2> SUFFICES ASSUME a = b PROVE ~LengthDeviates(a, a)
    OBVIOUS
  <2>1. \A l \in Nat : ~(100 * (IF l > l THEN l - l ELSE l - l) > Tolerance * l)
    BY LimitsAssumption
  <2> QED
    BY <1>4, <2>1 DEF LengthDeviates
<1>6. \A h : Agreement(h, h) = Cardinality(Bits)
  <2> TAKE h
  <2>1. (h \ h) \cup (h \ h) = {}
    OBVIOUS
  <2>2. Cardinality({}) = 0 /\ Cardinality(Bits) \in Nat
    BY FS_EmptySet, FS_CardinalityType, LimitsAssumption
  <2>3. Agreement(h, h) = Cardinality(Bits) - Cardinality({})
    BY <2>1 DEF Agreement
  <2> QED
    BY <2>2, <2>3
<1>7. a = b => ~(Agreement(BodyHash(a), BodyHash(b)) < Threshold)
  <2> SUFFICES ASSUME a = b PROVE ~(Agreement(BodyHash(a), BodyHash(a)) < Threshold)
    OBVIOUS
  <2>1. Agreement(BodyHash(a), BodyHash(a)) = Cardinality(Bits)
    BY <1>6
  <2>2. Cardinality(Bits) \in Nat
    BY FS_CardinalityType, LimitsAssumption
  <2>3. Threshold \in Int /\ Threshold <= Cardinality(Bits)
    BY <2>2, LimitsAssumption
  <2> QED
    BY <2>1, <2>2, <2>3
<1>8. ~(k = "length" /\ ~a.cut /\ ~b.cut /\ LengthDeviates(a, b))
  <2>1. ~a.cut => ~(Len(p.words) > m)
    BY <1>2
  <2>2. ~b.cut => ~(Len(p.words) > n)
    BY <1>2
  <2>3. ~a.cut /\ ~b.cut => a = b
    BY <1>1, <1>2, <2>1, <2>2
  <2> QED
    BY <1>5, <2>3
<1>9. ~(k = "similarity" /\ Agreement(BodyHash(a), BodyHash(b)) < Threshold)
  BY <1>2, <1>7
<1> QED
  BY <1>2, <1>8, <1>9 DEF Flags, a, b

\* Whoever relies on a capture finds what the capture of the same place returned.
LEMMA FoundIsReference ==
  ASSUME IInv, NEW u \in Unit, pc[u] \in {"run", "skip"}, Relies(u), NEW b \in Lookup(u)
  PROVE  \E q \in ResultOf(Reference(u)) : q.data = b /\ b # None
<1> DEFINE s == source[u[1]]
<1>1. /\ u[1] \in Asking /\ s \in Sources[u[1]] /\ s.of = "check" /\ s.check \in Check
      /\ Order[s.check] < Order[u[1]] /\ u[1] \in Check /\ u[2] \in Place
  BY SourcesAssumption DEF IInv, Types, Relies, Unit
<1>2. phase = "wait" /\ Order[u[1]] = level
  BY DEF IInv, Control
<1>3. \A v \in Unit : v[1] = s.check => ResultIn(snapshot, v) = ResultOf(v)
  BY <1>1, <1>2 DEF IInv, SnapshotHolds
<1> HIDE DEF s
<1>4. CASE u[2] = None \/ Kind[u[1]] = "probe"
  <2>1. Reference(u) = <<s.check, None>> /\ <<s.check, None>> \in Unit
    BY <1>1, <1>4 DEF Reference, s, Unit, Place
  <2>2. ResultOf(<<s.check, None>>) = Found(snapshot.results, s.check)
    BY <1>3, <2>1 DEF ResultIn
  <2>3. b \in GetData(snapshot, s.check)
    BY <1>1, <1>4 DEF Lookup, s
  <2>4. PICK q \in Get(snapshot, s.check) : q.data = b /\ b # None
    BY <2>3 DEF GetData
  <2>5. q \in Found(snapshot.results, s.check)
    BY <2>4 DEF Get, Found, IInv, Stored
  <2> QED
    BY <2>1, <2>2, <2>4, <2>5
<1>5. CASE ~(u[2] = None \/ Kind[u[1]] = "probe")
  <2>1. Reference(u) = <<s.check, u[2]>> /\ <<s.check, u[2]>> \in Unit
    BY <1>1, <1>5 DEF Reference, s, Unit
  <2>2. ResultOf(<<s.check, u[2]>>) = GetForResource(snapshot, s.check, u[2])
    BY <1>3, <1>5, <2>1 DEF ResultIn, GetForResource
  <2>3. b \in {x.data : x \in {y \in GetForResource(snapshot, s.check, u[2]) : y.data # None}}
    BY <1>1, <1>5 DEF Lookup, s
  <2> QED
    BY <2>1, <2>2, <2>3
<1> QED
  BY <1>4, <1>5

\* What an invocation leaves behind, as far as its answer and its verdict go.
Judges(u, r) ==
  /\ seen' = seen \/ \E p \in Pages : seen' = [seen EXCEPT ![u] = p]
  /\ u[1] \in Asking /\ r.skip # TRUE /\ r.err = None =>
       \E b \in Lookup(u), p \in Pages :
         r.obs = Fill(Compared(u, b, Current(u, p)), u) /\ seen' = [seen EXCEPT ![u] = p]
  /\ r.data # None =>
       \E p \in Pages : r.data = Current(u, p) /\ seen' = [seen EXCEPT ![u] = p]

Judging(u) == \E r : Recorded(u, r) /\ Judges(u, r)

PagesStay == page' \in [Place -> Pages]

LEMMA Judgement ==
  ASSUME IInv, Kept, NEW u \in Unit, Invoke(u)
  PROVE  Judging(u) /\ PagesStay
<1>1. u[2] \in Place /\ IsStore(store)
  BY DEF Unit, IInv, Types
<1>2. ASSUME Unasked(u) PROVE seen' = seen /\ PagesStay
  BY <1>2 DEF Unasked, PagesStay, Kept
<1>3. ASSUME NEW p \in Answers(u), Asked(u, p)
      PROVE  p \in Pages /\ seen' = [seen EXCEPT ![u] = p] /\ PagesStay
  <2>1. p \in Pages
    BY <1>1, <1>3 DEF Answers, Kept
  <2>2. page' = [page EXCEPT ![u[2]] = p]
    BY <1>3 DEF Asked
  <2> QED
    BY <1>1, <1>3, <2>1, <2>2 DEF Asked, PagesStay, Kept
<1>4. ASSUME NEW r, IsResult(u, r), Finish(u, r), seen' = seen, r.data = None,
             u[1] \in Asking => r.skip = TRUE \/ r.err # None
      PROVE  Judging(u)
  <2> DEFINE full == Filled(u, r)
  <2>1. Recorded(u, full)
    BY <1>1, <1>4, FinishRecords
  <2>2. full.data = None /\ (u[1] \in Asking => full.skip = TRUE \/ full.err # None)
    BY <1>4, FilledFields
  <2> HIDE DEF full
  <2> QED
    BY <1>4, <2>1, <2>2 DEF Judging, Judges
<1>5. CASE Discover(u)
  <2>1. PICK l : Finish(u, [Result(u) EXCEPT !.emits = l])
    BY <1>5 DEF Discover
  <2> DEFINE r == [Result(u) EXCEPT !.emits = l]
  <2>2. IsResult(u, r) /\ r.data = None
    BY DEF Result, NewResult, IsResult
  <2>3. Unasked(u) /\ u[1] \notin Asking
    BY <1>5 DEF Discover, Asking
  <2> HIDE DEF r
  <2> QED
    BY <1>2, <1>4, <2>1, <2>2, <2>3 DEF r
<1>6. CASE Unanswered(u)
  <2> DEFINE r == [Result(u) EXCEPT !.err = "unanswered"]
  <2>1. IsResult(u, r) /\ r.data = None /\ r.err = "unanswered"
    BY DEF Result, NewResult, IsResult
  <2>2. Finish(u, r) /\ Unasked(u)
    BY <1>6 DEF Unanswered
  <2> HIDE DEF r
  <2> QED
    BY <1>2, <1>4, <2>1, <2>2, NoneAssumption
<1>7. CASE NoBaseline(u)
  <2> DEFINE r == [Result(u) EXCEPT !.skip = TRUE]
  <2>1. IsResult(u, r) /\ r.data = None /\ r.skip = TRUE
    BY DEF Result, NewResult, IsResult
  <2>2. Finish(u, r) /\ Unasked(u)
    BY <1>7 DEF NoBaseline
  <2> HIDE DEF r
  <2> QED
    BY <1>2, <1>4, <2>1, <2>2
<1>8. CASE ProbeNoBaseline(u)
  <2>1. PICK p \in Answers(u) : Asked(u, p)
    BY <1>8 DEF ProbeNoBaseline
  <2> DEFINE r == [Result(u) EXCEPT !.err = "no baseline"]
  <2>2. IsResult(u, r) /\ r.data = None /\ r.err = "no baseline"
    BY DEF Result, NewResult, IsResult
  <2>3. Finish(u, r)
    BY <1>8 DEF ProbeNoBaseline
  <2> HIDE DEF r
  <2>4. Recorded(u, Filled(u, r)) /\ Filled(u, r).data = None /\ Filled(u, r).err # None
    BY <1>1, <2>2, <2>3, FinishRecords, FilledFields, NoneAssumption
  <2>5. p \in Pages /\ seen' = [seen EXCEPT ![u] = p] /\ PagesStay
    BY <1>3, <2>1
  <2> HIDE DEF PagesStay
  <2> QED
    BY <2>4, <2>5 DEF Judging, Judges
<1>9. CASE Capture(u)
  <2>1. PICK p \in Answers(u) : Finish(u, [Result(u) EXCEPT !.data = Current(u, p)]) /\ Asked(u, p)
    BY <1>9 DEF Capture
  <2> DEFINE r == [Result(u) EXCEPT !.data = Current(u, p)]
  <2>2. IsResult(u, r) /\ r.data = Current(u, p)
    BY DEF Result, NewResult, IsResult
  <2>0. Finish(u, r)
    BY <2>1
  <2> HIDE DEF r
  <2>3. Recorded(u, Filled(u, r)) /\ Filled(u, r).data = Current(u, p)
    BY <1>1, <2>0, <2>2, FinishRecords, FilledFields
  <2>4. p \in Pages /\ seen' = [seen EXCEPT ![u] = p] /\ PagesStay
    BY <1>3, <2>1
  <2>5. u[1] \notin Asking
    BY <1>9 DEF Capture, Asking
  <2> QED
    BY <2>3, <2>4, <2>5 DEF Judging, Judges
<1>10. CASE Compare(u)
  <2>1. PICK b \in Lookup(u), p \in Answers(u) :
          Finish(u, [Result(u) EXCEPT !.obs = Compared(u, b, Current(u, p))]) /\ Asked(u, p)
    BY <1>10 DEF Compare
  <2> DEFINE r == [Result(u) EXCEPT !.obs = Compared(u, b, Current(u, p))]
  <2>2. IsResult(u, r) /\ r.obs = Compared(u, b, Current(u, p)) /\ r.data = None
    BY DEF Result, NewResult, IsResult
  <2>0. Finish(u, r)
    BY <2>1
  <2> HIDE DEF r
  <2>3. /\ Recorded(u, Filled(u, r)) /\ Filled(u, r).data = None
        /\ Filled(u, r).obs = Fill(Compared(u, b, Current(u, p)), u)
    BY <1>1, <2>0, <2>2, FinishRecords, FilledFields
  <2>4. p \in Pages /\ seen' = [seen EXCEPT ![u] = p] /\ PagesStay
    BY <1>3, <2>1
  <2> QED
    BY <2>3, <2>4 DEF Judging, Judges
<1> QED
  BY <1>5, <1>6, <1>7, <1>8, <1>9, <1>10 DEF Invoke

LEMMA SkipJudges ==
  ASSUME IsStore(store), NEW c \in Check, SkipCheck(c)
  PROVE  Judging(<<c, None>>)
<1> DEFINE u == <<c, None>>
           r == Skipped(c, None)
<1>1. u \in Unit
  BY DEF Unit, Place
<1>2. IsResult(u, r) /\ r.skip = TRUE /\ r.data = None
  BY DEF Skipped, NewResult, IsResult
<1>3. Finish(u, r) /\ seen' = seen
  BY DEF SkipCheck, Quiet
<1> HIDE DEF u, r
<1>4. Recorded(u, Filled(u, r)) /\ Filled(u, r).skip = TRUE /\ Filled(u, r).data = None
  BY <1>1, <1>2, <1>3, FinishRecords, FilledFields
<1> QED
  BY <1>3, <1>4 DEF Judging, Judges, u

\* A step judges once, or changes no result and no answer.
LEMMA JudgingSteps ==
  ASSUME IInv, Kept, [Next]_vars
  PROVE  /\ PagesStay
         /\ \/ seen' = seen /\ \A u \in Unit : ResultOf(u)' = ResultOf(u)
            \/ \E u \in Unit : pc[u] \in {"run", "skip"} /\ Judging(u)
<1>1. page' = page => PagesStay
  BY DEF PagesStay, Kept
<1>2. store'.results = store.results /\ store'.perRes = store.perRes => \A u \in Unit : ResultOf(u)' = ResultOf(u)
  BY DEF ResultOf
<1>3. IsStore(store)
  BY DEF IInv, Types
<1>4. ASSUME NEW u \in Unit, Invoke(u) PROVE pc[u] = "run" /\ Judging(u) /\ PagesStay
  BY <1>3, <1>4, Invocation, Judgement
<1>5. ASSUME NEW c \in Check, SkipCheck(c)
      PROVE  PagesStay /\ \E u \in Unit : pc[u] = "skip" /\ Judging(u)
  <2>1. <<c, None>> \in Unit
    BY DEF Unit, Place
  <2>2. page' = page /\ pc[<<c, None>>] = "skip"
    BY <1>5 DEF SkipCheck, Quiet
  <2> QED
    BY <1>1, <1>3, <1>5, <2>1, <2>2, SkipJudges
<1>6. ASSUME NEW c \in Check, FanIn(c)
      PROVE  page' = page /\ seen' = seen /\ store'.results = store.results /\ store'.perRes = store.perRes
  <2>1. store'.results = store.results /\ store'.perRes = store.perRes
    BY <1>3, <1>6 DEF FanIn, SetAggregate, IsStore
  <2> QED
    BY <1>6, <2>1 DEF FanIn, Quiet
<1>7. CASE OpenLevel \/ CloseLevel \/ Finalize \/ UNCHANGED vars
  <2>1. page' = page /\ seen' = seen /\ store' = store
    BY <1>7 DEF OpenLevel, CloseLevel, Finalize, vars
  <2> QED
    BY <1>1, <1>2, <2>1
<1> QED
  BY <1>1, <1>2, <1>4, <1>5, <1>6, <1>7 DEF Next

LEMMA KeptInv ==
  /\ Init => Kept
  /\ IInv /\ Kept /\ [Next]_vars => Kept'
<1>1. Init => Kept
  BY PagesAssumption DEF Init, Kept, ResultOf, EmptyStore, Found
<1>2. ASSUME IInv, Kept, [Next]_vars PROVE Kept'
  <2>1. CASE seen' = seen /\ \A u \in Unit : ResultOf(u)' = ResultOf(u)
    BY <1>2, <2>1, JudgingSteps DEF Kept, PagesStay, Current
  <2>2. CASE \E u \in Unit : pc[u] \in {"run", "skip"} /\ Judging(u)
    <3>1. PICK u \in Unit : pc[u] \in {"run", "skip"} /\ Judging(u)
      BY <2>2
    <3>2. PICK r : Recorded(u, r) /\ Judges(u, r)
      BY <3>1 DEF Judging
    <3>3. ResultOf(u)' = {r} /\ \A v \in Unit \ {u} : ResultOf(v)' = ResultOf(v)
      BY <3>2, RecordedChanges
    <3>4. seen = [v \in Unit |-> seen[v]]
      BY <1>2 DEF IInv, Types
    <3>5. \A v \in Unit \ {u} : seen'[v] = seen[v]
      BY <3>2, <3>4 DEF Judges
    <3>6. seen'[u] \in Pages \cup {None}
      BY <1>2, <3>2, <3>4 DEF Kept, Judges
    <3>7. r.data # None => seen'[u] \in Pages /\ r.data = Current(u, seen'[u])
      BY <3>2, <3>4 DEF Judges
    <3>8. \A v \in Unit : seen'[v] \in Pages \cup {None}
      BY <1>2, <3>5, <3>6 DEF Kept
    <3>9. ASSUME NEW v \in Unit, NEW q \in ResultOf(v)', q.data # None
          PROVE  seen'[v] \in Pages /\ q.data = Current(v, seen'[v])
      <4>1. CASE v = u
        BY <3>3, <3>7, <3>9, <4>1
      <4>2. CASE v # u
        BY <1>2, <3>3, <3>5, <3>9, <4>2 DEF Kept
      <4> QED
        BY <4>1, <4>2
    <3>10. page' \in [Place -> Pages]
      BY <1>2, JudgingSteps DEF PagesStay
    <3> QED
      BY <3>8, <3>9, <3>10 DEF Kept, Current
  <2> QED
    BY <1>2, <2>1, <2>2, JudgingSteps
<1> QED
  BY <1>1, <1>2

\* What the properties ask of a verdict on what was, read up to m, and is now, read up to n.
Sound(u, was, now, m, n, clean) ==
  /\ now.status # was.status => ~clean
  /\ "length" \in compare[u[1]] /\ Len(was.words) <= m /\ Len(now.words) <= n
     /\ LengthDeviates(Manual(was), Manual(now)) => ~clean
  /\ now = was /\ ("similarity" \in compare[u[1]] => m = n \/ (Len(now.words) <= m /\ Len(now.words) <= n))
       => clean

\* A page that is read to its end is captured whole.
LEMMA ReadWhole ==
  ASSUME NEW p \in Pages, NEW m \in Nat, Len(p.words) <= m
  PROVE  Len(CaptureSnapshot(p, m).body) = Len(Manual(p).body) /\ ~CaptureSnapshot(p, m).cut
<1>1. p.words \in Seq(DOMAIN WordBits) /\ Len(p.words) \in Nat
  BY PagesAssumption
<1>2. Len(SubSeq(p.words, 1, Len(p.words))) = Len(p.words)
  BY <1>1
<1>3. (IF Len(p.words) < m THEN Len(p.words) ELSE m) = Len(p.words) /\ ~(Len(p.words) > m)
  BY <1>1
<1>4. /\ CaptureSnapshot(p, m).body = SubSeq(p.words, 1, IF Len(p.words) < m THEN Len(p.words) ELSE m)
      /\ CaptureSnapshot(p, m).cut = (Len(p.words) > m)
  BY DEF CaptureSnapshot
<1>5. CaptureSnapshot(p, m).body = SubSeq(p.words, 1, Len(p.words)) /\ ~CaptureSnapshot(p, m).cut
  BY <1>3, <1>4
<1> QED
  BY <1>2, <1>5 DEF Manual

\* The verdict on one answer: what the comparators make of two captures of one place.
LEMMA VerdictOf ==
  ASSUME NEW u \in Unit, NEW was \in Pages, NEW now \in Pages, NEW m \in Nat, NEW n \in Nat,
         slice = <<Blank>>, NEW obs,
         obs = Fill(Compared(u, CaptureSnapshot(was, m), CaptureSnapshot(now, n)), u)
  PROVE  Sound(u, was, now, m, n, obs = <<>>)
<1> DEFINE a == CaptureSnapshot(was, m)
           b == CaptureSnapshot(now, n)
<1>1. a.status = was.status /\ b.status = now.status
  BY DEF CaptureSnapshot
<1>2. Compared(u, a, b) = IF Deviates(u, a, b) THEN <<Blank>> ELSE <<>>
  BY DEF Compared
<1>3. \E k \in Given(u) : TRUE
  BY DEF Given
<1>4. \A k \in Given(u) : k = "similarity" => "similarity" \in compare[u[1]]
  BY DEF Given
<1>5. now = was /\ ("similarity" \in compare[u[1]] => m = n \/ (Len(now.words) <= m /\ Len(now.words) <= n))
        => ~Deviates(u, a, b)
  BY <1>4, SamePage DEF Deviates
<1>6. Len(was.words) <= m /\ Len(now.words) <= n /\ LengthDeviates(Manual(was), Manual(now))
        => ~a.cut /\ ~b.cut /\ LengthDeviates(a, b)
  BY ReadWhole DEF LengthDeviates
<1> HIDE DEF a, b
<1>7. now.status # was.status => Deviates(u, a, b)
  BY <1>1, <1>3 DEF Deviates, Flags
<1>8. "length" \in compare[u[1]] /\ ~a.cut /\ ~b.cut /\ LengthDeviates(a, b) => Deviates(u, a, b)
  BY DEF Deviates, Flags, Given
<1>9. obs = Fill(Compared(u, a, b), u)
  BY DEF a, b
<1>10. Fill(<<>>, u) = <<>>
  BY DEF Fill
<1>11. Fill(<<Blank>>, u) # <<>>
  <2>1. 1 \in DOMAIN Fill(<<Blank>>, u)
    BY DEF Fill
  <2> QED
    BY <2>1
<1>12. obs = <<>> <=> ~Deviates(u, a, b)
  BY <1>2, <1>9, <1>10, <1>11
<1> QED
  BY <1>5, <1>6, <1>7, <1>8, <1>12 DEF Sound

\* Whoever judges an answer held it against what the same place answered its capture
\* (baseline.go:196, baseline.go:141, baseline_compare.go:21).
THEOREM VerdictsAreFaithful == Spec => []VerdictFaithful
<1>1. Init => VerdictFaithful
  BY DEF Init, EmptyStore, VerdictFaithful, Judged, ResultOf, Found
<1>2. ASSUME IInv, Kept, Attributed, VerdictFaithful, [Next]_vars PROVE VerdictFaithful'
  <2> DEFINE Right(v, q, was, now) ==
               /\ now # None /\ was # None
               /\ Sound(v, was, now, MaxBody[Reference(v)[1]], MaxBody[v[1]], q.obs = <<>>)
  <2>0. \A q : Status(q) \in {"passed", "failed"} => (Status(q) = "passed" <=> q.obs = <<>>)
    BY DEF Status
  <2>1. /\ source' = source /\ compare' = compare
        /\ \A v \in Unit : (Relies(v)' <=> Relies(v)) /\ Reference(v)' = Reference(v)
    BY <1>2, Steps DEF Relies, Reference
  <2>2. \A v \in Unit : Relies(v) => Reference(v) \in Unit /\ Order[Reference(v)[1]] < Order[v[1]]
    BY <1>2, SourcesAssumption DEF IInv, Types, Relies, Reference, Unit, Place
  <2>3. ASSUME NEW v \in Unit, NEW q \in ResultOf(v), Relies(v), Status(q) \in {"passed", "failed"}
        PROVE  Right(v, q, seen[Reference(v)], seen[v])
    BY <1>2, <2>0, <2>3 DEF VerdictFaithful, Judged, SameCut, Whole, Sound
  <2> SUFFICES ASSUME NEW v \in Unit, NEW q \in ResultOf(v)', Relies(v), Status(q) \in {"passed", "failed"}
               PROVE  Right(v, q, seen'[Reference(v)], seen'[v])
    BY <2>0, <2>1 DEF VerdictFaithful, Judged, SameCut, Whole, Sound
  <2>4. CASE seen' = seen /\ \A u \in Unit : ResultOf(u)' = ResultOf(u)
    BY <2>3, <2>4
  <2>5. CASE \E u \in Unit : pc[u] \in {"run", "skip"} /\ Judging(u)
    <3>1. PICK u \in Unit : pc[u] \in {"run", "skip"} /\ Judging(u)
      BY <2>5
    <3>2. PICK r : Recorded(u, r) /\ Judges(u, r)
      BY <3>1 DEF Judging
    <3>3. ResultOf(u)' = {r} /\ \A w \in Unit \ {u} : ResultOf(w)' = ResultOf(w)
      BY <3>2, RecordedChanges
    <3>4. seen = [w \in Unit |-> seen[w]]
      BY <1>2 DEF IInv, Types
    <3>5. \A w \in Unit \ {u} : seen'[w] = seen[w]
      BY <3>2, <3>4 DEF Judges
    <3>6. Order[u[1]] = level /\ pc[u] # "done" /\ phase = "wait"
      BY <1>2, <3>1 DEF IInv, Control
    <3>7. CASE v # u
      <4>1. q \in ResultOf(v) /\ pc[v] = "done"
        BY <1>2, <3>3, <3>7 DEF IInv, Stored
      <4>2. Reference(v) # u
        BY <1>2, <2>2, <3>6, <4>1, PlanAssumption DEF IInv, Control, Types, Unit
      <4>3. seen'[v] = seen[v] /\ seen'[Reference(v)] = seen[Reference(v)]
        BY <2>2, <3>5, <3>7, <4>2
      <4> QED
        BY <2>3, <4>1, <4>3
    <3>8. CASE v = u
      <4>1. q = r /\ u[1] \in Asking
        BY <3>3, <3>8 DEF Relies
      <4>2. r.skip # TRUE /\ r.err = None
        BY <4>1 DEF Status
      <4>3. PICK b \in Lookup(u), p \in Pages :
              r.obs = Fill(Compared(u, b, Current(u, p)), u) /\ seen' = [seen EXCEPT ![u] = p]
        BY <3>2, <4>1, <4>2 DEF Judges
      <4>4. PICK c \in ResultOf(Reference(u)) : c.data = b /\ b # None
        BY <1>2, <3>1, <3>8, FoundIsReference
      <4>5. Reference(u) \in Unit /\ Reference(u) # u
        BY <2>2, <3>8, PlanAssumption DEF Unit
      <4> DEFINE ref == Reference(u)
                 m == MaxBody[ref[1]]
                 n == MaxBody[u[1]]
                 was == seen[ref]
      <4>6. was \in Pages /\ b = CaptureSnapshot(was, m)
        BY <1>2, <4>4, <4>5 DEF Kept, Current
      <4>7. seen'[ref] = was /\ seen'[u] = p
        BY <3>4, <3>5, <4>3, <4>5
      <4>8. m \in Nat /\ n \in Nat
        BY <4>5, PagesAssumption DEF Unit
      <4>9. r.obs = Fill(Compared(u, CaptureSnapshot(was, m), CaptureSnapshot(p, n)), u)
        BY <4>3, <4>6 DEF Current
      <4>10. slice = <<Blank>>
        BY <1>2 DEF Attributed
      <4> HIDE DEF ref, m, n, was
      <4>11. Sound(u, was, p, m, n, r.obs = <<>>)
        BY <4>6, <4>8, <4>9, <4>10, VerdictOf
      <4>12. p # None /\ was # None
        BY <4>6, PagesAssumption
      <4> QED
        BY <3>8, <4>1, <4>7, <4>11, <4>12 DEF ref, m, n, was
    <3> QED
      BY <3>7, <3>8
  <2> QED
    BY <1>2, <2>4, <2>5, JudgingSteps
<1> QED
  BY <1>1, <1>2, KeptInv, Invariance, ObservationsNamed, PTL DEF Spec
-----------------------------------------------------------------------------
(* Merging resources.  MergeAll is a fold, defined by recursion over the   *)
(* subsets of a list's indices; what is shown of it is shown by induction  *)
(* over them, with the set of those that have the property (G) in place of *)
(* a property.                                                             *)

LEMMA SubsetInduction ==
  ASSUME NEW S, IsFiniteSet(S), NEW G \in SUBSET SUBSET S,
         \A A \in SUBSET S : (\A B \in SUBSET A : B # A => B \in G) => A \in G
  PROVE  \A A \in SUBSET S : A \in G
<1> DEFINE bad == (SUBSET S) \ G
<1> SUFFICES ASSUME bad # {} PROVE FALSE
  OBVIOUS
<1>1. IsWellFoundedOn(StrictSubsetOrdering(S), FiniteSubsetsOf(S))
  BY FS_StrictSubsetOrderingWellFounded
<1>2. bad \subseteq FiniteSubsetsOf(S)
  BY FS_FiniteSubsetsOfFinite
<1> HIDE DEF bad
<1>3. PICK A \in bad : \A B \in bad : ~(<<B, A>> \in StrictSubsetOrdering(S))
  BY <1>1, <1>2, WFMin
<1>4. \A B \in SUBSET A : B # A => B \in G
  BY <1>3 DEF StrictSubsetOrdering, bad
<1> QED
  BY <1>3, <1>4 DEF bad

LEMMA UpTo ==
  ASSUME NEW n \in Nat, NEW K, 0 \in K, \A k \in 1..n : k - 1 \in K => k \in K
  PROVE  n \in K
<1> DEFINE S == 1..n
           G == {A \in SUBSET S : \A k \in 0..n : A = 1..k => k \in K}
<1>1. ASSUME NEW A \in SUBSET S, \A B \in SUBSET A : B # A => B \in G PROVE A \in G
  <2> SUFFICES ASSUME NEW k \in 1..n, A = 1..k PROVE k \in K
    OBVIOUS
  <2>1. 1..(k - 1) \in SUBSET A /\ 1..(k - 1) # A /\ k - 1 \in 0..n
    OBVIOUS
  <2>2. k - 1 \in K
    BY <1>1, <2>1
  <2> QED
    BY <2>2
<1>2. IsFiniteSet(S)
  BY FS_Interval
<1>3. G \in SUBSET SUBSET S
  OBVIOUS
<1> HIDE DEF G, S
<1>4. \A A \in SUBSET S : A \in G
  BY <1>1, <1>2, <1>3, SubsetInduction
<1>5. S \in G
  BY <1>4
<1>6. n \in 0..n /\ S = 1..n
  BY DEF S
<1> QED
  BY <1>5, <1>6 DEF G

LEMMA MaxIn ==
  ASSUME NEW n \in Nat
  PROVE  \A A \in SUBSET (1..n) : A # {} => Max(A) \in A /\ \A y \in A : Max(A) >= y
<1> DEFINE S == 1..n
           G == {A \in SUBSET S : A # {} => \E x \in A : \A y \in A : x >= y}
<1>1. ASSUME NEW A \in SUBSET S, \A B \in SUBSET A : B # A => B \in G PROVE A \in G
  <2> SUFFICES ASSUME A # {} PROVE \E x \in A : \A y \in A : x >= y
    OBVIOUS
  <2>1. PICK x \in A : TRUE
    OBVIOUS
  <2>2. A \ {x} \in G
    BY <1>1, <2>1
  <2>3. CASE A \ {x} = {}
    BY <2>1, <2>3
  <2>4. CASE A \ {x} # {}
    <3>1. PICK z \in A \ {x} : \A y \in A \ {x} : z >= y
      BY <2>2, <2>4
    <3>2. x \in Int /\ z \in Int /\ \A y \in A : y \in Int
      BY <2>1
    <3>3. CASE x >= z
      BY <3>1, <3>2, <3>3
    <3>4. CASE ~(x >= z)
      BY <3>1, <3>2, <3>4
    <3> QED
      BY <3>3, <3>4
  <2> QED
    BY <2>3, <2>4
<1>2. IsFiniteSet(S)
  BY FS_Interval
<1>3. G \in SUBSET SUBSET S
  OBVIOUS
<1> HIDE DEF G
<1>4. \A A \in SUBSET S : A \in G
  <2> HIDE DEF S
  <2> QED
    BY <1>1, <1>2, <1>3, SubsetInduction
<1>5. \A A \in SUBSET S : A # {} => \E x \in A : \A y \in A : x >= y
  BY <1>4 DEF G
<1> QED
  BY <1>5 DEF Max

\* One turn of the loops of mergeResources, NewStaticResultStore and aggregateResources.
Step(how, all, x) == IF how[1] = "put" THEN Put(all, x)
                     ELSE IF how[1] = "join" THEN all \o x.obs ELSE MergeOne(how[2], all, x)

\* What one turn of the fold makes of the indices s, and the function that is the fold.
Turn(how, known, found, g, s) ==
  IF s = {} THEN known ELSE Step(how, g[s \ {Max(s)}], found[Max(s)])
IsFold(how, known, found, g, S) == g = [s \in SUBSET S |-> Turn(how, known, found, g, s)]

Indices(A) == IsFiniteSet(A) /\ \A s \in SUBSET A : s # {} => Max(s) \in s

LEMMA IndicesIn == ASSUME NEW n \in Nat PROVE \A A \in SUBSET (1..n) : Indices(A)
<1> TAKE A \in SUBSET (1..n)
<1>1. IsFiniteSet(1..n)
  BY FS_Interval
<1>2. IsFiniteSet(A)
  BY <1>1, FS_Subset
<1>3. \A s \in SUBSET A : s # {} => Max(s) \in s
  BY MaxIn
<1> QED
  BY <1>2, <1>3 DEF Indices

LEMMA FoldUnique ==
  ASSUME NEW how, NEW known, NEW found, NEW A, NEW B, A \subseteq B, Indices(A),
         NEW g, NEW h, IsFold(how, known, found, g, A), IsFold(how, known, found, h, B)
  PROVE  \A s \in SUBSET A : g[s] = h[s]
<1> DEFINE G == {s \in SUBSET A : g[s] = h[s]}
<1>1. ASSUME NEW s \in SUBSET A, \A t \in SUBSET s : t # s => t \in G PROVE s \in G
  <2>1. g[s] = Turn(how, known, found, g, s) /\ h[s] = Turn(how, known, found, h, s)
    BY DEF IsFold
  <2>2. s # {} => Max(s) \in s
    BY DEF Indices
  <2>3. s # {} => g[s \ {Max(s)}] = h[s \ {Max(s)}]
    BY <1>1, <2>2
  <2> QED
    BY <2>1, <2>3 DEF Turn
<1>2. G \in SUBSET SUBSET A
  OBVIOUS
<1>3. IsFiniteSet(A)
  BY DEF Indices
<1> HIDE DEF G
<1>4. \A s \in SUBSET A : s \in G
  BY <1>1, <1>2, <1>3, SubsetInduction
<1> QED
  BY <1>4 DEF G

LEMMA FoldExists ==
  ASSUME NEW how, NEW known, NEW found, NEW n \in Nat
  PROVE  \A A \in SUBSET (1..n) : \E g : IsFold(how, known, found, g, A)
<1> DEFINE S == 1..n
           G == {A \in SUBSET S : \E g : IsFold(how, known, found, g, A)}
<1>0. \A s \in SUBSET S : s # {} => Max(s) \in s
  BY MaxIn
<1>1. ASSUME NEW A \in SUBSET S, \A B \in SUBSET A : B # A => B \in G PROVE A \in G
  <2> DEFINE of(s) == CHOOSE g : IsFold(how, known, found, g, s)
             small == [s \in SUBSET A |-> of(s)[s]]
             all == [s \in SUBSET A |-> IF s = A THEN Turn(how, known, found, small, s) ELSE of(s)[s]]
  <2>1. \A s \in SUBSET A : s # A => IsFold(how, known, found, of(s), s)
    BY <1>1
  <2> HIDE DEF of
  <2>2. \A s \in SUBSET A : \A x \in s : all[s \ {x}] = small[s \ {x}]
    OBVIOUS
  <2>3. ASSUME NEW s \in SUBSET A, s # A PROVE of(s)[s] = Turn(how, known, found, small, s)
    <3>1. of(s)[s] = Turn(how, known, found, of(s), s)
      BY <2>1, <2>3 DEF IsFold
    <3>2. ASSUME s # {} PROVE of(s)[s \ {Max(s)}] = small[s \ {Max(s)}]
      <4> DEFINE t == s \ {Max(s)}
      <4>1. t \in SUBSET A /\ t # A /\ t \subseteq s /\ s \subseteq S
        BY <1>0, <2>3, <3>2
      <4>2. IsFold(how, known, found, of(t), t) /\ IsFold(how, known, found, of(s), s)
        BY <2>1, <2>3, <4>1
      <4>3. of(t)[t] = of(s)[t]
        <5> DEFINE g == of(t)  h == of(s)
        <5>1. t \subseteq s /\ t \in SUBSET t /\ Indices(t)
          BY <4>1, IndicesIn
        <5>2. IsFold(how, known, found, g, t) /\ IsFold(how, known, found, h, s)
          BY <4>2
        <5> HIDE DEF g, h, t, all, small, G, S
        <5>3. \A r \in SUBSET t : g[r] = h[r]
          BY <5>1, <5>2, FoldUnique
        <5> QED
          BY <5>1, <5>3 DEF g, h
      <4> QED
        BY <4>1, <4>3
    <3> QED
      BY <3>1, <3>2 DEF Turn
  <2>4. \A s \in SUBSET A : Turn(how, known, found, small, s) = Turn(how, known, found, all, s)
    BY <1>0, <2>2 DEF Turn
  <2>5. IsFold(how, known, found, all, A)
    <3>1. \A s \in SUBSET A : all[s] = Turn(how, known, found, all, s)
      BY <2>3, <2>4
    <3> QED
      BY <3>1 DEF IsFold
  <2> QED
    BY <2>5
<1>2. G \in SUBSET SUBSET S /\ IsFiniteSet(S)
  BY FS_Interval
<1> HIDE DEF G, S
<1>3. \A A \in SUBSET S : A \in G
  BY <1>1, <1>2, SubsetInduction
<1> QED
  BY <1>3 DEF G, S
\* The fold of the first k.
Folded(how, known, found, k) == (CHOOSE g : IsFold(how, known, found, g, 1..k))[1..k]

LEMMA FoldedSteps ==
  ASSUME NEW how, NEW known, NEW found
  PROVE  /\ Folded(how, known, found, 0) = known
         /\ \A k \in Nat : k # 0 =>
              Folded(how, known, found, k) = Step(how, Folded(how, known, found, k - 1), found[k])
<1> DEFINE of(s) == CHOOSE g : IsFold(how, known, found, g, s)
<1>1. ASSUME NEW k \in Nat PROVE IsFold(how, known, found, of(1..k), 1..k)
  BY FoldExists
<1>2. \A k \in Nat : Folded(how, known, found, k) = of(1..k)[1..k]
  BY DEF Folded
<1> HIDE DEF of
<1>3. ASSUME NEW k \in Nat PROVE of(1..k)[1..k] = Turn(how, known, found, of(1..k), 1..k)
  BY <1>1 DEF IsFold
<1>4. 1..0 = {}
  OBVIOUS
<1>5. Folded(how, known, found, 0) = known
  BY <1>2, <1>3, <1>4 DEF Turn
<1>6. ASSUME NEW k \in Nat, k # 0
      PROVE  Folded(how, known, found, k) = Step(how, Folded(how, known, found, k - 1), found[k])
  <2> DEFINE s == 1..k  t == 1..(k - 1)
  <2>1. k \in s /\ \A y \in s : k >= y
    BY <1>6
  <2>2. Max(s) = k
    <3>1. Max(s) \in s /\ \A y \in s : Max(s) >= y
      BY <2>1, MaxIn
    <3> QED
      BY <2>1, <3>1
  <2>3. s \ {Max(s)} = t
    BY <1>6, <2>2
  <2>4. of(s)[s] = Step(how, of(s)[t], found[k])
    BY <1>3, <2>1, <2>2, <2>3 DEF Turn
  <2>5. of(t)[t] = of(s)[t]
    <3> DEFINE g == of(t)  h == of(s)
    <3>1. IsFold(how, known, found, g, t) /\ IsFold(how, known, found, h, s)
      BY <1>1, <1>6
    <3>2. t \subseteq s /\ t \in SUBSET t /\ Indices(t)
      <4>1. k - 1 \in Nat
        BY <1>6
      <4>2. Indices(t)
        BY <4>1, IndicesIn
      <4> QED
        BY <1>6, <4>2
    <3> HIDE DEF g, h, s, t
    <3>3. \A r \in SUBSET t : g[r] = h[r]
      BY <3>1, <3>2, FoldUnique
    <3> QED
      BY <3>2, <3>3 DEF g, h
  <2>6. Folded(how, known, found, k) = of(s)[s] /\ Folded(how, known, found, k - 1) = of(t)[t]
    BY <1>2, <1>6
  <2> QED
    BY <2>4, <2>5, <2>6
<1> QED
  BY <1>5, <1>6

LEMMA FoldedTurn ==
  \A how, known, found : \A k \in Nat : k # 0 =>
    Folded(how, known, found, k) = Step(how, Folded(how, known, found, k - 1), found[k])
BY FoldedSteps

LEMMA FoldIs ==
  ASSUME NEW how, NEW known, NEW V, NEW found \in Seq(V), NEW g, IsFold(how, known, found, g, DOMAIN found)
  PROVE  g[DOMAIN found] = Folded(how, known, found, Len(found))
<1> DEFINE S == DOMAIN found
           h == CHOOSE f : IsFold(how, known, found, f, S)
<1>1. S = 1..Len(found) /\ Len(found) \in Nat
  OBVIOUS
<1>2. Folded(how, known, found, Len(found)) = h[S]
  BY <1>1 DEF Folded
<1>3. IsFold(how, known, found, h, S)
  OBVIOUS
<1>4. Indices(S)
  BY <1>1, IndicesIn
<1> HIDE DEF h, S
<1>5. \A s \in SUBSET S : g[s] = h[s]
  BY <1>3, <1>4, FoldUnique DEF S
<1> QED
  BY <1>2, <1>5 DEF S

LEMMA FoldHolds ==
  ASSUME NEW how, NEW known, NEW V, NEW found \in Seq(V)
  PROVE  \E g : IsFold(how, known, found, g, DOMAIN found)
<1>1. DOMAIN found \in SUBSET (1..Len(found)) /\ Len(found) \in Nat
  OBVIOUS
<1> QED
  BY <1>1, FoldExists

LEMMA MergeAllIsFolded ==
  ASSUME NEW pol, NEW known, NEW V, NEW found \in Seq(V)
  PROVE  MergeAll(pol, known, found) = Folded(<<"merge", pol>>, known, found, Len(found))
<1> DEFINE S == DOMAIN found
           Raw(g) == g = [s \in SUBSET S |->
                            IF s = {} THEN known ELSE MergeOne(pol, g[s \ {Max(s)}], found[Max(s)])]
           h == CHOOSE g : Raw(g)
<1>1. MergeAll(pol, known, found) = h[S]
  BY DEF MergeAll, FoldLeft, MapThenFoldSet
<1>2. \A g : Raw(g) <=> IsFold(<<"merge", pol>>, known, found, g, S)
  <2>1. \A all, x : Step(<<"merge", pol>>, all, x) = MergeOne(pol, all, x)
    BY DEF Step
  <2> QED
    BY <2>1 DEF IsFold, Turn
<1> HIDE DEF Raw
<1>3. Raw(h)
  BY <1>2, FoldHolds
<1> HIDE DEF h
<1>4. IsFold(<<"merge", pol>>, known, found, h, S)
  BY <1>2, <1>3
<1> QED
  BY <1>1, <1>4, FoldIs

-----------------------------------------------------------------------------
(* What a list of resources keeps of the discoveries behind it.            *)

IsFirst(vs, x, i) == i \in DOMAIN vs /\ vs[i].id = x /\ \A j \in DOMAIN vs : vs[j].id = x => i <= j
IsLast(vs, x, i)  == i \in DOMAIN vs /\ vs[i].id = x /\ \A j \in DOMAIN vs : vs[j].id = x => j <= i

\* Every discovery is listed, in the order of the first ones, with the version of the merge function.
Keeps(pol, known, vs) ==
  /\ \A k \in DOMAIN vs : \E i \in DOMAIN known : known[i].id = vs[k].id
  /\ \A i \in DOMAIN known : \E k : IsFirst(vs, known[i].id, k)
  /\ \A i, j \in DOMAIN known : i < j =>
       \A k, l : IsFirst(vs, known[i].id, k) /\ IsFirst(vs, known[j].id, l) => k < l
  /\ \A i \in DOMAIN known : \E k \in DOMAIN vs : known[i] = vs[k] /\
       IF pol = "first" THEN IsFirst(vs, known[i].id, k) ELSE IsLast(vs, known[i].id, k)

LEMMA MergeOneKeeps ==
  ASSUME NEW pol, NEW V, NEW known \in Seq(V), NEW vs \in Seq(V), NEW res \in V, Keeps(pol, known, vs)
  PROVE  MergeOne(pol, known, res) \in Seq(V) /\ Keeps(pol, MergeOne(pol, known, res), Append(vs, res))
<1> DEFINE ws == Append(vs, res)
           m == MergeOne(pol, known, res)
           n == Len(vs)
<1>1. /\ n \in Nat /\ DOMAIN vs = 1..n /\ DOMAIN ws = 1..(n + 1) /\ ws[n + 1] = res
      /\ \A k \in 1..n : ws[k] = vs[k]
  OBVIOUS
<1> HIDE DEF ws, n
<1>2. \A x, i : IsFirst(vs, x, i) => IsFirst(ws, x, i)
  BY <1>1 DEF IsFirst
<1>3. \A x, i, k : IsFirst(ws, x, i) /\ k \in DOMAIN vs /\ vs[k].id = x => IsFirst(vs, x, i)
  BY <1>1 DEF IsFirst
<1>4. IsLast(ws, res.id, n + 1)
  BY <1>1 DEF IsLast
<1>5. \A x, i : IsLast(vs, x, i) /\ x # res.id => IsLast(ws, x, i)
  BY <1>1 DEF IsLast
<1>6. CASE \E i \in DOMAIN known : known[i].id = res.id
  <2>1. /\ DOMAIN m = DOMAIN known
        /\ \A i \in DOMAIN known :
             m[i] = IF known[i].id = res.id THEN (IF pol = "first" THEN known[i] ELSE res) ELSE known[i]
    BY <1>6 DEF MergeOne, Merge
  <2>2. m \in Seq(V)
    <3>1. m = [i \in DOMAIN known |->
                 IF known[i].id = res.id THEN Merge(pol, known[i], res) ELSE known[i]]
      BY <1>6 DEF MergeOne
    <3>2. DOMAIN known = 1..Len(known) /\ Len(known) \in Nat /\ \A i \in DOMAIN known : known[i] \in V
      OBVIOUS
    <3>3. \A i \in 1..Len(known) : m[i] \in V
      BY <2>1, <3>2
    <3> HIDE DEF m
    <3>4. m = [i \in 1..Len(known) |-> m[i]]
      BY <3>1, <3>2
    <3> QED
      BY <3>2, <3>3, <3>4
  <2> HIDE DEF m
  <2>3. \A i \in DOMAIN known : m[i].id = known[i].id
    BY <2>1
  <2>4. ASSUME NEW k \in DOMAIN ws PROVE \E i \in DOMAIN m : m[i].id = ws[k].id
    <3>1. CASE k = n + 1
      BY <1>1, <1>6, <2>1, <2>3, <3>1
    <3>2. CASE k # n + 1
      <4>1. k \in DOMAIN vs /\ ws[k] = vs[k]
        BY <1>1, <3>2
      <4> QED
        BY <2>1, <2>3, <4>1 DEF Keeps
    <3> QED
      BY <3>1, <3>2
  <2>5. \A i \in DOMAIN m : \E k : IsFirst(ws, m[i].id, k)
    BY <1>2, <2>1, <2>3 DEF Keeps
  <2>6. \A i \in DOMAIN known : \A k : IsFirst(ws, known[i].id, k) => IsFirst(vs, known[i].id, k)
    BY <1>3 DEF Keeps, IsFirst
  <2>7. ASSUME NEW i \in DOMAIN m, NEW j \in DOMAIN m, i < j,
               NEW k, NEW l, IsFirst(ws, m[i].id, k), IsFirst(ws, m[j].id, l)
        PROVE  k < l
    <3>1. i \in DOMAIN known /\ j \in DOMAIN known
      BY <2>1
    <3>2. IsFirst(vs, known[i].id, k) /\ IsFirst(vs, known[j].id, l)
      BY <2>3, <2>6, <2>7, <3>1
    <3> QED
      BY <2>7, <3>1, <3>2 DEF Keeps
  <2>8. ASSUME NEW i \in DOMAIN m
        PROVE  \E k \in DOMAIN ws : m[i] = ws[k] /\
                 IF pol = "first" THEN IsFirst(ws, m[i].id, k) ELSE IsLast(ws, m[i].id, k)
    <3>1. PICK k \in DOMAIN vs : known[i] = vs[k] /\
            IF pol = "first" THEN IsFirst(vs, known[i].id, k) ELSE IsLast(vs, known[i].id, k)
      BY <2>1, <2>8 DEF Keeps
    <3>2. k \in DOMAIN ws /\ ws[k] = vs[k] /\ n + 1 \in DOMAIN ws
      BY <1>1
    <3>3. CASE pol = "first"
      BY <1>2, <2>1, <2>8, <3>1, <3>2, <3>3
    <3>4. CASE pol # "first" /\ known[i].id = res.id
      BY <1>1, <1>4, <2>1, <2>8, <3>2, <3>4
    <3>5. CASE pol # "first" /\ known[i].id # res.id
      BY <1>5, <2>1, <2>8, <3>1, <3>2, <3>5
    <3> QED
      BY <3>3, <3>4, <3>5
  <2> QED
    BY <2>2, <2>4, <2>5, <2>7, <2>8 DEF Keeps, m, ws
<1>7. CASE ~\E i \in DOMAIN known : known[i].id = res.id
  <2> DEFINE o == Len(known)
  <2>1. m = Append(known, res)
    BY <1>7 DEF MergeOne
  <2>2. /\ m \in Seq(V) /\ o \in Nat /\ DOMAIN known = 1..o /\ DOMAIN m = 1..(o + 1) /\ m[o + 1] = res
        /\ \A i \in 1..o : m[i] = known[i]
    BY <2>1
  <2> HIDE DEF m, o
  <2>3. \A k \in DOMAIN vs : vs[k].id # res.id
    BY <1>7 DEF Keeps
  <2>4. IsFirst(ws, res.id, n + 1)
    BY <1>1, <2>3 DEF IsFirst
  <2>5. \A k : IsFirst(ws, res.id, k) => k = n + 1
    BY <1>1, <2>3 DEF IsFirst
  <2>0. DOMAIN known \subseteq DOMAIN m /\ o + 1 \in DOMAIN m /\ \A i \in DOMAIN known : m[i] = known[i]
    BY <2>2
  <2>6. ASSUME NEW k \in DOMAIN ws PROVE \E i \in DOMAIN m : m[i].id = ws[k].id
    <3>1. CASE k = n + 1
      BY <1>1, <2>0, <2>2, <3>1
    <3>2. CASE k # n + 1
      <4>1. k \in DOMAIN vs /\ ws[k] = vs[k]
        BY <1>1, <3>2
      <4> QED
        BY <2>0, <4>1 DEF Keeps
    <3> QED
      BY <3>1, <3>2
  <2>7. ASSUME NEW i \in DOMAIN m PROVE \E k : IsFirst(ws, m[i].id, k)
    <3>1. CASE i = o + 1
      BY <2>2, <2>4, <3>1
    <3>2. CASE i # o + 1
      <4>1. i \in DOMAIN known /\ m[i] = known[i]
        BY <2>2, <3>2
      <4> QED
        BY <1>2, <4>1 DEF Keeps
    <3> QED
      BY <3>1, <3>2
  <2>8. \A i \in DOMAIN known : \A k : IsFirst(ws, known[i].id, k) => IsFirst(vs, known[i].id, k)
    BY <1>3 DEF Keeps, IsFirst
  <2>9. ASSUME NEW i \in DOMAIN m, NEW j \in DOMAIN m, i < j, NEW k, NEW l,
               IsFirst(ws, m[i].id, k), IsFirst(ws, m[j].id, l)
        PROVE  k < l
    <3>1. i \in DOMAIN known /\ IsFirst(vs, known[i].id, k)
      <4>1. i \in 1..o /\ m[i] = known[i]
        BY <2>2, <2>9
      <4> QED
        BY <2>2, <2>8, <2>9, <4>1
    <3>2. CASE j = o + 1
      <4>1. l = n + 1 /\ k \in 1..n
        BY <1>1, <2>2, <2>5, <2>9, <3>1, <3>2 DEF IsFirst
      <4> QED
        BY <1>1, <4>1
    <3>3. CASE j # o + 1
      <4>0. j \in DOMAIN known /\ m[j] = known[j]
        BY <2>2, <3>3
      <4>1. j \in DOMAIN known /\ IsFirst(vs, known[j].id, l)
        BY <2>8, <2>9, <4>0
      <4> QED
        BY <2>9, <3>1, <4>1 DEF Keeps
    <3> QED
      BY <3>2, <3>3
  <2>10. ASSUME NEW i \in DOMAIN m
         PROVE  \E k \in DOMAIN ws : m[i] = ws[k] /\
                  IF pol = "first" THEN IsFirst(ws, m[i].id, k) ELSE IsLast(ws, m[i].id, k)
    <3>1. CASE i = o + 1
      BY <1>1, <1>4, <2>2, <2>4, <3>1
    <3>2. CASE i # o + 1
      <4>1. i \in DOMAIN known /\ m[i] = known[i] /\ known[i].id # res.id
        BY <1>7, <2>2, <2>10, <3>2
      <4>2. PICK k \in DOMAIN vs : known[i] = vs[k] /\
              IF pol = "first" THEN IsFirst(vs, known[i].id, k) ELSE IsLast(vs, known[i].id, k)
        BY <4>1 DEF Keeps
      <4>3. k \in DOMAIN ws /\ ws[k] = vs[k]
        BY <1>1
      <4> QED
        BY <1>2, <1>5, <4>1, <4>2, <4>3
    <3> QED
      BY <3>1, <3>2
  <2> QED
    BY <2>2, <2>6, <2>7, <2>9, <2>10 DEF Keeps, m, ws
<1> QED
  BY <1>6, <1>7

\* The whole loop of mergeResources keeps what one turn of it keeps.
LEMMA MergeAllKeeps ==
  ASSUME NEW pol, NEW V, NEW known \in Seq(V), NEW vs \in Seq(V), NEW found \in Seq(V), Keeps(pol, known, vs)
  PROVE  MergeAll(pol, known, found) \in Seq(V) /\ Keeps(pol, MergeAll(pol, known, found), vs \o found)
<1>0. \A k \in Nat : k # 0 =>
        Folded(<<"merge", pol>>, known, found, k) = MergeOne(pol, Folded(<<"merge", pol>>, known, found, k - 1), found[k])
  <2>1. \A k \in Nat : k # 0 =>
          Folded(<<"merge", pol>>, known, found, k)
            = Step(<<"merge", pol>>, Folded(<<"merge", pol>>, known, found, k - 1), found[k])
    BY FoldedTurn, Zenon
  <2>2. \A all, x : Step(<<"merge", pol>>, all, x) = MergeOne(pol, all, x)
    BY DEF Step
  <2> QED
    BY <2>1, <2>2
<1> DEFINE n == Len(found)
           at(k) == Folded(<<"merge", pol>>, known, found, k)
           upto(k) == vs \o SubSeq(found, 1, k)
           K == {k \in 0..n : at(k) \in Seq(V) /\ Keeps(pol, at(k), upto(k))}
<1>1. n \in Nat
  OBVIOUS
<1>2. at(0) = known /\ upto(0) = vs
  BY FoldedSteps
<1>3. ASSUME NEW k \in 1..n, k - 1 \in K PROVE k \in K
  <2>0. k \in Nat /\ k # 0
    BY <1>1
  <2>1. at(k) = MergeOne(pol, at(k - 1), found[k])
    BY <2>0, <1>0
  <2>2. upto(k) = Append(upto(k - 1), found[k])
    OBVIOUS
  <2>3. upto(k - 1) \in Seq(V) /\ found[k] \in V
    OBVIOUS
  <2>4. at(k - 1) \in Seq(V) /\ Keeps(pol, at(k - 1), upto(k - 1))
    BY <1>3
  <2> HIDE DEF at, upto
  <2>5. at(k) \in Seq(V) /\ Keeps(pol, at(k), upto(k))
    BY <2>1, <2>2, <2>3, <2>4, MergeOneKeeps
  <2> QED
    BY <2>5
<1>4. 0 \in K
  <2>0. 0 \in 0..n
    BY <1>1
  <2>1. at(0) \in Seq(V) /\ Keeps(pol, at(0), upto(0))
    <3> HIDE DEF at, upto
    <3> QED
      BY <1>2
  <2> HIDE DEF at, upto, n
  <2> QED
    BY <2>0, <2>1
<1>5. upto(n) = vs \o found
  OBVIOUS
<1> HIDE DEF K, n, at, upto
<1>6. n \in K
  BY <1>1, <1>3, <1>4, UpTo
<1>7. at(n) = MergeAll(pol, known, found)
  BY MergeAllIsFolded DEF at, n
<1> QED
  BY <1>5, <1>6, <1>7 DEF K
-----------------------------------------------------------------------------
(* The resources of the store.                                             *)

Version == UNION {Range(l) : l \in UNION {Listings[c] : c \in {d \in Check : Kind[d] = "discover"}}}

Lists == /\ store.resources \in Seq(Version) /\ versions \in Seq(Version)
         /\ Keeps(policy, store.resources, versions)

LEMMA ListedVersions ==
  ASSUME NEW c \in Check, Kind[c] = "discover", NEW l \in Listings[c]
  PROVE  l \in Seq(Version)
<1>1. l \in Seq(Range(l))
  BY ListingsAssumption
<1>2. Range(l) \subseteq Version
  BY DEF Version
<1>3. \A R : R \subseteq Version => \A s \in Seq(R) : s \in Seq(Version)
  <2> TAKE R
  <2> SUFFICES ASSUME R \subseteq Version, NEW s \in Seq(R) PROVE s \in Seq(Version)
    OBVIOUS
  <2>1. Len(s) \in Nat /\ s = [i \in 1..Len(s) |-> s[i]] /\ \A i \in 1..Len(s) : s[i] \in R
    OBVIOUS
  <2>2. \A i \in 1..Len(s) : s[i] \in Version
    BY <2>1
  <2> QED
    BY <2>1, <2>2
<1> QED
  BY <1>1, <1>2, <1>3

\* The resources an invocation returns are from a list, or there are none.
LEMMA Emits ==
  ASSUME NEW u \in Unit, Invoke(u) \/ (u[2] = None /\ SkipCheck(u[1]))
  PROVE  \E r : IsResult(u, r) /\ Finish(u, r) /\ r.emits \in Seq(Version)
<1>1. u[1] \in Check /\ <<>> \in Seq(Version)
  BY DEF Unit
<1>2. CASE Discover(u)
  <2>1. PICK l \in Listings[u[1]] : Finish(u, [Result(u) EXCEPT !.emits = l])
    BY <1>2 DEF Discover
  <2>2. l \in Seq(Version)
    BY <1>1, <1>2, ListedVersions DEF Discover
  <2> DEFINE r == [Result(u) EXCEPT !.emits = l]
  <2>3. IsResult(u, r) /\ r.emits = l
    BY DEF Result, NewResult, IsResult
  <2>4. Finish(u, r)
    BY <2>1
  <2> HIDE DEF r
  <2> QED
    BY <2>2, <2>3, <2>4
<1>3. CASE Unanswered(u)
  <2> DEFINE r == [Result(u) EXCEPT !.err = "unanswered"]
  <2>1. IsResult(u, r) /\ r.emits = <<>>
    BY DEF Result, NewResult, IsResult
  <2>2. Finish(u, r)
    BY <1>3 DEF Unanswered
  <2> HIDE DEF r
  <2> QED
    BY <1>1, <2>1, <2>2
<1>4. CASE Capture(u)
  <2>1. PICK p : Finish(u, [Result(u) EXCEPT !.data = Current(u, p)])
    BY <1>4 DEF Capture
  <2> DEFINE r == [Result(u) EXCEPT !.data = Current(u, p)]
  <2>2. IsResult(u, r) /\ r.emits = <<>>
    BY DEF Result, NewResult, IsResult
  <2>3. Finish(u, r)
    BY <2>1
  <2> HIDE DEF r
  <2> QED
    BY <1>1, <2>2, <2>3
<1>5. CASE NoBaseline(u)
  <2> DEFINE r == [Result(u) EXCEPT !.skip = TRUE]
  <2>1. IsResult(u, r) /\ r.emits = <<>>
    BY DEF Result, NewResult, IsResult
  <2>2. Finish(u, r)
    BY <1>5 DEF NoBaseline
  <2> HIDE DEF r
  <2> QED
    BY <1>1, <2>1, <2>2
<1>6. CASE ProbeNoBaseline(u)
  <2> DEFINE r == [Result(u) EXCEPT !.err = "no baseline"]
  <2>1. IsResult(u, r) /\ r.emits = <<>>
    BY DEF Result, NewResult, IsResult
  <2>2. Finish(u, r)
    BY <1>6 DEF ProbeNoBaseline
  <2> HIDE DEF r
  <2> QED
    BY <1>1, <2>1, <2>2
<1>7. CASE Compare(u)
  <2>1. PICK obs : Finish(u, [Result(u) EXCEPT !.obs = obs])
    BY <1>7 DEF Compare
  <2> DEFINE r == [Result(u) EXCEPT !.obs = obs]
  <2>2. IsResult(u, r) /\ r.emits = <<>>
    BY DEF Result, NewResult, IsResult
  <2>3. Finish(u, r)
    BY <2>1
  <2> HIDE DEF r
  <2> QED
    BY <1>1, <2>2, <2>3
<1>8. CASE u[2] = None /\ SkipCheck(u[1])
  <2> DEFINE r == Skipped(u[1], None)
  <2>1. IsResult(u, r) /\ r.emits = <<>>
    BY <1>8 DEF Skipped, NewResult, IsResult
  <2>2. u = <<u[1], None>>
    BY <1>8 DEF Unit
  <2>3. Finish(u, r)
    BY <1>8, <2>2 DEF SkipCheck
  <2> HIDE DEF r
  <2> QED
    BY <1>1, <2>1, <2>3
<1> QED
  BY <1>2, <1>3, <1>4, <1>5, <1>6, <1>7, <1>8 DEF Invoke

LEMMA ListsInv ==
  /\ Init => Lists
  /\ IInv /\ Lists /\ [Next]_vars => Lists'
<1>1. Init => Lists
  <2> SUFFICES ASSUME Init PROVE Lists
    OBVIOUS
  <2>1. store.resources = <<>> /\ versions = <<>>
    BY DEF Init, EmptyStore
  <2>2. <<>> \in Seq(Version) /\ DOMAIN <<>> = {}
    OBVIOUS
  <2> QED
    BY <2>1, <2>2 DEF Lists, Keeps
<1>2. ASSUME IInv, Lists, [Next]_vars PROVE Lists'
  <2>1. IsStore(store)
    BY <1>2 DEF IInv, Types
  <2>2. ASSUME store'.resources = store.resources, versions' = versions, policy' = policy PROVE Lists'
    BY <1>2, <2>2 DEF Lists
  <2>3. ASSUME NEW u \in Unit, Invoke(u) \/ (u[2] = None /\ SkipCheck(u[1])) PROVE Lists'
    <3>1. PICK r : IsResult(u, r) /\ Finish(u, r) /\ r.emits \in Seq(Version)
      BY <2>3, Emits
    <3>2. policy' = policy
      <4>1. CASE Invoke(u)
        BY <4>1 DEF Invoke, Discover, Unanswered, Capture, NoBaseline, ProbeNoBaseline, Compare, Unasked, Asked, config
      <4>2. CASE SkipCheck(u[1])
        BY <4>2 DEF SkipCheck, Quiet, config
      <4> QED
        BY <2>3, <4>1, <4>2
    <3> DEFINE p == Put(store, Filled(u, r))
    <3>3. store' = MergeResources(policy, p, r.emits) /\ versions' = versions \o r.emits
      BY <3>1 DEF Finish, Filled
    <3>4. IsStore(p) /\ p.resources = store.resources
      BY <2>1 DEF Put, IsStore
    <3> HIDE DEF p
    <3>5. store' = [p EXCEPT !.resources = MergeAll(policy, @, r.emits)]
      BY <3>3 DEF MergeResources
    <3>6. store'.resources = MergeAll(policy, store.resources, r.emits)
      BY <3>4, <3>5 DEF IsStore
    <3>7. /\ MergeAll(policy, store.resources, r.emits) \in Seq(Version)
          /\ Keeps(policy, MergeAll(policy, store.resources, r.emits), versions \o r.emits)
      BY <1>2, <3>1, MergeAllKeeps DEF Lists
    <3>8. versions \o r.emits \in Seq(Version)
      BY <1>2, <3>1 DEF Lists
    <3> QED
      BY <3>2, <3>3, <3>6, <3>7, <3>8 DEF Lists
  <2>4. ASSUME NEW c \in Check, SkipCheck(c) PROVE Lists'
    <3>1. <<c, None>> \in Unit
      BY DEF Unit, Place
    <3> QED
      BY <2>3, <2>4, <3>1
  <2>5. ASSUME NEW c \in Check, FanIn(c) PROVE Lists'
    BY <2>1, <2>2, <2>5 DEF FanIn, SetAggregate, IsStore, Unrecorded, Quiet, config
  <2>6. CASE OpenLevel
    BY <2>2, <2>6 DEF OpenLevel, Unrecorded, config
  <2>7. CASE CloseLevel
    BY <2>2, <2>7 DEF CloseLevel, Unrecorded, config
  <2>8. CASE Finalize
    BY <2>2, <2>8 DEF Finalize, config
  <2>9. CASE UNCHANGED vars
    BY <2>2, <2>9 DEF vars, config
  <2> QED
    BY <1>2, <2>3, <2>4, <2>5, <2>6, <2>7, <2>8, <2>9 DEF Next
<1> QED
  BY <1>1, <1>2

LEMMA FirstIs ==
  ASSUME versions \in Seq(Version), NEW x, NEW k
  PROVE  /\ IsFirst(versions, x, k) => FirstOf(x) = k
         /\ IsLast(versions, x, k) => LastOf(x) = k
<1> DEFINE I == {i \in 1..Len(versions) : versions[i].id = x}
<1>1. FirstOf(x) = IF I # {} THEN Min(I) ELSE 0
  BY DEF FirstOf, SelectInSeq
<1>2. LastOf(x) = IF I # {} THEN Max(I) ELSE 0
  BY DEF LastOf, SelectLastInSeq
<1>3. DOMAIN versions = 1..Len(versions) /\ \A i \in I : i \in Int
  OBVIOUS
<1>4. ASSUME IsFirst(versions, x, k) PROVE FirstOf(x) = k
  <2>1. k \in I /\ \A j \in I : k <= j
    BY <1>3, <1>4 DEF IsFirst
  <2> HIDE DEF I
  <2>2. Min(I) \in I /\ \A j \in I : Min(I) <= j
    BY <2>1 DEF Min
  <2> QED
    BY <1>1, <1>3, <2>1, <2>2
<1>5. ASSUME IsLast(versions, x, k) PROVE LastOf(x) = k
  <2>1. k \in I /\ \A j \in I : j <= k
    BY <1>3, <1>5 DEF IsLast
  <2> HIDE DEF I
  <2>2. Max(I) \in I /\ \A j \in I : Max(I) >= j
    BY <1>3, <2>1 DEF Max
  <2> QED
    BY <1>2, <1>3, <2>1, <2>2
<1> QED
  BY <1>4, <1>5

\* A resource is listed once, at the place of its first discovery, with the version that the
\* merge function is for, whoever discovers it how often (engine.go:74, options.go:83).
THEOREM MergesKeep == Spec => []MergeKeeps
<1>1. Lists => MergeKeeps
  <2> SUFFICES ASSUME Lists PROVE MergeKeeps
    OBVIOUS
  <2> DEFINE known == store.resources
             n == Len(known)
  <2>1. /\ known \in Seq(Version) /\ versions \in Seq(Version)
        /\ n \in Nat /\ DOMAIN known = 1..n
    BY DEF Lists
  <2> HIDE DEF n
  <2>2. \A k \in DOMAIN versions : \E i \in DOMAIN known : known[i].id = versions[k].id
    BY DEF Lists, Keeps
  <2>3. ASSUME NEW i \in DOMAIN known PROVE IsFirst(versions, known[i].id, FirstOf(known[i].id))
    BY <2>1, <2>3, FirstIs DEF Lists, Keeps
  <2>4. ASSUME NEW i \in DOMAIN known, NEW j \in DOMAIN known, i < j
        PROVE  FirstOf(known[i].id) < FirstOf(known[j].id)
    BY <2>3, <2>4 DEF Lists, Keeps
  <2>5. ASSUME NEW i \in DOMAIN known
        PROVE  known[i] = versions[IF policy = "first" THEN FirstOf(known[i].id) ELSE LastOf(known[i].id)]
    <3>1. PICK k \in DOMAIN versions : known[i] = versions[k] /\
            IF policy = "first" THEN IsFirst(versions, known[i].id, k) ELSE IsLast(versions, known[i].id, k)
      BY <2>5 DEF Lists, Keeps
    <3> QED
      BY <2>1, <3>1, FirstIs
  <2>6. Listed(store) = Discovered
    <3>1. \A i \in DOMAIN known : \E k \in DOMAIN versions : known[i].id = versions[k].id
      BY <2>3 DEF IsFirst
    <3> QED
      BY <2>2, <3>1 DEF Listed, Discovered
  <2>7. n = Cardinality(Discovered)
    <3> DEFINE M == [i \in 1..n |-> known[i].id]
    <3>1. Discovered = {known[i].id : i \in 1..n}
      BY <2>1, <2>6 DEF Listed
    <3>2. M \in [1..n -> Discovered] /\ \A d \in Discovered : \E i \in 1..n : M[i] = d
      BY <3>1
    <3>3. ASSUME NEW i \in 1..n, NEW j \in 1..n, i < j PROVE M[i] # M[j]
      <4>1. FirstOf(known[i].id) < FirstOf(known[j].id)
        BY <2>1, <2>4, <3>3
      <4>2. FirstOf(known[i].id) \in Nat
        BY <2>1, <2>3 DEF IsFirst
      <4> QED
        BY <4>1, <4>2
    <3>4. \A i, j \in 1..n : i # j => M[i] # M[j]
      <4> SUFFICES ASSUME NEW i \in 1..n, NEW j \in 1..n, i # j PROVE M[i] # M[j]
        OBVIOUS
      <4>1. i < j \/ j < i
        OBVIOUS
      <4> QED
        BY <3>3, <4>1
    <3> HIDE DEF M
    <3>5. M \in Bijection(1..n, Discovered)
      BY <3>2, <3>4 DEF Bijection, Injection, IsInjective, Surjection
    <3>6. ExistsBijection(1..n, Discovered)
      BY <3>5 DEF ExistsBijection
    <3> QED
      BY <2>1, <3>6, FS_CountingElements
  <2>8. \A r \in Range(known) : r = versions[IF policy = "first" THEN FirstOf(r.id) ELSE LastOf(r.id)]
    BY <2>5 DEF Range
  <2> QED
    BY <2>4, <2>6, <2>7, <2>8 DEF MergeKeeps, n
<1> QED
  BY <1>1, ListsInv, Invariance, PTL DEF Spec

-----------------------------------------------------------------------------
(* Sorting.  In a finite set with a strict total order, given as the set L *)
(* of its pairs, the number of elements below one is its place.            *)

Below(S, L, x) == {y \in S : <<y, x>> \in L}

LEMMA Ranked ==
  ASSUME NEW S, IsFiniteSet(S), NEW L, \A x \in S : <<x, x>> \notin L,
         \A x, y, z \in S : <<x, y>> \in L /\ <<y, z>> \in L => <<x, z>> \in L,
         \A x, y \in S : x # y => <<x, y>> \in L \/ <<y, x>> \in L
  PROVE  /\ Cardinality(S) \in Nat
         /\ \A x \in S : Cardinality(Below(S, L, x)) \in 0..(Cardinality(S) - 1)
         /\ \A x, y \in S : <<x, y>> \in L => Cardinality(Below(S, L, x)) < Cardinality(Below(S, L, y))
         /\ \A i \in 1..Cardinality(S) : \E x \in S : Cardinality(Below(S, L, x)) = i - 1
<1> DEFINE n == Cardinality(S)
           f == [x \in S |-> Cardinality(Below(S, L, x))]
<1>1. n \in Nat
  BY FS_CardinalityType
<1>2. ASSUME NEW x \in S PROVE f[x] \in 0..(n - 1)
  <2> DEFINE B == Below(S, L, x)
  <2>1. B \in SUBSET S /\ B # S
    BY DEF Below
  <2>2. Cardinality(B) \in Nat /\ Cardinality(B) < n
    BY <2>1, FS_Subset, FS_CardinalityType
  <2> QED
    BY <1>1, <2>2
<1>3. ASSUME NEW x \in S, NEW y \in S, <<x, y>> \in L PROVE f[x] < f[y]
  <2> DEFINE A == Below(S, L, x)  B == Below(S, L, y)
  <2>1. A \in SUBSET B /\ x \in B /\ x \notin A /\ B \in SUBSET S
    BY <1>3 DEF Below
  <2>2. IsFiniteSet(B)
    BY <2>1, FS_Subset
  <2> HIDE DEF A, B
  <2>3. A \in SUBSET B /\ A # B
    BY <2>1
  <2>4. \A T \in SUBSET B : Cardinality(T) <= Cardinality(B) /\ (Cardinality(B) = Cardinality(T) => B = T)
    BY <2>2, FS_Subset
  <2>5. Cardinality(A) \in Nat /\ Cardinality(B) \in Nat
    BY <2>2, <2>3, FS_Subset, FS_CardinalityType
  <2>6. Cardinality(A) < Cardinality(B)
    BY <2>3, <2>4, <2>5
  <2> QED
    BY <2>6 DEF A, B
<1>4. ASSUME NEW i \in 1..n PROVE \E x \in S : f[x] = i - 1
  <2> SUFFICES ASSUME \A x \in S : f[x] # i - 1 PROVE FALSE
    OBVIOUS
  <2> DEFINE I == 0..(n - 1)
             T == I \ {i - 1}
  <2>1. IsFiniteSet(I) /\ Cardinality(I) = n /\ i - 1 \in I
    <3>1. IsFiniteSet(I) /\ Cardinality(I) = IF 0 > n - 1 THEN 0 ELSE (n - 1) - 0 + 1
      <4>1. 0 \in Int /\ n - 1 \in Int
        BY <1>1
      <4> QED
        BY <4>1, FS_Interval
    <3> QED
      BY <1>1, <3>1
  <2>2. IsFiniteSet(T) /\ Cardinality(T) = n - 1
    <3> HIDE DEF I
    <3> QED
      BY <2>1, FS_RemoveElement
  <2>3. f \in [S -> T]
    BY <1>2
  <2>4. Cardinality(T) < Cardinality(S)
    BY <1>1, <2>2
  <2> HIDE DEF f, T
  <2>5. PICK x \in S, y \in S : x # y /\ f[x] = f[y]
    BY <2>2, <2>3, <2>4, FS_PigeonHole
  <2>6. f[x] < f[y] \/ f[y] < f[x]
    BY <1>3, <2>5
  <2>7. f[x] \in Int
    BY <1>2, <1>1
  <2> QED
    BY <2>5, <2>6, <2>7
<1> QED
  BY <1>1, <1>2, <1>3, <1>4

\* The IDs that keys and results are sorted by.
Keyed == Check \X Place

LEMMA RankType == \A x \in Check \cup Place : Rank[x] \in Int
BY RankAssumption, ChecksAssumption DEF Place

LEMMA RankInjective == \A x, y \in Check \cup Place : Rank[x] = Rank[y] => x = y
BY RankAssumption, ChecksAssumption DEF Place

LEMMA KeyOrder ==
  /\ \A a \in Keyed : ~KeyLess(a, a)
  /\ \A a, b, c \in Keyed : KeyLess(a, b) /\ KeyLess(b, c) => KeyLess(a, c)
  /\ \A a, b \in Keyed : a # b => KeyLess(a, b) \/ KeyLess(b, a)
<1>1. \A a \in Keyed : /\ a = <<a[1], a[2]>> /\ a[1] \in Check \cup Place /\ a[2] \in Check \cup Place
                       /\ Rank[a[1]] \in Int /\ Rank[a[2]] \in Int
  BY RankType DEF Keyed
<1>2. \A a \in Keyed : ~KeyLess(a, a)
  BY <1>1 DEF KeyLess
<1>3. ASSUME NEW a \in Keyed, NEW b \in Keyed, NEW c \in Keyed, KeyLess(a, b), KeyLess(b, c) PROVE KeyLess(a, c)
  BY <1>1, <1>3 DEF KeyLess
<1>4. ASSUME NEW a \in Keyed, NEW b \in Keyed, a # b PROVE KeyLess(a, b) \/ KeyLess(b, a)
  <2>1. a[1] # b[1] => Rank[a[1]] # Rank[b[1]]
    BY <1>1, RankInjective
  <2>2. a[2] # b[2] => Rank[a[2]] # Rank[b[2]]
    BY <1>1, RankInjective
  <2>3. a[1] # b[1] \/ a[2] # b[2]
    BY <1>1, <1>4
  <2> QED
    BY <1>1, <2>1, <2>2, <2>3 DEF KeyLess
<1> QED
  BY <1>2, <1>3, <1>4

\* SortedKeys lists each key.
LEMMA SortedKeysAre ==
  ASSUME NEW K \in SUBSET Keyed, IsFiniteSet(K)
  PROVE  /\ SortedKeys(K) \in Seq(K)
         /\ Range(SortedKeys(K)) = K
         /\ SortedKeys(K) = <<>> <=> K = {}
<1> DEFINE L == {p \in K \X K : KeyLess(p[1], p[2])}
           n == Cardinality(K)
           at(i) == CHOOSE k \in K : Cardinality({j \in K : KeyLess(j, k)}) = i - 1
<1>1. \A x \in K : <<x, x>> \notin L
  BY KeyOrder
<1>2. \A x, y, z \in K : <<x, y>> \in L /\ <<y, z>> \in L => <<x, z>> \in L
  BY KeyOrder
<1>3. \A x, y \in K : x # y => <<x, y>> \in L \/ <<y, x>> \in L
  BY KeyOrder
<1>4. \A k \in K : {j \in K : KeyLess(j, k)} = Below(K, L, k)
  BY DEF Below
<1> HIDE DEF L
<1>5. /\ n \in Nat
      /\ \A x \in K : Cardinality(Below(K, L, x)) \in 0..(n - 1)
      /\ \A x, y \in K : <<x, y>> \in L => Cardinality(Below(K, L, x)) < Cardinality(Below(K, L, y))
      /\ \A i \in 1..n : \E x \in K : Cardinality(Below(K, L, x)) = i - 1
  BY <1>1, <1>2, <1>3, Ranked
<1>6. SortedKeys(K) = [i \in 1..n |-> at(i)]
  BY DEF SortedKeys
<1>7. \A i \in 1..n : at(i) \in K /\ Cardinality(Below(K, L, at(i))) = i - 1
  <2> TAKE i \in 1..n
  <2>1. \E k \in K : Cardinality({j \in K : KeyLess(j, k)}) = i - 1
    BY <1>4, <1>5
  <2>2. at(i) \in K /\ Cardinality({j \in K : KeyLess(j, at(i))}) = i - 1
    BY <2>1
  <2> HIDE DEF at
  <2> QED
    BY <1>4, <2>2
<1> HIDE DEF n, at
<1>8. ASSUME NEW k \in K PROVE \E i \in 1..n : at(i) = k
  <2> DEFINE i == Cardinality(Below(K, L, k)) + 1
  <2>1. i \in 1..n
    BY <1>5
  <2>2. Cardinality(Below(K, L, at(i))) = Cardinality(Below(K, L, k)) /\ at(i) \in K
        /\ Cardinality(Below(K, L, k)) \in Int
    BY <1>5, <1>7, <2>1
  <2>3. ~(<<at(i), k>> \in L) /\ ~(<<k, at(i)>> \in L)
    BY <1>5, <2>2
  <2> QED
    BY <1>3, <2>1, <2>2, <2>3
<1>9. SortedKeys(K) \in Seq(K)
  BY <1>5, <1>6, <1>7
<1>10. Range(SortedKeys(K)) = K
  BY <1>6, <1>7, <1>8 DEF Range
<1>11. SortedKeys(K) = <<>> <=> K = {}
  <2>1. SortedKeys(K) = <<>> => Range(SortedKeys(K)) = {}
    BY DEF Range
  <2>2. SortedKeys(K) # <<>> => Range(SortedKeys(K)) # {}
    <3> SUFFICES ASSUME SortedKeys(K) # <<>> PROVE 1 \in DOMAIN SortedKeys(K)
      BY DEF Range
    <3> QED
      BY <1>9
  <2> QED
    BY <1>10, <2>1, <2>2
<1> QED
  BY <1>9, <1>10, <1>11

-----------------------------------------------------------------------------
(* The order of the summary.                                               *)

IsRow(a) == a.check \in Check /\ a.res \in Place

\* The results of a summary: each names its check and its resource, and no two the same.
Rows(s) == /\ \A i \in DOMAIN s : IsRow(s[i])
           /\ \A i, j \in DOMAIN s : s[i].check = s[j].check /\ s[i].res = s[j].res => i = j

LEMMA RowOrder ==
  ASSUME NEW a, NEW b, NEW c, IsRow(a), IsRow(b), IsRow(c)
  PROVE  /\ ~SummaryLess(a, a)
         /\ SummaryLess(a, b) /\ SummaryLess(b, c) => SummaryLess(a, c)
         /\ a.check # b.check \/ a.res # b.res => SummaryLess(a, b) \/ SummaryLess(b, a)
<1> DEFINE ka == <<a.check, a.res>>
           kb == <<b.check, b.res>>
           kc == <<c.check, c.res>>
<1>1. ka \in Keyed /\ kb \in Keyed /\ kc \in Keyed
  BY DEF IsRow, Keyed
<1>2. Order[a.check] \in Int /\ Order[b.check] \in Int /\ Order[c.check] \in Int
  BY PlanAssumption DEF IsRow
<1>3. a.check # b.check \/ a.res # b.res => ka # kb
  OBVIOUS
<1>4. /\ SummaryLess(a, a) <=> Order[a.check] < Order[a.check] \/ KeyLess(ka, ka)
      /\ SummaryLess(a, b) <=> Order[a.check] < Order[b.check] \/ (Order[a.check] = Order[b.check] /\ KeyLess(ka, kb))
      /\ SummaryLess(b, a) <=> Order[b.check] < Order[a.check] \/ (Order[b.check] = Order[a.check] /\ KeyLess(kb, ka))
      /\ SummaryLess(b, c) <=> Order[b.check] < Order[c.check] \/ (Order[b.check] = Order[c.check] /\ KeyLess(kb, kc))
      /\ SummaryLess(a, c) <=> Order[a.check] < Order[c.check] \/ (Order[a.check] = Order[c.check] /\ KeyLess(ka, kc))
  BY DEF SummaryLess
<1> HIDE DEF ka, kb, kc
<1>5. ~KeyLess(ka, ka)
  BY <1>1, KeyOrder
<1>6. KeyLess(ka, kb) /\ KeyLess(kb, kc) => KeyLess(ka, kc)
  BY <1>1, KeyOrder
<1>7. ka # kb => KeyLess(ka, kb) \/ KeyLess(kb, ka)
  BY <1>1, KeyOrder
<1>8. ~SummaryLess(a, a)
  BY <1>2, <1>4, <1>5
<1>9. SummaryLess(a, b) /\ SummaryLess(b, c) => SummaryLess(a, c)
  BY <1>2, <1>4, <1>6
<1>10. a.check # b.check \/ a.res # b.res => SummaryLess(a, b) \/ SummaryLess(b, a)
  BY <1>2, <1>3, <1>4, <1>7
<1> QED
  BY <1>8, <1>9, <1>10

\* Sorted puts the same results in that order.
LEMMA SortedAre ==
  ASSUME NEW V, NEW s \in Seq(V), Rows(s)
  PROVE  /\ Sorted(s) \in Seq(V) /\ DOMAIN Sorted(s) = DOMAIN s
         /\ \A i \in DOMAIN s : \E j \in DOMAIN s : Sorted(s)[i] = s[j]
         /\ \A j \in DOMAIN s : \E i \in DOMAIN s : Sorted(s)[i] = s[j]
         /\ \A i, j \in DOMAIN s : i < j => SummaryLess(Sorted(s)[i], Sorted(s)[j])
<1> DEFINE S == DOMAIN s
           L == {p \in S \X S : SummaryLess(s[p[1]], s[p[2]])}
           n == Cardinality(S)
           low(j) == Cardinality(Below(S, L, j))
           at(i) == CHOOSE j \in S : Cardinality({k \in S : SummaryLess(s[k], s[j])}) = i - 1
<1>0. /\ \A j \in S : IsRow(s[j])
      /\ \A i, j \in S : i # j => s[i].check # s[j].check \/ s[i].res # s[j].res
  BY DEF Rows
<1>1. S = 1..Len(s) /\ Len(s) \in Nat /\ \A j \in S : s[j] \in V
  OBVIOUS
<1>2. IsFiniteSet(S) /\ n = Len(s)
  <2>1. IsFiniteSet(1..Len(s)) /\ Cardinality(1..Len(s)) = IF 1 > Len(s) THEN 0 ELSE Len(s) - 1 + 1
    BY <1>1, FS_Interval
  <2> QED
    BY <1>1, <2>1
<1>3. \A x, y \in S : <<x, y>> \in L <=> SummaryLess(s[x], s[y])
  OBVIOUS
<1>4. \A j \in S : {k \in S : SummaryLess(s[k], s[j])} = Below(S, L, j)
  BY <1>3 DEF Below
<1> HIDE DEF L
<1>5. Sorted(s) = [i \in S |-> s[at(i)]]
  BY DEF Sorted
<1> HIDE DEF S
<1>6. \A x \in S : <<x, x>> \notin L
  BY <1>0, <1>3, RowOrder
<1>7. \A x, y, z \in S : <<x, y>> \in L /\ <<y, z>> \in L => <<x, z>> \in L
  <2> TAKE x, y, z \in S
  <2>1. IsRow(s[x]) /\ IsRow(s[y]) /\ IsRow(s[z])
    BY <1>0
  <2>2. SummaryLess(s[x], s[y]) /\ SummaryLess(s[y], s[z]) => SummaryLess(s[x], s[z])
    BY <2>1, RowOrder
  <2> QED
    BY <1>3, <2>2
<1>8. \A x, y \in S : x # y => <<x, y>> \in L \/ <<y, x>> \in L
  <2> TAKE x, y \in S
  <2>1. IsRow(s[x]) /\ IsRow(s[y]) /\ (x # y => s[x].check # s[y].check \/ s[x].res # s[y].res)
    BY <1>0
  <2>2. s[x].check # s[y].check \/ s[x].res # s[y].res => SummaryLess(s[x], s[y]) \/ SummaryLess(s[y], s[x])
    BY <2>1, RowOrder
  <2> QED
    BY <1>3, <2>1, <2>2
<1>9. /\ n \in Nat
      /\ \A x \in S : low(x) \in 0..(n - 1)
      /\ \A x, y \in S : <<x, y>> \in L => low(x) < low(y)
      /\ \A i \in 1..n : \E x \in S : low(x) = i - 1
  BY <1>2, <1>6, <1>7, <1>8, Ranked
<1>10. \A i \in S : at(i) \in S /\ low(at(i)) = i - 1
  <2> TAKE i \in S
  <2>1. \E j \in S : Cardinality({k \in S : SummaryLess(s[k], s[j])}) = i - 1
    BY <1>1, <1>2, <1>4, <1>9
  <2>2. at(i) \in S /\ Cardinality({k \in S : SummaryLess(s[k], s[at(i)])}) = i - 1
    BY <2>1
  <2> HIDE DEF at
  <2> QED
    BY <1>4, <2>2
<1> HIDE DEF at, low, n
<1>11. ASSUME NEW j \in S PROVE \E i \in S : at(i) = j
  <2> DEFINE i == low(j) + 1
  <2>0. low(j) \in 0..(n - 1) /\ n \in Nat /\ S = 1..n
    BY <1>1, <1>2, <1>9
  <2>1. i \in S /\ i - 1 = low(j) /\ low(j) \in Int
    BY <2>0
  <2>2. low(at(i)) = low(j) /\ at(i) \in S
    <3> HIDE DEF i
    <3> QED
      BY <1>10, <2>1
  <2>3. ~(<<at(i), j>> \in L) /\ ~(<<j, at(i)>> \in L)
    BY <1>9, <2>1, <2>2
  <2> QED
    BY <1>8, <2>1, <2>2, <2>3
<1>12. ASSUME NEW i \in S, NEW j \in S, i < j PROVE SummaryLess(s[at(i)], s[at(j)])
  <2>0. i \in Int /\ j \in Int
    BY <1>1
  <2>1. low(at(i)) < low(at(j)) /\ at(i) \in S /\ at(j) \in S /\ low(at(i)) \in Int /\ low(at(j)) \in Int
    BY <2>0, <1>10, <1>12
  <2>2. at(i) # at(j) /\ ~(<<at(j), at(i)>> \in L)
    BY <1>9, <2>1
  <2>3. <<at(i), at(j)>> \in L
    BY <1>8, <2>1, <2>2
  <2> QED
    BY <1>3, <2>1, <2>3
<1>13. Sorted(s) \in Seq(V) /\ DOMAIN Sorted(s) = S
  BY <1>1, <1>5, <1>10
<1>14. \A i \in S : \E j \in S : Sorted(s)[i] = s[j]
  BY <1>5, <1>10
<1>15. \A j \in S : \E i \in S : Sorted(s)[i] = s[j]
  BY <1>5, <1>11
<1>16. \A i, j \in S : i < j => SummaryLess(Sorted(s)[i], Sorted(s)[j])
  BY <1>5, <1>12
<1> QED
  BY <1>14, <1>15, <1>16, <1>13 DEF S

-----------------------------------------------------------------------------
(* Seeding a fixture, and rolling results up.                              *)

IsFun(f) == f = [x \in DOMAIN f |-> f[x]]

\* The store f holds the results of the indices I of s, each under its key, and no other.
Tells(f, s, I) ==
  /\ IsFun(f.results) /\ IsFun(f.perRes)
  /\ DOMAIN f.results = {s[i].check : i \in {j \in I : s[j].res = None}}
  /\ DOMAIN f.perRes = {<<s[i].check, s[i].res>> : i \in {j \in I : s[j].res # None}}
  /\ \A i \in I : s[i].res = None => f.results[s[i].check] = s[i]
  /\ \A i \in I : s[i].res # None => f.perRes[<<s[i].check, s[i].res>>] = s[i]

PutIn(f, g, r) ==
  /\ g.results = IF r.res = None THEN With(f.results, r.check, r) ELSE f.results
  /\ g.perRes = IF r.res = None THEN f.perRes ELSE With(f.perRes, <<r.check, r.res>>, r)

LEMMA PutTells ==
  ASSUME NEW f, NEW g, NEW s, NEW I, NEW k, Tells(f, s, I), PutIn(f, g, s[k]),
         \A i \in I : ~(s[i].check = s[k].check /\ s[i].res = s[k].res)
  PROVE  Tells(g, s, I \cup {k})
<1> DEFINE r == s[k]
           J == I \cup {k}
           at(i) == <<s[i].check, s[i].res>>
<1>1. CASE r.res = None
  <2>1. g.results = With(f.results, r.check, r) /\ g.perRes = f.perRes
    BY <1>1 DEF PutIn
  <2>2. \A i \in I : s[i].res = None => s[i].check # r.check
    BY <1>1
  <2>3. /\ IsFun(g.results) /\ DOMAIN g.results = DOMAIN f.results \cup {r.check}
        /\ g.results[r.check] = r
        /\ \A x \in DOMAIN f.results : x # r.check => g.results[x] = f.results[x]
    <3> DEFINE fr == f.results  gr == g.results  key == r.check
    <3>1. gr = With(fr, key, r)
      BY <2>1
    <3> HIDE DEF fr, gr, key, r
    <3>2. /\ IsFun(gr) /\ DOMAIN gr = DOMAIN fr \cup {key} /\ gr[key] = r
          /\ \A x \in DOMAIN fr : x # key => gr[x] = fr[x]
      BY <3>1 DEF With, IsFun
    <3> QED
      BY <3>2 DEF fr, gr, key
  <2>4. \A c : c \in DOMAIN g.results <=> \E i \in J : s[i].res = None /\ s[i].check = c
    BY <1>1, <2>3 DEF Tells
  <2>5. \A i \in J : s[i].res = None => g.results[s[i].check] = s[i]
    BY <1>1, <2>2, <2>3 DEF Tells
  <2>6. IsFun(g.perRes)
    BY <2>1 DEF Tells
  <2>7. \A x : x \in DOMAIN g.perRes <=> \E i \in J : s[i].res # None /\ at(i) = x
    BY <1>1, <2>1 DEF Tells
  <2>8. \A i \in J : s[i].res # None => g.perRes[at(i)] = s[i]
    <3>1. \A i \in I : s[i].res # None => f.perRes[at(i)] = s[i]
      BY DEF Tells
    <3> QED
      BY <1>1, <2>1, <3>1
  <2> QED
    BY <2>3, <2>4, <2>5, <2>6, <2>7, <2>8 DEF Tells
<1>2. CASE r.res # None
  <2>1. g.perRes = With(f.perRes, at(k), r) /\ g.results = f.results
    BY <1>2 DEF PutIn
  <2>2. \A i \in I : at(i) # at(k)
    OBVIOUS
  <2>3. /\ IsFun(g.perRes) /\ DOMAIN g.perRes = DOMAIN f.perRes \cup {at(k)}
        /\ g.perRes[at(k)] = r
        /\ \A x \in DOMAIN f.perRes : x # at(k) => g.perRes[x] = f.perRes[x]
    <3> DEFINE fr == f.perRes  gr == g.perRes  key == at(k)
    <3>1. gr = With(fr, key, r)
      BY <2>1
    <3> HIDE DEF fr, gr, key, r
    <3>2. /\ IsFun(gr) /\ DOMAIN gr = DOMAIN fr \cup {key} /\ gr[key] = r
          /\ \A x \in DOMAIN fr : x # key => gr[x] = fr[x]
      BY <3>1 DEF With, IsFun
    <3> QED
      BY <3>2 DEF fr, gr, key
  <2>9. /\ \A x : x \in DOMAIN f.perRes <=> \E i \in I : s[i].res # None /\ at(i) = x
        /\ \A i \in I : s[i].res # None => f.perRes[at(i)] = s[i]
    BY DEF Tells
  <2>6. IsFun(g.results)
    BY <2>1 DEF Tells
  <2>7. \A x : x \in DOMAIN g.results <=> \E i \in J : s[i].res = None /\ s[i].check = x
    BY <1>2, <2>1 DEF Tells
  <2>8. \A i \in J : s[i].res = None => g.results[s[i].check] = s[i]
    <3>1. \A i \in I : s[i].res = None => f.results[s[i].check] = s[i]
      BY DEF Tells
    <3> QED
      BY <1>2, <2>1, <3>1
  <2> HIDE DEF at
  <2>4. \A x : x \in DOMAIN g.perRes <=> \E i \in J : s[i].res # None /\ at(i) = x
    BY <1>2, <2>3, <2>9
  <2>5. \A i \in J : s[i].res # None => g.perRes[at(i)] = s[i]
    BY <1>2, <2>2, <2>3, <2>9
  <2> QED
    BY <2>3, <2>4, <2>5, <2>6, <2>7, <2>8 DEF Tells, at
<1> QED
  BY <1>1, <1>2

\* Two stores that hold the same results are alike.
LEMMA TellsSame ==
  ASSUME NEW f, NEW g, NEW s, NEW I, Tells(f, s, I), Tells(g, s, I)
  PROVE  f.results = g.results /\ f.perRes = g.perRes
<1>1. DOMAIN f.results = DOMAIN g.results
  BY DEF Tells
<1>2. DOMAIN f.perRes = DOMAIN g.perRes
  BY DEF Tells
<1>3. \A c \in DOMAIN f.results : f.results[c] = g.results[c]
  BY DEF Tells
<1>4. \A k \in DOMAIN f.perRes : f.perRes[k] = g.perRes[k]
  <2> TAKE k \in DOMAIN f.perRes
  <2>1. PICK i \in I : s[i].res # None /\ k = <<s[i].check, s[i].res>>
    BY DEF Tells
  <2>2. f.perRes[<<s[i].check, s[i].res>>] = s[i] /\ g.perRes[<<s[i].check, s[i].res>>] = s[i]
    BY <2>1 DEF Tells
  <2> QED
    BY <2>1, <2>2
<1>5. f.results = [x \in DOMAIN f.results |-> f.results[x]] /\ g.results = [x \in DOMAIN g.results |-> g.results[x]]
  BY DEF Tells, IsFun
<1>6. f.perRes = [x \in DOMAIN f.perRes |-> f.perRes[x]] /\ g.perRes = [x \in DOMAIN g.perRes |-> g.perRes[x]]
  BY DEF Tells, IsFun
<1> QED
  BY <1>1, <1>2, <1>3, <1>4, <1>5, <1>6

LEMMA FixtureIsFolded ==
  ASSUME NEW V, NEW seeds \in Seq(V)
  PROVE  Fixture(seeds) = Folded(<<"put">>, EmptyStore, seeds, Len(seeds))
<1> DEFINE S == DOMAIN seeds
           Raw(g) == g = [s \in SUBSET S |->
                            IF s = {} THEN EmptyStore ELSE Put(g[s \ {Max(s)}], seeds[Max(s)])]
           h == CHOOSE g : Raw(g)
<1>1. Fixture(seeds) = h[S]
  BY DEF Fixture, FoldLeft, MapThenFoldSet
<1>2. \A g : Raw(g) <=> IsFold(<<"put">>, EmptyStore, seeds, g, S)
  <2>1. \A all, x : Step(<<"put">>, all, x) = Put(all, x)
    BY DEF Step
  <2> QED
    BY <2>1 DEF IsFold, Turn
<1> HIDE DEF Raw
<1>3. Raw(h)
  BY <1>2, FoldHolds
<1> HIDE DEF h
<1>4. IsFold(<<"put">>, EmptyStore, seeds, h, S)
  BY <1>2, <1>3
<1> QED
  BY <1>1, <1>4, FoldIs

LEMMA JoinedIsFolded ==
  ASSUME NEW V, NEW rs \in Seq(V)
  PROVE  Joined(rs) = Folded(<<"join">>, <<>>, rs, Len(rs))
<1> DEFINE S == DOMAIN rs
           Raw(g) == g = [s \in SUBSET S |->
                            IF s = {} THEN <<>> ELSE g[s \ {Max(s)}] \o rs[Max(s)].obs]
           h == CHOOSE g : Raw(g)
<1>1. Joined(rs) = h[S]
  BY DEF Joined, FoldLeft, MapThenFoldSet
<1>2. \A g : Raw(g) <=> IsFold(<<"join">>, <<>>, rs, g, S)
  <2>1. \A all, x : Step(<<"join">>, all, x) = all \o x.obs
    BY DEF Step
  <2> QED
    BY <2>1 DEF IsFold, Turn
<1> HIDE DEF Raw
<1>3. Raw(h)
  BY <1>2, FoldHolds
<1> HIDE DEF h
<1>4. IsFold(<<"join">>, <<>>, rs, h, S)
  BY <1>2, <1>3
<1> QED
  BY <1>1, <1>4, FoldIs

LEMMA MinIn ==
  ASSUME NEW n \in Nat
  PROVE  \A A \in SUBSET (1..n) : A # {} => \E x \in A : \A y \in A : x <= y
<1> SUFFICES ASSUME NEW A \in SUBSET (1..n), A # {} PROVE \E x \in A : \A y \in A : x <= y
  OBVIOUS
<1> DEFINE B == {n + 1 - y : y \in A}
           m == Max(B)
<1>1. B \in SUBSET (1..n) /\ B # {}
  <2>1. \A y \in A : y \in 1..n
    OBVIOUS
  <2>2. \A y \in A : n + 1 - y \in 1..n
    BY <2>1
  <2>3. \A z \in B : z \in 1..n
    BY <2>2
  <2>4. B # {}
    OBVIOUS
  <2> QED
    BY <2>3, <2>4
<1>2. m \in B /\ \A y \in B : m >= y
  <2> HIDE DEF B
  <2> QED
    BY <1>1, MaxIn
<1> HIDE DEF m
<1>3. PICK x \in A : m = n + 1 - x
  BY <1>2
<1>4. \A y \in A : n + 1 - y \in B
  OBVIOUS
<1> HIDE DEF B
<1>5. \A y \in A : x <= y
  <2> TAKE y \in A
  <2>1. m >= n + 1 - y
    BY <1>2, <1>4
  <2>2. x \in Int /\ y \in Int
    OBVIOUS
  <2> QED
    BY <1>3, <2>1, <2>2
<1> QED
  BY <1>5

\* A fixture holds the results it was seeded with.
LEMMA FixtureTells ==
  ASSUME NEW V, NEW s \in Seq(V), Rows(s)
  PROVE  Tells(Fixture(s), s, DOMAIN s)
<1> DEFINE n == Len(s)
           at(k) == Folded(<<"put">>, EmptyStore, s, k)
           K == {k \in 0..n : IsStore(at(k)) /\ Tells(at(k), s, 1..k)}
<1>1. n \in Nat /\ DOMAIN s = 1..n
  OBVIOUS
<1>2. at(0) = EmptyStore
  BY FoldedSteps
<1>3. \A k \in Nat : k # 0 => at(k) = Put(at(k - 1), s[k])
  <2>1. \A k \in Nat : k # 0 => at(k) = Step(<<"put">>, at(k - 1), s[k])
    BY FoldedTurn, Zenon
  <2>2. \A all, x : Step(<<"put">>, all, x) = Put(all, x)
    BY DEF Step
  <2> HIDE DEF at
  <2> QED
    BY <2>1, <2>2
<1>4. Fixture(s) = at(n)
  BY FixtureIsFolded
<1> HIDE DEF at, n
<1>5. 0 \in K
  <2>1. IsStore(at(0))
    BY <1>2 DEF IsStore, EmptyStore
  <2>2. Tells(at(0), s, {})
    <3>1. at(0).results = <<>> /\ at(0).perRes = <<>>
      BY <1>2 DEF EmptyStore
    <3>2. DOMAIN at(0).results = {} /\ DOMAIN at(0).perRes = {}
      BY <3>1
    <3>3. IsFun(at(0).results) /\ IsFun(at(0).perRes)
      BY <3>1 DEF IsFun
    <3> QED
      BY <3>2, <3>3 DEF Tells
  <2>3. 1..0 = {} /\ 0 \in 0..n
    BY <1>1
  <2> QED
    BY <2>1, <2>2, <2>3
<1>6. ASSUME NEW k \in 1..n, k - 1 \in K PROVE k \in K
  <2> DEFINE f == at(k - 1)  g == at(k)
  <2>1. g = Put(f, s[k]) /\ IsStore(f) /\ Tells(f, s, 1..(k - 1))
    BY <1>1, <1>3, <1>6
  <2> HIDE DEF f, g
  <2>2. IsStore(g)
    BY <2>1 DEF Put, IsStore
  <2>3. PutIn(f, g, s[k])
    BY <2>1 DEF Put, PutIn, IsStore
  <2>4. \A i \in 1..(k - 1) : ~(s[i].check = s[k].check /\ s[i].res = s[k].res)
    BY <1>1, <1>6 DEF Rows
  <2>5. Tells(g, s, (1..(k - 1)) \cup {k})
    BY <2>1, <2>3, <2>4, PutTells
  <2>6. (1..(k - 1)) \cup {k} = 1..k /\ k \in 0..n
    BY <1>1
  <2> QED
    BY <2>2, <2>5, <2>6 DEF g
<1> HIDE DEF K
<1>7. n \in K
  BY <1>1, <1>5, <1>6, UpTo
<1> QED
  BY <1>1, <1>4, <1>7 DEF K

\* What is rolled up has an observation if one of the results has.
LEMMA JoinedIs ==
  ASSUME NEW V, NEW rs \in Seq(V), NEW X, \A i \in DOMAIN rs : rs[i].obs \in Seq(X)
  PROVE  Joined(rs) # <<>> <=> \E i \in DOMAIN rs : rs[i].obs # <<>>
<1> DEFINE n == Len(rs)
           at(k) == Folded(<<"join">>, <<>>, rs, k)
           K == {k \in 0..n : /\ at(k) \in Seq(X)
                              /\ at(k) # <<>> <=> \E i \in 1..k : rs[i].obs # <<>>}
<1>1. n \in Nat /\ DOMAIN rs = 1..n
  OBVIOUS
<1>2. at(0) = <<>>
  BY FoldedSteps
<1>3. \A k \in Nat : k # 0 => at(k) = at(k - 1) \o rs[k].obs
  <2>1. \A k \in Nat : k # 0 => at(k) = Step(<<"join">>, at(k - 1), rs[k])
    BY FoldedTurn, Zenon
  <2>2. \A all, x : Step(<<"join">>, all, x) = all \o x.obs
    BY DEF Step
  <2> HIDE DEF at
  <2> QED
    BY <2>1, <2>2
<1>4. Joined(rs) = at(n)
  BY JoinedIsFolded
<1> HIDE DEF at, n
<1>5. 0 \in K
  <2>0. <<>> \in Seq(X)
    OBVIOUS
  <2>1. 0 \in 0..n
    BY <1>1
  <2>3. at(0) \in Seq(X)
    BY <1>2, <2>0, Zenon
  <2>2. ~\E i \in 1..0 : rs[i].obs # <<>>
    OBVIOUS
  <2> QED
    BY <1>2, <2>1, <2>2, <2>3
<1>6. ASSUME NEW k \in 1..n, k - 1 \in K PROVE k \in K
  <2> DEFINE a == at(k - 1)  o == rs[k].obs
  <2>0. k \in Nat /\ k # 0 /\ k \in DOMAIN rs
    BY <1>1
  <2>1. at(k) = a \o o /\ a \in Seq(X) /\ o \in Seq(X)
    <3>1. at(k) = a \o o
      BY <1>3, <2>0
    <3>2. a \in Seq(X)
      BY <1>6
    <3> QED
      BY <2>0, <3>1, <3>2
  <2>2. a # <<>> <=> \E i \in 1..(k - 1) : rs[i].obs # <<>>
    BY <1>6
  <2>3. (\E i \in 1..k : rs[i].obs # <<>>) <=> (\E i \in 1..(k - 1) : rs[i].obs # <<>>) \/ o # <<>>
    BY <1>1
  <2> HIDE DEF a, o
  <2>4. a \o o \in Seq(X) /\ (a \o o # <<>> <=> a # <<>> \/ o # <<>>)
    BY <2>1
  <2>5. k \in 0..n
    BY <1>1
  <2> QED
    BY <2>1, <2>2, <2>3, <2>4, <2>5
<1> HIDE DEF K
<1>7. n \in K
  BY <1>1, <1>5, <1>6, UpTo
<1> QED
  BY <1>1, <1>4, <1>7 DEF K

\* The aggregate a says of the results R what aggregateResources makes of them.
RolledUp(a, R) ==
  /\ a.obs # <<>> <=> \E r \in R : r.obs # <<>>
  /\ a.err # None <=> \E r \in R : r.err # None
  /\ a.skip <=> \A r \in R : Status(r) = "skipped"

LEMMA AggregateIs ==
  ASSUME NEW V, NEW rs \in Seq(V), rs # <<>>, NEW X, \A i \in DOMAIN rs : rs[i].obs \in Seq(X), NEW c
  PROVE  RolledUp(Aggregate(c, rs), Range(rs))
<1> DEFINE a == Aggregate(c, rs)
<1>1. a.obs = Joined(rs) /\ a.err = FirstError(rs) /\ a.skip = AllSkipped(rs)
  BY DEF Aggregate, NewResult
<1> HIDE DEF a
<1>2. a.obs # <<>> <=> \E r \in Range(rs) : r.obs # <<>>
  BY <1>1, JoinedIs DEF Range
<1>3. a.err # None <=> \E r \in Range(rs) : r.err # None
  <2> DEFINE I == {i \in 1..Len(rs) : rs[i].err # None}
             m == Min(I)
  <2>1. SelectInSeq(rs, LAMBDA r : r.err # None) = IF I # {} THEN m ELSE 0
    BY DEF SelectInSeq
  <2>2. DOMAIN rs = 1..Len(rs) /\ Len(rs) \in Nat
    OBVIOUS
  <2>3. I # {} => m \in I
    <3> SUFFICES ASSUME I # {} PROVE m \in I
      OBVIOUS
    <3>1. \E x \in I : \A y \in I : x <= y
      BY <2>2, MinIn
    <3> HIDE DEF I
    <3> QED
      BY <3>1 DEF Min
  <2>4. a.err = IF I # {} THEN rs[m].err ELSE None
    <3>1. I # {} => m # 0
      BY <2>3
    <3> HIDE DEF I, m
    <3> QED
      BY <1>1, <2>1, <3>1 DEF FirstError
  <2>5. I # {} <=> \E r \in Range(rs) : r.err # None
    BY <2>2 DEF Range
  <2> QED
    BY <2>3, <2>4, <2>5
<1>4. a.skip <=> \A r \in Range(rs) : Status(r) = "skipped"
  BY <1>1 DEF AllSkipped, Range
<1> QED
  BY <1>2, <1>3, <1>4 DEF a, RolledUp

\* Aggregates of the same results meet the same conditions.
LEMMA AggregatesAlike ==
  ASSUME NEW a, NEW b, NEW R, RolledUp(a, R), RolledUp(b, R)
  PROVE  \A k \in {"passed", "observed", "skipped"} : Is(k, {a}) = Is(k, {b})
<1>1. a.obs = <<>> <=> b.obs = <<>>
  BY DEF RolledUp
<1>2. a.err = None <=> b.err = None
  BY DEF RolledUp
<1>3. a.skip <=> b.skip
  BY DEF RolledUp
<1>4. Status(a) = Status(b)
  BY <1>1, <1>2, <1>3 DEF Status
<1>5. IfCheckPassed({a}) = IfCheckPassed({b})
  BY <1>4 DEF IfCheckPassed
<1>6. IfCheckObserved({a}) = IfCheckObserved({b})
  BY <1>1 DEF IfCheckObserved
<1>7. IfCheckSkipped({a}) = IfCheckSkipped({b})
  BY <1>4 DEF IfCheckSkipped
<1> QED
  BY <1>5, <1>6, <1>7 DEF Is

-----------------------------------------------------------------------------
(* What the summary and the aggregates say of the store.                   *)

\* The results of one check's resources.
Of(c)    == {k \in DOMAIN store.perRes : k[1] = c}
OfAll(c) == {store.perRes[k] : k \in Of(c)}

\* The summary lists the results of the store, with the observations that its checks made.
Told == /\ summary \in Seq(Range(summary)) /\ Rows(summary)
        /\ Tells(store, summary, DOMAIN summary)
        /\ \A i \in DOMAIN summary : summary[i].obs \in Seq([check : Check, res : Place])

\* A resource's result is awaited or rolled up, and an aggregate rolls up every result there is.
Rolled ==
  /\ snapshot.resources \in Seq(Version)
  /\ \A k \in DOMAIN store.perRes : \/ k[1] \in DOMAIN store.aggregates
                                    \/ pc[<<k[1], None>>] = "fan" /\ k[2] \in Listed(snapshot)
  /\ \A u \in Unit : u[2] # None /\ pc[u] = "done" => u \in DOMAIN store.perRes
  /\ \A c \in Check : pc[<<c, None>>] = "fan" => snapshot.resources # <<>>
  /\ \A c \in DOMAIN store.aggregates :
       c \in Check /\ pc[<<c, None>>] = "done" /\ Of(c) # {} /\ RolledUp(store.aggregates[c], OfAll(c))

Ordered == phase = "done" => \A i, j \in DOMAIN summary : i < j => SummaryLess(summary[i], summary[j])

SumInv == Told /\ Rolled /\ Ordered

\* What an invocation adds to the summary.
Telling(u, r) ==
  /\ Recorded(u, r) /\ summary' = Append(summary, r) /\ r.check = u[1] /\ r.res = u[2]
  /\ r.obs \in Seq([check : Check, res : Place])

LEMMA FillTyped ==
  ASSUME NEW u \in Unit, NEW obs \in {<<>>, <<Blank>>}
  PROVE  Fill(obs, u) \in Seq([check : Check, res : Place])
<1>1. u[1] \in Check /\ u[2] \in Place /\ Or(None, u[1]) = u[1] /\ Or(None, u[2]) = u[2]
  BY DEF Unit, Or
<1>2. CASE obs = <<>>
  BY <1>2 DEF Fill
<1>3. CASE obs = <<Blank>>
  <2>1. DOMAIN obs = 1..1 /\ Len(obs) = 1 /\ obs[1] = Blank
    BY <1>3
  <2>2. \A i \in 1..1 : obs[i].check = None /\ obs[i].res = None
    BY <2>1 DEF Blank
  <2>3. Fill(obs, u) = [i \in 1..1 |-> [check |-> u[1], res |-> u[2]]]
    BY <1>1, <2>1, <2>2 DEF Fill
  <2>4. [check |-> u[1], res |-> u[2]] \in [check : Check, res : Place]
    BY <1>1
  <2> HIDE DEF Fill
  <2> QED
    BY <2>3, <2>4
<1> QED
  BY <1>2, <1>3

LEMMA Tellings ==
  ASSUME IInv, Attributed, NEW u \in Unit, Invoke(u) \/ (u[2] = None /\ SkipCheck(u[1]))
  PROVE  \E r : Telling(u, r) /\ pc[u] \in {"run", "skip"} /\ Constant
<1>1. IsStore(store)
  BY DEF IInv, Types
<1>2. PICK q : IsResult(u, q) /\ Finish(u, q)
  BY Emits
<1> DEFINE full == Filled(u, q)
<1>3. Recorded(u, full) /\ full.check = u[1] /\ full.res = u[2]
  BY <1>1, <1>2, FinishRecords, FilledFields
<1>4. summary' = Append(summary, full)
  BY <1>2 DEF Finish, Filled
<1>5. Recording(u) /\ pc[u] \in {"run", "skip"} /\ Constant
  <2>1. CASE Invoke(u)
    BY <1>1, <2>1, Invocation
  <2>2. CASE u[2] = None /\ SkipCheck(u[1])
    <3>1. u[1] \in Check /\ u = <<u[1], None>>
      BY <2>2 DEF Unit
    <3> QED
      BY <1>1, <2>2, <3>1, SkipRecords
  <2> QED
    BY <2>1, <2>2
<1>6. PICK r : Recorded(u, r) /\ \E obs \in {<<>>, <<Blank>>, slice} : r.obs = Fill(obs, u)
  BY <1>5 DEF Recording
<1> HIDE DEF full
<1>7. ResultOf(u)' = {r} /\ ResultOf(u)' = {full}
  BY <1>3, <1>6, RecordedChanges
<1>8. PICK obs \in {<<>>, <<Blank>>} : full.obs = Fill(obs, u)
  BY <1>6, <1>7 DEF Attributed
<1> QED
  BY <1>3, <1>4, <1>5, <1>8, FillTyped DEF Telling

LEMMA OwnRange == ASSUME NEW V, NEW s \in Seq(V), NEW R, R = Range(s) PROVE s \in Seq(R)
<1>1. Len(s) \in Nat /\ s = [i \in 1..Len(s) |-> s[i]] /\ DOMAIN s = 1..Len(s)
  OBVIOUS
<1>2. \A i \in 1..Len(s) : s[i] \in R
  BY <1>1 DEF Range
<1> QED
  BY <1>1, <1>2

\* An invocation that returns has no result yet, and adds its own.
LEMMA TellingTold ==
  ASSUME IInv, Told, NEW u \in Unit, pc[u] \in {"run", "skip"}, NEW r, Telling(u, r)
  PROVE  Told'
<1> DEFINE s == summary  t == Append(summary, r)  n == Len(summary)
<1>1. summary' = t /\ s \in Seq(Range(s)) /\ Recorded(u, r) /\ r.check = u[1] /\ r.res = u[2]
  BY DEF Telling, Told
<1>2. /\ n \in Nat /\ DOMAIN s = 1..n /\ DOMAIN t = 1..(n + 1) /\ t[n + 1] = r
      /\ \A i \in 1..n : t[i] = s[i]
  BY <1>1
<1>3. t \in Seq(Range(s) \cup {r})
  BY <1>1
<1>4. t \in Seq(Range(t))
  BY <1>3, OwnRange
<1>5. u[1] \in Check /\ u[2] \in Place /\ u = <<u[1], u[2]>>
  BY DEF Unit
<1>6. ResultOf(u) = {}
  BY DEF IInv, Stored
<1> HIDE DEF s, t, n
<1>7. Rows(s) /\ Tells(store, s, 1..n)
  BY <1>2 DEF Told, s
<1>8. \A i \in 1..n : ~(s[i].check = u[1] /\ s[i].res = u[2])
  <2> SUFFICES ASSUME NEW i \in 1..n, s[i].check = u[1], s[i].res = u[2] PROVE FALSE
    OBVIOUS
  <2>1. CASE u[2] = None
    <3>1. u[1] \in DOMAIN store.results
      BY <1>7, <2>1 DEF Tells
    <3> QED
      BY <1>6, <2>1, <3>1 DEF ResultOf, Found
  <2>2. CASE u[2] # None
    <3>1. <<s[i].check, s[i].res>> \in DOMAIN store.perRes
      BY <1>7, <2>2 DEF Tells
    <3>2. <<s[i].check, s[i].res>> = u
      BY <1>5
    <3> QED
      BY <1>6, <2>2, <3>1, <3>2 DEF ResultOf, Found
  <2> QED
    BY <2>1, <2>2
<1>9. Rows(t)
  <2>1. ASSUME NEW i \in 1..(n + 1) PROVE IsRow(t[i])
    <3>1. CASE i = n + 1
      BY <1>1, <1>2, <1>5, <3>1 DEF IsRow
    <3>2. CASE i \in 1..n
      BY <1>2, <1>7, <3>2 DEF Rows
    <3> QED
      BY <1>2, <3>1, <3>2
  <2>2. ASSUME NEW i \in 1..(n + 1), NEW j \in 1..(n + 1), t[i].check = t[j].check, t[i].res = t[j].res
        PROVE  i = j
    <3>1. CASE i \in 1..n /\ j \in 1..n
      BY <1>2, <1>7, <2>2, <3>1 DEF Rows
    <3>2. CASE i \in 1..n /\ j = n + 1
      BY <1>1, <1>2, <1>8, <2>2, <3>2
    <3>3. CASE i = n + 1 /\ j \in 1..n
      BY <1>1, <1>2, <1>8, <2>2, <3>3
    <3>4. CASE i = n + 1 /\ j = n + 1
      BY <3>4
    <3> QED
      BY <1>2, <3>1, <3>2, <3>3, <3>4
  <2> QED
    BY <1>2, <2>1, <2>2 DEF Rows
<1>10. Tells(store, t, 1..n)
  <2>1. {t[i].check : i \in {j \in 1..n : t[j].res = None}} = {s[i].check : i \in {j \in 1..n : s[j].res = None}}
    BY <1>2
  <2>2. {<<t[i].check, t[i].res>> : i \in {j \in 1..n : t[j].res # None}}
          = {<<s[i].check, s[i].res>> : i \in {j \in 1..n : s[j].res # None}}
    BY <1>2
  <2>3. \A i \in 1..n : t[i].res = None => store.results[t[i].check] = t[i]
    BY <1>2, <1>7 DEF Tells
  <2>4. \A i \in 1..n : t[i].res # None => store.perRes[<<t[i].check, t[i].res>>] = t[i]
    BY <1>2, <1>7 DEF Tells
  <2> QED
    BY <1>7, <2>1, <2>2, <2>3, <2>4 DEF Tells
<1>11. PutIn(store, store', t[n + 1])
  BY <1>1, <1>2, <1>5 DEF Recorded, PutIn
<1>12. \A i \in 1..n : ~(t[i].check = t[n + 1].check /\ t[i].res = t[n + 1].res)
  BY <1>1, <1>2, <1>8
<1>13. Tells(store', t, (1..n) \cup {n + 1})
  BY <1>10, <1>11, <1>12, PutTells
<1>14. (1..n) \cup {n + 1} = DOMAIN t
  BY <1>2
<1>15. \A i \in DOMAIN t : t[i].obs \in Seq([check : Check, res : Place])
  <2> TAKE i \in DOMAIN t
  <2>1. CASE i = n + 1
    BY <1>2, <2>1 DEF Telling
  <2>2. CASE i \in 1..n
    BY <1>2, <2>2 DEF Told, s
  <2> QED
    BY <1>2, <2>1, <2>2
<1> QED
  BY <1>1, <1>4, <1>9, <1>13, <1>14, <1>15 DEF Told

\* The keys of the results of resources are invocations.
LEMMA KeysAre ==
  ASSUME Told
  PROVE  \A k \in DOMAIN store.perRes :
           /\ k \in Unit /\ k[1] \in Check /\ k[2] # None
           /\ store.perRes[k].obs \in Seq([check : Check, res : Place])
<1> TAKE k \in DOMAIN store.perRes
<1>1. PICK i \in DOMAIN summary : summary[i].res # None /\ k = <<summary[i].check, summary[i].res>>
  BY DEF Told, Tells
<1>2. summary[i].check \in Check /\ summary[i].res \in Place
  BY DEF Told, Rows, IsRow
<1>3. store.perRes[k] = summary[i]
  BY <1>1 DEF Told, Tells
<1>4. summary[i].obs \in Seq([check : Check, res : Place])
  BY DEF Told
<1> QED
  BY <1>1, <1>2, <1>3, <1>4 DEF Unit

LEMMA VersionIDs == \A v \in Version : v.id \in Resource /\ v.id # None
BY ListingsAssumption, ChecksAssumption DEF Version

LEMMA TellingRolled ==
  ASSUME IInv, Told, Rolled, NEW u \in Unit, pc[u] \in {"run", "skip"}, NEW r, Telling(u, r), Constant
  PROVE  Rolled'
<1>1. /\ store'.aggregates = store.aggregates /\ pc' = [pc EXCEPT ![u] = "done"] /\ snapshot' = snapshot
      /\ store'.perRes = IF u[2] = None THEN store.perRes ELSE With(store.perRes, u, r)
  BY DEF Telling, Recorded, Constant
<1>2. pc = [v \in Unit |-> pc[v]] /\ \A v \in Unit : v = <<v[1], v[2]>> /\ v[1] \in Check /\ <<v[1], None>> \in Unit
  BY DEF IInv, Types, Unit, Place
<1>3. \A k \in DOMAIN store.perRes : k \in Unit /\ k[2] # None
  BY KeysAre
<1>4. u[2] # None => pc[<<u[1], None>>] = "fan" /\ u[2] \in Listed(snapshot) /\ <<u[1], None>> # u
  BY <1>2 DEF IInv, Control
<1>5. Listed(snapshot)' = Listed(snapshot)
  BY <1>1 DEF Listed
<1>6. \A c \in Check : <<c, None>> \in Unit /\ <<c, None>>[1] = c
  BY DEF Unit, Place
<1>7. u[1] \notin DOMAIN store.aggregates
  <2> SUFFICES ASSUME u[1] \in DOMAIN store.aggregates PROVE FALSE
    OBVIOUS
  <2>1. pc[<<u[1], None>>] = "done"
    BY DEF Rolled
  <2>2. u[2] = None
    BY <1>4, <2>1
  <2> QED
    BY <1>2, <2>1, <2>2
<1>8. \A k \in Unit : k[2] # None => k # <<u[1], None>>
  OBVIOUS
<1>9. DOMAIN store'.perRes = IF u[2] = None THEN DOMAIN store.perRes ELSE DOMAIN store.perRes \cup {u}
  BY <1>1 DEF With
<1>10. \A k \in DOMAIN store.perRes : k # u => k \in DOMAIN store'.perRes /\ store'.perRes[k] = store.perRes[k]
  BY <1>1 DEF With
<1>11. \A c \in Check : pc'[<<c, None>>] = "fan" <=> pc[<<c, None>>] = "fan" /\ <<c, None>> # u
  BY <1>1, <1>2, <1>6
<1>12. ASSUME NEW k \in DOMAIN store'.perRes
       PROVE  k[1] \in DOMAIN store.aggregates \/ (pc'[<<k[1], None>>] = "fan" /\ k[2] \in Listed(snapshot))
  <2>1. CASE k = u
    <3>1. u[2] # None
      BY <1>3, <1>9, <2>1
    <3> QED
      BY <1>2, <1>4, <1>11, <2>1, <3>1
  <2>2. CASE k # u
    <3>1. k \in DOMAIN store.perRes
      BY <1>9, <2>2
    <3>2. CASE k[1] \in DOMAIN store.aggregates
      BY <3>2
    <3>3. CASE pc[<<k[1], None>>] = "fan" /\ k[2] \in Listed(snapshot)
      <4>1. <<k[1], None>> # u
        <5> SUFFICES ASSUME <<k[1], None>> = u PROVE FALSE
          OBVIOUS
        <5> QED
          BY <3>3
      <4>2. k[1] \in Check
        BY <1>2, <1>3, <3>1
      <4> QED
        BY <1>11, <3>3, <4>1, <4>2
    <3> QED
      BY <3>1, <3>2, <3>3 DEF Rolled
  <2> QED
    BY <2>1, <2>2
<1>13. ASSUME NEW v \in Unit, v[2] # None, pc'[v] = "done" PROVE v \in DOMAIN store'.perRes
  <2>1. CASE v = u
    BY <1>9, <1>13, <2>1
  <2>2. CASE v # u
    <3>1. pc[v] = "done"
      BY <1>1, <1>2, <1>13, <2>2
    <3>2. v \in DOMAIN store.perRes
      BY <1>13, <3>1 DEF Rolled
    <3> QED
      BY <1>9, <3>2
  <2> QED
    BY <2>1, <2>2
<1>14. ASSUME NEW c \in DOMAIN store.aggregates
       PROVE  /\ c \in Check /\ pc'[<<c, None>>] = "done" /\ Of(c)' = Of(c) /\ OfAll(c)' = OfAll(c)
  <2>1. c \in Check /\ pc[<<c, None>>] = "done" /\ c # u[1]
    BY <1>7 DEF Rolled
  <2>2. pc'[<<c, None>>] = "done"
    BY <1>1, <1>2, <1>6, <2>1
  <2>3. Of(c)' = Of(c)
    BY <1>9, <2>1 DEF Of
  <2>4. \A k \in Of(c) : store'.perRes[k] = store.perRes[k]
    BY <1>10, <2>1 DEF Of
  <2>5. OfAll(c)' = {store'.perRes[k] : k \in Of(c)}
    BY <2>3 DEF OfAll
  <2>6. OfAll(c)' = OfAll(c)
    BY <2>4, <2>5 DEF OfAll
  <2> QED
    BY <2>1, <2>2, <2>3, <2>6
<1>15. \A c \in DOMAIN store.aggregates :
         store'.aggregates[c] = store.aggregates[c] /\ Of(c) # {} /\ RolledUp(store.aggregates[c], OfAll(c))
  BY <1>1 DEF Rolled
<1>16. \A c \in DOMAIN store'.aggregates :
         c \in Check /\ pc'[<<c, None>>] = "done" /\ Of(c)' # {} /\ RolledUp(store'.aggregates[c], OfAll(c)')
  BY <1>1, <1>14, <1>15
<1> QED
  BY <1>1, <1>5, <1>11, <1>12, <1>13, <1>16 DEF Rolled, RolledUp, Status

LEMMA FanInRolled ==
  ASSUME IInv, Told, Rolled, NEW c \in Check, FanIn(c)
  PROVE  Rolled'
<1> DEFINE rs == [i \in DOMAIN snapshot.resources |-> store.perRes[<<c, snapshot.resources[i].id>>]]
           a == Aggregate(c, rs)
           w == <<c, None>>
           X == [check : Check, res : Place]
           V == Range(rs)
           n == Len(snapshot.resources)
<1>1. /\ pc[w] = "fan" /\ store' = SetAggregate(store, a) /\ pc' = [pc EXCEPT ![w] = "done"]
      /\ \A x \in Listed(snapshot) : pc[<<c, x>>] = "done"
      /\ snapshot' = snapshot
  BY DEF FanIn, Quiet
<1>2. /\ snapshot.resources \in Seq(Version) /\ snapshot.resources # <<>>
      /\ n \in Nat \ {0} /\ DOMAIN snapshot.resources = 1..n
      /\ \A i \in 1..n : snapshot.resources[i] \in Version
  <2>1. snapshot.resources \in Seq(Version) /\ snapshot.resources # <<>>
    BY <1>1 DEF Rolled
  <2> QED
    BY <2>1
<1>3. a.check = c
  BY DEF Aggregate, NewResult
<1> HIDE DEF a
<1>4. store'.aggregates = With(store.aggregates, c, a) /\ store'.perRes = store.perRes
  BY <1>1, <1>3 DEF SetAggregate, IInv, Types, IsStore
<1>5. \A x \in Listed(snapshot) : <<c, x>> \in Of(c)
  <2> TAKE x \in Listed(snapshot)
  <2>1. x \in Resource /\ x # None
    BY <1>2, VersionIDs DEF Listed
  <2>2. <<c, x>> \in Unit /\ <<c, x>>[2] # None /\ <<c, x>>[1] = c
    BY <2>1 DEF Unit, Place
  <2>3. <<c, x>> \in DOMAIN store.perRes
    BY <1>1, <2>2 DEF Rolled
  <2> QED
    BY <2>2, <2>3 DEF Of
<1>6. \A k \in Of(c) : k[2] \in Listed(snapshot) /\ k = <<c, k[2]>>
  <2> TAKE k \in Of(c)
  <2>1. k \in DOMAIN store.perRes /\ k[1] = c /\ k \in Unit
    BY KeysAre DEF Of
  <2>2. k = <<c, k[2]>>
    BY <2>1 DEF Unit
  <2>3. c \notin DOMAIN store.aggregates
    BY <1>1 DEF Rolled
  <2> QED
    BY <2>1, <2>2, <2>3 DEF Rolled
<1>7. V = OfAll(c)
  <2>1. ASSUME NEW x \in V PROVE x \in OfAll(c)
    <3>1. PICK i \in 1..n : x = store.perRes[<<c, snapshot.resources[i].id>>]
      BY <1>2 DEF Range
    <3>2. snapshot.resources[i].id \in Listed(snapshot)
      BY <1>2 DEF Listed
    <3> QED
      BY <1>5, <3>1, <3>2 DEF OfAll
  <2>2. ASSUME NEW x \in OfAll(c) PROVE x \in V
    <3>1. PICK k \in Of(c) : x = store.perRes[k]
      BY DEF OfAll
    <3>2. PICK i \in 1..n : snapshot.resources[i].id = k[2]
      BY <1>2, <1>6 DEF Listed
    <3>3. rs[i] = x /\ i \in DOMAIN rs
      BY <1>2, <1>6, <3>1, <3>2
    <3> HIDE DEF rs
    <3> QED
      BY <3>3 DEF Range
  <2> QED
    BY <2>1, <2>2
<1>8. Of(c) # {}
  <2>1. snapshot.resources[1].id \in Listed(snapshot)
    BY <1>2 DEF Listed
  <2> QED
    BY <1>5, <2>1
<1>9. RolledUp(a, OfAll(c))
  <2>1. DOMAIN rs = 1..n /\ rs = [i \in 1..n |-> rs[i]]
    BY <1>2
  <2>2. \A i \in 1..n : rs[i] \in V
    BY <2>1 DEF Range
  <2>3. \A i \in DOMAIN rs : rs[i].obs \in Seq(X)
    <3> SUFFICES ASSUME NEW i \in 1..n PROVE store.perRes[<<c, snapshot.resources[i].id>>].obs \in Seq(X)
      BY <2>1
    <3>1. <<c, snapshot.resources[i].id>> \in DOMAIN store.perRes
      BY <1>2, <1>5 DEF Listed, Of
    <3> QED
      BY <3>1, KeysAre
  <2> HIDE DEF rs, V, X, n
  <2>4. rs \in Seq(V) /\ rs # <<>>
    BY <1>2, <2>1, <2>2
  <2>5. RolledUp(a, Range(rs))
    BY <2>3, <2>4, AggregateIs DEF a
  <2> QED
    BY <1>7, <2>5 DEF V
<1> HIDE DEF rs, V, X, n
<1>10. \A d \in Check : Of(d)' = Of(d) /\ OfAll(d)' = OfAll(d)
  BY <1>4 DEF Of, OfAll
<1>11. pc = [v \in Unit |-> pc[v]] /\ \A d \in Check : <<d, None>> \in Unit /\ (d # c => <<d, None>> # w)
  BY DEF IInv, Types, Unit, Place
<1>12. \A d \in Check : pc'[<<d, None>>] = IF d = c THEN "done" ELSE pc[<<d, None>>]
  BY <1>1, <1>11
<1>13. /\ DOMAIN store'.aggregates = DOMAIN store.aggregates \cup {c} /\ store'.aggregates[c] = a
       /\ \A d \in DOMAIN store.aggregates : d # c => store'.aggregates[d] = store.aggregates[d]
  BY <1>4 DEF With
<1>14. ASSUME NEW k \in DOMAIN store.perRes
       PROVE  k[1] \in DOMAIN store'.aggregates \/ (pc'[<<k[1], None>>] = "fan" /\ k[2] \in Listed(snapshot))
  <2>1. k[1] \in Check
    BY KeysAre
  <2> QED
    BY <1>12, <1>13, <2>1 DEF Rolled
<1>15. \A v \in Unit : v[2] # None /\ pc'[v] = "done" => v \in DOMAIN store.perRes
  <2>1. \A v \in Unit : v[2] # None => v # w
    OBVIOUS
  <2> QED
    BY <1>1, <1>11, <2>1 DEF Rolled
<1>16. ASSUME NEW d \in DOMAIN store'.aggregates
       PROVE  d \in Check /\ pc'[<<d, None>>] = "done" /\ Of(d) # {} /\ RolledUp(store'.aggregates[d], OfAll(d))
  <2>1. CASE d = c
    BY <1>8, <1>9, <1>12, <1>13, <2>1
  <2>2. CASE d # c
    BY <1>12, <1>13, <2>2 DEF Rolled
  <2> QED
    BY <2>1, <2>2
<1>17. Listed(snapshot)' = Listed(snapshot) /\ snapshot'.resources = snapshot.resources
  BY <1>1 DEF Listed
<1>18. \A d \in Check : pc'[<<d, None>>] = "fan" => snapshot.resources # <<>>
  BY <1>12 DEF Rolled
<1>19. \A d \in DOMAIN store'.aggregates :
         d \in Check /\ pc'[<<d, None>>] = "done" /\ Of(d)' # {} /\ RolledUp(store'.aggregates[d], OfAll(d)')
  BY <1>10, <1>16
<1> QED
  BY <1>2, <1>4, <1>14, <1>15, <1>17, <1>18, <1>19 DEF Rolled, RolledUp, Status

LEMMA OpenLevelRolled ==
  ASSUME IInv, Lists, Told, Rolled, OpenLevel
  PROVE  Rolled'
<1>1. /\ phase = "level" /\ store' = store /\ snapshot' = store
      /\ pc' = [u \in Unit |->
                 IF u[1] \notin AtLevel THEN pc[u]
                 ELSE IF NothingToDo(u[1]) THEN (IF u[2] = None THEN "skip" ELSE "idle")
                 ELSE IF u[1] \in Global THEN (IF u[2] = None THEN "run" ELSE "idle")
                 ELSE IF u[2] = None THEN "fan" ELSE IF u[2] \in Listed(store) THEN "run" ELSE "idle"]
  BY DEF OpenLevel
<1>2. \A u \in Unit : pc[u] # "fan" /\ (pc[u] = "done" => u[1] \notin AtLevel)
  <2> TAKE u \in Unit
  <2>1. pc[u] # "fan"
    BY <1>1 DEF IInv, Control
  <2>2. pc[u] = "done" => Order[u[1]] < level
    BY <1>1 DEF IInv, Control
  <2>3. u[1] \in AtLevel => Order[u[1]] = level
    BY DEF AtLevel
  <2>4. level \in Nat
    BY DEF IInv, Types
  <2> QED
    BY <2>1, <2>2, <2>3, <2>4
<1>3. \A c \in Check : <<c, None>> \in Unit /\ <<c, None>>[1] = c /\ <<c, None>>[2] = None
  BY DEF Unit, Place
<1>4. \A k \in DOMAIN store.perRes : k[1] \in DOMAIN store.aggregates
  <2> TAKE k \in DOMAIN store.perRes
  <2>1. <<k[1], None>> \in Unit
    BY <1>3, KeysAre
  <2> QED
    BY <1>2, <2>1 DEF Rolled
<1>5. \A u \in Unit : pc'[u] = "done" <=> pc[u] = "done"
  <2> TAKE u \in Unit
  <2>1. CASE u[1] \notin AtLevel
    BY <1>1, <2>1
  <2>2. CASE u[1] \in AtLevel
    <3>1. pc'[u] # "done"
      BY <1>1, <2>2
    <3> QED
      BY <1>2, <2>2, <3>1
  <2> QED
    BY <2>1, <2>2
<1>6. ASSUME NEW c \in Check, pc'[<<c, None>>] = "fan" PROVE store.resources # <<>>
  <2> DEFINE u == <<c, None>>
  <2>1. pc'[u] = IF c \notin AtLevel THEN pc[u]
                 ELSE IF NothingToDo(c) THEN "skip"
                 ELSE IF c \in Global THEN "run" ELSE "fan"
    BY <1>1, <1>3
  <2>2. ~NothingToDo(c) /\ c \notin Global
    BY <1>2, <1>3, <1>6, <2>1
  <2> QED
    BY <2>2 DEF NothingToDo
<1>7. store.resources \in Seq(Version)
  BY DEF Lists
<1>8. \A c \in Check : Of(c)' = Of(c) /\ OfAll(c)' = OfAll(c)
  BY <1>1 DEF Of, OfAll
<1>9. \A u \in Unit : u[2] # None /\ pc'[u] = "done" => u \in DOMAIN store.perRes
  BY <1>5 DEF Rolled
<1>10. \A c \in DOMAIN store.aggregates :
         c \in Check /\ pc'[<<c, None>>] = "done" /\ Of(c)' # {} /\ RolledUp(store.aggregates[c], OfAll(c)')
  BY <1>3, <1>5, <1>8 DEF Rolled
<1> QED
  BY <1>1, <1>4, <1>6, <1>7, <1>9, <1>10 DEF Rolled, RolledUp, Status

LEMMA QuietRolled ==
  ASSUME Rolled, UNCHANGED <<store, snapshot, pc>>
  PROVE  Rolled'
<1>1. \A c : Of(c)' = Of(c) /\ OfAll(c)' = OfAll(c)
  BY DEF Of, OfAll
<1>2. Listed(snapshot)' = Listed(snapshot)
  BY DEF Listed
<1> QED
  BY <1>1, <1>2 DEF Rolled, RolledUp, Status

\* Sorting keeps what a summary tells.
LEMMA SortedTold ==
  ASSUME Told, store' = store, summary' = Sorted(summary)
  PROVE  Told' /\ \A i, j \in DOMAIN summary' : i < j => SummaryLess(summary'[i], summary'[j])
<1> DEFINE s == summary  t == Sorted(s)  V == Range(s)  D == DOMAIN s
<1>1. s \in Seq(V) /\ Rows(s) /\ Tells(store, s, D)
  BY DEF Told
<1>2. D = 1..Len(s) /\ Len(s) \in Nat
  BY <1>1
<1> HIDE DEF s, V, t
<1>3. /\ t \in Seq(V) /\ DOMAIN t = D
      /\ \A i \in D : \E j \in D : t[i] = s[j]
      /\ \A j \in D : \E i \in D : t[i] = s[j]
      /\ \A i, j \in D : i < j => SummaryLess(t[i], t[j])
  BY <1>1, SortedAre DEF t
<1> HIDE DEF D
<1>4. \A i \in D : IsRow(t[i])
  BY <1>1, <1>3 DEF Rows, D
<1>5. ASSUME NEW i \in D, NEW j \in D, t[i].check = t[j].check, t[i].res = t[j].res PROVE i = j
  <2>1. ~SummaryLess(t[i], t[i]) /\ ~SummaryLess(t[j], t[j])
    BY <1>4, RowOrder
  <2>2. /\ SummaryLess(t[i], t[j]) => SummaryLess(t[i], t[i])
        /\ SummaryLess(t[j], t[i]) => SummaryLess(t[i], t[i])
    BY <1>5 DEF SummaryLess
  <2>3. ~(i < j) /\ ~(j < i)
    BY <1>3, <2>1, <2>2
  <2> QED
    BY <1>2, <2>3
<1>6. Rows(t)
  BY <1>3, <1>4, <1>5 DEF Rows
<1>7. Tells(store, t, D)
  <2>0. ASSUME NEW i \in D
        PROVE  \E j \in D : t[i] = s[j] /\ t[i].res = s[j].res /\ t[i].check = s[j].check
    <3>1. PICK j \in D : t[i] = s[j]
      BY <1>3
    <3> QED
      BY <3>1
  <2>9. ASSUME NEW j \in D
        PROVE  \E i \in D : t[i] = s[j] /\ t[i].res = s[j].res /\ t[i].check = s[j].check
    <3>1. PICK i \in D : t[i] = s[j]
      BY <1>3
    <3> QED
      BY <3>1
  <2>1. {t[i].check : i \in {j \in D : t[j].res = None}} = {s[i].check : i \in {j \in D : s[j].res = None}}
    <3> DEFINE A == {t[i].check : i \in {j \in D : t[j].res = None}}
               B == {s[i].check : i \in {j \in D : s[j].res = None}}
    <3>1. ASSUME NEW x \in A PROVE x \in B
      <4>1. PICK i \in D : t[i].res = None /\ x = t[i].check
        OBVIOUS
      <4> QED
        BY <2>0, <4>1
    <3>2. ASSUME NEW x \in B PROVE x \in A
      <4>1. PICK j \in D : s[j].res = None /\ x = s[j].check
        OBVIOUS
      <4> QED
        BY <2>9, <4>1
    <3> QED
      BY <3>1, <3>2
  <2>2. {<<t[i].check, t[i].res>> : i \in {j \in D : t[j].res # None}}
          = {<<s[i].check, s[i].res>> : i \in {j \in D : s[j].res # None}}
    <3> DEFINE A == {<<t[i].check, t[i].res>> : i \in {j \in D : t[j].res # None}}
               B == {<<s[i].check, s[i].res>> : i \in {j \in D : s[j].res # None}}
    <3>1. ASSUME NEW x \in A PROVE x \in B
      <4>1. PICK i \in D : t[i].res # None /\ x = <<t[i].check, t[i].res>>
        OBVIOUS
      <4> QED
        BY <2>0, <4>1
    <3>2. ASSUME NEW x \in B PROVE x \in A
      <4>1. PICK j \in D : s[j].res # None /\ x = <<s[j].check, s[j].res>>
        OBVIOUS
      <4> QED
        BY <2>9, <4>1
    <3> QED
      BY <3>1, <3>2
  <2>3. ASSUME NEW i \in D, t[i].res = None PROVE store.results[t[i].check] = t[i]
    <3>1. PICK j \in D : t[i] = s[j] /\ t[i].res = s[j].res /\ t[i].check = s[j].check
      BY <2>0
    <3>2. store.results[s[j].check] = s[j]
      BY <1>1, <2>3, <3>1 DEF Tells
    <3> QED
      BY <3>1, <3>2
  <2>4. ASSUME NEW i \in D, t[i].res # None PROVE store.perRes[<<t[i].check, t[i].res>>] = t[i]
    <3>1. PICK j \in D : t[i] = s[j] /\ t[i].res = s[j].res /\ t[i].check = s[j].check
      BY <2>0
    <3>2. store.perRes[<<s[j].check, s[j].res>>] = s[j]
      BY <1>1, <2>4, <3>1 DEF Tells
    <3> QED
      BY <3>1, <3>2
  <2> QED
    BY <1>1, <2>1, <2>2, <2>3, <2>4 DEF Tells
<1>8. \A i \in D : t[i].obs \in Seq([check : Check, res : Place])
  BY <1>3 DEF Told, s, D
<1>9. t \in Seq(Range(t))
  BY <1>3, OwnRange
<1>10. summary' = t
  BY DEF t, s
<1>11. Told'
  BY <1>3, <1>6, <1>7, <1>8, <1>9, <1>10 DEF Told
<1> QED
  BY <1>3, <1>10, <1>11

LEMMA QuietTold == ASSUME Told, store'.results = store.results, store'.perRes = store.perRes, summary' = summary
                   PROVE  Told'
<1>1. Tells(store, summary, DOMAIN summary) => Tells(store', summary, DOMAIN summary)
  BY DEF Tells
<1> QED
  BY <1>1 DEF Told

LEMMA SumInvariant ==
  /\ Init => SumInv
  /\ IInv /\ Lists /\ Attributed /\ SumInv /\ [Next]_vars => SumInv'
<1>1. Init => SumInv
  <2> SUFFICES ASSUME Init PROVE SumInv
    OBVIOUS
  <2>1. /\ store = EmptyStore /\ snapshot = EmptyStore /\ phase = "level" /\ summary = <<>>
        /\ pc = [u \in Unit |-> "idle"]
    BY DEF Init
  <2>2. /\ store.results = <<>> /\ store.perRes = <<>> /\ store.aggregates = <<>>
        /\ snapshot.resources = <<>> /\ DOMAIN <<>> = {}
    BY <2>1 DEF EmptyStore
  <2>3. \A V : <<>> \in Seq(V)
    OBVIOUS
  <2>4. Tells(store, summary, DOMAIN summary)
    <3>1. IsFun(<<>>)
      BY DEF IsFun
    <3>2. {summary[i].check : i \in {j \in DOMAIN summary : summary[j].res = None}} = {}
      BY <2>1, <2>2
    <3>3. {<<summary[i].check, summary[i].res>> : i \in {j \in DOMAIN summary : summary[j].res # None}} = {}
      BY <2>1, <2>2
    <3> QED
      BY <2>1, <2>2, <3>1, <3>2, <3>3 DEF Tells
  <2>5. Told
    BY <2>1, <2>2, <2>3, <2>4 DEF Told, Rows
  <2>6. Rolled
    <3>1. \A c \in Check : <<c, None>> \in Unit
      BY DEF Unit, Place
    <3> QED
      BY <2>1, <2>2, <2>3, <3>1 DEF Rolled
  <2> QED
    BY <2>1, <2>5, <2>6 DEF SumInv, Ordered
<1>2. ASSUME IInv, Lists, Attributed, SumInv, [Next]_vars PROVE SumInv'
  <2>1. Told /\ Rolled /\ Ordered
    BY <1>2 DEF SumInv
  <2>2. ASSUME phase' # "done" PROVE Ordered'
    BY <2>2 DEF Ordered
  <2>3. ASSUME NEW u \in Unit, Invoke(u) \/ (u[2] = None /\ SkipCheck(u[1])) PROVE SumInv'
    <3>1. PICK r : Telling(u, r) /\ pc[u] \in {"run", "skip"} /\ Constant
      BY <1>2, <2>3, Tellings
    <3>2. phase' # "done"
      BY <1>2, <3>1 DEF IInv, Control, Constant
    <3>3. Told'
      BY <1>2, <2>1, <3>1, TellingTold
    <3>4. Rolled'
      BY <1>2, <2>1, <3>1, TellingRolled
    <3> QED
      BY <2>2, <3>2, <3>3, <3>4 DEF SumInv
  <2>4. ASSUME NEW c \in Check, SkipCheck(c) PROVE SumInv'
    <3>1. <<c, None>> \in Unit
      BY DEF Unit, Place
    <3> QED
      BY <2>3, <2>4, <3>1
  <2>5. ASSUME NEW c \in Check, FanIn(c) PROVE SumInv'
    <3>1. store'.results = store.results /\ store'.perRes = store.perRes
      BY <1>2, <2>5 DEF FanIn, SetAggregate, IsStore, IInv, Types
    <3>2. summary' = summary /\ phase' = phase
      BY <2>5 DEF FanIn, Unrecorded, Quiet
    <3>3. <<c, None>> \in Unit /\ pc[<<c, None>>] = "fan"
      BY <2>5 DEF FanIn, Unit, Place
    <3>4. phase' # "done"
      BY <1>2, <3>2, <3>3 DEF IInv, Control
    <3>5. Told'
      BY <2>1, <3>1, <3>2, QuietTold
    <3>6. Rolled'
      BY <1>2, <2>1, <2>5, FanInRolled
    <3> QED
      BY <2>2, <3>4, <3>5, <3>6 DEF SumInv
  <2>6. CASE OpenLevel
    <3>1. Rolled'
      BY <1>2, <2>1, <2>6, OpenLevelRolled
    <3>2. Told' /\ phase' # "done"
      BY <2>1, <2>6, QuietTold DEF OpenLevel, Unrecorded
    <3> QED
      BY <2>2, <3>1, <3>2 DEF SumInv
  <2>7. CASE CloseLevel
    <3>1. Rolled'
      BY <2>1, <2>7, QuietRolled DEF CloseLevel
    <3>2. Told' /\ phase' # "done"
      BY <2>1, <2>7, QuietTold DEF CloseLevel, Unrecorded
    <3> QED
      BY <2>2, <3>1, <3>2 DEF SumInv
  <2>8. CASE Finalize
    <3>1. store' = store /\ summary' = Sorted(summary) /\ UNCHANGED <<store, snapshot, pc>>
      BY <2>8 DEF Finalize
    <3>2. Told' /\ \A i, j \in DOMAIN summary' : i < j => SummaryLess(summary'[i], summary'[j])
      BY <2>1, <3>1, SortedTold
    <3>3. Rolled'
      BY <2>1, <3>1, QuietRolled
    <3>4. Ordered'
      BY <3>2 DEF Ordered, SummaryLess, KeyLess
    <3> QED
      BY <3>2, <3>3, <3>4 DEF SumInv
  <2>9. CASE UNCHANGED vars
    <3>1. store' = store /\ snapshot' = snapshot /\ pc' = pc /\ summary' = summary /\ phase' = phase
      BY <2>9 DEF vars
    <3>2. Told' /\ Rolled'
      BY <2>1, <3>1, QuietTold, QuietRolled
    <3>3. Ordered'
      BY <2>1, <3>1 DEF Ordered, SummaryLess, KeyLess
    <3> QED
      BY <3>2, <3>3 DEF SumInv
  <2> QED
    BY <1>2, <2>3, <2>4, <2>5, <2>6, <2>7, <2>8, <2>9 DEF Next
<1> QED
  BY <1>1, <1>2

\* Once a level is over, a fixture seeded with the summary decides the conditions of a check as
\* the store does: a check without a result of its own has an aggregate, or no result at all.
LEMMA SameAnswers ==
  ASSUME IInv, SumInv, phase # "wait", NEW c \in Check,
         NEW f, f.results = store.results, f.perRes = store.perRes
  PROVE  \A k \in {"passed", "observed", "skipped"} : Is(k, Get(store, c)) = Is(k, FixtureGet(f, c))
<1> DEFINE K == {k \in DOMAIN f.perRes : k[1] = c}
           keys == SortedKeys(K)
           rs == [i \in DOMAIN keys |-> f.perRes[keys[i]]]
           V == OfAll(c)
           X == [check : Check, res : Place]
<1>0. Told /\ Rolled
  BY DEF SumInv
<1>1. K = Of(c) /\ \A k \in K : f.perRes[k] = store.perRes[k]
  BY DEF Of
<1>2. K \in SUBSET Keyed
  BY <1>0, <1>1, KeysAre DEF Of, Keyed, Unit
<1>3. IsFiniteSet(K)
  <2> DEFINE D == DOMAIN summary
             F == [i \in D |-> <<summary[i].check, summary[i].res>>]
  <2>1. IsFiniteSet(D)
    <3>1. D = 1..Len(summary) /\ Len(summary) \in Nat
      BY <1>0 DEF Told
    <3> QED
      BY <3>1, FS_Interval
  <2>2. \A k \in K : \E i \in D : k = F[i]
    <3> TAKE k \in K
    <3>1. k \in DOMAIN store.perRes
      OBVIOUS
    <3>2. PICK i \in D : k = <<summary[i].check, summary[i].res>>
      BY <1>0, <3>1 DEF Told, Tells
    <3> QED
      BY <3>2
  <2> DEFINE R == {F[i] : i \in D}
  <2>3. IsFiniteSet(R)
    <3>1. F \in Surjection(D, R)
      BY DEF Surjection
    <3> HIDE DEF F, D, R
    <3> QED
      BY <2>1, <3>1, FS_Surjection
  <2>4. K \in SUBSET R
    BY <2>2
  <2> HIDE DEF K, R
  <2> QED
    BY <2>3, <2>4, FS_Subset
<1>4. FixtureGet(f, c) = IF c \in DOMAIN store.results THEN {store.results[c]}
                         ELSE IF keys = <<>> THEN {} ELSE {Aggregate(c, rs)}
  BY DEF FixtureGet
<1> HIDE DEF K
<1>5. keys \in Seq(K) /\ Range(keys) = K /\ (keys = <<>> <=> K = {})
  BY <1>2, <1>3, SortedKeysAre
<1> HIDE DEF keys
<1>6. CASE c \in DOMAIN store.results
  BY <1>4, <1>6 DEF Get
<1>7. CASE c \notin DOMAIN store.results /\ c \in DOMAIN store.aggregates
  <2>1. K # {} /\ RolledUp(store.aggregates[c], V)
    BY <1>0, <1>1, <1>7 DEF Rolled
  <2>2. Get(store, c) = {store.aggregates[c]} /\ FixtureGet(f, c) = {Aggregate(c, rs)}
    BY <1>4, <1>5, <1>7, <2>1 DEF Get, Found
  <2>3. DOMAIN keys = 1..Len(keys) /\ Len(keys) \in Nat /\ \A i \in DOMAIN keys : keys[i] \in K
    BY <1>5
  <2>4. rs \in Seq(V) /\ rs # <<>>
    <3>1. \A i \in DOMAIN keys : f.perRes[keys[i]] \in V
      BY <1>1, <2>3 DEF OfAll
    <3>2. DOMAIN rs = DOMAIN keys /\ keys # <<>>
      BY <1>5, <2>1
    <3>3. rs \in Seq(V)
      <4> HIDE DEF V
      <4> QED
        BY <2>3, <3>1
    <3>4. 1 \in DOMAIN rs
      BY <1>5, <3>2
    <3> QED
      BY <3>3, <3>4
  <2>5. Range(rs) = V
    <3>1. ASSUME NEW x \in V PROVE x \in Range(rs)
      <4>1. PICK k \in K : x = store.perRes[k]
        BY <1>1 DEF OfAll
      <4>2. PICK i \in DOMAIN keys : keys[i] = k
        BY <1>5 DEF Range
      <4>3. rs[i] = x /\ i \in DOMAIN rs
        BY <1>1, <4>1, <4>2
      <4> HIDE DEF rs
      <4> QED
        BY <4>3 DEF Range
    <3>2. \A x \in Range(rs) : x \in V
      BY <2>4 DEF Range
    <3> QED
      BY <3>1, <3>2
  <2>6. \A i \in DOMAIN rs : rs[i].obs \in Seq(X)
    <3> SUFFICES ASSUME NEW i \in DOMAIN keys PROVE f.perRes[keys[i]].obs \in Seq(X)
      OBVIOUS
    <3>1. keys[i] \in K /\ keys[i] \in DOMAIN store.perRes
      BY <1>1, <2>3 DEF Of
    <3> QED
      BY <1>0, <3>1, KeysAre
  <2> HIDE DEF rs, V, X
  <2>7. RolledUp(Aggregate(c, rs), Range(rs))
    BY <2>4, <2>6, AggregateIs
  <2> QED
    BY <2>1, <2>2, <2>5, <2>7, AggregatesAlike
<1>8. CASE c \notin DOMAIN store.results /\ c \notin DOMAIN store.aggregates
  <2>1. K = {}
    <3> SUFFICES ASSUME NEW k \in K PROVE FALSE
      OBVIOUS
    <3>1. k \in DOMAIN store.perRes /\ k[1] = c
      BY <1>1 DEF Of
    <3>2. pc[<<c, None>>] = "fan"
      BY <1>0, <1>8, <3>1 DEF Rolled
    <3>3. <<c, None>> \in Unit
      BY DEF Unit, Place
    <3> QED
      BY <3>2, <3>3 DEF IInv, Control
  <2> QED
    BY <1>4, <1>5, <1>8, <2>1 DEF Get, Found
<1> QED
  BY <1>6, <1>7, <1>8

\* The summary tells what the store holds: whenever a level is over, conditions, results of
\* resources and observations are those of a StaticResultStore seeded with it (teststore.go:19), and
\* sortSummary puts it in the one order there is (engine.go:494).
THEOREM SummaryIsStore == Spec => []SummaryTellsStore
<1>1. IInv /\ SumInv => SummaryTellsStore
  <2> SUFFICES ASSUME IInv, SumInv PROVE SummaryTellsStore
    OBVIOUS
  <2> DEFINE f == Fixture(summary)
  <2>1. Told /\ Rolled /\ Ordered
    BY DEF SumInv
  <2>2. f.results = store.results /\ f.perRes = store.perRes
    <3> DEFINE s == summary  V == Range(s)  D == DOMAIN s
    <3>1. s \in Seq(V) /\ Rows(s) /\ Tells(store, s, D)
      BY <2>1 DEF Told
    <3> HIDE DEF V
    <3>2. Tells(Fixture(s), s, D)
      BY <3>1, FixtureTells
    <3> HIDE DEF s, D
    <3>3. Fixture(s).results = store.results /\ Fixture(s).perRes = store.perRes
      BY <3>1, <3>2, TellsSame
    <3> QED
      BY <3>3 DEF s
  <2> HIDE DEF f
  <2>3. ASSUME phase # "wait", NEW c \in Check
        PROVE  \A k \in {"passed", "observed", "skipped"} : Is(k, Get(store, c)) = Is(k, FixtureGet(f, c))
    BY <2>2, <2>3, SameAnswers
  <2>4. ASSUME NEW u \in DOMAIN store.perRes
        PROVE  FixtureGetForResource(f, u[1], u[2]) = GetForResource(store, u[1], u[2])
    <3>1. u = <<u[1], u[2]>>
      BY <2>1, KeysAre DEF Unit
    <3> QED
      BY <2>2, <3>1 DEF FixtureGetForResource, GetForResource, Found
  <2>5. Observations(f) = Observations(store)
    BY <2>2 DEF Observations
  <2>6. ASSUME phase = "done", NEW i \in DOMAIN summary, NEW j \in DOMAIN summary, i < j
        PROVE  LET a == summary[i] b == summary[j] IN
               /\ Order[a.check] <= Order[b.check]
               /\ Order[a.check] = Order[b.check] => Rank[a.check] <= Rank[b.check]
               /\ a.check = b.check => Rank[a.res] < Rank[b.res]
    <3> DEFINE a == summary[i]  b == summary[j]
    <3>1. SummaryLess(a, b)
      BY <2>1, <2>6 DEF Ordered
    <3>2. a.check \in Check /\ b.check \in Check /\ a.res \in Place /\ b.res \in Place
      BY <2>1 DEF Told, Rows, IsRow
    <3> HIDE DEF a, b
    <3>3. Order[a.check] \in Int /\ Order[b.check] \in Int
      BY <3>2, PlanAssumption
    <3>4. Rank[a.check] \in Int /\ Rank[b.check] \in Int /\ Rank[a.res] \in Int /\ Rank[b.res] \in Int
      BY <3>2, RankType
    <3>5. \/ Order[a.check] < Order[b.check]
          \/ Order[a.check] = Order[b.check] /\ Rank[a.check] < Rank[b.check]
          \/ a.check = b.check /\ Rank[a.res] < Rank[b.res]
      BY <3>1 DEF SummaryLess, KeyLess
    <3>6. /\ Order[a.check] <= Order[b.check]
          /\ Order[a.check] = Order[b.check] => Rank[a.check] <= Rank[b.check]
          /\ a.check = b.check => Rank[a.res] < Rank[b.res]
      BY <3>3, <3>4, <3>5
    <3> QED
      BY <3>6 DEF a, b
  <2> QED
    BY <2>3, <2>4, <2>5, <2>6 DEF SummaryTellsStore, f
<1> QED
  BY <1>1, SumInvariant, ListsInv, ObservationsNamed, Invariance, PTL DEF Spec
=============================================================================
