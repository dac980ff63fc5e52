-------------------------------- MODULE Scan --------------------------------
(***************************************************************************)
(* One call of Engine.Run or Engine.RunScenario (engine.go): the checks of *)
(* one dependency level run concurrently against a snapshot of the results *)
(* of the earlier levels, a per-resource check fans out over the resources *)
(* of that snapshot, and every result goes to the store, to the reporters  *)
(* and to the summary.  The context can be cancelled at any moment.        *)
(*                                                                         *)
(* A goroutine is a unit <<c, r>>: <<c, None>> runs check c, <<c, r>> runs *)
(* the per-resource check c against resource r.  Each step of a goroutine  *)
(* is what it does between two points where another goroutine can          *)
(* interfere: a lock, a semaphore, a callback, or the check's own code.    *)
(* Semaphores appear as the atomic Slots specification that module         *)
(* Semaphore implements, the order of the checks as what module Levels     *)
(* guarantees, and several reporters as one.                               *)
(***************************************************************************)
EXTENDS Integers, Sequences, FiniteSets, Functions

CONSTANTS Check,           \* the checks given to run, after run-option filtering
          Resource,        \* the resource IDs checks can discover
          None,            \* no resource
          DependsOn,       \* the dependencies of each check
          Order, Depth,    \* the level of each check, and the number of levels
          GlobalChecks,    \* the checks with ScopeGlobal; the others are per resource
          Outcomes,        \* the results each check's own code can return
          MaxConcurrency,  \* engineConfig.maxConcurrency
          ResConcurrency,  \* Check.Concurrency, or the engine's default for it
          Rejections       \* errors found before the scan starts

SkipReasons == {"no", "decision", "no resources", "cancelled", "all resources", "by the check"}

\* What the properties can tell apart of a Result: an error, the skip flag with
\* its reason, how many observations, and the IDs of the resources.
Result == [err : BOOLEAN, skip : SkipReasons, obs : Nat, emits : SUBSET Resource]

ASSUME SetsAssumption == /\ IsFiniteSet(Check) /\ Check # {}
                         /\ IsFiniteSet(Resource) /\ None \notin Resource
                         /\ GlobalChecks \subseteq Check
ASSUME OrderAssumption == /\ Depth \in Nat
                          /\ Order \in [Check -> 0..(Depth - 1)]
                          /\ DependsOn \in [Check -> SUBSET Check]
                          /\ \A c \in Check : \A d \in DependsOn[c] : Order[d] < Order[c]
ASSUME LimitsAssumption == /\ MaxConcurrency \in Nat \ {0}
                           /\ ResConcurrency \in [Check -> Nat \ {0}]
ASSUME OutcomesAssumption == /\ Outcomes \in [Check -> SUBSET Result]
                             /\ \A c \in Check : \A o \in Outcomes[c] : o.skip \in {"no", "by the check"}
ASSUME RejectionsAssumption == "none" \notin Rejections /\ "cancelled" \notin Rejections

VARIABLES
  refusal,    \* the configuration error this scan has, or "none"
  cancelled,  \* ctx.Err() # nil
  phase,      \* where the goroutine of run is
  level,      \* the index of the level it is at
  store,      \* resultStore
  snapshot,   \* the storeSnapshot of the current level
  pc,         \* where the goroutine of each unit is
  holding,    \* the units that hold a slot of their semaphore
  result,     \* the local variable result of each unit
  starts,     \* how often OnCheckStart was called for each unit
  completes,  \* how often OnCheckComplete was called for each unit
  planned,    \* the number OnResourcesDiscovered announced for each check
  scanEvents, \* how often OnScanStart and OnScanComplete were called
  summary     \* ScanSummary

mainVars   == <<refusal, phase, level, snapshot>>
reportVars == <<starts, completes, planned, scanEvents>>
vars       == <<refusal, cancelled, phase, level, store, snapshot, pc, holding, result,
                starts, completes, planned, scanEvents, summary>>

Unit        == Check \X (Resource \cup {None})
U(c)        == <<c, None>>
Fan(c)      == {c} \X Resource
IsGlobal(u) == u[2] = None
AtLevel(l)  == {c \in Check : Order[c] = l}

EmptyStore == [results    |-> [c \in {} |-> {}],
               perRes     |-> [u \in {} |-> {}],
               aggregates |-> [c \in {} |-> {}],
               resources  |-> <<>>]

NoResult       == [err |-> FALSE, skip |-> "no", obs |-> 0, emits |-> {}]
Skipped(why)   == [NoResult EXCEPT !.skip = why]

Init == /\ refusal \in Rejections \cup {"none"}
        /\ cancelled \in BOOLEAN
        /\ phase = "start" /\ level = 0
        /\ store = EmptyStore /\ snapshot = EmptyStore
        /\ pc = [u \in Unit |-> "idle"]
        /\ holding = {}
        /\ result = [u \in Unit |-> NoResult]
        /\ starts = [u \in Unit |-> 0] /\ completes = [u \in Unit |-> 0]
        /\ planned = [c \in Check |-> 0]
        /\ scanEvents = [start |-> 0, complete |-> 0]
        /\ summary = [total |-> 0, executed |-> 0, skipped |-> 0, failed |-> 0,
                      results |-> [u \in Unit |-> 0], observations |-> 0, err |-> "none"]

-----------------------------------------------------------------------------
(* The store, the summary and the reporters.                               *)

Put(f, k, v) == [x \in DOMAIN f \cup {k} |-> IF x = k THEN v ELSE f[x]]

\* set and setForResource.
Stored(s, u, r) == IF IsGlobal(u) THEN [s EXCEPT !.results = Put(@, u[1], r)]
                                  ELSE [s EXCEPT !.perRes = Put(@, u, r)]

\* mergeResources: a resource already known keeps its position and is not added
\* again; the others are appended in the order in which the check listed them.
Listings(S) == {l \in [1..Cardinality(S) -> S] : IsInjective(l)}

\* Mutant: no look at what is known.
MergedTwice(s, emits) == {[s EXCEPT !.resources = @ \o l] : l \in Listings(emits)}

Merged(s, emits) ==
  {[s EXCEPT !.resources = @ \o l] : l \in Listings(emits \ Range(s.resources))}

\* Result.Status.
Status(r) == IF r.err THEN "error"
             ELSE IF r.skip # "no" THEN "skipped"
             ELSE IF r.obs > 0 THEN "failed" ELSE "passed"

\* The locked half of record: one counter, and one entry of Results.
Recorded(s, u, r) ==
  [s EXCEPT !.failed   = IF Status(r) = "error"   THEN @ + 1 ELSE @,
            !.skipped  = IF Status(r) = "skipped" THEN @ + 1 ELSE @,
            !.executed = IF Status(r) \notin {"error", "skipped"} THEN @ + 1 ELSE @,
            !.results[u] = @ + 1]

\* How many observations the results of a table have together.
TotalObs(rs) == SumFunction([k \in DOMAIN rs |-> rs[k].obs])

\* aggregateResources: all the observations, an error if any resource had one,
\* skipped only if every resource was.
Aggregate(rs) ==
  [err   |-> \E u \in DOMAIN rs : rs[u].err,
   skip  |-> IF DOMAIN rs # {} /\ \A u \in DOMAIN rs : ~rs[u].err /\ rs[u].skip # "no"
               THEN "all resources" ELSE "no",
   obs   |-> TotalObs(rs),
   emits |-> {}]

-----------------------------------------------------------------------------
(* run: the goroutine of the caller.                                       *)

Cancel == /\ ~cancelled
          /\ cancelled' = TRUE
          /\ UNCHANGED <<mainVars, store, pc, holding, result, reportVars, summary>>

\* preErr, no checks, an invalid check, or an order that does not exist.
Reject == /\ phase = "start" /\ refusal # "none"
          /\ summary' = [summary EXCEPT !.err = refusal]
          /\ phase' = "final"
          /\ UNCHANGED <<refusal, cancelled, level, store, snapshot, pc, holding, result, reportVars>>

Begin == /\ phase = "start" /\ refusal = "none"
         /\ summary' = [summary EXCEPT !.total = Cardinality(Check)]
         /\ scanEvents' = [scanEvents EXCEPT !.start = @ + 1]
         /\ phase' = "level"
         /\ UNCHANGED <<refusal, cancelled, level, store, snapshot, pc, holding, result,
                        starts, completes, planned>>

\* The top of the loop and the start of runLevel: one snapshot for the level, one
\* goroutine for each of its checks.
OpenLevel == /\ phase = "level" /\ level < Depth /\ ~cancelled
             /\ snapshot' = store
             /\ pc' = [u \in Unit |-> IF IsGlobal(u) /\ Order[u[1]] = level THEN "acquire" ELSE pc[u]]
             /\ phase' = "wait"
             /\ UNCHANGED <<refusal, cancelled, level, store, holding, result, reportVars, summary>>

\* Mutant: no wg.Wait.
CloseLevelAtOnce == /\ phase = "wait"
                    /\ phase' = "level" /\ level' = level + 1
                    /\ UNCHANGED <<refusal, cancelled, snapshot, store, pc, holding, result,
                                   reportVars, summary>>

\* wg.Wait of runLevel.
CloseLevel == /\ phase = "wait"
              /\ \A c \in AtLevel(level) : pc[U(c)] = "done"
              /\ phase' = "level" /\ level' = level + 1
              /\ UNCHANGED <<refusal, cancelled, snapshot, store, pc, holding, result, reportVars, summary>>

\* The loop found the context cancelled: the checks of this level and of the
\* later ones are recorded without having run, one recordCancelled each.
Abandon == /\ phase = "level" /\ level < Depth /\ cancelled
           /\ phase' = "drain"
           /\ UNCHANGED <<refusal, cancelled, level, store, snapshot, pc, holding, result,
                          reportVars, summary>>

Undrained == {c \in Check : Order[c] >= level /\ pc[U(c)] = "idle"}

RecordCancelled(c) ==
  /\ phase = "drain" /\ c \in Undrained
  /\ \A d \in Undrained : Order[c] <= Order[d]
  /\ result' = [result EXCEPT ![U(c)] = Skipped("cancelled")]
  /\ store' = Stored(store, U(c), Skipped("cancelled"))
  /\ completes' = [completes EXCEPT ![U(c)] = @ + 1]
  /\ summary' = Recorded(summary, U(c), Skipped("cancelled"))
  /\ pc' = [pc EXCEPT ![U(c)] = "done"]
  /\ UNCHANGED <<mainVars, cancelled, holding, starts, planned, scanEvents>>

\* finalize(ctx.Err()) after the drain, finalize(ctx.Err() or nil) after the loop.
EndLoop == /\ \/ phase = "drain" /\ Undrained = {}
              \/ phase = "level" /\ level = Depth
           /\ summary' = [summary EXCEPT !.err = IF cancelled THEN "cancelled" ELSE "none"]
           /\ phase' = "final"
           /\ UNCHANGED <<refusal, cancelled, level, store, snapshot, pc, holding, result, reportVars>>

\* finalize: sortSummary rebuilds the observations from the results, then
\* OnScanComplete.  The order of the results is left to module Baseline.
Finalize == /\ phase = "final"
            /\ summary' = [summary EXCEPT !.observations =
                 SumFunction([u \in Unit |-> summary.results[u] * result[u].obs])]
            /\ scanEvents' = [scanEvents EXCEPT !.complete = @ + 1]
            /\ phase' = "done"
            /\ UNCHANGED <<refusal, cancelled, level, store, snapshot, pc, holding, result,
                           starts, completes, planned>>

-----------------------------------------------------------------------------
(* runLevel, runCheck, runGlobal and runPerResource: the goroutine of u.   *)

Goto(u, from, to) == pc[u] = from /\ pc' = [pc EXCEPT ![u] = to]

\* Mutant: one semaphore for checks and resources.
RivalsShared(u) == holding

\* The units that compete with u: the checks of the level, or the resources of
\* the same check, whose semaphore is its own.
Rivals(u) == IF IsGlobal(u) THEN {v \in holding : IsGlobal(v)}
                            ELSE holding \cap Fan(u[1])
Slots(u)  == IF IsGlobal(u) THEN MaxConcurrency ELSE ResConcurrency[u[1]]

\* Acquire returned true.
Acquire(u) == /\ Goto(u, "acquire", "decide")
              /\ ~cancelled
              /\ Cardinality(Rivals(u)) < Slots(u)
              /\ holding' = holding \cup {u}
              /\ UNCHANGED <<mainVars, cancelled, store, result, reportVars, summary>>

\* Mutant: the goroutine that got no slot just returns.
RefuseSilently(u) == /\ Goto(u, "acquire", "done")
                     /\ cancelled
                     /\ UNCHANGED <<mainVars, cancelled, store, holding, result, reportVars, summary>>

\* Acquire returned false.
Refuse(u) == /\ Goto(u, "acquire", "set")
             /\ cancelled
             /\ result' = [result EXCEPT ![u] = Skipped("cancelled")]
             /\ UNCHANGED <<mainVars, cancelled, store, holding, reportVars, summary>>

\* skipReason, and EvalResource for a resource: functions of the caller's that
\* may or may not ask for a skip.
Skip(u) == /\ Goto(u, "decide", "set")
           /\ result' = [result EXCEPT ![u] = Skipped("decision")]
           /\ UNCHANGED <<mainVars, cancelled, store, holding, reportVars, summary>>

\* A per-resource check with nothing to run over.
NoResources(u) == /\ IsGlobal(u) /\ u[1] \notin GlobalChecks
                  /\ snapshot.resources = <<>>
                  /\ Goto(u, "decide", "set")
                  /\ result' = [result EXCEPT ![u] = Skipped("no resources")]
                  /\ UNCHANGED <<mainVars, cancelled, store, holding, reportVars, summary>>

\* Mutants: the check gives its slot back while it fans out; it announces the
\* resources of the store instead of those of its snapshot.
FanOutReleasing(u) ==
  /\ IsGlobal(u) /\ u[1] \notin GlobalChecks /\ snapshot.resources # <<>> /\ pc[u] = "decide"
  /\ pc' = [v \in Unit |-> IF v = u THEN "fan"
              ELSE IF v[1] = u[1] /\ v[2] \in Range(snapshot.resources) THEN "acquire" ELSE pc[v]]
  /\ planned' = [planned EXCEPT ![u[1]] = Len(snapshot.resources)]
  /\ holding' = holding \ {u}
  /\ UNCHANGED <<mainVars, cancelled, store, result, starts, completes, scanEvents, summary>>
FanOutLive(u) ==
  /\ IsGlobal(u) /\ u[1] \notin GlobalChecks /\ snapshot.resources # <<>> /\ pc[u] = "decide"
  /\ pc' = [v \in Unit |-> IF v = u THEN "fan"
              ELSE IF v[1] = u[1] /\ v[2] \in Range(snapshot.resources) THEN "acquire" ELSE pc[v]]
  /\ planned' = [planned EXCEPT ![u[1]] = Len(store.resources)]
  /\ UNCHANGED <<mainVars, cancelled, store, holding, result, starts, completes, scanEvents, summary>>

\* A per-resource check announces how many resources it runs over and spawns a
\* goroutine for each of them.
FanOut(u) == /\ IsGlobal(u) /\ u[1] \notin GlobalChecks
             /\ snapshot.resources # <<>>
             /\ pc[u] = "decide"
             /\ pc' = [v \in Unit |-> IF v = u THEN "fan"
                         ELSE IF v[1] = u[1] /\ v[2] \in Range(snapshot.resources)
                         THEN "acquire" ELSE pc[v]]
             /\ planned' = [planned EXCEPT ![u[1]] = Len(snapshot.resources)]
             /\ UNCHANGED <<mainVars, cancelled, store, holding, result,
                            starts, completes, scanEvents, summary>>

\* OnCheckStart, then the call of the check's own code.
Start(u) == /\ IsGlobal(u) => u[1] \in GlobalChecks
            /\ Goto(u, "decide", "exec")
            /\ starts' = [starts EXCEPT ![u] = @ + 1]
            /\ UNCHANGED <<mainVars, cancelled, store, holding, result, completes, planned, scanEvents, summary>>

\* Mutant: an error leaves the goroutine without a record.
ReturnUnrecorded(u) == \E o \in Outcomes[u[1]] :
  /\ Goto(u, "exec", IF o.err THEN "exit" ELSE IF IsGlobal(u) \/ o.emits = {} THEN "set" ELSE "merge")
  /\ result' = [result EXCEPT ![u] = o]
  /\ UNCHANGED <<mainVars, cancelled, store, holding, reportVars, summary>>

\* The check's code returned, failed, panicked or timed out: execute gives a
\* result in each case.  mergeResources returns at once when there is nothing to
\* merge; it comes before the result is stored for a resource, after it for a
\* global check.
Return(u) == \E o \in Outcomes[u[1]] :
  /\ Goto(u, "exec", IF IsGlobal(u) \/ o.emits = {} THEN "set" ELSE "merge")
  /\ result' = [result EXCEPT ![u] = o]
  /\ UNCHANGED <<mainVars, cancelled, store, holding, reportVars, summary>>

\* Mutant: the checks of the level read the store itself.
SetLive(u) == /\ Goto(u, "set", IF IsGlobal(u) /\ result[u].emits # {} THEN "merge" ELSE "report")
              /\ store' = Stored(store, u, result[u]) /\ snapshot' = store'
              /\ UNCHANGED <<refusal, cancelled, phase, level, holding, result, reportVars, summary>>

Set(u) == /\ Goto(u, "set", IF IsGlobal(u) /\ result[u].emits # {} THEN "merge" ELSE "report")
          /\ store' = Stored(store, u, result[u])
          /\ UNCHANGED <<mainVars, cancelled, holding, result, reportVars, summary>>

Merge(u) == /\ Goto(u, "merge", IF IsGlobal(u) THEN "report" ELSE "set")
            /\ store' \in Merged(store, result[u].emits)
            /\ UNCHANGED <<mainVars, cancelled, holding, result, reportVars, summary>>

\* record: the callback, then the counters under the lock.
Report(u) == /\ Goto(u, "report", "count")
             /\ completes' = [completes EXCEPT ![u] = @ + 1]
             /\ UNCHANGED <<mainVars, cancelled, store, holding, result, starts, planned, scanEvents, summary>>

Count(u) == /\ Goto(u, "count", "exit")
            /\ summary' = Recorded(summary, u, result[u])
            /\ UNCHANGED <<mainVars, cancelled, store, holding, result, reportVars>>

\* wg.Wait of runPerResource, then the rolled-up result.
Spawned(c)  == {u \in Fan(c) : pc[u] # "idle"}

\* Mutant: no wg.Wait.
FanInAtOnce(u) == /\ IsGlobal(u)
                  /\ Goto(u, "fan", "exit")
                  /\ store' = [store EXCEPT !.aggregates =
                       Put(@, u[1], Aggregate([v \in Spawned(u[1]) |-> result[v]]))]
                  /\ UNCHANGED <<mainVars, cancelled, holding, result, reportVars, summary>>

FanIn(u) == /\ IsGlobal(u)
            /\ \A v \in Spawned(u[1]) : pc[v] = "done"
            /\ Goto(u, "fan", "exit")
            /\ store' = [store EXCEPT !.aggregates =
                 Put(@, u[1], Aggregate([v \in Spawned(u[1]) |-> result[v]]))]
            /\ UNCHANGED <<mainVars, cancelled, holding, result, reportVars, summary>>

\* The deferred Release and wg.Done; a goroutine refused its slot has none to release.
Exit(u) == /\ Goto(u, "exit", "done")
           /\ holding' = holding \ {u}
           /\ UNCHANGED <<mainVars, cancelled, store, result, reportVars, summary>>

-----------------------------------------------------------------------------

Main    == \/ Reject \/ Begin \/ OpenLevel \/ CloseLevel \/ Abandon \/ EndLoop \/ Finalize
           \/ \E c \in Check : RecordCancelled(c)
Step(u) == \/ Acquire(u) \/ Refuse(u) \/ Skip(u) \/ NoResources(u) \/ FanOut(u) \/ Start(u)
           \/ Return(u) \/ Set(u) \/ Merge(u) \/ Report(u) \/ Count(u) \/ FanIn(u) \/ Exit(u)

(***************************************************************************)
(* As long as some goroutine can run, one does: the scheduler owes a scan  *)
(* no more than that, since every step brings its end nearer.  The check's *)
(* own code is among what can run: it returns, because the engine has no   *)
(* way to stop code that ignores its context.  Cancel need not happen.     *)
(***************************************************************************)
Progress == Main \/ \E u \in Unit : Step(u)

Next == Cancel \/ Progress

SafeSpec == Init /\ [][Next]_vars
Spec     == SafeSpec /\ WF_vars(Progress)
-----------------------------------------------------------------------------
(* What a check's code reads from the snapshot.                            *)

\* storeSnapshot.Get: a check-level result, or else the rolled-up one.
Has(s, c) == c \in DOMAIN s.results \cup DOMAIN s.aggregates
Get(s, c) == IF c \in DOMAIN s.results THEN s.results[c] ELSE s.aggregates[c]

\* Mutant: the aggregates are searched too.
ObservationsTwice(s) == TotalObs(s.results) + TotalObs(s.perRes) + TotalObs(s.aggregates)

\* storeSnapshot.Observations: how many there are; aggregates are left out.
Observations(s) == TotalObs(s.results) + TotalObs(s.perRes)

-----------------------------------------------------------------------------
(* Properties.                                                             *)

PCs == {"idle", "acquire", "decide", "exec", "set", "merge", "report", "count",
        "fan", "exit", "done"}

\* Every variable has its type.
TypeOK ==
  /\ refusal \in Rejections \cup {"none"} /\ cancelled \in BOOLEAN
  /\ phase \in {"start", "level", "wait", "drain", "final", "done"} /\ level \in 0..Depth
  /\ \A s \in {store, snapshot} :
       /\ DOMAIN s.results \subseteq Check /\ DOMAIN s.aggregates \subseteq Check
       /\ DOMAIN s.perRes \subseteq Unit /\ s.resources \in Seq(Resource)
  /\ pc \in [Unit -> PCs] /\ holding \subseteq Unit /\ result \in [Unit -> Result]
  /\ starts \in [Unit -> Nat] /\ completes \in [Unit -> Nat] /\ planned \in [Check -> Nat]
  /\ scanEvents \in [start : Nat, complete : Nat]
  /\ {summary.total, summary.executed, summary.skipped, summary.failed} \subseteq Nat
  /\ summary.results \in [Unit -> Nat] /\ summary.err \in Rejections \cup {"none", "cancelled"}

RecordedUnits == {u \in Unit : summary.results[u] > 0}
Known(c) == UNION {result[u].emits : u \in {v \in RecordedUnits : Order[v[1]] < Order[c]}}

\* "The counts add up" (engine.go, run and recordCancelled): when a scan that began
\* ends, whether or not it was cancelled on the way, every check has exactly one
\* entry of its own, or exactly one for each resource that any check of an earlier
\* level discovered; the three counters count those entries; and Run returns nil only
\* if none of them was left out because of the cancellation.
EveryCheckAccounted == (phase = "done" /\ summary.total > 0) =>
  /\ \A c \in Check :
       LET fanned == {u[2] : u \in RecordedUnits \cap Fan(c)} IN
       IF U(c) \in RecordedUnits THEN fanned = {}
                                 ELSE fanned = Known(c) /\ fanned # {}
  /\ \A u \in Unit : summary.results[u] <= 1
  /\ summary.executed + summary.skipped + summary.failed = Cardinality(RecordedUnits)
  /\ summary.err = "none" => \A u \in RecordedUnits : result[u].skip # "cancelled"

\* When a check decides whether to run, and while it runs, the snapshot it was
\* given holds the final result of every check it depends on, and Get, the
\* conditions included, finds no result of a check of its own or a later level.
Deciding == {u \in Unit : pc[u] \in {"decide", "exec"}}

DependenciesVisible == \A u \in Deciding : \A d \in DependsOn[u[1]] :
  /\ Has(snapshot, d) /\ Get(snapshot, d) = Get(store, d)
  /\ pc[U(d)] = "done"

SameLevelInvisible == \A u \in Deciding : \A d \in Check : Order[d] >= Order[u[1]] =>
  ~Has(snapshot, d) /\ Fan(d) \cap DOMAIN snapshot.perRes = {}

\* Every observation is counted once, by the snapshot of each level and by the
\* final summary, although a per-resource check's are also in its aggregate.
ObservationsOnce ==
  /\ phase = "wait" => Observations(snapshot) =
       TotalObs([u \in {v \in RecordedUnits : Order[v[1]] < level} |-> result[u]])
  /\ phase = "done" => summary.observations =
       TotalObs([u \in RecordedUnits |-> result[u]])

\* The rolled-up result of a per-resource check tells its dependents what its
\* stored per-resource results say: an error if one has one, skipped only if all
\* are, and as many observations.
AggregateFaithful == \A c \in DOMAIN store.aggregates :
  LET mine == Fan(c) \cap DOMAIN store.perRes
      agg  == store.aggregates[c]
  IN /\ mine = Spawned(c)
     /\ agg.err <=> \E u \in mine : Status(store.perRes[u]) = "error"
     /\ Status(agg) = "skipped" <=> \A u \in mine : Status(store.perRes[u]) = "skipped"
     /\ agg.obs = TotalObs([u \in mine |-> store.perRes[u]])

\* No more than MaxConcurrency checks of a level run at once, counting a check for
\* as long as any of its resources runs, and no more than ResConcurrency[c]
\* resources of check c.
Running == {u \in Unit : pc[u] = "exec"}

ConcurrencyBounds ==
  /\ Cardinality({u[1] : u \in Running}) <= MaxConcurrency
  /\ \A c \in Check : Cardinality(Running \cap Fan(c)) <= ResConcurrency[c]

\* A resource is known once, keeps its position, and is never forgotten, whichever
\* of the concurrent checks that discover it comes first; and none is lost: what an
\* invocation discovered is known when it is over (engine.go:67).
ResourcesAppend == [][/\ IsInjective(store'.resources)
                      /\ Len(store.resources) <= Len(store'.resources)
                      /\ \A i \in DOMAIN store.resources :
                           store'.resources[i] = store.resources[i]
                      /\ \A u \in Unit : pc'[u] = "done" => result'[u].emits \subseteq Range(store'.resources)]_vars

\* The reporters see OnScanStart before anything about a check, each OnCheckStart
\* followed by one OnCheckComplete of the same unit before OnScanComplete, and an
\* unstarted unit complete only as skipped.
ReporterProtocol ==
  /\ \A u \in Unit :
       /\ starts[u] + completes[u] > 0 => scanEvents.start = 1
       /\ starts[u] <= 1 /\ completes[u] <= 1
       /\ completes[u] = 1 /\ starts[u] = 0 => Status(result[u]) = "skipped"
  /\ scanEvents.complete = 1 => \A u \in Unit : starts[u] = 1 => completes[u] = 1

\* OnScanComplete is the last callback of the scan.
NothingAfterScanComplete == [][scanEvents.complete = 1 => UNCHANGED reportVars]_vars

\* "TotalChecks and OnResourcesDiscovered are enough to size a progress bar"
\* (reporter.go:26): the completions that come are those announced.
ProgressBarFills == phase = "done" =>
  LET fanning == {c \in Check : planned[c] > 0} IN
  SumFunction(completes) = summary.total - Cardinality(fanning) + SumFunctionOnSet(planned, fanning)

\* The scan ends, however few slots there are.
Completes == <>(phase = "done")
=============================================================================
