------------------------------ MODULE Baseline ------------------------------
(***************************************************************************)
(* Baselines (baseline.go, baseline_compare.go): checks of one level       *)
(* capture what a place answers, checks of a later level read that capture *)
(* from the store, ask again and compare.  In between resources are        *)
(* discovered, captures fail and the target's pages change.                *)
(*                                                                         *)
(* The engine appears as far as the checks can tell: the invocations of a  *)
(* level in any order, each against the snapshot of the level, and what    *)
(* each leaves in the store and the summary.  Slots, cancellation and the  *)
(* steps of a single invocation are module Scan's.  An invocation is       *)
(* <<c, r>>, with r = None for a whole check; place r is what the check    *)
(* asks about resource r, place None the target itself.                    *)
(***************************************************************************)
EXTENDS Store, FiniteSetsExt

CONSTANTS Check, Resource,
          Kind,          \* "discover", "capture", "compare" (NewBaselineCheck) or "probe"
                         \* (ProbeAndCompareBaseline), for each check
          Global,        \* the checks with ScopeGlobal
          Order, Depth,  \* the level of each check, and the number of levels
          Conditions,    \* Check.Conditions
          Listings,      \* the resources a discovering check can list
          Sources,       \* the baseline sources each comparing check can be given
          Comparators,   \* the sets of comparators each comparing check can be given
          Policies,      \* "first", "last": WithResourceMerge
          Pages, First,  \* what a place can answer, [status, words], and does at first
          MaxBody,       \* WithMaxBodySize of each check
          Bits, WordBits,\* the bits of a SimHash, and the hash of each word
          Tolerance,     \* the tolerance of CompareStatusAndLength, in percent
          Threshold,     \* the threshold of CompareSimilarity, in bits that agree
          MaxEdits       \* how often a page has changed when it is asked

ASSUME ChecksAssumption == /\ Global \subseteq Check /\ None \notin Check \cup Resource
                           /\ Check \cup Resource \cup {None} \subseteq DOMAIN Rank
ASSUME NoneAssumption   == None \notin {"unanswered", "no baseline"}
ASSUME PlanAssumption   == Depth \in Nat /\ \A c \in Check : Order[c] \in 0..(Depth - 1)

Asking == {c \in Check : Kind[c] \in {"compare", "probe"}}

\* BaselineFromCheck names a check of the scan.
ASSUME SourcesAssumption == \A c \in Asking : \A s \in Sources[c] : s.of = "check" => s.check \in Check

\* BaselineCheckConfig has room for one comparator, ProbeAndCompareBaseline takes any number.
ASSUME ComparatorsAssumption ==
  \A c \in Asking : \A k \in Comparators[c] : /\ k \subseteq {"status", "length", "similarity", "custom"}
                                             /\ Kind[c] = "compare" => Cardinality(k) <= 1

\* A page is a status and a body.  No cap, which is what the code takes a cap below one byte
\* for (probe/do.go:90), is one that no page reaches.
ASSUME PagesAssumption  == /\ First \in Pages /\ None \notin Pages
                           /\ Pages \subseteq [status : Int, words : Seq(DOMAIN WordBits)]
                           /\ \A c \in Check : MaxBody[c] \in Nat \ {0}

\* A negative tolerance is none (baseline_compare.go:23), and a threshold outside 0..1 its nearer end
\* (baseline_compare.go:55).
ASSUME LimitsAssumption == Tolerance \in Nat /\ IsFiniteSet(Bits) /\ Threshold \in 0..Cardinality(Bits)

\* A discovering check returns a slice of resources.
ASSUME ListingsAssumption == \A c \in Check : Kind[c] = "discover" =>
                               \A l \in Listings[c] : /\ l \in Seq(Range(l))
                                                      /\ \A x \in Range(l) : x.id \in Resource

VARIABLES source, compare, policy, \* how the checks and the engine are configured
          page, edits,             \* what each place answered last, and the changes so far
          phase, level,            \* where run is
          store, snapshot,         \* resultStore, and the snapshot of the level
          pc,                      \* where each invocation is
          summary,                 \* ScanSummary.Results
          slice,                   \* the package-level slice a custom comparator returns
          seen,                    \* what each invocation was answered, or None
          versions                 \* every resource discovered, in the order of the discoveries

config == <<source, compare, policy>>
vars   == <<config, page, edits, phase, level, store, snapshot, pc, summary, slice, seen, versions>>

Place  == Resource \cup {None}
Unit   == Check \X Place
Blank  == [check |-> None, res |-> None]
Listed(s) == {s.resources[i].id : i \in DOMAIN s.resources}

Init == /\ source \in {s \in [Asking -> UNION Range(Sources)] : \A c \in Asking : s[c] \in Sources[c]}
        /\ compare \in {f \in [Asking -> UNION Range(Comparators)] : \A c \in Asking : f[c] \in Comparators[c]}
        /\ policy \in Policies
        /\ page = [x \in Place |-> First] /\ edits = 0
        /\ phase = "level" /\ level = 0
        /\ store = EmptyStore /\ snapshot = EmptyStore
        /\ pc = [u \in Unit |-> "idle"]
        /\ summary = <<>> /\ slice = <<Blank>>
        /\ seen = [u \in Unit |-> None] /\ versions = <<>>

-----------------------------------------------------------------------------
(* Snapshots and comparators.                                              *)

\* SimHash: a bit is set when more words have it than do not.
SimHash(words) ==
  {b \in Bits : 2 * Cardinality({i \in DOMAIN words : b \in WordBits[words[i]]}) > Len(words)}

\* CaptureSnapshot of an answer, with the body cut at cap.
CaptureSnapshot(p, cap) ==
  LET body == SubSeq(p.words, 1, IF Len(p.words) < cap THEN Len(p.words) ELSE cap)
  IN  [status |-> p.status, body |-> body, hash |-> SimHash(body), cut |-> Len(p.words) > cap]

\* The zero Snapshot, and one written down by hand: its hash is unset.
Manual(p)     == [status |-> p.status, body |-> p.words, hash |-> {}, cut |-> FALSE]
EmptySnapshot == Manual([status |-> 0, words |-> <<>>])

BodyHash(s) == IF s.hash # {} THEN s.hash ELSE SimHash(s.body)

Agreement(a, b) == Cardinality(Bits) - Cardinality((a \ b) \cup (b \ a))

LengthDeviates(b, s) == LET bl == Len(b.body) cl == Len(s.body)
                            diff == IF cl > bl THEN cl - bl ELSE bl - cl
                        IN  100 * diff > Tolerance * bl

\* What one comparator flags: CompareStatusCode and the custom comparator, CompareStatusAndLength,
\* CompareSimilarity.
Flags(k, b, s) ==
  \/ b.status # s.status
  \/ k = "length" /\ ~b.cut /\ ~s.cut /\ LengthDeviates(b, s)
  \/ k = "similarity" /\ Agreement(BodyHash(b), BodyHash(s)) < Threshold

\* The comparators in use: CompareStatusCode if none is given.
Given(u) == IF compare[u[1]] = {} THEN {"status"} ELSE compare[u[1]]

\* The response deviates if any comparator flags it.
Deviates(u, b, s) == \E k \in Given(u) : Flags(k, b, s)

\* The observations of an invocation: those of its comparator, of which a built-in one makes a new
\* slice, or the one that the caller of ProbeAndCompareBaseline makes when told of a deviation.
Shared(u) == Kind[u[1]] = "compare" /\ "custom" \in compare[u[1]]
Compared(u, b, s) == IF ~Deviates(u, b, s) THEN <<>> ELSE IF Shared(u) THEN slice ELSE <<Blank>>

\* Mutant: the aggregate is read for a resource as well.
LookupAggregate(u) ==
  LET s == source[u[1]]
  IN  CASE s.of = "static"   -> {s.snap}
        [] s.of = "resource" -> {}
        [] s.of = "check"    -> GetData(snapshot, s.check)

\* The baseline of an invocation, if there is one: StaticBaseline, BaselineFromResource,
\* BaselineFromCheck for a resource, and for a whole target, or for ProbeAndCompareBaseline
\* whatever its scope, the data of the check's own result.
Lookup(u) ==
  LET s == source[u[1]]
  IN  CASE s.of = "static"   -> {s.snap}
        [] s.of = "resource" -> {x.data : x \in {y \in Range(snapshot.resources) : y.id = u[2] /\ y.data # None}}
        [] s.of = "check" /\ (u[2] = None \/ Kind[u[1]] = "probe") -> GetData(snapshot, s.check)
        [] OTHER -> {x.data : x \in {y \in GetForResource(snapshot, s.check, u[2]) : y.data # None}}

-----------------------------------------------------------------------------
(* Invocations.                                                            *)

\* fillObservations: a copy, in which every empty field names the invocation.
Or(x, y)     == IF x = None THEN y ELSE x
Fill(obs, u) == [i \in DOMAIN obs |-> [check |-> Or(obs[i].check, u[1]), res |-> Or(obs[i].res, u[2])]]

\* Mutant: the observations are filled in where they are.
FinishInPlace(u, r) ==
  LET full == [r EXCEPT !.obs = Fill(@, u)]
  IN  /\ store' = MergeResources(policy, Put(store, full), r.emits)
      /\ summary' = Append(summary, full)
      /\ versions' = versions \o r.emits
      /\ slice' = IF Shared(u) /\ r.obs # <<>> THEN full.obs ELSE slice
      /\ pc' = [pc EXCEPT ![u] = "done"]

\* What execute, set, mergeResources and record make of what an invocation returned.
Finish(u, r) ==
  LET full == [r EXCEPT !.obs = Fill(@, u)]
  IN  /\ store' = MergeResources(policy, Put(store, full), r.emits)
      /\ summary' = Append(summary, full)
      /\ versions' = versions \o r.emits
      /\ UNCHANGED slice
      /\ pc' = [pc EXCEPT ![u] = "done"]

Result(u) == NewResult(u[1], u[2])

Unasked(u) == /\ UNCHANGED <<config, page, edits, phase, level, snapshot, seen>>
              /\ pc[u] = "run"

\* The invocation asks its place, and is answered with page p, which may not be what the place
\* answered before.
Asked(u, p) == /\ pc[u] = "run"
               /\ seen' = [seen EXCEPT ![u] = p]
               /\ page' = [page EXCEPT ![u[2]] = p]
               /\ edits' = IF p = page[u[2]] THEN edits ELSE edits + 1
               /\ UNCHANGED <<config, phase, level, snapshot>>

\* What the place of u can answer.
Answers(u) == IF edits < MaxEdits THEN Pages ELSE {page[u[2]]}

Current(u, p) == CaptureSnapshot(p, MaxBody[u[1]])

Discover(u) == /\ Kind[u[1]] = "discover" /\ Unasked(u)
               /\ \E l \in Listings[u[1]] : Finish(u, [Result(u) EXCEPT !.emits = l])

\* Whoever asks and is not answered returns the error, whatever else is missing.
Unanswered(u) == /\ Unasked(u)
                 /\ \/ Kind[u[1]] \in {"capture", "probe"}
                    \/ Kind[u[1]] = "compare" /\ Lookup(u) # {}
                 /\ Finish(u, [Result(u) EXCEPT !.err = "unanswered"])

\* NewCaptureBaselineCheck and NewCaptureGlobalBaselineCheck.
Capture(u) == /\ Kind[u[1]] = "capture"
              /\ \E p \in Answers(u) : Asked(u, p) /\ Finish(u, [Result(u) EXCEPT !.data = Current(u, p)])

\* Mutant: without a baseline, the answer is compared with the zero Snapshot.
NoBaselineComparing(u) ==
  /\ Kind[u[1]] = "compare" /\ Lookup(u) = {}
  /\ \E p \in Answers(u) : /\ Asked(u, p)
                           /\ Finish(u, [Result(u) EXCEPT !.obs = Compared(u, EmptySnapshot, Current(u, p))])

\* NewBaselineCheck and NewGlobalBaselineCheck without a baseline: a skip, and nothing is sent.
NoBaseline(u) == /\ Unasked(u)
                 /\ Kind[u[1]] = "compare" /\ Lookup(u) = {}
                 /\ Finish(u, [Result(u) EXCEPT !.skip = TRUE])

\* ProbeAndCompareBaseline asks first, and without a baseline returns ErrNoBaseline.
ProbeNoBaseline(u) == /\ Kind[u[1]] = "probe" /\ Lookup(u) = {}
                      /\ \E p \in Answers(u) : Asked(u, p)
                      /\ Finish(u, [Result(u) EXCEPT !.err = "no baseline"])

\* Both of them with a baseline.
Compare(u) == /\ Kind[u[1]] \in {"compare", "probe"}
              /\ \E b \in Lookup(u), p \in Answers(u) :
                   Asked(u, p) /\ Finish(u, [Result(u) EXCEPT !.obs = Compared(u, b, Current(u, p))])

Invoke(u) == \/ Discover(u) \/ Unanswered(u) \/ Capture(u)
             \/ NoBaseline(u) \/ ProbeNoBaseline(u) \/ Compare(u)

-----------------------------------------------------------------------------
(* The engine around them.                                                 *)

AtLevel    == {c \in Check : Order[c] = level}
Quiet      == UNCHANGED <<config, page, edits, phase, level, snapshot, seen>>
Unrecorded == UNCHANGED <<summary, slice, versions>>

\* runCheck: a condition that does not hold, or no resources.
NothingToDo(c) == \/ ~ConditionsMet(Conditions[c], store)
                  \/ c \notin Global /\ store.resources = <<>>

\* runLevel: the snapshot, and the goroutines of the level.  What each check does depends
\* on the snapshot alone.
OpenLevel ==
  /\ phase = "level" /\ level < Depth
  /\ snapshot' = store
  /\ pc' = [u \in Unit |->
              IF u[1] \notin AtLevel THEN pc[u]
              ELSE IF NothingToDo(u[1]) THEN (IF u[2] = None THEN "skip" ELSE "idle")
              ELSE IF u[1] \in Global THEN (IF u[2] = None THEN "run" ELSE "idle")
              ELSE IF u[2] = None THEN "fan" ELSE IF u[2] \in Listed(store) THEN "run" ELSE "idle"]
  /\ phase' = "wait"
  /\ UNCHANGED <<config, page, edits, level, store, seen>> /\ Unrecorded

SkipCheck(c) == /\ pc[<<c, None>>] = "skip"
                /\ Finish(<<c, None>>, Skipped(c, None))
                /\ Quiet

\* wg.Wait of runPerResource, and the aggregate, in the order of the resources.
FanIn(c) == /\ pc[<<c, None>>] = "fan"
            /\ \A r \in Listed(snapshot) : pc[<<c, r>>] = "done"
            /\ store' = SetAggregate(store, Aggregate(c,
                 [i \in DOMAIN snapshot.resources |-> store.perRes[<<c, snapshot.resources[i].id>>]]))
            /\ pc' = [pc EXCEPT ![<<c, None>>] = "done"]
            /\ Unrecorded /\ Quiet

CloseLevel == /\ phase = "wait" /\ \A c \in AtLevel : pc[<<c, None>>] = "done"
              /\ phase' = "level" /\ level' = level + 1
              /\ UNCHANGED <<config, page, edits, store, snapshot, pc, seen>> /\ Unrecorded

\* sortSummary: by level, then check ID, then resource ID.
SummaryLess(a, b) == \/ Order[a.check] < Order[b.check]
                     \/ /\ Order[a.check] = Order[b.check]
                        /\ KeyLess(<<a.check, a.res>>, <<b.check, b.res>>)

\* No two results are level in that order, so there is one way to sort them.
Sorted(s) == [i \in DOMAIN s |-> s[CHOOSE j \in DOMAIN s :
                                     Cardinality({k \in DOMAIN s : SummaryLess(s[k], s[j])}) = i - 1]]

Finalize == /\ phase = "level" /\ level = Depth
            /\ summary' = Sorted(summary)
            /\ phase' = "done"
            /\ UNCHANGED <<config, page, edits, level, store, snapshot, pc, slice, seen, versions>>

Next == \/ OpenLevel \/ CloseLevel \/ Finalize
        \/ \E c \in Check : SkipCheck(c) \/ FanIn(c)
        \/ \E u \in Unit : Invoke(u)

Spec == Init /\ [][Next]_vars
-----------------------------------------------------------------------------
(* Properties.                                                             *)

ResultOf(u) == IF u[2] = None THEN Found(store.results, u[1]) ELSE Found(store.perRes, u)

\* The capture an invocation relies on: of its own resource, or of the target.
Relies(u)    == u[1] \in Asking /\ source[u[1]].of = "check" /\ Order[source[u[1]].check] < Order[u[1]]
Reference(u) == <<source[u[1]].check, IF Kind[u[1]] = "probe" THEN None ELSE u[2]>>
Judged(u)    == {r \in ResultOf(u) : Relies(u) /\ Status(r) \in {"passed", "failed"}}

\* VerdictFaithful: whoever judges an answer (baseline.go:196, baseline.go:141) held it against
\* what the same place answered the capture before it, never another resource's or the
\* target's answer: a status that changed in between is observed, and so is a length, if
\* CompareStatusAndLength is among the comparators and both pages were read to the end; a page
\* that did not change is not, though the two may read it up to different caps
\* (baseline_compare.go:28).  The similarity of prefixes of different length is excepted, as
\* baseline_compare.go:52 says.
Whole(u) == Len(seen[u].words) <= MaxBody[u[1]]
SameCut(u, v) == MaxBody[u[1]] = MaxBody[v[1]] \/ (Whole(u) /\ Whole(v))

VerdictFaithful ==
  \A u \in Unit : \A r \in Judged(u) :
    LET ref == Reference(u) was == seen[ref] now == seen[u] IN
    /\ now # None /\ was # None
    /\ now.status # was.status => r.obs # <<>>
    /\ "length" \in compare[u[1]] /\ Whole(ref) /\ Whole(u) /\ LengthDeviates(Manual(was), Manual(now))
         => r.obs # <<>>
    /\ now = was /\ ("similarity" \in compare[u[1]] => SameCut(u, ref)) => Status(r) = "passed"

\* MissingIsSkipped: where the capture failed, was of the other scope, or came before the
\* resource was discovered, nothing is judged: a comparing check is skipped and sends
\* nothing (baseline.go:187, baseline.go:332), ProbeAndCompareBaseline is an error (baseline.go:137).
MissingIsSkipped ==
  \A u \in Unit : \A r \in ResultOf(u) :
    Relies(u) /\ (\A q \in ResultOf(Reference(u)) : q.data = None) =>
      /\ r.obs = <<>>
      /\ IF Kind[u[1]] = "compare" THEN r.skip /\ seen[u] = None ELSE r.skip \/ r.err # None

\* Attributed: every observation stored names the check and the resource that made it, even
\* if a comparator hands the same slice to every invocation, and that slice is left as it
\* was (fillObservations, engine.go:541).
Attributed ==
  /\ slice = <<Blank>>
  /\ \A r \in Range(store.results) \cup Range(store.perRes) :
       \A i \in DOMAIN r.obs : r.obs[i] = [check |-> r.check, res |-> r.res]

\* SummaryTellsStore: whenever a level is over, a StaticResultStore seeded with the summary so far
\* (teststore.go:19) decides every condition, and returns every resource's result and the
\* observations, as the engine's own store does; and in whatever order invocations finished,
\* the final summary is in the order of level, check and resource (engine.go:494).
SummaryTellsStore ==
  /\ phase # "wait" =>
       LET f == Fixture(summary) IN
       /\ \A c \in Check : LET got == Get(store, c) fix == FixtureGet(f, c)
                           IN  \A k \in {"passed", "observed", "skipped"} : Is(k, got) = Is(k, fix)
       /\ \A u \in DOMAIN store.perRes : FixtureGetForResource(f, u[1], u[2]) = GetForResource(store, u[1], u[2])
       /\ Observations(f) = Observations(store)
  /\ phase = "done" =>
       \A i, j \in DOMAIN summary :
         LET a == summary[i] b == summary[j] IN
         i < j => /\ Order[a.check] <= Order[b.check]
                  /\ Order[a.check] = Order[b.check] => Rank[a.check] <= Rank[b.check]
                  /\ a.check = b.check => Rank[a.res] < Rank[b.res]

\* MergeKeeps: however often and by whomever resources are discovered, each ID is listed once,
\* in the order of the first discoveries, and with the version the merge function of
\* WithResourceMerge is for: the first or the last (engine.go:70).
Discovered == {versions[i].id : i \in DOMAIN versions}
FirstOf(id) == SelectInSeq(versions, LAMBDA v : v.id = id)
LastOf(id)  == SelectLastInSeq(versions, LAMBDA v : v.id = id)
MergeKeeps ==
  /\ Listed(store) = Discovered /\ Len(store.resources) = Cardinality(Discovered)
  /\ \A i, j \in DOMAIN store.resources : i < j => FirstOf(store.resources[i].id) < FirstOf(store.resources[j].id)
  /\ \A r \in Range(store.resources) : r = versions[IF policy = "first" THEN FirstOf(r.id) ELSE LastOf(r.id)]

\* PassedMeansAll: a check behind IfCheckPassed of a per-resource check runs only if that
\* check passed for each of its resources (condition.go:3).
PassedMeansAll ==
  \A c \in Check : \A k \in Conditions[c] : \A r \in ResultOf(<<c, None>>) :
    k.of = "passed" /\ ~k.negated /\ Status(r) # "skipped" =>
      \A u \in DOMAIN store.perRes : u[1] = k.check => Status(store.perRes[u]) = "passed"
=============================================================================
