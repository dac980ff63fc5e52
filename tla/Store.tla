------------------------------- MODULE Store -------------------------------
(***************************************************************************)
(* What a result store answers (resultStore and storeSnapshot of engine.go)*)
(* and what is read from it: Result.Status, the conditions of              *)
(* condition.go, GetData of helpers.go.  The fixture of teststore.go, a    *)
(* store without an engine, answers the same questions from the results it *)
(* was seeded with.  A store is a value; the operators that change it      *)
(* return the new one.                                                     *)
(*                                                                         *)
(* A result is [check, res, obs, skip, err, data, emits]: res is None for  *)
(* the result of a whole check, err and data are None when nil.  An        *)
(* observation is [check, res], None where the check left it empty.        *)
(***************************************************************************)
EXTENDS Integers, Sequences, FiniteSets, SequencesExt, Functions

CONSTANTS None,  \* nil, the empty string
          Rank   \* the order of the ID strings, as a rank for each

ASSUME RankAssumption == /\ Rank \in [DOMAIN Rank -> Int]
                         /\ \A a, b \in DOMAIN Rank : Rank[a] = Rank[b] => a = b

NewResult(c, r) == [check |-> c, res |-> r, obs |-> <<>>, skip |-> FALSE,
                    err |-> None, data |-> None, emits |-> <<>>]
Skipped(c, r)   == [NewResult(c, r) EXCEPT !.skip = TRUE]

\* Result.Status: an error wins, then the skip flag.
Status(r) == IF r.err # None THEN "error"
             ELSE IF r.skip THEN "skipped"
             ELSE IF r.obs # <<>> THEN "failed" ELSE "passed"

-----------------------------------------------------------------------------
(* resultStore: writing.                                                   *)

EmptyStore == [results |-> <<>>, perRes |-> <<>>, aggregates |-> <<>>, resources |-> <<>>]

With(f, k, v) == [x \in DOMAIN f \cup {k} |-> IF x = k THEN v ELSE f[x]]

\* set and setForResource.
Put(s, r) == IF r.res = None THEN [s EXCEPT !.results = With(@, r.check, r)]
             ELSE [s EXCEPT !.perRes = With(@, <<r.check, r.res>>, r)]

SetAggregate(s, r) == [s EXCEPT !.aggregates = With(@, r.check, r)]

\* KeepFirstResource and KeepLastResource.
Merge(policy, existing, incoming) == IF policy = "first" THEN existing ELSE incoming

\* Mutant: a resource discovered again goes to the end of the list.
MergeOneMoving(policy, known, res) ==
  LET old == SelectSeq(known, LAMBDA k : k.id = res.id)
      new == IF old = <<>> THEN res ELSE Merge(policy, old[1], res)
  IN  Append(SelectSeq(known, LAMBDA k : k.id # res.id), new)

\* One turn of the loop of mergeResources: a known ID keeps its place, and the
\* merge function decides which version stays there.
MergeOne(policy, known, res) ==
  IF \E i \in DOMAIN known : known[i].id = res.id
  THEN [i \in DOMAIN known |-> IF known[i].id = res.id THEN Merge(policy, known[i], res) ELSE known[i]]
  ELSE Append(known, res)

MergeAll(policy, known, found)   == FoldLeft(LAMBDA all, res : MergeOne(policy, all, res), known, found)
MergeResources(policy, s, found) == [s EXCEPT !.resources = MergeAll(policy, @, found)]

\* aggregateResources, of results in the order of their resources.
Joined(rs)     == FoldLeft(LAMBDA all, r : all \o r.obs, <<>>, rs)
FirstError(rs) == LET i == SelectInSeq(rs, LAMBDA r : r.err # None)
                  IN  IF i = 0 THEN None ELSE rs[i].err
AllSkipped(rs) == rs # <<>> /\ \A i \in DOMAIN rs : Status(rs[i]) = "skipped"

Aggregate(c, rs) == [NewResult(c, None) EXCEPT !.obs = Joined(rs), !.err = FirstError(rs), !.skip = AllSkipped(rs)]

-----------------------------------------------------------------------------
(* storeSnapshot: reading.  A lookup returns a set with at most one result. *)

Found(f, k) == IF k \in DOMAIN f THEN {f[k]} ELSE {}

Get(s, c) == IF c \in DOMAIN s.results THEN {s.results[c]} ELSE Found(s.aggregates, c)

GetForResource(s, c, r) == Found(s.perRes, <<c, r>>)

\* sortedKeys: by check ID, then by resource ID.
KeyLess(a, b) == \/ Rank[a[1]] < Rank[b[1]]
                 \/ a[1] = b[1] /\ Rank[a[2]] < Rank[b[2]]
SortedKeys(K)  == [i \in 1..Cardinality(K) |-> CHOOSE k \in K : Cardinality({j \in K : KeyLess(j, k)}) = i - 1]
SortedIDs(ids) == LET keys == SortedKeys(ids \X {None}) IN [i \in DOMAIN keys |-> keys[i][1]]

Concat(f, keys) == FoldLeft(LAMBDA all, k : all \o f[k].obs, <<>>, keys)

Observations(s) == Concat(s.results, SortedIDs(DOMAIN s.results)) \o Concat(s.perRes, SortedKeys(DOMAIN s.perRes))

\* GetData[Snapshot] and DataAs: the data of what Get returns, if there is any.
GetData(s, c) == {r.data : r \in {q \in Get(s, c) : q.data # None}}

\* The conditions, of what Get returns.
IfCheckPassed(got)   == \E r \in got : Status(r) = "passed"
IfCheckObserved(got) == \E r \in got : r.obs # <<>>
IfCheckSkipped(got)  == \E r \in got : Status(r) = "skipped"

Is(what, got) == CASE what = "passed"   -> IfCheckPassed(got)
                   [] what = "observed" -> IfCheckObserved(got)
                   [] what = "skipped"  -> IfCheckSkipped(got)

\* A condition is [of, check, negated]: Not negates, and a set of them stands for All.
Holds(cond, got) == Is(cond.of, got) # cond.negated

\* Check.skipReason for the conditions: all of them must hold.
ConditionsMet(conds, s) == \A c \in conds : Holds(c, Get(s, c.check))

-----------------------------------------------------------------------------
(* StaticResultStore.                                                      *)

\* Mutant: results of resources are stored as results of their check, too.
FixtureMixed(seeds) ==
  FoldLeft(LAMBDA s, r : Put(Put(s, r), [r EXCEPT !.res = None]), EmptyStore, seeds)

Fixture(seeds) == FoldLeft(Put, EmptyStore, seeds)

\* Get rolls the results of the resources up when there is none of the check.
FixtureGet(f, c) ==
  LET keys == SortedKeys({k \in DOMAIN f.perRes : k[1] = c})
  IN  IF c \in DOMAIN f.results THEN {f.results[c]}
      ELSE IF keys = <<>> THEN {}
      ELSE {Aggregate(c, [i \in DOMAIN keys |-> f.perRes[keys[i]]])}

FixtureGetForResource(f, c, r) ==
  IF <<c, r>> \in DOMAIN f.perRes THEN {f.perRes[<<c, r>>]} ELSE Found(f.results, c)
=============================================================================
