------------------------------ MODULE Variants ------------------------------
(***************************************************************************)
(* variant.go, runVariants: the variants of one check, one after the other *)
(* or concurrently, with or without a cap on how many run at once.  Each   *)
(* variant leaves one Attempt at its own index; when the group has         *)
(* returned, the attempts are rolled up into one Result, one after the     *)
(* other.  The context of the check ends when the scan is cancelled or the *)
(* check's timeout expires.  A variant is named by its index; 0 is the     *)
(* empty name.                                                             *)
(***************************************************************************)
EXTENDS Naturals, Sequences, FiniteSets, FiniteSetsExt

CONSTANTS Count,      \* number of variants
          Schedules,  \* the <<mode, cap>> pairs considered; cap 0 is no cap
          Returns     \* what a variant's own code can do

Variant == 1..Count
Modes   == {"sequential", "parallel"}

\* What fn does: it panics, or returns an error beside a Result that may hold
\* another one, say that it skipped, and list observations, each with the name of
\* a variant or none.  "ctx" is the error of a context that ended.
Outcome == [panics : BOOLEAN, err : {"none", "ctx", "own"}, resErr : {"none", "ctx", "result"},
            skip : BOOLEAN, obs : Seq(0..Count)]

Attempt == [variant : 0..Count, err : {"none", "ctx", "own", "result", "panic"},
            skip : BOOLEAN, obs : Seq(0..Count)]

ASSUME CountAssumption    == Count \in Nat
ASSUME ScheduleAssumption == Schedules \subseteq Modes \X Nat
ASSUME ReturnsAssumption  == Returns \subseteq Outcome

VARIABLES mode, cap,  \* how this check schedules its variants
          ended,      \* ctx.Err() # nil
          pc,         \* where each variant is
          attempts,   \* the attempts left so far, by index
          next,       \* aggregateAttempts: the index it is at, 0 until the group returned
          outcome,    \* the Result made of the attempts so far
          given,      \* history: what the code of each variant did
          atEnd       \* history: where each variant was when the context ended

vars == <<mode, cap, ended, pc, attempts, next, outcome, given, atEnd>>

NotCalled  == [panics |-> FALSE, err |-> "not called", resErr |-> "none", skip |-> FALSE, obs |-> <<>>]
Blank      == [variant |-> 0, err |-> "none", skip |-> FALSE, obs |-> <<>>]
Unset      == [err |-> "none", skipped |-> 0, skip |-> FALSE, obs |-> <<>>, done |-> FALSE]
Refused(i) == [variant |-> i, err |-> "ctx", skip |-> FALSE, obs |-> <<>>]

Init == /\ \E s \in Schedules : mode = s[1] /\ cap = s[2]
        /\ ended \in BOOLEAN
        /\ pc = [i \in Variant |-> "waiting"]
        /\ attempts = [i \in Variant |-> Blank]
        /\ next = 0
        /\ outcome = Unset
        /\ given = [i \in Variant |-> NotCalled]
        /\ atEnd = pc

\* The scan is cancelled or the check times out; after the group returned nobody
\* looks at the context any more.
End == /\ ~ended /\ next = 0
       /\ ended' = TRUE
       /\ atEnd' = pc
       /\ UNCHANGED <<mode, cap, pc, attempts, next, outcome, given>>

-----------------------------------------------------------------------------
(* The variants.                                                           *)

Moves(i, from, to) == /\ pc[i] = from
                      /\ pc' = [pc EXCEPT ![i] = to]

\* Variant i has left the loop's body, or called wg.Done.
Over(i) == pc[i] = "over"

\* The loop of the sequential mode reaches variant i when the ones before are over.
Turn(i) == mode = "sequential" => \A j \in 1..(i - 1) : Over(j)

\* Mutant: nobody looks at the context.
LooksAtContextNever == FALSE

\* Whether a variant looks at the context before it begins: always in the loop,
\* and in Acquire, but there is no Acquire without a cap.
LooksAtContext == mode = "sequential" \/ cap > 0

\* The variants between Acquire and Release.
Holding == {i \in Variant : pc[i] \in {"ready", "running", "returned", "stored"}}

\* Variant i gets past its look at the context, in the loop or in Acquire (an atomic
\* step of Slots), which also takes a slot; without a cap its goroutine starts.
Enter(i) == /\ Moves(i, "waiting", "ready")
            /\ Turn(i)
            /\ LooksAtContext => ~ended
            /\ mode = "parallel" /\ cap > 0 => Cardinality(Holding) < cap
            /\ UNCHANGED <<mode, cap, ended, attempts, next, outcome, given, atEnd>>

\* The context ended before variant i got past its look.
Refuse(i) == /\ Moves(i, "waiting", "over")
             /\ Turn(i)
             /\ LooksAtContext /\ ended
             /\ attempts' = [attempts EXCEPT ![i] = Refused(i)]
             /\ UNCHANGED <<mode, cap, ended, next, outcome, given, atEnd>>

\* runVariantAttempt calls fn: the context may have ended since the look.
Begin(i) == /\ Moves(i, "ready", "running")
            /\ UNCHANGED <<mode, cap, ended, attempts, next, outcome, given, atEnd>>

\* fn returned or panicked.
Return(i) == /\ Moves(i, "running", "returned")
             /\ \E r \in Returns : given' = [given EXCEPT ![i] = r]
             /\ UNCHANGED <<mode, cap, ended, attempts, next, outcome, atEnd>>

\* What runVariantAttempt makes of it: a panic leaves nothing but itself, the
\* returned error goes before the Result's, and observations without a variant get
\* this one's name (fillObservations).
Attempted(i, r) ==
  IF r.panics THEN [Blank EXCEPT !.variant = i, !.err = "panic"]
  ELSE [variant |-> i,
        err     |-> IF r.err # "none" THEN r.err ELSE r.resErr,
        skip    |-> r.skip,
        obs     |-> [k \in DOMAIN r.obs |-> IF r.obs[k] = 0 THEN i ELSE r.obs[k]]]

\* Mutant: attempts are stored in the order in which the variants finish.
StoreNext(i) == /\ Moves(i, "returned", "stored")
                /\ LET free == Min({j \in Variant : attempts[j] = Blank})
                   IN  attempts' = [attempts EXCEPT ![free] = Attempted(i, given[i])]
                /\ UNCHANGED <<mode, cap, ended, next, outcome, given, atEnd>>

\* attempts[i] = runVariantAttempt(...).
Store(i) == /\ Moves(i, "returned", "stored")
            /\ attempts' = [attempts EXCEPT ![i] = Attempted(i, given[i])]
            /\ UNCHANGED <<mode, cap, ended, next, outcome, given, atEnd>>

\* The slot is released and wg.Done called, or the loop goes on.
Leave(i) == /\ Moves(i, "stored", "over")
            /\ UNCHANGED <<mode, cap, ended, attempts, next, outcome, given, atEnd>>

-----------------------------------------------------------------------------
(* aggregateAttempts.                                                      *)

\* wg.Wait returns, or the loop is at its end.
Gather == /\ next = 0
          /\ \A i \in Variant : Over(i)
          /\ next' = 1
          /\ UNCHANGED <<mode, cap, ended, pc, attempts, outcome, given, atEnd>>

\* Mutant: each later error replaces the earlier one.
LaterError(a) == IF a.err # "none" THEN a.err ELSE outcome.err

\* The error after attempt a: the first one stays.
ErrorWith(a) == IF outcome.err = "none" THEN a.err ELSE outcome.err

\* One turn of the loop over the attempts.
RollUp == /\ next \in Variant
          /\ LET a == attempts[next]
             IN  outcome' = [outcome EXCEPT !.obs = @ \o a.obs,
                                            !.err = ErrorWith(a),
                                            !.skipped = IF a.skip THEN @ + 1 ELSE @]
          /\ next' = next + 1
          /\ UNCHANGED <<mode, cap, ended, pc, attempts, given, atEnd>>

\* The Result is skipped when there are attempts and all of them were.
Conclude == /\ next = Count + 1 /\ ~outcome.done
            /\ outcome' = [outcome EXCEPT !.skip = Count > 0 /\ outcome.skipped = Count,
                                          !.done = TRUE]
            /\ UNCHANGED <<mode, cap, ended, pc, attempts, next, given, atEnd>>

Step == \/ \E i \in Variant : \/ Enter(i) \/ Refuse(i) \/ Begin(i)
                              \/ Return(i) \/ Store(i) \/ Leave(i)
        \/ Gather \/ RollUp \/ Conclude
Next == End \/ Step

\* The variants' own code returns; the goroutines and the loop keep running.
Spec == Init /\ [][Next]_vars /\ WF_vars(Step)
-----------------------------------------------------------------------------

\* Whatever the schedule, once the group has returned every variant has its attempt
\* at its own index, under its own name: the context's error if its code was not
\* called, which takes an ended context, and else what its code did, panicking,
\* failing or listing observations.  None is lost or misplaced when others finish
\* first, fail, panic or are refused.
EveryAttemptLeft == next > 0 => \A i \in Variant :
  LET a == attempts[i]
      r == given[i]
  IN  /\ a.variant = i
      /\ \/ r = NotCalled /\ ended /\ a = Refused(i)
         \/ r # NotCalled /\ r.panics /\ a.err = "panic" /\ a.obs = <<>>
         \/ /\ r # NotCalled /\ ~r.panics
            /\ a.err = "none" <=> r.err = "none" /\ r.resErr = "none"
            /\ a.err \in {r.err, r.resErr}
            /\ a.skip = r.skip
            /\ Len(a.obs) = Len(r.obs)
            /\ \A k \in 1..Len(r.obs) : a.obs[k] = IF r.obs[k] = 0 THEN i ELSE r.obs[k]

\* The observations of the attempts 1..n stand one after the other in obs, those of
\* attempt i after place cut[i - 1] and up to place cut[i].
Concatenated(obs, n) == \E cut \in [0..n -> 0..Len(obs)] :
  /\ cut[0] = 0 /\ cut[n] = Len(obs)
  /\ \A i \in 1..n :
       /\ cut[i] = cut[i - 1] + Len(attempts[i].obs)
       /\ \A k \in 1..Len(attempts[i].obs) : obs[cut[i - 1] + k] = attempts[i].obs[k]

\* The Result is the same whatever order the variants finished in: its error is that
\* of the first variant, in their order, that has one; it is skipped when all are;
\* and its observations are those of all attempts in the order of the variants.
RollUpInOrder == outcome.done =>
  /\ outcome.err = "none" => \A i \in Variant : attempts[i].err = "none"
  /\ outcome.err # "none" => \E i \in Variant : /\ outcome.err = attempts[i].err
                                                /\ \A j \in 1..(i - 1) : attempts[j].err = "none"
  /\ outcome.skip <=> Variant # {} /\ \A i \in Variant : attempts[i].skip
  /\ Concatenated(outcome.obs, Count)

\* The code of variant i has been called.
Called(i) == pc[i] = "running" \/ given[i] # NotCalled

\* The variants whose code was called after the context ended.
CalledLate == {i \in Variant : ended /\ Called(i) /\ atEnd[i] \in {"waiting", "ready"}}

\* After the context ended, the loop calls the code of at most one more variant and a
\* group under a cap that of at most as many as the cap lets in: those that had got
\* past their look at the context before it ended.
EndStopsTheRest == /\ mode = "sequential" => Cardinality(CalledLate) <= 1
                   /\ mode = "parallel" /\ cap > 0 => Cardinality(CalledLate) <= cap

\* "If ctx is cancelled, variants that have not started do not run"
\* (variant.go:37), in every schedule; a variant past its look counts as started.
EndStopsEveryVariant == \A i \in Variant : ended /\ atEnd[i] = "waiting" => ~Called(i)
=============================================================================
