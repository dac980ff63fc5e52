---------------------------- MODULE VariantsProof ----------------------------
(***************************************************************************)
(* Variants for any number of variants, any schedule and any behaviour of  *)
(* their code.  Each variant's attempt is what its place calls for (Fits); *)
(* once the group has returned every variant is over (Gathered), so that   *)
(* the attempts stay what they are while the Result is made of them one by *)
(* one (Rolled).  The schedule bounds how many variants are past their     *)
(* look and not over (Limited); the context's end freezes who they are     *)
(* (AtTheEnd), and nobody joins them.                                      *)
(***************************************************************************)
EXTENDS Variants, FiniteSetTheorems, SequenceTheorems, TLAPS

Places  == {"waiting", "ready", "running", "returned", "stored", "over"}
Results == [err : {"none", "ctx", "own", "result", "panic"}, skipped : Nat, skip : BOOLEAN,
            obs : Seq(0..Count), done : BOOLEAN]

Types == /\ <<mode, cap>> \in Schedules
         /\ ended \in BOOLEAN
         /\ pc \in [Variant -> Places]
         /\ attempts \in [Variant -> Attempt]
         /\ next \in 0..(Count + 1)
         /\ outcome \in Results
         /\ given \in [Variant -> Outcome \union {NotCalled}]
         /\ atEnd \in [Variant -> Places]

\* What variant i has done and left, by the place it is at.
Fits(i) ==
  /\ pc[i] \in {"waiting", "ready", "running"} => given[i] = NotCalled
  /\ pc[i] \in {"returned", "stored"} => given[i] \in Outcome
  /\ pc[i] = "stored" => attempts[i] = Attempted(i, given[i])
  /\ pc[i] = "over" => \/ given[i] \in Outcome /\ attempts[i] = Attempted(i, given[i])
                       \/ given[i] = NotCalled /\ ended /\ attempts[i] = Refused(i)

Gathered == next > 0 => \A i \in Variant : Over(i)

\* The Result when the attempts 1..n are in it.
RolledTo(n) ==
  /\ outcome.err = "none" => \A i \in 1..n : attempts[i].err = "none"
  /\ outcome.err # "none" => \E i \in 1..n : /\ outcome.err = attempts[i].err
                                             /\ \A j \in 1..(i - 1) : attempts[j].err = "none"
  /\ outcome.skipped <= n
  /\ outcome.skipped = n <=> \A i \in 1..n : attempts[i].skip
  /\ Concatenated(outcome.obs, n)

Rolled == /\ IF next = 0 THEN outcome = Unset ELSE RolledTo(next - 1)
          /\ outcome.done => /\ next = Count + 1
                             /\ outcome.skip <=> Count > 0 /\ outcome.skipped = Count

Limited ==
  /\ mode = "sequential" => \A i \in Variant : \A j \in 1..(i - 1) : pc[i] # "waiting" => Over(j)
  /\ mode = "parallel" /\ cap > 0 => Cardinality(Holding) <= cap

ReadyAtEnd == {i \in Variant : atEnd[i] = "ready"}

AtTheEnd == ended =>
  /\ LooksAtContext => \A i \in Variant :
       atEnd[i] = "waiting" => pc[i] \in {"waiting", "over"} /\ given[i] = NotCalled
  /\ mode = "sequential" => \A i, j \in ReadyAtEnd : i = j
  /\ mode = "parallel" /\ cap > 0 => Cardinality(ReadyAtEnd) <= cap

VInv == /\ Types
        /\ \A i \in Variant : Fits(i)
        /\ Gathered
        /\ Rolled
        /\ Limited
        /\ AtTheEnd

LEMMA VariantFinite == /\ IsFiniteSet(Variant)
                       /\ \A S \in SUBSET Variant : IsFiniteSet(S) /\ Cardinality(S) \in Nat
<1>1. IsFiniteSet(Variant)
  BY CountAssumption, FS_Interval DEF Variant
<1> QED
  BY <1>1, FS_Subset, FS_CardinalityType

\* What runVariantAttempt makes of what the code did is an attempt.
LEMMA AttemptedTyped == ASSUME NEW i \in Variant, NEW r \in Outcome
                        PROVE  Attempted(i, r) \in Attempt
<1>1. i \in 0..Count
  BY CountAssumption DEF Variant
<1>2. CASE r.panics
  <2>1. <<>> \in Seq(0..Count)
    OBVIOUS
  <2> QED
    BY <1>1, <1>2, <2>1 DEF Attempted, Attempt, Blank
<1>3. CASE ~r.panics
  <2> DEFINE obs == [k \in DOMAIN r.obs |-> IF r.obs[k] = 0 THEN i ELSE r.obs[k]]
  <2>1. r.obs \in Seq(0..Count)
    BY DEF Outcome
  <2>2. obs \in Seq(0..Count)
    <3>1. r.obs \in [1..Len(r.obs) -> 0..Count] /\ Len(r.obs) \in Nat
      BY <2>1, LenProperties
    <3>2. obs \in [1..Len(r.obs) -> 0..Count]
      BY <1>1, <3>1
    <3> HIDE DEF obs
    <3> QED
      BY <3>1, <3>2, SeqDef
  <2>3. /\ (IF r.err # "none" THEN r.err ELSE r.resErr) \in {"none", "ctx", "own", "result", "panic"}
        /\ r.skip \in BOOLEAN
    BY DEF Outcome
  <2> QED
    BY <1>1, <1>3, <2>2, <2>3 DEF Attempted, Attempt
<1>4. r.panics \in BOOLEAN
  BY DEF Outcome
<1> QED
  BY <1>2, <1>3, <1>4

-----------------------------------------------------------------------------
(* The invariant holds initially.                                          *)

LEMMA InitInv == Init => VInv
<1> SUFFICES ASSUME Init PROVE VInv
  OBVIOUS
<1>1. Types
  <2>1. \E s \in Schedules : <<mode, cap>> = <<s[1], s[2]>> /\ s = <<s[1], s[2]>>
    <3>1. PICK s \in Schedules : mode = s[1] /\ cap = s[2]
      BY DEF Init
    <3>2. s \in Modes \X Nat
      BY ScheduleAssumption
    <3> QED
      BY <3>1, <3>2
  <2>2. Blank \in Attempt /\ Unset \in Results /\ 0 \in 0..(Count + 1)
    <3>1. <<>> \in Seq(0..Count) /\ 0 \in 0..Count
      BY CountAssumption
    <3> QED
      BY <3>1, CountAssumption DEF Blank, Attempt, Unset, Results
  <2> QED
    BY <2>1, <2>2 DEF Init, Types, Places
<1>2. \A i \in Variant : Fits(i)
  BY DEF Init, Fits
<1>3. Gathered /\ Rolled
  BY DEF Init, Gathered, Rolled, Unset
<1>4. Limited
  <2>1. Holding = {}
    BY DEF Init, Holding
  <2> QED
    BY <2>1, <1>1, FS_EmptySet, ScheduleAssumption DEF Init, Limited, Types
<1>5. AtTheEnd
  <2>1. ReadyAtEnd = {}
    BY DEF Init, ReadyAtEnd
  <2>2. cap \in Nat
    BY <1>1, ScheduleAssumption DEF Types
  <2> QED
    BY <2>1, <2>2, FS_EmptySet DEF Init, AtTheEnd
<1> QED
  BY <1>1, <1>2, <1>3, <1>4, <1>5 DEF VInv

-----------------------------------------------------------------------------
(* A variant takes a step.                                                 *)

\* One variant goes from one place to the next, and nothing but its own attempt and
\* what its own code did changes: what is said of the others, of the Result and of
\* the time before the context's end stays.
LEMMA OneMoves ==
  ASSUME VInv, NEW i \in Variant, NEW from \in Places \ {"over"}, NEW to \in Places,
         Moves(i, from, to),
         NEW a \in Attempt, attempts' = [attempts EXCEPT ![i] = a],
         NEW r \in Outcome \union {NotCalled}, given' = [given EXCEPT ![i] = r],
         UNCHANGED <<mode, cap, ended, next, outcome, atEnd>>,
         Fits(i)', Limited',
         ended /\ LooksAtContext /\ atEnd[i] = "waiting" =>
           to \in {"waiting", "over"} /\ r = NotCalled
  PROVE  VInv'
<1>1. /\ pc' = [pc EXCEPT ![i] = to] /\ pc[i] = from
      /\ pc \in [Variant -> Places] /\ attempts \in [Variant -> Attempt]
      /\ given \in [Variant -> Outcome \union {NotCalled}]
  BY DEF Moves, VInv, Types
<1>2. Types'
  BY <1>1 DEF VInv, Types
<1>3. ASSUME NEW j \in Variant PROVE Fits(j)'
  <2>1. CASE j = i
    BY <2>1
  <2>2. CASE j # i
    BY <1>1, <2>2 DEF VInv, Fits
  <2> QED
    BY <2>1, <2>2
<1>4. next = 0
  <2>1. ~Over(i)
    BY <1>1 DEF Over
  <2> QED
    BY <2>1, CountAssumption DEF VInv, Gathered, Types
<1>5. Gathered' /\ Rolled'
  BY <1>4, CountAssumption DEF VInv, Gathered, Rolled, Unset
<1>6. AtTheEnd'
  <2>1. ReadyAtEnd' = ReadyAtEnd /\ LooksAtContext' = LooksAtContext
    BY DEF ReadyAtEnd, LooksAtContext
  <2>2. ASSUME ended, LooksAtContext, NEW j \in Variant, atEnd[j] = "waiting"
        PROVE  pc'[j] \in {"waiting", "over"} /\ given'[j] = NotCalled
    <3>1. CASE j = i
      BY <1>1, <2>2, <3>1
    <3>2. CASE j # i
      BY <1>1, <2>2, <3>2 DEF VInv, AtTheEnd
    <3> QED
      BY <3>1, <3>2
  <2> QED
    BY <2>1, <2>2 DEF VInv, AtTheEnd
<1> QED
  BY <1>2, <1>3, <1>5, <1>6 DEF VInv

\* The limit of the schedule stays when a variant goes on without taking a slot.
LEMMA GoesOn ==
  ASSUME VInv, NEW i \in Variant, NEW from \in Places \ {"over"}, NEW to \in Places \ {"waiting"},
         Moves(i, from, to), UNCHANGED <<mode, cap>>,
         to # "over" => from # "waiting", from = "waiting" => Turn(i)
  PROVE  Limited'
<1>1. /\ pc' = [pc EXCEPT ![i] = to] /\ pc[i] = from /\ pc \in [Variant -> Places]
  BY DEF Moves, VInv, Types
<1>2. ASSUME mode = "sequential", NEW j \in Variant, NEW k \in 1..(j - 1), pc'[j] # "waiting"
      PROVE  Over(k)'
  <2>1. Over(k) /\ k \in Variant
    <3>1. k \in Variant
      BY CountAssumption DEF Variant
    <3>2. CASE pc[j] = "waiting"
      BY <1>1, <1>2, <3>1, <3>2 DEF Turn
    <3>3. CASE pc[j] # "waiting"
      BY <1>2, <3>1, <3>3 DEF VInv, Limited
    <3> QED
      BY <3>1, <3>2, <3>3
  <2> QED
    BY <1>1, <2>1 DEF Over
<1>3. ASSUME mode = "parallel", cap > 0 PROVE Cardinality(Holding') <= cap
  <2>1. Holding' \subseteq Holding
    BY <1>1 DEF Holding, Places
  <2>2. Holding \in SUBSET Variant
    BY DEF Holding
  <2>3. Cardinality(Holding') <= Cardinality(Holding)
    BY <2>1, <2>2, VariantFinite, FS_Subset
  <2>4. cap \in Nat /\ Cardinality(Holding) <= cap /\ Cardinality(Holding) \in Nat
        /\ Cardinality(Holding') \in Nat
    BY <1>3, <2>1, <2>2, VariantFinite, ScheduleAssumption DEF VInv, Limited, Types
  <2> QED
    BY <2>3, <2>4
<1> QED
  BY <1>2, <1>3 DEF Limited

\* The limit stays when a variant gets past its look: it is its turn, or there is a slot.
LEMMA EnterLimited == ASSUME VInv, NEW i \in Variant, Enter(i) PROVE Limited'
<1>1. /\ pc' = [pc EXCEPT ![i] = "ready"] /\ pc[i] = "waiting" /\ pc \in [Variant -> Places]
      /\ UNCHANGED <<mode, cap>>
  BY DEF Enter, Moves, VInv, Types
<1>2. ASSUME mode = "sequential", NEW j \in Variant, NEW k \in 1..(j - 1), pc'[j] # "waiting"
      PROVE  Over(k)'
  <2>1. Over(k) /\ k \in Variant
    <3>1. k \in Variant
      BY CountAssumption DEF Variant
    <3>2. CASE j = i
      BY <1>2, <3>1, <3>2 DEF Enter, Turn
    <3>3. CASE j # i
      BY <1>1, <1>2, <3>1, <3>3 DEF VInv, Limited
    <3> QED
      BY <3>1, <3>2, <3>3
  <2> QED
    BY <1>1, <2>1 DEF Over
<1>3. ASSUME mode = "parallel", cap > 0 PROVE Cardinality(Holding') <= cap
  <2>1. Holding' = Holding \union {i} /\ Holding \in SUBSET Variant
    BY <1>1 DEF Holding
  <2>2. Cardinality(Holding') <= Cardinality(Holding) + 1
    BY <2>1, VariantFinite, FS_AddElement
  <2>3. Cardinality(Holding) < cap /\ cap \in Nat /\ Cardinality(Holding) \in Nat
    BY <1>3, <2>1, VariantFinite, ScheduleAssumption DEF Enter, VInv, Types
  <2>4. Cardinality(Holding') \in Nat
    BY <2>1, VariantFinite
  <2> QED
    BY <2>2, <2>3, <2>4
<1> QED
  BY <1>1, <1>2, <1>3 DEF Limited

LEMMA VariantSteps ==
  ASSUME VInv, NEW i \in Variant,
         Enter(i) \/ Refuse(i) \/ Begin(i) \/ Return(i) \/ Store(i) \/ Leave(i)
  PROVE  VInv'
<1>0. /\ attempts[i] \in Attempt /\ attempts = [attempts EXCEPT ![i] = attempts[i]]
      /\ given[i] \in Outcome \union {NotCalled} /\ given = [given EXCEPT ![i] = given[i]]
      /\ pc \in [Variant -> Places] /\ attempts \in [Variant -> Attempt]
      /\ given \in [Variant -> Outcome \union {NotCalled}]
      /\ Fits(i) /\ AtTheEnd
  BY DEF VInv, Types
<1>1. CASE Enter(i)
  <2>1. Fits(i)'
    BY <1>0, <1>1 DEF Enter, Moves, Fits
  <2>2. ended /\ LooksAtContext => FALSE
    BY <1>1 DEF Enter
  <2>3. /\ Moves(i, "waiting", "ready")
        /\ UNCHANGED <<mode, cap, ended, attempts, next, outcome, given, atEnd>>
    BY <1>1 DEF Enter
  <2>4. Limited'
    BY <1>1, EnterLimited
  <2>5. "waiting" \in Places \ {"over"} /\ "ready" \in Places
    BY DEF Places
  <2>6. attempts' = [attempts EXCEPT ![i] = attempts[i]] /\ given' = [given EXCEPT ![i] = given[i]]
    BY <1>0, <2>3
  <2> QED
    BY <1>0, <2>1, <2>2, <2>3, <2>4, <2>5, <2>6, OneMoves
<1>2. CASE Refuse(i)
  <2>1. /\ Moves(i, "waiting", "over") /\ Turn(i) /\ ended
        /\ attempts' = [attempts EXCEPT ![i] = Refused(i)]
        /\ UNCHANGED <<mode, cap, ended, next, outcome, given, atEnd>>
    BY <1>2 DEF Refuse
  <2>2. Refused(i) \in Attempt
    <3>1. i \in 0..Count /\ <<>> \in Seq(0..Count)
      BY CountAssumption DEF Variant
    <3> QED
      BY <3>1 DEF Refused, Attempt
  <2>3. given[i] = NotCalled
    BY <1>0, <2>1 DEF Moves, Fits
  <2>4. Fits(i)'
    BY <1>0, <2>1, <2>3 DEF Moves, Fits
  <2>5. "waiting" \in Places \ {"over"} /\ "over" \in Places \ {"waiting"}
    BY DEF Places
  <2>6. Limited'
    BY <2>1, <2>5, GoesOn
  <2>7. given' = [given EXCEPT ![i] = given[i]]
    BY <1>0, <2>1
  <2> QED
    BY <1>0, <2>1, <2>2, <2>3, <2>4, <2>5, <2>6, <2>7, OneMoves
<1>3. CASE Begin(i)
  <2>1. /\ Moves(i, "ready", "running")
        /\ UNCHANGED <<mode, cap, ended, attempts, next, outcome, given, atEnd>>
    BY <1>3 DEF Begin
  <2>2. Fits(i)'
    BY <1>0, <2>1 DEF Moves, Fits
  <2>3. "ready" \in Places \ {"over"} /\ "running" \in Places \ {"waiting"} /\ pc[i] = "ready"
    BY <2>1 DEF Places, Moves
  <2>4. Limited'
    BY <2>1, <2>3, GoesOn
  <2>5. attempts' = [attempts EXCEPT ![i] = attempts[i]] /\ given' = [given EXCEPT ![i] = given[i]]
    BY <1>0, <2>1
  <2>6. ended /\ LooksAtContext /\ atEnd[i] = "waiting" => FALSE
    BY <1>0, <2>3 DEF AtTheEnd
  <2> QED
    BY <1>0, <2>1, <2>2, <2>3, <2>4, <2>5, <2>6, OneMoves
<1>4. CASE Return(i)
  <2>1. /\ Moves(i, "running", "returned")
        /\ UNCHANGED <<mode, cap, ended, attempts, next, outcome, atEnd>>
    BY <1>4 DEF Return
  <2>2. PICK r \in Returns : given' = [given EXCEPT ![i] = r]
    BY <1>4 DEF Return
  <2>3. r \in Outcome
    BY ReturnsAssumption
  <2>4. Fits(i)'
    BY <1>0, <2>1, <2>2, <2>3 DEF Moves, Fits
  <2>5. "running" \in Places \ {"over"} /\ "returned" \in Places \ {"waiting"} /\ pc[i] = "running"
    BY <2>1 DEF Places, Moves
  <2>6. Limited'
    BY <2>1, <2>5, GoesOn
  <2>7. attempts' = [attempts EXCEPT ![i] = attempts[i]]
    BY <1>0, <2>1
  <2>8. ended /\ LooksAtContext /\ atEnd[i] = "waiting" => FALSE
    BY <1>0, <2>5 DEF AtTheEnd
  <2> QED
    BY <1>0, <2>1, <2>2, <2>3, <2>4, <2>5, <2>6, <2>7, <2>8, OneMoves
<1>5. CASE Store(i)
  <2>1. /\ Moves(i, "returned", "stored")
        /\ attempts' = [attempts EXCEPT ![i] = Attempted(i, given[i])]
        /\ UNCHANGED <<mode, cap, ended, next, outcome, given, atEnd>>
    BY <1>5 DEF Store
  <2>2. given[i] \in Outcome /\ pc[i] = "returned"
    BY <1>0, <2>1 DEF Moves, Fits
  <2>3. Attempted(i, given[i]) \in Attempt
    BY <2>2, AttemptedTyped
  <2>4. Fits(i)'
    <3>1. pc'[i] = "stored" /\ given'[i] = given[i] /\ attempts'[i] = Attempted(i, given[i])
      BY <1>0, <2>1 DEF Moves
    <3> QED
      BY <2>2, <3>1 DEF Fits
  <2>5. "returned" \in Places \ {"over"} /\ "stored" \in Places \ {"waiting"}
    BY DEF Places
  <2>6. Limited'
    BY <2>1, <2>5, GoesOn
  <2>7. given' = [given EXCEPT ![i] = given[i]]
    BY <1>0, <2>1
  <2>8. ended /\ LooksAtContext /\ atEnd[i] = "waiting" => FALSE
    BY <1>0, <2>2 DEF AtTheEnd
  <2> QED
    BY <1>0, <2>1, <2>3, <2>4, <2>5, <2>6, <2>7, <2>8, OneMoves
<1>6. CASE Leave(i)
  <2>1. /\ Moves(i, "stored", "over")
        /\ UNCHANGED <<mode, cap, ended, attempts, next, outcome, given, atEnd>>
    BY <1>6 DEF Leave
  <2>2. given[i] \in Outcome /\ attempts[i] = Attempted(i, given[i]) /\ pc[i] = "stored"
    BY <1>0, <2>1 DEF Moves, Fits
  <2>3. Fits(i)'
    <3>1. pc'[i] = "over" /\ given'[i] = given[i] /\ attempts'[i] = attempts[i]
      BY <1>0, <2>1 DEF Moves
    <3> QED
      BY <2>2, <3>1 DEF Fits
  <2>4. "stored" \in Places \ {"over"} /\ "over" \in Places \ {"waiting"}
    BY DEF Places
  <2>5. Limited'
    BY <2>1, <2>4, GoesOn
  <2>6. attempts' = [attempts EXCEPT ![i] = attempts[i]] /\ given' = [given EXCEPT ![i] = given[i]]
    BY <1>0, <2>1
  <2>7. ended /\ LooksAtContext /\ atEnd[i] = "waiting" => FALSE
    BY <1>0, <2>2 DEF AtTheEnd
  <2> QED
    BY <1>0, <2>1, <2>3, <2>4, <2>5, <2>6, <2>7, OneMoves
<1> QED
  BY <1>1, <1>2, <1>3, <1>4, <1>5, <1>6

\* What is said of the Result so far stays as long as it and the attempts do.
LEMMA RolledStays ==
  ASSUME NEW n \in Nat, RolledTo(n), UNCHANGED attempts,
         outcome'.err = outcome.err, outcome'.obs = outcome.obs, outcome'.skipped = outcome.skipped
  PROVE  RolledTo(n)'
<1>1. Concatenated(outcome.obs, n)'
  <2>1. PICK obs : obs = outcome.obs
    OBVIOUS
  <2>2. Concatenated(obs, n) /\ outcome'.obs = obs
    BY <2>1 DEF RolledTo
  <2>3. PICK cut \in [0..n -> 0..Len(obs)] :
          /\ cut[0] = 0 /\ cut[n] = Len(obs)
          /\ \A i \in 1..n :
               /\ cut[i] = cut[i - 1] + Len(attempts[i].obs)
               /\ \A k \in 1..Len(attempts[i].obs) : obs[cut[i - 1] + k] = attempts[i].obs[k]
    BY <2>2 DEF Concatenated
  <2> QED
    BY <2>2, <2>3 DEF Concatenated
<1>2. /\ outcome'.err = "none" => \A i \in 1..n : attempts'[i].err = "none"
      /\ outcome'.err # "none" => \E i \in 1..n : /\ outcome'.err = attempts'[i].err
                                                 /\ \A j \in 1..(i - 1) : attempts'[j].err = "none"
  BY DEF RolledTo
<1>3. /\ outcome'.skipped <= n
      /\ outcome'.skipped = n <=> \A i \in 1..n : attempts'[i].skip
  BY DEF RolledTo
<1> QED
  BY <1>1, <1>2, <1>3 DEF RolledTo

-----------------------------------------------------------------------------
(* The context ends.                                                       *)

LEMMA EndInv == ASSUME VInv, End PROVE VInv'
<1>1. /\ ~ended /\ ended' = TRUE /\ atEnd' = pc /\ pc \in [Variant -> Places]
      /\ UNCHANGED <<mode, cap, pc, attempts, next, outcome, given>>
  BY DEF End, VInv, Types
<1>2. Types'
  BY <1>1 DEF VInv, Types
<1>3. \A i \in Variant : Fits(i)'
  BY <1>1 DEF VInv, Fits
<1>4. Gathered' /\ Rolled'
  <2>1. next = 0
    BY DEF End
  <2> QED
    BY <1>1, <2>1 DEF VInv, Gathered, Rolled, Unset
<1>5. Limited'
  BY <1>1 DEF VInv, Limited, Holding, Over
<1>6. AtTheEnd'
  <2>1. ReadyAtEnd' \subseteq Holding /\ Holding \in SUBSET Variant
    BY <1>1 DEF ReadyAtEnd, Holding
  <2>2. ASSUME NEW i \in Variant, atEnd'[i] = "waiting"
        PROVE  pc'[i] \in {"waiting", "over"} /\ given'[i] = NotCalled
    BY <1>1, <2>2 DEF VInv, Fits
  <2>3. ASSUME mode = "sequential", NEW i \in ReadyAtEnd', NEW j \in ReadyAtEnd' PROVE i = j
    <3>1. i \in Variant /\ j \in Variant /\ pc[i] = "ready" /\ pc[j] = "ready"
      BY <1>1 DEF ReadyAtEnd
    <3>2. \A k \in Variant : \A l \in 1..(k - 1) : pc[k] # "waiting" => pc[l] = "over"
      BY <2>3 DEF VInv, Limited, Over
    <3>3. i \in Nat /\ j \in Nat /\ i >= 1 /\ j >= 1
      BY <3>1, CountAssumption DEF Variant
    <3>4. i \notin 1..(j - 1) /\ j \notin 1..(i - 1)
      BY <3>1, <3>2
    <3> QED
      BY <3>3, <3>4
  <2>4. ASSUME mode = "parallel", cap > 0 PROVE Cardinality(ReadyAtEnd') <= cap
    <3>1. Cardinality(ReadyAtEnd') <= Cardinality(Holding)
      BY <2>1, VariantFinite, FS_Subset
    <3>2. ReadyAtEnd' \in SUBSET Variant
      BY <2>1
    <3>3. Cardinality(Holding) <= cap /\ cap \in Nat /\ Cardinality(Holding) \in Nat
          /\ Cardinality(ReadyAtEnd') \in Nat
      BY <2>1, <2>4, <3>2, VariantFinite, ScheduleAssumption DEF VInv, Limited, Types
    <3> QED
      BY <3>1, <3>3
  <2> QED
    BY <1>1, <2>2, <2>3, <2>4 DEF AtTheEnd
<1> QED
  BY <1>2, <1>3, <1>4, <1>5, <1>6 DEF VInv

-----------------------------------------------------------------------------
(* The roll-up.                                                            *)

\* The attempts and what is said of the variants stay while the Result is made.
LEMMA Kept ==
  ASSUME VInv, UNCHANGED <<mode, cap, ended, pc, attempts, given, atEnd>>
  PROVE  (\A i \in Variant : Fits(i)') /\ Limited' /\ AtTheEnd'
<1>1. \A i \in Variant : Fits(i)'
  BY DEF VInv, Fits
<1>2. Limited'
  BY DEF VInv, Limited, Holding, Over
<1>3. AtTheEnd'
  BY DEF VInv, AtTheEnd, ReadyAtEnd, LooksAtContext
<1> QED
  BY <1>1, <1>2, <1>3

LEMMA GatherInv == ASSUME VInv, Gather PROVE VInv'
<1>1. /\ next = 0 /\ next' = 1 /\ \A i \in Variant : Over(i)
      /\ UNCHANGED <<mode, cap, ended, pc, attempts, outcome, given, atEnd>>
  BY DEF Gather
<1>2. Types'
  BY <1>1, CountAssumption DEF VInv, Types
<1>3. Gathered'
  BY <1>1 DEF Gathered, Over
<1>4. Rolled'
  <2>1. outcome' = Unset
    BY <1>1 DEF VInv, Rolled
  <2>2. Concatenated(<<>>, 0)'
    <3> DEFINE cut == [k \in 0..0 |-> 0]
    <3>1. cut \in [0..0 -> 0..Len(<<>>)] /\ cut[0] = 0 /\ Len(<<>>) = 0 /\ 1..0 = {}
      OBVIOUS
    <3> QED
      BY <3>1 DEF Concatenated
  <2>3. outcome'.obs = <<>> /\ outcome'.err = "none" /\ outcome'.skipped = 0 /\ ~outcome'.done
    BY <2>1 DEF Unset
  <2>4. RolledTo(0)'
    BY <2>2, <2>3 DEF RolledTo
  <2>5. next' # 0 /\ next' - 1 = 0
    BY <1>1
  <2> QED
    BY <2>3, <2>4, <2>5 DEF Rolled
<1> QED
  BY <1>1, <1>2, <1>3, <1>4, Kept DEF VInv

\* One more attempt's observations are put after those that are there.
LEMMA OneMore ==
  ASSUME NEW n \in Nat, n + 1 \in Variant, attempts \in [Variant -> Attempt],
         NEW obs \in Seq(0..Count), Concatenated(obs, n)
  PROVE  Concatenated(obs \o attempts[n + 1].obs, n + 1)
<1> DEFINE more == attempts[n + 1].obs
           all  == obs \o more
<1>1. more \in Seq(0..Count)
  BY DEF Attempt
<1>2. /\ all \in Seq(0..Count) /\ Len(all) = Len(obs) + Len(more) /\ Len(obs) \in Nat /\ Len(more) \in Nat
      /\ \A k \in 1..Len(obs) : all[k] = obs[k]
      /\ \A k \in 1..Len(more) : all[Len(obs) + k] = more[k]
  BY <1>1
<1>3. PICK cut \in [0..n -> 0..Len(obs)] :
        /\ cut[0] = 0 /\ cut[n] = Len(obs)
        /\ \A i \in 1..n :
             /\ cut[i] = cut[i - 1] + Len(attempts[i].obs)
             /\ \A k \in 1..Len(attempts[i].obs) : obs[cut[i - 1] + k] = attempts[i].obs[k]
  BY DEF Concatenated
<1> DEFINE longer == [k \in 0..(n + 1) |-> IF k = n + 1 THEN Len(all) ELSE cut[k]]
<1> HIDE DEF all, more
<1>4. /\ longer \in [0..(n + 1) -> 0..Len(all)]
      /\ longer[0] = 0 /\ longer[n + 1] = Len(all) /\ longer[n] = Len(obs)
      /\ \A k \in 0..n : longer[k] = cut[k]
  BY <1>2, <1>3
<1> HIDE DEF longer
<1>5. ASSUME NEW i \in 1..(n + 1)
      PROVE  /\ longer[i] = longer[i - 1] + Len(attempts[i].obs)
             /\ \A k \in 1..Len(attempts[i].obs) : all[longer[i - 1] + k] = attempts[i].obs[k]
  <2>1. CASE i = n + 1
    <3>1. attempts[i].obs = more /\ i - 1 = n
      BY <2>1 DEF more
    <3>2. longer[i - 1] = Len(obs) /\ longer[i] = Len(all)
      BY <1>4, <2>1, <3>1
    <3> QED
      BY <1>2, <3>1, <3>2
  <2>2. CASE i \in 1..n
    <3>1. i \in 0..n /\ i - 1 \in 0..n /\ i \in Variant
      BY <2>2, CountAssumption DEF Variant
    <3>2. Len(attempts[i].obs) \in Nat
      BY <3>1 DEF Attempt
    <3>3. longer[i] = cut[i] /\ longer[i - 1] = cut[i - 1]
      BY <1>4, <3>1
    <3>4. cut[i] = cut[i - 1] + Len(attempts[i].obs) /\ cut[i] \in 0..Len(obs) /\ cut[i - 1] \in 0..Len(obs)
      BY <1>3, <2>2, <3>1
    <3>5. ASSUME NEW k \in 1..Len(attempts[i].obs)
          PROVE  all[longer[i - 1] + k] = attempts[i].obs[k]
      <4>1. cut[i - 1] + k \in 1..Len(obs)
        <5> DEFINE c == cut[i - 1]
                   l == Len(attempts[i].obs)
        <5>1. c \in Nat /\ l \in Nat /\ c + l <= Len(obs) /\ Len(obs) \in Nat /\ k \in 1..l
          BY <1>2, <3>2, <3>4
        <5> HIDE DEF c, l
        <5>2. c + k \in 1..Len(obs)
          BY <5>1
        <5> QED
          BY <5>2 DEF c
      <4>2. obs[cut[i - 1] + k] = attempts[i].obs[k]
        BY <1>3, <2>2
      <4> QED
        BY <1>2, <3>3, <4>1, <4>2
    <3> QED
      BY <3>3, <3>4, <3>5
  <2> QED
    BY <1>5, <2>1, <2>2
<1>6. Concatenated(all, n + 1)
  BY <1>4, <1>5 DEF Concatenated
<1> QED
  BY <1>6 DEF all, more

LEMMA RollUpInv == ASSUME VInv, RollUp PROVE VInv'
<1> DEFINE a == attempts[next]
<1>1. /\ next \in Variant /\ next' = next + 1
      /\ outcome' = [outcome EXCEPT !.obs = outcome.obs \o a.obs, !.err = ErrorWith(a),
                                    !.skipped = IF a.skip THEN outcome.skipped + 1 ELSE outcome.skipped]
      /\ UNCHANGED <<mode, cap, ended, pc, attempts, given, atEnd>>
  BY DEF RollUp
<1>2. /\ outcome \in Results /\ attempts \in [Variant -> Attempt] /\ a \in Attempt
      /\ next \in Nat /\ next >= 1 /\ next <= Count
  BY <1>1, CountAssumption DEF VInv, Types, Variant
<1>3. /\ outcome.obs \in Seq(0..Count) /\ a.obs \in Seq(0..Count) /\ outcome.skipped \in Nat
      /\ a.skip \in BOOLEAN
      /\ ErrorWith(a) \in {"none", "ctx", "own", "result", "panic"}
  BY <1>2 DEF Results, Attempt, ErrorWith
<1>4. /\ outcome'.obs = outcome.obs \o a.obs
      /\ outcome'.err = ErrorWith(a)
      /\ outcome'.skipped = IF a.skip THEN outcome.skipped + 1 ELSE outcome.skipped
      /\ outcome'.done = outcome.done
  BY <1>1, <1>2 DEF Results
<1>5. outcome' \in Results
  <2>1. outcome.obs \o a.obs \in Seq(0..Count)
    BY <1>3
  <2>2. (IF a.skip THEN outcome.skipped + 1 ELSE outcome.skipped) \in Nat
    BY <1>3
  <2> QED
    BY <1>1, <1>2, <1>3, <2>1, <2>2 DEF Results
<1>6. Types'
  BY <1>1, <1>2, <1>5, CountAssumption DEF VInv, Types
<1>7. Gathered'
  BY <1>1, <1>2 DEF VInv, Gathered, Over
<1>8. Rolled'
  <2>0. RolledTo(next - 1) /\ ~outcome.done /\ next - 1 \in Nat
    <3>1. next # 0 /\ next # Count + 1
      BY <1>2, CountAssumption
    <3> QED
      BY <1>2, <3>1 DEF VInv, Rolled
  <2>1. outcome'.err = "none" => \A i \in 1..next : attempts[i].err = "none"
    BY <1>2, <1>4, <2>0 DEF RolledTo, ErrorWith
  <2>2. ASSUME outcome'.err # "none"
        PROVE  \E i \in 1..next : /\ outcome'.err = attempts[i].err
                                  /\ \A j \in 1..(i - 1) : attempts[j].err = "none"
    BY <1>2, <1>4, <2>0, <2>2 DEF RolledTo, ErrorWith
  <2>3. /\ outcome'.skipped <= next
        /\ outcome'.skipped = next <=> \A i \in 1..next : attempts[i].skip
    <3>1. /\ outcome.skipped <= next - 1
          /\ outcome.skipped = next - 1 <=> \A i \in 1..(next - 1) : attempts[i].skip
      BY <2>0 DEF RolledTo
    <3>2. (\A i \in 1..next : attempts[i].skip) <=> a.skip /\ \A i \in 1..(next - 1) : attempts[i].skip
      <4>1. 1..next = (1..(next - 1)) \union {next}
        BY <1>2
      <4> QED
        BY <4>1
    <3>3. CASE a.skip
      BY <1>2, <1>3, <1>4, <3>1, <3>2, <3>3
    <3>4. CASE ~a.skip
      BY <1>2, <1>3, <1>4, <3>1, <3>2, <3>4
    <3> QED
      BY <1>3, <3>3, <3>4
  <2>4. Concatenated(outcome.obs \o a.obs, next)
    <3>1. Concatenated(outcome.obs, next - 1) /\ (next - 1) + 1 = next
      BY <1>2, <2>0 DEF RolledTo
    <3> QED
      BY <1>1, <1>2, <1>3, <2>0, <3>1, OneMore
  <2>5. PICK n \in Nat : n = next
    BY <1>2
  <2>6. Concatenated(outcome.obs, n)'
    <3>1. Concatenated(outcome'.obs, n)
      BY <1>4, <2>4, <2>5
    <3> QED
      BY <1>1, <3>1 DEF Concatenated
  <2>7. RolledTo(n)'
    BY <1>1, <2>1, <2>2, <2>3, <2>5, <2>6 DEF RolledTo
  <2>8. next' # 0 /\ next' - 1 = n /\ ~outcome'.done
    BY <1>1, <1>2, <1>4, <2>0, <2>5
  <2> QED
    BY <2>7, <2>8 DEF Rolled
<1> QED
  BY <1>1, <1>6, <1>7, <1>8, Kept DEF VInv

LEMMA ConcludeInv == ASSUME VInv, Conclude PROVE VInv'
<1>1. /\ next = Count + 1
      /\ outcome' = [outcome EXCEPT !.skip = Count > 0 /\ outcome.skipped = Count, !.done = TRUE]
      /\ UNCHANGED <<mode, cap, ended, pc, attempts, next, given, atEnd>>
      /\ outcome \in Results
  BY DEF Conclude, VInv, Types
<1>2. Types'
  BY <1>1 DEF VInv, Types, Results
<1>3. Gathered'
  BY <1>1 DEF VInv, Gathered, Over
<1>4. /\ outcome'.err = outcome.err /\ outcome'.obs = outcome.obs /\ outcome'.skipped = outcome.skipped
      /\ outcome'.skip = (Count > 0 /\ outcome.skipped = Count)
  BY <1>1 DEF Results
<1>5. Rolled'
  <2>1. RolledTo(next - 1)
    BY <1>1, CountAssumption DEF VInv, Rolled
  <2>2. PICK n \in Nat : n = next - 1 /\ n = Count
    BY <1>1, CountAssumption
  <2>3. RolledTo(n)'
    BY <1>1, <1>4, <2>1, <2>2, RolledStays
  <2>4. next' = Count + 1 /\ next' # 0 /\ next' - 1 = n
    BY <1>1, <2>2, CountAssumption
  <2> QED
    BY <1>1, <1>4, <2>3, <2>4 DEF Rolled
<1> QED
  BY <1>1, <1>2, <1>3, <1>5, Kept DEF VInv

LEMMA NextInv == VInv /\ [Next]_vars => VInv'
<1> SUFFICES ASSUME VInv, [Next]_vars PROVE VInv'
  OBVIOUS
<1>1. CASE UNCHANGED vars
  <2>1. Types' /\ Gathered'
    BY <1>1 DEF vars, VInv, Types, Gathered, Over
  <2>2. Rolled'
    <3>1. next \in 0..(Count + 1)
      BY DEF VInv, Types
    <3>2. CASE next = 0
      BY <1>1, <3>2 DEF vars, VInv, Rolled
    <3>3. CASE next # 0
      <4>1. PICK n \in Nat : n = next - 1
        BY <3>1, <3>3, CountAssumption
      <4>2. RolledTo(n)'
        BY <1>1, <3>3, <4>1, RolledStays DEF vars, VInv, Rolled
      <4> QED
        BY <1>1, <3>3, <4>1, <4>2 DEF vars, VInv, Rolled
    <3> QED
      BY <3>2, <3>3
  <2> QED
    BY <1>1, <2>1, <2>2, Kept DEF vars, VInv
<1> QED
  BY <1>1, VariantSteps, EndInv, GatherInv, RollUpInv, ConcludeInv DEF Next, Step

LEMMA Invariance == Spec => []VInv
<1>1. Init => VInv
  BY InitInv
<1>2. VInv /\ [Next]_vars => VInv'
  BY NextInv
<1> QED
  BY <1>1, <1>2, PTL DEF Spec

-----------------------------------------------------------------------------
(* What runVariants promises.                                              *)

\* Whatever the schedule and the code of the variants, when the group has returned
\* the attempt of each variant is at its own index, the context's error if its code
\* was not called and else what its code did (runVariants and runVariantAttempt in
\* variant.go).
THEOREM AttemptsAreLeft == Spec => []EveryAttemptLeft
<1>1. VInv => EveryAttemptLeft
  <2> SUFFICES ASSUME VInv, next > 0, NEW i \in Variant
               PROVE  LET a == attempts[i]
                          r == given[i]
                      IN  /\ a.variant = i
                          /\ \/ r = NotCalled /\ ended /\ a = Refused(i)
                             \/ r # NotCalled /\ r.panics /\ a.err = "panic" /\ a.obs = <<>>
                             \/ /\ r # NotCalled /\ ~r.panics
                                /\ a.err = "none" <=> r.err = "none" /\ r.resErr = "none"
                                /\ a.err \in {r.err, r.resErr}
                                /\ a.skip = r.skip
                                /\ Len(a.obs) = Len(r.obs)
                                /\ \A k \in 1..Len(r.obs) :
                                     a.obs[k] = IF r.obs[k] = 0 THEN i ELSE r.obs[k]
    BY DEF EveryAttemptLeft
  <2> DEFINE a == attempts[i]
             r == given[i]
  <2>1. Fits(i) /\ pc[i] = "over"
    BY DEF VInv, Gathered, Over
  <2>2. CASE r = NotCalled /\ ended /\ a = Refused(i)
    BY <2>2 DEF Refused
  <2>3. CASE r \in Outcome /\ a = Attempted(i, r)
    <3>1. r # NotCalled /\ r.panics \in BOOLEAN
      <4>1. r.err # "not called" /\ r.panics \in BOOLEAN
        BY <2>3 DEF Outcome
      <4>2. NotCalled.err = "not called"
        BY DEF NotCalled
      <4> HIDE DEF r
      <4> QED
        BY <4>1, <4>2
    <3>2. CASE r.panics
      BY <2>3, <3>1, <3>2 DEF Attempted, Blank
    <3>3. CASE ~r.panics
      <4>1. /\ a.variant = i
            /\ a.err = IF r.err # "none" THEN r.err ELSE r.resErr
            /\ a.skip = r.skip
            /\ a.obs = [k \in DOMAIN r.obs |-> IF r.obs[k] = 0 THEN i ELSE r.obs[k]]
        BY <2>3, <3>3 DEF Attempted
      <4>2. r.obs \in Seq(0..Count)
        BY <2>3 DEF Outcome
      <4>3. DOMAIN r.obs = 1..Len(r.obs) /\ Len(r.obs) \in Nat
        BY <4>2
      <4>4. Len(a.obs) = Len(r.obs) /\ \A k \in 1..Len(r.obs) :
              a.obs[k] = IF r.obs[k] = 0 THEN i ELSE r.obs[k]
        BY <4>1, <4>3
      <4> QED
        BY <3>1, <3>3, <4>1, <4>4
    <3> QED
      BY <3>1, <3>2, <3>3
  <2> QED
    BY <2>1, <2>2, <2>3 DEF Fits
<1> QED
  BY <1>1, Invariance, PTL

\* The Result's error, its skip and its observations are those of the attempts in the
\* order of the variants, not in the order in which they finished (aggregateAttempts
\* in variant.go).
THEOREM RollsUpInOrder == Spec => []RollUpInOrder
<1>1. VInv => RollUpInOrder
  <2> SUFFICES ASSUME VInv, outcome.done PROVE RollUpInOrder
    BY DEF RollUpInOrder
  <2>1. next = Count + 1 /\ next # 0 /\ next - 1 = Count
    BY CountAssumption DEF VInv, Rolled
  <2>2. RolledTo(Count) /\ (outcome.skip <=> Count > 0 /\ outcome.skipped = Count)
    BY <2>1 DEF VInv, Rolled
  <2>3. Variant # {} <=> Count > 0
    BY CountAssumption DEF Variant
  <2> QED
    BY <2>2, <2>3 DEF RollUpInOrder, RolledTo, Variant
<1> QED
  BY <1>1, Invariance, PTL

\* After the context ended, at most one variant of the loop, and at most as many of a
\* group as its cap lets in, are still called: those that had got past their look,
\* and nobody takes a slot they leave (runVariants in variant.go).
THEOREM EndStops == Spec => []EndStopsTheRest
<1>1. VInv => EndStopsTheRest
  <2> SUFFICES ASSUME VInv PROVE EndStopsTheRest
    OBVIOUS
  <2>1. CASE ended /\ LooksAtContext
    <3>1. CalledLate \subseteq ReadyAtEnd /\ ReadyAtEnd \in SUBSET Variant
      <4>1. ASSUME NEW i \in CalledLate PROVE i \in ReadyAtEnd
        <5>1. i \in Variant /\ Called(i) /\ atEnd[i] \in {"waiting", "ready"}
          BY DEF CalledLate
        <5>2. atEnd[i] # "waiting"
          BY <2>1, <5>1 DEF VInv, AtTheEnd, Called
        <5> QED
          BY <5>1, <5>2 DEF ReadyAtEnd
      <4> QED
        BY <4>1 DEF ReadyAtEnd
    <3>2. /\ IsFiniteSet(ReadyAtEnd) /\ Cardinality(ReadyAtEnd) \in Nat
          /\ Cardinality(CalledLate) \in Nat
          /\ Cardinality(CalledLate) <= Cardinality(ReadyAtEnd)
      <4>1. CalledLate \in SUBSET Variant
        BY <3>1
      <4> QED
        BY <3>1, <4>1, VariantFinite, FS_Subset
    <3>3. ASSUME mode = "sequential" PROVE Cardinality(ReadyAtEnd) <= 1
      <4>1. \A i, j \in ReadyAtEnd : i = j
        BY <2>1, <3>3 DEF VInv, AtTheEnd
      <4>2. CASE ReadyAtEnd = {}
        BY <4>2, FS_EmptySet
      <4>3. CASE ReadyAtEnd # {}
        <5>1. PICK i \in ReadyAtEnd : ReadyAtEnd = {i}
          BY <4>1, <4>3
        <5>2. Cardinality({i}) = 1
          BY FS_Singleton
        <5> QED
          BY <5>1, <5>2
      <4> QED
        BY <4>2, <4>3
    <3>4. ASSUME mode = "parallel", cap > 0 PROVE Cardinality(ReadyAtEnd) <= cap
      BY <2>1, <3>4 DEF VInv, AtTheEnd
    <3>5. cap \in Nat
      BY ScheduleAssumption DEF VInv, Types
    <3> QED
      BY <3>2, <3>3, <3>4, <3>5 DEF EndStopsTheRest
  <2>2. CASE ~ended
    <3>1. CalledLate = {}
      BY <2>2 DEF CalledLate
    <3>2. cap \in Nat
      BY ScheduleAssumption DEF VInv, Types
    <3> QED
      BY <3>1, <3>2, FS_EmptySet DEF EndStopsTheRest
  <2>3. CASE ~LooksAtContext
    <3>1. mode # "sequential" /\ ~(cap > 0)
      BY <2>3 DEF LooksAtContext
    <3> QED
      BY <3>1 DEF EndStopsTheRest
  <2> QED
    BY <2>1, <2>2, <2>3 DEF VInv, Types
<1> QED
  BY <1>1, Invariance, PTL
=============================================================================
