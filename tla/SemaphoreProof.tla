--------------------------- MODULE SemaphoreProof ---------------------------
(***************************************************************************)
(* The safety properties of Semaphore, for any capacity and any number of  *)
(* goroutines.  Capacity is not inductive by itself: it follows from the   *)
(* count of the tokens (TokensAccounted) and the capacity of the channel.  *)
(***************************************************************************)
EXTENDS Semaphore, FiniteSetTheorems, TLAPS

\* A token is given back only because done was seen closed.
GiveBackAfterDone == \A c \in Client : pc[c] = "giveback" => done

\* The inductive invariant.
IInv == TypeOK /\ TokensAccounted /\ GiveBackAfterDone

LEMMA InitIInv == Init => IInv
<1> SUFFICES ASSUME Init PROVE IInv
  OBVIOUS
<1>1. TypeOK
  <2>1. 0 \in 0..N
    BY NAssumption
  <2> QED
    BY <2>1 DEF Init, TypeOK, Where
<1>2. Tokens = {}
  BY DEF Init, Tokens
<1> QED
  BY <1>1, <1>2, FS_EmptySet DEF Init, IInv, TokensAccounted, GiveBackAfterDone

LEMMA NextIInv == IInv /\ [Next]_vars => IInv'
<1> SUFFICES ASSUME IInv, [Next]_vars PROVE IInv'
  OBVIOUS
<1>0. /\ TypeOK /\ TokensAccounted /\ GiveBackAfterDone
      /\ N \in Nat /\ ch \in Nat /\ ch <= N
  BY NAssumption DEF IInv, TypeOK
<1>1. CASE CloseDone
  BY <1>0, <1>1 DEF CloseDone, IInv, TypeOK, TokensAccounted, Tokens, GiveBackAfterDone
<1>2. CASE UNCHANGED vars
  BY <1>0, <1>2 DEF vars, IInv, TypeOK, TokensAccounted, Tokens, GiveBackAfterDone
<1>3. ASSUME NEW c \in Client,
             Call(c) \/ FirstCheck(c) \/ SeeDone(c) \/ SecondCheck(c)
      PROVE  IInv'
  <2>1. PICK to \in Where :
          /\ pc' = [pc EXCEPT ![c] = to]
          /\ (to \in {"recheck", "giveback", "holding"}) <=> (c \in Tokens)
          /\ to = "giveback" => done
          /\ UNCHANGED <<ch, done>>
    BY <1>0, <1>3
       DEF TypeOK, Call, FirstCheck, SeeDone, SecondCheck, Goto, Where, Tokens
  <2>2. Tokens' = Tokens
    BY <1>0, <2>1 DEF TypeOK, Tokens, Where
  <2> QED
    BY <1>0, <2>1, <2>2 DEF IInv, TypeOK, TokensAccounted, GiveBackAfterDone
<1>4. ASSUME NEW c \in Client, Send(c) PROVE IInv'
  <2>1. Tokens' = Tokens \cup {c} /\ c \notin Tokens
    BY <1>0, <1>4 DEF TypeOK, Send, Goto, Where, Tokens
  <2>2. IsFiniteSet(Tokens') /\ Cardinality(Tokens') = Cardinality(Tokens) + 1
    BY <1>0, <2>1, FS_AddElement DEF TokensAccounted
  <2>3. TypeOK' /\ GiveBackAfterDone'
    BY <1>0, <1>4 DEF TypeOK, Send, Goto, Where, GiveBackAfterDone
  <2> QED
    BY <1>0, <1>4, <2>2, <2>3 DEF IInv, TokensAccounted, Send
<1>5. ASSUME NEW c \in Client, GiveBack(c) \/ Release(c) PROVE IInv'
  <2>1. Tokens' = Tokens \ {c} /\ c \in Tokens
    BY <1>0, <1>5 DEF TypeOK, GiveBack, Release, Goto, Where, Tokens
  <2>2. IsFiniteSet(Tokens') /\ Cardinality(Tokens') = Cardinality(Tokens) - 1
    BY <1>0, <2>1, FS_RemoveElement DEF TokensAccounted
  <2>3. TypeOK' /\ GiveBackAfterDone'
    BY <1>0, <1>5
       DEF TypeOK, GiveBack, Release, TakeToken, Goto, Where, GiveBackAfterDone
  <2> QED
    BY <1>0, <1>5, <2>2, <2>3 DEF IInv, TokensAccounted, GiveBack, Release, TakeToken
<1> QED
  BY <1>1, <1>2, <1>3, <1>4, <1>5 DEF Next, Acquire

LEMMA Invariance == SafeSpec => []IInv
BY InitIInv, NextIInv, PTL DEF SafeSpec

\* The channel always holds exactly the tokens of the goroutines between their
\* send and the matching receive (semaphore.go, Acquire and Release).
THEOREM TokensTheorem == SafeSpec => [](TypeOK /\ TokensAccounted)
BY Invariance, PTL DEF IInv

LEMMA HoldersBelowTokens ==
  IInv => Capacity /\ ReleaseNeverBlocks
<1> SUFFICES ASSUME IInv PROVE Capacity /\ ReleaseNeverBlocks
  OBVIOUS
<1>1. Holders \in SUBSET Tokens /\ IsFiniteSet(Tokens) /\ Cardinality(Tokens) <= N
  BY NAssumption DEF IInv, TypeOK, TokensAccounted, Holders, Tokens
<1>2. /\ IsFiniteSet(Holders) /\ Cardinality(Holders) <= Cardinality(Tokens)
      /\ Cardinality(Holders) \in Nat /\ Cardinality(Tokens) \in Nat
  BY <1>1, FS_Subset, FS_CardinalityType
<1>3. Capacity
  BY <1>1, <1>2, NAssumption DEF Capacity
<1>4. ASSUME NEW c \in Client, pc[c] \in {"giveback", "holding"} PROVE ch > 0
  <2>1. Tokens # {}
    BY <1>4 DEF Tokens
  <2> QED
    BY <1>1, <1>2, <2>1, FS_EmptySet DEF IInv, TokensAccounted
<1> QED
  BY <1>3, <1>4 DEF ReleaseNeverBlocks

\* At most N goroutines hold a slot, and a Release never blocks.
THEOREM CapacityTheorem == SafeSpec => [](Capacity /\ ReleaseNeverBlocks)
BY Invariance, HoldersBelowTokens, PTL
-----------------------------------------------------------------------------

\* The abstract client states of a step that moves one goroutine.
LEMMA MoveState ==
  ASSUME TypeOK, NEW c \in Client, NEW to \in Where, pc' = [pc EXCEPT ![c] = to]
  PROVE  [x \in Client |-> StateOf(pc[x])]' =
           [[x \in Client |-> StateOf(pc[x])] EXCEPT ![c] = StateOf(to)]
BY DEF TypeOK

\* Whoever passes the second look at done is one more holder within the limit.
LEMMA RoomForRecheck ==
  ASSUME IInv, NEW c \in Client, pc[c] = "recheck"
  PROVE  Cardinality(Holders) < N
<1>1. /\ Holders \in SUBSET Tokens /\ Holders # Tokens
      /\ IsFiniteSet(Tokens) /\ Cardinality(Tokens) <= N
  BY NAssumption DEF IInv, TypeOK, TokensAccounted, Holders, Tokens
<1> QED
  BY <1>1, FS_Subset, FS_CardinalityType, NAssumption

LEMMA AbsCardinality == \A T : Abs!Cardinality(T) = Cardinality(T)
BY Zenon DEF Abs!Cardinality, Cardinality

LEMMA AbsIn == Abs!In = Holders
BY DEF Abs!In, Holders, StateOf

LEMMA StepSimulation == IInv /\ [Next]_vars => [Abs!Next]_Abs!vars
<1> SUFFICES ASSUME IInv, [Next]_vars PROVE [Abs!Next]_Abs!vars
  OBVIOUS
<1>0. TypeOK
  BY DEF IInv
<1>1. CASE UNCHANGED vars
  BY <1>1 DEF vars, Abs!vars
<1>2. CASE CloseDone
  BY <1>2 DEF CloseDone, Abs!Next, Abs!Close
<1>3. ASSUME NEW c \in Client, Call(c) PROVE Abs!Ask(c)
  <2>1. pc' = [pc EXCEPT ![c] = "entry"] /\ pc[c] = "idle"
    BY <1>3 DEF Call, Goto
  <2> QED
    BY <1>0, <1>3, <2>1, MoveState DEF Where, Call, Abs!Ask, Abs!Move, StateOf
<1>4. ASSUME NEW c \in Client, FirstCheck(c) \/ SeeDone(c) \/ GiveBack(c), done
      PROVE  Abs!Refuse(c)
  <2>1. /\ pc' = [pc EXCEPT ![c] = "refused"]
        /\ pc[c] \in {"entry", "select", "giveback"}
        /\ done' = done
    BY <1>4 DEF FirstCheck, SeeDone, GiveBack, Goto
  <2> QED
    BY <1>0, <1>4, <2>1, MoveState DEF Where, Abs!Refuse, Abs!Move, StateOf
<1>5. ASSUME NEW c \in Client,
             (FirstCheck(c) \/ SecondCheck(c) \/ Send(c)),
             (pc' = [pc EXCEPT ![c] = "select"] \/ pc' = [pc EXCEPT ![c] = "recheck"]
                \/ pc' = [pc EXCEPT ![c] = "giveback"])
      PROVE  UNCHANGED Abs!vars
  <2>1. PICK to \in {"select", "recheck", "giveback"} : pc' = [pc EXCEPT ![c] = to]
    BY <1>5
  <2>2. pc[c] \in {"entry", "select", "recheck"} /\ done' = done
    BY <1>5 DEF FirstCheck, SecondCheck, Send, Goto
  <2>3. StateOf(pc[c]) = "waiting" /\ StateOf(to) = "waiting"
    BY <2>1, <2>2 DEF StateOf
  <2>4. \A x \in Client : StateOf(pc'[x]) = StateOf(pc[x])
    BY <1>0, <2>1, <2>3 DEF TypeOK
  <2> QED
    BY <2>2, <2>4 DEF Abs!vars
<1>6. ASSUME NEW c \in Client, SecondCheck(c), ~done PROVE Abs!Enter(c)
  <2>1. pc' = [pc EXCEPT ![c] = "holding"] /\ pc[c] = "recheck" /\ done' = done
    BY <1>6 DEF SecondCheck, Goto
  <2>2. Abs!Cardinality(Abs!In) < N
    BY <2>1, RoomForRecheck, AbsIn, AbsCardinality
  <2>3. Abs!Move(c, "waiting", "in")
    BY <1>0, <2>1, MoveState DEF Where, Abs!Move, StateOf
  <2> QED
    BY <1>6, <2>1, <2>2, <2>3 DEF Abs!Enter
<1>7. ASSUME NEW c \in Client, Release(c) PROVE Abs!Leave(c)
  <2>1. pc' = [pc EXCEPT ![c] = "idle"] /\ pc[c] = "holding" /\ done' = done
    BY <1>7 DEF Release, Goto
  <2> QED
    BY <1>0, <2>1, MoveState DEF Where, Abs!Leave, Abs!Move, StateOf
<1>8. ASSUME NEW c \in Client, Acquire(c) PROVE [Abs!Next]_Abs!vars
  <2>1. CASE FirstCheck(c)
    BY <1>4, <1>5, <2>1 DEF FirstCheck, Goto, Abs!Next
  <2>2. CASE SecondCheck(c)
    BY <1>5, <1>6, <2>2 DEF SecondCheck, Goto, Abs!Next
  <2>3. CASE Send(c)
    BY <1>5, <2>3 DEF Send, Goto
  <2>4. CASE SeeDone(c)
    BY <1>4, <2>4 DEF SeeDone, Abs!Next
  <2>5. CASE GiveBack(c)
    BY <1>4, <2>5 DEF GiveBack, Goto, IInv, GiveBackAfterDone, Abs!Next
  <2> QED
    BY <1>8, <2>1, <2>2, <2>3, <2>4, <2>5 DEF Acquire
<1> QED
  BY <1>1, <1>2, <1>3, <1>7, <1>8 DEF Next, Abs!Next

\* Acquire never lets a caller in once the scan is cancelled, and never more
\* than N at a time: every step of the semaphore is a step of Slots or none.
THEOREM Refinement == SafeSpec => Abs!SafeSpec
<1>1. Init => Abs!Init
  BY DEF Init, Abs!Init, StateOf
<1> QED
  BY <1>1, Invariance, StepSimulation, PTL DEF SafeSpec, Abs!SafeSpec
=============================================================================
