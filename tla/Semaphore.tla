----------------------------- MODULE Semaphore -----------------------------
(***************************************************************************)
(* internal/semaphore/semaphore.go: a buffered channel of N tokens that    *)
(* bounds the goroutines of a level, the resources of one check and the    *)
(* variants of one check.  Acquire reads the done channel twice, once      *)
(* before it waits and once after it got its token, and each read, send    *)
(* and receive is a step of its own here, so that the cancellation can     *)
(* fall between any two of them.                                           *)
(***************************************************************************)
EXTENDS Naturals, FiniteSets

CONSTANTS Client,   \* the goroutines that share the semaphore
          N         \* the capacity given to New

ASSUME NAssumption == N \in Nat \ {0}

VARIABLES ch,       \* number of tokens in the channel s.ch
          done,     \* the done channel is closed
          pc        \* where each goroutine is

vars == <<ch, done, pc>>

Where == {"idle", "entry", "select", "recheck", "giveback", "holding", "refused"}

\* The goroutines whose token is in the channel.
Tokens  == {c \in Client : pc[c] \in {"recheck", "giveback", "holding"}}
Holders == {c \in Client : pc[c] = "holding"}

Init == /\ ch = 0
        /\ done = FALSE
        /\ pc = [c \in Client |-> "idle"]

Goto(c, from, to) == /\ pc[c] = from
                     /\ pc' = [pc EXCEPT ![c] = to]

Call(c) == Goto(c, "idle", "entry") /\ UNCHANGED <<ch, done>>

\* The first isDone: a caller that arrives after the cancellation never waits.
FirstCheck(c) == /\ Goto(c, "entry", IF done THEN "refused" ELSE "select")
                 /\ UNCHANGED <<ch, done>>

\* The two cases of the select.
Send(c)    == /\ ch < N
              /\ Goto(c, "select", "recheck")
              /\ ch' = ch + 1
              /\ UNCHANGED done

\* <-s.ch, which would block on an empty channel.
TakeToken == ch > 0 /\ ch' = ch - 1

SeeDone(c) == /\ done
              /\ Goto(c, "select", "refused")
              /\ UNCHANGED <<ch, done>>

\* Mutant: no second look at done.
SecondCheckSkipped(c) == Goto(c, "recheck", "holding") /\ UNCHANGED <<ch, done>>

\* The second isDone: the select picks at random when both cases are ready.
SecondCheck(c) == /\ Goto(c, "recheck", IF done THEN "giveback" ELSE "holding")
                  /\ UNCHANGED <<ch, done>>

GiveBack(c) == Goto(c, "giveback", "refused") /\ TakeToken /\ UNCHANGED done

\* Mutant: a Release that receives nothing.
ReleaseForgotten(c) == Goto(c, "holding", "idle") /\ UNCHANGED <<ch, done>>

Release(c)  == Goto(c, "holding", "idle") /\ TakeToken /\ UNCHANGED done

CloseDone == /\ ~done
             /\ done' = TRUE
             /\ UNCHANGED <<ch, pc>>

Acquire(c) == FirstCheck(c) \/ Send(c) \/ SeeDone(c) \/ SecondCheck(c) \/ GiveBack(c)

Next == CloseDone \/ \E c \in Client : Call(c) \/ Acquire(c) \/ Release(c)

(***************************************************************************)
(* A goroutine inside Acquire keeps running.  A blocked send is served in  *)
(* arrival order by the Go runtime, hence the strong fairness of Send.     *)
(* Nothing is assumed of Call, of the cancellation, or of Release: a check *)
(* may keep its slot for as long as it likes.                              *)
(***************************************************************************)
Fairness == \A c \in Client : /\ WF_vars(FirstCheck(c) \/ SeeDone(c) \/ SecondCheck(c) \/ GiveBack(c))
                              /\ SF_vars(Send(c))

SafeSpec == Init /\ [][Next]_vars
Spec     == SafeSpec /\ Fairness

-----------------------------------------------------------------------------

\* Every variable has its type, and no more than N tokens are in the channel.
TypeOK == /\ ch \in 0..N
          /\ done \in BOOLEAN
          /\ pc \in [Client -> Where]

\* The channel holds exactly the tokens of the goroutines that sent one and have
\* not received one back: a refused Acquire returns the token it took, and
\* Release is never called twice for one Acquire.
TokensAccounted == /\ IsFiniteSet(Tokens)
                   /\ ch = Cardinality(Tokens)

\* Never more than N goroutines between a successful Acquire and its Release.
Capacity == IsFiniteSet(Holders) /\ Cardinality(Holders) <= N

\* Release never blocks: whoever is about to receive finds a token, so neither a
\* finished check nor a refused caller hangs on its own semaphore.
ReleaseNeverBlocks == \A c \in Client : pc[c] \in {"giveback", "holding"} => ch > 0

\* "A cancelled caller never starts new work": Acquire returns true only while
\* done is open, even when a slot frees up as done closes, and once done is closed
\* every caller returns without any holder having to release its slot.  Stated as
\* refinement of Slots, in which Enter is disabled once the scan is cancelled and
\* Refuse is fair.
StateOf(p) == IF p = "idle" THEN "out"
              ELSE IF p = "holding" THEN "in"
              ELSE IF p = "refused" THEN "refused"
              ELSE "waiting"

Abs == INSTANCE Slots WITH Limit <- N, closed <- done,
                           state <- [c \in Client |-> StateOf(pc[c])]

ImplementsSlots == Abs!Spec

\* While the holders do release their slots, every caller of Acquire returns even
\* though the scan is never cancelled.
EveryCallReturns == (\A c \in Client : WF_vars(Release(c))) =>
  \A c \in Client : pc[c] = "entry" ~> pc[c] \in {"holding", "refused"}
=============================================================================
