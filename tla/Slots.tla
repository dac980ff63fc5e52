------------------------------- MODULE Slots -------------------------------
(***************************************************************************)
(* What the engine relies on when it asks a semaphore for a slot: at most  *)
(* Limit clients are in at once, a client is let in only while the scan is *)
(* not cancelled, and a client that waits is eventually let in or refused. *)
(* Semaphore implements this specification; Scan uses it as it stands.     *)
(***************************************************************************)
EXTENDS Naturals, FiniteSets

CONSTANTS Client,   \* the goroutines that want a slot
          Limit     \* how many may hold one

VARIABLES state,    \* what each client is doing
          closed    \* the scan's context has been cancelled

vars == <<state, closed>>

In == {c \in Client : state[c] = "in"}

Init == /\ state = [c \in Client |-> "out"]
        /\ closed = FALSE

Move(c, from, to) == /\ state[c] = from
                     /\ state' = [state EXCEPT ![c] = to]

Ask(c)    == Move(c, "out", "waiting") /\ UNCHANGED closed

Enter(c)  == /\ ~closed
             /\ Cardinality(In) < Limit
             /\ Move(c, "waiting", "in")
             /\ UNCHANGED closed

Refuse(c) == /\ closed
             /\ Move(c, "waiting", "refused")
             /\ UNCHANGED closed

Leave(c)  == Move(c, "in", "out") /\ UNCHANGED closed

Close     == /\ ~closed
             /\ closed' = TRUE
             /\ UNCHANGED state

Next == Close \/ \E c \in Client : Ask(c) \/ Enter(c) \/ Refuse(c) \/ Leave(c)

SafeSpec == Init /\ [][Next]_vars

Spec == SafeSpec /\ \A c \in Client : SF_vars(Enter(c)) /\ WF_vars(Refuse(c))
=============================================================================
