------------------------------- MODULE MCScan -------------------------------
(* disc discovers what fan runs over; beside fan, also and glob compete for *)
(* two slots with it, and fan and glob discover one more resource; last    *)
(* reads what the others left in the store.                                 *)
EXTENDS Scan

Checks  == {"disc", "also", "fan", "glob", "last"}
Deps    == [disc |-> {}, also |-> {"disc"}, fan |-> {"disc"}, glob |-> {"disc"},
            last |-> {"fan", "glob"}]
Levels  == [disc |-> 0,  also |-> 1,  fan |-> 1, glob |-> 1, last |-> 2]
Globals == Checks \ {"fan"}
PerCheck == [c \in Checks |-> 1]

R(err, skip, obs, emits) == [err |-> err, skip |-> skip, obs |-> obs, emits |-> emits]
Passed   == R(FALSE, "no", 0, {})
Failing  == R(TRUE, "no", 1, {})
SelfSkip == R(FALSE, "by the check", 0, {})

Results == [disc |-> {R(FALSE, "no", 0, {"r1", "r2"}), Failing},
            also |-> {Passed},
            fan  |-> {R(TRUE, "no", 1, {"r3"}), SelfSkip},
            glob |-> {R(FALSE, "no", 1, {"r2", "r3"})},
            last |-> {R(FALSE, "no", 1, {})}]
=============================================================================
