------------------------------- MODULE MCProbe -------------------------------
EXTENDS Probe

D(k, m) == [kind |-> k, n |-> m]
Absent  == D("absent", 0)

\* Waits below nothing, of nothing, in range and beyond the cap, in either header.
MCHeaders == {[after |-> a, reset |-> Absent] :
                 a \in {Absent, D("number", -1), D("number", 0), D("number", 5), D("date", -2), D("date", 1)}}
        \cup {[after |-> D("other", 0), reset |-> r] :
                 r \in {D("number", -1), D("number", 2), D("date", 9), D("other", 0)}}
MCBodySizes == {0, 1, 2, 3, 7}
MCWidest    == {7}
=============================================================================
