----------------------------- MODULE MCVariants -----------------------------
(* Three variants under each schedule: the loop, no cap, a cap of two.      *)
EXTENDS Variants

AllSchedules == {<<"sequential", 0>>, <<"parallel", 0>>, <<"parallel", 2>>}

R(err, resErr, skip, obs) ==
  [panics |-> FALSE, err |-> err, resErr |-> resErr, skip |-> skip, obs |-> obs]

\* Two observations, of which one names a variant already; both errors; a skip; a panic.
AllReturns == {R("none", "none", FALSE, <<0, 1>>), R("own", "result", FALSE, <<0>>),
               R("none", "none", TRUE, <<>>),
               [R("none", "none", FALSE, <<>>) EXCEPT !.panics = TRUE]}
=============================================================================
