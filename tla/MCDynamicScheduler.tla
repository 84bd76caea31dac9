------------------------ MODULE MCDynamicScheduler ------------------------
(* Instances of DynamicScheduler.  Jobs are interchangeable (Init takes    *)
(* every order of them), and so are workers: the run without liveness      *)
(* properties uses the symmetry.                                           *)
EXTENDS DynamicScheduler, TLC

CONSTANTS j1, j2, w1, w2

TwoJobs    == {j1, j2}
TwoWorkers == {w1, w2}

Symmetry == Permutations(Jobs) \cup Permutations(Workers)
=============================================================================
