---------------------------- MODULE MCScheduler ----------------------------
(***************************************************************************)
(* Instances of the scheduler: which cores came up.                        *)
(***************************************************************************)
EXTENDS Scheduler

TwoOfTwo    == {0, 1}
TwoOfThree  == {0, 2}

============================================================================
