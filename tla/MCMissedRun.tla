------------------------------ MODULE MCMissedRun ------------------------------
(* MissedRun with two routes, a schedule that fires often and one that fires seldom. *)
EXTENDS MissedRun, TLC

CONSTANTS r1, r2

MCSchedule == { {2, 4, 6, 8}, {5} }
MCSymmetry == Permutations({r1, r2})
=============================================================================
