-------------------------- MODULE MCRunContinuity ---------------------------
(* RunContinuity.tla for TLC: boundaries three steps apart, a run of one or *)
(* of two intervals, three starts. A run can be stopped or killed inside    *)
(* either interval, resumed, extended, and killed and resumed again.        *)
EXTENDS RunContinuity
=============================================================================
