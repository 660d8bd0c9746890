--------------------------- MODULE MCTrainerStep ---------------------------
(* Five steps, saved at two, four and the last; two resumes.               *)
EXTENDS TrainerStep
=============================================================================
