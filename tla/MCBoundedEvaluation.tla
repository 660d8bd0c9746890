------------------------ MODULE MCBoundedEvaluation ------------------------
(* Two arms, two tasks; the requests reach the second retry of one         *)
(* trajectory, name one twice, and together exceed the cap.                *)
EXTENDS BoundedEvaluation
CONSTANTS base, sft1, t, u

MCArms == <<base, sft1>>
R(arm, task, attempt) == [arm |-> arm, task |-> task, attempt |-> attempt]
MCRequests == <<R(base, t, 0), R(base, t, 1), R(base, u, 0), R(sft1, t, 0), R(base, t, 0)>>
=============================================================================
