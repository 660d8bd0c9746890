--------------------------- MODULE MCJudgeBudget ---------------------------
(* Three requests reserving 2, 2 and 3 units under a limit of 4, a run     *)
(* increment of 3 and two ledger rows: the two smaller ones fit together   *)
(* only over two runs or after a settlement below the reservation, the     *)
(* larger one only alone, and a bill of 3 breaks a smaller reservation.    *)
EXTENDS JudgeBudget

CONSTANTS a, b, c
MCCalls == {a, b, c}
MCBound == [x \in MCCalls |-> IF x = c THEN 3 ELSE 2]
=============================================================================
