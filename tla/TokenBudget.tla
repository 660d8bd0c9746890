---------------------------- MODULE TokenBudget ----------------------------
(***************************************************************************)
(* The token arithmetic of one append-only trajectory                      *)
(* (tau3_grpo/models/token_budget.py, class TokenBudget).  A trajectory    *)
(* owns a prompt of at most PromptLimit tokens; everything later appended  *)
(* to it, generated or observed, is counted twice: against ResponseLimit   *)
(* (the appended part alone) and against ContextLimit (prompt included).   *)
(***************************************************************************)
EXTENDS Integers

CONSTANTS
  PromptLimit,    (* tokens of the initial prompt                          *)
  ResponseLimit,  (* tokens appended to it over the whole trajectory       *)
  ContextLimit,   (* tokens of prompt and appended part together           *)
  PerTurn         (* new tokens of one assistant generation                *)

(* TokenBudget.__post_init__: positive integers, the prompt within the     *)
(* context.                                                                *)
ASSUME BudgetAssumption ==
  /\ PromptLimit \in Nat \ {0}
  /\ ResponseLimit \in Nat \ {0}
  /\ ContextLimit \in Nat \ {0}
  /\ PerTurn \in Nat \ {0}
  /\ PromptLimit <= ContextLimit

Least(a, b) == IF a <= b THEN a ELSE b

(* TokenBudget.allowance: what the next generation may emit.               *)
Allowance(prompt, appended) ==
  LET room == Least(PerTurn, Least(ResponseLimit - appended, ContextLimit - prompt))
  IN  IF room > 0 THEN room ELSE 0

(* Variant of Fits: the context test forgets the observation.              *)
FitsBeforeObservation(prompt, appended, observation) ==
  /\ appended + observation <= ResponseLimit
  /\ prompt <= ContextLimit

(* TokenBudget.fits: equality retains the observation and leaves no room   *)
(* for another generation.                                                 *)
Fits(prompt, appended, observation) ==
  /\ appended + observation <= ResponseLimit
  /\ prompt + observation <= ContextLimit
=============================================================================
