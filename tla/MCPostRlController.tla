-------------------------- MODULE MCPostRlController --------------------------
(* Two slots with a model each and a third model for the first free slot;  *)
(* the late arm is the one in a slot, the pending one may miss its turn.   *)
EXTENDS PostRlController

CONSTANTS sft, e2, e3
MCSlots == <<<<sft>>, <<e3>>>>
MCQueue == <<e2>>
MCOrder == <<sft, e2, e3>>
===============================================================================
