--------------------------- MODULE RolloutBudget ---------------------------
(***************************************************************************)
(* What an ARPO group promises the trainer: a fixed budget of Size leaves, *)
(* every one of them either a root or forked from a running trajectory,    *)
(* handed out in order, run once and one at a time, until all of them are  *)
(* finished; or the whole group is given up and nothing of it is used.     *)
(***************************************************************************)
EXTENDS Integers

CONSTANTS Groups, Size, InitialRollouts

VARIABLES
  stage,   (* of each leaf: free, queued, running, finished                *)
  origin,  (* the leaf it was forked from, Root for a fresh trajectory     *)
  fate     (* of each group: open, complete, aborted                       *)

budgetVars == <<stage, origin, fate>>

Slots == 0..Size - 1
Root == -1
Stages == {"free", "queued", "running", "finished"}

(* The next leaf to hand out: leaves are allocated in order.               *)
NextLeaf(g, s) ==
  stage[g][s] = "free" /\ \A t \in Slots : t < s => stage[g][t] # "free"
NoneRunning(g) == \A s \in Slots : stage[g][s] # "running"

BudgetInit ==
  /\ stage = [g \in Groups |-> [s \in Slots |->
                IF s < InitialRollouts THEN "queued" ELSE "free"]]
  /\ origin = [g \in Groups |-> [s \in Slots |-> Root]]
  /\ fate = [g \in Groups |-> "open"]

(* A running trajectory forks: the child waits for its turn.               *)
Fork(g, p, c) ==
  /\ fate[g] = "open" /\ stage[g][p] = "running" /\ NextLeaf(g, c)
  /\ stage' = [stage EXCEPT ![g][c] = "queued"]
  /\ origin' = [origin EXCEPT ![g][c] = p]
  /\ UNCHANGED fate

(* The oldest waiting leaf runs.                                           *)
Run(g, s) ==
  /\ fate[g] = "open" /\ NoneRunning(g)
  /\ stage[g][s] = "queued" /\ \A t \in Slots : t < s => stage[g][t] # "queued"
  /\ stage' = [stage EXCEPT ![g][s] = "running"]
  /\ UNCHANGED <<origin, fate>>

(* With nothing waiting, unused budget becomes another root.               *)
Fill(g, s) ==
  /\ fate[g] = "open" /\ NoneRunning(g) /\ NextLeaf(g, s)
  /\ \A t \in Slots : stage[g][t] # "queued"
  /\ stage' = [stage EXCEPT ![g][s] = "running"]
  /\ UNCHANGED <<origin, fate>>

Finish(g, s) ==
  /\ fate[g] = "open" /\ stage[g][s] = "running"
  /\ stage' = [stage EXCEPT ![g][s] = "finished"]
  /\ UNCHANGED <<origin, fate>>

Complete(g) ==
  /\ fate[g] = "open" /\ \A s \in Slots : stage[g][s] = "finished"
  /\ fate' = [fate EXCEPT ![g] = "complete"]
  /\ UNCHANGED <<stage, origin>>

Abort(g) ==
  /\ fate[g] = "open"
  /\ fate' = [fate EXCEPT ![g] = "aborted"]
  /\ stage' = [stage EXCEPT ![g] = [s \in Slots |-> "free"]]
  /\ origin' = [origin EXCEPT ![g] = [s \in Slots |-> Root]]

BudgetNext ==
  \E g \in Groups :
    \/ \E s \in Slots : Run(g, s) \/ Fill(g, s) \/ Finish(g, s)
    \/ \E p \in Slots, c \in Slots : Fork(g, p, c)
    \/ Complete(g) \/ Abort(g)

BudgetSpec == BudgetInit /\ [][BudgetNext]_budgetVars
=============================================================================
