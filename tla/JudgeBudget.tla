---------------------------- MODULE JudgeBudget ----------------------------
(***************************************************************************)
(* Paid model requests under a cumulative budget:                          *)
(* tau3_grpo/tracking/judge_budget.py (Budget, call_json), the incremental *)
(* ceiling of data/teacher_rollout.py (IncrementBudget) and the single     *)
(* attempt of models/semantic_api.py (extract_json).                       *)
(*                                                                         *)
(* One process at a time holds the ledger's .run.lock; inside it several   *)
(* call_json coroutines share one Budget object and are interleaved at     *)
(* their only await, the request.  Every change of the ledger is dumped    *)
(* (temporary file, rename) in the same step, so the rows below are the    *)
(* file.  The process may die between any two steps; the files stay.       *)
(*                                                                         *)
(* Definitions under a comment "Variant" are slips of the definition that  *)
(* follows them; Spec uses none of them.                                   *)
(***************************************************************************)
EXTENDS Integers, Sequences, FiniteSets, Functions

CONSTANTS
  Calls,      (* call ids, each with its request: the finite plan of a run *)
  Limit,      (* limit_cny                                                 *)
  Increment,  (* increment_cny over what was accounted at the start        *)
  MaxCalls,   (* max_calls                                                 *)
  Bound,      (* of each call: the reservation                             *)
  Bills       (* bound: what the provider may charge for a request         *)

ASSUME LedgerAssumption ==
  /\ IsFiniteSet(Calls)
  /\ Limit \in Nat /\ Increment \in Nat
  /\ MaxCalls \in Nat \ {0}
  /\ Bound \in [Calls -> Nat \ {0}]
  /\ Bills \subseteq Nat

VARIABLES
  up,        (* a process holds the lock and has loaded the ledger         *)
  rows,      (* state["calls"], in the order they were reserved            *)
  billing,   (* state["billing_reconciliation"], or Unconfirmed            *)
  receipt,   (* calls/<id>.json: its status, "absent" without a file       *)
  pc,        (* where the coroutine of each call is                        *)
  ceiling,   (* increment_ceiling of this process                          *)
  before,    (* history: the requests in the ledger when it was loaded     *)
  sent,      (* history: how often each request was posted                 *)
  spent      (* history: what the provider charged for it                  *)

vars == <<up, rows, billing, receipt, pc, ceiling, before, sent, spent>>

Unconfirmed == [through |-> 0, prefix |-> <<>>, actual |-> 0]
HasRow(c) == \E i \in 1..Len(rows) : rows[i].id = c

(* Budget.accounted: the confirmed bill of the reconciled prefix, and the  *)
(* reservation or the settled cost of every later row.                     *)
Committed ==
  LET later == [i \in billing.through + 1..Len(rows) |-> rows[i].accounted]
  IN  billing.actual + SumFunction(later)

Init ==
  /\ up = FALSE /\ rows = <<>> /\ billing = Unconfirmed
  /\ receipt = [c \in Calls |-> "absent"]
  /\ pc = [c \in Calls |-> "idle"]
  /\ ceiling = 0 /\ before = {}
  /\ sent = [c \in Calls |-> 0] /\ spent = [c \in Calls |-> 0]

(* The lock is free: load the ledger and fix this run's ceiling.           *)
Start ==
  /\ ~up /\ up' = TRUE
  /\ ceiling' = Committed + Increment
  /\ before' = {rows[i].id : i \in 1..Len(rows)}
  /\ UNCHANGED <<rows, billing, receipt, pc, sent, spent>>

(* Between its awaits a coroutine runs alone.                              *)
Busy == {"reserved", "recorded", "priced", "unpriced"}
Alone(c) == up /\ \A d \in Calls \ {c} : pc[d] \notin Busy

(* Variant: a failed request may be sent again.                            *)
AttemptedNotFailed(c) == receipt[c] # "failed" /\ (receipt[c] # "absent" \/ HasRow(c))

(* "no automatic paid retry": a receipt of any kind, or a reservation      *)
(* without one, refuses the call.                                          *)
Attempted(c) == receipt[c] # "absent" \/ HasRow(c)

(* Variant: the pilot's ceiling is left to the shared limit.               *)
AffordableShared(c) == Len(rows) < MaxCalls /\ Committed + Bound[c] <= Limit

(* IncrementBudget.reserve, Budget.reserve.                                *)
Affordable(c) ==
  /\ Len(rows) < MaxCalls
  /\ Committed + Bound[c] <= Limit
  /\ Committed + Bound[c] <= ceiling

(* call_json up to the reservation.                                        *)
Request(c) ==
  /\ Alone(c) /\ pc[c] = "idle"
  /\ \/ /\ receipt[c] = "received" /\ pc' = [pc EXCEPT ![c] = "returned"]
        /\ UNCHANGED rows
     \/ /\ receipt[c] # "received" /\ (Attempted(c) \/ ~Affordable(c))
        /\ pc' = [pc EXCEPT ![c] = "refused"]
        /\ UNCHANGED rows
     \/ /\ receipt[c] # "received" /\ ~Attempted(c) /\ Affordable(c)
        /\ rows' = Append(rows, [id |-> c, accounted |-> Bound[c]])
        /\ pc' = [pc EXCEPT ![c] = "reserved"]
  /\ UNCHANGED <<up, billing, receipt, ceiling, before, sent, spent>>

(* "Preserve an in-flight request before any external call".               *)
Record(c) ==
  /\ Alone(c) /\ pc[c] = "reserved"
  /\ receipt' = [receipt EXCEPT ![c] = "reserved"]
  /\ pc' = [pc EXCEPT ![c] = "recorded"]
  /\ UNCHANGED <<up, rows, billing, ceiling, before, sent, spent>>

(* extract_json posts once; from here on the provider may charge.          *)
Send(c, bill) ==
  /\ Alone(c) /\ pc[c] = "recorded"
  /\ sent' = [sent EXCEPT ![c] = @ + 1]
  /\ spent' = [spent EXCEPT ![c] = @ + bill]
  /\ pc' = [pc EXCEPT ![c] = "sending"]
  /\ UNCHANGED <<up, rows, billing, receipt, ceiling, before>>

(* The await ends: an accepted packet, a rejected one, a transport error,  *)
(* or a cancellation, after which the receipt has no status. Usage may be  *)
(* reported with an answer of either kind, never after a cancellation.     *)
Respond(c, status, usage) ==
  /\ Alone(c) /\ pc[c] = "sending"
  /\ status = "cancelled" => ~usage
  /\ receipt' = [receipt EXCEPT ![c] = status]
  /\ pc' = [pc EXCEPT ![c] = IF usage THEN "priced" ELSE "unpriced"]
  /\ UNCHANGED <<up, rows, billing, ceiling, before, sent, spent>>

(* Variant: an answer without usage is taken as free.                      *)
SettledCostOrFree(c) == IF pc[c] = "priced" THEN spent[c] ELSE 0

(* Budget.settle: reported usage replaces the reservation, an unknown one  *)
(* keeps it.                                                               *)
SettledCost(c) == IF pc[c] = "priced" THEN spent[c] ELSE Bound[c]

Settle(c) ==
  /\ Alone(c) /\ pc[c] \in {"priced", "unpriced"}
  /\ rows' = [i \in 1..Len(rows) |->
       IF rows[i].id = c THEN [rows[i] EXCEPT !.accounted = SettledCost(c)] ELSE rows[i]]
  /\ pc' = [pc EXCEPT ![c] =
       IF receipt[c] = "received" /\ SettledCost(c) <= Bound[c] THEN "returned" ELSE "raised"]
  /\ UNCHANGED <<up, billing, receipt, ceiling, before, sent, spent>>

(* The process ends, or dies, anywhere: the lock is released.              *)
Exit ==
  /\ up /\ up' = FALSE
  /\ pc' = [c \in Calls |-> "idle"]
  /\ UNCHANGED <<rows, billing, receipt, ceiling, before, sent, spent>>

(* Variant: the bill is confirmed without waiting for the lock.            *)
ReconcileUnlocked ==
  /\ SumFunction(spent) <= Limit
  /\ billing' = [through |-> Len(rows), prefix |-> rows, actual |-> SumFunction(spent)]
  /\ UNCHANGED <<up, rows, receipt, pc, ceiling, before, sent, spent>>

(* Budget.reconcile, the caller holding the lock: a person confirms what   *)
(* the provider charged so far.                                            *)
Reconcile ==
  /\ ~up
  /\ SumFunction(spent) <= Limit
  /\ billing' = [through |-> Len(rows), prefix |-> rows, actual |-> SumFunction(spent)]
  /\ UNCHANGED <<up, rows, receipt, pc, ceiling, before, sent, spent>>

Next ==
  \/ Start \/ Exit \/ Reconcile
  \/ \E c \in Calls :
       \/ Request(c) \/ Record(c) \/ Settle(c)
       \/ \E bill \in Bills : Send(c, bill)
       \/ \E status \in {"received", "failed", "cancelled"}, usage \in BOOLEAN :
            Respond(c, status, usage)

Spec == Init /\ [][Next]_vars
-----------------------------------------------------------------------------
Receipts == {"absent", "reserved", "received", "failed", "cancelled"}
Places == {"idle", "sending", "returned", "refused", "raised"} \cup Busy

(* Every variable keeps its range, the ledger at most MaxCalls rows.       *)
TypeOK ==
  /\ up \in BOOLEAN
  /\ rows \in Seq([id: Calls, accounted: Nat]) /\ Len(rows) <= MaxCalls
  /\ billing \in [through: Nat, prefix: Seq([id: Calls, accounted: Nat]), actual: Nat]
  /\ receipt \in [Calls -> Receipts] /\ pc \in [Calls -> Places]
  /\ ceiling \in Nat /\ before \subseteq Calls
  /\ sent \in [Calls -> Nat] /\ spent \in [Calls -> Nat]

(* "never retries an uncertain paid request automatically": whatever       *)
(* crashes, cancels or fails, a request id is posted at most once.         *)
AtMostOnce == \A c \in Calls : sent[c] <= 1

(* A posted request has left a reservation and a receipt on disk, and a    *)
(* packet is only ever returned from an answer that is on disk too.        *)
EvidenceFirst ==
  \A c \in Calls :
    /\ sent[c] > 0 => HasRow(c) /\ receipt[c] # "absent"
    /\ pc[c] = "returned" => sent[c] > 0 /\ receipt[c] = "received"

(* What requests that broke their reservation cost beyond it.              *)
Excess(S) ==
  SumFunction([c \in S |-> IF spent[c] > Bound[c] THEN spent[c] - Bound[c] ELSE 0])

(* The ledger covers the bill at every instant, requests in flight, lost   *)
(* answers and crashes included, and so the provider never charges more    *)
(* than the limit over all the runs that share it; only a broken           *)
(* reservation can escape it, and by no more than it cost beyond itself.   *)
LedgerCovers ==
  /\ Committed + Excess(Calls) >= SumFunction(spent)
  /\ SumFunction(spent) <= Limit + Excess(Calls)

(* The pilot's own ceiling: one run never adds more than its increment.    *)
IncrementKept ==
  up => SumFunction([c \in Calls \ before |-> spent[c]]) <= Increment + Excess(Calls \ before)

(* "Reconciled call history changed" never happens: nothing rewrites a row *)
(* a confirmed bill stands for.                                            *)
HistoryIntact ==
  billing.through <= Len(rows) /\ SubSeq(rows, 1, billing.through) = billing.prefix
=============================================================================
