-------------------------- MODULE BoundedEvaluation --------------------------
(***************************************************************************)
(* One authorized GPU attempt: tau3_grpo/evaluation/bounded.py, and the    *)
(* retries of drifted trajectories that follow it,                         *)
(* evaluation/simulator_retry.py (process_retry_queue).  The controller    *)
(* launches the user simulator, evaluates the planned arms one after the   *)
(* other, each with a policy service and an evaluation process, then       *)
(* serves the requests reviewers drop into a folder, within one deadline   *)
(* and one cap.  It may be interrupted or killed, a stop of a child may    *)
(* raise, and somebody may start it again.                                 *)
(*                                                                         *)
(* Definitions under a comment "Variant" are slips of the definition that  *)
(* follows them; Spec uses none of them.                                   *)
(***************************************************************************)
EXTENDS Integers, SequencesExt

CONSTANTS
  Arms,                        (* plan["arms"], in order                   *)
  Tasks,                       (* the tasks of the manifest                *)
  Requests,                    (* the request files in name order, each    *)
                               (* with its arm, task and rejected attempt  *)
  max_attempts_per_cell,
  max_additional_trajectories,
  MaxInterrupts                (* bound on signals to one controller       *)

Cells == [arm : ToSet(Arms), task : Tasks]
Keys == [arm : ToSet(Arms), task : Tasks, attempt : 0..max_attempts_per_cell - 1]
Files == DOMAIN Requests

ASSUME EvaluationAssumption ==
  /\ max_attempts_per_cell \in Nat \ {0, 1} /\ max_additional_trajectories \in Nat
  /\ MaxInterrupts \in Nat
  /\ Arms \in Seq(ToSet(Arms)) /\ IsInjective(Arms)
  /\ Requests \in Seq([arm : ToSet(Arms), task : Tasks, attempt : Nat])

VARIABLES
  (* the run's folder *)
  started,      (* started.json                                            *)
  status,       (* the status in state.json                                *)
  gpu_workloads_stopped,
  exit,         (* controller.exit                                         *)
  written,      (* the request files that exist                            *)
  rejected,     (* those with a .rejected file                             *)
  ledger,       (* completed in retry_ledger.json                          *)
  (* the machine *)
  alive,        (* children alive: "user", "policy", "evaluation"          *)
  (* the controller *)
  main,         (* where it is                                             *)
  todo,         (* planned arms still to evaluate                          *)
  work,         (* the cells of the evaluation in progress                 *)
  completed, used, additional,   (* of process_retry_queue                 *)
  late,         (* the deadline has passed                                 *)
  interrupts,
  (* history *)
  attempts,     (* controllers that launched a workload                    *)
  begun,        (* how often each trajectory was started                   *)
  leaked        (* children a signal kept from being registered            *)

folder == <<started, status, gpu_workloads_stopped, exit, written, rejected, ledger>>
memory == <<todo, work, completed, used, additional>>
vars == <<folder, alive, main, memory, late, interrupts, attempts, begun, leaked>>

Key(f) == [arm |-> Requests[f].arm, task |-> Requests[f].task, attempt |-> Requests[f].attempt + 1]
Before(k) == [k EXCEPT !.attempt = @ - 1]

Init ==
  /\ started = FALSE /\ status = "absent" /\ gpu_workloads_stopped = FALSE /\ exit = "absent"
  /\ written = {} /\ rejected = {} /\ ledger = {} /\ alive = {}
  /\ main = "down" /\ todo = <<>> /\ work = {} /\ completed = {} /\ used = {} /\ additional = 0
  /\ late = FALSE /\ interrupts = 0 /\ attempts = 0 /\ begun = [k \in Keys |-> 0]
  /\ leaked = {}

(***************************************************************************)
(* Outside: reviewers, time, services                                      *)
(***************************************************************************)
Review ==
  /\ \E f \in Files \ written : written' = written \cup {f}
  /\ UNCHANGED <<started, status, gpu_workloads_stopped, exit, rejected, ledger, alive, main,
                 memory, late, interrupts, attempts, begun, leaked>>

DeadlinePasses ==
  /\ main # "down" /\ ~late /\ late' = TRUE
  /\ UNCHANGED <<folder, alive, main, memory, interrupts, attempts, begun, leaked>>

ChildExits ==
  /\ \E c \in alive : alive' = alive \ {c}
  /\ UNCHANGED <<folder, main, memory, late, interrupts, attempts, begun, leaked>>

(***************************************************************************)
(* Start                                                                   *)
(***************************************************************************)
Files_ == <<status, gpu_workloads_stopped, exit, written, rejected, ledger>>

(* Variant: no marker is written before the first launch.                  *)
StartUnmarked ==
  /\ main = "down" /\ ~started /\ alive = {}
  /\ main' = "user" /\ todo' = Arms /\ work' = {} /\ completed' = {} /\ used' = {}
  /\ additional' = 0 /\ late' = FALSE /\ interrupts' = 0
  /\ UNCHANGED <<folder, alive, attempts, begun, leaked>>

(* "Prior GPU attempt; no automatic replay": refused over started.json.    *)
(* The preflight wants the ports and the GPUs free; then the marker is     *)
(* written, before anything is launched.                                   *)
Start ==
  /\ main = "down" /\ ~started /\ alive = {}
  /\ started' = TRUE
  /\ main' = "user" /\ todo' = Arms /\ work' = {} /\ completed' = {} /\ used' = {}
  /\ additional' = 0 /\ late' = FALSE /\ interrupts' = 0
  /\ UNCHANGED <<Files_, alive, attempts, begun, leaked>>

Go(place, s) == main' = place /\ status' = s
Quiet == UNCHANGED <<started, gpu_workloads_stopped, exit, written>>

(* The simulator, and its calibration probe.                               *)
LaunchUser ==
  /\ main = "user" /\ alive' = alive \cup {"user"} /\ attempts' = attempts + 1
  /\ Go("arms", "starting_user")
  /\ Quiet /\ UNCHANGED <<rejected, ledger, memory, late, interrupts, begun, leaked>>

(***************************************************************************)
(* evaluate                                                                *)
(***************************************************************************)
(* guard: before the deadline, with its services alive.                    *)
Guard(services) == ~late /\ services \subseteq alive

Begin(keys) == work' = keys /\ alive' = alive \cup {"policy"}
Began == [k \in Keys |-> begun[k] + IF k \in work THEN 1 ELSE 0]

NextArm ==
  /\ main = "arms" /\ todo # <<>> /\ Guard({"user"})
  /\ Begin([arm : {Head(todo)}, task : Tasks, attempt : {0}]) /\ todo' = Tail(todo)
  /\ Go("serving", "starting_policy")
  /\ Quiet
  /\ UNCHANGED <<rejected, ledger, completed, used, additional, late, interrupts, attempts, begun,
                 leaked>>

(* wait_ready, then the evaluation process.                                *)
LaunchEvaluation ==
  /\ main = "serving" /\ Guard({"policy", "user"})
  /\ alive' = alive \cup {"evaluation"} /\ begun' = Began /\ Go("evaluating", "evaluating")
  /\ Quiet
  /\ UNCHANGED <<rejected, ledger, memory, late, interrupts, attempts, leaked>>

(* It has ended with a valid report, or one that only awaits review: both  *)
(* processes are stopped.                                                  *)
ArmComplete ==
  /\ main = "evaluating" /\ "evaluation" \notin alive
  /\ alive' = alive \ {"policy"}
  /\ Go(IF \A k \in work : k.attempt = 0 THEN "arms" ELSE "recording", "arm_complete")
  /\ Quiet
  /\ UNCHANGED <<rejected, ledger, memory, late, interrupts, attempts, begun, leaked>>

(***************************************************************************)
(* process_retry_queue                                                     *)
(***************************************************************************)
ArmsDone ==
  /\ main = "arms" /\ todo = <<>>
  /\ Go("queue", "awaiting_drift_review")
  /\ Quiet
  /\ UNCHANGED <<rejected, ledger, alive, memory, late, interrupts, attempts, begun, leaked>>

(* Variant: the attempt before need not have been completed.               *)
PlausibleSkipping(f) ==
  /\ Requests[f].attempt < max_attempts_per_cell - 1
  /\ Key(f) \notin completed

(* validate_request: within the attempts of a cell, after the attempt      *)
(* before was completed, and not done already.                             *)
Plausible(f) ==
  /\ Requests[f].attempt < max_attempts_per_cell - 1
  /\ Requests[f].attempt > 0 => Before(Key(f)) \in completed
  /\ Key(f) \notin completed

(* The first pending request decides the group: one arm, one attempt.      *)
Group(pending) ==
  LET first == CHOOSE f \in pending : \A g \in pending : f <= g
  IN  {f \in pending : Key(f).arm = Key(first).arm /\ Key(f).attempt = Key(first).attempt}

Fits(n) == additional + n <= max_additional_trajectories

(* One turn of the loop: every new file is validated (the evidence of some *)
(* may be refused), one group is evaluated in a new batch folder.  Two     *)
(* requests for one trajectory end the run; the cap ends the queue.  (The  *)
(* code adds the group to used once it is complete: no turn in between.)   *)
ServeQueue ==
  /\ main = "queue" /\ Guard({"user"})
  /\ \E refused \in SUBSET (written \ used) :
       LET new == written \ used
           bad == refused \cup {f \in new : ~Plausible(f)}
           group == Group(new \ bad)
           keys == {Key(f) : f \in group}
           n == Cardinality(keys)
           next == IF new = bad THEN "queue" ELSE
                   IF n < Cardinality(group) THEN "failed" ELSE
                   IF Fits(n) THEN "serving" ELSE "finally"
       IN /\ new # {} /\ rejected' = rejected \cup bad /\ main' = next
          /\ used' = used \cup bad \cup IF next = "serving" THEN group ELSE {}
          /\ IF next = "serving"
             THEN Begin(keys) /\ additional' = additional + n /\ status' = "starting_policy"
             ELSE /\ UNCHANGED <<alive, work, additional>>
                  /\ status' = IF next = "finally" THEN "complete" ELSE
                               IF bad = {} THEN status ELSE "retry_request_rejected"
  /\ Quiet
  /\ UNCHANGED <<ledger, todo, completed, late, interrupts, attempts, begun, leaked>>

(* Only a batch that ended well is completed, and then the ledger saved.   *)
RecordRetry ==
  /\ main = "recording"
  /\ completed' = completed \cup work /\ ledger' = completed'
  /\ Go("queue", "awaiting_drift_review")
  /\ Quiet
  /\ UNCHANGED <<rejected, alive, todo, work, used, additional, late, interrupts, attempts, begun, leaked>>

(* FINISH_RETRY_REVIEW.json, or too little time left: the queue ends.      *)
QueueEnds ==
  /\ main = "queue" /\ Guard({"user"})
  /\ Go("finally", "complete")
  /\ Quiet
  /\ UNCHANGED <<rejected, ledger, alive, memory, late, interrupts, attempts, begun, leaked>>

(***************************************************************************)
(* The ways out                                                            *)
(***************************************************************************)
(* The children in the order the controller stops them.                    *)
Stopped(n) == {c \in ToSet(SubSeq(<<"evaluation", "policy", "user">>, 1, n)) : c \notin leaked}

(* evaluate stops its two processes on any error; a stop that raises skips *)
(* the other.                                                              *)
Unwind == \E n \in IF main \in {"serving", "evaluating"} THEN 0..2 ELSE {0} :
            alive' = alive \ Stopped(n)

(* Variant: the wait for the evaluation does not look at the deadline.     *)
RaiseUnlessEvaluating ==
  /\ main \in {"user", "arms", "serving", "queue"}
  /\ main' = "failed" /\ Unwind
  /\ UNCHANGED <<folder, memory, late, interrupts, attempts, begun, leaked>>

(* guard or any other statement raises: past the deadline guard must.      *)
Raise ==
  /\ main \in {"user", "arms", "serving", "evaluating", "recording", "queue"}
  /\ main' = "failed" /\ Unwind
  /\ UNCHANGED <<folder, memory, late, interrupts, attempts, begun, leaked>>

(* except BaseException                                                    *)
Failed ==
  /\ main = "failed" /\ Go("finally", "stopped_for_review")
  /\ Quiet
  /\ UNCHANGED <<rejected, ledger, alive, memory, late, interrupts, attempts, begun, leaked>>

(* Variant: a stop that raised is passed over.                             *)
FinallyRegardless ==
  /\ main = "finally" /\ main' = "down"
  /\ \E n \in 0..3 : alive' = alive \ Stopped(n)
  /\ gpu_workloads_stopped' = TRUE /\ exit' = IF status = "complete" THEN "0" ELSE "1"
  /\ UNCHANGED <<started, status, written, rejected, ledger, memory, late, interrupts, attempts,
                 begun, leaked>>

(* Every child registered is stopped, the last launched first; a stop that *)
(* raises, or a signal, leaves the rest running and the two files as they  *)
(* were.                                                                   *)
Finally ==
  /\ main = "finally" /\ main' = "down"
  /\ \/ /\ alive' = alive \ Stopped(3)
        /\ gpu_workloads_stopped' = TRUE /\ exit' = IF status = "complete" THEN "0" ELSE "1"
     \/ /\ \E n \in 0..2 : alive' = alive \ Stopped(n)
        /\ UNCHANGED <<gpu_workloads_stopped, exit>>
  /\ UNCHANGED <<started, status, written, rejected, ledger, memory, late, interrupts, attempts,
                 begun, leaked>>

(* The child being launched where the controller is, if there is one.      *)
Launching == CASE main = "user" -> {"user"}
               [] main = "serving" -> {"evaluation"}
               [] OTHER -> IF main \in {"arms", "queue"} THEN {"policy"} ELSE {}

(* SIGTERM or SIGINT raises InterruptedError, between a launch and its     *)
(* registration too; while the error is being handled it skips the status. *)
Interrupt ==
  /\ main \notin {"down", "finally"} /\ interrupts < MaxInterrupts /\ interrupts' = interrupts + 1
  /\ main' = IF main = "failed" THEN "finally" ELSE "failed"
  /\ \/ Unwind /\ UNCHANGED <<attempts, begun, leaked>>
     \/ \E c \in Launching \ alive :
          /\ alive' = alive \cup {c} /\ leaked' = leaked \cup {c}
          /\ attempts' = attempts + IF c = "user" THEN 1 ELSE 0
          /\ begun' = IF c = "evaluation" THEN Began ELSE begun
  /\ UNCHANGED <<folder, memory, late>>

(* SIGKILL, or the machine's: nothing is stopped.                          *)
Kill ==
  /\ main # "down" /\ main' = "down"
  /\ UNCHANGED <<folder, alive, memory, late, interrupts, attempts, begun, leaked>>

Step ==
  \/ LaunchUser \/ NextArm \/ LaunchEvaluation \/ ArmComplete \/ ArmsDone \/ ServeQueue
  \/ RecordRetry \/ QueueEnds \/ Failed \/ Finally

Next == Review \/ DeadlinePasses \/ ChildExits \/ Start \/ Step \/ Raise \/ Interrupt \/ Kill

(* The controller runs, time passes, and guard is called at every turn of  *)
(* every wait.  Nothing is assumed of the services, the reviewers or the   *)
(* person who starts it.                                                   *)
Fairness == WF_vars(Step) /\ WF_vars(DeadlinePasses) /\ WF_vars(late /\ Raise)

Spec == Init /\ [][Next]_vars /\ Fairness

(***************************************************************************)
(* Properties                                                              *)
(***************************************************************************)
TypeOK ==
  /\ {started, gpu_workloads_stopped, late} \subseteq BOOLEAN
  /\ status \in {"absent", "starting_user", "starting_policy", "evaluating", "arm_complete",
                 "awaiting_drift_review", "retry_request_rejected", "complete",
                 "stopped_for_review"}
  /\ exit \in {"absent", "0", "1"}
  /\ rejected \subseteq written /\ used \subseteq written /\ written \subseteq Files
  /\ ledger \subseteq Keys /\ completed \subseteq Keys /\ work \subseteq Keys
  /\ alive \subseteq {"user", "policy", "evaluation"} /\ leaked \subseteq {"user", "policy", "evaluation"}
  /\ main \in {"down", "user", "arms", "serving", "evaluating", "recording", "queue", "failed",
               "finally"}
  /\ IsSuffix(todo, Arms) /\ additional \in 0..max_additional_trajectories
  /\ interrupts \in 0..MaxInterrupts /\ attempts \in Nat /\ begun \in [Keys -> Nat]

(* A GPU attempt is not replayed: through crashes, restarts, requests      *)
(* written twice and batches, one controller ever launches a workload, and *)
(* no trajectory is started twice.                                         *)
NoReplay == attempts <= 1 /\ \A k \in Keys : begun[k] <= 1

(* Retries stay within what was authorized: at most the cap of them is     *)
(* started, whatever becomes of them, and each one retries an attempt of   *)
(* that trajectory that was started, ended well, and was rejected in a     *)
(* request that exists and was not refused.                                *)
RetryScope ==
  LET retries == {k \in Keys : k.attempt > 0 /\ begun[k] > 0}
  IN  /\ Cardinality(retries) <= max_additional_trajectories
      /\ \A k \in retries :
           /\ begun[Before(k)] > 0 /\ Before(k) \notin work
           /\ k.attempt > 1 => Before(k) \in ledger
           /\ \E f \in written \ rejected : Key(f) = k

(* What the folder says of the end is so: "gpu_workloads_stopped" only     *)
(* when no child is left but one the controller never got to register, and *)
(* exit code 0 only when every planned trajectory ran and every retry that *)
(* was started is in the ledger.                                           *)
EndHonest ==
  /\ gpu_workloads_stopped => alive \subseteq leaked
  /\ exit = "0" => /\ \A k \in Keys : k.attempt = 0 => begun[k] = 1
                   /\ {k \in Keys : k.attempt > 0 /\ begun[k] > 0} \subseteq ledger

(* The deadline ends it: a controller that started ends, even when a       *)
(* service hangs and no reviewer ever answers.                             *)
BoundedEnds == (main # "down") ~> (main = "down")
=============================================================================
