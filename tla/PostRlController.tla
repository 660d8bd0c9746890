--------------------------- MODULE PostRlController ---------------------------
(***************************************************************************)
(* Evaluation of the trained models after the RL queue:                    *)
(* tau3_grpo/evaluation/controller.py in its watch mode.  The main thread  *)
(* exports the checkpoints that are ready, waits for the RL queue, starts  *)
(* the simulator and hands the models to slot threads, which take a        *)
(* further model from one pending list whenever theirs is done.  Every     *)
(* service and evaluation is a child in a process group of its own.  The   *)
(* controller may be interrupted (twice), killed, and started again on the *)
(* same output directory.                                                  *)
(*                                                                         *)
(* Definitions under a comment "Variant" are slips of the definition that  *)
(* follows them; Spec uses none of them.                                   *)
(***************************************************************************)
EXTENDS Integers, SequencesExt

CONSTANTS
  Slots,          (* SLOTS: for each slot thread, the models it starts with *)
  Queue,          (* pending: models for the first free slot                *)
  Trained,        (* ARMS: the models that come out of the RL queue         *)
  ExportOrder,    (* the order in which prepare_existing looks at them      *)
  Late,           (* the arm that is exported after the wait ('e3')         *)
  BackedUp,       (* arms whose checkpoint is copied ('e2', 'e3')           *)
  MaxInterrupts,  (* bound on SIGTERM/SIGINT to one controller              *)
  MaxStarts       (* bound on controllers on this directory                 *)

Models == ToSet(Queue) \cup UNION {ToSet(arms) : arms \in ToSet(Slots)}

ASSUME ControllerAssumption ==
  /\ Slots # <<>> /\ Slots \in Seq(Seq(Models) \ {<<>>}) /\ Queue \in Seq(Models)
  /\ ExportOrder \in Seq(Models) /\ ToSet(ExportOrder) = Models
  /\ Late \in Trained /\ Trained \subseteq Models /\ BackedUp \subseteq Trained
  /\ MaxInterrupts \in Nat /\ MaxStarts \in Nat

Threads == DOMAIN Slots
Child(kind, m) == <<kind, m>>
Simulator == Child("simulator", "all")

VARIABLES
  (* the output directory *)
  export,      (* of each model: "none", "merging" (staging) or "ready"    *)
  backup,      (* of each model: "none", "copying" (staging) or "copied"   *)
  logs,        (* children whose log file exists                           *)
  selection,   (* the directory of full evaluations exists                 *)
  exit,        (* controller.exit                                          *)
  report,      (* state.json: its status, the results, safe_to_shutdown    *)
  (* the machine *)
  rl,          (* the RL queue, and the arms it has finished               *)
  alive,       (* children alive, of any controller                        *)
  (* the controller *)
  main,        (* where the main thread is                                 *)
  todo,        (* the models it still has to look at before it goes on     *)
  job,         (* the merge or copy it is doing for the first of them      *)
  models,      (* self.models                                              *)
  children,    (* self.children                                            *)
  stopping,    (* stop_event                                               *)
  slot,        (* of each thread: its place, current model, arms, results  *)
  pending,     (* self.pending                                             *)
  interrupts,
  (* history *)
  starts, cut, (* a cleanup was interrupted or a stop raised               *)
  scored       (* of each model, its full evaluations with a valid summary *)

disk == <<export, backup, logs, selection, exit, report>>
ctl == <<main, todo, job, models, children, stopping, slot, pending, interrupts>>
vars == <<disk, rl, alive, ctl, starts, cut, scored>>

NoResults == [m \in {} |-> "ok"]
Idle == [at |-> "idle", model |-> "none", arms |-> <<>>, results |-> NoResults]

Init ==
  /\ export = [m \in Models |-> IF m \in Trained THEN "none" ELSE "ready"]
  /\ backup = [m \in Models |-> "none"] /\ logs = {} /\ selection = FALSE /\ exit = "absent"
  /\ report = [status |-> "absent", results |-> NoResults, safe |-> FALSE]
  /\ rl = [state |-> "running", finished |-> {}] /\ alive = {}
  /\ main = "down" /\ todo = <<>> /\ job = "none" /\ models = {} /\ children = {}
  /\ stopping = FALSE /\ slot = [s \in Threads |-> Idle] /\ pending = <<>>
  /\ interrupts = 0 /\ starts = 0 /\ cut = FALSE /\ scored = [m \in Models |-> 0]

Status(s) == report' = [report EXCEPT !.status = s]

(***************************************************************************)
(* The RL queue, outside this program                                      *)
(***************************************************************************)
QueueMoves ==
  /\ rl.state = "running"
  /\ \/ \E m \in Trained \ rl.finished : rl' = [rl EXCEPT !.finished = @ \cup {m}]
     \/ rl.finished = Trained /\ rl' = [rl EXCEPT !.state = "complete"]
     \/ rl' = [rl EXCEPT !.state = "failed"]
  /\ UNCHANGED <<disk, alive, ctl, starts, cut, scored>>

(***************************************************************************)
(* Children                                                                *)
(***************************************************************************)
(* The child is registered; a log of an earlier attempt is truncated.      *)
LaunchOver(c) ==
  /\ logs' = logs \cup {c} /\ alive' = alive \cup {c} /\ children' = children \cup {c}

(* launch: the log is opened "x", so one of an earlier attempt refuses it. *)
Launch(c) == c \notin logs /\ LaunchOver(c)

(* A child may exit, well or badly, at any moment.                         *)
ChildExits(c) ==
  /\ c \in alive /\ alive' = alive \ {c}
  /\ UNCHANGED <<disk, rl, ctl, starts, cut, scored>>

(***************************************************************************)
(* Main thread: start, export, wait                                        *)
(***************************************************************************)
(* main, on any directory without an exit file.                            *)
StartAgain ==
  /\ main = "down" /\ starts < MaxStarts /\ exit = "absent"
  /\ starts' = starts + 1 /\ main' = "preparing"
  /\ todo' = ExportOrder /\ job' = "none"
  /\ models' = {} /\ children' = {} /\ stopping' = FALSE
  /\ slot' = [s \in Threads |-> Idle] /\ pending' = Queue /\ interrupts' = 0 /\ cut' = FALSE
  /\ Status("preparing_cpu")
  /\ UNCHANGED <<export, backup, logs, selection, exit, rl, alive, scored>>

(* Refused over an existing evaluation attempt.                            *)
Start == ~selection /\ StartAgain

Fails == main' = "failing"

(* An arm the queue has not finished when its turn comes is left out.      *)
SkipUnfinished ==
  /\ main = "preparing" /\ todo # <<>> /\ job = "none"
  /\ Head(todo) \in Trained \ (rl.finished \cup models)
  /\ todo' = Tail(todo)
  /\ UNCHANGED <<disk, rl, alive, main, job, models, children, stopping, slot, pending,
                 interrupts, starts, cut, scored>>

(* prepare_model: an export that is ready is verified against its receipt, *)
(* an unfinished one needs a person, another is merged into staging.       *)
Export ==
  /\ main \in {"preparing", "late"} /\ todo # <<>> /\ job = "none"
  /\ LET m == Head(todo) IN
     /\ m \notin models /\ (m \in Trained => m \in rl.finished)
     /\ CASE export[m] = "ready" -> models' = models \cup {m} /\ UNCHANGED <<main, export, logs, alive, children, job>>
          [] export[m] = "merging" \/ Child("merge", m) \in logs ->
               Fails /\ UNCHANGED <<models, export, logs, alive, children, job>>
          [] OTHER -> /\ export' = [export EXCEPT ![m] = "merging"]
                      /\ Launch(Child("merge", m))
                      /\ job' = "merge" /\ UNCHANGED <<main, models>>
  /\ UNCHANGED <<backup, selection, exit, report, rl, todo, stopping, slot, pending,
                 interrupts, starts, cut, scored>>

(* The merge ended and was verified tensor by tensor: receipt, then rename.*)
(* It may fail or be stopped by its timeout.                               *)
PublishExport ==
  /\ job = "merge" /\ main \in {"preparing", "late"}
  /\ LET m == Head(todo) IN
     \/ /\ Child("merge", m) \notin alive /\ UNCHANGED <<main, alive>>
        /\ export' = [export EXCEPT ![m] = "ready"]
        /\ models' = models \cup {m} /\ job' = "none"
     \/ Fails /\ alive' = alive \ {Child("merge", m)} /\ UNCHANGED <<export, models, job>>
  /\ UNCHANGED <<backup, logs, selection, exit, report, rl, todo, children, stopping,
                 slot, pending, interrupts, starts, cut, scored>>

(* persist_complete: copy to staging, compare every hash, rename; an       *)
(* unfinished copy needs a person.                                         *)
Backup ==
  /\ main \in {"preparing", "late"} /\ todo # <<>>
  /\ LET m == Head(todo) IN
     /\ m \in models
     /\ CASE m \notin BackedUp \/ (job = "none" /\ backup[m] = "copied") ->
               todo' = Tail(todo) /\ UNCHANGED <<main, job, backup>>
          [] job = "none" /\ backup[m] = "copying" -> Fails /\ UNCHANGED <<todo, job, backup>>
          [] job = "none" /\ backup[m] = "none" ->
               /\ job' = "copy" /\ backup' = [backup EXCEPT ![m] = "copying"]
               /\ UNCHANGED <<main, todo>>
          [] job = "copy" ->
               \/ /\ job' = "none" /\ backup' = [backup EXCEPT ![m] = "copied"]
                  /\ UNCHANGED <<main, todo>>
               \/ Fails /\ UNCHANGED <<todo, job, backup>>
  /\ UNCHANGED <<export, logs, selection, exit, report, rl, alive, models, children, stopping, slot, pending, interrupts, starts, cut, scored>>

(* wait_for_training: a failed queue never triggers an evaluation; after a *)
(* complete one the late arm is exported.                                  *)
WaitForTraining ==
  /\ \/ main = "preparing" /\ todo = <<>> /\ main' = "waiting" /\ UNCHANGED todo
     \/ main = "waiting" /\ rl.state = "failed" /\ Fails /\ UNCHANGED todo
     \/ /\ main = "waiting" /\ rl.state = "complete" /\ main' = "late"
        /\ todo' = IF Late \in models THEN <<>> ELSE <<Late>>
  /\ Status(IF main = "preparing" THEN "waiting_for_rl" ELSE report.status)
  /\ UNCHANGED <<export, backup, logs, selection, exit, rl, alive, job, models, children,
                 stopping, slot, pending, interrupts, starts, cut, scored>>

(***************************************************************************)
(* Main thread: evaluate                                                   *)
(***************************************************************************)
StartSimulator ==
  /\ main = "late" /\ todo = <<>>
  /\ IF alive = {} /\ ~stopping /\ Simulator \notin logs
       THEN Launch(Simulator) /\ main' = "health"
       ELSE Fails /\ UNCHANGED <<logs, alive, children>>
  /\ UNCHANGED <<export, backup, selection, exit, report, rl, todo, job, models, stopping, slot, pending, interrupts, starts, cut, scored>>

(* wait_health, then one future per slot.                                  *)
SimulatorReady ==
  /\ main = "health"
  /\ \/ /\ Simulator \in alive /\ main' = "evaluating" /\ Status("evaluating")
        /\ slot' = [s \in Threads |-> [Idle EXCEPT !.at = "take", !.arms = Slots[s]]]
     \/ Fails /\ UNCHANGED <<report, slot>>
  /\ UNCHANGED <<export, backup, logs, selection, exit, rl, alive, todo, job, models, children,
                 stopping, pending, interrupts, starts, cut, scored>>

(***************************************************************************)
(* Slot threads: evaluate_slot                                             *)
(***************************************************************************)
Policy(s) == Child("policy", slot[s].model)
Job(s) == Child(slot[s].at, slot[s].model)
Keeps == <<export, backup, exit, report, rl, main, todo, job, models, stopping,
           interrupts, starts>>

Record(f, m, r) == [x \in DOMAIN f \cup {m} |-> IF x = m THEN r ELSE f[x]]
Failed(s, m, at) ==
  [slot EXCEPT ![s].at = at, ![s].results = Record(@, m, "error"), ![s].model = m]

(* The next model: its GPU and port must be free, its export prepared, and *)
(* the controller not stopping.                                            *)
Take(s) ==
  /\ slot[s].at = "take"
  /\ LET m == Head(slot[s].arms)
         popped == [slot EXCEPT ![s].arms = Tail(@), ![s].model = m]
     IN \/ /\ ~stopping /\ m \in models /\ Child("policy", m) \notin logs
           /\ slot' = [popped EXCEPT ![s].at = "launch"]
        \/ slot' = [popped EXCEPT ![s].at = "next", ![s].results = Record(@, m, "error")]
  /\ UNCHANGED <<Keeps, logs, selection, alive, children, pending, cut, scored>>

(* The policy server starts; stop_event was read before.                   *)
LaunchPolicy(s) ==
  /\ slot[s].at = "launch" /\ Launch(Policy(s))
  /\ slot' = [slot EXCEPT ![s].at = "service"]
  /\ UNCHANGED <<Keeps, selection, pending, cut, scored>>

(* It answers and is attested, and the smoke evaluation (a child like the  *)
(* full one, taken in the same step) is scored: the full evaluation starts *)
(* and makes its directory sooner or later.                                *)
Serve(s) ==
  /\ slot[s].at = "service"
  /\ \/ /\ Policy(s) \in alive /\ ~stopping
        /\ Launch(Child("full", slot[s].model)) /\ selection' \in {selection, TRUE}
        /\ slot' = [slot EXCEPT ![s].at = "full"]
     \/ /\ slot' = Failed(s, slot[s].model, "stop")
        /\ UNCHANGED <<logs, alive, children, selection>>
  /\ UNCHANGED <<Keeps, pending, cut, scored>>

(* run_command fails: stop requested, timeout, a dependency gone, a bad    *)
(* exit or summary.  Its own stop of the job may raise and leave it.       *)
JobFails(s) ==
  /\ slot[s].at = "full"
  /\ \/ alive' = alive \ {Job(s)} /\ UNCHANGED cut
     \/ Job(s) \in alive /\ UNCHANGED alive /\ cut' = (cut \/ main \in {"finally", "exiting"})
  /\ slot' = Failed(s, slot[s].model, "stop")
  /\ UNCHANGED <<Keeps, logs, selection, children, pending, scored>>

FullPassed(s) ==
  /\ slot[s].at = "full" /\ Job(s) \notin alive
  /\ selection' = TRUE
  /\ scored' = [scored EXCEPT ![slot[s].model] = @ + 1]
  /\ slot' = [slot EXCEPT ![s].at = "stop", ![s].results = Record(@, slot[s].model, "ok")]
  /\ UNCHANGED <<Keeps, logs, alive, children, pending, cut>>

(* finally: the policy server is stopped.  A stop that raises ends the     *)
(* thread, its results with it.                                            *)
StopPolicy(s) ==
  /\ slot[s].at = "stop"
  /\ \/ /\ alive' = alive \ {Policy(s)} /\ UNCHANGED cut
        /\ slot' = [slot EXCEPT ![s].at = "next"]
     \/ /\ Policy(s) \in alive /\ UNCHANGED alive
        /\ cut' = (cut \/ main \in {"finally", "exiting"})
        /\ slot' = [slot EXCEPT ![s].at = "lost"]
  /\ UNCHANGED <<Keeps, logs, selection, children, pending, scored>>

(* Variant: a thread whose model failed takes no other.                    *)
NextAfterSuccess(s) ==
  /\ slot[s].at = "next"
  /\ LET more == pending # <<>> /\ slot[s].results[slot[s].model] = "ok" IN
     /\ slot' = [slot EXCEPT ![s].at = IF more THEN "take" ELSE "done",
                             ![s].arms = IF more THEN <<Head(pending)>> ELSE <<>>]
     /\ pending' = IF more THEN Tail(pending) ELSE pending
  /\ UNCHANGED <<Keeps, logs, selection, alive, children, cut, scored>>

(* Variant: the list is read but the model is left on it.                  *)
NextModelKept(s) ==
  /\ slot[s].at = "next"
  /\ LET arms == slot[s].arms \o (IF pending = <<>> THEN <<>> ELSE <<Head(pending)>>) IN
     slot' = [slot EXCEPT ![s].at = IF arms = <<>> THEN "done" ELSE "take", ![s].arms = arms]
  /\ UNCHANGED <<Keeps, pending, logs, selection, alive, children, cut, scored>>

(* next_pending, under the lock.                                           *)
NextModel(s) ==
  /\ slot[s].at = "next"
  /\ LET arms == slot[s].arms \o (IF pending = <<>> THEN <<>> ELSE <<Head(pending)>>) IN
     slot' = [slot EXCEPT ![s].at = IF arms = <<>> THEN "done" ELSE "take", ![s].arms = arms]
  /\ pending' = IF pending = <<>> THEN <<>> ELSE Tail(pending)
  /\ UNCHANGED <<Keeps, logs, selection, alive, children, cut, scored>>

ThreadStep(s) ==
  Take(s) \/ LaunchPolicy(s) \/ Serve(s) \/ JobFails(s) \/ FullPassed(s)
  \/ StopPolicy(s) \/ NextModel(s)

Ended == \A s \in Threads : slot[s].at \in {"idle", "done", "lost"}

(***************************************************************************)
(* Main thread: results and cleanup                                        *)
(***************************************************************************)
Results ==
  LET of(m) == {slot[s].results[m] : s \in {t \in Threads : m \in DOMAIN slot[t].results}}
  IN  [m \in {n \in Models : of(n) # {}} |-> CHOOSE r \in of(m) : TRUE]

Complete == \A m \in Models : m \in DOMAIN Results /\ Results[m] = "ok"

(* The pool is closed when every thread has ended; a lost one raises here. *)
Collect ==
  /\ main \in {"evaluating", "draining"} /\ Ended
  /\ IF main = "draining" \/ \E s \in Threads : slot[s].at = "lost"
       THEN Fails /\ UNCHANGED report
       ELSE /\ report' = [status |-> IF Complete THEN "complete" ELSE "incomplete",
                          results |-> Results,
                          safe |-> Complete /\ \A m \in BackedUp : backup[m] = "copied"]
            /\ main' = "cleanup"
  /\ UNCHANGED <<export, backup, logs, selection, exit, rl, alive, todo, job, models, children,
                 stopping, slot, pending, interrupts, starts, cut, scored>>

(* except BaseException: the failure is recorded and watch mode leaves its *)
(* exit file.                                                              *)
RecordFailure ==
  /\ main = "failing"
  /\ report' = [report EXCEPT !.status = "failed", !.safe = FALSE] /\ exit' = "1"
  /\ main' = "finally"
  /\ UNCHANGED <<export, backup, logs, selection, rl, alive, todo, job, models, children,
                 stopping, slot, pending, interrupts, starts, cut, scored>>

ExitCode == IF report.status = "complete" THEN "0" ELSE "1"

(* Variant: there is no second cleanup in finally.                         *)
CleanupOnce ==
  /\ main \in {"cleanup", "finally"} /\ stopping' = TRUE
  /\ \E stopped \in SUBSET (children \cap alive) : alive' = alive \ stopped
  /\ main' = "exiting" /\ exit' = (IF main = "cleanup" THEN ExitCode ELSE exit)
  /\ UNCHANGED <<export, backup, logs, selection, report, rl, todo, job, models, children, slot,
                 pending, interrupts, starts, cut, scored>>

(* cleanup: the children of this moment, last first.  A stop that raises   *)
(* skips the others; after the regular cleanup comes the exit file, and in *)
(* any case the cleanup in finally.                                        *)
Cleanup ==
  /\ main \in {"cleanup", "finally"} /\ stopping' = TRUE
  /\ \/ /\ alive' = alive \ children /\ UNCHANGED cut
        /\ main' = IF main = "cleanup" THEN "finally" ELSE "exiting"
        /\ exit' = IF main = "cleanup" THEN ExitCode ELSE exit
     \/ /\ \E stopped \in SUBSET (children \cap alive) :
             stopped # children \cap alive /\ alive' = alive \ stopped
        /\ main' = IF main = "cleanup" THEN "failing" ELSE "exiting"
        /\ cut' = (cut \/ main = "finally") /\ UNCHANGED exit
  /\ UNCHANGED <<export, backup, logs, selection, report, rl, todo, job, models, children, slot,
                 pending, interrupts, starts, scored>>

(* What the process held in memory is gone.                                *)
Vanish ==
  /\ main' = "down" /\ todo' = <<>> /\ job' = "none" /\ models' = {} /\ stopping' = FALSE
  /\ slot' = [s \in Threads |-> Idle] /\ pending' = <<>> /\ interrupts' = 0
  /\ UNCHANGED <<disk, rl, alive, children, starts, scored>>

(* The process ends when its threads have.                                 *)
ProcessEnds == main = "exiting" /\ Ended /\ Vanish /\ UNCHANGED cut

(***************************************************************************)
(* Signals and kills                                                       *)
(***************************************************************************)
(* A child the main thread has started may not be registered yet.          *)
Starting == IF main = "health" THEN {Simulator}
            ELSE IF job = "merge" THEN {Child("merge", Head(todo))} ELSE {}

(* The handler sets stop_event and raises in the main thread, wherever it  *)
(* is.  One that strikes between the start of a child and its registration *)
(* leaves it unknown to every cleanup.                                     *)
Interrupt ==
  /\ main \notin {"down", "exiting"} /\ interrupts < MaxInterrupts
  /\ interrupts' = interrupts + 1 /\ stopping' = TRUE
  /\ CASE main = "evaluating" -> main' = "draining" /\ UNCHANGED <<cut, children>>
       [] main = "failing" -> main' = "finally" /\ UNCHANGED <<cut, children>>
       [] main = "finally" -> main' = "exiting" /\ cut' = TRUE /\ UNCHANGED children
       [] OTHER -> /\ Fails
                   /\ \/ UNCHANGED <<cut, children>>
                      \/ \E c \in Starting : cut' = TRUE /\ children' = children \ {c}
  /\ UNCHANGED <<disk, rl, alive, todo, job, models, slot, pending, starts, scored>>

Kill == main # "down" /\ Vanish /\ cut' = TRUE

MainStep ==
  \/ SkipUnfinished \/ Export \/ PublishExport \/ Backup \/ WaitForTraining
  \/ StartSimulator \/ SimulatorReady \/ Collect \/ RecordFailure \/ Cleanup
  \/ ProcessEnds

Next ==
  \/ QueueMoves \/ Start \/ MainStep \/ Interrupt \/ Kill
  \/ \E s \in Threads : ThreadStep(s)
  \/ \E c \in alive : ChildExits(c)

(* The main thread and the slot threads run; every wait in them has a      *)
(* timeout, except the one for the RL queue.                               *)
Fairness == WF_vars(MainStep) /\ \A s \in Threads : WF_vars(ThreadStep(s))

Spec == Init /\ [][Next]_vars /\ Fairness

(***************************************************************************)
(* Properties                                                              *)
(***************************************************************************)
TypeOK ==
  /\ export \in [Models -> {"none", "merging", "ready"}]
  /\ backup \in [Models -> {"none", "copying", "copied"}]
  /\ exit \in {"absent", "0", "1"} /\ selection \in BOOLEAN
  /\ alive \subseteq logs /\ models \subseteq Models
  /\ main \in {"down", "preparing", "waiting", "late", "health", "evaluating", "draining",
               "cleanup", "failing", "finally", "exiting"}
  /\ scored \in [Models -> Nat]

(* What state.json says about an evaluation is so: it is complete only     *)
(* when every model of the plan was scored, once over all controllers on   *)
(* the directory, with its export ready; any other end of an evaluation    *)
(* names the result of every model; and the machine is declared safe to    *)
(* shut down only with every copy verified.                                *)
(* (evaluate, evaluate_slot and next_pending)                              *)
OutcomeHonest ==
  /\ \A m \in Models : scored[m] <= 1
  /\ report.status \in {"complete", "incomplete"} => DOMAIN report.results = Models
  /\ report.status = "complete" => \A m \in Models : scored[m] = 1 /\ export[m] = "ready"
  /\ report.safe => /\ report.status = "complete"
                    /\ \A m \in BackedUp : backup[m] = "copied"

(* A controller that ends leaves no child of its own behind, unless it was *)
(* killed, its last cleanup was cut short, or a signal struck between the  *)
(* start of a service and its registration.                                *)
(* (the cleanups of main and of evaluate_slot)                             *)
NothingLeftRunning == main = "down" /\ ~cut => alive \cap children = {}

(* Once the queue has been waited for, every controller ends.              *)
ControllerEnds == (main \notin {"down", "waiting"}) ~> (main \in {"down", "waiting"})
===============================================================================
