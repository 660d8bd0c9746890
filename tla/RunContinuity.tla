--------------------------- MODULE RunContinuity ---------------------------
(***************************************************************************)
(* One training result directory across runs, crashes and resumes: the     *)
(* trainer's loop (RayPPOTrainer.fit with its local patches), the recovery *)
(* points it publishes (complete_boundary, validate_checkpoint), the       *)
(* learning curve (ContinuousSwanlab), the stop request (MatchedBudget)    *)
(* and the controller that starts, watches and verifies a run (runner).    *)
(*                                                                         *)
(* A model state is the sequence of the runs that made its updates, so two *)
(* states of one step are equal only if their history is. A point of the   *)
(* curve is a step and the run that reported it. Processes may be killed   *)
(* between any two writes. The SwanLab client (external) uploads in the    *)
(* background, in any order, and loses what it holds when it is killed.    *)
(***************************************************************************)
EXTENDS Integers, FiniteSets, Sequences

CONSTANTS
  Interval,     \* save_freq = test_freq = TAU3_BUDGET_INTERVAL
  Goals,        \* the --updates an operator may ask for
  MaxRuns       \* bound: number of starts and resumes

(* "Formal targets must be positive multiples of ten".                     *)
ASSUME ContinuityAssumption ==
  /\ Interval \in Nat \ {0} /\ MaxRuns \in Nat
  /\ Goals \subseteq Nat \ {0} /\ \A g \in Goals : g % Interval = 0

VARIABLES
  run, goal, trainer, step, weights, restored, saved, target, requested, rc,
  ckpt, marker, last, rows, validated, budget,      \* the result directory
  pending, cloud,                                   \* the SwanLab client and server
  controller, status,
  stop, stopBy          \* STOP_AFTER_BOUNDARY; history: the boundary it asks for

loop == <<step, weights, restored, saved, target, requested>>
checkpoints == <<ckpt, marker>>
curve == <<last, rows, pending, cloud>>
control == <<run, goal, controller, status>>
request == <<stop, stopBy>>
vars == <<loop, trainer, rc, checkpoints, curve, validated, budget, control, request>>
-----------------------------------------------------------------------------
Steps == UNION {1..g : g \in Goals}
Boundaries == {s \in Steps : s % Interval = 0}

(* The next boundary, a boundary being its own.                            *)
Boundary(s) == ((s + Interval - 1) \div Interval) * Interval

(* Files of a global_step directory: none, some, all, all with a receipt.  *)
Contents == {"absent", "partial", "saved", "complete"}
NoCheckpoint == [contents |-> "absent", weights |-> << >>]

Init ==
  /\ run = 0 /\ goal = 0 /\ trainer = "down" /\ step = 0 /\ weights = << >>
  /\ restored = 0 /\ saved = << >> /\ target = 0 /\ requested = FALSE /\ rc = "none"
  /\ ckpt = [b \in Boundaries |-> NoCheckpoint] /\ marker = 0
  /\ last = -1 /\ rows = {} /\ pending = {} /\ cloud = {}
  /\ validated = {} /\ budget = [requested |-> FALSE, target |-> 0]
  /\ controller = "none" /\ status = "none" /\ stop = FALSE /\ stopBy = 0
-----------------------------------------------------------------------------
(* The controller's start.                                                 *)

(* No process of an earlier run is left: the GPU and port checks.          *)
Quiet == controller = "none" /\ trainer = "down" /\ run < MaxRuns

Launch(g, from) ==
  /\ run' = run + 1 /\ goal' = g /\ restored' = from
  /\ controller' = "waiting" /\ status' = "training"
  /\ trainer' = "loading" /\ rc' = "none"
  /\ UNCHANGED <<step, weights, saved, target, requested, checkpoints, curve, validated,
                 budget, request>>

(* Any trace of training or of a controller forbids a fresh start.         *)
StartFresh(g) ==
  /\ Quiet /\ ~stop
  /\ last = -1 /\ status = "none" /\ \A b \in Boundaries : ckpt[b].contents = "absent"
  /\ Launch(g, 0)

(* validate_checkpoint: the receipt, every file it lists, and the marker.  *)
Valid(b) == b \in Boundaries /\ ckpt[b].contents = "complete" /\ marker = b

Resume(g) ==
  /\ Quiet /\ ~stop
  /\ Valid(marker) /\ marker < g /\ last # -1
  /\ Launch(g, marker)
-----------------------------------------------------------------------------
(* The trainer.                                                            *)

Stopped ==
  /\ trainer' = "down" /\ pending' = {}
  /\ step' = 0 /\ weights' = << >> /\ saved' = << >> /\ target' = 0 /\ requested' = FALSE
  /\ UNCHANGED restored

(* Restore the state, and the stop decision of this process.               *)
LoadCheckpoint ==
  /\ trainer = "loading"
  /\ step' = restored
  /\ weights' = IF restored = 0 THEN << >> ELSE ckpt[restored].weights
  /\ trainer' = "tracking"
  /\ UNCHANGED <<restored, saved, target, requested, rc, checkpoints, curve, validated,
                 budget, control, request>>

(* Variant: only the local file is compared with the checkpoint.           *)
CurveAheadLocally == last > restored

(* Variant: the curve may be ahead of the checkpoint.                      *)
CurveAheadNever == FALSE

(* "refusing to mix repeated updates": by the local state file, and by     *)
(* what the server holds.                                                  *)
CurveAhead == last > restored \/ \E point \in cloud : point[1] > restored

StartTracking ==
  /\ trainer = "tracking"
  /\ \/ CurveAhead /\ Stopped /\ rc' = "error" /\ UNCHANGED <<last, rows, cloud>>
     \/ /\ ~CurveAhead
        /\ last' = restored /\ step' = restored + 1 /\ trainer' = "updating"
        /\ UNCHANGED <<weights, restored, saved, target, requested, rc, rows, pending, cloud>>
  /\ UNCHANGED <<checkpoints, validated, budget, control, request>>

IsLastStep == step >= IF target # 0 THEN target ELSE goal
AtBoundary == IsLastStep \/ step % Interval = 0

Update ==
  /\ trainer = "updating"
  /\ weights' = Append(weights, run)
  /\ trainer' = IF AtBoundary THEN "saving" ELSE "observing"
  /\ UNCHANGED <<step, restored, saved, target, requested, rc, checkpoints, curve,
                 validated, budget, control, request>>

(* Variant: the workers rotate as max_actor_ckpt_to_keep says.             *)
WorkersKeepOne == 1

(* "Worker rotation must wait until the trainer's dataloader/RNG metadata  *)
(* is durable too".                                                        *)
WorkersKeep == 2

(* The longest tail of this process's saves with at most n entries.        *)
Newest(paths, n) ==
  IF Len(paths) <= n THEN paths ELSE SubSeq(paths, Len(paths) - n + 1, Len(paths))

(* Directories the workers drop lose their shards.                         *)
Evict(kept) ==
  [b \in Boundaries |->
    IF (\E i \in 1..Len(saved) : saved[i] = b) /\ ~(\E i \in 1..Len(kept) : kept[i] = b)
       /\ ckpt[b].contents # "absent"
    THEN [ckpt[b] EXCEPT !.contents = "partial"] ELSE ckpt[b]]

(* ensure_checkpoint_capacity, then the first shards.                      *)
BeginSave ==
  /\ trainer = "saving"
  /\ saved' = IF WorkersKeep > 1 THEN Newest(saved, WorkersKeep - 1) ELSE saved
  /\ ckpt' = [Evict(saved') EXCEPT ![step] = [contents |-> "partial", weights |-> weights]]
  /\ trainer' = "registering"
  /\ UNCHANGED <<step, weights, restored, target, requested, rc, marker, curve, validated,
                 budget, control, request>>

(* Every rank is written: register_checkpoint rotates.                     *)
RegisterSave ==
  /\ trainer = "registering"
  /\ saved' = Newest(Append(saved, step), WorkersKeep)
  /\ ckpt' = Evict(saved')
  /\ trainer' = "storing"
  /\ UNCHANGED <<step, weights, restored, target, requested, rc, marker, curve, validated,
                 budget, control, request>>

(* data.pt completes the recovery state.                                   *)
SaveDataloader ==
  /\ trainer = "storing"
  /\ ckpt' = [ckpt EXCEPT ![step].contents = "saved"]
  /\ trainer' = "certifying"
  /\ UNCHANGED <<loop, rc, marker, curve, validated, budget, control, request>>

(* complete_boundary: the receipt of what is there.                        *)
WriteReceipt ==
  /\ trainer = "certifying"
  /\ ckpt[step].contents = "saved"
  /\ ckpt' = [ckpt EXCEPT ![step].contents = "complete"]
  /\ trainer' = "marking"
  /\ UNCHANGED <<loop, rc, marker, curve, validated, budget, control, request>>

PublishMarker ==
  /\ trainer = "marking"
  /\ marker' = step
  /\ trainer' = "pruning"
  /\ UNCHANGED <<loop, rc, ckpt, curve, validated, budget, control, request>>

Older == {b \in Boundaries : b < step /\ ckpt[b].contents # "absent"}

(* rmtree of the older directories, newest first, file by file.            *)
Prune ==
  /\ trainer = "pruning"
  /\ \/ /\ Older = {} /\ trainer' = "validating" /\ UNCHANGED ckpt
     \/ \E b \in Older :
          /\ \A c \in Older : c <= b
          /\ ckpt' = [ckpt EXCEPT ![b] = IF @.contents = "partial" THEN NoCheckpoint
                                         ELSE [@ EXCEPT !.contents = "partial"]]
          /\ UNCHANGED trainer
  /\ UNCHANGED <<loop, rc, marker, curve, validated, budget, control, request>>

Validate ==
  /\ trainer = "validating"
  /\ validated' = validated \cup {step}
  /\ trainer' = "observing"
  /\ UNCHANGED <<loop, rc, checkpoints, curve, budget, control, request>>

(* Variant: one more whole interval.                                       *)
StopTargetLate == Boundary(step) + Interval

(* The boundary a stop request ends the run at.                            *)
StopTarget ==
  IF target = 0 \/ Boundary(step) < target THEN Boundary(step) ELSE target

(* MatchedBudget.observe: a new stop request, or the last step, fixes the  *)
(* target; budget.json is what the controller will read.                   *)
Observe ==
  /\ trainer = "observing"
  /\ requested' = (requested \/ stop)
  /\ LET wanted == IF stop /\ ~requested THEN StopTarget ELSE target
     IN  target' = IF wanted = 0 /\ step = goal THEN Boundary(step) ELSE wanted
  /\ budget' = [requested |-> requested', target |-> target']
  /\ trainer' = "logging"
  /\ UNCHANGED <<step, weights, restored, saved, rc, checkpoints, curve, validated, control,
                 request>>

(* metrics.jsonl and sdk.log, before the state file.                       *)
LogUpdate ==
  /\ trainer = "logging"
  /\ rows' = rows \cup {step} /\ pending' = pending \cup {<<step, run>>}
  /\ trainer' = "logged"
  /\ UNCHANGED <<loop, rc, checkpoints, last, cloud, validated, budget, control, request>>

RecordStep ==
  /\ trainer = "logged"
  /\ last' = step
  /\ \/ /\ target # 0 /\ step >= target
        /\ trainer' = "finishing" /\ UNCHANGED step
     \/ /\ target = 0 \/ step < target
        /\ trainer' = "updating" /\ step' = step + 1
  /\ UNCHANGED <<weights, restored, saved, target, requested, rc, checkpoints, rows, pending,
                 cloud, validated, budget, control, request>>

(* The backend's finish flushes; then the process exits with 0.            *)
Finish ==
  /\ trainer = "finishing"
  /\ cloud' = cloud \cup pending /\ rc' = "ok"
  /\ Stopped
  /\ UNCHANGED <<last, rows, checkpoints, validated, budget, control, request>>

Upload ==
  /\ \E point \in pending : pending' = pending \ {point} /\ cloud' = cloud \cup {point}
  /\ UNCHANGED <<loop, trainer, rc, checkpoints, last, rows, validated, budget, control,
                 request>>

(* An exception anywhere in fit, the update guard's halt included, or a    *)
(* kill.                                                                   *)
TrainerDies ==
  /\ trainer # "down"
  /\ Stopped /\ rc' = "error"
  /\ UNCHANGED <<last, rows, cloud, checkpoints, validated, budget, control, request>>
-----------------------------------------------------------------------------
(* The controller's end.                                                   *)

Reported == {point[1] : point \in cloud}

(* Variant: the last update is there, what came before is taken as given.  *)
VerifiedLastOnly ==
  /\ marker = (IF budget.requested THEN budget.target ELSE goal)
  /\ Valid(marker) /\ marker \in validated /\ marker \in Reported

(* verify_completion: the boundary the run was to end at is complete,      *)
(* every boundary has its evaluation, and the server holds every step once.*)
Verified ==
  /\ marker = (IF budget.requested THEN budget.target ELSE goal)
  /\ Valid(marker)
  /\ \A b \in Boundaries : b <= marker => b \in validated
  /\ Reported = 1..marker /\ Cardinality(cloud) = marker

(* Variant: the controller does not notice a trainer that failed.          *)
ConcludeOnSuccess ==
  /\ controller = "waiting" /\ trainer = "down" /\ rc = "ok"
  /\ status' = IF Verified THEN IF budget.requested THEN "paused" ELSE "completed" ELSE "failed"
  /\ controller' = "stopping"
  /\ UNCHANGED <<run, goal, loop, trainer, rc, checkpoints, curve, validated, budget, request>>

Conclude ==
  /\ controller = "waiting" /\ trainer = "down"
  /\ status' = IF rc = "ok" /\ Verified
               THEN IF budget.requested THEN "paused" ELSE "completed"
               ELSE "failed"
  /\ controller' = "stopping"
  /\ UNCHANGED <<run, goal, loop, trainer, rc, checkpoints, curve, validated, budget, request>>

(* The wall-clock limit, or an interrupt: "failed" first, then the stop.   *)
Abort ==
  /\ controller = "waiting" /\ status' = "failed" /\ controller' = "stopping"
  /\ UNCHANGED <<run, goal, loop, trainer, rc, checkpoints, curve, validated, budget, request>>

StopChildren ==
  /\ controller = "stopping" /\ controller' = "none"
  /\ IF trainer = "down" THEN UNCHANGED <<loop, trainer, rc, pending>>
     ELSE Stopped /\ rc' = "error"
  /\ UNCHANGED <<run, goal, status, checkpoints, last, rows, cloud, validated, budget, request>>

(* Only the controller is killed: the trainer runs on, in its own session. *)
ControllerDies ==
  /\ controller # "none" /\ controller' = "none"
  /\ UNCHANGED <<run, goal, status, loop, trainer, rc, checkpoints, curve, validated, budget,
                 request>>
-----------------------------------------------------------------------------
(* The operator. A request made before this step's observation asks for    *)
(* this step's boundary, a later one for the next step's.                  *)
RequestStop ==
  /\ ~stop /\ stop' = TRUE
  /\ stopBy' = CASE trainer \in {"logging", "logged", "finishing"} -> Boundary(step + 1)
                 [] trainer \in {"down", "loading", "tracking"} -> Boundary(restored + 1)
                 [] OTHER -> Boundary(step)
  /\ UNCHANGED <<loop, trainer, rc, checkpoints, curve, validated, budget, control>>

ArchiveStop ==
  /\ controller = "none" /\ trainer = "down"
  /\ stop /\ stop' = FALSE /\ stopBy' = 0
  /\ UNCHANGED <<loop, trainer, rc, checkpoints, curve, validated, budget, control>>

TrainerStep ==
  \/ LoadCheckpoint \/ StartTracking \/ Update \/ BeginSave \/ RegisterSave
  \/ SaveDataloader \/ WriteReceipt \/ PublishMarker \/ Prune \/ Validate
  \/ Observe \/ LogUpdate \/ RecordStep \/ Finish

Next ==
  \/ \E g \in Goals : StartFresh(g) \/ Resume(g)
  \/ TrainerStep \/ Upload \/ TrainerDies
  \/ Conclude \/ Abort \/ StopChildren \/ ControllerDies
  \/ RequestStop \/ ArchiveStop

(* A started process runs on until it exits or dies; nothing makes an      *)
(* operator start, stop or archive anything, nor the client upload.        *)
Spec == Init /\ [][Next]_vars /\ WF_vars(TrainerStep) /\ WF_vars(Conclude \/ StopChildren)
-----------------------------------------------------------------------------
Runs == 1..MaxRuns
Places == {"down", "loading", "tracking", "updating", "saving", "registering", "storing",
           "certifying", "marking", "pruning", "validating", "observing", "logging",
           "logged", "finishing"}

(* Every variable keeps its range, no step passes the asked for updates,   *)
(* and a live trainer's weights hold the updates of the steps before it.   *)
TypeOK ==
  /\ run \in 0..MaxRuns /\ goal \in Goals \cup {0} /\ trainer \in Places
  /\ step \in 0..goal /\ restored \in 0..goal /\ marker \in Boundaries \cup {0}
  /\ weights \in Seq(Runs) /\ saved \in Seq(Boundaries)
  /\ target \in Boundaries \cup {0} /\ requested \in BOOLEAN
  /\ rc \in {"none", "ok", "error"}
  /\ ckpt \in [Boundaries -> [contents: Contents, weights: Seq(Runs)]]
  /\ last \in Steps \cup {-1, 0} /\ rows \subseteq Steps /\ validated \subseteq Steps
  /\ pending \subseteq Steps \X Runs /\ cloud \subseteq Steps \X Runs
  /\ budget \in [requested: BOOLEAN, target: Boundaries \cup {0}]
  /\ controller \in {"none", "waiting", "stopping"}
  /\ status \in {"none", "training", "paused", "completed", "failed"}
  /\ stop \in BOOLEAN /\ stopBy \in Nat
  /\ trainer \in {"updating", "saving", "logging"} =>
       Len(weights) = step - (IF trainer = "updating" THEN 1 ELSE 0)

(* Once a marker exists the checkpoint it names can be restored, and holds *)
(* exactly the updates of its step, whatever is killed between two writes. *)
RecoveryPoint ==
  marker # 0 => ckpt[marker].contents = "complete" /\ Len(ckpt[marker].weights) = marker

(* "No offsets", "refusing to mix repeated updates": the curve never shows *)
(* a step twice, nor, of a step that the recovery point or the live model  *)
(* contains, a point of an update that is not in them.                     *)
CurveFaithful ==
  LET points == cloud \cup pending
      InHistory(point, history) == point[1] <= Len(history) => history[point[1]] = point[2]
  IN  /\ \A p, q \in points : p[1] = q[1] => p = q
      /\ \A p \in points :
           /\ marker # 0 => InHistory(p, ckpt[marker].weights)
           /\ trainer \notin {"down", "loading", "tracking"} =>
                p[1] <= Len(weights) /\ InHistory(p, weights)

(* A run is called paused or completed only with its last boundary         *)
(* restorable and evaluated and every update behind it reported, each by   *)
(* the run that made it.                                                   *)
CompletionHonest ==
  status \in {"paused", "completed"} =>
    /\ trainer = "down" /\ ckpt[marker].contents = "complete"
    /\ {b \in Boundaries : b <= marker} \subseteq validated
    /\ cloud = {<<s, ckpt[marker].weights[s]>> : s \in 1..marker}

(* A stop request ends the run at the first boundary it can still reach,   *)
(* never in the middle of an interval and never an interval later.         *)
PauseAtNextBoundary ==
  /\ stop /\ trainer # "down" => step <= stopBy
  /\ status = "paused" /\ controller = "stopping" => marker <= stopBy
  /\ trainer = "finishing" => marker = step /\ step \in validated

(* "Complete ten-step boundary": a continued run has every step up to the  *)
(* restored one recorded and every boundary evaluated.                     *)
RestoredRecorded ==
  trainer = "updating" =>
    1..restored \subseteq rows /\ {b \in Boundaries : b <= restored} \subseteq validated

(* The directory keeps RunLine's promise: updates are appended to one line,*)
(* lost only back to the recovery point, and never made again once shown.  *)
Durable == IF marker = 0 THEN << >> ELSE ckpt[marker].weights
Line == INSTANCE RunLine WITH
  line <- IF trainer \in {"down", "loading"} THEN Durable ELSE weights,
  durable <- Durable, shown <- cloud
ImplementsLine == Line!Spec

(* A started run ends, and its controller with it.                         *)
RunEnds == (controller = "waiting") ~> (controller = "none" /\ trainer = "down")
=============================================================================
