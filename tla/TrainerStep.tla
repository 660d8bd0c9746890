----------------------------- MODULE TrainerStep -----------------------------
(***************************************************************************)
(* One outer step of RayPPOTrainer.fit on shared GPUs: the simulator, the  *)
(* rollout replicas and the actor take turns in the memory                 *)
(* (integrations/verl/sleeping_simulator.py, training/rl/                  *)
(* simulator_sleep.py, sleep_replicas and update_weights), Dynamic         *)
(* Filtering may leave a batch without a token to learn from, and the      *)
(* update guard (training/rl/update_guard.py) may stop the run before the  *)
(* optimizer.  Any call may fail, and the process may be killed; a run is  *)
(* resumed from its last checkpoint.                                       *)
(*                                                                         *)
(* A rollout batch is abstracted to two facts: whether the guard has a     *)
(* reason against it, and whether the filter leaves it an effective token. *)
(* Definitions under a comment "Variant" are slips of the definition that  *)
(* follows them; OuterSpec uses none of them.                              *)
(***************************************************************************)
EXTENDS Integers, Sequences

CONSTANTS
  total_training_steps,
  save_freq,            (* = test_freq                                     *)
  consecutive_steps,    (* of the guard, in mode "halt" or "warn"          *)
  mode,
  MaxStarts             (* bound: starts and resumes                       *)

ASSUME StepAssumption ==
  /\ total_training_steps \in Nat \ {0} /\ save_freq \in Nat \ {0}
  /\ consecutive_steps \in Nat \ {0} /\ mode \in {"halt", "warn"} /\ MaxStarts \in Nat

VARIABLES
  at,           (* where the driver is                                     *)
  purpose,      (* of the rollout: "initial", "train" or "validate"        *)
  called,       (* set_sleeping has sent its request                       *)
  failed,       (* the rollout raised                                      *)
  sim,          (* the simulator: "awake" or "asleep"                      *)
  replicas,     (* the weights they hold, or Asleep                        *)
  weights,      (* the updates the actor has applied, by run and step      *)
  step,         (* global_steps                                            *)
  guard,        (* _tau3_guard_state: step and streak                      *)
  ckpt,         (* the last checkpoint                                     *)
  run,
  seen,         (* history: the guard's reasons, batch by batch            *)
  halted        (* history: this run was halted                            *)

outerVars == <<at, purpose, called, failed, sim, replicas, weights, step, guard, ckpt, run,
               seen, halted>>
gpu == <<sim, replicas>>
progress == <<weights, step, guard, ckpt, run, seen, halted>>

(* Not the weights of any run: runs count from 1.                          *)
Asleep == << <<0, 0>> >>
NoGuard == [step |-> -1, streak |-> 0]

OuterInit ==
  /\ at = "down" /\ purpose = "initial" /\ called = FALSE /\ failed = FALSE
  /\ sim = "awake" /\ replicas = Asleep /\ weights = <<>> /\ step = 0 /\ guard = NoGuard
  /\ ckpt = [step |-> 0, weights |-> <<>>] /\ run = 0 /\ seen = <<>> /\ halted = FALSE

(* The runner launches a simulator, then the trainer.  The guard's state   *)
(* is the process's: a resumed run counts from zero.                       *)
Start ==
  /\ at = "down" /\ run < MaxStarts
  /\ at' = "creating" /\ run' = run + 1 /\ sim' = "awake" /\ replicas' = Asleep
  /\ guard' = NoGuard /\ seen' = <<>> /\ halted' = FALSE /\ called' = FALSE /\ failed' = FALSE
  /\ UNCHANGED <<purpose, weights, step, ckpt>>

(* An exception or a kill, anywhere.                                       *)
Crash ==
  /\ at \notin {"down", "done"} /\ at' = "down"
  /\ UNCHANGED <<purpose, called, failed, gpu, progress>>

(***************************************************************************)
(* set_sleeping                                                            *)
(***************************************************************************)
Target == IF at = "waking" THEN "awake" ELSE "asleep"
Calling == at \in {"creating", "waking", "resting"}

(* /sleep or /wake_up, unless it is there already.  A server that answers  *)
(* 200 need not have reached the state.                                    *)
SetSleeping ==
  /\ Calling /\ ~called /\ called' = TRUE /\ sim' \in {sim, Target}
  /\ UNCHANGED <<at, purpose, failed, replicas, progress>>

(* Variant: the answer is taken for the state.                             *)
ReachedUnverified == Calling /\ called

(* "Simulator did not reach the requested memory state" raises.            *)
Reached == Calling /\ called /\ sim = Target

(***************************************************************************)
(* The loop                                                                *)
(***************************************************************************)
Generate(why) == at' = "waking" /\ purpose' = why

(* "Free simulator weights before initializing policy rollout replicas",   *)
(* which hold the initial weights until they are put to sleep.             *)
Create ==
  /\ at = "creating" /\ Reached /\ at' = "initializing" /\ called' = FALSE
  /\ replicas' = <<>>
  /\ UNCHANGED <<purpose, failed, sim, progress>>

(* sleep_replicas; the checkpoint is loaded.                               *)
Restore ==
  /\ at = "initializing" /\ at' = "publishing" /\ purpose' = "initial"
  /\ replicas' = Asleep /\ weights' = ckpt.weights /\ step' = ckpt.step
  /\ UNCHANGED <<called, failed, sim, guard, ckpt, run, seen, halted>>

BeginRollout ==
  /\ at = "waking" /\ Reached /\ at' = "rolling" /\ called' = FALSE
  /\ UNCHANGED <<purpose, failed, gpu, progress>>

(* finally: the simulator is put to sleep after a failed rollout too.      *)
EndRollout ==
  /\ at = "rolling" /\ at' = "resting" /\ failed' \in BOOLEAN
  /\ UNCHANGED <<purpose, called, gpu, progress>>

IsLastStep == step >= total_training_steps
AtBoundary == IsLastStep \/ step % save_freq = 0

NextStep ==
  IF IsLastStep THEN at' = "done" /\ UNCHANGED <<purpose, step>>
  ELSE Generate("train") /\ step' = step + 1

Rested ==
  /\ at = "resting" /\ Reached /\ called' = FALSE /\ failed' = FALSE
  /\ IF failed THEN at' = "down" /\ UNCHANGED <<purpose, step>>
     ELSE IF purpose = "train" THEN at' = "releasing" /\ UNCHANGED <<purpose, step>>
     ELSE NextStep
  /\ UNCHANGED <<gpu, weights, guard, ckpt, run, seen, halted>>

(* sleep_replicas                                                          *)
Release ==
  /\ at = "releasing" /\ at' = "judging" /\ replicas' = Asleep
  /\ UNCHANGED <<purpose, called, failed, sim, progress>>

(* Variant: a good batch does not end a streak.                            *)
StreakKept(bad) == guard.streak + IF bad THEN 1 ELSE 0

(* guard_decision: only the step before continues a streak.                *)
Streak(bad) ==
  IF bad THEN (IF guard.step = step - 1 THEN guard.streak ELSE 0) + 1 ELSE 0

After == IF AtBoundary THEN "saving" ELSE "publishing"

(* Filter, advantages, guard: "the candidate batch was persisted and has   *)
(* not entered optimizer update" when the run is halted; an update without *)
(* an effective token is skipped.                                          *)
Judge ==
  /\ at = "judging"
  /\ \E bad, effective \in BOOLEAN :
       LET streak == Streak(bad)
           halt == mode = "halt" /\ streak >= consecutive_steps
       IN /\ seen' = Append(seen, bad) /\ halted' = halt
          /\ guard' = IF halt THEN guard ELSE [step |-> step, streak |-> streak]
          /\ at' = IF halt THEN "down" ELSE IF effective THEN "updating" ELSE After
  /\ UNCHANGED <<purpose, called, failed, gpu, weights, step, ckpt, run>>

UpdateActor ==
  /\ at = "updating" /\ at' = After
  /\ weights' = Append(weights, <<run, step>>)
  /\ UNCHANGED <<purpose, called, failed, gpu, step, guard, ckpt, run, seen, halted>>

SaveCheckpoint ==
  /\ at = "saving" /\ at' = "publishing" /\ ckpt' = [step |-> step, weights |-> weights]
  /\ UNCHANGED <<purpose, called, failed, gpu, weights, step, guard, run, seen, halted>>

(* update_weights: the replicas wake with the actor's weights, after a     *)
(* skipped update too.                                                     *)
UpdateWeights ==
  /\ at = "publishing" /\ replicas' = weights
  /\ IF purpose = "initial" THEN Generate("initial") /\ UNCHANGED step
     ELSE IF AtBoundary THEN Generate("validate") /\ UNCHANGED step
     ELSE NextStep
  /\ UNCHANGED <<called, failed, sim, weights, guard, ckpt, run, seen, halted>>

OuterNext ==
  \/ Start \/ Crash \/ SetSleeping \/ Create \/ Restore \/ BeginRollout \/ EndRollout \/ Rested
  \/ Release \/ Judge \/ UpdateActor \/ SaveCheckpoint \/ UpdateWeights

OuterSpec == OuterInit /\ [][OuterNext]_outerVars

(***************************************************************************)
(* Properties                                                              *)
(***************************************************************************)
Updates == Seq(Nat \X Nat)
OuterTypeOK ==
  /\ at \in {"down", "creating", "initializing", "publishing", "waking", "rolling", "resting",
             "releasing", "judging", "updating", "saving", "done"}
  /\ purpose \in {"initial", "train", "validate"} /\ {called, failed, halted} \subseteq BOOLEAN
  /\ sim \in {"awake", "asleep"} /\ replicas \in Updates \cup {Asleep} /\ weights \in Updates
  /\ step \in Nat /\ guard \in [step : Nat \cup {-1}, streak : Nat]
  /\ ckpt \in [step : Nat, weights : Updates] /\ run \in 0..MaxStarts /\ seen \in Seq(BOOLEAN)

(* The three tenants of the memory never meet: nothing else is awake while *)
(* the replicas are built or the actor updates or saves, and every rollout *)
(* has the simulator awake and the replicas on the actor's own weights, so *)
(* that it is on policy, also after a skipped update and after a resume.   *)
(* A server may confirm a request without reaching its state; a rollout    *)
(* that fails ends the run.                                                *)
MemoryShared ==
  /\ at \in {"initializing", "judging", "updating", "saving", "publishing"} => sim = "asleep"
  /\ at \in {"judging", "updating", "saving"} => replicas = Asleep
  /\ at = "rolling" => sim = "awake" /\ replicas = weights

(* The guard halts on exactly consecutive_steps bad batches in a row of    *)
(* one process: no update follows such a row in mode "halt", a run is      *)
(* halted after nothing less, and the batch it was halted at is in no      *)
(* weights, neither the actor's nor the checkpoint's.                      *)
BadRow ==
  /\ Len(seen) >= consecutive_steps
  /\ \A i \in Len(seen) - consecutive_steps + 1..Len(seen) : seen[i]

GuardExact ==
  /\ at = "updating" /\ mode = "halt" => ~BadRow
  /\ halted => /\ mode = "halt" /\ BadRow
               /\ \A i \in DOMAIN weights : weights[i] # <<run, step>>
               /\ \A i \in DOMAIN ckpt.weights : ckpt.weights[i] # <<run, step>>
=============================================================================
