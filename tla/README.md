# TLA+ models of tau3-grpo

This directory holds the formal models of the program under `src/`: a
reinforcement-learning pipeline for a tool-calling airline agent. Its own code
is `src/tau3_grpo` plus the patches it carries in `src/verl` (the agent loop,
the trainer's loop, the checkpoint manager). Paths below are relative to
`src/`.

1. Inventory of the system
2. Modules, and how they correspond to the code
3. Runs, bounds and what they show
4. Fairness
5. Theorems
6. What is only model-checked, and what is not modelled
7. Plan

`PROJECT.json` lists the same components, every definition with the lines it
stands for, the hazards with the properties that watch them, the runs, the
theorems, and for each property variants of a definition that break it.

## 1. Inventory

How a training run is put together:

```
 controller (training/rl/runner.py)                 operator: STOP_AFTER_BOUNDARY
   | starts, watches, verifies                        |
   v                                                  v
 trainer (verl ray_trainer.fit + MatchedBudget, boundary_checkpoint)
   | per update: rollout -> rewards -> update -> save -> validate -> log
   |                                                  \-> metrics.jsonl, SwanLab
   v
 agent-loop worker: generate_groups (ARPO) ----- one task per prompt group
   |
   v
 GroupRollout: forks and runs the leaves of a group
   |
   v
 ToolAgentLoop.run: one trajectory --- token budget, policy server
   |
   v
 Tau3AirlineInteraction / SESSIONS: tau2 session, tools, user simulator, verifier
```

Beside it run the paid-model tools (`tracking/judge_budget.py` and its
callers), which share one money ledger, and the evaluation controllers.

| Component | State it keeps | Operations | What is hard | Correct when |
|---|---|---|---|---|
| Trajectory state machine (`verl/.../tool_agent_loop.py`, `integrations/verl/token_budget.py`, `models/token_budget.py`) | prompt ids, response mask, logprobs, anchor spans, two turn counters, termination reason, parsed calls | pending, generating, processing tools, interacting, finalize, publish | five handlers extend parallel arrays; two limits at once; an exception or cancellation at every await; truncated or malformed call batches | budget kept, arrays aligned, batches all or nothing, last turn recorded, session released, it ends |
| Airline interaction and sessions (`envs/interaction.py`, `session.py`, `registry.py`) | message list, two counters, entry reason, registry | start, record text / tool batch / user turn, user reply, finalize rollout | a second history beside the policy's; blocking calls in threads | both histories tell one conversation; the verifier can replay it; registered exactly while alive |
| ARPO rollout controller (`integrations/verl/arpo_rollout.py`) | deque of waiting leaves, allocated count, nodes, decisions, active ids | attach, capture, branch, run, audit, gather | forking a live trajectory; a shared leaf budget; one group failing cancels the others | budget handed out once, prefixes shared, lineage accepted by the estimator, no session left |
| ARPO estimator checks (`integrations/verl/arpo.py`) | none | validate lineage, advantages | trusts the controller's audit | every returned group passes |
| Paid request ledger (`tracking/judge_budget.py`, `models/semantic_api.py`, `data/teacher_rollout.py`) | ledger file, receipts, confirmed bill, per-run ceiling | reserve, receipt, post, settle, reconcile | crash between any two writes; unknown cost; concurrent requests | posted at most once; money covered and limited |
| Run continuity (`tracking/rl_continuity.py`, `integrations/boundary_checkpoint.py`, `matched_budget.py`, `training/rl/checkpoints.py`, `runner.py`, trainer loop) | checkpoints, marker, receipt, curve state file, cloud curve, budget file, controller state, stop file | start, resume, load, update, save, rotate, publish, prune, validate, observe stop, log, finish, verify | kills between any two writes; two rotations (workers', trainer's); background uploads; stop requests at any moment | always a restorable point; the curve never mixes histories; paused / completed only when true |
| Owned processes (`training/services.py`, used by `runner.py` and `sft/continuation.py`) | registry of process groups, the controller's list | launch, watch, stop, cleanup | leader gone, helpers left, TERM ignored; a stop that raises in a `finally` | a stop that returned ended its group; the way out ends |
| Simulator memory phases (`training/rl/simulator_sleep.py`, `sleeping_simulator.py`, trainer loop) | simulator and replicas awake / asleep | sleep, wake around rollouts and updates | failure or cancellation inside a phase; an answer that is not the state | tenants of one GPU never meet; rollouts on the current weights |
| Update guard (`training/rl/update_guard.py`) | step and streak | assess, halt | streak across gaps and resumes | halts exactly on consecutive bad steps |
| Generation guard (`integrations/verl/generation_guard.py`, `models/generation_guard.py`) | attested prefix of a stream | consume, cancel | last chunk, abort notice or natural stop after a cancellation | attested prefix survives |
| Bounded evaluation (`evaluation/bounded.py`, `simulator_retry.py`) | start marker, status, retry ledger, request files, services | preflight, launch, evaluate an arm, serve retry requests, record, stop all | crash and restart, a deadline, a cap on additional trajectories, a stop that raises | no GPU attempt replayed, retries within what was authorized, an honest end, an end |
| Post-RL controller (`evaluation/controller.py`) | exports, copies, logs, state and exit file, slots, pending models | export, copy, wait for the RL queue, hand out models, evaluate, clean up | threads on one list, signals inside handlers, half-done exports of an earlier controller | a true report; nothing left running; it ends |
| Evaluation run (`evaluation/run.py`, `runtime.py`, `recovery.py`) | schedule, two result files | run trials, resume | thread pool, crash markers | every planned trial once |
| Candidate review supervisors (`analysis/kimi_sft_supervisor_v2.py`, `kimi_sft_review.py`) | attempt directories, coroutines, review processes, runtime file | schedule, back off, dispatch, reap, stop | three attempts beside other candidates, and review processes of a killed supervisor | attempts bounded, single and in order; true reports; it ends |
| Winner lock, manifests (`experiments/*`) | lock file | freeze, verify, gate | little: file checks in one process | the final run uses what was frozen |
| SFT continuation (`training/sft/*`) | chain of owned processes | stage, validate, merge | as owned processes | next stage only from a verified one |
| Incremental semantic extraction (`models/semantic_incremental.py`) | packets, prefix cache | append, reuse | a cache keyed by a prefix | never serves another prefix's packet |
| Pure algorithms (`algorithms/*`): dynamic filtering, GiGPO, MT-GTPO, anchors | none | classify, group, assign credit | thresholds, alignment; most of it floating point | agree with their definitions |
| Verifier and reward contracts, data preparation, telemetry, patch inventory, launch and configuration | files | sequential | little: no state survives a step | - |

## 2. Modules

| Module | Role |
|---|---|
| `TokenBudget` | the token arithmetic of one trajectory |
| `ToolAgentLoop` | one trajectory: loop, session, interaction, registry (extends `TokenBudget`) |
| `RolloutBudget` | abstract: what a group promises about its leaves |
| `ArpoGroup` | groups on one worker; implements `RolloutBudget` |
| `JudgeBudget` | the paid-request ledger over many processes |
| `RunLine` | abstract: what a result directory promises |
| `RunContinuity` | one result directory over starts, kills and resumes; implements `RunLine` |
| `TrainerStep` | one outer training step: simulator, replicas and actor on one GPU, and the update guard |
| `OwnedProcess` | process groups, their launch, stop and cleanup |
| `ReviewSupervisor` | supervisors of paid reviews and their review processes |
| `BoundedEvaluation` | one authorized GPU attempt with its retry queue |
| `PostRlController` | export and evaluation of the trained models by slot threads |
| `MC*` | bounds for TLC |
| `*_proofs` | theorems and their proofs, one module per component |
| `TrainingRuntime_proofs` | theorems about `OwnedProcess` and `TrainerStep`, the two layers of the training runtime |

In every module a definition under a comment "Variant" is a slip of the
definition that follows it (a dropped guard, a missing reset); no specification
uses one. They document what each property is able to notice.

### ToolAgentLoop

`pc` is the loop's `AgentState` with the awaits inside the handlers made
visible; one action is one handler, or the part of a handler between two
awaits.

| Action | Code |
|---|---|
| `Init` | `start_interaction`: session created, registered, first user turn mirrored when the row has one |
| `HandlePending` | `_handle_pending_state` |
| `RequestGeneration`, `ReceiveGeneration` | `_handle_generating_state` before and after the server call, with `generation_request` / `generation_result` of the token protocol and the parse check |
| `RecordBatch`, `ExecuteCall`, `ExecuteFails`, `ObserveTools` | `_handle_processing_tools_state`, `_call_tool`, sequential mode |
| `RecordText`, `UserResponds`, `HandleReply` | `generate_response` up to and after the simulator thread, then `_handle_interacting_state` |
| `FinalizeRollout`, `Scored` | `finalize_rollout`, with the eligibility check |
| `Raise`, `Interrupted` | the `except BaseException` of `run`: release, then re-raise |

Tokens are counted, but `mask` and `logp` are kept token by token because their
alignment is what training consumes: 1 is a generated (sampled) token, 0 an
observed (padded) one. A text is reduced to what the loop tests of it
(`Readings`): how many `<tool_call>` it holds, how many calls the permissive
parser returns, and whether `complete_tool_envelopes` accepts it. These three
hardly constrain one another. The parser's patterns also end at the end of the
text, so a call that was cut off counts as a whole one and the two numbers agree;
an envelope may hold no function or several; a tag cut in its name makes a text
without envelopes incomplete. The one relation kept is that a text without
`<tool_call>` has no calls: `_extract_with_sources` returns early for it, and with
one its pattern always matches, so the back-off of `_get_function_calls` is not
reached from the loop. `Due` is what the session is due of a generation, and
`emitted` the history of it, turn by turn. Both protocols are explored (`budgeted`): with `tau3_token_protocol`, and
without.

`log` is the official message list with roles and turns; `Transcript` reads from
it, by a function over its prefixes, the sequence of turns a verifier replays (a
batch of tool messages is one turn), and `view` is the sequence of turns whose
tokens the policy has.

Abstractions to know of: text only (no images), and the tool format without
system-prompt changes; an anchor is an opaque id, so a span exists for every
assistant segment (observation segments resolve to none in the same list and
carry no credit); both turn caps are taken as configured
(non-zero); recording process turns and the raise on misaligned logprobs
belong to `Interrupted` / `Raise`; the calls of a batch have no real suspension
between them, so a cancellation cannot fall there, an exception can
(`ExecuteFails`); a simulator thread abandoned by a cancellation writes to a
session nobody reads any more and is not represented.

### ArpoGroup

A group runs its trajectories strictly one after the other; several groups are
interleaved on a worker. A trajectory is reduced to the transitions the
controller sees (`Generate`, `Observe`, `ObserveEnds`, `FinishTrajectory`). A
response is a sequence of stamps, one per segment, naming the leaf that
appended it: two responses share a prefix exactly when their stamps agree,
which makes "tokens, mask and logprobs of the shared prefix are equal" a
property of the model and not an input of it.

| Action | Code |
|---|---|
| `StartPending`, `StartFresh` | the loop of `GroupRollout.run`; `attach` in `Launch` |
| `Generate` with `CanBranch` / `Branch` | `before_generation`, the generation, `after_generation` |
| `FinishTrajectory` | `finish`, scoring, release of the session |
| `Audit` | the prefix comparison at the end of `run` |
| `Postprocess(Fails)` | the rest of `one_group` |
| `Abandon`, `ReleaseAll` | any exception or cancellation through the `finally` |
| `Gather`, `Cancelled`, `CancelGroup`, `Reraise` | `generate_groups` |

Entropy is not a number: the branch draw is a free choice, which covers every
seed and measurement. What remains of it is which generation the initial
entropy was taken from (`initial`).

### JudgeBudget

One process at a time holds `.run.lock` (`Start`, `Exit`); inside it several
`call_json` coroutines are interleaved at their only await. A coroutine's steps
between awaits are separate actions all the same (`Request`, `Record`, `Send`,
`Respond`, `Settle`), because the process may die between any two of them, but
no other coroutine moves meanwhile (`Alone`). Each ledger change is dumped in
the same step through a temporary file and a rename, so `rows` is the file.
`sent` and `spent` are history: what left the machine, and what the provider
charged. The provider may charge more than the reservation; `Excess` is by how
much. `Reconcile` takes the lock and needs a correct bill, as its docstring
asks ("Caller holds the shared lock"); a person supplies the number. Receipts
are assumed to stay with the ledger (one output directory per study).

### RunContinuity

The trainer's loop from `loading` to `finishing`, one action per durable write:
`BeginSave` and `RegisterSave` (worker shards and the worker rotation of
`FSDPCheckpointManager`), `SaveDataloader`, `WriteReceipt`, `PublishMarker`
(`complete_boundary`), `Prune` one directory at a time with a partly removed
one visible, `Validate`, `Observe` (`MatchedBudget`), `LogUpdate`,
`RecordStep`, `Finish`. The controller starts (`StartFresh`, `Resume`),
concludes (`Conclude`, with `Verified` for `verify_completion`), aborts and
stops its children. `TrainerDies` and `ControllerDies` may strike between any
two actions; a controller killed alone leaves its trainer running. The SwanLab
client is external: its buffer is uploaded in any order and lost at a kill.

A model state is the sequence of the runs that made its updates, so equal steps
with different histories are different states; that is what "mixing" means.

Abstractions to know of: rollout and optimizer are one step (`Update`);
the statuses `starting_simulator` and `verifying` are merged into their
neighbours; the step-0 baseline log, ESI-forced saves and the engineering smoke
test are left out (the formal runner configures none of the latter two); the
time-based `E0` discovery is popped from the environment by this runner;
`metrics.jsonl` and `sdk.log` are one write; a stop file is archived only when
nothing runs.

### TrainerStep

The initial predicate, next-state relation and specification are called
`OuterInit`, `OuterNext` and `OuterSpec` ("outer" as in verl's outer training
step), because the module is extended beside `OwnedProcess`.

The same loop of `RayPPOTrainer.fit` seen from the GPU's memory. Where
`RunContinuity` has one action `Update`, this module has the calls of a step in
their order, and where `RunContinuity` has the writes of a save, it has one.

| Action | Code |
|---|---|
| `SetSleeping`, `Reached` | `set_sleeping`: the request, then the check of the state it should have produced |
| `Create` | construction of the sleeping-simulator manager, before the replicas exist |
| `Restore`, `UpdateWeights` | `sleep_replicas` at start and the checkpoint; `update_weights` |
| `BeginRollout`, `EndRollout`, `Rested` | `generate_sequences` of the wrapper with its `finally` |
| `Release`, `Judge`, `UpdateActor`, `SaveCheckpoint` | the middle of `fit`: sleep the replicas, Dynamic Filtering and guard, optimizer, save |
| `Start`, `Crash` | start or resume by the runner; any exception or kill |

A batch is two facts: whether the guard has a reason against it, and whether the
filter leaves it an effective token. Critic, reference and reward-model workers
(not configured here) and padding are left out. The guard's state lives in the
process, so a resume starts a new streak: `seen` is reset with it.

### OwnedProcess

One controller, its children in the order of their launch, and `stop_process`
with its phases (`term`, `waiting`, `reap`). A group is a leader and its
helpers; `Exists` is what `killpg(pid, 0)` answers. `Launch` covers the pid file
that cannot be written (stop, then raise) and a signal between `Popen` and the
controller's list, before or after the registration, which hides the child from
the cleanup. `Leave` is the way into the `finally`
block, `NextChild` its loop over `reversed(children)`; what raises in it leaves
the rest (`Raises`), as in the code; `StopMeansGone` says what that rest is: the
child whose stop raised and those launched before it. The three callers of `stop_process`
(launch, main body, `finally`) differ only in where an exception goes, which is
`caller`. `Hung` leaders survive SIGKILL past the ten seconds of `wait`. A
reused group id is not represented.

### ReviewSupervisor

`Plans` are successive supervisors, each with its runtime file, on one set of
attempt directories. Coroutines are interleaved at their awaits only (`Alone`);
the review processes are not theirs to schedule and move at any time.

| Action | Code |
|---|---|
| `Begin`, `Top`, `Wake`, `Enter`, `Dispatch`, `Reap` | `review`: attempts read, head of the loop, backoff, inside the semaphore, ledger comparison and start, end of the process |
| `Complete`, `Error`, `Collapse` | a report with its snapshot; the exception handler; a snapshot that raises there |
| `Start`, `Finish` | `run` before and after `gather` |
| `MakeOutput`, `SendRequest`, `SaveResult`, `WorkerExits` | the worker's writes in `kimi_sft_review.py` |

Attempt identities always match (one candidate file per id) and the frozen
index holds no task of the plan, as `validate_sources` requires.

### BoundedEvaluation

`started` is the marker written before the first launch, `todo` the arms left,
`work` the cells (arm, task, attempt) of the evaluation in progress. `ServeQueue`
is one turn of `process_retry_queue` up to the launch of its group, including
refused requests, two requests for one trajectory (an error) and the cap (the
end of the queue). `Raise` stands for every exception of the controller's body;
past the deadline `guard` raises at the next turn, which is its fairness.
`Unwind` and `Finally` stop the children in the code's order; a stop that raises
leaves the rest and the two end files. A signal between a launch and the
registration of the child leaks it (`leaked`): then `gpu_workloads_stopped` can
be written while that child runs, so the property excepts it. The simulator's
calibration probe is part of `LaunchUser`.

### PostRlController

`Queue`, `Slots` and `ExportOrder` are the lists of the code; `Models` is the set
of what the slots and the pending list name.

The main thread is `main`, a slot thread is a record in `slot`, all sharing
`pending` and `stop_event`. Exports and copies are made in two steps (staging,
then rename), so a later controller meets half-done ones (`Export`, `Backup`
fail on them). `Interrupt` is the signal handler, which raises in the main
thread wherever it is; a signal between the start of a child and its
registration hides the child from every cleanup, which `cut` records along with
kills and stops that raise. The smoke evaluation is folded into `Serve`; modes
other than watch (dry run, prepare only) and the reuse of an earlier SFT result
are left out. The model also shows a design limit, which the code reports as
"incomplete": `prepare_existing` looks at each arm once, and after the wait only
the late arm is exported, so another arm finished during the wait is never
evaluated.

## 3. Runs

| Run | Module / cfg | States | Question |
|---|---|---|---|
| `tool_agent_loop` | `MCToolAgentLoop` | 89 408 | one trajectory with everything that can end it |
| `arpo_group` | `MCArpoGroup` / `MCArpoGroup.cfg` | 50 783 | forks and the leaf budget of a group |
| `arpo_worker` | `MCArpoGroup` / `MCArpoWorker.cfg` | 47 542 | two groups, failures, cancellations |
| `judge_budget` | `MCJudgeBudget` | 49 759 | money and duplicates over crashes |
| `run_continuity` | `MCRunContinuity` | 120 426 | a directory over three starts |
| `run_continuity_restored` | `MCRunContinuityRestored.cfg` | violation | a resume behind its own curve |
| `trainer_step` | `MCTrainerStep` | 80 811 | the tenants of the GPU and the guard |
| `owned_process` | `MCOwnedProcess` | 247 926 | three children that will not die |
| `review_supervisor` | `MCReviewSupervisor` | 978 707 | two supervisors on one set of attempts |
| `review_supervisor_other` | `MCReviewSupervisorOther.cfg` | violation | whose acceptance a report names |
| `bounded_evaluation` | `MCBoundedEvaluation` | 445 652 | one attempt, its retries and its end |
| `post_rl` | `MCPostRlController` | 720 286 | two slots, a pending model, two controllers |

**tool_agent_loop.** `WithinBudget`, `OutputAligned` (the four arrays and the
anchor spans), `CallsAnswered` (batches all or nothing, and nothing of a text that was
cut off), `SameConversation` (the two histories), `LastTurnHandled`, `SessionOwned`, `Terminates`.
Limits 3 / 4 / 6 tokens with two tokens per turn: with a prompt of one token
the response limit binds, with three the context limit, four exceed the prompt
limit; generations may also be empty or one token over their allowance. Two
assistant turns and two user turns meet both caps with a tool batch and with a
text; two calls per batch are enough for "some of the calls". Nothing in the
handlers depends on more than the last generation, the caps and the totals.
`CallsAnswered` needs both checks of a text: the parse check alone lets a batch
through whose last call was cut off, the envelope check alone one that the
parser reads as fewer or more calls.

**arpo_group.** `SlotsConserved`, `NeverLoses`, `LineageValid`,
`PrefixesAgree` (no boundary forked twice included), `InitialEntropyKept`, and
`ImplementsBudget` (refinement of `RolloutBudget`). Three leaves from one
initial root and three turns: a root forks twice, a fork forks again, and the
unused budget becomes further roots. Generations may lack logprobs, which the
audit must refuse when a prefix is shared.

**arpo_worker.** `SessionsOwned` and `BatchEnds`: two groups of two leaves, one
failing or the worker being cancelled while the other forks, runs, ends or is
postprocessed. The groups stay distinct (no symmetry) since liveness is
checked.

**judge_budget.** `AtMostOnce`, `LedgerCovers` (the ledger covers the bill, the
bill stays within the limit), `IncrementKept`, `HistoryIntact`. Reservations of 2, 2, 3
under a limit of 4, an increment of 3 and two rows; bills of 0, 2 and 3, so a
bill is below, at or above a reservation; crashes and restarts are unbounded.
The system may stop anywhere, but `Exit`/`Start` are always possible.

**run_continuity.** `RecoveryPoint`, `CurveFaithful`, `CompletionHonest`,
`PauseAtNextBoundary`, `ImplementsLine` (refinement of `RunLine`), `RunEnds`.
Interval 3 so that a stop can fall at, before and after the observation of
every kind of step; goals 3 and 6 so that a run has two boundaries and can be
extended; three starts so that a curve can be resumed, killed and resumed
again. `MaxRuns` is the only bound on behaviour.

**run_continuity_restored.** `operations.md` and the runner's docstring let a
run continue from a complete boundary that was updated, saved, evaluated and
recorded. The marker is published inside the save, before the boundary's
validation and log, and the resume checks compare in one direction only (the
curve must not be *ahead* of the checkpoint). A trainer killed in between
leaves the marker at step *s* and the curve at *s-1*; the resume is accepted
and the next run goes on at *s+1*. Step *s* is never recorded and its boundary
never evaluated. Nothing later is wrong silently: `CompletionHonest` holds,
since `verify_completion` refuses the run's end. The effect is a run that can
no longer complete.

**trainer_step.** `MemoryShared`, `GuardExact`. Five steps with a save every
second one and one off the interval at the end; a guard that halts on two bad
batches in a row; three starts, so that a resume can follow a resume. A streak
of two, broken or not by a good batch, a skipped update or a restart, fits in
between.

**owned_process.** `StopMeansGone`, `GroupsEnd`. Three children: one obedient,
one that ignores SIGTERM, one that ignores it and hangs; the block then meets a
stop that raises in first, middle or last place. `StopMeansGone` is about the
children of the controller's list; a child that a signal hid from it is not
stopped by this code, and `GroupsEnd` claims nothing of it.

**review_supervisor.** `AttemptsInOrder`, `EveryCandidateReported`, `StopDrains`,
`SupervisorEnds`. Plans `{a, b}` and `{b, c}` with one task for `a` and `c`: the
second supervisor meets an unfinished candidate of the first and one whose task
is decided elsewhere. Two attempts instead of three (a first and a last one) and
one place in the semaphore, so that somebody waits in every state.

**review_supervisor_other.** The recheck inside the semaphore reports a candidate
as `already_accepted_other_candidate`, not accepted, when *its own* review was
the accepted one: a review process left by a killed supervisor answers while the
successor sleeps or waits. The head of the loop excludes this case; the recheck
does not, and the ledger comparison that would notice comes after it.

**bounded_evaluation.** `NoReplay`, `RetryScope`, `EndHonest`, `BoundedEnds`. Two
arms of two tasks, three attempts per cell, five requests: a chain of two
retries of one cell, a second task and a second arm, and two requests for the
same trajectory; the cap of three is below what the requests ask for. One
signal, restarts and kills without bound (the marker admits one controller).

**post_rl.** `OutcomeHonest`, `NothingLeftRunning`, `ControllerEnds`. One base
model, the late arm and an arm on the pending list; two slot threads compete for
it. One signal per controller and two controllers: the second meets every
half-done export, copy and log of the first.

## 4. Fairness

- `ToolAgentLoop`: `WF(Step)`. A ready coroutine runs, and what it awaits (policy
  server, user simulator, verifier: external) is assumed to return or raise;
  the loop itself sets no timeout. `Interrupted` is not fair.
- `ArpoGroup`: weak fairness of each group's own steps and of `Gather` and
  `Reraise`: every group is a task of one event loop, which is fair between
  ready tasks. Failures and cancellations are not fair.
- `JudgeBudget`: none; only safety is stated. A user may never start again.
- `RunContinuity`: the trainer's steps, and the controller's end
  (`Conclude \/ StopChildren`). Starts, stops, aborts, kills and uploads are
  not fair. `RunEnds` does not need the uploads: `Finish` flushes.
- `TrainerStep`: none; only safety is stated.
- `OwnedProcess`: `stop_process` and the loop of the `finally` block go on; a
  process that SIGKILL reached, or SIGTERM if it does not ignore it, ends, a
  hung one after any time. Nothing is assumed of processes nobody signalled.
- `ReviewSupervisor`: each coroutine (the event loop is fair, a free place in the
  semaphore goes to a waiter), each review process (its request has a timeout),
  and `Finish`. Starting and dying are not fair.
- `BoundedEvaluation`: the controller's steps, time, and the exception of `guard`
  once the deadline has passed. Services may hang, reviewers may never answer.
- `PostRlController`: the main thread and each slot thread; every wait in them has
  a timeout, except the one for the RL queue, where `ControllerEnds` stops
  asking. Children and the queue are not fair.

## 5. Theorems

All proofs are checked by TLAPS for every value of the constants that satisfies
the `ASSUME` of the module: positive limits with the prompt limit within the
context limit and positive caps (`BudgetAssumption`, `LoopAssumption`),
finitely many requests with natural limits and positive reservations
(`LedgerAssumption`), a positive
interval dividing every goal (`ContinuityAssumption`), a positive save frequency
and halt threshold (`StepAssumption`), at least two leaves in a group, one of them
a first rollout (`GroupAssumption`), subsets of the children for those that ignore SIGTERM
or hang (`OwnedAssumption`), a plan without repeated arms and at least two attempts
per trajectory (`EvaluationAssumption`; `validate_plan` compares the arms with a fixed
list), plans with one candidate per task (`SupervisorAssumption`), and at least one
slot, each with a first model, over one set of models (`ControllerAssumption`; the
code's `SLOTS` are four one-element tuples). No theorem assumes fairness. The `TypeCorrect`
theorems, `ReasonsOfVerdicts`, `EvidencePrecedes`, `CrashesOnlyCostBoundaries` and
`ReportsOfOthers` are of formulas that no run repeats.

**ToolAgentLoop_proofs** has invariants that are each inductive given those
before them:

- `BudgetInv`: `WithinBudget`, plus what the request in flight may still add
  (`maxTokens` fits both limits). Without the second part a generation's
  arrival would not be bounded. Yields `NeverOverBudget`.
- `TurnsInv`: in which places the session's assistant counter lags the loop's
  by one, that a turn in progress is below its cap, and that no reason is set
  before the end. Yields `LastTurnRecorded`, `ReasonsOfVerdicts`.
- `LogInv`: the message list and the registration. With the others it yields
  `TypeCorrect` and `SessionReleased`.
- `ArraysInv`: which positions of the response were sampled, that the spans lie
  within it and cover exactly those, and that a request in flight
  still fits the response. Yields `ArraysAligned`.
- `CallsInv` and `EmissionInv`: every answer in the list belongs to the last
  batch before it, a batch being executed is answered up to the call it is at,
  and an earlier one is complete; under the token protocol a turn's calls are
  what is due of its text, and a turn of which nothing is due is never on the way
  to the list. The envelope check gives the second part (lemma `TokenEndExact`:
  a turn it lets through is due its envelopes), the parse check makes the calls
  in hand as many. Yields `BatchesWhole`.
- `ViewInv`: at each place of the loop, by how much the policy's view is behind
  the official list or ahead of it: a turn generated and not yet recorded, a
  batch recorded and not yet observed, a reply recorded and not yet rendered.
  `Transcript` is a recursive function, so the proof speaks of a table that
  satisfies its equation for a list (`Told`), shows that two such tables agree
  (by a least index where they would not) and that appending a message extends
  a table by one entry. Yields `HistoriesAgree`.

**JudgeBudget_proofs**: `Order` = `Ranges` and `Protocol`. It ties the
coroutine's place to the disk and the network: a request not yet recorded was
never sent; once sent, its row and receipt exist. That is what a crash at any
point leaves behind, and what makes the next process refuse. Yields
`PostedAtMostOnce`, `EvidencePrecedes`; with the confirmed prefix being settled
(no coroutine of a row it covers is still to settle) also `ConfirmedHistory`.

The money needs sums. `SumFunction` is a fold; the first part of the module
shows that the fold over a finite set is the value of a table built by removing
one element at a time, that it does not depend on the order, and from that what
adding an element or changing one value does to a sum. `Books` then ties the
two accounts that share the ledger, the global one under the confirmed bill
(`Shared`) and the run's own under its increment (`OfRun`), to the rows: what
is committed is the sum of the rows after the confirmed ones, a row under way is
worth its reservation, a settled one its price, and what was charged is covered
by it except beyond a reservation. One lemma per kind of change (a reservation,
a charge, a settlement, a new account) states that a balanced account stays
balanced; each action is one of these for both accounts. Yields `BooksBalance`,
`LedgerCoversBill`, `IncrementIsKept`, `TypeCorrect`.

**RunContinuity_proofs**: `Inv` = `TypeOK`, `Course` (where the trainer is
bounds step and target), `Marked` (the recovery point is behind a step until
the step's own is published), `History` (weights continue the recovery point,
one update of this run per step), `Rotation`, `RecoveryPoint`,
`CurveFaithful`. `Rotation` is the part one would not guess: the worker
rotation keeps two saves, and the recovery point is its newest save or unknown
to it, hence never the one it evicts while a new save is incomplete. With a
worker rotation of one the theorem fails, which is what the local patch of the
trainer is about. Yields `TypeCorrect`, `AlwaysRecoverable`, `CurveNeverMixed`,
`CompletionIsHonest`. `Halting` and `Concluding` (what a request not yet
observed, an observed one, and the controller's reading of `budget.json` have
in common) yield `PausesInTime`. `DirectoryImplementsLine` maps every step to a
step or a stutter of `RunLine`: an update extends the line, publishing the
marker keeps it, uploads and the final flush publish, every kill and load falls
back.

What the finding `run_continuity_restored` leaves standing is proved too:
`CrashesOnlyCostBoundaries` says that, however often a run is killed and resumed,
the steps the record misses are boundaries (never a step inside an interval),
and that no boundary has a row without its evaluation. It needs `Recording`: the
row comes after the evaluation and before the state file that lets the next step
begin.

**TrainingRuntime_proofs**, on `OwnedProcess`: `Inv` = `TypeOK`, `Called` (who called
`stop_process`, told by where the controller is), `Registered` (a registered
group was launched), `Popped` (a group that left the registry has a reaped
leader and has ended), `Reaping` (after the wait or the kill nobody of the
group can fork any more), `Left` (the children the `finally` block is not done
with are the first ones launched, in reverse; the others have been popped) and
`Finished`. `Reaping` is the one the property rests on: the return
of `stop_process` does not look at the group again, so it has to be known that
nobody can join it. Yields `StoppedIsGone`, `TypeCorrect`.

On `TrainerStep`: `OuterInv` = `OuterTypeOK`, `Tenancy` (who is in memory at each
place of the loop), `Course`, `Counting` (the streak is the number of bad
batches at the end of this process's row), `Position` (the guard's last step
against the trainer's), `Applied` (which updates the weights and the checkpoint
hold) and `Halting`. `Counting` needs `Position`: the guard restarts its streak
when a step is not the successor of the one before, so the theorem is also that
this never happens inside one process. Yields `NeverMeet`, `GuardIsExact`,
`OuterTypeCorrect`.

**ArpoGroup_proofs**: `Inv` = `TypeOK` and, for each group, `GroupInv`. While a
group is open its leaves form a forest: leaves start in the order they were
handed out, so a leaf below `First = allocated - waiting` is running or
finished and the others wait (`Places`); `Leaf` and `Text` name the lineage and
the tokens of a leaf wherever it is, and a branch is of a leaf that has
started, in the same tree, with its parent's tokens up to the length it was cut
at (`Tree`), no two at the same length (`Boundaries`). `Waiting`, `Trajectory`
and `Entropy` tie the queue, the running trajectory and the stamps to that
forest; a group that is not open is `Emptied`. A step then changes little: it
adds one root or one branch at the end of the forest, or tokens to the running
leaf (`Grows`, `TreeGrows`), and everything else follows from the order of
starting. Yields `LosesNothing`, `Conserved`, `LineageHolds`, `PrefixesHold`,
`EntropyKept`, `SessionsFollow`, `TypeCorrect`. `GroupsImplementBudget` maps a
group's leaves to the stages and origins of `RolloutBudget` and has one lemma
for each kind of step (a root or branch handed out, a leaf started, a leaf
finished, the group's end, and steps that change none of it).

**BoundedEvaluation_proofs**: `Inv` = `Ranges` (the types, and what is left of the
plan is its end), `Course` (before the marker nothing has happened; the end is
written once), `Planned` (an arm still to come was never started, one that is
gone was started once), `Retried` (a retry started is in the batch in hand or
completed; it was asked for in a file that is used and not refused, and follows a
completed attempt; there are no more of them than were counted) and
`Concluded`. That a request served twice starts nothing twice rests on
`completed` being of the one process that may serve: `Course` is needed for
`Retried`. Yields `NothingReplayed`, `RetriesInScope`, `EndIsHonest`,
`TypeCorrect`.

**ReviewSupervisor_proofs**: `Inv` = `TypeOK`, finitely many processes,
`Directories` (a live process is alone on its candidate and works on its last
attempt), `Coroutines` (what a coroutine knows at each await: the attempts it
read are undecided and below the limit, and between the check inside the
semaphore and the start no process is alive and no stop requested), `Readings` (how
a coroutine's copy of the attempts may differ from the directories: a decided
copy is exact, and a copy that is not behind in length differs at most in a last
attempt it saw as started) and `Reports`. The review processes move without the
supervisor, so their steps are one lemma (`WorkerMoves`: what a process may write
given that it is alone), and those of the coroutines another
(`CoroutineMoves`). Yields `InOrder`, `AllReported`, `Drains`, `TypeCorrect`.

What the finding `review_supervisor_other` leaves standing is `ReportsOfOthers`: a
report that names another candidate is true, or the candidate's own review was
accepted by a process that an earlier supervisor started, after the coroutine had
read the attempts. The invariant behind it, `Stale`, says that until it
dispatches a coroutine's copy differs from the directory only because of such a
process (`Behind`), and that a supervisor's own processes are one for each
coroutine that waits for it (`OwnProcesses`).

**PostRlController_proofs**: `Inv` = the types (`Typed`), `Merging` and `Prepared`
(a merge is of a model not yet prepared; a prepared one has its export),
`Once` (a model is scored by the thread that created the log of its full
evaluation, which nobody can create again, in this controller or a later one),
`Earned` (a thread's result is "ok" only of a model scored), `AllHeld` (between
the pending list and the threads no model is mislaid), `Threading` (where the
threads may be, by where the main thread is), `Safety`, `Leftover`, and the two
properties. `AllHeld` is what "complete" rests on: a thread leaves only when the
list is empty, so what it does not hold somebody else does. `Leftover` is the
exception the cleanup allows for: after the last `cleanup` of the main thread a
slot thread may still start the policy server it was about to start, and stops it
itself. The run has one signal per controller; the theorems hold for any number
(the bound `MaxInterrupts` is a natural number in `ControllerAssumption`), and
`Inv` was model-checked with two before it was proved. Yields `Honest`,
`NothingLeft`, `TypeCorrect`.

## 6. Limits

Only model-checked, on the bounds above: the temporal properties (`Terminates`,
`BatchEnds`, `RunEnds`, `GroupsEnd`, `SupervisorEnds`, `BoundedEnds`,
`ControllerEnds`), which need fairness. Every invariant, action property and
refinement that a passing run checks is also a theorem. Liveness, `ENABLED` and
`RECURSIVE` operators are outside what the installed provers handle, and so are
the library's theorems that take an operator as a parameter; where a proof needs
induction over data (sums of money, the transcript of a list) it argues by a
least counter-example on a recursive function.

The two properties a run finds violated are not weakened in the model: the
theorems `CrashesOnlyCostBoundaries` and `ReportsOfOthers` state what the code
does guarantee in their place.

Not modelled, with the reason, is listed per component in `PROJECT.json`. The
components that keep state and are still to come are in the plan. The others
are sequential scripts over files (data preparation, manifests, reports),
floating-point numerics (advantages, credit), or pure I/O (telemetry, uploads,
launch commands).

## 7. Plan

In this order; each line names the module, the promise it should implement or
the properties it should have, and the theorem worth proving.

1. Termination without fairness, as action properties: a measure of a
   trajectory, of a group of rollouts and of a `finally` block that every step of
   theirs lowers.
2. `RunEvaluation`: every planned trial in exactly one of the two result files;
   recovery of saved rollouts.
3. `GenerationGuard`: a small state machine with one deep property (the attested
   prefix survives).
4. Pure operators checked against a reference definition over bounded inputs:
   dynamic filtering, call credit alignment, incremental extraction's cache.
