------------------------ MODULE RunContinuity_proofs ------------------------
(***************************************************************************)
(* Theorems about RunContinuity for every interval, every set of goals and *)
(* any number of runs: the recovery point, the curve and the verdict of a  *)
(* run stay right whatever is killed between two writes, and the directory *)
(* implements RunLine.                                                     *)
(***************************************************************************)
EXTENDS RunContinuity, SequenceTheorems, TLAPS

(* The weights are those of this process.                                  *)
Training == trainer \notin {"down", "loading", "tracking"}

(* The checkpoint of the current step is being written.                    *)
Saving == trainer \in {"registering", "storing", "certifying", "marking"}

(* Where the trainer is bounds the step, and a stop target lies ahead.     *)
Course ==
  /\ trainer # "down" => run >= 1 /\ restored < goal
  /\ ~Training => target = 0 /\ saved = << >> /\ pending = {}
  /\ trainer = "down" => step = 0
  /\ trainer \in {"loading", "tracking"} => restored = marker
  /\ trainer = "loading" => step = 0
  /\ trainer = "tracking" => step = restored /\ Len(weights) = step
  /\ Training => step >= 1 /\ (target # 0 => step <= target /\ target <= goal)
  /\ trainer \in {"logging", "logged"} /\ target = 0 => step < goal
  /\ trainer \in {"saving", "pruning", "validating"} \/ Saving => step \in Boundaries

(* The recovery point is behind a step until the step's own is published,  *)
(* and a run only ends at one.                                             *)
Marked ==
  /\ trainer \in {"updating", "saving"} \/ Saving => marker < step
  /\ trainer \in {"pruning", "validating", "finishing"} => marker = step
  /\ trainer \in {"observing", "logging", "logged"} =>
       marker <= step /\ (step % Interval = 0 => marker = step)

(* The weights continue the recovery point, with one update of this run    *)
(* per step; the checkpoint being written holds them.                      *)
History ==
  /\ Training => Len(weights) = IF trainer = "updating" THEN step - 1 ELSE step
  /\ Training /\ trainer # "updating" => weights[step] = run
  /\ Saving => ckpt[step].weights = weights
  /\ trainer = "marking" => ckpt[step].contents = "complete"
  /\ trainer = "tracking" \/ Training =>
       \A i \in 1..marker : weights[i] = ckpt[marker].weights[i]

(* The worker rotation knows the recovery point as its newest save, or not *)
(* at all.                                                                 *)
Rotation ==
  /\ Training /\ ~Saving =>
       \/ saved = << >>
       \/ marker # 0 /\ saved = <<marker>>
       \/ marker # 0 /\ \E b \in Boundaries : b # marker /\ saved = <<b, marker>>
  /\ trainer = "registering" => saved = << >> \/ (marker # 0 /\ saved = <<marker>>)
  /\ trainer \in {"storing", "certifying", "marking"} =>
       saved = <<step>> \/ (marker # 0 /\ saved = <<marker, step>>)

Inv ==
  TypeOK /\ Course /\ Marked /\ History /\ Rotation /\ RecoveryPoint /\ CurveFaithful
-----------------------------------------------------------------------------
(* Boundaries.                                                             *)

(* What \div and % are.                                                    *)
LEMMA DivMod ==
  \A a \in Int, b \in Nat \ {0} :
    a \div b \in Int /\ a = b * (a \div b) + (a % b) /\ a % b \in 0..b - 1
OBVIOUS

LEMMA MultipleMod == \A k \in Int, b \in Nat \ {0} : (b * k) % b = 0
OBVIOUS

(* The boundary of a step is the least multiple of the interval that is    *)
(* not below it.                                                           *)
LEMMA BoundaryLeast ==
  ASSUME NEW s \in Nat
  PROVE  /\ Boundary(s) \in Nat /\ s <= Boundary(s) /\ Boundary(s) % Interval = 0
         /\ \A t \in Nat : t % Interval = 0 /\ s <= t => Boundary(s) <= t
<1>. DEFINE high == s + Interval - 1
            k == high \div Interval
<1>1. high \in Nat /\ Interval \in Nat \ {0}  BY ContinuityAssumption
<1>2. k \in Int /\ high = Interval * k + (high % Interval)
     /\ high % Interval \in 0..Interval - 1
  <2>. HIDE DEF high
  <2>. QED  BY <1>1, DivMod
<1>3. Boundary(s) = Interval * k /\ s <= Interval * k /\ Interval * k <= high
      /\ Interval * k \in Int
  <2>1. Interval * k \in Int  BY <1>1, <1>2
  <2>2. Boundary(s) = Interval * k  BY <1>1, <1>2 DEF Boundary
  <2>. QED  BY <1>1, <1>2, <2>1, <2>2
<1>4. Boundary(s) % Interval = 0  BY MultipleMod, <1>1, <1>2, <1>3
<1>5. ASSUME NEW t \in Nat, t % Interval = 0, s <= t  PROVE Interval * k <= t
  <2>1. t \div Interval \in Int /\ t = Interval * (t \div Interval)  BY <1>1, <1>5, DivMod
  <2>2. k <= t \div Interval  BY <1>1, <1>2, <1>3, <1>5, <2>1
  <2>. HIDE DEF k
  <2>. QED  BY <1>1, <1>2, <2>1, <2>2
<1>. QED  BY <1>3, <1>4, <1>5

(* A step within a goal has its boundary within the goal.                  *)
LEMMA BoundaryRange ==
  ASSUME NEW s \in Nat \ {0}, NEW g \in Goals, s <= g
  PROVE  Boundary(s) \in Boundaries /\ s <= Boundary(s) /\ Boundary(s) <= g
<1>1. g \in Nat /\ g % Interval = 0  BY ContinuityAssumption
<1>. QED  BY <1>1, BoundaryLeast DEF Boundaries, Steps

(* What the sets of steps and boundaries hold.                             *)
LEMMA BoundariesPositive ==
  ASSUME NEW b \in Boundaries
  PROVE  b \in Nat \ {0} /\ b \in Steps /\ b % Interval = 0
BY ContinuityAssumption DEF Boundaries, Steps

LEMMA StepsPositive == Steps \subseteq Nat \ {0}
BY ContinuityAssumption DEF Steps
-----------------------------------------------------------------------------
(* The worker rotation.                                                    *)

(* Sequences of at most two entries, the rotation's whole range.           *)
LEMMA ShortSequences ==
  ASSUME NEW S
  PROVE  /\ << >> \in Seq(S) /\ \A a \in S : <<a>> \in Seq(S)
         /\ \A a, b \in S : <<a, b>> \in Seq(S)
OBVIOUS

LEMMA OneElement ==
  ASSUME NEW s \in Seq(Int), Len(s) = 1
  PROVE  s = <<s[1]>>
<1>1. <<s[1]>> \in Seq(Int) /\ Len(<<s[1]>>) = 1 /\ <<s[1]>>[1] = s[1]  OBVIOUS
<1>2. \A i \in 1..1 : i = 1  OBVIOUS
<1>. QED  BY <1>1, <1>2, SeqEqual

LEMMA TwoElements ==
  ASSUME NEW s \in Seq(Int), Len(s) = 2
  PROVE  s = <<s[1], s[2]>>
<1>. DEFINE t == <<s[1], s[2]>>
<1>1. t \in Seq(Int) /\ Len(t) = 2 /\ t[1] = s[1] /\ t[2] = s[2]  OBVIOUS
<1>2. \A i \in 1..2 : i = 1 \/ i = 2  OBVIOUS
<1>. HIDE DEF t
<1>3. s = t  BY <1>1, <1>2, SeqEqual
<1>. QED  BY <1>3 DEF t

(* The newest one or two entries of such a sequence.                       *)
LEMMA NewestOf ==
  ASSUME NEW a \in Int, NEW b \in Int
  PROVE  /\ Newest(<< >>, 1) = << >> /\ Newest(<<a>>, 1) = <<a>>
         /\ Newest(<<b, a>>, 1) = <<a>>
         /\ Newest(Append(<< >>, a), 2) = <<a>>
         /\ Newest(Append(<<b>>, a), 2) = <<b, a>>
<1>1. Newest(<< >>, 1) = << >> /\ Newest(<<a>>, 1) = <<a>>  BY DEF Newest
<1>2. Newest(<<b, a>>, 1) = <<a>>
  <2>. DEFINE t == SubSeq(<<b, a>>, 2, 2)
  <2>1. Newest(<<b, a>>, 1) = t  BY DEF Newest
  <2>2. t \in Seq(Int) /\ Len(t) = 1 /\ t[1] = a  OBVIOUS
  <2>. HIDE DEF t
  <2>. QED  BY <2>1, <2>2, OneElement
<1>3. Append(<< >>, a) = <<a>>  OBVIOUS
<1>4. Append(<<b>>, a) = <<b, a>>
  <2>. DEFINE t == Append(<<b>>, a)
  <2>1. t \in Seq(Int) /\ Len(t) = 2 /\ t[1] = b /\ t[2] = a  OBVIOUS
  <2>. HIDE DEF t
  <2>2. t = <<b, a>>  BY <2>1, TwoElements
  <2>. QED  BY <2>2 DEF t
<1>5. Newest(<<a>>, 2) = <<a>> /\ Newest(<<b, a>>, 2) = <<b, a>>  BY DEF Newest
<1>. QED  BY <1>1, <1>2, <1>3, <1>4, <1>5

Checkpoints == [Boundaries -> [contents: Contents, weights: Seq(Runs)]]

(* Evicting touches contents only, and nothing that was kept or that this  *)
(* process did not save.                                                   *)
LEMMA EvictKeeps ==
  ASSUME NEW kept, ckpt \in Checkpoints
  PROVE  /\ Evict(kept) \in Checkpoints
         /\ \A b \in Boundaries : Evict(kept)[b].weights = ckpt[b].weights
         /\ \A b \in Boundaries :
              \/ \A i \in 1..Len(saved) : saved[i] # b
              \/ \E i \in 1..Len(kept) : kept[i] = b
              => Evict(kept)[b] = ckpt[b]
BY DEF Evict, Checkpoints, Contents
-----------------------------------------------------------------------------
(* What a live trainer's place says of the types.                          *)
LEMMA Typed ==
  ASSUME Inv
  PROVE  /\ ckpt \in Checkpoints
         /\ trainer # "down" => run \in Runs /\ goal \in Goals
         /\ Training => step \in Steps /\ step \in Nat \ {0}
         /\ goal \in Nat /\ step \in Nat /\ restored \in Nat
         /\ marker \in Nat /\ (marker # 0 => marker \in Boundaries)
         /\ \A p \in cloud \cup pending : p[1] \in Nat \ {0} /\ p[2] \in Runs /\ p = <<p[1],
              p[2]>>
<1>. USE ContinuityAssumption DEF Inv, TypeOK
<1>1. ckpt \in Checkpoints  BY DEF Checkpoints
<1>2. trainer # "down" => run \in Runs /\ goal \in Goals
  BY DEF Course, Runs
<1>3. /\ goal \in Nat /\ step \in Nat /\ restored \in Nat
      /\ marker \in Nat /\ (marker # 0 => marker \in Boundaries)
  BY BoundariesPositive
<1>4. ASSUME Training  PROVE step \in Steps /\ step \in Nat \ {0}
  <2>1. step >= 1 /\ goal \in Goals /\ step \in 0..goal
    BY <1>2, <1>4 DEF Course, Training
  <2>2. goal \in Nat /\ step \in 1..goal  BY <1>3, <2>1
  <2>. HIDE DEF Inv, TypeOK
  <2>. QED  BY <2>1, <2>2 DEF Steps
<1>5. \A p \in cloud \cup pending : p[1] \in Nat \ {0} /\ p[2] \in Runs /\ p = <<p[1], p[2]>>
  <2>. TAKE p \in cloud \cup pending
  <2>1. p \in Steps \X Runs  OBVIOUS
  <2>2. PICK s \in Steps, r \in Runs : p = <<s, r>>  BY <2>1
  <2>3. s \in Nat \ {0}  BY StepsPositive
  <2>4. p[1] = s /\ p[2] = r  BY <2>2
  <2>. QED  BY <2>2, <2>3, <2>4
<1>. QED  BY <1>1, <1>2, <1>3, <1>4, <1>5

(* Making room for a save drops an older save, never the recovery point.   *)
LEMMA BeginSaveRotates ==
  ASSUME Inv, BeginSave
  PROVE  /\ saved' = << >> \/ (marker # 0 /\ saved' = <<marker>>)
         /\ marker # 0 => \/ \A i \in 1..Len(saved) : saved[i] # marker
                         \/ \E i \in 1..Len(saved') : saved'[i] = marker
<1>1. marker \in Int /\ \A b \in Boundaries : b \in Int
  BY BoundariesPositive DEF Inv, TypeOK
<1>2. saved' = Newest(saved, 1)  BY DEF BeginSave, WorkersKeep
<1>3. Training /\ ~Saving  BY DEF BeginSave, Training, Saving
<1>4. CASE saved = << >>
  <2>1. saved' = << >>  BY <1>1, <1>2, <1>4, NewestOf
  <2>. QED  BY <1>4, <2>1
<1>5. CASE marker # 0 /\ saved = <<marker>>
  <2>1. saved' = <<marker>>  BY <1>1, <1>2, <1>5, NewestOf
  <2>. QED  BY <1>5, <2>1
<1>6. CASE marker # 0 /\ \E b \in Boundaries : b # marker /\ saved = <<b, marker>>
  <2>1. saved' = <<marker>>  BY <1>1, <1>2, <1>6, NewestOf
  <2>. QED  BY <1>6, <2>1
<1>. QED  BY <1>3, <1>4, <1>5, <1>6 DEF Inv, Rotation

(* So does registering the new one.                                        *)
LEMMA RegisterRotates ==
  ASSUME Inv, RegisterSave
  PROVE  /\ saved' = <<step>> \/ (marker # 0 /\ saved' = <<marker, step>>)
         /\ marker # 0 => \/ \A i \in 1..Len(saved) : saved[i] # marker
                         \/ \E i \in 1..Len(saved') : saved'[i] = marker
<1>1. marker \in Int /\ step \in Int
  BY BoundariesPositive DEF Inv, TypeOK
<1>2. saved' = Newest(Append(saved, step), 2)  BY DEF RegisterSave, WorkersKeep
<1>3. CASE saved = << >>
  <2>1. saved' = <<step>>  BY <1>1, <1>2, <1>3, NewestOf
  <2>. QED  BY <1>3, <2>1
<1>4. CASE marker # 0 /\ saved = <<marker>>
  <2>1. saved' = <<marker, step>>  BY <1>1, <1>2, <1>4, NewestOf
  <2>. QED  BY <1>4, <2>1
<1>. QED  BY <1>3, <1>4 DEF Inv, Rotation, RegisterSave

(* The steps that write the checkpoint directory leave the recovery point  *)
(* as it is, and write this step's weights.                                *)
DirectoryStep == BeginSave \/ RegisterSave \/ SaveDataloader \/ WriteReceipt \/ Prune

LEMMA DirectoryKept ==
  ASSUME Inv, DirectoryStep
  PROVE  /\ ckpt' \in Checkpoints
         /\ marker # 0 => ckpt'[marker] = ckpt[marker]
         /\ ~Prune => ckpt'[step].weights = weights
         /\ UNCHANGED <<step, weights, marker, pending, cloud>>
<1>. step \in Boundaries /\ weights \in Seq(Runs)
  BY DEF DirectoryStep, BeginSave, RegisterSave, SaveDataloader, WriteReceipt, Prune, Inv,
         Course, Saving, TypeOK
<1>. /\ ckpt \in Checkpoints /\ marker \in Nat /\ step \in Nat
     /\ marker # 0 => marker \in Boundaries
  BY Typed
<1>. USE DEF Checkpoints, Contents, curve, loop
<1>1. CASE BeginSave
  <2>1. marker # step  BY <1>1 DEF BeginSave, Inv, Marked
  <2>2. /\ Evict(saved') \in Checkpoints
        /\ marker # 0 => Evict(saved')[marker] = ckpt[marker]
    BY <1>1, BeginSaveRotates, EvictKeeps
  <2>. QED  BY <1>1, <2>1, <2>2 DEF BeginSave, Prune
<1>2. CASE RegisterSave
  <2>1. ckpt[step].weights = weights  BY <1>2 DEF RegisterSave, Inv, History, Saving
  <2>2. /\ Evict(saved') \in Checkpoints
        /\ marker # 0 => Evict(saved')[marker] = ckpt[marker]
        /\ Evict(saved')[step].weights = ckpt[step].weights
    BY <1>2, RegisterRotates, EvictKeeps
  <2>. QED  BY <1>2, <2>1, <2>2 DEF RegisterSave
<1>3. CASE SaveDataloader
  <2>1. marker # step /\ ckpt[step].weights = weights
    BY <1>3 DEF SaveDataloader, Inv, Marked, History, Saving
  <2>. QED  BY <1>3, <2>1 DEF SaveDataloader
<1>4. CASE WriteReceipt
  <2>1. marker # step /\ ckpt[step].weights = weights
    BY <1>4 DEF WriteReceipt, Inv, Marked, History, Saving
  <2>. QED  BY <1>4, <2>1 DEF WriteReceipt
<1>5. CASE Prune
  <2>1. marker = step  BY <1>5 DEF Prune, Inv, Marked
  <2>2. NoCheckpoint \in [contents: Contents, weights: Seq(Runs)]  BY DEF NoCheckpoint
  <2>3. \A b \in Older : b \in Boundaries /\ b # marker
    BY <2>1, BoundariesPositive DEF Older
  <2>4. CASE ckpt' = ckpt  BY <1>5, <2>4 DEF Prune
  <2>5. CASE ckpt' # ckpt
    <3>1. PICK b \in Older :
            ckpt' = [ckpt EXCEPT ![b] = IF @.contents = "partial" THEN NoCheckpoint
                                        ELSE [@ EXCEPT !.contents = "partial"]]
      BY <1>5, <2>5 DEF Prune
    <3>2. ckpt' \in Checkpoints  BY <2>2, <2>3, <3>1
    <3>. QED  BY <1>5, <2>3, <3>1, <3>2 DEF Prune
  <2>. QED  BY <2>4, <2>5
<1>. QED  BY <1>1, <1>2, <1>3, <1>4, <1>5 DEF DirectoryStep
-----------------------------------------------------------------------------
(* Starting, resuming, and the steps beside the trainer.                   *)
Start == \E g \in Goals : StartFresh(g) \/ Resume(g)
Beside == Conclude \/ Abort \/ ControllerDies \/ RequestStop \/ ArchiveStop

(* They leave the trainer's memory, the directory and the curve alone.     *)
LEMMA BesideKeeps ==
  ASSUME Beside
  PROVE  /\ UNCHANGED <<run, goal, loop, trainer, rc, checkpoints, curve, validated, budget>>
         /\ UNCHANGED <<step, weights, restored, saved, target, requested, ckpt, marker>>
         /\ UNCHANGED <<last, rows, pending, cloud>>
BY DEF Beside, Conclude, Abort, ControllerDies, RequestStop, ArchiveStop, loop, checkpoints,
       curve, control

(* A start finds everything down, and restores the recovery point.         *)
LEMMA StartFinds ==
  ASSUME Inv, Start
  PROVE  \E g \in Goals :
           /\ Launch(g, marker) /\ trainer = "down" /\ run < MaxRuns /\ marker < g
           /\ ~stop
<1>1. ASSUME NEW g \in Goals, StartFresh(g)  PROVE marker = 0
  <2>1. marker \in Boundaries \cup {0}  BY DEF Inv, TypeOK
  <2>. QED  BY <1>1, <2>1 DEF StartFresh, Inv, RecoveryPoint
<1>2. ASSUME NEW g \in Goals, StartFresh(g)
      PROVE Launch(g, marker) /\ trainer = "down" /\ run < MaxRuns /\ marker < g /\ ~stop
  BY <1>1, <1>2, ContinuityAssumption DEF StartFresh, Quiet
<1>3. ASSUME NEW g \in Goals, Resume(g)
      PROVE Launch(g, marker) /\ trainer = "down" /\ run < MaxRuns /\ marker < g /\ ~stop
  BY <1>3 DEF Resume, Quiet
<1>. QED  BY <1>2, <1>3 DEF Start

(* The trainer leaves, whatever the reason.                                *)
Leaves == Finish \/ TrainerDies \/ (StopChildren /\ trainer # "down")
-----------------------------------------------------------------------------
(* TypeOK, in parts that one step touches.                                 *)
LoopTyped ==
  /\ run \in 0..MaxRuns /\ goal \in Goals \cup {0} /\ trainer \in Places
  /\ step \in 0..goal /\ restored \in 0..goal /\ marker \in Boundaries \cup {0}
WorkTyped ==
  /\ weights \in Seq(Runs) /\ saved \in Seq(Boundaries)
  /\ target \in Boundaries \cup {0} /\ requested \in BOOLEAN
  /\ trainer \in {"updating", "saving", "logging"} =>
       Len(weights) = step - (IF trainer = "updating" THEN 1 ELSE 0)
RestTyped ==
  /\ rc \in {"none", "ok", "error"} /\ ckpt \in Checkpoints
  /\ last \in Steps \cup {-1, 0} /\ rows \subseteq Steps /\ validated \subseteq Steps
  /\ pending \subseteq Steps \X Runs /\ cloud \subseteq Steps \X Runs
  /\ budget \in [requested: BOOLEAN, target: Boundaries \cup {0}]
  /\ controller \in {"none", "waiting", "stopping"}
  /\ status \in {"none", "training", "paused", "completed", "failed"}
  /\ stop \in BOOLEAN /\ stopBy \in Nat

LEMMA TypeSplit == TypeOK <=> LoopTyped /\ WorkTyped /\ RestTyped
BY DEF TypeOK, LoopTyped, WorkTyped, RestTyped, Checkpoints

LEMMA TypeSplitNext == TypeOK' <=> LoopTyped' /\ WorkTyped' /\ RestTyped'
BY DEF TypeOK, LoopTyped, WorkTyped, RestTyped, Checkpoints

(* What a stopped trainer leaves in memory.                                *)
LEMMA StoppedTyped ==
  ASSUME goal \in Nat, Stopped
  PROVE  /\ step' \in 0..goal /\ weights' \in Seq(Runs) /\ saved' \in Seq(Boundaries)
         /\ trainer' = "down" /\ restored' = restored /\ target' = 0 /\ requested' = FALSE
         /\ pending' = {}
BY ShortSequences DEF Stopped

(* Every variable keeps its range.                                         *)
LEMMA TypeKept ==
  ASSUME Inv, Next
  PROVE  TypeOK'
<1>. USE ContinuityAssumption
<1>. TypeOK /\ (trainer # "down" => run \in Runs /\ goal \in Goals)
     /\ (Training => step \in Steps /\ step \in Nat \ {0})
     /\ goal \in Nat /\ step \in Nat /\ restored \in Nat /\ marker \in Nat
  BY Typed DEF Inv
<1>1. CASE Start
  <2>1. PICK g \in Goals : Launch(g, marker) /\ trainer = "down" /\ run < MaxRuns /\ marker < g
    BY <1>1, StartFinds
  <2>2. step = 0  BY <2>1 DEF Inv, Course
  <2>. QED  BY <2>1, <2>2 DEF Launch, TypeOK, loop, checkpoints, curve, control, request, Places
<1>2. CASE LoadCheckpoint
  <2>1. restored = marker  BY <1>2 DEF LoadCheckpoint, Inv, Course
  <2>2. weights' \in Seq(Runs)
    <3>1. marker # 0 => ckpt[marker].weights \in Seq(Runs)  BY DEF TypeOK
    <3>. QED  BY <1>2, <2>1, <3>1 DEF LoadCheckpoint
  <2>3. LoopTyped'
    BY <1>2, <2>1, TypeSplit DEF LoadCheckpoint, LoopTyped, checkpoints, control, Places
  <2>4. WorkTyped'  BY <1>2, <2>2, TypeSplit DEF LoadCheckpoint, WorkTyped
  <2>5. RestTyped'
    BY <1>2, TypeSplit DEF LoadCheckpoint, RestTyped, checkpoints, curve, control, request
  <2>. QED  BY <2>3, <2>4, <2>5, TypeSplitNext
<1>3. CASE StartTracking
  <2>1. step = restored /\ restored = marker /\ restored < goal /\ Len(weights) = step
    BY <1>3 DEF StartTracking, Inv, Course
  <2>2. restored \in Steps \cup {0}  BY <2>1, BoundariesPositive DEF TypeOK
  <2>3. restored + 1 \in 0..goal  BY <2>1 DEF TypeOK
  <2>4. CASE Stopped /\ rc' = "error" /\ UNCHANGED <<last, rows, cloud>>
    BY <1>3, <2>4, StoppedTyped DEF StartTracking, TypeOK, checkpoints, control, request, Places
  <2>5. CASE UNCHANGED <<weights, restored, saved, target, requested, rc, rows, pending, cloud>>
             /\ last' = restored /\ step' = restored + 1 /\ trainer' = "updating"
    BY <1>3, <2>1, <2>2, <2>3, <2>5
       DEF StartTracking, TypeOK, checkpoints, control, request, Places
  <2>. QED  BY <1>3, <2>4, <2>5 DEF StartTracking
<1>4. CASE Update
  <2>1. Append(weights, run) \in Seq(Runs) /\ Len(Append(weights, run)) = Len(weights) + 1
    BY <1>4 DEF Update, TypeOK
  <2>. QED  BY <1>4, <2>1 DEF Update, TypeOK, checkpoints, curve, control, request, Places
<1>5. CASE DirectoryStep
  <2>1. ckpt' \in Checkpoints  BY <1>5, DirectoryKept
  <2>2. saved' \in Seq(Boundaries)
    <3>1. BeginSave \/ RegisterSave => step \in Boundaries
      BY DEF BeginSave, RegisterSave, Inv, Course, Saving
    <3>2. marker # 0 => marker \in Boundaries  BY DEF TypeOK
    <3>3. CASE BeginSave  BY <3>2, <3>3, BeginSaveRotates, ShortSequences
    <3>4. CASE RegisterSave  BY <3>1, <3>2, <3>4, RegisterRotates, ShortSequences
    <3>5. CASE SaveDataloader \/ WriteReceipt \/ Prune
      BY <3>5 DEF SaveDataloader, WriteReceipt, Prune, loop, TypeOK
    <3>. QED  BY <1>5, <3>3, <3>4, <3>5 DEF DirectoryStep
  <2>3. /\ UNCHANGED <<run, goal, step, weights, restored, target, requested, rc, marker, curve,
                       validated, budget, control, request>>
        /\ trainer' \in Places /\ trainer' \notin {"updating", "saving", "logging"}
    BY <1>5 DEF DirectoryStep, BeginSave, RegisterSave, SaveDataloader, WriteReceipt, Prune,
         loop,
              control, Places
  <2>. QED  BY <2>1, <2>2, <2>3 DEF TypeOK, Checkpoints, curve, control, request
<1>6. CASE PublishMarker
  <2>1. step \in Boundaries  BY <1>6 DEF PublishMarker, Inv, Course, Saving
  <2>. QED  BY <1>6, <2>1 DEF PublishMarker, TypeOK, loop, curve, control, request, Places
<1>7. CASE Validate
  BY <1>7 DEF Validate, TypeOK, Training, loop, checkpoints, curve, control, request, Places
<1>8. CASE Observe
  <2>1. Boundary(step) \in Boundaries
    BY <1>8, BoundaryRange DEF Observe, Training, TypeOK
  <2>2. target' \in Boundaries \cup {0} /\ requested' \in BOOLEAN
    BY <1>8, <2>1 DEF Observe, StopTarget, TypeOK
  <2>3. Len(weights) = step  BY <1>8 DEF Observe, Inv, History, Training
  <2>. QED
    BY <1>8, <2>2, <2>3 DEF Observe, TypeOK, checkpoints, curve, control, request, Places
<1>9. CASE LogUpdate
  <2>1. step \in Steps /\ run \in Runs  BY <1>9 DEF LogUpdate, Training
  <2>2. rows' \subseteq Steps /\ pending' \subseteq Steps \X Runs
    BY <1>9, <2>1 DEF LogUpdate, TypeOK
  <2>. QED  BY <1>9, <2>2 DEF LogUpdate, TypeOK, loop, checkpoints, control, request, Places
<1>10. CASE RecordStep
  <2>1. step \in Steps /\ Len(weights) = step
    BY <1>10 DEF RecordStep, Training, Inv, History
  <2>2. step' \in 0..goal
    <3>1. target = 0 => step < goal  BY <1>10 DEF RecordStep, Inv, Course
    <3>2. target # 0 => target <= goal  BY <1>10 DEF RecordStep, Inv, Course, Training
    <3>3. target \in Nat /\ goal \in Nat /\ step <= goal  BY BoundariesPositive DEF TypeOK
    <3>. QED  BY <1>10, <3>1, <3>2, <3>3 DEF RecordStep
  <2>3. last' \in Steps /\ trainer' \in {"finishing", "updating"}
        /\ (trainer' = "updating" => Len(weights') = step' - 1)
    BY <1>10, <2>1 DEF RecordStep
  <2>4. UNCHANGED <<run, goal, weights, restored, saved, target, requested, rc, ckpt, marker,
                    rows, pending, cloud, validated, budget, controller, status, stop, stopBy>>
    BY <1>10 DEF RecordStep, checkpoints, control, request
  <2>5. LoopTyped'  BY <2>2, <2>3, <2>4, TypeSplit DEF LoopTyped, Places
  <2>6. WorkTyped'  BY <2>3, <2>4, TypeSplit DEF WorkTyped
  <2>7. RestTyped'  BY <2>3, <2>4, TypeSplit DEF RestTyped
  <2>. QED  BY <2>5, <2>6, <2>7, TypeSplitNext
<1>11. CASE Leaves
  <2>1. cloud' \subseteq Steps \X Runs /\ UNCHANGED <<run, goal, last, rows, checkpoints,
       validated, budget, request>>
        /\ controller' \in {"none", "waiting",
             "stopping"} /\ UNCHANGED status /\ Stopped /\ rc' \in {"ok", "error"}
    BY <1>11 DEF Leaves, Finish, TrainerDies, StopChildren, TypeOK, control
  <2>. QED  BY <2>1, StoppedTyped DEF TypeOK, checkpoints, request, Places
<1>12. CASE StopChildren /\ trainer = "down"
  BY <1>12 DEF StopChildren, TypeOK, loop, checkpoints, request
<1>13. CASE Upload
  <2>1. cloud' \subseteq Steps \X Runs /\ pending' \subseteq Steps \X Runs
    BY <1>13 DEF Upload, TypeOK
  <2>. QED  BY <1>13, <2>1 DEF Upload, TypeOK, loop, checkpoints, control, request
<1>14. CASE Beside
  <2>1. controller' \in {"none", "waiting", "stopping"} /\ stop' \in BOOLEAN
        /\ status' \in {"none", "training", "paused", "completed", "failed"}
    BY <1>14 DEF Beside, Conclude, Abort, ControllerDies, RequestStop, ArchiveStop, control,
              request, TypeOK
  <2>2. stopBy' \in Nat
    <3>1. \A t \in Nat : Boundary(t) \in Nat  BY BoundaryLeast
    <3>2. CASE RequestStop
      <4>1. step + 1 \in Nat /\ restored + 1 \in Nat  OBVIOUS
      <4>2. \/ stopBy' = Boundary(step + 1) \/ stopBy' = Boundary(restored + 1)
            \/ stopBy' = Boundary(step)
        BY <3>2 DEF RequestStop
      <4>. QED  BY <3>1, <4>1, <4>2
    <3>3. CASE Conclude \/ Abort \/ ControllerDies \/ ArchiveStop
      BY <3>3 DEF Conclude, Abort, ControllerDies, ArchiveStop, request, TypeOK
    <3>. QED  BY <1>14, <3>2, <3>3 DEF Beside
  <2>. QED  BY <1>14, <2>1, <2>2, BesideKeeps DEF TypeOK
<1>. QED
  BY <1>1, <1>2, <1>3, <1>4, <1>5, <1>6, <1>7, <1>8, <1>9, <1>10, <1>11, <1>12, <1>13, <1>14
     DEF Next, Start, TrainerStep, DirectoryStep, Leaves, Beside
-----------------------------------------------------------------------------
(* Where the trainer is.                                                   *)
LEMMA CourseKept ==
  ASSUME Inv, Next
  PROVE  Course'
<1>. USE DEF Inv, Course, Training, Saving
<1>. /\ goal \in Nat /\ step \in Nat /\ restored \in Nat /\ marker \in Nat /\ step <= goal
     /\ target \in Nat /\ (trainer # "down" => goal \in Goals) /\ run \in Nat
  <2>1. target \in Nat /\ run \in Nat /\ step <= goal
    BY Typed, BoundariesPositive, ContinuityAssumption DEF TypeOK
  <2>. QED  BY <2>1, Typed
<1>1. CASE Start
  <2>1. PICK g \in Goals : Launch(g, marker) /\ trainer = "down" /\ run < MaxRuns /\ marker < g
    BY <1>1, StartFinds
  <2>. QED  BY <2>1 DEF Launch, checkpoints, curve
<1>2. CASE LoadCheckpoint
  <2>1. restored = marker  BY <1>2 DEF LoadCheckpoint
  <2>2. Len(weights') = restored
    <3>1. marker # 0 => Len(ckpt[marker].weights) = marker  BY DEF RecoveryPoint
    <3>2. Len(<< >>) = 0  OBVIOUS
    <3>. QED  BY <1>2, <2>1, <3>1, <3>2 DEF LoadCheckpoint
  <2>. QED  BY <1>2, <2>2 DEF LoadCheckpoint, checkpoints, curve, control
<1>3. CASE StartTracking  BY <1>3 DEF StartTracking, Stopped, checkpoints, control
<1>4. CASE Update
  <2>1. ASSUME AtBoundary  PROVE step \in Boundaries
    <3>1. step \in Steps  BY <1>4, Typed DEF Update
    <3>2. CASE step % Interval = 0  BY <3>1, <3>2 DEF Boundaries
    <3>3. CASE target # 0 /\ step >= target
      <4>1. step = target  BY <1>4, <3>3 DEF Update
      <4>. QED  BY <3>3, <4>1 DEF TypeOK
    <3>4. CASE target = 0 /\ step >= goal
      <4>1. step = goal /\ goal \in Goals  BY <1>4, <3>4 DEF Update
      <4>2. step % Interval = 0  BY <4>1, ContinuityAssumption
      <4>. QED  BY <3>1, <4>2 DEF Boundaries
    <3>. QED  BY <2>1, <3>2, <3>3, <3>4 DEF AtBoundary, IsLastStep
  <2>. QED  BY <1>4, <2>1 DEF Update, curve, control, checkpoints
<1>5. CASE BeginSave \/ RegisterSave  BY <1>5 DEF BeginSave, RegisterSave, curve, control
<1>6. CASE SaveDataloader \/ WriteReceipt
  BY <1>6 DEF SaveDataloader, WriteReceipt, loop, curve, control
<1>7. CASE PublishMarker  BY <1>7 DEF PublishMarker, loop, curve, control
<1>8. CASE Prune  BY <1>8 DEF Prune, loop, curve, control
<1>9. CASE Validate  BY <1>9 DEF Validate, loop, curve, control, checkpoints
<1>10. CASE Observe
  <2>1. step >= 1 /\ goal \in Goals  BY <1>10 DEF Observe
  <2>2. Boundary(step) \in Nat /\ step <= Boundary(step) /\ Boundary(step) <= goal
    BY <2>1, BoundaryRange, BoundariesPositive
  <2>3. target' # 0 => step <= target' /\ target' <= goal
    BY <1>10, <2>1, <2>2 DEF Observe, StopTarget
  <2>4. target' = 0 => step < goal
    BY <1>10, <2>1, <2>2 DEF Observe, StopTarget
  <2>. QED  BY <1>10, <2>1, <2>3, <2>4 DEF Observe, curve, control, checkpoints
<1>11. CASE LogUpdate  BY <1>11 DEF LogUpdate, loop, control, checkpoints
<1>12. CASE RecordStep  BY <1>12 DEF RecordStep, control, checkpoints
<1>13. CASE Leaves
  BY <1>13 DEF Leaves, Finish, TrainerDies, StopChildren, Stopped, control, checkpoints
<1>14. CASE StopChildren /\ trainer = "down"  BY <1>14 DEF StopChildren, loop, checkpoints
<1>15. CASE Upload  BY <1>15 DEF Upload, loop, checkpoints, control
<1>16. CASE Beside  BY <1>16, BesideKeeps
<1>. QED
  BY <1>1, <1>2, <1>3, <1>4, <1>5, <1>6, <1>7, <1>8, <1>9, <1>10, <1>11, <1>12, <1>13, <1>14,
       <1>15, <1>16
     DEF Next, Start, TrainerStep, DirectoryStep, Leaves, Beside
-----------------------------------------------------------------------------
(* The recovery point and the step.                                        *)
LEMMA MarkedKept ==
  ASSUME Inv, Next
  PROVE  Marked'
<1>. USE DEF Inv, Marked, Training, Saving
<1>. goal \in Nat /\ step \in Nat /\ restored \in Nat /\ marker \in Nat
  BY Typed
<1>1. CASE Start
  <2>1. PICK g \in Goals : Launch(g, marker) /\ trainer = "down" /\ run < MaxRuns /\ marker < g
    BY <1>1, StartFinds
  <2>. QED  BY <2>1 DEF Launch, checkpoints
<1>2. CASE LoadCheckpoint  BY <1>2 DEF LoadCheckpoint, checkpoints
<1>3. CASE StartTracking  BY <1>3 DEF StartTracking, Stopped, checkpoints, Course
<1>4. CASE Update
  <2>1. ~AtBoundary => step % Interval # 0  BY DEF AtBoundary
  <2>. QED  BY <1>4, <2>1 DEF Update, checkpoints
<1>5. CASE BeginSave \/ RegisterSave  BY <1>5 DEF BeginSave, RegisterSave
<1>6. CASE SaveDataloader \/ WriteReceipt  BY <1>6 DEF SaveDataloader, WriteReceipt, loop
<1>7. CASE PublishMarker  BY <1>7 DEF PublishMarker, loop
<1>8. CASE Prune  BY <1>8 DEF Prune, loop
<1>9. CASE Validate  BY <1>9 DEF Validate, loop, checkpoints
<1>10. CASE Observe  BY <1>10 DEF Observe, checkpoints
<1>11. CASE LogUpdate  BY <1>11 DEF LogUpdate, loop, checkpoints
<1>12. CASE RecordStep
  <2>1. target # 0 /\ step >= target => step % Interval = 0
    <3>1. target # 0 => target \in Nat /\ target % Interval = 0
      BY BoundariesPositive DEF TypeOK
    <3>2. target # 0 => step <= target  BY <1>12 DEF RecordStep, Course
    <3>. QED  BY <3>1, <3>2
  <2>. QED  BY <1>12, <2>1 DEF RecordStep, checkpoints
<1>13. CASE Leaves  BY <1>13 DEF Leaves, Finish, TrainerDies, StopChildren, Stopped, checkpoints
<1>14. CASE StopChildren /\ trainer = "down"  BY <1>14 DEF StopChildren, loop, checkpoints
<1>15. CASE Upload  BY <1>15 DEF Upload, loop, checkpoints
<1>16. CASE Beside  BY <1>16, BesideKeeps
<1>. QED
  BY <1>1, <1>2, <1>3, <1>4, <1>5, <1>6, <1>7, <1>8, <1>9, <1>10, <1>11, <1>12, <1>13, <1>14,
       <1>15, <1>16
     DEF Next, Start, TrainerStep, DirectoryStep, Leaves, Beside
-----------------------------------------------------------------------------
(* The weights continue the recovery point.                                *)
LEMMA HistoryKept ==
  ASSUME Inv, Next
  PROVE  History'
<1>. USE DEF Inv, History, Training, Saving
<1>. /\ step \in Nat /\ restored \in Nat /\ marker \in Nat /\ run \in Nat
     /\ weights \in Seq(Runs) /\ (trainer # "down" => run \in Runs)
  BY Typed DEF TypeOK
<1>1. CASE Start
  <2>1. PICK g \in Goals : Launch(g, marker) /\ trainer = "down" /\ run < MaxRuns /\ marker < g
    BY <1>1, StartFinds
  <2>. QED  BY <2>1 DEF Launch, checkpoints
<1>2. CASE LoadCheckpoint
  <2>1. restored = marker  BY <1>2 DEF LoadCheckpoint, Course
  <2>. QED  BY <1>2, <2>1 DEF LoadCheckpoint, checkpoints
<1>3. CASE StartTracking  BY <1>3 DEF StartTracking, Stopped, checkpoints, Course
<1>4. CASE Update
  <2>1. /\ Len(weights') = Len(weights) + 1 /\ weights'[Len(weights) + 1] = run
        /\ \A i \in 1..Len(weights) : weights'[i] = weights[i]
    BY <1>4 DEF Update
  <2>2. marker <= Len(weights) /\ Len(weights) + 1 = step  BY <1>4 DEF Update, Marked
  <2>. QED  BY <1>4, <2>1, <2>2 DEF Update, checkpoints, control
<1>5. CASE DirectoryStep
  <2>1. marker # 0 => ckpt'[marker] = ckpt[marker]  BY <1>5, DirectoryKept
  <2>2. ~Prune => ckpt'[step].weights = weights  BY <1>5, DirectoryKept
  <2>3. UNCHANGED <<run, step, weights, marker>> /\ (Prune => trainer' \in {"pruning",
       "validating"})
    BY <1>5 DEF DirectoryStep, BeginSave, RegisterSave, SaveDataloader, WriteReceipt, Prune,
         loop,
              control
  <2>4. Training /\ trainer # "updating" /\ Training' /\ trainer' # "updating"
    BY <1>5 DEF DirectoryStep, BeginSave, RegisterSave, SaveDataloader, WriteReceipt, Prune
  <2>5. trainer' = "marking" => ckpt'[step].contents = "complete"
    <3>1. ASSUME WriteReceipt  PROVE ckpt'[step].contents = "complete"
      <4>1. step \in Boundaries  BY <3>1 DEF WriteReceipt, Course
      <4>. QED  BY <3>1, <4>1, Typed DEF WriteReceipt, Checkpoints
    <3>. QED  BY <1>5, <3>1 DEF DirectoryStep, BeginSave, RegisterSave, SaveDataloader, Prune
  <2>. QED  BY <2>1, <2>2, <2>3, <2>4, <2>5
<1>6. CASE PublishMarker  BY <1>6 DEF PublishMarker, loop, control
<1>7. CASE Validate  BY <1>7 DEF Validate, loop, checkpoints, control
<1>8. CASE Observe  BY <1>8 DEF Observe, checkpoints, control
<1>9. CASE LogUpdate  BY <1>9 DEF LogUpdate, loop, checkpoints, control
<1>10. CASE RecordStep  BY <1>10 DEF RecordStep, checkpoints, control
<1>11. CASE Leaves  BY <1>11 DEF Leaves, Finish, TrainerDies, StopChildren, Stopped, checkpoints
<1>12. CASE StopChildren /\ trainer = "down"  BY <1>12 DEF StopChildren, loop, checkpoints
<1>13. CASE Upload  BY <1>13 DEF Upload, loop, checkpoints, control
<1>14. CASE Beside  BY <1>14, BesideKeeps
<1>. QED
  BY <1>1, <1>2, <1>3, <1>4, <1>5, <1>6, <1>7, <1>8, <1>9, <1>10, <1>11, <1>12, <1>13, <1>14
     DEF Next, Start, TrainerStep, DirectoryStep, Leaves, Beside
-----------------------------------------------------------------------------
(* The worker rotation.                                                    *)
LEMMA RotationKept ==
  ASSUME Inv, Next
  PROVE  Rotation'
<1>. USE DEF Inv, Rotation, Training, Saving
<1>. step \in Nat /\ restored \in Nat /\ marker \in Nat
  BY Typed
<1>1. CASE Start
  <2>1. PICK g \in Goals : Launch(g, marker) /\ trainer = "down" /\ run < MaxRuns /\ marker < g
    BY <1>1, StartFinds
  <2>. QED  BY <2>1 DEF Launch
<1>2. CASE LoadCheckpoint \/ StartTracking
  BY <1>2 DEF LoadCheckpoint, StartTracking, Stopped, checkpoints, Course
<1>3. CASE Update  BY <1>3 DEF Update, checkpoints
<1>4. CASE BeginSave  BY <1>4, BeginSaveRotates DEF BeginSave
<1>5. CASE RegisterSave  BY <1>5, RegisterRotates DEF RegisterSave
<1>6. CASE SaveDataloader \/ WriteReceipt  BY <1>6 DEF SaveDataloader, WriteReceipt, loop
<1>7. CASE PublishMarker
  <2>1. step # 0 /\ marker # step  BY <1>7 DEF PublishMarker, Marked
  <2>2. marker # 0 => marker \in Boundaries  BY Typed
  <2>. QED  BY <1>7, <2>1, <2>2 DEF PublishMarker, loop
<1>8. CASE Prune  BY <1>8 DEF Prune, loop
<1>9. CASE Validate \/ LogUpdate  BY <1>9 DEF Validate, LogUpdate, loop, checkpoints
<1>10. CASE Observe \/ RecordStep  BY <1>10 DEF Observe, RecordStep, checkpoints
<1>11. CASE Leaves  BY <1>11 DEF Leaves, Finish, TrainerDies, StopChildren, Stopped, checkpoints
<1>12. CASE StopChildren /\ trainer = "down"  BY <1>12 DEF StopChildren, loop, checkpoints
<1>13. CASE Upload  BY <1>13 DEF Upload, loop, checkpoints
<1>14. CASE Beside  BY <1>14, BesideKeeps
<1>. QED
  BY <1>1, <1>2, <1>3, <1>4, <1>5, <1>6, <1>7, <1>8, <1>9, <1>10, <1>11, <1>12, <1>13, <1>14
     DEF Next, Start, TrainerStep, DirectoryStep, Leaves, Beside
-----------------------------------------------------------------------------
(* The recovery point can be restored.                                     *)
LEMMA RecoveryKept ==
  ASSUME Inv, Next
  PROVE  RecoveryPoint'
<1>. USE DEF Inv, RecoveryPoint
<1>1. CASE Start
  <2>1. PICK g \in Goals : Launch(g, marker) /\ trainer = "down" /\ run < MaxRuns /\ marker < g
    BY <1>1, StartFinds
  <2>. QED  BY <2>1 DEF Launch, checkpoints
<1>2. CASE DirectoryStep  BY <1>2, DirectoryKept
<1>3. CASE PublishMarker
  <2>1. ckpt[step].contents = "complete" /\ Len(ckpt[step].weights) = step
    BY <1>3 DEF PublishMarker, History, Saving, Training
  <2>. QED  BY <1>3, <2>1 DEF PublishMarker
<1>4. CASE \/ LoadCheckpoint \/ StartTracking \/ Update \/ Validate \/ Observe \/ LogUpdate
           \/ RecordStep \/ Leaves \/ StopChildren \/ Upload
  BY <1>4 DEF LoadCheckpoint, StartTracking, Update, Validate, Observe, LogUpdate, RecordStep,
            Leaves, Finish, TrainerDies, StopChildren, Upload, checkpoints
<1>5. CASE Beside  BY <1>5, BesideKeeps
<1>. QED
  BY <1>1, <1>2, <1>3, <1>4, <1>5
     DEF Next, Start, TrainerStep, DirectoryStep, Leaves, Beside
-----------------------------------------------------------------------------
(* The curve. Its points agree with a history, or reach no further.        *)
Points == cloud \cup pending
Once == \A p, q \in Points : p[1] = q[1] => p = q
Agrees(history) == \A p \in Points : p[1] <= Len(history) => history[p[1]] = p[2]
Within(history) == \A p \in Points : p[1] <= Len(history)

CurveParts ==
  /\ Once
  /\ marker # 0 => Agrees(ckpt[marker].weights)
  /\ Training => Within(weights) /\ Agrees(weights)

(* CurveFaithful, in these parts.                                          *)
LEMMA CurveSplit == CurveFaithful <=> CurveParts
BY DEF CurveFaithful, CurveParts, Points, Once, Agrees, Within, Training

LEMMA CurveSplitNext == CurveFaithful' <=> CurveParts'
BY DEF CurveFaithful, CurveParts, Points, Once, Agrees, Within, Training

LEMMA CurveKept ==
  ASSUME Inv, Next
  PROVE  CurveFaithful'
<1>. CurveParts  BY CurveSplit DEF Inv
<1>. /\ step \in Nat /\ restored \in Nat /\ marker \in Nat /\ run \in Nat
     /\ weights \in Seq(Runs) /\ (trainer # "down" => run \in Runs)
     /\ \A p \in Points : p[1] \in Nat \ {0} /\ p[2] \in Runs /\ p = <<p[1], p[2]>>
  BY Typed DEF TypeOK, Inv, Points
<1>. SUFFICES CurveParts'  BY CurveSplitNext
<1>. USE DEF Points
<1>1. ASSUME Points' \subseteq Points, UNCHANGED <<ckpt, marker>>,
          Training' => Training /\ UNCHANGED weights
     PROVE  CurveParts'
  BY <1>1 DEF CurveParts, Once, Agrees, Within
<1>2. CASE Start
  <2>1. PICK g \in Goals : Launch(g, marker)  BY <1>2, StartFinds
  <2>. QED  BY <1>1, <2>1 DEF Launch, Training, checkpoints, curve
<1>3. CASE LoadCheckpoint \/ Validate \/ Observe \/ RecordStep
  BY <1>3, <1>1
       DEF LoadCheckpoint, Validate, Observe, RecordStep, Training, loop, checkpoints, curve
<1>4. CASE StartTracking
  <2>1. CASE Stopped /\ UNCHANGED cloud
    BY <1>4, <1>1, <2>1 DEF StartTracking, Stopped, Training, checkpoints
  <2>2. CASE ~CurveAhead /\ UNCHANGED <<weights, pending, cloud>>
    <3>1. pending = {} /\ restored = marker /\ Len(weights) = marker
      BY <1>4 DEF StartTracking, Inv, Course, Training
    <3>2. \A p \in Points : p[1] <= marker  BY <2>2, <3>1 DEF CurveAhead
    <3>3. Agrees(weights)
      <4>. SUFFICES ASSUME NEW p \in Points  PROVE weights[p[1]] = p[2]  BY DEF Agrees
      <4>1. marker # 0 /\ p[1] \in 1..marker  BY <3>2
      <4>2. Len(ckpt[marker].weights) = marker  BY <4>1 DEF Inv, RecoveryPoint
      <4>3. ckpt[marker].weights[p[1]] = p[2]  BY <4>1, <4>2 DEF CurveParts, Agrees
      <4>4. weights[p[1]] = ckpt[marker].weights[p[1]]
        BY <1>4, <4>1 DEF StartTracking, Inv, History
      <4>. QED  BY <4>3, <4>4
    <3>. QED
      BY <1>4, <2>2, <3>1, <3>2, <3>3
           DEF StartTracking, CurveParts, Once, Agrees, Within, checkpoints
  <2>. QED  BY <1>4, <2>1, <2>2 DEF StartTracking
<1>5. CASE Update
  <2>1. /\ Len(weights') = Len(weights) + 1
        /\ \A i \in 1..Len(weights) : weights'[i] = weights[i]
    BY <1>5 DEF Update
  <2>2. UNCHANGED <<ckpt, marker, cloud, pending>> /\ Training
    BY <1>5 DEF Update, Training, checkpoints, curve
  <2>3. \A p \in Points : p[1] \in 1..Len(weights) /\ weights[p[1]] = p[2]
    BY <2>2 DEF CurveParts, Within, Agrees
  <2>. QED  BY <2>1, <2>2, <2>3 DEF CurveParts, Once, Agrees, Within
<1>6. CASE DirectoryStep
  <2>1. UNCHANGED <<weights, marker, pending,
       cloud>> /\ (marker # 0 => ckpt'[marker] = ckpt[marker])
    BY <1>6, DirectoryKept
  <2>2. Training
    BY <1>6 DEF DirectoryStep, BeginSave, RegisterSave, SaveDataloader, WriteReceipt, Prune,
         Training
  <2>. QED  BY <2>1, <2>2 DEF CurveParts, Once, Agrees, Within
<1>7. CASE PublishMarker
  <2>1. ckpt[step].weights = weights /\ Training
    BY <1>7 DEF PublishMarker, Inv, History, Saving, Training
  <2>. QED  BY <1>7, <2>1 DEF PublishMarker, loop, curve, CurveParts, Once, Agrees, Within
<1>8. CASE LogUpdate
  <2>1. Training /\ Len(weights) = step /\ weights[step] = run
    BY <1>8 DEF LogUpdate, Inv, History, Training
  <2>2. /\ UNCHANGED <<weights, ckpt, marker>>
        /\ \A p \in Points' : p \in Points \/ p = <<step, run>>
    BY <1>8 DEF LogUpdate, loop, checkpoints
  <2>3. \A p \in Points : p[1] <= Len(weights) /\ weights[p[1]] = p[2]
    BY <2>1 DEF CurveParts, Within, Agrees
  <2>4. \A p \in Points' : p = <<p[1], p[2]>> /\ p[1] <= step /\ weights[p[1]] = p[2]
    BY <2>1, <2>2, <2>3
  <2>5. Once'  BY <2>4 DEF Once
  <2>6. Within(weights)' /\ Agrees(weights)'  BY <2>1, <2>2, <2>4 DEF Within, Agrees
  <2>7. ASSUME marker # 0  PROVE Agrees(ckpt[marker].weights)'
    <3>1. Len(ckpt[marker].weights) = marker  BY <2>7 DEF Inv, RecoveryPoint
    <3>2. \A i \in 1..marker : weights[i] = ckpt[marker].weights[i]
      BY <2>1 DEF Inv, History
    <3>3. \A p \in Points' : p[1] \in Nat \ {0}
      <4>1. step # 0  BY <2>1, Typed
      <4>. QED  BY <2>2, <4>1
    <3>. QED  BY <2>2, <2>4, <3>1, <3>2, <3>3 DEF Agrees
  <2>. QED  BY <2>2, <2>5, <2>6, <2>7 DEF CurveParts
<1>9. CASE Leaves
  BY <1>9, <1>1 DEF Leaves, Finish, TrainerDies, StopChildren, Stopped, Training, checkpoints
<1>10. CASE StopChildren /\ trainer = "down"
  BY <1>10, <1>1 DEF StopChildren, loop, Training, checkpoints
<1>11. CASE Upload
  BY <1>11, <1>1 DEF Upload, loop, Training, checkpoints
<1>12. CASE Beside  BY <1>12, <1>1, BesideKeeps DEF Training
<1>. QED
  BY <1>1, <1>2, <1>3, <1>4, <1>5, <1>6, <1>7, <1>8, <1>9, <1>10, <1>11, <1>12
     DEF Next, Start, TrainerStep, DirectoryStep, Leaves, Beside
-----------------------------------------------------------------------------
(* The invariant holds initially, and stuttering keeps it.                 *)
LEMMA InitInv ==
  ASSUME Init
  PROVE  Inv
<1>. USE ContinuityAssumption DEF Init
<1>1. TypeOK
  <2>1. [b \in Boundaries |-> NoCheckpoint] \in Checkpoints
    BY ShortSequences DEF NoCheckpoint, Contents, Checkpoints
  <2>2. run \in 0..MaxRuns /\ step \in 0..goal /\ restored \in 0..goal /\ stopBy \in Nat
    OBVIOUS
  <2>3. weights \in Seq(Runs) /\ saved \in Seq(Boundaries)  BY ShortSequences
  <2>4. budget \in [requested: BOOLEAN, target: Boundaries \cup {0}]  OBVIOUS
  <2>5. ckpt \in Checkpoints  BY <2>1
  <2>6. pending \subseteq Steps \X Runs /\ cloud \subseteq Steps \X Runs  OBVIOUS
  <2>. QED  BY <2>2, <2>3, <2>4, <2>5, <2>6 DEF TypeOK, Checkpoints, Places
<1>2. Course /\ Marked /\ History /\ Rotation
  BY DEF Course, Marked, History, Rotation, Training, Saving
<1>3. RecoveryPoint /\ CurveFaithful  BY DEF RecoveryPoint, CurveFaithful
<1>. QED  BY <1>1, <1>2, <1>3 DEF Inv

LEMMA StutterKeeps ==
  ASSUME Inv, UNCHANGED vars
  PROVE  Inv'
BY DEF Inv, TypeOK, Course, Marked, History, Rotation, RecoveryPoint, CurveFaithful, Training,
       Saving, vars, loop, checkpoints, curve, control, request

(* The strengthening the other theorems rest on.                           *)
THEOREM Invariant == Spec => []Inv
<1>1. Init => Inv  BY InitInv
<1>2. Inv /\ [Next]_vars => Inv'
  BY TypeKept, CourseKept, MarkedKept, HistoryKept, RotationKept, RecoveryKept, CurveKept,
     StutterKeeps DEF Inv
<1>. QED  BY <1>1, <1>2, PTL DEF Spec

(* Every variable of the trainer, the result directory, the curve and the  *)
(* controller keeps its range.                                             *)
THEOREM TypeCorrect == Spec => []TypeOK
<1>1. Inv => TypeOK  BY DEF Inv
<1>. QED  BY <1>1, Invariant, PTL

(* Whatever is killed between two writes of a save, its rotation, its      *)
(* receipt, the marker or the pruning, the marked checkpoint can be        *)
(* restored and holds the updates of its step.                             *)
THEOREM AlwaysRecoverable == Spec => []RecoveryPoint
<1>1. Inv => RecoveryPoint  BY DEF Inv
<1>. QED  BY <1>1, Invariant, PTL

(* The curve never shows a step twice, and contradicts neither the live    *)
(* model nor the recovery point, over any kills and resumes.               *)
THEOREM CurveNeverMixed == Spec => []CurveFaithful
<1>1. Inv => CurveFaithful  BY DEF Inv
<1>. QED  BY <1>1, Invariant, PTL
-----------------------------------------------------------------------------
(* Completion.                                                             *)

(* What verify_completion finds is what CompletionHonest states: every     *)
(* step is on the server, and by CurveFaithful as the recovery point says. *)
LEMMA VerifiedCurve ==
  ASSUME Inv, Verified
  PROVE  /\ ckpt[marker].contents = "complete"
         /\ {b \in Boundaries : b <= marker} \subseteq validated
         /\ cloud = {<<s, ckpt[marker].weights[s]>> : s \in 1..marker}
<1>1. marker \in Boundaries /\ marker # 0 /\ ckpt[marker].contents = "complete"
  BY BoundariesPositive DEF Verified, Valid
<1>2. Len(ckpt[marker].weights) = marker  BY <1>1 DEF Inv, RecoveryPoint
<1>3. ASSUME NEW p \in cloud
      PROVE  p[1] \in 1..marker /\ p = <<p[1], ckpt[marker].weights[p[1]]>>
  <2>1. p[1] \in 1..marker  BY DEF Verified, Reported
  <2>2. CurveParts  BY CurveSplit DEF Inv
  <2>3. p \in Points  BY DEF Points
  <2>4. ckpt[marker].weights[p[1]] = p[2]
    BY <1>1, <1>2, <2>1, <2>2, <2>3 DEF CurveParts, Agrees
  <2>5. p = <<p[1], p[2]>>  BY Typed
  <2>. QED  BY <2>1, <2>4, <2>5
<1>4. ASSUME NEW s \in 1..marker  PROVE <<s, ckpt[marker].weights[s]>> \in cloud
  <2>1. PICK p \in cloud : p[1] = s  BY DEF Verified, Reported
  <2>. QED  BY <1>3, <2>1
<1>. QED  BY <1>1, <1>3, <1>4 DEF Verified

(* Nothing changes a directory whose run is called paused or completed.    *)
LEMMA CompletionKept ==
  ASSUME Inv, CompletionHonest, Next
  PROVE  CompletionHonest'
<1>1. CASE Start
  <2>1. PICK g \in Goals : Launch(g, marker)  BY <1>1, StartFinds
  <2>. QED  BY <2>1 DEF Launch, CompletionHonest
<1>2. CASE Conclude
  <2>1. CASE rc = "ok" /\ Verified
    BY <1>2, <2>1, VerifiedCurve DEF Conclude, CompletionHonest, checkpoints, curve
  <2>2. CASE ~(rc = "ok" /\ Verified)  BY <1>2, <2>2 DEF Conclude, CompletionHonest
  <2>. QED  BY <2>1, <2>2
<1>3. CASE Abort  BY <1>3 DEF Abort, CompletionHonest
<1>4. CASE StopChildren \/ ControllerDies \/ RequestStop \/ ArchiveStop
  BY <1>4 DEF StopChildren, ControllerDies, RequestStop, ArchiveStop, CompletionHonest,
              checkpoints, curve, control, Stopped
<1>5. CASE TrainerStep \/ Upload \/ TrainerDies
  <2>1. trainer # "down"
    <3>1. Upload => pending # {}  BY DEF Upload
    <3>. QED
      BY <1>5, <3>1
           DEF Inv, Course, Training, TrainerDies, TrainerStep, LoadCheckpoint, StartTracking,
           Update, BeginSave, RegisterSave, SaveDataloader, WriteReceipt, PublishMarker, Prune,
           Validate, Observe, LogUpdate, RecordStep, Finish
  <2>2. UNCHANGED status
    BY <1>5 DEF TrainerDies, Upload, TrainerStep, LoadCheckpoint, StartTracking, Update,
         BeginSave, RegisterSave, SaveDataloader, WriteReceipt, PublishMarker, Prune, Validate,
         Observe, LogUpdate, RecordStep, Finish, control
  <2>. QED  BY <2>1, <2>2 DEF CompletionHonest
<1>. QED  BY <1>1, <1>2, <1>3, <1>4, <1>5 DEF Next, Start

(* A run is called paused or completed only when its last boundary can be  *)
(* restored and was evaluated, and the curve is exactly its updates.       *)
THEOREM CompletionIsHonest == Spec => []CompletionHonest
<1>1. Init => CompletionHonest  BY DEF Init, CompletionHonest
<1>2. Inv /\ CompletionHonest /\ [Next]_vars => CompletionHonest'
  <2>1. CASE UNCHANGED vars
    BY <2>1 DEF CompletionHonest, vars, checkpoints, curve, control
  <2>. QED  BY <2>1, CompletionKept
<1>. QED  BY <1>1, <1>2, Invariant, PTL DEF Spec
-----------------------------------------------------------------------------
(* The refinement of RunLine.                                              *)

LineNow == IF trainer \in {"down", "loading"} THEN Durable ELSE weights
lineVars == <<LineNow, Durable, cloud>>

(* What the client still holds reports updates of the line.                *)
LEMMA PendingOfLine ==
  ASSUME Inv, Training
  PROVE  \A p \in pending : p \in Line!PointsOf(weights)
<1>. TAKE p \in pending
<1>1. p \in Points  BY DEF Points
<1>2. CurveParts  BY CurveSplit DEF Inv
<1>3. p[1] <= Len(weights) /\ weights[p[1]] = p[2]
  BY <1>1, <1>2 DEF CurveParts, Within, Agrees
<1>4. p[1] \in Nat \ {0} /\ p = <<p[1], p[2]>>  BY Typed
<1>5. p[1] \in 1..Len(weights)  BY <1>3, <1>4 DEF Inv, TypeOK
<1>. QED  BY <1>3, <1>4, <1>5 DEF Line!PointsOf

(* Every step extends the line, keeps it, publishes it, falls back on what *)
(* was kept, or does none of it.                                           *)
LEMMA StepOfLine ==
  ASSUME Inv, Next
  PROVE  Line!Next \/ UNCHANGED lineVars
<1>. USE DEF Durable, LineNow, lineVars
<1>. CurveParts  BY CurveSplit DEF Inv
<1>. /\ marker \in Nat /\ step \in Nat /\ weights \in Seq(Runs)
     /\ marker # 0 => ckpt[marker].weights \in Seq(Runs) /\ Len(ckpt[marker].weights) = marker
  BY Typed DEF Inv, TypeOK, RecoveryPoint
<1>1. CASE Start
  <2>1. PICK g \in Goals : Launch(g, marker) /\ trainer = "down"  BY <1>1, StartFinds
  <2>. QED  BY <2>1 DEF Launch, checkpoints, curve
<1>2. CASE LoadCheckpoint
  <2>1. restored = marker  BY <1>2 DEF LoadCheckpoint, Inv, Course
  <2>. QED  BY <1>2, <2>1 DEF LoadCheckpoint, checkpoints, curve
<1>3. CASE StartTracking
  <2>1. UNCHANGED <<Durable, cloud>>  BY <1>3 DEF StartTracking, checkpoints
  <2>2. LineNow = weights /\ (LineNow' = weights \/ LineNow' = Durable)
    BY <1>3, <2>1 DEF StartTracking, Stopped
  <2>. QED  BY <2>1, <2>2 DEF Line!Next, Line!FallBack
<1>4. CASE Update
  <2>1. run \in Runs /\ Training  BY <1>4, Typed DEF Update, Training
  <2>2. \A p \in cloud : p[1] <= Len(weights)
    BY <2>1 DEF CurveParts, Within, Points
  <2>3. LineNow = weights /\ LineNow' = Append(weights, run) /\ UNCHANGED <<Durable, cloud>>
    BY <1>4 DEF Update, checkpoints, curve
  <2>. QED  BY <2>1, <2>2, <2>3 DEF Line!Next, Line!Extend
<1>5. CASE DirectoryStep
  <2>1. UNCHANGED <<Durable, cloud, weights>>  BY <1>5, DirectoryKept
  <2>2. trainer \notin {"down", "loading"} /\ trainer' \notin {"down", "loading"}
    BY <1>5 DEF DirectoryStep, BeginSave, RegisterSave, SaveDataloader, WriteReceipt, Prune
  <2>. QED  BY <2>1, <2>2
<1>6. CASE PublishMarker
  <2>1. marker < step /\ ckpt[step].weights = weights
    BY <1>6 DEF PublishMarker, Inv, Marked, History, Saving
  <2>2. LineNow = weights /\ LineNow' = weights /\ Durable' = weights /\ UNCHANGED cloud
    BY <1>6, <2>1 DEF PublishMarker, loop, curve
  <2>. QED  BY <2>2 DEF Line!Next, Line!Keep
<1>7. CASE Validate \/ Observe \/ LogUpdate \/ RecordStep
  BY <1>7 DEF Validate, Observe, LogUpdate, RecordStep, loop, checkpoints, curve
<1>8. CASE Finish
  <2>1. marker = step /\ step # 0 /\ Training /\ Len(weights) = step
    BY <1>8, Typed DEF Finish, Inv, Marked, History, Training
  <2>2. weights = ckpt[marker].weights
    <3>1. \A i \in 1..marker : weights[i] = ckpt[marker].weights[i]
      BY <2>1 DEF Inv, History
    <3>. QED  BY <2>1, <3>1, SeqEqual
  <2>3. LineNow = weights /\ UNCHANGED <<LineNow, Durable>> /\ cloud' = cloud \cup pending
    BY <1>8, <2>1, <2>2 DEF Finish, Stopped, checkpoints
  <2>4. \A p \in pending : p \in Line!PointsOf(weights)  BY <2>1, PendingOfLine
  <2>. QED  BY <2>3, <2>4 DEF Line!Next, Line!Publish
<1>9. CASE TrainerDies \/ (StopChildren /\ trainer # "down")
  <2>1. UNCHANGED <<Durable, cloud>> /\ LineNow' = Durable
    BY <1>9 DEF TrainerDies, StopChildren, Stopped, checkpoints
  <2>. QED  BY <2>1 DEF Line!Next, Line!FallBack
<1>10. CASE Upload
  <2>1. pending # {} /\ UNCHANGED <<LineNow, Durable>>  BY <1>10 DEF Upload, loop, checkpoints
  <2>2. Training  BY <2>1 DEF Inv, Course
  <2>3. LineNow = weights  BY <2>2 DEF Training
  <2>4. \A p \in pending : p \in Line!PointsOf(weights)  BY <2>2, PendingOfLine
  <2>5. cloud \subseteq cloud' /\ cloud' \subseteq cloud \cup pending  BY <1>10 DEF Upload
  <2>. QED  BY <2>1, <2>3, <2>4, <2>5 DEF Line!Next, Line!Publish
<1>11. CASE StopChildren /\ trainer = "down"
  BY <1>11 DEF StopChildren, loop, checkpoints
<1>12. CASE Beside  BY <1>12, BesideKeeps
<1>. QED
  BY <1>1, <1>2, <1>3, <1>4, <1>5, <1>6, <1>7, <1>8, <1>9, <1>10, <1>11, <1>12
     DEF Next, Start, TrainerStep, DirectoryStep, Beside

(* The result directory keeps RunLine's promise: its updates form one line,*)
(* lost only back to the recovery point, never repeated once shown.        *)
THEOREM DirectoryImplementsLine == Spec => ImplementsLine
<1>1. Init => Line!Init
  BY DEF Init, Line!Init, Durable
<1>2. Inv /\ [Next]_vars => [Line!Next]_lineVars
  <2>1. CASE UNCHANGED vars
    BY <2>1 DEF vars, loop, checkpoints, curve, lineVars, LineNow, Durable
  <2>. QED  BY <2>1, StepOfLine
<1>3. [][Line!Next]_lineVars <=> [][Line!Next]_<<LineNow, Durable, cloud>>  BY DEF lineVars
<1>. QED  BY <1>1, <1>2, Invariant, PTL DEF Spec, ImplementsLine, Line!Spec, lineVars, LineNow
-----------------------------------------------------------------------------
(* The stop request.                                                       *)

(* A request that was observed has set a target in time, one that was not  *)
(* still can; a recovery point at the current step has been evaluated.     *)
Halting ==
  /\ stop => stopBy % Interval = 0
  /\ ~Training => ~requested
  /\ requested => stop /\ target # 0 /\ target <= stopBy
  /\ stop /\ ~requested =>
       /\ trainer \in {"loading", "tracking"} => restored + 1 <= stopBy
       /\ Training => step <= stopBy
       /\ trainer \in {"logging", "logged", "finishing"} => step + 1 <= stopBy
  /\ trainer \in {"logging", "logged", "finishing"} =>
       budget = [requested |-> requested, target |-> target]
  /\ trainer \in {"observing", "logging", "logged", "finishing"} /\ marker = step =>
       step \in validated

(* What the controller reads after a clean exit is that target.            *)
Concluding ==
  /\ rc = "ok" => trainer = "down"
  /\ rc = "ok" /\ controller = "waiting" /\ budget.requested =>
       stop /\ budget.target <= stopBy
  /\ status = "paused" /\ controller = "stopping" => stop /\ marker <= stopBy

(* The strengthening says more than the property.                          *)
LEMMA HaltingPauses ==
  ASSUME Inv, Halting, Concluding
  PROVE  PauseAtNextBoundary
<1>. /\ step \in Nat /\ marker \in Nat /\ restored \in Nat /\ target \in Nat /\ stopBy \in Nat
  BY Typed, BoundariesPositive DEF Inv, TypeOK
<1>1. ASSUME stop, trainer # "down"  PROVE step <= stopBy
  <2>1. CASE Training  BY <1>1, <2>1 DEF Inv, Course, Halting
  <2>2. CASE ~Training  BY <1>1, <2>2, Typed DEF Inv, Course, Halting, Training, TypeOK
  <2>. QED  BY <2>1, <2>2
<1>2. trainer = "finishing" => marker = step /\ step \in validated
  BY DEF Inv, Marked, Halting
<1>. QED  BY <1>1, <1>2 DEF PauseAtNextBoundary, Concluding

(* The trainer's part is kept.                                             *)
LEMMA HaltingKept ==
  ASSUME Inv, Halting, Next
  PROVE  Halting'
<1>. USE DEF Halting, Training
<1>. /\ step \in Nat /\ marker \in Nat /\ restored \in Nat /\ target \in Nat /\ stopBy \in Nat
  BY Typed, BoundariesPositive DEF Inv, TypeOK
<1>1. CASE Start
  <2>1. PICK g \in Goals : Launch(g, marker) /\ trainer = "down" /\ ~stop
    BY <1>1, StartFinds
  <2>. QED  BY <2>1 DEF Launch, request
<1>2. CASE LoadCheckpoint  BY <1>2 DEF LoadCheckpoint, control, request
<1>3. CASE StartTracking  BY <1>3 DEF StartTracking, Stopped, control, request, Inv, Course
<1>4. CASE Update
  <2>1. trainer' = "observing" => marker < step  BY <1>4 DEF Update, Inv, Marked
  <2>. QED  BY <1>4, <2>1 DEF Update, control, request, checkpoints
<1>5. CASE BeginSave \/ RegisterSave  BY <1>5 DEF BeginSave, RegisterSave, control, request
<1>6. CASE SaveDataloader \/ WriteReceipt
  BY <1>6 DEF SaveDataloader, WriteReceipt, loop, control, request
<1>7. CASE PublishMarker \/ Prune  BY <1>7 DEF PublishMarker, Prune, loop, control, request
<1>8. CASE Validate  BY <1>8 DEF Validate, loop, control, request
<1>9. CASE Observe
  <2>1. step \in Nat \ {0}  BY <1>9, Typed DEF Observe
  <2>2. /\ Boundary(step) \in Nat /\ step <= Boundary(step)
        /\ stopBy % Interval = 0 /\ step <= stopBy => Boundary(step) <= stopBy
    BY <2>1, BoundaryLeast
  <2>3. CASE stop /\ ~requested
    <3>1. Boundary(step) <= stopBy  BY <1>9, <2>2, <2>3 DEF Observe
    <3>2. StopTarget # 0 /\ StopTarget <= stopBy  BY <2>1, <2>2, <3>1 DEF StopTarget
    <3>3. requested' = TRUE /\ target' = StopTarget  BY <1>9, <2>3, <3>2 DEF Observe
    <3>. QED  BY <1>9, <2>3, <3>2, <3>3 DEF Observe, request, checkpoints
  <2>4. CASE requested
    <3>1. requested' = TRUE /\ target' = target  BY <1>9, <2>4 DEF Observe
    <3>. QED  BY <1>9, <2>4, <3>1 DEF Observe, request, checkpoints
  <2>5. CASE ~stop /\ ~requested
    <3>1. requested' = FALSE  BY <1>9, <2>5 DEF Observe
    <3>. QED  BY <1>9, <2>5, <3>1 DEF Observe, request, checkpoints
  <2>. QED  BY <2>3, <2>4, <2>5
<1>10. CASE LogUpdate  BY <1>10 DEF LogUpdate, loop, checkpoints, request
<1>11. CASE RecordStep
  <2>1. trainer' = "finishing" => UNCHANGED step  BY <1>11 DEF RecordStep
  <2>2. trainer' = "updating" => step' = step + 1 /\ (target # 0 => step < target)
    BY <1>11 DEF RecordStep
  <2>. QED  BY <1>11, <2>1, <2>2 DEF RecordStep, checkpoints, request
<1>12. CASE Leaves  BY <1>12 DEF Leaves, Finish, TrainerDies, StopChildren, Stopped, request
<1>13. CASE StopChildren /\ trainer = "down"
  BY <1>13 DEF StopChildren, loop, checkpoints, request
<1>14. CASE Upload  BY <1>14 DEF Upload, loop, checkpoints, request
<1>15. CASE Conclude \/ Abort \/ ControllerDies
  BY <1>15 DEF Conclude, Abort, ControllerDies, loop, checkpoints, request
<1>16. CASE RequestStop
  <2>1. \A t \in Nat : t <= Boundary(t) /\ Boundary(t) % Interval = 0 /\ Boundary(t) \in Nat
    BY BoundaryLeast
  <2>2. UNCHANGED <<loop, trainer, checkpoints, validated, budget>> /\ ~stop /\ stop'
    BY <1>16 DEF RequestStop
  <2>3. CASE trainer \in {"logging", "logged", "finishing"}
    <3>1. stopBy' = Boundary(step + 1)  BY <1>16, <2>3 DEF RequestStop
    <3>. QED  BY <2>1, <2>2, <2>3, <3>1 DEF loop, checkpoints
  <2>4. CASE ~Training
    <3>1. stopBy' = Boundary(restored + 1)  BY <1>16, <2>4 DEF RequestStop
    <3>. QED  BY <2>1, <2>2, <2>4, <3>1 DEF loop, checkpoints
  <2>5. CASE Training /\ trainer \notin {"logging", "logged", "finishing"}
    <3>1. stopBy' = Boundary(step)  BY <1>16, <2>5 DEF RequestStop
    <3>. QED  BY <2>1, <2>2, <2>5, <3>1 DEF loop, checkpoints
  <2>. QED  BY <2>3, <2>4, <2>5
<1>17. CASE ArchiveStop  BY <1>17 DEF ArchiveStop, loop, checkpoints
<1>. QED
  BY <1>1, <1>2, <1>3, <1>4, <1>5, <1>6, <1>7, <1>8, <1>9, <1>10, <1>11, <1>12, <1>13, <1>14,
       <1>15, <1>16, <1>17
     DEF Next, Start, TrainerStep, Leaves

(* So is the controller's.                                                 *)
LEMMA ConcludingKept ==
  ASSUME Inv, CompletionHonest, Halting, Concluding, Next
  PROVE  Concluding'
<1>. USE DEF Concluding
<1>1. CASE Start
  <2>1. PICK g \in Goals : Launch(g, marker)  BY <1>1, StartFinds
  <2>. QED  BY <2>1 DEF Launch
<1>2. CASE TrainerStep \/ Upload \/ TrainerDies
  <2>1. trainer # "down"
    <3>1. Upload => pending # {}  BY DEF Upload
    <3>. QED
      BY <1>2, <3>1 DEF Inv, Course, Training, TrainerDies, TrainerStep, LoadCheckpoint,
           StartTracking, Update, BeginSave, RegisterSave, SaveDataloader, WriteReceipt,
           PublishMarker, Prune, Validate, Observe, LogUpdate, RecordStep, Finish
  <2>2. rc # "ok" /\ status # "paused"  BY <2>1 DEF CompletionHonest
  <2>3. UNCHANGED <<controller, status, stop, stopBy>>
    BY <1>2 DEF TrainerDies, Upload, TrainerStep, LoadCheckpoint, StartTracking, Update,
         BeginSave, RegisterSave, SaveDataloader, WriteReceipt, PublishMarker, Prune, Validate,
         Observe, LogUpdate, RecordStep, Finish, control, request
  <2>4. CASE Finish
    <3>1. UNCHANGED budget /\ trainer' = "down"  BY <2>4 DEF Finish, Stopped
    <3>2. budget.requested => stop /\ budget.target <= stopBy
      BY <2>4 DEF Finish, Halting
    <3>. QED  BY <2>2, <2>3, <3>1, <3>2
  <2>5. CASE ~Finish
    <3>1. rc' # "ok"
      BY <1>2, <2>2, <2>5 DEF TrainerDies, Upload, TrainerStep, LoadCheckpoint, StartTracking,
           Update, BeginSave, RegisterSave, SaveDataloader, WriteReceipt, PublishMarker, Prune,
           Validate, Observe, LogUpdate, RecordStep
    <3>. QED  BY <2>2, <2>3, <3>1
  <2>. QED  BY <2>4, <2>5
<1>3. CASE Conclude
  <2>1. status' = "paused" => rc = "ok" /\ budget.requested /\ marker = budget.target
    BY <1>3 DEF Conclude, Verified
  <2>. QED  BY <1>3, <2>1 DEF Conclude, checkpoints, request
<1>4. CASE Abort \/ ControllerDies
  BY <1>4 DEF Abort, ControllerDies, checkpoints, request
<1>5. CASE StopChildren  BY <1>5 DEF StopChildren, Stopped, checkpoints, request
<1>6. CASE RequestStop
  BY <1>6 DEF RequestStop, checkpoints, control
<1>7. CASE ArchiveStop  BY <1>7 DEF ArchiveStop, checkpoints, control
<1>. QED  BY <1>1, <1>2, <1>3, <1>4, <1>5, <1>6, <1>7 DEF Next, Start

(* A stop request ends the run at the first boundary it can still reach,   *)
(* for every interval: the trainer never steps past it, and the controller *)
(* never records a later one as the pause.                                 *)
THEOREM PausesInTime == Spec => []PauseAtNextBoundary
<1>1. Init => Halting /\ Concluding  BY DEF Init, Halting, Concluding, Training
<1>2. Inv /\ CompletionHonest /\ Halting /\ Concluding /\ [Next]_vars => (Halting
     /\ Concluding)'
  <2>1. CASE UNCHANGED vars
    BY <2>1 DEF Halting, Concluding, Training, vars, loop, checkpoints, control, request
  <2>. QED  BY <2>1, HaltingKept, ConcludingKept
<1>3. Inv /\ Halting /\ Concluding => PauseAtNextBoundary  BY HaltingPauses
<1>. QED  BY <1>1, <1>2, <1>3, Invariant, CompletionIsHonest, PTL DEF Spec
-----------------------------------------------------------------------------
(* What a crash can lose of the record.                                    *)

(* A step's row is written, or the step is a boundary: the trainer that    *)
(* saved it may have died before its evaluation or its row.                *)
Recorded(s) == s \in rows \/ s \in Boundaries

(* RestoredRecorded does not hold. What does: the steps before the live    *)
(* one, and those of the recovery point, miss a row only at a boundary,    *)
(* and no boundary has a row without its evaluation.                       *)
GapsOnlyAtBoundaries ==
  /\ rows \cap Boundaries \subseteq validated
  /\ Training => \A s \in 1..step - 1 : Recorded(s)
  /\ \A s \in 1..marker : Recorded(s)

(* The live step's own row comes after its evaluation and before the state *)
(* file that lets the next step begin.                                     *)
Recording ==
  /\ GapsOnlyAtBoundaries
  /\ trainer \in {"logged", "finishing"} => step \in rows
  /\ trainer \in {"observing", "logging"} /\ step \in Boundaries => step \in validated

(* Most steps do not touch the record; those that move the trainer on to   *)
(* the places Recording speaks of have left what it asks for.              *)
LEMMA RecordingKept ==
  ASSUME Inv, Recording, Next
  PROVE  Recording'
<1>. USE DEF Recording, GapsOnlyAtBoundaries, Recorded, Training
<1>. step \in Nat /\ marker \in Nat /\ restored \in Nat /\ (Training => step \in Steps)
  BY Typed
<1>1. CASE Start
  <2>1. PICK g \in Goals : Launch(g, marker) /\ trainer = "down"  BY <1>1, StartFinds
  <2>. QED  BY <2>1 DEF Launch, checkpoints, curve
<1>2. CASE LoadCheckpoint
  BY <1>2 DEF LoadCheckpoint, checkpoints, curve
<1>3. CASE StartTracking
  <2>1. step = marker /\ restored = marker  BY <1>3 DEF StartTracking, Inv, Course
  <2>2. UNCHANGED <<rows, validated, marker>>  BY <1>3 DEF StartTracking, checkpoints
  <2>3. trainer' = "down" \/ (trainer' = "updating" /\ step' = marker + 1)
    BY <1>3, <2>1 DEF StartTracking, Stopped
  <2>. QED  BY <2>1, <2>2, <2>3
<1>4. CASE Update
  <2>1. UNCHANGED <<rows, validated, marker, step>> /\ trainer = "updating"
    BY <1>4 DEF Update, checkpoints, curve
  <2>2. trainer' = "observing" => step % Interval # 0  BY <1>4 DEF Update, AtBoundary
  <2>3. trainer' \in {"observing", "saving"}  BY <1>4 DEF Update
  <2>. QED  BY <2>1, <2>2, <2>3, BoundariesPositive
<1>5. CASE BeginSave \/ RegisterSave
  BY <1>5 DEF BeginSave, RegisterSave, checkpoints, curve
<1>6. CASE SaveDataloader \/ WriteReceipt
  BY <1>6 DEF SaveDataloader, WriteReceipt, loop, curve
<1>7. CASE PublishMarker
  <2>1. step \in Boundaries  BY <1>7 DEF PublishMarker, Inv, Course, Saving
  <2>2. marker' = step /\ trainer' = "pruning" /\ UNCHANGED <<step, rows, validated>>
    BY <1>7 DEF PublishMarker, loop, curve
  <2>3. \A s \in 1..step : s \in 1..step - 1 \/ s = step  OBVIOUS
  <2>. QED  BY <1>7, <2>1, <2>2, <2>3 DEF PublishMarker
<1>8. CASE Prune  BY <1>8 DEF Prune, loop, curve
<1>9. CASE Validate  BY <1>9 DEF Validate, loop, checkpoints, curve
<1>10. CASE Observe  BY <1>10 DEF Observe, checkpoints, curve
<1>11. CASE LogUpdate
  <2>1. rows' = rows \cup {step} /\ trainer' = "logged" /\ UNCHANGED <<step, validated, marker>>
    BY <1>11 DEF LogUpdate, loop, checkpoints
  <2>. QED  BY <1>11, <2>1 DEF LogUpdate
<1>12. CASE RecordStep
  <2>1. UNCHANGED <<rows, validated, marker>> /\ step \in rows
    BY <1>12 DEF RecordStep, checkpoints
  <2>2. \/ trainer' = "finishing" /\ step' = step
        \/ trainer' = "updating" /\ step' = step + 1
    BY <1>12 DEF RecordStep
  <2>3. \A s \in 1..(step + 1) - 1 : s \in 1..step - 1 \/ s = step  OBVIOUS
  <2>. QED  BY <1>12, <2>1, <2>2, <2>3 DEF RecordStep
<1>13. CASE Leaves \/ StopChildren
  BY <1>13 DEF Leaves, Finish, TrainerDies, StopChildren, Stopped, loop, checkpoints
<1>14. CASE Upload  BY <1>14 DEF Upload, loop, checkpoints
<1>15. CASE Beside  BY <1>15, BesideKeeps
<1>. QED
  BY <1>1, <1>2, <1>3, <1>4, <1>5, <1>6, <1>7, <1>8, <1>9, <1>10, <1>11, <1>12, <1>13, <1>14,
       <1>15
     DEF Next, Start, TrainerStep, Leaves, Beside

(* However often a run is killed and resumed, the only steps its record    *)
(* can miss are boundaries, the steps whose evaluation and row follow the  *)
(* published checkpoint; a gap never opens inside an interval.             *)
THEOREM CrashesOnlyCostBoundaries == Spec => []GapsOnlyAtBoundaries
<1>1. Init => Recording
  BY DEF Init, Recording, GapsOnlyAtBoundaries, Training
<1>2. Inv /\ Recording /\ [Next]_vars => Recording'
  <2>1. CASE UNCHANGED vars
    BY <2>1 DEF Recording, GapsOnlyAtBoundaries, Recorded, Training, vars, loop, checkpoints,
         curve
  <2>. QED  BY <2>1, RecordingKept
<1>3. Recording => GapsOnlyAtBoundaries  BY DEF Recording
<1>. QED  BY <1>1, <1>2, <1>3, Invariant, PTL DEF Spec
=============================================================================
