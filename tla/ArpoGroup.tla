----------------------------- MODULE ArpoGroup -----------------------------
(***************************************************************************)
(* ARPO group scheduling: tau3_grpo/integrations/verl/arpo_rollout.py.     *)
(* generate_groups runs one task per group on a worker; inside a group,    *)
(* GroupRollout.run drives its trajectories one after the other, forking   *)
(* a trajectory between two completed transitions.  The trajectory itself  *)
(* is the ToolAgentLoop reduced to the transitions the controller sees.    *)
(*                                                                         *)
(* A response is a sequence of stamps, one per appended segment, each with *)
(* the leaf that produced it: two leaves share a prefix iff their stamps   *)
(* agree.  A request id is the pair of a group and a leaf.                 *)
(***************************************************************************)
EXTENDS Integers, Sequences

CONSTANTS
  Groups,           (* the UID groups placed on this worker                *)
  Size,             (* rollout.n: leaves of a group                        *)
  InitialRollouts,  (* ARPOConfig.initial_rollouts: roots queued at first  *)
  MaxTurns,         (* multi_turn.max_assistant_turns                      *)
  LogprobCases      (* bound: may a generation lack log-probabilities      *)

(* GroupRollout.__init__, validate_training_config                         *)
ASSUME GroupAssumption ==
  /\ Size \in Nat /\ Size >= 2
  /\ InitialRollouts \in 1..Size
  /\ MaxTurns \in Nat \ {0}
  /\ LogprobCases \subseteq BOOLEAN

VARIABLES
  pending,    (* of each group: deque of (slot, resume, parent)            *)
  allocated,  (* of each group: leaves handed out so far                   *)
  current,    (* of each group: the trajectory in run_one, or Idle         *)
  outputs,    (* of each group and leaf: its AgentLoopOutput, or Missing   *)
  nodes,      (* of each group and leaf: its arpo_node, or Missing         *)
  active,     (* of each group: active_ids                                 *)
  status,     (* of each group's task                                      *)
  sessions,   (* SESSIONS: the registered request ids                      *)
  worker      (* generate_groups                                           *)

vars == <<pending, allocated, current, outputs, nodes, active, status,
          sessions, worker>>

Slots == 0..Size - 1
Root == -1
Missing == [kind |-> "missing"]
Idle == [phase |-> "idle"]
NoStamp == <<Root, 0>>

(* AgentData as a fork copies it.                                          *)
Fresh(s) == [root |-> s, response |-> <<>>, turns |-> 0, initial |-> NoStamp,
             complete |-> TRUE]
Queue(s, parent, data) == [slot |-> s, parent |-> parent, data |-> data]
Stamp(run) == <<run.slot, Len(run.data.response) + 1>>
Least(a, b) == IF a <= b THEN a ELSE b
Agree(a, b, n) == SubSeq(a, 1, Least(n, Len(a))) = SubSeq(b, 1, Least(n, Len(b)))

Live(g) == worker = "running" /\ status[g] = "running"
Unfinished(g) == \E s \in Slots : outputs[g][s] = Missing

Init ==
  /\ pending = [g \in Groups |->
                  [i \in 1..InitialRollouts |-> Queue(i - 1, Root, Fresh(i - 1))]]
  /\ allocated = [g \in Groups |-> InitialRollouts]
  /\ current = [g \in Groups |-> Idle]
  /\ outputs = [g \in Groups |-> [s \in Slots |-> Missing]]
  /\ nodes = [g \in Groups |-> [s \in Slots |-> Missing]]
  /\ active = [g \in Groups |-> {}]
  /\ status = [g \in Groups |-> "running"]
  /\ sessions = {}
  /\ worker = "running"
-----------------------------------------------------------------------------
(* Any exception or cancellation leaves run() through its `finally`: every *)
(* id the group ever attached or restored is popped, nothing is returned.  *)
ReleaseAll(g) == sessions' = sessions \ active[g]

Abandon(g, how) ==
  /\ status' = [status EXCEPT ![g] = how]
  /\ ReleaseAll(g)
  /\ pending' = [pending EXCEPT ![g] = <<>>]
  /\ current' = [current EXCEPT ![g] = Idle]
  /\ outputs' = [outputs EXCEPT ![g] = [s \in Slots |-> Missing]]
  /\ nodes' = [nodes EXCEPT ![g] = [s \in Slots |-> Missing]]
  /\ UNCHANGED <<allocated, active, worker>>

(* Variant: a fork counts as the root of its own tree.                     *)
LaunchOwnRoot(g, item) ==
  /\ current' = [current EXCEPT ![g] =
       [slot |-> item.slot, phase |-> "generating", afterTools |-> FALSE,
        data |-> item.data]]
  /\ nodes' = [nodes EXCEPT ![g][item.slot] =
       [kind |-> "node", parent |-> item.parent, root |-> item.slot,
        shared |-> Len(item.data.response)]]
  /\ active' = [active EXCEPT ![g] = @ \cup {<<g, item.slot>>}]
  /\ sessions' = sessions \cup {<<g, item.slot>>}

(* Variant: the shared prefix is taken to include the segment after it.    *)
LaunchLongPrefix(g, item) ==
  /\ current' = [current EXCEPT ![g] =
       [slot |-> item.slot, phase |-> "generating", afterTools |-> FALSE,
        data |-> item.data]]
  /\ nodes' = [nodes EXCEPT ![g][item.slot] =
       [kind |-> "node", parent |-> item.parent, root |-> item.data.root,
        shared |-> Len(item.data.response) + (IF item.parent = Root THEN 0 ELSE 1)]]
  /\ active' = [active EXCEPT ![g] = @ \cup {<<g, item.slot>>}]
  /\ sessions' = sessions \cup {<<g, item.slot>>}

(* run_one up to the first await: start_interaction registers a fresh      *)
(* trajectory, a fork was registered by restore; attach writes its node.   *)
Launch(g, item) ==
  /\ current' = [current EXCEPT ![g] =
       [slot |-> item.slot, phase |-> "generating", afterTools |-> FALSE,
        data |-> item.data]]
  /\ nodes' = [nodes EXCEPT ![g][item.slot] =
       [kind |-> "node", parent |-> item.parent, root |-> item.data.root,
        shared |-> Len(item.data.response)]]
  /\ active' = [active EXCEPT ![g] = @ \cup {<<g, item.slot>>}]
  /\ sessions' = sessions \cup {<<g, item.slot>>}

(* Variant: the most recent fork runs first.                               *)
StartNewest(g) ==
  /\ Live(g) /\ current[g] = Idle /\ Unfinished(g) /\ pending[g] # <<>>
  /\ Launch(g, pending[g][Len(pending[g])])
  /\ pending' = [pending EXCEPT ![g] = SubSeq(@, 1, Len(@) - 1)]
  /\ UNCHANGED <<allocated, outputs, status, worker>>

(* The scheduling loop: the oldest pending leaf, else a new root from the  *)
(* unused budget; a slot beyond the budget is "lost a scheduled            *)
(* trajectory".                                                            *)
StartPending(g) ==
  /\ Live(g) /\ current[g] = Idle /\ Unfinished(g) /\ pending[g] # <<>>
  /\ Launch(g, Head(pending[g]))
  /\ pending' = [pending EXCEPT ![g] = Tail(@)]
  /\ UNCHANGED <<allocated, outputs, status, worker>>

StartFresh(g) ==
  /\ Live(g) /\ current[g] = Idle /\ Unfinished(g) /\ pending[g] = <<>>
  /\ \/ /\ allocated[g] < Size
        /\ Launch(g, Queue(allocated[g], Root, Fresh(allocated[g])))
        /\ allocated' = [allocated EXCEPT ![g] = @ + 1]
        /\ UNCHANGED <<pending, outputs, status, worker>>
     \/ allocated[g] >= Size /\ Abandon(g, "lost")

(* before_generation: capture only between completed transitions, after    *)
(* tools, and while the budget has an unallocated leaf.                    *)
CanBranch(g) == current[g].afterTools /\ allocated[g] < Size

(* Variant: the new leaf is allocated and registered but never queued.     *)
BranchUnqueued(g) ==
  /\ allocated' = [allocated EXCEPT ![g] = @ + 1]
  /\ sessions' = sessions \cup {<<g, allocated[g]>>}
  /\ active' = [active EXCEPT ![g] = @ \cup {<<g, allocated[g]>>}]
  /\ UNCHANGED pending

(* Variant: the fork's id is left out of active_ids.                       *)
BranchUntracked(g) ==
  /\ allocated' = [allocated EXCEPT ![g] = @ + 1]
  /\ sessions' = sessions \cup {<<g, allocated[g]>>}
  /\ pending' = [pending EXCEPT ![g] =
       Append(@, Queue(allocated[g], current[g].slot, current[g].data))]
  /\ UNCHANGED active

(* after_generation with a positive draw: a fork of the captured prefix,   *)
(* registered at once and queued behind the other leaves.                  *)
Branch(g) ==
  /\ allocated' = [allocated EXCEPT ![g] = @ + 1]
  /\ sessions' = sessions \cup {<<g, allocated[g]>>}
  /\ active' = [active EXCEPT ![g] = @ \cup {<<g, allocated[g]>>}]
  /\ pending' = [pending EXCEPT ![g] =
       Append(@, Queue(allocated[g], current[g].slot, current[g].data))]

(* Variant: every generation renews the entropy the draw is measured on.   *)
GeneratedRenewed(run, next, logprobs) ==
  [run EXCEPT
     !.phase = next,
     !.afterTools = FALSE,
     !.data.response = Append(@, Stamp(run)),
     !.data.turns = @ + 1,
     !.data.complete = @ /\ logprobs,
     !.data.initial = Stamp(run)]

(* One generation, with or without recorded log-probabilities, its entropy *)
(* measurement and the draw.                                               *)
Generated(run, next, logprobs) ==
  [run EXCEPT
     !.phase = next,
     !.afterTools = FALSE,
     !.data.response = Append(@, Stamp(run)),
     !.data.turns = @ + 1,
     !.data.complete = @ /\ logprobs,
     !.data.initial = IF @ = NoStamp THEN Stamp(run) ELSE @]

Generate(g, next, logprobs, take) ==
  /\ Live(g) /\ current[g].phase = "generating"
  /\ next \in {"tools", "interacting", "terminated"}
  /\ \/ take /\ CanBranch(g) /\ Branch(g)
     \/ ~take /\ UNCHANGED <<allocated, sessions, active, pending>>
  /\ current' = [current EXCEPT ![g] = Generated(@, next, logprobs)]
  /\ UNCHANGED <<outputs, nodes, status, worker>>

(* The tool or user observation. The turn cap, or an observation that      *)
(* leaves no room, ends the trajectory before anything else is awaited:    *)
(* nothing was attempted, so after_generation has nothing to decide.       *)
(* arpo_after_tools is set after tools only.                               *)
Observe(g, room) ==
  LET run == current[g] IN
  /\ Live(g) /\ run.phase \in {"tools", "interacting"}
  /\ current' = [current EXCEPT
       ![g].phase = IF room /\ run.data.turns < MaxTurns THEN "generating" ELSE "terminated",
       ![g].afterTools = (run.phase = "tools"),
       ![g].data.response = Append(@, Stamp(run))]
  /\ UNCHANGED <<pending, allocated, outputs, nodes, active, status, sessions, worker>>

(* An observation that does not fit, a STOP, a turn limit.                 *)
ObserveEnds(g) ==
  /\ Live(g) /\ current[g].phase \in {"tools", "interacting"}
  /\ current' = [current EXCEPT ![g].phase = "terminated"]
  /\ UNCHANGED <<pending, allocated, outputs, nodes, active, status, sessions, worker>>

(* finish and finalize_rollout: both need the live session, scoring pops   *)
(* it; the raw output is kept until the group audit.                       *)
FinishTrajectory(g) ==
  LET run == current[g] IN
  /\ Live(g) /\ run.phase = "terminated"
  /\ \/ /\ <<g, run.slot>> \in sessions
        /\ outputs' = [outputs EXCEPT ![g][run.slot] =
             [kind |-> "output", response |-> run.data.response,
              initial |-> run.data.initial, logprobs |-> run.data.complete]]
        /\ sessions' = sessions \ {<<g, run.slot>>}
        /\ current' = [current EXCEPT ![g] = Idle]
        /\ UNCHANGED <<pending, allocated, nodes, active, status, worker>>
     \/ <<g, run.slot>> \notin sessions /\ Abandon(g, "keyerror")

(* The audit before the outputs leave the group: a fork must share its     *)
(* parent's prompt, tokens, mask and log-probabilities.                    *)
PrefixShared(g, s) ==
  LET p == nodes[g][s].parent IN
  p # Root => Agree(outputs[g][s].response, outputs[g][p].response, nodes[g][s].shared)
LogprobsShared(g, s) ==
  nodes[g][s].parent # Root =>
    outputs[g][s].logprobs /\ outputs[g][nodes[g][s].parent].logprobs

Audit(g) ==
  /\ Live(g) /\ ~Unfinished(g)
  /\ IF \A s \in Slots : PrefixShared(g, s) /\ LogprobsShared(g, s)
     THEN /\ status' = [status EXCEPT ![g] = "returned"]
          /\ ReleaseAll(g)
          /\ UNCHANGED <<pending, allocated, current, outputs, nodes, active, worker>>
     ELSE Abandon(g, "raised")

(* A trajectory raises: no measurement, a server, tool, simulator or       *)
(* verifier failure.                                                       *)
RunFails(g) ==
  Live(g) /\ current[g].phase # "idle" /\ Abandon(g, "raised")

(* one_group after run(): postprocess and save every row of the group.     *)
Postprocess(g) ==
  /\ worker = "running" /\ status[g] = "returned"
  /\ status' = [status EXCEPT ![g] = "done"]
  /\ UNCHANGED <<pending, allocated, current, outputs, nodes, active, sessions, worker>>

PostprocessFails(g) ==
  worker = "running" /\ status[g] = "returned" /\ Abandon(g, "raised")
-----------------------------------------------------------------------------
Failed == {"raised", "lost", "keyerror", "cancelled"}

(* Variant: an exception is not raised out of gather.                      *)
GatherSuccessOnly ==
  /\ worker = "running"
  /\ (\A g \in Groups : status[g] = "done") /\ worker' = "returned"
  /\ UNCHANGED <<pending, allocated, current, outputs, nodes, active, status, sessions>>

(* gather raises the first exception, or generate_groups is itself         *)
(* cancelled; every task is then cancelled and awaited.                    *)
Gather ==
  /\ worker = "running"
  /\ \/ (\E g \in Groups : status[g] \in Failed) /\ worker' = "failing"
     \/ (\A g \in Groups : status[g] = "done") /\ worker' = "returned"
  /\ UNCHANGED <<pending, allocated, current, outputs, nodes, active, status, sessions>>

Cancelled ==
  /\ worker = "running" /\ worker' = "failing"
  /\ UNCHANGED <<pending, allocated, current, outputs, nodes, active, status, sessions>>

CancelGroup(g) ==
  worker = "failing" /\ status[g] \in {"running", "returned"} /\ Abandon(g, "cancelled")

Reraise ==
  /\ worker = "failing" /\ \A g \in Groups : status[g] \in Failed \cup {"done"}
  /\ worker' = "failed"
  /\ UNCHANGED <<pending, allocated, current, outputs, nodes, active, status, sessions>>

Ended == worker \in {"returned", "failed"} /\ UNCHANGED vars

GroupStep(g) ==
  \/ StartPending(g) \/ StartFresh(g)
  \/ \E next \in {"tools", "interacting", "terminated"}, logprobs \in LogprobCases, take \in BOOLEAN :
       Generate(g, next, logprobs, take)
  \/ (\E room \in BOOLEAN : Observe(g, room)) \/ ObserveEnds(g)
  \/ FinishTrajectory(g) \/ Audit(g) \/ Postprocess(g) \/ CancelGroup(g)

Next ==
  \/ \E g \in Groups : GroupStep(g) \/ RunFails(g) \/ PostprocessFails(g)
  \/ Gather \/ Reraise \/ Cancelled \/ Ended

(* Every group is a task of one event loop: a ready task runs, and what it *)
(* awaits returns or raises. Nothing forces a failure or a cancellation.   *)
Spec ==
  /\ Init /\ [][Next]_vars
  /\ \A g \in Groups : WF_vars(GroupStep(g))
  /\ WF_vars(Gather) /\ WF_vars(Reraise)
-----------------------------------------------------------------------------
(* Where each leaf of a live group is.                                     *)
Queued(g) == {pending[g][i].slot : i \in 1..Len(pending[g])}
Running(g) == IF current[g] = Idle THEN {} ELSE {current[g].slot}
Finished(g) == {s \in Slots : outputs[g][s] # Missing}

Stamps == (Slots \cup {Root}) \X Nat
Data == [root: Slots, response: Seq(Stamps), turns: 0..MaxTurns, initial: Stamps,
         complete: BOOLEAN]
Phases == {"generating", "tools", "interacting", "terminated"}
Statuses == {"running", "returned", "done"} \cup Failed
Workers == {"running", "failing", "returned", "failed"}

(* Every variable keeps its range; allocated never passes the budget.      *)
TypeOK ==
  /\ pending \in [Groups -> Seq([slot: Slots, parent: Slots \cup {Root}, data: Data])]
  /\ allocated \in [Groups -> 0..Size]
  /\ current \in [Groups -> {Idle} \cup
       [slot: Slots, phase: Phases, afterTools: BOOLEAN, data: Data]]
  /\ outputs \in [Groups -> [Slots -> {Missing} \cup
       [kind: {"output"}, response: Seq(Stamps), initial: Stamps, logprobs: BOOLEAN]]]
  /\ nodes \in [Groups -> [Slots -> {Missing} \cup
       [kind: {"node"}, parent: Slots \cup {Root}, root: Slots, shared: Nat]]]
  /\ active \in [Groups -> SUBSET (Groups \X Slots)]
  /\ status \in [Groups -> Statuses]
  /\ sessions \subseteq Groups \X Slots
  /\ worker \in Workers

(* A leaf handed out is in one place only: waiting, running or finished,   *)
(* so rollout.n outputs come from rollout.n trajectories, none run twice.  *)
SlotsConserved ==
  \A g \in Groups : status[g] \in {"running", "returned", "done"} =>
    /\ Queued(g) \cup Running(g) \cup Finished(g) = 0..allocated[g] - 1
    /\ Queued(g) \cap Running(g) = {}
    /\ (Queued(g) \cup Running(g)) \cap Finished(g) = {}
    /\ \A i, j \in 1..Len(pending[g]) : pending[g][i].slot = pending[g][j].slot => i = j

(* "ARPO lost a scheduled trajectory" and a trajectory that finds its      *)
(* session gone never happen, whatever the draws and the failures.         *)
NeverLoses == \A g \in Groups : status[g] \notin {"lost", "keyerror"}

(* What compute_arpo_verl demands of a group's lineage before it assigns   *)
(* advantages: every group that run() returns passes.                      *)
RootValid(g, s) == nodes[g][s].root = s /\ nodes[g][s].shared = 0
BranchValid(g, s) ==
  LET node == nodes[g][s] IN
  /\ s >= InitialRollouts
  /\ node.parent < s
  /\ node.root = nodes[g][node.parent].root
  /\ node.shared > 0

LineageValid ==
  \A g \in Groups : status[g] \in {"returned", "done"} =>
    \A s \in Slots : IF nodes[g][s].parent = Root THEN RootValid(g, s) ELSE BranchValid(g, s)

(* The group audit's token comparison never fails: a fork's output agrees  *)
(* with its parent's on the prefix its node records, at any moment both    *)
(* outputs exist; and "do not recursively branch the same boundary": two   *)
(* forks of one leaf share different prefixes, a fork of a fork a longer   *)
(* one.                                                                    *)
PrefixesAgree ==
  \A g \in Groups :
    /\ \A s \in Finished(g) : nodes[g][s].parent \in Finished(g) => PrefixShared(g, s)
    /\ \A s \in Slots : \A t \in Slots :
         /\ nodes[g][s] # Missing /\ nodes[g][t] # Missing /\ nodes[g][t].parent # Root
         /\ s # t
         => /\ nodes[g][s].parent = nodes[g][t].parent => nodes[g][s].shared # nodes[g][t].shared
            /\ nodes[g][t].parent = s => nodes[g][s].shared < nodes[g][t].shared

(* Every leaf's draws compare with the entropy of the first generation of  *)
(* its tree: a fork inherits its root's, and nobody replaces it.           *)
InitialEntropyKept ==
  \A g \in Groups : \A s \in Finished(g) :
    outputs[g][s].response # <<>> => outputs[g][s].initial = outputs[g][s].response[1]

(* Sessions follow their trajectories: a waiting fork and the running leaf *)
(* hold theirs, and no session outlives its group or the worker's batch.   *)
SessionsOwned ==
  /\ \A g \in Groups : Live(g) =>
       {s \in Slots : <<g, s>> \in sessions} =
         Running(g) \cup {pending[g][i].slot : i \in
            {j \in 1..Len(pending[g]) : pending[g][j].parent # Root}}
  /\ \A g \in Groups : status[g] \in Failed \cup {"returned", "done"} =>
       \A s \in Slots : <<g, s>> \notin sessions

(* The batch ends: it returns every group or raises, and no group waits    *)
(* on a trajectory that is not scheduled.                                  *)
BatchEnds == <>(worker \in {"returned", "failed"})

(* The abstract budget: the group controller hands out, runs and finishes  *)
(* leaves as RolloutBudget promises.                                       *)
Stage(g, s) ==
  CASE s \in Finished(g) -> "finished"
    [] s \in Running(g) -> "running"
    [] s \in Queued(g) -> "queued"
    [] OTHER -> "free"
Origin(g, s) ==
  IF nodes[g][s] # Missing THEN nodes[g][s].parent
  ELSE IF s \in Queued(g)
       THEN pending[g][CHOOSE i \in 1..Len(pending[g]) : pending[g][i].slot = s].parent
       ELSE Root
Fate(g) ==
  CASE status[g] \in {"running", "returned"} -> "open"
    [] status[g] = "done" -> "complete"
    [] OTHER -> "aborted"

Budget == INSTANCE RolloutBudget WITH
  stage <- [g \in Groups |-> [s \in Slots |-> Stage(g, s)]],
  origin <- [g \in Groups |-> [s \in Slots |-> Origin(g, s)]],
  fate <- [g \in Groups |-> Fate(g)]

ImplementsBudget == Budget!BudgetSpec
=============================================================================
