---------------------------- MODULE OwnedProcess ----------------------------
(***************************************************************************)
(* The services a controller owns: tau3_grpo/training/services.py          *)
(* (launch_process, stop_process) and the way the controllers use it       *)
(* (training/rl/runner.py main, training/sft/continuation.py run).  Every  *)
(* child is launched as the leader of a process group of its own and may   *)
(* leave helpers in it; the controller watches the leaders, may stop a     *)
(* child early, and stops them all, the last first, on its way out.  A     *)
(* process may ignore SIGTERM, outlive its leader or hang in the kernel;   *)
(* the pid file may not be writable; a signal may reach the controller.    *)
(*                                                                         *)
(* Definitions under a comment "Variant" are slips of the definition that  *)
(* follows them; Spec uses none of them.                                   *)
(***************************************************************************)
EXTENDS Integers, Sequences

CONSTANTS
  Last,         (* the children are 1..Last, in the order of their launch  *)
  Stubborn,     (* children of which some process ignores SIGTERM          *)
  Hung          (* children whose leader outlives SIGKILL by ten seconds   *)

Children == 1..Last

ASSUME OwnedAssumption == Last \in Nat /\ Stubborn \subseteq Children /\ Hung \subseteq Children

VARIABLES
  leader,       (* "none", "running", "zombie" or "reaped"                 *)
  helpers,      (* the rest of the group: "none", "running" or "gone"      *)
  termed,       (* groups sent SIGTERM                                     *)
  killed,       (* groups sent SIGKILL                                     *)
  group,        (* _GROUPS: "none", "registered" or "popped"               *)
  children,     (* the controller's list                                   *)
  main,         (* "running", "cleanup", "ended" or "raised"               *)
  todo,         (* the children left to stop in the finally block          *)
  stopping,     (* the child stop_process is at, or 0                      *)
  phase,        (* where it is                                             *)
  caller        (* who called it: "launch", "run" or "cleanup"             *)

processes == <<leader, helpers, termed, killed>>
stop == <<stopping, phase, caller>>
vars == <<processes, group, children, main, todo, stop>>

Init ==
  /\ leader = [c \in Children |-> "none"] /\ helpers = [c \in Children |-> "none"]
  /\ termed = {} /\ killed = {} /\ group = [c \in Children |-> "none"]
  /\ children = <<>> /\ main = "running" /\ todo = <<>>
  /\ stopping = 0 /\ phase = "idle" /\ caller = "run"

(***************************************************************************)
(* The processes                                                           *)
(***************************************************************************)
(* killpg finds a group as long as a process of it runs or is not reaped.  *)
Exists(c) == leader[c] \in {"running", "zombie"} \/ helpers[c] = "running"
OnlyZombie(c) == leader[c] = "zombie" /\ helpers[c] # "running"

(* A process forks: not one that SIGKILL has reached.                      *)
Fork(c) ==
  /\ c \notin killed /\ leader[c] = "running" /\ helpers' = [helpers EXCEPT ![c] = "running"]
  /\ UNCHANGED <<leader, termed, killed, group, children, main, todo, stop>>

LeaderExits(c) ==
  /\ leader[c] = "running" /\ leader' = [leader EXCEPT ![c] = "zombie"]
  /\ UNCHANGED <<helpers, termed, killed, group, children, main, todo, stop>>

HelpersExit(c) ==
  /\ helpers[c] = "running" /\ helpers' = [helpers EXCEPT ![c] = "gone"]
  /\ UNCHANGED <<leader, termed, killed, group, children, main, todo, stop>>

(***************************************************************************)
(* The controller                                                          *)
(***************************************************************************)
Reversed(s) == [i \in 1..Len(s) |-> s[Len(s) + 1 - i]]
Leave == main' = "cleanup" /\ todo' = Reversed(children)
Working == main = "running" /\ stopping = 0

CallStop(c, who) == stopping' = c /\ phase' = "term" /\ caller' = who

(* Popen and registration; then the pid file is written, or stop_process   *)
(* is called before the error (or the signal) goes on.  A signal that      *)
(* lands after Popen and outside of that try leaves a child that is not in *)
(* the list, before or after its registration.                             *)
Register(c) == group' = [group EXCEPT ![c] = "registered"]
Launch(c) ==
  /\ Working /\ leader[c] = "none" /\ \A d \in Children : d < c => leader[d] # "none"
  /\ leader' = [leader EXCEPT ![c] = "running"]
  /\ \/ Register(c) /\ children' = Append(children, c) /\ UNCHANGED <<main, todo, stop>>
     \/ Register(c) /\ CallStop(c, "launch") /\ UNCHANGED <<children, main, todo>>
     \/ (Register(c) \/ UNCHANGED group) /\ Leave /\ UNCHANGED <<children, stop>>
  /\ UNCHANGED <<helpers, termed, killed>>

(* poll() or wait() of a leader that has ended reaps it.                   *)
Reap(c) == leader[c] = "zombie" /\ leader' = [leader EXCEPT ![c] = "reaped"]
Watch(c) ==
  /\ Working /\ Reap(c)
  /\ UNCHANGED <<helpers, termed, killed, group, children, main, todo, stop>>

StopEarly(i) ==
  /\ Working /\ i \in DOMAIN children /\ CallStop(children[i], "run")
  /\ UNCHANGED <<processes, group, children, main, todo>>

(* The work is done, has failed, or was interrupted: the finally block.    *)
Finish ==
  /\ Working /\ Leave
  /\ UNCHANGED <<processes, group, children, stop>>

NextChild ==
  /\ main = "cleanup" /\ stopping = 0
  /\ IF todo = <<>> THEN main' = "ended" /\ UNCHANGED <<todo, stop>>
     ELSE CallStop(Head(todo), "cleanup") /\ todo' = Tail(todo) /\ UNCHANGED main
  /\ UNCHANGED <<processes, group, children>>

(***************************************************************************)
(* stop_process                                                            *)
(***************************************************************************)
(* What its return and its exception do to the caller: an exception, or a  *)
(* signal, inside the finally block skips the children that are left.      *)
Back ==
  /\ stopping' = 0 /\ phase' = "idle" /\ UNCHANGED caller
  /\ IF caller = "launch" THEN Leave ELSE UNCHANGED <<main, todo>>
Raises ==
  /\ stopping' = 0 /\ phase' = "idle" /\ UNCHANGED caller
  /\ IF caller = "cleanup" THEN main' = "raised" /\ UNCHANGED todo ELSE Leave

Pop == group' = [group EXCEPT ![stopping] = "popped"]

(* "Repeated cleanup is harmless": a group that was popped is left alone.  *)
AlreadyStopped ==
  /\ phase = "term" /\ group[stopping] # "registered" /\ Back
  /\ UNCHANGED <<processes, group, children>>

(* poll, then SIGTERM: no such group, wait for the leader and be done; a   *)
(* group of one zombie may be refused (Darwin), and that propagates.       *)
Term ==
  /\ phase = "term" /\ group[stopping] = "registered"
  /\ \/ /\ Exists(stopping) /\ ~OnlyZombie(stopping)
        /\ termed' = termed \cup {stopping} /\ phase' = "waiting"
        /\ UNCHANGED <<leader, group, stopping, caller, main, todo>>
     \/ /\ OnlyZombie(stopping)
        /\ \/ Raises /\ UNCHANGED <<leader, termed, group>>
           \/ /\ phase' = "waiting" /\ termed' = termed \cup {stopping}
              /\ UNCHANGED <<leader, group, stopping, caller, main, todo>>
           \/ Reap(stopping) /\ UNCHANGED <<termed, group, main, todo, stop>>
     \/ ~Exists(stopping) /\ Pop /\ Back /\ UNCHANGED <<leader, termed>>
  /\ UNCHANGED <<helpers, killed, children>>

(* Variant: the leader's exit is taken for the group's.                    *)
PollLeader ==
  /\ phase = "waiting"
  /\ \/ Reap(stopping) /\ UNCHANGED phase
     \/ leader[stopping] = "reaped" /\ phase' = "reap" /\ UNCHANGED leader
  /\ UNCHANGED <<helpers, termed, killed, group, children, main, todo, stopping, caller>>

(* One turn of the wait: the leader is reaped, and the probe looks for any *)
(* process of the group.  A refused probe proves nothing.                  *)
Poll ==
  /\ phase = "waiting"
  /\ \/ Reap(stopping) /\ UNCHANGED phase
     \/ ~Exists(stopping) /\ phase' = "reap" /\ UNCHANGED leader
  /\ UNCHANGED <<helpers, termed, killed, group, children, main, todo, stopping, caller>>

(* Variant: a group that is still there at the deadline is waited for.     *)
DeadlineWaits ==
  /\ phase = "waiting" /\ ~Exists(stopping) /\ phase' = "reap"
  /\ UNCHANGED <<processes, group, children, main, todo, stopping, caller>>

(* The deadline: SIGKILL, which may be refused as above.                   *)
Deadline ==
  /\ phase = "waiting"
  /\ \/ phase' = "reap" /\ killed' = killed \cup {stopping}
        /\ UNCHANGED <<main, todo, stopping, caller>>
     \/ OnlyZombie(stopping) /\ Raises /\ UNCHANGED killed
  /\ UNCHANGED <<leader, helpers, termed, group, children>>

(* wait(timeout=10), and the group is forgotten; or TimeoutExpired, and it *)
(* is kept.                                                                *)
Wait ==
  /\ phase = "reap"
  /\ \/ leader[stopping] \in {"zombie", "reaped"} /\ Pop /\ Back
        /\ leader' = [leader EXCEPT ![stopping] = "reaped"]
     \/ leader[stopping] = "running" /\ stopping \in Hung /\ Raises
        /\ UNCHANGED <<leader, group>>
  /\ UNCHANGED <<helpers, termed, killed, children>>

(* SIGTERM or SIGINT, where a handler raises.                              *)
Interrupt ==
  /\ stopping # 0 /\ Raises
  /\ UNCHANGED <<processes, group, children>>

Stop == AlreadyStopped \/ Term \/ Poll \/ Deadline \/ Wait
Controller ==
  \/ \E c \in Children : Launch(c) \/ Watch(c)
  \/ \E i \in DOMAIN children : StopEarly(i)
  \/ Finish \/ NextChild \/ Interrupt
Process(c) == Fork(c) \/ LeaderExits(c) \/ HelpersExit(c)

Next == Stop \/ Controller \/ \E c \in Children : Process(c)

(* The controller goes on cleaning up; a process SIGKILL reached ends, and *)
(* one SIGTERM reached if it does not ignore it; a hung leader ends too,   *)
(* at any time.                                                            *)
Obeys(c) == c \in killed \/ (c \in termed /\ c \notin Stubborn)
Fairness ==
  /\ WF_vars(Stop) /\ WF_vars(NextChild)
  /\ \A c \in Children : /\ WF_vars(Obeys(c) /\ LeaderExits(c))
                         /\ WF_vars(Obeys(c) /\ HelpersExit(c))

Spec == Init /\ [][Next]_vars /\ Fairness

(***************************************************************************)
(* Properties                                                              *)
(***************************************************************************)
TypeOK ==
  /\ leader \in [Children -> {"none", "running", "zombie", "reaped"}]
  /\ helpers \in [Children -> {"none", "running", "gone"}]
  /\ termed \subseteq Children /\ killed \subseteq Children
  /\ group \in [Children -> {"none", "registered", "popped"}]
  /\ children \in Seq(Children) /\ todo \in Seq(Children)
  /\ main \in {"running", "cleanup", "ended", "raised"}
  /\ stopping \in Children \cup {0} /\ phase \in {"idle", "term", "waiting", "reap"}
  /\ caller \in {"launch", "run", "cleanup"}
  /\ stopping = 0 <=> phase = "idle"

(* A stop that returned has ended the whole group, the helpers that        *)
(* outlived their leader included: nothing of it runs that SIGKILL has not *)
(* reached, and the leader is reaped.  The finally block keeps the order   *)
(* it promises: a child of the list is stopped only when that holds of     *)
(* every child put there after it, so a stop that raises leaves behind     *)
(* itself and what was launched before it, and nothing else; a block that  *)
(* ran to its end leaves nothing of the list.                              *)
Ended(c) == helpers[c] # "running" \/ c \in killed
StopMeansGone ==
  /\ \A c \in Children : group[c] = "popped" => leader[c] = "reaped" /\ Ended(c)
  /\ main \in {"cleanup", "raised"} =>
       \A i \in DOMAIN children : i > Len(todo) + 1 => group[children[i]] = "popped"
  /\ main = "ended" => \A i \in DOMAIN children : group[children[i]] = "popped"

(* The way out ends, whatever the children ignore: the finally block ends  *)
(* or raises, and a group whose stop returned disappears.                  *)
GroupsEnd ==
  /\ (main = "cleanup") ~> (main \in {"ended", "raised"})
  /\ \A c \in Children : (group[c] = "popped") ~> ~Exists(c)
=============================================================================
