------------------------ MODULE TrainingRuntime_proofs ------------------------
(***************************************************************************)
(* Theorems about what a training run holds of its machine: the processes  *)
(* its controller owns (OwnedProcess) and the GPU memory its outer step    *)
(* shares out (TrainerStep).                                               *)
(*                                                                         *)
(* OwnedProcess, for any number of children, whatever they ignore: the     *)
(* invariant Inv ties the place of stop_process to the state of the group  *)
(* it is at; once it only waits for the leader, no helper can appear any   *)
(* more.  Where the finally block is says which children are still to be   *)
(* stopped.                                                                *)
(*                                                                         *)
(* TrainerStep, for any number of steps, saves and starts, and either mode *)
(* of the guard: in OuterInv, Tenancy says who is in the memory where,     *)
(* Counting and Position what the guard's streak counts, Applied which     *)
(* updates the weights and the checkpoint can hold.                        *)
(***************************************************************************)
EXTENDS OwnedProcess, TrainerStep, SequenceTheorems, TLAPS

(***************************************************************************)
(* OwnedProcess                                                            *)
(***************************************************************************)
(* Who called stop_process, by where the controller is.                    *)
Called ==
  /\ main = "running" /\ stopping # 0 => caller # "cleanup"
  /\ main = "cleanup" /\ stopping # 0 => caller = "cleanup"
  /\ main \in {"ended", "raised"} => stopping = 0

(* A registered group was launched, and a child in the list was registered.*)
Registered ==
  /\ \A c \in Children : group[c] = "registered" => leader[c] # "none"
  /\ \A i \in DOMAIN children : group[children[i]] # "none"

Popped == \A c \in Children : group[c] = "popped" => leader[c] = "reaped" /\ Ended(c)

(* After the wait for the group, or the kill, nobody of it can fork.       *)
Reaping ==
  phase = "reap" => /\ Ended(stopping)
                    /\ leader[stopping] = "running" => stopping \in killed

(* What the finally block is not done with is the list up to some child,   *)
(* backwards; of the others at most that next child is not stopped, and    *)
(* stop_process is at it.                                                  *)
Left ==
  main \in {"cleanup", "raised"} =>
    /\ Len(todo) <= Len(children)
    /\ \A j \in 1..Len(todo) : todo[j] = children[Len(todo) + 1 - j]
    /\ \A i \in DOMAIN children :
         /\ i > Len(todo) + 1 => group[children[i]] = "popped"
         /\ main = "cleanup" /\ i = Len(todo) + 1 =>
              group[children[i]] = "popped" \/ stopping = children[i]

Finished == main = "ended" => \A i \in DOMAIN children : group[children[i]] = "popped"

Inv == TypeOK /\ Called /\ Registered /\ Popped /\ Reaping /\ Left /\ Finished

-----------------------------------------------------------------------------
(* 0, which stands for none, is no child.                                  *)
LEMMA ChildIsNotZero == \A c \in Children : c # 0
BY DEF Children

(* The finally block starts with the whole list, its last child first.     *)
LEMMA ReversedAll ==
  ASSUME NEW S, NEW s \in Seq(S)
  PROVE  /\ Reversed(s) \in Seq(S) /\ Len(Reversed(s)) = Len(s)
         /\ \A j \in 1..Len(s) : Reversed(s)[j] = s[Len(s) + 1 - j]
<1>1. Len(s) \in Nat /\ DOMAIN s = 1..Len(s) /\ DOMAIN Reversed(s) = 1..Len(s)
  BY DEF Reversed
<1>2. \A j \in 1..Len(s) : Len(s) + 1 - j \in 1..Len(s) /\ Reversed(s)[j] = s[Len(s) + 1 - j]
  BY <1>1 DEF Reversed
<1>3. Reversed(s) \in [1..Len(s) -> S]  BY <1>1, <1>2 DEF Reversed
<1>4. Reversed(s) \in Seq(S)  BY <1>1, <1>3, SeqDef
<1>5. Len(Reversed(s)) = Len(s)  BY <1>1, <1>4
<1> QED  BY <1>2, <1>4, <1>5

(* Leaving for the finally block: every child is still to be stopped.      *)
LEMMA Leaving ==
  ASSUME Inv, Leave, UNCHANGED children
  PROVE  todo' \in Seq(Children) /\ main' = "cleanup" /\ Left'
<1>1. children \in Seq(Children) /\ Len(children) \in Nat /\ DOMAIN children = 1..Len(children)
  BY DEF Inv, TypeOK
<1>2. /\ todo' \in Seq(Children) /\ Len(todo') = Len(children)
      /\ \A j \in 1..Len(children) : todo'[j] = children[Len(children) + 1 - j]
  BY <1>1, ReversedAll DEF Leave
<1> QED  BY <1>1, <1>2 DEF Leave, Left

LEMMA Initially == Init => Inv
BY DEF Init, Inv, TypeOK, Called, Registered, Popped, Reaping, Left, Finished

(* The processes move by themselves: nothing they do undoes a stop.        *)
LEMMA ProcessKeeps ==
  ASSUME Inv, NEW c \in Children, Process(c)
  PROVE  Inv'
<1> USE DEF Inv, stop
<1>1. CASE Fork(c)
  BY <1>1 DEF Fork, TypeOK, Called, Registered, Popped, Reaping, Left, Finished, Ended
<1>2. CASE LeaderExits(c)
  BY <1>2 DEF LeaderExits, TypeOK, Called, Registered, Popped, Reaping, Left, Finished, Ended
<1>3. CASE HelpersExit(c)
  BY <1>3 DEF HelpersExit, TypeOK, Called, Registered, Popped, Reaping, Left, Finished, Ended
<1> QED  BY <1>1, <1>2, <1>3 DEF Process

(* What a raise leaves behind.                                             *)
LEMMA RaisesKeeps ==
  ASSUME Inv, stopping # 0, Raises, UNCHANGED <<leader, helpers, termed, killed, group, children>>
  PROVE  Inv'
<1>1. TypeOK'
  <2>1. CASE caller = "cleanup"  BY <2>1 DEF Inv, TypeOK, Raises
  <2>2. CASE caller # "cleanup"  BY <2>2, Leaving DEF Inv, TypeOK, Raises
  <2> QED  BY <2>1, <2>2
<1>2. Called' /\ Registered' /\ Popped' /\ Reaping' /\ Finished'
  BY DEF Inv, TypeOK, Called, Registered, Popped, Reaping, Finished, Ended, Raises, Leave
<1>3. Left'
  <2>1. CASE caller = "cleanup"
    <3>1. main = "cleanup"  BY <2>1 DEF Inv, TypeOK, Called
    <3> QED  BY <2>1, <3>1 DEF Raises, Inv, Left
  <2>2. CASE caller # "cleanup"  BY <2>2, Leaving DEF Raises
  <2> QED  BY <2>1, <2>2
<1> QED  BY <1>1, <1>2, <1>3 DEF Inv

(* What a return of stop_process leaves behind, given that the child's     *)
(* group has been forgotten.                                               *)
LEMMA BackKeeps ==
  ASSUME Inv, stopping # 0, Back, UNCHANGED <<helpers, termed, killed, children>>,
         \/ group' = [group EXCEPT ![stopping] = "popped"]
         \/ group' = group /\ group[stopping] \in {"none", "popped"},
         leader' = leader \/ leader' = [leader EXCEPT ![stopping] = "reaped"],
         group'[stopping] = "popped" => leader'[stopping] = "reaped" /\ Ended(stopping)
  PROVE  Inv'
<1>1. TypeOK'
  <2>1. CASE caller = "launch"  BY <2>1, Leaving DEF Inv, TypeOK, Back
  <2>2. CASE caller # "launch"  BY <2>2 DEF Inv, TypeOK, Back
  <2> QED  BY <2>1, <2>2
<1>2. Called' /\ Registered' /\ Popped' /\ Reaping'
  BY DEF Inv, TypeOK, Called, Registered, Popped, Reaping, Ended, Back, Leave
<1>3. main # "ended" /\ main' # "ended"
  BY DEF Inv, TypeOK, Called, Back, Leave
<1>4. Left'
  <2>1. CASE caller = "launch"  BY <2>1, Leaving DEF Back
  <2>2. CASE caller # "launch"  BY <2>2 DEF Inv, TypeOK, Left, Registered, Back
  <2> QED  BY <2>1, <2>2
<1> QED  BY <1>1, <1>2, <1>3, <1>4 DEF Inv, Finished

-----------------------------------------------------------------------------
LEMMA StopKeeps ==
  ASSUME Inv, Stop
  PROVE  Inv'
<1>0. phase # "idle" => stopping \in Children /\ stopping # 0
  BY DEF Inv, TypeOK, Children
<1>1. CASE AlreadyStopped
  <2>1. stopping \in Children /\ stopping # 0  BY <1>0, <1>1 DEF AlreadyStopped
  <2>2. group[stopping] = "popped" => leader[stopping] = "reaped" /\ Ended(stopping)
    BY <2>1 DEF Inv, Popped
  <2>3. group[stopping] \in {"none", "popped"}  BY <1>1, <2>1 DEF AlreadyStopped, Inv, TypeOK
  <2> QED  BY <1>1, <2>1, <2>2, <2>3, BackKeeps DEF AlreadyStopped, processes
<1>2. CASE Term
  <2>1. stopping \in Children /\ stopping # 0 /\ group[stopping] = "registered"
    BY <1>0, <1>2 DEF Term
  <2>2. CASE Raises /\ UNCHANGED <<leader, termed, group>>
    BY <1>2, <2>1, <2>2, RaisesKeeps DEF Term
  <2>3. CASE phase' = "waiting" /\ termed' = termed \cup {stopping}
             /\ UNCHANGED <<leader, group, stopping, caller, main, todo>>
    BY <1>2, <2>1, <2>3
    DEF Term, Inv, TypeOK, Called, Registered, Popped, Reaping, Left, Finished, Ended
  <2>4. CASE Reap(stopping) /\ UNCHANGED <<termed, group, main, todo, stop>>
    BY <1>2, <2>1, <2>4
    DEF Term, Reap, stop, Inv, TypeOK, Called, Registered, Popped, Reaping, Left, Finished, Ended
  <2>5. CASE ~Exists(stopping) /\ Pop /\ Back /\ UNCHANGED <<leader, termed>>
    <3>1. leader[stopping] = "reaped" /\ Ended(stopping)
      BY <2>1, <2>5 DEF Exists, Ended, Inv, TypeOK, Registered
    <3> QED  BY <1>2, <2>1, <2>5, <3>1, BackKeeps DEF Term, Pop
  <2> QED  BY <1>2, <2>2, <2>3, <2>4, <2>5 DEF Term
<1>3. CASE Poll
  BY <1>0, <1>3
  DEF Poll, Reap, Exists, Inv, TypeOK, Called, Registered, Popped, Reaping, Left, Finished, Ended
<1>4. CASE Deadline
  <2>1. stopping \in Children /\ stopping # 0  BY <1>0, <1>4 DEF Deadline
  <2>2. CASE OnlyZombie(stopping) /\ Raises /\ UNCHANGED killed
    BY <1>4, <2>1, <2>2, RaisesKeeps DEF Deadline
  <2>3. CASE phase' = "reap" /\ killed' = killed \cup {stopping}
             /\ UNCHANGED <<main, todo, stopping, caller>>
    BY <1>4, <2>1, <2>3
    DEF Deadline, Inv, TypeOK, Called, Registered, Popped, Reaping, Left, Finished, Ended
  <2> QED  BY <1>4, <2>2, <2>3 DEF Deadline
<1>5. CASE Wait
  <2>1. stopping \in Children /\ stopping # 0  BY <1>0, <1>5 DEF Wait
  <2>2. CASE leader[stopping] = "running" /\ Raises /\ UNCHANGED <<leader, group>>
    BY <1>5, <2>1, <2>2, RaisesKeeps DEF Wait
  <2>3. CASE /\ leader[stopping] \in {"zombie", "reaped"} /\ Pop /\ Back
             /\ leader' = [leader EXCEPT ![stopping] = "reaped"]
    <3>1. Ended(stopping) /\ leader'[stopping] = "reaped"
      BY <1>5, <2>1, <2>3 DEF Wait, Inv, Reaping, TypeOK
    <3> QED  BY <1>5, <2>1, <2>3, <3>1, BackKeeps DEF Wait, Pop
  <2> QED  BY <1>5, <2>2, <2>3 DEF Wait
<1> QED  BY <1>1, <1>2, <1>3, <1>4, <1>5 DEF Stop

LEMMA ControllerKeeps ==
  ASSUME Inv, Controller
  PROVE  Inv'
<1>1. ASSUME NEW c \in Children, Launch(c)
      PROVE  Inv'
  <2>1. /\ main = "running" /\ stopping = 0 /\ leader[c] = "none" /\ group[c] # "popped"
        /\ \A i \in DOMAIN children : children[i] # c
        /\ c # 0
    BY <1>1 DEF Launch, Working, Inv, TypeOK, Registered, Popped, Children
  <2>2. leader' = [leader EXCEPT ![c] = "running"] /\ UNCHANGED <<helpers, termed, killed>>
    BY <1>1 DEF Launch
  <2> USE DEF Register
  <2>3. CASE Register(c) /\ children' = Append(children, c) /\ UNCHANGED <<main, todo, stop>>
    <3>1. children' \in Seq(Children)
      BY <2>3 DEF Inv, TypeOK
    <3>2. \A i \in DOMAIN children' : group'[children'[i]] # "none"
      <4>1. \A i \in DOMAIN children : children[i] \in Children /\ group[children[i]] # "none"
        BY DEF Inv, TypeOK, Registered
      <4>2. \A i \in DOMAIN children' :
              \/ children'[i] = c
              \/ i \in DOMAIN children /\ children'[i] = children[i]
        <5>1. children \in Seq(Children) /\ children' = Append(children, c)
          BY <2>3 DEF Inv, TypeOK
        <5>2. /\ Len(children') = Len(children) + 1 /\ children'[Len(children) + 1] = c
              /\ \A i \in 1..Len(children) : children'[i] = children[i]
              /\ children' \in Seq(Children)
          BY <5>1, AppendProperties
        <5>3. DOMAIN children = 1..Len(children) /\ DOMAIN children' = 1..Len(children')
              /\ Len(children) \in Nat
          BY <5>1, <5>2
        <5> TAKE i \in DOMAIN children'
        <5>4. i \in 1..Len(children) \/ i = Len(children) + 1  BY <5>2, <5>3
        <5> QED  BY <5>2, <5>3, <5>4
      <4> QED  BY <4>1, <4>2, <2>3 DEF Inv, TypeOK
    <3> QED  BY <2>1, <2>2, <2>3, <3>1, <3>2
             DEF stop, Inv, TypeOK, Called, Registered, Popped, Reaping, Left, Finished, Ended
  <2>4. CASE Register(c) /\ CallStop(c, "launch") /\ UNCHANGED <<children, main, todo>>
    BY <2>1, <2>2, <2>4
    DEF CallStop, Inv, TypeOK, Called, Registered, Popped, Reaping, Left, Finished, Ended
  <2>5. CASE (Register(c) \/ UNCHANGED group) /\ Leave /\ UNCHANGED <<children, stop>>
    <3>1. todo' \in Seq(Children) /\ main' = "cleanup" /\ Left'  BY <2>5, Leaving
    <3>2. /\ group' \in [Children -> {"none", "registered", "popped"}]
          /\ \A d \in Children : d # c => group'[d] = group[d] /\ leader'[d] = leader[d]
          /\ group'[c] # "popped" /\ leader'[c] = "running"
      BY <2>1, <2>2, <2>5 DEF Inv, TypeOK
    <3>3. TypeOK'  BY <2>2, <2>5, <3>1, <3>2 DEF Inv, TypeOK, stop
    <3>4. Registered'
      <4>1. ASSUME NEW i \in DOMAIN children  PROVE group'[children[i]] # "none"
        <5>1. children[i] \in Children /\ group[children[i]] # "none"
          BY ElementOfSeq DEF Inv, TypeOK, Registered
        <5> QED  BY <2>1, <3>2, <5>1
      <4> QED  BY <2>5, <3>2, <4>1 DEF Inv, Registered
    <3>5. Called' /\ Popped' /\ Reaping' /\ Finished'
      BY <2>1, <2>2, <2>5, <3>1, <3>2
      DEF Inv, TypeOK, stop, Called, Popped, Reaping, Finished, Ended
    <3> QED  BY <3>1, <3>3, <3>4, <3>5 DEF Inv
  <2> QED  BY <1>1, <2>3, <2>4, <2>5 DEF Launch
<1>2. ASSUME NEW c \in Children, Watch(c)
      PROVE  Inv'
  BY <1>2 DEF Watch, Working, Reap, stop,
              Inv, TypeOK, Called, Registered, Popped, Reaping, Left, Finished, Ended
<1>3. ASSUME NEW i \in DOMAIN children, StopEarly(i)
      PROVE  Inv'
  <2>1. children[i] \in Children /\ children[i] # 0
    BY ChildIsNotZero, ElementOfSeq DEF Inv, TypeOK
  <2> QED  BY <1>3, <2>1
           DEF StopEarly, Working, CallStop, processes,
               Inv, TypeOK, Called, Registered, Popped, Reaping, Left, Finished, Ended
<1>4. CASE Finish
  <2>1. todo' \in Seq(Children) /\ main' = "cleanup" /\ Left'
    BY <1>4, Leaving DEF Finish
  <2> QED  BY <1>4, <2>1
           DEF Finish, Working, processes, stop,
               Inv, TypeOK, Called, Registered, Popped, Reaping, Finished, Ended
<1>5. CASE NextChild
  <2>1. \A i \in DOMAIN children : children[i] \in Children /\ children[i] # 0
    BY ChildIsNotZero, ElementOfSeq DEF Inv, TypeOK
  <2>2. /\ main = "cleanup" /\ stopping = 0 /\ Left
        /\ todo \in Seq(Children) /\ children \in Seq(Children)
        /\ DOMAIN children = 1..Len(children) /\ Len(children) \in Nat /\ Len(todo) \in Nat
        /\ UNCHANGED <<leader, helpers, termed, killed, group, children>>
    BY <1>5 DEF NextChild, Inv, TypeOK, processes
  <2>3. \A i \in DOMAIN children : i > Len(todo) => group[children[i]] = "popped"
    <3> TAKE i \in DOMAIN children
    <3>1. i > Len(todo) => i > Len(todo) + 1 \/ i = Len(todo) + 1  BY <2>2
    <3> QED  BY <2>1, <2>2, <3>1 DEF Left
  <2>4. CASE todo = <<>>
    <3>1. main' = "ended" /\ UNCHANGED <<todo, stop>>  BY <1>5, <2>4 DEF NextChild
    <3>2. \A i \in DOMAIN children : group[children[i]] = "popped"
      <4>1. Len(todo) = 0  BY <2>4
      <4> QED  BY <2>2, <2>3, <4>1
    <3>3. Finished' /\ Left'  BY <2>2, <3>1, <3>2 DEF Finished, Left
    <3> QED  BY <2>2, <3>1, <3>3
             DEF stop, Inv, TypeOK, Called, Registered, Popped, Reaping, Ended
  <2>5. CASE todo # <<>>
    <3>1. /\ Head(todo) = todo[1] /\ Tail(todo) \in Seq(Children) /\ Len(todo) >= 1
          /\ Len(Tail(todo)) = Len(todo) - 1
          /\ \A k \in 1..Len(todo) - 1 : Tail(todo)[k] = todo[k + 1]
      BY <2>2, <2>5
    <3>2. todo' = Tail(todo) /\ stopping' = Head(todo) /\ UNCHANGED main
      BY <1>5, <2>5 DEF NextChild, CallStop
    <3>3. Left'
      <4>0. Len(todo) - 1 \in Nat  BY <2>2, <3>1
      <4>1. PICK n \in Nat : n = Len(todo) - 1  BY <4>0
      <4>2. Len(todo) = n + 1 /\ Len(todo') = n /\ n + 1 <= Len(children)
        BY <2>2, <3>1, <3>2, <4>1 DEF Left
      <4>3. ASSUME NEW j \in 1..n  PROVE todo'[j] = children[n + 1 - j]
        <5>1. j \in 1..Len(todo) - 1 /\ j + 1 \in 1..Len(todo)
              /\ Len(todo) + 1 - (j + 1) = n + 1 - j
          BY <2>2, <4>1, <4>2
        <5>2. todo[j + 1] = children[Len(todo) + 1 - (j + 1)]  BY <2>2, <5>1 DEF Left
        <5> QED  BY <3>1, <3>2, <5>1, <5>2
      <4>4. stopping' = children[n + 1]
        <5>1. 1 \in 1..Len(todo) /\ Len(todo) + 1 - 1 = n + 1  BY <4>1, <4>2
        <5>2. todo[1] = children[Len(todo) + 1 - 1]  BY <2>2, <5>1 DEF Left
        <5> QED  BY <3>1, <3>2, <5>1, <5>2
      <4>5. \A i \in DOMAIN children : i > n + 1 => group[children[i]] = "popped"
        BY <2>3, <4>2
      <4> QED  BY <2>2, <3>2, <4>2, <4>3, <4>4, <4>5 DEF Left
    <3>4. /\ phase' = "term" /\ caller' = "cleanup" /\ main = "cleanup"
          /\ UNCHANGED <<leader, helpers, termed, killed>>
      BY <1>5, <2>5 DEF NextChild, CallStop, processes
    <3>5. TypeOK' /\ Called'
      <4>1. todo[1] \in Children /\ todo[1] # 0  BY <2>2, <3>1, ChildIsNotZero, ElementOfSeq
      <4> QED  BY <2>2, <3>1, <3>2, <3>4, <4>1 DEF Inv, TypeOK, Called
    <3>6. Registered' /\ Popped' /\ Reaping' /\ Finished'
      BY <2>2, <3>2, <3>4 DEF Inv, Registered, Popped, Reaping, Finished, Ended
    <3> QED  BY <3>3, <3>5, <3>6 DEF Inv
  <2> QED  BY <2>4, <2>5
<1>6. CASE Interrupt
  BY <1>6, RaisesKeeps DEF Interrupt, processes
<1> QED  BY <1>1, <1>2, <1>3, <1>4, <1>5, <1>6 DEF Controller

(* The strengthening holds in every reachable state.                       *)
THEOREM Invariant == Spec => []Inv
<1>1. Inv /\ [Next]_vars => Inv'
  <2> SUFFICES ASSUME Inv, [Next]_vars PROVE Inv'
    OBVIOUS
  <2>1. CASE UNCHANGED vars
    BY <2>1 DEF vars, processes, stop, Inv, TypeOK, Called, Registered, Popped, Reaping, Left, Finished, Ended
  <2> QED  BY <2>1, StopKeeps, ControllerKeeps, ProcessKeeps DEF Next
<1> QED  BY Initially, <1>1, PTL DEF Spec

(* Every variable keeps its range, and the controller is at a child        *)
(* exactly while stop_process runs.                                        *)
THEOREM TypeCorrect == Spec => []TypeOK
<1>1. Inv => TypeOK  BY DEF Inv
<1> QED  BY <1>1, Invariant, PTL

(* A stop that returned has ended the whole group; a finally block stops   *)
(* the list backwards, so one that a stop's exception cut short has        *)
(* stopped everything after that child, and one that ran to its end all of *)
(* the list, for any number of children and whatever they do.              *)
THEOREM StoppedIsGone == Spec => []StopMeansGone
<1>1. Inv => StopMeansGone  BY DEF Inv, Popped, Left, Finished, StopMeansGone
<1> QED  BY <1>1, Invariant, PTL

(***************************************************************************)
(* TrainerStep                                                             *)
(***************************************************************************)
Rolling == {"waking", "rolling", "resting"}

(* The step's batch has not passed the guard, or its update is still due.  *)
BeforeGuard == purpose = "train" /\ at \in Rolling \cup {"releasing", "judging"}
BeforeUpdate == BeforeGuard \/ at = "updating"

Tenancy ==
  /\ at \in {"initializing", "releasing", "judging", "updating", "saving", "publishing"} =>
       sim = "asleep"
  /\ at = "rolling" => sim = "awake"
  /\ at \in {"judging", "updating", "saving", "publishing"} => replicas = Asleep
  /\ at \in Rolling \cup {"releasing"} => replicas = weights

Course ==
  /\ at \in {"releasing", "judging", "updating", "saving"} => purpose = "train"
  /\ at = "publishing" => purpose # "validate"
  /\ at \in {"creating", "initializing"} \/ (at # "down" /\ purpose = "initial") =>
       seen = <<>>
  /\ halted => at = "down"

(* The last n batches were bad, and the one before them was not.           *)
TrailingBad(n) ==
  /\ n \in 0..Len(seen)
  /\ \A i \in Len(seen) - n + 1..Len(seen) : seen[i]
  /\ n < Len(seen) => ~seen[Len(seen) - n]

Counting ==
  at # "down" => TrailingBad(guard.streak) /\ (mode = "halt" => guard.streak < consecutive_steps)

Position ==
  at # "down" /\ seen # <<>> => guard.step = IF BeforeGuard THEN step - 1 ELSE step

(* The updates of w are of earlier runs, or of this one up to step n.      *)
Within(w, n) == \A i \in DOMAIN w : w[i][1] < run \/ (w[i][1] = run /\ w[i][2] <= n)
Applied ==
  /\ \A i \in DOMAIN ckpt.weights : ckpt.weights[i][1] <= run
  /\ at \in {"creating", "initializing"} => Within(ckpt.weights, -1)
  /\ at \notin {"down", "creating", "initializing"} =>
       LET n == IF BeforeUpdate THEN step - 1 ELSE step
       IN  Within(weights, n) /\ Within(ckpt.weights, n)

Halting ==
  halted => mode = "halt" /\ BadRow /\ Within(weights, step - 1) /\ Within(ckpt.weights, step - 1)

OuterInv == OuterTypeOK /\ Tenancy /\ Course /\ Counting /\ Position /\ Applied /\ Halting

-----------------------------------------------------------------------------
(* A row of bad batches is one of the last streak batches.                 *)
LEMMA RowOfStreak ==
  ASSUME NEW s \in Seq(BOOLEAN), NEW n \in 0..Len(s), NEW k \in Nat \ {0},
         \A i \in Len(s) - n + 1..Len(s) : s[i],
         n < Len(s) => ~s[Len(s) - n]
  PROVE  n >= k <=> (Len(s) >= k /\ \A i \in Len(s) - k + 1..Len(s) : s[i])
<1>1. Len(s) \in Nat /\ n \in Nat  OBVIOUS
<1>2. ASSUME n >= k
      PROVE  Len(s) >= k /\ \A i \in Len(s) - k + 1..Len(s) : s[i]
  BY <1>1, <1>2
<1>3. ASSUME n < k, Len(s) >= k
      PROVE  \E i \in Len(s) - k + 1..Len(s) : ~s[i]
  <2>1. Len(s) - n \in Len(s) - k + 1..Len(s) /\ n < Len(s)  BY <1>1, <1>3
  <2> QED  BY <2>1
<1> QED  BY <1>1, <1>2, <1>3

(* One more batch: a bad one lengthens the row, a good one ends it.        *)
LEMMA OneMore ==
  ASSUME NEW s \in Seq(BOOLEAN), NEW n \in 0..Len(s), NEW bad \in BOOLEAN,
         \A i \in Len(s) - n + 1..Len(s) : s[i],
         n < Len(s) => ~s[Len(s) - n],
         NEW t, t = Append(s, bad), NEW m, m = IF bad THEN n + 1 ELSE 0
  PROVE  /\ t \in Seq(BOOLEAN) /\ t # <<>> /\ m \in 0..Len(t)
         /\ \A i \in Len(t) - m + 1..Len(t) : t[i]
         /\ m < Len(t) => ~t[Len(t) - m]
<1>1. /\ t \in Seq(BOOLEAN) /\ t # <<>> /\ Len(t) = Len(s) + 1 /\ t[Len(s) + 1] = bad
      /\ \A i \in 1..Len(s) : t[i] = s[i]
  BY AppendProperties
<1>2. Len(s) \in Nat /\ n \in Nat  OBVIOUS
<1>3. CASE bad
  <2>1. m = n + 1 /\ Len(t) - m = Len(s) - n  BY <1>1, <1>2, <1>3
  <2>2. ASSUME NEW i \in Len(t) - m + 1..Len(t)
        PROVE  t[i]
    <3>1. i = Len(s) + 1 \/ i \in Len(s) - n + 1..Len(s)  BY <1>1, <1>2, <2>1
    <3>2. ASSUME i \in Len(s) - n + 1..Len(s) PROVE t[i] = s[i] /\ s[i]
      BY <3>2, <1>1, <1>2
    <3> QED  BY <3>1, <3>2, <1>1, <1>3
  <2>3. ASSUME m < Len(t)
        PROVE  ~t[Len(t) - m]
    <3>1. n < Len(s) /\ Len(s) - n \in 1..Len(s)  BY <2>1, <2>3, <1>1, <1>2
    <3> QED  BY <3>1, <2>1, <1>1
  <2> QED  BY <1>1, <1>2, <2>1, <2>2, <2>3
<1>4. CASE ~bad
  BY <1>1, <1>2, <1>4
<1> QED  BY <1>3, <1>4

(* What Within says survives a later bound, and one more update at it.     *)
LEMMA WithinGrows ==
  ASSUME NEW w \in Updates, NEW n \in Int, NEW k \in Int, n <= k, Within(w, n)
  PROVE  Within(w, k)
<1>1. \A i \in DOMAIN w : w[i][2] \in Nat
  BY ElementOfSeq DEF Updates
<1> QED  BY <1>1 DEF Within

LEMMA OuterInitially == OuterInit => OuterInv
<1> SUFFICES ASSUME OuterInit PROVE OuterInv
  OBVIOUS
<1> USE DEF OuterInit
<1>1. OuterTypeOK
  <2>1. <<>> \in Updates /\ <<>> \in Seq(BOOLEAN)  BY DEF Updates
  <2>2. ckpt \in [step : Nat, weights : Updates]  BY <2>1
  <2>3. guard \in [step : Nat \cup {-1}, streak : Nat]  BY DEF NoGuard
  <2>4. run \in 0..MaxStarts  BY StepAssumption
  <2>5. {called, failed, halted} \subseteq BOOLEAN OBVIOUS
  <2> QED  BY <2>1, <2>2, <2>3, <2>4, <2>5 DEF OuterTypeOK
<1>2. Tenancy /\ Course /\ Counting /\ Position /\ Applied /\ Halting
  BY DEF Tenancy, Course, Counting, Position, Applied, Halting, Rolling
<1> QED  BY <1>1, <1>2 DEF OuterInv

(* The constants of a type are facts for every action.                     *)
LEMMA StepTypes ==
  ASSUME OuterInv
  PROVE  /\ step \in Nat /\ run \in Nat /\ weights \in Updates /\ ckpt.weights \in Updates
         /\ ckpt.step \in Nat /\ seen \in Seq(BOOLEAN) /\ guard.streak \in Nat
         /\ guard.step \in Int
BY StepAssumption DEF OuterInv, OuterTypeOK

LEMMA EmptyUpdates == <<>> \in Updates /\ <<>> \in Seq(BOOLEAN)
BY DEF Updates

LEMMA StartKeeps == ASSUME OuterInv, Start PROVE OuterInv'
<1>1. /\ at = "down" /\ at' = "creating" /\ run' = run + 1 /\ run < MaxStarts
      /\ guard' = NoGuard /\ seen' = <<>> /\ halted' = FALSE /\ sim' = "awake" /\ replicas' = Asleep
      /\ called' = FALSE /\ failed' = FALSE /\ UNCHANGED <<purpose, weights, step, ckpt>>
  BY DEF Start
<1>2. OuterTypeOK'
  <2>1. run' \in 0..MaxStarts  BY <1>1, StepTypes, StepAssumption
  <2>2. guard' \in [step : Nat \cup {-1}, streak : Nat]  BY <1>1 DEF NoGuard
  <2>3. seen' \in Seq(BOOLEAN)  BY <1>1, EmptyUpdates
  <2> QED  BY <1>1, <2>1, <2>2, <2>3 DEF OuterInv, OuterTypeOK
<1>3. Tenancy' /\ Course' /\ Position' /\ Halting'
  BY <1>1 DEF Tenancy, Course, Position, Halting, Rolling
<1>4. Counting'
  BY <1>1, StepAssumption DEF Counting, TrailingBad, NoGuard
<1>5. Applied'
  <2>1. \A i \in DOMAIN ckpt.weights : ckpt.weights[i][1] \in Nat /\ ckpt.weights[i][1] <= run
    BY StepTypes, ElementOfSeq DEF OuterInv, Applied, Updates
  <2>2. \A i \in DOMAIN ckpt'.weights : ckpt'.weights[i][1] < run' /\ ckpt'.weights[i][1] <= run'
    BY <1>1, <2>1, StepTypes
  <2> QED  BY <1>1, <2>2 DEF Applied, Within
<1> QED  BY <1>2, <1>3, <1>4, <1>5 DEF OuterInv

LEMMA CrashKeeps == ASSUME OuterInv, Crash PROVE OuterInv'
BY StepTypes, StepAssumption
DEF Crash, gpu, progress, OuterInv, OuterTypeOK, Tenancy, Course, Counting, Position, Applied,
    Halting,
    Rolling, BeforeGuard, BeforeUpdate, TrailingBad, Within, BadRow, NoGuard, Updates

LEMMA SetSleepingKeeps == ASSUME OuterInv, SetSleeping PROVE OuterInv'
BY StepTypes, StepAssumption
DEF SetSleeping, Calling, Target, progress, OuterInv, OuterTypeOK, Tenancy, Course, Counting,
    Position, Applied, Halting,
    Rolling, BeforeGuard, BeforeUpdate, TrailingBad, Within, BadRow, NoGuard, Updates

LEMMA CreateKeeps == ASSUME OuterInv, Create PROVE OuterInv'
BY StepTypes, StepAssumption, EmptyUpdates
DEF Create, Reached, Calling, Target, progress, OuterInv, OuterTypeOK, Tenancy, Course,
    Counting, Position, Applied, Halting,
    Rolling, BeforeGuard, BeforeUpdate, TrailingBad, Within, BadRow, NoGuard, Updates

LEMMA BeginRolloutKeeps == ASSUME OuterInv, BeginRollout PROVE OuterInv'
BY StepTypes, StepAssumption
DEF BeginRollout, Reached, Calling, Target, gpu, progress, OuterInv, OuterTypeOK, Tenancy,
    Course, Counting, Position, Applied, Halting,
    Rolling, BeforeGuard, BeforeUpdate, TrailingBad, Within, BadRow, NoGuard, Updates

LEMMA EndRolloutKeeps == ASSUME OuterInv, EndRollout PROVE OuterInv'
BY StepTypes, StepAssumption
DEF EndRollout, gpu, progress, OuterInv, OuterTypeOK, Tenancy, Course, Counting, Position,
    Applied, Halting,
    Rolling, BeforeGuard, BeforeUpdate, TrailingBad, Within, BadRow, NoGuard, Updates

LEMMA NextStepKeeps ==
  ASSUME OuterInv, NextStep, at \in Rolling \cup {"publishing"},
         at # "publishing" => purpose # "train",
         called' \in BOOLEAN, failed' \in BOOLEAN,
         replicas' = weights, UNCHANGED <<sim, weights, guard, ckpt, run, seen, halted>>
  PROVE  OuterInv'
<1>1. ~BeforeUpdate /\ at \notin {"down", "creating", "initializing"}
  BY DEF BeforeUpdate, BeforeGuard, Rolling
<1>2. CASE IsLastStep
  <2>1. at' = "done" /\ UNCHANGED <<purpose, step>>  BY <1>2 DEF NextStep
  <2>2. OuterTypeOK'  BY <2>1, StepTypes DEF OuterInv, OuterTypeOK
  <2>3. Tenancy' /\ Course' /\ Counting' /\ Halting'
    BY <2>1, <1>1 DEF OuterInv, Tenancy, Course, Counting, Halting, TrailingBad, Rolling
  <2>4. Position' /\ Applied'
    BY <2>1, <1>1
    DEF OuterInv, Position, Applied, Within, BeforeGuard, BeforeUpdate, Rolling
  <2> QED  BY <2>2, <2>3, <2>4 DEF OuterInv
<1>3. CASE ~IsLastStep
  <2>0. OuterTypeOK'
    BY <1>3, StepTypes DEF NextStep, Generate, OuterInv, OuterTypeOK
  <2>1. at' = "waking" /\ purpose' = "train" /\ step' = step + 1 /\ BeforeGuard' /\ BeforeUpdate'
    BY <1>3 DEF NextStep, Generate, BeforeGuard, BeforeUpdate, Rolling
  <2>2. step' - 1 = step  BY <2>1, StepTypes
  <2>3. Tenancy' /\ Course' /\ Counting' /\ Halting'
    BY <2>1, <1>1, StepTypes
    DEF OuterInv, Tenancy, Course, Counting, Halting, TrailingBad, Rolling
  <2>4. Position' /\ Applied'
    BY <2>1, <2>2, <1>1 DEF OuterInv, Position, Applied, Within, BeforeUpdate
  <2> QED  BY <2>0, <2>3, <2>4 DEF OuterInv
<1> QED  BY <1>2, <1>3

LEMMA RestedKeeps == ASSUME OuterInv, Rested PROVE OuterInv'
<1>0. at = "resting" /\ sim = "asleep" /\ replicas = weights /\ ~halted
  BY DEF Rested, Reached, Target, OuterInv, Tenancy, Course, Rolling
<1>1. CASE failed
  BY <1>0, <1>1, StepTypes
  DEF Rested, gpu, OuterInv, OuterTypeOK, Tenancy, Course, Counting, Position, Applied,
      Halting, Rolling
<1>2. CASE ~failed /\ purpose = "train"
  BY <1>0, <1>2, StepTypes
  DEF Rested, gpu, OuterInv, OuterTypeOK, Tenancy, Course, Counting, Position, Applied,
      Halting, Rolling,
      BeforeGuard, BeforeUpdate, TrailingBad, Within
<1>3. CASE ~failed /\ purpose # "train"
  <2>1. called' \in BOOLEAN /\ failed' \in BOOLEAN  BY DEF Rested
  <2> QED  BY <1>0, <1>3, <2>1, NextStepKeeps DEF Rested, gpu, Rolling
<1> QED  BY <1>1, <1>2, <1>3

LEMMA ReleaseKeeps == ASSUME OuterInv, Release PROVE OuterInv'
BY StepTypes, StepAssumption
DEF Release, progress, OuterInv, OuterTypeOK, Tenancy, Course, Counting, Position, Applied, Halting,
    Rolling, BeforeGuard, BeforeUpdate, TrailingBad, Within, BadRow, NoGuard, Updates

LEMMA RestoreKeeps == ASSUME OuterInv, Restore PROVE OuterInv'
<1>1. /\ at = "initializing" /\ at' = "publishing" /\ purpose' = "initial" /\ replicas' = Asleep
      /\ weights' = ckpt.weights /\ step' = ckpt.step
      /\ UNCHANGED <<called, failed, sim, guard, ckpt, run, seen, halted>>
  BY DEF Restore
<1>2. OuterTypeOK'  BY <1>1, StepTypes DEF OuterInv, OuterTypeOK
<1>3. Tenancy' /\ Course' /\ Counting' /\ Position' /\ Halting'
  BY <1>1 DEF OuterInv, Tenancy, Course, Counting, Position, Halting, TrailingBad, Rolling
<1>4. Applied'
  <2>1. ~BeforeUpdate'  BY <1>1 DEF BeforeUpdate, BeforeGuard
  <2>2. Within(ckpt.weights, -1)  BY <1>1 DEF OuterInv, Applied
  <2>3. Within(ckpt.weights, ckpt.step)  BY <2>2, StepTypes, WithinGrows
  <2> QED  BY <1>1, <2>1, <2>3 DEF OuterInv, Applied, Within
<1> QED  BY <1>2, <1>3, <1>4 DEF OuterInv

LEMMA JudgeKeeps == ASSUME OuterInv, Judge PROVE OuterInv'
<1>0. at = "judging" /\ UNCHANGED <<purpose, called, failed, gpu, weights, step, ckpt, run>>
  BY DEF Judge
<1>1. purpose = "train" /\ BeforeGuard /\ BeforeUpdate /\ sim = "asleep" /\ replicas = Asleep
      /\ Within(weights, step - 1) /\ Within(ckpt.weights, step - 1)
  BY <1>0 DEF OuterInv, Tenancy, Course, Applied, BeforeGuard, BeforeUpdate
<1> PICK bad \in BOOLEAN, effective \in BOOLEAN :
      LET streak == Streak(bad)
          halt == mode = "halt" /\ streak >= consecutive_steps
      IN /\ seen' = Append(seen, bad) /\ halted' = halt
         /\ guard' = IF halt THEN guard ELSE [step |-> step, streak |-> streak]
         /\ at' = IF halt THEN "down" ELSE IF effective THEN "updating" ELSE After
  BY DEF Judge
<1> DEFINE n == guard.streak
           halt == mode = "halt" /\ Streak(bad) >= consecutive_steps
<1>2. n \in 0..Len(seen) /\ TrailingBad(n)  BY <1>0 DEF OuterInv, Counting, TrailingBad
<1>3. Streak(bad) = IF bad THEN n + 1 ELSE 0
  <2>1. CASE seen = <<>>
    <3>1. n = 0  BY <1>2, <2>1
    <3> QED  BY <3>1 DEF Streak
  <2>2. CASE seen # <<>>
    <3>1. guard.step = step - 1  BY <2>2, <1>0, <1>1 DEF OuterInv, Position
    <3> QED  BY <3>1, StepTypes DEF Streak
  <2> QED  BY <2>1, <2>2
<1>4. /\ seen' \in Seq(BOOLEAN) /\ seen' # <<>> /\ Streak(bad) \in 0..Len(seen')
      /\ \A i \in Len(seen') - Streak(bad) + 1..Len(seen') : seen'[i]
      /\ Streak(bad) < Len(seen') => ~seen'[Len(seen') - Streak(bad)]
  BY <1>2, <1>3, StepTypes, OneMore DEF TrailingBad
<1>5. (Streak(bad) >= consecutive_steps) <=> BadRow'
  BY <1>4, StepAssumption, RowOfStreak DEF BadRow
<1>6. CASE halt
  <2>1. at' = "down" /\ halted' = TRUE /\ guard' = guard  BY <1>6
  <2>2. OuterTypeOK'  BY <1>0, <1>4, <2>1 DEF gpu, OuterInv, OuterTypeOK
  <2>3. Tenancy' /\ Course' /\ Counting' /\ Position'
    BY <2>1 DEF Tenancy, Course, Counting, Position, Rolling
  <2>4. Applied' /\ Halting'
    BY <1>0, <1>1, <1>5, <1>6, <2>1 DEF OuterInv, Applied, Halting, Within
  <2> QED  BY <2>2, <2>3, <2>4 DEF OuterInv
<1>7. CASE ~halt
  <2>1. /\ at' \in {"updating", "saving", "publishing"} /\ halted' = FALSE
        /\ guard' = [step |-> step, streak |-> Streak(bad)]
    BY <1>7 DEF After
  <2>2. OuterTypeOK'
    <3>1. guard' \in [step : Nat \cup {-1}, streak : Nat]  BY <2>1, <1>4, StepTypes
    <3> QED  BY <1>0, <1>4, <2>1, <3>1 DEF gpu, OuterInv, OuterTypeOK
  <2>3. Tenancy' /\ Course' /\ Position' /\ Halting'
    BY <1>0, <1>1, <2>1 DEF gpu, Tenancy, Course, Position, Halting, Rolling, BeforeGuard
  <2>4. Counting'
    <3>1. mode = "halt" => Streak(bad) < consecutive_steps
      BY <1>4, <1>7, StepAssumption
    <3> QED  BY <1>4, <2>1, <3>1 DEF Counting, TrailingBad
  <2>5. Within(weights, step) /\ Within(ckpt.weights, step)
    BY <1>1, StepTypes, WithinGrows
  <2>6. Applied'
    BY <1>0, <1>1, <2>1, <2>5 DEF OuterInv, Applied, Within
  <2> QED  BY <2>2, <2>3, <2>4, <2>6 DEF OuterInv
<1> QED  BY <1>6, <1>7

LEMMA UpdateActorKeeps == ASSUME OuterInv, UpdateActor PROVE OuterInv'
<1>1. /\ at = "updating" /\ at' \in {"saving", "publishing"} /\ weights' = Append(weights, <<run, step>>)
      /\ UNCHANGED <<purpose, called, failed, sim, replicas, step, guard, ckpt, run, seen, halted>>
  BY DEF UpdateActor, After, gpu
<1>2. /\ purpose = "train" /\ sim = "asleep" /\ replicas = Asleep /\ BeforeUpdate /\ ~BeforeGuard
      /\ Within(weights, step - 1) /\ Within(ckpt.weights, step - 1) /\ ~BeforeUpdate' /\ ~BeforeGuard'
  BY <1>1 DEF OuterInv, Tenancy, Course, Applied, BeforeUpdate, BeforeGuard, Rolling
<1>3. /\ weights' \in Updates /\ Len(weights') = Len(weights) + 1
      /\ weights'[Len(weights) + 1] = <<run, step>>
      /\ \A i \in 1..Len(weights) : weights'[i] = weights[i]
  BY <1>1, StepTypes, AppendProperties DEF Updates
<1>4. OuterTypeOK'  BY <1>1, <1>3 DEF OuterInv, OuterTypeOK
<1>5. Tenancy' /\ Course' /\ Counting' /\ Position' /\ Halting'
  BY <1>1, <1>2 DEF OuterInv, Tenancy, Course, Counting, Position, Halting, TrailingBad, Rolling
<1>6. Within(weights, step) /\ Within(ckpt.weights, step)
  BY <1>2, StepTypes, WithinGrows
<1>7. Within(weights, step)'
  <2>1. \A i \in DOMAIN weights' : i \in DOMAIN weights \/ i = Len(weights) + 1
    BY <1>3, StepTypes DEF Updates
  <2>2. DOMAIN weights = 1..Len(weights)  BY StepTypes DEF Updates
  <2> QED  BY <1>1, <1>3, <1>6, <2>1, <2>2, StepTypes DEF Within
<1>8. Applied'
  BY <1>1, <1>2, <1>6, <1>7 DEF OuterInv, Applied, Within
<1> QED  BY <1>4, <1>5, <1>8 DEF OuterInv

LEMMA SaveCheckpointKeeps == ASSUME OuterInv, SaveCheckpoint PROVE OuterInv'
<1>1. /\ at = "saving" /\ at' = "publishing" /\ ckpt' = [step |-> step, weights |-> weights]
      /\ UNCHANGED <<purpose, called, failed, sim, replicas, weights, step, guard, run, seen, halted>>
  BY DEF SaveCheckpoint, gpu
<1>2. ckpt' \in [step : Nat, weights : Updates] /\ ckpt'.weights = weights  BY <1>1, StepTypes
<1>3. OuterTypeOK'  BY <1>1, <1>2 DEF OuterInv, OuterTypeOK
<1>4. Tenancy' /\ Course' /\ Counting' /\ Position' /\ Halting'
  BY <1>1 DEF OuterInv, Tenancy, Course, Counting, Position, Halting, TrailingBad, Rolling,
     BeforeGuard
<1>5. Within(weights, step) /\ ~BeforeUpdate'
  BY <1>1 DEF OuterInv, Applied, BeforeUpdate, BeforeGuard, Rolling
<1>6. Applied'
  <2>1. \A i \in DOMAIN weights : weights[i][1] \in Nat  BY StepTypes, ElementOfSeq DEF Updates
  <2>2. \A i \in DOMAIN weights : weights[i][1] <= run  BY <1>5, <2>1, StepTypes DEF Within
  <2> QED  BY <1>1, <1>2, <1>5, <2>2 DEF Applied, Within
<1> QED  BY <1>3, <1>4, <1>6 DEF OuterInv

LEMMA UpdateWeightsKeeps == ASSUME OuterInv, UpdateWeights PROVE OuterInv'
<1>1. /\ at = "publishing" /\ replicas' = weights /\ sim = "asleep" /\ ~BeforeUpdate /\ ~halted
      /\ UNCHANGED <<called, failed, sim, weights, guard, ckpt, run, seen, halted>>
  BY DEF UpdateWeights, BeforeUpdate, BeforeGuard, Rolling, OuterInv, Tenancy, Course
<1>2. CASE at' = "waking" /\ purpose' \in {"initial", "validate"} /\ UNCHANGED step
           /\ (purpose' = "initial" => purpose = "initial")
  <2>1. ~BeforeUpdate' /\ ~BeforeGuard' /\ ~BeforeGuard  BY <1>1, <1>2 DEF BeforeUpdate, BeforeGuard
  <2>2. OuterTypeOK'  BY <1>1, <1>2, StepTypes DEF OuterInv, OuterTypeOK
  <2>3. Tenancy' /\ Course' /\ Counting' /\ Position' /\ Halting'
    BY <1>1, <1>2, <2>1
    DEF OuterInv, Tenancy, Course, Counting, Position, Halting, TrailingBad, Rolling
  <2>4. Applied'  BY <1>1, <1>2, <2>1 DEF OuterInv, Applied, Within
  <2> QED  BY <2>2, <2>3, <2>4 DEF OuterInv
<1>3. CASE NextStep
  <2>1. called' \in BOOLEAN /\ failed' \in BOOLEAN  BY <1>1 DEF OuterInv, OuterTypeOK
  <2> QED  BY <1>1, <1>3, <2>1, NextStepKeeps DEF Rolling
<1> QED  BY <1>2, <1>3 DEF UpdateWeights, Generate

-----------------------------------------------------------------------------
(* The strengthening holds in every reachable state.                       *)
THEOREM OuterInvariant == OuterSpec => []OuterInv
<1>1. OuterInv /\ [OuterNext]_outerVars => OuterInv'
  <2> SUFFICES ASSUME OuterInv, [OuterNext]_outerVars PROVE OuterInv'
    OBVIOUS
  <2>1. CASE UNCHANGED outerVars
    BY <2>1 DEF outerVars, OuterInv, OuterTypeOK, Tenancy, Course, Counting, Position, Applied,
       Halting,
                Rolling, BeforeGuard, BeforeUpdate, TrailingBad, Within, BadRow
  <2> QED  BY <2>1, StartKeeps, CrashKeeps, SetSleepingKeeps, CreateKeeps, RestoreKeeps,
              BeginRolloutKeeps, EndRolloutKeeps, RestedKeeps, ReleaseKeeps, JudgeKeeps,
              UpdateActorKeeps, SaveCheckpointKeeps, UpdateWeightsKeeps DEF OuterNext
<1> QED  BY OuterInitially, <1>1, PTL DEF OuterSpec

(* Every variable keeps its range.                                         *)
THEOREM OuterTypeCorrect == OuterSpec => []OuterTypeOK
<1>1. OuterInv => OuterTypeOK  BY DEF OuterInv
<1> QED  BY <1>1, OuterInvariant, PTL

(* The tenants of the memory never meet, and every rollout is on policy.   *)
THEOREM NeverMeet == OuterSpec => []MemoryShared
<1>1. OuterInv => MemoryShared  BY DEF OuterInv, Tenancy, Rolling, MemoryShared
<1> QED  BY <1>1, OuterInvariant, PTL

(* The guard halts on exactly consecutive_steps bad batches in a row, and  *)
(* the batch it halts at is in no weights.                                 *)
THEOREM GuardIsExact == OuterSpec => []GuardExact
<1>1. ASSUME OuterInv
      PROVE  GuardExact
  <2>1. ASSUME at = "updating", mode = "halt"
        PROVE  ~BadRow
    <3>1. TrailingBad(guard.streak) /\ guard.streak < consecutive_steps
      BY <1>1, <2>1 DEF OuterInv, Counting
    <3>2. ~(guard.streak >= consecutive_steps)  BY <3>1, <1>1, StepTypes, StepAssumption
    <3> QED  BY <3>1, <3>2, <1>1, StepTypes, StepAssumption, RowOfStreak DEF TrailingBad, BadRow
  <2>2. ASSUME halted
        PROVE  /\ mode = "halt" /\ BadRow
               /\ \A i \in DOMAIN weights : weights[i] # <<run, step>>
               /\ \A i \in DOMAIN ckpt.weights : ckpt.weights[i] # <<run, step>>
    BY <1>1, <2>2, StepTypes DEF OuterInv, Halting, Within
  <2> QED  BY <2>1, <2>2 DEF GuardExact
<1> QED  BY <1>1, OuterInvariant, PTL
===============================================================================
