----------------------- MODULE BoundedEvaluation_proofs ----------------------
(***************************************************************************)
(* Theorems about BoundedEvaluation for any arms, tasks, request files and *)
(* limits.  Course is about the run's folder and its one controller,       *)
(* Planned about the first attempts, Retried about the later ones, and     *)
(* Concluded about what the end says of both.                              *)
(***************************************************************************)
EXTENDS BoundedEvaluation, FiniteSetTheorems, SequenceTheorems, TLAPS

Live == {"user", "arms", "serving", "evaluating", "recording", "queue"}
First == {k \in Keys : k.attempt = 0}
Later == Keys \ First

(* TypeOK, with the rest of the plan spelt out.                            *)
Ranges ==
  /\ {started, gpu_workloads_stopped, late} \subseteq BOOLEAN
  /\ status \in {"absent", "starting_user", "starting_policy", "evaluating", "arm_complete",
                 "awaiting_drift_review", "retry_request_rejected", "complete",
                 "stopped_for_review"}
  /\ exit \in {"absent", "0", "1"}
  /\ rejected \subseteq used /\ used \subseteq written /\ written \subseteq Files
  /\ ledger \subseteq Keys /\ completed \subseteq Keys /\ work \subseteq Keys
  /\ alive \subseteq {"user", "policy", "evaluation"} /\ leaked \subseteq {"user", "policy", "evaluation"}
  /\ main \in Live \cup {"down", "failed", "finally"}
  /\ additional \in 0..max_additional_trajectories /\ interrupts \in 0..MaxInterrupts
  /\ attempts \in Nat /\ begun \in [Keys -> Nat]
  /\ todo \in Seq(ToSet(Arms)) /\ Len(todo) <= Len(Arms)
  /\ \A i \in 1..Len(todo) : todo[i] = Arms[Len(Arms) - Len(todo) + i]

(* Before the marker nothing has happened.                                 *)
Cold ==
  /\ main = "down" /\ status = "absent" /\ ~gpu_workloads_stopped /\ exit = "absent"
  /\ rejected = {} /\ ledger = {} /\ alive = {} /\ leaked = {}
  /\ attempts = 0 /\ \A k \in Keys : begun[k] = 0

Course ==
  /\ ~started => Cold
  /\ attempts <= 1 /\ (main = "user" => attempts = 0)
  /\ main # "down" => ~gpu_workloads_stopped /\ exit = "absent"
  /\ gpu_workloads_stopped => alive \subseteq leaked
  /\ ledger = completed

(* A first attempt is started from the plan, once.                         *)
Planned ==
  /\ main \in {"recording", "queue"} => todo = <<>>
  /\ todo # <<>> => work \subseteq First
  /\ main \in Live => \A k \in First :
       /\ k.arm \in ToSet(todo) => begun[k] = 0 /\ k \notin work
       /\ k.arm \notin ToSet(todo) => begun[k] = 1 \/ (main = "serving" /\ k \in work)
  /\ main = "serving" => \A k \in work : begun[k] = 0
  /\ main \in {"evaluating", "recording"} => \A k \in work : begun[k] = 1
  /\ \A k \in Keys : begun[k] <= 1

(* The retries started, and those about to be.                             *)
Chosen == {k \in Later : begun[k] > 0 \/ (main = "serving" /\ k \in work)}
Authorized == {Key(f) : f \in used \ rejected}

(* A retry was asked for, once, after the attempt before was done with.    *)
Retried ==
  /\ \A k, l \in work : k.attempt = l.attempt
  /\ main = "recording" => work \subseteq Later
  /\ completed \subseteq Later /\ \A k \in completed : begun[k] = 1
  /\ main \in Live => \A k \in Later : begun[k] > 0 =>
       k \in completed \/ (main \in {"evaluating", "recording"} /\ k \in work)
  /\ Chosen \subseteq Authorized
  /\ \A k \in Chosen : /\ Before(k) \in Keys /\ begun[Before(k)] > 0 /\ Before(k) \notin work
                       /\ k.attempt > 1 => Before(k) \in completed
  /\ Cardinality(Authorized) <= additional

Concluded ==
  /\ status = "complete" =>
       /\ main \in {"finally", "down"} /\ \A k \in First : begun[k] = 1
       /\ \A k \in Later : begun[k] > 0 => k \in ledger
  /\ exit = "0" => status = "complete"

Inv == Ranges /\ Course /\ Planned /\ Retried /\ Concluded
-----------------------------------------------------------------------------
LEMMA KeyForms ==
  /\ \A k \in Keys : /\ k.arm \in ToSet(Arms) /\ k.task \in Tasks /\ k.attempt \in Nat
                     /\ k.attempt < max_attempts_per_cell
                     /\ k = [arm |-> k.arm, task |-> k.task, attempt |-> k.attempt]
  /\ \A k \in Later : /\ k.attempt > 0 /\ Before(k) \in Keys
                      /\ Before(k).attempt = k.attempt - 1
                      /\ Before(k).arm = k.arm /\ Before(k).task = k.task
  /\ \A f \in Files : /\ Requests[f].arm \in ToSet(Arms) /\ Requests[f].task \in Tasks
                      /\ Requests[f].attempt \in Nat
                      /\ Key(f).attempt = Requests[f].attempt + 1
                      /\ Plausible(f) => Key(f) \in Later
<1>. USE EvaluationAssumption
<1>1. \A k \in Keys : /\ k.arm \in ToSet(Arms) /\ k.task \in Tasks /\ k.attempt \in Nat
                      /\ k.attempt < max_attempts_per_cell
                      /\ k = [arm |-> k.arm, task |-> k.task, attempt |-> k.attempt]
  BY DEF Keys
<1>2. ASSUME NEW k \in Later
      PROVE  /\ k.attempt > 0 /\ Before(k) \in Keys /\ Before(k).attempt = k.attempt - 1
             /\ Before(k).arm = k.arm /\ Before(k).task = k.task
  <2>1. k \in Keys /\ k.attempt # 0  BY DEF Later, First
  <2>2. k.attempt \in Nat /\ k.attempt > 0 /\ k.attempt < max_attempts_per_cell  BY <1>1, <2>1
  <2>3. Before(k) = [arm |-> k.arm, task |-> k.task, attempt |-> k.attempt - 1]
    BY <1>1, <2>1 DEF Before
  <2>4. k.attempt - 1 \in 0..max_attempts_per_cell - 1  BY <2>2
  <2>5. Before(k) \in Keys  BY <1>1, <2>1, <2>3, <2>4 DEF Keys
  <2>. QED  BY <2>2, <2>3, <2>5
<1>3. ASSUME NEW f \in Files
      PROVE  /\ Requests[f].arm \in ToSet(Arms) /\ Requests[f].task \in Tasks
             /\ Requests[f].attempt \in Nat /\ Key(f).attempt = Requests[f].attempt + 1
             /\ Plausible(f) => Key(f) \in Later
  <2>1. Requests[f] \in [arm : ToSet(Arms), task : Tasks, attempt : Nat]
    <3>. DEFINE R == [arm : ToSet(Arms), task : Tasks, attempt : Nat]
    <3>1. Requests \in Seq(R)  OBVIOUS
    <3>. HIDE DEF R
    <3>2. f \in 1..Len(Requests)  BY <3>1 DEF Files
    <3>3. Requests[f] \in R  BY <3>1, <3>2
    <3>. QED  BY <3>3 DEF R
  <2>2. Key(f).attempt = Requests[f].attempt + 1  BY DEF Key
  <2>3. ASSUME Plausible(f) PROVE Key(f) \in Later
    <3>1. Requests[f].attempt + 1 \in 0..max_attempts_per_cell - 1
      BY <2>1, <2>3 DEF Plausible
    <3>2. Key(f) \in Keys  BY <2>1, <3>1 DEF Key, Keys
    <3>. QED  BY <2>1, <2>2, <3>2 DEF Later, First
  <2>. QED  BY <2>1, <2>2, <2>3
<1>. QED  BY <1>1, <1>2, <1>3

LEMMA InitInv == Init => Inv
<1>. HAVE Init
<1>. USE DEF Init, Live
<1>1. Ranges
  <2>1. todo \in Seq(ToSet(Arms)) /\ Len(todo) = 0  OBVIOUS
  <2>2. Len(todo) <= Len(Arms)  BY <2>1, EvaluationAssumption
  <2>3. \A i \in 1..Len(todo) : todo[i] = Arms[Len(Arms) - Len(todo) + i]  BY <2>1
  <2>4. additional \in 0..max_additional_trajectories /\ interrupts \in 0..MaxInterrupts
    BY EvaluationAssumption
  <2>5. begun \in [Keys -> Nat]  OBVIOUS
  <2>. QED  BY <2>1, <2>2, <2>3, <2>4, <2>5 DEF Ranges
<1>2. Course  BY DEF Course, Cold
<1>3. Planned  BY DEF Planned
<1>4. Retried
  <2>1. Chosen = {}  BY DEF Chosen, Later
  <2>2. Authorized = {}  BY DEF Authorized
  <2>. QED  BY <2>1, <2>2, FS_EmptySet DEF Retried
<1>5. Concluded  BY DEF Concluded
<1>. QED  BY <1>1, <1>2, <1>3, <1>4, <1>5 DEF Inv
-----------------------------------------------------------------------------
(* Steps that touch neither the attempts nor the requests served.          *)
Settled == UNCHANGED <<begun, work, completed, ledger, todo, used, rejected, additional, started>>

LEMMA SettledRetried ==
  ASSUME Inv, Settled, main' = main \/ main' \notin {"serving", "evaluating", "recording"},
         main' \in Live /\ main' # main => main \in Live \ {"evaluating", "recording"}
  PROVE  Retried'
<1>1. Chosen' \subseteq Chosen /\ Authorized' = Authorized
  BY DEF Settled, Chosen, Authorized, Later, First
<1>. QED  BY <1>1 DEF Settled, Inv, Retried, Later, First, Live

LEMMA ReviewInv == Inv /\ Review => Inv'
<1>. HAVE Inv /\ Review
<1>. USE DEF Review, folder, memory
<1>1. Ranges'  BY DEF Inv, Ranges
<1>2. Course'  BY DEF Inv, Course, Cold
<1>3. Planned'  BY DEF Inv, Planned, First
<1>4. Retried'  BY SettledRetried DEF Settled
<1>5. Concluded'  BY DEF Inv, Concluded, First, Later
<1>. QED  BY <1>1, <1>2, <1>3, <1>4, <1>5 DEF Inv

LEMMA DeadlinePassesInv == Inv /\ DeadlinePasses => Inv'
<1>. HAVE Inv /\ DeadlinePasses
<1>. USE DEF DeadlinePasses, folder, memory
<1>1. Ranges'  BY DEF Inv, Ranges
<1>2. Course'  BY DEF Inv, Course, Cold
<1>3. Planned'  BY DEF Inv, Planned, First
<1>4. Retried'  BY SettledRetried DEF Settled
<1>5. Concluded'  BY DEF Inv, Concluded, First, Later
<1>. QED  BY <1>1, <1>2, <1>3, <1>4, <1>5 DEF Inv

LEMMA ChildExitsInv == Inv /\ ChildExits => Inv'
<1>. HAVE Inv /\ ChildExits
<1>. USE DEF ChildExits, folder, memory
<1>1. Ranges'  BY DEF Inv, Ranges
<1>2. Course'  BY DEF Inv, Course, Cold
<1>3. Planned'  BY DEF Inv, Planned, First
<1>4. Retried'  BY SettledRetried DEF Settled
<1>5. Concluded'  BY DEF Inv, Concluded, First, Later
<1>. QED  BY <1>1, <1>2, <1>3, <1>4, <1>5 DEF Inv

LEMMA LaunchUserInv == Inv /\ LaunchUser => Inv'
<1>. HAVE Inv /\ LaunchUser
<1>. USE DEF LaunchUser, folder, memory, Go, Quiet
<1>1. Ranges'  BY DEF Inv, Ranges, Live
<1>2. Course'  BY DEF Inv, Course, Cold
<1>3. Planned'  BY DEF Inv, Planned, First, Live
<1>4. Retried'  BY SettledRetried DEF Settled, Live
<1>5. Concluded'  BY DEF Inv, Concluded, First, Later, Course
<1>. QED  BY <1>1, <1>2, <1>3, <1>4, <1>5 DEF Inv

LEMMA ArmsDoneInv == Inv /\ ArmsDone => Inv'
<1>. HAVE Inv /\ ArmsDone
<1>. USE DEF ArmsDone, folder, memory, Go, Quiet
<1>1. Ranges'  BY DEF Inv, Ranges, Live
<1>2. Course'  BY DEF Inv, Course, Cold
<1>3. Planned'  BY DEF Inv, Planned, First, Live
<1>4. Retried'  BY SettledRetried DEF Settled, Live
<1>5. Concluded'  BY DEF Inv, Concluded, First, Later, Course
<1>. QED  BY <1>1, <1>2, <1>3, <1>4, <1>5 DEF Inv

LEMMA ArmCompleteInv == Inv /\ ArmComplete => Inv'
<1>. HAVE Inv /\ ArmComplete
<1>. USE DEF ArmComplete, folder, memory, Go, Quiet
<1>0. main = "evaluating" /\ main' \in {"arms", "recording"}
      /\ (main' = "arms" => work \subseteq First)
      /\ (main' = "recording" => todo = <<>>)
  BY DEF Inv, Ranges, Planned, First
<1>1. Ranges'  BY <1>0 DEF Inv, Ranges, Live
<1>2. Course'  BY <1>0 DEF Inv, Course, Cold
<1>3. Planned'  BY <1>0 DEF Inv, Planned, First, Live
<1>4. Retried'
  <2>1. Chosen' \subseteq Chosen /\ Authorized' = Authorized
    BY <1>0 DEF Chosen, Authorized, Later, First
  <2>2. main' = "recording" => work \subseteq Later
    BY KeyForms DEF Inv, Ranges, Retried, Later, First
  <2>. QED  BY <1>0, <2>1, <2>2 DEF Inv, Retried, Later, First, Live
<1>5. Concluded'  BY <1>0 DEF Inv, Concluded, First, Later, Course
<1>. QED  BY <1>1, <1>2, <1>3, <1>4, <1>5 DEF Inv

LEMMA QueueEndsInv == Inv /\ QueueEnds => Inv'
<1>. HAVE Inv /\ QueueEnds
<1>. USE DEF QueueEnds, folder, memory, Go, Quiet
<1>1. Ranges'  BY DEF Inv, Ranges, Live
<1>2. Course'  BY DEF Inv, Course, Cold
<1>3. Planned'  BY DEF Inv, Planned, First, Live
<1>4. Retried'  BY SettledRetried DEF Settled, Live
<1>5. Concluded'
  <2>1. todo = <<>> /\ ToSet(todo) = {}  BY DEF Inv, Planned, ToSet
  <2>. QED  BY <2>1 DEF Inv, Concluded, First, Later, Course, Planned, Retried, Live
<1>. QED  BY <1>1, <1>2, <1>3, <1>4, <1>5 DEF Inv

LEMMA RaiseInv == Inv /\ Raise => Inv'
<1>. HAVE Inv /\ Raise
<1>. USE DEF Raise, folder, memory
<1>0. alive' \subseteq alive  BY DEF Unwind
<1>1. Ranges'  BY <1>0 DEF Inv, Ranges, Live
<1>2. Course'  BY <1>0 DEF Inv, Course, Cold
<1>3. Planned'  BY DEF Inv, Planned, First, Live
<1>4. Retried'  BY SettledRetried DEF Settled, Live
<1>5. Concluded'  BY DEF Inv, Concluded, First, Later, Course
<1>. QED  BY <1>1, <1>2, <1>3, <1>4, <1>5 DEF Inv

LEMMA FailedInv == Inv /\ Failed => Inv'
<1>. HAVE Inv /\ Failed
<1>. USE DEF Failed, folder, memory, Go, Quiet
<1>1. Ranges'  BY DEF Inv, Ranges, Live
<1>2. Course'  BY DEF Inv, Course, Cold
<1>3. Planned'  BY DEF Inv, Planned, First, Live
<1>4. Retried'  BY SettledRetried DEF Settled, Live
<1>5. Concluded'  BY DEF Inv, Concluded, First, Later, Course
<1>. QED  BY <1>1, <1>2, <1>3, <1>4, <1>5 DEF Inv

LEMMA StoppedAll == Stopped(3) = {"evaluation", "policy", "user"} \ leaked
<1>. DEFINE s == <<"evaluation", "policy", "user">>
<1>1. \A i \in 1..3 : s[i] \in {"evaluation", "policy", "user"}  OBVIOUS
<1>2. SubSeq(s, 1, 3) \in Seq({"evaluation", "policy", "user"})
      /\ Len(SubSeq(s, 1, 3)) = 3
      /\ \A i \in 1..3 : SubSeq(s, 1, 3)[i] = s[i]
  <2>. HIDE DEF s
  <2>2. /\ SubSeq(s, 1, 3) \in Seq({"evaluation", "policy", "user"})
        /\ Len(SubSeq(s, 1, 3)) = IF 1 <= 3 THEN 3 - 1 + 1 ELSE 0
        /\ \A i \in 1..3 - 1 + 1 : SubSeq(s, 1, 3)[i] = s[1 + i - 1]
    BY <1>1, SubSeqProperties
  <2>. QED  BY <2>2
<1>3. \A c : c \in ToSet(SubSeq(s, 1, 3)) <=> \E i \in 1..3 : c = s[i]
  BY <1>2 DEF ToSet
<1>4. s[1] = "evaluation" /\ s[2] = "policy" /\ s[3] = "user"  OBVIOUS
<1>5. \A c : (\E i \in 1..3 : c = s[i]) <=> c \in {"evaluation", "policy", "user"}
  BY <1>4
<1>. QED  BY <1>3, <1>5 DEF Stopped

LEMMA FinallyInv == Inv /\ Finally => Inv'
<1>. HAVE Inv /\ Finally
<1>. USE DEF Finally, folder, memory
<1>0. alive' \subseteq alive  OBVIOUS
<1>1. Ranges'  BY <1>0 DEF Inv, Ranges, Live
<1>2. Course'  BY <1>0, StoppedAll DEF Inv, Course, Cold, Ranges
<1>3. Planned'  BY DEF Inv, Planned, First, Live
<1>4. Retried'  BY SettledRetried DEF Settled, Live
<1>5. Concluded'  BY DEF Inv, Concluded, First, Later, Course
<1>. QED  BY <1>1, <1>2, <1>3, <1>4, <1>5 DEF Inv

LEMMA KillInv == Inv /\ Kill => Inv'
<1>. HAVE Inv /\ Kill
<1>. USE DEF Kill, folder, memory
<1>1. Ranges'  BY DEF Inv, Ranges, Live
<1>2. Course'  BY DEF Inv, Course, Cold
<1>3. Planned'  BY DEF Inv, Planned, First, Live
<1>4. Retried'  BY SettledRetried DEF Settled, Live
<1>5. Concluded'  BY DEF Inv, Concluded, First, Later, Course
<1>. QED  BY <1>1, <1>2, <1>3, <1>4, <1>5 DEF Inv
-----------------------------------------------------------------------------
LEMMA ToSetMember ==
  ASSUME NEW S, NEW s \in Seq(S)
  PROVE  \A a : a \in ToSet(s) <=> \E i \in 1..Len(s) : s[i] = a
BY DEF ToSet

(* The plan: an arm is taken once, for the names in it are distinct.       *)
LEMMA PlanDistinct ==
  ASSUME Ranges, todo # <<>>
  PROVE  /\ Head(todo) \in ToSet(Arms) /\ Head(todo) \in ToSet(todo)
         /\ Head(todo) \notin ToSet(Tail(todo))
         /\ \A a : a \in ToSet(todo) <=> a = Head(todo) \/ a \in ToSet(Tail(todo))
         /\ Tail(todo) \in Seq(ToSet(Arms)) /\ Len(Tail(todo)) = Len(todo) - 1
         /\ \A i \in 1..Len(Tail(todo)) :
              Tail(todo)[i] = Arms[Len(Arms) - Len(Tail(todo)) + i]
<1>. DEFINE A == ToSet(Arms)
<1>. USE DEF Ranges
<1>0. Arms \in Seq(A) /\ todo \in Seq(A) /\ todo # <<>>  BY EvaluationAssumption
<1>1. /\ Len(todo) \in Nat \ {0} /\ Len(todo) <= Len(Arms) /\ Len(Arms) \in Nat
      /\ \A i \in 1..Len(todo) : todo[i] = Arms[Len(Arms) - Len(todo) + i]
  <2>. HIDE DEF A
  <2>. QED  BY <1>0
<1>2. /\ Head(todo) \in A /\ Head(todo) = todo[1] /\ Tail(todo) \in Seq(A)
      /\ Len(Tail(todo)) = Len(todo) - 1
      /\ \A i \in 1..Len(todo) - 1 : Tail(todo)[i] = todo[i + 1]
  <2>. HIDE DEF A
  <2>. QED  BY <1>0, <1>1, HeadTailProperties
<1>3. \A a : a \in ToSet(todo) <=> \E i \in 1..Len(todo) : todo[i] = a
  BY <1>0, ToSetMember
<1>4. \A a : a \in ToSet(Tail(todo)) <=> \E i \in 1..Len(todo) - 1 : todo[i + 1] = a
  <2>1. \A a : a \in ToSet(Tail(todo)) <=> \E i \in 1..Len(Tail(todo)) : Tail(todo)[i] = a
    BY <1>2, ToSetMember, ZenonT(40)
  <2>. QED  BY <1>2, <2>1
<1>5. \A a : a \in ToSet(todo) <=> a = Head(todo) \/ a \in ToSet(Tail(todo))
  <2>. SUFFICES ASSUME NEW a
                PROVE  (\E i \in 1..Len(todo) : todo[i] = a)
                         <=> a = todo[1] \/ \E i \in 1..Len(todo) - 1 : todo[i + 1] = a
    BY <1>2, <1>3, <1>4
  <2>1. ASSUME NEW i \in 1..Len(todo), todo[i] = a, i # 1
        PROVE  \E j \in 1..Len(todo) - 1 : todo[j + 1] = a
    <3>1. i - 1 \in 1..Len(todo) - 1 /\ (i - 1) + 1 = i  BY <1>1, <2>1
    <3>. QED  BY <2>1, <3>1
  <2>2. ASSUME NEW i \in 1..Len(todo) - 1 PROVE i + 1 \in 1..Len(todo)  BY <1>1
  <2>3. 1 \in 1..Len(todo)  BY <1>1
  <2>. QED  BY <2>1, <2>2, <2>3
<1>6. Head(todo) \notin ToSet(Tail(todo))
  <2>. SUFFICES ASSUME NEW i \in 1..Len(todo) - 1, todo[i + 1] = todo[1] PROVE FALSE
    BY <1>2, <1>4
  <2>1. Arms[Len(Arms) - Len(todo) + (i + 1)] = Arms[Len(Arms) - Len(todo) + 1]
    BY <1>1
  <2>2. /\ Len(Arms) - Len(todo) + (i + 1) \in 1..Len(Arms)
        /\ Len(Arms) - Len(todo) + 1 \in 1..Len(Arms)
    BY <1>1
  <2>3. DOMAIN Arms = 1..Len(Arms)  BY <1>0
  <2>4. Len(Arms) - Len(todo) + (i + 1) = Len(Arms) - Len(todo) + 1
    BY <2>1, <2>2, <2>3, EvaluationAssumption DEF IsInjective
  <2>. QED  BY <2>4, <1>1
<1>7. \A i \in 1..Len(Tail(todo)) : Tail(todo)[i] = Arms[Len(Arms) - Len(Tail(todo)) + i]
  <2>. SUFFICES ASSUME NEW i \in 1..Len(todo) - 1
                PROVE  todo[i + 1] = Arms[Len(Arms) - (Len(todo) - 1) + i]
    BY <1>2
  <2>1. i + 1 \in 1..Len(todo) /\ Len(Arms) - Len(todo) + (i + 1) = Len(Arms) - (Len(todo) - 1) + i
    BY <1>1
  <2>. QED  BY <1>1, <2>1
<1>. QED  BY <1>1, <1>2, <1>3, <1>5, <1>6, <1>7

LEMMA StartInv == Inv /\ Start => Inv'
<1>. HAVE Inv /\ Start
<1>. USE DEF Start, Files_
<1>0. ~started /\ Cold /\ completed = {}  BY DEF Inv, Course, Cold
<1>1. Ranges'
  <2>1. todo' \in Seq(ToSet(Arms)) /\ Len(todo') = Len(Arms) /\ Len(Arms) \in Nat
    BY EvaluationAssumption
  <2>2. \A i \in 1..Len(todo') : todo'[i] = Arms[Len(Arms) - Len(todo') + i]  BY <2>1
  <2>3. Len(todo') <= Len(Arms)  BY <2>1
  <2>4. additional' \in 0..max_additional_trajectories /\ interrupts' \in 0..MaxInterrupts
    BY EvaluationAssumption
  <2>5. rejected' = {}  BY <1>0 DEF Cold
  <2>. QED  BY <2>1, <2>2, <2>3, <2>4, <2>5 DEF Inv, Ranges, Live
<1>2. Course'  BY <1>0 DEF Inv, Course, Cold
<1>3. Planned'
  <2>1. \A k \in First : k.arm \in ToSet(Arms)  BY KeyForms DEF First
  <2>. QED  BY <1>0, <2>1 DEF Inv, Planned, First, Live, Cold
<1>4. Retried'
  <2>1. Chosen' = {}  BY <1>0 DEF Chosen, Later, Cold, Inv, Ranges
  <2>2. Authorized' = {}  BY DEF Authorized
  <2>3. Cardinality(Authorized') = 0 /\ additional' = 0  BY <2>2, FS_EmptySet
  <2>. QED  BY <1>0, <2>1, <2>2, <2>3 DEF Retried, Later, Cold
<1>5. Concluded'  BY <1>0 DEF Inv, Concluded, First, Later, Cold
<1>. QED  BY <1>1, <1>2, <1>3, <1>4, <1>5 DEF Inv

LEMMA NextArmInv == Inv /\ NextArm => Inv'
<1>. HAVE Inv /\ NextArm
<1>. USE DEF NextArm, folder, memory, Go, Quiet, Begin
<1>. DEFINE W == [arm : {Head(todo)}, task : Tasks, attempt : {0}]
<1>0. main = "arms" /\ main' = "serving" /\ started /\ todo # <<>> /\ Ranges
  BY DEF Inv, Course, Cold
<1>a. \A k \in First : k \in W <=> k.arm = Head(todo)
  BY KeyForms DEF First
<1>b. W \subseteq First
  <2>. SUFFICES ASSUME NEW k \in W PROVE k \in First  OBVIOUS
  <2>1. k.arm = Head(todo) /\ k.task \in Tasks /\ k.attempt = 0
        /\ k = [arm |-> k.arm, task |-> k.task, attempt |-> k.attempt]
    OBVIOUS
  <2>2. 0 \in 0..max_attempts_per_cell - 1  BY EvaluationAssumption
  <2>. QED  BY <2>1, <2>2, <1>0, PlanDistinct DEF First, Keys
<1>c. work' = W /\ W \subseteq Keys  BY <1>b DEF First
<1>. HIDE DEF W
<1>1. Ranges'
  <2>1. Len(todo') <= Len(Arms)
    BY <1>0, PlanDistinct, EvaluationAssumption DEF Ranges
  <2>. QED  BY <1>0, <1>c, <2>1, PlanDistinct DEF Ranges, Live
<1>2. Course'  BY <1>0 DEF Inv, Course, Cold
<1>3. Planned'
  <2>1. \A k \in First : /\ k.arm \in ToSet(todo') => begun[k] = 0 /\ k \notin W
                         /\ k.arm \notin ToSet(todo') => begun[k] = 1 \/ k \in W
    BY <1>0, <1>a, PlanDistinct DEF Inv, Planned, Live
  <2>2. \A k \in W : begun[k] = 0
    BY <1>0, <1>a, <1>b, PlanDistinct DEF Inv, Planned, Live
  <2>. QED  BY <1>0, <1>b, <1>c, <2>1, <2>2 DEF Inv, Planned, First, Live
<1>4. Retried'
  <2>0. \A k, l \in W : k.attempt = l.attempt  BY <1>b DEF First
  <2>1. Chosen' \subseteq Chosen /\ Authorized' = Authorized
    BY <1>0, <1>b, <1>c DEF Chosen, Authorized, Later, First
  <2>2. \A k \in W : begun[k] = 0
    BY <1>0, <1>a, <1>b, PlanDistinct DEF Inv, Planned, Live
  <2>3. ASSUME NEW k \in Chosen'
        PROVE  /\ Before(k) \in Keys /\ begun[Before(k)] > 0 /\ Before(k) \notin W
               /\ k.attempt > 1 => Before(k) \in completed
    BY <2>1, <2>2 DEF Inv, Retried
  <2>4. Chosen' \subseteq Authorized'  BY <2>1 DEF Inv, Retried
  <2>5. Cardinality(Authorized') <= additional'  BY <2>1 DEF Inv, Retried
  <2>. QED  BY <1>0, <1>c, <2>0, <2>3, <2>4, <2>5 DEF Inv, Retried, Later, First, Live
<1>5. Concluded'  BY <1>0 DEF Inv, Concluded, First, Later, Course
<1>. QED  BY <1>1, <1>2, <1>3, <1>4, <1>5 DEF Inv

(* The evaluation process starts the trajectories of the work, for the     *)
(* first time.                                                             *)
LEMMA BeganOnce ==
  ASSUME Inv, main = "serving"
  PROVE  /\ Began \in [Keys -> Nat]
         /\ \A k \in Keys : k \in work => Began[k] = 1
         /\ \A k \in Keys : k \notin work => Began[k] = begun[k]
BY DEF Inv, Ranges, Planned, Began

LEMMA LaunchEvaluationInv == Inv /\ LaunchEvaluation => Inv'
<1>. HAVE Inv /\ LaunchEvaluation
<1>. USE DEF LaunchEvaluation, folder, memory, Go, Quiet
<1>0. main = "serving" /\ main' = "evaluating" /\ started /\ begun' = Began /\ work' = work
      /\ work \subseteq Keys
  BY DEF Inv, Course, Cold, Ranges
<1>1. Ranges'  BY <1>0, BeganOnce DEF Inv, Ranges, Live
<1>2. Course'  BY <1>0 DEF Inv, Course, Cold
<1>3. Planned'
  <2>1. \A k \in Keys : Began[k] <= 1  BY <1>0, BeganOnce DEF Inv, Planned
  <2>2. \A k \in First : /\ k.arm \in ToSet(todo) => Began[k] = 0 /\ k \notin work
                         /\ k.arm \notin ToSet(todo) => Began[k] = 1
    BY <1>0, BeganOnce DEF Inv, Planned, First, Live
  <2>. QED  BY <1>0, <2>1, <2>2, BeganOnce DEF Inv, Planned, First, Live
<1>4. Retried'
  <2>1. \A k \in Later : Began[k] > 0 <=> begun[k] > 0 \/ k \in work
    BY <1>0, BeganOnce DEF Later, Inv, Ranges, Planned
  <2>2. Chosen' = Chosen  BY <1>0, <2>1 DEF Chosen, Later, First
  <2>3. Authorized' = Authorized  BY DEF Authorized
  <2>4. \A k \in Later : Began[k] > 0 => k \in completed \/ k \in work
    BY <1>0, <2>1 DEF Inv, Retried, Live
  <2>5. \A k \in Keys : begun[k] > 0 => Began[k] > 0
    BY <1>0, BeganOnce DEF Inv, Ranges
  <2>6. \A k \in completed : Began[k] = 1
    BY <1>0, BeganOnce DEF Inv, Ranges, Retried
  <2>7. \A k \in Chosen : Before(k) \in Keys /\ Began[Before(k)] > 0
    BY <2>5 DEF Inv, Retried
  <2>8. Chosen' \subseteq Authorized'  BY <2>2, <2>3 DEF Inv, Retried
  <2>9. Cardinality(Authorized') <= additional'  BY <2>3 DEF Inv, Retried
  <2>. QED  BY <1>0, <2>2, <2>4, <2>6, <2>7, <2>8, <2>9 DEF Inv, Retried, Later, First
<1>5. Concluded'  BY <1>0 DEF Inv, Concluded, First, Later, Course
<1>. QED  BY <1>1, <1>2, <1>3, <1>4, <1>5 DEF Inv
LEMMA RecordRetryInv == Inv /\ RecordRetry => Inv'
<1>. HAVE Inv /\ RecordRetry
<1>. USE DEF RecordRetry, folder, memory, Go, Quiet
<1>0. main = "recording" /\ main' = "queue" /\ started /\ work \subseteq Keys /\ work' = work
      /\ completed' = completed \cup work /\ ledger' = completed' /\ begun' = begun
  BY DEF Inv, Course, Cold, Ranges
<1>1. Ranges'  BY <1>0 DEF Inv, Ranges, Live
<1>2. Course'  BY <1>0 DEF Inv, Course, Cold
<1>3. Planned'  BY <1>0 DEF Inv, Planned, First, Live
<1>4. Retried'
  <2>1. Chosen' \subseteq Chosen /\ Authorized' = Authorized
    BY <1>0 DEF Chosen, Authorized, Later, First
  <2>2. \A k \in completed' : begun[k] = 1  BY <1>0 DEF Inv, Planned, Retried
  <2>3. work \subseteq Later  BY <1>0 DEF Inv, Retried
  <2>4. \A k \in Chosen' : /\ Before(k) \in Keys /\ begun[Before(k)] > 0 /\ Before(k) \notin work
                           /\ k.attempt > 1 => Before(k) \in completed'
    BY <1>0, <2>1 DEF Inv, Retried
  <2>5. Chosen' \subseteq Authorized'  BY <2>1 DEF Inv, Retried
  <2>6. Cardinality(Authorized') <= additional'  BY <2>1 DEF Inv, Retried
  <2>7. \A k \in Later : begun[k] > 0 => k \in completed'
    BY <1>0 DEF Inv, Retried, Live
  <2>. QED  BY <1>0, <2>2, <2>3, <2>4, <2>5, <2>6, <2>7 DEF Inv, Retried, Later, First
<1>5. Concluded'  BY <1>0 DEF Inv, Concluded, First, Later, Course
<1>. QED  BY <1>1, <1>2, <1>3, <1>4, <1>5 DEF Inv

LEMMA InterruptInv == Inv /\ Interrupt => Inv'
<1>. HAVE Inv /\ Interrupt
<1>. USE DEF Interrupt, folder, memory
<1>0. main # "down" /\ main # "finally" /\ main' \in {"failed", "finally"} /\ started
  BY DEF Inv, Course, Cold
<1>a. interrupts' \in 0..MaxInterrupts
  BY EvaluationAssumption DEF Inv, Ranges
<1>b. status # "complete" /\ exit # "0"  BY <1>0 DEF Inv, Concluded
<1>1. CASE Unwind /\ UNCHANGED <<attempts, begun, leaked>>
  <2>0. alive' \subseteq alive  BY <1>1 DEF Unwind
  <2>1. Ranges'  BY <1>0, <1>1, <1>a, <2>0 DEF Inv, Ranges, Live
  <2>2. Course'  BY <1>0, <1>1 DEF Inv, Course, Cold
  <2>3. Planned'  BY <1>0, <1>1 DEF Inv, Planned, First, Live
  <2>4. Retried'  BY <1>0, <1>1, SettledRetried DEF Settled, Live
  <2>5. Concluded'  BY <1>b DEF Concluded
  <2>. QED  BY <2>1, <2>2, <2>3, <2>4, <2>5 DEF Inv
<1>2. CASE \E c \in Launching \ alive :
             /\ alive' = alive \cup {c} /\ leaked' = leaked \cup {c}
             /\ attempts' = attempts + IF c = "user" THEN 1 ELSE 0
             /\ begun' = IF c = "evaluation" THEN Began ELSE begun
  <2>1. PICK c \in Launching \ alive :
             /\ alive' = alive \cup {c} /\ leaked' = leaked \cup {c}
             /\ attempts' = attempts + IF c = "user" THEN 1 ELSE 0
             /\ begun' = IF c = "evaluation" THEN Began ELSE begun
    BY <1>2
  <2>2. /\ c \in {"user", "policy", "evaluation"}
        /\ c = "user" => main = "user"
        /\ c = "evaluation" => main = "serving"
    BY DEF Launching
  <2>3. attempts' <= 1 /\ attempts' \in Nat
    BY <2>1, <2>2 DEF Inv, Course, Ranges
  <2>4. Course'  BY <1>0, <2>1, <2>3 DEF Inv, Course, Cold
  <2>5. Concluded'  BY <1>b DEF Concluded
  <2>6. CASE c # "evaluation"
    <3>0. begun' = begun  BY <2>1, <2>6
    <3>1. Ranges'  BY <1>0, <1>a, <2>1, <2>2, <2>3, <3>0 DEF Inv, Ranges, Live
    <3>3. Planned'  BY <1>0, <3>0 DEF Inv, Planned, First, Live
    <3>4. Retried'  BY <1>0, <3>0, SettledRetried DEF Settled, Live
    <3>. QED  BY <2>4, <2>5, <3>1, <3>3, <3>4 DEF Inv
  <2>7. CASE c = "evaluation"
    <3>0. begun' = Began /\ main = "serving"  BY <2>1, <2>2, <2>7
    <3>1. Ranges'  BY <1>0, <1>a, <2>1, <2>2, <2>3, <3>0, BeganOnce DEF Inv, Ranges, Live
    <3>3. Planned'
      <4>1. \A k \in Keys : Began[k] <= 1  BY <3>0, BeganOnce DEF Inv, Planned
      <4>. QED  BY <1>0, <3>0, <4>1 DEF Inv, Planned, First, Live
    <3>4. Retried'
      <4>1. Chosen' = Chosen
        BY <1>0, <3>0, BeganOnce DEF Chosen, Later, First, Inv, Ranges, Planned
      <4>2. Authorized' = Authorized  BY DEF Authorized
      <4>3. \A k \in completed : Began[k] = 1  BY <3>0, BeganOnce DEF Inv, Ranges, Retried
      <4>4. \A k \in Keys : begun[k] > 0 => Began[k] > 0
        BY <3>0, BeganOnce DEF Inv, Ranges
      <4>5. \A k \in Chosen : /\ Before(k) \in Keys /\ Began[Before(k)] > 0 /\ Before(k) \notin work
                              /\ k.attempt > 1 => Before(k) \in completed
        BY <4>4 DEF Inv, Retried
      <4>6. Chosen' \subseteq Authorized'  BY <4>1, <4>2 DEF Inv, Retried
      <4>7. Cardinality(Authorized') <= additional'  BY <4>2 DEF Inv, Retried
      <4>. QED  BY <1>0, <3>0, <4>1, <4>3, <4>5, <4>6, <4>7 DEF Inv, Retried, Later, First, Live
    <3>. QED  BY <2>4, <2>5, <3>1, <3>3, <3>4 DEF Inv
  <2>. QED  BY <2>6, <2>7
<1>. QED  BY <1>1, <1>2
-----------------------------------------------------------------------------
(* One turn of the queue.                                                  *)
Turn(refused, bad, group, next) ==
  /\ bad = refused \cup {f \in written \ used : ~Plausible(f)}
  /\ refused \subseteq written \ used
  /\ group \subseteq (written \ used) \ bad
  /\ \A f, g \in group : Key(f).attempt = Key(g).attempt
  /\ next \in {"queue", "failed", "serving", "finally"}
  /\ rejected' = rejected \cup bad /\ main' = next
  /\ used' = used \cup bad \cup IF next = "serving" THEN group ELSE {}
  /\ next = "serving" =>
       /\ Cardinality({Key(f) : f \in group}) >= 0
       /\ Fits(Cardinality({Key(f) : f \in group}))
       /\ work' = {Key(f) : f \in group} /\ alive' = alive \cup {"policy"}
       /\ additional' = additional + Cardinality({Key(f) : f \in group})
       /\ status' = "starting_policy"
  /\ next # "serving" =>
       /\ UNCHANGED <<alive, work, additional>>
       /\ status' = IF next = "finally" THEN "complete" ELSE
                    IF bad = {} THEN status ELSE "retry_request_rejected"

(* The keys of a group are finitely many.                                  *)
LEMMA GroupFinite ==
  ASSUME NEW F, F \subseteq Files
  PROVE  /\ IsFiniteSet(F) /\ IsFiniteSet({Key(f) : f \in F})
         /\ Cardinality({Key(f) : f \in F}) \in Nat
<1>1. Files = 1..Len(Requests) /\ Len(Requests) \in Nat
  <2>. DEFINE R == [arm : ToSet(Arms), task : Tasks, attempt : Nat]
  <2>1. Requests \in Seq(R)  BY EvaluationAssumption
  <2>. HIDE DEF R
  <2>. QED  BY <2>1 DEF Files
<1>2. IsFiniteSet(Files)  BY <1>1, FS_Interval
<1>3. IsFiniteSet(F)  BY <1>2, FS_Subset
<1>. DEFINE T == {Key(f) : f \in F}
            h == [f \in F |-> Key(f)]
<1>4. h \in Surjection(F, T)  BY DEF Surjection
<1>5. IsFiniteSet(T)
  <2>. HIDE DEF T, h
  <2>. QED  BY <1>3, <1>4, FS_Surjection
<1>6. Cardinality(T) \in Nat
  <2>. HIDE DEF T
  <2>. QED  BY <1>5, FS_CardinalityType
<1>. QED  BY <1>3, <1>5, <1>6

LEMMA ServeTurn ==
  ASSUME Inv, ServeQueue
  PROVE  \E refused, bad, group, next : Turn(refused, bad, group, next)
<1>1. PICK refused \in SUBSET (written \ used) :
       LET new == written \ used
           bad == refused \cup {f \in new : ~Plausible(f)}
           group == Group(new \ bad)
           keys == {Key(f) : f \in group}
           n == Cardinality(keys)
           next == IF new = bad THEN "queue" ELSE
                   IF n < Cardinality(group) THEN "failed" ELSE
                   IF Fits(n) THEN "serving" ELSE "finally"
       IN /\ new # {} /\ rejected' = rejected \cup bad /\ main' = next
          /\ used' = used \cup bad \cup IF next = "serving" THEN group ELSE {}
          /\ IF next = "serving"
             THEN Begin(keys) /\ additional' = additional + n /\ status' = "starting_policy"
             ELSE /\ UNCHANGED <<alive, work, additional>>
                  /\ status' = IF next = "finally" THEN "complete" ELSE
                               IF bad = {} THEN status ELSE "retry_request_rejected"
  BY DEF ServeQueue
<1>. DEFINE new == written \ used
            bad == refused \cup {f \in new : ~Plausible(f)}
            group == Group(new \ bad)
            keys == {Key(f) : f \in group}
            n == Cardinality(keys)
            next == IF new = bad THEN "queue" ELSE
                    IF n < Cardinality(group) THEN "failed" ELSE
                    IF Fits(n) THEN "serving" ELSE "finally"
<1>2. group \subseteq new \ bad /\ \A f, g \in group : Key(f).attempt = Key(g).attempt
  BY DEF Group
<1>3. group \subseteq Files  BY <1>2 DEF Inv, Ranges
<1>4. n \in Nat
  <2>. HIDE DEF group
  <2>. QED  BY <1>3, GroupFinite
<1>5. next \in {"queue", "failed", "serving", "finally"} /\ (next = "serving" => Fits(n))
  <2>. HIDE DEF new, bad, n, group
  <2>. QED  OBVIOUS
<1>6. /\ rejected' = rejected \cup bad /\ main' = next
      /\ used' = used \cup bad \cup IF next = "serving" THEN group ELSE {}
      /\ IF next = "serving"
         THEN Begin(keys) /\ additional' = additional + n /\ status' = "starting_policy"
         ELSE /\ UNCHANGED <<alive, work, additional>>
              /\ status' = IF next = "finally" THEN "complete" ELSE
                           IF bad = {} THEN status ELSE "retry_request_rejected"
  BY <1>1
<1>7. refused \subseteq new  OBVIOUS
<1>8. Turn(refused, bad, group, next)
  <2>. HIDE DEF group, next
  <2>. QED  BY <1>2, <1>4, <1>5, <1>6, <1>7 DEF Turn, Begin
<1>. QED  BY <1>8

LEMMA ServeQueueInv == Inv /\ ServeQueue => Inv'
<1>. HAVE Inv /\ ServeQueue
<1>0. /\ main = "queue" /\ started /\ todo = <<>> /\ todo' = todo /\ begun' = begun
      /\ completed' = completed /\ ledger' = ledger /\ interrupts' = interrupts
      /\ attempts' = attempts /\ leaked' = leaked /\ late' = late
      /\ UNCHANGED <<started, gpu_workloads_stopped, exit, written>>
  BY DEF Inv, Planned, Course, Cold, ServeQueue, Quiet
<1>. PICK refused, bad, group, next : Turn(refused, bad, group, next)  BY ServeTurn
<1>. DEFINE keys == {Key(f) : f \in group}
            n == Cardinality(keys)
<1>1. /\ bad = refused \cup {f \in written \ used : ~Plausible(f)}
      /\ refused \subseteq written \ used /\ group \subseteq (written \ used) \ bad
      /\ \A f, g \in group : Key(f).attempt = Key(g).attempt
      /\ next \in {"queue", "failed", "serving", "finally"}
      /\ rejected' = rejected \cup bad /\ main' = next
      /\ used' = used \cup bad \cup IF next = "serving" THEN group ELSE {}
  BY DEF Turn
<1>2. next = "serving" =>
        /\ n >= 0 /\ Fits(n) /\ work' = keys /\ alive' = alive \cup {"policy"}
        /\ additional' = additional + n /\ status' = "starting_policy"
  BY DEF Turn
<1>3. next # "serving" =>
        /\ UNCHANGED <<alive, work, additional>>
        /\ status' = IF next = "finally" THEN "complete" ELSE
                     IF bad = {} THEN status ELSE "retry_request_rejected"
  BY DEF Turn
<1>4. group \subseteq Files /\ bad \subseteq written \ used /\ \A f \in group : Plausible(f)
  BY <1>1 DEF Inv, Ranges
<1>5. n \in Nat /\ IsFiniteSet(keys)  BY <1>4, GroupFinite
<1>6. keys \subseteq Later  BY <1>4, KeyForms
<1>7. \A k \in keys : /\ k \notin completed
                      /\ k.attempt > 1 => Before(k) \in completed
                      /\ \A l \in keys : k.attempt = l.attempt
  <2>. SUFFICES ASSUME NEW f \in group
                PROVE  /\ Key(f) \notin completed
                       /\ Key(f).attempt > 1 => Before(Key(f)) \in completed
                       /\ \A g \in group : Key(f).attempt = Key(g).attempt
    OBVIOUS
  <2>1. Plausible(f) /\ Requests[f].attempt \in Nat /\ Key(f).attempt = Requests[f].attempt + 1
    BY <1>4, KeyForms
  <2>2. Key(f) \notin completed /\ (Requests[f].attempt > 0 => Before(Key(f)) \in completed)
    BY <2>1 DEF Plausible
  <2>. QED  BY <1>1, <2>1, <2>2
<1>8. \A k \in First : begun[k] = 1
  <2>1. ToSet(todo) = {}  BY <1>0 DEF ToSet
  <2>. QED  BY <1>0, <2>1 DEF Inv, Planned, Live
<1>9. \A k \in Later : begun[k] > 0 => k \in completed  BY <1>0 DEF Inv, Retried, Live
<1>10. \A k \in keys : begun[k] = 0
  <2>1. \A k \in keys : k \in Keys /\ begun[k] \in Nat  BY <1>6 DEF Later, Inv, Ranges
  <2>. QED  BY <1>6, <1>7, <1>9, <2>1
<1>11. Authorized' = IF next = "serving" THEN Authorized \cup keys ELSE Authorized
  <2>1. used' \ rejected' = (used \ rejected) \cup IF next = "serving" THEN group ELSE {}
    BY <1>1, <1>4 DEF Inv, Ranges
  <2>. QED  BY <2>1 DEF Authorized
<1>12. next = "serving" =>
         Cardinality(Authorized') <= additional' /\ additional' \in 0..max_additional_trajectories
  <2>. SUFFICES ASSUME next = "serving"
                PROVE  /\ Cardinality(Authorized \cup keys) <= additional + n
                       /\ additional + n \in 0..max_additional_trajectories
    BY <1>2, <1>11
  <2>1. used \ rejected \subseteq Files  BY DEF Inv, Ranges
  <2>2. IsFiniteSet(Authorized)  BY <2>1, GroupFinite DEF Authorized
  <2>3. Cardinality(Authorized \cap keys) \in Nat
    <3>. HIDE DEF keys
    <3>. QED  BY <2>2, FS_Intersection, FS_CardinalityType
  <2>4. Cardinality(Authorized \cup keys) =
          Cardinality(Authorized) + n - Cardinality(Authorized \cap keys)
    <3>. HIDE DEF keys
    <3>1. IsFiniteSet(keys)  BY <1>5
    <3>2. Cardinality(Authorized \cup keys) =
            Cardinality(Authorized) + Cardinality(keys) - Cardinality(Authorized \cap keys)
      BY <2>2, <3>1, FS_Union
    <3>. QED  BY <3>2
  <2>5. Cardinality(Authorized) \in Nat /\ Cardinality(Authorized) <= additional
    BY <2>2, FS_CardinalityType DEF Inv, Retried
  <2>6. additional \in Nat /\ max_additional_trajectories \in Nat
    BY EvaluationAssumption DEF Inv, Ranges
  <2>7. additional + n <= max_additional_trajectories  BY <1>2 DEF Fits
  <2>. HIDE DEF n, keys
  <2>. QED  BY <1>5, <2>3, <2>4, <2>5, <2>6, <2>7
<1>. HIDE DEF n, keys
<1>13. Ranges'
  <2>1. additional' \in 0..max_additional_trajectories
    BY <1>3, <1>12 DEF Inv, Ranges
  <2>2. work' \subseteq Keys /\ alive' \subseteq {"user", "policy", "evaluation"}
    BY <1>2, <1>3, <1>6 DEF Later, Inv, Ranges
  <2>3. rejected' \subseteq used' /\ used' \subseteq written'
    BY <1>0, <1>1 DEF Inv, Ranges
  <2>4. status' \in {"absent", "starting_user", "starting_policy", "evaluating", "arm_complete",
                     "awaiting_drift_review", "retry_request_rejected", "complete",
                     "stopped_for_review"}
    BY <1>1, <1>2, <1>3 DEF Inv, Ranges
  <2>5. main' \in Live \cup {"down", "failed", "finally"}  BY <1>1 DEF Live
  <2>. QED  BY <1>0, <2>1, <2>2, <2>3, <2>4, <2>5 DEF Inv, Ranges
<1>14. Course'  BY <1>0, <1>1 DEF Inv, Course, Cold
<1>15. Planned'
  <2>1. \A k \in First : begun'[k] = 1 /\ k.arm \notin ToSet(todo')
    BY <1>0, <1>8 DEF ToSet
  <2>2. main' = "serving" => \A k \in work' : begun'[k] = 0
    BY <1>0, <1>1, <1>2, <1>10
  <2>. QED  BY <1>0, <1>1, <2>1, <2>2 DEF Inv, Planned
<1>16. Retried'
  <2>1. CASE next = "serving"
    <3>1. Chosen' \subseteq {k \in Later : begun[k] > 0} \cup keys
      BY <1>0, <1>2, <2>1 DEF Chosen, Later, First
    <3>2. {k \in Later : begun[k] > 0} \subseteq Chosen  BY DEF Chosen
    <3>3. Chosen' \subseteq Authorized'
      BY <1>11, <2>1, <3>1, <3>2 DEF Inv, Retried
    <3>4. ASSUME NEW k \in Chosen'
          PROVE  /\ Before(k) \in Keys /\ begun[Before(k)] > 0 /\ Before(k) \notin keys
                 /\ k.attempt > 1 => Before(k) \in completed
      <4>0. k \in Later  BY <3>4 DEF Chosen, Later, First
      <4>1. /\ Before(k) \in Keys /\ Before(k).attempt = k.attempt - 1 /\ k.attempt \in Nat
            /\ k.attempt > 0
        BY <4>0, KeyForms DEF Later
      <4>2. k.attempt > 1 => Before(k) \in completed
        BY <1>7, <3>1, <3>2 DEF Inv, Retried
      <4>3. begun[Before(k)] > 0 /\ Before(k) \notin keys
        <5>1. CASE k.attempt > 1
          <6>1. Before(k) \in completed  BY <4>2, <5>1
          <6>. QED  BY <1>7, <6>1 DEF Inv, Retried
        <5>2. CASE k.attempt = 1
          <6>1. Before(k) \in First  BY <4>1, <5>2 DEF First
          <6>. QED  BY <1>6, <1>8, <6>1 DEF Later
        <5>. QED  BY <4>1, <5>1, <5>2
      <4>. QED  BY <4>1, <4>2, <4>3
    <3>5. \A k, l \in keys : k.attempt = l.attempt  BY <1>7
    <3>6. main' = "serving" /\ work' = keys  BY <1>1, <1>2, <2>1
    <3>7. Cardinality(Authorized') <= additional'  BY <1>12, <2>1
    <3>. QED  BY <1>0, <1>9, <3>3, <3>4, <3>5, <3>6, <3>7 DEF Inv, Retried, Later, First
  <2>2. CASE next # "serving"
    <3>1. Chosen' \subseteq Chosen /\ Authorized' = Authorized /\ work' = work
          /\ additional' = additional /\ main' \notin {"recording", "serving"}
      BY <1>0, <1>1, <1>3, <1>11, <2>2 DEF Chosen, Later, First
    <3>2. Chosen' \subseteq Authorized'  BY <3>1 DEF Inv, Retried
    <3>3. \A k \in Chosen' : /\ Before(k) \in Keys /\ begun[Before(k)] > 0 /\ Before(k) \notin work
                             /\ k.attempt > 1 => Before(k) \in completed
      BY <3>1 DEF Inv, Retried
    <3>4. Cardinality(Authorized') <= additional'  BY <3>1 DEF Inv, Retried
    <3>. QED  BY <1>0, <1>9, <3>1, <3>2, <3>3, <3>4 DEF Inv, Retried, Later, First
  <2>. QED  BY <2>1, <2>2
<1>17. Concluded'
  <2>1. status # "complete" /\ exit' # "0"  BY <1>0 DEF Inv, Concluded
  <2>2. status' = "complete" => main' = "finally"
    BY <1>1, <1>2, <1>3, <2>1
  <2>3. \A k \in Later : begun[k] > 0 => k \in ledger  BY <1>9 DEF Inv, Course
  <2>. QED  BY <1>0, <1>8, <2>1, <2>2, <2>3 DEF Concluded, First, Later
<1>. QED  BY <1>13, <1>14, <1>15, <1>16, <1>17 DEF Inv
-----------------------------------------------------------------------------
(* The invariant the others rest on.                                       *)
THEOREM Invariant == Spec => []Inv
<1>1. Inv /\ [Next]_vars => Inv'
  <2>. SUFFICES ASSUME Inv, [Next]_vars PROVE Inv'  OBVIOUS
  <2>1. CASE Next
    <3>1. CASE Step
      BY <3>1, LaunchUserInv, NextArmInv, LaunchEvaluationInv, ArmCompleteInv, ArmsDoneInv,
         ServeQueueInv, RecordRetryInv, QueueEndsInv, FailedInv, FinallyInv DEF Step
    <3>. QED  BY <2>1, <3>1, ReviewInv, DeadlinePassesInv, ChildExitsInv, StartInv, RaiseInv,
                 InterruptInv, KillInv DEF Next
  <2>2. CASE UNCHANGED vars
    <3>. USE <2>2 DEF vars, folder, memory
    <3>1. Ranges'  BY DEF Inv, Ranges
    <3>2. Course'  BY DEF Inv, Course, Cold
    <3>3. Planned'  BY DEF Inv, Planned, First
    <3>4. Retried'  BY SettledRetried DEF Settled
    <3>5. Concluded'  BY DEF Inv, Concluded, First, Later
    <3>. QED  BY <3>1, <3>2, <3>3, <3>4, <3>5 DEF Inv
  <2>. QED  BY <2>1, <2>2
<1>. QED  BY <1>1, InitInv, PTL DEF Spec

(* Every variable of the run's folder and of its controller keeps its      *)
(* range; what is left of the plan is always the end of it.                *)
THEOREM TypeCorrect == Spec => []TypeOK
<1>1. Inv => TypeOK
  <2>. HAVE Inv
  <2>. DEFINE A == ToSet(Arms)
  <2>1. /\ Arms \in Seq(A) /\ todo \in Seq(A) /\ Len(todo) <= Len(Arms)
        /\ \A i \in 1..Len(todo) : todo[i] = Arms[Len(Arms) - Len(todo) + i]
    BY EvaluationAssumption DEF Inv, Ranges
  <2>2. IsSuffix(todo, Arms)
    <3>. DEFINE s == Reverse(todo)
                t == Reverse(Arms)
                d == Len(todo)
    <3>. HIDE DEF A
    <3>0. d \in Nat /\ Len(Arms) \in Nat /\ d <= Len(Arms)  BY <2>1
    <3>1. /\ s \in Seq(A) /\ Len(s) = d
          /\ \A i \in 1..d : s[i] = todo[d - i + 1]
      BY <2>1 DEF Reverse
    <3>2. /\ t \in Seq(A) /\ Len(t) = Len(Arms)
          /\ \A i \in 1..Len(Arms) : t[i] = Arms[Len(Arms) - i + 1]
      BY <2>1 DEF Reverse
    <3>3. \A i \in 1..d : s[i] = t[i]
      <4>. SUFFICES ASSUME NEW i \in 1..d PROVE s[i] = t[i]  OBVIOUS
      <4>1. d - i + 1 \in 1..d /\ i \in 1..Len(Arms)
            /\ Len(Arms) - d + (d - i + 1) = Len(Arms) - i + 1
        BY <3>0
      <4>. QED  BY <2>1, <3>1, <3>2, <4>1
    <3>. HIDE DEF s, t
    <3>4. /\ SubSeq(s, 1, d) \in Seq(A) /\ Len(SubSeq(s, 1, d)) = d
          /\ \A i \in 1..d : SubSeq(s, 1, d)[i] = s[i]
      BY <3>0, <3>1
    <3>5. /\ SubSeq(t, 1, d) \in Seq(A) /\ Len(SubSeq(t, 1, d)) = d
          /\ \A i \in 1..d : SubSeq(t, 1, d)[i] = t[i]
      BY <3>0, <3>2
    <3>6. SubSeq(s, 1, d) = SubSeq(t, 1, d)
      <4>. DEFINE x == SubSeq(s, 1, d)
                  y == SubSeq(t, 1, d)
      <4>1. x \in Seq(A) /\ y \in Seq(A) /\ Len(x) = Len(y) /\ \A i \in 1..Len(x) : x[i] = y[i]
        BY <3>3, <3>4, <3>5
      <4>. HIDE DEF x, y
      <4>2. x = y  BY <4>1, SeqEqual
      <4>. QED  BY <4>2 DEF x, y
    <3>. QED  BY <3>0, <3>1, <3>2, <3>6 DEF IsSuffix, IsPrefix, s, t
  <2>. QED  BY <2>2 DEF Inv, Ranges, TypeOK, Live
<1>. QED  BY <1>1, Invariant, PTL

(* Through crashes, restarts, requests written twice and batches, one      *)
(* controller ever launches a workload and no trajectory is started twice. *)
THEOREM NothingReplayed == Spec => []NoReplay
<1>1. Inv => NoReplay  BY DEF Inv, Course, Planned, NoReplay
<1>. QED  BY <1>1, Invariant, PTL

(* Retries stay within the cap, and each one follows an attempt that ended *)
(* and was rejected in a request.                                          *)
THEOREM RetriesInScope == Spec => []RetryScope
<1>1. Inv => RetryScope
  <2>. HAVE Inv
  <2>. DEFINE retries == {k \in Keys : k.attempt > 0 /\ begun[k] > 0}
  <2>1. retries \subseteq Chosen  BY KeyForms DEF Chosen, Later, First
  <2>2. Cardinality(retries) <= max_additional_trajectories
    <3>1. used \ rejected \subseteq Files  BY DEF Inv, Ranges
    <3>2. IsFiniteSet(Authorized) /\ Cardinality(Authorized) \in Nat
      BY <3>1, GroupFinite DEF Authorized
    <3>3. retries \subseteq Authorized  BY <2>1 DEF Inv, Retried
    <3>. HIDE DEF retries
    <3>4. Cardinality(retries) <= Cardinality(Authorized) /\ Cardinality(retries) \in Nat
      BY <3>2, <3>3, FS_Subset, FS_CardinalityType
    <3>5. Cardinality(Authorized) <= additional /\ additional \in 0..max_additional_trajectories
      BY DEF Inv, Retried, Ranges
    <3>. QED  BY <3>2, <3>4, <3>5, EvaluationAssumption
  <2>3. ASSUME NEW k \in retries
        PROVE  /\ begun[Before(k)] > 0 /\ Before(k) \notin work
               /\ k.attempt > 1 => Before(k) \in ledger
               /\ \E f \in written \ rejected : Key(f) = k
    <3>1. k \in Authorized  BY <2>1 DEF Inv, Retried
    <3>2. \E f \in written \ rejected : Key(f) = k  BY <3>1 DEF Authorized, Inv, Ranges
    <3>. QED  BY <2>1, <3>2 DEF Inv, Retried, Course
  <2>. QED  BY <2>2, <2>3 DEF RetryScope
<1>. QED  BY <1>1, Invariant, PTL

(* gpu_workloads_stopped and exit code 0 mean what they say, wherever a    *)
(* signal, a kill or a failed stop struck.                                 *)
THEOREM EndIsHonest == Spec => []EndHonest
<1>1. Inv => EndHonest  BY DEF Inv, Course, Concluded, EndHonest, First, Later, Keys
<1>. QED  BY <1>1, Invariant, PTL
=============================================================================
