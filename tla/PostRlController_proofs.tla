----------------------- MODULE PostRlController_proofs -----------------------
(***************************************************************************)
(* Theorems about PostRlController, for any slots, models, controllers on  *)
(* the directory and signals.  What state.json may say rests on three      *)
(* facts: no model is mislaid between the list and the threads (AllHeld),  *)
(* a result of "ok" stands for a score and a ready export (Earned), and    *)
(* the log of a model's full evaluation is created once (Once).  That no   *)
(* child is left behind rests on who may still start one: after the last   *)
(* cleanup a thread starts at most the policy server it was about to, and  *)
(* the process waits until it has stopped it (Threading, Leftover).        *)
(***************************************************************************)
EXTENDS PostRlController, SequenceTheorems, TLAPS

Working == {"launch", "service", "full"}
Places == {"idle", "take", "stop", "next", "done", "lost"} \cup Working
Statuses == {"absent", "preparing_cpu", "waiting_for_rl", "evaluating",
             "complete", "incomplete", "failed"}
Outcomes == UNION {[A -> {"ok", "error"}] : A \in SUBSET Models}

(* The types of the variables TypeOK is silent about.                      *)
SlotsTyped ==
  slot \in [Threads -> [at : Places, model : Models \cup {"none"}, arms : Seq(Models),
                        results : Outcomes]]
ReportTyped == report \in [status : Statuses, results : Outcomes, safe : BOOLEAN]
ListsTyped ==
  /\ todo \in Seq(Models) /\ pending \in Seq(Models) /\ job \in {"none", "merge", "copy"}
  /\ stopping \in BOOLEAN /\ cut \in BOOLEAN
Busy ==
  \A s \in Threads :
    /\ slot[s].at \in Working \cup {"stop", "next"} => slot[s].model \in Models
    /\ slot[s].at = "take" => slot[s].arms # <<>>
Typed == TypeOK /\ SlotsTyped /\ ReportTyped /\ ListsTyped /\ Busy

(* A merge is of the first model to look at, one not prepared.             *)
Merging ==
  job = "merge" =>
    \/ main \in {"preparing", "late"} /\ todo # <<>> /\ Head(todo) \notin models
    \/ main \in {"failing", "finally", "exiting"}

Prepared == \A m \in models : export[m] = "ready"

(* A model is scored by the one thread that created the log of its full    *)
(* evaluation, which no other can create again.                            *)
Once ==
  /\ \A m \in Models : scored[m] \in {0, 1}
  /\ \A m \in Models : scored[m] = 1 => Child("full", m) \in logs /\ selection
  /\ \A s \in Threads :
       slot[s].at = "full" => Child("full", slot[s].model) \in logs /\ scored[slot[s].model] = 0
  /\ \A s, t \in Threads :
       slot[s].at = "full" /\ slot[t].at = "full" /\ slot[s].model = slot[t].model => s = t

(* What a thread has to show for a model it calls ok.                      *)
Earned ==
  \A s \in Threads :
    /\ slot[s].at \in Working => export[slot[s].model] = "ready"
    /\ \A m \in DOMAIN slot[s].results :
         slot[s].results[m] = "ok" => scored[m] = 1 /\ export[m] = "ready"

(* No model is mislaid between the list and the threads.                   *)
Holds(s, m) ==
  \/ m \in ToSet(slot[s].arms) \/ m \in DOMAIN slot[s].results
  \/ slot[s].at \in Working /\ slot[s].model = m
AllHeld ==
  main = "evaluating" =>
    /\ \A s \in Threads : slot[s].at # "idle"
    /\ \A m \in Models : m \in ToSet(pending) \/ \E s \in Threads : Holds(s, m)
    /\ \A s \in Threads : slot[s].at = "done" => pending = <<>> /\ slot[s].arms = <<>>

(* Where the threads are, by where the main thread is.                     *)
Early == {"preparing", "waiting", "late", "health"}
Threading ==
  /\ main \in Early \cup {"down"} => \A s \in Threads : slot[s].at = "idle"
  /\ main \in Early => pending = Queue
  /\ main = "cleanup" => Ended
  /\ main # "evaluating" /\ ~Ended => stopping
  /\ main = "exiting" => stopping

(* Until a result is collected nothing is declared safe.                   *)
Safety == report.safe => main \in {"cleanup", "failing", "finally", "exiting", "down"}

(* After the last cleanup a thread can still start the policy server it    *)
(* was about to, and stops it itself.                                      *)
Leftover ==
  main = "exiting" /\ ~cut =>
    \A c \in alive \cap children :
      \E s \in Threads : slot[s].at \in {"service", "stop"} /\ c = Policy(s)

Inv ==
  /\ Typed /\ Merging /\ Prepared /\ Once /\ Earned /\ AllHeld /\ Threading /\ Safety
  /\ Leftover /\ OutcomeHonest /\ NothingLeftRunning

-----------------------------------------------------------------------------
(* The first of a list and the others.                                     *)
LEMMA HeadAndTail ==
  ASSUME NEW S, NEW q \in Seq(S), q # <<>>
  PROVE  /\ Head(q) \in S /\ Tail(q) \in Seq(S)
         /\ \A x : x \in ToSet(q) <=> x = Head(q) \/ x \in ToSet(Tail(q))
<1>1. Head(q) \in S /\ Tail(q) \in Seq(S) /\ Len(q) \in Nat \ {0} /\ Len(Tail(q)) = Len(q) - 1
  BY HeadTailProperties, EmptySeq, LenProperties
<1>2. \A i \in 1..Len(q) - 1 : Tail(q)[i] = q[i + 1]  BY <1>1
<1>3. DOMAIN q = 1..Len(q) /\ DOMAIN Tail(q) = 1..Len(q) - 1  BY <1>1
<1>4. Head(q) = q[1]  BY <1>1
<1>5. ASSUME NEW x, x \in ToSet(q) PROVE x = Head(q) \/ x \in ToSet(Tail(q))
  <2>1. PICK i \in 1..Len(q) : x = q[i]  BY <1>5, <1>3 DEF ToSet
  <2>2. CASE i = 1  BY <2>1, <2>2, <1>4
  <2>3. CASE i # 1
    <3>1. i - 1 \in 1..Len(q) - 1 /\ (i - 1) + 1 = i  BY <2>1, <2>3, <1>1
    <3>2. Tail(q)[i - 1] = x  BY <3>1, <1>2, <2>1
    <3> QED  BY <3>1, <3>2, <1>3 DEF ToSet
  <2> QED  BY <2>2, <2>3
<1>6. ASSUME NEW x, x = Head(q) \/ x \in ToSet(Tail(q)) PROVE x \in ToSet(q)
  <2>1. CASE x = Head(q)
    <3>1. 1 \in DOMAIN q  BY <1>1, <1>3
    <3> QED  BY <3>1, <2>1, <1>4 DEF ToSet
  <2>2. CASE x \in ToSet(Tail(q))
    <3>1. PICK i \in 1..Len(q) - 1 : x = Tail(q)[i]  BY <2>2, <1>3 DEF ToSet
    <3>2. i + 1 \in 1..Len(q) /\ x = q[i + 1]  BY <3>1, <1>1, <1>2
    <3> QED  BY <3>2, <1>3 DEF ToSet
  <2> QED  BY <1>6, <2>1, <2>2
<1> QED  BY <1>1, <1>5, <1>6

(* One more at the end of a list.                                          *)
LEMMA OneAppended ==
  ASSUME NEW S, NEW q \in Seq(S), NEW y \in S
  PROVE  /\ q \o <<y>> \in Seq(S) /\ q \o <<y>> # <<>>
         /\ \A x : x \in ToSet(q \o <<y>>) <=> x \in ToSet(q) \/ x = y
<1> DEFINE r == q \o <<y>>
<1>1. Len(q) \in Nat /\ r \in Seq(S) /\ Len(r) = Len(q) + 1  OBVIOUS
<1>2. DOMAIN q = 1..Len(q) /\ DOMAIN r = 1..Len(q) + 1  BY <1>1
<1>3. (\A i \in 1..Len(q) : r[i] = q[i]) /\ r[Len(q) + 1] = y  BY <1>1
<1>4. Len(q) + 1 \in DOMAIN r /\ \A i \in DOMAIN q : i \in DOMAIN r  BY <1>1, <1>2
<1>5. r # <<>>  BY <1>1
<1> HIDE DEF r
<1>6. ASSUME NEW x PROVE x \in ToSet(r) <=> x \in ToSet(q) \/ x = y
  <2>1. ASSUME x \in ToSet(r) PROVE x \in ToSet(q) \/ x = y
    <3>1. PICK i \in 1..Len(q) + 1 : x = r[i]  BY <2>1, <1>2 DEF ToSet
    <3>2. i \in 1..Len(q) \/ i = Len(q) + 1  BY <3>1, <1>1
    <3> QED  BY <3>1, <3>2, <1>2, <1>3 DEF ToSet
  <2>2. ASSUME x \in ToSet(q) PROVE x \in ToSet(r)
    <3>1. PICK i \in DOMAIN q : x = q[i]  BY <2>2 DEF ToSet
    <3> QED  BY <3>1, <1>2, <1>3, <1>4 DEF ToSet
  <2>3. y \in ToSet(r)  BY <1>3, <1>4 DEF ToSet
  <2> QED  BY <2>1, <2>2, <2>3
<1> QED  BY <1>1, <1>5, <1>6 DEF r

(* Whoever keeps a thread as it is keeps its processes' names too.         *)
Others(s) == \A t \in Threads : t # s => slot'[t] = slot[t]

(* A thread's result for a model, written over the one it had.             *)
LEMMA Recording ==
  ASSUME NEW f \in Outcomes, NEW m \in Models, NEW r \in {"ok", "error"}
  PROVE  /\ Record(f, m, r) \in Outcomes /\ DOMAIN Record(f, m, r) = DOMAIN f \cup {m}
         /\ Record(f, m, r)[m] = r
         /\ \A x \in DOMAIN f : x # m => Record(f, m, r)[x] = f[x]
<1>1. PICK A \in SUBSET Models : f \in [A -> {"ok", "error"}]  BY DEF Outcomes
<1>2. A \cup {m} \in SUBSET Models /\ Record(f, m, r) \in [A \cup {m} -> {"ok", "error"}]
  BY <1>1 DEF Record
<1>3. Record(f, m, r) \in Outcomes  BY <1>2 DEF Outcomes
<1> QED  BY <1>1, <1>2, <1>3 DEF Record

(* What a thread holds is made of models.                                  *)
LEMMA OneSlot ==
  ASSUME SlotsTyped, NEW s \in Threads
  PROVE  /\ slot[s].at \in Places /\ slot[s].model \in Models \cup {"none"}
         /\ slot[s].arms \in Seq(Models) /\ slot[s].results \in Outcomes
         /\ DOMAIN slot[s].results \subseteq Models
         /\ \A m \in DOMAIN slot[s].results : slot[s].results[m] \in {"ok", "error"}
BY DEF SlotsTyped, Outcomes

LEMMA TakeMoves ==
  ASSUME Typed, NEW s \in Threads, Take(s)
  PROVE  /\ SlotsTyped' /\ Others(s)
         /\ slot[s].arms # <<>> /\ Head(slot[s].arms) \in Models
         /\ slot'[s].model = Head(slot[s].arms) /\ slot'[s].arms = Tail(slot[s].arms)
         /\ \/ /\ slot'[s].at = "launch" /\ slot'[s].results = slot[s].results
               /\ Head(slot[s].arms) \in models
            \/ /\ slot'[s].at = "next"
               /\ slot'[s].results = Record(slot[s].results, Head(slot[s].arms), "error")
<1> DEFINE m == Head(slot[s].arms)
<1>1. slot[s].at = "take" /\ slot[s].arms # <<>>  BY DEF Take, Typed, Busy
<1>2. m \in Models /\ Tail(slot[s].arms) \in Seq(Models)
  BY <1>1, OneSlot, HeadAndTail DEF Typed
<1>3. Record(slot[s].results, m, "error") \in Outcomes
  <2>1. slot[s].results \in Outcomes  BY OneSlot DEF Typed
  <2> HIDE DEF m
  <2> QED  BY <1>2, <2>1, Recording
<1>4. \/ /\ m \in models
         /\ slot' = [slot EXCEPT ![s] = [slot[s] EXCEPT !.arms = Tail(slot[s].arms),
                                                        !.model = m, !.at = "launch"]]
      \/ slot' = [slot EXCEPT ![s] = [slot[s] EXCEPT
                    !.arms = Tail(slot[s].arms), !.model = m, !.at = "next",
                    !.results = Record(slot[s].results, m, "error")]]
  BY DEF Take, Typed, SlotsTyped
<1> HIDE DEF m
<1>5. CASE /\ m \in models
           /\ slot' = [slot EXCEPT ![s] = [slot[s] EXCEPT !.arms = Tail(slot[s].arms),
                                                          !.model = m, !.at = "launch"]]
  <2>1. SlotsTyped' /\ Others(s)
    BY <1>2, <1>5 DEF Typed, SlotsTyped, Places, Working, Others
  <2>2. slot'[s] = [slot[s] EXCEPT !.arms = Tail(slot[s].arms), !.model = m, !.at = "launch"]
    BY <1>5 DEF Typed, SlotsTyped
  <2>3. /\ slot'[s].model = m /\ slot'[s].arms = Tail(slot[s].arms)
        /\ slot'[s].at = "launch" /\ slot'[s].results = slot[s].results
    BY <2>2 DEF Typed, SlotsTyped
  <2> QED  BY <1>1, <1>2, <1>5, <2>1, <2>3 DEF m
<1>6. CASE slot' = [slot EXCEPT ![s] = [slot[s] EXCEPT
                      !.arms = Tail(slot[s].arms), !.model = m, !.at = "next",
                      !.results = Record(slot[s].results, m, "error")]]
  <2>1. SlotsTyped' /\ Others(s)
    BY <1>2, <1>3, <1>6 DEF Typed, SlotsTyped, Places, Working, Others
  <2>2. slot'[s] = [slot[s] EXCEPT
                      !.arms = Tail(slot[s].arms), !.model = m, !.at = "next",
                      !.results = Record(slot[s].results, m, "error")]
    BY <1>6 DEF Typed, SlotsTyped
  <2>3. /\ slot'[s].model = m /\ slot'[s].arms = Tail(slot[s].arms)
        /\ slot'[s].at = "next" /\ slot'[s].results = Record(slot[s].results, m, "error")
    BY <2>2 DEF Typed, SlotsTyped
  <2> QED  BY <1>1, <1>2, <2>1, <2>3 DEF m
<1> QED  BY <1>4, <1>5, <1>6

LEMMA LaunchPolicyMoves ==
  ASSUME Typed, NEW s \in Threads, LaunchPolicy(s)
  PROVE  /\ SlotsTyped' /\ Others(s) /\ slot[s].at = "launch" /\ slot'[s].at = "service"
         /\ slot'[s].model = slot[s].model /\ slot'[s].arms = slot[s].arms
         /\ slot'[s].results = slot[s].results
BY DEF LaunchPolicy, Typed, SlotsTyped, Places, Working, Others

(* A model that failed, in service or in its evaluation.                   *)
LEMMA FailedMoves ==
  ASSUME Typed, NEW s \in Threads, slot[s].at \in Working,
         slot' = Failed(s, slot[s].model, "stop")
  PROVE  /\ SlotsTyped' /\ Others(s) /\ slot'[s].at = "stop"
         /\ slot'[s].model = slot[s].model /\ slot'[s].arms = slot[s].arms
         /\ slot'[s].results = Record(slot[s].results, slot[s].model, "error")
<1>1. slot[s].model \in Models  BY DEF Typed, Busy
<1>2. Record(slot[s].results, slot[s].model, "error") \in Outcomes
  BY <1>1, OneSlot, Recording DEF Typed
<1> QED  BY <1>1, <1>2 DEF Failed, Typed, SlotsTyped, Places, Others

LEMMA ServeMoves ==
  ASSUME Typed, NEW s \in Threads, Serve(s)
  PROVE  /\ SlotsTyped' /\ Others(s) /\ slot[s].at = "service"
         /\ slot'[s].model = slot[s].model /\ slot'[s].arms = slot[s].arms
         /\ slot[s].model \in Models
         /\ \/ /\ slot'[s].at = "full" /\ slot'[s].results = slot[s].results
               /\ ~stopping /\ Launch(Child("full", slot[s].model))
            \/ /\ slot'[s].at = "stop" /\ UNCHANGED <<logs, alive, children, selection>>
               /\ slot'[s].results = Record(slot[s].results, slot[s].model, "error")
<1>1. slot[s].at = "service" /\ slot[s].model \in Models  BY DEF Serve, Typed, Busy, Working
<1>2. CASE slot' = [slot EXCEPT ![s].at = "full"] /\ ~stopping
           /\ Launch(Child("full", slot[s].model))
  BY <1>1, <1>2 DEF Typed, SlotsTyped, Places, Working, Others
<1>3. CASE slot' = Failed(s, slot[s].model, "stop")
           /\ UNCHANGED <<logs, alive, children, selection>>
  BY <1>1, <1>3, FailedMoves DEF Working
<1> QED  BY <1>2, <1>3 DEF Serve

LEMMA JobFailsMoves ==
  ASSUME Typed, NEW s \in Threads, JobFails(s)
  PROVE  /\ SlotsTyped' /\ Others(s) /\ slot[s].at = "full" /\ slot'[s].at = "stop"
         /\ slot'[s].model = slot[s].model /\ slot'[s].arms = slot[s].arms
         /\ slot[s].model \in Models
         /\ slot'[s].results = Record(slot[s].results, slot[s].model, "error")
<1>1. slot[s].at = "full" /\ slot' = Failed(s, slot[s].model, "stop")  BY DEF JobFails
<1> QED  BY <1>1, FailedMoves DEF Working, Typed, Busy

LEMMA FullPassedMoves ==
  ASSUME Typed, NEW s \in Threads, FullPassed(s)
  PROVE  /\ SlotsTyped' /\ Others(s) /\ slot[s].at = "full" /\ slot'[s].at = "stop"
         /\ slot'[s].model = slot[s].model /\ slot'[s].arms = slot[s].arms
         /\ slot[s].model \in Models
         /\ slot'[s].results = Record(slot[s].results, slot[s].model, "ok")
<1>1. slot[s].at = "full" /\ slot[s].model \in Models  BY DEF FullPassed, Typed, Busy, Working
<1>2. Record(slot[s].results, slot[s].model, "ok") \in Outcomes
  BY <1>1, OneSlot, Recording DEF Typed
<1> QED  BY <1>1, <1>2 DEF FullPassed, Typed, SlotsTyped, Places, Others

LEMMA StopPolicyMoves ==
  ASSUME Typed, NEW s \in Threads, StopPolicy(s)
  PROVE  /\ SlotsTyped' /\ Others(s) /\ slot[s].at = "stop" /\ slot'[s].at \in {"next", "lost"}
         /\ slot'[s].model = slot[s].model /\ slot'[s].arms = slot[s].arms
         /\ slot[s].model \in Models /\ slot'[s].results = slot[s].results
<1>1. slot[s].at = "stop" /\ slot[s].model \in Models  BY DEF StopPolicy, Typed, Busy
<1>2. CASE slot' = [slot EXCEPT ![s].at = "next"]
  BY <1>1, <1>2 DEF Typed, SlotsTyped, Places, Others
<1>3. CASE slot' = [slot EXCEPT ![s].at = "lost"]
  BY <1>1, <1>3 DEF Typed, SlotsTyped, Places, Others
<1> QED  BY <1>2, <1>3 DEF StopPolicy

LEMMA NextModelMoves ==
  ASSUME Typed, NEW s \in Threads, NextModel(s)
  PROVE  /\ SlotsTyped' /\ Others(s) /\ slot[s].at = "next"
         /\ slot'[s].model = slot[s].model /\ slot'[s].results = slot[s].results
         /\ pending' \in Seq(Models)
         /\ slot'[s].at = (IF slot'[s].arms = <<>> THEN "done" ELSE "take")
         /\ pending = <<>> => pending' = <<>>
         /\ slot'[s].arms = <<>> => pending = <<>>
         /\ \A m : m \in ToSet(slot[s].arms) \/ m \in ToSet(pending)
                   => m \in ToSet(slot'[s].arms) \/ m \in ToSet(pending')
<1> DEFINE arms == slot[s].arms \o (IF pending = <<>> THEN <<>> ELSE <<Head(pending)>>)
<1>1. slot[s].arms \in Seq(Models) /\ pending \in Seq(Models)
  BY OneSlot DEF Typed, ListsTyped
<1>2. CASE pending = <<>>
  <2>1. arms = slot[s].arms  BY <1>1, <1>2
  <2>2. pending' = <<>>  BY <1>2 DEF NextModel
  <2>3. slot' = [slot EXCEPT ![s] = [slot[s] EXCEPT
                   !.at = IF slot[s].arms = <<>> THEN "done" ELSE "take",
                   !.arms = slot[s].arms]]
    BY <2>1 DEF NextModel, Typed, SlotsTyped
  <2>4. /\ SlotsTyped' /\ Others(s) /\ slot'[s].arms = slot[s].arms
        /\ slot'[s].at = (IF slot[s].arms = <<>> THEN "done" ELSE "take")
        /\ slot'[s].model = slot[s].model /\ slot'[s].results = slot[s].results
    BY <1>1, <2>3 DEF Typed, SlotsTyped, Places, Others
  <2>5. slot[s].at = "next" /\ pending' \in Seq(Models)  BY <1>1, <1>2, <2>2 DEF NextModel
  <2> QED  BY <1>2, <2>2, <2>4, <2>5
<1>3. CASE pending # <<>>
  <2>1. /\ Head(pending) \in Models /\ Tail(pending) \in Seq(Models)
        /\ \A m : m \in ToSet(pending) <=> m = Head(pending) \/ m \in ToSet(Tail(pending))
    BY <1>1, <1>3, HeadAndTail
  <2>2. /\ arms \in Seq(Models) /\ arms # <<>>
        /\ \A m : m \in ToSet(arms) <=> m \in ToSet(slot[s].arms) \/ m = Head(pending)
    BY <1>1, <1>3, <2>1, OneAppended
  <2>3. pending' = Tail(pending) /\ slot[s].at = "next"  BY <1>3 DEF NextModel
  <2>4. slot' = [slot EXCEPT ![s] = [slot[s] EXCEPT !.at = "take", !.arms = arms]]
    BY <2>2 DEF NextModel, Typed, SlotsTyped
  <2> HIDE DEF arms
  <2>5. SlotsTyped' /\ Others(s) /\ slot'[s].at = "take" /\ slot'[s].arms = arms
        /\ slot'[s].model = slot[s].model /\ slot'[s].results = slot[s].results
    BY <2>2, <2>4 DEF Typed, SlotsTyped, Places, Others
  <2> QED  BY <1>3, <2>1, <2>2, <2>3, <2>5
<1> QED  BY <1>2, <1>3

-----------------------------------------------------------------------------
(* Facts that stay so.                                                     *)
ReadyStays == \A m \in Models : export[m] = "ready" => export'[m] = "ready"
CopiedStays == \A m \in Models : backup[m] = "copied" => backup'[m] = "copied"

(* A step of the main thread or of the environment that leaves the threads *)
(* and the scores alone.                                                   *)
LEMMA ThreadsAside ==
  ASSUME Inv, UNCHANGED <<slot, scored, selection>>, logs \subseteq logs', ReadyStays
  PROVE  SlotsTyped' /\ Busy' /\ Once' /\ Earned'
<1>1. SlotsTyped' /\ Busy'  BY DEF Inv, Typed, SlotsTyped, Busy
<1>2. Once'  BY DEF Inv, Once
<1>3. Earned'
  <2>1. SUFFICES ASSUME NEW s \in Threads
                 PROVE  /\ slot[s].at \in Working => export'[slot[s].model] = "ready"
                        /\ \A m \in DOMAIN slot[s].results :
                             slot[s].results[m] = "ok" => scored[m] = 1 /\ export'[m] = "ready"
    BY DEF Earned
  <2>2. slot[s].at \in Working => slot[s].model \in Models  BY DEF Inv, Typed, Busy
  <2>3. DOMAIN slot[s].results \subseteq Models  BY OneSlot DEF Inv, Typed
  <2> QED  BY <2>2, <2>3 DEF Inv, Earned, ReadyStays
<1> QED  BY <1>1, <1>2, <1>3

(* A step that does not touch what state.json says.                        *)
LEMMA ReportAside ==
  ASSUME Inv, UNCHANGED <<report, scored>>, ReadyStays, CopiedStays
  PROVE  ReportTyped' /\ OutcomeHonest'
<1>1. BackedUp \subseteq Models  BY ControllerAssumption
<1> QED  BY <1>1 DEF Inv, Typed, ReportTyped, OutcomeHonest, ReadyStays, CopiedStays

(* One that only says that work goes on.                                   *)
LEMMA StatusAside ==
  ASSUME Inv, Status("preparing_cpu") \/ Status("waiting_for_rl") \/ Status("evaluating"),
         UNCHANGED scored, ~report.safe
  PROVE  ReportTyped' /\ OutcomeHonest' /\ ~report'.safe
BY DEF Inv, Typed, ReportTyped, OutcomeHonest, Status, Statuses

LEMMA Initially == Init => Inv
<1> SUFFICES ASSUME Init PROVE Inv  OBVIOUS
<1>1. NoResults \in Outcomes /\ <<>> \in Seq(Models)
  <2>1. NoResults \in [{} -> {"ok", "error"}]  BY DEF NoResults
  <2> QED  BY <2>1 DEF Outcomes
<1>2. \A s \in Threads : slot[s] = Idle  BY DEF Init
<1>3. SlotsTyped /\ Busy
  BY <1>1 DEF Init, SlotsTyped, Busy, Idle, Places, Working
<1>4. TypeOK /\ ReportTyped /\ ListsTyped
  BY <1>1 DEF Init, TypeOK, ReportTyped, ListsTyped, Statuses
<1>5. Once /\ Earned
  BY <1>2 DEF Init, Once, Earned, Idle, Working, NoResults
<1>6. Merging /\ Prepared /\ AllHeld /\ Safety /\ Leftover
  BY DEF Init, Merging, Prepared, AllHeld, Safety, Leftover
<1>7. Threading  BY <1>2 DEF Init, Threading, Early, Ended, Idle
<1>8. OutcomeHonest /\ NothingLeftRunning  BY DEF Init, OutcomeHonest, NothingLeftRunning
<1> QED  BY <1>3, <1>4, <1>5, <1>6, <1>7, <1>8 DEF Inv, Typed

-----------------------------------------------------------------------------
(* Steps of the environment.                                               *)
LEMMA QueueMovesKeeps == ASSUME Inv, QueueMoves PROVE Inv'
<1>1. UNCHANGED <<disk, alive, ctl, starts, cut, scored>>  BY DEF QueueMoves
<1> QED
  BY <1>1 DEF disk, ctl, Inv, Typed, TypeOK, SlotsTyped, ReportTyped, ListsTyped, Busy, Merging,
              Prepared, Once, Earned, AllHeld, Holds, Threading, Ended, Safety, Leftover, Policy,
              OutcomeHonest, NothingLeftRunning

LEMMA ChildExitsKeeps == ASSUME Inv, NEW c \in alive, ChildExits(c) PROVE Inv'
<1>1. UNCHANGED <<disk, rl, ctl, starts, cut, scored>> /\ alive' = alive \ {c}
  BY DEF ChildExits
<1>2. Leftover'  BY <1>1 DEF disk, ctl, Inv, Leftover, Policy
<1>3. NothingLeftRunning' /\ TypeOK'  BY <1>1 DEF disk, ctl, Inv, Typed, TypeOK, NothingLeftRunning
<1> QED
  BY <1>1, <1>2, <1>3
     DEF disk, ctl, Inv, Typed, SlotsTyped, ReportTyped, ListsTyped, Busy, Merging, Prepared,
         Once, Earned, AllHeld, Holds, Threading, Ended, Safety, OutcomeHonest

-----------------------------------------------------------------------------
(* Steps of the main thread.                                               *)

(* Away from the evaluation and the end, little is asked of a step that    *)
(* keeps the threads.                                                      *)
LEMMA Elsewhere ==
  ASSUME Inv, UNCHANGED slot, main' \notin {"evaluating", "exiting", "down"}
  PROVE  AllHeld' /\ Leftover' /\ NothingLeftRunning'
BY DEF AllHeld, Leftover, NothingLeftRunning

(* A main thread that keeps to itself or fails keeps Threading.            *)
LEMMA StaysOrFails ==
  ASSUME Inv, UNCHANGED <<slot, pending>>,
         \/ main' \in Early /\ main \in Early /\ UNCHANGED stopping
         \/ main' \in {"failing", "finally"} /\ (Ended \/ stopping')
  PROVE  Threading'
BY DEF Inv, Threading, Early, Ended

(* Before the evaluation the threads are idle.                             *)
LEMMA EarlyIsIdle ==
  ASSUME Inv, main \in Early \cup {"down"}
  PROVE  Ended /\ ~(main = "down" /\ report.safe /\ ~selection)
         /\ (main \in Early => ~report.safe)
<1>1. Ended  BY DEF Inv, Threading, Ended
<1>2. main \in Early => ~report.safe  BY DEF Inv, Safety, Early
<1>3. report.safe => selection
  <2>1. ASSUME report.safe PROVE selection
    <3>1. Late \in Models  BY ControllerAssumption
    <3>2. scored[Late] = 1  BY <2>1, <3>1 DEF Inv, OutcomeHonest
    <3> QED  BY <3>1, <3>2 DEF Inv, Once
  <2> QED  BY <2>1
<1> QED  BY <1>1, <1>2, <1>3

LEMMA StartKeeps == ASSUME Inv, Start PROVE Inv'
<1>1. /\ main = "down" /\ ~selection /\ main' = "preparing" /\ todo' = ExportOrder /\ job' = "none"
      /\ models' = {} /\ children' = {} /\ stopping' = FALSE /\ slot' = [s \in Threads |-> Idle]
      /\ pending' = Queue /\ cut' = FALSE /\ Status("preparing_cpu")
      /\ UNCHANGED <<export, backup, logs, selection, exit, rl, alive, scored>>
  BY DEF Start, StartAgain
<1>2. ReportTyped' /\ OutcomeHonest' /\ ~report'.safe
  BY <1>1, StatusAside, EarlyIsIdle
<1>3. NoResults \in Outcomes /\ <<>> \in Seq(Models)
  <2>1. NoResults \in [{} -> {"ok", "error"}]  BY DEF NoResults
  <2> QED  BY <2>1 DEF Outcomes
<1>4. \A s \in Threads : slot'[s] = Idle  BY <1>1
<1>5. SlotsTyped' /\ Busy'
  BY <1>1, <1>3 DEF SlotsTyped, Busy, Idle, Places, Working
<1>6. TypeOK' /\ ListsTyped'
  BY <1>1, ControllerAssumption DEF Inv, Typed, TypeOK, ListsTyped
<1>7. Once'
  BY <1>1, <1>4 DEF Inv, Once, Idle
<1>8. Earned'
  BY <1>4 DEF Earned, Idle, Working, NoResults
<1>9. Threading'
  BY <1>1, <1>4 DEF Threading, Early, Ended, Idle
<1>10. Merging' /\ Prepared' /\ AllHeld' /\ Safety' /\ Leftover' /\ NothingLeftRunning'
  BY <1>1, <1>2 DEF Merging, Prepared, AllHeld, Safety, Leftover, NothingLeftRunning
<1> QED  BY <1>2, <1>5, <1>6, <1>7, <1>8, <1>9, <1>10 DEF Inv, Typed

LEMMA SkipUnfinishedKeeps == ASSUME Inv, SkipUnfinished PROVE Inv'
<1>1. /\ main = "preparing" /\ todo # <<>> /\ job = "none" /\ todo' = Tail(todo)
      /\ UNCHANGED <<export, backup, logs, selection, exit, report, rl, alive, main, job, models,
                     children, stopping, slot, pending, interrupts, starts, cut, scored>>
  BY DEF SkipUnfinished, disk
<1>2. Tail(todo) \in Seq(Models)  BY <1>1, HeadAndTail DEF Inv, Typed, ListsTyped
<1>3. SlotsTyped' /\ Busy' /\ Once' /\ Earned'
  BY <1>1, ThreadsAside DEF ReadyStays
<1>4. ReportTyped' /\ OutcomeHonest'  BY <1>1, ReportAside DEF ReadyStays, CopiedStays
<1>5. AllHeld' /\ Leftover' /\ NothingLeftRunning'  BY <1>1, Elsewhere
<1>6. Threading'  BY <1>1, StaysOrFails DEF Early
<1>7. TypeOK' /\ ListsTyped' /\ Merging' /\ Prepared' /\ Safety'
  BY <1>1, <1>2 DEF Inv, Typed, TypeOK, ListsTyped, Merging, Prepared, Safety
<1> QED  BY <1>3, <1>4, <1>5, <1>6, <1>7 DEF Inv, Typed

LEMMA ExportKeeps == ASSUME Inv, Export PROVE Inv'
<1> DEFINE m == Head(todo)
<1>1. /\ main \in {"preparing", "late"} /\ todo # <<>> /\ job = "none" /\ m \notin models
      /\ UNCHANGED <<backup, selection, exit, report, rl, todo, stopping, slot, pending,
                     interrupts, starts, cut, scored>>
  BY DEF Export
<1>2. m \in Models  BY <1>1, HeadAndTail DEF Inv, Typed, ListsTyped
<1>3. \/ /\ export[m] = "ready" /\ models' = models \cup {m}
         /\ UNCHANGED <<main, export, logs, alive, children, job>>
      \/ main' = "failing" /\ UNCHANGED <<models, export, logs, alive, children, job>>
      \/ /\ export[m] # "ready" /\ export' = [export EXCEPT ![m] = "merging"]
         /\ logs' = logs \cup {Child("merge", m)} /\ alive' = alive \cup {Child("merge", m)}
         /\ job' = "merge" /\ UNCHANGED <<main, models>>
  BY DEF Export, Fails, Launch, LaunchOver
<1> HIDE DEF m
<1>4. ReadyStays /\ CopiedStays /\ logs \subseteq logs'
  BY <1>1, <1>3 DEF ReadyStays, CopiedStays, Inv, Typed, TypeOK
<1>5. SlotsTyped' /\ Busy' /\ Once' /\ Earned'  BY <1>1, <1>4, ThreadsAside
<1>6. ReportTyped' /\ OutcomeHonest'  BY <1>1, <1>4, ReportAside
<1>7. AllHeld' /\ Leftover' /\ NothingLeftRunning'  BY <1>1, <1>3, Elsewhere
<1>8. Threading'  BY <1>1, <1>3, StaysOrFails, EarlyIsIdle DEF Early
<1>9. TypeOK' /\ ListsTyped'
  BY <1>1, <1>2, <1>3 DEF Inv, Typed, TypeOK, ListsTyped
<1>10. Prepared'
  BY <1>1, <1>2, <1>3, <1>4 DEF Inv, Typed, TypeOK, Prepared, ReadyStays
<1>11. Merging' /\ Safety'
  BY <1>1, <1>3 DEF Inv, Merging, Safety, m
<1> QED  BY <1>5, <1>6, <1>7, <1>8, <1>9, <1>10, <1>11 DEF Inv, Typed

LEMMA PublishExportKeeps == ASSUME Inv, PublishExport PROVE Inv'
<1> DEFINE m == Head(todo)
<1>1. /\ job = "merge" /\ main \in {"preparing", "late"}
      /\ UNCHANGED <<backup, logs, selection, exit, report, rl, todo, children, stopping, slot,
                     pending, interrupts, starts, cut, scored>>
  BY DEF PublishExport
<1>2. todo # <<>> /\ m \in Models
  BY <1>1, HeadAndTail DEF Inv, Merging, Typed, ListsTyped
<1>3. \/ /\ UNCHANGED <<main, alive>> /\ export' = [export EXCEPT ![m] = "ready"]
         /\ models' = models \cup {m} /\ job' = "none"
      \/ /\ main' = "failing" /\ alive' = alive \ {Child("merge", m)}
         /\ UNCHANGED <<export, models, job>>
  BY DEF PublishExport, Fails
<1> HIDE DEF m
<1>4. ReadyStays /\ CopiedStays /\ logs \subseteq logs'
  BY <1>1, <1>3 DEF ReadyStays, CopiedStays, Inv, Typed, TypeOK
<1>5. SlotsTyped' /\ Busy' /\ Once' /\ Earned'  BY <1>1, <1>4, ThreadsAside
<1>6. ReportTyped' /\ OutcomeHonest'  BY <1>1, <1>4, ReportAside
<1>7. AllHeld' /\ Leftover' /\ NothingLeftRunning'  BY <1>1, <1>3, Elsewhere
<1>8. Threading'  BY <1>1, <1>3, StaysOrFails, EarlyIsIdle DEF Early
<1>9. TypeOK' /\ ListsTyped'
  BY <1>1, <1>2, <1>3 DEF Inv, Typed, TypeOK, ListsTyped
<1>10. Prepared'
  BY <1>1, <1>2, <1>3, <1>4 DEF Inv, Typed, TypeOK, Prepared, ReadyStays
<1>11. Merging' /\ Safety'
  BY <1>1, <1>3 DEF Inv, Merging, Safety
<1> QED  BY <1>5, <1>6, <1>7, <1>8, <1>9, <1>10, <1>11 DEF Inv, Typed

LEMMA BackupKeeps == ASSUME Inv, Backup PROVE Inv'
<1> DEFINE m == Head(todo)
<1>1. /\ main \in {"preparing", "late"} /\ todo # <<>> /\ m \in models
      /\ UNCHANGED <<export, logs, selection, exit, report, rl, alive, models, children, stopping,
                     slot, pending, interrupts, starts, cut, scored>>
  BY DEF Backup
<1>2. m \in Models /\ Tail(todo) \in Seq(Models) /\ job \in {"none", "copy"}
  BY <1>1, HeadAndTail DEF Inv, Merging, Typed, ListsTyped
<1>3. backup[m] \in {"none", "copying", "copied"}  BY <1>2 DEF Inv, Typed, TypeOK
<1>4. \/ todo' = Tail(todo) /\ UNCHANGED <<main, job, backup>>
      \/ main' = "failing" /\ UNCHANGED <<todo, job, backup>>
      \/ /\ backup[m] = "none" /\ backup' = [backup EXCEPT ![m] = "copying"]
         /\ job' = "copy" /\ UNCHANGED <<main, todo>>
      \/ /\ backup' = [backup EXCEPT ![m] = "copied"]
         /\ job' = "none" /\ UNCHANGED <<main, todo>>
  BY <1>2, <1>3 DEF Backup, Fails
<1> HIDE DEF m
<1>5. ReadyStays /\ CopiedStays /\ logs \subseteq logs'
  BY <1>1, <1>4 DEF ReadyStays, CopiedStays, Inv, Typed, TypeOK
<1>6. SlotsTyped' /\ Busy' /\ Once' /\ Earned'  BY <1>1, <1>5, ThreadsAside
<1>7. ReportTyped' /\ OutcomeHonest'  BY <1>1, <1>5, ReportAside
<1>8. AllHeld' /\ Leftover' /\ NothingLeftRunning'  BY <1>1, <1>4, Elsewhere
<1>9. Threading'  BY <1>1, <1>4, StaysOrFails, EarlyIsIdle DEF Early
<1>10. TypeOK' /\ ListsTyped'
  BY <1>1, <1>2, <1>4 DEF Inv, Typed, TypeOK, ListsTyped
<1>11. Prepared' /\ Merging' /\ Safety'
  BY <1>1, <1>2, <1>4 DEF Inv, Prepared, Merging, Safety
<1> QED  BY <1>6, <1>7, <1>8, <1>9, <1>10, <1>11 DEF Inv, Typed

LEMMA WaitForTrainingKeeps == ASSUME Inv, WaitForTraining PROVE Inv'
<1>1. /\ UNCHANGED <<export, backup, logs, selection, exit, rl, alive, job, models, children,
                     stopping, slot, pending, interrupts, starts, cut, scored>>
      /\ \/ main = "preparing" /\ todo = <<>> /\ main' = "waiting" /\ UNCHANGED todo
         \/ main = "waiting" /\ main' = "failing" /\ UNCHANGED todo
         \/ main = "waiting" /\ main' = "late" /\ todo' \in {<<>>, <<Late>>}
      /\ report' = [report EXCEPT !.status = IF main = "preparing" THEN "waiting_for_rl"
                                             ELSE report.status]
  BY DEF WaitForTraining, Status, Fails
<1>2. ~report.safe  BY <1>1, EarlyIsIdle DEF Early
<1>3. ReportTyped' /\ OutcomeHonest' /\ ~report'.safe
  <2>1. CASE main = "preparing"
    <3>1. Status("waiting_for_rl")  BY <1>1, <2>1 DEF Status
    <3> QED  BY <1>1, <1>2, <3>1, StatusAside
  <2>2. CASE main # "preparing"
    <3>1. UNCHANGED report  BY <1>1, <2>2 DEF Inv, Typed, ReportTyped
    <3> QED  BY <1>1, <1>2, <3>1, ReportAside DEF ReadyStays, CopiedStays
  <2> QED  BY <2>1, <2>2
<1>4. SlotsTyped' /\ Busy' /\ Once' /\ Earned'
  BY <1>1, ThreadsAside DEF ReadyStays
<1>5. AllHeld' /\ Leftover' /\ NothingLeftRunning'  BY <1>1, Elsewhere
<1>6. Threading'  BY <1>1, StaysOrFails, EarlyIsIdle DEF Early
<1>7. todo' \in Seq(Models)
  <2>1. Late \in Models  BY ControllerAssumption
  <2>2. <<Late>> \in Seq(Models) /\ <<>> \in Seq(Models)  BY <2>1
  <2> QED  BY <1>1, <2>2 DEF Inv, Typed, ListsTyped
<1>8. TypeOK' /\ ListsTyped' /\ Merging' /\ Prepared' /\ Safety'
  BY <1>1, <1>3, <1>7 DEF Inv, Typed, TypeOK, ListsTyped, Merging, Prepared, Safety
<1> QED  BY <1>3, <1>4, <1>5, <1>6, <1>8 DEF Inv, Typed

LEMMA StartSimulatorKeeps == ASSUME Inv, StartSimulator PROVE Inv'
<1>1. /\ main = "late" /\ todo = <<>> /\ main' \in {"health", "failing"} /\ logs \subseteq logs'
      /\ \/ UNCHANGED <<logs, alive>>
         \/ logs' = logs \cup {Simulator} /\ alive' = alive \cup {Simulator}
      /\ UNCHANGED <<export, backup, selection, exit, report, rl, todo, job, models, stopping,
                     slot, pending, interrupts, starts, cut, scored>>
  BY DEF StartSimulator, Launch, LaunchOver, Fails
<1>2. ReadyStays /\ CopiedStays  BY <1>1 DEF ReadyStays, CopiedStays
<1>3. SlotsTyped' /\ Busy' /\ Once' /\ Earned'  BY <1>1, <1>2, ThreadsAside
<1>4. ReportTyped' /\ OutcomeHonest'  BY <1>1, <1>2, ReportAside
<1>5. AllHeld' /\ Leftover' /\ NothingLeftRunning'  BY <1>1, Elsewhere
<1>6. Threading'  BY <1>1, StaysOrFails, EarlyIsIdle DEF Early
<1>7. TypeOK' /\ ListsTyped' /\ Merging' /\ Prepared' /\ Safety'
  BY <1>1 DEF Inv, Typed, TypeOK, ListsTyped, Merging, Prepared, Safety
<1> QED  BY <1>3, <1>4, <1>5, <1>6, <1>7 DEF Inv, Typed

(* Every model is on the list, or one of those a thread starts with.       *)
LEMMA PlanCovers ==
  ASSUME NEW m \in Models
  PROVE  m \in ToSet(Queue) \/ \E s \in Threads : m \in ToSet(Slots[s])
<1>1. CASE m \in ToSet(Queue)  BY <1>1
<1>2. CASE m \in UNION {ToSet(arms) : arms \in ToSet(Slots)}
  <2>1. PICK arms \in ToSet(Slots) : m \in ToSet(arms)  BY <1>2
  <2>2. PICK s \in DOMAIN Slots : arms = Slots[s]  BY <2>1 DEF ToSet
  <2> QED  BY <2>1, <2>2 DEF Threads
<1> QED  BY <1>1, <1>2 DEF Models

LEMMA SlotsOfModels ==
  ASSUME NEW s \in Threads
  PROVE  Slots[s] \in Seq(Models) /\ Slots[s] # <<>>
<1>1. Slots \in Seq(Seq(Models) \ {<<>>})  BY ControllerAssumption
<1>2. DOMAIN Slots = 1..Len(Slots)  BY <1>1
<1> QED  BY <1>1, <1>2 DEF Threads

LEMMA SimulatorReadyKeeps == ASSUME Inv, SimulatorReady PROVE Inv'
<1>1. /\ main = "health"
      /\ UNCHANGED <<export, backup, logs, selection, exit, rl, alive, todo, job, models, children,
                     stopping, pending, interrupts, starts, cut, scored>>
  BY DEF SimulatorReady
<1>2. ReadyStays /\ CopiedStays /\ logs \subseteq logs' /\ ~report.safe
  BY <1>1, EarlyIsIdle DEF ReadyStays, CopiedStays, Early
<1>3. CASE Fails /\ UNCHANGED <<report, slot>>
  <2>1. SlotsTyped' /\ Busy' /\ Once' /\ Earned'  BY <1>1, <1>2, <1>3, ThreadsAside
  <2>2. ReportTyped' /\ OutcomeHonest'  BY <1>1, <1>2, <1>3, ReportAside
  <2>3. AllHeld' /\ Leftover' /\ NothingLeftRunning'  BY <1>3, Elsewhere DEF Fails
  <2>4. Threading'  BY <1>1, <1>3, StaysOrFails, EarlyIsIdle DEF Early, Fails
  <2>5. TypeOK' /\ ListsTyped' /\ Merging' /\ Prepared' /\ Safety'
    BY <1>1, <1>3 DEF Inv, Typed, TypeOK, ListsTyped, Merging, Prepared, Safety, Fails
  <2> QED  BY <2>1, <2>2, <2>3, <2>4, <2>5 DEF Inv, Typed
<1>4. CASE /\ main' = "evaluating" /\ Status("evaluating")
           /\ slot' = [s \in Threads |-> [Idle EXCEPT !.at = "take", !.arms = Slots[s]]]
  <2>1. ReportTyped' /\ OutcomeHonest' /\ ~report'.safe  BY <1>1, <1>2, <1>4, StatusAside
  <2>2. NoResults \in Outcomes
    <3>1. NoResults \in [{} -> {"ok", "error"}]  BY DEF NoResults
    <3> QED  BY <3>1 DEF Outcomes
  <2>3. /\ SlotsTyped'
        /\ \A s \in Threads : /\ slot'[s].at = "take" /\ slot'[s].arms = Slots[s]
                              /\ slot'[s].results = NoResults
    <3>1. ASSUME NEW s \in Threads
          PROVE  slot'[s] = [Idle EXCEPT !.at = "take", !.arms = Slots[s]]
      BY <1>4
    <3>2. ASSUME NEW s \in Threads
          PROVE  /\ slot'[s] \in [at : Places, model : Models \cup {"none"}, arms : Seq(Models),
                                  results : Outcomes]
                 /\ slot'[s].at = "take" /\ slot'[s].arms = Slots[s]
                 /\ slot'[s].results = NoResults
      <4>1. Slots[s] \in Seq(Models)  BY SlotsOfModels
      <4> QED  BY <3>1, <4>1, <2>2 DEF Idle, Places
    <3>3. slot' \in [Threads -> [at : Places, model : Models \cup {"none"}, arms : Seq(Models),
                                results : Outcomes]]
      BY <1>4, <3>1, <3>2
    <3> QED  BY <3>2, <3>3 DEF SlotsTyped
  <2>4. Busy'  BY <2>3, SlotsOfModels DEF Busy, Working
  <2>5. Once' /\ Earned'
    <3>1. \A s \in Threads : slot'[s].at \notin Working /\ DOMAIN slot'[s].results = {}
      BY <2>3 DEF Working, NoResults
    <3> QED  BY <1>1, <3>1 DEF Inv, Once, Earned, Working
  <2>6. AllHeld'
    <3>1. pending' = Queue  BY <1>1 DEF Inv, Threading, Early
    <3>2. \A s \in Threads : slot'[s].at = "take" /\ slot'[s].arms = Slots[s]  BY <2>3
    <3>3. ASSUME NEW m \in Models
          PROVE  m \in ToSet(pending') \/ \E s \in Threads : m \in ToSet(slot'[s].arms)
      BY <3>1, <3>2, PlanCovers
    <3> QED  BY <3>2, <3>3 DEF AllHeld, Holds
  <2>7. Threading' /\ Leftover' /\ NothingLeftRunning'
    BY <1>4 DEF Threading, Early, Leftover, NothingLeftRunning
  <2>8. TypeOK' /\ ListsTyped' /\ Merging' /\ Prepared' /\ Safety'
    BY <1>1, <1>4, <2>1 DEF Inv, Typed, TypeOK, ListsTyped, Merging, Prepared, Safety
  <2> QED  BY <2>1, <2>3, <2>4, <2>5, <2>6, <2>7, <2>8 DEF Inv, Typed
<1> QED  BY <1>3, <1>4 DEF SimulatorReady

(* What the threads report of a model is what one of them found.           *)
LEMMA ResultsOfThreads ==
  ASSUME SlotsTyped
  PROVE  /\ Results \in Outcomes
         /\ \A m \in DOMAIN Results :
              \E s \in Threads : m \in DOMAIN slot[s].results /\ Results[m] = slot[s].results[m]
         /\ \A m \in Models, s \in Threads :
              m \in DOMAIN slot[s].results => m \in DOMAIN Results
<1> DEFINE of(m) == {slot[s].results[m] : s \in {t \in Threads : m \in DOMAIN slot[t].results}}
           D == {n \in Models : of(n) # {}}
<1>1. Results = [m \in D |-> CHOOSE r \in of(m) : TRUE]  BY DEF Results
<1>2. \A m \in D : (CHOOSE r \in of(m) : TRUE) \in of(m)  OBVIOUS
<1>3. \A m \in D : of(m) \subseteq {"ok", "error"}  BY OneSlot
<1>4. D \subseteq Models  OBVIOUS
<1>5. \A m, r : r \in of(m) =>
        \E s \in Threads : m \in DOMAIN slot[s].results /\ r = slot[s].results[m]
  OBVIOUS
<1>6. \A m \in Models, s \in Threads : m \in DOMAIN slot[s].results => m \in D  OBVIOUS
<1> HIDE DEF of, D
<1>7. Results \in [D -> {"ok", "error"}]  BY <1>1, <1>2, <1>3
<1>8. Results \in Outcomes  BY <1>4, <1>7 DEF Outcomes
<1>9. DOMAIN Results = D /\ \A m \in D : Results[m] \in of(m)  BY <1>1, <1>2
<1> QED  BY <1>5, <1>6, <1>8, <1>9

(* When every thread is done, every model has a result.                    *)
LEMMA AllReported ==
  ASSUME Inv, main = "evaluating", Ended, \A s \in Threads : slot[s].at # "lost"
  PROVE  DOMAIN Results = Models
<1>1. \A s \in Threads : slot[s].at = "done" /\ pending = <<>> /\ slot[s].arms = <<>>
  BY DEF Inv, AllHeld, Ended
<1>2. Threads # {}
  <2>1. Slots \in Seq(Seq(Models) \ {<<>>}) /\ Slots # <<>>  BY ControllerAssumption
  <2>2. DOMAIN Slots = 1..Len(Slots) /\ Len(Slots) \in Nat \ {0}  BY <2>1, EmptySeq
  <2> QED  BY <2>2 DEF Threads
<1>3. pending = <<>> /\ ToSet(<<>>) = {}  BY <1>1, <1>2 DEF ToSet
<1>4. ASSUME NEW m \in Models PROVE m \in DOMAIN Results
  <2>1. PICK s \in Threads : Holds(s, m)  BY <1>3 DEF Inv, AllHeld
  <2>2. m \in DOMAIN slot[s].results  BY <2>1, <1>1, <1>3 DEF Holds, Working
  <2> QED  BY <2>2, ResultsOfThreads DEF Inv, Typed
<1>5. DOMAIN Results \subseteq Models  BY DEF Results
<1> QED  BY <1>4, <1>5

LEMMA CollectKeeps == ASSUME Inv, Collect PROVE Inv'
<1>1. /\ main \in {"evaluating", "draining"} /\ Ended
      /\ UNCHANGED <<export, backup, logs, selection, exit, rl, alive, todo, job, models, children,
                     stopping, slot, pending, interrupts, starts, cut, scored>>
  BY DEF Collect
<1>2. ReadyStays /\ CopiedStays /\ logs \subseteq logs'  BY <1>1 DEF ReadyStays, CopiedStays
<1>3. SlotsTyped' /\ Busy' /\ Once' /\ Earned'  BY <1>1, <1>2, ThreadsAside
<1>4. job # "merge" /\ ~report.safe  BY <1>1 DEF Inv, Merging, Safety
<1>5. TypeOK' /\ ListsTyped' /\ Merging' /\ Prepared'
  <2>1. main' \in {"failing", "cleanup"}  BY DEF Collect, Fails
  <2> QED  BY <1>1, <1>4, <2>1 DEF Inv, Typed, TypeOK, ListsTyped, Merging, Prepared
<1>6. CASE Fails /\ UNCHANGED report
  <2>1. ReportTyped' /\ OutcomeHonest'  BY <1>1, <1>2, <1>6, ReportAside
  <2>2. AllHeld' /\ Leftover' /\ NothingLeftRunning'  BY <1>1, <1>6, Elsewhere DEF Fails
  <2>3. Threading'  BY <1>1, <1>6, StaysOrFails DEF Fails
  <2>4. Safety'  BY <1>6 DEF Safety, Fails
  <2> QED  BY <1>3, <1>5, <2>1, <2>2, <2>3, <2>4 DEF Inv, Typed
<1>7. CASE /\ main = "evaluating" /\ \A s \in Threads : slot[s].at # "lost"
           /\ report' = [status |-> IF Complete THEN "complete" ELSE "incomplete",
                         results |-> Results,
                         safe |-> Complete /\ \A m \in BackedUp : backup[m] = "copied"]
           /\ main' = "cleanup"
  <2>1. DOMAIN Results = Models /\ Results \in Outcomes
    BY <1>1, <1>7, AllReported, ResultsOfThreads DEF Inv, Typed
  <2>2. report'.status = (IF Complete THEN "complete" ELSE "incomplete")
        /\ report'.results = Results
        /\ (report'.safe <=> Complete /\ \A m \in BackedUp : backup[m] = "copied")
    BY <1>7
  <2>3. ReportTyped'  BY <1>7, <2>1 DEF ReportTyped, Statuses
  <2>4. Complete => \A m \in Models : scored[m] = 1 /\ export[m] = "ready"
    <3>1. SUFFICES ASSUME Complete, NEW m \in Models PROVE scored[m] = 1 /\ export[m] = "ready"
      OBVIOUS
    <3>2. m \in DOMAIN Results /\ Results[m] = "ok"  BY <3>1 DEF Complete
    <3>3. PICK s \in Threads : m \in DOMAIN slot[s].results /\ slot[s].results[m] = "ok"
      BY <3>2, ResultsOfThreads DEF Inv, Typed
    <3> QED  BY <3>3 DEF Inv, Earned
  <2>5. OutcomeHonest'
    BY <1>1, <2>1, <2>2, <2>4 DEF Inv, OutcomeHonest
  <2>6. AllHeld' /\ Leftover' /\ NothingLeftRunning' /\ Safety'
    BY <1>7 DEF AllHeld, Leftover, NothingLeftRunning, Safety
  <2>7. Threading'  BY <1>1, <1>7 DEF Threading, Early, Ended
  <2> QED  BY <1>3, <1>5, <2>3, <2>5, <2>6, <2>7 DEF Inv, Typed
<1> QED  BY <1>1, <1>6, <1>7 DEF Collect

LEMMA RecordFailureKeeps == ASSUME Inv, RecordFailure PROVE Inv'
<1>1. /\ main = "failing" /\ main' = "finally" /\ exit' = "1"
      /\ report' = [report EXCEPT !.status = "failed", !.safe = FALSE]
      /\ UNCHANGED <<export, backup, logs, selection, rl, alive, todo, job, models, children,
                     stopping, slot, pending, interrupts, starts, cut, scored>>
  BY DEF RecordFailure
<1>2. ReadyStays /\ logs \subseteq logs'  BY <1>1 DEF ReadyStays
<1>3. SlotsTyped' /\ Busy' /\ Once' /\ Earned'  BY <1>1, <1>2, ThreadsAside
<1>4. ReportTyped' /\ OutcomeHonest' /\ Safety'
  BY <1>1 DEF Inv, Typed, ReportTyped, Statuses, OutcomeHonest, Safety
<1>5. AllHeld' /\ Leftover' /\ NothingLeftRunning'  BY <1>1, Elsewhere
<1>6. Threading'  BY <1>1 DEF Inv, Threading, Early, Ended
<1>7. TypeOK' /\ ListsTyped' /\ Merging' /\ Prepared'
  BY <1>1 DEF Inv, Typed, TypeOK, ListsTyped, Merging, Prepared
<1> QED  BY <1>3, <1>4, <1>5, <1>6, <1>7 DEF Inv, Typed

LEMMA CleanupKeeps == ASSUME Inv, Cleanup PROVE Inv'
<1>1. /\ main \in {"cleanup", "finally"} /\ stopping' = TRUE
      /\ UNCHANGED <<export, backup, logs, selection, report, rl, todo, job, models, children, slot,
                     pending, interrupts, starts, scored>>
  BY DEF Cleanup
<1>2. /\ alive' \subseteq alive /\ exit' \in {"absent", "0", "1"} /\ cut' \in BOOLEAN
      /\ main' \in {"finally", "failing", "exiting"} /\ (main = "finally" => main' = "exiting")
      /\ main' = "exiting" /\ ~cut' => alive' \cap children' = {}
  <2>1. CASE /\ alive' = alive \ children /\ UNCHANGED cut
             /\ main' = IF main = "cleanup" THEN "finally" ELSE "exiting"
             /\ exit' = IF main = "cleanup" THEN ExitCode ELSE exit
    BY <1>1, <2>1 DEF ExitCode, Inv, Typed, TypeOK, ListsTyped
  <2>2. CASE /\ \E stopped \in SUBSET (children \cap alive) :
                   stopped # children \cap alive /\ alive' = alive \ stopped
             /\ main' = IF main = "cleanup" THEN "failing" ELSE "exiting"
             /\ cut' = (cut \/ main = "finally") /\ UNCHANGED exit
    BY <1>1, <2>2 DEF Inv, Typed, TypeOK, ListsTyped
  <2> QED  BY <2>1, <2>2 DEF Cleanup
<1>3. ReadyStays /\ CopiedStays /\ logs \subseteq logs'  BY <1>1 DEF ReadyStays, CopiedStays
<1>4. SlotsTyped' /\ Busy' /\ Once' /\ Earned'  BY <1>1, <1>3, ThreadsAside
<1>5. ReportTyped' /\ OutcomeHonest'  BY <1>1, <1>3, ReportAside
<1>6. AllHeld' /\ Leftover' /\ NothingLeftRunning'
  BY <1>2 DEF AllHeld, Leftover, NothingLeftRunning
<1>7. Threading'  BY <1>1, <1>2 DEF Threading, Early
<1>8. TypeOK' /\ ListsTyped'  BY <1>1, <1>2 DEF Inv, Typed, TypeOK, ListsTyped
<1>9. Merging' /\ Prepared' /\ Safety'  BY <1>1, <1>2 DEF Inv, Merging, Prepared, Safety
<1> QED  BY <1>4, <1>5, <1>6, <1>7, <1>8, <1>9 DEF Inv, Typed

(* The process is gone, whatever is left of its children.                  *)
LEMMA VanishKeeps ==
  ASSUME Inv, Vanish, cut' \in BOOLEAN, ~cut' => alive \cap children = {}
  PROVE  Inv'
<1>1. /\ main' = "down" /\ todo' = <<>> /\ job' = "none" /\ models' = {} /\ stopping' = FALSE
      /\ slot' = [s \in Threads |-> Idle] /\ pending' = <<>>
      /\ UNCHANGED <<export, backup, logs, selection, exit, report, rl, alive, children, starts,
                     scored>>
  BY DEF Vanish, disk
<1>2. NoResults \in Outcomes /\ <<>> \in Seq(Models)
  <2>1. NoResults \in [{} -> {"ok", "error"}]  BY DEF NoResults
  <2> QED  BY <2>1, SMTT(30) DEF Outcomes
<1>3. \A s \in Threads : slot'[s] = Idle  BY <1>1
<1>4. SlotsTyped' /\ Busy'
  BY <1>1, <1>2 DEF SlotsTyped, Busy, Idle, Places, Working
<1>5. TypeOK' /\ ListsTyped'  BY <1>1, <1>2 DEF Inv, Typed, TypeOK, ListsTyped
<1>6. Once'  BY <1>1, <1>3 DEF Inv, Once, Idle
<1>7. Earned'  BY <1>3 DEF Earned, Idle, Working, NoResults
<1>8. Threading'  BY <1>1, <1>3 DEF Threading, Early, Ended, Idle
<1>9. ReportTyped' /\ OutcomeHonest'  BY <1>1, ReportAside DEF ReadyStays, CopiedStays
<1>10. Merging' /\ Prepared' /\ AllHeld' /\ Safety' /\ Leftover' /\ NothingLeftRunning'
  BY <1>1 DEF Merging, Prepared, AllHeld, Safety, Leftover, NothingLeftRunning
<1> QED  BY <1>4, <1>5, <1>6, <1>7, <1>8, <1>9, <1>10 DEF Inv, Typed

LEMMA ProcessEndsKeeps == ASSUME Inv, ProcessEnds PROVE Inv'
<1>1. main = "exiting" /\ Ended /\ Vanish /\ cut' = cut  BY DEF ProcessEnds
<1>2. ~cut => alive \cap children = {}
  <2>1. SUFFICES ASSUME ~cut, NEW c \in alive \cap children PROVE FALSE  OBVIOUS
  <2>2. PICK s \in Threads : slot[s].at \in {"service", "stop"}
    BY <1>1, <2>1 DEF Inv, Leftover
  <2> QED  BY <1>1, <2>2 DEF Ended
<1> QED  BY <1>1, <1>2, VanishKeeps DEF Inv, Typed, ListsTyped

LEMMA KillKeeps == ASSUME Inv, Kill PROVE Inv'
BY VanishKeeps DEF Kill

LEMMA InterruptKeeps == ASSUME Inv, Interrupt PROVE Inv'
<1>1. /\ main \notin {"down", "exiting"} /\ stopping' = TRUE
      /\ UNCHANGED <<export, backup, logs, selection, exit, report, rl, alive, todo, job, models,
                     slot, pending, starts, scored>>
  BY DEF Interrupt, disk
<1>2. \/ main = "evaluating" /\ main' = "draining" /\ UNCHANGED cut
      \/ main = "failing" /\ main' = "finally" /\ UNCHANGED cut
      \/ main = "finally" /\ main' = "exiting" /\ cut' = TRUE
      \/ main' = "failing" /\ cut' \in {cut, TRUE}
  BY DEF Interrupt, Fails
<1>3. ReadyStays /\ CopiedStays /\ logs \subseteq logs'  BY <1>1 DEF ReadyStays, CopiedStays
<1>4. SlotsTyped' /\ Busy' /\ Once' /\ Earned'  BY <1>1, <1>3, ThreadsAside
<1>5. ReportTyped' /\ OutcomeHonest'  BY <1>1, <1>3, ReportAside
<1>6. AllHeld' /\ Leftover' /\ NothingLeftRunning'
  BY <1>2 DEF AllHeld, Leftover, NothingLeftRunning
<1>7. Threading'  BY <1>1, <1>2 DEF Threading, Early
<1>8. TypeOK' /\ ListsTyped'  BY <1>1, <1>2 DEF Inv, Typed, TypeOK, ListsTyped
<1>9. Merging' /\ Prepared' /\ Safety'  BY <1>1, <1>2 DEF Inv, Merging, Prepared, Safety
<1> QED  BY <1>4, <1>5, <1>6, <1>7, <1>8, <1>9 DEF Inv, Typed

-----------------------------------------------------------------------------
(* Steps of the threads.                                                   *)

(* Where the main thread can be while a thread is at work.                 *)
LEMMA Accompanied ==
  ASSUME Inv, NEW s \in Threads, slot[s].at \notin {"idle", "done", "lost"}
  PROVE  /\ main \notin Early \cup {"down", "cleanup"} /\ (main # "evaluating" => stopping)
         /\ ~Ended
BY DEF Inv, Threading, Ended

(* What no thread step touches.                                            *)
LEMMA ThreadFrame ==
  ASSUME Inv, NEW s \in Threads, slot[s].at \notin {"idle", "done", "lost"}, UNCHANGED Keeps,
         SlotsTyped', Others(s), logs \subseteq logs', alive' \subseteq logs',
         selection' \in BOOLEAN, cut' \in BOOLEAN, pending' \in Seq(Models),
         scored' \in [Models -> Nat],
         slot'[s].at \in Working \cup {"stop", "next"} => slot'[s].model \in Models,
         slot'[s].at = "take" => slot'[s].arms # <<>>
  PROVE  /\ Typed' /\ Merging' /\ Prepared' /\ Threading' /\ Safety' /\ NothingLeftRunning'
<1>1. UNCHANGED <<export, backup, exit, report, rl, main, todo, job, models, stopping>>
  BY DEF Keeps
<1>2. Typed'
  <2>1. TypeOK' /\ ReportTyped' /\ ListsTyped'
    BY <1>1 DEF Inv, Typed, TypeOK, ReportTyped, ListsTyped
  <2>2. Busy'  BY DEF Inv, Typed, Busy, Others
  <2> QED  BY <2>1, <2>2 DEF Typed
<1>3. Merging' /\ Prepared' /\ Safety'  BY <1>1 DEF Inv, Merging, Prepared, Safety
<1>4. Threading' /\ NothingLeftRunning'
  BY <1>1, Accompanied DEF Inv, Threading, Early, NothingLeftRunning
<1> QED  BY <1>2, <1>3, <1>4

LEMMA OnceStays ==
  ASSUME Inv, NEW s \in Threads, Others(s), UNCHANGED scored, logs \subseteq logs',
         selection => selection', slot'[s].at # "full"
  PROVE  Once'
BY DEF Inv, Once, Others

LEMMA EarnedStays ==
  ASSUME Inv, NEW s \in Threads, Others(s), UNCHANGED <<export, scored>>,
         slot'[s].at \in Working => slot[s].at \in Working /\ slot'[s].model = slot[s].model,
         \/ slot'[s].results = slot[s].results
         \/ \E m \in Models : slot'[s].results = Record(slot[s].results, m, "error")
  PROVE  Earned'
<1>1. ASSUME NEW m \in DOMAIN slot'[s].results, slot'[s].results[m] = "ok"
      PROVE  scored[m] = 1 /\ export[m] = "ready"
  <2>1. CASE slot'[s].results = slot[s].results  BY <1>1, <2>1 DEF Inv, Earned
  <2>2. CASE \E x \in Models : slot'[s].results = Record(slot[s].results, x, "error")
    <3>1. PICK x \in Models : slot'[s].results = Record(slot[s].results, x, "error")  BY <2>2
    <3>2. slot[s].results \in Outcomes  BY OneSlot DEF Inv, Typed
    <3>3. LET r == Record(slot[s].results, x, "error") IN
            /\ DOMAIN r = DOMAIN slot[s].results \cup {x} /\ r[x] = "error"
            /\ \A y \in DOMAIN slot[s].results : y # x => r[y] = slot[s].results[y]
      BY <3>2, Recording
    <3>4. m # x /\ m \in DOMAIN slot[s].results /\ slot[s].results[m] = "ok"
      BY <1>1, <3>1, <3>3
    <3> QED  BY <3>4 DEF Inv, Earned
  <2> QED  BY <2>1, <2>2
<1> QED  BY <1>1 DEF Inv, Earned, Others

LEMMA HeldStays ==
  ASSUME Inv, NEW s \in Threads, Others(s), UNCHANGED <<main, pending>>,
         slot'[s].at \notin {"idle", "done"}, \A m \in Models : Holds(s, m) => Holds(s, m)'
  PROVE  AllHeld'
<1>1. SUFFICES ASSUME main = "evaluating"
               PROVE  /\ \A t \in Threads : slot'[t].at # "idle"
                      /\ \A m \in Models : m \in ToSet(pending) \/ \E t \in Threads : Holds(t, m)'
                      /\ \A t \in Threads :
                           slot'[t].at = "done" => pending = <<>> /\ slot'[t].arms = <<>>
  BY DEF AllHeld
<1>2. ASSUME NEW t \in Threads, NEW m \in Models, Holds(t, m) PROVE Holds(t, m)'
  <2>1. CASE t = s  BY <1>2, <2>1
  <2>2. CASE t # s  BY <1>2, <2>2 DEF Holds, Others
  <2> QED  BY <2>1, <2>2
<1> QED  BY <1>1, <1>2 DEF Inv, AllHeld, Others

LEMMA LeftoverStays ==
  ASSUME Inv, NEW s \in Threads, Others(s), UNCHANGED <<main, children>>, alive' \subseteq alive,
         ~cut' => ~cut,
         slot[s].at \in {"service", "stop"}
           => slot'[s].at \in {"service", "stop"} /\ slot'[s].model = slot[s].model
  PROVE  Leftover'
<1>1. SUFFICES ASSUME main = "exiting", ~cut, NEW c \in alive \cap children
               PROVE  \E t \in Threads : slot'[t].at \in {"service", "stop"} /\ c = Policy(t)'
  BY DEF Leftover
<1>2. PICK t \in Threads : slot[t].at \in {"service", "stop"} /\ c = Policy(t)
  BY <1>1 DEF Inv, Leftover
<1>3. slot'[t].at \in {"service", "stop"} /\ slot'[t].model = slot[t].model
  BY <1>2 DEF Others
<1> QED  BY <1>2, <1>3 DEF Policy

LEMMA TakeKeeps == ASSUME Inv, NEW s \in Threads, Take(s) PROVE Inv'
<1> DEFINE m == Head(slot[s].arms)
<1>1. /\ slot[s].at = "take"
      /\ UNCHANGED Keeps /\ UNCHANGED <<logs, selection, alive, children, pending, cut, scored>>
  BY DEF Take
<1>2. UNCHANGED <<export, backup, report, main, models>>  BY <1>1 DEF Keeps
<1>3. Typed  BY DEF Inv
<1>4. /\ SlotsTyped' /\ Others(s) /\ slot[s].arms # <<>> /\ m \in Models
      /\ slot'[s].model = m /\ slot'[s].arms = Tail(slot[s].arms)
      /\ \/ slot'[s].at = "launch" /\ slot'[s].results = slot[s].results /\ m \in models
         \/ slot'[s].at = "next" /\ slot'[s].results = Record(slot[s].results, m, "error")
  BY <1>3, TakeMoves
<1>5. slot[s].arms \in Seq(Models) /\ slot[s].results \in Outcomes  BY <1>3, OneSlot DEF Typed
<1>6. \A x : x \in ToSet(slot[s].arms) <=> x = m \/ x \in ToSet(Tail(slot[s].arms))
  BY <1>4, <1>5, HeadAndTail
<1> HIDE DEF m
<1>7. Typed' /\ Merging' /\ Prepared' /\ Threading' /\ Safety' /\ NothingLeftRunning'
  <2>1. /\ logs' = logs /\ alive' \subseteq logs' /\ selection' \in BOOLEAN /\ cut' \in BOOLEAN
        /\ pending' \in Seq(Models) /\ scored' \in [Models -> Nat]
    BY <1>1, <1>3 DEF Typed, TypeOK, ListsTyped
  <2> QED  BY <1>1, <1>4, <2>1, ThreadFrame
<1>8. Once'  BY <1>1, <1>4, OnceStays
<1>9. Earned'
  <2>1. CASE slot'[s].at = "launch" /\ slot'[s].results = slot[s].results /\ m \in models
    <3>1. export[m] = "ready"  BY <2>1 DEF Inv, Prepared
    <3> QED  BY <1>1, <1>2, <1>4, <2>1, <3>1 DEF Inv, Earned, Others
  <2>2. CASE slot'[s].at = "next" /\ slot'[s].results = Record(slot[s].results, m, "error")
    BY <1>1, <1>2, <1>4, <2>2, EarnedStays DEF Working
  <2> QED  BY <1>4, <2>1, <2>2
<1>10. AllHeld'
  <2>1. ASSUME NEW x \in Models, Holds(s, x) PROVE Holds(s, x)'
    <3>1. x \in DOMAIN slot[s].results \/ x = m \/ x \in ToSet(Tail(slot[s].arms))
      BY <1>1, <1>6, <2>1 DEF Holds, Working
    <3>2. DOMAIN Record(slot[s].results, m, "error") = DOMAIN slot[s].results \cup {m}
      BY <1>4, <1>5, Recording, ZenonT(40)
    <3>3. /\ DOMAIN slot[s].results \subseteq DOMAIN slot'[s].results
          /\ slot'[s].at = "launch" \/ m \in DOMAIN slot'[s].results
      BY <1>4, <3>2
    <3> QED  BY <1>4, <3>1, <3>3 DEF Holds, Working
  <2> QED  BY <1>1, <1>2, <1>4, <2>1, HeldStays
<1>11. Leftover'  BY <1>1, <1>2, <1>4, LeftoverStays
<1>12. OutcomeHonest'  BY <1>1, <1>2 DEF Inv, OutcomeHonest
<1> QED  BY <1>7, <1>8, <1>9, <1>10, <1>11, <1>12 DEF Inv

LEMMA LaunchPolicyKeeps == ASSUME Inv, NEW s \in Threads, LaunchPolicy(s) PROVE Inv'
<1>1. /\ slot[s].at = "launch" /\ UNCHANGED Keeps /\ UNCHANGED <<selection, pending, cut, scored>>
      /\ logs' = logs \cup {Policy(s)} /\ alive' = alive \cup {Policy(s)}
  BY DEF LaunchPolicy, Launch, LaunchOver
<1>2. UNCHANGED <<export, backup, report, main, models>>  BY <1>1 DEF Keeps
<1>3. Typed /\ slot[s].model \in Models  BY <1>1 DEF Inv, Typed, Busy, Working
<1>4. /\ SlotsTyped' /\ Others(s) /\ slot'[s].at = "service" /\ slot'[s].model = slot[s].model
      /\ slot'[s].arms = slot[s].arms /\ slot'[s].results = slot[s].results
  BY <1>3, LaunchPolicyMoves
<1>5. Typed' /\ Merging' /\ Prepared' /\ Threading' /\ Safety' /\ NothingLeftRunning'
  <2>1. /\ logs \subseteq logs' /\ alive' \subseteq logs' /\ selection' \in BOOLEAN
        /\ cut' \in BOOLEAN /\ pending' \in Seq(Models) /\ scored' \in [Models -> Nat]
    BY <1>1, <1>3 DEF Typed, TypeOK, ListsTyped
  <2> QED  BY <1>1, <1>3, <1>4, <2>1, ThreadFrame
<1>6. Once'  BY <1>1, <1>4, OnceStays
<1>7. Earned'  BY <1>1, <1>2, <1>4, EarnedStays DEF Working
<1>8. AllHeld'
  <2>1. \A m \in Models : Holds(s, m) => Holds(s, m)'  BY <1>1, <1>4 DEF Holds, Working
  <2> QED  BY <1>1, <1>2, <1>4, <2>1, HeldStays
<1>9. Leftover'
  <2>1. SUFFICES ASSUME main = "exiting", ~cut, NEW c \in alive' \cap children'
                 PROVE  \E t \in Threads : slot'[t].at \in {"service", "stop"} /\ c = Policy(t)'
    BY <1>1, <1>2 DEF Leftover
  <2>2. children' = children \cup {Policy(s)}  BY DEF LaunchPolicy, Launch, LaunchOver
  <2>3. CASE c = Policy(s)  BY <1>4, <2>3 DEF Policy
  <2>4. CASE c # Policy(s)
    <3>1. PICK t \in Threads : slot[t].at \in {"service", "stop"} /\ c = Policy(t)
      BY <1>1, <2>1, <2>2, <2>4 DEF Inv, Leftover
    <3>2. slot'[t] = slot[t]  BY <1>1, <1>4, <3>1 DEF Others
    <3> QED  BY <3>1, <3>2 DEF Policy
  <2> QED  BY <2>3, <2>4
<1>10. OutcomeHonest'  BY <1>1, <1>2 DEF Inv, OutcomeHonest
<1> QED  BY <1>5, <1>6, <1>7, <1>8, <1>9, <1>10 DEF Inv

(* A thread gives up its model: a failure in service or in the evaluation. *)
LEMMA GivesUp ==
  ASSUME Inv, NEW s \in Threads, slot[s].at \in {"service", "full"}, UNCHANGED Keeps,
         UNCHANGED <<logs, selection, children, pending, scored>>, alive' \subseteq alive,
         cut' \in BOOLEAN, ~cut' => ~cut, slot' = Failed(s, slot[s].model, "stop")
  PROVE  Inv'
<1>1. Typed /\ slot[s].at \in Working /\ slot[s].model \in Models
  BY DEF Inv, Typed, Busy, Working
<1>2. UNCHANGED <<export, backup, report, main, models>>  BY DEF Keeps
<1>3. /\ SlotsTyped' /\ Others(s) /\ slot'[s].at = "stop" /\ slot'[s].model = slot[s].model
      /\ slot'[s].arms = slot[s].arms
      /\ slot'[s].results = Record(slot[s].results, slot[s].model, "error")
  BY <1>1, FailedMoves
<1>4. Typed' /\ Merging' /\ Prepared' /\ Threading' /\ Safety' /\ NothingLeftRunning'
  <2>1. /\ logs' = logs /\ alive' \subseteq logs' /\ selection' \in BOOLEAN
        /\ pending' \in Seq(Models) /\ scored' \in [Models -> Nat]
    BY <1>1 DEF Typed, TypeOK, ListsTyped
  <2> QED  BY <1>1, <1>3, <2>1, ThreadFrame
<1>5. Once'  BY <1>3, OnceStays
<1>6. Earned'  BY <1>1, <1>2, <1>3, EarnedStays DEF Working
<1>7. AllHeld'
  <2>1. slot[s].results \in Outcomes  BY <1>1, OneSlot DEF Typed
  <2>2. DOMAIN Record(slot[s].results, slot[s].model, "error")
          = DOMAIN slot[s].results \cup {slot[s].model}
    BY <1>1, <2>1, Recording
  <2>3. \A m \in Models : Holds(s, m) => Holds(s, m)'  BY <1>3, <2>2 DEF Holds
  <2> QED  BY <1>2, <1>3, <2>3, HeldStays
<1>8. Leftover'  BY <1>2, <1>3, LeftoverStays
<1>9. OutcomeHonest'  BY <1>2 DEF Inv, OutcomeHonest
<1> QED  BY <1>4, <1>5, <1>6, <1>7, <1>8, <1>9 DEF Inv

LEMMA JobFailsKeeps == ASSUME Inv, NEW s \in Threads, JobFails(s) PROVE Inv'
<1>1. /\ slot[s].at = "full" /\ UNCHANGED Keeps /\ slot' = Failed(s, slot[s].model, "stop")
      /\ UNCHANGED <<logs, selection, children, pending, scored>>
      /\ alive' \subseteq alive
      /\ cut' \in {cut, cut \/ main \in {"finally", "exiting"}}
  BY DEF JobFails
<1>2. cut \in BOOLEAN  BY DEF Inv, Typed, ListsTyped
<1>3. cut' \in BOOLEAN /\ (~cut' => ~cut)
  <2>1. CASE cut' = cut  BY <1>2, <2>1
  <2>2. CASE cut' = (cut \/ main \in {"finally", "exiting"})  BY <1>2, <2>2
  <2> QED  BY <1>1, <2>1, <2>2
<1> QED  BY <1>1, <1>3, GivesUp

LEMMA ServeKeeps == ASSUME Inv, NEW s \in Threads, Serve(s) PROVE Inv'
<1>1. slot[s].at = "service" /\ UNCHANGED Keeps /\ UNCHANGED <<pending, cut, scored>>
  BY DEF Serve
<1>2. CASE /\ slot' = Failed(s, slot[s].model, "stop")
           /\ UNCHANGED <<logs, alive, children, selection>>
  BY <1>1, <1>2, GivesUp DEF Inv, Typed, ListsTyped
<1>3. CASE /\ ~stopping /\ Launch(Child("full", slot[s].model))
           /\ selection' \in {selection, TRUE} /\ slot' = [slot EXCEPT ![s].at = "full"]
  <2> DEFINE m == slot[s].model
             c == Child("full", m)
  <2>1. Typed /\ m \in Models  BY <1>1 DEF Inv, Typed, Busy, Working
  <2>2. UNCHANGED <<export, backup, report, main, models, stopping>>  BY <1>1 DEF Keeps
  <2>3. c \notin logs /\ logs' = logs \cup {c} /\ alive' = alive \cup {c}
    BY <1>3 DEF Launch, LaunchOver
  <2>4. /\ SlotsTyped' /\ Others(s) /\ slot'[s].at = "full" /\ slot'[s].model = m
        /\ slot'[s].arms = slot[s].arms /\ slot'[s].results = slot[s].results
    BY <1>3, <2>1 DEF Typed, SlotsTyped, Places, Working, Others
  <2>5. Typed' /\ Merging' /\ Prepared' /\ Threading' /\ Safety' /\ NothingLeftRunning'
    <3>1. /\ logs \subseteq logs' /\ alive' \subseteq logs' /\ selection' \in BOOLEAN
          /\ cut' \in BOOLEAN /\ pending' \in Seq(Models) /\ scored' \in [Models -> Nat]
      BY <1>1, <1>3, <2>1, <2>3 DEF Typed, TypeOK, ListsTyped
    <3> QED  BY <1>1, <2>1, <2>4, <3>1, ThreadFrame
  <2>6. Once'
    <3>1. scored[m] = 0  BY <2>1, <2>3 DEF Inv, Once
    <3>2. \A t \in Threads : slot[t].at = "full" => slot[t].model # m
      BY <2>3 DEF Inv, Once
    <3>3. selection => selection'  BY <1>3
    <3> QED  BY <1>1, <2>3, <2>4, <3>1, <3>2, <3>3 DEF Inv, Once, Others
  <2>7. Earned'  BY <1>1, <2>2, <2>4, EarnedStays DEF Working
  <2>8. AllHeld'
    <3>1. \A x \in Models : Holds(s, x) => Holds(s, x)'  BY <1>1, <2>4 DEF Holds, Working
    <3> QED  BY <1>1, <2>2, <2>4, <3>1, HeldStays
  <2>9. Leftover'
    <3>1. main # "exiting"  BY <1>3 DEF Inv, Threading
    <3> QED  BY <2>2, <3>1 DEF Leftover
  <2>10. OutcomeHonest'  BY <1>1, <2>2 DEF Inv, OutcomeHonest
  <2> QED  BY <2>5, <2>6, <2>7, <2>8, <2>9, <2>10 DEF Inv
<1> QED  BY <1>2, <1>3 DEF Serve

LEMMA FullPassedKeeps == ASSUME Inv, NEW s \in Threads, FullPassed(s) PROVE Inv'
<1> DEFINE m == slot[s].model
<1>1. /\ slot[s].at = "full" /\ UNCHANGED Keeps
      /\ UNCHANGED <<logs, alive, children, pending, cut>>
      /\ selection' = TRUE /\ scored' = [scored EXCEPT ![m] = @ + 1]
  BY DEF FullPassed
<1>2. UNCHANGED <<export, backup, report, main, models>>  BY <1>1 DEF Keeps
<1>3. /\ Typed /\ m \in Models /\ SlotsTyped' /\ Others(s) /\ slot'[s].at = "stop"
      /\ slot'[s].model = m /\ slot'[s].arms = slot[s].arms
      /\ slot'[s].results = Record(slot[s].results, m, "ok")
  BY FullPassedMoves DEF Inv
<1>4. slot[s].results \in Outcomes  BY <1>3, OneSlot DEF Typed
<1>5. /\ DOMAIN slot'[s].results = DOMAIN slot[s].results \cup {m}
      /\ \A x \in DOMAIN slot[s].results : x # m => slot'[s].results[x] = slot[s].results[x]
  <2>1. LET r == Record(slot[s].results, m, "ok") IN
          /\ DOMAIN r = DOMAIN slot[s].results \cup {m}
          /\ \A x \in DOMAIN slot[s].results : x # m => r[x] = slot[s].results[x]
    BY <1>3, <1>4, Recording
  <2> QED  BY <1>3, <2>1
<1>6. /\ scored[m] = 0 /\ scored'[m] = 1 /\ Child("full", m) \in logs /\ export[m] = "ready"
      /\ scored' \in [Models -> Nat] /\ \A x \in Models : x # m => scored'[x] = scored[x]
  BY <1>1, <1>3 DEF Inv, Once, Earned, Working, Typed, TypeOK
<1> HIDE DEF m
<1>7. Typed' /\ Merging' /\ Prepared' /\ Threading' /\ Safety' /\ NothingLeftRunning'
  <2>1. /\ logs' = logs /\ alive' \subseteq logs' /\ selection' \in BOOLEAN /\ cut' \in BOOLEAN
        /\ pending' \in Seq(Models)
    BY <1>1, <1>3 DEF Typed, TypeOK, ListsTyped
  <2> QED  BY <1>1, <1>3, <1>6, <2>1, ThreadFrame
<1>8. Once'
  <2>1. \A x \in Models : scored'[x] \in {0, 1} /\ (scored'[x] = 1 => Child("full", x) \in logs)
    BY <1>6 DEF Inv, Once
  <2>2. ASSUME NEW t \in Threads, slot'[t].at = "full"
        PROVE  /\ t # s /\ slot[t] = slot'[t] /\ slot[t].model \in Models /\ slot[t].model # m
    <3>1. t # s /\ slot[t] = slot'[t]  BY <1>3, <2>2 DEF Others
    <3>2. slot[t].model \in Models  BY <1>3, <2>2, <3>1 DEF Typed, Busy, Working
    <3>3. slot[t].model # m  BY <1>1, <2>2, <3>1 DEF Inv, Once, m
    <3> QED  BY <3>1, <3>2, <3>3
  <2> QED  BY <1>1, <1>6, <2>1, <2>2 DEF Inv, Once
<1>9. Earned'
  <2>1. ASSUME NEW t \in Threads, NEW x \in DOMAIN slot'[t].results, slot'[t].results[x] = "ok"
        PROVE  scored'[x] = 1 /\ export[x] = "ready"
    <3>1. CASE x = m  BY <1>6, <3>1
    <3>2. CASE x # m
      <4>1. x \in DOMAIN slot[t].results /\ slot[t].results[x] = "ok"
        BY <1>3, <1>5, <2>1, <3>2 DEF Others
      <4>2. x \in Models  BY <1>3, <4>1, OneSlot DEF Typed
      <4> QED  BY <1>6, <3>2, <4>1, <4>2 DEF Inv, Earned
    <3> QED  BY <3>1, <3>2
  <2>2. ASSUME NEW t \in Threads, slot'[t].at \in Working PROVE export[slot'[t].model] = "ready"
    BY <1>3, <2>2 DEF Inv, Earned, Others, Working
  <2> QED  BY <1>2, <2>1, <2>2 DEF Earned
<1>10. AllHeld'
  <2>1. \A x \in Models : Holds(s, x) => Holds(s, x)'  BY <1>3, <1>5 DEF Holds, m
  <2> QED  BY <1>1, <1>2, <1>3, <2>1, HeldStays
<1>11. Leftover'  BY <1>1, <1>2, <1>3, LeftoverStays
<1>12. OutcomeHonest'
  <2>1. report.status # "complete"  BY <1>3, <1>6 DEF Inv, OutcomeHonest
  <2>2. \A x \in Models : scored'[x] <= 1  BY <1>6 DEF Inv, OutcomeHonest
  <2> QED  BY <1>2, <2>1, <2>2 DEF Inv, OutcomeHonest
<1> QED  BY <1>7, <1>8, <1>9, <1>10, <1>11, <1>12 DEF Inv

LEMMA StopPolicyKeeps == ASSUME Inv, NEW s \in Threads, StopPolicy(s) PROVE Inv'
<1>1. /\ slot[s].at = "stop" /\ UNCHANGED Keeps
      /\ UNCHANGED <<logs, selection, children, pending, scored>> /\ alive' \subseteq alive
  BY DEF StopPolicy
<1>2. UNCHANGED <<export, backup, report, main, models>>  BY <1>1 DEF Keeps
<1>3. /\ Typed /\ slot[s].model \in Models /\ SlotsTyped' /\ Others(s)
      /\ slot'[s].at \in {"next", "lost"} /\ slot'[s].model = slot[s].model
      /\ slot'[s].arms = slot[s].arms /\ slot'[s].results = slot[s].results
  BY StopPolicyMoves DEF Inv
<1>4. \/ alive' = alive \ {Policy(s)} /\ cut' = cut
      \/ cut' = (cut \/ main \in {"finally", "exiting"})
  BY DEF StopPolicy
<1>5. cut' \in BOOLEAN  BY <1>3, <1>4 DEF Typed, ListsTyped
<1>6. Typed' /\ Merging' /\ Prepared' /\ Threading' /\ Safety' /\ NothingLeftRunning'
  <2>1. /\ logs' = logs /\ alive' \subseteq logs' /\ selection' \in BOOLEAN
        /\ pending' \in Seq(Models) /\ scored' \in [Models -> Nat]
    BY <1>1, <1>3 DEF Typed, TypeOK, ListsTyped
  <2> QED  BY <1>1, <1>3, <1>5, <2>1, ThreadFrame
<1>7. Once'  BY <1>1, <1>3, OnceStays
<1>8. Earned'  BY <1>1, <1>2, <1>3, EarnedStays DEF Working
<1>9. AllHeld'
  <2>1. \A m \in Models : Holds(s, m) => Holds(s, m)'  BY <1>1, <1>3 DEF Holds, Working
  <2> QED  BY <1>1, <1>2, <1>3, <2>1, HeldStays
<1>10. Leftover'
  <2>1. SUFFICES ASSUME main = "exiting", ~cut', NEW c \in alive' \cap children
                 PROVE  \E t \in Threads : slot'[t].at \in {"service", "stop"} /\ c = Policy(t)'
    BY <1>1, <1>2 DEF Leftover
  <2>2. alive' = alive \ {Policy(s)} /\ ~cut
    <3>1. CASE alive' = alive \ {Policy(s)} /\ cut' = cut  BY <2>1, <3>1
    <3>2. CASE cut' = (cut \/ main \in {"finally", "exiting"})  BY <2>1, <3>2
    <3> QED  BY <1>4, <3>1, <3>2
  <2>3. PICK t \in Threads : slot[t].at \in {"service", "stop"} /\ c = Policy(t)
    BY <1>1, <2>1, <2>2 DEF Inv, Leftover
  <2>4. t # s  BY <2>1, <2>2, <2>3
  <2>5. slot'[t] = slot[t]  BY <1>3, <2>4 DEF Others
  <2> QED  BY <2>3, <2>5 DEF Policy
<1>11. OutcomeHonest'  BY <1>1, <1>2 DEF Inv, OutcomeHonest
<1> QED  BY <1>6, <1>7, <1>8, <1>9, <1>10, <1>11 DEF Inv

LEMMA NextModelKeeps == ASSUME Inv, NEW s \in Threads, NextModel(s) PROVE Inv'
<1>1. /\ slot[s].at = "next" /\ UNCHANGED Keeps
      /\ UNCHANGED <<logs, selection, alive, children, cut, scored>>
  BY DEF NextModel
<1>2. UNCHANGED <<export, backup, report, main, models>>  BY <1>1 DEF Keeps
<1>3. Typed  BY DEF Inv
<1>4. /\ SlotsTyped' /\ Others(s) /\ slot'[s].model = slot[s].model
      /\ slot'[s].results = slot[s].results /\ pending' \in Seq(Models)
      /\ slot'[s].at = (IF slot'[s].arms = <<>> THEN "done" ELSE "take")
      /\ pending = <<>> => pending' = <<>>
      /\ slot'[s].arms = <<>> => pending = <<>>
      /\ \A m : m \in ToSet(slot[s].arms) \/ m \in ToSet(pending)
                => m \in ToSet(slot'[s].arms) \/ m \in ToSet(pending')
  BY <1>3, NextModelMoves
<1>5. slot'[s].at \in {"done", "take"} /\ (slot'[s].at = "take" => slot'[s].arms # <<>>)
      /\ (slot'[s].at = "done" => slot'[s].arms = <<>>)
  BY <1>4
<1>6. Typed' /\ Merging' /\ Prepared' /\ Threading' /\ Safety' /\ NothingLeftRunning'
  <2>1. /\ logs' = logs /\ alive' \subseteq logs' /\ selection' \in BOOLEAN /\ cut' \in BOOLEAN
        /\ scored' \in [Models -> Nat]
    BY <1>1, <1>3 DEF Typed, TypeOK, ListsTyped
  <2> QED  BY <1>1, <1>4, <1>5, <2>1, ThreadFrame DEF Working
<1>7. Once'  BY <1>1, <1>4, <1>5, OnceStays
<1>8. Earned'  BY <1>1, <1>2, <1>4, <1>5, EarnedStays DEF Working
<1>9. AllHeld'
  <2>1. SUFFICES ASSUME main = "evaluating"
                 PROVE  /\ \A t \in Threads : slot'[t].at # "idle"
                        /\ \A m \in Models :
                             m \in ToSet(pending') \/ \E t \in Threads : Holds(t, m)'
                        /\ \A t \in Threads :
                             slot'[t].at = "done" => pending' = <<>> /\ slot'[t].arms = <<>>
    BY <1>2 DEF AllHeld
  <2>2. ASSUME NEW m \in Models
        PROVE  m \in ToSet(pending') \/ \E t \in Threads : Holds(t, m)'
    <3>1. CASE m \in ToSet(pending)
      <4>1. m \in ToSet(slot'[s].arms) \/ m \in ToSet(pending')  BY <1>4, <3>1
      <4> QED  BY <4>1 DEF Holds
    <3>2. CASE Holds(s, m)
      <4>1. m \in ToSet(slot'[s].arms) \/ m \in ToSet(pending') \/ m \in DOMAIN slot'[s].results
        BY <1>1, <1>4, <3>2 DEF Holds, Working
      <4> QED  BY <4>1 DEF Holds
    <3>3. ASSUME NEW t \in Threads, t # s, Holds(t, m) PROVE Holds(t, m)'
      BY <1>4, <3>3 DEF Holds, Others
    <3> QED  BY <2>1, <3>1, <3>2, <3>3 DEF Inv, AllHeld
  <2>3. ASSUME NEW t \in Threads
        PROVE  /\ slot'[t].at # "idle"
               /\ slot'[t].at = "done" => pending' = <<>> /\ slot'[t].arms = <<>>
    <3>1. CASE t = s  BY <1>4, <1>5, <3>1
    <3>2. CASE t # s  BY <1>4, <2>1, <3>2 DEF Inv, AllHeld, Others
    <3> QED  BY <3>1, <3>2
  <2> QED  BY <2>2, <2>3
<1>10. Leftover'  BY <1>1, <1>2, <1>4, LeftoverStays
<1>11. OutcomeHonest'  BY <1>1, <1>2 DEF Inv, OutcomeHonest
<1> QED  BY <1>6, <1>7, <1>8, <1>9, <1>10, <1>11 DEF Inv

-----------------------------------------------------------------------------
LEMMA NextKeeps == ASSUME Inv, Next PROVE Inv'
<1>1. CASE MainStep
  BY <1>1, SkipUnfinishedKeeps, ExportKeeps, PublishExportKeeps, BackupKeeps, WaitForTrainingKeeps,
     StartSimulatorKeeps, SimulatorReadyKeeps, CollectKeeps, RecordFailureKeeps, CleanupKeeps,
     ProcessEndsKeeps
  DEF MainStep
<1>2. ASSUME NEW s \in Threads, ThreadStep(s) PROVE Inv'
  BY <1>2, TakeKeeps, LaunchPolicyKeeps, ServeKeeps, JobFailsKeeps, FullPassedKeeps,
     StopPolicyKeeps, NextModelKeeps
  DEF ThreadStep
<1> QED
  BY <1>1, <1>2, QueueMovesKeeps, StartKeeps, InterruptKeeps, KillKeeps, ChildExitsKeeps DEF Next

LEMMA StutteringKeeps == ASSUME Inv, UNCHANGED vars PROVE Inv'
BY DEF vars, disk, ctl, Inv, Typed, TypeOK, SlotsTyped, ReportTyped, ListsTyped, Busy, Merging,
       Prepared, Once, Earned, AllHeld, Holds, Threading, Ended, Safety, Leftover, Policy,
       OutcomeHonest, NothingLeftRunning

(* The strengthening holds in every reachable state.                       *)
THEOREM Invariant == Spec => []Inv
<1>1. Inv /\ [Next]_vars => Inv'  BY NextKeeps, StutteringKeeps
<1> QED  BY <1>1, Initially, PTL DEF Spec

(* Every variable the type invariant names keeps its range, and no child   *)
(* is alive without its log.                                               *)
THEOREM TypeCorrect == Spec => []TypeOK
<1>1. Inv => TypeOK  BY DEF Inv, Typed
<1> QED  BY <1>1, Invariant, PTL

(* What state.json says of an evaluation is so (evaluate): complete only   *)
(* when every model was scored, exactly once over all controllers on the   *)
(* directory, safe to shut down only when the copies are verified too.     *)
THEOREM Honest == Spec => []OutcomeHonest
<1>1. Inv => OutcomeHonest  BY DEF Inv
<1> QED  BY <1>1, Invariant, PTL

(* A controller that ends takes its children with it (the cleanups of main *)
(* and of evaluate_slot), unless its last cleanup was cut short.           *)
THEOREM NothingLeft == Spec => []NothingLeftRunning
<1>1. Inv => NothingLeftRunning  BY DEF Inv
<1> QED  BY <1>1, Invariant, PTL
=============================================================================
