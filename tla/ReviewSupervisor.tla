--------------------------- MODULE ReviewSupervisor ---------------------------
(***************************************************************************)
(* Paid candidate reviews under a supervisor:                              *)
(* tau3_grpo/analysis/kimi_sft_supervisor_v2.py and its worker process     *)
(* kimi_sft_review.py.  One coroutine per candidate of a plan, a semaphore,*)
(* at most MAX_ATTEMPTS attempts each; every attempt is a process of its   *)
(* own that writes an attempt directory.  The directories outlive a        *)
(* supervisor, and so do the processes of one that is killed: a later      *)
(* supervisor, with a plan and a runtime file of its own, meets both.      *)
(*                                                                         *)
(* Definitions under a comment "Variant" are slips of the definition that  *)
(* follows them; Spec uses none of them.                                   *)
(***************************************************************************)
EXTENDS Integers, SequencesExt

CONSTANTS
  Candidates,   (* candidate ids over all plans                            *)
  Task,         (* of each candidate: its task hash                        *)
  Plans,        (* the plans of the successive supervisors                 *)
  MAX_ATTEMPTS,
  Concurrency   (* args.concurrency                                        *)

ASSUME SupervisorAssumption ==
  /\ Plans \in Seq(SUBSET Candidates)
  /\ \A k \in DOMAIN Plans : \A c, d \in Plans[k] : Task[c] = Task[d] => c = d
  /\ MAX_ATTEMPTS \in Nat \ {0} /\ Concurrency \in Nat \ {0}

VARIABLES
  run,        (* how many supervisors were started                         *)
  status,     (* of the present one                                        *)
  pc,         (* of each candidate's coroutine                             *)
  prior,      (* the attempts as its coroutine last read them              *)
  ledger,     (* the attempt directories: the status in each state.json    *)
  workers,    (* review processes: running, or ended and not yet reaped    *)
  stop,       (* the asyncio event                                         *)
  completed   (* completed_candidates: the status reported for each        *)

vars == <<run, status, pc, prior, ledger, workers, stop, completed>>

Attempts == {"no_state", "request_started", "failed", "accepted", "rejected"}
Decisions == {"accepted", "rejected"}
Phases == {"launched", "made", "requested", "exit0", "exit1", "gone0", "gone1"}

Init ==
  /\ run = 0 /\ status = "absent" /\ stop = FALSE
  /\ pc = [c \in Candidates |-> "done"]
  /\ prior = [c \in Candidates |-> <<>>]
  /\ ledger = [c \in Candidates |-> <<>>]
  /\ workers = {}
  /\ completed = [c \in Candidates |-> "none"]

(***************************************************************************)
(* What a coroutine reads from the directories                             *)
(***************************************************************************)
Decided(attempts) == attempts # <<>> /\ Last(attempts) \in Decisions

(* attempts_for raises: a directory without state, or a review that went   *)
(* on after a decision.                                                    *)
Unreadable(c) ==
  \E i \in DOMAIN ledger[c] :
    \/ ledger[c][i] = "no_state"
    \/ ledger[c][i] \in Decisions /\ i < Len(ledger[c])

Accepted == {c \in Candidates : \E i \in DOMAIN ledger[c] : ledger[c][i] = "accepted"}
accepted_task_hashes == {Task[c] : c \in Accepted}

(* snapshot raises: two accepted reviews of one task.                      *)
Duplicate == \E c, d \in Accepted : c # d /\ Task[c] = Task[d]

(* assert_worker_terminated: a process of any supervisor on this candidate.*)
Alive(c) == \E w \in workers : w.cand = c /\ w.phase \notin {"gone0", "gone1"}

(***************************************************************************)
(* The supervisor.  Between its awaits a coroutine runs alone, but the     *)
(* review processes do not wait for it.                                    *)
(***************************************************************************)
Alone(c) ==
  /\ status = "running"
  /\ \A d \in Candidates \ {c} : pc[d] \notin {"top", "checked"}

Orphans == {w \in workers : w.phase \notin {"gone0", "gone1"}}

(* The previous supervisor is gone and its lock with it.  The first        *)
(* snapshot may raise already.                                             *)
Start ==
  /\ status # "running" /\ run < Len(Plans)
  /\ run' = run + 1
  /\ stop' = FALSE
  /\ completed' = [c \in Candidates |-> "none"]
  /\ prior' = [c \in Candidates |-> <<>>]
  /\ workers' = Orphans
  /\ IF Duplicate
       THEN status' = "failed" /\ UNCHANGED pc
       ELSE /\ status' = "running"
            /\ pc' = [c \in Candidates |-> IF c \in Plans[run'] THEN "begin" ELSE "done"]
  /\ UNCHANGED ledger

(* A snapshot inside the exception handler raises: gather raises, the last *)
(* snapshot raises too, and the loop cancels what is left.                 *)
Collapse ==
  /\ status' = "failed" /\ stop' = TRUE
  /\ pc' = [c \in Candidates |-> "done"]

(* Variant: an internal error stops nothing.                               *)
ErrorContinues(c) ==
  IF Duplicate THEN Collapse /\ UNCHANGED completed
               ELSE pc' = [pc EXCEPT ![c] = "done"] /\ UNCHANGED <<status, stop, completed>>

(* except Exception: no new dispatch, the others drain.                    *)
Error(c) ==
  IF Duplicate
    THEN Collapse /\ UNCHANGED completed
    ELSE /\ stop' = TRUE
         /\ pc' = [pc EXCEPT ![c] = "done"]
         /\ UNCHANGED <<status, completed>>

Complete(c, reason) ==
  /\ completed' = [completed EXCEPT ![c] = reason]
  /\ IF Duplicate THEN Collapse
                  ELSE pc' = [pc EXCEPT ![c] = "done"] /\ UNCHANGED <<status, stop>>

Leave(c) == pc' = [pc EXCEPT ![c] = "done"] /\ UNCHANGED <<status, stop, completed>>

Begin(c) ==
  /\ Alone(c) /\ pc[c] = "begin"
  /\ IF Unreadable(c)
       THEN Error(c) /\ UNCHANGED prior
       ELSE /\ prior' = [prior EXCEPT ![c] = ledger[c]]
            /\ pc' = [pc EXCEPT ![c] = "top"]
            /\ UNCHANGED <<status, stop, completed>>
  /\ UNCHANGED <<run, ledger, workers>>

(* The head of the loop; a first attempt goes straight to the semaphore.   *)
Top(c) ==
  /\ Alone(c) /\ pc[c] = "top"
  /\ IF stop THEN Leave(c)
     ELSE IF Task[c] \in accepted_task_hashes /\ ~(Decided(prior[c]) /\ Last(prior[c]) = "accepted")
       THEN Complete(c, "already_accepted_other_candidate")
     ELSE IF Decided(prior[c]) THEN Complete(c, "review_complete")
     ELSE IF Len(prior[c]) >= MAX_ATTEMPTS THEN Complete(c, "attempts_exhausted")
     ELSE /\ pc' = [pc EXCEPT ![c] = IF prior[c] = <<>> THEN "queue" ELSE "backoff"]
          /\ UNCHANGED <<status, stop, completed>>
  /\ UNCHANGED <<run, prior, ledger, workers>>

Wake(c) ==
  /\ Alone(c) /\ pc[c] = "backoff"
  /\ pc' = [pc EXCEPT ![c] = "queue"]
  /\ UNCHANGED <<run, status, prior, ledger, workers, stop, completed>>

(* Variant: a completed review keeps its place.                            *)
HoldersKept == {c \in Candidates : pc[c] \in {"checked", "running"} \/ completed[c] = "review_complete"}

Holders == {c \in Candidates : pc[c] \in {"checked", "running"}}

(* Variant: the processes still running are not looked for.                *)
EnterUnchecked(c) ==
  /\ Alone(c) /\ pc[c] = "queue" /\ Cardinality(Holders) < Concurrency
  /\ IF stop THEN Leave(c)
     ELSE IF Task[c] \in accepted_task_hashes
       THEN Complete(c, "already_accepted_other_candidate")
     ELSE pc' = [pc EXCEPT ![c] = "checked"] /\ UNCHANGED <<status, stop, completed>>
  /\ UNCHANGED <<run, prior, ledger, workers>>

(* Variant: who waited for the semaphore does not look at stop again.      *)
EnterStopped(c) ==
  /\ Alone(c) /\ pc[c] = "queue" /\ Cardinality(Holders) < Concurrency
  /\ IF Task[c] \in accepted_task_hashes
       THEN Complete(c, "already_accepted_other_candidate")
     ELSE IF Alive(c) THEN Error(c)
     ELSE pc' = [pc EXCEPT ![c] = "checked"] /\ UNCHANGED <<status, stop, completed>>
  /\ UNCHANGED <<run, prior, ledger, workers>>

(* Inside the semaphore: stop, acceptance and left-over processes again.   *)
Enter(c) ==
  /\ Alone(c) /\ pc[c] = "queue" /\ Cardinality(Holders) < Concurrency
  /\ IF stop THEN Leave(c)
     ELSE IF Task[c] \in accepted_task_hashes
       THEN Complete(c, "already_accepted_other_candidate")
     ELSE IF Alive(c) THEN Error(c)
     ELSE pc' = [pc EXCEPT ![c] = "checked"] /\ UNCHANGED <<status, stop, completed>>
  /\ UNCHANGED <<run, prior, ledger, workers>>

Number(c) == Len(prior[c]) + 1
Spawned(c) == [cand |-> c, number |-> Number(c), run |-> run, phase |-> "launched"]

(* The ledger must be the one the decision was made on.  The log file may  *)
(* exist or the process fail to start; the snapshot follows the start.     *)
Dispatch(c) ==
  /\ Alone(c) /\ pc[c] = "checked"
  /\ \/ Error(c) /\ UNCHANGED workers
     \/ /\ ledger[c] = prior[c] /\ ~Unreadable(c)
        /\ workers' = workers \cup {Spawned(c)}
        /\ IF Duplicate THEN Collapse /\ UNCHANGED completed
                        ELSE pc' = [pc EXCEPT ![c] = "running"] /\ UNCHANGED <<status, stop, completed>>
  /\ UNCHANGED <<run, prior, ledger>>

(* The process has ended: its attempt must be in the ledger, and a decided *)
(* one must have exited with 0.                                            *)
Reap(c) ==
  /\ Alone(c) /\ pc[c] = "running"
  /\ \E w \in workers :
       /\ w.cand = c /\ w.run = run /\ w.phase \in {"gone0", "gone1"}
       /\ workers' = workers \ {w}
       /\ IF Unreadable(c) THEN Error(c) /\ UNCHANGED prior
          ELSE /\ prior' = [prior EXCEPT ![c] = ledger[c]]
               /\ IF Len(ledger[c]) # w.number THEN Error(c)
                  ELSE IF Decided(ledger[c])
                    THEN IF w.phase = "gone1" THEN Error(c) ELSE Complete(c, "review_complete")
                  ELSE IF Duplicate THEN Error(c)
                  ELSE pc' = [pc EXCEPT ![c] = "top"] /\ UNCHANGED <<status, stop, completed>>
  /\ UNCHANGED <<run, ledger>>

(* gather returned: the last snapshot, and the error if there was one.     *)
Finish ==
  /\ status = "running" /\ \A c \in Candidates : pc[c] = "done"
  /\ status' = IF stop \/ Duplicate THEN "failed" ELSE "complete"
  /\ UNCHANGED <<run, pc, prior, ledger, workers, stop, completed>>

SupervisorDies ==
  /\ status = "running" /\ status' = "killed"
  /\ pc' = [c \in Candidates |-> "done"]
  /\ UNCHANGED <<run, prior, ledger, workers, stop, completed>>

(***************************************************************************)
(* The review process, which nobody's lock excludes                        *)
(***************************************************************************)
Moves(w, phase) == workers' = (workers \ {w}) \cup {[w EXCEPT !.phase = phase]}
Rest == UNCHANGED <<run, status, pc, prior, stop, completed>>

(* The output directory, unless it exists.                                 *)
MakeOutput(w) ==
  /\ w.phase = "launched"
  /\ IF w.number <= Len(ledger[w.cand])
       THEN Moves(w, "exit1") /\ UNCHANGED ledger
       ELSE /\ Moves(w, "made")
            /\ ledger' = [ledger EXCEPT ![w.cand] = Append(@, "no_state")]
  /\ Rest

(* input.json, then state.json with the request marked as started.         *)
SendRequest(w) ==
  /\ w.phase = "made" /\ Moves(w, "requested")
  /\ ledger' = [ledger EXCEPT ![w.cand][w.number] = "request_started"]
  /\ Rest

(* The verdict or the failure, saved on the way out in one replace.        *)
SaveResult(w) ==
  /\ w.phase = "requested"
  /\ \/ \E d \in Decisions : /\ Moves(w, "exit0")
                             /\ ledger' = [ledger EXCEPT ![w.cand][w.number] = d]
     \/ /\ Moves(w, "exit1")
        /\ ledger' = [ledger EXCEPT ![w.cand][w.number] = "failed"]
  /\ Rest

WorkerExits(w) ==
  /\ w.phase \in {"exit0", "exit1"}
  /\ Moves(w, IF w.phase = "exit0" THEN "gone0" ELSE "gone1")
  /\ UNCHANGED ledger /\ Rest

WorkerDies(w) ==
  /\ w.phase \notin {"gone0", "gone1"} /\ Moves(w, "gone1")
  /\ UNCHANGED ledger /\ Rest

WorkerStep(w) == MakeOutput(w) \/ SendRequest(w) \/ SaveResult(w) \/ WorkerExits(w)
Step(c) == Begin(c) \/ Top(c) \/ Wake(c) \/ Enter(c) \/ Dispatch(c) \/ Reap(c)

Next ==
  \/ Start \/ Finish \/ SupervisorDies
  \/ \E c \in Candidates : Step(c)
  \/ \E w \in workers : WorkerStep(w) \/ WorkerDies(w)

(* The event loop runs ready coroutines, a free place in the semaphore     *)
(* goes to a waiter, and a review process has a request timeout: it ends.  *)
(* Starting and dying are nobody's duty.                                   *)
Fairness ==
  /\ WF_vars(Finish)
  /\ \A c \in Candidates : WF_vars(Step(c))
  /\ \A c \in Candidates : WF_vars(\E w \in workers : w.cand = c /\ WorkerStep(w))

Spec == Init /\ [][Next]_vars /\ Fairness

(***************************************************************************)
(* Properties                                                              *)
(***************************************************************************)
TypeOK ==
  /\ run \in 0..Len(Plans)
  /\ status \in {"absent", "running", "complete", "failed", "killed"}
  /\ pc \in [Candidates -> {"begin", "top", "backoff", "queue", "checked", "running", "done"}]
  /\ prior \in [Candidates -> Seq(Attempts)] /\ ledger \in [Candidates -> Seq(Attempts)]
  /\ workers \subseteq [cand : Candidates, number : Nat, run : Nat, phase : Phases]
  /\ stop \in BOOLEAN
  /\ completed \in [Candidates -> {"none", "already_accepted_other_candidate",
                                   "review_complete", "attempts_exhausted"}]

(* However supervisors are killed and replaced, a candidate has at most    *)
(* one live review process, which works on its last attempt; attempts stay *)
(* within MAX_ATTEMPTS and none follows a decision.                        *)
(* (attempts_for, assert_worker_terminated and the recheck in review)      *)
AttemptsInOrder ==
  \A c \in Candidates :
    /\ Len(ledger[c]) <= MAX_ATTEMPTS
    /\ \A i \in DOMAIN ledger[c] : ledger[c][i] \in Decisions => i = Len(ledger[c])
    /\ \A v, w \in Orphans : v.cand = c /\ w.cand = c => v = w
    /\ \A w \in Orphans :
         w.cand = c => w.number = Len(ledger[c]) + (IF w.phase = "launched" THEN 1 ELSE 0)
                       \/ w.phase = "exit1"

(* A supervisor that ends without an error has reported every candidate of *)
(* its plan, each in agreement with the directories; only a last attempt   *)
(* left running by a killed supervisor may decide after "exhausted".       *)
(* (completed_candidates and the last snapshot of run)                     *)
EveryCandidateReported ==
  status = "complete" =>
    \A c \in Plans[run] :
      /\ completed[c] # "none"
      /\ completed[c] = "review_complete" => Decided(ledger[c])
      /\ completed[c] = "attempts_exhausted" =>
           /\ Len(ledger[c]) = MAX_ATTEMPTS
           /\ Decided(ledger[c]) => Last(prior[c]) = "request_started"
      /\ completed[c] = "already_accepted_other_candidate" => Task[c] \in accepted_task_hashes

(* "Other candidate" in a report means another one: a candidate whose own  *)
(* review was accepted is not reported as not accepted.                    *)
(* (the status appended at kimi_sft_supervisor_v2.py:157)                  *)
OtherMeansOther ==
  \A c \in Candidates :
    completed[c] = "already_accepted_other_candidate" =>
      \E d \in Accepted \ {c} : Task[d] = Task[c]

(* After an internal error no review is started by this supervisor.        *)
(* ("in-flight requests drain without new dispatch")                       *)
StopDrains ==
  [][stop /\ run' = run => Cardinality(workers') <= Cardinality(workers)]_vars

(* A supervisor that is not killed ends, also after an error: everyone     *)
(* waiting for the semaphore or asleep leaves.                             *)
SupervisorEnds == (status = "running") ~> (status # "running")
===============================================================================
