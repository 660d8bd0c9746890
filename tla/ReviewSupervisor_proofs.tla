------------------------ MODULE ReviewSupervisor_proofs ----------------------
(***************************************************************************)
(* Theorems about ReviewSupervisor for any candidates, any row of          *)
(* supervisors and plans, any bounds.  Directories is about the attempts   *)
(* and the processes that write them, whoever started those; Coroutines    *)
(* about what a coroutine knows at its awaits; Readings about how far its  *)
(* copy of the attempts may be behind; Reports about what it said.         *)
(***************************************************************************)
EXTENDS ReviewSupervisor, FiniteSetTheorems, SequenceTheorems, TLAPS

(* A live process is alone on its candidate and works on the last attempt, *)
(* which it has still to make or is in the state it left it in.            *)
Directories ==
  /\ \A c \in Candidates :
       /\ Len(ledger[c]) <= MAX_ATTEMPTS
       /\ \A i \in 1..Len(ledger[c]) : ledger[c][i] \in Decisions => i = Len(ledger[c])
  /\ \A v, w \in Orphans : v.cand = w.cand => v = w
  /\ \A w \in Orphans :
       /\ w.phase = "launched" => /\ w.number = Len(ledger[w.cand]) + 1
                                  /\ w.number <= MAX_ATTEMPTS /\ ~Decided(ledger[w.cand])
       /\ w.phase # "launched" => w.number = Len(ledger[w.cand]) /\ w.number > 0
       /\ w.phase = "made" => ledger[w.cand][w.number] = "no_state"
       /\ w.phase = "requested" => ledger[w.cand][w.number] = "request_started"

Coroutines ==
  \A c \in Candidates :
    /\ pc[c] \in {"backoff", "queue", "checked"} => Len(prior[c]) < MAX_ATTEMPTS /\ ~Decided(prior[c])
    /\ pc[c] = "checked" => ~Alive(c) /\ ~stop
    /\ pc[c] # "done" => completed[c] = "none"

Readings ==
  \A c \in Candidates :
    /\ Len(prior[c]) <= Len(ledger[c])
    /\ \A i \in 1..Len(prior[c]) : prior[c][i] # "no_state"
    /\ Decided(prior[c]) => ledger[c] = prior[c]
    /\ prior[c] # <<>> /\ Len(prior[c]) = Len(ledger[c]) =>
         Last(prior[c]) \in {Last(ledger[c]), "request_started"}

Reports ==
  /\ run = 0 => status = "absent"
  /\ status = "complete" => ~stop /\ \A c \in Candidates : pc[c] = "done"
  /\ \A c \in Candidates :
       /\ completed[c] = "review_complete" => Decided(prior[c])
       /\ completed[c] = "attempts_exhausted" => Len(prior[c]) >= MAX_ATTEMPTS /\ ~Decided(prior[c])
       /\ completed[c] = "already_accepted_other_candidate" => Task[c] \in accepted_task_hashes
       /\ status \in {"running", "complete"} /\ ~stop /\ c \in Plans[run] /\ pc[c] = "done" =>
            completed[c] # "none"

Inv == TypeOK /\ IsFiniteSet(workers) /\ Directories /\ Coroutines /\ Readings /\ Reports
-----------------------------------------------------------------------------
Reasons == {"none", "already_accepted_other_candidate", "review_complete", "attempts_exhausted"}
Places == {"begin", "top", "backoff", "queue", "checked", "running", "done"}
Worker == [cand : Candidates, number : Nat, run : Nat, phase : Phases]

LEMMA Empty == <<>> \in Seq(Attempts) /\ Len(<<>>) = 0 /\ ~Decided(<<>>)
BY DEF Decided

LEMMA LedgerType ==
  ASSUME TypeOK, NEW c \in Candidates
  PROVE  /\ ledger[c] \in Seq(Attempts) /\ Len(ledger[c]) \in Nat /\ DOMAIN ledger[c] = 1..Len(ledger[c])
         /\ prior[c] \in Seq(Attempts) /\ Len(prior[c]) \in Nat
<1>1. ledger[c] \in Seq(Attempts) /\ prior[c] \in Seq(Attempts)  BY DEF TypeOK
<1>. QED  BY <1>1

LEMMA InitInv == Init => Inv
<1>. HAVE Init
<1>. USE DEF Init
<1>1. TypeOK
  <2>1. run \in 0..Len(Plans)  BY SupervisorAssumption
  <2>2. prior \in [Candidates -> Seq(Attempts)] /\ ledger \in [Candidates -> Seq(Attempts)]
    BY Empty
  <2>. QED  BY <2>1, <2>2 DEF TypeOK
<1>2. IsFiniteSet(workers)  BY FS_EmptySet
<1>3. Directories  BY Empty, SupervisorAssumption DEF Directories, Orphans
<1>4. Coroutines  BY DEF Coroutines
<1>5. Readings  BY Empty DEF Readings
<1>6. Reports  BY DEF Reports
<1>. QED  BY <1>1, <1>2, <1>3, <1>4, <1>5, <1>6 DEF Inv
-----------------------------------------------------------------------------
(* One review process moves to the next phase.                             *)
Moved(w, p) == [w EXCEPT !.phase = p]

LEMMA Replaced ==
  ASSUME NEW S, IsFiniteSet(S), NEW x \in S, NEW y
  PROVE  /\ IsFiniteSet((S \ {x}) \cup {y})
         /\ Cardinality((S \ {x}) \cup {y}) <= Cardinality(S)
<1>. DEFINE T == S \ {x}
<1>1. IsFiniteSet(T) /\ Cardinality(T) = Cardinality(S) - 1  BY FS_RemoveElement
<1>2. Cardinality(S) \in Nat /\ Cardinality(T) \in Nat  BY <1>1, FS_CardinalityType
<1>. HIDE DEF T
<1>3. IsFiniteSet(T \cup {y})
      /\ Cardinality(T \cup {y}) = IF y \in T THEN Cardinality(T) ELSE Cardinality(T) + 1
  BY <1>1, FS_AddElement
<1>4. Cardinality(T \cup {y}) <= Cardinality(S)  BY <1>1, <1>2, <1>3
<1>. QED  BY <1>3, <1>4 DEF T

LEMMA MovedWorkers ==
  ASSUME TypeOK, IsFiniteSet(workers), NEW w \in Orphans, NEW p \in Phases, Moves(w, p)
  PROVE  /\ w \in workers /\ w.cand \in Candidates /\ w.number \in Nat
         /\ Moved(w, p).cand = w.cand /\ Moved(w, p).number = w.number /\ Moved(w, p).phase = p
         /\ workers' \subseteq Worker /\ IsFiniteSet(workers')
         /\ Cardinality(workers') <= Cardinality(workers)
         /\ Orphans' = (Orphans \ {w}) \cup IF p \in {"gone0", "gone1"} THEN {} ELSE {Moved(w, p)}
<1>1. w \in workers /\ w \in Worker  BY DEF Orphans, TypeOK, Worker
<1>2. /\ w.cand \in Candidates /\ w.number \in Nat
      /\ Moved(w, p).cand = w.cand /\ Moved(w, p).number = w.number /\ Moved(w, p).phase = p
      /\ Moved(w, p) \in Worker
  BY <1>1 DEF Moved, Worker
<1>3. workers' = (workers \ {w}) \cup {Moved(w, p)}  BY DEF Moves, Moved
<1>4. workers' \subseteq Worker  BY <1>2, <1>3 DEF TypeOK, Worker
<1>5. IsFiniteSet(workers') /\ Cardinality(workers') <= Cardinality(workers)
  BY <1>1, <1>3, Replaced
<1>6. Orphans' = (Orphans \ {w}) \cup IF p \in {"gone0", "gone1"} THEN {} ELSE {Moved(w, p)}
  <2>. HIDE DEF Moved
  <2>. QED  BY <1>2, <1>3 DEF Orphans
<1>. QED  BY <1>1, <1>2, <1>4, <1>5, <1>6

(* It alone works on its candidate, so it may write that one's attempts as *)
(* long as what was decided, made or accepted stays.                       *)
LEMMA WorkerMoves ==
  ASSUME Inv, NEW w \in Orphans, NEW p \in Phases, NEW l \in Seq(Attempts),
         Moves(w, p), Rest, ledger' = [ledger EXCEPT ![w.cand] = l],
         Len(l) >= Len(ledger[w.cand]), Len(l) <= MAX_ATTEMPTS,
         \A i \in 1..Len(l) : l[i] \in Decisions => i = Len(l),
         \A i \in 1..Len(ledger[w.cand]) : ledger[w.cand][i] = "accepted" => l[i] = "accepted",
         l = ledger[w.cand] \/ ~Decided(ledger[w.cand]),
         Len(l) = Len(ledger[w.cand]) /\ l # ledger[w.cand] =>
           Last(ledger[w.cand]) \in {"no_state", "request_started"},
         p # "launched",
         p \notin {"gone0", "gone1"} => Len(l) = w.number /\ w.number > 0,
         p = "made" => l[w.number] = "no_state",
         p = "requested" => l[w.number] = "request_started"
  PROVE  Inv'
<1>0. TypeOK /\ IsFiniteSet(workers)  BY DEF Inv
<1>1. /\ w \in workers /\ w.cand \in Candidates /\ w.number \in Nat
      /\ Moved(w, p).cand = w.cand /\ Moved(w, p).number = w.number /\ Moved(w, p).phase = p
      /\ workers' \subseteq Worker /\ IsFiniteSet(workers')
      /\ Orphans' = (Orphans \ {w}) \cup IF p \in {"gone0", "gone1"} THEN {} ELSE {Moved(w, p)}
  BY <1>0, MovedWorkers
<1>2. /\ \A c \in Candidates : ledger'[c] = IF c = w.cand THEN l ELSE ledger[c]
      /\ UNCHANGED <<run, status, pc, prior, stop, completed>>
  BY <1>0, <1>1 DEF TypeOK, Rest
<1>3. TypeOK'
  <2>1. ledger' \in [Candidates -> Seq(Attempts)]  BY <1>0, <1>1 DEF TypeOK
  <2>. QED  BY <1>0, <1>1, <1>2, <2>1 DEF TypeOK, Worker
<1>4. Directories'
  <2>1. \A v \in Orphans \ {w} : v.cand # w.cand  BY DEF Inv, Directories
  <2>2. \A v \in Orphans : v.cand \in Candidates
    BY <1>0 DEF Orphans, TypeOK
  <2>3. ASSUME NEW c \in Candidates
        PROVE  /\ Len(ledger'[c]) <= MAX_ATTEMPTS
               /\ \A i \in 1..Len(ledger'[c]) : ledger'[c][i] \in Decisions => i = Len(ledger'[c])
    BY <1>2 DEF Inv, Directories
  <2>4. \A u, v \in Orphans' : u.cand = v.cand => u = v
    BY <1>1, <2>1 DEF Inv, Directories
  <2>5. ASSUME NEW v \in Orphans'
        PROVE  /\ v.phase = "launched" => /\ v.number = Len(ledger'[v.cand]) + 1
                                          /\ v.number <= MAX_ATTEMPTS /\ ~Decided(ledger'[v.cand])
               /\ v.phase # "launched" => v.number = Len(ledger'[v.cand]) /\ v.number > 0
               /\ v.phase = "made" => ledger'[v.cand][v.number] = "no_state"
               /\ v.phase = "requested" => ledger'[v.cand][v.number] = "request_started"
    <3>1. CASE v \in Orphans \ {w}
      <4>1. ledger'[v.cand] = ledger[v.cand]  BY <1>2, <2>1, <2>2, <3>1
      <4>. QED  BY <3>1, <4>1 DEF Inv, Directories
    <3>2. CASE v = Moved(w, p) /\ p \notin {"gone0", "gone1"}
      <4>1. ledger'[v.cand] = l /\ v.number = w.number /\ v.phase = p  BY <1>1, <1>2, <3>2
      <4>. QED  BY <3>2, <4>1
    <3>. QED  BY <1>1, <3>1, <3>2
  <2>. QED  BY <2>3, <2>4, <2>5 DEF Directories
<1>5. Coroutines'
  <2>1. \A c \in Candidates : Alive(c)' => Alive(c)
    <3>1. \A c \in Candidates : Alive(c) <=> \E v \in Orphans : v.cand = c
      BY DEF Alive, Orphans
    <3>2. \A c \in Candidates : Alive(c)' <=> \E v \in Orphans' : v.cand = c
      BY DEF Alive, Orphans
    <3>. QED  BY <1>1, <3>1, <3>2
  <2>. QED  BY <1>2, <2>1 DEF Inv, Coroutines
<1>6. Readings'
  <2>. SUFFICES ASSUME NEW c \in Candidates
                PROVE  /\ Len(prior[c]) <= Len(ledger'[c])
                       /\ \A i \in 1..Len(prior[c]) : prior[c][i] # "no_state"
                       /\ Decided(prior[c]) => ledger'[c] = prior[c]
                       /\ prior[c] # <<>> /\ Len(prior[c]) = Len(ledger'[c]) =>
                            Last(prior[c]) \in {Last(ledger'[c]), "request_started"}
    BY <1>2 DEF Readings
  <2>0. /\ Len(prior[c]) <= Len(ledger[c])
        /\ \A i \in 1..Len(prior[c]) : prior[c][i] # "no_state"
        /\ Decided(prior[c]) => ledger[c] = prior[c]
        /\ prior[c] # <<>> /\ Len(prior[c]) = Len(ledger[c]) =>
             Last(prior[c]) \in {Last(ledger[c]), "request_started"}
    BY DEF Inv, Readings
  <2>1. CASE c # w.cand
    <3>1. ledger'[c] = ledger[c]  BY <1>2, <2>1
    <3>. QED  BY <2>0, <3>1
  <2>2. CASE c = w.cand
    <3>0. ledger'[c] = l  BY <1>2, <2>2
    <3>1. /\ Len(prior[c]) \in Nat /\ Len(ledger[c]) \in Nat /\ Len(l) \in Nat
          /\ prior[c] \in Seq(Attempts)
      BY <1>0, LedgerType
    <3>2. Len(prior[c]) <= Len(l)  BY <2>0, <2>2, <3>1
    <3>3. Decided(prior[c]) => l = prior[c]  BY <2>0, <2>2
    <3>4. ASSUME prior[c] # <<>>, Len(prior[c]) = Len(l)
          PROVE  Last(prior[c]) \in {Last(l), "request_started"}
      <4>1. Len(l) = Len(ledger[c])  BY <2>0, <2>2, <3>1, <3>4
      <4>2. Last(prior[c]) # "no_state"
        <5>1. Len(prior[c]) \in 1..Len(prior[c])  BY <3>1, <3>4
        <5>. QED  BY <2>0, <5>1 DEF Last
      <4>. QED  BY <2>0, <2>2, <3>4, <4>1, <4>2
    <3>. QED  BY <2>0, <3>0, <3>2, <3>3, <3>4
  <2>. QED  BY <2>1, <2>2
<1>7. Reports'
  <2>1. Accepted \subseteq Accepted'
    <3>. SUFFICES ASSUME NEW c \in Candidates, NEW i \in 1..Len(ledger[c]), ledger[c][i] = "accepted"
                  PROVE  \E j \in DOMAIN ledger'[c] : ledger'[c][j] = "accepted"
      BY <1>0, LedgerType DEF Accepted
    <3>1. CASE c # w.cand
      <4>1. ledger'[c] = ledger[c] /\ i \in DOMAIN ledger[c]  BY <1>0, <1>2, <3>1, LedgerType
      <4>. QED  BY <4>1
    <3>2. CASE c = w.cand
      <4>1. i \in 1..Len(l)  BY <1>0, <3>2, LedgerType
      <4>2. ledger'[c] = l /\ i \in DOMAIN l /\ l[i] = "accepted"  BY <1>2, <3>2, <4>1
      <4>. QED  BY <4>2
    <3>. QED  BY <3>1, <3>2
  <2>2. accepted_task_hashes \subseteq accepted_task_hashes'
    BY <2>1 DEF accepted_task_hashes
  <2>. QED  BY <1>2, <2>2 DEF Inv, Reports
<1>. QED  BY <1>1, <1>3, <1>4, <1>5, <1>6, <1>7 DEF Inv

LEMMA SendRequestInv ==
  ASSUME Inv, NEW w \in workers, SendRequest(w)
  PROVE  Inv'
<1>. DEFINE l == [ledger[w.cand] EXCEPT ![w.number] = "request_started"]
<1>1. w.phase = "made" /\ w \in Orphans  BY DEF SendRequest, Orphans
<1>2. w.cand \in Candidates /\ w.number \in Nat /\ TypeOK  BY DEF Inv, TypeOK
<1>3. /\ w.number = Len(ledger[w.cand]) /\ w.number > 0
      /\ ledger[w.cand][w.number] = "no_state"
  BY <1>1 DEF Inv, Directories
<1>4. /\ ledger[w.cand] \in Seq(Attempts) /\ w.number \in 1..Len(ledger[w.cand])
      /\ Len(ledger[w.cand]) <= MAX_ATTEMPTS
      /\ \A i \in 1..Len(ledger[w.cand]) : ledger[w.cand][i] \in Decisions => i = Len(ledger[w.cand])
  BY <1>2, <1>3, LedgerType DEF Inv, Directories
<1>5. /\ l \in Seq(Attempts) /\ Len(l) = Len(ledger[w.cand]) /\ l[w.number] = "request_started"
      /\ \A i \in 1..Len(l) : i # w.number => l[i] = ledger[w.cand][i]
  BY <1>4 DEF Attempts
<1>6. ledger' = [ledger EXCEPT ![w.cand] = l] /\ Moves(w, "requested") /\ Rest
  BY DEF SendRequest
<1>7. ~Decided(ledger[w.cand]) /\ Last(ledger[w.cand]) = "no_state"
  BY <1>3 DEF Decided, Decisions, Last
<1>8. "requested" \in Phases  BY DEF Phases
<1>. HIDE DEF l
<1>9. /\ \A i \in 1..Len(l) : l[i] \in Decisions => i = Len(l)
      /\ \A i \in 1..Len(ledger[w.cand]) : ledger[w.cand][i] = "accepted" => l[i] = "accepted"
  BY <1>3, <1>4, <1>5 DEF Decisions
<1>10. Len(l) >= Len(ledger[w.cand]) /\ Len(l) <= MAX_ATTEMPTS /\ Len(l) = w.number
  BY <1>2, <1>3, <1>4, <1>5
<1>. QED  BY <1>1, <1>3, <1>5, <1>6, <1>7, <1>8, <1>9, <1>10, WorkerMoves

LEMMA SaveResultInv ==
  ASSUME Inv, NEW w \in workers, SaveResult(w)
  PROVE  Inv'
<1>1. w.phase = "requested" /\ w \in Orphans  BY DEF SaveResult, Orphans
<1>2. w.cand \in Candidates /\ w.number \in Nat /\ TypeOK  BY DEF Inv, TypeOK
<1>3. /\ w.number = Len(ledger[w.cand]) /\ w.number > 0
      /\ ledger[w.cand][w.number] = "request_started"
  BY <1>1 DEF Inv, Directories
<1>4. PICK x \in Decisions \cup {"failed"}, p \in {"exit0", "exit1"} :
        Moves(w, p) /\ ledger' = [ledger EXCEPT ![w.cand][w.number] = x]
  BY DEF SaveResult
<1>. DEFINE l == [ledger[w.cand] EXCEPT ![w.number] = x]
<1>5. /\ ledger[w.cand] \in Seq(Attempts) /\ w.number \in 1..Len(ledger[w.cand])
      /\ Len(ledger[w.cand]) <= MAX_ATTEMPTS
      /\ \A i \in 1..Len(ledger[w.cand]) : ledger[w.cand][i] \in Decisions => i = Len(ledger[w.cand])
  BY <1>2, <1>3, LedgerType DEF Inv, Directories
<1>6. /\ l \in Seq(Attempts) /\ Len(l) = Len(ledger[w.cand]) /\ l[w.number] = x
      /\ \A i \in 1..Len(l) : i # w.number => l[i] = ledger[w.cand][i]
  BY <1>5 DEF Attempts, Decisions
<1>7. ledger' = [ledger EXCEPT ![w.cand] = l] /\ Rest  BY <1>4 DEF SaveResult
<1>8. ~Decided(ledger[w.cand]) /\ Last(ledger[w.cand]) = "request_started"
  BY <1>3 DEF Decided, Decisions, Last
<1>9. p \in Phases /\ p \notin {"launched", "made", "requested"}  BY DEF Phases
<1>. HIDE DEF l
<1>10. /\ \A i \in 1..Len(l) : l[i] \in Decisions => i = Len(l)
       /\ \A i \in 1..Len(ledger[w.cand]) : ledger[w.cand][i] = "accepted" => l[i] = "accepted"
  BY <1>3, <1>5, <1>6
<1>11. Len(l) >= Len(ledger[w.cand]) /\ Len(l) <= MAX_ATTEMPTS /\ Len(l) = w.number
  BY <1>2, <1>3, <1>5, <1>6
<1>. QED  BY <1>1, <1>3, <1>4, <1>6, <1>7, <1>8, <1>9, <1>10, <1>11, WorkerMoves

LEMMA MakeOutputInv ==
  ASSUME Inv, NEW w \in workers, MakeOutput(w)
  PROVE  Inv'
<1>. DEFINE l == Append(ledger[w.cand], "no_state")
<1>1. w.phase = "launched" /\ w \in Orphans  BY DEF MakeOutput, Orphans
<1>2. w.cand \in Candidates /\ w.number \in Nat /\ TypeOK  BY DEF Inv, TypeOK
<1>3. /\ w.number = Len(ledger[w.cand]) + 1 /\ w.number <= MAX_ATTEMPTS
      /\ ~Decided(ledger[w.cand])
  BY <1>1 DEF Inv, Directories
<1>4. /\ ledger[w.cand] \in Seq(Attempts) /\ Len(ledger[w.cand]) \in Nat
      /\ \A i \in 1..Len(ledger[w.cand]) : ledger[w.cand][i] \in Decisions => i = Len(ledger[w.cand])
  BY <1>2, LedgerType DEF Inv, Directories
<1>5. /\ l \in Seq(Attempts) /\ Len(l) = w.number /\ l[w.number] = "no_state"
      /\ \A i \in 1..Len(ledger[w.cand]) : l[i] = ledger[w.cand][i]
  BY <1>3, <1>4 DEF Attempts
<1>6. ledger' = [ledger EXCEPT ![w.cand] = l] /\ Moves(w, "made") /\ Rest
  BY <1>3, <1>4 DEF MakeOutput
<1>7. "made" \in Phases  BY DEF Phases
<1>8. \A i \in 1..Len(ledger[w.cand]) : ledger[w.cand][i] \notin Decisions
  <2>. SUFFICES ASSUME NEW i \in 1..Len(ledger[w.cand]), ledger[w.cand][i] \in Decisions PROVE FALSE
    OBVIOUS
  <2>1. i = Len(ledger[w.cand]) /\ ledger[w.cand] # <<>>  BY <1>4
  <2>. QED  BY <1>3, <2>1 DEF Decided, Last
<1>. HIDE DEF l
<1>9. /\ \A i \in 1..Len(l) : l[i] \in Decisions => i = Len(l)
      /\ \A i \in 1..Len(ledger[w.cand]) : ledger[w.cand][i] = "accepted" => l[i] = "accepted"
  BY <1>3, <1>4, <1>5, <1>8, SMTT(30)
<1>10. /\ Len(l) >= Len(ledger[w.cand]) /\ Len(l) <= MAX_ATTEMPTS /\ Len(l) = w.number
       /\ Len(l) # Len(ledger[w.cand]) /\ w.number > 0
  BY <1>2, <1>3, <1>4, <1>5
<1>. QED  BY <1>1, <1>3, <1>5, <1>6, <1>7, <1>9, <1>10, WorkerMoves

LEMMA WorkerEndsInv ==
  ASSUME Inv, NEW w \in workers, WorkerExits(w) \/ WorkerDies(w)
  PROVE  Inv'
<1>. DEFINE l == ledger[w.cand]
<1>1. w \in Orphans  BY DEF WorkerExits, WorkerDies, Orphans
<1>2. w.cand \in Candidates /\ TypeOK  BY DEF Inv, TypeOK
<1>3. PICK p \in {"gone0", "gone1"} : Moves(w, p)  BY DEF WorkerExits, WorkerDies
<1>4. p \in Phases  BY DEF Phases
<1>5. /\ l \in Seq(Attempts) /\ Len(l) \in Nat /\ Len(l) <= MAX_ATTEMPTS
      /\ \A i \in 1..Len(l) : l[i] \in Decisions => i = Len(l)
  BY <1>2, LedgerType DEF Inv, Directories
<1>6. ledger' = [ledger EXCEPT ![w.cand] = l] /\ Rest
  BY <1>2 DEF WorkerExits, WorkerDies, TypeOK
<1>7. Len(l) >= Len(ledger[w.cand]) /\ l = ledger[w.cand]  BY <1>5
<1>. HIDE DEF l
<1>. QED  BY <1>1, <1>3, <1>4, <1>5, <1>6, <1>7, WorkerMoves
-----------------------------------------------------------------------------
(* What a coroutine's step leaves behind: everything has collapsed, it has *)
(* ended, or it goes on.                                                   *)
Outcome(c, q, r, p) ==
  \/ /\ status' = "failed" /\ stop' = TRUE /\ pc' = [d \in Candidates |-> "done"]
     /\ completed' = [completed EXCEPT ![c] = r]
  \/ /\ pc' = [pc EXCEPT ![c] = "done"] /\ completed' = [completed EXCEPT ![c] = r]
     /\ status' = status /\ (stop' = TRUE \/ (stop' = stop /\ r # "none"))
  \/ /\ pc' = [pc EXCEPT ![c] = p] /\ p # "done" /\ UNCHANGED <<status, stop, completed>>
     /\ p \in {"backoff", "queue", "checked"} => Len(q) < MAX_ATTEMPTS /\ ~Decided(q)
     /\ p = "checked" => ~Alive(c)' /\ ~stop

Fit(c, q, r) ==
  /\ r = "review_complete" => Decided(q)
  /\ r = "attempts_exhausted" => Len(q) >= MAX_ATTEMPTS /\ ~Decided(q)
  /\ r = "already_accepted_other_candidate" => Task[c] \in accepted_task_hashes

LEMMA CoroutineMoves ==
  ASSUME Inv, NEW c \in Candidates, Alone(c), pc[c] # "done", UNCHANGED <<run, ledger>>,
         NEW q, q = prior[c] \/ (q = ledger[c] /\ ~Unreadable(c)), prior' = [prior EXCEPT ![c] = q],
         workers' \subseteq Worker, IsFiniteSet(workers'), Directories',
         NEW r \in Reasons, NEW p \in Places, Fit(c, q, r), Outcome(c, q, r, p)
  PROVE  Inv'
<1>0. TypeOK /\ q \in Seq(Attempts)  BY LedgerType DEF Inv
<1>1. /\ \A d \in Candidates \ {c} :
           /\ prior'[d] = prior[d] /\ completed'[d] = completed[d]
           /\ pc'[d] = pc[d] \/ (pc'[d] = "done" /\ status' = "failed")
           /\ pc[d] # "checked"
      /\ prior'[c] = q /\ status' \in {status, "failed"} /\ status = "running"
      /\ completed'[c] \in {"none", r} /\ stop' \in {stop, TRUE}
      /\ pc' \in [Candidates -> Places] /\ completed' \in [Candidates -> Reasons]
  BY <1>0, ZenonT(40) DEF Outcome, Alone, TypeOK, Inv, Coroutines, Places, Reasons
<1>2. TypeOK'
  <2>1. prior' \in [Candidates -> Seq(Attempts)]  BY <1>0 DEF TypeOK
  <2>. QED  BY <1>0, <1>1, <2>1 DEF TypeOK, Worker, Places, Reasons
<1>3. Coroutines'
  <2>. SUFFICES ASSUME NEW d \in Candidates
                PROVE  /\ pc'[d] \in {"backoff", "queue", "checked"} =>
                            Len(prior'[d]) < MAX_ATTEMPTS /\ ~Decided(prior'[d])
                       /\ pc'[d] = "checked" => ~Alive(d)' /\ ~stop'
                       /\ pc'[d] # "done" => completed'[d] = "none"
    BY DEF Coroutines
  <2>1. CASE d # c
    <3>1. pc'[d] # "checked"  BY <1>1, <2>1
    <3>. QED  BY <1>1, <2>1, <3>1 DEF Inv, Coroutines
  <2>2. CASE d = c
    <3>1. completed[c] = "none"  BY DEF Inv, Coroutines
    <3>2. CASE pc'[c] = "done"  BY <2>2, <3>2
    <3>3. CASE pc'[c] # "done"
      <4>1. /\ pc'[c] = p /\ UNCHANGED <<status, stop, completed>>
            /\ p \in {"backoff", "queue", "checked"} => Len(q) < MAX_ATTEMPTS /\ ~Decided(q)
            /\ p = "checked" => ~Alive(c)' /\ ~stop
        BY <1>0, <3>3 DEF Outcome, TypeOK
      <4>. QED  BY <1>1, <2>2, <3>1, <4>1
    <3>. QED  BY <3>2, <3>3
  <2>. QED  BY <2>1, <2>2
<1>4. Readings'
  <2>. SUFFICES ASSUME NEW d \in Candidates
                PROVE  /\ Len(prior'[d]) <= Len(ledger[d])
                       /\ \A i \in 1..Len(prior'[d]) : prior'[d][i] # "no_state"
                       /\ Decided(prior'[d]) => ledger[d] = prior'[d]
                       /\ prior'[d] # <<>> /\ Len(prior'[d]) = Len(ledger[d]) =>
                            Last(prior'[d]) \in {Last(ledger[d]), "request_started"}
    BY DEF Readings
  <2>1. CASE prior'[d] = prior[d]  BY <2>1 DEF Inv, Readings
  <2>2. CASE d = c /\ q = ledger[c] /\ ~Unreadable(c)
    <3>1. prior'[d] = ledger[d]  BY <1>1, <2>2
    <3>2. \A i \in 1..Len(ledger[c]) : ledger[c][i] # "no_state"
      BY <1>0, <2>2, LedgerType DEF Unreadable
    <3>. QED  BY <1>0, <2>2, <3>1, <3>2, LedgerType
  <2>. QED  BY <1>1, <2>1, <2>2
<1>5. Reports'
  <2>0. accepted_task_hashes' = accepted_task_hashes
    BY DEF accepted_task_hashes, Accepted
  <2>1. (run' = 0 => status' = "absent") /\ status' # "complete"
    BY <1>1 DEF Inv, Reports
  <2>2. ASSUME NEW d \in Candidates
        PROVE  /\ completed'[d] = "review_complete" => Decided(prior'[d])
               /\ completed'[d] = "attempts_exhausted" =>
                    Len(prior'[d]) >= MAX_ATTEMPTS /\ ~Decided(prior'[d])
               /\ completed'[d] = "already_accepted_other_candidate" => Task[d] \in accepted_task_hashes
    <3>1. CASE d # c  BY <1>1, <3>1 DEF Inv, Reports
    <3>2. CASE d = c  BY <1>1, <3>2 DEF Fit
    <3>. QED  BY <3>1, <3>2
  <2>3. ASSUME NEW d \in Candidates, status' = "running", ~stop', d \in Plans[run], pc'[d] = "done"
        PROVE  completed'[d] # "none"
    <3>1. ~stop  BY <1>1, <2>3
    <3>2. CASE d # c  BY <1>1, <2>3, <3>1, <3>2 DEF Inv, Reports
    <3>3. CASE d = c
      <4>1. completed'[c] = r /\ r # "none"
        BY <1>0, <1>1, <2>3, <3>3 DEF Outcome, TypeOK
      <4>. QED  BY <3>3, <4>1
    <3>. QED  BY <3>2, <3>3
  <2>4. status' \in {"running", "complete"} => status' = "running"  BY <2>1
  <2>. QED  BY <2>0, <2>1, <2>2, <2>3, <2>4 DEF Reports
<1>. QED  BY <1>2, <1>3, <1>4, <1>5 DEF Inv

LEMMA SameDirectories ==
  ASSUME Inv, UNCHANGED ledger, Orphans' \subseteq Orphans
  PROVE  Directories'
BY DEF Inv, Directories

LEMMA EndsHow ==
  ASSUME Inv, NEW c \in Candidates, pc[c] # "done", NEW q, NEW p
  PROVE  /\ Error(c) => Outcome(c, q, "none", p)
         /\ Leave(c) /\ stop => Outcome(c, q, "none", p)
         /\ \A r \in Reasons \ {"none"} : Complete(c, r) => Outcome(c, q, r, p)
<1>1. completed = [completed EXCEPT ![c] = "none"]
  BY DEF Inv, TypeOK, Coroutines
<1>. QED  BY <1>1 DEF Error, Leave, Complete, Collapse, Outcome, Inv, TypeOK

LEMMA SamePrior ==
  ASSUME Inv, NEW c \in Candidates, UNCHANGED <<prior, workers>>
  PROVE  /\ prior' = [prior EXCEPT ![c] = prior[c]] /\ workers' \subseteq Worker
         /\ IsFiniteSet(workers') /\ Orphans' = Orphans
BY DEF Inv, TypeOK, Worker, Orphans

LEMMA FitNone ==
  ASSUME NEW c, NEW q
  PROVE  Fit(c, q, "none")
BY DEF Fit

LEMMA BeginInv ==
  ASSUME Inv, NEW c \in Candidates, Begin(c)
  PROVE  Inv'
<1>. USE DEF Begin
<1>1. Alone(c) /\ pc[c] = "begin" /\ UNCHANGED <<run, ledger, workers>>  OBVIOUS
<1>2. workers' \subseteq Worker /\ IsFiniteSet(workers') /\ Orphans' = Orphans
  BY <1>1 DEF Inv, TypeOK, Worker, Orphans
<1>3. Directories'  BY <1>1, <1>2, SameDirectories
<1>4. "none" \in Reasons /\ "top" \in Places  BY DEF Reasons, Places
<1>5. CASE Unreadable(c)
  <2>1. Outcome(c, prior[c], "none", "top")  BY <1>1, <1>5, EndsHow
  <2>2. prior' = [prior EXCEPT ![c] = prior[c]]  BY <1>5 DEF Inv, TypeOK
  <2>3. pc[c] # "done"  BY <1>1
  <2>. QED  BY <1>1, <1>2, <1>3, <1>4, <2>1, <2>2, <2>3, FitNone, CoroutineMoves
<1>6. CASE ~Unreadable(c)
  <2>1. Outcome(c, ledger[c], "none", "top")  BY <1>1, <1>6 DEF Outcome
  <2>2. prior' = [prior EXCEPT ![c] = ledger[c]]  BY <1>6
  <2>3. pc[c] # "done"  BY <1>1
  <2>. QED  BY <1>1, <1>2, <1>3, <1>4, <1>6, <2>1, <2>2, <2>3, FitNone, CoroutineMoves
<1>. QED  BY <1>5, <1>6

(* Steps that read nothing: only where the coroutine goes is left to show. *)
LEMMA SameReadings ==
  ASSUME Inv, NEW c \in Candidates, Alone(c), pc[c] # "done",
         UNCHANGED <<run, ledger, prior, workers>>,
         NEW r \in Reasons, NEW p \in Places, Fit(c, prior[c], r), Outcome(c, prior[c], r, p)
  PROVE  Inv'
<1>1. /\ prior' = [prior EXCEPT ![c] = prior[c]] /\ workers' \subseteq Worker
      /\ IsFiniteSet(workers') /\ Orphans' = Orphans
  BY SamePrior
<1>2. Directories'  BY <1>1, SameDirectories
<1>. QED  BY <1>1, <1>2, CoroutineMoves

LEMMA TopInv ==
  ASSUME Inv, NEW c \in Candidates, Top(c)
  PROVE  Inv'
<1>. USE DEF Top
<1>1. Alone(c) /\ pc[c] = "top" /\ pc[c] # "done" /\ UNCHANGED <<run, ledger, prior, workers>>
  OBVIOUS
<1>2. Len(prior[c]) \in Nat  BY LedgerType DEF Inv
<1>3. Reasons = {"none", "already_accepted_other_candidate", "review_complete", "attempts_exhausted"}
      /\ {"backoff", "queue"} \subseteq Places
  BY DEF Reasons, Places
<1>4. CASE stop
  <2>1. Outcome(c, prior[c], "none", "queue")  BY <1>1, <1>4, EndsHow
  <2>. QED  BY <1>1, <1>3, <2>1, FitNone, SameReadings
<1>5. CASE ~stop /\ Complete(c, "already_accepted_other_candidate")
                /\ Task[c] \in accepted_task_hashes
  <2>1. Outcome(c, prior[c], "already_accepted_other_candidate", "queue")
    BY <1>1, <1>3, <1>5, EndsHow
  <2>2. Fit(c, prior[c], "already_accepted_other_candidate")  BY <1>5 DEF Fit
  <2>. QED  BY <1>1, <1>3, <2>1, <2>2, SameReadings
<1>6. CASE ~stop /\ Complete(c, "review_complete") /\ Decided(prior[c])
  <2>1. Outcome(c, prior[c], "review_complete", "queue")  BY <1>1, <1>3, <1>6, EndsHow
  <2>2. Fit(c, prior[c], "review_complete")  BY <1>6 DEF Fit
  <2>. QED  BY <1>1, <1>3, <2>1, <2>2, SameReadings
<1>7. CASE ~stop /\ Complete(c, "attempts_exhausted") /\ ~Decided(prior[c])
                /\ Len(prior[c]) >= MAX_ATTEMPTS
  <2>1. Outcome(c, prior[c], "attempts_exhausted", "queue")  BY <1>1, <1>3, <1>7, EndsHow
  <2>2. Fit(c, prior[c], "attempts_exhausted")  BY <1>7 DEF Fit
  <2>. QED  BY <1>1, <1>3, <2>1, <2>2, SameReadings
<1>8. CASE /\ ~stop /\ ~Decided(prior[c]) /\ ~(Len(prior[c]) >= MAX_ATTEMPTS)
           /\ pc' = [pc EXCEPT ![c] = IF prior[c] = <<>> THEN "queue" ELSE "backoff"]
           /\ UNCHANGED <<status, stop, completed>>
  <2>. DEFINE p == IF prior[c] = <<>> THEN "queue" ELSE "backoff"
  <2>1. p \in Places /\ p \notin {"done", "checked"}  BY <1>3
  <2>2. Len(prior[c]) < MAX_ATTEMPTS  BY <1>2, <1>8, SupervisorAssumption
  <2>3. pc' = [pc EXCEPT ![c] = p]  BY <1>8
  <2>. HIDE DEF p
  <2>4. Outcome(c, prior[c], "none", p)  BY <1>8, <2>1, <2>2, <2>3 DEF Outcome
  <2>. QED  BY <1>1, <1>3, <2>1, <2>4, FitNone, SameReadings
<1>. QED  BY <1>4, <1>5, <1>6, <1>7, <1>8

LEMMA WakeInv ==
  ASSUME Inv, NEW c \in Candidates, Wake(c)
  PROVE  Inv'
<1>1. Alone(c) /\ pc[c] = "backoff" /\ pc[c] # "done" /\ UNCHANGED <<run, ledger, prior, workers>>
  BY DEF Wake
<1>2. Len(prior[c]) < MAX_ATTEMPTS /\ ~Decided(prior[c])  BY <1>1 DEF Inv, Coroutines
<1>3. Outcome(c, prior[c], "none", "queue")  BY <1>2 DEF Outcome, Wake
<1>4. "none" \in Reasons /\ "queue" \in Places  BY DEF Reasons, Places
<1>. QED  BY <1>1, <1>3, <1>4, FitNone, SameReadings

LEMMA EnterInv ==
  ASSUME Inv, NEW c \in Candidates, Enter(c)
  PROVE  Inv'
<1>. USE DEF Enter
<1>1. Alone(c) /\ pc[c] = "queue" /\ pc[c] # "done" /\ UNCHANGED <<run, ledger, prior, workers>>
  OBVIOUS
<1>2. Len(prior[c]) < MAX_ATTEMPTS /\ ~Decided(prior[c])  BY <1>1 DEF Inv, Coroutines
<1>3. "none" \in Reasons /\ "already_accepted_other_candidate" \in Reasons /\ "checked" \in Places
  BY DEF Reasons, Places
<1>4. CASE stop \/ (Alive(c) /\ Error(c))
  <2>1. Outcome(c, prior[c], "none", "checked")  BY <1>1, <1>4, EndsHow
  <2>. QED  BY <1>1, <1>3, <2>1, FitNone, SameReadings
<1>5. CASE Complete(c, "already_accepted_other_candidate") /\ Task[c] \in accepted_task_hashes
  <2>1. Outcome(c, prior[c], "already_accepted_other_candidate", "checked")
    BY <1>1, <1>3, <1>5, EndsHow
  <2>2. Fit(c, prior[c], "already_accepted_other_candidate")  BY <1>5 DEF Fit
  <2>. QED  BY <1>1, <1>3, <2>1, <2>2, SameReadings
<1>6. CASE ~stop /\ ~Alive(c) /\ pc' = [pc EXCEPT ![c] = "checked"]
                /\ UNCHANGED <<status, stop, completed>>
  <2>1. Alive(c)' = Alive(c)  BY <1>1 DEF Alive
  <2>2. Outcome(c, prior[c], "none", "checked")  BY <1>2, <1>6, <2>1 DEF Outcome
  <2>. QED  BY <1>1, <1>3, <2>2, FitNone, SameReadings
<1>. QED  BY <1>4, <1>5, <1>6

LEMMA DispatchInv ==
  ASSUME Inv, NEW c \in Candidates, Dispatch(c)
  PROVE  Inv'
<1>. USE DEF Dispatch
<1>0. TypeOK  BY DEF Inv
<1>1. Alone(c) /\ pc[c] = "checked" /\ pc[c] # "done" /\ UNCHANGED <<run, ledger, prior>>
  OBVIOUS
<1>2. Len(prior[c]) < MAX_ATTEMPTS /\ ~Decided(prior[c]) /\ ~Alive(c)
  BY <1>1 DEF Inv, Coroutines
<1>3. "none" \in Reasons /\ "running" \in Places  BY DEF Reasons, Places
<1>4. CASE Error(c) /\ UNCHANGED workers
  <2>1. Outcome(c, prior[c], "none", "running")  BY <1>1, <1>4, EndsHow
  <2>. QED  BY <1>1, <1>3, <1>4, <2>1, FitNone, SameReadings
<1>5. CASE /\ ledger[c] = prior[c] /\ workers' = workers \cup {Spawned(c)}
           /\ \/ Collapse /\ UNCHANGED completed
              \/ pc' = [pc EXCEPT ![c] = "running"] /\ UNCHANGED <<status, stop, completed>>
  <2>1. Len(prior[c]) \in Nat /\ run \in Nat
    BY <1>0, LedgerType, SupervisorAssumption DEF TypeOK
  <2>2. /\ Spawned(c).cand = c /\ Spawned(c).number = Len(ledger[c]) + 1
        /\ Spawned(c).phase = "launched" /\ Spawned(c) \in Worker
    BY <1>5, <2>1 DEF Spawned, Number, Worker, Phases
  <2>3. workers' \subseteq Worker /\ IsFiniteSet(workers')
    BY <1>5, <2>2, FS_AddElement DEF Inv, TypeOK, Worker
  <2>4. Orphans' = Orphans \cup {Spawned(c)}
    <3>. HIDE DEF Spawned
    <3>. QED  BY <1>5, <2>2 DEF Orphans
  <2>5. Directories'
    <3>1. \A w \in Orphans : w.cand # c  BY <1>2 DEF Alive, Orphans
    <3>2. \A v, w \in Orphans' : v.cand = w.cand => v = w
      BY <2>2, <2>4, <3>1 DEF Inv, Directories
    <3>3. ASSUME NEW w \in Orphans'
          PROVE  /\ w.phase = "launched" => /\ w.number = Len(ledger[w.cand]) + 1
                                            /\ w.number <= MAX_ATTEMPTS /\ ~Decided(ledger[w.cand])
                 /\ w.phase # "launched" => w.number = Len(ledger[w.cand]) /\ w.number > 0
                 /\ w.phase = "made" => ledger[w.cand][w.number] = "no_state"
                 /\ w.phase = "requested" => ledger[w.cand][w.number] = "request_started"
      <4>1. CASE w \in Orphans  BY <4>1 DEF Inv, Directories
      <4>2. CASE w = Spawned(c)
        <5>1. Len(ledger[c]) + 1 <= MAX_ATTEMPTS
          BY <1>2, <1>5, <2>1, SupervisorAssumption
        <5>. QED  BY <1>2, <1>5, <2>2, <4>2, <5>1
      <4>. QED  BY <2>4, <4>1, <4>2
    <3>. QED  BY <3>2, <3>3 DEF Inv, Directories
  <2>6. Outcome(c, prior[c], "none", "running")
    <3>1. completed = [completed EXCEPT ![c] = "none"]  BY <1>1 DEF Inv, TypeOK, Coroutines
    <3>. QED  BY <1>5, <3>1 DEF Outcome, Collapse
  <2>7. prior' = [prior EXCEPT ![c] = prior[c]]  BY <1>0 DEF TypeOK
  <2>. QED  BY <1>1, <1>3, <2>3, <2>5, <2>6, <2>7, FitNone, CoroutineMoves
<1>. QED  BY <1>4, <1>5

LEMMA ReapInv ==
  ASSUME Inv, NEW c \in Candidates, Reap(c)
  PROVE  Inv'
<1>0. TypeOK  BY DEF Inv
<1>1. Alone(c) /\ pc[c] = "running" /\ pc[c] # "done" /\ UNCHANGED <<run, ledger>>
  BY DEF Reap
<1>2. PICK w \in workers :
        /\ w.phase \in {"gone0", "gone1"}
        /\ workers' = workers \ {w}
        /\ IF Unreadable(c) THEN Error(c) /\ UNCHANGED prior
           ELSE /\ prior' = [prior EXCEPT ![c] = ledger[c]]
                /\ IF Len(ledger[c]) # w.number THEN Error(c)
                   ELSE IF Decided(ledger[c])
                     THEN IF w.phase = "gone1" THEN Error(c) ELSE Complete(c, "review_complete")
                   ELSE IF Duplicate THEN Error(c)
                   ELSE pc' = [pc EXCEPT ![c] = "top"] /\ UNCHANGED <<status, stop, completed>>
  BY DEF Reap
<1>3. workers' \subseteq Worker /\ IsFiniteSet(workers') /\ Orphans' \subseteq Orphans
  BY <1>2, FS_RemoveElement DEF Inv, TypeOK, Worker, Orphans
<1>4. Directories'  BY <1>1, <1>3, SameDirectories
<1>5. "none" \in Reasons /\ "review_complete" \in Reasons \ {"none"} /\ "top" \in Places
  BY DEF Reasons, Places
<1>6. CASE Unreadable(c)
  <2>1. Outcome(c, prior[c], "none", "top")  BY <1>1, <1>2, <1>6, EndsHow
  <2>2. prior' = [prior EXCEPT ![c] = prior[c]]  BY <1>0, <1>2, <1>6 DEF TypeOK
  <2>. QED  BY <1>1, <1>3, <1>4, <1>5, <2>1, <2>2, FitNone, CoroutineMoves
<1>7. CASE ~Unreadable(c)
  <2>0. prior' = [prior EXCEPT ![c] = ledger[c]]  BY <1>2, <1>7
  <2>1. CASE Error(c)
    <3>1. Outcome(c, ledger[c], "none", "top")  BY <1>1, <2>1, EndsHow
    <3>. QED  BY <1>1, <1>3, <1>4, <1>5, <1>7, <2>0, <3>1, FitNone, CoroutineMoves
  <2>2. CASE Decided(ledger[c]) /\ Complete(c, "review_complete")
    <3>1. Outcome(c, ledger[c], "review_complete", "top")  BY <1>1, <1>5, <2>2, EndsHow
    <3>2. Fit(c, ledger[c], "review_complete")  BY <2>2 DEF Fit
    <3>. QED  BY <1>1, <1>3, <1>4, <1>5, <1>7, <2>0, <3>1, <3>2, CoroutineMoves
  <2>3. CASE pc' = [pc EXCEPT ![c] = "top"] /\ UNCHANGED <<status, stop, completed>>
    <3>1. Outcome(c, ledger[c], "none", "top")  BY <2>3 DEF Outcome
    <3>. QED  BY <1>1, <1>3, <1>4, <1>5, <1>7, <2>0, <3>1, FitNone, CoroutineMoves
  <2>. QED  BY <1>2, <1>7, <2>1, <2>2, <2>3
<1>. QED  BY <1>6, <1>7
-----------------------------------------------------------------------------
LEMMA StartInv == Inv /\ Start => Inv'
<1>. HAVE Inv /\ Start
<1>. USE DEF Start
<1>0. TypeOK /\ Len(Plans) \in Nat  BY SupervisorAssumption DEF Inv
<1>1. /\ run' = run + 1 /\ run' \in 1..Len(Plans) /\ stop' = FALSE /\ ledger' = ledger
      /\ workers' = Orphans /\ status' \in {"failed", "running"}
      /\ \A c \in Candidates : completed'[c] = "none" /\ prior'[c] = <<>>
  BY <1>0 DEF TypeOK
<1>2. TypeOK'
  <2>1. prior' \in [Candidates -> Seq(Attempts)]  BY Empty
  <2>2. Orphans \subseteq workers  BY DEF Orphans
  <2>3. run' \in 0..Len(Plans)  BY <1>0, <1>1
  <2>4. pc' \in [Candidates -> Places]
    BY <1>0 DEF TypeOK, Places
  <2>5. completed' \in [Candidates -> Reasons]  BY DEF Reasons
  <2>6. workers' \subseteq Worker  BY <1>0, <1>1, <2>2 DEF TypeOK, Worker
  <2>. QED  BY <1>0, <1>1, <2>1, <2>3, <2>4, <2>5, <2>6 DEF TypeOK, Places, Reasons, Worker
<1>3. IsFiniteSet(workers')
  <2>1. Orphans \in SUBSET workers  BY DEF Orphans
  <2>. QED  BY <1>1, <2>1, FS_Subset DEF Inv
<1>4. Directories'
  <2>1. Orphans' = Orphans  BY <1>1 DEF Orphans
  <2>. QED  BY <1>1, <2>1, SameDirectories
<1>5. Coroutines'
  <2>1. \A c \in Candidates : Len(prior'[c]) < MAX_ATTEMPTS /\ ~Decided(prior'[c])
    BY <1>1, Empty, SupervisorAssumption
  <2>2. \A c \in Candidates : Alive(c)' => Alive(c)  BY <1>1 DEF Alive, Orphans
  <2>3. \A c \in Candidates : pc'[c] = "checked" => pc[c] = "checked"
    BY <1>0 DEF TypeOK
  <2>. QED  BY <1>1, <2>1, <2>2, <2>3 DEF Inv, Coroutines
<1>6. Readings'
  <2>1. \A c \in Candidates : Len(ledger[c]) \in Nat  BY <1>0, LedgerType
  <2>. QED  BY <1>1, <2>1, Empty DEF Readings
<1>7. Reports'
  <2>1. \A c \in Candidates : status' = "running" /\ c \in Plans[run'] => pc'[c] # "done"
    BY <1>1
  <2>. QED  BY <1>0, <1>1, <2>1 DEF Reports, TypeOK
<1>. QED  BY <1>2, <1>3, <1>4, <1>5, <1>6, <1>7 DEF Inv

LEMMA FinishInv == Inv /\ Finish => Inv'
<1>. HAVE Inv /\ Finish
<1>. USE DEF Finish
<1>1. TypeOK'  BY DEF Inv, TypeOK
<1>2. Directories'
  <2>1. Orphans' = Orphans  BY DEF Orphans
  <2>. QED  BY <2>1, SameDirectories
<1>3. Coroutines'  BY DEF Inv, Coroutines, Alive
<1>4. Readings'  BY DEF Inv, Readings
<1>5. Reports'  BY DEF Inv, Reports, accepted_task_hashes, Accepted
<1>. QED  BY <1>1, <1>2, <1>3, <1>4, <1>5 DEF Inv

LEMMA SupervisorDiesInv == Inv /\ SupervisorDies => Inv'
<1>. HAVE Inv /\ SupervisorDies
<1>. USE DEF SupervisorDies
<1>1. TypeOK'  BY DEF Inv, TypeOK
<1>2. Directories'
  <2>1. Orphans' = Orphans  BY DEF Orphans
  <2>. QED  BY <2>1, SameDirectories
<1>3. Coroutines'  BY DEF Inv, Coroutines
<1>4. Readings'  BY DEF Inv, Readings
<1>5. Reports'  BY DEF Inv, Reports, accepted_task_hashes, Accepted
<1>. QED  BY <1>1, <1>2, <1>3, <1>4, <1>5 DEF Inv

(* The invariant the others rest on.                                       *)
THEOREM Invariant == Spec => []Inv
<1>1. Inv /\ [Next]_vars => Inv'
  <2>. SUFFICES ASSUME Inv, [Next]_vars PROVE Inv'  OBVIOUS
  <2>1. CASE \E c \in Candidates : Step(c)
    BY <2>1, BeginInv, TopInv, WakeInv, EnterInv, DispatchInv, ReapInv DEF Step
  <2>2. CASE \E w \in workers : WorkerStep(w) \/ WorkerDies(w)
    BY <2>2, MakeOutputInv, SendRequestInv, SaveResultInv, WorkerEndsInv DEF WorkerStep
  <2>3. CASE UNCHANGED vars
    <3>. USE <2>3 DEF vars
    <3>1. TypeOK'  BY DEF Inv, TypeOK
    <3>2. Directories'
      <4>1. Orphans' = Orphans  BY DEF Orphans
      <4>. QED  BY <4>1, SameDirectories
    <3>3. Coroutines'  BY DEF Inv, Coroutines, Alive
    <3>4. Readings'  BY DEF Inv, Readings
    <3>5. Reports'  BY DEF Inv, Reports, accepted_task_hashes, Accepted
    <3>. QED  BY <3>1, <3>2, <3>3, <3>4, <3>5 DEF Inv
  <2>. QED  BY <2>1, <2>2, <2>3, StartInv, FinishInv, SupervisorDiesInv DEF Next
<1>. QED  BY <1>1, InitInv, PTL DEF Spec

(* Every variable of the supervisor, its coroutines and the review         *)
(* processes keeps its range.                                              *)
THEOREM TypeCorrect == Spec => []TypeOK
<1>1. Inv => TypeOK  BY DEF Inv
<1>. QED  BY <1>1, Invariant, PTL

(* However supervisors are killed and replaced, a candidate has at most    *)
(* one live review process, on its last attempt, and no attempt follows a  *)
(* decision or exceeds the limit.                                          *)
THEOREM InOrder == Spec => []AttemptsInOrder
<1>1. Inv => AttemptsInOrder
  <2>. HAVE Inv
  <2>1. \A c \in Candidates : DOMAIN ledger[c] = 1..Len(ledger[c])  BY LedgerType DEF Inv
  <2>2. ASSUME NEW c \in Candidates
        PROVE  /\ Len(ledger[c]) <= MAX_ATTEMPTS
               /\ \A i \in DOMAIN ledger[c] : ledger[c][i] \in Decisions => i = Len(ledger[c])
               /\ \A v, w \in Orphans : v.cand = c /\ w.cand = c => v = w
    BY <2>1 DEF Inv, Directories
  <2>3. ASSUME NEW c \in Candidates, NEW w \in Orphans, w.cand = c
        PROVE  w.number = Len(ledger[c]) + (IF w.phase = "launched" THEN 1 ELSE 0)
    <3>1. Len(ledger[c]) \in Nat  BY LedgerType DEF Inv
    <3>2. w.phase = "launched" => w.number = Len(ledger[c]) + 1  BY <2>3 DEF Inv, Directories
    <3>3. w.phase # "launched" => w.number = Len(ledger[c])  BY <2>3 DEF Inv, Directories
    <3>4. CASE w.phase = "launched"  BY <3>2, <3>4
    <3>5. CASE w.phase # "launched"  BY <3>1, <3>3, <3>5
    <3>. QED  BY <3>4, <3>5
  <2>. QED  BY <2>2, <2>3 DEF AttemptsInOrder
<1>. QED  BY <1>1, Invariant, PTL

(* A supervisor that ends without an error has reported every candidate of *)
(* its plan in agreement with the directories, though processes of killed  *)
(* supervisors still write to them.                                        *)
THEOREM AllReported == Spec => []EveryCandidateReported
<1>1. Inv => EveryCandidateReported
  <2>. HAVE Inv
  <2>. SUFFICES ASSUME status = "complete", NEW c \in Plans[run]
                PROVE  /\ completed[c] # "none"
                       /\ completed[c] = "review_complete" => Decided(ledger[c])
                       /\ completed[c] = "attempts_exhausted" =>
                            /\ Len(ledger[c]) = MAX_ATTEMPTS
                            /\ Decided(ledger[c]) => Last(prior[c]) = "request_started"
                       /\ completed[c] = "already_accepted_other_candidate" =>
                            Task[c] \in accepted_task_hashes
    BY DEF EveryCandidateReported
  <2>1. c \in Candidates
    <3>1. run \in 1..Len(Plans)  BY SupervisorAssumption DEF Inv, TypeOK, Reports
    <3>. QED  BY <3>1, SupervisorAssumption
  <2>2. completed[c] # "none"  BY <2>1 DEF Inv, Reports
  <2>3. completed[c] = "review_complete" => Decided(ledger[c])
    BY <2>1 DEF Inv, Reports, Readings
  <2>4. ASSUME completed[c] = "attempts_exhausted"
        PROVE  /\ Len(ledger[c]) = MAX_ATTEMPTS
               /\ Decided(ledger[c]) => Last(prior[c]) = "request_started"
    <3>1. Len(prior[c]) >= MAX_ATTEMPTS /\ ~Decided(prior[c])  BY <2>1, <2>4 DEF Inv, Reports
    <3>2. /\ Len(prior[c]) \in Nat /\ Len(ledger[c]) \in Nat /\ MAX_ATTEMPTS \in Nat \ {0}
          /\ prior[c] \in Seq(Attempts)
      BY <2>1, LedgerType, SupervisorAssumption DEF Inv
    <3>3. Len(prior[c]) <= Len(ledger[c]) /\ Len(ledger[c]) <= MAX_ATTEMPTS
      BY <2>1 DEF Inv, Readings, Directories
    <3>4. Len(ledger[c]) = MAX_ATTEMPTS /\ Len(prior[c]) = Len(ledger[c])
      BY <3>1, <3>2, <3>3
    <3>5. prior[c] # <<>>  BY <3>2, <3>4, Empty
    <3>6. Last(prior[c]) \in {Last(ledger[c]), "request_started"}
      BY <2>1, <3>4, <3>5 DEF Inv, Readings
    <3>. QED  BY <3>1, <3>4, <3>5, <3>6 DEF Decided
  <2>5. completed[c] = "already_accepted_other_candidate" => Task[c] \in accepted_task_hashes
    BY <2>1 DEF Inv, Reports
  <2>. QED  BY <2>2, <2>3, <2>4, <2>5
<1>. QED  BY <1>1, Invariant, PTL

(* After an internal error no review is started by this supervisor: it     *)
(* looked at stop in the step before, and nobody ran in between.           *)
THEOREM Drains == Spec => StopDrains
<1>1. Inv /\ [Next]_vars => [stop /\ run' = run => Cardinality(workers') <= Cardinality(workers)]_vars
  <2>. SUFFICES ASSUME Inv, Next, stop, run' = run
                PROVE  Cardinality(workers') <= Cardinality(workers)
    OBVIOUS
  <2>0. TypeOK /\ IsFiniteSet(workers) /\ Cardinality(workers) \in Nat
    BY FS_CardinalityType DEF Inv
  <2>1. CASE UNCHANGED workers  BY <2>0, <2>1
  <2>2. ASSUME NEW c \in Candidates, Dispatch(c) PROVE FALSE
    BY <2>2 DEF Dispatch, Inv, Coroutines
  <2>3. ASSUME NEW c \in Candidates, Reap(c)
        PROVE  Cardinality(workers') <= Cardinality(workers)
    <3>1. PICK w \in workers : workers' = workers \ {w}  BY <2>3 DEF Reap
    <3>2. Cardinality(workers \ {w}) = Cardinality(workers) - 1  BY <2>0, FS_RemoveElement
    <3>. QED  BY <2>0, <3>1, <3>2
  <2>4. ASSUME NEW w \in workers, WorkerStep(w) \/ WorkerDies(w)
        PROVE  Cardinality(workers') <= Cardinality(workers)
    <3>1. w \in Orphans
      BY <2>4 DEF WorkerStep, WorkerDies, MakeOutput, SendRequest, SaveResult, WorkerExits, Orphans
    <3>2. \E p \in Phases : Moves(w, p)
      BY <2>4 DEF WorkerStep, WorkerDies, MakeOutput, SendRequest, SaveResult, WorkerExits, Phases
    <3>. QED  BY <2>0, <3>1, <3>2, MovedWorkers
  <2>5. ~Start  BY <2>0 DEF Start, TypeOK
  <2>. QED  BY <2>1, <2>2, <2>3, <2>4, <2>5
            DEF Next, Step, Finish, SupervisorDies, Begin, Top, Wake, Enter
<1>. QED  BY <1>1, Invariant, PTL DEF Spec, StopDrains
-----------------------------------------------------------------------------
(* What a report of "other candidate" means.                               *)

(* A process of an earlier supervisor wrote this candidate's last attempt. *)
LeftOver(c) == \E w \in workers : w.cand = c /\ w.run < run /\ w.number = Len(ledger[c])

(* OtherMeansOther does not hold. What does: either another candidate of   *)
(* the task was accepted, or the accepted review is the candidate's own,   *)
(* decided by a left-over process after the coroutine read the attempts.   *)
OtherOrLeftOver ==
  \A c \in Candidates :
    completed[c] = "already_accepted_other_candidate" =>
      \/ \E d \in Accepted \ {c} : Task[d] = Task[c]
      \/ c \in Accepted /\ ~Decided(prior[c]) /\ LeftOver(c)

Deciding == {"top", "backoff", "queue", "checked"}

(* Until it dispatches, a coroutine's copy is behind only because of a     *)
(* left-over process.                                                      *)
Behind ==
  \A c \in Candidates :
    /\ pc[c] # "done" => status = "running"
    /\ pc[c] \in Deciding /\ prior[c] # ledger[c] => LeftOver(c)

(* A supervisor's own processes: one for each coroutine that waits for it. *)
OwnProcesses ==
  /\ \A w \in workers :
       /\ w.run <= run
       /\ w.run = run /\ status = "running" => pc[w.cand] = "running"
  /\ status = "running" =>
       \A v, w \in workers : v.run = run /\ w.run = run /\ v.cand = w.cand => v = w

Stale == OtherOrLeftOver /\ Behind /\ OwnProcesses

(* What a review process's step writes: its own attempt, undecided so far. *)
LEMMA WorkerWrites ==
  ASSUME Inv, NEW w \in workers, WorkerStep(w) \/ WorkerDies(w)
  PROVE  /\ Rest /\ w \in Orphans
         /\ \E p \in Phases : workers' = (workers \ {w}) \cup {Moved(w, p)}
         /\ \A d \in Candidates :
              ledger'[d] # ledger[d] =>
                d = w.cand /\ w.number = Len(ledger'[d]) /\ ~Decided(ledger[d])
<1>1. w \in Orphans /\ Rest
  BY DEF WorkerStep, WorkerDies, MakeOutput, SendRequest, SaveResult, WorkerExits, Orphans
<1>2. \E p \in Phases : workers' = (workers \ {w}) \cup {Moved(w, p)}
  BY DEF WorkerStep, WorkerDies, MakeOutput, SendRequest, SaveResult, WorkerExits, Moves, Moved,
         Phases
<1>3. /\ w.cand \in Candidates /\ w.number \in Nat /\ TypeOK
      /\ ledger[w.cand] \in Seq(Attempts) /\ Len(ledger[w.cand]) \in Nat
  BY LedgerType DEF Inv, TypeOK
<1>4. ASSUME NEW d \in Candidates, ledger'[d] # ledger[d]
      PROVE  d = w.cand /\ w.number = Len(ledger'[d]) /\ ~Decided(ledger[d])
  <2>1. CASE MakeOutput(w)
    <3>1. /\ w.phase = "launched" /\ w.number = Len(ledger[w.cand]) + 1
          /\ ~Decided(ledger[w.cand])
      BY <1>1, <2>1 DEF MakeOutput, Inv, Directories
    <3>2. ledger' = [ledger EXCEPT ![w.cand] = Append(@, "no_state")]
      BY <1>4, <2>1 DEF MakeOutput
    <3>3. d = w.cand /\ ledger'[d] = Append(ledger[d], "no_state")
      BY <1>3, <1>4, <3>2 DEF TypeOK
    <3>4. Len(Append(ledger[w.cand], "no_state")) = Len(ledger[w.cand]) + 1
      BY <1>3 DEF Attempts
    <3>. QED  BY <3>1, <3>3, <3>4
  <2>2. CASE SendRequest(w) \/ SaveResult(w)
    <3>1. /\ w.number = Len(ledger[w.cand]) /\ w.number > 0
          /\ ledger[w.cand][w.number] \in {"no_state", "request_started"}
      BY <1>1, <2>2 DEF SendRequest, SaveResult, Inv, Directories
    <3>2. PICK x : ledger' = [ledger EXCEPT ![w.cand][w.number] = x]
      BY <2>2 DEF SendRequest, SaveResult
    <3>3. d = w.cand /\ ledger'[d] = [ledger[d] EXCEPT ![w.number] = x]
      BY <1>3, <1>4, <3>2 DEF TypeOK
    <3>4. Len([ledger[w.cand] EXCEPT ![w.number] = x]) = Len(ledger[w.cand])
      BY <1>3
    <3>5. ~Decided(ledger[w.cand])  BY <3>1 DEF Decided, Decisions, Last
    <3>. QED  BY <3>1, <3>3, <3>4, <3>5
  <2>3. CASE WorkerExits(w) \/ WorkerDies(w)  BY <1>4, <2>3 DEF WorkerExits, WorkerDies
  <2>. QED  BY <2>1, <2>2, <2>3 DEF WorkerStep
<1>. QED  BY <1>1, <1>2, <1>4

(* An accepted review is the last one, and decided.                        *)
LEMMA AcceptedDecided ==
  ASSUME Inv, NEW c \in Accepted
  PROVE  c \in Candidates /\ Decided(ledger[c]) /\ Last(ledger[c]) = "accepted"
<1>1. c \in Candidates  BY DEF Accepted
<1>2. PICK i \in 1..Len(ledger[c]) : ledger[c][i] = "accepted"
  BY <1>1, LedgerType DEF Accepted, Inv
<1>3. i = Len(ledger[c])  BY <1>1, <1>2 DEF Inv, Directories, Decisions
<1>. QED  BY <1>1, <1>2, <1>3, LedgerType DEF Decided, Decisions, Last, Inv

(* Only undecided attempts are still written, so nothing accepted is lost. *)
LEMMA WorkerStale ==
  ASSUME Inv, Stale, NEW w \in workers, WorkerStep(w) \/ WorkerDies(w)
  PROVE  Stale'
<1>1. /\ UNCHANGED <<run, status, pc, prior, stop, completed>> /\ w \in Orphans
      /\ \A d \in Candidates :
           ledger'[d] # ledger[d] =>
             d = w.cand /\ w.number = Len(ledger'[d]) /\ ~Decided(ledger[d])
  BY WorkerWrites DEF Rest
<1>2. PICK p \in Phases : workers' = (workers \ {w}) \cup {Moved(w, p)}
  BY WorkerWrites
<1>3. w \in Worker /\ run \in Nat /\ workers \subseteq Worker
  BY SupervisorAssumption DEF Inv, TypeOK, Worker
<1>4. Moved(w, p).cand = w.cand /\ Moved(w, p).number = w.number /\ Moved(w, p).run = w.run
  BY <1>3 DEF Moved, Worker
<1>. HIDE DEF Moved
<1>5. ASSUME NEW d \in Candidates, LeftOver(d), ledger'[d] = ledger[d]
      PROVE  LeftOver(d)'
  BY <1>1, <1>2, <1>4, <1>5 DEF LeftOver
<1>6. OtherOrLeftOver'
  <2>1. ASSUME NEW d \in Accepted  PROVE d \in Accepted' /\ ledger'[d] = ledger[d]
    <3>1. d \in Candidates /\ ledger'[d] = ledger[d]  BY <1>1, AcceptedDecided
    <3>. QED  BY <3>1 DEF Accepted
  <2>. SUFFICES ASSUME NEW c \in Candidates,
                       completed[c] = "already_accepted_other_candidate"
                PROVE  \/ \E d \in Accepted' \ {c} : Task[d] = Task[c]
                       \/ c \in Accepted' /\ ~Decided(prior[c]) /\ LeftOver(c)'
    BY <1>1 DEF OtherOrLeftOver
  <2>2. CASE \E d \in Accepted \ {c} : Task[d] = Task[c]  BY <2>1, <2>2
  <2>3. CASE c \in Accepted /\ ~Decided(prior[c]) /\ LeftOver(c)  BY <1>5, <2>1, <2>3
  <2>. QED  BY <2>2, <2>3 DEF Stale, OtherOrLeftOver
<1>7. Behind'
  <2>. SUFFICES ASSUME NEW c \in Candidates, pc[c] \in Deciding, prior[c] # ledger'[c]
                PROVE  LeftOver(c)'
    BY <1>1 DEF Stale, Behind, Deciding
  <2>1. CASE ledger'[c] = ledger[c]  BY <1>5, <2>1 DEF Stale, Behind
  <2>2. CASE ledger'[c] # ledger[c]
    <3>1. w.cand = c /\ w.number = Len(ledger'[c])  BY <1>1, <2>2
    <3>2. status = "running"  BY DEF Stale, Behind, Deciding
    <3>3. w.run # run  BY <3>1, <3>2 DEF Stale, OwnProcesses, Deciding
    <3>4. w.run < run  BY <1>3, <3>3 DEF Stale, OwnProcesses, Worker
    <3>5. Moved(w, p) \in workers'  BY <1>2
    <3>. QED  BY <1>1, <1>4, <3>1, <3>4, <3>5 DEF LeftOver
  <2>. QED  BY <2>1, <2>2
<1>8. OwnProcesses'
  <2>1. ASSUME NEW v \in workers'
        PROVE  \/ v \in workers /\ v # w
               \/ v = Moved(w, p)
    BY <1>2
  <2>. QED  BY <1>1, <1>4, <2>1 DEF Stale, OwnProcesses
<1>. QED  BY <1>6, <1>7, <1>8 DEF Stale

(* A coroutine's step keeps what is said of the others; it may report      *)
(* "other candidate" of its own only as the directories say.               *)
LEMMA CoroutineStale ==
  ASSUME Inv, Stale, NEW c \in Candidates, Alone(c), pc[c] # "done", UNCHANGED <<run, ledger>>,
         NEW q, prior' = [prior EXCEPT ![c] = q],
         NEW r \in Reasons, NEW p \in Places, Outcome(c, q, r, p),
         p \in Deciding => q = ledger[c] \/ (q = prior[c] /\ pc[c] \in Deciding),
         r = "already_accepted_other_candidate" =>
           /\ Task[c] \in accepted_task_hashes /\ q = prior[c] /\ pc[c] \in Deciding
           /\ ~(Decided(q) /\ Last(q) = "accepted"),
         \A d \in Candidates : LeftOver(d) => LeftOver(d)', OwnProcesses'
  PROVE  Stale'
<1>1. /\ \A d \in Candidates \ {c} :
           /\ prior'[d] = prior[d] /\ completed'[d] = completed[d]
           /\ pc'[d] = pc[d] \/ pc'[d] = "done"
      /\ prior'[c] = q /\ completed'[c] \in {"none", r}
      /\ \A d \in Candidates : pc'[d] # "done" => status' = status
      /\ pc'[c] \in {p, "done"}
  BY DEF Outcome, TypeOK, Inv, Coroutines
<1>2. Accepted' = Accepted  BY DEF Accepted
<1>3. OtherOrLeftOver'
  <2>. SUFFICES ASSUME NEW d \in Candidates,
                       completed'[d] = "already_accepted_other_candidate"
                PROVE  \/ \E e \in Accepted \ {d} : Task[e] = Task[d]
                       \/ d \in Accepted /\ ~Decided(prior'[d]) /\ LeftOver(d)'
    BY <1>2 DEF OtherOrLeftOver
  <2>1. CASE d # c  BY <1>1, <2>1 DEF Stale, OtherOrLeftOver
  <2>2. CASE d = c
    <3>1. r = "already_accepted_other_candidate"  BY <1>1, <2>2
    <3>2. PICK e \in Accepted : Task[e] = Task[c]  BY <3>1 DEF accepted_task_hashes
    <3>3. CASE e # c  BY <2>2, <3>2, <3>3
    <3>4. CASE e = c
      <4>1. c \in Accepted /\ Last(ledger[c]) = "accepted" /\ Decided(ledger[c])
        BY <3>4, AcceptedDecided
      <4>2. ~Decided(q) /\ q # ledger[c]  BY <3>1, <4>1 DEF Inv, Readings
      <4>3. LeftOver(c)  BY <3>1, <4>2 DEF Stale, Behind
      <4>. QED  BY <1>1, <2>2, <4>1, <4>2, <4>3
    <3>. QED  BY <3>3, <3>4
  <2>. QED  BY <2>1, <2>2
<1>4. Behind'
  <2>. SUFFICES ASSUME NEW d \in Candidates
                PROVE  /\ pc'[d] # "done" => status' = "running"
                       /\ pc'[d] \in Deciding /\ prior'[d] # ledger[d] => LeftOver(d)'
    BY DEF Behind
  <2>1. pc'[d] # "done" => status' = "running"  BY <1>1 DEF Alone
  <2>2. CASE d # c  BY <1>1, <2>1, <2>2 DEF Stale, Behind, Deciding
  <2>3. CASE d = c  BY <1>1, <2>1, <2>3 DEF Stale, Behind, Deciding
  <2>. QED  BY <2>2, <2>3
<1>. QED  BY <1>3, <1>4 DEF Stale

(* Steps before the dispatch touch no process, and have none of their own. *)
LEMMA OwnKept ==
  ASSUME Inv, Stale, NEW c \in Candidates, pc[c] # "running", UNCHANGED <<run, ledger, workers>>,
         Alone(c), NEW q, NEW r, NEW p, Outcome(c, q, r, p)
  PROVE  OwnProcesses' /\ \A d \in Candidates : LeftOver(d) => LeftOver(d)'
<1>1. /\ status = "running"
      /\ status' = "running" => \A d \in Candidates \ {c} : pc'[d] = pc[d]
  BY DEF Outcome, TypeOK, Inv, Alone
<1>2. \A w \in workers : w.cand \in Candidates  BY DEF Inv, TypeOK
<1>. QED  BY <1>1, <1>2 DEF Stale, OwnProcesses, LeftOver

LEMMA BeginStale ==
  ASSUME Inv, Stale, NEW c \in Candidates, Begin(c)
  PROVE  Stale'
<1>. USE DEF Begin
<1>1. Alone(c) /\ pc[c] \notin {"done", "running"} /\ UNCHANGED <<run, ledger, workers>>
  OBVIOUS
<1>2. "none" \in Reasons /\ {"top", "running"} \subseteq Places /\ "running" \notin Deciding
  BY DEF Reasons, Places, Deciding
<1>3. CASE Unreadable(c)
  <2>1. Outcome(c, prior[c], "none", "running")  BY <1>1, <1>3, EndsHow
  <2>2. prior' = [prior EXCEPT ![c] = prior[c]]  BY <1>3 DEF Inv, TypeOK
  <2>3. OwnProcesses' /\ \A d \in Candidates : LeftOver(d) => LeftOver(d)'
    BY <1>1, <2>1, OwnKept
  <2>. QED  BY <1>1, <1>2, <2>1, <2>2, <2>3, CoroutineStale
<1>4. CASE ~Unreadable(c)
  <2>1. Outcome(c, ledger[c], "none", "top")  BY <1>1, <1>4 DEF Outcome
  <2>2. prior' = [prior EXCEPT ![c] = ledger[c]]  BY <1>4
  <2>3. OwnProcesses' /\ \A d \in Candidates : LeftOver(d) => LeftOver(d)'
    BY <1>1, <2>1, OwnKept
  <2>. QED  BY <1>1, <1>2, <2>1, <2>2, <2>3, CoroutineStale
<1>. QED  BY <1>3, <1>4

(* The steps between the reading and the dispatch.                         *)
LEMMA DecidingStale ==
  ASSUME Inv, Stale, NEW c \in Candidates, Alone(c), pc[c] \in Deciding,
         UNCHANGED <<run, ledger, prior, workers>>,
         NEW r \in Reasons, NEW p \in Places, Outcome(c, prior[c], r, p),
         r = "already_accepted_other_candidate" =>
           /\ Task[c] \in accepted_task_hashes
           /\ ~(Decided(prior[c]) /\ Last(prior[c]) = "accepted")
  PROVE  Stale'
<1>1. pc[c] # "done" /\ pc[c] # "running"  BY DEF Deciding
<1>2. prior' = [prior EXCEPT ![c] = prior[c]]  BY DEF Inv, TypeOK
<1>3. OwnProcesses' /\ \A d \in Candidates : LeftOver(d) => LeftOver(d)'
  BY <1>1, OwnKept
<1>. QED  BY <1>1, <1>2, <1>3, CoroutineStale

LEMMA TopStale ==
  ASSUME Inv, Stale, NEW c \in Candidates, Top(c) \/ Wake(c) \/ Enter(c)
  PROVE  Stale'
<1>. USE DEF Top, Wake, Enter
<1>1. Alone(c) /\ pc[c] \in Deciding /\ pc[c] # "done" /\ UNCHANGED <<run, ledger, prior, workers>>
  BY DEF Deciding
<1>2. Reasons = {"none", "already_accepted_other_candidate", "review_complete", "attempts_exhausted"}
      /\ {"backoff", "queue", "checked"} \subseteq Places
  BY DEF Reasons, Places
<1>3. pc[c] = "queue" => ~Decided(prior[c])  BY DEF Inv, Coroutines
<1>4. CASE (stop /\ Leave(c)) \/ Error(c)
  <2>1. Outcome(c, prior[c], "none", "queue")  BY <1>1, <1>4, EndsHow
  <2>. QED  BY <1>1, <1>2, <2>1, DecidingStale
<1>5. CASE /\ Complete(c, "already_accepted_other_candidate") /\ Task[c] \in accepted_task_hashes
           /\ ~(Decided(prior[c]) /\ Last(prior[c]) = "accepted")
  <2>1. Outcome(c, prior[c], "already_accepted_other_candidate", "queue")
    BY <1>1, <1>2, <1>5, EndsHow
  <2>. QED  BY <1>1, <1>2, <1>5, <2>1, DecidingStale
<1>6. ASSUME NEW r \in {"review_complete", "attempts_exhausted"}, Complete(c, r)  PROVE Stale'
  <2>1. Outcome(c, prior[c], r, "queue")  BY <1>1, <1>2, <1>6, EndsHow
  <2>. QED  BY <1>1, <1>2, <2>1, DecidingStale
<1>7. ASSUME NEW p \in {"backoff", "queue", "checked"}, pc' = [pc EXCEPT ![c] = p],
             UNCHANGED <<status, stop, completed>>, Len(prior[c]) < MAX_ATTEMPTS,
             ~Decided(prior[c]), p = "checked" => ~Alive(c) /\ ~stop
      PROVE  Stale'
  <2>1. Alive(c)' = Alive(c)  BY <1>1 DEF Alive
  <2>2. Outcome(c, prior[c], "none", p)  BY <1>7, <2>1 DEF Outcome
  <2>. QED  BY <1>1, <1>2, <2>2, DecidingStale
<1>8. CASE Top(c)
  <2>1. \/ stop /\ Leave(c)
        \/ /\ Complete(c, "already_accepted_other_candidate") /\ Task[c] \in accepted_task_hashes
           /\ ~(Decided(prior[c]) /\ Last(prior[c]) = "accepted")
        \/ \E r \in {"review_complete", "attempts_exhausted"} : Complete(c, r)
        \/ /\ ~Decided(prior[c]) /\ ~(Len(prior[c]) >= MAX_ATTEMPTS)
           /\ UNCHANGED <<status, stop, completed>>
           /\ \E p \in {"backoff", "queue"} : pc' = [pc EXCEPT ![c] = p]
    BY <1>8
  <2>2. ~(Len(prior[c]) >= MAX_ATTEMPTS) => Len(prior[c]) < MAX_ATTEMPTS
    BY LedgerType, SupervisorAssumption DEF Inv
  <2>. QED  BY <1>4, <1>5, <1>6, <1>7, <2>1, <2>2
<1>9. CASE Wake(c)
  <2>1. Len(prior[c]) < MAX_ATTEMPTS /\ ~Decided(prior[c])  BY <1>9 DEF Inv, Coroutines
  <2>. QED  BY <1>7, <1>9, <2>1
<1>10. CASE Enter(c)
  <2>1. Len(prior[c]) < MAX_ATTEMPTS /\ ~Decided(prior[c])  BY <1>10 DEF Inv, Coroutines
  <2>. QED  BY <1>4, <1>5, <1>7, <1>10, <2>1
<1>. QED  BY <1>8, <1>9, <1>10

LEMMA DispatchStale ==
  ASSUME Inv, Stale, NEW c \in Candidates, Dispatch(c)
  PROVE  Stale'
<1>. USE DEF Dispatch
<1>1. /\ Alone(c) /\ pc[c] = "checked" /\ pc[c] # "done" /\ pc[c] \in Deciding
      /\ UNCHANGED <<run, ledger, prior>>
  BY DEF Deciding
<1>2. "none" \in Reasons /\ "running" \in Places /\ "running" \notin Deciding
  BY DEF Reasons, Places, Deciding
<1>3. CASE Error(c) /\ UNCHANGED workers
  <2>1. Outcome(c, prior[c], "none", "running")  BY <1>1, <1>3, EndsHow
  <2>. QED  BY <1>1, <1>2, <1>3, <2>1, DecidingStale
<1>4. CASE /\ workers' = workers \cup {Spawned(c)}
           /\ \/ Collapse /\ UNCHANGED completed
              \/ pc' = [pc EXCEPT ![c] = "running"] /\ UNCHANGED <<status, stop, completed>>
  <2>1. Outcome(c, prior[c], "none", "running")
    <3>1. completed = [completed EXCEPT ![c] = "none"]  BY <1>1 DEF Inv, TypeOK, Coroutines
    <3>. QED  BY <1>4, <3>1 DEF Outcome, Collapse
  <2>2. prior' = [prior EXCEPT ![c] = prior[c]]  BY <1>1 DEF Inv, TypeOK
  <2>3. \A d \in Candidates : LeftOver(d) => LeftOver(d)'  BY <1>1, <1>4 DEF LeftOver
  <2>4. OwnProcesses'
    <3>1. Spawned(c).cand = c /\ Spawned(c).run = run  BY DEF Spawned
    <3>2. run \in Nat /\ \A w \in workers : w.cand \in Candidates
      BY SupervisorAssumption DEF Inv, TypeOK
    <3>3. status = "running" /\ \A w \in workers : w.run = run => w.cand # c
      BY <1>1 DEF Alone, Stale, OwnProcesses
    <3>. HIDE DEF Spawned
    <3>4. CASE status' # "running"  BY <1>1, <1>4, <3>1, <3>2, <3>4 DEF Stale, OwnProcesses
    <3>5. CASE status' = "running"
      <4>1. pc' = [pc EXCEPT ![c] = "running"]  BY <1>4, <3>5 DEF Collapse
      <4>2. \A w \in workers' : w.run = run => pc'[w.cand] = "running"
        BY <1>4, <3>1, <3>2, <3>3, <4>1 DEF Stale, OwnProcesses, Inv, TypeOK
      <4>3. \A w \in workers' : w.run <= run
        BY <1>4, <3>1, <3>2 DEF Stale, OwnProcesses
      <4>4. \A v, w \in workers' : v.run = run /\ w.run = run /\ v.cand = w.cand => v = w
        BY <1>4, <3>1, <3>3 DEF Stale, OwnProcesses
      <4>. QED  BY <1>1, <4>2, <4>3, <4>4 DEF OwnProcesses
    <3>. QED  BY <3>4, <3>5
  <2>. QED  BY <1>1, <1>2, <2>1, <2>2, <2>3, <2>4, CoroutineStale
<1>. QED  BY <1>3, <1>4

LEMMA ReapStale ==
  ASSUME Inv, Stale, NEW c \in Candidates, Reap(c)
  PROVE  Stale'
<1>1. Alone(c) /\ pc[c] = "running" /\ pc[c] # "done" /\ UNCHANGED <<run, ledger>>
  BY DEF Reap
<1>2. PICK w \in workers :
        /\ w.cand = c /\ w.run = run
        /\ workers' = workers \ {w}
        /\ \/ Unreadable(c) /\ Error(c) /\ UNCHANGED prior
           \/ /\ ~Unreadable(c) /\ prior' = [prior EXCEPT ![c] = ledger[c]]
              /\ \/ Error(c)
                 \/ Complete(c, "review_complete")
                 \/ pc' = [pc EXCEPT ![c] = "top"] /\ UNCHANGED <<status, stop, completed>>
  BY DEF Reap
<1>3. {"none", "review_complete"} \subseteq Reasons /\ {"top", "running"} \subseteq Places
      /\ "review_complete" \in Reasons \ {"none"} /\ "running" \notin Deciding
  BY DEF Reasons, Places, Deciding
<1>4. run \in Nat /\ workers \subseteq Worker
  BY SupervisorAssumption DEF Inv, TypeOK, Worker
<1>5. \A d \in Candidates : LeftOver(d) => LeftOver(d)'
  BY <1>1, <1>2, <1>4 DEF LeftOver
<1>6. ASSUME NEW q, NEW r, NEW p, Outcome(c, q, r, p)  PROVE OwnProcesses'
  <2>1. /\ status = "running"
        /\ status' = "running" => \A d \in Candidates \ {c} : pc'[d] = pc[d]
    BY <1>1, <1>6 DEF Outcome, TypeOK, Inv, Alone
  <2>2. \A v \in workers' : v \in workers /\ v.cand \in Candidates /\ (v.run = run => v.cand # c)
    BY <1>2, <1>4, <2>1 DEF Stale, OwnProcesses, Worker
  <2>. QED  BY <1>1, <2>1, <2>2 DEF Stale, OwnProcesses
<1>7. CASE Unreadable(c) /\ Error(c) /\ UNCHANGED prior
  <2>1. Outcome(c, prior[c], "none", "running")  BY <1>1, <1>7, EndsHow
  <2>2. prior' = [prior EXCEPT ![c] = prior[c]]  BY <1>7 DEF Inv, TypeOK
  <2>3. OwnProcesses'  BY <1>6, <2>1
  <2>. QED  BY <1>1, <1>3, <1>5, <2>1, <2>2, <2>3, CoroutineStale
<1>8. CASE ~Unreadable(c) /\ prior' = [prior EXCEPT ![c] = ledger[c]]
  <2>1. CASE Error(c)
    <3>1. Outcome(c, ledger[c], "none", "top")  BY <1>1, <2>1, EndsHow
    <3>2. OwnProcesses'  BY <1>6, <3>1
    <3>. QED  BY <1>1, <1>3, <1>5, <1>8, <3>1, <3>2, CoroutineStale
  <2>2. CASE Complete(c, "review_complete")
    <3>1. Outcome(c, ledger[c], "review_complete", "top")  BY <1>1, <1>3, <2>2, EndsHow
    <3>2. OwnProcesses'  BY <1>6, <3>1
    <3>. QED  BY <1>1, <1>3, <1>5, <1>8, <3>1, <3>2, CoroutineStale
  <2>3. CASE pc' = [pc EXCEPT ![c] = "top"] /\ UNCHANGED <<status, stop, completed>>
    <3>1. Outcome(c, ledger[c], "none", "top")  BY <2>3 DEF Outcome
    <3>2. OwnProcesses'  BY <1>6, <3>1
    <3>. QED  BY <1>1, <1>3, <1>5, <1>8, <3>1, <3>2, CoroutineStale
  <2>. QED  BY <1>2, <1>8, <2>1, <2>2, <2>3
<1>. QED  BY <1>2, <1>7, <1>8

(* A new supervisor turns the processes of the last one into left-overs.   *)
LEMMA SupervisorStale ==
  ASSUME Inv, Stale, Start \/ Finish \/ SupervisorDies
  PROVE  Stale'
<1>0. run \in Nat /\ workers \subseteq Worker /\ pc \in [Candidates -> Places]
  BY SupervisorAssumption DEF Inv, TypeOK, Worker, Places
<1>1. CASE Start
  <2>1. /\ run' = run + 1 /\ workers' \subseteq workers /\ status # "running"
        /\ \A c \in Candidates : completed'[c] = "none"
    BY <1>1 DEF Start, Orphans
  <2>2. \A c \in Candidates : pc[c] = "done"  BY <2>1 DEF Stale, Behind
  <2>3. \A c \in Candidates :
          pc'[c] \notin Deciding /\ (pc'[c] # "done" => status' = "running")
    BY <1>1, <2>2 DEF Start, Deciding
  <2>4. \A w \in workers' : w.run < run'
    BY <1>0, <2>1 DEF Stale, OwnProcesses, Worker
  <2>5. \A w \in workers' : w.run <= run' /\ w.run # run'
    BY <1>0, <2>1, <2>4 DEF Worker
  <2>. QED  BY <2>1, <2>3, <2>5 DEF Stale, OtherOrLeftOver, Behind, OwnProcesses
<1>2. CASE Finish \/ SupervisorDies
  <2>1. /\ status' # "running" /\ UNCHANGED <<run, prior, ledger, workers, completed>>
        /\ \A c \in Candidates : pc'[c] = "done"
    BY <1>2 DEF Finish, SupervisorDies
  <2>2. Accepted' = Accepted /\ \A c \in Candidates : LeftOver(c)' = LeftOver(c)
    BY <2>1 DEF Accepted, LeftOver
  <2>. QED  BY <2>1, <2>2 DEF Stale, OtherOrLeftOver, Behind, OwnProcesses, Deciding
<1>. QED  BY <1>1, <1>2

(* A candidate is reported as covered by another one's acceptance only     *)
(* when there is another one, or when a process left over by a killed      *)
(* supervisor accepted the candidate itself behind the coroutine's back.   *)
THEOREM ReportsOfOthers == Spec => []OtherOrLeftOver
<1>1. Init => Stale
  BY DEF Init, Stale, OtherOrLeftOver, Behind, OwnProcesses, Deciding
<1>2. Inv /\ Stale /\ [Next]_vars => Stale'
  <2>. SUFFICES ASSUME Inv, Stale, [Next]_vars PROVE Stale'  OBVIOUS
  <2>1. CASE \E c \in Candidates : Step(c)
    BY <2>1, BeginStale, TopStale, DispatchStale, ReapStale DEF Step
  <2>2. CASE \E w \in workers : WorkerStep(w) \/ WorkerDies(w)  BY <2>2, WorkerStale
  <2>3. CASE UNCHANGED vars
    BY <2>3 DEF vars, Stale, OtherOrLeftOver, Behind, OwnProcesses, LeftOver, Accepted
  <2>. QED  BY <2>1, <2>2, <2>3, SupervisorStale DEF Next
<1>3. Stale => OtherOrLeftOver  BY DEF Stale
<1>. QED  BY <1>1, <1>2, <1>3, Invariant, PTL DEF Spec
=============================================================================
