-------------------------- MODULE ArpoGroup_proofs --------------------------
(***************************************************************************)
(* Theorems about ArpoGroup, for any number of groups and leaves, any      *)
(* turns and any number of initial roots.  Leaf(g, s) and Text(g, s) name  *)
(* the lineage and the tokens of a leaf wherever it is: waiting, running   *)
(* or finished.  Starting or finishing a leaf changes neither, so most of  *)
(* the invariant is about a forest that only grows: by a root or a fork at *)
(* its end, and by tokens at the running leaf.                             *)
(***************************************************************************)
EXTENDS ArpoGroup, SequenceTheorems, TLAPS

Open(g) == status[g] \in {"running", "returned", "done"}
Busy(g) == current[g] # Idle

(* Leaves start in the order they were handed out: those below First have. *)
First(g) == allocated[g] - Len(pending[g])
Item(g, s) == pending[g][s - First(g) + 1]
Handed(g) == 0..allocated[g] - 1

Leaf(g, s) ==
  IF s < First(g)
  THEN [parent |-> nodes[g][s].parent, root |-> nodes[g][s].root, length |-> nodes[g][s].shared]
  ELSE [parent |-> Item(g, s).parent, root |-> Item(g, s).data.root,
        length |-> Len(Item(g, s).data.response)]

Text(g, s) ==
  IF s >= First(g) THEN Item(g, s).data.response
  ELSE IF Busy(g) /\ s = current[g].slot THEN current[g].data.response
  ELSE outputs[g][s].response

Places(g) ==
  /\ Len(pending[g]) <= allocated[g]
  /\ \A i \in 1..Len(pending[g]) : pending[g][i].slot = First(g) + i - 1
  /\ Busy(g) => current[g].slot = First(g) - 1
  /\ \A s \in Slots : nodes[g][s] # Missing <=> s < First(g)
  /\ \A s \in Slots :
       outputs[g][s] # Missing <=> s < First(g) /\ (Busy(g) => s # current[g].slot)

(* The lineage: a root has its own tree and shares nothing, a fork is of a *)
(* leaf that has started, in the same tree, at a length its parent has.    *)
Rooted(g, s) == Leaf(g, s).root = s /\ Leaf(g, s).length = 0
Forked(g, s) ==
  LET p == Leaf(g, s).parent
      n == Leaf(g, s).length
  IN  /\ s >= InitialRollouts
      /\ p \in Handed(g) /\ p < First(g) /\ p < s /\ Leaf(g, s).root = Leaf(g, p).root
      /\ n >= 1 /\ n <= Len(Text(g, p)) /\ n <= Len(Text(g, s))
      /\ \A k \in 1..n : Text(g, s)[k] = Text(g, p)[k]
Tree(g) ==
  \A s \in Handed(g) : IF Leaf(g, s).parent = Root THEN Rooted(g, s) ELSE Forked(g, s)

Boundaries(g) ==
  \A s, t \in Handed(g) :
    Leaf(g, t).parent # Root /\ s # t =>
      /\ Leaf(g, s).parent = Leaf(g, t).parent => Leaf(g, s).length # Leaf(g, t).length
      /\ Leaf(g, t).parent = s => Leaf(g, s).length < Leaf(g, t).length

(* The first generation stamps the entropy of its tree.                    *)
Begun(response, initial) ==
  IF response = <<>> THEN initial = NoStamp
  ELSE initial = response[1] /\ initial # NoStamp

Waiting(g) ==
  \A i \in 1..Len(pending[g]) :
    LET data == pending[g][i].data IN Begun(data.response, data.initial) /\ data.turns < MaxTurns

(* The running leaf: past its own fork after tools, and beyond every fork  *)
(* taken of it.                                                            *)
Trajectory(g) ==
  Busy(g) =>
    LET run == current[g]
        n == Len(run.data.response)
        leaf == Leaf(g, run.slot)
    IN  /\ run.data.root = leaf.root /\ n >= leaf.length
        /\ run.afterTools => n > leaf.length
        /\ run.phase # "generating" => n >= 1
        /\ run.phase = "generating" => run.data.turns < MaxTurns
        /\ Begun(run.data.response, run.data.initial)
        /\ \A t \in Handed(g) : Leaf(g, t).parent = run.slot => Leaf(g, t).length < n

Entropy(g) ==
  \A s \in Slots : outputs[g][s] # Missing =>
    Begun(outputs[g][s].response, outputs[g][s].initial)

Emptied(g) ==
  /\ pending[g] = <<>> /\ current[g] = Idle
  /\ \A s \in Slots : outputs[g][s] = Missing /\ nodes[g][s] = Missing

Complete(g) ==
  status[g] \in {"returned", "done"} => \A s \in Slots : outputs[g][s] # Missing

Sessions(g) ==
  /\ active[g] \subseteq {g} \X Slots
  /\ \A s \in Slots :
       <<g, s>> \in sessions =>
         /\ <<g, s>> \in active[g] /\ status[g] = "running"
         /\ \/ Busy(g) /\ s = current[g].slot
            \/ s \in Handed(g) /\ s >= First(g) /\ Leaf(g, s).parent # Root
  /\ status[g] = "running" =>
       /\ Busy(g) => <<g, current[g].slot>> \in sessions
       /\ \A s \in Handed(g) : s >= First(g) /\ Leaf(g, s).parent # Root => <<g, s>> \in sessions

Forest(g) == Places(g) /\ Tree(g) /\ Boundaries(g) /\ Waiting(g) /\ Trajectory(g) /\ Entropy(g)

GroupInv(g) ==
  /\ Open(g) => Forest(g)
  /\ ~Open(g) => Emptied(g)
  /\ Complete(g) /\ Sessions(g)
  /\ allocated[g] >= InitialRollouts
  /\ status[g] \notin {"lost", "keyerror"}

Inv == TypeOK /\ \A g \in Groups : GroupInv(g)
-----------------------------------------------------------------------------
Runs == [slot: Slots, phase: Phases, afterTools: BOOLEAN, data: Data]
Items == [slot: Slots, parent: Slots \cup {Root}, data: Data]
Nodes == [kind: {"node"}, parent: Slots \cup {Root}, root: Slots, shared: Nat]
Outputs == [kind: {"output"}, response: Seq(Stamps), initial: Stamps, logprobs: BOOLEAN]

(* The values that stand for "none" are no records of the others' kinds.   *)
LEMMA NotNone ==
  /\ \A r \in Runs : r # Idle
  /\ \A n \in Nodes : n # Missing
  /\ \A o \in Outputs : o # Missing
  /\ Idle \notin Runs /\ Missing \notin Nodes /\ Missing \notin Outputs
<1>1. \A r \in Runs : r.phase # "idle"  BY DEF Runs, Phases
<1>2. \A n \in Nodes : n.kind # "missing"  BY DEF Nodes
<1>3. \A o \in Outputs : o.kind # "missing"  BY DEF Outputs
<1>4. Idle.phase = "idle" /\ Missing.kind = "missing"  BY DEF Idle, Missing
<1> QED  BY <1>1, <1>2, <1>3, <1>4

LEMMA Ranges ==
  ASSUME TypeOK, NEW g \in Groups
  PROVE  /\ pending[g] \in Seq(Items) /\ Len(pending[g]) \in Nat
         /\ allocated[g] \in 0..Size /\ allocated[g] \in Nat /\ First(g) \in Int
         /\ Busy(g) => current[g] \in Runs
         /\ ~Busy(g) => current[g].phase = "idle"
         /\ \A s \in Slots : outputs[g][s] # Missing => outputs[g][s] \in Outputs
         /\ \A s \in Slots : nodes[g][s] # Missing => nodes[g][s] \in Nodes
<1>1. pending[g] \in Seq(Items)  BY DEF TypeOK, Items
<1>2. Len(pending[g]) \in Nat  BY <1>1
<1>3. allocated[g] \in 0..Size /\ allocated[g] \in Nat  BY GroupAssumption DEF TypeOK
<1>4. First(g) \in Int  BY <1>2, <1>3 DEF First
<1>5. Busy(g) => current[g] \in Runs  BY DEF TypeOK, Busy, Runs
<1>6. ~Busy(g) => current[g].phase = "idle"  BY DEF Busy, Idle
<1>7. \A s \in Slots : outputs[g][s] # Missing => outputs[g][s] \in Outputs
  BY DEF TypeOK, Outputs
<1>8. \A s \in Slots : nodes[g][s] # Missing => nodes[g][s] \in Nodes  BY DEF TypeOK, Nodes
<1> QED  BY <1>1, <1>2, <1>3, <1>4, <1>5, <1>6, <1>7, <1>8

(* What a leaf is, wherever it is.                                         *)
LEMMA LeafRange ==
  ASSUME TypeOK, NEW g \in Groups, Places(g), NEW s \in Handed(g)
  PROVE  /\ s \in Slots /\ s \in Nat
         /\ Leaf(g, s).parent \in Slots \cup {Root} /\ Leaf(g, s).root \in Slots
         /\ Leaf(g, s).length \in Nat
         /\ Text(g, s) \in Seq(Stamps) /\ Len(Text(g, s)) \in Nat
         /\ s >= First(g) => Item(g, s) \in Items /\ Item(g, s).slot = s
<1>1. s \in Slots /\ s \in Nat /\ s < allocated[g]
  BY Ranges, GroupAssumption DEF Handed, Slots
<1>2. CASE s >= First(g)
  <2>1. s - First(g) + 1 \in 1..Len(pending[g])  BY <1>1, <1>2, Ranges DEF First
  <2>2. Item(g, s) \in Items  BY <2>1, Ranges DEF Item
  <2>3. Item(g, s).slot = s  BY <2>1, <1>1, Ranges DEF Item, Places
  <2>4. Item(g, s).data \in Data /\ Item(g, s).parent \in Slots \cup {Root}
    BY <2>2 DEF Items
  <2>5. Item(g, s).data.root \in Slots /\ Item(g, s).data.response \in Seq(Stamps)
    BY <2>4 DEF Data
  <2>6. ~(s < First(g))  BY <1>1, <1>2, Ranges
  <2>7. Len(Item(g, s).data.response) \in Nat  BY <2>5
  <2> QED  BY <1>1, <1>2, <2>2, <2>3, <2>4, <2>5, <2>6, <2>7 DEF Leaf, Text
<1>3. CASE s < First(g)
  <2>1. nodes[g][s] \in Nodes  BY <1>1, <1>3, Ranges DEF Places
  <2>2. Text(g, s) \in Seq(Stamps)
    <3>1. ~(s >= First(g))  BY <1>1, <1>3, Ranges
    <3>2. CASE Busy(g) /\ s = current[g].slot
      <4>1. current[g].data.response \in Seq(Stamps)  BY <3>2, Ranges DEF Runs, Data
      <4> QED  BY <3>1, <3>2, <4>1 DEF Text
    <3>3. CASE ~(Busy(g) /\ s = current[g].slot)
      <4>1. outputs[g][s] \in Outputs  BY <1>1, <1>3, <3>3, Ranges DEF Places
      <4>2. outputs[g][s].response \in Seq(Stamps)  BY <4>1 DEF Outputs
      <4> QED  BY <3>1, <3>3, <4>2 DEF Text
    <3> QED  BY <3>2, <3>3
  <2>3. Len(Text(g, s)) \in Nat  BY <2>2
  <2>4. /\ nodes[g][s].parent \in Slots \cup {Root} /\ nodes[g][s].root \in Slots
        /\ nodes[g][s].shared \in Nat
    BY <2>1 DEF Nodes
  <2>5. ~(s >= First(g))  BY <1>1, <1>3, Ranges
  <2> QED  BY <1>1, <1>3, <2>2, <2>3, <2>4, <2>5 DEF Leaf
<1> QED  BY <1>1, <1>2, <1>3, Ranges
-----------------------------------------------------------------------------
(* A group whose own variables stay as they are keeps its invariant.       *)
Same(g) ==
  /\ pending'[g] = pending[g] /\ allocated'[g] = allocated[g] /\ current'[g] = current[g]
  /\ outputs'[g] = outputs[g] /\ nodes'[g] = nodes[g] /\ active'[g] = active[g]
  /\ status'[g] = status[g]
  /\ \A s \in Slots : <<g, s>> \in sessions' <=> <<g, s>> \in sessions

LEMMA SameForest ==
  ASSUME NEW g \in Groups, pending'[g] = pending[g], allocated'[g] = allocated[g],
         current'[g] = current[g], outputs'[g] = outputs[g], nodes'[g] = nodes[g]
  PROVE  /\ First(g)' = First(g) /\ Handed(g)' = Handed(g) /\ (Busy(g)' <=> Busy(g))
         /\ \A s : Leaf(g, s)' = Leaf(g, s) /\ Text(g, s)' = Text(g, s)
         /\ Forest(g)' <=> Forest(g)
         /\ Emptied(g)' <=> Emptied(g)
<1>1. First(g)' = First(g) /\ Handed(g)' = Handed(g) /\ (Busy(g)' <=> Busy(g))
  BY DEF First, Handed, Busy
<1>2. \A s : Item(g, s)' = Item(g, s)  BY <1>1 DEF Item
<1>3. \A s : Leaf(g, s)' = Leaf(g, s)  BY <1>1, <1>2 DEF Leaf
<1>4. \A s : Text(g, s)' = Text(g, s)  BY <1>1, <1>2 DEF Text
<1>5. Places(g)' <=> Places(g)  BY <1>1 DEF Places
<1>6. Tree(g)' <=> Tree(g)  BY <1>1, <1>3, <1>4 DEF Tree, Rooted, Forked
<1>7. Boundaries(g)' <=> Boundaries(g)  BY <1>1, <1>3 DEF Boundaries
<1>8. Waiting(g)' <=> Waiting(g)  BY DEF Waiting, Begun
<1>9. Trajectory(g)' <=> Trajectory(g)  BY <1>1, <1>3 DEF Trajectory, Begun
<1>10. Entropy(g)' <=> Entropy(g)  BY DEF Entropy, Begun
<1>11. Emptied(g)' <=> Emptied(g)  BY DEF Emptied
<1> QED
  BY <1>1, <1>3, <1>4, <1>5, <1>6, <1>7, <1>8, <1>9, <1>10, <1>11 DEF Forest

LEMMA Untouched ==
  ASSUME TypeOK, NEW g \in Groups, GroupInv(g), Same(g)
  PROVE  GroupInv(g)'
<1>1. Open(g)' <=> Open(g)  BY DEF Open, Same
<1>2. /\ First(g)' = First(g) /\ Handed(g)' = Handed(g) /\ (Busy(g)' <=> Busy(g))
      /\ \A s : Leaf(g, s)' = Leaf(g, s)
      /\ Forest(g)' <=> Forest(g)
      /\ Emptied(g)' <=> Emptied(g)
  BY SameForest DEF Same
<1>3. Complete(g)'  BY DEF Complete, Same, GroupInv
<1>4. Sessions(g)'
  <2>1. Sessions(g)  BY DEF GroupInv
  <2>2. active'[g] \subseteq {g} \X Slots  BY <2>1 DEF Sessions, Same
  <2>3. ASSUME NEW s \in Slots, <<g, s>> \in sessions'
        PROVE  /\ <<g, s>> \in active'[g] /\ status'[g] = "running"
               /\ \/ Busy(g)' /\ s = current'[g].slot
                  \/ s \in Handed(g)' /\ s >= First(g)' /\ Leaf(g, s)'.parent # Root
    <3>1. <<g, s>> \in sessions  BY <2>3 DEF Same
    <3> QED  BY <2>1, <3>1, <1>2 DEF Sessions, Same
  <2>4. ASSUME status'[g] = "running", Busy(g)'
        PROVE  <<g, current'[g].slot>> \in sessions'
    <3>1. <<g, current[g].slot>> \in sessions  BY <2>1, <2>4, <1>2 DEF Sessions, Same
    <3>2. current[g].slot \in Slots  BY <2>4, <1>2, Ranges DEF Runs
    <3> QED  BY <3>1, <3>2 DEF Same
  <2>5. ASSUME status'[g] = "running", NEW s \in Handed(g)', s >= First(g)', Leaf(g, s)'.parent # Root
        PROVE  <<g, s>> \in sessions'
    <3>0. s \in Handed(g) /\ s >= First(g) /\ Leaf(g, s).parent # Root /\ status[g] = "running"
      BY <2>5, <1>2 DEF Same
    <3>1. <<g, s>> \in sessions  BY <2>1, <3>0 DEF Sessions
    <3>2. s \in Slots  BY <3>0, Ranges, GroupAssumption DEF Handed, Slots
    <3> QED  BY <3>1, <3>2 DEF Same
  <2> QED  BY <2>2, <2>3, <2>4, <2>5 DEF Sessions
<1> QED  BY <1>1, <1>2, <1>3, <1>4 DEF GroupInv, Same

(* Abandon, whatever the reason: the group is emptied, its sessions too.   *)
LEMMA Abandoned ==
  ASSUME Inv, NEW g \in Groups, NEW how \in {"raised", "cancelled"}, Abandon(g, how)
  PROVE  Inv' /\ \A h \in Groups : h # g => Same(h)
<1>1. TypeOK'
  <2>1. pending' \in [Groups -> Seq([slot: Slots, parent: Slots \cup {Root}, data: Data])]
    <3>1. <<>> \in Seq([slot: Slots, parent: Slots \cup {Root}, data: Data])  OBVIOUS
    <3> QED  BY <3>1 DEF Inv, TypeOK, Abandon
  <2>2. /\ allocated' \in [Groups -> 0..Size] /\ active' \in [Groups -> SUBSET (Groups \X Slots)]
        /\ sessions' \subseteq Groups \X Slots /\ worker' \in Workers
    BY DEF Inv, TypeOK, Abandon, ReleaseAll
  <2>3. status' \in [Groups -> Statuses]  BY DEF Inv, TypeOK, Abandon, Statuses, Failed
  <2>4. current' \in [Groups -> {Idle} \cup
          [slot: Slots, phase: Phases, afterTools: BOOLEAN, data: Data]]
    BY DEF Inv, TypeOK, Abandon
  <2>5. [s \in Slots |-> Missing] \in [Slots -> {Missing} \cup Outputs]
        /\ [s \in Slots |-> Missing] \in [Slots -> {Missing} \cup Nodes]
    OBVIOUS
  <2>6. /\ outputs' \in [Groups -> [Slots -> {Missing} \cup Outputs]]
        /\ nodes' \in [Groups -> [Slots -> {Missing} \cup Nodes]]
    BY <2>5 DEF Inv, TypeOK, Abandon, Outputs, Nodes
  <2> QED  BY <2>1, <2>2, <2>3, <2>4, <2>6 DEF TypeOK, Outputs, Nodes
<1>2. ASSUME NEW h \in Groups, h # g
      PROVE  Same(h)
  <2>1. active[g] \subseteq {g} \X Slots  BY DEF Inv, GroupInv, Sessions
  <2>2. \A s \in Slots : <<h, s>> \notin active[g]  BY <1>2, <2>1
  <2> QED  BY <1>2, <2>2 DEF Same, Abandon, ReleaseAll, Inv, TypeOK
<1>3. GroupInv(g)'
  <2>1. status'[g] = how /\ active'[g] = active[g] /\ allocated'[g] = allocated[g]
    BY DEF Abandon, Inv, TypeOK
  <2>2. Emptied(g)'  BY DEF Emptied, Abandon, Inv, TypeOK
  <2>3. \A s \in Slots : <<g, s>> \notin sessions'
    BY DEF Abandon, ReleaseAll, Inv, GroupInv, Sessions
  <2>4. Sessions(g)'  BY <2>1, <2>3 DEF Sessions, Inv, GroupInv
  <2> QED  BY <2>1, <2>2, <2>4 DEF GroupInv, Open, Complete, Inv
<1> QED  BY <1>1, <1>2, <1>3, Untouched DEF Inv
-----------------------------------------------------------------------------
(* How a step of a group changes its forest: leaves keep their lineage,    *)
(* texts only get longer, and at most one leaf is added, a root or a fork  *)
(* of a text that is beyond every earlier fork of it.                      *)
Extends(a, b) == Len(a) <= Len(b) /\ \A k \in 1..Len(a) : b[k] = a[k]

NewRoot(g, n) == Leaf(g, n)' = [parent |-> Root, root |-> n, length |-> 0]
NewFork(g, p, n) ==
  /\ p < First(g) /\ n >= InitialRollouts
  /\ Leaf(g, n)' = [parent |-> p, root |-> Leaf(g, p).root, length |-> Len(Text(g, p))]
  /\ Text(g, n)' = Text(g, p)
  /\ Len(Text(g, p)) > Leaf(g, p).length
  /\ \A t \in Handed(g) : Leaf(g, t).parent = p => Leaf(g, t).length < Len(Text(g, p))

Grows(g) ==
  /\ First(g)' >= First(g)
  /\ \A s \in Handed(g) : Leaf(g, s)' = Leaf(g, s) /\ Extends(Text(g, s), Text(g, s)')
  /\ \/ allocated'[g] = allocated[g]
     \/ \E n \in Nat : /\ n = allocated[g] /\ allocated'[g] = n + 1
                       /\ NewRoot(g, n) \/ \E p \in Handed(g) : NewFork(g, p, n)

LEMMA TreeGrows ==
  ASSUME TypeOK, TypeOK', NEW g \in Groups, Places(g), Tree(g), Boundaries(g), Grows(g),
         NEW n \in Nat, n = allocated[g]
  PROVE  Tree(g)' /\ Boundaries(g)'
<1>1. /\ First(g) \in Int /\ Len(pending[g]) \in Nat /\ First(g) <= n
      /\ First(g)' \in Int
  <2>1. First(g) \in Int /\ Len(pending[g]) \in Nat  BY Ranges
  <2>2. allocated'[g] \in 0..Size /\ Len(pending'[g]) \in Nat  BY DEF TypeOK
  <2> QED  BY <2>1, <2>2, GroupAssumption, SMTT(30) DEF First
<1>2. Handed(g) = 0..n - 1  BY DEF Handed
<1>3. \/ Handed(g)' = Handed(g)
      \/ Handed(g)' = Handed(g) \cup {n} /\ (NewRoot(g, n) \/ \E p \in Handed(g) : NewFork(g, p, n))
  <2>1. CASE allocated'[g] = n  BY <2>1, <1>2 DEF Handed
  <2>2. CASE allocated'[g] = n + 1 /\ (NewRoot(g, n) \/ \E p \in Handed(g) : NewFork(g, p, n))
    <3>1. Handed(g)' = 0..(n + 1) - 1  BY <2>2 DEF Handed
    <3>2. 0..(n + 1) - 1 = (0..n - 1) \cup {n}  BY <1>1
    <3> QED  BY <2>2, <3>1, <3>2, <1>2
  <2> QED  BY <2>1, <2>2 DEF Grows
<1>5. \A s \in Handed(g) :
        /\ s \in Handed(g)' /\ s \in Nat /\ s < n /\ s \in Slots
        /\ Leaf(g, s)' = Leaf(g, s) /\ Extends(Text(g, s), Text(g, s)')
        /\ Leaf(g, s).length \in Nat /\ Len(Text(g, s)) \in Nat /\ Len(Text(g, s)') \in Nat
        /\ Leaf(g, s).parent \in Slots \cup {Root}
  <2> SUFFICES ASSUME NEW s \in Handed(g)
               PROVE  /\ s \in Handed(g)' /\ s \in Nat /\ s < n /\ s \in Slots
                      /\ Leaf(g, s)' = Leaf(g, s) /\ Extends(Text(g, s), Text(g, s)')
                      /\ Leaf(g, s).length \in Nat /\ Len(Text(g, s)) \in Nat
                      /\ Len(Text(g, s)') \in Nat
                      /\ Leaf(g, s).parent \in Slots \cup {Root}
    OBVIOUS
  <2>1. s \in Handed(g)' /\ s \in Nat /\ s < n  BY <1>1, <1>2, <1>3
  <2>2. Leaf(g, s)' = Leaf(g, s) /\ Extends(Text(g, s), Text(g, s)')  BY DEF Grows
  <2>3. Leaf(g, s).length \in Nat /\ Len(Text(g, s)) \in Nat /\ s \in Slots
        /\ Leaf(g, s).parent \in Slots \cup {Root}
    BY LeafRange
  <2>4. Len(Text(g, s)') \in Nat  BY <2>2, <2>3 DEF Extends
  <2> QED  BY <2>1, <2>2, <2>3, <2>4
(* The leaves there were.                                                  *)
<1>6. ASSUME NEW s \in Handed(g)
      PROVE  (IF Leaf(g, s).parent = Root THEN Rooted(g, s) ELSE Forked(g, s))'
  <2>1. CASE Leaf(g, s).parent = Root
    <3>1. Rooted(g, s)  BY <2>1 DEF Tree
    <3>2. Leaf(g, s)'.parent = Root /\ Rooted(g, s)'  BY <1>5, <2>1, <3>1 DEF Rooted
    <3> QED  BY <3>2
  <2>2. CASE Leaf(g, s).parent # Root
    <3>0. PICK p, k : p = Leaf(g, s).parent /\ k = Leaf(g, s).length  OBVIOUS
    <3>1. Forked(g, s)  BY <2>2 DEF Tree
    <3>2. p \in Handed(g) /\ p < First(g) /\ p < s /\ s >= InitialRollouts
          /\ Leaf(g, s).root = Leaf(g, p).root
          /\ k >= 1 /\ k <= Len(Text(g, p)) /\ k <= Len(Text(g, s))
          /\ \A i \in 1..k : Text(g, s)[i] = Text(g, p)[i]
      BY <3>0, <3>1 DEF Forked
    <3>3. Leaf(g, s)' = Leaf(g, s) /\ Leaf(g, p)' = Leaf(g, p) /\ p \in Handed(g)'
      BY <1>5, <3>2
    <3>4. p \in Nat /\ p < First(g)' /\ k \in Nat  BY <3>0, <1>1, <1>5, <3>2 DEF Grows
    <3>5. k <= Len(Text(g, p)') /\ k <= Len(Text(g, s)')
      BY <1>5, <3>2, <3>4 DEF Extends
    <3>6. ASSUME NEW i \in 1..k
          PROVE  Text(g, s)'[i] = Text(g, p)'[i]
      <4>1. i \in 1..Len(Text(g, s)) /\ i \in 1..Len(Text(g, p))  BY <1>5, <3>2, <3>4
      <4>2. Extends(Text(g, s), Text(g, s)') /\ Extends(Text(g, p), Text(g, p)')  BY <1>5, <3>2
      <4>3. Text(g, s)'[i] = Text(g, s)[i]  BY <4>1, <4>2 DEF Extends
      <4>4. Text(g, p)'[i] = Text(g, p)[i]  BY <4>1, <4>2 DEF Extends
      <4> QED  BY <3>2, <4>3, <4>4
    <3>7. Forked(g, s)'  BY <3>0, <3>2, <3>3, <3>4, <3>5, <3>6 DEF Forked
    <3> QED  BY <2>2, <3>3, <3>7
  <2> QED  BY <2>1, <2>2
<1>7. ASSUME NewRoot(g, n)
      PROVE  (IF Leaf(g, n).parent = Root THEN Rooted(g, n) ELSE Forked(g, n))'
  <2>1. Leaf(g, n)'.parent = Root /\ Leaf(g, n)'.root = n /\ Leaf(g, n)'.length = 0
    BY <1>7 DEF NewRoot
  <2> QED  BY <2>1 DEF Rooted
<1>8. ASSUME NEW p \in Handed(g), NewFork(g, p, n)
      PROVE  (IF Leaf(g, n).parent = Root THEN Rooted(g, n) ELSE Forked(g, n))'
  <2>1. p \in Nat /\ p < n /\ p \in Handed(g)'  BY <1>5
  <2>2. /\ Leaf(g, n)'.parent = p /\ Leaf(g, n)'.root = Leaf(g, p)'.root
        /\ Leaf(g, n)'.length = Len(Text(g, p)) /\ Text(g, n)' = Text(g, p)
        /\ n >= InitialRollouts /\ p < First(g)'
    BY <1>1, <1>5, <1>8, <2>1 DEF NewFork, Grows
  <2>3. Len(Text(g, p)) >= 1  BY <1>5, <1>8 DEF NewFork
  <2>4. /\ Len(Text(g, p)) <= Len(Text(g, p)')
        /\ \A k \in 1..Len(Text(g, p)) : Text(g, n)'[k] = Text(g, p)'[k]
    BY <1>5, <2>2 DEF Extends
  <2>5. Forked(g, n)'
    BY <1>5, <2>1, <2>2, <2>3, <2>4 DEF Forked
  <2>6. p # Root  BY <2>1 DEF Root
  <2> QED  BY <2>2, <2>5, <2>6
<1>9. Tree(g)'
  <2>1. CASE Handed(g)' = Handed(g)  BY <2>1, <1>6 DEF Tree
  <2>2. CASE Handed(g)' = Handed(g) \cup {n} /\ NewRoot(g, n)  BY <2>2, <1>6, <1>7 DEF Tree
  <2>3. CASE Handed(g)' = Handed(g) \cup {n} /\ \E p \in Handed(g) : NewFork(g, p, n)
    BY <2>3, <1>6, <1>8 DEF Tree
  <2> QED  BY <1>3, <2>1, <2>2, <2>3
(* A new fork is longer than its parent and than its parent's other forks. *)
<1>10. Boundaries(g)'
  <2> SUFFICES ASSUME NEW s \in Handed(g)', NEW t \in Handed(g)',
                      Leaf(g, t)'.parent # Root, s # t
               PROVE  /\ Leaf(g, s)'.parent = Leaf(g, t)'.parent =>
                           Leaf(g, s)'.length # Leaf(g, t)'.length
                      /\ Leaf(g, t)'.parent = s => Leaf(g, s)'.length < Leaf(g, t)'.length
    BY DEF Boundaries
  <2>0. \A r \in Handed(g) : Leaf(g, r).parent # Root =>
          Leaf(g, r).parent \in Handed(g) /\ Leaf(g, r).parent < n
    BY <1>5 DEF Tree, Forked
  <2>1. CASE s \in Handed(g) /\ t \in Handed(g)
    <3>1. Leaf(g, s)' = Leaf(g, s) /\ Leaf(g, t)' = Leaf(g, t)  BY <2>1, <1>5
    <3> QED  BY <2>1, <3>1 DEF Boundaries
  <2>2. CASE s \in Handed(g) /\ t = n /\ n \notin Handed(g)
    <3>1. PICK p \in Handed(g) : NewFork(g, p, n)
      <4>1. ~NewRoot(g, n)  BY <2>2 DEF NewRoot
      <4>2. Handed(g)' # Handed(g)  BY <2>2
      <4> QED  BY <1>3, <4>1, <4>2
    <3>2. Leaf(g, t)'.parent = p /\ Leaf(g, t)'.length = Len(Text(g, p))
          /\ Leaf(g, s)' = Leaf(g, s)
      BY <2>2, <3>1, <1>5 DEF NewFork
    <3>3. Leaf(g, p).length < Len(Text(g, p))  BY <3>1, <1>5 DEF NewFork
    <3>4. Leaf(g, s).parent = p => Leaf(g, s).length < Len(Text(g, p))
      BY <3>1, <2>2 DEF NewFork
    <3>5. Leaf(g, s).length \in Nat /\ Len(Text(g, p)) \in Nat  BY <2>2, <1>5
    <3> QED  BY <3>2, <3>3, <3>4, <3>5
  <2>3. CASE s = n /\ n \notin Handed(g) /\ t \in Handed(g)
    <3>1. Leaf(g, t)' = Leaf(g, t) /\ Leaf(g, t).parent \in Handed(g)
          /\ Leaf(g, t).length \in Nat
      BY <2>3, <2>0, <1>5
    <3>2. Leaf(g, t)'.parent # s  BY <2>3, <3>1
    <3>3. CASE NewRoot(g, n)
      <4>1. Leaf(g, s)'.parent = Root  BY <2>3, <3>3 DEF NewRoot
      <4> QED  BY <3>2, <4>1
    <3>4. ASSUME NEW p \in Handed(g), NewFork(g, p, n)
          PROVE  Leaf(g, s)'.parent = Leaf(g, t)'.parent =>
                   Leaf(g, s)'.length # Leaf(g, t)'.length
      <4>1. Leaf(g, s)'.parent = p /\ Leaf(g, s)'.length = Len(Text(g, p))
        BY <2>3, <3>4 DEF NewFork
      <4>2. Leaf(g, t).parent = p => Leaf(g, t).length < Len(Text(g, p))
        BY <3>4, <2>3 DEF NewFork
      <4>3. Len(Text(g, p)) \in Nat  BY <3>4, <1>5
      <4> QED  BY <3>1, <4>1, <4>2, <4>3
    <3>5. NewRoot(g, n) \/ \E p \in Handed(g) : NewFork(g, p, n)
      <4>2. Handed(g)' # Handed(g)  BY <2>3
      <4> QED  BY <1>3, <4>2
    <3> QED  BY <3>2, <3>3, <3>4, <3>5
  <2>4. (s \in Handed(g) \/ s = n) /\ (t \in Handed(g) \/ t = n)  BY <1>3
  <2> QED  BY <2>1, <2>2, <2>3, <2>4
<1> QED  BY <1>9, <1>10
-----------------------------------------------------------------------------
(* What a step of group g is to its leaves, besides keeping the others'    *)
(* groups: one starts, the running one forks or goes on, or it finishes.   *)
Alone(g) == \A h \in Groups : h # g => Same(h)
Steady(g) == status[g] = "running" /\ status'[g] = status[g] /\ Grows(g)

Starting(g) ==
  /\ Steady(g) /\ ~Busy(g) /\ Busy(g)'
  /\ \E f \in Nat :
       /\ f = First(g) /\ First(g)' = f + 1
       /\ \/ f < allocated[g] /\ allocated'[g] = allocated[g]
          \/ f = allocated[g] /\ f < Size /\ allocated'[g] = f + 1 /\ Leaf(g, f)'.parent = Root
Going(g) ==
  /\ Steady(g) /\ Busy(g) /\ Busy(g)' /\ First(g)' = First(g)
  /\ \/ allocated'[g] = allocated[g]
     \/ \E n \in Slots, r \in Slots :
          /\ r = First(g) - 1 /\ n = allocated[g] /\ allocated'[g] = n + 1
          /\ Leaf(g, n)'.parent = r
Finishing(g) ==
  /\ Steady(g) /\ Busy(g) /\ ~Busy(g)' /\ First(g)' = First(g) /\ allocated'[g] = allocated[g]

LEMMA Elsewhere ==
  ASSUME Inv, NEW g \in Groups, TypeOK', GroupInv(g)', \A h \in Groups : h # g => Same(h)
  PROVE  Inv'
BY Untouched DEF Inv

(* A leaf starts: the next in line, whether it was waiting or is a root    *)
(* handed out now.                                                         *)
Starts(g, item, f) ==
  /\ f \in Nat /\ Busy(g)' /\ ~Busy(g)
  /\ current'[g].slot = f /\ current'[g].phase = "generating"
  /\ current'[g].afterTools = FALSE /\ current'[g].data = item.data
  /\ nodes'[g][f] # Missing /\ nodes'[g][f].parent = item.parent
  /\ nodes'[g][f].root = item.data.root
  /\ nodes'[g][f].shared = Len(item.data.response)
  /\ \A s \in Slots : s # f => nodes'[g][s] = nodes[g][s]
  /\ active'[g] = active[g] \cup {<<g, f>>} /\ sessions' = sessions \cup {<<g, f>>}

LaunchTypes ==
  /\ current' \in [Groups -> {Idle} \cup
       [slot: Slots, phase: Phases, afterTools: BOOLEAN, data: Data]]
  /\ nodes' \in [Groups -> [Slots -> {Missing} \cup Nodes]]
  /\ active' \in [Groups -> SUBSET (Groups \X Slots)] /\ sessions' \subseteq Groups \X Slots

LEMMA Launched ==
  ASSUME Inv, NEW g \in Groups, current[g] = Idle,
         NEW item \in Items, Launch(g, item)
  PROVE  /\ LaunchTypes /\ Starts(g, item, item.slot)
         /\ \A h \in Groups : h # g =>
              /\ current'[h] = current[h] /\ nodes'[h] = nodes[h] /\ active'[h] = active[h]
              /\ \A s \in Slots : <<h, s>> \in sessions' <=> <<h, s>> \in sessions
<1>0. PICK f : f = item.slot  OBVIOUS
<1>1. TypeOK /\ f \in Slots /\ item.data \in Data /\ item.parent \in Slots \cup {Root}
      /\ item.data.root \in Slots /\ Len(item.data.response) \in Nat
  BY <1>0 DEF Inv, Items, Data
<1>2. f \in Nat  BY <1>1 DEF Slots
<1>3. current'[g] = [slot |-> f, phase |-> "generating", afterTools |-> FALSE, data |-> item.data]
  BY <1>0, <1>1 DEF Launch, TypeOK
<1>4. current'[g] \in Runs  BY <1>1, <1>3 DEF Runs, Phases
<1>5. Busy(g)' /\ ~Busy(g)  BY <1>4, NotNone DEF Busy
<1>6. current' \in [Groups -> {Idle} \cup
         [slot: Slots, phase: Phases, afterTools: BOOLEAN, data: Data]]
  BY <1>1, <1>3, <1>4 DEF Launch, TypeOK, Runs
<1>7. PICK node \in Nodes :
        node = [kind |-> "node", parent |-> item.parent, root |-> item.data.root,
                shared |-> Len(item.data.response)]
  BY <1>1 DEF Nodes
<1>8. nodes' = [nodes EXCEPT ![g][f] = node]  BY <1>0, <1>7 DEF Launch
<1>9. nodes'[g] = [nodes[g] EXCEPT ![f] = node]  BY <1>1, <1>8 DEF TypeOK
<1>10. nodes' \in [Groups -> [Slots -> {Missing} \cup Nodes]]
  <2>1. nodes \in [Groups -> [Slots -> {Missing} \cup Nodes]]  BY <1>1 DEF TypeOK, Nodes
  <2> QED  BY <1>1, <1>7, <1>8, <2>1
<1>11. active' \in [Groups -> SUBSET (Groups \X Slots)] /\ sessions' \subseteq Groups \X Slots
  BY <1>0, <1>1 DEF Launch, TypeOK
<1>12. active'[g] = active[g] \cup {<<g, f>>} /\ sessions' = sessions \cup {<<g, f>>}
  BY <1>0, <1>1 DEF Launch, TypeOK
<1>13. \A h \in Groups : h # g =>
         /\ current'[h] = current[h] /\ nodes'[h] = nodes[h] /\ active'[h] = active[h]
         /\ \A s \in Slots : <<h, s>> \in sessions' <=> <<h, s>> \in sessions
  BY <1>1, <1>12 DEF Launch, TypeOK
<1>14. /\ current'[g].slot = f /\ current'[g].phase = "generating"
       /\ current'[g].afterTools = FALSE /\ current'[g].data = item.data
  BY <1>3
<1>15. nodes[g] \in [Slots -> {Missing} \cup Nodes]  BY <1>1 DEF TypeOK, Nodes
<1>16. nodes'[g][f] = node /\ \A s \in Slots : s # f => nodes'[g][s] = nodes[g][s]
  BY <1>1, <1>9, <1>15
<1>17. /\ nodes'[g][f] # Missing /\ nodes'[g][f].parent = item.parent
       /\ nodes'[g][f].root = item.data.root
       /\ nodes'[g][f].shared = Len(item.data.response)
  BY <1>7, <1>16, NotNone
<1>18. Starts(g, item, f)  BY <1>2, <1>5, <1>12, <1>14, <1>16, <1>17 DEF Starts
<1>19. LaunchTypes  BY <1>6, <1>10, <1>11 DEF LaunchTypes
<1> QED  BY <1>0, <1>13, <1>18, <1>19

LEMMA Started ==
  ASSUME Inv, TypeOK', NEW g \in Groups, Open(g), status[g] = "running", current[g] = Idle,
         NEW item \in Items, NEW f, f = First(g), item.slot = f, Starts(g, item, f),
         First(g)' = f + 1, outputs' = outputs, status' = status,
         Begun(item.data.response, item.data.initial), item.data.turns < MaxTurns,
         Len(pending'[g]) <= allocated'[g], Waiting(g)',
         \A i \in 1..Len(pending'[g]) : pending'[g][i].slot = f + i,
         \A s \in Handed(g) : s > f => Item(g, s)' = Item(g, s),
         \/ f \in Handed(g) /\ item = Item(g, f) /\ allocated'[g] = allocated[g]
         \/ f = allocated[g] /\ item = Queue(f, Root, Fresh(f)) /\ allocated'[g] = f + 1
  PROVE  GroupInv(g)' /\ Grows(g) /\ Leaf(g, f)'.parent = item.parent
<1>0. /\ TypeOK /\ f \in Nat /\ Busy(g)' /\ ~Busy(g)
      /\ current'[g].slot = f /\ current'[g].phase = "generating"
      /\ current'[g].afterTools = FALSE /\ current'[g].data = item.data
      /\ nodes'[g][f] # Missing /\ nodes'[g][f].parent = item.parent
      /\ nodes'[g][f].root = item.data.root
      /\ nodes'[g][f].shared = Len(item.data.response)
      /\ \A s \in Slots : s # f => nodes'[g][s] = nodes[g][s]
      /\ active'[g] = active[g] \cup {<<g, f>>} /\ sessions' = sessions \cup {<<g, f>>}
  BY DEF Inv, Starts
<1>1. /\ Places(g) /\ Tree(g) /\ Boundaries(g) /\ Entropy(g) /\ Sessions(g)
      /\ allocated[g] >= InitialRollouts /\ allocated[g] \in Nat /\ f <= allocated[g]
      /\ f \in Slots
  <2>1. GroupInv(g)  BY DEF Inv
  <2>2. /\ Places(g) /\ Tree(g) /\ Boundaries(g) /\ Entropy(g) /\ Sessions(g)
        /\ allocated[g] >= InitialRollouts
    BY <2>1 DEF GroupInv, Forest
  <2>3. allocated[g] \in Nat /\ Len(pending[g]) \in Nat  BY <1>0, Ranges
  <2>4. f <= allocated[g]  BY <2>3 DEF First
  <2>5. f \in Slots  BY DEF Items
  <2> QED  BY <2>2, <2>3, <2>4, <2>5
<1>3. /\ Leaf(g, f)' = [parent |-> item.parent, root |-> item.data.root,
                        length |-> Len(item.data.response)]
      /\ Text(g, f)' = item.data.response
  <2>1. f < First(g)' /\ ~(f >= First(g)')  BY <1>0
  <2>2. Leaf(g, f)' = [parent |-> item.parent, root |-> item.data.root,
                       length |-> Len(item.data.response)]
    BY <1>0, <2>1 DEF Leaf
  <2>3. Text(g, f)' = item.data.response  BY <1>0, <2>1 DEF Text
  <2> QED  BY <2>2, <2>3
<1>4. ASSUME NEW s \in Handed(g)
      PROVE  s \in Slots /\ s \in Nat /\ Leaf(g, s)' = Leaf(g, s) /\ Text(g, s)' = Text(g, s)
  <2>1. s \in Slots /\ s \in Nat  BY <1>0, <1>1, LeafRange
  <2>2. CASE s < f
    <3>1. s < First(g)' /\ ~(s >= First(g)') /\ ~(s >= First(g)) /\ s < First(g)
      BY <2>1, <2>2, <1>0
    <3>2. nodes'[g][s] = nodes[g][s]  BY <2>1, <2>2, <1>0
    <3>3. Leaf(g, s)' = Leaf(g, s)  BY <3>1, <3>2 DEF Leaf
    <3>4. current'[g].slot # s  BY <2>1, <2>2, <1>0
    <3>5. Text(g, s)' = Text(g, s)  BY <3>1, <3>4, <1>0 DEF Text
    <3> QED  BY <2>1, <3>3, <3>5
  <2>3. CASE s = f
    <3>1. item = Item(g, f)  BY <2>3, <1>0, <1>1 DEF Handed
    <3>2. ~(f < First(g)) /\ f >= First(g)  BY <1>0
    <3>3. Leaf(g, f) = [parent |-> item.parent, root |-> item.data.root,
                        length |-> Len(item.data.response)]
      BY <3>1, <3>2 DEF Leaf
    <3>4. Text(g, f) = item.data.response  BY <3>1, <3>2 DEF Text
    <3> QED  BY <2>1, <2>3, <3>3, <3>4, <1>3
  <2>4. CASE s > f
    <3>1. ~(s < First(g)') /\ s >= First(g)' /\ s >= First(g) /\ ~(s < First(g))
      BY <2>1, <2>4, <1>0
    <3>2. Item(g, s)' = Item(g, s)  BY <2>4
    <3> QED  BY <2>1, <3>1, <3>2 DEF Leaf, Text
  <2> QED  BY <2>1, <2>2, <2>3, <2>4, <1>0
<1>5. Grows(g)
  <2>1. First(g)' >= First(g)  BY <1>0
  <2>2. \A s \in Handed(g) : Leaf(g, s)' = Leaf(g, s) /\ Extends(Text(g, s), Text(g, s)')
    <3>1. \A s \in Handed(g) : Len(Text(g, s)) \in Nat  BY <1>0, <1>1, LeafRange
    <3> QED  BY <3>1, <1>4 DEF Extends
  <2>3. CASE f = allocated[g] /\ item = Queue(f, Root, Fresh(f)) /\ allocated'[g] = f + 1
    <3>1. item.parent = Root /\ item.data.root = f /\ item.data.response = <<>>
      BY <2>3 DEF Queue, Fresh
    <3>2. NewRoot(g, f)  BY <3>1, <1>3 DEF NewRoot
    <3> QED  BY <2>1, <2>2, <2>3, <3>2, <1>0 DEF Grows
  <2> QED  BY <2>1, <2>2, <2>3 DEF Grows
<1>6. Tree(g)' /\ Boundaries(g)'
  <2>1. PICK n \in Nat : n = allocated[g]  BY <1>1
  <2> QED  BY <2>1, <1>0, <1>1, <1>5, TreeGrows
<1>7. \A s \in Handed(g)' : s \in Handed(g) \/ (s = f /\ item.parent = Root)
  <2>1. CASE allocated'[g] = allocated[g]  BY <2>1 DEF Handed
  <2>2. CASE f = allocated[g] /\ allocated'[g] = f + 1 /\ item = Queue(f, Root, Fresh(f))
    <3>1. Handed(g)' = 0..(f + 1) - 1 /\ Handed(g) = 0..f - 1  BY <2>2 DEF Handed
    <3>2. 0..(f + 1) - 1 = (0..f - 1) \cup {f}  BY <1>0
    <3>3. item.parent = Root  BY <2>2 DEF Queue
    <3> QED  BY <3>1, <3>2, <3>3
  <2> QED  BY <2>1, <2>2
<1>8. \A s \in Handed(g) : s \in Handed(g)'
  BY <1>0, <1>1 DEF Handed
<1>9. Places(g)'
  <2>1. \A i \in 1..Len(pending'[g]) : pending'[g][i].slot = First(g)' + i - 1
    <3>1. Len(pending'[g]) \in Nat  BY DEF TypeOK
    <3> QED  BY <3>1, <1>0
  <2>2. Busy(g)' => current'[g].slot = First(g)' - 1  BY <1>0
  <2>3. \A s \in Slots : nodes'[g][s] # Missing <=> s < First(g)'
    <3>1. \A s \in Slots : s \in Nat  BY DEF Slots
    <3> QED  BY <3>1, <1>0, <1>1 DEF Places
  <2>4. \A s \in Slots :
          outputs'[g][s] # Missing <=> s < First(g)' /\ (Busy(g)' => s # current'[g].slot)
    <3>1. \A s \in Slots : s \in Nat  BY DEF Slots
    <3> QED  BY <3>1, <1>0, <1>1 DEF Places
  <2> QED  BY <2>1, <2>2, <2>3, <2>4 DEF Places
<1>10. Trajectory(g)'
  <2>1. item.data \in Data /\ Len(item.data.response) \in Nat  BY DEF Items, Data
  <2>2. current'[g].slot = f /\ current'[g].data = item.data /\ current'[g].afterTools = FALSE
        /\ current'[g].phase = "generating"
    BY <1>0
  <2>3. \A t \in Handed(g)' : Leaf(g, t)'.parent # f
    <3>1. ASSUME NEW t \in Handed(g)
          PROVE  Leaf(g, t)'.parent # f
      <4>1. Leaf(g, t).parent = Root \/ Forked(g, t)  BY <1>1 DEF Tree
      <4>2. Leaf(g, t).parent # f  BY <4>1, <1>0, <1>1 DEF Forked, Root, Handed
      <4> QED  BY <4>2, <1>4
    <3>2. item.parent = Root => Leaf(g, f)'.parent # f  BY <1>0, <1>3 DEF Root
    <3> QED  BY <3>1, <3>2, <1>7
  <2>4. Leaf(g, f)'.root = item.data.root /\ Leaf(g, f)'.length = Len(item.data.response)
    BY <1>3
  <2> QED  BY <2>1, <2>2, <2>3, <2>4 DEF Trajectory, Begun
<1>11. Entropy(g)'  BY <1>1 DEF Entropy, Begun
<1>12. Sessions(g)'
  <2>1. active'[g] \subseteq {g} \X Slots  BY <1>0, <1>1 DEF Sessions
  <2>2. ASSUME NEW s \in Slots, <<g, s>> \in sessions'
        PROVE  /\ <<g, s>> \in active'[g] /\ status'[g] = "running"
               /\ \/ Busy(g)' /\ s = current'[g].slot
                  \/ s \in Handed(g)' /\ s >= First(g)' /\ Leaf(g, s)'.parent # Root
    <3>1. CASE s = f  BY <3>1, <1>0
    <3>2. CASE s # f
      <4>1. <<g, s>> \in sessions  BY <2>2, <3>2, <1>0
      <4>2. <<g, s>> \in active[g] /\ s \in Handed(g) /\ s >= f /\ Leaf(g, s).parent # Root
        BY <4>1, <1>0, <1>1 DEF Sessions
      <4>3. s >= First(g)'  BY <3>2, <4>2, <1>0, <1>4
      <4> QED  BY <4>2, <4>3, <1>0, <1>4, <1>8
    <3> QED  BY <3>1, <3>2
  <2>3. <<g, current'[g].slot>> \in sessions'  BY <1>0
  <2>4. ASSUME NEW s \in Handed(g)', s >= First(g)', Leaf(g, s)'.parent # Root
        PROVE  <<g, s>> \in sessions'
    <3>1. s # f  BY <2>4, <1>0
    <3>2. s \in Handed(g)  BY <3>1, <1>7
    <3>3. s >= First(g) /\ Leaf(g, s).parent # Root  BY <2>4, <3>2, <1>0, <1>4
    <3> QED  BY <3>2, <3>3, <1>0, <1>1 DEF Sessions
  <2> QED  BY <2>1, <2>2, <2>3, <2>4 DEF Sessions
<1>13. Open(g)' /\ Complete(g)' /\ allocated'[g] >= InitialRollouts
       /\ status'[g] \notin {"lost", "keyerror"}
  BY <1>0, <1>1, GroupAssumption DEF Open, Complete
<1>14. GroupInv(g)'  BY <1>6, <1>9, <1>10, <1>11, <1>12, <1>13 DEF GroupInv, Forest
<1> QED  BY <1>3, <1>5, <1>14

LEMMA StartsPending ==
  ASSUME Inv, NEW g \in Groups, StartPending(g)
  PROVE  Inv' /\ Alone(g) /\ Starting(g)
<1>0. TypeOK /\ GroupInv(g) /\ status[g] = "running" /\ current[g] = Idle
      /\ pending[g] # <<>> /\ Launch(g, Head(pending[g]))
  BY DEF Inv, StartPending, Live
<1>1. PICK q \in Seq(Items) : q = pending[g]  BY <1>0, Ranges
<1>2. PICK item \in Items : item = Head(q) /\ item = q[1] /\ item = pending[g][1]
  BY <1>0, <1>1
<1>3. PICK f \in Int : f = First(g)  BY <1>0, Ranges
<1>4. /\ Len(q) >= 1 /\ Len(q) \in Nat /\ allocated[g] \in Nat /\ f = allocated[g] - Len(q)
      /\ Open(g) /\ Places(g) /\ Waiting(g)
  BY <1>0, <1>1, <1>3, Ranges DEF First, Open, GroupInv, Forest
<1>5. item.slot = f  BY <1>1, <1>2, <1>3, <1>4 DEF Places
<1>6. /\ pending'[g] = Tail(q) /\ allocated' = allocated /\ outputs' = outputs
      /\ status' = status /\ worker' = worker /\ \A h \in Groups : h # g => pending'[h] = pending[h]
  BY <1>0, <1>1 DEF StartPending, TypeOK
<1>7. /\ Tail(q) \in Seq(Items) /\ Len(Tail(q)) = Len(q) - 1
      /\ \A i \in 1..Len(Tail(q)) : Tail(q)[i] = q[i + 1]
  BY <1>1, <1>4
<1>8. LaunchTypes /\ Starts(g, item, f)
      /\ \A h \in Groups : h # g =>
              /\ current'[h] = current[h] /\ nodes'[h] = nodes[h] /\ active'[h] = active[h]
              /\ \A s \in Slots : <<h, s>> \in sessions' <=> <<h, s>> \in sessions
  <2>1. Launch(g, item)  BY <1>0, <1>1, <1>2
  <2> QED  BY <1>0, <1>5, <2>1, Launched
<1>9. TypeOK'
  <2>1. pending' \in [Groups -> Seq([slot: Slots, parent: Slots \cup {Root}, data: Data])]
    <3>1. pending' = [pending EXCEPT ![g] = Tail(q)]  BY <1>1 DEF StartPending
    <3> QED  BY <3>1, <1>0, <1>7 DEF TypeOK, Items
  <2> QED  BY <2>1, <1>0, <1>6, <1>8 DEF TypeOK, LaunchTypes, Nodes
<1>10. First(g)' = f + 1  BY <1>3, <1>4, <1>6, <1>7 DEF First
<1>11. GroupInv(g)' /\ Grows(g)
  <2>1. Begun(item.data.response, item.data.initial) /\ item.data.turns < MaxTurns
    BY <1>1, <1>2, <1>4 DEF Waiting
  <2>2. Len(pending'[g]) <= allocated'[g]  BY <1>1, <1>4, <1>6, <1>7 DEF Places
  <2>3. Waiting(g)'
    <3>1. \A i \in 1..Len(Tail(q)) : i + 1 \in 1..Len(q)  BY <1>4, <1>7
    <3> QED  BY <3>1, <1>1, <1>4, <1>6, <1>7 DEF Waiting, Begun
  <2>4. ASSUME NEW i \in 1..Len(pending'[g])
        PROVE  pending'[g][i].slot = f + i
    <3>1. i + 1 \in 1..Len(q) /\ pending'[g][i] = q[i + 1]  BY <1>4, <1>6, <1>7
    <3>2. q[i + 1].slot = f + (i + 1) - 1  BY <3>1, <1>1, <1>3, <1>4 DEF Places
    <3> QED  BY <3>1, <3>2
  <2>5. ASSUME NEW s \in Handed(g), s > f
        PROVE  Item(g, s)' = Item(g, s)
    <3>1. s \in Int /\ s < allocated[g]  BY <1>4 DEF Handed
    <3>2. PICK i : i = s - f  OBVIOUS
    <3>3. i \in 1..Len(Tail(q))  BY <3>1, <3>2, <2>5, <1>4, <1>7
    <3>4. Item(g, s)' = Tail(q)[i]  
      <4>1. s - (f + 1) + 1 = i  BY <3>1, <3>2
      <4> QED  BY <4>1, <1>6, <1>10 DEF Item
    <3>5. Item(g, s) = q[i + 1]  BY <3>2, <1>1, <1>3 DEF Item
    <3> QED  BY <3>3, <3>4, <3>5, <1>7
  <2>6. f \in Handed(g) /\ item = Item(g, f)
    <3>1. f \in Handed(g)  BY <1>1, <1>4 DEF Handed, Places
    <3>2. Item(g, f) = pending[g][1]  BY <1>3 DEF Item
    <3> QED  BY <3>1, <3>2, <1>2
  <2> QED
    BY <2>1, <2>2, <2>3, <2>4, <2>5, <2>6, <1>0, <1>3, <1>4, <1>5, <1>6, <1>8, <1>9, <1>10, Started
<1>12. Alone(g)  BY <1>6, <1>8 DEF Alone, Same
<1>13. Starting(g)
  <2>1. Busy(g)' /\ ~Busy(g) /\ f \in Nat  BY <1>8 DEF Starts
  <2>2. f < allocated[g] /\ allocated'[g] = allocated[g]  BY <1>4, <1>6
  <2>3. Steady(g)  BY <1>0, <1>6, <1>11 DEF Steady
  <2> QED  BY <2>1, <2>2, <2>3, <1>3, <1>10 DEF Starting
<1> QED  BY <1>9, <1>11, <1>12, <1>13, Elsewhere DEF Alone

LEMMA StartsFresh ==
  ASSUME Inv, NEW g \in Groups, StartFresh(g)
  PROVE  Inv' /\ Alone(g) /\ Starting(g)
<1>0. TypeOK /\ GroupInv(g) /\ status[g] = "running" /\ current[g] = Idle
      /\ pending[g] = <<>> /\ Unfinished(g)
  BY DEF Inv, StartFresh, Live
<1>1. PICK f \in Nat : f = allocated[g]  BY <1>0, Ranges
<1>2. f = First(g) /\ Open(g) /\ Places(g)
  BY <1>0, <1>1 DEF First, Open, GroupInv, Forest
<1>3. f < Size
  <2>1. PICK s \in Slots : outputs[g][s] = Missing  BY <1>0 DEF Unfinished
  <2>2. ~(s < f)  BY <2>1, <1>0, <1>2 DEF Places, Busy
  <2> QED  BY <2>1, <2>2, <1>1, GroupAssumption DEF Slots
<1>4. PICK item : item = Queue(f, Root, Fresh(f))  OBVIOUS
<1>5. /\ item \in Items /\ item.slot = f /\ item.data.response = <<>>
      /\ item.data.turns = 0 /\ item.data.initial = NoStamp
  <2>1. f \in Slots  BY <1>3, <1>1, GroupAssumption DEF Slots
  <2>2. NoStamp \in Stamps  BY DEF NoStamp, Stamps
  <2>3. <<>> \in Seq(Stamps)  OBVIOUS
  <2>4. Fresh(f) \in Data  BY <2>1, <2>2, <2>3, GroupAssumption DEF Fresh, Data
  <2>5. /\ Fresh(f).response = <<>> /\ Fresh(f).turns = 0 /\ Fresh(f).initial = NoStamp
    BY DEF Fresh
  <2> QED  BY <2>1, <2>4, <2>5, <1>4 DEF Queue, Items
<1>6. /\ Launch(g, item) /\ allocated' = [allocated EXCEPT ![g] = f + 1]
      /\ pending' = pending /\ outputs' = outputs /\ status' = status /\ worker' = worker
  <2>1. ~(allocated[g] >= Size)  BY <1>1, <1>3, GroupAssumption
  <2> QED  BY <2>1, <1>1, <1>4 DEF StartFresh
<1>7. LaunchTypes /\ Starts(g, item, f)
      /\ \A h \in Groups : h # g =>
              /\ current'[h] = current[h] /\ nodes'[h] = nodes[h] /\ active'[h] = active[h]
              /\ \A s \in Slots : <<h, s>> \in sessions' <=> <<h, s>> \in sessions
  BY <1>0, <1>5, <1>6, Launched
<1>8. f + 1 \in 0..Size  BY <1>1, <1>3, GroupAssumption
<1>9. TypeOK'
  <2>1. allocated' \in [Groups -> 0..Size]  BY <1>0, <1>6, <1>8 DEF TypeOK
  <2> QED  BY <2>1, <1>0, <1>6, <1>7 DEF TypeOK, LaunchTypes, Nodes
<1>10. allocated'[g] = f + 1 /\ pending'[g] = <<>>
       /\ \A h \in Groups : h # g => allocated'[h] = allocated[h]
  BY <1>0, <1>6 DEF TypeOK
<1>11. First(g)' = f + 1  BY <1>10 DEF First
<1>12. GroupInv(g)' /\ Grows(g) /\ Leaf(g, f)'.parent = item.parent
  <2>1. Begun(item.data.response, item.data.initial) /\ item.data.turns < MaxTurns
    BY <1>5, GroupAssumption DEF Begun
  <2>2. Len(pending'[g]) = 0  BY <1>10
  <2>3. Len(pending'[g]) <= allocated'[g] /\ Waiting(g)'
        /\ \A i \in 1..Len(pending'[g]) : pending'[g][i].slot = f + i
    BY <1>10, <2>2 DEF Waiting
  <2>4. \A s \in Handed(g) : s > f => Item(g, s)' = Item(g, s)
    BY <1>1 DEF Handed
  <2> QED
    BY <2>1, <2>3, <2>4, <1>0, <1>1, <1>2, <1>4, <1>5, <1>6, <1>7, <1>9, <1>10, <1>11, Started
<1>13. Alone(g)  BY <1>6, <1>7, <1>10 DEF Alone, Same
<1>14. Starting(g)
  <2>1. Busy(g)' /\ ~Busy(g)  BY <1>7 DEF Starts
  <2>2. item.parent = Root  BY <1>4 DEF Queue
  <2>3. Steady(g)  BY <1>0, <1>6, <1>12 DEF Steady
  <2> QED  BY <2>1, <2>2, <2>3, <1>1, <1>2, <1>3, <1>10, <1>11, <1>12 DEF Starting
<1> QED  BY <1>9, <1>12, <1>13, <1>14, Elsewhere DEF Alone
-----------------------------------------------------------------------------
(* The running leaf makes a step: its text goes on, and one fork of the    *)
(* text it had may be queued.                                              *)
Forks(g, r, a, n) ==
  /\ n = allocated[g] /\ n < Size
  /\ pending'[g] = Append(pending[g], Queue(n, r, current[g].data))
  /\ allocated'[g] = n + 1
  /\ active'[g] = active[g] \cup {<<g, n>>} /\ sessions' = sessions \cup {<<g, n>>}
  /\ Len(a) > Leaf(g, r).length /\ current[g].phase = "generating"
  /\ Len(current'[g].data.response) > Len(a)
Goes(g) ==
  /\ pending'[g] = pending[g] /\ allocated'[g] = allocated[g]
  /\ active'[g] = active[g] /\ sessions' = sessions

Moves(g, r, a) ==
  /\ Busy(g)' /\ current'[g].slot = r /\ current'[g].data.root = current[g].data.root
  /\ Extends(a, current'[g].data.response)
  /\ Begun(current'[g].data.response, current'[g].data.initial)
  /\ current'[g].afterTools => Len(current'[g].data.response) > Leaf(g, r).length
  /\ current'[g].phase # "generating" => Len(current'[g].data.response) >= 1
  /\ current'[g].phase = "generating" => current'[g].data.turns < MaxTurns
  /\ outputs'[g] = outputs[g] /\ nodes'[g] = nodes[g] /\ status'[g] = status[g]

(* A handed slot that is not placed yet has its item in the queue.         *)
LEMMA QueuePlace ==
  ASSUME NEW s \in Nat, NEW k \in Int, NEW n \in Nat, NEW l \in Nat,
         k = n - l, s < n, s >= k
  PROVE  s - k + 1 \in 1..l
OBVIOUS

LEMMA Moved ==
  ASSUME Inv, TypeOK', NEW g \in Groups, status[g] = "running", Busy(g),
         NEW r, r = current[g].slot, NEW a, a = current[g].data.response,
         NEW n, n = allocated[g], Moves(g, r, a), Goes(g) \/ Forks(g, r, a, n)
  PROVE  GroupInv(g)' /\ Going(g)
<1>0. TypeOK /\ GroupInv(g) /\ Open(g) /\ Places(g) /\ Tree(g) /\ Boundaries(g)
      /\ Waiting(g) /\ Trajectory(g) /\ Entropy(g) /\ Sessions(g)
  BY DEF Inv, Open, GroupInv, Forest
<1>1. PICK k \in Int : k = First(g)  BY <1>0, Ranges
<1>2. PICK q \in Seq(Items) : q = pending[g]  BY <1>0, Ranges
<1>3. PICK b : b = current'[g].data.response  OBVIOUS
<1>4. /\ r \in Slots /\ r \in Nat /\ n \in Nat /\ n <= Size /\ k = n - Len(q) /\ Len(q) \in Nat
      /\ k = r + 1 /\ k >= 1 /\ k <= n
      /\ a \in Seq(Stamps) /\ Len(a) \in Nat /\ current[g] \in Runs /\ current[g].data \in Data
  <2>1. current[g] \in Runs  BY <1>0, Ranges
  <2>2. r \in Slots /\ current[g].data \in Data  BY <2>1 DEF Runs
  <2>3. a \in Seq(Stamps) /\ Len(a) \in Nat  BY <2>2 DEF Data
  <2>4. n \in Nat /\ n <= Size /\ Len(q) \in Nat /\ k = n - Len(q)
    BY <1>0, <1>1, <1>2, Ranges, GroupAssumption DEF First
  <2>5. r \in Nat  BY <2>2, GroupAssumption DEF Slots
  <2>6. r = k - 1  BY <1>0, <1>1 DEF Places
  <2> QED  BY <2>1, <2>2, <2>3, <2>4, <2>5, <2>6
<1>5. current'[g].data \in Data /\ b \in Seq(Stamps) /\ Len(b) \in Nat
      /\ Extends(a, b) /\ Len(a) <= Len(b)
  <2>1. current'[g] \in Runs
    BY DEF TypeOK, Moves, Busy, Runs
  <2>2. current'[g].data \in Data  BY <2>1 DEF Runs
  <2> QED  BY <2>2, <1>3 DEF Data, Moves, Extends
<1>6. ASSUME Forks(g, r, a, n)
      PROVE  /\ Len(pending'[g]) = Len(q) + 1
             /\ pending'[g][Len(q) + 1] = Queue(n, r, current[g].data)
             /\ \A i \in 1..Len(q) : pending'[g][i] = q[i]
             /\ Queue(n, r, current[g].data) \in Items
  <2>1. n \in Slots  BY <1>4, <1>6, GroupAssumption DEF Forks, Slots
  <2>2. Queue(n, r, current[g].data) \in Items  BY <2>1, <1>4 DEF Queue, Items
  <2>3. pending'[g] = Append(q, Queue(n, r, current[g].data))  BY <1>2, <1>6 DEF Forks
  <2> QED  BY <2>2, <2>3, <1>2
<1>7. First(g)' = k /\ \A i \in 1..Len(q) : pending'[g][i] = q[i]
  <2>1. CASE Goes(g)  BY <2>1, <1>1, <1>2, <1>4 DEF Goes, First
  <2>2. CASE Forks(g, r, a, n)
    <3>1. allocated'[g] = n + 1  BY <2>2 DEF Forks
    <3> QED  BY <2>2, <3>1, <1>4, <1>6, SMTT(30) DEF First
  <2> QED  BY <2>1, <2>2
<1>8. r \in Handed(g) /\ Text(g, r) = a /\ Text(g, r)' = b
  <2>1. r \in Handed(g)  BY <1>4 DEF Handed
  <2>2. ~(r >= First(g)) /\ ~(r >= First(g)')  BY <1>1, <1>4, <1>7
  <2>3. Text(g, r) = a  BY <2>2 DEF Text
  <2>4. Text(g, r)' = b  BY <2>2, <1>3 DEF Text, Moves
  <2> QED  BY <2>1, <2>3, <2>4
<1>9. ASSUME NEW s \in Handed(g)
      PROVE  /\ s \in Slots /\ s \in Nat /\ s < n /\ Leaf(g, s)' = Leaf(g, s)
             /\ s # r => Text(g, s)' = Text(g, s)
             /\ Leaf(g, s).length \in Nat /\ Len(Text(g, s)) \in Nat
  <2>1. s \in Slots /\ s \in Nat /\ s < n /\ Leaf(g, s).length \in Nat /\ Len(Text(g, s)) \in Nat
    BY <1>0, <1>4, LeafRange DEF Handed
  <2>2. CASE s < k
    <3>1. s < First(g) /\ s < First(g)' /\ ~(s >= First(g)) /\ ~(s >= First(g)')
      BY <2>1, <2>2, <1>1, <1>7
    <3>2. Leaf(g, s)' = Leaf(g, s)  BY <3>1 DEF Leaf, Moves
    <3>3. s # r => Text(g, s)' = Text(g, s)  BY <3>1 DEF Text, Moves
    <3> QED  BY <2>1, <3>2, <3>3
  <2>3. CASE s >= k
    <3>1. ~(s < First(g)) /\ ~(s < First(g)') /\ s >= First(g) /\ s >= First(g)'
      BY <2>1, <2>3, <1>1, <1>7
    <3>2. s - k + 1 \in 1..Len(q)  BY <2>1, <2>3, <1>4, QueuePlace
    <3>3. pending'[g][s - k + 1] = pending[g][s - k + 1]  BY <3>2, <1>2, <1>7
    <3>4. Item(g, s)' = Item(g, s)  BY <3>3, <1>1, <1>7 DEF Item
    <3> QED  BY <2>1, <3>1, <3>4 DEF Leaf, Text
  <2> QED  BY <2>1, <2>2, <2>3, <1>4
<1>10. ASSUME Forks(g, r, a, n)
       PROVE  /\ Leaf(g, n)' = [parent |-> r, root |-> Leaf(g, r).root, length |-> Len(a)]
              /\ Text(g, n)' = a
  <2>1. ~(n < First(g)') /\ n >= First(g)'  BY <1>4, <1>7
  <2>2. n - k + 1 = Len(q) + 1  BY <1>4
  <2>3. Item(g, n)' = Queue(n, r, current[g].data)  BY <2>2, <1>6, <1>7, <1>10 DEF Item
  <2>4. Item(g, n)'.parent = r /\ Item(g, n)'.data = current[g].data  BY <2>3 DEF Queue
  <2>5. current[g].data.root = Leaf(g, r).root  BY <1>0 DEF Trajectory
  <2> QED  BY <2>1, <2>4, <2>5 DEF Leaf, Text
<1>11. Grows(g)
  <2>1. First(g)' >= First(g)  BY <1>1, <1>7
  <2>2. \A s \in Handed(g) : Leaf(g, s)' = Leaf(g, s) /\ Extends(Text(g, s), Text(g, s)')
    <3>1. ASSUME NEW s \in Handed(g)
          PROVE  Extends(Text(g, s), Text(g, s)')
      <4>1. CASE s = r  BY <4>1, <1>5, <1>8
      <4>2. CASE s # r  BY <4>2, <1>9 DEF Extends
      <4> QED  BY <4>1, <4>2
    <3> QED  BY <3>1, <1>9
  <2>3. CASE Goes(g)  BY <2>1, <2>2, <2>3 DEF Grows, Goes
  <2>4. CASE Forks(g, r, a, n)
    <3>1. NewFork(g, r, n)
      <4>1. r < First(g) /\ n >= InitialRollouts  BY <1>0, <1>1, <1>4 DEF GroupInv
      <4>2. \A t \in Handed(g) : Leaf(g, t).parent = r => Leaf(g, t).length < Len(a)
        BY <1>0 DEF Trajectory
      <4>3. Len(a) > Leaf(g, r).length  BY <2>4 DEF Forks
      <4> QED  BY <4>1, <4>2, <4>3, <2>4, <1>8, <1>10 DEF NewFork
    <3> QED  BY <2>1, <2>2, <2>4, <3>1, <1>4, <1>8 DEF Grows, Forks
  <2> QED  BY <2>3, <2>4
<1>12. Tree(g)' /\ Boundaries(g)'  BY <1>0, <1>4, <1>11, TreeGrows
<1>13. /\ \A s \in Handed(g) : s \in Handed(g)'
       /\ \A s \in Handed(g)' : s \in Handed(g) \/ (s = n /\ Forks(g, r, a, n))
  <2>1. CASE Goes(g)  BY <2>1 DEF Goes, Handed
  <2>2. CASE Forks(g, r, a, n)
    <3>1. Handed(g)' = 0..(n + 1) - 1 /\ Handed(g) = 0..n - 1  BY <2>2 DEF Handed, Forks
    <3>2. 0..(n + 1) - 1 = (0..n - 1) \cup {n}  BY <1>4
    <3> QED  BY <2>2, <3>1, <3>2
  <2> QED  BY <2>1, <2>2
<1>14. Places(g)'
  <2>1. Len(pending'[g]) <= allocated'[g]
    <3>1. CASE Goes(g)  BY <3>1, <1>0 DEF Goes, Places
    <3>2. CASE Forks(g, r, a, n)
      <4>1. allocated'[g] = n + 1  BY <3>2 DEF Forks
      <4> QED  BY <4>1, <3>2, <1>4, <1>6
    <3> QED  BY <3>1, <3>2
  <2>2. ASSUME NEW i \in 1..Len(pending'[g])
        PROVE  pending'[g][i].slot = First(g)' + i - 1
    <3>1. CASE i \in 1..Len(q)
      <4>1. q[i].slot = k + i - 1  BY <3>1, <1>0, <1>1, <1>2 DEF Places
      <4> QED  BY <4>1, <3>1, <1>7
    <3>2. CASE i \notin 1..Len(q)
      <4>1. Forks(g, r, a, n)  BY <3>2, <2>2, <1>2 DEF Goes
      <4>2. i = Len(q) + 1  BY <3>2, <4>1, <1>4, <1>6
      <4>3. pending'[g][i].slot = n  BY <4>1, <4>2, <1>6 DEF Queue
      <4>4. k + i - 1 = n  BY <4>2, <1>4
      <4> QED  BY <4>3, <4>4, <1>7
    <3> QED  BY <3>1, <3>2
  <2>3. Busy(g)' => current'[g].slot = First(g)' - 1  BY <1>4, <1>7 DEF Moves
  <2>4. \A s \in Slots : nodes'[g][s] # Missing <=> s < First(g)'
    BY <1>0, <1>1, <1>7 DEF Places, Moves
  <2>5. \A s \in Slots :
          outputs'[g][s] # Missing <=> s < First(g)' /\ (Busy(g)' => s # current'[g].slot)
    BY <1>0, <1>1, <1>7 DEF Places, Moves
  <2> QED  BY <2>1, <2>2, <2>3, <2>4, <2>5 DEF Places
<1>15. Waiting(g)'
  <2> SUFFICES ASSUME NEW i \in 1..Len(pending'[g])
               PROVE  /\ Begun(pending'[g][i].data.response, pending'[g][i].data.initial)
                      /\ pending'[g][i].data.turns < MaxTurns
    BY DEF Waiting, Begun
  <2>1. CASE i \in 1..Len(q)  BY <2>1, <1>0, <1>2, <1>7 DEF Waiting
  <2>2. CASE i \notin 1..Len(q)
    <3>1. Forks(g, r, a, n)  BY <2>2, <1>2 DEF Goes
    <3>2. i = Len(q) + 1  BY <2>2, <3>1, <1>4, <1>6
    <3>3. pending'[g][i].data = current[g].data  BY <3>1, <3>2, <1>6 DEF Queue
    <3>4. current[g].phase = "generating"  BY <3>1 DEF Forks
    <3> QED  BY <3>3, <3>4, <1>0 DEF Trajectory
  <2> QED  BY <2>1, <2>2
<1>16. Trajectory(g)'
  <2>1. Leaf(g, r)' = Leaf(g, r) /\ Leaf(g, r).length \in Nat  BY <1>8, <1>9
  <2>2. Len(b) >= Leaf(g, r).length  BY <2>1, <1>0, <1>4, <1>5 DEF Trajectory
  <2>3. current'[g].data.root = Leaf(g, r).root  BY <1>0 DEF Trajectory, Moves
  <2>4. ASSUME NEW t \in Handed(g)', Leaf(g, t)'.parent = r
        PROVE  Leaf(g, t)'.length < Len(b)
    <3>1. CASE t \in Handed(g)
      <4>1. Leaf(g, t).length < Len(a)  BY <2>4, <3>1, <1>0, <1>9 DEF Trajectory
      <4> QED  BY <4>1, <3>1, <1>4, <1>5, <1>9
    <3>2. CASE t = n /\ Forks(g, r, a, n)  BY <3>2, <1>3, <1>10 DEF Forks
    <3> QED  BY <3>1, <3>2, <1>13
  <2>5. current'[g].slot = r  BY DEF Moves
  <2> QED  BY <2>1, <2>2, <2>3, <2>4, <2>5, <1>3 DEF Trajectory, Moves, Begun
<1>17. Entropy(g)'  BY <1>0 DEF Entropy, Begun, Moves
<1>18. Sessions(g)'
  <2>0. status'[g] = "running" /\ current'[g].slot = r /\ Busy(g)'  BY DEF Moves
  <2>1. active'[g] \subseteq {g} \X Slots
    <3>1. CASE Goes(g)  BY <3>1, <1>0 DEF Sessions, Goes
    <3>2. CASE Forks(g, r, a, n)
      <4>1. n \in Slots  BY <3>2, <1>4, GroupAssumption DEF Forks, Slots
      <4> QED  BY <3>2, <4>1, <1>0 DEF Sessions, Forks
    <3> QED  BY <3>1, <3>2
  <2>2. /\ \A s \in Slots : <<g, s>> \in sessions => <<g, s>> \in sessions'
        /\ active[g] \subseteq active'[g]
        /\ \A s \in Slots : <<g, s>> \in sessions' => <<g, s>> \in sessions
              \/ (s = n /\ Forks(g, r, a, n) /\ <<g, s>> \in active'[g])
    BY DEF Goes, Forks
  <2>3. ASSUME NEW s \in Slots, <<g, s>> \in sessions'
        PROVE  /\ <<g, s>> \in active'[g]
               /\ \/ Busy(g)' /\ s = current'[g].slot
                  \/ s \in Handed(g)' /\ s >= First(g)' /\ Leaf(g, s)'.parent # Root
    <3>1. CASE <<g, s>> \in sessions
      <4>1. <<g, s>> \in active[g] /\
            (s = r \/ (s \in Handed(g) /\ s >= k /\ Leaf(g, s).parent # Root))
        BY <3>1, <1>0, <1>1 DEF Sessions
      <4> QED  BY <4>1, <2>0, <2>2, <1>7, <1>9, <1>13
    <3>2. CASE s = n /\ Forks(g, r, a, n) /\ <<g, s>> \in active'[g]
      <4>1. n \in Handed(g)'  BY <3>2, <1>4 DEF Forks, Handed
      <4>2. Leaf(g, n)'.parent # Root  BY <3>2, <1>4, <1>10 DEF Root
      <4> QED  BY <4>1, <4>2, <3>2, <1>4, <1>7
    <3> QED  BY <2>2, <2>3, <3>1, <3>2
  <2>4. <<g, r>> \in sessions'  BY <2>2, <1>0, <1>4 DEF Sessions
  <2>5. ASSUME NEW s \in Handed(g)', s >= First(g)', Leaf(g, s)'.parent # Root
        PROVE  <<g, s>> \in sessions'
    <3>1. CASE s \in Handed(g)
      <4>1. <<g, s>> \in sessions  BY <2>5, <3>1, <1>0, <1>1, <1>7, <1>9 DEF Sessions
      <4> QED  BY <4>1, <3>1, <2>2, <1>9
    <3>2. CASE s = n /\ Forks(g, r, a, n)  BY <3>2 DEF Forks
    <3> QED  BY <3>1, <3>2, <1>13
  <2> QED  BY <2>0, <2>1, <2>3, <2>4, <2>5 DEF Sessions
<1>19. Open(g)' /\ Complete(g)' /\ allocated'[g] >= InitialRollouts
       /\ status'[g] \notin {"lost", "keyerror"}
  <2>1. allocated'[g] >= InitialRollouts
    BY <1>0, <1>4, GroupAssumption DEF GroupInv, Goes, Forks
  <2> QED  BY <2>1 DEF Moves, Open, Complete
<1>20. GroupInv(g)'
  BY <1>12, <1>14, <1>15, <1>16, <1>17, <1>18, <1>19 DEF GroupInv, Forest
<1>21. Going(g)
  <2>1. Steady(g) /\ Busy(g)'  BY <1>0, <1>11 DEF Steady, Moves
  <2>2. First(g)' = First(g) /\ r = First(g) - 1  BY <1>1, <1>4, <1>7
  <2>3. CASE Goes(g)  BY <2>1, <2>2, <2>3 DEF Going, Goes
  <2>4. CASE Forks(g, r, a, n)
    <3>1. n \in Slots /\ allocated'[g] = n + 1
      BY <2>4, <1>4, GroupAssumption DEF Forks, Slots
    <3>2. Leaf(g, n)'.parent = r  BY <2>4, <1>10
    <3> QED  BY <2>1, <2>2, <3>1, <3>2, <1>4 DEF Going
  <2> QED  BY <2>3, <2>4
<1> QED  BY <1>20, <1>21

LEMMA Appended ==
  ASSUME NEW a \in Seq(Stamps), NEW x \in Stamps
  PROVE  /\ Append(a, x) \in Seq(Stamps) /\ Len(Append(a, x)) = Len(a) + 1
         /\ Len(a) \in Nat /\ Append(a, x) # <<>>
         /\ Extends(a, Append(a, x))
         /\ a = <<>> => Append(a, x)[1] = x
         /\ a # <<>> => Append(a, x)[1] = a[1]
<1>1. /\ Append(a, x) \in Seq(Stamps) /\ Len(Append(a, x)) = Len(a) + 1 /\ Len(a) \in Nat
      /\ \A i \in 1..Len(a) : Append(a, x)[i] = a[i]
      /\ Append(a, x)[Len(a) + 1] = x
  OBVIOUS
<1>2. Append(a, x) # <<>>  BY <1>1
<1>3. a = <<>> => Append(a, x)[1] = x  BY <1>1
<1>4. a # <<>> => Append(a, x)[1] = a[1]  BY <1>1
<1>5. Extends(a, Append(a, x))  BY <1>1 DEF Extends
<1> QED  BY <1>1, <1>2, <1>3, <1>4, <1>5

(* The running leaf as a generation leaves it.                             *)
Produced(run, next, new) ==
  /\ new \in Runs /\ new.slot = run.slot /\ new.phase = next /\ new.afterTools = FALSE
  /\ new.data.root = run.data.root
  /\ new.data.response = Append(run.data.response, Stamp(run))
  /\ Stamp(run) \in Stamps /\ run.data.response \in Seq(Stamps)
  /\ Begun(new.data.response, new.data.initial)

LEMMA GeneratedRun ==
  ASSUME NEW run \in Runs, NEW next \in {"tools", "interacting", "terminated"},
         NEW logprobs \in BOOLEAN, run.data.turns < MaxTurns,
         Begun(run.data.response, run.data.initial),
         NEW new, new = Generated(run, next, logprobs)
  PROVE  Produced(run, next, new)
<1>1. PICK d \in Data : d = run.data  BY DEF Runs
<1>2. run.slot \in Slots /\ d.response \in Seq(Stamps) /\ d.turns \in 0..MaxTurns
      /\ d.initial \in Stamps /\ d.complete \in BOOLEAN /\ d.root \in Slots
  BY <1>1 DEF Runs, Data
<1>3. PICK x : x = Stamp(run)  OBVIOUS
<1>4. x \in Stamps  BY <1>1, <1>2, <1>3 DEF Stamp, Stamps
<1>5. x # NoStamp
  <2>1. run.slot # Root  BY <1>2 DEF Slots, Root
  <2> QED  BY <2>1, <1>3 DEF Stamp, NoStamp
<1>7. PICK i \in Stamps : i = IF d.initial = NoStamp THEN x ELSE d.initial  BY <1>2, <1>4
<1>8. PICK e : e = [d EXCEPT !.response = Append(d.response, x), !.turns = d.turns + 1,
                     !.complete = d.complete /\ logprobs, !.initial = i]
  OBVIOUS
<1>9. Append(d.response, x) \in Seq(Stamps)  BY <1>2, <1>4, Appended
<1>10. d.turns + 1 \in 0..MaxTurns
  <2>1. d.turns < MaxTurns /\ d.turns \in Nat  BY <1>1, <1>2, GroupAssumption
  <2>2. \A t \in Nat : t < MaxTurns => t + 1 \in 0..MaxTurns  BY GroupAssumption
  <2> QED  BY <2>1, <2>2
<1>11. (d.complete /\ logprobs) \in BOOLEAN  OBVIOUS
<1>12. e \in Data /\ e.response = Append(d.response, x) /\ e.root = d.root /\ e.initial = i
  BY <1>7, <1>8, <1>9, <1>10, <1>11 DEF Data
<1>13. new = [run EXCEPT !.phase = next, !.afterTools = FALSE, !.data = e]
  BY <1>1, <1>3, <1>7, <1>8, ZenonT(40) DEF Generated, Runs, Data
<1>14. new \in Runs /\ new.slot = run.slot /\ new.phase = next /\ new.afterTools = FALSE
       /\ new.data = e
  BY <1>12, <1>13 DEF Runs, Phases
<1>15. Begun(e.response, i)
  <2>1. CASE d.response = <<>>
    <3>1. d.initial = NoStamp  BY <2>1, <1>1 DEF Begun
    <3> QED  BY <2>1, <3>1, <1>2, <1>4, <1>5, <1>7, <1>12, Appended DEF Begun
  <2>2. CASE d.response # <<>>
    <3>1. d.initial = d.response[1] /\ d.initial # NoStamp  BY <2>2, <1>1 DEF Begun
    <3> QED  BY <2>2, <3>1, <1>2, <1>4, <1>7, <1>12, Appended DEF Begun
  <2> QED  BY <2>1, <2>2
<1> QED  BY <1>1, <1>2, <1>3, <1>4, <1>7, <1>12, <1>14, <1>15 DEF Produced

LEMMA Generates ==
  ASSUME Inv, NEW g \in Groups, NEW next \in {"tools", "interacting", "terminated"},
         NEW logprobs \in BOOLEAN, NEW take \in BOOLEAN, Generate(g, next, logprobs, take)
  PROVE  Inv' /\ Alone(g) /\ Going(g)
<1>0. TypeOK /\ GroupInv(g) /\ status[g] = "running" /\ current[g].phase = "generating"
      /\ outputs' = outputs /\ nodes' = nodes /\ status' = status /\ worker' = worker
  BY DEF Inv, Generate, Live
<1>1. Busy(g) /\ current[g] \in Runs
  BY <1>0, Ranges DEF Busy
<1>2. Places(g) /\ Trajectory(g) /\ pending[g] \in Seq(Items) /\ allocated[g] \in Nat
  BY <1>0, Ranges DEF GroupInv, Forest, Open
<1>3. PICK run \in Runs : run = current[g]  BY <1>1
<1>4. PICK r, a, n : r = run.slot /\ a = run.data.response /\ n = allocated[g]  OBVIOUS
<1>5. run.data.turns < MaxTurns /\ Begun(a, run.data.initial)
  BY <1>0, <1>1, <1>2, <1>3, <1>4 DEF Trajectory
<1>6. PICK new : new = Generated(run, next, logprobs)  OBVIOUS
<1>7. /\ new \in Runs /\ new.slot = r /\ new.phase = next /\ new.afterTools = FALSE
      /\ new.data.root = run.data.root /\ new.data.response = Append(a, Stamp(run))
      /\ Stamp(run) \in Stamps /\ a \in Seq(Stamps)
      /\ Begun(new.data.response, new.data.initial)
  <2>1. run.data.turns < MaxTurns /\ Begun(run.data.response, run.data.initial)
    BY <1>4, <1>5
  <2>2. Produced(run, next, new)  BY <2>1, <1>6, GeneratedRun
  <2> QED  BY <2>2, <1>4 DEF Produced
<1>8. current' = [current EXCEPT ![g] = new]
  BY <1>3, <1>6 DEF Generate
<1>9. current'[g] = new /\ \A h \in Groups : h # g => current'[h] = current[h]
  BY <1>0, <1>8 DEF TypeOK
<1>10. Moves(g, r, a)
  <2>1. Busy(g)'  BY <1>7, <1>9, NotNone DEF Busy
  <2>2. Extends(a, new.data.response) /\ Len(new.data.response) >= 1
    BY <1>7, Appended
  <2> QED  BY <2>1, <2>2, <1>0, <1>3, <1>7, <1>9 DEF Moves
<1>11. /\ current' \in [Groups -> {Idle} \cup
            [slot: Slots, phase: Phases, afterTools: BOOLEAN, data: Data]]
  BY <1>0, <1>7, <1>8 DEF TypeOK, Runs
<1>12. CASE UNCHANGED <<allocated, sessions, active, pending>>
  <2>1. TypeOK'  BY <1>0, <1>11, <1>12 DEF TypeOK
  <2>2. Goes(g)  BY <1>12 DEF Goes
  <2>3. GroupInv(g)' /\ Going(g)  BY <2>1, <2>2, <1>0, <1>1, <1>3, <1>4, <1>10, Moved
  <2>4. Alone(g)  BY <1>0, <1>9, <1>12 DEF Alone, Same
  <2> QED  BY <2>1, <2>3, <2>4, Elsewhere DEF Alone
<1>13. CASE CanBranch(g) /\ Branch(g)
  <2>0. n < Size /\ run.afterTools /\ n \in Slots /\ n + 1 \in 0..Size
    BY <1>2, <1>3, <1>4, <1>13, GroupAssumption DEF CanBranch, Slots
  <2>1. PICK item : item = Queue(n, r, run.data)  OBVIOUS
  <2>2. item \in Items  BY <2>0, <2>1, <1>3, <1>4 DEF Queue, Items, Runs
  <2>3. /\ allocated' = [allocated EXCEPT ![g] = n + 1]
        /\ sessions' = sessions \cup {<<g, n>>}
        /\ active' = [active EXCEPT ![g] = active[g] \cup {<<g, n>>}]
        /\ pending' = [pending EXCEPT ![g] = Append(pending[g], item)]
    BY <2>1, <1>3, <1>4, <1>13 DEF Branch
  <2>4. TypeOK'
    <3>1. Append(pending[g], item) \in Seq(Items)  BY <2>2, <1>2
    <3>2. pending' \in [Groups -> Seq([slot: Slots, parent: Slots \cup {Root}, data: Data])]
      BY <3>1, <2>3, <1>0 DEF TypeOK, Items
    <3>3. allocated' \in [Groups -> 0..Size]  BY <2>0, <2>3, <1>0 DEF TypeOK
    <3>4. active' \in [Groups -> SUBSET (Groups \X Slots)] /\ sessions' \subseteq Groups \X Slots
      BY <2>0, <2>3, <1>0 DEF TypeOK
    <3> QED  BY <3>2, <3>3, <3>4, <1>0, <1>11 DEF TypeOK
  <2>5. Forks(g, r, a, n)
    <3>1. Len(a) > Leaf(g, r).length
      <4>1. r \in Handed(g)
        <5>1. r = First(g) - 1 /\ r \in Slots  BY <1>1, <1>2, <1>3, <1>4 DEF Places, Runs
        <5>2. First(g) <= allocated[g] /\ First(g) \in Int  BY <1>0, <1>2, Ranges DEF First
        <5> QED  BY <5>1, <5>2, <1>2, GroupAssumption DEF Handed, Slots
      <4>2. Leaf(g, r).length \in Nat  BY <4>1, <1>0, <1>2, LeafRange
      <4> QED  BY <4>2, <2>0, <1>1, <1>2, <1>3, <1>4, <1>7 DEF Trajectory
    <3>2. Len(current'[g].data.response) > Len(a)
      <4>1. Len(Append(a, Stamp(run))) = Len(a) + 1 /\ Len(a) \in Nat  BY <1>7, Appended
      <4> QED  BY <4>1, <1>7, <1>9
    <3>3. /\ pending'[g] = Append(pending[g], item) /\ allocated'[g] = n + 1
          /\ active'[g] = active[g] \cup {<<g, n>>}
      BY <2>3, <1>0 DEF TypeOK
    <3> QED  BY <3>1, <3>2, <3>3, <2>0, <2>1, <2>3, <1>0, <1>3, <1>4 DEF Forks
  <2>6. GroupInv(g)' /\ Going(g)  BY <2>4, <2>5, <1>0, <1>1, <1>3, <1>4, <1>10, Moved
  <2>7. Alone(g)  BY <2>3, <1>0, <1>9 DEF Alone, Same, TypeOK
  <2> QED  BY <2>4, <2>6, <2>7, Elsewhere DEF Alone
<1> QED  BY <1>12, <1>13 DEF Generate

Observed(g, run, new) ==
  /\ new \in Runs /\ new.slot = run.slot /\ new.data.root = run.data.root
  /\ Extends(run.data.response, new.data.response) /\ Len(new.data.response) >= 1
  /\ Begun(new.data.response, new.data.initial)
  /\ new.afterTools => Len(new.data.response) > Leaf(g, run.slot).length
  /\ new.phase = "generating" => new.data.turns < MaxTurns

LEMMA Observes ==
  ASSUME Inv, NEW g \in Groups, (\E room \in BOOLEAN : Observe(g, room)) \/ ObserveEnds(g)
  PROVE  Inv' /\ Alone(g) /\ Going(g)
<1>0. TypeOK /\ GroupInv(g) /\ status[g] = "running"
      /\ current[g].phase \in {"tools", "interacting"}
      /\ outputs' = outputs /\ nodes' = nodes /\ status' = status /\ worker' = worker
      /\ UNCHANGED <<allocated, sessions, active, pending>>
  BY DEF Inv, Observe, ObserveEnds, Live
<1>1. Busy(g) /\ current[g] \in Runs
  BY <1>0, Ranges DEF Busy
<1>2. Places(g) /\ Trajectory(g)  BY <1>0 DEF GroupInv, Forest, Open
<1>3. PICK run \in Runs : run = current[g]  BY <1>1
<1>4. PICK r, a, d : r = run.slot /\ a = run.data.response /\ d = run.data  OBVIOUS
<1>5. /\ d \in Data /\ a \in Seq(Stamps) /\ Len(a) \in Nat /\ Len(a) >= 1 /\ r \in Slots
      /\ Begun(a, d.initial) /\ d.turns \in 0..MaxTurns
  <2>1. d \in Data /\ a \in Seq(Stamps) /\ r \in Slots /\ d.turns \in 0..MaxTurns
    BY <1>4 DEF Runs, Data
  <2>2. Len(a) \in Nat  BY <2>1
  <2> QED  BY <2>1, <2>2, <1>0, <1>1, <1>2, <1>3, <1>4 DEF Trajectory
<1>6. Leaf(g, r).length \in Nat /\ Len(a) >= Leaf(g, r).length
      /\ (run.afterTools => Len(a) > Leaf(g, r).length)
  <2>1. r \in Handed(g)
    <3>1. r = First(g) - 1  BY <1>1, <1>2, <1>3, <1>4 DEF Places
    <3>2. First(g) <= allocated[g] /\ First(g) \in Int /\ allocated[g] \in Nat
      BY <1>0, <1>2, Ranges DEF First
    <3> QED  BY <3>1, <3>2, <1>5, GroupAssumption DEF Handed, Slots
  <2>2. Leaf(g, r).length \in Nat  BY <2>1, <1>0, <1>2, LeafRange
  <2> QED  BY <2>2, <1>1, <1>2, <1>3, <1>4 DEF Trajectory
<1>7. PICK new : current' = [current EXCEPT ![g] = new] /\ Observed(g, run, new)
  <2>1. ASSUME NEW room \in BOOLEAN, Observe(g, room)
        PROVE  \E new : current' = [current EXCEPT ![g] = new] /\ Observed(g, run, new)
    <3>1. PICK x, phase : /\ x = Append(a, Stamp(run))
                          /\ phase = IF room /\ d.turns < MaxTurns THEN "generating"
                                     ELSE "terminated"
      OBVIOUS
    <3>2. Stamp(run) \in Stamps  BY <1>3, <1>4, <1>5 DEF Stamp, Stamps
    <3>3. /\ x \in Seq(Stamps) /\ Len(x) = Len(a) + 1 /\ Extends(a, x) /\ x # <<>>
          /\ x[1] = a[1]
      BY <3>1, <3>2, <1>5, Appended
    <3>4. Begun(x, d.initial)  BY <3>3, <1>5 DEF Begun
    <3>5. PICK e : e = [d EXCEPT !.response = x]  OBVIOUS
    <3>6. e \in Data /\ e.response = x /\ e.root = d.root /\ e.initial = d.initial
          /\ e.turns = d.turns
      BY <3>3, <3>5, <1>5 DEF Data
    <3>7. PICK new : new = [run EXCEPT !.phase = phase, !.afterTools = (run.phase = "tools"),
                                       !.data = e]
      OBVIOUS
    <3>8. current' = [current EXCEPT ![g] = new]
      <4>1. current' = [current EXCEPT ![g].phase = phase, ![g].afterTools = (run.phase = "tools"),
                                       ![g].data.response = x]
        BY <2>1, <3>1, <1>3, <1>4 DEF Observe
      <4> QED  BY <4>1, <3>5, <3>7, <1>0, <1>3, <1>4 DEF TypeOK, Runs, Data
    <3>9. new \in Runs /\ new.slot = r /\ new.data = e /\ new.phase = phase
      BY <3>1, <3>6, <3>7, <1>4 DEF Runs, Phases
    <3>10. (room /\ d.turns < MaxTurns) \/ phase = "terminated"  BY <3>1
    <3>11. Len(x) >= 1 /\ Len(x) > Leaf(g, r).length  BY <3>3, <1>5, <1>6
    <3>12. Observed(g, run, new)
      BY <3>3, <3>4, <3>6, <3>9, <3>10, <3>11, <1>4 DEF Observed
    <3> QED  BY <3>8, <3>12
  <2>2. ASSUME ObserveEnds(g)
        PROVE  \E new : current' = [current EXCEPT ![g] = new] /\ Observed(g, run, new)
    <3>1. PICK new : new = [run EXCEPT !.phase = "terminated"]  OBVIOUS
    <3>2. current' = [current EXCEPT ![g] = new]  BY <2>2, <3>1, <1>3 DEF ObserveEnds
    <3>3. new \in Runs /\ new.slot = r /\ new.data = d /\ new.phase = "terminated"
          /\ new.afterTools = run.afterTools
      BY <3>1, <1>4 DEF Runs, Phases
    <3>4. Extends(a, a)  BY <1>5 DEF Extends
    <3>5. Observed(g, run, new)  BY <3>3, <3>4, <1>4, <1>5, <1>6 DEF Observed
    <3> QED  BY <3>2, <3>5
  <2> QED  BY <2>1, <2>2
<1>8. current'[g] = new /\ \A h \in Groups : h # g => current'[h] = current[h]
  BY <1>0, <1>7 DEF TypeOK
<1>9. TypeOK'  BY <1>0, <1>7 DEF TypeOK, Runs, Observed
<1>10. Moves(g, r, a)
  <2>1. Busy(g)'  BY <1>7, <1>8, NotNone DEF Busy, Observed
  <2> QED  BY <2>1, <1>0, <1>3, <1>4, <1>7, <1>8 DEF Moves, Observed
<1>11. Goes(g)  BY <1>0 DEF Goes
<1>12. PICK n : n = allocated[g]  OBVIOUS
<1>13. GroupInv(g)' /\ Going(g)
  BY <1>0, <1>1, <1>3, <1>4, <1>9, <1>10, <1>11, <1>12, Moved
<1>14. Alone(g)  BY <1>0, <1>8 DEF Alone, Same
<1> QED  BY <1>9, <1>13, <1>14, Elsewhere, SMTT(30) DEF Alone

LEMMA Finishes ==
  ASSUME Inv, NEW g \in Groups, FinishTrajectory(g)
  PROVE  Inv' /\ Alone(g) /\ Finishing(g)
<1>0. TypeOK /\ GroupInv(g) /\ status[g] = "running" /\ current[g].phase = "terminated"
  BY DEF Inv, FinishTrajectory, Live
<1>1. Busy(g) /\ current[g] \in Runs
  BY <1>0, Ranges DEF Busy
<1>2. Open(g) /\ Places(g) /\ Tree(g) /\ Boundaries(g) /\ Waiting(g) /\ Trajectory(g)
      /\ Entropy(g) /\ Sessions(g)
  BY <1>0 DEF GroupInv, Forest, Open
<1>3. PICK run \in Runs : run = current[g]  BY <1>1
<1>4. PICK r : r = run.slot  OBVIOUS
<1>5. <<g, r>> \in sessions  BY <1>0, <1>1, <1>2, <1>3, <1>4 DEF Sessions
<1>6. PICK out : out = [kind |-> "output", response |-> run.data.response,
                        initial |-> run.data.initial, logprobs |-> run.data.complete]
  OBVIOUS
<1>7. /\ out \in Outputs /\ out.response = run.data.response /\ out.initial = run.data.initial
      /\ out # Missing /\ r \in Slots
  <2>1. out \in Outputs /\ r \in Slots  BY <1>4, <1>6 DEF Outputs, Runs, Data
  <2>2. out.response = run.data.response /\ out.initial = run.data.initial  BY <1>6
  <2> QED  BY <2>1, <2>2, NotNone
<1>8. /\ outputs' = [outputs EXCEPT ![g][r] = out] /\ sessions' = sessions \ {<<g, r>>}
      /\ current' = [current EXCEPT ![g] = Idle]
      /\ UNCHANGED <<pending, allocated, nodes, active, status, worker>>
  BY <1>3, <1>4, <1>5, <1>6 DEF FinishTrajectory
<1>9. /\ outputs'[g][r] = out /\ (\A s \in Slots : s # r => outputs'[g][s] = outputs[g][s])
      /\ current'[g] = Idle
      /\ \A h \in Groups : h # g => outputs'[h] = outputs[h] /\ current'[h] = current[h]
  <2>1. outputs[g] \in [Slots -> {Missing} \cup Outputs]  BY <1>0 DEF TypeOK, Outputs
  <2>2. outputs'[g] = [outputs[g] EXCEPT ![r] = out]  BY <1>0, <1>8 DEF TypeOK
  <2> QED  BY <2>1, <2>2, <1>0, <1>7, <1>8 DEF TypeOK
<1>10. TypeOK'
  <2>1. outputs' \in [Groups -> [Slots -> {Missing} \cup Outputs]]
    <3>1. outputs \in [Groups -> [Slots -> {Missing} \cup Outputs]]  BY <1>0 DEF TypeOK, Outputs
    <3> QED  BY <3>1, <1>7, <1>8
  <2> QED  BY <2>1, <1>0, <1>8 DEF TypeOK, Outputs
<1>11. ~Busy(g)' /\ First(g)' = First(g) /\ Handed(g)' = Handed(g)
       /\ \A s : Leaf(g, s)' = Leaf(g, s)
  <2>1. First(g)' = First(g) /\ Handed(g)' = Handed(g)  BY <1>8 DEF First, Handed
  <2>2. \A s : Item(g, s)' = Item(g, s)  BY <2>1, <1>8 DEF Item
  <2> QED  BY <2>1, <2>2, <1>8, <1>9 DEF Leaf, Busy
<1>12. r = First(g) - 1 /\ First(g) \in Int /\ allocated[g] \in Nat /\ First(g) <= allocated[g]
       /\ r \in Nat /\ Len(pending[g]) \in Nat
  BY <1>0, <1>1, <1>2, <1>3, <1>4, <1>7, Ranges DEF Places, First, Slots
<1>13. ASSUME NEW s \in Handed(g)
       PROVE  s \in Slots /\ s \in Nat /\ Text(g, s)' = Text(g, s)
  <2>1. s \in Slots /\ s \in Nat  BY <1>0, <1>2, LeafRange
  <2>2. CASE s >= First(g)
    <3>1. Item(g, s)' = Item(g, s)  BY <1>8, <1>11 DEF Item
    <3> QED  BY <2>1, <2>2, <3>1, <1>11 DEF Text
  <2>3. CASE ~(s >= First(g)) /\ s = r
    <3>1. Text(g, s) = run.data.response  BY <2>3, <1>1, <1>3, <1>4 DEF Text
    <3>2. Text(g, s)' = out.response  BY <2>3, <1>9, <1>11 DEF Text
    <3> QED  BY <2>1, <3>1, <3>2, <1>7
  <2>4. CASE ~(s >= First(g)) /\ s # r
    <3>1. Text(g, s) = outputs[g][s].response  BY <2>4, <1>3, <1>4 DEF Text
    <3>2. Text(g, s)' = outputs'[g][s].response  BY <2>4, <1>11 DEF Text
    <3> QED  BY <2>1, <2>4, <3>1, <3>2, <1>9
  <2> QED  BY <2>2, <2>3, <2>4
<1>14. Grows(g)
  <2>1. \A s \in Handed(g) : Len(Text(g, s)) \in Nat  BY <1>0, <1>2, LeafRange
  <2>2. \A s \in Handed(g) : Extends(Text(g, s), Text(g, s)')
    BY <2>1, <1>13 DEF Extends
  <2> QED  BY <2>2, <1>8, <1>11, <1>12 DEF Grows
<1>15. Tree(g)' /\ Boundaries(g)'
  <2>1. PICK n \in Nat : n = allocated[g]  BY <1>12
  <2> QED  BY <2>1, <1>0, <1>2, <1>10, <1>14, TreeGrows
<1>16. Places(g)'
  <2>1. ASSUME NEW s \in Slots
        PROVE  outputs'[g][s] # Missing <=> s < First(g)' /\ (Busy(g)' => s # current'[g].slot)
    <3>1. CASE s = r  BY <3>1, <1>7, <1>9, <1>11, <1>12
    <3>2. CASE s # r
      <4>1. outputs[g][s] # Missing <=> s < First(g) /\ (Busy(g) => s # current[g].slot)
        BY <1>2 DEF Places
      <4> QED  BY <4>1, <3>2, <1>3, <1>4, <1>9, <1>11
    <3> QED  BY <3>1, <3>2
  <2> QED  BY <2>1, <1>2, <1>8, <1>11 DEF Places
<1>17. Waiting(g)' /\ Trajectory(g)'
  BY <1>2, <1>8, <1>11 DEF Waiting, Trajectory, Begun
<1>18. Entropy(g)'
  <2>1. Begun(run.data.response, run.data.initial)  BY <1>1, <1>2, <1>3 DEF Trajectory
  <2>2. ASSUME NEW s \in Slots, outputs'[g][s] # Missing
        PROVE  Begun(outputs'[g][s].response, outputs'[g][s].initial)
    <3>1. CASE s = r  BY <3>1, <2>1, <1>7, <1>9
    <3>2. CASE s # r
      <4>1. outputs'[g][s] = outputs[g][s]  BY <3>2, <1>9
      <4> QED  BY <4>1, <2>2, <1>2 DEF Entropy
    <3> QED  BY <3>1, <3>2
  <2> QED  BY <2>2 DEF Entropy, Begun
<1>19. Sessions(g)'
  <2>1. ASSUME NEW s \in Slots, <<g, s>> \in sessions'
        PROVE  /\ <<g, s>> \in active'[g] /\ status'[g] = "running"
               /\ s \in Handed(g)' /\ s >= First(g)' /\ Leaf(g, s)'.parent # Root
    <3>1. <<g, s>> \in sessions /\ s # r  BY <2>1, <1>8
    <3> QED  BY <3>1, <1>2, <1>3, <1>4, <1>8, <1>11 DEF Sessions
  <2>2. ASSUME NEW s \in Handed(g)', s >= First(g)', Leaf(g, s)'.parent # Root
        PROVE  <<g, s>> \in sessions'
    <3>1. s \in Handed(g) /\ s >= First(g) /\ Leaf(g, s).parent # Root  BY <2>2, <1>11
    <3>2. <<g, s>> \in sessions  BY <3>1, <1>0, <1>2 DEF Sessions
    <3>3. s # r  BY <3>1, <1>12
    <3> QED  BY <3>2, <3>3, <1>8
  <2> QED  BY <2>1, <2>2, <1>2, <1>8, <1>11 DEF Sessions
<1>20. GroupInv(g)'
  BY <1>0, <1>8, <1>15, <1>16, <1>17, <1>18, <1>19 DEF GroupInv, Forest, Open, Complete
<1>21. Alone(g)  BY <1>8, <1>9 DEF Alone, Same
<1>22. Finishing(g)  BY <1>0, <1>1, <1>8, <1>11, <1>14 DEF Finishing, Steady
<1> QED  BY <1>10, <1>20, <1>21, <1>22, Elsewhere DEF Alone

LEMMA Audits ==
  ASSUME Inv, NEW g \in Groups, Audit(g)
  PROVE  Inv'
<1>0. TypeOK /\ GroupInv(g) /\ status[g] = "running" /\ ~Unfinished(g)
  BY DEF Inv, Audit, Live
<1>1. CASE Abandon(g, "raised")  BY <1>1, Abandoned
<1>2. CASE /\ status' = [status EXCEPT ![g] = "returned"] /\ ReleaseAll(g)
           /\ UNCHANGED <<pending, allocated, current, outputs, nodes, active, worker>>
  <2>1. status'[g] = "returned" /\ \A h \in Groups : h # g => status'[h] = status[h]
    BY <1>0, <1>2 DEF TypeOK
  <2>2. status' \in [Groups -> Statuses]  BY <1>0, <1>2 DEF TypeOK, Statuses
  <2>3. sessions' = sessions \ active[g]  BY <1>2 DEF ReleaseAll
  <2>4. TypeOK'  BY <2>2, <2>3, <1>0, <1>2 DEF TypeOK
  <2>5. Forest(g) /\ Sessions(g)  BY <1>0 DEF GroupInv, Open
  <2>6. Forest(g)'  BY <2>5, <1>2, SameForest
  <2>7. Complete(g)'  BY <1>0, <1>2 DEF Complete, Unfinished
  <2>8. Sessions(g)'  BY <2>1, <2>3, <2>5, <1>2 DEF Sessions
  <2>9. GroupInv(g)'  BY <2>1, <2>6, <2>7, <2>8, <1>0, <1>2 DEF GroupInv, Open
  <2>10. \A h \in Groups : h # g => Same(h)
    <3>1. active[g] \subseteq {g} \X Slots  BY <2>5 DEF Sessions
    <3> QED  BY <3>1, <2>1, <2>3, <1>2 DEF Same
  <2> QED  BY <2>4, <2>9, <2>10, Elsewhere
<1> QED  BY <1>1, <1>2 DEF Audit

LEMMA Postprocesses ==
  ASSUME Inv, NEW g \in Groups, Postprocess(g)
  PROVE  Inv'
<1>0. TypeOK /\ GroupInv(g) /\ status[g] = "returned"
      /\ status' = [status EXCEPT ![g] = "done"]
      /\ UNCHANGED <<pending, allocated, current, outputs, nodes, active, sessions, worker>>
  BY DEF Inv, Postprocess
<1>1. status'[g] = "done" /\ \A h \in Groups : h # g => status'[h] = status[h]
  BY <1>0 DEF TypeOK
<1>2. status' \in [Groups -> Statuses]  BY <1>0 DEF TypeOK, Statuses
<1>3. TypeOK'  BY <1>0, <1>2 DEF TypeOK
<1>4. Forest(g)'  BY <1>0, SameForest DEF GroupInv, Open
<1>5. Complete(g)'  BY <1>0 DEF Complete, GroupInv
<1>6. Sessions(g)'
  <2>1. Sessions(g)  BY <1>0 DEF GroupInv
  <2> QED  BY <2>1, <1>0, <1>1 DEF Sessions
<1>7. GroupInv(g)'  BY <1>0, <1>1, <1>4, <1>5, <1>6 DEF GroupInv, Open
<1>8. \A h \in Groups : h # g => Same(h)  BY <1>0, <1>1 DEF Same
<1> QED  BY <1>3, <1>7, <1>8, Elsewhere

(* The worker's own steps move no group.                                   *)
LEMMA WorkerSteps ==
  ASSUME Inv, worker' \in Workers,
         UNCHANGED <<pending, allocated, current, outputs, nodes, active, status, sessions>>
  PROVE  Inv'
<1>1. TypeOK'  BY DEF Inv, TypeOK
<1>2. \A g \in Groups : Same(g)  BY DEF Same
<1> QED  BY <1>1, <1>2, Untouched DEF Inv
-----------------------------------------------------------------------------
LEMMA InitInv ==
  ASSUME Init
  PROVE  Inv
<1>1. PICK q : q = [i \in 1..InitialRollouts |-> Queue(i - 1, Root, Fresh(i - 1))]  OBVIOUS
<1>2. NoStamp \in Stamps /\ <<>> \in Seq(Stamps) /\ InitialRollouts \in Nat
  BY GroupAssumption DEF NoStamp, Stamps
<1>3. ASSUME NEW i \in 1..InitialRollouts
      PROVE  /\ q[i] \in Items /\ q[i].slot = i - 1 /\ q[i].parent = Root
             /\ q[i].data.root = i - 1 /\ q[i].data.response = <<>>
             /\ q[i].data.initial = NoStamp /\ q[i].data.turns = 0
  <2>1. i - 1 \in Slots  BY GroupAssumption DEF Slots
  <2>2. q[i] = Queue(i - 1, Root, Fresh(i - 1))  BY <1>1
  <2>3. Fresh(i - 1) \in Data  BY <2>1, <1>2, GroupAssumption DEF Fresh, Data
  <2>4. q[i].slot = i - 1 /\ q[i].parent = Root /\ q[i].data = Fresh(i - 1)
    BY <2>2 DEF Queue
  <2>5. q[i] \in Items  BY <2>1, <2>2, <2>3 DEF Queue, Items
  <2> QED  BY <2>4, <2>5 DEF Fresh
<1>4. q \in Seq(Items) /\ Len(q) = InitialRollouts
  <2>1. q = [i \in 1..InitialRollouts |-> q[i]]  BY <1>1
  <2>2. q \in [1..InitialRollouts -> Items]  BY <2>1, <1>3
  <2> QED  BY <2>2, <1>1, <1>2
<1>5. /\ pending = [g \in Groups |-> q] /\ allocated = [g \in Groups |-> InitialRollouts]
      /\ current = [g \in Groups |-> Idle]
      /\ outputs = [g \in Groups |-> [s \in Slots |-> Missing]]
      /\ nodes = [g \in Groups |-> [s \in Slots |-> Missing]]
      /\ active = [g \in Groups |-> {}] /\ status = [g \in Groups |-> "running"]
      /\ sessions = {} /\ worker = "running"
  BY <1>1 DEF Init
<1>6. TypeOK
  <2>1. pending \in [Groups -> Seq([slot: Slots, parent: Slots \cup {Root}, data: Data])]
    BY <1>4, <1>5 DEF Items
  <2>2. allocated \in [Groups -> 0..Size]  BY <1>5, GroupAssumption
  <2>3. [s \in Slots |-> Missing] \in [Slots -> {Missing} \cup Outputs]
        /\ [s \in Slots |-> Missing] \in [Slots -> {Missing} \cup Nodes]
    OBVIOUS
  <2>4. outputs \in [Groups -> [Slots -> {Missing} \cup Outputs]]
        /\ nodes \in [Groups -> [Slots -> {Missing} \cup Nodes]]
    BY <2>3, <1>5
  <2>5. status \in [Groups -> Statuses] /\ worker \in Workers  BY <1>5 DEF Statuses, Workers
  <2>6. active \in [Groups -> SUBSET (Groups \X Slots)] /\ sessions \subseteq Groups \X Slots
        /\ current \in [Groups -> {Idle} \cup
             [slot: Slots, phase: Phases, afterTools: BOOLEAN, data: Data]]
    BY <1>5
  <2> QED  BY <2>1, <2>2, <2>4, <2>5, <2>6 DEF TypeOK, Outputs, Nodes
<1>7. ASSUME NEW g \in Groups
      PROVE  GroupInv(g)
  <2>1. /\ pending[g] = q /\ allocated[g] = InitialRollouts /\ current[g] = Idle
        /\ active[g] = {} /\ status[g] = "running"
        /\ \A s \in Slots : outputs[g][s] = Missing /\ nodes[g][s] = Missing
    BY <1>5
  <2>2. First(g) = 0 /\ ~Busy(g)  BY <2>1, <1>2, <1>4 DEF First, Busy
  <2>3. ASSUME NEW s \in Handed(g)
        PROVE  Leaf(g, s).parent = Root /\ Leaf(g, s).root = s /\ Leaf(g, s).length = 0
    <3>1. s + 1 \in 1..InitialRollouts /\ s \in Nat  BY <2>1, <1>2 DEF Handed
    <3>2. PICK i \in 1..InitialRollouts : i = s + 1  BY <3>1
    <3>3. Item(g, s) = q[i]  BY <2>1, <2>2, <3>1, <3>2 DEF Item
    <3>4. ~(s < First(g))  BY <2>2, <3>1
    <3>5. Len(<<>>) = 0  OBVIOUS
    <3>6. i - 1 = s  BY <3>1, <3>2
    <3> QED  BY <3>3, <3>4, <3>5, <3>6, <1>3 DEF Leaf
  <2>4. Places(g)
    <3>1. \A i \in 1..Len(pending[g]) : pending[g][i].slot = First(g) + i - 1
      BY <2>1, <2>2, <1>3, <1>4
    <3>2. \A s \in Slots : ~(s < 0)  BY GroupAssumption DEF Slots
    <3> QED  BY <3>1, <3>2, <2>1, <2>2, <1>2, <1>4 DEF Places
  <2>5. Tree(g)  BY <2>3 DEF Tree, Rooted
  <2>6. Boundaries(g)  BY <2>3 DEF Boundaries
  <2>7. Waiting(g)  BY <2>1, <1>3, <1>4, GroupAssumption DEF Waiting, Begun
  <2>8. Trajectory(g) /\ Entropy(g) /\ Complete(g)
    BY <2>1, <2>2 DEF Trajectory, Entropy, Complete
  <2>9. Sessions(g)  BY <2>1, <2>2, <2>3, <1>5 DEF Sessions
  <2> QED
    BY <2>1, <2>4, <2>5, <2>6, <2>7, <2>8, <2>9, <1>2 DEF GroupInv, Forest, Open
<1> QED  BY <1>6, <1>7 DEF Inv

LEMMA StepInv ==
  ASSUME Inv, [Next]_vars
  PROVE  Inv'
<1>1. CASE UNCHANGED vars
  BY <1>1, WorkerSteps DEF vars, Inv, TypeOK
<1>2. ASSUME NEW g \in Groups, GroupStep(g)
      PROVE  Inv'
  <2>1. CASE StartPending(g)  BY <2>1, StartsPending
  <2>2. CASE StartFresh(g)  BY <2>2, StartsFresh
  <2>3. CASE \E next \in {"tools", "interacting", "terminated"}, logprobs \in LogprobCases,
               take \in BOOLEAN : Generate(g, next, logprobs, take)
    BY <2>3, GroupAssumption, Generates
  <2>4. CASE (\E room \in BOOLEAN : Observe(g, room)) \/ ObserveEnds(g)  BY <2>4, Observes
  <2>5. CASE FinishTrajectory(g)  BY <2>5, Finishes
  <2>6. CASE Audit(g)  BY <2>6, Audits
  <2>7. CASE Postprocess(g)  BY <2>7, Postprocesses
  <2>8. CASE CancelGroup(g)  BY <2>8, Abandoned DEF CancelGroup
  <2> QED  BY <1>2, <2>1, <2>2, <2>3, <2>4, <2>5, <2>6, <2>7, <2>8 DEF GroupStep
<1>3. ASSUME NEW g \in Groups, RunFails(g) \/ PostprocessFails(g)
      PROVE  Inv'
  BY <1>3, Abandoned DEF RunFails, PostprocessFails
<1>4. CASE Gather \/ Reraise \/ Cancelled \/ Ended
  BY <1>4, WorkerSteps DEF Gather, Reraise, Cancelled, Ended, Workers, vars, Inv, TypeOK
<1> QED  BY <1>1, <1>2, <1>3, <1>4 DEF Next

(* The invariant of the group controller.                                  *)
THEOREM Invariant == Spec => []Inv
BY InitInv, StepInv, PTL DEF Spec

(* Every variable keeps its range and allocated never passes rollout.n.    *)
THEOREM TypeCorrect == Spec => []TypeOK
<1>1. Inv => TypeOK  BY DEF Inv
<1> QED  BY <1>1, Invariant, PTL

(* No trajectory is lost by the scheduler and none finds its session gone: *)
(* StartFresh's "lost" branch and FinishTrajectory's KeyError never run.   *)
THEOREM LosesNothing == Spec => []NeverLoses
<1>1. Inv => NeverLoses  BY DEF Inv, GroupInv, NeverLoses
<1> QED  BY <1>1, Invariant, PTL
-----------------------------------------------------------------------------
(* Where the leaves of an open group are, in terms of First.               *)
LEMMA PlacesOfLeaves ==
  ASSUME TypeOK, NEW g \in Groups, Places(g)
  PROVE  /\ Queued(g) = {s \in Handed(g) : s >= First(g)}
         /\ Running(g) = {s \in Slots : Busy(g) /\ s = First(g) - 1}
         /\ Finished(g) = {s \in Slots : s < First(g) /\ (Busy(g) => s # First(g) - 1)}
         /\ Handed(g) \subseteq Slots /\ Slots \subseteq Nat
         /\ First(g) \in Nat /\ First(g) <= allocated[g] /\ allocated[g] \in Nat
         /\ \A i \in 1..Len(pending[g]) :
              /\ pending[g][i].slot = First(g) + i - 1 /\ pending[g][i].slot \in Handed(g)
              /\ Leaf(g, First(g) + i - 1).parent = pending[g][i].parent
<1>1. /\ Len(pending[g]) \in Nat /\ allocated[g] \in 0..Size /\ allocated[g] \in Nat
      /\ First(g) = allocated[g] - Len(pending[g]) /\ Len(pending[g]) <= allocated[g]
  BY Ranges DEF First, Places
<1>2. First(g) \in Nat /\ First(g) <= allocated[g]  BY <1>1
<1>3. Handed(g) \subseteq Slots /\ Slots \subseteq Nat
  BY <1>1, GroupAssumption DEF Handed, Slots
<1>4. ASSUME NEW i \in 1..Len(pending[g])
      PROVE  /\ pending[g][i].slot = First(g) + i - 1 /\ pending[g][i].slot \in Handed(g)
             /\ pending[g][i].slot >= First(g)
             /\ Leaf(g, First(g) + i - 1).parent = pending[g][i].parent
  <2>1. pending[g][i].slot = First(g) + i - 1  BY DEF Places
  <2>2. First(g) + i - 1 \in Handed(g) /\ First(g) + i - 1 >= First(g)
    BY <1>1, <1>2 DEF Handed
  <2>3. ~(First(g) + i - 1 < First(g)) /\ (First(g) + i - 1) - First(g) + 1 = i
    BY <1>2
  <2>4. Item(g, First(g) + i - 1) = pending[g][i]  BY <2>3 DEF Item
  <2>5. Leaf(g, First(g) + i - 1).parent = pending[g][i].parent  BY <2>3, <2>4 DEF Leaf
  <2> QED  BY <2>1, <2>2, <2>5
<1>5. ASSUME NEW s \in Handed(g), s >= First(g)
      PROVE  s \in Queued(g)
  <2>1. PICK i : i = s - First(g) + 1  OBVIOUS
  <2>2. i \in 1..Len(pending[g]) /\ First(g) + i - 1 = s
    <3>1. PICK m, l, f : m = allocated[g] /\ l = Len(pending[g]) /\ f = First(g)  OBVIOUS
    <3>2. m \in Nat /\ l \in Nat /\ f \in Nat /\ f = m - l  BY <3>1, <1>1, <1>2
    <3>3. s \in 0..m - 1 /\ s >= f /\ i = s - f + 1  BY <3>1, <2>1, <1>5 DEF Handed
    <3>4. i \in 1..l /\ f + i - 1 = s  BY <3>2, <3>3
    <3> QED  BY <3>1, <3>4
  <2>3. pending[g][i].slot = s  BY <2>2, <1>4
  <2> QED  BY <2>2, <2>3 DEF Queued
<1>6. Queued(g) = {s \in Handed(g) : s >= First(g)}
  <2>1. \A s \in Queued(g) : s \in Handed(g) /\ s >= First(g)  BY <1>4 DEF Queued
  <2> QED  BY <2>1, <1>5
<1>7. Running(g) = {s \in Slots : Busy(g) /\ s = First(g) - 1}
  <2>1. Busy(g) => current[g].slot = First(g) - 1 /\ current[g].slot \in Slots
    BY Ranges DEF Places, Runs
  <2> QED  BY <2>1 DEF Running, Busy
<1>8. Finished(g) = {s \in Slots : s < First(g) /\ (Busy(g) => s # First(g) - 1)}
  BY DEF Finished, Places
<1> QED  BY <1>1, <1>2, <1>3, <1>4, <1>6, <1>7, <1>8

LEMMA ForestConserved ==
  ASSUME Inv
  PROVE  SlotsConserved
<1> SUFFICES ASSUME NEW g \in Groups, status[g] \in {"running", "returned", "done"}
             PROVE  /\ Queued(g) \cup Running(g) \cup Finished(g) = 0..allocated[g] - 1
                    /\ Queued(g) \cap Running(g) = {}
                    /\ (Queued(g) \cup Running(g)) \cap Finished(g) = {}
                    /\ \A i, j \in 1..Len(pending[g]) :
                         pending[g][i].slot = pending[g][j].slot => i = j
  BY DEF SlotsConserved
<1>1. TypeOK /\ Places(g)  BY DEF Inv, GroupInv, Forest, Open
<1>2. PICK f \in Nat : f = First(g)  BY <1>1, PlacesOfLeaves
<1>3. /\ Queued(g) = {s \in Handed(g) : s >= f}
      /\ Running(g) = {s \in Slots : Busy(g) /\ s = f - 1}
      /\ Finished(g) = {s \in Slots : s < f /\ (Busy(g) => s # f - 1)}
      /\ Handed(g) \subseteq Slots /\ Slots \subseteq Nat /\ f <= allocated[g]
      /\ allocated[g] \in Nat
      /\ \A i \in 1..Len(pending[g]) : pending[g][i].slot = f + i - 1
  BY <1>1, <1>2, PlacesOfLeaves
<1>4. Queued(g) \cup Running(g) \cup Finished(g) = Handed(g)
  <2>0. Slots \subseteq Nat /\ Handed(g) \subseteq Slots /\ allocated[g] \in Nat
        /\ f <= allocated[g]
    BY <1>3
  <2>1. ASSUME NEW s \in Slots, s < f
        PROVE  s \in Handed(g)
    <3>1. PICK m \in Nat : m = allocated[g]  BY <2>0
    <3>2. s \in Nat /\ s < f /\ f <= m  BY <3>1, <2>0, <2>1
    <3>3. s \in 0..m - 1  BY <3>2, <1>2
    <3> QED  BY <3>1, <3>3 DEF Handed
  <2>2. ASSUME NEW s \in Handed(g)
        PROVE  s \in Slots /\ (s >= f \/ s < f)
    <3>1. s \in Slots /\ s \in Nat  BY <2>0
    <3> QED  BY <3>1, <1>2
  <2>3. Running(g) \cup Finished(g) = {s \in Slots : s < f}
    <3>1. ASSUME NEW s \in Slots
          PROVE  s \in Running(g) \cup Finished(g) <=> s < f
      <4>1. s = f - 1 => s < f  BY <1>2
      <4> QED  BY <1>3, <4>1
    <3>2. Running(g) \subseteq Slots /\ Finished(g) \subseteq Slots  BY <1>3
    <3> QED  BY <3>1, <3>2
  <2> QED  BY <2>1, <2>2, <2>3, <1>3
<1>5. Queued(g) \cap Running(g) = {}  BY <1>2, <1>3
<1>6. (Queued(g) \cup Running(g)) \cap Finished(g) = {}
  <2>1. ASSUME NEW s \in Finished(g)
        PROVE  s \notin Queued(g) /\ s \notin Running(g)
    <3>1. s \in Nat /\ s < f /\ (Busy(g) => s # f - 1)  BY <2>1, <1>3
    <3>2. ~(s >= f)  BY <3>1, <1>2
    <3> QED  BY <3>1, <3>2, <1>3
  <2> QED  BY <2>1
<1>7. \A i, j \in 1..Len(pending[g]) : pending[g][i].slot = pending[g][j].slot => i = j
  <2>1. \A i \in 1..Len(pending[g]) : i \in Int  OBVIOUS
  <2>2. \A i, j \in Int : f + i - 1 = f + j - 1 => i = j  BY <1>2
  <2> QED  BY <2>1, <2>2, <1>3
<1> QED  BY <1>4, <1>5, <1>6, <1>7 DEF Handed

(* Each leaf handed out is waiting, running or finished, and only one of   *)
(* them: rollout.n outputs come from rollout.n trajectories.               *)
THEOREM Conserved == Spec => []SlotsConserved
BY ForestConserved, Invariant, PTL

LEMMA ForestValid ==
  ASSUME Inv
  PROVE  LineageValid
<1> SUFFICES ASSUME NEW g \in Groups, status[g] \in {"returned", "done"}, NEW s \in Slots
             PROVE  IF nodes[g][s].parent = Root THEN RootValid(g, s) ELSE BranchValid(g, s)
  BY DEF LineageValid
<1>1. TypeOK /\ Places(g) /\ Tree(g) /\ Complete(g)
  BY DEF Inv, GroupInv, Forest, Open
<1>2. \A t \in Slots : t < First(g) /\ t \in Handed(g) /\ t \in Nat
  <2>1. ASSUME NEW t \in Slots
        PROVE  t < First(g) /\ t \in Nat
    BY <1>1 DEF Complete, Places, Slots
  <2>2. First(g) \in Nat /\ First(g) <= allocated[g] /\ allocated[g] \in Nat
    BY <1>1, PlacesOfLeaves
  <2> QED  BY <2>1, <2>2 DEF Handed
<1>3. \A t \in Slots :
        /\ Leaf(g, t).parent = nodes[g][t].parent /\ Leaf(g, t).root = nodes[g][t].root
        /\ Leaf(g, t).length = nodes[g][t].shared
  BY <1>2 DEF Leaf
<1>4. CASE nodes[g][s].parent = Root
  <2>1. Rooted(g, s)  BY <1>1, <1>2, <1>3, <1>4 DEF Tree
  <2> QED  BY <2>1, <1>3, <1>4 DEF Rooted, RootValid
<1>5. CASE nodes[g][s].parent # Root
  <2>1. Forked(g, s)  BY <1>1, <1>2, <1>3, <1>5 DEF Tree
  <2>2. Leaf(g, s).parent \in Handed(g) /\ Leaf(g, s).parent < s /\ s >= InitialRollouts
        /\ Leaf(g, s).root = Leaf(g, Leaf(g, s).parent).root /\ Leaf(g, s).length >= 1
    BY <2>1 DEF Forked
  <2>3. Leaf(g, s).length \in Nat  BY <1>1, <1>2, LeafRange
  <2>4. Leaf(g, s).parent \in Slots  BY <2>2, <1>1, PlacesOfLeaves
  <2> QED  BY <2>2, <2>3, <2>4, <1>3, <1>5 DEF BranchValid
<1> QED  BY <1>4, <1>5

(* The lineage compute_arpo_verl checks before it assigns advantages: a    *)
(* returned group passes, whatever its draws.                              *)
THEOREM LineageHolds == Spec => []LineageValid
BY ForestValid, Invariant, PTL

LEMMA ForestAgrees ==
  ASSUME Inv
  PROVE  PrefixesAgree
<1> SUFFICES ASSUME NEW g \in Groups
             PROVE  /\ \A s \in Finished(g) : nodes[g][s].parent \in Finished(g) => PrefixShared(g, s)
                    /\ \A s \in Slots : \A t \in Slots :
                         /\ nodes[g][s] # Missing /\ nodes[g][t] # Missing
                         /\ nodes[g][t].parent # Root /\ s # t
                         => /\ nodes[g][s].parent = nodes[g][t].parent =>
                                 nodes[g][s].shared # nodes[g][t].shared
                            /\ nodes[g][t].parent = s => nodes[g][s].shared < nodes[g][t].shared
  BY DEF PrefixesAgree
<1>1. CASE ~Open(g)
  BY <1>1 DEF Inv, GroupInv, Emptied, Finished
<1>2. CASE Open(g)
  <2>1. TypeOK /\ Places(g) /\ Tree(g) /\ Boundaries(g)  BY <1>2 DEF Inv, GroupInv, Forest
  <2>2. \A t \in Slots : nodes[g][t] # Missing =>
          /\ t \in Handed(g) /\ t < First(g) /\ ~(t >= First(g))
          /\ Leaf(g, t).parent = nodes[g][t].parent /\ Leaf(g, t).length = nodes[g][t].shared
    <3>1. First(g) \in Nat /\ First(g) <= allocated[g] /\ allocated[g] \in Nat /\ Slots \subseteq Nat
      BY <2>1, PlacesOfLeaves
    <3>2. \A t \in Slots : nodes[g][t] # Missing => t < First(g)  BY <2>1 DEF Places
    <3> QED  BY <3>1, <3>2 DEF Leaf, Handed
  <2>3. \A t \in Finished(g) :
          /\ t \in Slots /\ nodes[g][t] # Missing /\ Text(g, t) = outputs[g][t].response
    <3>1. ASSUME NEW t \in Slots, outputs[g][t] # Missing
          PROVE  nodes[g][t] # Missing /\ Text(g, t) = outputs[g][t].response
      <4>1. t < First(g) /\ (Busy(g) => t # current[g].slot)  BY <2>1, <3>1 DEF Places
      <4>2. nodes[g][t] # Missing  BY <4>1, <2>1, SMTT(30) DEF Places
      <4> QED  BY <4>1, <4>2, <2>2 DEF Text
    <3> QED  BY <3>1 DEF Finished
  <2>4. ASSUME NEW s \in Finished(g), nodes[g][s].parent \in Finished(g)
        PROVE  PrefixShared(g, s)
    <3>1. PICK p, n : p = nodes[g][s].parent /\ n = nodes[g][s].shared  OBVIOUS
    <3>2. p \in Slots /\ p # Root /\ s \in Handed(g) /\ p \in Handed(g)
          /\ Leaf(g, s).parent = p /\ Leaf(g, s).length = n
      BY <3>1, <2>2, <2>3, <2>4 DEF Slots, Root
    <3>3. Forked(g, s)  BY <3>2, <2>1 DEF Tree
    <3>4. PICK a, b : a = outputs[g][s].response /\ b = outputs[g][p].response  OBVIOUS
    <3>5. a = Text(g, s) /\ b = Text(g, p)  BY <3>1, <3>4, <2>3, <2>4
    <3>6. a \in Seq(Stamps) /\ b \in Seq(Stamps) /\ Len(a) \in Nat /\ Len(b) \in Nat /\ n \in Nat
      BY <3>2, <3>5, <2>1, LeafRange
    <3>7. n <= Len(a) /\ n <= Len(b) /\ \A k \in 1..n : a[k] = b[k]
      BY <3>2, <3>3, <3>5 DEF Forked
    <3>8. Least(n, Len(a)) = n /\ Least(n, Len(b)) = n  BY <3>6, <3>7 DEF Least
    <3>9. SubSeq(a, 1, n) = SubSeq(b, 1, n)
      <4>1. SubSeq(a, 1, n) = [k \in 1..n |-> a[k]] /\ SubSeq(b, 1, n) = [k \in 1..n |-> b[k]]
        BY <3>6, <3>7
      <4> QED  BY <4>1, <3>7
    <3> QED  BY <3>1, <3>4, <3>8, <3>9 DEF PrefixShared, Agree
  <2>5. ASSUME NEW s \in Slots, NEW t \in Slots, nodes[g][s] # Missing, nodes[g][t] # Missing,
               nodes[g][t].parent # Root, s # t
        PROVE  /\ nodes[g][s].parent = nodes[g][t].parent =>
                    nodes[g][s].shared # nodes[g][t].shared
               /\ nodes[g][t].parent = s => nodes[g][s].shared < nodes[g][t].shared
    BY <2>1, <2>2, <2>5 DEF Boundaries
  <2> QED  BY <2>4, <2>5
<1> QED  BY <1>1, <1>2

(* The audit's token comparison cannot fail: a fork and its parent agree   *)
(* on the recorded prefix, and no boundary of a leaf is branched twice.    *)
THEOREM PrefixesHold == Spec => []PrefixesAgree
BY ForestAgrees, Invariant, PTL

LEMMA ForestEntropy ==
  ASSUME Inv
  PROVE  InitialEntropyKept
<1> SUFFICES ASSUME NEW g \in Groups, NEW s \in Slots, outputs[g][s] # Missing,
                    outputs[g][s].response # <<>>
             PROVE  outputs[g][s].initial = outputs[g][s].response[1]
  BY DEF InitialEntropyKept, Finished
<1>1. Open(g)  BY DEF Inv, GroupInv, Emptied
<1>2. Begun(outputs[g][s].response, outputs[g][s].initial)
  BY <1>1 DEF Inv, GroupInv, Forest, Entropy
<1> QED  BY <1>2 DEF Begun

(* A leaf's draws are measured against the first generation of its tree.   *)
THEOREM EntropyKept == Spec => []InitialEntropyKept
BY ForestEntropy, Invariant, PTL

LEMMA SessionsHeld ==
  ASSUME Inv
  PROVE  SessionsOwned
<1>1. ASSUME NEW g \in Groups, Live(g)
      PROVE  {s \in Slots : <<g, s>> \in sessions} =
               Running(g) \cup {pending[g][i].slot : i \in
                 {j \in 1..Len(pending[g]) : pending[g][j].parent # Root}}
  <2>1. TypeOK /\ Places(g) /\ Sessions(g) /\ status[g] = "running"
    BY <1>1 DEF Inv, GroupInv, Forest, Open, Live
  <2>2. PICK f \in Nat : f = First(g)  BY <2>1, PlacesOfLeaves
  <2>3. PICK Branches : Branches = {pending[g][i].slot : i \in
                 {j \in 1..Len(pending[g]) : pending[g][j].parent # Root}}
    OBVIOUS
  <2>4. \A s : s \in Branches <=> s \in Handed(g) /\ s >= f /\ Leaf(g, s).parent # Root
    <3>1. ASSUME NEW i \in 1..Len(pending[g]), pending[g][i].parent # Root
          PROVE  /\ pending[g][i].slot \in Handed(g) /\ pending[g][i].slot >= f
                 /\ Leaf(g, pending[g][i].slot).parent # Root
      <4>1. pending[g][i].slot = f + i - 1 /\ pending[g][i].slot \in Handed(g)
            /\ Leaf(g, f + i - 1).parent = pending[g][i].parent
        BY <2>1, <2>2, PlacesOfLeaves
      <4> QED  BY <4>1, <3>1, <2>2
    <3>2. ASSUME NEW s \in Handed(g), s >= f, Leaf(g, s).parent # Root
          PROVE  s \in Branches
      <4>1. s \in Queued(g)  BY <3>2, <2>1, <2>2, PlacesOfLeaves
      <4>2. PICK i \in 1..Len(pending[g]) : pending[g][i].slot = s  BY <4>1 DEF Queued
      <4>3. pending[g][i].slot = f + i - 1 /\ Leaf(g, f + i - 1).parent = pending[g][i].parent
        BY <2>1, <2>2, PlacesOfLeaves
      <4> QED  BY <4>2, <4>3, <3>2, <2>3
    <3> QED  BY <3>1, <3>2, <2>3
  <2>5. \A s \in Slots : s \in Running(g) <=> Busy(g) /\ s = current[g].slot
    BY DEF Running, Busy
  <2>6. Running(g) \subseteq Slots /\ Branches \subseteq Slots
    BY <2>1, <2>4, PlacesOfLeaves
  <2>7. \A s \in Slots : <<g, s>> \in sessions <=> s \in Running(g) \/ s \in Branches
    BY <2>1, <2>2, <2>4, <2>5 DEF Sessions
  <2> QED  BY <2>3, <2>6, <2>7
<1>2. \A g \in Groups : status[g] \in Failed \cup {"returned", "done"} =>
        \A s \in Slots : <<g, s>> \notin sessions
  BY DEF Inv, GroupInv, Sessions, Failed
<1> QED  BY <1>1, <1>2 DEF SessionsOwned

(* Exactly the running leaf and the waiting forks hold a session, and none *)
(* is left once the group returns or fails.                                *)
THEOREM SessionsFollow == Spec => []SessionsOwned
BY SessionsHeld, Invariant, PTL
-----------------------------------------------------------------------------
(* The refinement: the budget's view of a leaf, in terms of First.         *)
Phase(g, s) ==
  IF ~Open(g) \/ s >= allocated[g] THEN "free"
  ELSE IF s >= First(g) THEN "queued"
  ELSE IF Busy(g) /\ s = First(g) - 1 THEN "running" ELSE "finished"
Parent(g, s) == IF Open(g) /\ s < allocated[g] THEN Leaf(g, s).parent ELSE Root
Viewed == \A g \in Groups, s \in Slots : Stage(g, s) = Phase(g, s) /\ Origin(g, s) = Parent(g, s)

LEMMA ViewIs == Inv => Viewed
<1> SUFFICES ASSUME Inv, NEW g \in Groups, NEW s \in Slots
             PROVE  Stage(g, s) = Phase(g, s) /\ Origin(g, s) = Parent(g, s)
  BY DEF Viewed
<1>1. CASE ~Open(g)
  <2>1. Emptied(g)  BY <1>1 DEF Inv, GroupInv
  <2>2. s \notin Finished(g) /\ s \notin Running(g) /\ s \notin Queued(g) /\ nodes[g][s] = Missing
    BY <2>1 DEF Emptied, Finished, Running, Queued
  <2> QED  BY <2>2, <1>1 DEF Stage, Origin, Phase, Parent
<1>2. CASE Open(g)
  <2>1. TypeOK /\ Places(g)  BY <1>2 DEF Inv, GroupInv, Forest
  <2>2. PICK f, m \in Nat : f = First(g) /\ m = allocated[g]  BY <2>1, PlacesOfLeaves
  <2>3. /\ s \in Finished(g) <=> s < f /\ (Busy(g) => s # f - 1)
        /\ s \in Running(g) <=> Busy(g) /\ s = f - 1
        /\ s \in Queued(g) <=> s \in Handed(g) /\ s >= f
        /\ s \in Nat /\ f <= m
    BY <2>1, <2>2, PlacesOfLeaves
  <2>4. s \in Handed(g) <=> s < m  BY <2>2, <2>3 DEF Handed
  <2>5. nodes[g][s] # Missing <=> s < f  BY <2>1, <2>2 DEF Places
  <2>6. CASE s < f
    <3>1. ~(s >= m) /\ ~(s >= f) /\ s < m  BY <2>2, <2>3, <2>6
    <3>2. Leaf(g, s).parent = nodes[g][s].parent  BY <2>2, <2>6 DEF Leaf
    <3>3. Origin(g, s) = Parent(g, s)  BY <3>1, <3>2, <2>2, <2>5, <2>6, <1>2 DEF Origin, Parent
    <3>4. Stage(g, s) = Phase(g, s)
      BY <3>1, <2>2, <2>3, <2>6, <1>2 DEF Stage, Phase
    <3> QED  BY <3>3, <3>4
  <2>7. CASE ~(s < f) /\ s < m
    <3>1. ~(s >= m) /\ s >= f /\ s \in Queued(g) /\ s \notin Running(g) /\ s \notin Finished(g)
      BY <2>2, <2>3, <2>4, <2>7
    <3>2. PICK i \in 1..Len(pending[g]) :
            i = CHOOSE j \in 1..Len(pending[g]) : pending[g][j].slot = s
      BY <3>1 DEF Queued
    <3>3. pending[g][i].slot = s
      <4>1. \E j \in 1..Len(pending[g]) : pending[g][j].slot = s  BY <3>1 DEF Queued
      <4> QED  BY <3>2, <4>1
    <3>4. Leaf(g, s).parent = pending[g][i].parent
      BY <3>3, <2>1, PlacesOfLeaves
    <3>5. Origin(g, s) = pending[g][i].parent  BY <3>1, <3>2, <2>5, <2>7 DEF Origin
    <3>6. Parent(g, s) = Leaf(g, s).parent  BY <2>2, <2>7, <1>2 DEF Parent
    <3>7. Stage(g, s) = Phase(g, s)  BY <3>1, <2>2, <1>2 DEF Stage, Phase
    <3> QED  BY <3>4, <3>5, <3>6, <3>7
  <2>8. CASE ~(s < m)
    <3>1. ~(s < f) /\ s >= m /\ s \notin Queued(g) /\ s \notin Running(g) /\ s \notin Finished(g)
      BY <2>2, <2>3, <2>4, <2>8
    <3>2. Stage(g, s) = Phase(g, s)  BY <3>1, <2>2, <1>2 DEF Stage, Phase
    <3>3. Origin(g, s) = Parent(g, s)  BY <3>1, <2>2, <2>5, <2>8 DEF Origin, Parent
    <3> QED  BY <3>2, <3>3
  <2> QED  BY <2>6, <2>7, <2>8
<1> QED  BY <1>1, <1>2

LEMMA ViewIsNext == Inv' => Viewed'
BY ViewIs, PTL

LEMMA SameView ==
  ASSUME NEW g \in Groups, Same(g)
  PROVE  /\ \A s \in Slots : Stage(g, s)' = Stage(g, s) /\ Origin(g, s)' = Origin(g, s)
         /\ Fate(g)' = Fate(g)
<1>1. Finished(g)' = Finished(g) /\ Running(g)' = Running(g) /\ Queued(g)' = Queued(g)
  BY DEF Finished, Running, Queued, Same
<1>2. \A s \in Slots : Stage(g, s)' = Stage(g, s)  BY <1>1 DEF Stage
<1>3. \A s \in Slots : Origin(g, s)' = Origin(g, s)  BY <1>1 DEF Origin, Same
<1>4. Fate(g)' = Fate(g)  BY DEF Fate, Same
<1> QED  BY <1>2, <1>3, <1>4

StageBar == [g \in Groups |-> [s \in Slots |-> Stage(g, s)]]
OriginBar == [g \in Groups |-> [s \in Slots |-> Origin(g, s)]]
FateBar == [g \in Groups |-> Fate(g)]

(* A change of one leaf of one group, as a change of the budget's arrays.  *)
LEMMA StageChange ==
  ASSUME NEW g \in Groups, Alone(g), NEW s \in Slots, NEW v,
         \A t \in Slots : Stage(g, t)' = IF t = s THEN v ELSE Stage(g, t)
  PROVE  StageBar' = [StageBar EXCEPT ![g][s] = v]
<1>1. \A h \in Groups : h # g => \A t \in Slots : Stage(h, t)' = Stage(h, t)
  BY SameView DEF Alone
<1> QED  BY <1>1 DEF StageBar

LEMMA StageKept ==
  ASSUME NEW g \in Groups, Alone(g), \A t \in Slots : Stage(g, t)' = Stage(g, t)
  PROVE  StageBar' = StageBar
<1>1. \A h \in Groups : \A t \in Slots : Stage(h, t)' = Stage(h, t)
  BY SameView DEF Alone
<1> QED  BY <1>1 DEF StageBar

LEMMA OriginKept ==
  ASSUME NEW g \in Groups, Alone(g), \A t \in Slots : Origin(g, t)' = Origin(g, t)
  PROVE  OriginBar' = OriginBar
<1>1. \A h \in Groups : \A t \in Slots : Origin(h, t)' = Origin(h, t)
  BY SameView DEF Alone
<1> QED  BY <1>1 DEF OriginBar

LEMMA OriginChange ==
  ASSUME NEW g \in Groups, Alone(g), NEW s \in Slots, NEW v,
         \A t \in Slots : Origin(g, t)' = IF t = s THEN v ELSE Origin(g, t)
  PROVE  OriginBar' = [OriginBar EXCEPT ![g][s] = v]
<1>1. \A h \in Groups : h # g => \A t \in Slots : Origin(h, t)' = Origin(h, t)
  BY SameView DEF Alone
<1> QED  BY <1>1 DEF OriginBar

LEMMA FateKept ==
  ASSUME NEW g \in Groups, Alone(g), Fate(g)' = Fate(g)
  PROVE  FateBar' = FateBar
<1>1. \A h \in Groups : Fate(h)' = Fate(h)  BY SameView DEF Alone
<1> QED  BY <1>1 DEF FateBar

(* The leaves of a running group before and after a step of its own.       *)
LEMMA SteadyView ==
  ASSUME Inv, Inv', NEW g \in Groups, Steady(g)
  PROVE  /\ Fate(g) = "open" /\ Fate(g)' = "open"
         /\ First(g) \in Nat /\ First(g)' \in Nat /\ allocated[g] \in Nat /\ allocated'[g] \in Nat
         /\ First(g) <= allocated[g] /\ allocated[g] <= Size /\ Slots \subseteq Nat
         /\ \A s \in Slots :
              /\ Stage(g, s) =
                   IF s >= allocated[g] THEN "free" ELSE IF s >= First(g) THEN "queued"
                   ELSE IF Busy(g) /\ s = First(g) - 1 THEN "running" ELSE "finished"
              /\ Stage(g, s)' =
                   IF s >= allocated'[g] THEN "free" ELSE IF s >= First(g)' THEN "queued"
                   ELSE IF Busy(g)' /\ s = First(g)' - 1 THEN "running" ELSE "finished"
              /\ Origin(g, s) = IF s < allocated[g] THEN Leaf(g, s).parent ELSE Root
              /\ Origin(g, s)' = IF s < allocated'[g] THEN Leaf(g, s)'.parent ELSE Root
              /\ s < allocated[g] => Leaf(g, s)' = Leaf(g, s)
<1>1. status[g] = "running" /\ status'[g] = "running" /\ Open(g) /\ Open(g)'
  BY DEF Steady, Open
<1>2. Fate(g) = "open" /\ Fate(g)' = "open"  BY <1>1 DEF Fate
<1>3. TypeOK /\ Places(g) /\ TypeOK' /\ Places(g)'
  BY <1>1 DEF Inv, GroupInv, Forest
<1>4. /\ First(g) \in Nat /\ allocated[g] \in Nat /\ First(g) <= allocated[g]
      /\ allocated[g] <= Size /\ Slots \subseteq Nat
  BY <1>3, PlacesOfLeaves, Ranges, GroupAssumption
<1>5. First(g)' \in Nat /\ allocated'[g] \in Nat
  <2>1. allocated'[g] \in 0..Size /\ Len(pending'[g]) \in Nat /\ Len(pending'[g]) <= allocated'[g]
    BY <1>3 DEF TypeOK, Places
  <2> QED  BY <2>1, GroupAssumption DEF First
<1>6. Viewed /\ Viewed'  BY ViewIs, ViewIsNext
<1>7. ASSUME NEW s \in Slots
      PROVE  /\ Stage(g, s) =
                   IF s >= allocated[g] THEN "free" ELSE IF s >= First(g) THEN "queued"
                   ELSE IF Busy(g) /\ s = First(g) - 1 THEN "running" ELSE "finished"
             /\ Stage(g, s)' =
                   IF s >= allocated'[g] THEN "free" ELSE IF s >= First(g)' THEN "queued"
                   ELSE IF Busy(g)' /\ s = First(g)' - 1 THEN "running" ELSE "finished"
             /\ Origin(g, s) = IF s < allocated[g] THEN Leaf(g, s).parent ELSE Root
             /\ Origin(g, s)' = IF s < allocated'[g] THEN Leaf(g, s)'.parent ELSE Root
  BY <1>1, <1>6 DEF Viewed, Phase, Parent
<1>8. ASSUME NEW s \in Slots, s < allocated[g]
      PROVE  Leaf(g, s)' = Leaf(g, s)
  <2>1. s \in Handed(g)  BY <1>4, <1>8 DEF Handed
  <2> QED  BY <2>1 DEF Steady, Grows
<1> QED  BY <1>2, <1>4, <1>5, <1>7, <1>8

LEMMA StartRefines ==
  ASSUME Inv, Inv', NEW g \in Groups, Alone(g), Starting(g)
  PROVE  Budget!BudgetNext
<1>1. Steady(g) /\ ~Busy(g) /\ Busy(g)'  BY DEF Starting
<1>2. PICK f \in Nat, m \in Nat, k \in Nat :
        /\ f = First(g) /\ First(g)' = f + 1 /\ m = allocated[g] /\ k = allocated'[g]
        /\ \/ f < m /\ k = m
           \/ f = m /\ f < Size /\ k = f + 1 /\ Leaf(g, f)'.parent = Root
  BY <1>1, SteadyView DEF Starting
<1>3. /\ Fate(g) = "open" /\ Fate(g)' = "open" /\ m <= Size /\ f <= m /\ Slots \subseteq Nat
      /\ \A s \in Slots :
           /\ Stage(g, s) = IF s >= m THEN "free" ELSE IF s >= f THEN "queued" ELSE "finished"
           /\ Stage(g, s)' = IF s >= k THEN "free" ELSE IF s >= f + 1 THEN "queued"
                             ELSE IF s = f THEN "running" ELSE "finished"
           /\ Origin(g, s) = IF s < m THEN Leaf(g, s).parent ELSE Root
           /\ Origin(g, s)' = IF s < k THEN Leaf(g, s)'.parent ELSE Root
           /\ s < m => Leaf(g, s)' = Leaf(g, s)
  BY <1>1, <1>2, SteadyView
<1>4. f \in Slots /\ \A s \in Slots : s \in Nat  BY <1>2, <1>3, GroupAssumption DEF Slots
<1>5. \A s \in Slots : Stage(g, s)' = IF s = f THEN "running" ELSE Stage(g, s)
  BY <1>2, <1>3, <1>4
<1>6. \A s \in Slots : Origin(g, s)' = Origin(g, s)
  <2>1. CASE k = m  BY <2>1, <1>3
  <2>2. CASE f = m /\ k = f + 1 /\ Leaf(g, f)'.parent = Root
    <3>1. ASSUME NEW s \in Slots
          PROVE  Origin(g, s)' = Origin(g, s)
      <4>1. CASE s = f
        <5>1. s < k /\ ~(s < m)  BY <4>1, <2>2, <1>2
        <5>2. Leaf(g, s)' = Leaf(g, f)'  BY <4>1
        <5> QED  BY <5>1, <5>2, <2>2, <1>3
      <4>2. CASE s < f  BY <4>2, <2>2, <1>2, <1>3, <1>4
      <4>3. CASE s > f
        <5>1. ~(s < k) /\ ~(s < m)  BY <4>3, <2>2, <1>2, <1>4
        <5> QED  BY <5>1, <1>3
      <4> QED  BY <4>1, <4>2, <4>3, <1>2, <1>4
    <3> QED  BY <3>1
  <2> QED  BY <2>1, <2>2, <1>2
<1>7. StageBar' = [StageBar EXCEPT ![g][f] = "running"] /\ OriginBar' = OriginBar
      /\ FateBar' = FateBar
  BY <1>3, <1>4, <1>5, <1>6, StageChange, OriginKept, FateKept
<1>8. CASE f < m
  <2>1. \A s \in Slots : Stage(g, s) # "running"  BY <1>3
  <2>2. Stage(g, f) = "queued"  BY <1>2, <1>3, <1>4, <1>8
  <2>3. \A s \in Slots : s < f => Stage(g, s) # "queued"  BY <1>2, <1>3, <1>4
  <2>4. Budget!Run(g, f)
    BY <2>1, <2>2, <2>3, <1>3, <1>4, <1>7
    DEF Budget!Run, Budget!NoneRunning, Budget!Slots, Slots, StageBar, OriginBar, FateBar
  <2> QED  BY <2>4, <1>4 DEF Budget!BudgetNext, Budget!Slots, Slots
<1>9. CASE f = m
  <2>1. \A s \in Slots : Stage(g, s) # "running"  BY <1>3
  <2>2. Stage(g, f) = "free"  BY <1>2, <1>3, <1>4, <1>9
  <2>3. \A s \in Slots : Stage(g, s) # "queued"  BY <1>2, <1>3, <1>4, <1>9
  <2>4. \A s \in Slots : s < f => Stage(g, s) # "free"  BY <1>2, <1>3, <1>4, <1>9
  <2>5. Budget!Fill(g, f)
    BY <2>1, <2>2, <2>3, <2>4, <1>3, <1>4, <1>7
    DEF Budget!Fill, Budget!NextLeaf, Budget!NoneRunning, Budget!Slots, Slots,
        StageBar, OriginBar, FateBar
  <2> QED  BY <2>5, <1>4 DEF Budget!BudgetNext, Budget!Slots, Slots
<1> QED  BY <1>2, <1>8, <1>9

BudgetBar == <<StageBar, OriginBar, FateBar>>

LEMMA GoRefines ==
  ASSUME Inv, Inv', NEW g \in Groups, Alone(g), Going(g)
  PROVE  Budget!BudgetNext \/ BudgetBar' = BudgetBar
<1>1. Steady(g) /\ Busy(g) /\ Busy(g)' /\ First(g)' = First(g)  BY DEF Going
<1>2. PICK f \in Nat, m \in Nat, k \in Nat : f = First(g) /\ m = allocated[g] /\ k = allocated'[g]
  BY <1>1, SteadyView
<1>3. /\ Fate(g) = "open" /\ Fate(g)' = "open" /\ m <= Size /\ f <= m /\ Slots \subseteq Nat
      /\ \A s \in Slots :
           /\ Stage(g, s) = IF s >= m THEN "free" ELSE IF s >= f THEN "queued"
                            ELSE IF s = f - 1 THEN "running" ELSE "finished"
           /\ Stage(g, s)' = IF s >= k THEN "free" ELSE IF s >= f THEN "queued"
                             ELSE IF s = f - 1 THEN "running" ELSE "finished"
           /\ Origin(g, s) = IF s < m THEN Leaf(g, s).parent ELSE Root
           /\ Origin(g, s)' = IF s < k THEN Leaf(g, s)'.parent ELSE Root
           /\ s < m => Leaf(g, s)' = Leaf(g, s)
  BY <1>1, <1>2, SteadyView
<1>4. FateBar' = FateBar  BY <1>3, FateKept
<1>5. CASE k = m
  <2>1. StageBar' = StageBar /\ OriginBar' = OriginBar
    BY <1>3, <1>5, StageKept, OriginKept
  <2> QED  BY <2>1, <1>4 DEF BudgetBar
<1>6. ASSUME NEW n \in Slots, NEW r \in Slots, r = f - 1, n = m, k = n + 1, Leaf(g, n)'.parent = r
      PROVE  Budget!BudgetNext
  <2>0. \A s \in Slots : s \in Nat  BY <1>3
  <2>1. \A s \in Slots : Stage(g, s)' = IF s = n THEN "queued" ELSE Stage(g, s)
    BY <1>2, <1>3, <1>6, <2>0
  <2>2. ASSUME NEW s \in Slots
        PROVE  Origin(g, s)' = IF s = n THEN r ELSE Origin(g, s)
    <3>1. CASE s = n
      <4>1. s < k  BY <3>1, <1>6, <2>0
      <4>2. Leaf(g, s)' = Leaf(g, n)'  BY <3>1
      <4> QED  BY <3>1, <4>1, <4>2, <1>3, <1>6
    <3>2. CASE s < n
      <4>0. s \in Nat /\ n \in Nat /\ m = n /\ k = n + 1  BY <1>6, <2>0
      <4>1. s < k /\ s < m /\ s # n  BY <3>2, <4>0
      <4> QED  BY <4>1, <1>3
    <3>3. CASE s > n
      <4>0. s \in Nat /\ n \in Nat /\ m = n /\ k = n + 1  BY <1>6, <2>0
      <4>1. ~(s < k) /\ ~(s < m) /\ s # n  BY <3>3, <4>0
      <4> QED  BY <4>1, <1>3
    <3> QED  BY <3>1, <3>2, <3>3, <2>0
  <2>3. StageBar' = [StageBar EXCEPT ![g][n] = "queued"]  BY <2>1, StageChange
  <2>4. OriginBar' = [OriginBar EXCEPT ![g][n] = r]  BY <2>2, OriginChange
  <2>5. Stage(g, r) = "running" /\ Stage(g, n) = "free"
    BY <1>2, <1>3, <1>6, <2>0
  <2>6. \A s \in Slots : s < n => Stage(g, s) # "free"  BY <1>2, <1>3, <1>6, <2>0
  <2>7. Budget!Fork(g, r, n)
    BY <2>3, <2>4, <2>5, <2>6, <1>3, <1>4, <1>6
    DEF Budget!Fork, Budget!NextLeaf, Budget!Slots, Slots, StageBar, OriginBar, FateBar
  <2> QED  BY <2>7, <1>6 DEF Budget!BudgetNext, Budget!Slots, Slots
<1> QED  BY <1>2, <1>5, <1>6 DEF Going

LEMMA FinishRefines ==
  ASSUME Inv, Inv', NEW g \in Groups, Alone(g), Finishing(g)
  PROVE  Budget!BudgetNext
<1>1. Steady(g) /\ Busy(g) /\ ~Busy(g)' /\ First(g)' = First(g) /\ allocated'[g] = allocated[g]
  BY DEF Finishing
<1>2. PICK f \in Nat, m \in Nat : f = First(g) /\ m = allocated[g]  BY <1>1, SteadyView
<1>3. /\ Fate(g) = "open" /\ Fate(g)' = "open" /\ m <= Size /\ f <= m /\ Slots \subseteq Nat
      /\ \A s \in Slots :
           /\ Stage(g, s) = IF s >= m THEN "free" ELSE IF s >= f THEN "queued"
                            ELSE IF s = f - 1 THEN "running" ELSE "finished"
           /\ Stage(g, s)' = IF s >= m THEN "free" ELSE IF s >= f THEN "queued"
                             ELSE "finished"
           /\ Origin(g, s) = IF s < m THEN Leaf(g, s).parent ELSE Root
           /\ Origin(g, s)' = IF s < m THEN Leaf(g, s)'.parent ELSE Root
           /\ s < m => Leaf(g, s)' = Leaf(g, s)
  BY <1>1, <1>2, SteadyView
<1>4. PICK r \in Slots : r = f - 1
  <2>1. Places(g) /\ TypeOK  BY <1>1 DEF Inv, GroupInv, Forest, Steady, Open
  <2> QED  BY <2>1, <1>1, <1>2, Ranges DEF Places, Runs
<1>5. r \in Nat /\ r < f  BY <1>2, <1>3, <1>4
<1>6. \A s \in Slots : Stage(g, s)' = IF s = r THEN "finished" ELSE Stage(g, s)
  <2>1. ASSUME NEW s \in Slots
        PROVE  Stage(g, s)' = IF s = r THEN "finished" ELSE Stage(g, s)
    <3>1. s \in Nat /\ (s = f - 1 <=> s = r)  BY <1>2, <1>3, <1>4
    <3>2. s = r => ~(s >= m) /\ ~(s >= f)  BY <3>1, <1>2, <1>3, <1>5
    <3> QED  BY <3>1, <3>2, <1>3
  <2> QED  BY <2>1
<1>7. StageBar' = [StageBar EXCEPT ![g][r] = "finished"] /\ OriginBar' = OriginBar
      /\ FateBar' = FateBar
  BY <1>3, <1>6, StageChange, OriginKept, FateKept
<1>8. Stage(g, r) = "running"
  <2>1. ~(r >= m) /\ ~(r >= f)  BY <1>2, <1>3, <1>5
  <2> QED  BY <2>1, <1>3, <1>4
<1>9. Budget!Finish(g, r)
  BY <1>3, <1>7, <1>8 DEF Budget!Finish, StageBar, OriginBar, FateBar
<1> QED  BY <1>9 DEF Budget!BudgetNext, Budget!Slots, Slots

LEMMA AbortRefines ==
  ASSUME Inv, Inv', NEW g \in Groups, NEW how \in {"raised", "cancelled"}, Abandon(g, how),
         status[g] \in {"running", "returned"}
  PROVE  Budget!BudgetNext
<1>1. Alone(g)  BY Abandoned DEF Alone
<1>2. status'[g] = how  BY DEF Abandon, Inv, TypeOK
<1>3. Fate(g) = "open" /\ Fate(g)' = "aborted"  BY <1>2 DEF Fate
<1>4. ~Open(g)'  BY <1>2 DEF Open
<1>5. Viewed'  BY ViewIsNext
<1>6. \A s \in Slots : Stage(g, s)' = "free" /\ Origin(g, s)' = Root
  BY <1>4, <1>5 DEF Viewed, Phase, Parent
<1>7. \A h \in Groups : h # g =>
        /\ \A s \in Slots : Stage(h, s)' = Stage(h, s) /\ Origin(h, s)' = Origin(h, s)
        /\ Fate(h)' = Fate(h)
  BY <1>1, SameView DEF Alone
<1>8. StageBar' = [StageBar EXCEPT ![g] = [s \in Slots |-> "free"]]
  BY <1>6, <1>7 DEF StageBar
<1>9. OriginBar' = [OriginBar EXCEPT ![g] = [s \in Slots |-> Root]]
  BY <1>6, <1>7 DEF OriginBar
<1>10. FateBar' = [FateBar EXCEPT ![g] = "aborted"]  BY <1>3, <1>7 DEF FateBar
<1>11. Budget!Abort(g)
  BY <1>3, <1>8, <1>9, <1>10
  DEF Budget!Abort, Budget!Slots, Budget!Root, Slots, Root, StageBar, OriginBar, FateBar
<1> QED  BY <1>11 DEF Budget!BudgetNext

LEMMA AuditRefines ==
  ASSUME Inv, Inv', NEW g \in Groups, Audit(g)
  PROVE  Budget!BudgetNext \/ BudgetBar' = BudgetBar
<1>0. TypeOK /\ GroupInv(g) /\ status[g] = "running"  BY DEF Inv, Audit, Live
<1>1. CASE Abandon(g, "raised")  BY <1>0, <1>1, AbortRefines
<1>2. CASE /\ status' = [status EXCEPT ![g] = "returned"]
           /\ UNCHANGED <<pending, allocated, current, outputs, nodes, active, worker>>
  <2>1. status'[g] = "returned" /\ \A h \in Groups : h # g => status'[h] = status[h]
    BY <1>0, <1>2 DEF TypeOK
  <2>2. \A h \in Groups : Fate(h)' = Fate(h)
    <3>1. Fate(g) = "open" /\ Fate(g)' = "open"  BY <2>1, <1>0 DEF Fate
    <3>2. ASSUME NEW h \in Groups, h # g
          PROVE  Fate(h)' = Fate(h)
      BY <2>1, <3>2 DEF Fate
    <3> QED  BY <3>1, <3>2
  <2>3. ASSUME NEW h \in Groups, NEW s \in Slots
        PROVE  Stage(h, s)' = Stage(h, s) /\ Origin(h, s)' = Origin(h, s)
    BY <1>2 DEF Stage, Origin, Finished, Running, Queued
  <2>4. StageBar' = StageBar  BY <2>3 DEF StageBar
  <2>5. OriginBar' = OriginBar  BY <2>3 DEF OriginBar
  <2>6. FateBar' = FateBar  BY <2>2 DEF FateBar
  <2> QED  BY <2>4, <2>5, <2>6 DEF BudgetBar
<1> QED  BY <1>1, <1>2 DEF Audit

LEMMA PostprocessRefines ==
  ASSUME Inv, Inv', NEW g \in Groups, Postprocess(g)
  PROVE  Budget!BudgetNext
<1>0. TypeOK /\ GroupInv(g) /\ status[g] = "returned"
      /\ status' = [status EXCEPT ![g] = "done"]
      /\ UNCHANGED <<pending, allocated, current, outputs, nodes, active, sessions, worker>>
  BY DEF Inv, Postprocess
<1>1. status'[g] = "done" /\ \A h \in Groups : h # g => status'[h] = status[h]
  BY <1>0 DEF TypeOK
<1>2. Fate(g) = "open" /\ Fate(g)' = "complete"  BY <1>0, <1>1 DEF Fate
<1>3. ASSUME NEW h \in Groups, h # g
      PROVE  Fate(h)' = Fate(h)
  BY <1>1, <1>3 DEF Fate
<1>4. ASSUME NEW h \in Groups, NEW s \in Slots
      PROVE  Stage(h, s)' = Stage(h, s) /\ Origin(h, s)' = Origin(h, s)
  BY <1>0 DEF Stage, Origin, Finished, Running, Queued
<1>5. StageBar' = StageBar /\ OriginBar' = OriginBar  BY <1>4 DEF StageBar, OriginBar
<1>6. FateBar' = [FateBar EXCEPT ![g] = "complete"]  BY <1>2, <1>3 DEF FateBar
<1>7. \A s \in Slots : Stage(g, s) = "finished"
  <2>1. Complete(g) /\ Places(g) /\ Open(g)  BY <1>0 DEF GroupInv, Open, Forest
  <2>2. ASSUME NEW s \in Slots
        PROVE  Stage(g, s) = "finished"
    <3>1. s \in Finished(g)  BY <2>1, <1>0 DEF Complete, Finished
    <3>2. s < First(g) /\ (Busy(g) => s # First(g) - 1) /\ s \in Nat
          /\ First(g) \in Nat /\ First(g) <= allocated[g] /\ allocated[g] \in Nat
      BY <3>1, <2>1, <1>0, PlacesOfLeaves
    <3>3. ~(s >= allocated[g]) /\ ~(s >= First(g))  BY <3>2
    <3>4. Phase(g, s) = "finished"  BY <3>2, <3>3, <2>1 DEF Phase
    <3>5. Viewed  BY ViewIs
    <3> QED  BY <3>4, <3>5 DEF Viewed
  <2> QED  BY <2>2
<1>8. Budget!Complete(g)
  <2>1. Budget!Slots = Slots  BY DEF Budget!Slots, Slots
  <2>2. FateBar[g] = "open" /\ \A s \in Slots : StageBar[g][s] = "finished"
    BY <1>2, <1>7 DEF FateBar, StageBar
  <2> QED
    BY <2>1, <2>2, <1>5, <1>6 DEF Budget!Complete, StageBar, OriginBar, FateBar
<1> QED  BY <1>8 DEF Budget!BudgetNext

LEMMA WorkerRefines ==
  ASSUME UNCHANGED <<pending, allocated, current, outputs, nodes, status>>
  PROVE  BudgetBar' = BudgetBar
<1>1. ASSUME NEW h \in Groups, NEW s \in Slots
      PROVE  Stage(h, s)' = Stage(h, s) /\ Origin(h, s)' = Origin(h, s)
  BY DEF Stage, Origin, Finished, Running, Queued
<1>2. \A h \in Groups : Fate(h)' = Fate(h)  BY DEF Fate
<1>3. StageBar' = StageBar /\ OriginBar' = OriginBar  BY <1>1 DEF StageBar, OriginBar
<1>4. FateBar' = FateBar  BY <1>2 DEF FateBar
<1> QED  BY <1>3, <1>4 DEF BudgetBar

LEMMA InitRefines ==
  ASSUME Init
  PROVE  Budget!BudgetInit
<1>1. Viewed  BY InitInv, ViewIs
<1>2. ASSUME NEW g \in Groups
      PROVE  /\ status[g] = "running" /\ allocated[g] = InitialRollouts /\ ~Busy(g) /\ First(g) = 0
             /\ \A s \in Slots : nodes[g][s] = Missing
             /\ \A i \in 1..Len(pending[g]) : pending[g][i].parent = Root
  <2>1. PICK q : q = [i \in 1..InitialRollouts |-> Queue(i - 1, Root, Fresh(i - 1))]  OBVIOUS
  <2>2. pending[g] = q  BY <2>1 DEF Init
  <2>3. Len(q) = InitialRollouts /\ InitialRollouts \in Nat  BY <2>1, GroupAssumption
  <2>4. \A i \in 1..InitialRollouts : q[i].parent = Root  BY <2>1 DEF Queue
  <2>5. status[g] = "running" /\ allocated[g] = InitialRollouts /\ current[g] = Idle
        /\ \A s \in Slots : nodes[g][s] = Missing
    BY DEF Init
  <2> QED  BY <2>2, <2>3, <2>4, <2>5 DEF Busy, First
<1>3. ASSUME NEW g \in Groups, NEW s \in Slots
      PROVE  /\ Stage(g, s) = IF s < InitialRollouts THEN "queued" ELSE "free"
             /\ Origin(g, s) = Root
  <2>1. s \in Nat /\ InitialRollouts \in Nat  BY GroupAssumption DEF Slots
  <2>2. Stage(g, s) = IF s < InitialRollouts THEN "queued" ELSE "free"
    BY <2>1, <1>1, <1>2 DEF Viewed, Phase, Open
  <2>3. ASSUME s \in Queued(g)
        PROVE  pending[g][CHOOSE i \in 1..Len(pending[g]) : pending[g][i].slot = s].parent = Root
    <3>1. PICK i : i = CHOOSE j \in 1..Len(pending[g]) : pending[g][j].slot = s  OBVIOUS
    <3>2. i \in 1..Len(pending[g])  BY <2>3, <3>1 DEF Queued
    <3> QED  BY <3>1, <3>2, <1>2
  <2> QED  BY <2>2, <2>3, <1>2 DEF Origin
<1>4. \A g \in Groups : Fate(g) = "open"  BY <1>2 DEF Fate
<1> QED  BY <1>3, <1>4 DEF Budget!BudgetInit, Budget!Slots, Budget!Root, Slots, Root

LEMMA StepRefines ==
  ASSUME Inv, Inv', [Next]_vars
  PROVE  Budget!BudgetNext \/ BudgetBar' = BudgetBar
<1>1. CASE UNCHANGED vars  BY <1>1, WorkerRefines DEF vars
<1>2. ASSUME NEW g \in Groups, GroupStep(g)
      PROVE  Budget!BudgetNext \/ BudgetBar' = BudgetBar
  <2>1. CASE StartPending(g)  BY <2>1, StartsPending, StartRefines
  <2>2. CASE StartFresh(g)  BY <2>2, StartsFresh, StartRefines
  <2>3. CASE \E next \in {"tools", "interacting", "terminated"}, logprobs \in LogprobCases,
               take \in BOOLEAN : Generate(g, next, logprobs, take)
    BY <2>3, GroupAssumption, Generates, GoRefines
  <2>4. CASE (\E room \in BOOLEAN : Observe(g, room)) \/ ObserveEnds(g)
    BY <2>4, Observes, GoRefines
  <2>5. CASE FinishTrajectory(g)  BY <2>5, Finishes, FinishRefines
  <2>6. CASE Audit(g)  BY <2>6, AuditRefines
  <2>7. CASE Postprocess(g)  BY <2>7, PostprocessRefines
  <2>8. CASE CancelGroup(g)  BY <2>8, AbortRefines DEF CancelGroup
  <2> QED  BY <1>2, <2>1, <2>2, <2>3, <2>4, <2>5, <2>6, <2>7, <2>8 DEF GroupStep
<1>3. ASSUME NEW g \in Groups, RunFails(g) \/ PostprocessFails(g)
      PROVE  Budget!BudgetNext \/ BudgetBar' = BudgetBar
  BY <1>3, AbortRefines DEF RunFails, PostprocessFails, Live
<1>4. CASE Gather \/ Reraise \/ Cancelled \/ Ended
  BY <1>4, WorkerRefines DEF Gather, Reraise, Cancelled, Ended, vars
<1> QED  BY <1>1, <1>2, <1>3, <1>4 DEF Next

(* The group controller implements the rollout budget: its leaves are      *)
(* handed out in order, run once and one at a time, and either all of them *)
(* finish or the group is given up.                                        *)
THEOREM GroupsImplementBudget == Spec => ImplementsBudget
<1>1. Init => Budget!BudgetInit  BY InitRefines
<1>2. Inv /\ Inv' /\ [Next]_vars => [Budget!BudgetNext]_(Budget!budgetVars)
  <2> SUFFICES ASSUME Inv, Inv', [Next]_vars
               PROVE  Budget!BudgetNext \/ UNCHANGED Budget!budgetVars
    OBVIOUS
  <2>1. BudgetBar = Budget!budgetVars
    BY DEF BudgetBar, StageBar, OriginBar, FateBar, Budget!budgetVars
  <2>2. BudgetBar' = Budget!budgetVars'
    BY DEF BudgetBar, StageBar, OriginBar, FateBar, Budget!budgetVars
  <2> QED  BY <2>1, <2>2, StepRefines
<1> QED  BY <1>1, <1>2, Invariant, PTL DEF Spec, ImplementsBudget, Budget!BudgetSpec
=============================================================================
