------------------------------ MODULE RunLine ------------------------------
(***************************************************************************)
(* What a training result directory promises, without saying how: one line *)
(* of updates, a durable prefix it may fall back to, and a published curve *)
(* that reports updates of the line and is never contradicted.             *)
(***************************************************************************)
EXTENDS Naturals, Sequences

CONSTANT Runs

VARIABLES
  line,         \* who made each update of the live model
  durable,      \* the updates the recovery point holds
  shown         \* published points: a step and who made its update

PointsOf(l) == {<<s, l[s]>> : s \in 1..Len(l)}

Init == line = << >> /\ durable = << >> /\ shown = {}

(* No step is made again once it has been shown.                           *)
Extend ==
  /\ \A point \in shown : point[1] <= Len(line)
  /\ \E r \in Runs : line' = Append(line, r)
  /\ UNCHANGED <<durable, shown>>

Keep == durable' = line /\ UNCHANGED <<line, shown>>

Publish ==
  /\ shown' # shown /\ shown \subseteq shown'
  /\ shown' \subseteq shown \cup PointsOf(line)
  /\ UNCHANGED <<line, durable>>

(* What was not kept is lost.                                              *)
FallBack == line' = durable /\ UNCHANGED <<durable, shown>>

Next == Extend \/ Keep \/ Publish \/ FallBack

Spec == Init /\ [][Next]_<<line, durable, shown>>
=============================================================================
