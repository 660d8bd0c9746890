-------------------------- MODULE MCReviewSupervisor --------------------------
(* Candidates a and c review one task.  The second supervisor meets the    *)
(* remains of the first: its own candidate b, and a beside its c.          *)
EXTENDS ReviewSupervisor

CONSTANTS a, b, c, t, u
MCCandidates == {a, b, c}
MCTask == [x \in MCCandidates |-> IF x = b THEN u ELSE t]
MCPlans == <<{a, b}, {b, c}>>
===============================================================================
