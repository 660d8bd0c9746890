---------------------------- MODULE MCArpoGroup ----------------------------
(* ArpoGroup.tla for TLC, with two sets of bounds.                          *)
(*   MCArpoGroup.cfg: one group of three leaves, one initial root, at most  *)
(*     three turns, with and without logprobs: a root can fork twice, a     *)
(*     child can fork again, and unused budget becomes further roots.       *)
(*   MCArpoWorker.cfg: two groups of two leaves on one worker, at most two  *)
(*     turns: either group can fail while the other forks, runs or ends.    *)
EXTENDS ArpoGroup
=============================================================================
