--------------------------- MODULE MCOwnedProcess ---------------------------
(* Three services: one obeys, the helpers of one ignore SIGTERM, and the   *)
(* leader of one hangs in the kernel too.                                  *)
EXTENDS OwnedProcess

MCStubborn == {2, 3}
MCHung == {3}
=============================================================================
