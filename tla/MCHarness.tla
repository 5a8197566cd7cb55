----------------------------- MODULE MCHarness -----------------------------
(* Instances of Harness.tla for TLC.                                       *)
EXTENDS Harness

CONSTANTS c1, c2

=============================================================================
