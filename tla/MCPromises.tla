----------------------------- MODULE MCPromises ------------------------------
(* Instances of Promises for TLC.                                             *)
EXTENDS Promises

CONSTANTS x, t, c1

=============================================================================
