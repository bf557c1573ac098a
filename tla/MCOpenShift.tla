---------------------------- MODULE MCOpenShift ----------------------------
(* A small instance of OpenShift for TLC: two shares. *)
EXTENDS OpenShift

CONSTANTS a, b
=============================================================================
