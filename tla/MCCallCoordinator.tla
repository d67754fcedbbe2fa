-------------------------- MODULE MCCallCoordinator --------------------------
(* An instance of CallCoordinator small enough for TLC. *)
EXTENDS CallCoordinator

OnlyRinging == {[admitted |-> TRUE, reachable |-> TRUE]}
=============================================================================
