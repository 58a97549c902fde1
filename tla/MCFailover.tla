------------------------------ MODULE MCFailover ------------------------------
(***************************************************************************)
(* Failover for TLC: two overlapping polls, a few backends and builds.     *)
(***************************************************************************)
EXTENDS Failover

=============================================================================
