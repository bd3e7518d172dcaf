------------------------------ MODULE MCCalls ------------------------------
(* Small instances of Calls. *)
EXTENDS Calls, TLC

MCHosts == Permutations(Peers) \cup Permutations(Socks)
=============================================================================
