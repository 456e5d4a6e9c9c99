---------------------------- MODULE MCDhcpLease ----------------------------
(* Model-checking instance of DhcpLease.                                   *)
EXTENDS DhcpLease, TLC

Symmetry == Permutations(Clients)
=============================================================================
