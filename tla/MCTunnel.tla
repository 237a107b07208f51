------------------------------- MODULE MCTunnel -------------------------------
(* Finite instances of Tunnel for TLC.                                     *)
EXTENDS Tunnel, TLC

Symmetry == Permutations(Users) \cup Permutations(Proxies)
==============================================================================
