----------------------------- MODULE MCRemoteCa -----------------------------
(* An instance of RemoteCa for TLC: all handlers.                          *)
EXTENDS RemoteCa, TLC

CONSTANTS o1, o2, r1

MCSym == Permutations(Orders)
=============================================================================
