---------------------------- MODULE MCSupervisor ----------------------------
(* TLC instance of Supervisor: two update requests, interchangeable.        *)
EXTENDS Supervisor, TLC

Symmetry == Permutations(Appliers)
=============================================================================
