------------------------------- MODULE MCScan -------------------------------
(* A small instance of Scan; the clients are interchangeable. *)
EXTENDS Scan, TLC

CONSTANTS c1, c2

TwoClients == {c1, c2}
MCKeys == 1 .. 3

Symmetry == Permutations(TwoClients)
=============================================================================
