--------------------------- MODULE MCPersistence ---------------------------
(* Small instances of Persistence; the connections are interchangeable. *)
EXTENDS Persistence, TLC

CONSTANTS c1, c2, k1

TwoClients == {c1, c2}
OneKey == {k1}
PlainAndExec == {"plain", "exec"}

Symmetry == Permutations(TwoClients)
=============================================================================
