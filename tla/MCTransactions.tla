--------------------------- MODULE MCTransactions ---------------------------
(***************************************************************************)
(* Transactions for TLC: two connections, interchangeable.                 *)
(***************************************************************************)
EXTENDS Transactions, TLC

CONSTANTS a, b

MCClients == {a, b}
ClientSymmetry == Permutations(MCClients)
MCOneKey == {"k"}
MCTwoDbs == {0, 1}
=============================================================================
