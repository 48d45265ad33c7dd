----------------------------- MODULE MCKeyspace -----------------------------
(* A small instance of Keyspace. *)
EXTENDS Keyspace, TLC

CONSTANTS c1, c2

TwoClients == {c1, c2}
TwoKeys == {1, 2}
\* What looks at a key before it writes it, and what runs over the whole map
\* against what moves values in it.
MCMixes == {AllOps \ {"MSET", "FLUSHDB", "DBSIZE"},
            {"SET", "RENAME", "DBSIZE"}, {"SET", "EXPIRE", "DBSIZE"},
            {"MSET", "RENAME", "FLUSHDB"}}
=============================================================================
