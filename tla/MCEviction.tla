----------------------------- MODULE MCEviction -----------------------------
(* A small instance of Eviction. *)
EXTENDS Eviction, TLC

CONSTANTS k1, k2

TwoKeys == {k1, k2}
AllPolicies == {"noeviction", "allkeys-random", "volatile-random"}
AllOps == {"write", "del", "persist"}
=============================================================================
