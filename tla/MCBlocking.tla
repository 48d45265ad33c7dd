----------------------------- MODULE MCBlocking -----------------------------
(* A small instance of Blocking. *)
EXTENDS Blocking, TLC

CONSTANTS c1, c2

MCClients == {c1, c2}
MCKeys == {"k", "l"}
MCKeyLists == { <<"k">>, <<"l", "k">> }
=============================================================================
