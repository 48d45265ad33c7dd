------------------------------- MODULE ReplLog -------------------------------
(***************************************************************************)
(* What the master's replication backlog promises to its callers, without  *)
(* a ring buffer, a write position or senders: one growing stream, and for *)
(* every replica a feed that is the stream from the offset it was attached *)
(* at, with no byte missing and none repeated, for as long as it is live.  *)
(*                                                                         *)
(* Backlog.tla (src/replication/backlog.rs together with the critical      *)
(* section of handle_psync in src/replication/master.rs) implements it.    *)
(***************************************************************************)
EXTENDS Naturals, Sequences

CONSTANTS Chunks,      \* the encoded commands that may be pushed
          Ids          \* replica handles

VARIABLES stream,      \* everything ever pushed
          live,        \* replicas attached, whose receiver still exists
          start,       \* start[id]: the stream offset id was attached at
          feed         \* feed[id]: what was handed to id so far

logVars == <<stream, live, start, feed>>

Suffix(s, o) == SubSeq(s, o + 1, Len(s))

Init ==
    /\ stream = <<>>
    /\ live = {}
    /\ start = [id \in Ids |-> 0]
    /\ feed = [id \in Ids |-> <<>>]

\* A write reaches every live feed, and brings it to the end of the stream.
Publish ==
    /\ \E data \in Chunks : stream' = stream \o data
    /\ feed' = [id \in Ids |-> IF id \in live THEN Suffix(stream', start[id])
                                              ELSE feed[id]]
    /\ UNCHANGED <<live, start>>

\* A replica is attached at an offset of the stream and is given, in the same
\* step, everything from there to the end.
Attach ==
    \E id \in Ids \ live, o \in 0..Len(stream) :
        /\ live' = live \cup {id}
        /\ start' = [start EXCEPT ![id] = o]
        /\ feed' = [feed EXCEPT ![id] = Suffix(stream, o)]
        /\ UNCHANGED stream

Detach ==
    /\ \E id \in live : live' = live \ {id}
    /\ UNCHANGED <<stream, start, feed>>

Next == Publish \/ Attach \/ Detach

Spec == Init /\ [][Next]_logVars
=============================================================================
