------------------------------- MODULE Backlog -------------------------------
(***************************************************************************)
(* The master's replication backlog (src/replication/backlog.rs) and the   *)
(* critical section in which PSYNC attaches a replica to it                *)
(* (src/replication/master.rs, lines 34-42).                               *)
(*                                                                         *)
(* ReplBacklog is a ring of Capacity bytes behind one mutex; every action  *)
(* below is one critical section of that mutex.  The senders of the        *)
(* replicas are unbounded tokio channels: sending succeeds exactly while   *)
(* the receiver owned by the PSYNC connection has not been dropped.        *)
(*                                                                         *)
(* stream, start and feed are history variables: no guard and no other     *)
(* variable depends on them.                                               *)
(***************************************************************************)
EXTENDS Integers, Sequences

CONSTANTS Byte,          \* byte values; a new buffer is zeroed
          Capacity,      \* repl-backlog-size
          Chunks,        \* encoded write commands
          MaxOffset,     \* bound: pushes stop when the stream is this long
          MaxReplicas    \* bound: registrations over the life of the master

ASSUME ByteAssumption == 0 \in Byte
ASSUME CapacityAssumption == Capacity \in Nat \ {0}
ASSUME ChunksAssumption == Chunks \subseteq Seq(Byte)
ASSUME BoundAssumption == MaxOffset \in Nat /\ MaxReplicas \in Nat

VARIABLES
    buffer,            \* ReplBacklog::buffer
    write_pos,         \* ReplBacklog::write_pos
    global_offset,     \* ReplBacklog::global_offset
    replicas,          \* ReplBacklog::replicas: ids holding a sender
    next_replica_id,   \* ReplBacklog::next_replica_id
    rx_open,           \* ids whose receiver half still exists
    stream,            \* history: every byte ever pushed
    start,             \* history: offset a replica was promised data from
    feed               \* history: catch-up data plus everything sent to it

ring == <<buffer, write_pos, global_offset>>
vars == <<buffer, write_pos, global_offset, replicas, next_replica_id,
          rx_open, stream, start, feed>>

Ids == 0 .. MaxReplicas - 1
Cells == 0 .. Capacity - 1

Init ==
    /\ buffer = [i \in Cells |-> 0]
    /\ write_pos = 0
    /\ global_offset = 0
    /\ replicas = {}
    /\ next_replica_id = 0
    /\ rx_open = {}
    /\ stream = <<>>
    /\ start = [id \in Ids |-> 0]
    /\ feed = [id \in Ids |-> <<>>]

-----------------------------------------------------------------------------
(* Reading the ring. *)

\* global_offset.saturating_sub(capacity)
WindowStart == IF global_offset > Capacity THEN global_offset - Capacity ELSE 0

\* Mutant: the window is one byte too long at its old end.
InWindowTooLong(offset) == WindowStart <= offset + 1 /\ offset <= global_offset

InWindow(offset) == WindowStart <= offset /\ offset <= global_offset

read_from(offset) ==
    IF ~ InWindow(offset)
    THEN <<>>
    ELSE [i \in 1 .. global_offset - offset |->
              buffer[(offset + (i - 1)) % Capacity]]

can_serve_partial(sameReplid, offset) == sameReplid /\ InWindow(offset)

-----------------------------------------------------------------------------
(* Writing the ring. *)

\* The cells after the loop of push: cell i holds the last byte of data the
\* loop put there, or what it held before if the loop did not come round to it.
\* Byte p of data goes to cell (write_pos + p - 1) % capacity.
LastWrite(data, i) ==
    Len(data) - ((write_pos + Len(data) - 1 - i) % Capacity)

\* Mutant: a bulk copy that keeps the first bytes of an over-long write.
RingAfterKeepsFirst(data) ==
    [i \in Cells |-> LET p == ((i - write_pos) % Capacity) + 1
                     IN  IF p <= Len(data) THEN data[p] ELSE buffer[i]]

RingAfter(data) ==
    [i \in Cells |-> IF LastWrite(data, i) >= 1 THEN data[LastWrite(data, i)]
                                                ELSE buffer[i]]

NextWritePos(data) == (write_pos + Len(data)) % Capacity

\* The senders that survive retain(send(..).is_ok()).
Reached == replicas \cap rx_open

\* Mutant: the fan-out stops at the first sender it reaches.
FeedAfterSkipsOne(data) ==
    [id \in Ids |-> IF id \in Reached /\ id - 1 \notin Reached
                    THEN feed[id] \o data ELSE feed[id]]

FeedAfter(data) ==
    [id \in Ids |-> IF id \in Reached THEN feed[id] \o data ELSE feed[id]]

push(data) ==
    /\ global_offset + Len(data) <= MaxOffset
    /\ buffer' = RingAfter(data)
    /\ write_pos' = NextWritePos(data)
    /\ global_offset' = global_offset + Len(data)
    /\ replicas' = Reached
    /\ stream' = stream \o data
    /\ feed' = FeedAfter(data)
    /\ UNCHANGED <<next_replica_id, rx_open, start>>

-----------------------------------------------------------------------------
(* Attaching and detaching replicas. *)

register_replica(id) ==
    /\ id = next_replica_id
    /\ next_replica_id' = next_replica_id + 1
    /\ replicas' = replicas \cup {id}
    /\ rx_open' = rx_open \cup {id}

\* Mutant: the catch-up data is read before the lock is taken for the
\* registration, so it may miss the last byte.
CatchUpStale(is_partial, offset) ==
    IF is_partial /\ offset < global_offset
    THEN SubSeq(read_from(offset), 1, global_offset - offset - 1)
    ELSE <<>>

CatchUp(is_partial, offset) == IF is_partial THEN read_from(offset) ELSE <<>>

\* handle_psync: the decision, the catch-up read and the registration happen
\* under one acquisition of the lock.  offset is what the replica asked for,
\* -1 when it has no state.
psync_attach(sameReplid, offset) ==
    LET is_partial == offset >= 0 /\ can_serve_partial(sameReplid, offset)
        id         == next_replica_id
    IN  /\ id \in Ids
        /\ register_replica(id)
        /\ start' = [start EXCEPT ![id] = IF is_partial THEN offset
                                                        ELSE global_offset]
        /\ feed' = [feed EXCEPT ![id] = CatchUp(is_partial, offset)]
        /\ UNCHANGED <<ring, stream>>

\* The streaming loop ended: the entry goes first, the receiver when
\* handle_psync returns.
unregister_replica(id) ==
    /\ id \in replicas \cap rx_open
    /\ replicas' = replicas \ {id}
    /\ UNCHANGED <<ring, next_replica_id, rx_open, stream, start, feed>>

\* handle_psync returned.  After a failed socket write ("?" on lines 45-66)
\* the entry is still in replicas, and only the next push finds out.
drop_receiver(id) ==
    /\ id \in rx_open
    /\ rx_open' = rx_open \ {id}
    /\ UNCHANGED <<ring, replicas, next_replica_id, stream, start, feed>>

Next ==
    \/ \E data \in Chunks : push(data)
    \/ \E same \in BOOLEAN, o \in -1 .. MaxOffset : psync_attach(same, o)
    \/ \E id \in Ids : unregister_replica(id) \/ drop_receiver(id)

Spec == Init /\ [][Next]_vars

-----------------------------------------------------------------------------
(* Properties. *)

TypeOK ==
    /\ buffer \in [Cells -> Byte]
    /\ write_pos \in Cells
    /\ global_offset \in Nat
    /\ replicas \subseteq Ids
    /\ next_replica_id \in 0 .. MaxReplicas
    /\ rx_open \subseteq 0 .. next_replica_id - 1
    /\ stream \in Seq(Byte)
    /\ start \in [Ids -> Nat]
    /\ feed \in [Ids -> Seq(Byte)]

\* Whatever the lengths pushed so far, an offset that can be served partially
\* is answered with exactly the bytes of the stream from that offset on, after
\* any number of wrap-arounds and also right after a push longer than the ring
\* (read_from, can_serve_partial).
WindowIsExact ==
    \A o \in 0 .. global_offset :
        InWindow(o) => read_from(o) = SubSeq(stream, o + 1, Len(stream))

\* A registered replica whose connection is alive has been given the stream
\* from its attach offset with no byte missing or repeated: "a replica that
\* registers while holding the lock can never miss a write" (push,
\* register_replica and the critical section of handle_psync).
FeedsAreContiguous ==
    \A id \in Reached :
        feed[id] = SubSeq(stream, start[id] + 1, Len(stream))

\* The ring and its senders implement the abstract log: every step of the
\* backlog publishes, attaches at some offset with everything since, detaches,
\* or changes nothing that a caller can see.
Log == INSTANCE ReplLog WITH live <- Reached

ImplementsReplLog == Log!Spec
=============================================================================
