----------------------------- MODULE MCBacklog -----------------------------
(***************************************************************************)
(* Backlog for TLC: writes of one, two, three and five bytes into a ring   *)
(* of three, so that writes end before, at and after the end of the buffer *)
(* and one is longer than the whole ring.                                  *)
(***************************************************************************)
EXTENDS Backlog, SequencesExt

MCByte == 0 .. 2
MCChunks == { <<1>>, <<2, 1>>, <<1, 2, 2>>, <<2, 1, 1, 1, 2>> }

\* The loop of push, one byte at a time: buffer[write_pos] = byte, then
\* write_pos = (write_pos + 1) % capacity.
StoreByte(ringState, byte) ==
    [buf |-> [ringState.buf EXCEPT ![ringState.pos] = byte],
     pos |-> (ringState.pos + 1) % Capacity]

PushLoop(data) == FoldLeft(StoreByte, [buf |-> buffer, pos |-> write_pos], data)

\* In every reachable state and for every write, the closed form Backlog uses
\* for the cells and the write position is what the byte-by-byte loop of push
\* computes.
ClosedFormIsLoop ==
    \A data \in Chunks :
        PushLoop(data) = [buf |-> RingAfter(data), pos |-> NextWritePos(data)]
=============================================================================
