------------------------------ MODULE LogProofs ------------------------------
(***************************************************************************)
(* Proofs about the two logs that a write goes to.                         *)
(*                                                                         *)
(* The replication backlog: type correctness, exactness of the ring window *)
(* and of the replicas' feeds, and refinement of ReplLog, for every ring   *)
(* size, every set of commands and every number of replicas.               *)
(* WindowIsExact speaks of what read_from computes; it is not inductive,   *)
(* because nothing in it ties the write position to the offset.  RingInv   *)
(* adds that tie (write_pos = global_offset % Capacity) and states the     *)
(* window cell by cell; the step of push rests on RingDistance, the        *)
(* arithmetic of positions in a ring.                                      *)
(*                                                                         *)
(* The append-only file and the snapshot: what was answered is in the      *)
(* snapshot, for any number of databases, and in what a restarted server   *)
(* with one database loads, for every number of connections, keys, writes  *)
(* and crashes.  Neither property is inductive: the first needs what the   *)
(* databases not yet copied still hold, the second what replaying the      *)
(* file, its part on the disk and the file of a rewrite would give, with   *)
(* the writes that connections have in hand (PersistenceInv).              *)
(***************************************************************************)
EXTENDS Backlog, Persistence, SequenceTheorems, FiniteSetTheorems, WellFoundedInduction, TLAPS

(* Arithmetic of a ring. *)

\* A value below the modulus is its own remainder, whatever multiple of the
\* modulus is added to it.
LEMMA ModUnique ==
    ASSUME NEW c \in Nat \ {0}, NEW x \in 0 .. c - 1, NEW q \in Int
    PROVE  (x + c * q) % c = x
<1> DEFINE y == x + c * q
           d == y \div c
           r == y % c
<1>1. y \in Int
  OBVIOUS
<1>2. /\ d \in Int
      /\ r \in 0 .. c - 1
      /\ y = c * d + r
  BY <1>1
<1>3. c * (d - q) = x - r
  BY <1>2
<1>4. d - q = 0
  <2> DEFINE e == d - q
  <2>1. e \in Int /\ c * e = x - r
    BY <1>2, <1>3
  <2> HIDE DEF e
  <2>2. ~ (e >= 1)
    BY <2>1, <1>2
  <2>3. ~ (e <= -1)
    BY <2>1, <1>2
  <2> QED
    BY <2>1, <2>2, <2>3 DEF e
<1> QED
  BY <1>2, <1>3, <1>4

\* Adding a multiple of the modulus does not change a remainder.
LEMMA ModShift ==
    ASSUME NEW c \in Nat \ {0}, NEW a \in Int, NEW q \in Int
    PROVE  (a + c * q) % c = a % c
<1>1. PICK d \in Int, r \in 0 .. c - 1 : a = c * d + r /\ a % c = r
  <2> /\ (a \div c) \in Int
      /\ (a % c) \in 0 .. c - 1
      /\ a = c * (a \div c) + (a % c)
    OBVIOUS
  <2> QED
    OBVIOUS
<1>2. a + c * q = r + c * (d + q)
  BY <1>1
<1>3. (r + c * (d + q)) % c = r
  <2> d + q \in Int
    OBVIOUS
  <2> QED
    BY ModUnique
<1> QED
  BY <1>1, <1>2, <1>3

\* Subtracting positions in the ring gives the distance between the offsets
\* they stand for, as long as that distance fits in the ring.
LEMMA RingDistance ==
    ASSUME NEW c \in Nat \ {0}, NEW a \in Nat, NEW b \in Nat, NEW k \in Int,
           a + k - b >= 0, a + k - b < c
    PROVE  ((a % c) + k - (b % c)) % c = a + k - b
<1>1. PICK qa \in Int, ra \in Int : a = c * qa + ra /\ a % c = ra
  <2> (a \div c) \in Int /\ (a % c) \in Int /\ a = c * (a \div c) + (a % c)
    OBVIOUS
  <2> QED
    OBVIOUS
<1>2. PICK qb \in Int, rb \in Int : b = c * qb + rb /\ b % c = rb
  <2> (b \div c) \in Int /\ (b % c) \in Int /\ b = c * (b \div c) + (b % c)
    OBVIOUS
  <2> QED
    OBVIOUS
<1> DEFINE x == a + k - b
<1>3. x \in 0 .. c - 1 /\ qb - qa \in Int
  OBVIOUS
<1>4. ra + k - rb = x + c * (qb - qa)
  BY <1>1, <1>2
<1>5. (x + c * (qb - qa)) % c = x
  <2> HIDE DEF x
  <2> QED
    BY <1>3, ModUnique
<1> QED
  BY <1>1, <1>2, <1>4, <1>5

-----------------------------------------------------------------------------
(* The inductive invariant. *)

\* The write position is the stream length modulo the ring size, and every
\* offset of the window sits in the cell read_from looks for it.
RingInv ==
    /\ Len(stream) = global_offset
    /\ write_pos = global_offset % Capacity
    /\ \A o \in Nat : WindowStart <= o /\ o < global_offset
                        => buffer[o % Capacity] = stream[o + 1]

StartInv == \A id \in Ids : start[id] <= global_offset

IInv == TypeOK /\ RingInv /\ StartInv /\ FeedsAreContiguous

\* What push writes, seen from the offsets: the cell of an offset of the new
\* window gets the byte of data at that offset when it is new, and keeps its
\* content when it is old.
LEMMA PushCell ==
    ASSUME TypeOK, RingInv, NEW data \in Seq(Byte), NEW o \in Nat,
           global_offset + Len(data) - Capacity <= o,
           o < global_offset + Len(data)
    PROVE  RingAfter(data)[o % Capacity]
              = IF o >= global_offset THEN data[o - global_offset + 1]
                                      ELSE buffer[o % Capacity]
<1> DEFINE i == o % Capacity
<1>1. i \in Cells
  BY CapacityAssumption DEF Cells
<1>2. Len(data) \in Nat /\ global_offset \in Nat /\ Capacity \in Nat \ {0}
  BY CapacityAssumption DEF TypeOK
<1>3. (write_pos + (Len(data) - 1) - i) % Capacity
        = global_offset + (Len(data) - 1) - o
  <2> DEFINE k == Len(data) - 1
  <2>1. /\ k \in Int
        /\ global_offset + k - o >= 0
        /\ global_offset + k - o < Capacity
    BY <1>2
  <2> HIDE DEF k
  <2>2. ((global_offset % Capacity) + k - (o % Capacity)) % Capacity
          = global_offset + k - o
    BY <1>2, <2>1, RingDistance
  <2> QED
    BY <2>2 DEF RingInv, k
<1>4. write_pos + Len(data) - 1 - i = write_pos + (Len(data) - 1) - i
  BY <1>1, <1>2 DEF TypeOK, Cells
<1>5. LastWrite(data, i) = o - global_offset + 1
  BY <1>2, <1>3, <1>4 DEF LastWrite
<1> QED
  BY <1>1, <1>2, <1>5 DEF RingAfter

\* The suffix of a stream from position k on, element by element.
LEMMA SuffixElements ==
    ASSUME NEW S, NEW q \in Seq(S), NEW k \in 0 .. Len(q)
    PROVE  /\ SubSeq(q, k + 1, Len(q)) \in Seq(S)
           /\ Len(SubSeq(q, k + 1, Len(q))) = Len(q) - k
           /\ \A i \in 1 .. Len(q) - k : SubSeq(q, k + 1, Len(q))[i] = q[k + i]
<1> DEFINE n == Len(q)
           m == k + 1
<1>1. n \in Nat /\ k \in Nat /\ k <= n /\ m \in Int /\ n \in Int
  OBVIOUS
<1>2. \A i \in m .. n : q[i] \in S
  OBVIOUS
<1> HIDE DEF n
<1>3. /\ SubSeq(q, m, n) \in Seq(S)
      /\ Len(SubSeq(q, m, n)) = (IF m <= n THEN n - m + 1 ELSE 0)
      /\ \A i \in 1 .. n - m + 1 : SubSeq(q, m, n)[i] = q[m + i - 1]
  <2> HIDE DEF m
  <2> QED
    BY <1>1, <1>2, SubSeqProperties
<1>4. n - m + 1 = n - k /\ (IF m <= n THEN n - m + 1 ELSE 0) = n - k
  BY <1>1
<1>5. \A i \in Int : m + i - 1 = k + i
  BY <1>1
<1> HIDE DEF m
<1>6. \A i \in 1 .. n - k : SubSeq(q, m, n)[i] = q[k + i]
  BY <1>1, <1>3, <1>4, <1>5
<1> QED
  BY <1>3, <1>4, <1>6 DEF n, m

\* The suffix of a longer stream is the suffix of the shorter one, extended.
LEMMA SuffixOfAppend ==
    ASSUME NEW S, NEW s \in Seq(S), NEW d \in Seq(S), NEW k \in 0 .. Len(s)
    PROVE  SubSeq(s, k + 1, Len(s)) \o d = SubSeq(s \o d, k + 1, Len(s \o d))
<1> DEFINE sd == s \o d
           tail == SubSeq(s, k + 1, Len(s))
           l == tail \o d
           r == SubSeq(sd, k + 1, Len(sd))
<1>1. /\ sd \in Seq(S) /\ Len(sd) = Len(s) + Len(d)
      /\ \A i \in 1 .. Len(s) + Len(d) : sd[i] = IF i <= Len(s) THEN s[i] ELSE d[i - Len(s)]
  BY ConcatProperties
<1>2. /\ tail \in Seq(S) /\ Len(tail) = Len(s) - k
      /\ \A i \in 1 .. Len(s) - k : tail[i] = s[k + i]
  BY SuffixElements
<1>3. /\ Len(s) \in Nat /\ Len(d) \in Nat /\ k \in Nat /\ k <= Len(s)
  OBVIOUS
<1> HIDE DEF sd, tail
<1>4. /\ l \in Seq(S) /\ Len(l) = Len(s) - k + Len(d)
      /\ \A i \in 1 .. Len(s) - k + Len(d) :
            l[i] = IF i <= Len(s) - k THEN tail[i] ELSE d[i - (Len(s) - k)]
  <2>1. tail \in Seq(S)
    BY <1>2
  <2>2. /\ l \in Seq(S) /\ Len(l) = Len(tail) + Len(d)
        /\ \A i \in 1 .. Len(tail) + Len(d) :
              l[i] = IF i <= Len(tail) THEN tail[i] ELSE d[i - Len(tail)]
    BY <2>1, ConcatProperties
  <2> HIDE DEF l
  <2> QED
    BY <1>2, <2>2
<1>5. k \in 0 .. Len(sd)
  BY <1>1, <1>3
<1>6. /\ r \in Seq(S) /\ Len(r) = Len(sd) - k
      /\ \A i \in 1 .. Len(sd) - k : r[i] = sd[k + i]
  BY <1>1, <1>5, SuffixElements
<1> HIDE DEF l, r
<1>7. ASSUME NEW i \in 1 .. Len(s) - k + Len(d)
      PROVE  l[i] = r[i]
  <2>1. i \in Int /\ 1 <= i /\ i <= Len(s) - k + Len(d)
    BY <1>3
  <2>2. r[i] = sd[k + i] /\ k + i \in 1 .. Len(s) + Len(d)
    BY <2>1, <1>1, <1>3, <1>6
  <2>3. CASE i <= Len(s) - k
    <3>1. l[i] = s[k + i] /\ k + i <= Len(s)
      <4>1. i \in 1 .. Len(s) - k /\ k + i <= Len(s)
        BY <2>1, <2>3, <1>3
      <4>2. l[i] = tail[i]
        BY <1>4, <2>3
      <4> QED
        BY <1>2, <4>1, <4>2
    <3> QED
      BY <3>1, <2>2, <1>1
  <2>4. CASE ~ (i <= Len(s) - k)
    <3>1. l[i] = d[i - (Len(s) - k)] /\ ~ (k + i <= Len(s))
      BY <2>1, <2>4, <1>3, <1>4
    <3>2. i - (Len(s) - k) = k + i - Len(s)
      BY <2>1, <1>3
    <3> QED
      BY <3>1, <3>2, <2>2, <1>1
  <2> QED
    BY <2>3, <2>4
<1>8. Len(l) = Len(r) /\ Len(l) = Len(s) - k + Len(d)
  BY <1>1, <1>3, <1>4, <1>6
<1>9. l = r
  BY <1>4, <1>6, <1>7, <1>8, SeqEqual
<1> QED
  BY <1>9 DEF l, r, sd, tail

\* ReplBacklog::new establishes the invariant: no byte, no receiver.
LEMMA InitStep == Init => IInv
<1> SUFFICES ASSUME Init PROVE IInv
  OBVIOUS
<1>1. TypeOK
  BY ByteAssumption, CapacityAssumption, BoundAssumption
  DEF Init, TypeOK, Cells, Ids
<1>2. RingInv
  BY CapacityAssumption DEF Init, RingInv, WindowStart
<1>3. StartInv /\ FeedsAreContiguous
  BY DEF Init, StartInv, FeedsAreContiguous, Reached
<1> QED
  BY <1>1, <1>2, <1>3 DEF IInv

\* In a state of the invariant, read_from returns the suffix of the stream.
LEMMA ReadIsExact ==
    ASSUME TypeOK, RingInv, NEW o \in 0 .. global_offset, InWindow(o)
    PROVE  read_from(o) = SubSeq(stream, o + 1, Len(stream))
<1> DEFINE r == SubSeq(stream, o + 1, Len(stream))
           n == global_offset - o
<1>1. n \in Nat /\ global_offset \in Nat /\ stream \in Seq(Byte)
  BY DEF TypeOK
<1>2. /\ r \in Seq(Byte)
      /\ Len(r) = n
      /\ \A i \in 1 .. n : r[i] = stream[o + i]
  BY <1>1 DEF RingInv
<1>3. read_from(o) = [i \in 1 .. n |-> buffer[(o + (i - 1)) % Capacity]]
  BY DEF read_from
<1>4. \A i \in 1 .. n : buffer[(o + (i - 1)) % Capacity] = stream[o + i]
  <2> SUFFICES ASSUME NEW i \in 1 .. n
               PROVE  buffer[(o + (i - 1)) % Capacity] = stream[o + i]
    OBVIOUS
  <2> DEFINE p == o + (i - 1)
  <2>1. p \in Nat /\ p < global_offset /\ p + 1 = o + i
    BY <1>1
  <2>2. WindowStart <= p
    BY <1>1, CapacityAssumption DEF InWindow, WindowStart
  <2> HIDE DEF p
  <2>3. buffer[p % Capacity] = stream[p + 1]
    BY <2>1, <2>2 DEF RingInv
  <2> QED
    BY <2>1, <2>3 DEF p
<1>5. r = [i \in 1 .. n |-> r[i]]
  BY <1>1, <1>2, SMTT(40)
<1> HIDE DEF r, n
<1>6. read_from(o) = r
  BY <1>2, <1>3, <1>4, <1>5, ZenonT(60)
<1> QED
  BY <1>6 DEF r

\* push keeps the ring and every feed in step with the stream.
LEMMA PushStep ==
    ASSUME IInv, NEW data \in Chunks, push(data)
    PROVE  IInv'
<1>1. data \in Seq(Byte) /\ Len(data) \in Nat
  BY ChunksAssumption
<1>2. Capacity \in Nat \ {0} /\ global_offset \in Nat /\ Len(stream) = global_offset
  BY CapacityAssumption DEF IInv, TypeOK, RingInv
<1>3. global_offset' = global_offset + Len(data) /\ stream' = stream \o data
  BY DEF push
<1>4. stream' \in Seq(Byte) /\ Len(stream') = global_offset'
  <2>1. stream \in Seq(Byte)
    BY DEF IInv, TypeOK
  <2> QED
    BY <1>1, <1>2, <1>3, <2>1, ConcatProperties
<1>5. TypeOK'
  <2>1. buffer' \in [Cells -> Byte]
    <3> SUFFICES ASSUME NEW i \in Cells
                 PROVE  RingAfter(data)[i] \in Byte
      BY DEF push, RingAfter
    <3>1. LastWrite(data, i) \in Int /\ LastWrite(data, i) <= Len(data)
      BY <1>1, <1>2 DEF LastWrite, IInv, TypeOK, Cells
    <3>2. LastWrite(data, i) >= 1 => data[LastWrite(data, i)] \in Byte
      BY <1>1, <3>1, ElementOfSeq
    <3> QED
      BY <3>2 DEF RingAfter, IInv, TypeOK
  <2>2. write_pos' \in Cells
    BY <1>1, <1>2 DEF push, NextWritePos, IInv, TypeOK, Cells
  <2>3. feed' \in [Ids -> Seq(Byte)]
    BY <1>1 DEF push, FeedAfter, IInv, TypeOK
  <2> QED
    BY <1>1, <1>2, <1>3, <1>4, <2>1, <2>2, <2>3
    DEF push, Reached, IInv, TypeOK
<1>6. RingInv'
  <2>1. write_pos' = global_offset' % Capacity
    <3>1. PICK q \in Int, r \in 0 .. Capacity - 1 :
              global_offset = Capacity * q + r /\ global_offset % Capacity = r
      <4> /\ (global_offset \div Capacity) \in Int
          /\ (global_offset % Capacity) \in 0 .. Capacity - 1
          /\ global_offset = Capacity * (global_offset \div Capacity)
                                + (global_offset % Capacity)
        BY <1>2
      <4> QED
        OBVIOUS
    <3>2. write_pos' = (r + Len(data)) % Capacity
      BY <3>1 DEF push, NextWritePos, IInv, RingInv
    <3>3. (r + Len(data) + Capacity * q) % Capacity = (r + Len(data)) % Capacity
      <4> DEFINE a == r + Len(data)
      <4>1. a \in Int
        BY <1>1
      <4> HIDE DEF a
      <4>2. (a + Capacity * q) % Capacity = a % Capacity
        BY <1>2, <4>1, ModShift
      <4> QED
        BY <4>2 DEF a
    <3> QED
      BY <1>1, <1>2, <1>3, <3>1, <3>2, <3>3
  <2>2. ASSUME NEW o \in Nat, WindowStart' <= o, o < global_offset'
        PROVE  buffer'[o % Capacity] = stream'[o + 1]
    <3>1. global_offset + Len(data) - Capacity <= o /\ o < global_offset + Len(data)
      BY <1>1, <1>2, <1>3, <2>2 DEF WindowStart
    <3>2. buffer'[o % Capacity] = IF o >= global_offset
                                  THEN data[o - global_offset + 1]
                                  ELSE buffer[o % Capacity]
      BY <1>1, <3>1, PushCell DEF push, IInv
    <3>3. stream'[o + 1] = IF o >= global_offset THEN data[o - global_offset + 1]
                                                 ELSE stream[o + 1]
      BY <1>1, <1>2, <1>3, <3>1, SMTT(40) DEF IInv, TypeOK
    <3>4. o < global_offset => buffer[o % Capacity] = stream[o + 1]
      <4> SUFFICES ASSUME o < global_offset PROVE WindowStart <= o
        BY DEF IInv, RingInv
      <4> QED
        BY <1>1, <1>2, <3>1 DEF WindowStart
    <3> QED
      BY <1>2, <3>2, <3>3, <3>4
  <2> QED
    BY <1>4, <2>1, <2>2 DEF RingInv
<1>7. StartInv'
  BY <1>1, <1>2, <1>3 DEF push, StartInv, IInv, TypeOK
<1>8. FeedsAreContiguous'
  <2> SUFFICES ASSUME NEW id \in Reached'
               PROVE  feed'[id] = SubSeq(stream', start'[id] + 1, Len(stream'))
    BY DEF FeedsAreContiguous
  <2>1. id \in Reached /\ id \in Ids
    BY DEF push, Reached, IInv, TypeOK
  <2>2. feed'[id] = SubSeq(stream, start[id] + 1, Len(stream)) \o data
    BY <2>1 DEF push, FeedAfter, IInv, FeedsAreContiguous
  <2>3. start[id] \in 0 .. Len(stream)
    BY <1>2, <2>1 DEF IInv, TypeOK, StartInv
  <2> QED
    BY <1>1, <1>3, <2>2, <2>3, SuffixOfAppend, ZenonT(60) DEF push, IInv, TypeOK
<1> QED
  BY <1>5, <1>6, <1>7, <1>8 DEF IInv

\* handle_psync's critical section registers a receiver with exactly the bytes
\* it lacks.
LEMMA AttachStep ==
    ASSUME IInv, NEW same \in BOOLEAN, NEW o \in -1 .. MaxOffset,
           psync_attach(same, o)
    PROVE  IInv'
<1> DEFINE is_partial == o >= 0 /\ can_serve_partial(same, o)
           id == next_replica_id
           from == IF is_partial THEN o ELSE global_offset
           caught == CatchUp(is_partial, o)
<1>1. /\ id \in Ids /\ id \notin rx_open
      /\ Reached' = Reached \cup {id}
      /\ UNCHANGED <<ring, stream>>
      /\ start' = [start EXCEPT ![id] = from]
      /\ feed' = [feed EXCEPT ![id] = caught]
  BY BoundAssumption
  DEF psync_attach, register_replica, Reached, IInv, TypeOK, Ids
<1>2. global_offset \in Nat /\ stream \in Seq(Byte) /\ Len(stream) = global_offset
  BY DEF IInv, TypeOK, RingInv
<1>3. from \in 0 .. global_offset /\ caught = SubSeq(stream, from + 1, Len(stream))
  <2>1. CASE is_partial
    <3>1. o \in 0 .. global_offset /\ InWindow(o)
      BY <1>2, <2>1, BoundAssumption DEF can_serve_partial, InWindow
    <3> QED
      BY <2>1, <3>1, ReadIsExact DEF CatchUp, IInv
  <2>2. CASE ~ is_partial
    BY <1>2, <2>2 DEF CatchUp
  <2> QED
    BY <2>1, <2>2
<1> HIDE DEF from, caught, is_partial
<1>4. caught \in Seq(Byte)
  BY <1>2, <1>3
<1>5. TypeOK'
  <2>1. start' \in [Ids -> Nat] /\ feed' \in [Ids -> Seq(Byte)]
    BY <1>1, <1>3, <1>4 DEF IInv, TypeOK
  <2>2. /\ replicas' \subseteq Ids
        /\ next_replica_id' \in 0 .. MaxReplicas
        /\ rx_open' \subseteq 0 .. next_replica_id' - 1
    BY <1>1, BoundAssumption
    DEF psync_attach, register_replica, IInv, TypeOK, Ids
  <2> QED
    BY <1>1, <2>1, <2>2 DEF ring, IInv, TypeOK
<1>6. RingInv'
  BY <1>1 DEF ring, IInv, RingInv, WindowStart
<1>7. StartInv'
  BY <1>1, <1>3 DEF ring, IInv, TypeOK, StartInv
<1>8. FeedsAreContiguous'
  <2> SUFFICES ASSUME NEW i \in Reached'
               PROVE  feed'[i] = SubSeq(stream, start'[i] + 1, Len(stream))
    BY <1>1 DEF FeedsAreContiguous
  <2>1. CASE i = id
    BY <1>1, <1>3, <2>1 DEF IInv, TypeOK
  <2>2. CASE i # id
    <3> i \in Reached
      BY <1>1, <2>2
    <3> QED
      BY <1>1, <2>2 DEF IInv, TypeOK, FeedsAreContiguous, Reached
  <2> QED
    BY <2>1, <2>2
<1> QED
  BY <1>5, <1>6, <1>7, <1>8 DEF IInv

\* Leaving touches neither the ring nor the feeds of those that stay.
LEMMA DetachStep ==
    ASSUME IInv, NEW id \in Ids, unregister_replica(id) \/ drop_receiver(id)
    PROVE  IInv'
<1>1. /\ Reached' \subseteq Reached
      /\ replicas' \subseteq replicas /\ rx_open' \subseteq rx_open
      /\ UNCHANGED <<ring, next_replica_id, stream, start, feed>>
  BY DEF unregister_replica, drop_receiver, Reached
<1>2. TypeOK'
  BY <1>1 DEF ring, IInv, TypeOK
<1>3. RingInv' /\ StartInv'
  BY <1>1 DEF ring, IInv, RingInv, StartInv, WindowStart
<1>4. FeedsAreContiguous'
  BY <1>1 DEF IInv, FeedsAreContiguous
<1> QED
  BY <1>2, <1>3, <1>4 DEF IInv

\* Every step of the backlog preserves the invariant.
LEMMA NextStep == IInv /\ [Next]_vars => IInv'
<1> SUFFICES ASSUME IInv, [Next]_vars PROVE IInv'
  OBVIOUS
<1>1. CASE \E data \in Chunks : push(data)
  BY <1>1, PushStep
<1>2. CASE \E same \in BOOLEAN, o \in -1 .. MaxOffset : psync_attach(same, o)
  BY <1>2, AttachStep
<1>3. CASE \E id \in Ids : unregister_replica(id) \/ drop_receiver(id)
  BY <1>3, DetachStep
<1>4. CASE UNCHANGED vars
  BY <1>4 DEF vars, IInv, TypeOK, RingInv, StartInv, FeedsAreContiguous,
              Reached, WindowStart
<1> QED
  BY <1>1, <1>2, <1>3, <1>4 DEF Next

\* The inductive invariant holds in every state of every behaviour.
THEOREM Invariance == Spec => []IInv
<1>1. Init => IInv
  BY InitStep
<1>2. IInv /\ [Next]_vars => IInv'
  BY NextStep
<1> QED
  BY <1>1, <1>2, PTL DEF Spec

\* Type correctness of the backlog's state: the write position stays inside
\* the buffer and the ids handed out stay unique.
THEOREM TypeCorrect == Spec => []TypeOK
<1>1. IInv => TypeOK
  BY DEF IInv
<1> QED
  BY <1>1, Invariance, PTL

\* For every ring size and every sequence of writes, what read_from returns
\* for an offset can_serve_partial accepts is the stream from that offset on.
THEOREM WindowExact == Spec => []WindowIsExact
<1>1. IInv => WindowIsExact
  BY ReadIsExact DEF IInv, WindowIsExact
<1> QED
  BY <1>1, Invariance, PTL

\* For every number of replicas and every interleaving of writes, attaching
\* and leaving, a live replica misses no byte and gets none twice.
THEOREM FeedsContiguous == Spec => []FeedsAreContiguous
<1>1. IInv => FeedsAreContiguous
  BY DEF IInv
<1> QED
  BY <1>1, Invariance, PTL

-----------------------------------------------------------------------------
(* Refinement. *)

\* Every step of the backlog, from a state of the invariant, is a step of the
\* abstract log or leaves it unchanged.
LEMMA RefinementStep ==
    ASSUME IInv, IInv', [Next]_vars
    PROVE  [Log!Next]_Log!logVars
<1>1. ASSUME NEW data \in Chunks, push(data)
      PROVE  Log!Publish
  <2>1. stream' = stream \o data /\ Reached' = Reached /\ start' = start
    BY <1>1 DEF push, Reached
  <2>2. feed' = [id \in Ids |-> IF id \in Reached
                                THEN Log!Suffix(stream', start[id]) ELSE feed[id]]
    <3>1. \A id \in Reached :
              feed'[id] = SubSeq(stream', start[id] + 1, Len(stream'))
      BY <2>1 DEF IInv, FeedsAreContiguous
    <3>2. feed' = [id \in Ids |-> IF id \in Reached THEN feed[id] \o data ELSE feed[id]]
      BY <1>1 DEF push, FeedAfter
    <3> QED
      BY <3>1, <3>2 DEF Log!Suffix
  <2> QED
    BY <2>1, <2>2 DEF Log!Publish
<1>2. ASSUME NEW same \in BOOLEAN, NEW o \in -1 .. MaxOffset, psync_attach(same, o)
      PROVE  Log!Attach
  <2> DEFINE id == next_replica_id
             from == start'[id]
  <2>1. /\ id \in Ids \ Reached
        /\ Reached' = Reached \cup {id}
        /\ UNCHANGED <<ring, stream>>
    BY <1>2, BoundAssumption
    DEF psync_attach, register_replica, Reached, IInv, TypeOK, Ids
  <2>2. start' = [start EXCEPT ![id] = from] /\ feed' = [feed EXCEPT ![id] = feed'[id]]
    BY <1>2, <2>1 DEF psync_attach, IInv, TypeOK
  <2>3. from \in 0 .. Len(stream)
    BY <2>1 DEF ring, IInv, TypeOK, RingInv, StartInv
  <2>4. feed'[id] = Log!Suffix(stream, from)
    BY <2>1 DEF Log!Suffix, IInv, FeedsAreContiguous
  <2> QED
    BY <2>1, <2>2, <2>3, <2>4 DEF Log!Attach
<1>3. ASSUME NEW id \in Ids, unregister_replica(id)
      PROVE  Log!Detach \/ UNCHANGED Log!logVars
  BY <1>3 DEF unregister_replica, Reached, Log!Detach
<1>4. ASSUME NEW id \in Ids, drop_receiver(id)
      PROVE  Log!Detach \/ UNCHANGED Log!logVars
  <2>1. CASE id \in replicas
    BY <1>4, <2>1 DEF drop_receiver, Reached, Log!Detach
  <2>2. CASE id \notin replicas
    BY <1>4, <2>2 DEF drop_receiver, Reached, Log!logVars
  <2> QED
    BY <2>1, <2>2
<1>5. UNCHANGED vars => UNCHANGED Log!logVars
  BY DEF vars, Log!logVars, Reached
<1> QED
  BY <1>1, <1>2, <1>3, <1>4, <1>5 DEF Next, Log!Next

\* The backlog implements the abstract replication log, for every ring size,
\* every set of commands and every number of replicas.
THEOREM Refinement == Spec => ImplementsReplLog
<1>1. Init => Log!Init
  BY DEF Init, Log!Init, Reached
<1>2. IInv /\ IInv' /\ [Next]_vars => [Log!Next]_Log!logVars
  BY RefinementStep
<1> QED
  BY <1>1, <1>2, Invariance, PTL DEF Spec, ImplementsReplLog, Log!Spec

-----------------------------------------------------------------------------
(* The append-only file and the snapshot: the invariant. *)

\* The write a connection has in hand, if any.
InHand == {conn[c].write : c \in Clients} \ {0}

\* The histories.
WriteInv ==
    /\ where \in Seq(Locations) /\ before \in Seq(SUBSET Nat) /\ Len(before) = Len(where)
    /\ \A w \in DOMAIN where : before[w] \subseteq DOMAIN where
    /\ answered \subseteq DOMAIN where /\ logged \subseteq DOMAIN where

\* A write in hand is one connection's, and is not answered: no write began after it.
Handed(k) ==
    /\ DOMAIN k = {"db", "at", "cmd", "write"} /\ k.db \in Dbs
    /\ k.at = "idle" => k.write = 0
    /\ k.write # 0 => /\ k.write \in DOMAIN where \ answered
                      /\ \A w \in DOMAIN where : k.write \notin before[w]
    /\ k.at = "append" => \/ k.write \in logged /\ k.cmd = SetCmd(where[k.write][2], k.write)
                          \/ k.write = 0 /\ \E d \in Dbs : k.cmd = SelectCmd(d)

HandInv ==
    /\ DOMAIN conn = Clients /\ \A c \in Clients : Handed(conn[c])
    /\ \A c, o \in Clients : c # o /\ conn[c].write # 0 => conn[o].write # conn[c].write

\* The files and the threads that write them.
FileInv ==
    /\ DOMAIN aof = {"there", "log", "synced"} /\ DOMAIN rewrite = {"at", "db", "file"}
    /\ DOMAIN saving = {"at", "db", "data", "since"} /\ DOMAIN behind = {"aof", "rdb"}
    /\ DOMAIN store = Locations /\ DOMAIN saving.data = Locations
    /\ saving.since \subseteq DOMAIN where /\ saving.db \in Nat
    /\ \A f \in behind.aof : DOMAIN f = {"there", "log", "synced"}
    /\ \A r \in {rdb} \cup behind.rdb : DOMAIN r.data = Locations /\ r.since \subseteq DOMAIN where
    /\ ~ up => conn = [c \in Clients |-> NewConn] /\ rewrite = NoRewrite /\ saving = NotSaving

\* What was answered when a snapshot began is in the databases it has copied and
\* still in the store where it has not.
Copied(w) == IF where[w][1] < saving.db THEN saving.data[where[w]] ELSE store[where[w]]

SnapshotInv ==
    /\ saving.at = "copy" => \A w \in saving.since : Covers(Copied(w), w)
    /\ \A r \in {rdb} \cup behind.rdb : r.there /\ r.whole => Keeps(r.data, r.since)

\* The logged writes that are in the file: all but those lost in a power failure.
InFile ==
    (logged \cap (answered \cup {conn[c].write : c \in {o \in Clients : conn[o].at = "reply"}})) \ lost

\* A file that was not cut inside a command, of a server with one database.
Clean(log) ==
    /\ \E S : log \in Seq(S)
    /\ \A p \in DOMAIN log : log[p].op = "SET" \/ (log[p].op = "SELECT" /\ log[p].arg = 0)

AofInv ==
    /\ up => Keeps(store, ((answered \cap logged) \ lost) \cup InHand)
    /\ ~ up => aof.there /\ ~ rdb.there
    /\ rewrite.at # "removed" => aof.there
    /\ aof.there => /\ Clean(aof.log) /\ Keeps(Replay(aof.log), InFile)
                    /\ aof.synced \in 0 .. Len(aof.log)
                    /\ Keeps(Replay(SubSeq(aof.log, 1, aof.synced)), InFile \ Unsynced)
    /\ rewrite.at \in {"idle", "copy", "removed"}
    /\ rewrite.at # "idle" /\ rewrite.db # 0
          => rewrite.db = 1 /\ Clean(rewrite.file) /\ Keeps(Replay(rewrite.file), InFile)
    /\ rewrite.at # "idle" /\ rewrite.db = 0 => rewrite.at = "copy" /\ rewrite.file = <<>>

PersistenceInv ==
    /\ WriteInv /\ HandInv /\ FileInv /\ SnapshotInv
    /\ NumDbs = 1 /\ intact => AofInv

-----------------------------------------------------------------------------
(* The append-only file: what replaying it gives. *)

\* A set of positions has a last one.
LEMMA MaxFacts ==
    ASSUME NEW n \in Nat, NEW S \in SUBSET (1 .. n), S # {}
    PROVE  Max(S) \in S /\ \A y \in S : y <= Max(S)
<1> DEFINE R == OpToRel(<, Nat)
           T == {n - x : x \in S}
<1>1. \A x, y \in Nat : x < y => <<x, y>> \in R
  BY DEF OpToRel
<1>2. IsWellFoundedOn(R, Nat)
  BY NatLessThanWellFounded, Zenon
<1> HIDE DEF R
<1>3. T \subseteq Nat /\ T # {}
  <2>1. \A x \in S : x \in 1 .. n
    OBVIOUS
  <2>2. \A x \in 1 .. n : n - x \in Nat
    OBVIOUS
  <2> QED
    BY <2>1, <2>2
<1>4. PICK t \in T : \A y \in T : ~ (<<y, t>> \in R)
  BY <1>2, <1>3, WFMin, Zenon
<1>5. PICK x \in S : t = n - x
  OBVIOUS
<1>6. ASSUME NEW y \in S PROVE x >= y
  <2>1. n - y \in T /\ n - y \in Nat /\ t \in Nat
    BY <1>3
  <2>2. ~ (n - y < t)
    BY <1>1, <1>4, <2>1
  <2>3. x \in 1 .. n /\ y \in 1 .. n
    OBVIOUS
  <2> QED
    BY <1>5, <2>2, <2>3
<1>7. Max(S) \in S /\ \A y \in S : Max(S) >= y
  BY <1>6 DEF Max
<1> QED
  BY <1>7

\* The SETs of a key, when there is one database.
Sets(log, k) == {p \in DOMAIN log : log[p].op = "SET" /\ log[p].key = k}

LEMMA OneDatabase ==
    ASSUME NumDbs = 1
    PROVE  /\ Dbs = {0} /\ Locations = {0} \X Keys
           /\ \A l \in Locations : l[2] \in Keys /\ l = <<0, l[2]>>
<1>1. Dbs = {0}
  BY DEF Dbs
<1> QED
  BY <1>1 DEF Locations

LEMMA CleanSets ==
    ASSUME NEW log, Clean(log), NEW k PROVE SetsOf(log, <<0, k>>) = Sets(log, k)
<1>1. PICK S : log \in Seq(S)
  BY DEF Clean
<1>2. DOMAIN log = 1 .. Len(log) /\ Len(log) \in Nat
  BY <1>1
<1>3. Parsed(log) = DOMAIN log
  BY <1>2 DEF Parsed, Clean
<1>4. ASSUME NEW p \in DOMAIN log PROVE SelectedAt(log, p) = 0
  <2> DEFINE selects == {q \in 1 .. p - 1 : log[q].op = "SELECT"}
  <2>1. CASE selects = {}
    BY <2>1 DEF SelectedAt
  <2>2. CASE selects # {}
    <3>1. p - 1 \in Nat /\ selects \in SUBSET (1 .. p - 1)
      BY <1>2
    <3>2. Max(selects) \in selects
      <4> HIDE DEF selects
      <4> QED
        BY <2>2, <3>1, MaxFacts
    <3>3. Max(selects) \in DOMAIN log /\ log[Max(selects)].op = "SELECT"
      BY <1>2, <3>2
    <3>4. log[Max(selects)].arg = 0
      BY <3>3 DEF Clean
    <3> QED
      BY <2>2, <3>4 DEF SelectedAt
  <2> QED
    BY <2>1, <2>2
<1> QED
  BY <1>3, <1>4 DEF SetsOf, Sets

\* The last one decides.
LEMMA ReplayOf ==
    ASSUME NumDbs = 1, NEW log, Clean(log), NEW k \in Keys
    PROVE  /\ Sets(log, k) = {} => Replay(log)[<<0, k>>] = 0
           /\ \A p \in Sets(log, k) : (\A q \in Sets(log, k) : q <= p) => Replay(log)[<<0, k>>] = log[p].arg
<1>1. SetsOf(log, <<0, k>>) = Sets(log, k)
  BY CleanSets
<1>2. <<0, k>> \in Locations
  BY OneDatabase
<1>3. Replay(log)[<<0, k>>] = IF Sets(log, k) = {} THEN 0 ELSE log[Max(Sets(log, k))].arg
  BY <1>1, <1>2 DEF Replay
<1>4. PICK S : log \in Seq(S)
  BY DEF Clean
<1>5. Len(log) \in Nat /\ Sets(log, k) \in SUBSET (1 .. Len(log))
  BY <1>4 DEF Sets
<1> DEFINE P == Sets(log, k)
<1> HIDE DEF P
<1>6. ASSUME NEW p \in P, \A q \in P : q <= p PROVE Max(P) = p
  <2>1. Max(P) \in P /\ \A y \in P : y <= Max(P)
    BY <1>5, MaxFacts DEF P
  <2>2. Max(P) <= p /\ p <= Max(P) /\ Max(P) \in Nat /\ p \in Nat
    BY <1>5, <1>6, <2>1 DEF P
  <2> QED
    BY <2>2
<1> QED
  BY <1>3, <1>6 DEF P

\* One more SET.
AfterSet(a, log, k, w) ==
    /\ Clean(a) /\ Replay(a)[<<0, k>>] = w
    /\ \A x \in Keys \ {k} : Replay(a)[<<0, x>>] = Replay(log)[<<0, x>>]

LEMMA ReplaySet ==
    ASSUME NumDbs = 1, NEW log, Clean(log), NEW k \in Keys, NEW w, NEW a, a = Append(log, SetCmd(k, w))
    PROVE  AfterSet(a, log, k, w)
<1> DEFINE n == Len(log) + 1
           e == SetCmd(k, w)
<1>1. PICK S : log \in Seq(S)
  BY DEF Clean
<1>2. log \in Seq(S \cup {e}) /\ a \in Seq(S \cup {e})
  BY <1>1
<1>3. /\ Len(log) \in Nat /\ DOMAIN log = 1 .. Len(log) /\ DOMAIN a = 1 .. n /\ a[n] = e
      /\ \A i \in 1 .. Len(log) : a[i] = log[i]
  BY <1>2
<1>4. e.op = "SET" /\ e.key = k /\ e.arg = w
  BY DEF SetCmd
<1> HIDE DEF e
<1>5. \A i \in 1 .. n : i \in 1 .. Len(log) \/ i = n
  BY <1>3
<1>6. n \in 1 .. n /\ n \notin 1 .. Len(log) /\ \A i \in 1 .. Len(log) : i \in 1 .. n /\ i <= n
  BY <1>3
<1> HIDE DEF n
<1>7. Clean(a)
  BY <1>2, <1>3, <1>4, <1>5 DEF Clean
<1>8. Sets(a, k) = Sets(log, k) \cup {n} /\ \A x \in Keys \ {k} : Sets(a, x) = Sets(log, x)
  BY <1>3, <1>4, <1>5, <1>6 DEF Sets
<1>9. Replay(a)[<<0, k>>] = w
  <2>1. n \in Sets(a, k) /\ \A q \in Sets(a, k) : q <= n
    BY <1>3, <1>5, <1>6, <1>8 DEF Sets, n
  <2> QED
    BY <1>3, <1>4, <1>7, <2>1, ReplayOf
<1>10. ASSUME NEW x \in Keys \ {k} PROVE Replay(a)[<<0, x>>] = Replay(log)[<<0, x>>]
  <2>1. SetsOf(a, <<0, x>>) = Sets(log, x) /\ SetsOf(log, <<0, x>>) = Sets(log, x)
    BY <1>7, <1>8, CleanSets
  <2>2. Sets(log, x) # {} => Max(Sets(log, x)) \in 1 .. Len(log)
    <3>1. Sets(log, x) \in SUBSET (1 .. Len(log))
      BY <1>3 DEF Sets
    <3> QED
      BY <1>3, <3>1, MaxFacts
  <2>3. <<0, x>> \in Locations
    BY OneDatabase
  <2> QED
    BY <1>3, <2>1, <2>2, <2>3 DEF Replay
<1> QED
  BY <1>7, <1>9, <1>10 DEF AfterSet

\* One more SELECT.
LEMMA ReplaySelect ==
    ASSUME NumDbs = 1, NEW log, Clean(log), NEW a, a = Append(log, SelectCmd(0))
    PROVE  Clean(a) /\ \A x \in Keys : Replay(a)[<<0, x>>] = Replay(log)[<<0, x>>]
<1> DEFINE n == Len(log) + 1
           e == SelectCmd(0)
<1>1. PICK S : log \in Seq(S)
  BY DEF Clean
<1>2. log \in Seq(S \cup {e}) /\ a \in Seq(S \cup {e})
  BY <1>1
<1>3. /\ Len(log) \in Nat /\ DOMAIN log = 1 .. Len(log) /\ DOMAIN a = 1 .. n /\ a[n] = e
      /\ \A i \in 1 .. Len(log) : a[i] = log[i]
  BY <1>2
<1>4. e.op = "SELECT" /\ e.arg = 0
  BY DEF SelectCmd
<1> HIDE DEF e
<1>5. \A i \in 1 .. n : i \in 1 .. Len(log) \/ i = n
  BY <1>3
<1>6. n \in 1 .. n /\ n \notin 1 .. Len(log) /\ \A i \in 1 .. Len(log) : i \in 1 .. n
  BY <1>3
<1> HIDE DEF n
<1>7. Clean(a)
  BY <1>2, <1>3, <1>4, <1>5 DEF Clean
<1>8. ASSUME NEW x \in Keys PROVE Replay(a)[<<0, x>>] = Replay(log)[<<0, x>>]
  <2>1. Sets(a, x) = Sets(log, x)
    BY <1>3, <1>4, <1>5, <1>6 DEF Sets
  <2>2. SetsOf(a, <<0, x>>) = Sets(log, x) /\ SetsOf(log, <<0, x>>) = Sets(log, x)
    BY <1>7, <2>1, CleanSets
  <2>3. Sets(log, x) # {} => Max(Sets(log, x)) \in 1 .. Len(log)
    <3>1. Sets(log, x) \in SUBSET (1 .. Len(log))
      BY <1>3 DEF Sets
    <3> QED
      BY <1>3, <3>1, MaxFacts
  <2>4. <<0, x>> \in Locations
    BY OneDatabase
  <2> QED
    BY <1>3, <2>2, <2>3, <2>4 DEF Replay
<1> QED
  BY <1>7, <1>8

\* write_dataset writes what the store holds.
LEMMA ReplayDataset ==
    ASSUME NumDbs = 1
    PROVE  Clean(DatasetOf(0)) /\ \A k \in Keys : Replay(DatasetOf(0))[<<0, k>>] = store[<<0, k>>]
<1> DEFINE K == KeysIn(0)
           n == Cardinality(K)
           f == SetToSeq(K)
           file == DatasetOf(0)
<1>1. IsFiniteSet(K) /\ K \subseteq Keys /\ \A k \in Keys : k \in K <=> store[<<0, k>>] # 0
  BY KeysAssumption, FS_Subset DEF KeysIn
<1>2. CASE K = {}
  <2>1. file = <<>>
    BY <1>2 DEF DatasetOf
  <2>2. Clean(file)
    <3>1. <<>> \in Seq({}) /\ DOMAIN <<>> = {}
      OBVIOUS
    <3> HIDE DEF file
    <3> QED
      BY <2>1, <3>1 DEF Clean
  <2>3. \A k \in Keys : Sets(file, k) = {}
    BY <2>1 DEF Sets
  <2> HIDE DEF file
  <2>4. \A k \in Keys : Replay(file)[<<0, k>>] = 0
    BY <2>2, <2>3, ReplayOf
  <2>5. \A k \in Keys : store[<<0, k>>] = 0
    BY <1>1, <1>2
  <2> QED
    BY <2>2, <2>4, <2>5 DEF file
<1>3. CASE K # {}
  <2>1. n \in Nat /\ ExistsBijection(1 .. n, K)
    BY <1>1, FS_CardinalityType
  <2>2. f \in [1 .. n -> K] /\ IsInjective(f)
    <3>1. \E g \in [1 .. n -> K] : IsInjective(g)
      BY <2>1 DEF ExistsBijection, Bijection, Injection
    <3> QED
      BY <3>1 DEF SetToSeq
  <2>3. \A k \in K : \E i \in 1 .. n : f[i] = k
    <3>1. IsFiniteSet(1 .. n) /\ Cardinality(1 .. n) = n
      BY <2>1, FS_Interval
    <3>2. f \in Injection(1 .. n, K)
      BY <2>2 DEF Injection
    <3> HIDE DEF f
    <3>3. f \in Surjection(1 .. n, K)
      BY <1>1, <3>1, <3>2, FS_Injection
    <3> QED
      BY <3>3 DEF Surjection
  <2> DEFINE tail == [i \in 1 .. n |-> SetCmd(f[i], store[<<0, f[i]>>])]
  <2>4. file = <<>> \o tail
    BY <1>3 DEF DatasetOf
  <2> DEFINE A == {tail[i] : i \in 1 .. n}
  <2>5. tail \in Seq(A) /\ Len(tail) = n /\ DOMAIN tail = 1 .. n
    BY <2>1, SMTT(40)
  <2>6. file = tail
    <3> HIDE DEF tail, file, A
    <3> QED
      BY <2>4, <2>5
  <2>7. \A i \in 1 .. n : tail[i].op = "SET" /\ tail[i].key = f[i] /\ tail[i].arg = store[<<0, f[i]>>]
    BY DEF SetCmd
  <2> HIDE DEF tail, file, A
  <2>8. Clean(tail)
    BY <2>5, <2>7 DEF Clean
  <2>9. ASSUME NEW k \in Keys PROVE Replay(tail)[<<0, k>>] = store[<<0, k>>]
    <3>1. CASE k \in K
      <4>1. PICK i \in 1 .. n : f[i] = k
        BY <2>3, <3>1
      <4>2. \A j \in 1 .. n : f[j] = k => j = i
        BY <2>2, <4>1 DEF IsInjective
      <4>3. Sets(tail, k) = {i}
        BY <2>5, <2>7, <4>1, <4>2, ZenonT(60) DEF Sets
      <4>4. Replay(tail)[<<0, k>>] = tail[i].arg
        BY <2>8, <4>3, ReplayOf
      <4> QED
        BY <2>7, <4>1, <4>4
    <3>2. CASE k \notin K
      <4>1. Sets(tail, k) = {}
        BY <2>2, <2>5, <2>7, <3>2, ZenonT(60) DEF Sets
      <4>2. Replay(tail)[<<0, k>>] = 0
        BY <2>8, <4>1, ReplayOf
      <4> QED
        BY <1>1, <3>2, <4>2
    <3> QED
      BY <3>1, <3>2
  <2> QED
    BY <2>6, <2>8, <2>9 DEF file
<1> QED
  BY <1>2, <1>3

-----------------------------------------------------------------------------
(* The append-only file and the snapshot: the steps. *)

\* Reads and files do not touch the histories, or what connections have in hand.
LEMMA SameHistory ==
    ASSUME WriteInv, HandInv, conn' = conn, where' = where, before' = before, logged' = logged,
           answered' = answered, lost' = lost
    PROVE  WriteInv' /\ HandInv' /\ InHand' = InHand /\ InFile' = InFile
<1>1. WriteInv'
  BY DEF WriteInv
<1>2. HandInv'
  BY DEF HandInv, Handed
<1> QED
  BY <1>1, <1>2 DEF InHand, InFile

\* What covers a write goes on to.
LEMMA SameCovers ==
    ASSUME where' = where, before' = before, NEW v, NEW w
    PROVE  Covers(v, w)' <=> Covers(v, w)
BY DEF Covers

LEMMA SameKeeps ==
    ASSUME where' = where, before' = before, NEW data, NEW ws
    PROVE  Keeps(data, ws)' <=> Keeps(data, ws)
BY DEF Keeps, Covers

\* The data of one database.
LEMMA SameData ==
    ASSUME NumDbs = 1, WriteInv, NEW d1, NEW d2, \A k \in Keys : d1[<<0, k>>] = d2[<<0, k>>],
           NEW ws \in SUBSET DOMAIN where, Keeps(d1, ws)
    PROVE  Keeps(d2, ws)
<1>1. \A l \in Locations : d1[l] = d2[l]
  BY OneDatabase
<1>2. \A w \in ws : where[w] \in Locations
  BY DEF WriteInv
<1> QED
  BY <1>1, <1>2 DEF Keeps

LEMMA InitPersistence == PersistenceInit => PersistenceInv
<1> SUFFICES ASSUME PersistenceInit PROVE PersistenceInv
  OBVIOUS
<1> USE DEF PersistenceInit
<1>1. WriteInv
  BY DEF WriteInv
<1>2. HandInv
  <2>1. 0 \in Dbs
    BY DbsAssumption DEF Dbs
  <2> QED
    BY <2>1 DEF HandInv, Handed, NewConn
<1>3. FileInv
  BY DEF FileInv, NoRewrite, NotSaving, NoData, NoSnapshot
<1>4. SnapshotInv
  BY DEF SnapshotInv, NotSaving, NoSnapshot
<1>5. AofInv
  <2>1. InHand = {} /\ InFile = {}
    BY DEF InHand, InFile, NewConn
  <2>2. Clean(<<>>)
    <3>1. <<>> \in Seq({}) /\ DOMAIN <<>> = {}
      OBVIOUS
    <3> QED
      BY <3>1 DEF Clean
  <2>3. aof.there /\ aof.log = <<>> /\ aof.synced = 0 /\ up /\ answered = {} /\ logged = {} /\ rewrite.at = "idle"
    BY DEF NoRewrite
  <2> QED
    BY <2>1, <2>2, <2>3 DEF AofInv, Keeps
<1> QED
  BY <1>1, <1>2, <1>3, <1>4, <1>5 DEF PersistenceInv

\* The snapshot's thread.
LEMMA SaveKeeps == ASSUME PersistenceInv, save_begin \/ save_copy \/ save_rename PROVE PersistenceInv'
<1>1. WriteInv /\ HandInv /\ FileInv /\ SnapshotInv
  BY DEF PersistenceInv
<1>2. /\ up /\ up' = up /\ store' = store /\ conn' = conn /\ aof' = aof /\ rewrite' = rewrite
      /\ where' = where /\ before' = before /\ logged' = logged /\ answered' = answered /\ lost' = lost
      /\ intact' = intact
  BY DEF save_begin, save_copy, save_rename, hist, writeHist
<1>3. WriteInv' /\ HandInv' /\ InHand' = InHand /\ InFile' = InFile
  BY <1>1, <1>2, SameHistory
<1>4. FileInv' /\ SnapshotInv'
  <2>1. CASE save_begin
    <3> DEFINE s == {w \in answered : Covers(store[where[w]], w)}
    <3>1. saving' = [at |-> "copy", db |-> 0, data |-> NoData, since |-> s] /\ rdb' = rdb /\ behind' = behind
      BY <2>1 DEF save_begin
    <3>2. s \subseteq DOMAIN where
      BY <1>1 DEF WriteInv
    <3> HIDE DEF s
    <3>3. FileInv'
      BY <1>1, <1>2, <3>1, <3>2 DEF FileInv, NoData
    <3>4. ASSUME NEW w \in s PROVE Copied(w)' = store[where[w]] /\ Covers(store[where[w]], w)
      <4>1. where[w][1] \in Nat
        BY <1>1, <3>2, DbsAssumption DEF WriteInv, Locations, Dbs
      <4> QED
        BY <1>2, <3>1, <4>1 DEF Copied, s
    <3>5. SnapshotInv'
      BY <1>1, <1>2, <3>1, <3>4, SameCovers, SameKeeps DEF SnapshotInv
    <3> QED
      BY <3>3, <3>5
  <2>2. CASE save_copy
    <3> DEFINE new == [l \in Locations |-> IF l[1] = saving.db THEN store[l] ELSE saving.data[l]]
    <3>1. /\ saving.at = "copy" /\ saving' = [saving EXCEPT !.db = @ + 1, !.data = new] /\ rdb' = rdb /\ behind' = behind
      BY <2>2 DEF save_copy
    <3>2. new = [l \in Locations |-> IF l[1] = saving.db THEN store[l] ELSE saving.data[l]]
      OBVIOUS
    <3> HIDE DEF new
    <3>3. /\ DOMAIN saving' = {"at", "db", "data", "since"} /\ saving'.at = "copy" /\ saving'.db = saving.db + 1
          /\ saving'.data = new /\ saving'.since = saving.since /\ saving.db \in Nat
      BY <1>1, <3>1 DEF FileInv
    <3>4. FileInv'
      BY <1>1, <1>2, <3>1, <3>2, <3>3 DEF FileInv
    <3>5. ASSUME NEW w \in saving.since PROVE Copied(w)' = Copied(w)
      <4>1. where[w] \in Locations /\ where[w][1] \in Nat
        BY <1>1, DbsAssumption DEF WriteInv, FileInv, Locations, Dbs
      <4> QED
        BY <1>2, <3>2, <3>3, <4>1 DEF Copied
    <3>6. SnapshotInv'
      BY <1>1, <1>2, <3>1, <3>3, <3>5, SameCovers, SameKeeps DEF SnapshotInv
    <3> QED
      BY <3>4, <3>6
  <2>3. CASE save_rename
    <3>1. /\ saving.at = "copy" /\ saving.db = NumDbs /\ saving' = NotSaving
          /\ rdb' = Snapshot /\ behind' = [behind EXCEPT !.rdb = @ \cup {rdb, Damaged}]
      BY <2>3 DEF save_rename
    <3>5. DOMAIN behind' = {"aof", "rdb"} /\ behind'.aof = behind.aof /\ behind'.rdb = behind.rdb \cup {rdb, Damaged}
      BY <1>1, <3>1 DEF FileInv
    <3>6. /\ rdb'.there /\ rdb'.whole /\ rdb'.data = saving.data /\ rdb'.since = saving.since
          /\ ~ Damaged.whole /\ DOMAIN Damaged.data = Locations /\ Damaged.since = {}
      BY <3>1 DEF Snapshot, Damaged, NoData
    <3>7. ASSUME NEW r \in {rdb'} \cup behind'.rdb PROVE DOMAIN r.data = Locations /\ r.since \subseteq DOMAIN where
      BY <1>1, <3>5, <3>6 DEF FileInv
    <3>2. FileInv'
      BY <1>1, <1>2, <3>1, <3>5, <3>7 DEF FileInv, NotSaving, NoData
    <3>3. ASSUME NEW w \in saving.since PROVE Covers(saving.data[where[w]], w)
      <4>1. where[w][1] < saving.db
        BY <1>1, <3>1, DbsAssumption DEF WriteInv, FileInv, Locations, Dbs
      <4> QED
        BY <1>1, <3>1, <4>1 DEF SnapshotInv, Copied
    <3>4. SnapshotInv'
      <4>1. ASSUME NEW r \in {rdb'} \cup behind'.rdb, r.there, r.whole PROVE Keeps(r.data, r.since)
        <5>1. CASE r = rdb'
          BY <3>3, <3>6, <5>1 DEF Keeps
        <5>2. CASE r # rdb'
          BY <1>1, <3>5, <3>6, <4>1, <5>2 DEF SnapshotInv
        <5> QED
          BY <5>1, <5>2
      <4>2. saving'.at = "idle"
        BY <3>1 DEF NotSaving
      <4> QED
        BY <1>2, <4>1, <4>2, SameKeeps DEF SnapshotInv
    <3> QED
      BY <3>2, <3>4
  <2> QED
    BY <2>1, <2>2, <2>3
<1>5. NumDbs = 1 /\ intact => AofInv'
  <2> SUFFICES ASSUME NumDbs = 1, intact PROVE AofInv'
    OBVIOUS
  <2>1. AofInv
    BY DEF PersistenceInv
  <2> QED
    BY <1>2, <1>3, <2>1, SameKeeps DEF AofInv, Unsynced
<1> QED
  BY <1>2, <1>3, <1>4, <1>5 DEF PersistenceInv

\* A step that leaves the snapshot's thread and the store.
LEMMA SameSnapshot ==
    ASSUME SnapshotInv, FileInv, WriteInv, store' = store, saving' = saving, rdb' = rdb, behind'.rdb \subseteq behind.rdb,
           where' = where, before' = before
    PROVE  SnapshotInv'
<1>1. \A w : Copied(w)' = Copied(w)
  BY DEF Copied
<1> QED
  BY <1>1, SameCovers, SameKeeps DEF SnapshotInv

\* The thread of BGREWRITEAOF, and the kernel.
LEMMA RewriteKeeps ==
    ASSUME PersistenceInv, rewrite_begin \/ rewrite_copy \/ rewrite_remove \/ rewrite_rename \/ write_back
    PROVE  PersistenceInv'
<1>1. WriteInv /\ HandInv /\ FileInv /\ SnapshotInv
  BY DEF PersistenceInv
<1>2. /\ up' = up /\ store' = store /\ conn' = conn /\ saving' = saving /\ rdb' = rdb
      /\ where' = where /\ before' = before /\ logged' = logged /\ answered' = answered /\ lost' = lost
      /\ intact' = intact
  BY DEF rewrite_begin, rewrite_copy, rewrite_remove, rewrite_rename, write_back, hist, writeHist
<1>3. WriteInv' /\ HandInv' /\ InHand' = InHand /\ InFile' = InFile
  BY <1>1, <1>2, SameHistory
<1>4. /\ DOMAIN behind' = {"aof", "rdb"} /\ behind'.rdb \subseteq behind.rdb
      /\ \A f \in behind'.aof : f \in behind.aof \/ f = OnDisk(aof) \/ f = NoFile
  <2>1. DOMAIN behind = {"aof", "rdb"}
    BY <1>1 DEF FileInv
  <2>2. CASE rewrite_begin \/ rewrite_copy
    BY <2>1, <2>2 DEF rewrite_begin, rewrite_copy
  <2>3. CASE rewrite_remove
    BY <2>1, <2>3 DEF rewrite_remove
  <2>4. CASE rewrite_rename
    BY <2>1, <2>4 DEF rewrite_rename
  <2>5. CASE write_back
    BY <2>5 DEF write_back
  <2> QED
    BY <2>2, <2>3, <2>4, <2>5
<1>5. FileInv' /\ SnapshotInv'
  <2>1. DOMAIN aof' = {"there", "log", "synced"} /\ DOMAIN rewrite' = {"at", "db", "file"} /\ (~ up => rewrite' = rewrite)
    BY <1>1 DEF FileInv, rewrite_begin, rewrite_copy, rewrite_remove, rewrite_rename, write_back, NoRewrite, NoFile
  <2>2. DOMAIN OnDisk(aof) = {"there", "log", "synced"} /\ DOMAIN NoFile = {"there", "log", "synced"}
    BY <1>1 DEF FileInv, OnDisk, NoFile
  <2>3. \A f \in behind'.aof : DOMAIN f = {"there", "log", "synced"}
    BY <1>1, <1>4, <2>2 DEF FileInv
  <2>4. FileInv'
    BY <1>1, <1>2, <1>4, <2>1, <2>3 DEF FileInv
  <2>5. SnapshotInv'
    BY <1>1, <1>2, <1>4, SameSnapshot
  <2> QED
    BY <2>4, <2>5
<1>6. ASSUME NumDbs = 1, intact PROVE AofInv'
  <2>1. AofInv
    BY <1>6 DEF PersistenceInv
  <2>2. InFile \subseteq DOMAIN where /\ (answered \cap logged) \ lost \subseteq InFile
    BY <1>1 DEF InFile, WriteInv
  <2>3. CASE rewrite_begin
    <3>1. rewrite.at = "idle" /\ rewrite' = [at |-> "copy", db |-> 0, file |-> <<>>] /\ aof' = aof
      BY <2>3 DEF rewrite_begin, FileLockFree, hist
    <3> QED
      BY <1>2, <1>3, <2>1, <3>1, SameKeeps DEF AofInv, Unsynced
  <2>4. CASE rewrite_copy
    <3> DEFINE file == rewrite.file \o DatasetOf(rewrite.db)
    <3>1. /\ up /\ rewrite.at = "copy" /\ rewrite.db < 1 /\ aof' = aof
          /\ rewrite' = [rewrite EXCEPT !.file = file, !.db = @ + 1]
      BY <1>6, <2>4 DEF rewrite_copy, hist
    <3>2. rewrite.db = 0 /\ rewrite.file = <<>>
      <4>1. rewrite.db # 0 => rewrite.db = 1
        BY <2>1, <3>1 DEF AofInv
      <4>2. rewrite.db = 0
        BY <3>1, <4>1
      <4> QED
        BY <2>1, <3>1, <4>2 DEF AofInv
    <3>3. Clean(DatasetOf(0)) /\ \A k \in Keys : Replay(DatasetOf(0))[<<0, k>>] = store[<<0, k>>]
      BY <1>6, ReplayDataset
    <3>4. file = DatasetOf(0)
      <4>1. PICK S : DatasetOf(0) \in Seq(S)
        BY <3>3 DEF Clean
      <4> QED
        BY <3>2, <4>1
    <3> HIDE DEF file
    <3>5. rewrite'.at = "copy" /\ rewrite'.db = 1 /\ rewrite'.file = file
      BY <1>1, <3>1, <3>2 DEF FileInv
    <3>6. Keeps(store, InFile)
      <4>1. InFile \subseteq ((answered \cap logged) \ lost) \cup InHand
        <5>1. 0 \notin DOMAIN where
          BY <1>1 DEF WriteInv
        <5> QED
          BY <2>2, <5>1 DEF InFile, InHand
      <4> QED
        BY <2>1, <3>1, <4>1 DEF AofInv, Keeps
    <3>7. Keeps(Replay(file), InFile)
      <4>1. \A k \in Keys : store[<<0, k>>] = Replay(file)[<<0, k>>]
        BY <3>3, <3>4
      <4> QED
        BY <1>1, <1>6, <2>2, <3>6, <4>1, SameData
    <3> QED
      BY <1>2, <1>3, <2>1, <3>1, <3>3, <3>4, <3>5, <3>7, SameKeeps DEF AofInv, Unsynced
  <2>5. CASE rewrite_remove
    <3>1. /\ up /\ rewrite.at = "copy" /\ rewrite.db = 1 /\ ~ aof'.there
          /\ rewrite' = [rewrite EXCEPT !.at = "removed"]
      BY <1>6, <2>5 DEF rewrite_remove, NoFile
    <3>2. rewrite'.at = "removed" /\ rewrite'.db = 1 /\ rewrite'.file = rewrite.file
      BY <1>1, <3>1 DEF FileInv
    <3> QED
      BY <1>2, <1>3, <2>1, <3>1, <3>2, SameKeeps DEF AofInv, Unsynced
  <2>6. CASE rewrite_rename
    <3> DEFINE file == rewrite.file
    <3>1. /\ up /\ rewrite.at = "removed" /\ rewrite'.at = "idle"
          /\ aof' = [there |-> TRUE, log |-> file, synced |-> Len(file)]
      BY <2>6 DEF rewrite_rename, NoRewrite
    <3>2. Clean(file) /\ Keeps(Replay(file), InFile)
      BY <2>1, <3>1 DEF AofInv
    <3> HIDE DEF file
    <3>3. Len(file) \in Nat /\ SubSeq(file, 1, Len(file)) = file
      <4>1. PICK S : file \in Seq(S)
        BY <3>2 DEF Clean
      <4> QED
        BY <4>1
    <3>4. Keeps(Replay(file), InFile \ Unsynced')
      BY <3>2 DEF Keeps
    <3>5. aof'.there /\ aof'.log = file /\ aof'.synced = Len(file)
      BY <3>1
    <3>6. aof'.synced \in 0 .. Len(aof'.log) /\ SubSeq(aof'.log, 1, aof'.synced) = file
      BY <3>3, <3>5
    <3> QED
      BY <1>2, <1>3, <2>1, <3>1, <3>2, <3>4, <3>5, <3>6, SameKeeps DEF AofInv, Unsynced
  <2>7. CASE write_back /\ ~ aof.there
    <3>1. rewrite' = rewrite /\ ~ aof'.there
      BY <1>1, <2>7 DEF write_back, FileInv
    <3> QED
      BY <1>2, <1>3, <2>1, <2>7, <3>1, SameKeeps DEF AofInv, Unsynced
  <2>8. CASE write_back /\ aof.there
    <3> DEFINE file == aof.log
    <3>1. /\ aof.there /\ rewrite' = rewrite /\ aof' = [aof EXCEPT !.synced = Len(file)]
      BY <2>8 DEF write_back
    <3>2. Clean(file) /\ Keeps(Replay(file), InFile)
      BY <2>1, <3>1 DEF AofInv
    <3>3. aof'.there /\ aof'.log = file /\ aof'.synced = Len(file)
      BY <1>1, <3>1 DEF FileInv
    <3> HIDE DEF file
    <3>4. Len(file) \in Nat /\ SubSeq(file, 1, Len(file)) = file
      <4>1. PICK S : file \in Seq(S)
        BY <3>2 DEF Clean
      <4> QED
        BY <4>1
    <3>5. Keeps(Replay(file), InFile \ Unsynced')
      BY <3>2 DEF Keeps
    <3>6. aof'.synced \in 0 .. Len(aof'.log) /\ SubSeq(aof'.log, 1, aof'.synced) = file
      BY <3>3, <3>4
    <3> QED
      BY <1>2, <1>3, <2>1, <3>1, <3>2, <3>3, <3>5, <3>6, SameKeeps DEF AofInv, Unsynced
  <2> QED
    BY <2>3, <2>4, <2>5, <2>6, <2>7, <2>8
<1> QED
  BY <1>2, <1>3, <1>5, <1>6 DEF PersistenceInv

-----------------------------------------------------------------------------
(* The append-only file: the connections. *)

\* SELECT: the database changes, nothing is in hand.
LEMMA SelectKeeps == ASSUME PersistenceInv, NEW c \in Clients, NEW d \in Dbs, select(c, d) PROVE PersistenceInv'
<1>1. WriteInv /\ HandInv /\ FileInv /\ SnapshotInv
  BY DEF PersistenceInv
<1>2. /\ up /\ up' = up /\ store' = store /\ aof' = aof /\ rewrite' = rewrite /\ saving' = saving /\ rdb' = rdb /\ behind' = behind
      /\ where' = where /\ before' = before /\ logged' = logged /\ answered' = answered /\ lost' = lost
      /\ intact' = intact /\ conn[c].at = "idle"
      /\ conn' = [conn EXCEPT ![c].db = d, ![c].at = "append", ![c].cmd = SelectCmd(d)]
  BY DEF select, hist, writeHist
<1>3. /\ DOMAIN conn' = Clients /\ \A o \in Clients : o # c => conn'[o] = conn[o]
      /\ DOMAIN conn'[c] = {"db", "at", "cmd", "write"}
      /\ conn'[c].db = d /\ conn'[c].at = "append" /\ conn'[c].cmd = SelectCmd(d) /\ conn'[c].write = 0
      /\ conn[c].write = 0
  BY <1>1, <1>2 DEF HandInv, Handed
<1>4. \A o \in Clients : conn'[o].write = conn[o].write
  BY <1>3
<1>5. WriteInv'
  BY <1>1, <1>2 DEF WriteInv
<1>6. HandInv'
  <2>1. \A o \in Clients : o # c => Handed(conn[o])'
    BY <1>1, <1>2, <1>3 DEF HandInv, Handed
  <2>2. Handed(conn[c])'
    BY <1>3 DEF Handed
  <2>3. \A o \in Clients : Handed(conn[o])'
    BY <2>1, <2>2
  <2>4. \A a, b \in Clients : a # b /\ conn[a].write # 0 => conn[b].write # conn[a].write
    BY <1>1 DEF HandInv
  <2> QED
    BY <1>3, <1>4, <2>3, <2>4 DEF HandInv
<1>7. FileInv'
  BY <1>1, <1>2 DEF FileInv
<1>8. SnapshotInv'
  BY <1>1, <1>2, SameSnapshot
<1>9. InHand' = InHand
  BY <1>4 DEF InHand
<1>10. InFile' = InFile
  <2>1. \A o \in Clients : conn'[o].at = "reply" <=> conn[o].at = "reply"
    BY <1>2, <1>3
  <2>2. {a \in Clients : conn'[a].at = "reply"} = {a \in Clients : conn[a].at = "reply"}
    BY <2>1
  <2>3. {conn'[o].write : o \in {a \in Clients : conn[a].at = "reply"}}
          = {conn[o].write : o \in {a \in Clients : conn[a].at = "reply"}}
    BY <1>4
  <2> QED
    BY <1>2, <2>2, <2>3 DEF InFile
<1>11. ASSUME NumDbs = 1, intact PROVE AofInv'
  <2>1. AofInv
    BY <1>11 DEF PersistenceInv
  <2> QED
    BY <1>2, <1>9, <1>10, <2>1, SameKeeps DEF AofInv, Unsynced
<1> QED
  BY <1>2, <1>5, <1>6, <1>7, <1>8, <1>11 DEF PersistenceInv

\* The reply: the write leaves the hand and is answered.
LEMMA ReplyKeeps == ASSUME PersistenceInv, NEW c \in Clients, reply(c) PROVE PersistenceInv'
<1> DEFINE x == conn[c].write
<1>1. WriteInv /\ HandInv /\ FileInv /\ SnapshotInv
  BY DEF PersistenceInv
<1>2. /\ up /\ up' = up /\ store' = store /\ aof' = aof /\ rewrite' = rewrite /\ saving' = saving /\ rdb' = rdb /\ behind' = behind
      /\ where' = where /\ before' = before /\ logged' = logged /\ answered' = answered \cup ({x} \ {0}) /\ lost' = lost
      /\ intact' = intact /\ conn[c].at = "reply"
      /\ conn' = [conn EXCEPT ![c].at = "idle", ![c].write = 0]
  BY DEF reply, writeHist
<1>3. /\ DOMAIN conn' = Clients /\ \A o \in Clients : o # c => conn'[o] = conn[o]
      /\ DOMAIN conn'[c] = {"db", "at", "cmd", "write"}
      /\ conn'[c].db \in Dbs /\ conn'[c].at = "idle" /\ conn'[c].write = 0
  BY <1>1, <1>2 DEF HandInv, Handed
<1>4. x # 0 => x \in DOMAIN where
  BY <1>1 DEF HandInv, Handed
<1>5. WriteInv'
  BY <1>1, <1>2, <1>4 DEF WriteInv
<1>6. HandInv'
  <2>1. ASSUME NEW o \in Clients, o # c PROVE Handed(conn[o])'
    <3>1. Handed(conn[o]) /\ (conn[o].write # 0 => conn[o].write # x)
      BY <1>1, <2>1 DEF HandInv
    <3>2. conn[o].write # 0 => conn[o].write \notin answered'
      BY <1>2, <3>1 DEF Handed
    <3> QED
      BY <1>2, <1>3, <2>1, <3>1, <3>2 DEF Handed
  <2>2. Handed(conn[c])'
    BY <1>3 DEF Handed
  <2>3. \A o \in Clients : Handed(conn[o])'
    BY <2>1, <2>2
  <2>4. \A a, b \in Clients : a # b /\ conn[a].write # 0 => conn[b].write # conn[a].write
    BY <1>1 DEF HandInv
  <2>5. \A a, b \in Clients : a # b /\ conn'[a].write # 0 => conn'[b].write # conn'[a].write
    BY <1>3, <2>4
  <2> QED
    BY <1>3, <2>3, <2>5 DEF HandInv
<1>7. FileInv'
  BY <1>1, <1>2 DEF FileInv
<1>8. SnapshotInv'
  BY <1>1, <1>2, SameSnapshot
<1>9. ((answered' \cap logged') \ lost') \cup InHand' \subseteq ((answered \cap logged) \ lost) \cup InHand
  <2>1. \A o \in Clients : conn'[o].write # 0 => conn'[o].write \in InHand
    BY <1>3 DEF InHand
  <2>2. InHand' \subseteq InHand
    BY <2>1 DEF InHand
  <2>3. x # 0 => x \in InHand
    BY DEF InHand
  <2> QED
    BY <1>2, <2>2, <2>3
<1>10. InFile' = InFile
  <2> DEFINE R == {o \in Clients : conn[o].at = "reply"}
  <2>1. c \in R /\ R' = R \ {c}
    BY <1>2, <1>3
  <2>2. {conn'[o].write : o \in R'} = {conn[o].write : o \in R \ {c}}
    BY <1>3, <2>1
  <2>3. {conn[o].write : o \in R} = {conn[o].write : o \in R \ {c}} \cup {x}
    BY <2>1
  <2>4. 0 \notin logged
    BY <1>1 DEF WriteInv
  <2>5. InFile = (logged \cap (answered \cup {conn[o].write : o \in R})) \ lost
    BY DEF InFile
  <2>6. InFile' = (logged' \cap (answered' \cup {conn'[o].write : o \in R'})) \ lost'
    BY DEF InFile
  <2> DEFINE rest == {conn[o].write : o \in R \ {c}}
  <2>7. InFile = (logged \cap (answered \cup (rest \cup {x}))) \ lost
    BY <2>3, <2>5
  <2>8. InFile' = (logged \cap ((answered \cup ({x} \ {0})) \cup rest)) \ lost
    BY <1>2, <2>2, <2>6
  <2> HIDE DEF R, rest, x
  <2> QED
    BY <2>4, <2>7, <2>8
<1>11. ASSUME NumDbs = 1, intact PROVE AofInv'
  <2>1. AofInv
    BY <1>11 DEF PersistenceInv
  <2>2. Keeps(store, ((answered' \cap logged') \ lost') \cup InHand')
    BY <1>2, <1>9, <2>1 DEF AofInv, Keeps
  <2> QED
    BY <1>2, <1>10, <2>1, <2>2, SameKeeps DEF AofInv, Unsynced
<1> QED
  BY <1>2, <1>5, <1>6, <1>7, <1>8, <1>11 DEF PersistenceInv

\* Covers, after a step.
CoversNext(v, w) == v \in DOMAIN where' /\ where'[v] = where'[w] /\ v \notin before'[w]

\* What covered a write does so after one more is issued, and so does that one.
LEMMA NewCovers ==
    ASSUME WriteInv, NEW l \in Locations, where' = Append(where, l), before' = Append(before, answered),
           NEW n, n = Len(where) + 1
    PROVE  /\ n \notin DOMAIN where /\ DOMAIN where' = DOMAIN where \cup {n} /\ where'[n] = l /\ before'[n] = answered
           /\ \A w \in DOMAIN where : where'[w] = where[w] /\ before'[w] = before[w]
           /\ \A w \in DOMAIN where : \A v : Covers(v, w) => CoversNext(v, w)
           /\ \A w \in DOMAIN where : where[w] = l => CoversNext(n, w)
           /\ CoversNext(n, n)
<1>1. /\ where \in Seq(Locations) /\ before \in Seq(SUBSET Nat) /\ Len(before) = Len(where) /\ Len(where) \in Nat
      /\ answered \in SUBSET Nat /\ \A w \in DOMAIN where : before[w] \subseteq DOMAIN where
      /\ answered \subseteq DOMAIN where
  BY DEF WriteInv
<1>2. /\ DOMAIN where = 1 .. Len(where) /\ DOMAIN before = 1 .. Len(where) /\ DOMAIN where' = 1 .. n
  BY <1>1
<1>3. where'[n] = l /\ \A w \in 1 .. Len(where) : where'[w] = where[w]
  BY <1>1
<1>4. before'[n] = answered /\ \A w \in 1 .. Len(where) : before'[w] = before[w]
  BY <1>1
<1>5. n \notin DOMAIN where /\ DOMAIN where' = DOMAIN where \cup {n}
  BY <1>1, <1>2
<1>6. ASSUME NEW w \in DOMAIN where, NEW v, Covers(v, w) PROVE CoversNext(v, w)
  BY <1>2, <1>3, <1>4, <1>5, <1>6 DEF Covers, CoversNext
<1>7. ASSUME NEW w \in DOMAIN where, where[w] = l PROVE CoversNext(n, w)
  BY <1>1, <1>2, <1>3, <1>4, <1>5, <1>7 DEF Covers, CoversNext
<1>8. CoversNext(n, n)
  BY <1>1, <1>3, <1>4, <1>5 DEF Covers, CoversNext
<1> QED
  BY <1>2, <1>3, <1>4, <1>5, <1>6, <1>7, <1>8

\* A write is dispatched.
LEMMA SetKeeps ==
    ASSUME PersistenceInv, NEW c \in Clients, NEW k \in Keys, NEW via, set(c, k, via) PROVE PersistenceInv'
<1> PICK n : n = Len(where) + 1
  OBVIOUS
<1> PICK l : l = <<conn[c].db, k>>
  OBVIOUS
<1>1. WriteInv /\ HandInv /\ FileInv /\ SnapshotInv
  BY DEF PersistenceInv
<1>2. /\ up /\ up' = up /\ store' = [store EXCEPT ![l] = n] /\ aof' = aof /\ rewrite' = rewrite /\ saving' = saving
      /\ rdb' = rdb /\ behind' = behind /\ where' = Append(where, l) /\ before' = Append(before, answered)
      /\ logged' \in {logged, logged \cup {n}} /\ answered' = answered /\ lost' = lost
      /\ intact' = intact /\ conn[c].at = "idle"
  BY DEF set
<1>3. /\ conn' = [conn EXCEPT ![c].at = IF Logged(via) THEN "append" ELSE "reply", ![c].cmd = SetCmd(k, n), ![c].write = n]
      /\ logged' = IF Logged(via) THEN logged \cup {n} ELSE logged
  BY DEF set
<1>4. /\ DOMAIN conn' = Clients /\ \A o \in Clients : o # c => conn'[o] = conn[o]
      /\ DOMAIN conn'[c] = {"db", "at", "cmd", "write"}
      /\ conn'[c].db \in Dbs /\ conn'[c].at \in {"append", "reply"} /\ conn'[c].write = n
      /\ conn[c].db \in Dbs /\ conn[c].write = 0
      /\ conn'[c].cmd = SetCmd(k, n) /\ (conn'[c].at = "append" => n \in logged')
      /\ (conn'[c].at = "reply" => logged' = logged)
  <2>1. DOMAIN conn = Clients /\ DOMAIN conn[c] = {"db", "at", "cmd", "write"} /\ conn[c].db \in Dbs /\ conn[c].write = 0
    BY <1>1, <1>2 DEF HandInv, Handed
  <2>2. CASE Logged(via)
    <3>1. conn' = [conn EXCEPT ![c].at = "append", ![c].cmd = SetCmd(k, n), ![c].write = n] /\ logged' = logged \cup {n}
      BY <1>3, <2>2
    <3> QED
      BY <2>1, <3>1
  <2>3. CASE ~ Logged(via)
    <3>1. conn' = [conn EXCEPT ![c].at = "reply", ![c].cmd = SetCmd(k, n), ![c].write = n] /\ logged' = logged
      BY <1>3, <2>3
    <3> QED
      BY <2>1, <3>1
  <2> QED
    BY <2>2, <2>3
<1>5. l \in Locations
  BY <1>4 DEF Locations
<1>6. /\ n \notin DOMAIN where /\ DOMAIN where' = DOMAIN where \cup {n} /\ where'[n] = l /\ before'[n] = answered
      /\ \A w \in DOMAIN where : where'[w] = where[w] /\ before'[w] = before[w]
  BY <1>1, <1>2, <1>5, NewCovers
<1>7. \A w \in DOMAIN where : \A v : Covers(v, w) => CoversNext(v, w)
  BY <1>1, <1>2, <1>5, NewCovers
<1>8. (\A w \in DOMAIN where : where[w] = l => CoversNext(n, w)) /\ CoversNext(n, n)
  BY <1>1, <1>2, <1>5, NewCovers
<1>9. WriteInv'
  <2>1. where' \in Seq(Locations) /\ before' \in Seq(SUBSET Nat) /\ Len(before') = Len(where')
    <3>1. answered \in SUBSET Nat /\ where \in Seq(Locations) /\ before \in Seq(SUBSET Nat) /\ Len(before) = Len(where)
      BY <1>1 DEF WriteInv
    <3> QED
      BY <1>2, <1>5, <3>1
  <2>2. \A w \in DOMAIN where' : before'[w] \subseteq DOMAIN where'
    BY <1>1, <1>6 DEF WriteInv
  <2>3. answered' \subseteq DOMAIN where' /\ logged' \subseteq DOMAIN where'
    BY <1>1, <1>2, <1>6 DEF WriteInv
  <2> QED
    BY <2>1, <2>2, <2>3 DEF WriteInv
<1>10. n \notin answered /\ n \notin logged /\ n # 0
  BY <1>1, <1>6 DEF WriteInv
<1>11. HandInv'
  <2>1. ASSUME NEW o \in Clients, o # c PROVE Handed(conn[o])'
    <3>1. Handed(conn[o])
      BY <1>1 DEF HandInv
    <3>2. conn[o].write # 0 => \A w \in DOMAIN where' : conn[o].write \notin before'[w]
      BY <1>6, <3>1 DEF Handed
    <3>3. conn[o].write \in logged => conn[o].write \in DOMAIN where /\ conn[o].write \in logged'
      BY <1>1, <1>2 DEF WriteInv
    <3> QED
      BY <1>2, <1>4, <1>6, <2>1, <3>1, <3>2, <3>3, ZenonT(60) DEF Handed
  <2>2. Handed(conn[c])'
    <3>1. \A w \in DOMAIN where' : n \notin before'[w]
      BY <1>1, <1>6, <1>10 DEF WriteInv
    <3>2. where'[n][2] = k
      BY <1>6
    <3> QED
      BY <1>2, <1>4, <1>6, <1>10, <3>1, <3>2 DEF Handed
  <2>3. \A o \in Clients : Handed(conn[o])'
    BY <2>1, <2>2
  <2>4. \A a, b \in Clients : a # b /\ conn[a].write # 0 => conn[b].write # conn[a].write
    BY <1>1 DEF HandInv
  <2>5. \A a \in Clients : conn[a].write # n
    BY <1>1, <1>6, <1>10 DEF HandInv, Handed
  <2>6. \A a, b \in Clients : a # b /\ conn'[a].write # 0 => conn'[b].write # conn'[a].write
    BY <1>4, <2>4, <2>5
  <2> QED
    BY <1>4, <2>3, <2>6 DEF HandInv
<1>12. FileInv'
  <2>1. DOMAIN store' = Locations
    BY <1>1, <1>2 DEF FileInv
  <2> QED
    BY <1>1, <1>2, <1>6, <2>1 DEF FileInv
<1>13. ASSUME NEW w \in DOMAIN where, Covers(store[where[w]], w) PROVE CoversNext(store'[where'[w]], w)
  <2>1. where'[w] = where[w] /\ where[w] \in Locations
    BY <1>1, <1>6 DEF WriteInv
  <2>2. CASE where[w] = l
    <3>1. store'[l] = n
      BY <1>1, <1>2, <1>5 DEF FileInv
    <3> QED
      BY <1>8, <2>1, <2>2, <3>1
  <2>3. CASE where[w] # l
    <3>1. store'[where[w]] = store[where[w]]
      BY <1>1, <1>2, <2>1, <2>3 DEF FileInv
    <3> QED
      BY <1>7, <1>13, <2>1, <3>1
  <2> QED
    BY <2>2, <2>3
<1>14. ASSUME NEW data, NEW ws \in SUBSET DOMAIN where, Keeps(data, ws) PROVE \A w \in ws : CoversNext(data[where'[w]], w)
  <2>1. ASSUME NEW w \in ws PROVE CoversNext(data[where'[w]], w)
    <3>1. where'[w] = where[w] /\ Covers(data[where[w]], w)
      BY <1>6, <1>14 DEF Keeps
    <3> QED
      BY <1>7, <3>1
  <2> QED
    BY <2>1
<1>15. SnapshotInv'
  <2>1. ASSUME saving.at = "copy", NEW w \in saving.since PROVE CoversNext(Copied(w)', w)
    <3>1. w \in DOMAIN where /\ Covers(Copied(w), w) /\ where'[w] = where[w]
      BY <1>1, <1>6, <2>1 DEF SnapshotInv, FileInv
    <3>2. CASE where[w][1] < saving.db
      <4>1. Copied(w)' = Copied(w)
        BY <1>2, <3>1, <3>2 DEF Copied
      <4> QED
        BY <1>7, <3>1, <4>1
    <3>3. CASE ~ (where[w][1] < saving.db)
      <4>1. Copied(w) = store[where[w]] /\ Copied(w)' = store'[where'[w]]
        BY <1>2, <3>1, <3>3 DEF Copied
      <4> QED
        BY <1>13, <3>1, <4>1
    <3> QED
      BY <3>2, <3>3
  <2>2. ASSUME NEW r \in {rdb} \cup behind.rdb, r.there, r.whole
        PROVE  \A w \in r.since : CoversNext(r.data[where'[w]], w)
    <3>1. Keeps(r.data, r.since) /\ r.since \in SUBSET DOMAIN where
      BY <1>1, <2>2 DEF SnapshotInv, FileInv
    <3> QED
      BY <1>14, <3>1
  <2> QED
    BY <1>2, <2>1, <2>2 DEF SnapshotInv, Keeps, Covers, CoversNext
<1>16. ASSUME NumDbs = 1, intact PROVE AofInv'
  <2>1. AofInv
    BY <1>16 DEF PersistenceInv
  <2>2. InFile \subseteq DOMAIN where /\ InFile \ Unsynced \subseteq DOMAIN where
    BY <1>1 DEF InFile, WriteInv
  <2>3. ((answered' \cap logged') \ lost') \cup InHand' \subseteq (((answered \cap logged) \ lost) \cup InHand) \cup {n}
    <3>1. \A o \in Clients : conn'[o].write # 0 => conn'[o].write \in InHand \cup {n}
      BY <1>4 DEF InHand
    <3>2. InHand' \subseteq InHand \cup {n}
      BY <3>1 DEF InHand
    <3> QED
      BY <1>2, <3>2
  <2>4. (((answered \cap logged) \ lost) \cup InHand) \subseteq DOMAIN where
    BY <1>1 DEF InHand, HandInv, Handed, WriteInv
  <2>5. Keeps(store, ((answered \cap logged) \ lost) \cup InHand)'
    <3>1. Keeps(store, ((answered \cap logged) \ lost) \cup InHand)
      BY <1>2, <2>1 DEF AofInv
    <3>2. \A w \in ((answered \cap logged) \ lost) \cup InHand : CoversNext(store'[where'[w]], w)
      BY <1>13, <2>4, <3>1 DEF Keeps
    <3>3. CoversNext(store'[where'[n]], n)
      <4>1. store'[l] = n /\ where'[n] = l
        BY <1>1, <1>2, <1>5, <1>6 DEF FileInv
      <4> QED
        BY <1>8, <4>1
    <3> QED
      BY <2>3, <3>2, <3>3 DEF Keeps, Covers, CoversNext
  <2>6. InFile' = InFile
    <3>1. CASE conn'[c].at = "reply"
      <4>1. logged' = logged
        BY <1>4, <3>1
      <4>2. {conn'[o].write : o \in {a \in Clients : conn'[a].at = "reply"}}
              = {conn[o].write : o \in {a \in Clients : conn[a].at = "reply"}} \cup {n}
        BY <1>2, <1>4, <3>1, SMTT(40)
      <4> QED
        BY <1>2, <1>10, <4>1, <4>2 DEF InFile
    <3>2. CASE conn'[c].at = "append"
      <4>0. /\ {a \in Clients : conn'[a].at = "reply"} = {a \in Clients : conn[a].at = "reply"}
            /\ \A o \in {a \in Clients : conn[a].at = "reply"} : conn'[o].write = conn[o].write
        <5>1. conn[c].at # "reply" /\ \A o \in Clients \ {c} : conn'[o] = conn[o]
          BY <1>2, <1>4
        <5> QED
          BY <3>2, <5>1
      <4>1. {conn'[o].write : o \in {a \in Clients : conn'[a].at = "reply"}}
              = {conn[o].write : o \in {a \in Clients : conn[a].at = "reply"}}
        BY <4>0
      <4>2. \A o \in Clients : conn[o].write # n
        BY <1>1, <1>6, <1>10 DEF HandInv, Handed
      <4>3. n \notin {conn[o].write : o \in {a \in Clients : conn[a].at = "reply"}}
        BY <4>2
      <4> QED
        BY <1>2, <1>10, <4>1, <4>3 DEF InFile
    <3> QED
      BY <1>4, <3>1, <3>2
  <2>7. InFile' \ Unsynced' = InFile \ Unsynced
    BY <1>2, <2>6 DEF Unsynced
  <2>8. aof.there => Keeps(Replay(aof.log), InFile)' /\ Keeps(Replay(SubSeq(aof.log, 1, aof.synced)), InFile \ Unsynced)'
    <3> SUFFICES ASSUME aof.there
                 PROVE  Keeps(Replay(aof.log), InFile)' /\ Keeps(Replay(SubSeq(aof.log, 1, aof.synced)), InFile \ Unsynced)'
      OBVIOUS
    <3> DEFINE a == Replay(aof.log)
               b == Replay(SubSeq(aof.log, 1, aof.synced))
    <3>1. Keeps(a, InFile) /\ Keeps(b, InFile \ Unsynced) /\ a' = a /\ b' = b
      BY <1>2, <2>1 DEF AofInv
    <3> HIDE DEF a, b
    <3>2. (\A w \in InFile : CoversNext(a[where'[w]], w)) /\ \A w \in InFile \ Unsynced : CoversNext(b[where'[w]], w)
      BY <1>14, <2>2, <3>1
    <3> QED
      BY <2>6, <2>7, <3>1, <3>2 DEF Keeps, Covers, CoversNext, a, b
  <2>9. rewrite.at # "idle" /\ rewrite.db # 0 => Keeps(Replay(rewrite.file), InFile)'
    <3> SUFFICES ASSUME rewrite.at # "idle", rewrite.db # 0 PROVE Keeps(Replay(rewrite.file), InFile)'
      OBVIOUS
    <3> DEFINE a == Replay(rewrite.file)
    <3>1. Keeps(a, InFile) /\ a' = a
      BY <1>2, <2>1 DEF AofInv
    <3> HIDE DEF a
    <3>2. \A w \in InFile : CoversNext(a[where'[w]], w)
      BY <1>14, <2>2, <3>1
    <3> QED
      BY <2>6, <3>1, <3>2 DEF Keeps, Covers, CoversNext, a
  <2> QED
    BY <1>2, <2>1, <2>5, <2>8, <2>9 DEF AofInv
<1> QED
  BY <1>2, <1>9, <1>11, <1>12, <1>15, <1>16 DEF PersistenceInv

\* A SET that supersedes no answered write keeps what the file kept.
LEMMA ReplayCovers ==
    ASSUME NumDbs = 1, WriteInv, NEW log, Clean(log), NEW ws \in SUBSET DOMAIN where, Keeps(Replay(log), ws),
           NEW x \in DOMAIN where, \A w \in DOMAIN where : x \notin before[w],
           NEW new, new = Append(log, SetCmd(where[x][2], x))
    PROVE  Clean(new) /\ Keeps(Replay(new), ws \cup {x})
<1>1. \A w \in DOMAIN where : where[w] \in Locations
  BY DEF WriteInv
<1>2. PICK k \in Keys : where[x] = <<0, k>> /\ where[x][2] = k
  BY <1>1, OneDatabase
<1>3. new = Append(log, SetCmd(k, x))
  BY <1>2
<1>4. Clean(new) /\ Replay(new)[<<0, k>>] = x /\ \A y \in Keys \ {k} : Replay(new)[<<0, y>>] = Replay(log)[<<0, y>>]
  <2>1. AfterSet(new, log, k, x)
    BY <1>3, ReplaySet
  <2> QED
    BY <2>1 DEF AfterSet
<1>5. ASSUME NEW w \in ws \cup {x} PROVE Covers(Replay(new)[where[w]], w)
  <2>1. w \in DOMAIN where
    OBVIOUS
  <2>2. CASE where[w] = <<0, k>>
    BY <1>2, <1>4, <2>1, <2>2 DEF Covers
  <2>3. CASE where[w] # <<0, k>>
    <3>1. where[w][2] \in Keys /\ where[w] = <<0, where[w][2]>>
      BY <1>1, <2>1, OneDatabase
    <3>2. Replay(new)[where[w]] = Replay(log)[where[w]]
      BY <1>4, <2>3, <3>1
    <3>3. w \in ws
      BY <1>2, <2>3
    <3> QED
      BY <3>2, <3>3 DEF Keeps
  <2> QED
    BY <2>2, <2>3
<1> QED
  BY <1>4, <1>5 DEF Keeps

\* The command goes to the end of the file.
LEMMA AppendKeeps == ASSUME PersistenceInv, NEW c \in Clients, append(c) PROVE PersistenceInv'
<1> PICK x : x = conn[c].write
  OBVIOUS
<1> PICK cmd : cmd = conn[c].cmd
  OBVIOUS
<1>1. WriteInv /\ HandInv /\ FileInv /\ SnapshotInv
  BY DEF PersistenceInv
<1>2. /\ up /\ up' = up /\ store' = store /\ rewrite' = rewrite /\ saving' = saving /\ rdb' = rdb /\ behind' = behind
      /\ where' = where /\ before' = before /\ logged' = logged /\ answered' = answered /\ lost' = lost
      /\ intact' = intact /\ conn[c].at = "append" /\ rewrite.at = "idle"
      /\ conn' = [conn EXCEPT ![c].at = "reply"] /\ aof' = [aof EXCEPT !.log = Append(@, cmd)]
  BY DEF append, hist, writeHist, FileLockFree
<1>3. /\ DOMAIN conn' = Clients /\ \A o \in Clients : o # c => conn'[o] = conn[o]
      /\ DOMAIN conn'[c] = {"db", "at", "cmd", "write"}
      /\ conn'[c].db = conn[c].db /\ conn'[c].at = "reply" /\ conn'[c].write = x
  BY <1>1, <1>2 DEF HandInv, Handed
<1>4. \A o \in Clients : conn'[o].write = conn[o].write
  BY <1>3
<1>5. WriteInv'
  BY <1>1, <1>2 DEF WriteInv
<1>6. HandInv'
  <2>1. \A o \in Clients : o # c => Handed(conn[o])'
    BY <1>1, <1>2, <1>3 DEF HandInv, Handed
  <2>2. Handed(conn[c])'
    BY <1>1, <1>2, <1>3 DEF HandInv, Handed
  <2>3. \A o \in Clients : Handed(conn[o])'
    BY <2>1, <2>2
  <2>4. \A a, b \in Clients : a # b /\ conn[a].write # 0 => conn[b].write # conn[a].write
    BY <1>1 DEF HandInv
  <2> QED
    BY <1>3, <1>4, <2>3, <2>4 DEF HandInv
<1>7. FileInv'
  BY <1>1, <1>2 DEF FileInv
<1>8. SnapshotInv'
  BY <1>1, <1>2, SameSnapshot
<1>9. InHand' = InHand
  BY <1>4 DEF InHand
<1>10. InFile' = InFile \cup ((logged \cap {x}) \ lost)
  <2> DEFINE R == {a \in Clients : conn[a].at = "reply"}
  <2>1. {a \in Clients : conn'[a].at = "reply"} = R \cup {c}
    BY <1>2, <1>3
  <2>2. {conn'[o].write : o \in R \cup {c}} = {conn[o].write : o \in R} \cup {x}
    BY <1>3, <1>4
  <2> DEFINE held == {conn[o].write : o \in R}
  <2>3. InFile = (logged \cap (answered \cup held)) \ lost
    BY DEF InFile
  <2>4. InFile' = (logged \cap (answered \cup (held \cup {x}))) \ lost
    BY <1>2, <2>1, <2>2 DEF InFile
  <2> HIDE DEF R, held
  <2> QED
    BY <2>3, <2>4
<1>11. ASSUME NumDbs = 1, intact PROVE AofInv'
  <2> PICK log : log = aof.log
    OBVIOUS
  <2> PICK new : new = Append(log, cmd)
    OBVIOUS
  <2>1. AofInv
    BY <1>11 DEF PersistenceInv
  <2>2. /\ aof.there /\ Clean(log) /\ Keeps(Replay(log), InFile) /\ aof.synced \in 0 .. Len(log)
        /\ Keeps(Replay(SubSeq(log, 1, aof.synced)), InFile \ Unsynced)
    BY <1>2, <2>1 DEF AofInv
  <2>3. aof'.there = aof.there /\ aof'.log = new /\ aof'.synced = aof.synced
    BY <1>1, <1>2 DEF FileInv
  <2>4. aof.synced \in 0 .. Len(new) /\ SubSeq(new, 1, aof.synced) = SubSeq(log, 1, aof.synced)
    <3>1. PICK S : log \in Seq(S)
      BY <2>2 DEF Clean
    <3>2. log \in Seq(S \cup {cmd}) /\ cmd \in S \cup {cmd} /\ Len(log) \in Nat
      BY <3>1
    <3>3. new \in Seq(S \cup {cmd}) /\ Len(new) = Len(log) + 1 /\ \A i \in 1 .. Len(log) : new[i] = log[i]
      BY <3>2
    <3>4. aof.synced \in 0 .. Len(new)
      BY <2>2, <3>2, <3>3
    <3>5. \A i \in 1 .. aof.synced : i \in 1 .. Len(log)
      BY <2>2, <3>2
    <3>6. /\ SubSeq(new, 1, aof.synced) = [i \in 1 .. aof.synced |-> new[i]]
          /\ SubSeq(log, 1, aof.synced) = [i \in 1 .. aof.synced |-> log[i]]
      <4>1. \A i \in 1 .. aof.synced : 1 + i - 1 = i
        BY <2>2, <3>2
      <4>2. (1 + aof.synced) - 1 = aof.synced
        BY <2>2, <3>2
      <4> QED
        BY <2>2, <3>2, <3>3, <3>4, <4>1, <4>2
    <3> QED
      BY <3>3, <3>4, <3>5, <3>6
  <2>5. InFile \subseteq DOMAIN where
    BY <1>1 DEF InFile, WriteInv
  <2>6. Clean(new) /\ Keeps(Replay(new), InFile')
    <3>1. Handed(conn[c])
      BY <1>1 DEF HandInv
    <3>2. CASE x \in logged /\ cmd = SetCmd(where[x][2], x)
      <4>1. x \in DOMAIN where /\ x # 0
        BY <1>1, <3>2 DEF WriteInv
      <4>2. \A w \in DOMAIN where : x \notin before[w]
        BY <3>1, <4>1 DEF Handed
      <4>3. InFile' \subseteq InFile \cup {x}
        BY <1>10
      <4>4. Clean(new) /\ Keeps(Replay(new), InFile \cup {x})
        BY <1>1, <1>11, <2>2, <2>5, <3>2, <4>1, <4>2, ReplayCovers
      <4> QED
        BY <4>3, <4>4 DEF Keeps
    <3>3. CASE x = 0 /\ \E d \in Dbs : cmd = SelectCmd(d)
      <4>1. new = Append(log, SelectCmd(0))
        BY <1>11, <3>3, OneDatabase
      <4>2. Clean(new) /\ \A y \in Keys : Replay(new)[<<0, y>>] = Replay(log)[<<0, y>>]
        BY <1>11, <2>2, <4>1, ReplaySelect
      <4>3. InFile' = InFile
        <5>1. 0 \notin logged
          BY <1>1 DEF WriteInv
        <5> QED
          BY <1>10, <3>3, <5>1
      <4>4. Keeps(Replay(new), InFile)
        BY <1>1, <1>11, <2>2, <2>5, <4>2, SameData
      <4> QED
        BY <4>2, <4>3, <4>4
    <3> QED
      BY <1>2, <3>1, <3>2, <3>3 DEF Handed
  <2>7. Keeps(Replay(aof.log), InFile)'
    BY <1>2, <2>3, <2>6 DEF Keeps, Covers
  <2>8. Keeps(Replay(SubSeq(aof.log, 1, aof.synced)), InFile \ Unsynced)'
    <3>1. PICK S : log \in Seq(S)
      BY <2>2 DEF Clean
    <3>2. log \in Seq(S \cup {cmd}) /\ cmd \in S \cup {cmd} /\ Len(log) \in Nat
      BY <3>1
    <3>3. /\ DOMAIN log = 1 .. Len(log) /\ DOMAIN new = 1 .. Len(log) + 1 /\ new[Len(log) + 1] = cmd
          /\ \A i \in 1 .. Len(log) : new[i] = log[i]
      BY <3>2
    <3>4. Unsynced \subseteq Unsynced'
      <4>1. \A q \in DOMAIN log : q \in DOMAIN new /\ new[q] = log[q]
        BY <3>2, <3>3
      <4> QED
        BY <2>3, <4>1 DEF Unsynced
    <3>5. x \in logged => x \in Unsynced'
      <4> SUFFICES ASSUME x \in logged PROVE x \in Unsynced'
        OBVIOUS
      <4>1. x # 0
        BY <1>1 DEF WriteInv
      <4>2. cmd = SetCmd(where[x][2], x)
        BY <1>1, <1>2, <4>1 DEF HandInv, Handed
      <4>3. cmd.op = "SET" /\ cmd.arg = x
        BY <4>2 DEF SetCmd
      <4>4. Len(log) + 1 \in DOMAIN new /\ Len(log) + 1 > aof.synced
        BY <2>2, <3>2, <3>3
      <4> QED
        BY <2>3, <3>3, <4>3, <4>4 DEF Unsynced
    <3>6. InFile' \ Unsynced' \subseteq InFile \ Unsynced
      BY <1>10, <3>4, <3>5
    <3>7. SubSeq(aof'.log, 1, aof'.synced) = SubSeq(log, 1, aof.synced)
      BY <2>3, <2>4
    <3> QED
      BY <1>2, <2>2, <3>6, <3>7 DEF Keeps, Covers
  <2>9. Keeps(store, ((answered \cap logged) \ lost) \cup InHand)'
    BY <1>2, <1>9, <2>1 DEF AofInv, Keeps, Covers
  <2> QED
    BY <1>2, <2>2, <2>3, <2>4, <2>6, <2>7, <2>8, <2>9 DEF AofInv
<1> QED
  BY <1>2, <1>5, <1>6, <1>7, <1>8, <1>11 DEF PersistenceInv

-----------------------------------------------------------------------------
(* The append-only file: crashes and restarts. *)

\* With no connection, nothing is in hand.
LEMMA NobodyHome ==
    ASSUME conn = [c \in Clients |-> NewConn]
    PROVE  InHand = {} /\ InFile = (logged \cap answered) \ lost
BY DEF InHand, InFile, NewConn

\* What a crash leaves, whatever becomes of the file.
LEMMA DownKeeps ==
    ASSUME PersistenceInv, Down, DOMAIN aof' = {"there", "log", "synced"}, rdb' \in {rdb} \cup behind.rdb,
           DOMAIN behind' = {"aof", "rdb"}, behind'.aof \subseteq behind.aof, behind'.rdb \subseteq behind.rdb
    PROVE  /\ WriteInv' /\ HandInv' /\ FileInv' /\ SnapshotInv'
           /\ InFile' = (logged \cap answered) \ lost' /\ rewrite'.at = "idle"
<1>1. WriteInv /\ HandInv /\ FileInv /\ SnapshotInv
  BY DEF PersistenceInv
<1>2. /\ ~ up' /\ store' = NoData /\ conn' = [c \in Clients |-> NewConn] /\ rewrite' = NoRewrite /\ saving' = NotSaving
      /\ where' = where /\ before' = before /\ logged' = logged /\ answered' = answered
  BY DEF Down
<1>3. WriteInv'
  BY <1>1, <1>2 DEF WriteInv
<1>4. HandInv'
  <2>1. 0 \in Dbs
    BY DbsAssumption DEF Dbs
  <2> QED
    BY <1>2, <2>1 DEF HandInv, Handed, NewConn
<1>5. FileInv'
  BY <1>1, <1>2 DEF FileInv, NoRewrite, NotSaving, NoData
<1>6. SnapshotInv'
  BY <1>1, <1>2, SameKeeps DEF SnapshotInv, NotSaving
<1>7. InFile' = (logged \cap answered) \ lost'
  <2>1. {o \in Clients : conn'[o].at = "reply"} = {}
    BY <1>2 DEF NewConn
  <2> QED
    BY <1>2, <2>1 DEF InFile
<1> QED
  BY <1>2, <1>3, <1>4, <1>5, <1>6, <1>7 DEF NoRewrite

LEMMA KillKeeps == ASSUME PersistenceInv, kill PROVE PersistenceInv'
<1>1. /\ Down /\ aof' = aof /\ rdb' = rdb /\ behind' = behind /\ lost' = lost
      /\ intact' = (intact /\ aof.there /\ ~ rdb.there)
  BY DEF kill
<1>2. /\ WriteInv' /\ HandInv' /\ FileInv' /\ SnapshotInv' /\ InFile' = (logged \cap answered) \ lost
      /\ rewrite'.at = "idle"
  <2>1. DOMAIN aof' = {"there", "log", "synced"} /\ DOMAIN behind' = {"aof", "rdb"}
    BY <1>1 DEF PersistenceInv, FileInv
  <2> QED
    BY <1>1, <2>1, DownKeeps
<1>3. ~ up' /\ where' = where /\ before' = before /\ logged' = logged
  BY <1>1 DEF Down
<1>4. ASSUME NumDbs = 1, intact' PROVE AofInv'
  <2>1. AofInv /\ aof.there /\ ~ rdb.there
    BY <1>1, <1>4 DEF PersistenceInv
  <2>2. InFile' \subseteq InFile /\ Unsynced' = Unsynced
    BY <1>1, <1>2 DEF InFile, Unsynced
  <2>3. Keeps(Replay(aof.log), InFile)'
    BY <1>1, <1>3, <2>1, <2>2 DEF AofInv, Keeps, Covers
  <2>4. Keeps(Replay(SubSeq(aof.log, 1, aof.synced)), InFile \ Unsynced)'
    BY <1>1, <1>3, <2>1, <2>2 DEF AofInv, Keeps, Covers
  <2> QED
    BY <1>1, <1>2, <1>3, <2>1, <2>3, <2>4 DEF AofInv
<1> QED
  BY <1>2, <1>4 DEF PersistenceInv

\* The part of a file that is on the disk.
LEMMA PrefixClean ==
    ASSUME NEW log, Clean(log), NEW n \in 0 .. Len(log), NEW pre, pre = SubSeq(log, 1, n)
    PROVE  Clean(pre) /\ Len(pre) = n /\ SubSeq(pre, 1, n) = pre /\ pre \o <<>> = pre
<1>1. PICK S : log \in Seq(S)
  BY DEF Clean
<1>2. Len(log) \in Nat /\ DOMAIN log = 1 .. Len(log)
  BY <1>1
<1>3. n \in Nat /\ \A i \in 1 .. n : i \in 1 .. Len(log)
  BY <1>2
<1>4. pre \in Seq(S) /\ Len(pre) = n /\ \A i \in 1 .. n : pre[i] = log[i]
  BY <1>1, <1>2, <1>3
<1>5. DOMAIN pre = 1 .. n
  BY <1>4
<1>6. Clean(pre)
  BY <1>2, <1>3, <1>4, <1>5 DEF Clean
<1>7. SubSeq(pre, 1, n) = pre /\ pre \o <<>> = pre
  BY <1>3, <1>4
<1> QED
  BY <1>4, <1>6, <1>7

LEMMA PowerKeeps == ASSUME PersistenceInv, NEW torn \in BOOLEAN, power_failure(torn) PROVE PersistenceInv'
<1> DEFINE kept == SubSeq(aof.log, 1, aof.synced) \o (IF torn THEN <<Torn>> ELSE <<>>)
           stays == /\ aof' = [aof EXCEPT !.log = kept, !.synced = Len(kept)]
                    /\ intact' = (intact /\ aof.there /\ ~ rdb'.there /\ ~ torn)
<1>1. DOMAIN aof = {"there", "log", "synced"} /\ \A f \in behind.aof : DOMAIN f = {"there", "log", "synced"}
  BY DEF PersistenceInv, FileInv
<1>2. /\ Down /\ rdb' \in {rdb} \cup behind.rdb /\ behind' = [aof |-> {}, rdb |-> {}] /\ lost' = lost \cup Unsynced
      /\ stays \/ (aof' \in behind.aof /\ ~ intact')
  <2>1. OnDisk(aof).log = SubSeq(aof.log, 1, aof.synced)
    BY <1>1 DEF OnDisk
  <2> QED
    BY <2>1 DEF power_failure
<1> HIDE DEF kept
<1>3. DOMAIN aof' = {"there", "log", "synced"}
  BY <1>1, <1>2
<1>4. /\ WriteInv' /\ HandInv' /\ FileInv' /\ SnapshotInv' /\ InFile' = (logged \cap answered) \ lost'
      /\ rewrite'.at = "idle"
  BY <1>2, <1>3, DownKeeps
<1>5. ~ up' /\ where' = where /\ before' = before /\ logged' = logged
  BY <1>2 DEF Down
<1>6. ASSUME NumDbs = 1, intact' PROVE AofInv'
  <2>1. AofInv /\ aof.there /\ ~ rdb'.there /\ ~ torn
    BY <1>2, <1>6 DEF PersistenceInv
  <2>8. aof'.there = aof.there /\ aof'.log = kept /\ aof'.synced = Len(kept)
    BY <1>1, <1>2, <1>6
  <2> PICK pre : pre = SubSeq(aof.log, 1, aof.synced)
    OBVIOUS
  <2>2. Clean(aof.log) /\ aof.synced \in 0 .. Len(aof.log) /\ Keeps(Replay(pre), InFile \ Unsynced)
    BY <2>1 DEF AofInv
  <2>3. Clean(pre) /\ Len(pre) = aof.synced /\ SubSeq(pre, 1, aof.synced) = pre /\ pre \o <<>> = pre
    BY <2>2, PrefixClean, ZenonT(60)
  <2>4. kept = pre
    BY <2>1, <2>3 DEF kept
  <2>5. aof'.log = pre /\ aof'.synced = Len(pre) /\ aof'.synced \in 0 .. Len(pre) /\ SubSeq(pre, 1, Len(pre)) = pre
    <3>1. Len(pre) \in Nat
      BY <2>3 DEF Clean
    <3>2. aof'.log = pre /\ aof'.synced = Len(pre)
      BY <2>4, <2>8
    <3>3. SubSeq(pre, 1, Len(pre)) = pre
      BY <2>3
    <3>4. \A n \in Nat : n \in 0 .. n
      OBVIOUS
    <3> QED
      BY <3>1, <3>2, <3>3, <3>4
  <2>9. InFile' \subseteq InFile \ Unsynced
    BY <1>2, <1>4 DEF InFile
  <2>6. Keeps(Replay(aof.log), InFile)'
    BY <1>5, <2>2, <2>5, <2>9 DEF Keeps, Covers
  <2>7. Keeps(Replay(SubSeq(aof.log, 1, aof.synced)), InFile \ Unsynced)'
    BY <1>5, <2>2, <2>5, <2>9 DEF Keeps, Covers
  <2> QED
    BY <1>4, <1>5, <2>1, <2>3, <2>5, <2>6, <2>7, <2>8 DEF AofInv
<1> QED
  BY <1>4, <1>6 DEF PersistenceInv

\* What a restarted server loads.
LEMMA RestartKeeps == ASSUME PersistenceInv, restart PROVE PersistenceInv'
<1>1. WriteInv /\ HandInv /\ FileInv /\ SnapshotInv
  BY DEF PersistenceInv
<1>2. /\ ~ up /\ up' /\ store' = Loaded /\ aof' = [aof EXCEPT !.there = TRUE] /\ conn' = conn /\ rewrite' = rewrite
      /\ saving' = saving /\ rdb' = rdb /\ where' = where /\ before' = before /\ logged' = logged
      /\ answered' = answered /\ lost' = lost /\ intact' = intact
  BY DEF restart, hist, writeHist
<1>3. WriteInv' /\ HandInv' /\ InHand' = InHand /\ InFile' = InFile
  BY <1>1, <1>2, SameHistory
<1>4. conn = [c \in Clients |-> NewConn] /\ rewrite = NoRewrite /\ saving = NotSaving
  BY <1>1, <1>2 DEF FileInv
<1>5. FileInv' /\ behind'.rdb = behind.rdb
  <2>1. DOMAIN Loaded = Locations
    BY <1>1 DEF Loaded, Replay, NoData, FileInv
  <2>2. behind' = [behind EXCEPT !.aof = @ \cup (IF aof.there THEN {} ELSE {NoFile})] /\ DOMAIN behind = {"aof", "rdb"}
    BY <1>1 DEF restart, FileInv
  <2>3. DOMAIN behind' = {"aof", "rdb"} /\ behind'.rdb = behind.rdb /\ behind'.aof \subseteq behind.aof \cup {NoFile}
    BY <2>2
  <2>4. \A f \in behind'.aof : DOMAIN f = {"there", "log", "synced"}
    BY <1>1, <2>3 DEF FileInv, NoFile
  <2> QED
    BY <1>1, <1>2, <2>1, <2>3, <2>4 DEF FileInv
<1>6. SnapshotInv'
  BY <1>1, <1>2, <1>4, <1>5, SameKeeps DEF SnapshotInv, NotSaving
<1>7. ASSUME NumDbs = 1, intact PROVE AofInv'
  <2>1. AofInv
    BY <1>7 DEF PersistenceInv
  <2>2. aof.there /\ ~ rdb.there
    BY <1>2, <2>1 DEF AofInv
  <2>3. Loaded = Replay(aof.log)
    BY <2>2 DEF Loaded
  <2>4. InHand = {} /\ InFile = (logged \cap answered) \ lost
    BY <1>4, NobodyHome
  <2>5. aof'.there = aof.there /\ aof'.log = aof.log /\ aof'.synced = aof.synced
    BY <1>1, <1>2, <2>2 DEF FileInv, AofInv
  <2>6. Keeps(Replay(aof.log), InFile)
    BY <2>1, <2>2 DEF AofInv
  <2>7. Keeps(store, ((answered \cap logged) \ lost) \cup InHand)'
    BY <1>2, <1>3, <2>3, <2>4, <2>6 DEF Keeps, Covers
  <2> QED
    BY <1>2, <1>3, <2>1, <2>2, <2>5, <2>7, SameKeeps DEF AofInv, Unsynced
<1> QED
  BY <1>2, <1>3, <1>5, <1>6, <1>7 DEF PersistenceInv

LEMMA NextPersistence == PersistenceInv /\ [PersistenceNext]_persistenceVars => PersistenceInv'
<1> SUFFICES ASSUME PersistenceInv, [PersistenceNext]_persistenceVars PROVE PersistenceInv'
  OBVIOUS
<1>1. ASSUME NEW c \in Clients, NEW k \in Keys, NEW via \in Vias, set(c, k, via) PROVE PersistenceInv'
  BY <1>1, SetKeeps
<1>2. ASSUME NEW c \in Clients, NEW d \in Dbs, select(c, d) PROVE PersistenceInv'
  BY <1>2, SelectKeeps
<1>3. ASSUME NEW c \in Clients, append(c) PROVE PersistenceInv'
  BY <1>3, AppendKeeps
<1>4. ASSUME NEW c \in Clients, reply(c) PROVE PersistenceInv'
  BY <1>4, ReplyKeeps
<1>5. CASE rewrite_begin \/ rewrite_copy \/ rewrite_remove \/ rewrite_rename \/ write_back
  BY <1>5, RewriteKeeps
<1>6. CASE save_begin \/ save_copy \/ save_rename
  BY <1>6, SaveKeeps
<1>7. CASE kill
  BY <1>7, KillKeeps
<1>8. CASE restart
  BY <1>8, RestartKeeps
<1>9. ASSUME NEW torn \in BOOLEAN, power_failure(torn) PROVE PersistenceInv'
  BY <1>9, PowerKeeps
<1>10. CASE UNCHANGED persistenceVars
  <2>1. /\ up' = up /\ store' = store /\ conn' = conn /\ aof' = aof /\ rewrite' = rewrite /\ saving' = saving /\ rdb' = rdb
        /\ where' = where /\ before' = before /\ logged' = logged /\ answered' = answered /\ lost' = lost
        /\ intact' = intact /\ behind' = behind
    BY <1>10 DEF persistenceVars, hist, writeHist
  <2>2. WriteInv /\ HandInv /\ FileInv /\ SnapshotInv
    BY DEF PersistenceInv
  <2>3. WriteInv' /\ HandInv' /\ InHand' = InHand /\ InFile' = InFile
    BY <2>1, <2>2, SameHistory
  <2>4. FileInv'
    BY <2>1, <2>2 DEF FileInv
  <2>5. SnapshotInv'
    BY <2>1, <2>2, SameSnapshot
  <2>6. AofInv => AofInv'
    BY <2>1, <2>3, SameKeeps DEF AofInv, Unsynced
  <2> QED
    BY <2>1, <2>3, <2>4, <2>5, <2>6 DEF PersistenceInv
<1> QED
  BY <1>1, <1>2, <1>3, <1>4, <1>5, <1>6, <1>7, <1>8, <1>9, <1>10 DEF PersistenceNext

\* The invariant of the append-only file and the snapshot: a write in hand is in
\* the store and superseded by nothing answered (connection.rs), the file replays
\* to everything that was appended to it and its part on the disk to everything
\* but what was appended since (aof.rs, server.rs: replay_aof), and so after a
\* power failure to everything but what it found off the disk.
THEOREM PersistenceInvariance == PersistenceSpec => []PersistenceInv
BY InitPersistence, NextPersistence, PTL DEF PersistenceSpec

\* A snapshot file that can be loaded holds every write that was answered, and in
\* the store, before bgsave began it, for any number of databases, keys and
\* connections, whatever is written while bgsave copies one database after the
\* other, and whichever of the files a power failure leaves.
THEOREM SnapshotsAreComplete == PersistenceSpec => []SnapshotKeepsAnswered
<1>1. PersistenceInv => SnapshotKeepsAnswered
  BY DEF PersistenceInv, SnapshotInv, SnapshotKeepsAnswered
<1> QED
  BY <1>1, PersistenceInvariance, PTL

\* What a server with one database holds is no older than the last answered
\* write that was logged, over rewrites of the file (aof_rewrite.rs), snapshots,
\* crashes and restarts.  Left out are the writes that a power failure found in
\* the file but not on the disk, which may have been answered under every policy
\* of appendfsync; and all is left open once a crash came between the remove_file
\* and the rename of a rewrite, cut the file inside a command or found a snapshot
\* file, or a power failure took back the file's directory entry.
THEOREM LoggedWritesSurvive == PersistenceSpec => [](NumDbs = 1 => StoreKeepsAnswered)
<1>1. PersistenceInv => (NumDbs = 1 => StoreKeepsAnswered)
  BY DEF PersistenceInv, AofInv, StoreKeepsAnswered, Keeps
<1> QED
  BY <1>1, PersistenceInvariance, PTL
=============================================================================
