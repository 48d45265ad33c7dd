--------------------------- MODULE KeyspaceProofs ---------------------------
(***************************************************************************)
(* Proofs about Keyspace, for any finite set of keys, any number of        *)
(* clients and any mix of commands: values are neither lost nor            *)
(* duplicated, a FLUSHDB is survived in the hand of a RENAME only, and the *)
(* removal of expired keys takes a live value only if the key was written  *)
(* after it had been collected.                                            *)
(***************************************************************************)
EXTENDS Keyspace, FiniteSetTheorems, WellFoundedInduction, TLAPS

-----------------------------------------------------------------------------
(* The inductive invariant. *)

\* A command under way is about keys, and has a value in its hand between the
\* two steps of a RENAME only.
StepOK(t) ==
    /\ t.at \in {"write", "source", "take"} => t.key \in Keys
    /\ t.at \in {"source", "take", "insert"} => t.to \in Keys
    /\ t.at = "mset" => t.rest # <<>>
    /\ t.hand.id # 0 <=> t.at = "insert"

StepInv == \A c \in Clients : StepOK(conn[c])

\* Ids are handed out by counting.
MintInv ==
    /\ \A k \in Keys : db[k].id <= minted
    /\ \A c \in Clients : conn[c].hand.id <= minted

\* No id is in two places ...
ApartInv ==
    /\ \A j, k \in Keys : db[j].id = db[k].id /\ j # k => db[j].id = 0
    /\ \A b, c \in Clients : conn[b].hand.id = conn[c].hand.id /\ b # c => conn[b].hand.id = 0
    /\ \A k \in Keys, c \in Clients : db[k].id = conn[c].hand.id => db[k].id = 0
    /\ \A k \in Keys : db[k].id \notin dead
    /\ \A c \in Clients : conn[c].hand.id \notin dead

\* ... and every one is in some place.
SomewhereInv ==
    \A i \in 1 .. minted :
        i \in dead \/ (\E k \in Keys : db[k].id = i) \/ (\E c \in Clients : conn[c].hand.id = i)

\* A value written before a FLUSHDB is gone behind it, or was carried past it:
\* behind the shards it has emptied while it runs, everywhere once it is over.
FlushInv ==
    /\ \A k \in Keys : db[k].id # 0 /\ db[k].id <= flush.before => db[k].id \in flush.carried
    /\ \A c \in Clients :
          /\ conn[c].hand.id # 0 /\ (conn[c].hand.id <= flush.before \/ Flushing)
                => conn[c].hand.id \in flush.carried
          /\ conn[c].at = "flush" =>
                /\ conn[c].to <= minted
                /\ \A k \in Keys : k < conn[c].key /\ db[k].id # 0 /\ db[k].id <= conn[c].to
                                       => db[k].id \in flush.carried

\* A collected key that is live has been written since.
ReapInv ==
    \A r \in Reapers : /\ reap[r].at = "idle" => reap[r].keys = {}
                       /\ \A k \in reap[r].keys : Live(k) => k \in fresh[r]

PlaceInv == MintInv /\ ApartInv /\ SomewhereInv

IInv == TypeOK /\ StepInv /\ PlaceInv /\ FlushInv /\ ReapInv

-----------------------------------------------------------------------------
(* Where values are. *)

\* Nothing moves.
LEMMA StayPlaces ==
    ASSUME PlaceInv, UNCHANGED <<minted, dead>>,
           \A k \in Keys : db'[k].id = db[k].id, \A c \in Clients : conn'[c].hand.id = conn[c].hand.id
    PROVE  PlaceInv'
<1>1. MintInv'
  BY DEF PlaceInv, MintInv
<1>2. ApartInv'
  BY DEF PlaceInv, ApartInv
<1>3. SomewhereInv'
  BY DEF PlaceInv, SomewhereInv
<1> QED
  BY <1>1, <1>2, <1>3 DEF PlaceInv

\* A new value takes the place of an old one, which is gone.
LEMMA PutPlaces ==
    ASSUME TypeOK, PlaceInv, NEW k \in Keys, minted' = minted + 1, dead' = dead \cup ({db[k].id} \ {0}),
           db'[k].id = minted + 1, \A j \in Keys \ {k} : db'[j].id = db[j].id,
           \A c \in Clients : conn'[c].hand.id = conn[c].hand.id
    PROVE  PlaceInv'
<1>1. /\ minted \in Nat /\ dead \subseteq 1 .. minted /\ \A j \in Keys : db[j].id \in 0 .. minted
      /\ \A c \in Clients : conn[c].hand.id \in 0 .. minted
  BY DEF TypeOK, Entries, Connections, PlaceInv, MintInv
<1>2. \A j \in Keys : db[j].id # minted + 1
  BY <1>1
<1>3. \A c \in Clients : conn[c].hand.id # minted + 1
  BY <1>1
<1>4. minted + 1 \notin dead'
  BY <1>1, <1>2
<1>5. MintInv'
  BY <1>1 DEF MintInv
<1>6. ApartInv'
  <2>1. \A i, j \in Keys : db'[i].id = db'[j].id /\ i # j => db'[i].id = 0
    BY <1>2 DEF PlaceInv, ApartInv
  <2>2. \A j \in Keys, c \in Clients : db'[j].id = conn'[c].hand.id => db'[j].id = 0
    BY <1>3 DEF PlaceInv, ApartInv
  <2>3. ASSUME NEW j \in Keys PROVE db'[j].id \notin dead'
    <3>1. CASE j = k
      BY <1>4, <3>1
    <3>2. CASE j # k
      <4>1. db'[j].id = db[j].id /\ db[j].id \notin dead /\ (db[j].id = db[k].id => db[j].id = 0)
        BY <3>2 DEF PlaceInv, ApartInv
      <4> QED
        BY <4>1
    <3> QED
      BY <3>1, <3>2
  <2>4. ASSUME NEW c \in Clients PROVE conn'[c].hand.id \notin dead'
    <3>1. conn[c].hand.id \notin dead /\ (db[k].id = conn[c].hand.id => db[k].id = 0)
      BY DEF PlaceInv, ApartInv
    <3> QED
      BY <3>1
  <2>5. \A b, c \in Clients : conn'[b].hand.id = conn'[c].hand.id /\ b # c => conn'[b].hand.id = 0
    BY DEF PlaceInv, ApartInv
  <2> QED
    BY <2>1, <2>2, <2>3, <2>4, <2>5 DEF ApartInv
<1>7. SomewhereInv'
  <2> SUFFICES ASSUME NEW i \in 1 .. minted + 1
               PROVE  i \in dead' \/ (\E j \in Keys : db'[j].id = i) \/ (\E c \in Clients : conn'[c].hand.id = i)
    BY DEF SomewhereInv
  <2>1. i \in 1 .. minted \/ i = minted + 1
    BY <1>1
  <2>2. CASE i = minted + 1
    BY <2>2
  <2>3. CASE i \in 1 .. minted
    <3>1. i # 0 /\ (i \in dead \/ (\E j \in Keys : db[j].id = i) \/ (\E c \in Clients : conn[c].hand.id = i))
      BY <2>3 DEF PlaceInv, SomewhereInv
    <3>2. ASSUME NEW j \in Keys, db[j].id = i PROVE i \in dead' \/ db'[j].id = i
      BY <3>1, <3>2
    <3> QED
      BY <3>1, <3>2
  <2> QED
    BY <2>1, <2>2, <2>3
<1> QED
  BY <1>5, <1>6, <1>7 DEF PlaceInv

\* A value is gone.
LEMMA DropPlaces ==
    ASSUME TypeOK, PlaceInv, NEW k \in Keys, minted' = minted, dead' = dead \cup ({db[k].id} \ {0}),
           db'[k].id = 0, \A j \in Keys \ {k} : db'[j].id = db[j].id,
           \A c \in Clients : conn'[c].hand.id = conn[c].hand.id
    PROVE  PlaceInv'
<1>1. 0 \notin dead' /\ minted \in Nat
  BY DEF TypeOK
<1>2. MintInv'
  BY <1>1 DEF PlaceInv, MintInv
<1>3. ApartInv'
  <2>1. \A i, j \in Keys : db'[i].id = db'[j].id /\ i # j => db'[i].id = 0
    BY DEF PlaceInv, ApartInv
  <2>2. \A j \in Keys, c \in Clients : db'[j].id = conn'[c].hand.id => db'[j].id = 0
    BY DEF PlaceInv, ApartInv
  <2>3. ASSUME NEW j \in Keys PROVE db'[j].id \notin dead'
    <3>1. CASE j = k
      BY <1>1, <3>1
    <3>2. CASE j # k
      <4>1. db'[j].id = db[j].id /\ db[j].id \notin dead /\ (db[j].id = db[k].id => db[j].id = 0)
        BY <3>2 DEF PlaceInv, ApartInv
      <4> QED
        BY <4>1
    <3> QED
      BY <3>1, <3>2
  <2>4. ASSUME NEW c \in Clients PROVE conn'[c].hand.id \notin dead'
    <3>1. conn[c].hand.id \notin dead /\ (db[k].id = conn[c].hand.id => db[k].id = 0)
      BY DEF PlaceInv, ApartInv
    <3> QED
      BY <3>1
  <2>5. \A b, c \in Clients : conn'[b].hand.id = conn'[c].hand.id /\ b # c => conn'[b].hand.id = 0
    BY DEF PlaceInv, ApartInv
  <2> QED
    BY <2>1, <2>2, <2>3, <2>4, <2>5 DEF ApartInv
<1>4. SomewhereInv'
  <2> SUFFICES ASSUME NEW i \in 1 .. minted
               PROVE  i \in dead' \/ (\E j \in Keys : db'[j].id = i) \/ (\E c \in Clients : conn'[c].hand.id = i)
    BY DEF SomewhereInv
  <2>1. i # 0 /\ (i \in dead \/ (\E j \in Keys : db[j].id = i) \/ (\E c \in Clients : conn[c].hand.id = i))
    BY DEF PlaceInv, SomewhereInv
  <2>2. ASSUME NEW j \in Keys, db[j].id = i PROVE i \in dead' \/ db'[j].id = i
    BY <2>1, <2>2
  <2> QED
    BY <2>1, <2>2
<1> QED
  BY <1>2, <1>3, <1>4 DEF PlaceInv

\* A value goes from its key into a hand that was empty.
LEMMA TakePlaces ==
    ASSUME TypeOK, PlaceInv, NEW k \in Keys, NEW c \in Clients, UNCHANGED <<minted, dead>>,
           conn[c].hand.id = 0, conn'[c].hand.id = db[k].id,
           \A o \in Clients \ {c} : conn'[o].hand.id = conn[o].hand.id,
           db'[k].id = 0, \A j \in Keys \ {k} : db'[j].id = db[j].id
    PROVE  PlaceInv'
<1>1. 0 \notin dead /\ minted \in Nat
  BY DEF TypeOK
<1>2. MintInv'
  BY <1>1 DEF PlaceInv, MintInv
<1>3. ApartInv'
  <2>1. \A i, j \in Keys : db'[i].id = db'[j].id /\ i # j => db'[i].id = 0
    BY DEF PlaceInv, ApartInv
  <2>2. ASSUME NEW j \in Keys, NEW o \in Clients, db'[j].id = conn'[o].hand.id PROVE db'[j].id = 0
    <3>1. CASE j = k
      BY <3>1
    <3>2. CASE j # k /\ o = c
      BY <2>2, <3>2 DEF PlaceInv, ApartInv
    <3>3. CASE j # k /\ o # c
      BY <2>2, <3>3 DEF PlaceInv, ApartInv
    <3> QED
      BY <3>1, <3>2, <3>3
  <2>3. ASSUME NEW a \in Clients, NEW b \in Clients, conn'[a].hand.id = conn'[b].hand.id, a # b
        PROVE  conn'[a].hand.id = 0
    <3>1. CASE a = c
      BY <2>3, <3>1 DEF PlaceInv, ApartInv
    <3>2. CASE b = c
      BY <2>3, <3>2 DEF PlaceInv, ApartInv
    <3>3. CASE a # c /\ b # c
      BY <2>3, <3>3 DEF PlaceInv, ApartInv
    <3> QED
      BY <3>1, <3>2, <3>3
  <2>4. \A j \in Keys : db'[j].id \notin dead
    BY <1>1 DEF PlaceInv, ApartInv
  <2>5. \A o \in Clients : conn'[o].hand.id \notin dead
    BY DEF PlaceInv, ApartInv
  <2> QED
    BY <2>1, <2>2, <2>3, <2>4, <2>5 DEF ApartInv
<1>4. SomewhereInv'
  <2> SUFFICES ASSUME NEW i \in 1 .. minted
               PROVE  i \in dead \/ (\E j \in Keys : db'[j].id = i) \/ (\E o \in Clients : conn'[o].hand.id = i)
    BY DEF SomewhereInv
  <2>1. i # 0 /\ (i \in dead \/ (\E j \in Keys : db[j].id = i) \/ (\E o \in Clients : conn[o].hand.id = i))
    BY DEF PlaceInv, SomewhereInv
  <2>2. ASSUME NEW j \in Keys, db[j].id = i PROVE db'[j].id = i \/ conn'[c].hand.id = i
    BY <2>2
  <2>3. ASSUME NEW o \in Clients, conn[o].hand.id = i PROVE conn'[o].hand.id = i
    BY <2>1, <2>3
  <2> QED
    BY <2>1, <2>2, <2>3
<1> QED
  BY <1>2, <1>3, <1>4 DEF PlaceInv

\* A value goes from a hand to a key, and the one it replaces is gone.
LEMMA InsertPlaces ==
    ASSUME TypeOK, PlaceInv, NEW k \in Keys, NEW c \in Clients, minted' = minted,
           dead' = dead \cup ({db[k].id} \ {0}), conn[c].hand.id # 0, conn'[c].hand.id = 0,
           \A o \in Clients \ {c} : conn'[o].hand.id = conn[o].hand.id,
           db'[k].id = conn[c].hand.id, \A j \in Keys \ {k} : db'[j].id = db[j].id
    PROVE  PlaceInv'
<1>1. 0 \notin dead' /\ minted \in Nat
  BY DEF TypeOK
<1>2. MintInv'
  BY <1>1 DEF PlaceInv, MintInv
<1>3. ApartInv'
  <2>1. ASSUME NEW i \in Keys, NEW j \in Keys, db'[i].id = db'[j].id, i # j PROVE db'[i].id = 0
    <3>1. CASE i = k
      BY <2>1, <3>1 DEF PlaceInv, ApartInv
    <3>2. CASE j = k
      BY <2>1, <3>2 DEF PlaceInv, ApartInv
    <3>3. CASE i # k /\ j # k
      BY <2>1, <3>3 DEF PlaceInv, ApartInv
    <3> QED
      BY <3>1, <3>2, <3>3
  <2>2. ASSUME NEW j \in Keys, NEW o \in Clients, db'[j].id = conn'[o].hand.id PROVE db'[j].id = 0
    <3>1. CASE o = c
      BY <2>2, <3>1
    <3>2. CASE o # c /\ j = k
      BY <2>2, <3>2 DEF PlaceInv, ApartInv
    <3>3. CASE o # c /\ j # k
      BY <2>2, <3>3 DEF PlaceInv, ApartInv
    <3> QED
      BY <3>1, <3>2, <3>3
  <2>3. \A a, b \in Clients : conn'[a].hand.id = conn'[b].hand.id /\ a # b => conn'[a].hand.id = 0
    BY DEF PlaceInv, ApartInv
  <2>4. ASSUME NEW j \in Keys PROVE db'[j].id \notin dead'
    <3>1. CASE j = k
      <4>1. conn[c].hand.id \notin dead /\ (db[k].id = conn[c].hand.id => db[k].id = 0)
        BY DEF PlaceInv, ApartInv
      <4> QED
        BY <3>1, <4>1
    <3>2. CASE j # k
      <4>1. db'[j].id = db[j].id /\ db[j].id \notin dead /\ (db[j].id = db[k].id => db[j].id = 0)
        BY <3>2 DEF PlaceInv, ApartInv
      <4> QED
        BY <4>1
    <3> QED
      BY <3>1, <3>2
  <2>5. ASSUME NEW o \in Clients PROVE conn'[o].hand.id \notin dead'
    <3>1. CASE o = c
      BY <1>1, <3>1
    <3>2. CASE o # c
      <4>1. conn[o].hand.id \notin dead /\ (db[k].id = conn[o].hand.id => db[k].id = 0)
        BY DEF PlaceInv, ApartInv
      <4> QED
        BY <3>2, <4>1
    <3> QED
      BY <3>1, <3>2
  <2> QED
    BY <2>1, <2>2, <2>3, <2>4, <2>5 DEF ApartInv
<1>4. SomewhereInv'
  <2> SUFFICES ASSUME NEW i \in 1 .. minted
               PROVE  i \in dead' \/ (\E j \in Keys : db'[j].id = i) \/ (\E o \in Clients : conn'[o].hand.id = i)
    BY DEF SomewhereInv
  <2>1. i # 0 /\ (i \in dead \/ (\E j \in Keys : db[j].id = i) \/ (\E o \in Clients : conn[o].hand.id = i))
    BY DEF PlaceInv, SomewhereInv
  <2>2. ASSUME NEW j \in Keys, db[j].id = i PROVE i \in dead' \/ db'[j].id = i
    BY <2>1, <2>2
  <2>3. ASSUME NEW o \in Clients, conn[o].hand.id = i PROVE conn'[o].hand.id = i \/ db'[k].id = i
    BY <2>3
  <2> QED
    BY <2>1, <2>2, <2>3
<1> QED
  BY <1>2, <1>3, <1>4 DEF PlaceInv

-----------------------------------------------------------------------------
(* What a FLUSHDB and the reapers rely on. *)

\* The connections that flush stay where they are; what appears under a key is
\* new or comes from a hand, and what a hand takes during a flush is noted.
LEMMA FlushKeeps ==
    ASSUME TypeOK, FlushInv, minted' \in Nat, minted <= minted', flush'.before = flush.before,
           flush.carried \subseteq flush'.carried,
           \A c \in Clients : /\ conn'[c].at = "flush" <=> conn[c].at = "flush"
                              /\ conn[c].at = "flush" => conn'[c].key = conn[c].key /\ conn'[c].to = conn[c].to,
           \A k \in Keys : \/ db'[k].id \in {0, db[k].id, minted + 1}
                           \/ \E c \in Clients : db'[k].id = conn[c].hand.id,
           \A c \in Clients : \/ conn'[c].hand.id \in {0, conn[c].hand.id}
                              \/ \E k \in Keys : /\ conn'[c].hand.id = db[k].id
                                                 /\ Flushing => db[k].id \in flush'.carried
    PROVE  FlushInv'
<1>1. Flushing' = Flushing
  BY DEF Flushing
<1>2. minted \in Nat /\ flush.before \in Nat /\ flush.before <= minted
  BY DEF TypeOK
<1>3. ~ (minted + 1 <= flush.before)
  BY <1>2
<1>4. ASSUME NEW k \in Keys, db'[k].id # 0, db'[k].id <= flush.before PROVE db'[k].id \in flush.carried
  BY <1>3, <1>4 DEF FlushInv
<1>5. ASSUME NEW c \in Clients, conn'[c].hand.id # 0, conn'[c].hand.id <= flush.before \/ Flushing
      PROVE  conn'[c].hand.id \in flush'.carried
  BY <1>5 DEF FlushInv
<1>6. ASSUME NEW c \in Clients, conn[c].at = "flush"
      PROVE  /\ conn[c].to <= minted'
             /\ \A k \in Keys : k < conn[c].key /\ db'[k].id # 0 /\ db'[k].id <= conn[c].to
                                    => db'[k].id \in flush.carried
  <2>1. conn[c].to \in Nat /\ conn[c].to <= minted /\ Flushing
    BY <1>6 DEF TypeOK, Connections, FlushInv, Flushing
  <2>2. conn[c].to <= minted' /\ ~ (minted + 1 <= conn[c].to)
    BY <1>2, <2>1
  <2>3. ASSUME NEW k \in Keys, k < conn[c].key, db'[k].id # 0, db'[k].id <= conn[c].to
        PROVE  db'[k].id \in flush.carried
    <3>1. CASE db'[k].id = db[k].id
      BY <1>6, <2>3, <3>1 DEF FlushInv
    <3>2. CASE \E o \in Clients : db'[k].id = conn[o].hand.id
      BY <2>1, <2>3, <3>2 DEF FlushInv
    <3> QED
      BY <2>2, <2>3, <3>1, <3>2
  <2> QED
    BY <2>2, <2>3
<1>7. \A k \in Keys : db'[k].id # 0 /\ db'[k].id <= flush'.before => db'[k].id \in flush'.carried
  BY <1>4
<1>8. ASSUME NEW c \in Clients
      PROVE  /\ conn'[c].hand.id # 0 /\ (conn'[c].hand.id <= flush'.before \/ Flushing')
                   => conn'[c].hand.id \in flush'.carried
             /\ conn'[c].at = "flush" =>
                   /\ conn'[c].to <= minted'
                   /\ \A k \in Keys : k < conn'[c].key /\ db'[k].id # 0 /\ db'[k].id <= conn'[c].to
                                          => db'[k].id \in flush'.carried
  BY <1>1, <1>5, <1>6
<1> QED
  BY <1>7, <1>8 DEF FlushInv

\* A key that is written is noted by who reaps.
LEMMA WrittenKeeps ==
    ASSUME TypeOK, ReapInv, NEW k \in Keys, Written(k), reap' = reap,
           \A j \in Keys \ {k} : Live(j)' => Live(j)
    PROVE  ReapInv' /\ fresh' \in [Reapers -> SUBSET Keys]
<1>1. \A r \in Reapers : fresh'[r] = IF reap[r].at = "idle" THEN {} ELSE fresh[r] \cup {k}
  BY DEF Written
<1>2. fresh' \in [Reapers -> SUBSET Keys]
  BY DEF Written, TypeOK
<1>3. ASSUME NEW r \in Reapers, NEW j \in reap[r].keys, Live(j)' PROVE j \in fresh'[r]
  <2>1. reap[r].at # "idle" /\ j \in Keys
    BY DEF ReapInv, TypeOK
  <2>2. j = k \/ j \in fresh[r]
    BY <1>3, <2>1 DEF ReapInv
  <2> QED
    BY <1>1, <2>1, <2>2
<1> QED
  BY <1>2, <1>3 DEF ReapInv

\* Nothing comes to life.
LEMMA UnwrittenKeeps ==
    ASSUME TypeOK, ReapInv, UNCHANGED <<reap, fresh>>, \A j \in Keys : Live(j)' => Live(j)
    PROVE  ReapInv'
BY DEF ReapInv, TypeOK

-----------------------------------------------------------------------------
(* Steps of a connection. *)

\* A connection that has no value in its hand and is not flushing, before and
\* after.
Plain(t) == t \in Connections /\ StepOK(t) /\ t.hand.id = 0 /\ t.at # "flush"

\* What an update of one connection does.
LEMMA ConnFacts ==
    ASSUME IInv, NEW c \in Clients, NEW t \in Connections, conn' = [conn EXCEPT ![c] = t]
    PROVE  /\ conn' \in [Clients -> Connections] /\ conn'[c] = t /\ \A o \in Clients \ {c} : conn'[o] = conn[o]
           /\ StepOK(t) => StepInv'
BY DEF IInv, TypeOK, StepInv

\* The idle connection.
LEMMA IdlePlain == Plain(Idle)
<1>1. <<>> \in Seq(Keys)
  OBVIOUS
<1>2. Idle \in Connections
  BY <1>1 DEF Idle, Connections, Steps, Entries, None, NoTtl
<1> QED
  BY <1>2 DEF Plain, StepOK, Idle, None

\* A connection goes on and nothing else changes.
LEMMA ConnStep ==
    ASSUME IInv, NEW c \in Clients, NEW t, Plain(conn[c]), Plain(t), conn' = [conn EXCEPT ![c] = t],
           UNCHANGED <<db, reap, minted, dead, fresh, flush>>
    PROVE  IInv'
<1>1. conn' \in [Clients -> Connections] /\ conn'[c] = t /\ (\A o \in Clients \ {c} : conn'[o] = conn[o]) /\ StepInv'
  BY ConnFacts DEF Plain
<1>2. TypeOK'
  BY <1>1 DEF IInv, TypeOK
<1>3. \A o \in Clients : conn'[o].hand.id = conn[o].hand.id
  BY <1>1 DEF Plain
<1>4. PlaceInv'
  BY <1>3, StayPlaces DEF IInv
<1>5. \A o \in Clients : /\ conn'[o].at = "flush" <=> conn[o].at = "flush"
                         /\ conn[o].at = "flush" => conn'[o].key = conn[o].key /\ conn'[o].to = conn[o].to
  BY <1>1 DEF Plain
<1>6. minted' \in Nat /\ minted <= minted'
  BY DEF IInv, TypeOK
<1>7. FlushInv'
  BY <1>3, <1>5, <1>6, FlushKeeps DEF IInv
<1>8. \A j \in Keys : Live(j)' => Live(j)
  BY DEF Live, There, expired
<1>9. ReapInv'
  BY <1>8, UnwrittenKeeps DEF IInv
<1> QED
  BY <1>1, <1>2, <1>4, <1>7, <1>9 DEF IInv

Exp == {NoTtl} \cup Nat

\* A write, and the connection goes on.
LEMMA PutStep ==
    ASSUME IInv, NEW c \in Clients, NEW t, Plain(conn[c]), Plain(t), conn' = [conn EXCEPT ![c] = t],
           NEW k \in Keys, NEW exp \in Exp, Put(k, exp), UNCHANGED <<reap, flush>>
    PROVE  IInv'
<1> DEFINE e == [id |-> minted + 1, exp |-> exp]
<1>1. conn' \in [Clients -> Connections] /\ conn'[c] = t /\ (\A o \in Clients \ {c} : conn'[o] = conn[o]) /\ StepInv'
  BY ConnFacts DEF Plain
<1>2. minted \in Nat /\ minted' = minted + 1 /\ dead' = dead \cup ({db[k].id} \ {0}) /\ db' = [db EXCEPT ![k] = e]
  BY DEF Put, IInv, TypeOK
<1>3. e \in Entries /\ e.id = minted + 1
  BY <1>2 DEF Entries, Exp
<1> HIDE DEF e
<1>4. db' \in [Keys -> Entries] /\ db'[k] = e /\ \A j \in Keys \ {k} : db'[j] = db[j]
  BY <1>2, <1>3 DEF IInv, TypeOK
<1>5. ReapInv' /\ fresh' \in [Reapers -> SUBSET Keys]
  <2>1. \A j \in Keys \ {k} : Live(j)' => Live(j)
    BY <1>4 DEF Live, There, expired
  <2> QED
    BY <2>1, WrittenKeeps DEF Put, IInv
<1>6. TypeOK'
  <2>1. db[k].id \in 0 .. minted /\ dead \subseteq 1 .. minted /\ flush \in [before : 0 .. minted, carried : SUBSET Nat]
    BY DEF IInv, TypeOK, Entries, PlaceInv, MintInv
  <2>2. dead' \subseteq 1 .. minted' /\ minted' \in Nat
    <3>1. \A i \in 1 .. minted : i \in 1 .. minted'
      BY <1>2
    <3>2. db[k].id # 0 => db[k].id \in 1 .. minted
      BY <1>2, <2>1
    <3>3. minted' \in Nat
      BY <1>2
    <3>4. ASSUME NEW i \in dead' PROVE i \in 1 .. minted
      BY <1>2, <2>1, <3>2
    <3> QED
      BY <3>1, <3>3, <3>4
  <2>3. 0 .. minted \subseteq 0 .. minted'
    BY <1>2
  <2>4. flush' \in [before : 0 .. minted', carried : SUBSET Nat]
    BY <2>1, <2>3
  <2> QED
    BY <1>1, <1>4, <1>5, <2>2, <2>4 DEF IInv, TypeOK
<1>7. \A o \in Clients : conn'[o].hand.id = conn[o].hand.id
  BY <1>1 DEF Plain
<1>8. PlaceInv'
  BY <1>2, <1>3, <1>4, <1>7, PutPlaces DEF IInv
<1>9. \A o \in Clients : /\ conn'[o].at = "flush" <=> conn[o].at = "flush"
                         /\ conn[o].at = "flush" => conn'[o].key = conn[o].key /\ conn'[o].to = conn[o].to
  BY <1>1 DEF Plain
<1>10. minted' \in Nat /\ minted <= minted'
  BY <1>2
<1>11. \A j \in Keys : db'[j].id \in {0, db[j].id, minted + 1}
  BY <1>3, <1>4
<1>12. FlushInv'
  BY <1>7, <1>9, <1>10, <1>11, FlushKeeps DEF IInv
<1> QED
  BY <1>1, <1>5, <1>6, <1>8, <1>12 DEF IInv

\* A connection that is idle, or about to write, is plain.
LEMMA PlainFacts ==
    ASSUME IInv, NEW c \in Clients, conn[c].at \notin {"insert", "flush"}
    PROVE  Plain(conn[c]) /\ conn[c] \in Connections
BY DEF IInv, TypeOK, StepInv, StepOK, Plain

\* SET.
LEMMA SetKeeps ==
    ASSUME IInv, NEW c \in Clients, NEW k \in Keys, NEW exp \in Exps, set(c, k, exp)
    PROVE  IInv'
<1>1. Plain(conn[c])
  BY PlainFacts DEF set, Free
<1>2. conn' = [conn EXCEPT ![c] = conn[c]] /\ Put(k, exp) /\ UNCHANGED <<reap, flush>>
  BY DEF set, IInv, TypeOK
<1>3. exp \in Exp
  BY BoundAssumption DEF Exp, Exps
<1> QED
  BY <1>1, <1>2, <1>3, PutStep

\* The first step of a command that writes later.
LEMMA LookKeeps ==
    ASSUME IInv, NEW c \in Clients, NEW t \in Connections, t.at \in {"write", "source", "take"}, t.key \in Keys,
           t.at = "write" \/ t.to \in Keys, t.hand = Idle.hand, conn[c].at = "idle",
           conn' = [conn EXCEPT ![c] = t], UNCHANGED <<db, reap, minted, dead, fresh, flush>>
    PROVE  IInv'
<1>1. Idle.hand.id = 0
  BY IdlePlain DEF Plain
<1>2. Plain(t)
  BY <1>1 DEF Plain, StepOK
<1>3. Plain(conn[c])
  BY PlainFacts
<1> QED
  BY <1>2, <1>3, ConnStep

\* SET NX / XX and the commands that read first.
LEMMA CheckKeeps ==
    ASSUME IInv, NEW c \in Clients, NEW k \in Keys
    PROVE  /\ \A exp \in Exps, op \in {"NX", "XX"} : set_check(c, k, exp, op) => IInv'
           /\ incr_read(c, k) => IInv'
<1>1. Idle \in Connections /\ k \in Nat
  BY IdlePlain, KeysAssumption DEF Plain
<1>2. ASSUME NEW exp \in Exps, NEW op \in {"NX", "XX"}, set_check(c, k, exp, op) PROVE IInv'
  <2> DEFINE t == [Idle EXCEPT !.at = "write", !.key = k, !.exp = exp]
  <2>1. conn[c].at = "idle" /\ conn' = [conn EXCEPT ![c] = t] /\ UNCHANGED <<db, reap, minted, dead, fresh, flush>>
    BY <1>2 DEF set_check, Free
  <2>2. exp \in {NoTtl} \cup Nat
    BY BoundAssumption DEF Exps
  <2>3. t \in Connections /\ t.at = "write" /\ t.key = k /\ t.hand = Idle.hand
    BY <1>1, <2>2 DEF Connections, Steps
  <2> HIDE DEF t
  <2> QED
    BY <2>1, <2>3, LookKeeps
<1>3. ASSUME incr_read(c, k) PROVE IInv'
  <2> DEFINE t == [Idle EXCEPT !.at = "write", !.key = k]
  <2>1. conn[c].at = "idle" /\ conn' = [conn EXCEPT ![c] = t] /\ UNCHANGED <<db, reap, minted, dead, fresh, flush>>
    BY <1>3 DEF incr_read, Free
  <2>2. t \in Connections /\ t.at = "write" /\ t.key = k /\ t.hand = Idle.hand
    BY <1>1 DEF Connections, Steps
  <2> HIDE DEF t
  <2> QED
    BY <2>1, <2>2, LookKeeps
<1> QED
  BY <1>2, <1>3

\* RENAME and RENAMENX up to the remove.
LEMMA RenameKeeps ==
    ASSUME IInv, NEW c \in Clients, NEW k \in Keys, NEW to \in Keys
    PROVE  (rename_cmd(c, k, to) => IInv') /\ (renamenx(c, k, to) => IInv')
<1>1. Idle \in Connections /\ k \in Nat /\ to \in Nat
  BY IdlePlain, KeysAssumption DEF Plain
<1>2. ASSUME NEW at \in {"take", "source"}, conn[c].at = "idle",
             conn' = [conn EXCEPT ![c] = [Idle EXCEPT !.at = at, !.key = k, !.to = to]],
             UNCHANGED <<db, reap, minted, dead, fresh, flush>>
      PROVE  IInv'
  <2> DEFINE t == [Idle EXCEPT !.at = at, !.key = k, !.to = to]
  <2>1. t \in Connections /\ t.at = at /\ t.key = k /\ t.to = to /\ t.hand = Idle.hand
    BY <1>1 DEF Connections, Steps
  <2>2. conn' = [conn EXCEPT ![c] = t]
    BY <1>2
  <2> HIDE DEF t
  <2> QED
    BY <1>2, <2>1, <2>2, LookKeeps
<1>3. ASSUME rename_cmd(c, k, to) PROVE IInv'
  BY <1>2, <1>3 DEF rename_cmd, Free
<1>4. ASSUME renamenx(c, k, to) PROVE IInv'
  BY <1>2, <1>4 DEF renamenx, Free
<1> QED
  BY <1>3, <1>4

\* RENAMENX looks at the source.
LEMMA SourceKeeps == ASSUME IInv, NEW c \in Clients, renamenx_source(c) PROVE IInv'
<1> DEFINE u == [conn[c] EXCEPT !.at = "take"]
           t == IF Live(conn[c].key) THEN u ELSE Idle
<1>1. conn[c].at = "source" /\ conn' = [conn EXCEPT ![c] = t] /\ UNCHANGED <<db, reap, minted, dead, fresh, flush>>
  BY DEF renamenx_source
<1>2. Plain(conn[c]) /\ conn[c] \in Connections
  BY <1>1, PlainFacts
<1>3. u \in Connections /\ u.at = "take" /\ u.key = conn[c].key /\ u.to = conn[c].to /\ u.hand = conn[c].hand
  BY <1>2 DEF Connections, Steps
<1>4. Plain(u)
  BY <1>1, <1>2, <1>3 DEF Plain, StepOK
<1>5. Plain(t)
  BY <1>4, IdlePlain
<1> QED
  BY <1>1, <1>2, <1>5, ConnStep

\* The write that was decided on.
LEMMA WriteKeeps == ASSUME IInv, NEW c \in Clients, write(c) PROVE IInv'
<1>1. conn[c].at = "write" /\ Put(conn[c].key, conn[c].exp) /\ conn' = [conn EXCEPT ![c] = Idle] /\ UNCHANGED <<reap, flush>>
  BY DEF write
<1>2. Plain(conn[c]) /\ conn[c] \in Connections
  BY <1>1, PlainFacts
<1>3. conn[c].key \in Keys /\ conn[c].exp \in Exp
  BY <1>1, <1>2 DEF Plain, StepOK, Connections, Exp
<1> QED
  BY <1>1, <1>2, <1>3, IdlePlain, PutStep

\* MSET begins.
LEMMA MsetKeeps ==
    ASSUME IInv, NEW c \in Clients, NEW k \in Keys, NEW to \in Keys, mset(c, <<k, to>>)
    PROVE  IInv'
<1> DEFINE t == [Idle EXCEPT !.at = "mset", !.rest = <<k, to>>]
<1>1. conn[c].at = "idle" /\ conn' = [conn EXCEPT ![c] = t] /\ UNCHANGED <<db, reap, minted, dead, fresh, flush>>
  BY DEF mset, Free
<1>2. Idle \in Connections /\ Idle.hand.id = 0
  BY IdlePlain DEF Plain
<1>3. <<k, to>> \in Seq(Keys) /\ <<k, to>> # <<>>
  OBVIOUS
<1>4. t \in Connections /\ t.at = "mset" /\ t.rest = <<k, to>> /\ t.hand = Idle.hand
  BY <1>2, <1>3 DEF Connections, Steps
<1> HIDE DEF t
<1>5. Plain(t)
  BY <1>2, <1>3, <1>4 DEF Plain, StepOK
<1>6. Plain(conn[c])
  BY <1>1, PlainFacts
<1> QED
  BY <1>1, <1>5, <1>6, ConnStep

\* MSET writes one key.
LEMMA MsetNextKeeps == ASSUME IInv, NEW c \in Clients, mset_next(c) PROVE IInv'
<1> DEFINE s == conn[c].rest
           u == [conn[c] EXCEPT !.rest = Tail(s)]
           t == IF Len(s) = 1 THEN Idle ELSE u
<1>1. conn[c].at = "mset" /\ Put(Head(s), NoTtl) /\ UNCHANGED <<reap, flush>>
  BY DEF mset_next
<1>2. conn' = [conn EXCEPT ![c] = t]
  BY DEF mset_next, IInv, TypeOK
<1>3. Plain(conn[c]) /\ conn[c] \in Connections
  BY <1>1, PlainFacts
<1>4. s \in Seq(Keys) /\ s # <<>>
  BY <1>1, <1>3 DEF Plain, StepOK, Connections
<1> HIDE DEF s
<1>5. Head(s) \in Keys /\ Tail(s) \in Seq(Keys) /\ (Len(s) # 1 => Tail(s) # <<>>)
  BY <1>4
<1>6. u \in Connections /\ u.at = "mset" /\ u.rest = Tail(s) /\ u.hand = conn[c].hand
  BY <1>1, <1>3, <1>5 DEF Connections
<1> HIDE DEF u
<1>7. Len(s) # 1 => Plain(u)
  BY <1>3, <1>5, <1>6 DEF Plain, StepOK
<1>8. Plain(t)
  BY <1>7, IdlePlain
<1>9. NoTtl \in Exp
  BY DEF Exp
<1> HIDE DEF t
<1> QED
  BY <1>1, <1>2, <1>3, <1>5, <1>8, <1>9, PutStep

-----------------------------------------------------------------------------
(* Entries that go, and times to live. *)

\* Nothing is said anew of a FLUSHDB when values only go.
LEMMA QuietFlush ==
    ASSUME IInv, UNCHANGED <<conn, flush, minted>>, \A k \in Keys : db'[k].id \in {0, db[k].id}
    PROVE  FlushInv'
<1>1. minted' \in Nat /\ minted <= minted'
  BY DEF IInv, TypeOK
<1> QED
  BY <1>1, FlushKeeps DEF IInv

\* What removing an entry does.
LEMMA DropFacts ==
    ASSUME IInv, NEW k \in Keys, Drop(k), minted' = minted, \A c \in Clients : conn'[c].hand.id = conn[c].hand.id
    PROVE  /\ PlaceInv' /\ db' \in [Keys -> Entries] /\ dead' \subseteq 1 .. minted
           /\ db'[k].id = 0 /\ \A j \in Keys \ {k} : db'[j] = db[j]
           /\ \A j \in Keys : (Live(j)' => Live(j) /\ j # k) /\ db'[j].id \in {0, db[j].id}
<1>1. None \in Entries /\ None.id = 0
  BY DEF None, Entries, NoTtl
<1>2. db' = [db EXCEPT ![k] = None] /\ dead' = dead \cup ({db[k].id} \ {0})
  BY DEF Drop
<1>3. db' \in [Keys -> Entries] /\ db'[k].id = 0 /\ \A j \in Keys \ {k} : db'[j] = db[j]
  BY <1>1, <1>2 DEF IInv, TypeOK
<1>4. PlaceInv'
  BY <1>2, <1>3, DropPlaces DEF IInv
<1>5. \A j \in Keys : (Live(j)' => Live(j) /\ j # k) /\ db'[j].id \in {0, db[j].id}
  BY <1>3 DEF Live, There, expired
<1>6. dead' \subseteq 1 .. minted
  <2>1. minted \in Nat /\ dead \subseteq 1 .. minted /\ db[k].id \in 0 .. minted
    BY DEF IInv, TypeOK, Entries, PlaceInv, MintInv
  <2>2. db[k].id # 0 => db[k].id \in 1 .. minted
    BY <2>1
  <2>3. ASSUME NEW i \in dead' PROVE i \in 1 .. minted
    BY <1>2, <2>1, <2>2
  <2> QED
    BY <2>3
<1> QED
  BY <1>3, <1>4, <1>5, <1>6

\* DEL.
LEMMA DelKeeps == ASSUME IInv, NEW c \in Clients, NEW k \in Keys, del(c, k) PROVE IInv'
<1>1. Drop(k) /\ UNCHANGED <<conn, reap, minted, fresh, flush>>
  BY DEF del
<1>2. /\ PlaceInv' /\ db' \in [Keys -> Entries] /\ dead' \subseteq 1 .. minted
      /\ \A j \in Keys : (Live(j)' => Live(j)) /\ db'[j].id \in {0, db[j].id}
  BY <1>1, DropFacts
<1>3. TypeOK'
  BY <1>1, <1>2 DEF IInv, TypeOK
<1>4. StepInv'
  BY <1>1 DEF IInv, StepInv
<1>5. FlushInv'
  BY <1>1, <1>2, QuietFlush
<1>6. ReapInv'
  BY <1>1, <1>2, UnwrittenKeeps DEF IInv
<1> QED
  BY <1>2, <1>3, <1>4, <1>5, <1>6 DEF IInv

\* EXPIRE and PERSIST give an entry another time.
LEMMA TtlKeeps ==
    ASSUME IInv, NEW k \in Keys, NEW exp \in Exp, db' = [db EXCEPT ![k].exp = exp], Written(k),
           UNCHANGED <<conn, reap, minted, dead, flush>>
    PROVE  IInv'
<1> DEFINE e == [db[k] EXCEPT !.exp = exp]
<1>1. db[k] \in Entries
  BY DEF IInv, TypeOK
<1>2. e \in Entries /\ e.id = db[k].id
  BY <1>1 DEF Entries, Exp
<1>3. db' = [db EXCEPT ![k] = e]
  OBVIOUS
<1> HIDE DEF e
<1>4. db' \in [Keys -> Entries] /\ db'[k] = e /\ \A j \in Keys \ {k} : db'[j] = db[j]
  BY <1>2, <1>3 DEF IInv, TypeOK
<1>5. \A j \in Keys : db'[j].id = db[j].id
  BY <1>2, <1>4
<1>6. PlaceInv'
  BY <1>5, StayPlaces DEF IInv
<1>7. FlushInv'
  BY <1>5, QuietFlush
<1>8. \A j \in Keys \ {k} : Live(j)' => Live(j)
  BY <1>4 DEF Live, There, expired
<1>9. ReapInv' /\ fresh' \in [Reapers -> SUBSET Keys]
  BY <1>8, WrittenKeeps DEF IInv
<1>10. StepInv'
  BY DEF IInv, StepInv
<1>11. TypeOK'
  BY <1>4, <1>9 DEF IInv, TypeOK
<1> QED
  BY <1>6, <1>7, <1>9, <1>10, <1>11 DEF IInv

LEMMA ExpireKeeps ==
    ASSUME IInv, NEW c \in Clients, NEW k \in Keys
    PROVE  (\A exp \in 0 .. MaxTtl : expire(c, k, exp) => IInv') /\ (persist(c, k) => IInv')
<1>1. NoTtl \in Exp /\ \A exp \in 0 .. MaxTtl : exp \in Exp
  BY BoundAssumption DEF Exp
<1> QED
  BY <1>1, TtlKeeps DEF expire, persist

-----------------------------------------------------------------------------
(* RENAME moves an entry through its hand. *)

\* The remove, with the entry in the hand; a FLUSHDB that runs is told.
LEMMA TakeKeeps == ASSUME IInv, NEW c \in Clients, rename_take(c) PROVE IInv'
<1> DEFINE k == conn[c].key
<1>1. conn[c].at = "take" /\ reap' = reap
  BY DEF rename_take
<1>2. Plain(conn[c]) /\ conn[c] \in Connections /\ k \in Keys /\ conn[c].to \in Keys
  BY <1>1, PlainFacts DEF Plain, StepOK
<1>3. CASE ~ There(k)
  <2>1. conn' = [conn EXCEPT ![c] = Idle] /\ UNCHANGED <<db, reap, minted, dead, fresh, flush>>
    BY <1>3 DEF rename_take
  <2> QED
    BY <1>2, <2>1, IdlePlain, ConnStep
<1>4. CASE There(k)
  <2> DEFINE e == db[k]
             t == [conn[c] EXCEPT !.at = "insert", !.hand = e]
  <2>1. /\ db' = [db EXCEPT ![k] = None] /\ UNCHANGED <<dead, minted, fresh>> /\ flush' = Carried({e.id})
        /\ conn' = [conn EXCEPT ![c].at = "insert", ![c].hand = e]
    BY <1>4 DEF rename_take, Take
  <2>2. e \in Entries /\ e.id # 0 /\ None \in Entries /\ None.id = 0
    BY <1>2, <1>4 DEF There, IInv, TypeOK, None, Entries, NoTtl
  <2>3. conn' = [conn EXCEPT ![c] = t]
    BY <2>1
  <2> HIDE DEF e, k
  <2>4. t \in Connections /\ t.at = "insert" /\ t.hand = e /\ t.to = conn[c].to
    BY <1>2, <2>2 DEF Connections, Steps
  <2> HIDE DEF t
  <2>5. StepOK(t)
    BY <1>2, <2>2, <2>4 DEF StepOK
  <2>6. conn' \in [Clients -> Connections] /\ conn'[c] = t /\ (\A o \in Clients \ {c} : conn'[o] = conn[o]) /\ StepInv'
    BY <2>3, <2>4, <2>5, ConnFacts
  <2>7. db' \in [Keys -> Entries] /\ db'[k].id = 0 /\ \A j \in Keys \ {k} : db'[j] = db[j]
    BY <1>2, <2>1, <2>2 DEF IInv, TypeOK
  <2>8. conn[c].hand.id = 0 /\ conn[c].at # "flush"
    BY <1>2 DEF Plain
  <2>9. conn'[c].hand.id = db[k].id
    BY <2>4, <2>6 DEF e
  <2>10. PlaceInv'
    BY <1>2, <2>1, <2>6, <2>7, <2>8, <2>9, TakePlaces DEF IInv
  <2>11. /\ flush' \in [before : 0 .. minted, carried : SUBSET Nat] /\ flush'.before = flush.before
         /\ flush.carried \subseteq flush'.carried /\ (Flushing => e.id \in flush'.carried)
    <3>1. flush \in [before : 0 .. minted, carried : SUBSET Nat] /\ e.id \in Nat
      BY <2>2 DEF IInv, TypeOK, Entries
    <3> QED
      BY <2>1, <3>1 DEF Carried
  <2>12. TypeOK'
    BY <1>1, <2>1, <2>6, <2>7, <2>11 DEF IInv, TypeOK
  <2>13. minted' \in Nat /\ minted <= minted'
    BY <2>1 DEF IInv, TypeOK
  <2>14. \A o \in Clients : /\ conn'[o].at = "flush" <=> conn[o].at = "flush"
                            /\ conn[o].at = "flush" => conn'[o].key = conn[o].key /\ conn'[o].to = conn[o].to
    BY <2>4, <2>6, <2>8
  <2>15. \A o \in Clients : \/ conn'[o].hand.id \in {0, conn[o].hand.id}
                            \/ \E j \in Keys : /\ conn'[o].hand.id = db[j].id
                                               /\ Flushing => db[j].id \in flush'.carried
    BY <1>2, <2>6, <2>9, <2>11 DEF e
  <2>16. \A j \in Keys : db'[j].id \in {0, db[j].id}
    BY <2>7
  <2>17. FlushInv'
    BY <2>11, <2>13, <2>14, <2>15, <2>16, FlushKeeps DEF IInv
  <2>18. \A j \in Keys : Live(j)' => Live(j)
    BY <2>7 DEF Live, There, expired
  <2>19. ReapInv'
    BY <1>1, <2>1, <2>18, UnwrittenKeeps DEF IInv
  <2> QED
    BY <2>6, <2>10, <2>12, <2>17, <2>19 DEF IInv
<1> QED
  BY <1>3, <1>4

\* The insert.
LEMMA InsertKeeps == ASSUME IInv, NEW c \in Clients, rename_insert(c) PROVE IInv'
<1> DEFINE k == conn[c].to
           e == conn[c].hand
<1>1. /\ conn[c].at = "insert" /\ db' = [db EXCEPT ![k] = e] /\ dead' = dead \cup ({db[k].id} \ {0})
      /\ Written(k) /\ conn' = [conn EXCEPT ![c] = Idle] /\ UNCHANGED <<reap, minted, flush>>
  BY DEF rename_insert
<1>2. k \in Keys /\ e \in Entries /\ e.id # 0
  BY <1>1 DEF IInv, TypeOK, StepInv, StepOK, Connections
<1>3. Idle \in Connections /\ StepOK(Idle) /\ Idle.hand.id = 0 /\ Idle.at # "flush"
  BY IdlePlain DEF Plain
<1>4. conn' \in [Clients -> Connections] /\ conn'[c] = Idle /\ (\A o \in Clients \ {c} : conn'[o] = conn[o]) /\ StepInv'
  BY <1>1, <1>3, ConnFacts
<1> HIDE DEF k
<1>5. db' \in [Keys -> Entries] /\ db'[k].id = conn[c].hand.id /\ \A j \in Keys \ {k} : db'[j] = db[j]
  BY <1>1, <1>2 DEF IInv, TypeOK
<1>6. PlaceInv'
  BY <1>1, <1>2, <1>3, <1>4, <1>5, InsertPlaces DEF IInv
<1>7. \A j \in Keys \ {k} : Live(j)' => Live(j)
  BY <1>5 DEF Live, There, expired
<1>8. ReapInv' /\ fresh' \in [Reapers -> SUBSET Keys]
  BY <1>1, <1>2, <1>7, WrittenKeeps DEF IInv
<1>9. TypeOK'
  <2>1. minted \in Nat /\ dead \subseteq 1 .. minted /\ db[k].id \in 0 .. minted
    BY <1>2 DEF IInv, TypeOK, Entries, PlaceInv, MintInv
  <2>2. db[k].id # 0 => db[k].id \in 1 .. minted
    BY <2>1
  <2>3. ASSUME NEW i \in dead' PROVE i \in 1 .. minted
    BY <1>1, <2>1, <2>2
  <2> QED
    BY <1>1, <1>4, <1>5, <1>8, <2>3 DEF IInv, TypeOK
<1>10. minted' \in Nat /\ minted <= minted'
  BY <1>1 DEF IInv, TypeOK
<1>11. \A o \in Clients : /\ conn'[o].at = "flush" <=> conn[o].at = "flush"
                          /\ conn[o].at = "flush" => conn'[o].key = conn[o].key /\ conn'[o].to = conn[o].to
  BY <1>1, <1>3, <1>4
<1>12. \A o \in Clients : conn'[o].hand.id \in {0, conn[o].hand.id}
  BY <1>3, <1>4
<1>13. \A j \in Keys : db'[j].id \in {0, db[j].id, minted + 1} \/ \E o \in Clients : db'[j].id = conn[o].hand.id
  BY <1>5
<1>14. FlushInv'
  BY <1>1, <1>10, <1>11, <1>12, <1>13, FlushKeeps DEF IInv
<1> QED
  BY <1>4, <1>6, <1>8, <1>9, <1>14 DEF IInv

-----------------------------------------------------------------------------
(* FLUSHDB. *)

\* A set of naturals has a least element.
LEMMA LeastOf ==
    ASSUME NEW T \in SUBSET Nat, T # {}
    PROVE  Min(T) \in T /\ \A y \in T : Min(T) <= y
<1> DEFINE R == OpToRel(<, Nat)
<1>1. \A x, y \in Nat : x < y => <<x, y>> \in R
  BY DEF OpToRel
<1>2. IsWellFoundedOn(R, Nat)
  BY NatLessThanWellFounded, Zenon
<1> HIDE DEF R
<1>3. PICK x \in T : \A y \in T : ~ (<<y, x>> \in R)
  BY <1>2, WFMin, Zenon
<1>4. \A y \in T : ~ (y < x)
  BY <1>1, <1>3
<1>5. \A y \in T : x <= y
  BY <1>4
<1> QED
  BY <1>5 DEF Min

\* What connections do that leave the hands and the entries alone.
LEMMA FlushFrame ==
    ASSUME IInv, NEW c \in Clients, NEW t \in Connections, conn[c].hand.id = 0, t.hand.id = 0, StepOK(t),
           conn' = [conn EXCEPT ![c] = t], UNCHANGED <<db, reap, minted, dead, fresh>>,
           flush' \in [before : 0 .. minted, carried : SUBSET Nat]
    PROVE  TypeOK' /\ StepInv' /\ PlaceInv' /\ ReapInv' /\ \A o \in Clients : conn'[o].hand.id = conn[o].hand.id
<1>1. conn' \in [Clients -> Connections] /\ conn'[c] = t /\ (\A o \in Clients \ {c} : conn'[o] = conn[o]) /\ StepInv'
  BY ConnFacts
<1>2. TypeOK'
  BY <1>1 DEF IInv, TypeOK
<1>3. \A o \in Clients : conn'[o].hand.id = conn[o].hand.id
  BY <1>1
<1>4. PlaceInv'
  BY <1>3, StayPlaces DEF IInv
<1>5. \A j \in Keys : Live(j)' => Live(j)
  BY DEF Live, There, expired
<1>6. ReapInv'
  BY <1>5, UnwrittenKeeps DEF IInv
<1> QED
  BY <1>1, <1>2, <1>3, <1>4, <1>6

\* It begins: nothing is behind it yet, and what is in a hand is noted.
LEMMA FlushKeepsBegin == ASSUME IInv, NEW c \in Clients, flushdb(c) PROVE IInv'
<1> DEFINE t == [Idle EXCEPT !.at = "flush", !.key = Min(Keys), !.to = minted]
           hands == {conn[o].hand.id : o \in Clients} \ {0}
<1>1. /\ conn[c].at = "idle" /\ conn' = [conn EXCEPT ![c] = t] /\ UNCHANGED <<db, reap, minted, dead, fresh>>
      /\ flush' = [flush EXCEPT !.carried = @ \cup hands]
  BY DEF flushdb, Free
<1>2. Idle \in Connections /\ Idle.hand.id = 0 /\ minted \in Nat
  BY IdlePlain DEF Plain, IInv, TypeOK
<1>3. Min(Keys) \in Nat /\ \A k \in Keys : k \in Int /\ Min(Keys) <= k
  <2>1. Keys \in SUBSET Nat /\ Keys # {}
    BY KeysAssumption
  <2>2. Min(Keys) \in Keys /\ \A k \in Keys : Min(Keys) <= k
    BY <2>1, LeastOf
  <2>3. \A k \in Keys : k \in Nat /\ k \in Int
    BY <2>1
  <2> QED
    BY <2>2, <2>3
<1>4. t \in Connections /\ t.at = "flush" /\ t.key = Min(Keys) /\ t.to = minted /\ t.hand = Idle.hand
  BY <1>2, <1>3 DEF Connections, Steps
<1> HIDE DEF t
<1>5. StepOK(t)
  BY <1>2, <1>4 DEF StepOK
<1>6. conn[c].hand.id = 0
  BY <1>1, PlainFacts DEF Plain
<1>7. hands \subseteq Nat
  BY DEF IInv, TypeOK, Connections, Entries
<1>8. \A o \in Clients : conn[o].hand.id # 0 => conn[o].hand.id \in hands
  OBVIOUS
<1> HIDE DEF hands
<1>9. /\ flush' \in [before : 0 .. minted, carried : SUBSET Nat] /\ flush'.before = flush.before
      /\ flush'.carried = flush.carried \cup hands
  BY <1>1, <1>7 DEF IInv, TypeOK
<1>10. TypeOK' /\ StepInv' /\ PlaceInv' /\ ReapInv' /\ \A o \in Clients : conn'[o].hand.id = conn[o].hand.id
  BY <1>1, <1>2, <1>4, <1>5, <1>6, <1>9, FlushFrame
<1>11. conn'[c] = t /\ \A o \in Clients \ {c} : conn'[o] = conn[o]
  BY <1>1, <1>4, ConnFacts
<1>12. FlushInv'
  <2>1. \A k \in Keys : db'[k].id # 0 /\ db'[k].id <= flush'.before => db'[k].id \in flush'.carried
    BY <1>1, <1>9 DEF IInv, FlushInv
  <2>2. \A o \in Clients : conn'[o].hand.id # 0 => conn'[o].hand.id \in flush'.carried
    BY <1>8, <1>9, <1>10
  <2>3. minted <= minted' /\ \A k \in Keys : ~ (k < Min(Keys))
    BY <1>1, <1>2, <1>3
  <2>4. ASSUME NEW o \in Clients, conn'[o].at = "flush"
        PROVE  /\ conn'[o].to <= minted'
               /\ \A k \in Keys : k < conn'[o].key /\ db'[k].id # 0 /\ db'[k].id <= conn'[o].to
                                      => db'[k].id \in flush'.carried
    <3>1. CASE o = c
      BY <1>4, <1>11, <2>3, <3>1
    <3>2. CASE o # c
      BY <1>1, <1>9, <1>11, <2>4, <3>2 DEF IInv, FlushInv
    <3> QED
      BY <3>1, <3>2
  <2> QED
    BY <2>1, <2>2, <2>4 DEF FlushInv
<1> QED
  BY <1>10, <1>12 DEF IInv

\* It empties the next shard.
LEMMA ClearKeeps == ASSUME IInv, NEW c \in Clients, clear_shard(c) PROVE IInv'
<1> DEFINE m == Min(Shards(c))
           t == [conn[c] EXCEPT !.key = m + 1]
<1>1. /\ conn[c].at = "flush" /\ Shards(c) # {} /\ Drop(m) /\ conn' = [conn EXCEPT ![c].key = m + 1]
      /\ UNCHANGED <<reap, minted, fresh, flush>>
  BY DEF clear_shard
<1>2. conn[c] \in Connections /\ StepOK(conn[c])
  BY DEF IInv, TypeOK, StepInv
<1>3. Shards(c) \subseteq Keys /\ Shards(c) \subseteq Nat
  BY KeysAssumption DEF Shards
<1>4. m \in Shards(c) /\ \A k \in Shards(c) : m <= k
  BY <1>1, <1>3, LeastOf
<1>5. conn' = [conn EXCEPT ![c] = t]
  BY <1>1
<1>6. m \in Keys /\ m \in Nat
  BY <1>3, <1>4
<1> HIDE DEF m
<1>7. t \in Connections /\ t.at = "flush" /\ t.key = m + 1 /\ t.to = conn[c].to /\ t.hand = conn[c].hand
  BY <1>1, <1>2, <1>6 DEF Connections
<1> HIDE DEF t
<1>8. StepOK(t)
  BY <1>1, <1>2, <1>7 DEF StepOK
<1>9. conn' \in [Clients -> Connections] /\ conn'[c] = t /\ (\A o \in Clients \ {c} : conn'[o] = conn[o]) /\ StepInv'
  BY <1>5, <1>7, <1>8, ConnFacts
<1>10. \A o \in Clients : conn'[o].hand.id = conn[o].hand.id
  BY <1>7, <1>9
<1>11. /\ PlaceInv' /\ db' \in [Keys -> Entries] /\ dead' \subseteq 1 .. minted /\ db'[m].id = 0
       /\ \A j \in Keys : (Live(j)' => Live(j)) /\ db'[j].id \in {0, db[j].id}
  BY <1>1, <1>6, <1>10, DropFacts
<1>12. TypeOK'
  BY <1>1, <1>9, <1>11 DEF IInv, TypeOK
<1>13. ReapInv'
  BY <1>1, <1>11, UnwrittenKeeps DEF IInv
<1>14. FlushInv'
  <2>1. Flushing' = Flushing
    BY <1>1, <1>7, <1>9 DEF Flushing
  <2>2. \A k \in Keys : db'[k].id # 0 /\ db'[k].id <= flush'.before => db'[k].id \in flush'.carried
    BY <1>1, <1>11 DEF IInv, FlushInv
  <2>3. \A o \in Clients : conn'[o].hand.id # 0 /\ (conn'[o].hand.id <= flush'.before \/ Flushing')
                              => conn'[o].hand.id \in flush'.carried
    BY <1>1, <1>10, <2>1 DEF IInv, FlushInv
  <2>4. ASSUME NEW k \in Keys, k < m + 1, k # m PROVE k < conn[c].key
    <3>1. k \in Nat /\ conn[c].key \in Nat
      BY <1>2, KeysAssumption DEF Connections
    <3>2. ~ (m <= k)
      BY <1>6, <2>4, <3>1
    <3>3. ~ (k >= conn[c].key)
      BY <1>4, <3>2 DEF Shards
    <3> QED
      BY <3>1, <3>3
  <2>5. ASSUME NEW o \in Clients, conn'[o].at = "flush"
        PROVE  /\ conn'[o].to <= minted'
               /\ \A k \in Keys : k < conn'[o].key /\ db'[k].id # 0 /\ db'[k].id <= conn'[o].to
                                      => db'[k].id \in flush'.carried
    <3>1. CASE o = c
      <4>1. conn'[c].to = conn[c].to /\ conn'[c].key = m + 1
        BY <1>7, <1>9
      <4>2. /\ conn[c].to <= minted
            /\ \A k \in Keys : k < conn[c].key /\ db[k].id # 0 /\ db[k].id <= conn[c].to
                                   => db[k].id \in flush.carried
        BY <1>1 DEF IInv, FlushInv
      <4>3. ASSUME NEW k \in Keys, k < m + 1, db'[k].id # 0, db'[k].id <= conn[c].to
            PROVE  db'[k].id \in flush.carried
        BY <1>11, <2>4, <4>2, <4>3
      <4> QED
        BY <1>1, <3>1, <4>1, <4>2, <4>3
    <3>2. CASE o # c
      BY <1>1, <1>9, <1>11, <2>5, <3>2 DEF IInv, FlushInv
    <3> QED
      BY <3>1, <3>2
  <2> QED
    BY <2>2, <2>3, <2>5 DEF FlushInv
<1> QED
  BY <1>9, <1>11, <1>12, <1>13, <1>14 DEF IInv

\* It is over: every key is behind it.
LEMMA FlushedKeeps == ASSUME IInv, NEW c \in Clients, flushed(c) PROVE IInv'
<1> DEFINE b == Max({flush.before, conn[c].to})
<1>1. /\ conn[c].at = "flush" /\ Shards(c) = {} /\ conn' = [conn EXCEPT ![c] = Idle]
      /\ UNCHANGED <<db, reap, minted, dead, fresh>> /\ flush' = [flush EXCEPT !.before = b]
  BY DEF flushed
<1>2. flush \in [before : 0 .. minted, carried : SUBSET Nat] /\ minted \in Nat /\ conn[c] \in Connections
  BY DEF IInv, TypeOK
<1>3. conn[c].to \in 0 .. minted /\ conn[c].key \in Nat
  BY <1>1, <1>2 DEF IInv, FlushInv, Connections
<1>4. b \in {flush.before, conn[c].to}
  <2>1. \E x \in {flush.before, conn[c].to} : \A y \in {flush.before, conn[c].to} : x >= y
    BY <1>2, <1>3
  <2> QED
    BY <2>1 DEF Max
<1> HIDE DEF b
<1>5. /\ flush' \in [before : 0 .. minted, carried : SUBSET Nat] /\ flush'.before = b
      /\ flush'.carried = flush.carried
  BY <1>1, <1>2, <1>3, <1>4
<1>6. Idle \in Connections /\ StepOK(Idle) /\ Idle.hand.id = 0 /\ Idle.at # "flush"
  BY IdlePlain DEF Plain
<1>7. conn[c].hand.id = 0
  BY <1>1 DEF IInv, StepInv, StepOK
<1>8. TypeOK' /\ StepInv' /\ PlaceInv' /\ ReapInv' /\ \A o \in Clients : conn'[o].hand.id = conn[o].hand.id
  BY <1>1, <1>5, <1>6, <1>7, FlushFrame
<1>9. conn'[c] = Idle /\ \A o \in Clients \ {c} : conn'[o] = conn[o]
  BY <1>1, <1>6, ConnFacts
<1>10. FlushInv'
  <2>1. \A k \in Keys : k < conn[c].key
    BY <1>1, <1>3, KeysAssumption DEF Shards
  <2>2. \A k \in Keys : db[k].id # 0 /\ db[k].id <= b => db[k].id \in flush.carried
    BY <1>1, <1>4, <2>1 DEF IInv, FlushInv
  <2>3. Flushing
    BY <1>1 DEF Flushing
  <2>4. \A o \in Clients : conn'[o].hand.id # 0 => conn'[o].hand.id \in flush.carried
    BY <1>8, <2>3 DEF IInv, FlushInv
  <2>5. ASSUME NEW o \in Clients, conn'[o].at = "flush"
        PROVE  /\ conn'[o].to <= minted'
               /\ \A k \in Keys : k < conn'[o].key /\ db'[k].id # 0 /\ db'[k].id <= conn'[o].to
                                      => db'[k].id \in flush'.carried
    <3>1. o # c /\ conn'[o] = conn[o]
      BY <1>6, <1>9, <2>5
    <3> QED
      BY <1>1, <1>5, <2>5, <3>1 DEF IInv, FlushInv
  <2> QED
    BY <1>1, <1>5, <2>2, <2>4, <2>5 DEF FlushInv
<1> QED
  BY <1>8, <1>10 DEF IInv

-----------------------------------------------------------------------------
(* The reapers, and time. *)

\* Only expired keys are collected.
LEMMA CollectedFacts ==
    ASSUME IInv, NEW r \in Reapers
    PROVE  Collected(r) \subseteq Keys /\ Cardinality(Collected(r)) \in Nat /\ \A k \in Collected(r) : ~ Live(k)
<1>1. Collected(r) \subseteq Keys
  BY DEF Collected, Sample, Volatile
<1>2. \A k \in Collected(r) : ~ Live(k)
  BY DEF Collected, Live
<1>3. IsFiniteSet(Collected(r))
  BY <1>1, KeysAssumption, FS_Subset
<1> QED
  BY <1>1, <1>2, <1>3, FS_CardinalityType

\* A reaper that begins, samples again or ends.
LEMMA RoundKeeps ==
    ASSUME IInv, NEW r \in Reapers, NEW R \in [at : {"idle", "remove"}, keys : SUBSET Keys, n : Nat],
           R.at = "idle" => R.keys = {}, \A k \in R.keys : ~ Live(k),
           reap' = [reap EXCEPT ![r] = R], fresh' = [fresh EXCEPT ![r] = {}],
           UNCHANGED <<db, conn, minted, dead, flush>>
    PROVE  IInv'
<1>1. TypeOK'
  BY DEF IInv, TypeOK
<1>2. StepInv'
  BY DEF IInv, StepInv
<1>3. PlaceInv'
  BY StayPlaces DEF IInv
<1>4. FlushInv'
  BY QuietFlush
<1>5. reap'[r] = R /\ \A q \in Reapers \ {r} : reap'[q] = reap[q] /\ fresh'[q] = fresh[q]
  BY DEF IInv, TypeOK
<1>6. \A k \in Keys : Live(k)' <=> Live(k)
  BY DEF Live, There, expired
<1>7. ASSUME NEW q \in Reapers
      PROVE  (reap'[q].at = "idle" => reap'[q].keys = {}) /\ \A k \in reap'[q].keys : Live(k)' => k \in fresh'[q]
  <2>1. CASE q = r
    BY <1>5, <1>6, <2>1
  <2>2. CASE q # r
    <3>1. reap'[q] = reap[q] /\ fresh'[q] = fresh[q] /\ reap[q].keys \subseteq Keys
      BY <1>5, <2>2 DEF IInv, TypeOK
    <3>2. (reap[q].at = "idle" => reap[q].keys = {}) /\ \A k \in reap[q].keys : Live(k) => k \in fresh[q]
      BY DEF IInv, ReapInv
    <3> QED
      BY <1>6, <3>1, <3>2
  <2> QED
    BY <2>1, <2>2
<1>8. ReapInv'
  BY <1>7 DEF ReapInv
<1> QED
  BY <1>1, <1>2, <1>3, <1>4, <1>8 DEF IInv

LEMMA CollectKeeps == ASSUME IInv, NEW r \in Reapers, collect(r) PROVE IInv'
<1> DEFINE S == Collected(r)
           R == [at |-> "remove", keys |-> S, n |-> Cardinality(S)]
<1>1. /\ reap' = [reap EXCEPT ![r] = R] /\ fresh' = [fresh EXCEPT ![r] = {}]
      /\ UNCHANGED <<db, conn, minted, dead, flush>>
  BY DEF collect
<1>2. S \subseteq Keys /\ Cardinality(S) \in Nat /\ \A k \in S : ~ Live(k)
  BY CollectedFacts
<1> HIDE DEF S
<1>3. R \in [at : {"idle", "remove"}, keys : SUBSET Keys, n : Nat] /\ R.at = "remove" /\ R.keys = S
  BY <1>2
<1> HIDE DEF R
<1> QED
  BY <1>1, <1>2, <1>3, RoundKeeps

LEMMA RemovedKeeps == ASSUME IInv, NEW r \in Reapers, removed(r) PROVE IInv'
<1> DEFINE S == IF AnotherRound(r) THEN Collected(r) ELSE {}
           R == IF S = {} THEN NotReaping ELSE [at |-> "remove", keys |-> S, n |-> Cardinality(S)]
<1>1. /\ reap' = [reap EXCEPT ![r] = R] /\ fresh' = [fresh EXCEPT ![r] = {}]
      /\ UNCHANGED <<db, conn, minted, dead, flush>>
  BY DEF removed
<1>2. S \subseteq Keys /\ (S # {} => Cardinality(S) \in Nat) /\ \A k \in S : ~ Live(k)
  BY CollectedFacts
<1> HIDE DEF S
<1>3. R \in [at : {"idle", "remove"}, keys : SUBSET Keys, n : Nat] /\ (R.at = "idle" => R.keys = {}) /\ R.keys = S
  BY <1>2 DEF NotReaping
<1> HIDE DEF R
<1> QED
  BY <1>1, <1>2, <1>3, RoundKeeps

\* A reaper removes one key of those it has collected.
LEMMA RemoveKeeps == ASSUME IInv, NEW r \in Reapers, NEW k \in Keys, remove_key(r, k) PROVE IInv'
<1>1. Drop(k) /\ reap' = [reap EXCEPT ![r].keys = @ \ {k}] /\ UNCHANGED <<conn, minted, fresh, flush>>
  BY DEF remove_key
<1>2. /\ PlaceInv' /\ db' \in [Keys -> Entries] /\ dead' \subseteq 1 .. minted
      /\ \A j \in Keys : (Live(j)' => Live(j)) /\ db'[j].id \in {0, db[j].id}
  BY <1>1, DropFacts
<1>3. reap' \in [Reapers -> [at : {"idle", "remove"}, keys : SUBSET Keys, n : Nat]]
  BY <1>1 DEF IInv, TypeOK
<1>4. \A q \in Reapers : reap'[q].at = reap[q].at /\ reap'[q].keys \subseteq reap[q].keys
  BY <1>1 DEF IInv, TypeOK
<1>5. TypeOK'
  BY <1>1, <1>2, <1>3 DEF IInv, TypeOK
<1>6. StepInv'
  BY <1>1 DEF IInv, StepInv
<1>7. FlushInv'
  BY <1>1, <1>2, QuietFlush
<1>8. ReapInv'
  <2>1. ASSUME NEW q \in Reapers, NEW j \in reap'[q].keys, Live(j)' PROVE j \in fresh'[q]
    <3>1. j \in reap[q].keys /\ j \in Keys
      BY <1>4 DEF IInv, TypeOK
    <3> QED
      BY <1>1, <1>2, <2>1, <3>1 DEF IInv, ReapInv
  <2>2. ASSUME NEW q \in Reapers, reap'[q].at = "idle" PROVE reap'[q].keys = {}
    <3>1. reap[q].keys = {}
      BY <1>4, <2>2 DEF IInv, ReapInv
    <3> QED
      BY <1>4, <3>1
  <2> QED
    BY <2>1, <2>2 DEF ReapInv
<1> QED
  BY <1>2, <1>5, <1>6, <1>7, <1>8 DEF IInv

\* A time that has come stays so.
LEMMA NearerFacts ==
    ASSUME NEW exp \in Exp
    PROVE  Nearer(exp) \in Exp /\ (exp = 0 => Nearer(exp) = 0)
BY DEF Nearer, Exp, NoTtl

\* Time passes.
LEMMA TickKeeps == ASSUME IInv, tick PROVE IInv'
<1>1. /\ db' = [k \in Keys |-> [db[k] EXCEPT !.exp = Nearer(db[k].exp)]]
      /\ UNCHANGED <<reap, minted, dead, fresh, flush>>
  BY DEF tick
<1>2. ASSUME NEW k \in Keys PROVE db'[k] \in Entries /\ db'[k].id = db[k].id /\ (db[k].exp = 0 => db'[k].exp = 0)
  <2> DEFINE e == db[k]
             x == Nearer(e.exp)
             f == [e EXCEPT !.exp = x]
  <2>1. e \in Entries
    BY DEF IInv, TypeOK
  <2>2. db'[k] = f
    BY <1>1
  <2> HIDE DEF e
  <2>3. x \in Exp /\ (e.exp = 0 => x = 0)
    BY <2>1, NearerFacts DEF Entries, Exp
  <2> HIDE DEF x
  <2>4. f \in Entries /\ f.id = e.id /\ f.exp = x
    BY <2>1, <2>3 DEF Entries, Exp
  <2> QED
    BY <2>2, <2>3, <2>4 DEF e
<1>3. db' \in [Keys -> Entries]
  BY <1>1, <1>2
<1>4. ASSUME NEW c \in Clients
      PROVE  /\ conn'[c] \in Connections /\ conn'[c].hand.id = conn[c].hand.id /\ conn'[c].at = conn[c].at
             /\ conn'[c].key = conn[c].key /\ conn'[c].to = conn[c].to /\ conn'[c].rest = conn[c].rest
  <2> DEFINE t == conn[c]
             h == t.hand
             x == Nearer(t.exp)
             y == Nearer(h.exp)
             g == [h EXCEPT !.exp = y]
             u == [t EXCEPT !.exp = x, !.hand = g]
  <2>1. t \in Connections
    BY DEF IInv, TypeOK
  <2>2. conn'[c] = u
    BY DEF tick
  <2> HIDE DEF t
  <2>3. h \in Entries /\ t.exp \in Exp
    BY <2>1 DEF Connections, Exp
  <2> HIDE DEF h
  <2>4. x \in Exp /\ y \in Exp
    BY <2>3, NearerFacts DEF Entries, Exp
  <2> HIDE DEF x, y
  <2>5. g \in Entries /\ g.id = h.id
    BY <2>3, <2>4 DEF Entries, Exp
  <2> HIDE DEF g
  <2>6. u \in Connections /\ u.hand = g /\ u.at = t.at /\ u.key = t.key /\ u.to = t.to /\ u.rest = t.rest
    BY <2>1, <2>4, <2>5 DEF Connections, Exp
  <2> HIDE DEF u
  <2> QED
    BY <2>2, <2>5, <2>6 DEF t, h
<1>5. conn' \in [Clients -> Connections]
  BY <1>4 DEF tick
<1>6. TypeOK'
  BY <1>1, <1>3, <1>5 DEF IInv, TypeOK
<1>7. StepInv'
  <2>1. ASSUME NEW c \in Clients PROVE StepOK(conn'[c])
    BY <1>4 DEF IInv, StepInv, StepOK
  <2> QED
    BY <2>1 DEF StepInv, StepOK
<1>8. PlaceInv'
  BY <1>1, <1>2, <1>4, StayPlaces DEF IInv
<1>9. minted' \in Nat /\ minted <= minted'
  BY <1>1 DEF IInv, TypeOK
<1>10. FlushInv'
  BY <1>1, <1>2, <1>4, <1>9, FlushKeeps DEF IInv
<1>11. \A j \in Keys : Live(j)' => Live(j)
  BY <1>2 DEF Live, There, expired
<1>12. ReapInv'
  BY <1>1, <1>11, UnwrittenKeeps DEF IInv
<1> QED
  BY <1>6, <1>7, <1>8, <1>10, <1>12 DEF IInv

-----------------------------------------------------------------------------
(* The invariant holds, and what follows from it. *)

LEMMA InitInv == Init => IInv
<1> SUFFICES ASSUME Init PROVE IInv
  OBVIOUS
<1>1. Idle \in Connections /\ StepOK(Idle) /\ Idle.hand.id = 0 /\ Idle.at # "flush"
  BY IdlePlain DEF Plain
<1>2. None \in Entries /\ None.id = 0
  BY DEF None, Entries, NoTtl
<1>3. TypeOK
  <2>1. NotReaping \in [at : {"idle", "remove"}, keys : SUBSET Keys, n : Nat]
    BY DEF NotReaping
  <2> QED
    BY <1>1, <1>2, <2>1 DEF Init, TypeOK
<1>4. StepInv
  BY <1>1 DEF Init, StepInv
<1>5. PlaceInv
  BY <1>1, <1>2 DEF Init, PlaceInv, MintInv, ApartInv, SomewhereInv
<1>6. FlushInv
  BY <1>1, <1>2 DEF Init, FlushInv
<1>7. ReapInv
  BY DEF Init, ReapInv, NotReaping
<1> QED
  BY <1>3, <1>4, <1>5, <1>6, <1>7 DEF IInv

\* Every step keeps the invariant.
LEMMA NextStep == IInv /\ [Next]_vars => IInv'
<1> SUFFICES ASSUME IInv, [Next]_vars PROVE IInv'
  OBVIOUS
<1>1. ASSUME NEW c \in Clients, Command(c) PROVE IInv'
  BY <1>1, SetKeeps, CheckKeeps, DelKeeps, ExpireKeeps, RenameKeeps, MsetKeeps, FlushKeepsBegin, Zenon DEF Command
<1>2. ASSUME NEW c \in Clients, Continue(c) PROVE IInv'
  BY <1>2, WriteKeeps, MsetNextKeeps, SourceKeeps, TakeKeeps, InsertKeeps, ClearKeeps, FlushedKeeps, Zenon DEF Continue
<1>3. ASSUME NEW r \in Reapers, ReapStep(r) PROVE IInv'
  BY <1>3, CollectKeeps, RemovedKeeps, RemoveKeeps, Zenon DEF ReapStep
<1>4. CASE tick
  BY <1>4, TickKeeps
<1>5. CASE UNCHANGED vars
  BY <1>5 DEF vars, IInv, TypeOK, StepInv, PlaceInv, MintInv, ApartInv, SomewhereInv, FlushInv, Flushing, ReapInv,
              Live, There, expired
<1> QED
  BY <1>1, <1>2, <1>3, <1>4, <1>5 DEF Next

\* Whatever commands, renames, flushes and reapers run, in any order, the
\* invariant holds (src/cmd/string.rs, src/cmd/generic.rs, src/store/memory.rs).
THEOREM Invariance == Spec => []IInv
<1>1. Init => IInv
  BY InitInv
<1>2. IInv /\ [Next]_vars => IInv'
  BY NextStep
<1> QED
  BY <1>1, <1>2, PTL DEF Spec

\* A set in which any two elements are equal has at most one.
LEMMA AtMostOne ==
    ASSUME NEW S, \A x, y \in S : x = y
    PROVE  Cardinality(S) = IF S = {} THEN 0 ELSE 1
<1>1. CASE S = {}
  BY <1>1, FS_EmptySet
<1>2. CASE S # {}
  <2>1. PICK x \in S : TRUE
    BY <1>2
  <2>2. S = {x}
    BY <2>1
  <2>3. Cardinality({x}) = 1
    BY FS_Singleton
  <2> QED
    BY <1>2, <2>2, <2>3
<1> QED
  BY <1>1, <1>2

LEMMA InvGivesConserved == IInv => ValuesConserved
<1> SUFFICES ASSUME IInv PROVE ValuesConserved
  OBVIOUS
<1>1. ASSUME NEW i \in 1 .. minted
      PROVE  Cardinality({k \in Keys : db[k].id = i}) + Cardinality({c \in Clients : conn[c].hand.id = i})
                + (IF i \in dead THEN 1 ELSE 0) = 1
  <2> DEFINE K == {k \in Keys : db[k].id = i}
             C == {c \in Clients : conn[c].hand.id = i}
  <2>1. i # 0
    OBVIOUS
  <2>2. \A x, y \in K : x = y
    BY <2>1 DEF IInv, PlaceInv, ApartInv
  <2>3. \A x, y \in C : x = y
    BY <2>1 DEF IInv, PlaceInv, ApartInv
  <2>4. K = {} \/ C = {}
    BY <2>1 DEF IInv, PlaceInv, ApartInv
  <2>5. i \in dead => K = {} /\ C = {}
    BY DEF IInv, PlaceInv, ApartInv
  <2>6. i \in dead \/ K # {} \/ C # {}
    BY DEF IInv, PlaceInv, SomewhereInv
  <2> HIDE DEF K, C
  <2>7. Cardinality(K) = (IF K = {} THEN 0 ELSE 1) /\ Cardinality(C) = IF C = {} THEN 0 ELSE 1
    BY <2>2, <2>3, AtMostOne
  <2>8. Cardinality(K) + Cardinality(C) + (IF i \in dead THEN 1 ELSE 0) = 1
    BY <2>4, <2>5, <2>6, <2>7
  <2> QED
    BY <2>8 DEF K, C
<1>2. \A k \in Keys : There(k) /\ db[k].id <= flush.before => db[k].id \in flush.carried
  BY DEF IInv, FlushInv, There
<1> QED
  BY <1>1, <1>2 DEF ValuesConserved

\* Every value written is under one key, in the hand of one RENAME or gone, and
\* none outlives a FLUSHDB but in the hand of a RENAME (src/store/memory.rs:
\* rename, set, del, flushdb, active_expire_cycle).
THEOREM ValuesInOnePlace == Spec => []ValuesConserved
BY Invariance, InvGivesConserved, PTL

\* The removal of expired keys takes a live value only if its key was written
\* after it had been collected (src/store/memory.rs: dbsize,
\* active_expire_cycle).
THEOREM ReapersTakeExpired == Spec => LostOnlyIfRewritten
<1>1. IInv /\ [Next]_vars =>
         [\A r \in Reapers, k \in Keys :
             k \in reap[r].keys /\ k \notin reap'[r].keys /\ Live(k) => k \in fresh[r]]_vars
  BY DEF IInv, ReapInv
<1> QED
  BY <1>1, Invariance, PTL DEF Spec, LostOnlyIfRewritten
=============================================================================
