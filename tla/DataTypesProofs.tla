-------------------------- MODULE DataTypesProofs --------------------------
(***************************************************************************)
(* Proofs about values.                                                    *)
(*                                                                         *)
(* The two indexes of a sorted set agree, for every set of members and of  *)
(* scores and after every sequence of commands.  Mirrored needs no         *)
(* strengthening: it is kept by one pass of the loop of zadd and by one of *)
(* zrem, whatever the sorted set, and every other command leaves a value   *)
(* of another type.                                                        *)
(*                                                                         *)
(* The entries of a stream are in order and its consumer group skips none, *)
(* for every number of connections, ids and COUNTs.  Neither is inductive: *)
(* the order needs that an XADD past its check is above the last id        *)
(* (EntriesInv), the group needs what each reader has seen of the cursor   *)
(* and copied of the stream, and that no XADD can still come in below      *)
(* either (GroupInv).                                                      *)
(*                                                                         *)
(* The index arithmetic of LRANGE, LTRIM, ZRANGE and GETRANGE, with its    *)
(* clamping and its conversion of -1 to the greatest usize, picks out the  *)
(* elements between two positions, for every sequence and all integers.    *)
(***************************************************************************)
EXTENDS DataTypes, Streams, SequenceTheorems, FiniteSetTheorems, WellFoundedInduction, TLAPS

\* Taking a member out of the bucket of its score leaves the other members
\* where they were and no empty bucket (the first half of zadd and of zrem).
LEMMA UnindexedBuckets ==
    ASSUME NEW z, Mirrored(z), NEW m \in DOMAIN z.members
    PROVE  LET u == Unindexed(z.scores, m, z.members[m])
           IN  /\ DOMAIN u = {t \in DOMAIN z.scores : z.scores[t] \ {m} # {}}
               /\ \A t \in DOMAIN u : u[t] = z.scores[t] \ {m}
<1> DEFINE score == z.members[m]
           u == Unindexed(z.scores, m, score)
<1>1. score \in DOMAIN z.scores
  BY DEF Mirrored
<1>2. \A t \in DOMAIN z.scores : t # score => m \notin z.scores[t]
  BY DEF Mirrored
<1>3. \A t \in DOMAIN z.scores : z.scores[t] # {}
  BY DEF Mirrored
<1>4. \A t \in DOMAIN z.scores : t # score => z.scores[t] \ {m} = z.scores[t]
  BY <1>2
<1>5. CASE z.scores[score] \ {m} = {}
  <2>1. u = [t \in DOMAIN z.scores \ {score} |-> z.scores[t]]
    BY <1>1, <1>5 DEF Unindexed, Restrict
  <2> QED
    BY <2>1, <1>1, <1>3, <1>4, <1>5
<1>6. CASE z.scores[score] \ {m} # {}
  <2>1. u = [z.scores EXCEPT ![score] = @ \ {m}]
    BY <1>1, <1>6 DEF Unindexed
  <2> QED
    BY <2>1, <1>1, <1>3, <1>4, <1>6
<1> QED
  BY <1>5, <1>6

\* Removing a member keeps the indexes in agreement (zrem).
LEMMA ZRemMirrored ==
    ASSUME NEW z, Mirrored(z), NEW m
    PROVE  Mirrored(ZRemMember(z, m))
<1>1. CASE m \notin DOMAIN z.members
  BY <1>1 DEF ZRemMember
<1>2. CASE m \in DOMAIN z.members
  <2> DEFINE u == Unindexed(z.scores, m, z.members[m])
             r == Restrict(z.members, DOMAIN z.members \ {m})
             new == ZRemMember(z, m)
  <2>1. new.members = r /\ new.scores = u
    BY <1>2 DEF ZRemMember, ZSet
  <2>2. /\ DOMAIN r = DOMAIN z.members \ {m}
        /\ \A x \in DOMAIN r : r[x] = z.members[x]
    BY DEF Restrict
  <2>3. /\ DOMAIN u = {t \in DOMAIN z.scores : z.scores[t] \ {m} # {}}
        /\ \A t \in DOMAIN u : u[t] = z.scores[t] \ {m}
    BY <1>2, UnindexedBuckets
  <2> HIDE DEF u, r, new
  <2>4. ASSUME NEW x \in DOMAIN r
        PROVE  r[x] \in DOMAIN u
    <3>1. x \in z.scores[z.members[x]] /\ z.members[x] \in DOMAIN z.scores
      BY <2>2 DEF Mirrored
    <3> QED
      BY <3>1, <2>2, <2>3
  <2>5. ASSUME NEW t \in DOMAIN u
        PROVE  u[t] # {} /\ u[t] = {x \in DOMAIN r : r[x] = t}
    BY <2>2, <2>3 DEF Mirrored
  <2> QED
    BY <2>1, <2>4, <2>5 DEF Mirrored, new
<1> QED
  BY <1>1, <1>2

\* Adding a member, or moving it to another score, keeps them in agreement
\* (one pass of the loop of zadd).
LEMMA ZAddMirrored ==
    ASSUME NEW z, Mirrored(z), NEW m, NEW score
    PROVE  Mirrored(ZAddPair(z, <<m, score>>))
<1> DEFINE left == IF m \in DOMAIN z.members THEN Unindexed(z.scores, m, z.members[m])
                                             ELSE z.scores
           r == Scored(z.members, m, score)
           u == Indexed(left, m, score)
           new == ZAddPair(z, <<m, score>>)
<1>1. new.members = r /\ new.scores = u
  BY DEF ZAddPair, ZSet
<1>2. /\ DOMAIN r = DOMAIN z.members \cup {m}
      /\ r[m] = score
      /\ \A x \in DOMAIN z.members : x # m => r[x] = z.members[x]
  BY DEF Scored
<1>3. /\ DOMAIN left = {t \in DOMAIN z.scores : z.scores[t] \ {m} # {}}
      /\ \A t \in DOMAIN left : left[t] = z.scores[t] \ {m}
  <2>1. CASE m \in DOMAIN z.members
    BY <2>1, UnindexedBuckets
  <2>2. CASE m \notin DOMAIN z.members
    <3>1. \A t \in DOMAIN z.scores : m \notin z.scores[t] /\ z.scores[t] # {}
      BY <2>2 DEF Mirrored
    <3> QED
      BY <2>2, <3>1
  <2> QED
    BY <2>1, <2>2
<1> HIDE DEF left
<1>4. /\ DOMAIN u = DOMAIN left \cup {score}
      /\ \A t \in DOMAIN left : t # score => u[t] = left[t]
      /\ u[score] = (IF score \in DOMAIN left THEN left[score] ELSE {}) \cup {m}
  BY DEF Indexed
<1> HIDE DEF r, u, new
<1>5. ASSUME NEW x \in DOMAIN r
      PROVE  r[x] \in DOMAIN u
  <2>1. CASE x = m
    BY <2>1, <1>2, <1>4
  <2>2. CASE x # m
    <3>1. /\ x \in DOMAIN z.members /\ r[x] = z.members[x]
          /\ z.members[x] \in DOMAIN z.scores /\ x \in z.scores[z.members[x]]
      BY <2>2, <1>2 DEF Mirrored
    <3> QED
      BY <3>1, <2>2, <1>3, <1>4
  <2> QED
    BY <2>1, <2>2
<1>6. ASSUME NEW t \in DOMAIN u
      PROVE  u[t] # {} /\ u[t] = {x \in DOMAIN r : r[x] = t}
  <2>1. CASE t # score
    BY <2>1, <1>2, <1>3, <1>4 DEF Mirrored
  <2>2. CASE t = score /\ score \in DOMAIN left
    BY <2>2, <1>2, <1>3, <1>4 DEF Mirrored
  <2>3. CASE t = score /\ score \notin DOMAIN left
    <3>1. \A x \in DOMAIN z.members : x # m => z.members[x] # score
      BY <2>3, <1>3 DEF Mirrored
    <3> QED
      BY <2>3, <3>1, <1>2, <1>4
  <2> QED
    BY <2>1, <2>2, <2>3
<1> QED
  BY <1>1, <1>5, <1>6 DEF Mirrored, new

-----------------------------------------------------------------------------

\* A command on another type leaves a value that is no sorted set.
LEMMA OtherTypes ==
    ASSUME Strings \/ Lists \/ Sets \/ srandmember_pick \/ Hashes \/ del
    PROVE  value' = value \/ value'.type # "zset"
<1>1. CASE Strings
  BY <1>1 DEF Strings, set, append, setrange, Str
<1>2. CASE Lists
  BY <1>2 DEF Lists, lpush, rpush, pop, lset, lrem, ltrim, LPush, RPush, List
<1>3. CASE Sets \/ srandmember_pick
  <2>1. ASSUME NEW M \in SUBSET Elems, sadd(M) \/ srem(M)
        PROVE  value'.type = "set"
    BY <2>1 DEF sadd, srem, SAdd, Set
  <2>2. ASSUME NEW n, spop(n)
        PROVE  value'.type = "set"
    BY <2>2 DEF spop, Set
  <2>3. ASSUME NEW n, NEW nano, srandmember(n, nano)
        PROVE  value' = value
    BY <2>3 DEF srandmember
  <2>4. ASSUME srandmember_pick \/ srandmember_reply
        PROVE  value' = value
    BY <2>4 DEF srandmember_pick, srandmember_reply
  <2> QED
    BY <1>3, <2>1, <2>2, <2>3, <2>4 DEF Sets
<1>4. CASE Hashes
  BY <1>4 DEF Hashes, hset, hdel, hincrby, nhset, nhdel, nhdel_field, NHSet, HSetPair,
              Hash, NestedHash
<1>5. CASE del
  BY <1>5 DEF del, Missing
<1> QED
  BY <1>1, <1>2, <1>3, <1>4, <1>5

\* Every step keeps the indexes of a sorted set in agreement.
LEMMA IndexesStep == IndexesAgree /\ [Next]_vars => IndexesAgree'
<1> SUFFICES ASSUME IndexesAgree, [Next]_vars
             PROVE  IndexesAgree'
  OBVIOUS
<1>1. CASE Strings \/ Lists \/ Sets \/ srandmember_pick \/ Hashes \/ del
  BY <1>1, OtherTypes DEF IndexesAgree
<1>2. ASSUME NEW m \in Elems, NEW score \in Scores, zadd(m, score)
      PROVE  IndexesAgree'
  <2> DEFINE z == OrInsert(value, EmptyZSet)
  <2>1. Mirrored(EmptyZSet)
    BY DEF Mirrored, EmptyZSet, ZSet
  <2>2. Mirrored(z)
    BY <1>2, <2>1 DEF zadd, Fits, OrInsert, IndexesAgree
  <2>3. value' = ZAddPair(z, <<m, score>>)
    BY <1>2 DEF zadd
  <2> QED
    BY <2>2, <2>3, ZAddMirrored DEF IndexesAgree
<1>3. ASSUME NEW m \in Elems, zrem(m)
      PROVE  IndexesAgree'
  BY <1>3, ZRemMirrored DEF zrem, IndexesAgree
<1>4. CASE UNCHANGED vars
  BY <1>4 DEF vars, IndexesAgree
<1> QED
  BY <1>1, <1>2, <1>3, <1>4 DEF Next, SortedSets

\* CHANGELOG.md:157, "ZSet dual-index": for every set of members and scores,
\* the index by member and the index by score always hold the same pairs, with
\* no empty bucket (zadd, zrem).
THEOREM IndexesAlwaysAgree == Spec => []IndexesAgree
<1>1. Init => IndexesAgree
  BY DEF Init, Missing, IndexesAgree
<1> QED
  BY <1>1, IndexesStep, PTL DEF Spec

-----------------------------------------------------------------------------
(* Streams: the invariant. *)

\* The fields that the steps leave alone keep their values.
StreamShape ==
    /\ DOMAIN group = {"there", "start", "cursor", "consumers", "pending"}
    /\ DOMAIN reading = Readers /\ DOMAIN creating = {"at", "id"}
    /\ \A r \in Readers : DOMAIN reading[r] = {"at", "consumer", "after", "ids", "last"}

\* The entries are in order up to last_id, and an XADD that is past its check
\* has an id above it, unless the stream had expired when it was checked.
EntriesInv ==
    /\ ~ stream.there => stream.entries = <<>> /\ stream.last = Zero /\ ~ stream.expired
    /\ \A a \in Adders : adding[a].at # "idle" => adding[a].id # Zero
    /\ ~ raced =>
          /\ \A p, q \in DOMAIN stream.entries : p < q => Below(stream.entries[p], stream.entries[q])
          /\ \A p \in DOMAIN stream.entries : ~ Below(stream.last, stream.entries[p])
          /\ \A a \in Adders : adding[a].at = "append" /\ ~ adding[a].blind /\ stream.there
                                => Below(stream.last, adding[a].id)

\* Up to an id, every entry since the group's start was answered.
Given(id) ==
    \A p \in DOMAIN stream.entries :
        Below(group.start, stream.entries[p]) /\ ~ Below(id, stream.entries[p]) => stream.entries[p] \in answered

\* No XADD will come in below the id, but where the group does not look.
Reached(id) == id = group.start \/ ~ Below(stream.last, id)

\* A reader has what is between the cursor it has seen and the last id it took.
Taken(r) ==
    /\ ~ Below(stream.last, reading[r].last)
    /\ \A p \in DOMAIN stream.entries :
          Below(reading[r].after, stream.entries[p]) /\ ~ Below(reading[r].last, stream.entries[p])
              => stream.entries[p] \in reading[r].ids

GroupInv ==
    steady /\ ~ raced =>
       /\ group.there => Reached(group.cursor) /\ Given(group.cursor)
       /\ \A r \in Readers :
             /\ reading[r].at \in {"read", "commit"}
                   => group.there /\ Reached(reading[r].after) /\ Given(reading[r].after)
             /\ reading[r].at = "commit" => Taken(r)

StreamInv == StreamTypeOK /\ StreamShape /\ creating.id \in Ids /\ EntriesInv /\ GroupInv

-----------------------------------------------------------------------------
(* Streams: ids, and shrinking a sequence of them. *)

\* Ids are in a total order with Zero at the bottom.
LEMMA IdOrder ==
    ASSUME NEW i \in Ids, NEW j \in Ids, NEW k \in Ids
    PROVE  /\ ~ Below(i, i) /\ (Below(i, j) => ~ Below(j, i))
           /\ Below(i, j) /\ Below(j, k) => Below(i, k)
           /\ ~ Below(j, i) /\ Below(j, k) => Below(i, k)
           /\ Below(i, j) /\ ~ Below(k, j) => Below(i, k)
           /\ ~ Below(j, i) /\ ~ Below(k, j) => ~ Below(k, i)
           /\ i # Zero => Below(Zero, i)
<1>1. /\ i[1] \in Nat /\ i[2] \in Nat /\ j[1] \in Nat /\ j[2] \in Nat /\ k[1] \in Nat /\ k[2] \in Nat
  BY StreamBounds DEF Ids
<1>2. i # Zero => i[1] # 0 \/ i[2] # 0
  BY DEF Ids, Zero
<1> QED
  BY <1>1, <1>2 DEF Below, Zero

\* A set of positions has a last one.
LEMMA LastPosition ==
    ASSUME NEW n \in Nat, NEW S \in SUBSET (1 .. n), S # {}
    PROVE  Max(S) \in S /\ \A y \in S : y <= Max(S)
<1> DEFINE R == OpToRel(<, Nat)
           T == {n - x : x \in S}
<1>1. \A x, y \in Nat : x < y => <<x, y>> \in R
  BY DEF OpToRel
<1>2. IsWellFoundedOn(R, Nat)
  BY NatLessThanWellFounded, Zenon
<1> HIDE DEF R
<1>3. T \subseteq Nat /\ T # {}
  <2>1. \A x \in S : x \in 1 .. n
    OBVIOUS
  <2>2. \A x \in 1 .. n : n - x \in Nat
    OBVIOUS
  <2> QED
    BY <2>1, <2>2
<1>4. PICK t \in T : \A y \in T : ~ (<<y, t>> \in R)
  BY <1>2, <1>3, WFMin, Zenon
<1>5. PICK x \in S : t = n - x
  OBVIOUS
<1>6. ASSUME NEW y \in S PROVE x >= y
  <2>1. n - y \in T /\ n - y \in Nat /\ t \in Nat
    BY <1>3
  <2>2. ~ (n - y < t)
    BY <1>1, <1>4, <2>1
  <2>3. x \in 1 .. n /\ y \in 1 .. n
    OBVIOUS
  <2> QED
    BY <1>5, <2>2, <2>3
<1>7. Max(S) \in S /\ \A y \in S : Max(S) >= y
  BY <1>6 DEF Max
<1> QED
  BY <1>7

Ordered(s) == \A p, q \in DOMAIN s : p < q => Below(s[p], s[q])

\* t is s without some of its entries.
Shrunk(t, s) ==
    /\ t \in Seq(Ids) /\ (Ordered(s) => Ordered(t))
    /\ \A p \in DOMAIN t : \E q \in DOMAIN s : t[p] = s[q]

\* XTRIM and MAXLEN.
LEMMA TrimShrinks == ASSUME NEW s \in Seq(Ids), NEW n \in Nat PROVE Shrunk(Trimmed(s, n), s)
<1>1. CASE ~ (Len(s) > n)
  BY <1>1 DEF Trimmed, Shrunk
<1>2. CASE Len(s) > n
  <2> DEFINE t == SubSeq(s, Len(s) - n + 1, Len(s))
             k == Len(s) - n
  <2>1. Len(s) \in Nat /\ k \in Nat /\ Len(s) - k = n
    BY <1>2
  <2>2. t \in Seq(Ids) /\ Len(t) = n /\ \A p \in 1 .. n : t[p] = s[k + p]
    <3>1. k + 1 \in Nat /\ k + 1 <= Len(s) + 1 /\ k + 1 >= 1
      BY <2>1
    <3>2. \A p \in 1 .. n : k + 1 + p - 1 = k + p
      BY <2>1
    <3>3. t \in Seq(Ids)
      BY <2>1, <3>1
    <3>4. Len(t) = n /\ \A p \in 1 .. n : t[p] = s[k + 1 + p - 1]
      BY <2>1, <3>1
    <3> QED
      BY <3>2, <3>3, <3>4
  <2>3. \A p \in 1 .. n : k + p \in DOMAIN s
    BY <2>1
  <2>4. \A p, q \in 1 .. n : p < q => k + p < k + q
    BY <2>1
  <2>5. DOMAIN t = 1 .. n
    BY <2>2
  <2> HIDE DEF t, k
  <2>6. Shrunk(t, s)
    BY <2>2, <2>3, <2>4, <2>5 DEF Shrunk, Ordered
  <2> QED
    BY <1>2, <2>6 DEF Trimmed, t
<1> QED
  BY <1>1, <1>2

\* XDEL.
LEMMA RemoveShrinks == ASSUME NEW s \in Seq(Ids), NEW i \in DOMAIN s PROVE Shrunk(RemoveAt(s, i), s)
<1> DEFINE a == SubSeq(s, 1, i - 1)
           b == SubSeq(s, i + 1, Len(s))
           t == RemoveAt(s, i)
           n == Len(s) - 1
<1>1. Len(s) \in Nat /\ i \in 1 .. Len(s) /\ n \in Nat
  OBVIOUS
<1>2. a \in Seq(Ids) /\ Len(a) = i - 1 /\ \A p \in 1 .. i - 1 : a[p] = s[p]
  BY <1>1
<1>3. b \in Seq(Ids) /\ Len(b) = Len(s) - i /\ \A p \in 1 .. Len(s) - i : b[p] = s[i + p]
  <2>1. i + 1 \in Nat /\ i + 1 <= Len(s) + 1 /\ \A p \in 1 .. Len(s) - i : (i + 1) + p - 1 = i + p
    BY <1>1
  <2>2. b \in Seq(Ids)
    BY <1>1, <2>1
  <2>3. Len(b) = Len(s) - i /\ \A p \in 1 .. Len(s) - i : b[p] = s[(i + 1) + p - 1]
    BY <1>1, <2>1
  <2> QED
    BY <2>1, <2>2, <2>3
<1>4. t = a \o b
  BY DEF RemoveAt
<1> HIDE DEF a, b, t
<1>5. t \in Seq(Ids) /\ Len(t) = Len(a) + Len(b)
  BY <1>2, <1>3, <1>4, ConcatProperties
<1>6. \A p \in 1 .. Len(a) + Len(b) : t[p] = IF p <= Len(a) THEN a[p] ELSE b[p - Len(a)]
  BY <1>2, <1>3, <1>4, ConcatProperties
<1>7. Len(t) = n /\ DOMAIN t = 1 .. n
  BY <1>1, <1>2, <1>3, <1>5
<1> DEFINE f(p) == IF p < i THEN p ELSE p + 1
<1>8. ASSUME NEW p \in 1 .. n PROVE t[p] = s[f(p)]
  <2>1. p \in 1 .. Len(a) + Len(b)
    BY <1>1, <1>2, <1>3
  <2>2. CASE p < i
    <3>1. p <= Len(a) /\ p \in 1 .. i - 1
      BY <1>1, <1>2, <2>2
    <3> QED
      BY <1>2, <1>6, <2>1, <2>2, <3>1
  <2>3. CASE ~ (p < i)
    <3>1. ~ (p <= Len(a)) /\ p - Len(a) \in 1 .. Len(s) - i /\ i + (p - Len(a)) = p + 1
      BY <1>1, <1>2, <2>3
    <3>2. t[p] = b[p - Len(a)]
      BY <1>6, <2>1, <3>1
    <3>3. b[p - Len(a)] = s[i + (p - Len(a))]
      BY <1>3, <3>1
    <3> QED
      BY <2>3, <3>1, <3>2, <3>3
  <2> QED
    BY <2>2, <2>3
<1>9. \A p \in 1 .. n : f(p) \in DOMAIN s
  BY <1>1
<1>10. \A p, q \in 1 .. n : p < q => f(p) < f(q)
  BY <1>1
<1> HIDE DEF f, n
<1>11. Ordered(s) => Ordered(t)
  BY <1>7, <1>8, <1>9, <1>10 DEF Ordered
<1>12. \A p \in DOMAIN t : \E q \in DOMAIN s : t[p] = s[q]
  BY <1>7, <1>8, <1>9
<1> QED
  BY <1>5, <1>11, <1>12 DEF Shrunk, t

\* XADD: the sequence with an id that is above all.
LEMMA AppendOrdered ==
    ASSUME NEW s \in Seq(Ids), NEW x \in Ids, Ordered(s), \A p \in DOMAIN s : Below(s[p], x)
    PROVE  Ordered(Append(s, x))
<1> DEFINE t == Append(s, x)
           n == Len(s) + 1
<1>1. Len(s) \in Nat /\ DOMAIN s = 1 .. Len(s) /\ DOMAIN t = 1 .. n /\ t[n] = x /\ \A p \in 1 .. Len(s) : t[p] = s[p]
  OBVIOUS
<1>2. \A p, q \in 1 .. n : p < q => p \in 1 .. Len(s) /\ (q \in 1 .. Len(s) \/ q = n)
  BY <1>1
<1> HIDE DEF t, n
<1>3. Ordered(t)
  BY <1>1, <1>2 DEF Ordered
<1> QED
  BY <1>3 DEF t

-----------------------------------------------------------------------------
(* Streams: the steps. *)

LEMMA ZeroIsId == Zero \in Ids
BY StreamBounds DEF Zero, Ids

LEMMA InitStream == StreamInit => StreamInv
<1> SUFFICES ASSUME StreamInit PROVE StreamInv
  OBVIOUS
<1> USE DEF StreamInit
<1>1. StreamTypeOK
  <2>1. stream \in [there : BOOLEAN, expired : BOOLEAN, last : Ids, entries : Seq(Ids)]
    BY ZeroIsId DEF NoStream
  <2>2. /\ group.there \in BOOLEAN /\ group.start \in Ids /\ group.cursor \in Ids
        /\ group.consumers \subseteq Consumers
        /\ DOMAIN group.pending \subseteq Ids /\ \A i \in DOMAIN group.pending : group.pending[i] \in Consumers
    BY ZeroIsId DEF NoGroup, NoPending
  <2>3. adding \in [Adders -> [at : {"idle", "check", "append"}, id : Ids, blind : BOOLEAN]]
    BY ZeroIsId DEF NotAdding, Adding
  <2> QED
    BY <2>1, <2>2, <2>3, ZeroIsId DEF StreamTypeOK, NotReading, Reading
<1>2. StreamShape
  BY DEF StreamShape, NoGroup, NotReading, Reading, NotCreating, Creating
<1>3. EntriesInv
  BY DEF EntriesInv, NoStream, NotAdding, Adding
<1>4. GroupInv
  BY DEF GroupInv, NoGroup, NotReading, Reading
<1> QED
  BY <1>1, <1>2, <1>3, <1>4, ZeroIsId DEF StreamInv, NotCreating, Creating

\* XADD, up to its check: the stream, the group and the readers stay.
LEMMA CheckKeeps ==
    ASSUME StreamInv, NEW a \in Adders, xadd_generate(a) \/ xadd_check(a)
    PROVE  StreamInv'
<1>1. StreamTypeOK /\ StreamShape /\ creating.id \in Ids /\ EntriesInv /\ GroupInv
  BY DEF StreamInv
<1>2. /\ stream' = stream /\ group' = group /\ reading' = reading /\ creating' = creating /\ answered' = answered
      /\ steady' = steady /\ raced' = raced
  BY DEF xadd_generate, xadd_check
<1>3. PICK x \in [at : {"idle", "check", "append"}, id : Ids, blind : BOOLEAN] :
         /\ adding' = [adding EXCEPT ![a] = x]
         /\ x.at # "idle" => x.id # Zero
         /\ x.at = "append" /\ ~ x.blind /\ stream.there => Below(stream.last, x.id)
  <2>1. CASE xadd_generate(a)
    <3>1. PICK id \in generate_stream_id : adding' = [adding EXCEPT ![a] = Adding("check", id, FALSE)]
      BY <2>1 DEF xadd_generate
    <3>2. id \in Ids /\ id # Zero
      <4> DEFINE last == get_stream_last_id
      <4>1. last \in Ids
        BY <1>1, ZeroIsId DEF StreamTypeOK, get_stream_last_id
      <4>2. last[1] \in Nat /\ last[2] \in Nat
        BY <4>1, StreamBounds DEF Ids
      <4> HIDE DEF last
      <4>3. \A now \in 1 .. MaxMs : AutoId(now) # Zero
        BY <4>2 DEF AutoId, Zero, last
      <4>4. \A ms \in 0 .. MaxMs : PartialId(ms) # Zero
        BY <4>2, StreamBounds DEF PartialId, Zero, last
      <4> QED
        BY <4>3, <4>4 DEF generate_stream_id
    <3> DEFINE y == Adding("check", id, FALSE)
    <3>3. y \in [at : {"idle", "check", "append"}, id : Ids, blind : BOOLEAN] /\ y.at = "check" /\ y.id = id
      BY <3>2 DEF Adding
    <3> HIDE DEF y
    <3> QED
      BY <3>1, <3>2, <3>3 DEF y
  <2>2. CASE xadd_check(a)
    <3>1. adding[a].at = "check" /\ adding[a].id \in Ids /\ adding[a].id # Zero
      BY <1>1, <2>2 DEF xadd_check, StreamTypeOK, EntriesInv
    <3>2. CASE IdIsLarger(adding[a].id)
      <4> DEFINE x == Adding("append", adding[a].id, stream.expired)
      <4>1. adding' = [adding EXCEPT ![a] = x]
        BY <2>2, <3>2 DEF xadd_check
      <4>2. x \in [at : {"idle", "check", "append"}, id : Ids, blind : BOOLEAN] /\ x.id = adding[a].id
            /\ x.blind = stream.expired
        BY <1>1, <3>1 DEF Adding, StreamTypeOK
      <4> HIDE DEF x
      <4> QED
        BY <3>1, <3>2, <4>1, <4>2 DEF IdIsLarger, InSight
    <3>3. CASE ~ IdIsLarger(adding[a].id)
      <4> DEFINE x == NotAdding
      <4>1. adding' = [adding EXCEPT ![a] = x]
        BY <2>2, <3>3 DEF xadd_check
      <4>2. x \in [at : {"idle", "check", "append"}, id : Ids, blind : BOOLEAN] /\ x.at = "idle"
        BY ZeroIsId DEF NotAdding, Adding
      <4> HIDE DEF x
      <4> QED
        BY <4>1, <4>2
    <3> QED
      BY <3>2, <3>3
  <2> QED
    BY <2>1, <2>2
<1>4. adding' \in [Adders -> [at : {"idle", "check", "append"}, id : Ids, blind : BOOLEAN]] /\ adding'[a] = x
      /\ \A b \in Adders \ {a} : adding'[b] = adding[b]
  BY <1>1, <1>3 DEF StreamTypeOK
<1>5. StreamTypeOK'
  BY <1>1, <1>2, <1>4 DEF StreamTypeOK
<1>6. StreamShape'
  BY <1>1, <1>2 DEF StreamShape
<1>7. EntriesInv'
  <2>1. \A b \in Adders : adding'[b].at # "idle" => adding'[b].id # Zero
    BY <1>1, <1>3, <1>4 DEF EntriesInv
  <2>2. ~ raced => \A b \in Adders : adding'[b].at = "append" /\ ~ adding'[b].blind /\ stream.there
                                   => Below(stream.last, adding'[b].id)
    BY <1>1, <1>3, <1>4 DEF EntriesInv
  <2> QED
    BY <1>1, <1>2, <2>1, <2>2 DEF EntriesInv
<1>8. GroupInv'
  BY <1>1, <1>2 DEF GroupInv, Reached, Given, Taken
<1> QED
  BY <1>1, <1>2, <1>5, <1>6, <1>7, <1>8 DEF StreamInv

\* XADD's append.
LEMMA AddKeeps == ASSUME StreamInv, NEW a \in Adders, xadd_append(a) PROVE StreamInv'
<1> DEFINE s == stream.entries
           last == stream.last
           x == adding[a].id
           t == stream'.entries
<1>1. StreamTypeOK /\ StreamShape /\ creating.id \in Ids /\ EntriesInv /\ GroupInv
  BY DEF StreamInv
<1>2. /\ group' = group /\ reading' = reading /\ creating' = creating /\ answered' = answered
      /\ steady' = steady /\ adding' = [adding EXCEPT ![a] = NotAdding] /\ adding[a].at = "append"
  BY DEF xadd_append
<1>3. PICK n \in MaxLens :
         stream' = [stream EXCEPT !.there = TRUE, !.last = x, !.entries = Trimmed(Append(s, x), n)]
  BY DEF xadd_append
<1>21. raced' = \/ raced \/ \E b \in Adders \ {a} : adding[b].at = "append"
                \/ adding[a].blind /\ stream.there
  BY DEF xadd_append
<1>22. stream \in [there : BOOLEAN, expired : BOOLEAN, last : Ids, entries : Seq(Ids)]
  BY <1>1 DEF StreamTypeOK
<1>4. s \in Seq(Ids) /\ last \in Ids /\ x \in Ids /\ x # Zero /\ {steady, raced} \subseteq BOOLEAN
  BY <1>1, <1>2 DEF StreamTypeOK, EntriesInv
<1>5. Append(s, x) \in Seq(Ids) /\ n \in Nat
  BY <1>4, LengthsAssumption
<1>6. Shrunk(t, Append(s, x)) /\ stream'.last = x /\ stream'.there
  BY <1>3, <1>5, <1>22, TrimShrinks
<1>7. \A p \in DOMAIN t : t[p] = x \/ \E q \in DOMAIN s : t[p] = s[q]
  <2>1. \A q \in DOMAIN Append(s, x) : Append(s, x)[q] = x \/ (q \in DOMAIN s /\ Append(s, x)[q] = s[q])
    BY <1>4
  <2> QED
    BY <1>6, <2>1 DEF Shrunk
<1>8. adding' \in [Adders -> [at : {"idle", "check", "append"}, id : Ids, blind : BOOLEAN]] /\ adding'[a].at = "idle"
      /\ \A b \in Adders \ {a} : adding'[b] = adding[b]
  <2>1. NotAdding \in [at : {"idle", "check", "append"}, id : Ids, blind : BOOLEAN] /\ NotAdding.at = "idle"
    BY ZeroIsId DEF NotAdding, Adding
  <2> HIDE DEF x, s, last, t
  <2> QED
    BY <1>1, <1>2, <2>1 DEF StreamTypeOK
<1>9. stream' \in [there : BOOLEAN, expired : BOOLEAN, last : Ids, entries : Seq(Ids)]
  BY <1>3, <1>4, <1>6, <1>22 DEF Shrunk
<1>10. ~ raced' => ~ raced /\ Below(last, x)
  <2>1. CASE stream.there
    BY <1>1, <1>2, <1>21, <2>1 DEF EntriesInv
  <2>2. CASE ~ stream.there
    <3>1. last = Zero
      BY <1>1, <2>2 DEF EntriesInv, NoStream
    <3> QED
      BY <1>4, <1>21, <3>1, IdOrder
  <2> QED
    BY <2>1, <2>2
<1>11. \A p \in DOMAIN s : s[p] \in Ids
  BY <1>4
<1>12. \A p \in DOMAIN t : t[p] \in Ids
  BY <1>4, <1>7, <1>11
<1> HIDE DEF s, last, x, t
<1>13. StreamTypeOK'
  <2>1. raced' \in BOOLEAN
    BY <1>21
  <2> QED
    BY <1>1, <1>2, <1>8, <1>9, <2>1 DEF StreamTypeOK
<1>14. StreamShape'
  BY <1>1, <1>2 DEF StreamShape
<1>15. EntriesInv'
  <2>1. \A b \in Adders : adding'[b].at # "idle" => adding'[b].id # Zero
    BY <1>1, <1>8 DEF EntriesInv
  <2>2. ASSUME ~ raced' PROVE Ordered(t) /\ \A p \in DOMAIN t : ~ Below(x, t[p])
    <3>1. ~ raced /\ Below(last, x)
      BY <1>10, <2>2
    <3>2. Ordered(s) /\ \A p \in DOMAIN s : ~ Below(last, s[p])
      BY <1>1, <3>1 DEF EntriesInv, Ordered, s, last
    <3>3. \A p \in DOMAIN s : Below(s[p], x)
      BY <1>4, <1>11, <3>1, <3>2, IdOrder
    <3>4. Ordered(Append(s, x))
      BY <1>4, <3>2, <3>3, AppendOrdered
    <3>5. Ordered(t)
      BY <1>6, <3>4 DEF Shrunk
    <3>6. \A p \in DOMAIN s : ~ Below(x, s[p])
      BY <1>4, <1>11, <3>3, IdOrder
    <3>7. ~ Below(x, x)
      BY <1>4, IdOrder
    <3> QED
      BY <1>7, <3>5, <3>6, <3>7
  <2>3. ~ raced' => \A b \in Adders : adding'[b].at # "append"
    BY <1>8, <1>21
  <2> QED
    BY <1>6, <2>1, <2>2, <2>3 DEF EntriesInv, Ordered, t
<1>16. GroupInv'
  <2> SUFFICES ASSUME steady, ~ raced' PROVE GroupInv'
    BY <1>2 DEF GroupInv
  <2>1. ~ raced /\ Below(last, x)
    BY <1>10
  <2>2. ASSUME NEW id \in Ids, ~ Below(last, id) PROVE Below(id, x) /\ ~ Below(x, id)
    BY <1>4, <2>1, <2>2, IdOrder
  <2>3. ASSUME NEW id \in Ids, Reached(id), Given(id)
        PROVE  /\ id = group.start \/ ~ Below(x, id)
               /\ \A p \in DOMAIN t : Below(group.start, t[p]) /\ ~ Below(id, t[p]) => t[p] \in answered
    <3>1. id = group.start \/ ~ Below(last, id)
      BY <2>3 DEF Reached, last
    <3>2. \A q \in DOMAIN s : Below(group.start, s[q]) /\ ~ Below(id, s[q]) => s[q] \in answered
      BY <2>3 DEF Given, s
    <3>3. id = group.start \/ Below(id, x)
      BY <2>2, <3>1
    <3> QED
      BY <1>7, <2>2, <3>1, <3>2, <3>3
  <2>4. group.cursor \in Ids /\ \A r \in Readers : reading[r].after \in Ids /\ reading[r].last \in Ids
    BY <1>1 DEF StreamTypeOK
  <2>5. group.there => (Reached(group.cursor) /\ Given(group.cursor))'
    <3> SUFFICES ASSUME group.there PROVE (Reached(group.cursor) /\ Given(group.cursor))'
      OBVIOUS
    <3>1. Reached(group.cursor) /\ Given(group.cursor)
      BY <1>1, <2>1 DEF GroupInv
    <3>2. /\ group.cursor = group.start \/ ~ Below(x, group.cursor)
          /\ \A p \in DOMAIN t : Below(group.start, t[p]) /\ ~ Below(group.cursor, t[p]) => t[p] \in answered
      BY <2>3, <2>4, <3>1
    <3> QED
      BY <1>2, <1>6, <3>2 DEF Reached, Given, t
  <2>6. ASSUME NEW r \in Readers, reading[r].at \in {"read", "commit"}
        PROVE  group.there /\ (Reached(reading[r].after) /\ Given(reading[r].after))'
    <3>1. group.there /\ Reached(reading[r].after) /\ Given(reading[r].after)
      BY <1>1, <2>1, <2>6 DEF GroupInv
    <3>2. /\ reading[r].after = group.start \/ ~ Below(x, reading[r].after)
          /\ \A p \in DOMAIN t : Below(group.start, t[p]) /\ ~ Below(reading[r].after, t[p]) => t[p] \in answered
      BY <2>3, <2>4, <3>1
    <3> QED
      BY <1>2, <1>6, <3>1, <3>2 DEF Reached, Given, t
  <2>7. ASSUME NEW r \in Readers, reading[r].at = "commit" PROVE Taken(r)'
    <3>1. /\ ~ Below(last, reading[r].last)
          /\ \A p \in DOMAIN s : Below(reading[r].after, s[p]) /\ ~ Below(reading[r].last, s[p]) => s[p] \in reading[r].ids
      BY <1>1, <2>1, <2>7 DEF GroupInv, Taken, s, last
    <3>2. Below(reading[r].last, x) /\ ~ Below(x, reading[r].last)
      BY <2>2, <2>4, <3>1
    <3>3. \A p \in DOMAIN t : Below(reading[r].after, t[p]) /\ ~ Below(reading[r].last, t[p]) => t[p] \in reading[r].ids
      BY <1>7, <3>1, <3>2
    <3> QED
      BY <1>2, <1>6, <3>2, <3>3 DEF Taken, t
  <2> QED
    BY <1>2, <2>5, <2>6, <2>7 DEF GroupInv
<1> QED
  BY <1>1, <1>2, <1>13, <1>14, <1>15, <1>16 DEF StreamInv

\* Entries go.
LEMMA ShrinkKeeps ==
    ASSUME StreamInv, NEW t, Shrunk(t, stream.entries), stream' = [stream EXCEPT !.entries = t],
           UNCHANGED <<group, adding, reading, creating, answered, steady, raced>>,
           stream.there \/ t = <<>>
    PROVE  StreamInv'
<1> DEFINE s == stream.entries
<1>1. StreamTypeOK /\ StreamShape /\ creating.id \in Ids /\ EntriesInv /\ GroupInv
  BY DEF StreamInv
<1>2. stream \in [there : BOOLEAN, expired : BOOLEAN, last : Ids, entries : Seq(Ids)] /\ t \in Seq(Ids)
  BY <1>1 DEF StreamTypeOK, Shrunk
<1>3. stream' \in [there : BOOLEAN, expired : BOOLEAN, last : Ids, entries : Seq(Ids)] /\ stream'.entries = t /\ stream'.last = stream.last
      /\ stream'.there = stream.there /\ stream'.expired = stream.expired
  BY <1>2
<1>4. \A p \in DOMAIN t : \E q \in DOMAIN s : t[p] = s[q]
  BY DEF Shrunk
<1>5. StreamTypeOK'
  BY <1>1, <1>3 DEF StreamTypeOK
<1>6. StreamShape'
  BY <1>1 DEF StreamShape
<1>7. EntriesInv'
  <2>1. ~ stream'.there => stream'.entries = <<>> /\ stream'.last = Zero /\ ~ stream'.expired
    BY <1>1, <1>3 DEF EntriesInv
  <2>2. ASSUME ~ raced PROVE Ordered(t) /\ \A p \in DOMAIN t : ~ Below(stream.last, t[p])
    <3>1. Ordered(s) /\ \A p \in DOMAIN s : ~ Below(stream.last, s[p])
      BY <1>1, <2>2 DEF EntriesInv, Ordered
    <3> QED
      BY <1>4, <3>1 DEF Shrunk
  <2> QED
    BY <1>1, <1>3, <2>1, <2>2 DEF EntriesInv, Ordered
<1>8. GroupInv'
  <2>1. \A id : Reached(id) => id = group.start \/ ~ Below(stream'.last, id)
    BY <1>3 DEF Reached
  <2>2. \A id : Given(id) => \A p \in DOMAIN t : Below(group.start, t[p]) /\ ~ Below(id, t[p]) => t[p] \in answered
    BY <1>4 DEF Given
  <2>3. \A r \in Readers : Taken(r) => Taken(r)'
    BY <1>3, <1>4 DEF Taken
  <2>4. \A id : Reached(id) /\ Given(id) => (id = group.start \/ ~ Below(stream'.last, id))
           /\ \A p \in DOMAIN stream'.entries : Below(group.start, stream'.entries[p]) /\ ~ Below(id, stream'.entries[p])
                 => stream'.entries[p] \in answered
    BY <1>3, <2>1, <2>2
  <2>5. ASSUME Reached(group.cursor) /\ Given(group.cursor) PROVE (Reached(group.cursor) /\ Given(group.cursor))'
    BY <2>4, <2>5 DEF Reached, Given
  <2>6. ASSUME NEW r \in Readers, Reached(reading[r].after) /\ Given(reading[r].after)
        PROVE  (Reached(reading[r].after) /\ Given(reading[r].after))'
    BY <2>4, <2>6 DEF Reached, Given
  <2> QED
    BY <1>1, <2>3, <2>5, <2>6 DEF GroupInv
<1> QED
  BY <1>1, <1>5, <1>6, <1>7, <1>8 DEF StreamInv

LEMMA DelKeeps ==
    ASSUME StreamInv, (\E id \in Ids : xdel(id)) \/ (\E n \in MaxLens : xtrim(n)) PROVE StreamInv'
<1>1. StreamTypeOK /\ StreamShape /\ creating.id \in Ids /\ EntriesInv /\ GroupInv
  BY DEF StreamInv
<1>2. stream.entries \in Seq(Ids)
  BY <1>1 DEF StreamTypeOK
<1>3. ASSUME NEW id \in Ids, xdel(id) PROVE StreamInv'
  <2>1. PICK p \in DOMAIN stream.entries : stream' = [stream EXCEPT !.entries = RemoveAt(@, p)]
    BY <1>3 DEF xdel
  <2>2. UNCHANGED <<group, adding, reading, creating, answered, steady, raced>>
    BY <1>3 DEF xdel
  <2>3. Shrunk(RemoveAt(stream.entries, p), stream.entries)
    BY <1>2, RemoveShrinks
  <2>4. stream.there
    BY <1>3 DEF xdel, InSight
  <2> QED
    BY <2>1, <2>2, <2>3, <2>4, ShrinkKeeps
<1>4. ASSUME NEW n \in MaxLens, xtrim(n) PROVE StreamInv'
  <2>1. stream.there /\ stream' = [stream EXCEPT !.entries = Trimmed(@, n)]
    BY <1>4 DEF xtrim, InSight
  <2>2. UNCHANGED <<group, adding, reading, creating, answered, steady, raced>>
    BY <1>4 DEF xtrim
  <2>3. Shrunk(Trimmed(stream.entries, n), stream.entries)
    BY <1>2, TrimShrinks, LengthsAssumption
  <2> QED
    BY <2>1, <2>2, <2>3, ShrinkKeeps
<1> QED
  BY <1>3, <1>4

\* The key expires, comes back or is removed.
LEMMA ExpireKeeps ==
    ASSUME StreamInv, expire_stream \/ revive_stream \/ del_stream PROVE StreamInv'
<1>1. StreamTypeOK /\ StreamShape /\ creating.id \in Ids /\ EntriesInv /\ GroupInv
  BY DEF StreamInv
<1>2. /\ group' = group /\ adding' = adding /\ reading' = reading
      /\ creating' = creating /\ answered' = answered /\ raced' = raced
  BY DEF expire_stream, revive_stream, del_stream
<1>3. stream \in [there : BOOLEAN, expired : BOOLEAN, last : Ids, entries : Seq(Ids)]
  BY <1>1 DEF StreamTypeOK
<1>4. StreamShape'
  BY <1>1, <1>2 DEF StreamShape
<1>5. CASE expire_stream \/ revive_stream
  <2>1. /\ stream.there /\ \E x \in BOOLEAN : stream' = [stream EXCEPT !.expired = x]
        /\ steady' = FALSE \/ steady' = steady
    BY <1>5 DEF expire_stream, revive_stream, InSight
  <2>2. /\ stream' \in [there : BOOLEAN, expired : BOOLEAN, last : Ids, entries : Seq(Ids)]
        /\ stream'.there /\ stream'.last = stream.last /\ stream'.entries = stream.entries
    BY <1>3, <2>1
  <2>3. StreamTypeOK'
    BY <1>1, <1>2, <2>1, <2>2 DEF StreamTypeOK
  <2>4. EntriesInv'
    BY <1>1, <1>2, <2>1, <2>2 DEF EntriesInv
  <2>5. GroupInv'
    <3>1. CASE steady' = FALSE
      BY <3>1 DEF GroupInv
    <3>2. CASE steady' = steady
      BY <1>1, <1>2, <2>2, <3>2 DEF GroupInv, Reached, Given, Taken
    <3> QED
      BY <2>1, <3>1, <3>2
  <2> QED
    BY <1>1, <1>2, <1>4, <2>3, <2>4, <2>5 DEF StreamInv
<1>6. CASE del_stream
  <2>1. stream' = NoStream /\ ~ steady' /\ steady' \in BOOLEAN
    BY <1>6 DEF del_stream
  <2>2. NoStream \in [there : BOOLEAN, expired : BOOLEAN, last : Ids, entries : Seq(Ids)] /\ ~ NoStream.there
        /\ NoStream.last = Zero /\ NoStream.entries = <<>> /\ DOMAIN NoStream.entries = {} /\ ~ NoStream.expired
    BY ZeroIsId DEF NoStream
  <2>3. StreamTypeOK'
    BY <1>1, <1>2, <2>1, <2>2 DEF StreamTypeOK
  <2>4. EntriesInv'
    BY <1>1, <1>2, <2>1, <2>2 DEF EntriesInv
  <2>5. GroupInv'
    BY <2>1 DEF GroupInv
  <2> QED
    BY <1>1, <1>2, <1>4, <2>3, <2>4, <2>5 DEF StreamInv
<1> QED
  BY <1>5, <1>6

\* XGROUP CREATE and SETID, up to the position, and MKSTREAM.
LEMMA CreateKeeps ==
    ASSUME StreamInv,
           \/ \E mk \in BOOLEAN : xgroup_create_check(mk)
           \/ xgroup_create_mkstream
           \/ \E id \in Ids : xgroup_create_position(id)
    PROVE  StreamInv'
<1>1. StreamTypeOK /\ StreamShape /\ creating.id \in Ids /\ EntriesInv /\ GroupInv
  BY DEF StreamInv
<1>2. group' = group /\ adding' = adding /\ reading' = reading /\ answered' = answered /\ raced' = raced
  BY DEF xgroup_create_check, xgroup_create_mkstream, xgroup_create_position
<1>3. ASSUME stream' = stream, steady' = steady, creating'.id \in Ids, DOMAIN creating' = {"at", "id"} PROVE StreamInv'
  <2>1. StreamTypeOK'
    BY <1>1, <1>2, <1>3 DEF StreamTypeOK
  <2>2. StreamShape'
    BY <1>1, <1>2, <1>3 DEF StreamShape
  <2>3. EntriesInv'
    BY <1>1, <1>2, <1>3 DEF EntriesInv
  <2>4. GroupInv'
    BY <1>1, <1>2, <1>3 DEF GroupInv, Reached, Given, Taken
  <2> QED
    BY <1>3, <2>1, <2>2, <2>3, <2>4 DEF StreamInv
<1>4. ASSUME NEW mk \in BOOLEAN, xgroup_create_check(mk) PROVE StreamInv'
  <2>1. creating'.id = Zero /\ DOMAIN creating' = {"at", "id"} /\ stream' = stream /\ steady' = steady
    BY <1>4 DEF xgroup_create_check, Creating
  <2> QED
    BY <1>3, <2>1, ZeroIsId
<1>5. ASSUME NEW id \in Ids, xgroup_create_position(id) PROVE StreamInv'
  <2>1. creating'.id \in Ids /\ DOMAIN creating' = {"at", "id"} /\ stream' = stream /\ steady' = steady
    BY <1>1, <1>5 DEF xgroup_create_position, StreamShape
  <2> QED
    BY <1>3, <2>1
<1>6. CASE xgroup_create_mkstream
  <2>1. stream' = EmptyStream /\ steady' = (steady /\ ~ stream.there)
    BY <1>6 DEF xgroup_create_mkstream
  <2>2. creating' = [creating EXCEPT !.at = "position"]
    BY <1>6 DEF xgroup_create_mkstream
  <2>3. creating'.id \in Ids /\ DOMAIN creating' = {"at", "id"}
    BY <1>1, <2>2 DEF StreamShape
  <2>4. EmptyStream \in [there : BOOLEAN, expired : BOOLEAN, last : Ids, entries : Seq(Ids)] /\ EmptyStream.there /\ EmptyStream.last = Zero
        /\ EmptyStream.entries = <<>> /\ DOMAIN EmptyStream.entries = {}
    <3>1. EmptyStream = [entries |-> <<>>, last |-> Zero, there |-> TRUE, expired |-> FALSE]
      BY DEF EmptyStream
    <3> QED
      BY <3>1, ZeroIsId
  <2>5. StreamTypeOK'
    BY <1>1, <1>2, <2>1, <2>4 DEF StreamTypeOK
  <2>6. StreamShape'
    BY <1>1, <1>2, <2>3 DEF StreamShape
  <2>7. EntriesInv'
    <3>1. \A a \in Adders : adding[a].at = "append" => Below(Zero, adding[a].id)
      BY <1>1, ZeroIsId, IdOrder DEF EntriesInv, StreamTypeOK
    <3> QED
      BY <1>1, <1>2, <2>1, <2>4, <3>1 DEF EntriesInv
  <2>8. GroupInv'
    <3> SUFFICES ASSUME steady', ~ raced' PROVE GroupInv'
      BY DEF GroupInv
    <3>1. steady /\ ~ raced /\ stream.last = Zero /\ stream.entries = <<>>
      <4>1. steady /\ ~ stream.there /\ ~ raced
        BY <1>2, <2>1
      <4> QED
        BY <1>1, <4>1 DEF EntriesInv
    <3>2. stream'.last = stream.last /\ stream'.entries = stream.entries
      BY <2>1, <2>4, <3>1
    <3> QED
      BY <1>1, <1>2, <3>1, <3>2 DEF GroupInv, Reached, Given, Taken
  <2> QED
    BY <2>3, <2>5, <2>6, <2>7, <2>8 DEF StreamInv
<1> QED
  BY <1>4, <1>5, <1>6

\* A group is put in place or taken away.
LEMMA InstallKeeps == ASSUME StreamInv, xgroup_create_install \/ xgroup_destroy PROVE StreamInv'
<1>1. StreamTypeOK /\ StreamShape /\ creating.id \in Ids /\ EntriesInv /\ GroupInv
  BY DEF StreamInv
<1>2. stream' = stream /\ adding' = adding /\ reading' = reading /\ answered' = {} /\ raced' = raced
      /\ creating'.id \in Ids /\ DOMAIN creating' = {"at", "id"} /\ steady' \in BOOLEAN
  <2>1. CASE xgroup_create_install
    BY <2>1, ZeroIsId DEF xgroup_create_install, NotCreating, Creating
  <2>2. CASE xgroup_destroy
    BY <1>1, <2>2 DEF xgroup_destroy, StreamShape
  <2> QED
    BY <2>1, <2>2
<1>3. /\ DOMAIN group' = {"there", "start", "cursor", "consumers", "pending"}
      /\ group'.there \in BOOLEAN /\ group'.start \in Ids /\ group'.cursor \in Ids
      /\ group'.consumers = {} /\ DOMAIN group'.pending = {}
  <2>1. CASE xgroup_create_install
    <3>1. group' = NewGroup(creating.id)
      BY <2>1 DEF xgroup_create_install
    <3> QED
      BY <1>1, <3>1 DEF NewGroup, NoPending
  <2>2. CASE xgroup_destroy
    <3>1. group' = NoGroup
      BY <2>2 DEF xgroup_destroy
    <3> QED
      BY <3>1, ZeroIsId DEF NoGroup, NoPending
  <2> QED
    BY <2>1, <2>2
<1>4. StreamTypeOK'
  BY <1>1, <1>2, <1>3 DEF StreamTypeOK
<1>5. StreamShape'
  BY <1>1, <1>2, <1>3 DEF StreamShape
<1>6. EntriesInv'
  BY <1>1, <1>2 DEF EntriesInv
<1>7. GroupInv'
  <2>1. CASE xgroup_destroy
    BY <2>1 DEF xgroup_destroy, GroupInv
  <2>2. CASE xgroup_create_install
    <3> SUFFICES ASSUME steady', ~ raced' PROVE GroupInv'
      BY DEF GroupInv
    <3>1. steady /\ ~ raced /\ ~ group.there /\ group'.cursor = group'.start
      <4>1. steady' = (steady /\ ~ group.there) /\ group' = NewGroup(creating.id)
        BY <2>2 DEF xgroup_create_install
      <4>2. group'.cursor = group'.start
        BY <4>1 DEF NewGroup
      <4>3. steady /\ ~ group.there
        BY <4>1
      <4> QED
        BY <1>2, <4>2, <4>3
    <3>2. \A r \in Readers : reading[r].at \notin {"read", "commit"}
      BY <1>1, <3>1 DEF GroupInv
    <3>3. (Reached(group.cursor) /\ Given(group.cursor))'
      BY <3>1 DEF Reached, Given
    <3> QED
      BY <1>2, <3>2, <3>3 DEF GroupInv
  <2> QED
    BY <2>1, <2>2
<1> QED
  BY <1>2, <1>4, <1>5, <1>6, <1>7 DEF StreamInv

\* A step that changes the consumers and pending entries of a group only.
LEMMA PendingKeeps ==
    ASSUME StreamInv, UNCHANGED <<stream, adding, reading, creating, answered, steady, raced>>,
           DOMAIN group' = DOMAIN group, group'.there = group.there, group'.start = group.start, group'.cursor = group.cursor,
           group'.consumers \subseteq Consumers, DOMAIN group'.pending \subseteq Ids,
           \A i \in DOMAIN group'.pending : group'.pending[i] \in Consumers
    PROVE  StreamInv'
<1>1. StreamTypeOK /\ StreamShape /\ creating.id \in Ids /\ EntriesInv /\ GroupInv
  BY DEF StreamInv
<1>2. StreamTypeOK'
  BY <1>1 DEF StreamTypeOK
<1>3. StreamShape'
  BY <1>1 DEF StreamShape
<1>4. EntriesInv'
  BY <1>1 DEF EntriesInv
<1>5. GroupInv'
  BY <1>1 DEF GroupInv, Reached, Given, Taken
<1> QED
  BY <1>1, <1>2, <1>3, <1>4, <1>5 DEF StreamInv

LEMMA ConsumerKeeps ==
    ASSUME StreamInv,
           \/ \E c \in Consumers : xgroup_create_consumer(c) \/ xgroup_del_consumer(c)
           \/ \E id \in Ids : xack(id)
           \/ \E c \in Consumers, id \in Ids, idle \in BOOLEAN : xclaim(c, id, idle)
    PROVE  StreamInv'
<1>1. /\ DOMAIN group = {"there", "start", "cursor", "consumers", "pending"}
      /\ group.consumers \subseteq Consumers /\ DOMAIN group.pending \subseteq Ids
      /\ \A i \in DOMAIN group.pending : group.pending[i] \in Consumers
  BY DEF StreamInv, StreamTypeOK, StreamShape
<1>2. ASSUME NEW c \in Consumers, xgroup_create_consumer(c) PROVE StreamInv'
  <2>1. group' = [group EXCEPT !.consumers = @ \cup {c}]
        /\ UNCHANGED <<stream, adding, reading, creating, answered, steady, raced>>
    BY <1>2 DEF xgroup_create_consumer
  <2>2. /\ DOMAIN group' = DOMAIN group /\ group'.there = group.there /\ group'.start = group.start
        /\ group'.cursor = group.cursor /\ group'.consumers = group.consumers \cup {c} /\ group'.pending = group.pending
    BY <1>1, <2>1
  <2> QED
    BY <1>1, <2>1, <2>2, PendingKeeps
<1>3. ASSUME NEW c \in Consumers, xgroup_del_consumer(c) PROVE StreamInv'
  <2> DEFINE new == Restrict(group.pending, DOMAIN group.pending \ OwnedBy(c))
  <2>1. group' = [group EXCEPT !.consumers = @ \ {c}, !.pending = new]
        /\ UNCHANGED <<stream, adding, reading, creating, answered, steady, raced>>
    BY <1>3 DEF xgroup_del_consumer
  <2>2. DOMAIN new \subseteq DOMAIN group.pending /\ \A i \in DOMAIN new : new[i] = group.pending[i]
    BY DEF Restrict
  <2> HIDE DEF new
  <2>3. /\ DOMAIN group' = DOMAIN group /\ group'.there = group.there /\ group'.start = group.start
        /\ group'.cursor = group.cursor /\ group'.consumers = group.consumers \ {c} /\ group'.pending = new
    BY <1>1, <2>1
  <2> QED
    BY <1>1, <2>1, <2>2, <2>3, PendingKeeps
<1>4. ASSUME NEW id \in Ids, xack(id) PROVE StreamInv'
  <2> DEFINE new == Restrict(group.pending, DOMAIN group.pending \ {id})
  <2>1. group' = [group EXCEPT !.pending = new]
        /\ UNCHANGED <<stream, adding, reading, creating, answered, steady, raced>>
    BY <1>4 DEF xack
  <2>2. DOMAIN new \subseteq DOMAIN group.pending /\ \A i \in DOMAIN new : new[i] = group.pending[i]
    BY DEF Restrict
  <2> HIDE DEF new
  <2>3. /\ DOMAIN group' = DOMAIN group /\ group'.there = group.there /\ group'.start = group.start
        /\ group'.cursor = group.cursor /\ group'.consumers = group.consumers /\ group'.pending = new
    BY <1>1, <2>1
  <2> QED
    BY <1>1, <2>1, <2>2, <2>3, PendingKeeps
<1>5. ASSUME NEW c \in Consumers, NEW id \in Ids, NEW idle \in BOOLEAN, xclaim(c, id, idle) PROVE StreamInv'
  <2> DEFINE new == [i \in DOMAIN group.pending |-> IF i = id /\ idle THEN c ELSE group.pending[i]]
  <2>1. group' = [group EXCEPT !.consumers = @ \cup {c}, !.pending = new]
        /\ UNCHANGED <<stream, adding, reading, creating, answered, steady, raced>>
    BY <1>5 DEF xclaim
  <2>2. DOMAIN new = DOMAIN group.pending /\ \A i \in DOMAIN new : new[i] \in Consumers
    BY <1>1
  <2> HIDE DEF new
  <2>3. /\ DOMAIN group' = DOMAIN group /\ group'.there = group.there /\ group'.start = group.start
        /\ group'.cursor = group.cursor /\ group'.consumers = group.consumers \cup {c} /\ group'.pending = new
    BY <1>1, <2>1
  <2> QED
    BY <1>1, <2>1, <2>2, <2>3, PendingKeeps
<1> QED
  BY <1>2, <1>3, <1>4, <1>5

\* What XREADGROUP takes: some of the entries after the cursor it has seen, and
\* all of them up to the last it takes.
LEMMA TakenFirst ==
    ASSUME StreamTypeOK, NEW after \in Ids, NEW n \in Nat,
           NEW taken, taken = stream_entries_after(after, n), taken # {}
    PROVE  /\ taken \subseteq DOMAIN stream.entries /\ Max(taken) \in taken
           /\ \A p \in DOMAIN stream.entries : Below(after, stream.entries[p]) /\ p <= Max(taken) => p \in taken
<1> DEFINE s == stream.entries
           L == Later(after)
           rank(p) == {q \in L : q < p}
<1>1. s \in Seq(Ids) /\ Len(s) \in Nat /\ DOMAIN s = 1 .. Len(s)
  BY DEF StreamTypeOK
<1>2. L = {p \in DOMAIN s : Below(after, s[p])} /\ taken = {p \in L : Cardinality(rank(p)) < n}
  <2>1. taken = {p \in L : Cardinality(rank(p)) < n}
    BY DEF stream_entries_after
  <2>2. InSight
    BY <2>1 DEF Later
  <2> QED
    BY <2>1, <2>2 DEF Later
<1>3. L \subseteq 1 .. Len(s) /\ taken \subseteq L /\ taken \in SUBSET (1 .. Len(s))
  BY <1>1, <1>2
<1> HIDE DEF s, L
<1>4. Max(taken) \in taken
  BY <1>1, <1>3, LastPosition
<1> DEFINE m == Max(taken)
<1> HIDE DEF m
<1>5. m \in L /\ m \in taken /\ Cardinality(rank(m)) < n
  BY <1>2, <1>3, <1>4 DEF m
<1>6. IsFiniteSet(L)
  <2>1. IsFiniteSet(1 .. Len(s))
    BY <1>1, FS_Interval
  <2> QED
    BY <1>3, <2>1, FS_Subset
<1>7. ASSUME NEW p \in L, p <= m PROVE p \in taken
  <2>1. rank(p) \subseteq rank(m)
    <3>1. \A q \in L : q \in Int
      BY <1>3
    <3>2. \A q \in L : q < p => q < m
      BY <1>5, <1>7, <3>1
    <3> QED
      BY <3>2
  <2>2. rank(m) \subseteq L
    OBVIOUS
  <2>3. IsFiniteSet(rank(m))
    BY <1>6, <2>2, FS_Subset
  <2> DEFINE A == rank(p)
             B == rank(m)
  <2>4. A \subseteq B /\ IsFiniteSet(B)
    BY <2>1, <2>3
  <2> HIDE DEF A, B
  <2>5. IsFiniteSet(A) /\ Cardinality(A) <= Cardinality(B)
    BY <2>4, FS_Subset
  <2>6. Cardinality(A) \in Nat /\ Cardinality(B) \in Nat
    BY <2>4, <2>5, FS_CardinalityType
  <2>7. Cardinality(B) < n
    BY <1>5 DEF B
  <2>8. Cardinality(A) < n
    BY <2>5, <2>6, <2>7
  <2> QED
    BY <1>2, <2>8 DEF A
<1>8. \A p \in DOMAIN s : Below(after, s[p]) => p \in L
  BY <1>2
<1> QED
  BY <1>1, <1>3, <1>4, <1>7, <1>8 DEF s, m

\* XREADGROUP: the cursor is read.
LEMMA CursorKeeps ==
    ASSUME StreamInv, NEW r \in Readers, NEW c \in Consumers, xreadgroup_new(r, c)
    PROVE  StreamInv'
<1>1. StreamTypeOK /\ StreamShape /\ creating.id \in Ids /\ EntriesInv /\ GroupInv
  BY DEF StreamInv
<1>2. /\ group.there /\ group' = [group EXCEPT !.consumers = @ \cup {c}]
      /\ stream' = stream /\ adding' = adding /\ creating' = creating /\ answered' = answered /\ steady' = steady
      /\ raced' = raced
  BY DEF xreadgroup_new
<1>3. reading' = [reading EXCEPT ![r] = Reading("read", c, group.cursor)]
  BY DEF xreadgroup_new
<1>4. /\ DOMAIN group' = DOMAIN group /\ group'.there = group.there /\ group'.start = group.start
      /\ group'.cursor = group.cursor /\ group'.consumers = group.consumers \cup {c} /\ group'.pending = group.pending
  BY <1>1, <1>2 DEF StreamShape
<1>5. /\ DOMAIN reading' = Readers /\ \A o \in Readers \ {r} : reading'[o] = reading[o]
      /\ DOMAIN reading'[r] = {"at", "consumer", "after", "ids", "last"}
      /\ reading'[r].at = "read" /\ reading'[r].after = group.cursor /\ reading'[r].ids = {} /\ reading'[r].last = Zero
      /\ reading'[r].consumer = c
  BY <1>1, <1>3 DEF StreamShape, Reading
<1>6. StreamTypeOK'
  <2>1. \A o \in Readers :
           /\ reading'[o].at \in {"idle", "read", "commit"}
           /\ reading'[o].after \in Ids /\ reading'[o].last \in Ids /\ reading'[o].ids \subseteq Ids
           /\ reading'[o].at \in {"read", "commit"} => reading'[o].consumer \in Consumers
           /\ reading'[o].at = "commit" <=> reading'[o].ids # {}
    BY <1>1, <1>5, ZeroIsId DEF StreamTypeOK
  <2> QED
    BY <1>1, <1>2, <1>4, <2>1 DEF StreamTypeOK
<1>7. StreamShape'
  BY <1>1, <1>2, <1>4, <1>5 DEF StreamShape
<1>8. EntriesInv'
  BY <1>1, <1>2 DEF EntriesInv
<1>9. GroupInv'
  <2> SUFFICES ASSUME steady, ~ raced PROVE GroupInv'
    BY <1>2 DEF GroupInv
  <2>1. Reached(group.cursor) /\ Given(group.cursor)
    BY <1>1, <1>2 DEF GroupInv
  <2>2. ASSUME NEW o \in Readers, reading'[o].at \in {"read", "commit"}
        PROVE  (Reached(reading[o].after) /\ Given(reading[o].after))'
    <3>1. CASE o = r
      BY <1>2, <1>4, <1>5, <2>1, <3>1 DEF Reached, Given
    <3>2. CASE o # r
      <4>1. reading'[o] = reading[o] /\ Reached(reading[o].after) /\ Given(reading[o].after)
        BY <1>1, <1>5, <2>2, <3>2 DEF GroupInv
      <4> QED
        BY <1>2, <1>4, <4>1 DEF Reached, Given
    <3> QED
      BY <3>1, <3>2
  <2>3. ASSUME NEW o \in Readers, reading'[o].at = "commit" PROVE Taken(o)'
    <3>1. o # r /\ reading'[o] = reading[o]
      BY <1>5, <2>3
    <3>2. Taken(o)
      BY <1>1, <2>3, <3>1 DEF GroupInv
    <3> QED
      BY <1>2, <3>1, <3>2 DEF Taken
  <2>4. (Reached(group.cursor) /\ Given(group.cursor))'
    BY <1>2, <1>4, <2>1 DEF Reached, Given
  <2> QED
    BY <1>2, <1>4, <2>2, <2>3, <2>4 DEF GroupInv
<1> QED
  BY <1>1, <1>2, <1>6, <1>7, <1>8, <1>9 DEF StreamInv

\* A step that only changes where one reader is.
LEMMA ReaderKeeps ==
    ASSUME StreamInv, NEW r \in Readers, NEW x, reading' = [reading EXCEPT ![r] = x],
           UNCHANGED <<stream, group, adding, creating, answered, steady, raced>>,
           DOMAIN x = {"at", "consumer", "after", "ids", "last"},
           x.at \in {"idle", "read", "commit"}, x.after \in Ids, x.last \in Ids, x.ids \subseteq Ids,
           x.at = "commit" <=> x.ids # {},
           x.at # "read", x.at = "commit" => x.consumer \in Consumers,
           x.at = "commit" /\ steady /\ ~ raced =>
              /\ group.there /\ Reached(x.after) /\ Given(x.after) /\ ~ Below(stream.last, x.last)
              /\ \A p \in DOMAIN stream.entries : Below(x.after, stream.entries[p]) /\ ~ Below(x.last, stream.entries[p])
                     => stream.entries[p] \in x.ids
    PROVE  StreamInv'
<1>1. StreamTypeOK /\ StreamShape /\ creating.id \in Ids /\ EntriesInv /\ GroupInv
  BY DEF StreamInv
<1>2. DOMAIN reading' = Readers /\ reading'[r] = x /\ \A o \in Readers \ {r} : reading'[o] = reading[o]
  BY <1>1 DEF StreamShape
<1>3. StreamTypeOK'
  BY <1>1, <1>2 DEF StreamTypeOK
<1>4. StreamShape'
  BY <1>1, <1>2 DEF StreamShape
<1>5. EntriesInv'
  BY <1>1 DEF EntriesInv
<1>6. GroupInv'
  <2> SUFFICES ASSUME steady, ~ raced PROVE GroupInv'
    BY DEF GroupInv
  <2>1. ASSUME NEW o \in Readers, reading'[o].at \in {"read", "commit"}
        PROVE  (group.there /\ Reached(reading[o].after) /\ Given(reading[o].after))'
    <3>1. CASE o = r
      BY <1>2, <2>1, <3>1 DEF Reached, Given
    <3>2. CASE o # r
      <4>1. reading'[o] = reading[o] /\ group.there /\ Reached(reading[o].after) /\ Given(reading[o].after)
        BY <1>1, <1>2, <2>1, <3>2 DEF GroupInv
      <4> QED
        BY <4>1 DEF Reached, Given
    <3> QED
      BY <3>1, <3>2
  <2>2. ASSUME NEW o \in Readers, reading'[o].at = "commit" PROVE Taken(o)'
    <3>1. CASE o = r
      BY <1>2, <2>2, <3>1 DEF Taken
    <3>2. CASE o # r
      <4>1. reading'[o] = reading[o] /\ Taken(o)
        BY <1>1, <1>2, <2>2, <3>2 DEF GroupInv
      <4> QED
        BY <4>1 DEF Taken
    <3> QED
      BY <3>1, <3>2
  <2>3. group.there => (Reached(group.cursor) /\ Given(group.cursor))'
    BY <1>1 DEF GroupInv, Reached, Given
  <2> QED
    BY <2>1, <2>2, <2>3 DEF GroupInv
<1> QED
  BY <1>1, <1>3, <1>4, <1>5, <1>6 DEF StreamInv

\* XREADGROUP: the entries are copied, or the task panics.
LEMMA CopyKeeps ==
    ASSUME StreamInv, NEW r \in Readers, (\E n \in Counts : xreadgroup_entries(r, n)) \/ xreadgroup_panic(r)
    PROVE  StreamInv'
<1>1. StreamTypeOK /\ StreamShape /\ EntriesInv /\ GroupInv
  BY DEF StreamInv
<1>2. UNCHANGED <<stream, group, adding, creating, answered, steady, raced>>
  BY DEF xreadgroup_entries, xreadgroup_panic
<1>3. /\ DOMAIN NotReading = {"at", "consumer", "after", "ids", "last"}
      /\ NotReading.at = "idle" /\ NotReading.after = Zero /\ NotReading.last = Zero /\ NotReading.ids = {}
  BY DEF NotReading, Reading
<1>4. CASE xreadgroup_panic(r)
  <2>1. reading' = [reading EXCEPT ![r] = NotReading]
    BY <1>4 DEF xreadgroup_panic
  <2> QED
    BY <1>2, <1>3, <2>1, ReaderKeeps, ZeroIsId
<1>5. ASSUME NEW n \in Counts, xreadgroup_entries(r, n) PROVE StreamInv'
  <2> DEFINE after == reading[r].after
             taken == stream_entries_after(after, n)
             ids == {stream.entries[p] : p \in taken}
             last == stream.entries[Max(taken)]
  <2>1. reading[r].at = "read" /\ after \in Ids /\ n \in Nat
    BY <1>1, <1>5, LengthsAssumption DEF xreadgroup_entries, StreamTypeOK
  <2>2. CASE taken = {}
    <3>1. reading' = [reading EXCEPT ![r] = NotReading]
      BY <1>5, <2>2 DEF xreadgroup_entries
    <3> QED
      BY <1>2, <1>3, <3>1, ReaderKeeps, ZeroIsId
  <2>3. CASE taken # {}
    <3> DEFINE x == [reading[r] EXCEPT !.at = "commit", !.ids = ids, !.last = last]
    <3>1. reading' = [reading EXCEPT ![r] = x]
      BY <1>5, <2>3 DEF xreadgroup_entries
    <3>2. /\ DOMAIN x = {"at", "consumer", "after", "ids", "last"}
          /\ x.at = "commit" /\ x.after = after /\ x.last = last /\ x.ids = ids
          /\ x.consumer \in Consumers
      <4>1. DOMAIN reading[r] = {"at", "consumer", "after", "ids", "last"} /\ reading[r].consumer \in Consumers
        BY <1>1, <2>1 DEF StreamShape, StreamTypeOK
      <4> HIDE DEF ids, last
      <4> QED
        BY <4>1
    <3>3. /\ taken \subseteq DOMAIN stream.entries /\ Max(taken) \in taken
          /\ \A p \in DOMAIN stream.entries : Below(after, stream.entries[p]) /\ p <= Max(taken) => p \in taken
      <4> HIDE DEF after
      <4> QED
        BY <1>1, <2>1, <2>3, TakenFirst
    <3>4. stream.entries \in Seq(Ids) /\ stream.last \in Ids
      BY <1>1 DEF StreamTypeOK
    <3>5. last \in Ids /\ ids \subseteq Ids /\ ids # {}
      BY <2>3, <3>3, <3>4
    <3>6. ASSUME steady, ~ raced
          PROVE  /\ group.there /\ Reached(after) /\ Given(after) /\ ~ Below(stream.last, last)
                 /\ \A p \in DOMAIN stream.entries : Below(after, stream.entries[p]) /\ ~ Below(last, stream.entries[p])
                       => stream.entries[p] \in ids
      <4>1. group.there /\ Reached(after) /\ Given(after)
        BY <1>1, <2>1, <3>6 DEF GroupInv
      <4>2. ~ Below(stream.last, last)
        BY <1>1, <3>3, <3>6 DEF EntriesInv
      <4>3. ASSUME NEW p \in DOMAIN stream.entries, Below(after, stream.entries[p]), ~ Below(last, stream.entries[p])
            PROVE  stream.entries[p] \in ids
        <5>1. Max(taken) \in DOMAIN stream.entries
          BY <3>3
        <5>2. Max(taken) < p => Below(last, stream.entries[p])
          BY <1>1, <3>6, <5>1 DEF EntriesInv
        <5>3. p \in Int /\ Max(taken) \in Int
          BY <3>4, <5>1
        <5>4. p <= Max(taken)
          <6> HIDE DEF last, taken
          <6> QED
            BY <4>3, <5>2, <5>3
        <5>5. p \in taken
          BY <3>3, <4>3, <5>4
        <5> QED
          BY <5>5
      <4> QED
        BY <4>1, <4>2, <4>3
    <3> HIDE DEF x, ids, last, after, taken
    <3> QED
      BY <1>2, <2>1, <3>1, <3>2, <3>5, <3>6, ReaderKeeps
  <2> QED
    BY <2>2, <2>3
<1> QED
  BY <1>4, <1>5

\* XREADGROUP: the cursor moves, the entries are pending and answered.
LEMMA CommitKeeps ==
    ASSUME StreamInv, NEW r \in Readers, NEW noack \in BOOLEAN, xreadgroup_commit(r, noack) PROVE StreamInv'
<1> DEFINE x == reading[r]
           new == PendingAfter(r, noack)
<1>1. StreamTypeOK /\ StreamShape /\ creating.id \in Ids /\ EntriesInv /\ GroupInv
  BY DEF StreamInv
<1>2. /\ x.at = "commit" /\ group.there /\ stream' = stream /\ adding' = adding /\ creating' = creating
      /\ answered' = answered \cup x.ids /\ steady' = steady /\ raced' = raced
  BY DEF xreadgroup_commit
<1>3. group' = [group EXCEPT !.cursor = x.last, !.pending = new] /\ reading' = [reading EXCEPT ![r] = NotReading]
  BY DEF xreadgroup_commit
<1>4. DOMAIN new \subseteq Ids
  <2>1. x.ids \subseteq Ids /\ DOMAIN group.pending \subseteq Ids
    BY <1>1 DEF StreamTypeOK
  <2> QED
    BY <2>1 DEF PendingAfter
<1> HIDE DEF new
<1>5. /\ DOMAIN group' = DOMAIN group /\ group'.there = group.there /\ group'.start = group.start
      /\ group'.cursor = x.last /\ group'.consumers = group.consumers /\ group'.pending = new
  <2> HIDE DEF x
  <2> QED
    BY <1>1, <1>3 DEF StreamShape
<1>6. /\ DOMAIN reading' = Readers /\ \A o \in Readers \ {r} : reading'[o] = reading[o]
      /\ DOMAIN reading'[r] = {"at", "consumer", "after", "ids", "last"}
      /\ reading'[r].at = "idle" /\ reading'[r].after = Zero /\ reading'[r].ids = {} /\ reading'[r].last = Zero
  BY <1>1, <1>3 DEF StreamShape, NotReading, Reading
<1>7. StreamTypeOK'
  <2>1. x.last \in Ids /\ x.ids \subseteq Ids
    BY <1>1 DEF StreamTypeOK
  <2>2. \A i \in DOMAIN new : new[i] \in Consumers
    BY <1>1, <1>2 DEF StreamTypeOK, new, PendingAfter
  <2> HIDE DEF x
  <2> QED
    BY <1>1, <1>2, <1>4, <1>5, <1>6, <2>1, <2>2, ZeroIsId DEF StreamTypeOK
<1>8. StreamShape'
  BY <1>1, <1>2, <1>5, <1>6 DEF StreamShape
<1>9. EntriesInv'
  BY <1>1, <1>2 DEF EntriesInv
<1>10. GroupInv'
  <2> SUFFICES ASSUME steady, ~ raced PROVE GroupInv'
    BY <1>2 DEF GroupInv
  <2>1. Given(x.after) /\ Taken(r)
    BY <1>1, <1>2 DEF GroupInv
  <2>2. (Reached(group.cursor) /\ Given(group.cursor))'
    <3>1. ~ Below(stream.last, x.last)
      BY <2>1 DEF Taken
    <3>2. \A p \in DOMAIN stream.entries : Below(group.start, stream.entries[p]) /\ ~ Below(x.last, stream.entries[p])
             => stream.entries[p] \in answered \cup x.ids
      BY <2>1 DEF Taken, Given
    <3> QED
      BY <1>2, <1>5, <3>1, <3>2 DEF Reached, Given
  <2>3. ASSUME NEW o \in Readers, reading'[o].at \in {"read", "commit"}
        PROVE  (group.there /\ Reached(reading[o].after) /\ Given(reading[o].after))'
    <3>1. o # r /\ reading'[o] = reading[o]
      BY <1>6, <2>3
    <3>2. Reached(reading[o].after) /\ Given(reading[o].after)
      BY <1>1, <2>3, <3>1 DEF GroupInv
    <3> QED
      BY <1>2, <1>5, <3>1, <3>2 DEF Reached, Given
  <2>4. ASSUME NEW o \in Readers, reading'[o].at = "commit" PROVE Taken(o)'
    <3>1. o # r /\ reading'[o] = reading[o]
      BY <1>6, <2>4
    <3>2. Taken(o)
      BY <1>1, <2>4, <3>1 DEF GroupInv
    <3> QED
      BY <1>2, <3>1, <3>2 DEF Taken
  <2> QED
    BY <2>2, <2>3, <2>4 DEF GroupInv
<1> QED
  BY <1>1, <1>2, <1>7, <1>8, <1>9, <1>10 DEF StreamInv

LEMMA NextStream == StreamInv /\ [StreamNext]_streamVars => StreamInv'
<1> SUFFICES ASSUME StreamInv, [StreamNext]_streamVars PROVE StreamInv'
  OBVIOUS
<1>1. CASE Add
  BY <1>1, CheckKeeps, AddKeeps DEF Add
<1>2. CASE Shrink
  BY <1>2, DelKeeps DEF Shrink
<1>6. CASE Expire
  BY <1>6, ExpireKeeps DEF Expire
<1>3. CASE Group
  BY <1>3, CreateKeeps, InstallKeeps, ConsumerKeeps DEF Group
<1>4. CASE Read
  BY <1>4, CursorKeeps, CopyKeeps, CommitKeeps, ConsumerKeeps DEF Read
<1>5. CASE UNCHANGED streamVars
  <2>1. /\ stream' = stream /\ group' = group /\ adding' = adding /\ reading' = reading /\ creating' = creating
        /\ answered' = answered /\ steady' = steady /\ raced' = raced
    BY <1>5 DEF streamVars
  <2>2. StreamTypeOK /\ StreamShape /\ creating.id \in Ids /\ EntriesInv /\ GroupInv
    BY DEF StreamInv
  <2>3. StreamTypeOK'
    BY <2>1, <2>2 DEF StreamTypeOK
  <2>4. StreamShape' /\ EntriesInv'
    BY <2>1, <2>2 DEF StreamShape, EntriesInv
  <2>5. GroupInv'
    BY <2>1, <2>2 DEF GroupInv, Reached, Given, Taken
  <2> QED
    BY <2>1, <2>2, <2>3, <2>4, <2>5 DEF StreamInv
<1> QED
  BY <1>1, <1>2, <1>3, <1>4, <1>5, <1>6 DEF StreamNext

\* The invariant of a stream and its consumer group: an XADD past its check is
\* above last_id (xadd), and what a reader has seen of the group and copied of
\* the stream is between the group's start and the last id (xreadgroup).
THEOREM StreamInvariance == StreamSpec => []StreamInv
BY InitStream, NextStream, PTL DEF StreamSpec

\* Type correctness of streams and groups (memory.rs, the stream methods).
THEOREM StreamTypes == StreamSpec => []StreamTypeOK
<1>1. StreamInv => StreamTypeOK
  BY DEF StreamInv
<1> QED
  BY <1>1, StreamInvariance, PTL

\* The entries of a stream are in order of id and end at last_id, whatever is
\* deleted, trimmed, put in place, expired or brought back between the three
\* steps of an XADD, unless two XADDs were past their check at the same time or
\* one was checked while the stream had expired and appended to it (xadd).
THEOREM EntriesAreInOrder == StreamSpec => []IdsIncrease
<1>1. StreamInv => IdsIncrease
  <2> SUFFICES ASSUME StreamInv, ~ raced PROVE IdsIncrease
    BY DEF IdsIncrease
  <2>1. stream.entries \in Seq(Ids)
    BY DEF StreamInv, StreamTypeOK
  <2>2. Len(stream.entries) \in Nat /\ DOMAIN stream.entries = 1 .. Len(stream.entries)
    BY <2>1
  <2>3. \A p \in 1 .. Len(stream.entries) - 1 : p \in DOMAIN stream.entries /\ p + 1 \in DOMAIN stream.entries /\ p < p + 1
    BY <2>2
  <2>4. stream.entries # <<>> => Len(stream.entries) \in DOMAIN stream.entries
    BY <2>1, <2>2
  <2> QED
    BY <2>3, <2>4 DEF StreamInv, EntriesInv, IdsIncrease, Last
<1> QED
  BY <1>1, StreamInvariance, PTL

\* The cursor of a consumer group passes no entry that was not answered, for any
\* number of readers whose three steps overlap, any COUNTs and any deletions
\* (xreadgroup), as long as the key and the group stay and no XADDs raced.
THEOREM GroupsSkipNothing == StreamSpec => []NothingSkipped
<1>1. StreamInv => NothingSkipped
  <2> SUFFICES ASSUME StreamInv, steady, ~ raced, group.there PROVE NothingSkipped
    BY DEF NothingSkipped
  <2>1. Given(group.cursor)
    BY DEF StreamInv, GroupInv
  <2>2. \A id \in Range(stream.entries) : \E p \in DOMAIN stream.entries : id = stream.entries[p]
    BY DEF Range
  <2> QED
    BY <2>1, <2>2 DEF NothingSkipped, Given
<1> QED
  BY <1>1, StreamInvariance, PTL

-----------------------------------------------------------------------------
(* Streams: the owners of pending entries. *)

\* Every consumer with pending entries or with an XREADGROUP under way is known
\* to the group, or departed while it was reading.
OwnerInv ==
    /\ PendingHasOwner
    /\ InFlight \subseteq group.consumers \cup departed

\* A reader is in flight from the cursor to the commit.
LEMMA InFlightIs ==
    \A r \in Readers : reading[r].at \in {"read", "commit"} => reading[r].consumer \in InFlight
BY DEF InFlight

\* Steps that leave consumers, pending entries and readers alone.
LEMMA OwnerFrame ==
    ASSUME OwnerInv, UNCHANGED <<group, reading, departed>> PROVE OwnerInv'
BY DEF OwnerInv, PendingHasOwner, InFlight

\* The steps of XGROUP and of the group's other commands.
LEMMA OwnerGroup ==
    ASSUME StreamInv, OwnerInv, Group PROVE OwnerInv'
<1>1. /\ DOMAIN group = {"there", "start", "cursor", "consumers", "pending"}
      /\ reading' = reading
  <2>1. reading' = reading
    BY DEF Group, xgroup_create_check, xgroup_create_mkstream, xgroup_create_position,
           xgroup_create_install, xgroup_destroy, xgroup_create_consumer, xgroup_del_consumer
  <2> QED
    BY <2>1 DEF StreamInv, StreamShape
<1>2. InFlight' = InFlight
  BY <1>1 DEF InFlight
<1>3. CASE xgroup_create_install \/ xgroup_destroy
  <2>1. departed' = departed \cup InFlight /\ (group' = NewGroup(creating.id) \/ group' = NoGroup)
    BY <1>3 DEF xgroup_create_install, xgroup_destroy
  <2>2. DOMAIN group'.pending = {}
    BY <2>1 DEF NewGroup, NoGroup, NoPending
  <2> QED
    BY <1>2, <2>1, <2>2 DEF OwnerInv, PendingHasOwner
<1>4. ASSUME NEW c \in Consumers, xgroup_create_consumer(c) PROVE OwnerInv'
  <2>1. group' = [group EXCEPT !.consumers = @ \cup {c}] /\ departed' = departed
    BY <1>4 DEF xgroup_create_consumer
  <2>2. group'.consumers = group.consumers \cup {c} /\ group'.pending = group.pending
    BY <1>1, <2>1
  <2> QED
    BY <1>2, <2>1, <2>2 DEF OwnerInv, PendingHasOwner
<1>5. ASSUME NEW c \in Consumers, xgroup_del_consumer(c) PROVE OwnerInv'
  <2> DEFINE new == Restrict(group.pending, DOMAIN group.pending \ OwnedBy(c))
  <2>1. group' = [group EXCEPT !.consumers = @ \ {c}, !.pending = new] /\ departed' = departed \cup (InFlight \cap {c})
    BY <1>5 DEF xgroup_del_consumer
  <2>2. /\ DOMAIN new = DOMAIN group.pending \ OwnedBy(c)
        /\ \A i \in DOMAIN new : new[i] = group.pending[i]
    BY DEF Restrict, OwnedBy
  <2>3. \A i \in DOMAIN new : i \in DOMAIN group.pending /\ new[i] = group.pending[i] /\ new[i] # c
    BY <2>2 DEF OwnedBy
  <2> HIDE DEF new
  <2>4. group'.consumers = group.consumers \ {c} /\ group'.pending = new
    BY <1>1, <2>1
  <2>5. PendingHasOwner'
    BY <2>1, <2>3, <2>4 DEF OwnerInv, PendingHasOwner
  <2> QED
    BY <1>2, <2>1, <2>4, <2>5 DEF OwnerInv
<1>6. CASE \/ \E mk \in BOOLEAN : xgroup_create_check(mk)
           \/ xgroup_create_mkstream
           \/ \E id \in Ids : xgroup_create_position(id)
  <2>1. UNCHANGED <<group, reading, departed>>
    BY <1>6 DEF xgroup_create_check, xgroup_create_mkstream, xgroup_create_position
  <2> QED
    BY <2>1, OwnerFrame
<1> QED
  BY <1>3, <1>4, <1>5, <1>6 DEF Group

\* The steps of XREADGROUP, XACK and XCLAIM.
LEMMA OwnerRead ==
    ASSUME StreamInv, OwnerInv, Read PROVE OwnerInv'
<1>1. /\ DOMAIN group = {"there", "start", "cursor", "consumers", "pending"}
      /\ DOMAIN reading = Readers
      /\ \A r \in Readers : DOMAIN reading[r] = {"at", "consumer", "after", "ids", "last"}
  BY DEF StreamInv, StreamShape
<1>2. departed' = departed
  BY DEF Read, xreadgroup_new, xreadgroup_entries, xreadgroup_commit, xreadgroup_panic, xack, xclaim
<1>3. NotReading.at = "idle"
  BY DEF NotReading, Reading
<1>4. ASSUME NEW r \in Readers, NEW c \in Consumers, xreadgroup_new(r, c) PROVE OwnerInv'
  <2> DEFINE x == Reading("read", c, group.cursor)
  <2>1. group' = [group EXCEPT !.consumers = @ \cup {c}] /\ reading' = [reading EXCEPT ![r] = x]
    BY <1>4 DEF xreadgroup_new
  <2>2. x.consumer = c
    BY DEF Reading
  <2> HIDE DEF x
  <2>3. group'.consumers = group.consumers \cup {c} /\ group'.pending = group.pending
    BY <1>1, <2>1
  <2>4. InFlight' \subseteq InFlight \cup {c}
    BY <1>1, <2>1, <2>2 DEF InFlight
  <2> QED
    BY <1>2, <2>3, <2>4 DEF OwnerInv, PendingHasOwner
<1>5. ASSUME NEW r \in Readers, NEW n \in Counts, xreadgroup_entries(r, n) PROVE OwnerInv'
  <2>1. PICK x : reading' = [reading EXCEPT ![r] = x] /\ (x = NotReading \/ x.consumer = reading[r].consumer)
    <3> DEFINE taken == stream_entries_after(reading[r].after, n)
               y == [reading[r] EXCEPT !.at = "commit", !.ids = {stream.entries[p] : p \in taken},
                                       !.last = stream.entries[Max(taken)]]
    <3>1. reading' = [reading EXCEPT ![r] = IF taken = {} THEN NotReading ELSE y]
      BY <1>5 DEF xreadgroup_entries
    <3>2. y.consumer = reading[r].consumer
      BY <1>1
    <3> HIDE DEF taken, y
    <3>3. CASE taken = {}
      BY <3>1, <3>3
    <3>4. CASE taken # {}
      BY <3>1, <3>2, <3>4
    <3> QED
      BY <3>3, <3>4
  <2>2. reading[r].at = "read" /\ group' = group
    BY <1>5 DEF xreadgroup_entries
  <2>3. reading[r].consumer \in InFlight
    BY <2>2, InFlightIs
  <2>4. InFlight' \subseteq InFlight
    BY <1>1, <1>3, <2>1, <2>3 DEF InFlight
  <2> QED
    BY <1>2, <2>2, <2>4 DEF OwnerInv, PendingHasOwner
<1>6. ASSUME NEW r \in Readers, NEW noack \in BOOLEAN, xreadgroup_commit(r, noack) PROVE OwnerInv'
  <2> DEFINE new == PendingAfter(r, noack)
  <2>1. /\ group' = [group EXCEPT !.cursor = reading[r].last, !.pending = new]
        /\ reading' = [reading EXCEPT ![r] = NotReading] /\ reading[r].at = "commit"
    BY <1>6 DEF xreadgroup_commit
  <2>2. \A i \in DOMAIN new : new[i] = reading[r].consumer \/ (i \in DOMAIN group.pending /\ new[i] = group.pending[i])
    BY DEF PendingAfter
  <2> HIDE DEF new
  <2>3. group'.consumers = group.consumers /\ group'.pending = new
    BY <1>1, <2>1
  <2>4. reading[r].consumer \in InFlight
    BY <2>1, InFlightIs
  <2>5. InFlight' \subseteq InFlight
    BY <1>1, <1>3, <2>1 DEF InFlight
  <2>6. PendingHasOwner'
    BY <1>2, <2>2, <2>3, <2>4 DEF OwnerInv, PendingHasOwner
  <2> QED
    BY <1>2, <2>3, <2>5, <2>6 DEF OwnerInv
<1>7. ASSUME NEW r \in Readers, xreadgroup_panic(r) PROVE OwnerInv'
  <2>1. group' = group /\ reading' = [reading EXCEPT ![r] = NotReading]
    BY <1>7 DEF xreadgroup_panic
  <2>2. InFlight' \subseteq InFlight
    BY <1>1, <1>3, <2>1 DEF InFlight
  <2> QED
    BY <1>2, <2>1, <2>2 DEF OwnerInv, PendingHasOwner
<1>8. ASSUME NEW id \in Ids, xack(id) PROVE OwnerInv'
  <2> DEFINE new == Restrict(group.pending, DOMAIN group.pending \ {id})
  <2>1. group' = [group EXCEPT !.pending = new] /\ reading' = reading
    BY <1>8 DEF xack
  <2>2. \A i \in DOMAIN new : i \in DOMAIN group.pending /\ new[i] = group.pending[i]
    BY DEF Restrict
  <2> HIDE DEF new
  <2>3. group'.consumers = group.consumers /\ group'.pending = new
    BY <1>1, <2>1
  <2> QED
    BY <1>2, <2>1, <2>2, <2>3 DEF OwnerInv, PendingHasOwner, InFlight
<1>9. ASSUME NEW c \in Consumers, NEW id \in Ids, NEW idle \in BOOLEAN, xclaim(c, id, idle) PROVE OwnerInv'
  <2> DEFINE new == [i \in DOMAIN group.pending |-> IF i = id /\ idle THEN c ELSE group.pending[i]]
  <2>1. group' = [group EXCEPT !.consumers = @ \cup {c}, !.pending = new] /\ reading' = reading
    BY <1>9 DEF xclaim
  <2>2. \A i \in DOMAIN new : i \in DOMAIN group.pending /\ (new[i] = c \/ new[i] = group.pending[i])
    OBVIOUS
  <2> HIDE DEF new
  <2>3. group'.consumers = group.consumers \cup {c} /\ group'.pending = new
    BY <1>1, <2>1
  <2>4. InFlight' = InFlight
    BY <2>1 DEF InFlight
  <2> QED
    BY <1>2, <2>2, <2>3, <2>4 DEF OwnerInv, PendingHasOwner
<1> QED
  BY <1>4, <1>5, <1>6, <1>7, <1>8, <1>9 DEF Read

\* Every step keeps the owners.
LEMMA OwnerStep == StreamInv /\ OwnerInv /\ [StreamNext]_streamVars => OwnerInv'
<1> SUFFICES ASSUME StreamInv, OwnerInv, [StreamNext]_streamVars PROVE OwnerInv'
  OBVIOUS
<1>1. CASE Add \/ Shrink \/ Expire \/ UNCHANGED streamVars
  <2>1. UNCHANGED <<group, reading, departed>>
    BY <1>1 DEF Add, Shrink, Expire, streamVars, xadd_generate, xadd_check, xadd_append, xdel, xtrim,
                expire_stream, revive_stream, del_stream
  <2> QED
    BY <2>1, OwnerFrame
<1> QED
  BY <1>1, OwnerGroup, OwnerRead DEF StreamNext

\* For any number of readers and consumers: a pending entry belongs to a consumer
\* that the group has, unless the consumer was deleted or the group replaced
\* while an XREADGROUP of that consumer was under way (xreadgroup).
THEOREM PendingOwners == StreamSpec => []PendingHasOwner
<1>1. StreamInit => OwnerInv
  <2> SUFFICES ASSUME StreamInit PROVE OwnerInv
    OBVIOUS
  <2>1. group.pending = NoPending
    BY DEF StreamInit, NoGroup
  <2>2. DOMAIN group.pending = {}
    BY <2>1 DEF NoPending
  <2>3. \A r \in Readers : reading[r] = NotReading
    BY DEF StreamInit
  <2>4. \A r \in Readers : reading[r].at = "idle"
    <3>1. NotReading.at = "idle"
      BY DEF NotReading, Reading
    <3> QED
      BY <2>3, <3>1
  <2>5. InFlight = {}
    <3>1. {x \in Readers : reading[x].at \in {"read", "commit"}} = {}
      BY <2>4
    <3> QED
      BY <3>1 DEF InFlight
  <2> QED
    BY <2>2, <2>5 DEF OwnerInv, PendingHasOwner
<1>2. OwnerInv => PendingHasOwner
  BY DEF OwnerInv
<1> QED
  BY <1>1, <1>2, OwnerStep, StreamInvariance, PTL DEF StreamSpec

-----------------------------------------------------------------------------
(* Positions. *)

LEMMA MinMax ==
    ASSUME NEW a \in Int, NEW b \in Int
    PROVE  /\ Max({a, b}) = IF a >= b THEN a ELSE b
           /\ Min({a, b}) = IF a <= b THEN a ELSE b
<1>1. \E x \in {a, b} : \A y \in {a, b} : x >= y
  OBVIOUS
<1>2. \E x \in {a, b} : \A y \in {a, b} : x <= y
  OBVIOUS
<1>3. Max({a, b}) \in {a, b} /\ \A y \in {a, b} : Max({a, b}) >= y
  BY <1>1 DEF Max
<1>4. Min({a, b}) \in {a, b} /\ \A y \in {a, b} : Min({a, b}) <= y
  BY <1>2 DEF Min
<1> QED
  BY <1>3, <1>4

\* "as usize": a length or a position is itself, and -1 is the greatest.
LEMMA AsUsizeFacts ==
    ASSUME NEW n \in Int, Usize > 0, n < Usize, n >= -1
    PROVE  AsUsize(n) = IF n = -1 THEN Usize - 1 ELSE n
<1>1. Usize \in Nat \ {0}
  BY WidthAssumption
<1> DEFINE u == Usize
           d == n \div u
           r == n % u
<1> HIDE DEF u
<1>2. u \in Nat \ {0} /\ n < u
  BY <1>1 DEF u
<1>3. d \in Int /\ r \in 0 .. u - 1 /\ n = u * d + r
  BY <1>2
<1> HIDE DEF d, r
<1>4. ~ (d >= 1) /\ ~ (d <= -2)
  BY <1>2, <1>3
<1>5. d = 0 \/ d = -1
  BY <1>3, <1>4
<1>6. CASE d = 0
  <2>1. u * d = 0
    BY <1>2, <1>6
  <2>2. r = n /\ n # -1
    BY <1>3, <2>1
  <2> QED
    BY <2>2 DEF AsUsize, r, u
<1>7. CASE d = -1
  <2>1. u * d = -u
    BY <1>2, <1>7
  <2>2. n = -1 /\ r = u - 1
    BY <1>2, <1>3, <2>1
  <2> QED
    BY <2>2 DEF AsUsize, r, u
<1> QED
  BY <1>5, <1>6, <1>7

\* The positions of n elements between start and stop are those from lo to hi.
Spans(n, start, stop, lo, hi) ==
    \A p \in 0 .. n - 1 : (Position(start, n) <= p /\ p <= Position(stop, n)) <=> (lo <= p /\ p <= hi)

LEMMA BetweenIs ==
    ASSUME NEW T, NEW s \in Seq(T), NEW start \in Int, NEW stop \in Int, NEW lo \in Nat, NEW hi \in Int, hi < Len(s),
           Spans(Len(s), start, stop, lo, hi)
    PROVE  Between(s, start, stop) = SubSeq(s, lo + 1, hi + 1)
<1> DEFINE n == Len(s)
           P == {p \in 0 .. n - 1 : Position(start, n) <= p /\ p <= Position(stop, n)}
           f == [i \in 1 .. Cardinality(P) |-> s[Min(P) + i]]
<1>1. n \in Nat /\ P = lo .. hi
  BY DEF Spans
<1>2. Between(s, start, stop) = f
  BY DEF Between
<1> HIDE DEF P
<1>3. Cardinality(P) = IF lo > hi THEN 0 ELSE hi - lo + 1
  BY <1>1, FS_Interval
<1>4. CASE lo > hi
  <2>1. f = <<>>
    BY <1>3, <1>4
  <2>2. SubSeq(s, lo + 1, hi + 1) = <<>>
    BY <1>4, SubSeqEmpty
  <2> QED
    BY <1>2, <2>1, <2>2
<1>5. CASE lo <= hi
  <2>1. Min(P) = lo
    <3>1. \E x \in P : \A y \in P : x <= y
      BY <1>1, <1>5
    <3>2. Min(P) \in P /\ \A y \in P : Min(P) <= y
      BY <3>1 DEF Min
    <3> QED
      BY <1>1, <1>5, <3>2
  <2>2. f = [i \in 1 .. hi - lo + 1 |-> s[lo + i]]
    BY <1>3, <1>5, <2>1
  <2>3. SubSeq(s, lo + 1, hi + 1) = [i \in 1 .. (hi + 1) - (lo + 1) + 1 |-> s[(lo + 1) + i - 1]]
    BY <1>1
  <2>4. /\ (hi + 1) - (lo + 1) + 1 = hi - lo + 1
        /\ \A i \in 1 .. hi - lo + 1 : (lo + 1) + i - 1 = lo + i
    OBVIOUS
  <2> QED
    BY <1>2, <2>2, <2>3, <2>4
<1> QED
  BY <1>4, <1>5

\* LRANGE, LTRIM and ZRANGE give what lies between the two positions, for every
\* list and every pair of integers, with a stop before the first element taken
\* for the first (src/store/memory.rs: lrange, ltrim, zrange).
THEOREM SlicesAreExact ==
    ASSUME NEW T, NEW s \in Seq(T), Len(s) < Usize, NEW start \in Int, NEW stop \in Int
    PROVE  Slice(s, start, stop) = Between(s, start, Max({stop, -Len(s)}))
<1> DEFINE n == Len(s)
           last == IF stop >= -n THEN stop ELSE -n
           b == IF start < 0 THEN (IF n + start >= 0 THEN n + start ELSE 0) ELSE (IF start <= n THEN start ELSE n)
           x == IF stop < 0 THEN (IF n + stop >= 0 THEN n + stop ELSE 0) ELSE (IF stop <= n - 1 THEN stop ELSE n - 1)
           e == IF x = -1 THEN Usize - 1 ELSE x
<1>1. n \in Nat /\ Usize \in Nat /\ n < Usize
  BY WidthAssumption
<1>2. Max({stop, -n}) = last /\ last \in Int
  BY <1>1, MinMax
<1>3. First(start, n) = b /\ Final(stop, n) = e
  <2>1. Max({n + start, 0}) = (IF n + start >= 0 THEN n + start ELSE 0) /\ Min({start, n}) = (IF start <= n THEN start ELSE n)
    <3>1. n + start \in Int /\ 0 \in Int /\ n \in Int
      BY <1>1
    <3> QED
      BY <3>1, MinMax, Zenon
  <2>2. Max({n + stop, 0}) = (IF n + stop >= 0 THEN n + stop ELSE 0) /\ Min({stop, n - 1}) = (IF stop <= n - 1 THEN stop ELSE n - 1)
    <3>1. n + stop \in Int /\ 0 \in Int /\ n - 1 \in Int
      BY <1>1
    <3> QED
      BY <3>1, MinMax, Zenon
  <2>3. First(start, n) = b
    BY <2>1 DEF First
  <2>4. Final(stop, n) = AsUsize(x)
    BY <2>2 DEF Final
  <2>5. x \in Int /\ x >= -1 /\ x < Usize
    BY <1>1
  <2>6. AsUsize(x) = e
    BY <1>1, <2>5, AsUsizeFacts
  <2> QED
    BY <2>3, <2>4, <2>6
<1>4. Slice(s, start, stop) = IF b > e \/ b >= n THEN <<>> ELSE Take(Skip(s, b), e - b + 1)
  BY <1>3 DEF Slice
<1>5. CASE b > e \/ b >= n
  <2>1. Spans(n, start, last, 0, -1)
    BY <1>1, <1>5 DEF Position, Spans
  <2> HIDE DEF last
  <2>2. Between(s, start, last) = SubSeq(s, 0 + 1, -1 + 1)
    <3>1. 0 \in Nat /\ -1 \in Int /\ -1 < n
      BY <1>1
    <3> QED
      BY <1>2, <2>1, <3>1, BetweenIs
  <2>3. SubSeq(s, 0 + 1, -1 + 1) = <<>>
    BY SubSeqEmpty
  <2> QED
    BY <1>2, <1>4, <1>5, <2>2, <2>3
<1>6. CASE b <= e /\ b < n
  <2>1. b \in Nat /\ e \in Nat /\ e < n /\ b <= e
    BY <1>1, <1>6
  <2>2. Spans(n, start, last, b, e)
    BY <1>1, <1>6 DEF Position, Spans
  <2> HIDE DEF last, b, e, x
  <2>3. Between(s, start, last) = SubSeq(s, b + 1, e + 1)
    <3>1. e \in Int
      BY <2>1
    <3> QED
      BY <1>2, <2>1, <2>2, <3>1, BetweenIs
  <2>4. Take(Skip(s, b), e - b + 1) = SubSeq(s, b + 1, e + 1)
    <3> DEFINE q == SubSeq(s, b + 1, n)
    <3>1. q \in Seq(T) /\ Len(q) = n - b /\ \A i \in 1 .. n - b : q[i] = s[b + i]
      <4>1. \A i \in b + 1 .. n : s[i] \in T
        BY <1>1, <2>1
      <4>2. /\ q \in Seq(T) /\ Len(q) = (IF b + 1 <= n THEN n - (b + 1) + 1 ELSE 0)
            /\ \A i \in 1 .. n - (b + 1) + 1 : q[i] = s[(b + 1) + i - 1]
        BY <1>1, <2>1, <4>1, SubSeqProperties
      <4>3. n - (b + 1) + 1 = n - b /\ b + 1 <= n /\ \A i \in 1 .. n - b : (b + 1) + i - 1 = b + i
        BY <1>1, <2>1
      <4> QED
        BY <4>2, <4>3
    <3>2. Take(q, e - b + 1) = SubSeq(q, 1, e - b + 1)
      <4>1. e - b + 1 \in Int /\ e - b + 1 <= Len(q) /\ Len(q) \in Int
        BY <1>1, <2>1, <3>1
      <4> HIDE DEF q
      <4>2. Min({e - b + 1, Len(q)}) = e - b + 1
        BY <4>1, MinMax
      <4> QED
        BY <4>2 DEF Take
    <3>3. Skip(s, b) = q
      BY DEF Skip
    <3> HIDE DEF q
    <3>4. SubSeq(q, 1, e - b + 1) = [i \in 1 .. (e - b + 1) - 1 + 1 |-> q[1 + i - 1]]
      BY <2>1, <3>1
    <3>5. SubSeq(s, b + 1, e + 1) = [i \in 1 .. (e + 1) - (b + 1) + 1 |-> s[(b + 1) + i - 1]]
      BY <1>1, <2>1
    <3>6. /\ (e - b + 1) - 1 + 1 = e - b + 1 /\ (e + 1) - (b + 1) + 1 = e - b + 1
          /\ \A i \in 1 .. e - b + 1 : 1 + i - 1 = i /\ (b + 1) + i - 1 = b + i /\ i \in 1 .. n - b
      BY <1>1, <2>1
    <3> DEFINE m == e - b + 1
    <3>7. SubSeq(q, 1, m) = [i \in 1 .. m |-> q[i]]
      BY <3>4, <3>6
    <3>8. SubSeq(s, b + 1, e + 1) = [i \in 1 .. m |-> s[b + i]]
      BY <3>5, <3>6
    <3>9. \A i \in 1 .. m : q[i] = s[b + i]
      BY <3>1, <3>6
    <3> HIDE DEF m
    <3>10. [i \in 1 .. m |-> q[i]] = [i \in 1 .. m |-> s[b + i]]
      BY <3>9
    <3> QED
      BY <3>2, <3>3, <3>7, <3>8, <3>10 DEF m
  <2>5. Slice(s, start, stop) = Take(Skip(s, b), e - b + 1)
    BY <1>4, <2>1
  <2> QED
    BY <1>2, <2>3, <2>4, <2>5
<1>7. b \in Int /\ e \in Int
  BY <1>1
<1> QED
  BY <1>1, <1>5, <1>6, <1>7

\* GETRANGE does so for every string and every pair of integers, with a start
\* past the end taken for the last byte and an end before the first for the last:
\* -1 "as usize" is the greatest of all (src/cmd/string.rs: getrange).
THEOREM GetrangeIsExact ==
    ASSUME NEW T, NEW s \in Seq(T), Len(s) < Usize, NEW start \in Int, NEW end \in Int
    PROVE  getrange(s, start, end) = Between(s, Min({start, Len(s) - 1}), IF end < -Len(s) THEN -1 ELSE end)
<1> DEFINE n == Len(s)
           from == IF start <= n - 1 THEN start ELSE n - 1
           to == IF end < -n THEN -1 ELSE end
           x == IF start < 0 THEN (IF n + start >= 0 THEN n + start ELSE 0) ELSE from
           y == IF end < 0 THEN (IF n + end >= -1 THEN n + end ELSE -1) ELSE (IF end <= n - 1 THEN end ELSE n - 1)
           b == IF x = -1 THEN Usize - 1 ELSE x
           e == IF y = -1 THEN Usize - 1 ELSE y
           hi == IF e <= n - 1 THEN e ELSE n - 1
<1>1. n \in Nat /\ Usize \in Nat /\ n < Usize
  BY WidthAssumption
<1>2. Min({start, n - 1}) = from /\ from \in Int /\ to \in Int
  <2>1. n - 1 \in Int
    BY <1>1
  <2>2. Min({start, n - 1}) = from
    BY <2>1, MinMax, Zenon
  <2>3. from \in Int /\ to \in Int
    BY <1>1
  <2> QED
    BY <2>2, <2>3, Zenon
<1>3. x \in Int /\ x >= -1 /\ x < Usize /\ y \in Int /\ y >= -1 /\ y < Usize
  BY <1>1
<1>4. b \in Nat /\ e \in Nat
  BY <1>1, <1>3
<1>5. getrange(s, start, end) = IF b > e \/ b >= n THEN <<>> ELSE SubSeq(s, b + 1, hi + 1)
  <2>1. Max({n + start, 0}) = IF n + start >= 0 THEN n + start ELSE 0
    <3>1. n + start \in Int /\ 0 \in Int
      BY <1>1
    <3> QED
      BY <3>1, MinMax, Zenon
  <2>2. Max({n + end, -1}) = IF n + end >= -1 THEN n + end ELSE -1
    <3>1. n + end \in Int /\ -1 \in Int
      BY <1>1
    <3> QED
      BY <3>1, MinMax, Zenon
  <2>3. Min({end, n - 1}) = IF end <= n - 1 THEN end ELSE n - 1
    <3>1. n - 1 \in Int
      BY <1>1
    <3> QED
      BY <3>1, MinMax, Zenon
  <2>4. AsUsize(x) = b /\ AsUsize(y) = e
    <3> HIDE DEF x, y
    <3> QED
      BY <1>1, <1>3, AsUsizeFacts
  <2>5. Min({e, n - 1}) = hi
    <3>1. e \in Int /\ n - 1 \in Int
      BY <1>1, <1>4
    <3> HIDE DEF e
    <3> QED
      BY <3>1, MinMax, Zenon
  <2>6. /\ x = IF start < 0 THEN Max({n + start, 0}) ELSE Min({start, n - 1})
        /\ y = IF end < 0 THEN Max({n + end, -1}) ELSE Min({end, n - 1})
    BY <1>2, <2>1, <2>2, <2>3
  <2> HIDE DEF x, y, b, e, hi
  <2> QED
    BY <2>4, <2>5, <2>6 DEF getrange
<1>6. CASE b > e \/ b >= n
  <2>1. Spans(n, from, to, 0, -1)
    BY <1>1, <1>6, SMTT(40) DEF Position, Spans
  <2> HIDE DEF from, to, b, e, hi
  <2>2. Between(s, from, to) = SubSeq(s, 0 + 1, -1 + 1)
    <3>1. 0 \in Nat /\ -1 \in Int /\ -1 < n
      BY <1>1
    <3> QED
      BY <1>2, <2>1, <3>1, BetweenIs
  <2>3. SubSeq(s, 0 + 1, -1 + 1) = <<>>
    BY SubSeqEmpty
  <2> QED
    BY <1>2, <1>5, <1>6, <2>2, <2>3 DEF to
<1>7. CASE b <= e /\ b < n
  <2>1. hi \in Int /\ hi < n
    BY <1>1, <1>4
  <2>2. Spans(n, from, to, b, hi)
    BY <1>1, <1>7 DEF Position, Spans
  <2> HIDE DEF from, to, b, e, hi, x, y
  <2>3. Between(s, from, to) = SubSeq(s, b + 1, hi + 1)
    BY <1>2, <1>4, <2>1, <2>2, BetweenIs
  <2>4. getrange(s, start, end) = SubSeq(s, b + 1, hi + 1)
    <3>1. ~ (b > e \/ b >= n)
      BY <1>1, <1>4, <1>7
    <3> QED
      BY <1>5, <3>1, Zenon
  <2> QED
    BY <1>2, <2>3, <2>4 DEF to
<1> QED
  BY <1>1, <1>4, <1>6, <1>7

=============================================================================
