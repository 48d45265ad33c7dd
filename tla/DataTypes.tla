----------------------------- MODULE DataTypes -----------------------------
(***************************************************************************)
(* One key and its value: the commands on strings, lists, sets, hashes,    *)
(* nested hashes and sorted sets (src/store/memory.rs, src/cmd/), the      *)
(* index arithmetic they share, and what an AOF rewrite and a snapshot     *)
(* make of a value (src/persist/).                                         *)
(*                                                                         *)
(* A command holds the entry's shard of the map while it runs, so each is  *)
(* one step; SRANDMEMBER alone has a loop that may not end, and keeps the  *)
(* shard from writers while it runs.  APPEND and SETRANGE, which read and  *)
(* then set, are one step here: Keyspace has the interleavings of commands *)
(* that look before they write, and expiry.  A command on a value of       *)
(* another type is an error and changes nothing.  Container types are not  *)
(* removed when they become empty.                                         *)
(***************************************************************************)
EXTENDS SortedSet

CONSTANTS Elems,      \* bytes, elements, members; 0 pads a string
          Fields,     \* fields and subfields
          Finite,     \* finite scores
          I64,        \* integers of the machine; Text is no integer
          Text,
          Usize,      \* 2^64: what a negative number becomes "as usize"
          Stride,     \* 31, the step of SRANDMEMBER's probes
          MaxLen      \* bound: length of strings and lists

ASSUME ElemsAssumption == 0 \in Elems /\ IsFiniteSet(Elems)
ASSUME ScoresAssumption ==
    /\ NegInf \in Int /\ PosInf \in Int /\ Finite \subseteq Int
    /\ \A s \in Finite : NegInf < s /\ s < PosInf
ASSUME I64Assumption == 0 \in I64 /\ I64 \subseteq Int /\ Text \notin I64
ASSUME WidthAssumption == Usize \in Nat /\ Usize > MaxLen
ASSUME StrideIsPrime ==
    Stride \in Nat /\ Stride > 1 /\ \A d \in 2 .. Stride - 1 : Stride % d # 0

VARIABLES value,   \* the entry's StorageValue
          rand     \* the SRANDMEMBER under way

vars == <<value, rand>>

Scores == Finite \cup {NegInf, PosInf}

Missing == [type |-> "none"]
Str(s) == [type |-> "string", bytes |-> s]
List(s) == [type |-> "list", list |-> s]
Set(s) == [type |-> "set", set |-> s]
Hash(f) == [type |-> "hash", map |-> f]
NestedHash(f) == [type |-> "nested", map |-> f]
NoFields == [f \in {} |-> 0]

Idle == [at |-> "idle", n |-> 0, nano |-> 0, used |-> {}]

Init == value = Missing /\ rand = Idle

\* db.entry(key).or_insert_with(..): what a growing command works on, and
\* whether its type is right.
OrInsert(v, empty) == IF v.type = "none" THEN empty ELSE v
Fits(v, type) == v.type \in {"none", type}

\* A command may take the shard for writing.
Unlocked == rand.at = "idle"

-----------------------------------------------------------------------------
(* Positions. *)

AsUsize(n) == n % Usize

\* Mutant: the start is clamped to the last element.
FirstClamped(start, len) == IF start < 0 THEN Max({len + start, 0}) ELSE Min({start, len - 1})

\* LRANGE, LTRIM and ZRANGE resolve their arguments alike.
First(start, len) == IF start < 0 THEN Max({len + start, 0}) ELSE Min({start, len})
Final(stop, len) ==
    AsUsize(IF stop < 0 THEN Max({len + stop, 0}) ELSE Min({stop, len - 1}))

Slice(s, start, stop) ==
    LET b == First(start, Len(s))
        e == Final(stop, Len(s))
    IN  IF b > e \/ b >= Len(s) THEN <<>> ELSE Take(Skip(s, b), e - b + 1)

\* GETRANGE resolves them its own way.
getrange(s, start, end) ==
    LET len == Len(s)
        b == AsUsize(IF start < 0 THEN Max({len + start, 0}) ELSE Min({start, len - 1}))
        e == AsUsize(IF end < 0 THEN Max({len + end, -1}) ELSE Min({end, len - 1}))
    IN  IF b > e \/ b >= len THEN <<>> ELSE SubSeq(s, b + 1, Min({e, len - 1}) + 1)

\* LINDEX and LSET.
Position(idx, len) == IF idx < 0 THEN len + idx ELSE idx

zrange(z, ord, start, stop) ==
    Slice(zrange_by_score(z, ord, Bound(NegInf, TRUE), Bound(PosInf, TRUE), 0, Usize),
          start, stop)

-----------------------------------------------------------------------------
(* Strings and lists. *)

set(s) ==
    /\ Unlocked
    /\ value' = Str(s)
    /\ UNCHANGED rand

Bytes == IF value.type = "string" THEN value.bytes ELSE <<>>

append(s) ==
    /\ Unlocked /\ Fits(value, "string") /\ Len(Bytes \o s) <= MaxLen
    /\ value' = Str(Bytes \o s)
    /\ UNCHANGED rand

\* resize with zeros when the text reaches past the end, then overwrite.
SetRange(old, offset, s) ==
    [i \in 1 .. Max({Len(old), offset + Len(s)}) |->
        IF i \in offset + 1 .. offset + Len(s) THEN s[i - offset]
        ELSE IF i <= Len(old) THEN old[i] ELSE 0]

setrange(offset, s) ==
    /\ Unlocked /\ Fits(value, "string") /\ offset + Len(s) <= MaxLen
    /\ value' = Str(SetRange(Bytes, offset, s))
    /\ UNCHANGED rand

\* The arguments keep their order at either end: LPUSH takes them last first.
LPush(v, vs) == List(vs \o OrInsert(v, List(<<>>)).list)
RPush(v, vs) == List(OrInsert(v, List(<<>>)).list \o vs)

lpush(vs) ==
    /\ Unlocked /\ Fits(value, "list") /\ Len(LPush(value, vs).list) <= MaxLen
    /\ value' = LPush(value, vs)
    /\ UNCHANGED rand

rpush(vs) ==
    /\ Unlocked /\ Fits(value, "list") /\ Len(RPush(value, vs).list) <= MaxLen
    /\ value' = RPush(value, vs)
    /\ UNCHANGED rand

pop(left) ==
    /\ Unlocked /\ value.type = "list" /\ value.list # <<>>
    /\ value' = List(IF left THEN Tail(value.list) ELSE Front(value.list))
    /\ UNCHANGED rand

lset(idx, x) ==
    /\ Unlocked /\ value.type = "list"
    /\ LET i == Position(idx, Len(value.list))
       IN  /\ 0 <= i /\ i < Len(value.list)
           /\ value' = List([value.list EXCEPT ![i + 1] = x])
    /\ UNCHANGED rand

ltrim(start, stop) ==
    /\ Unlocked /\ value.type = "list"
    /\ value' = List(Slice(value.list, start, stop))
    /\ UNCHANGED rand

\* LREM from the front: count times, or once per element, the first occurrence.
RemoveFromFront(s, count, x) ==
    FoldLeft(LAMBDA l, i : RemoveFirst(l, x), s,
             [i \in 1 .. (IF count = 0 THEN Len(s) ELSE count) |-> i])

\* Mutant: the limit is looked at before the removal is counted.
RemoveFromBackOneMore(s, limit, x) ==
    FoldLeft(LAMBDA st, i : IF st.n <= limit /\ st.l[i] = x
                            THEN [l |-> RemoveAt(st.l, i), n |-> st.n + 1] ELSE st,
             [l |-> s, n |-> 0], Reverse([i \in 1 .. Len(s) |-> i])).l

\* And from the back: one walk down, until limit have been removed.
RemoveFromBack(s, limit, x) ==
    FoldLeft(LAMBDA st, i : IF st.n < limit /\ st.l[i] = x
                            THEN [l |-> RemoveAt(st.l, i), n |-> st.n + 1] ELSE st,
             [l |-> s, n |-> 0], Reverse([i \in 1 .. Len(s) |-> i])).l

LRem(s, count, x) ==
    IF count >= 0 THEN RemoveFromFront(s, count, x) ELSE RemoveFromBack(s, -count, x)

lrem(count, x) ==
    /\ Unlocked /\ value.type = "list"
    /\ value' = List(LRem(value.list, count, x))
    /\ UNCHANGED rand

-----------------------------------------------------------------------------
(* Sets. *)

SAdd(v, M) == Set(OrInsert(v, Set({})).set \cup M)

sadd(M) ==
    /\ Unlocked /\ Fits(value, "set")
    /\ value' = SAdd(value, M)
    /\ UNCHANGED rand

srem(M) ==
    /\ Unlocked /\ value.type = "set"
    /\ value' = Set(value.set \ M)
    /\ UNCHANGED rand

\* SPOP takes the first count members of the iteration: any.
spop(n) ==
    /\ Unlocked /\ value.type = "set"
    /\ \E M \in SUBSET value.set :
          /\ Cardinality(M) = Min({n, Cardinality(value.set)})
          /\ value' = Set(value.set \ M)
    /\ UNCHANGED rand

\* SRANDMEMBER with a count that is neither 1 nor negative: nano is the clock's.
srandmember(n, nano) ==
    /\ Unlocked /\ value.type = "set" /\ value.set # {} /\ n # 1
    /\ rand' = [at |-> "loop", n |-> Min({n, Cardinality(value.set)}), nano |-> nano, used |-> {}]
    /\ UNCHANGED value

\* Mutant: the probe does not move.
ProbeFixed(nano, k, size) == nano % size

Probe(nano, k, size) == (nano + k * Stride) % size

\* used.insert(idx): an index that is used already adds nothing to the result,
\* and the next probe is the same.
srandmember_pick ==
    /\ rand.at = "loop" /\ Cardinality(rand.used) < rand.n
    /\ rand' = [rand EXCEPT !.used =
                   @ \cup {Probe(rand.nano, Cardinality(@), Cardinality(value.set))}]
    /\ UNCHANGED value

srandmember_reply ==
    /\ rand.at = "loop" /\ Cardinality(rand.used) = rand.n
    /\ rand' = Idle
    /\ UNCHANGED value

-----------------------------------------------------------------------------
(* Hashes and nested hashes. *)

Put(map, f, x) == [g \in DOMAIN map \cup {f} |-> IF g = f THEN x ELSE map[g]]
Without(map, f) == Restrict(map, DOMAIN map \ {f})

HSetPair(v, pair) == Hash(Put(v.map, pair[1], pair[2]))

hset(f, x) ==
    /\ Unlocked /\ Fits(value, "hash")
    /\ value' = HSetPair(OrInsert(value, Hash(NoFields)), <<f, x>>)
    /\ UNCHANGED rand

hdel(f) ==
    /\ Unlocked /\ value.type = "hash" /\ f \in DOMAIN value.map
    /\ value' = Hash(Without(value.map, f))
    /\ UNCHANGED rand

\* What is no integer counts as 0; a sum out of range is an error.
hincrby(f, by) ==
    /\ Unlocked /\ Fits(value, "hash")
    /\ LET map == OrInsert(value, Hash(NoFields)).map
           current == IF f \in DOMAIN map /\ map[f] # Text THEN map[f] ELSE 0
       IN  /\ current + by \in I64
           /\ value' = Hash(Put(map, f, current + by))
    /\ UNCHANGED rand

NHSet(v, f, sub, x) ==
    LET map == OrInsert(v, NestedHash(NoFields)).map
        inner == IF f \in DOMAIN map THEN map[f] ELSE NoFields
    IN  NestedHash(Put(map, f, Put(inner, sub, x)))

nhset(f, sub, x) ==
    /\ Unlocked /\ Fits(value, "nested")
    /\ value' = NHSet(value, f, sub, x)
    /\ UNCHANGED rand

\* A field goes with its last subfield.
nhdel(f, sub) ==
    /\ Unlocked /\ value.type = "nested"
    /\ f \in DOMAIN value.map /\ sub \in DOMAIN value.map[f]
    /\ LET inner == Without(value.map[f], sub)
       IN  value' = NestedHash(IF DOMAIN inner = {} THEN Without(value.map, f)
                                                    ELSE [value.map EXCEPT ![f] = inner])
    /\ UNCHANGED rand

nhdel_field(f) ==
    /\ Unlocked /\ value.type = "nested" /\ f \in DOMAIN value.map
    /\ value' = NestedHash(Without(value.map, f))
    /\ UNCHANGED rand

-----------------------------------------------------------------------------
(* Sorted sets.  A ZADD or ZREM with several members is several of these    *)
(* steps without another one between them.                                  *)

zadd(m, score) ==
    /\ Unlocked /\ Fits(value, "zset")
    /\ value' = ZAddPair(OrInsert(value, EmptyZSet), <<m, score>>)
    /\ UNCHANGED rand

zrem(m) ==
    /\ Unlocked /\ value.type = "zset"
    /\ value' = ZRemMember(value, m)
    /\ UNCHANGED rand

del ==
    /\ Unlocked /\ value.type # "none"
    /\ value' = Missing
    /\ UNCHANGED rand

-----------------------------------------------------------------------------

Args == {<<x>> : x \in Elems} \cup {<<x, 0>> : x \in Elems}
Indexes == -(MaxLen + 1) .. MaxLen + 1

Strings ==
    \/ \E s \in Args \cup {<<>>} : set(s) \/ append(s)
    \/ \E offset \in 0 .. MaxLen, s \in Args : setrange(offset, s)

Lists ==
    \/ \E vs \in Args : lpush(vs) \/ rpush(vs)
    \/ \E left \in BOOLEAN : pop(left)
    \/ \E idx \in Indexes, x \in Elems : lset(idx, x) \/ lrem(idx, x)
    \/ \E start \in Indexes, stop \in Indexes : ltrim(start, stop)

Sets ==
    \/ \E M \in SUBSET Elems : M # {} /\ (sadd(M) \/ srem(M))
    \/ \E n \in 0 .. Cardinality(Elems) + 1 :
          spop(n) \/ \E nano \in 0 .. Cardinality(Elems) - 1 : srandmember(n, nano)
    \/ srandmember_reply

Hashes ==
    \/ \E f \in Fields, x \in I64 \cup {Text} : hset(f, x)
    \/ \E f \in Fields : hdel(f) \/ nhdel_field(f)
    \/ \E f \in Fields, by \in I64 : hincrby(f, by)
    \/ \E f \in Fields, sub \in Fields, x \in Elems : nhset(f, sub, x)
    \/ \E f \in Fields, sub \in Fields : nhdel(f, sub)

SortedSets ==
    \/ \E m \in Elems, score \in Scores : zadd(m, score)
    \/ \E m \in Elems : zrem(m)

Next == Strings \/ Lists \/ Sets \/ srandmember_pick \/ Hashes \/ SortedSets \/ del

Spec == Init /\ [][Next]_vars

\* A loop that is running goes on.
FairSpec == Spec /\ WF_vars(srandmember_pick \/ srandmember_reply)

-----------------------------------------------------------------------------
(* What is written to disk and read back. *)

Orders == {ord \in [Elems -> 1 .. Cardinality(Elems)] :
              \A x, y \in Elems : x # y => ord[x] # ord[y]}

\* The pairs of a map, in whatever order its iteration has.
PairsOf(map) == SetToSeqs({<<k, map[k]>> : k \in DOMAIN map})

\* commands_for_value, and the commands dispatched again.
Rewritten ==
    CASE value.type = "string" -> {Str(value.bytes)}
      [] value.type = "list"   -> {IF value.list = <<>> THEN Missing ELSE RPush(Missing, value.list)}
      [] value.type = "set"    -> {IF value.set = {} THEN Missing ELSE SAdd(Missing, value.set)}
      [] value.type = "hash"   ->
            {IF s = <<>> THEN Missing ELSE FoldLeft(HSetPair, Hash(NoFields), s) :
                s \in PairsOf(value.map)}
      [] value.type = "zset"   ->
            {IF s = <<>> THEN Missing ELSE FoldLeft(ZAddPair, EmptyZSet, s) :
                s \in PairsOf(value.members)}
      [] value.type = "nested" ->
            {FoldLeft(LAMBDA v, t : NHSet(v, t[1], t[2], t[3]), Missing, s) :
                s \in SetToSeqs({t \in Fields \X Fields \X Elems :
                         /\ t[1] \in DOMAIN value.map /\ t[2] \in DOMAIN value.map[t[1]]
                         /\ value.map[t[1]][t[2]] = t[3]})}
      [] OTHER                 -> {Missing}

\* encode_entry, and decode_entry filling an empty container; of a sorted set
\* the members are written, in the order of their scores, and both indexes filled.
Reloaded ==
    CASE value.type = "list"   -> {List(FoldLeft(Append, <<>>, value.list))}
      [] value.type = "set"    ->
            {Set(FoldLeft(LAMBDA M, x : M \cup {x}, {}, s)) : s \in SetToSeqs(value.set)}
      [] value.type = "hash"   -> {FoldLeft(HSetPair, Hash(NoFields), s) : s \in PairsOf(value.map)}
      [] value.type = "zset"   ->
            {FoldLeft(LoadPair, EmptyZSet, s) :
                s \in {q \in PairsOf(value.members) :
                          \A i, j \in DOMAIN q : i < j => q[i][2] <= q[j][2]}}
      [] value.type = "nested" ->
            {NestedHash(FoldLeft(LAMBDA m, pair : Put(m, pair[1], pair[2]), NoFields, s)) :
                s \in PairsOf(value.map)}
      [] OTHER                 -> {value}

IsEmpty ==
    \/ value.type = "list" /\ value.list = <<>>
    \/ value.type = "set" /\ value.set = {}
    \/ value.type \in {"hash", "nested"} /\ DOMAIN value.map = {}
    \/ value.type = "zset" /\ DOMAIN value.members = {}

-----------------------------------------------------------------------------
(* Properties. *)

\* CHANGELOG.md:157, "ZSet dual-index": however members are added, moved to
\* another score and removed, the two indexes of a sorted set hold the same
\* pairs and no bucket is empty (zadd, zrem).
IndexesAgree == value.type = "zset" => Mirrored(value)

\* The elements between two positions, by definition; negative ones count from
\* the end.
Between(s, start, stop) ==
    LET P == {p \in 0 .. Len(s) - 1 : Position(start, Len(s)) <= p /\ p <= Position(stop, Len(s))}
    IN  [i \in 1 .. Cardinality(P) |-> s[Min(P) + i]]

\* What is left of s without the first, or last, occurrences of x.
Spared(s, count, x) ==
    LET at == {p \in DOMAIN s : s[p] = x}
        gone == {p \in at : \/ count = 0
                            \/ count > 0 /\ Cardinality({q \in at : q < p}) < count
                            \/ count < 0 /\ Cardinality({q \in at : q > p}) < -count}
        P == DOMAIN s \ gone
        sorted == SetToSortSeq(P, <)
    IN  [i \in DOMAIN sorted |-> s[sorted[i]]]

\* LRANGE and LTRIM give what lies between the two positions, for every pair of
\* arguments, with a stop before the first element taken for the first; GETRANGE
\* takes a start past the end for the last byte and an end before the first for
\* the last; LREM removes exactly the occurrences nearest to the chosen end
\* (lrange, ltrim, lrem, getrange).
RangesAreExact ==
    /\ value.type = "list" =>
          LET s == value.list
          IN  /\ \A start, stop \in Indexes :
                    Slice(s, start, stop) = Between(s, start, Max({stop, -Len(s)}))
              /\ \A count \in Indexes, x \in Elems : LRem(s, count, x) = Spared(s, count, x)
    /\ value.type = "string" =>
          LET s == value.bytes
          IN  \A start, end \in Indexes :
                 getrange(s, start, end)
                   = Between(s, Min({start, Len(s) - 1}), IF end < -Len(s) THEN -1 ELSE end)

Bounds == {Bound(s, x) : s \in Scores, x \in BOOLEAN}

\* Whatever order the buckets are iterated in: ZCOUNT, which reads one index,
\* counts what ZRANGEBYSCORE, which reads the other, returns; and ZRANK is the
\* member's place in ZRANGE 0 -1, moved by the members with score -inf, which
\* ZRANK counts and ZRANGE leaves out (zcount, zrange_by_score, zrank, zrange).
ScoreReadsAgree ==
    value.type = "zset" =>
        \A ord \in Orders :
            /\ \A min, max \in Bounds : min.score <= max.score =>
                  Len(zrange_by_score(value, ord, min, max, 0, Usize)) = zcount(value, min, max)
            /\ LET all == zrange(value, ord, 0, -1)
                   hidden == {m \in DOMAIN value.members : value.members[m] = NegInf}
               IN  \A m \in DOMAIN value.members : value.members[m] \in Finite =>
                      all[zrank(value, ord, m) - Cardinality(hidden) + 1] = m

\* A value that is rewritten into the AOF and replayed, or saved and loaded, is
\* the same value with both indexes in place, in whatever order its maps are
\* written; a container that has become empty is dropped by the rewrite and kept
\* by the snapshot (commands_for_value, encode_entry, decode_entry).
RestoredIsSame ==
    /\ Rewritten = {IF IsEmpty THEN Missing ELSE value}
    /\ Reloaded = {value}

\* SRANDMEMBER ends, and lets writers at the shard again, unless the number of
\* members is a multiple of the stride of its probes (srandmember).
RandmemberEnds ==
    (rand.at = "loop" /\ Cardinality(value.set) % Stride # 0) ~> (rand.at = "idle")
=============================================================================
