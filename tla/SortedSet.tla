----------------------------- MODULE SortedSet -----------------------------
(***************************************************************************)
(* The sorted set of src/store/memory.rs as operators: two indexes, from   *)
(* members to scores and from scores to the members that have them, and    *)
(* the reads that use one of them or both.                                 *)
(*                                                                         *)
(* A score is a number; NegInf and PosInf stand for the two infinities.    *)
(* NaN, which the parser lets through and OrderedF64 takes to equal every  *)
(* other score, is left out.  A bucket is a HashSet, iterated in an order  *)
(* that is fixed while nobody changes it: the parameter ord, a function    *)
(* from members to their place.                                            *)
(***************************************************************************)
EXTENDS Integers, Sequences, FiniteSets, SequencesExt

CONSTANTS NegInf, PosInf    \* below and above every finite score

ZSet(m, s) == [type |-> "zset", members |-> m, scores |-> s]

EmptyZSet == ZSet([x \in {} |-> 0], [x \in {} |-> {}])

-----------------------------------------------------------------------------
(* Writing both indexes. *)

\* Mutant: the bucket stays when its last member leaves.
UnindexedKeepsBucket(scores, m, score) ==
    IF score \in DOMAIN scores THEN [scores EXCEPT ![score] = @ \ {m}] ELSE scores

\* The bucket of the old score loses the member, and goes when it is empty.
Unindexed(scores, m, score) ==
    IF score \notin DOMAIN scores THEN scores
    ELSE IF scores[score] \ {m} = {} THEN Restrict(scores, DOMAIN scores \ {score})
    ELSE [scores EXCEPT ![score] = @ \ {m}]

\* entry(score).or_default().insert(member)
Indexed(scores, m, score) ==
    [t \in DOMAIN scores \cup {score} |->
        (IF t \in DOMAIN scores THEN scores[t] ELSE {}) \cup (IF t = score THEN {m} ELSE {})]

Scored(members, m, score) ==
    [x \in DOMAIN members \cup {m} |-> IF x = m THEN score ELSE members[x]]

\* One pass of the loop of zadd.
ZAddPair(z, pair) ==
    LET m == pair[1]
        left == IF m \in DOMAIN z.members THEN Unindexed(z.scores, m, z.members[m])
                                          ELSE z.scores
    IN  ZSet(Scored(z.members, m, pair[2]), Indexed(left, m, pair[2]))

\* One pass of the loop of zrem.
ZRemMember(z, m) ==
    IF m \in DOMAIN z.members
    THEN ZSet(Restrict(z.members, DOMAIN z.members \ {m}),
              Unindexed(z.scores, m, z.members[m]))
    ELSE z

\* Mutant: a loaded pair goes into one of the indexes only.
LoadPairUnindexed(z, pair) == ZSet(Scored(z.members, pair[1], pair[2]), z.scores)

\* One pass of the loop of decode_entry over a stored sorted set.
LoadPair(z, pair) ==
    ZSet(Scored(z.members, pair[1], pair[2]), Indexed(z.scores, pair[1], pair[2]))

-----------------------------------------------------------------------------
(* Reading. *)

\* The members in the buckets of the scores S, in the order of iteration.
InOrder(z, ord, S) ==
    LET pairs == {p \in (DOMAIN ord) \X S : p[2] \in DOMAIN z.scores /\ p[1] \in z.scores[p[2]]}
        before(p, q) == p[2] < q[2] \/ (p[2] = q[2] /\ ord[p[1]] < ord[q[1]])
        sorted == SetToSortSeq(pairs, before)
    IN  [i \in DOMAIN sorted |-> sorted[i][1]]

Skip(s, n) == SubSeq(s, n + 1, Len(s))
Take(s, n) == SubSeq(s, 1, Min({n, Len(s)}))

\* A bound of ZRANGEBYSCORE and ZCOUNT: a score, and whether it is excluded.
Bound(score, exclusive) == [score |-> score, exclusive |-> exclusive]

\* Mutant: "(" is ignored at the lower end.
AboveMinInclusive(min, s) == s >= min.score

AboveMin(min, s) == IF min.exclusive THEN s > min.score ELSE s >= min.score
BelowMax(max, s) == IF max.exclusive THEN s < max.score ELSE s <= max.score

\* scores.range(min ..= max), which panics when min > max, without the scores
\* that equal an excluded bound; then LIMIT offset count.
zrange_by_score(z, ord, min, max, offset, count) ==
    LET in == {s \in DOMAIN z.scores :
                  /\ min.score <= s /\ s <= max.score
                  /\ ~ (min.exclusive /\ s = min.score)
                  /\ ~ (max.exclusive /\ s = max.score)}
    IN  Take(Skip(InOrder(z, ord, in), offset), count)

\* ZCOUNT filters the other index.
zcount(z, min, max) ==
    Cardinality({m \in DOMAIN z.members :
                    AboveMin(min, z.members[m]) /\ BelowMax(max, z.members[m])})

\* The buckets below the member's score, then its place in its own.
zrank(z, ord, m) ==
    LET score == z.members[m]
        below == {s \in DOMAIN z.scores : s < score}
        ahead == {x \in z.scores[score] : ord[x] < ord[m]}
    IN  MapThenSumSet(LAMBDA s : Cardinality(z.scores[s]), below) + Cardinality(ahead)

-----------------------------------------------------------------------------

\* Every pair is in both indexes, in the bucket of its present score only, and
\* there is no empty bucket.
Mirrored(z) ==
    /\ \A m \in DOMAIN z.members : z.members[m] \in DOMAIN z.scores
    /\ \A s \in DOMAIN z.scores :
          /\ z.scores[s] # {}
          /\ z.scores[s] = {m \in DOMAIN z.members : z.members[m] = s}
=============================================================================
