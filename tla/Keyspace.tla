------------------------------ MODULE Keyspace ------------------------------
(***************************************************************************)
(* One database of string keys with times to live: the commands of         *)
(* src/cmd/string.rs and src/cmd/generic.rs that look at a key before they *)
(* write it, the store methods they call, and the two loops that collect   *)
(* expired keys and then remove them (src/store/memory.rs: dbsize,         *)
(* active_expire_cycle; src/server.rs, start_active_expiry_task).          *)
(*                                                                         *)
(* A DashMap operation on one key is atomic and nothing spans two of them. *)
(* Every value written gets an id of its own, so that it can be followed.  *)
(* The map iterates in an order its hash function fixes: here the order of *)
(* the numbers that stand for the keys.                                    *)
(***************************************************************************)
EXTENDS Integers, Sequences, FiniteSets, FiniteSetsExt

CONSTANTS Clients,
          Keys,         \* a set of numbers
          Mixes,        \* sets of commands: the clients of a behaviour keep to one
          SampleSize,   \* SAMPLE_SIZE of the expiry task
          MaxTtl,       \* bound: ticks a time to live has
          MaxIds        \* bound: values written

AllOps == {"SET", "NX", "XX", "INCR", "MSET", "DEL", "EXPIRE", "PERSIST", "RENAME",
           "RENAMENX", "FLUSHDB", "DBSIZE"}

ASSUME KeysAssumption == Keys \subseteq Nat /\ Keys # {} /\ IsFiniteSet(Keys)
ASSUME MixesAssumption == Mixes \subseteq SUBSET AllOps
ASSUME SampleAssumption == SampleSize \in Nat \ {0}
ASSUME BoundAssumption == MaxTtl \in Nat /\ MaxIds \in Nat

VARIABLES
    ops,      \* the mix of this behaviour
    db,       \* db[k]: id of the value (0: no entry), ticks left to expire_at
    conn,     \* conn[c]: the command a client is in the middle of
    reap,     \* reap[r]: the expired keys someone has collected
    minted,   \* ids given out so far
    dead,     \* history: ids deleted, overwritten or removed
    fresh,    \* history: fresh[r]: keys written since r collected
    flush     \* history: ids up to before were written before a FLUSHDB that is
              \* over; carried were in the hand of a RENAME during one

vars == <<ops, db, conn, reap, minted, dead, fresh, flush>>

\* Who removes expired keys: the background cycle and a DBSIZE.
Reapers == {"cycle", "dbsize"}

NoTtl == -1    \* expire_at is None
None == [id |-> 0, exp |-> NoTtl]
Idle == [at |-> "idle", key |-> 0, to |-> 0, exp |-> NoTtl, hand |-> None, rest |-> <<>>]
NotReaping == [at |-> "idle", keys |-> {}, n |-> 0]

Init ==
    /\ ops \in Mixes
    /\ db = [k \in Keys |-> None]
    /\ conn = [c \in Clients |-> Idle]
    /\ reap = [r \in Reapers |-> NotReaping]
    /\ minted = 0
    /\ dead = {}
    /\ fresh = [r \in Reapers |-> {}]
    /\ flush = [before |-> 0, carried |-> {}]

There(k) == db[k].id # 0

\* expire_at <= now
expired(e) == e.exp = 0

\* Store::exists, and what get finds.
Live(k) == There(k) /\ ~ expired(db[k])

-----------------------------------------------------------------------------
(* Changes of one entry. *)

Written(k) == fresh' = [r \in Reapers |-> IF reap[r].at = "idle" THEN {} ELSE fresh[r] \cup {k}]

\* Store::set: value, expire_at; a new id, and the old value is gone.
Put(k, exp) ==
    /\ minted < MaxIds
    /\ minted' = minted + 1
    /\ db' = [db EXCEPT ![k] = [id |-> minted + 1, exp |-> exp]]
    /\ dead' = dead \cup ({db[k].id} \ {0})
    /\ Written(k)

\* Mutant: the clone of the entry is left where it was.
TakeClone(k) ==
    /\ UNCHANGED <<db, dead, minted, fresh>>

\* DashMap::remove, handing the entry to the caller.
Take(k) ==
    /\ db' = [db EXCEPT ![k] = None]
    /\ UNCHANGED <<dead, minted, fresh>>

Drop(k) ==
    /\ db' = [db EXCEPT ![k] = None]
    /\ dead' = dead \cup ({db[k].id} \ {0})

-----------------------------------------------------------------------------
(* Commands.  The first step dispatches one, what needs a look at the key   *)
(* first goes on in a second or third.                                      *)

Exps == {NoTtl} \cup 1 .. MaxTtl

Free(c, op) == conn[c].at = "idle" /\ op \in ops

set(c, k, exp) ==
    /\ Free(c, "SET")
    /\ Put(k, exp)
    /\ UNCHANGED <<ops, conn, reap, flush>>

\* SET .. NX / XX: exists first; the condition fails and nil is answered, or
\* the write follows.
set_check(c, k, exp, op) ==
    /\ Free(c, op) /\ op \in {"NX", "XX"}
    /\ Live(k) <=> op = "XX"
    /\ conn' = [conn EXCEPT ![c] = [Idle EXCEPT !.at = "write", !.key = k, !.exp = exp]]
    /\ UNCHANGED <<ops, db, reap, minted, dead, fresh, flush>>

\* INCR, DECR, APPEND, SETRANGE, GETSET: get, then set without a TTL.
incr_read(c, k) ==
    /\ Free(c, "INCR")
    /\ conn' = [conn EXCEPT ![c] = [Idle EXCEPT !.at = "write", !.key = k]]
    /\ UNCHANGED <<ops, db, reap, minted, dead, fresh, flush>>

write(c) ==
    /\ conn[c].at = "write"
    /\ Put(conn[c].key, conn[c].exp)
    /\ conn' = [conn EXCEPT ![c] = Idle]
    /\ UNCHANGED <<ops, reap, flush>>

\* MSET: one set after the other, without a TTL.
mset(c, ks) ==
    /\ Free(c, "MSET")
    /\ conn' = [conn EXCEPT ![c] = [Idle EXCEPT !.at = "mset", !.rest = ks]]
    /\ UNCHANGED <<ops, db, reap, minted, dead, fresh, flush>>

mset_next(c) ==
    /\ conn[c].at = "mset"
    /\ Put(Head(conn[c].rest), NoTtl)
    /\ conn' = [conn EXCEPT ![c] = IF Len(conn[c].rest) = 1 THEN Idle
                                    ELSE [conn[c] EXCEPT !.rest = Tail(@)]]
    /\ UNCHANGED <<ops, reap, flush>>

del(c, k) ==
    /\ Free(c, "DEL") /\ There(k)
    /\ Drop(k)
    /\ UNCHANGED <<ops, conn, reap, minted, fresh, flush>>

\* EXPIRE, PEXPIRE, EXPIREAT, PEXPIREAT: set_expire does not ask whether the
\* entry has expired.
expire(c, k, exp) ==
    /\ Free(c, "EXPIRE") /\ There(k)
    /\ db' = [db EXCEPT ![k].exp = exp]
    /\ Written(k)
    /\ UNCHANGED <<ops, conn, reap, minted, dead, flush>>

persist(c, k) ==
    /\ Free(c, "PERSIST") /\ There(k)
    /\ db' = [db EXCEPT ![k].exp = NoTtl]
    /\ Written(k)
    /\ UNCHANGED <<ops, conn, reap, minted, dead, flush>>

\* RENAME and RENAMENX: exists of the target (RENAMENX), exists of the source.
rename_cmd(c, k, to) ==
    /\ Free(c, "RENAME") /\ Live(k)
    /\ conn' = [conn EXCEPT ![c] = [Idle EXCEPT !.at = "take", !.key = k, !.to = to]]
    /\ UNCHANGED <<ops, db, reap, minted, dead, fresh, flush>>

renamenx(c, k, to) ==
    /\ Free(c, "RENAMENX") /\ ~ Live(to)
    /\ conn' = [conn EXCEPT ![c] = [Idle EXCEPT !.at = "source", !.key = k, !.to = to]]
    /\ UNCHANGED <<ops, db, reap, minted, dead, fresh, flush>>

renamenx_source(c) ==
    /\ conn[c].at = "source"
    /\ conn' = [conn EXCEPT ![c] = IF Live(conn[c].key) THEN [conn[c] EXCEPT !.at = "take"] ELSE Idle]
    /\ UNCHANGED <<ops, db, reap, minted, dead, fresh, flush>>

Flushing == \E c \in Clients : conn[c].at = "flush"

\* The history of what a RENAME takes while a FLUSHDB is under way.
Carried(ids) == IF Flushing THEN [flush EXCEPT !.carried = @ \cup ids] ELSE flush

\* Store::rename: remove, an error if it has gone meanwhile ...
rename_take(c) ==
    /\ conn[c].at = "take"
    /\ IF There(conn[c].key)
       THEN /\ Take(conn[c].key)
            /\ flush' = Carried({db[conn[c].key].id})
            /\ conn' = [conn EXCEPT ![c].at = "insert", ![c].hand = db[conn[c].key]]
       ELSE /\ conn' = [conn EXCEPT ![c] = Idle]
            /\ UNCHANGED <<db, minted, dead, fresh, flush>>
    /\ UNCHANGED <<ops, reap>>

\* ... then insert over whatever is there.
rename_insert(c) ==
    /\ conn[c].at = "insert"
    /\ db' = [db EXCEPT ![conn[c].to] = conn[c].hand]
    /\ dead' = dead \cup ({db[conn[c].to].id} \ {0})
    /\ Written(conn[c].to)
    /\ conn' = [conn EXCEPT ![c] = Idle]
    /\ UNCHANGED <<ops, reap, minted, flush>>

\* FLUSHDB and FLUSHALL: DashMap::clear empties one shard after the other, here
\* one key each, in the order of the map; to is the last value written before.
flushdb(c) ==
    /\ Free(c, "FLUSHDB")
    /\ conn' = [conn EXCEPT ![c] = [Idle EXCEPT !.at = "flush", !.key = Min(Keys), !.to = minted]]
    /\ flush' = [flush EXCEPT !.carried = @ \cup ({conn[o].hand.id : o \in Clients} \ {0})]
    /\ UNCHANGED <<ops, db, reap, minted, dead, fresh>>

\* The keys of the shards that are still to be emptied.
Shards(c) == {k \in Keys : k >= conn[c].key}

clear_shard(c) ==
    /\ conn[c].at = "flush" /\ Shards(c) # {}
    /\ Drop(Min(Shards(c)))
    /\ conn' = [conn EXCEPT ![c].key = Min(Shards(c)) + 1]
    /\ UNCHANGED <<ops, reap, minted, fresh, flush>>

flushed(c) ==
    /\ conn[c].at = "flush" /\ Shards(c) = {}
    /\ flush' = [flush EXCEPT !.before = Max({@, conn[c].to})]
    /\ conn' = [conn EXCEPT ![c] = Idle]
    /\ UNCHANGED <<ops, db, reap, minted, dead, fresh>>

-----------------------------------------------------------------------------
(* Removing expired keys. *)

Volatile == {k \in Keys : There(k) /\ db[k].exp # NoTtl}

\* Mutant: the sample is one key short.
SampleShort == {k \in Volatile : Cardinality({j \in Volatile : j < k}) < SampleSize - 1}

\* take(sample_size), in the map's order, before the expired ones are picked.
Sample == {k \in Volatile : Cardinality({j \in Volatile : j < k}) < SampleSize}

\* Mutant: the whole sample is removed.
CollectedUnfiltered(r) == IF r = "cycle" THEN Sample ELSE {k \in Keys : There(k) /\ expired(db[k])}

Collected(r) ==
    {k \in (IF r = "cycle" THEN Sample ELSE Keys) : There(k) /\ expired(db[k])}

collect(r) ==
    /\ reap[r].at = "idle"
    /\ r = "dbsize" => "DBSIZE" \in ops
    /\ Collected(r) # {}
    /\ reap' = [reap EXCEPT ![r] = [at |-> "remove", keys |-> Collected(r),
                                    n |-> Cardinality(Collected(r))]]
    /\ fresh' = [fresh EXCEPT ![r] = {}]
    /\ UNCHANGED <<ops, db, conn, minted, dead, flush>>

remove_key(r, k) ==
    /\ reap[r].at = "remove" /\ k \in reap[r].keys
    /\ Drop(k)
    /\ reap' = [reap EXCEPT ![r].keys = @ \ {k}]
    /\ UNCHANGED <<ops, conn, minted, fresh, flush>>

\* The cycle samples again while more than a quarter of the sample was expired.
AnotherRound(r) == r = "cycle" /\ reap[r].n * 4 > SampleSize

removed(r) ==
    /\ reap[r].at = "remove" /\ reap[r].keys = {}
    /\ LET more == IF AnotherRound(r) THEN Collected(r) ELSE {}
       IN  reap' = [reap EXCEPT ![r] = IF more = {} THEN NotReaping
                       ELSE [at |-> "remove", keys |-> more, n |-> Cardinality(more)]]
    /\ fresh' = [fresh EXCEPT ![r] = {}]
    /\ UNCHANGED <<ops, db, conn, minted, dead, flush>>

\* A point of time comes one tick nearer.
Nearer(exp) == IF exp > 0 THEN exp - 1 ELSE exp

\* Time passes, for the entries and for the times a command has worked out.
tick ==
    /\ db' = [k \in Keys |-> [db[k] EXCEPT !.exp = Nearer(@)]]
    /\ conn' = [c \in Clients |-> [conn[c] EXCEPT !.exp = Nearer(@), !.hand.exp = Nearer(@)]]
    /\ UNCHANGED <<ops, reap, minted, dead, fresh, flush>>

-----------------------------------------------------------------------------

Command(c) ==
    \/ \E k \in Keys, e \in Exps : set(c, k, e)
    \/ \E k \in Keys, e \in 0 .. MaxTtl : expire(c, k, e)
    \/ \E k \in Keys, e \in Exps, op \in {"NX", "XX"} : set_check(c, k, e, op)
    \/ \E k \in Keys : incr_read(c, k) \/ del(c, k) \/ persist(c, k)
    \/ \E k, to \in Keys : rename_cmd(c, k, to) \/ renamenx(c, k, to) \/ mset(c, <<k, to>>)
    \/ flushdb(c)

Continue(c) ==
    \/ write(c) \/ mset_next(c)
    \/ renamenx_source(c) \/ rename_take(c) \/ rename_insert(c)
    \/ clear_shard(c) \/ flushed(c)

ReapStep(r) == collect(r) \/ removed(r) \/ \E k \in Keys : remove_key(r, k)

Next ==
    \/ \E c \in Clients : Command(c) \/ Continue(c)
    \/ \E r \in Reapers : ReapStep(r)
    \/ tick

Spec == Init /\ [][Next]_vars

\* The expiry task wakes up every 100 ms and its cycle runs to the end; a
\* command under way goes on; time passes.  Nobody is obliged to send DBSIZE.
FairSpec ==
    /\ Spec
    /\ WF_vars(tick)
    /\ WF_vars(ReapStep("cycle"))
    /\ WF_vars(removed("dbsize") \/ \E k \in Keys : remove_key("dbsize", k))
    /\ \A c \in Clients : WF_vars(Continue(c))

-----------------------------------------------------------------------------
(* Properties. *)

Entries == [id : Nat, exp : {NoTtl} \cup Nat]

Steps == {"idle", "write", "mset", "source", "take", "insert", "flush"}

Connections == [at : Steps, key : Nat, to : Nat, exp : {NoTtl} \cup Nat, hand : Entries, rest : Seq(Keys)]

TypeOK ==
    /\ db \in [Keys -> Entries]
    /\ conn \in [Clients -> Connections]
    /\ reap \in [Reapers -> [at : {"idle", "remove"}, keys : SUBSET Keys, n : Nat]]
    /\ fresh \in [Reapers -> SUBSET Keys]
    /\ minted \in Nat /\ dead \subseteq 1 .. minted
    /\ flush \in [before : 0 .. minted, carried : SUBSET Nat]

\* Every value that was written is in exactly one place: under one key, in the
\* hand of one RENAME between its remove and its insert, or gone because it was
\* deleted, overwritten or removed; concurrent renames, reapers and writers
\* neither duplicate nor lose one, and none outlives a FLUSHDB unless a RENAME
\* carried it past the shards that were being emptied (rename, set, del,
\* flushdb, active_expire_cycle).
ValuesConserved ==
    /\ \A i \in 1 .. minted :
          Cardinality({k \in Keys : db[k].id = i})
            + Cardinality({c \in Clients : conn[c].hand.id = i})
            + (IF i \in dead THEN 1 ELSE 0) = 1
    /\ \A k \in Keys : There(k) /\ db[k].id <= flush.before => db[k].id \in flush.carried

\* The removal of expired keys takes a live value only when the key was written
\* again after it had been collected (dbsize, active_expire_cycle).
LostOnlyIfRewritten ==
    [][\A r \in Reapers, k \in Keys :
          k \in reap[r].keys /\ k \notin reap'[r].keys /\ Live(k) => k \in fresh[r]]_vars

\* CHANGELOG.md:11: the cycle "Fixes memory leak where expired keys were only
\* removed when accessed": an expired entry does not stay in the map for ever,
\* whatever is written, renamed and given a new time under the cycle, unless the
\* map holds more volatile keys than one sample takes (active_expire_cycle).
ExpiredIsRemoved ==
    \A k \in Keys :
        (There(k) /\ expired(db[k]))
            ~> (~ (There(k) /\ expired(db[k])) \/ Cardinality(Volatile) > SampleSize)
=============================================================================
