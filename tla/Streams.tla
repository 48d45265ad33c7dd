------------------------------ MODULE Streams ------------------------------
(***************************************************************************)
(* One stream and one consumer group of it (src/store/memory.rs, the       *)
(* stream and consumer-group methods; src/cmd/stream.rs).                  *)
(*                                                                         *)
(* The stream is an entry of the database map and the group an entry of    *)
(* the separate consumer_groups map, so no lock spans the two: XADD reads  *)
(* the last id, checks against it and appends under three acquisitions,    *)
(* XREADGROUP > drops the group to read the stream and takes it again,     *)
(* XGROUP CREATE checks, creates and installs one after the other.  A      *)
(* stream whose time has come stays in the map, out of sight of entry(),   *)
(* until something removes it; the append of XADD finds it all the same.   *)
(* The answer-only commands (XRANGE, XREVRANGE, XLEN, XREAD, XPENDING)     *)
(* change no state and are left out; so are fields, times and delivery     *)
(* counts.                                                                 *)
(***************************************************************************)
EXTENDS Integers, Sequences, SequencesExt, FiniteSets

CONSTANTS Adders,      \* connections that issue XADD
          Readers,     \* connections that issue XREADGROUP
          Consumers,   \* consumer names
          Counts,      \* COUNTs of XREADGROUP
          MaxLens,     \* MAXLENs of XADD and XTRIM
          Starts,      \* explicit positions of XGROUP CREATE and SETID
          MaxMs,       \* bound: milliseconds of an id
          MaxSeq,      \* bound: sequence part of an id
          MaxAdds      \* bound: XADDs issued

ASSUME LengthsAssumption == Counts \subseteq Nat /\ MaxLens \subseteq Nat
ASSUME StreamBounds == MaxMs \in Nat /\ MaxSeq \in Nat /\ MaxAdds \in Nat

VARIABLES
    stream,     \* the entries and last_id, and whether the entry has expired;
                \* NoStream when the map has no such key
    group,      \* the consumer group; NoGroup when there is none
    adding,     \* adding[a]: where the XADD of connection a is
    reading,    \* reading[r]: where the XREADGROUP of connection r is
    creating,   \* where the XGROUP CREATE or SETID is
    adds,       \* XADDs issued
    answered,   \* history: ids answered to readers since the group was created
    steady,     \* history: the key has not expired, been deleted or put in place
                \* again, and the group has been created once at most
    raced,      \* history: an XADD appended to entries it was not checked against:
                \* another XADD was past its check, or it was checked while they
                \* were out of sight (expired)
    departed    \* history: consumers that were deleted, or whose group was replaced
                \* or destroyed, while an XREADGROUP of theirs was under way

streamVars == <<stream, group, adding, reading, creating, adds, answered, steady, raced,
                departed>>

Ids == (0 .. MaxMs) \X (0 .. MaxSeq)
Zero == <<0, 0>>
Below(i, j) == i[1] < j[1] \/ (i[1] = j[1] /\ i[2] < j[2])

NoStream == [entries |-> <<>>, last |-> Zero, there |-> FALSE, expired |-> FALSE]
EmptyStream == [entries |-> <<>>, last |-> Zero, there |-> TRUE, expired |-> FALSE]

\* entry() and entry_mut(): in the map and not expired.
InSight == stream.there /\ ~ stream.expired

NoPending == [i \in {} |-> ""]
NoGroup == [there |-> FALSE, start |-> Zero, cursor |-> Zero, consumers |-> {},
            pending |-> NoPending]

\* ConsumerGroup::new.  start remembers the position for the properties.
NewGroup(id) == [there |-> TRUE, start |-> id, cursor |-> id, consumers |-> {},
                 pending |-> NoPending]

\* blind: an expired stream was in the map when the id was checked.
Adding(at, id, blind) == [at |-> at, id |-> id, blind |-> blind]
NotAdding == Adding("idle", Zero, FALSE)
Reading(at, c, after) == [at |-> at, consumer |-> c, after |-> after, ids |-> {}, last |-> Zero]
NotReading == Reading("idle", "", Zero)
Creating(at, id) == [at |-> at, id |-> id]
NotCreating == Creating("idle", Zero)

StreamInit ==
    /\ stream = NoStream
    /\ group = NoGroup
    /\ adding = [a \in Adders |-> NotAdding]
    /\ reading = [r \in Readers |-> NotReading]
    /\ creating = NotCreating
    /\ adds = 0
    /\ answered = {}
    /\ steady = TRUE
    /\ raced = FALSE
    /\ departed = {}

-----------------------------------------------------------------------------
(* XADD. *)

\* <<0, 0>> for a key that is missing or has expired.
get_stream_last_id == IF InSight THEN stream.last ELSE Zero

\* "*": the clock, or the last id plus one when the clock is not past it.
AutoId(now) ==
    LET last == get_stream_last_id
    IN  IF now > last[1] THEN <<now, 0>> ELSE <<last[1], last[2] + 1>>

\* "ms-*".
PartialId(ms) ==
    LET last == get_stream_last_id
    IN  IF ms = 0 /\ last[2] = 0 THEN <<1, 0>>
        ELSE IF ms > last[1] THEN <<ms, 0>> ELSE <<ms, last[2] + 1>>

\* generate_stream_id: the ids a request may come out with.  The clock is the
\* system's and may step in either direction; 0-0 is refused.
generate_stream_id ==
    ({AutoId(now) : now \in 1 .. MaxMs} \cup {PartialId(ms) : ms \in 0 .. MaxMs}
        \cup (Ids \ {Zero})) \cap Ids

xadd_generate(a) ==
    /\ adding[a].at = "idle" /\ adds < MaxAdds
    /\ \E id \in generate_stream_id :
          adding' = [adding EXCEPT ![a] = Adding("check", id, FALSE)]
    /\ adds' = adds + 1
    /\ UNCHANGED <<stream, group, reading, creating, answered, steady, raced, departed>>

\* Mutant: the comparison lets an equal id through.
IdIsLargerOrEqual(id) == InSight => ~ Below(id, stream.last)

\* "Validate ID is greater than last": only of a stream that is in sight.
IdIsLarger(id) == InSight => Below(stream.last, id)

xadd_check(a) ==
    /\ adding[a].at = "check"
    /\ adding' = [adding EXCEPT ![a] = IF IdIsLarger(@.id)
                                       THEN Adding("append", @.id, stream.expired)
                                       ELSE NotAdding]
    /\ UNCHANGED <<stream, group, reading, creating, adds, answered, steady, raced, departed>>

\* MAXLEN ~ n and XTRIM: the oldest entries go.
Trimmed(s, n) == IF Len(s) > n THEN SubSeq(s, Len(s) - n + 1, Len(s)) ELSE s

\* db.entry().or_insert_with(): an expired stream is appended to as it is, and
\* stays expired.
xadd_append(a) ==
    /\ adding[a].at = "append"
    /\ \E n \in MaxLens :
          stream' = [stream EXCEPT !.there = TRUE, !.last = adding[a].id,
                                   !.entries = Trimmed(Append(@, adding[a].id), n)]
    /\ adding' = [adding EXCEPT ![a] = NotAdding]
    /\ raced' = \/ raced
                \/ \E b \in Adders \ {a} : adding[b].at = "append"
                \/ adding[a].blind /\ stream.there
    /\ UNCHANGED <<group, reading, creating, adds, answered, steady, departed>>

-----------------------------------------------------------------------------
(* Shrinking the stream. *)

xdel(id) ==
    /\ InSight
    /\ \E p \in DOMAIN stream.entries :
          /\ stream.entries[p] = id
          /\ \A q \in 1 .. p - 1 : stream.entries[q] # id
          /\ stream' = [stream EXCEPT !.entries = RemoveAt(@, p)]
    /\ UNCHANGED <<group, adding, reading, creating, adds, answered, steady, raced, departed>>

\* Store::xtrim.  The XTRIM command never gets here: its arity of 4 admits three
\* arguments and its handler wants four (stream.rs:15, 104).
xtrim(n) ==
    /\ InSight
    /\ stream' = [stream EXCEPT !.entries = Trimmed(@, n)]
    /\ UNCHANGED <<group, adding, reading, creating, adds, answered, steady, raced, departed>>

\* The time that an EXPIRE set has come: the entry stays in the map, unseen ...
expire_stream ==
    /\ InSight
    /\ stream' = [stream EXCEPT !.expired = TRUE]
    /\ steady' = FALSE
    /\ UNCHANGED <<group, adding, reading, creating, adds, answered, raced, departed>>

\* ... where PERSIST and EXPIRE still find it, and bring it back.
revive_stream ==
    /\ stream.there /\ stream.expired
    /\ stream' = [stream EXCEPT !.expired = FALSE]
    /\ UNCHANGED <<group, adding, reading, creating, adds, answered, steady, raced, departed>>

\* DEL of the key, expired or not, or its removal by the expiry cycle or an
\* eviction: the group stays behind.
del_stream ==
    /\ stream.there
    /\ stream' = NoStream
    /\ steady' = FALSE
    /\ UNCHANGED <<group, adding, reading, creating, adds, answered, raced, departed>>

-----------------------------------------------------------------------------
(* XGROUP. *)

\* xgroup_create, for CREATE and for SETID (which never has MKSTREAM): a key that
\* is missing or expired needs MKSTREAM and is then created ...
xgroup_create_check(mkstream) ==
    /\ creating.at = "idle"
    /\ InSight \/ mkstream
    /\ creating' = Creating(IF InSight THEN "position" ELSE "mkstream", Zero)
    /\ UNCHANGED <<stream, group, adding, reading, adds, answered, steady, raced, departed>>

\* ... whatever has been stored there since the check.
xgroup_create_mkstream ==
    /\ creating.at = "mkstream"
    /\ stream' = EmptyStream
    /\ steady' = (steady /\ ~ stream.there)
    /\ creating' = [creating EXCEPT !.at = "position"]
    /\ UNCHANGED <<group, adding, reading, adds, answered, raced, departed>>

\* An explicit position, or "$": get_stream_last_id.
xgroup_create_position(id) ==
    /\ creating.at = "position"
    /\ id \in Starts \cup {get_stream_last_id}
    /\ creating' = [creating EXCEPT !.at = "install", !.id = id]
    /\ UNCHANGED <<stream, group, adding, reading, adds, answered, steady, raced, departed>>

\* The consumers with an XREADGROUP under way.
InFlight == {reading[r].consumer : r \in {x \in Readers : reading[x].at \in {"read", "commit"}}}

\* A group of that name is replaced, consumers and pending entries included.
xgroup_create_install ==
    /\ creating.at = "install"
    /\ group' = NewGroup(creating.id)
    /\ answered' = {}
    /\ steady' = (steady /\ ~ group.there)
    /\ departed' = departed \cup InFlight
    /\ creating' = NotCreating
    /\ UNCHANGED <<stream, adding, reading, adds, raced>>

xgroup_destroy ==
    /\ group.there
    /\ group' = NoGroup
    /\ answered' = {}
    /\ steady' = FALSE
    /\ departed' = departed \cup InFlight
    /\ UNCHANGED <<stream, adding, reading, creating, adds, raced>>

xgroup_create_consumer(c) ==
    /\ group.there
    /\ group' = [group EXCEPT !.consumers = @ \cup {c}]
    /\ UNCHANGED <<stream, adding, reading, creating, adds, answered, steady, raced, departed>>

\* Mutant: DELCONSUMER leaves the consumer's pending entries.
OwnedByNone(c) == {}

OwnedBy(c) == {i \in DOMAIN group.pending : group.pending[i] = c}

xgroup_del_consumer(c) ==
    /\ group.there
    /\ group' = [group EXCEPT !.consumers = @ \ {c},
                              !.pending = Restrict(@, DOMAIN @ \ OwnedBy(c))]
    /\ departed' = departed \cup (InFlight \cap {c})
    /\ UNCHANGED <<stream, adding, reading, creating, adds, answered, steady, raced>>

-----------------------------------------------------------------------------
(* XREADGROUP, XACK, XCLAIM. *)

\* stream_entries: the positions of the entries in sight after an id.
Later(after) == {p \in DOMAIN stream.entries : InSight /\ Below(after, stream.entries[p])}

\* Mutant: COUNT takes the newest entries instead of the oldest.
stream_entries_newest(after, n) ==
    {p \in Later(after) : Cardinality({q \in Later(after) : q > p}) < n}

\* The positions of the first n of them.
stream_entries_after(after, n) ==
    {p \in Later(after) : Cardinality({q \in Later(after) : q < p}) < n}

\* Under the group's lock: the consumer is noted, the cursor is read.
xreadgroup_new(r, c) ==
    /\ reading[r].at = "idle" /\ group.there
    /\ group' = [group EXCEPT !.consumers = @ \cup {c}]
    /\ reading' = [reading EXCEPT ![r] = Reading("read", c, group.cursor)]
    /\ UNCHANGED <<stream, adding, creating, adds, answered, steady, raced, departed>>

\* Without it: the entries are copied; nothing new is answered as nil.
xreadgroup_entries(r, n) ==
    /\ reading[r].at = "read"
    /\ LET taken == stream_entries_after(reading[r].after, n)
       IN  reading' = [reading EXCEPT ![r] =
                          IF taken = {} THEN NotReading
                          ELSE [@ EXCEPT !.at = "commit",
                                         !.ids = {stream.entries[p] : p \in taken},
                                         !.last = stream.entries[Max(taken)]]]
    /\ UNCHANGED <<stream, group, adding, creating, adds, answered, steady, raced, departed>>

\* The pending entries after reader r's delivery.
PendingAfter(r, noack) ==
    LET new == IF noack THEN {} ELSE reading[r].ids
    IN  [i \in DOMAIN group.pending \cup new |->
            IF i \in new THEN reading[r].consumer ELSE group.pending[i]]

\* Under the lock again: cursor and pending entries, then the answer.
xreadgroup_commit(r, noack) ==
    /\ reading[r].at = "commit" /\ group.there
    /\ group' = [group EXCEPT !.cursor = reading[r].last, !.pending = PendingAfter(r, noack)]
    /\ answered' = answered \cup reading[r].ids
    /\ reading' = [reading EXCEPT ![r] = NotReading]
    /\ UNCHANGED <<stream, adding, creating, adds, steady, raced, departed>>

\* get_mut(..).unwrap() finds no group: the connection's task panics, and a new
\* connection may take its place.
xreadgroup_panic(r) ==
    /\ reading[r].at = "commit" /\ ~ group.there
    /\ reading' = [reading EXCEPT ![r] = NotReading]
    /\ UNCHANGED <<stream, group, adding, creating, adds, answered, steady, raced, departed>>

\* A history read only answers; XACK of ids that are not pending changes nothing.
xack(id) ==
    /\ id \in DOMAIN group.pending
    /\ group' = [group EXCEPT !.pending = Restrict(@, DOMAIN @ \ {id})]
    /\ UNCHANGED <<stream, adding, reading, creating, adds, answered, steady, raced, departed>>

\* idle: the entry has been pending for min_idle_ms.
xclaim(c, id, idle) ==
    /\ group.there
    /\ group' = [group EXCEPT !.consumers = @ \cup {c},
                              !.pending = [i \in DOMAIN @ |-> IF i = id /\ idle THEN c ELSE @[i]]]
    /\ UNCHANGED <<stream, adding, reading, creating, adds, answered, steady, raced, departed>>

-----------------------------------------------------------------------------

Add == \E a \in Adders : xadd_generate(a) \/ xadd_check(a) \/ xadd_append(a)

Shrink == (\E id \in Ids : xdel(id)) \/ (\E n \in MaxLens : xtrim(n))

Expire == expire_stream \/ revive_stream \/ del_stream

Group ==
    \/ \E mk \in BOOLEAN : xgroup_create_check(mk)
    \/ xgroup_create_mkstream
    \/ \E id \in Ids : xgroup_create_position(id)
    \/ xgroup_create_install
    \/ xgroup_destroy
    \/ \E c \in Consumers : xgroup_create_consumer(c) \/ xgroup_del_consumer(c)

Read ==
    \/ \E r \in Readers, c \in Consumers : xreadgroup_new(r, c)
    \/ \E r \in Readers, n \in Counts : xreadgroup_entries(r, n)
    \/ \E r \in Readers, noack \in BOOLEAN : xreadgroup_commit(r, noack)
    \/ \E r \in Readers : xreadgroup_panic(r)
    \/ \E id \in Ids : xack(id)
    \/ \E c \in Consumers, id \in Ids, idle \in BOOLEAN : xclaim(c, id, idle)

StreamNext == Add \/ Shrink \/ Expire \/ Group \/ Read

StreamSpec == StreamInit /\ [][StreamNext]_streamVars

-----------------------------------------------------------------------------
(* Properties. *)

StreamTypeOK ==
    /\ stream \in [there : BOOLEAN, expired : BOOLEAN, last : Ids, entries : Seq(Ids)]
    /\ group.there \in BOOLEAN /\ group.start \in Ids /\ group.cursor \in Ids
    /\ group.consumers \subseteq Consumers
    /\ DOMAIN group.pending \subseteq Ids /\ \A i \in DOMAIN group.pending : group.pending[i] \in Consumers
    /\ adding \in [Adders -> [at : {"idle", "check", "append"}, id : Ids, blind : BOOLEAN]]
    /\ \A r \in Readers :
          /\ reading[r].at \in {"idle", "read", "commit"}
          /\ reading[r].after \in Ids /\ reading[r].last \in Ids /\ reading[r].ids \subseteq Ids
          /\ reading[r].at \in {"read", "commit"} => reading[r].consumer \in Consumers
          /\ reading[r].at = "commit" <=> reading[r].ids # {}
    /\ answered \subseteq Ids /\ {steady, raced} \subseteq BOOLEAN

\* memory.rs:1211, "Validate ID is greater than last": the entries of a stream
\* are in strictly increasing order of id and none exceeds last_id, whatever is
\* deleted, trimmed, put in place, expired or brought back between the three
\* steps of an XADD, with two exceptions: two XADDs were between check and append
\* at the same time, or an XADD was checked while the stream had expired and
\* appended to the old entries, which were still in the map.
IdsIncrease ==
    LET s == stream.entries
    IN  ~ raced => /\ \A p \in 1 .. Len(s) - 1 : Below(s[p], s[p + 1])
                   /\ s # <<>> => ~ Below(stream.last, Last(s))

\* The group's cursor never passes an entry that no consumer was given: what is
\* still in the stream between the group's start and its cursor was answered to
\* some XREADGROUP, however the reads of several connections overlap (xreadgroup
\* takes cursor, entries and group under three acquisitions), as long as the key
\* and the group stay the ones they were and the entries are in order.
NothingSkipped ==
    steady /\ ~ raced /\ group.there
        => \A id \in Range(stream.entries) :
              Below(group.start, id) /\ ~ Below(group.cursor, id) => id \in answered

\* A pending entry belongs to a consumer the group has (XPENDING and XCLAIM read
\* the list, DELCONSUMER clears it by name), over XREADGROUP, XACK, XCLAIM and
\* DELCONSUMER in any order; with one exception: the consumer was deleted, or the
\* group replaced, while an XREADGROUP of that consumer was between noting it and
\* adding what it read (xreadgroup, memory.rs:1448-1471).
PendingHasOwner ==
    \A i \in DOMAIN group.pending : group.pending[i] \in group.consumers \cup departed
=============================================================================
