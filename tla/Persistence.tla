---------------------------- MODULE Persistence ----------------------------
(***************************************************************************)
(* The append-only file and the RDB snapshot: a write is dispatched to the *)
(* store, then appended to the AOF, then answered (src/net/connection.rs,  *)
(* lines 168-208); BGREWRITEAOF (src/persist/aof.rs and aof_rewrite.rs);   *)
(* the background and shutdown snapshot (src/persist/rdb.rs, bgsave); and  *)
(* what a restarted server loads (src/server.rs, lines 30-42, replay_aof). *)
(*                                                                         *)
(* The server runs with appendonly yes.  A write is a SET of its own       *)
(* number, so that a value tells which write produced it; every other      *)
(* write command takes the same path, and so does a command the server     *)
(* refused, which a replay may then make; the writes here succeed.  All    *)
(* three appendfsync policies are alike: what "always" and "everysec" call *)
(* is File::flush, which hands over nothing, so the operating system       *)
(* writes back when it likes.  Only the temporary file of a rewrite is     *)
(* synced (sync_all); appended commands, the snapshot and the directory    *)
(* entries that remove_file and rename change are not.                     *)
(***************************************************************************)
EXTENDS Integers, Sequences, SequencesExt, FiniteSets

CONSTANTS Clients,         \* connections
          Keys,
          NumDbs,          \* databases 0 .. NumDbs - 1
          Vias,            \* how clients write: "plain", or through "exec"
          MaxWrites,       \* bound: writes issued
          MaxLog,          \* bound: length of the AOF up to which SELECT is issued
          MaxJobs,         \* bound: rewrites and snapshots begun
          MaxCrashes       \* bound: crashes

ASSUME KeysAssumption == IsFiniteSet(Keys)
ASSUME DbsAssumption == NumDbs \in Nat \ {0}
ASSUME ViasAssumption == Vias \subseteq {"plain", "exec"}
ASSUME PersistenceBounds == {MaxWrites, MaxLog, MaxJobs, MaxCrashes} \subseteq Nat

VARIABLES
    up,         \* the server runs
    store,      \* store[l]: the write whose value location l holds, 0 if none
    conn,       \* per connection: selected database, step, command in hand
    aof,        \* the file: there, its commands, how many are on the disk
    rewrite,    \* the BGREWRITEAOF under way and its temporary file
    saving,     \* the snapshot under way; since: the answered writes it started from
    rdb,        \* the snapshot file, likewise; whole: its checksum is right
    behind,     \* the files the disk may still hold in place of aof and of rdb
    jobs,       \* rewrites and snapshots begun
    crashes,    \* crashes so far
    where,      \* history: the location of each write issued
    before,     \* history: the writes answered before each write began
    logged,     \* history: writes that take the way through the AOF
    answered,   \* history: writes answered
    lost,       \* history: writes that were in the AOF, but not on the disk, when
                \* the power failed
    single,     \* history: no connection has selected a database other than 0
    intact      \* history: every crash so far left the AOF, uncut, and no snapshot

writeHist == <<where, before, logged, lost, intact>>
hist == <<writeHist, answered, single>>
persistenceVars == <<up, store, conn, aof, rewrite, saving, rdb, behind, jobs, crashes, hist>>

Dbs == 0 .. NumDbs - 1
Locations == Dbs \X Keys
Writes == 1 .. MaxWrites
NoData == [l \in Locations |-> 0]

SetCmd(k, w) == [op |-> "SET", key |-> k, arg |-> w]
SelectCmd(d) == [op |-> "SELECT", key |-> "", arg |-> d]
Torn == [op |-> "torn", key |-> "", arg |-> 0]

\* ClientContext::new starts in database 0.
NewConn == [db |-> 0, at |-> "idle", cmd |-> Torn, write |-> 0]
NoFile == [there |-> FALSE, log |-> <<>>, synced |-> 0]
NoRewrite == [at |-> "idle", db |-> 0, file |-> <<>>]
NotSaving == [at |-> "idle", db |-> 0, data |-> NoData, since |-> {}]
NoSnapshot == [there |-> FALSE, whole |-> TRUE, data |-> NoData, since |-> {}]

PersistenceInit ==
    /\ up = TRUE
    /\ store = NoData
    /\ conn = [c \in Clients |-> NewConn]
    /\ aof = [there |-> TRUE, log |-> <<>>, synced |-> 0]
    /\ rewrite = NoRewrite
    /\ saving = NotSaving
    /\ rdb = NoSnapshot
    /\ behind = [aof |-> {}, rdb |-> {}]
    /\ jobs = 0 /\ crashes = 0
    /\ where = <<>>
    /\ before = <<>>
    /\ logged = {}
    /\ answered = {}
    /\ lost = {}
    /\ single = TRUE
    /\ intact = TRUE

\* v is the answered write w, or one that w does not supersede: a write to the
\* same location that had not been answered before w began.
Covers(v, w) == v \in DOMAIN where /\ where[v] = where[w] /\ v \notin before[w]

-----------------------------------------------------------------------------
(* A connection: dispatch, append, reply. *)

\* Only the connection layer logs, and only write commands: what EXEC runs is
\* dispatched inside the handler of a command that is none.
Logged(via) == via = "plain"

set(c, k, via) ==
    /\ up /\ conn[c].at = "idle" /\ Len(where) < MaxWrites
    /\ LET w == Len(where) + 1
       IN  /\ store' = [store EXCEPT ![<<conn[c].db, k>>] = w]
           /\ conn' = [conn EXCEPT ![c].at = IF Logged(via) THEN "append" ELSE "reply",
                                   ![c].cmd = SetCmd(k, w), ![c].write = w]
           /\ where' = Append(where, <<conn[c].db, k>>)
           /\ before' = Append(before, answered)
           /\ logged' = IF Logged(via) THEN logged \cup {w} ELSE logged
    /\ UNCHANGED <<up, aof, rewrite, saving, rdb, behind, jobs, crashes, answered, lost, single, intact>>

select(c, d) ==
    /\ up /\ conn[c].at = "idle" /\ Len(aof.log) < MaxLog
    /\ conn' = [conn EXCEPT ![c].db = d, ![c].at = "append", ![c].cmd = SelectCmd(d)]
    /\ single' = (single /\ d = 0)
    /\ UNCHANGED <<up, store, aof, rewrite, saving, rdb, behind, jobs, crashes, writeHist, answered>>

\* Mutant: append does not take the file lock.
FileLockFreeAlways == TRUE

\* AofWriter's mutex, held by rewrite from start to end.
FileLockFree == rewrite.at = "idle"

append(c) ==
    /\ up /\ conn[c].at = "append" /\ FileLockFree
    /\ aof' = [aof EXCEPT !.log = Append(@, conn[c].cmd)]
    /\ conn' = [conn EXCEPT ![c].at = "reply"]
    /\ UNCHANGED <<up, store, rewrite, saving, rdb, behind, jobs, crashes, hist>>

reply(c) ==
    /\ up /\ conn[c].at = "reply"
    /\ conn' = [conn EXCEPT ![c].at = "idle", ![c].write = 0]
    /\ answered' = answered \cup ({conn[c].write} \ {0})
    /\ UNCHANGED <<up, store, aof, rewrite, saving, rdb, behind, jobs, crashes, writeHist, single>>

-----------------------------------------------------------------------------
(* BGREWRITEAOF, on a blocking thread that holds the file lock. *)

rewrite_begin ==
    /\ up /\ FileLockFree /\ Len(where) > 0 /\ jobs < MaxJobs
    /\ jobs' = jobs + 1
    /\ rewrite' = [at |-> "copy", db |-> 0, file |-> <<>>]
    /\ UNCHANGED <<up, store, conn, aof, saving, rdb, behind, crashes, hist>>

KeysIn(d) == {k \in Keys : store[<<d, k>>] # 0}

\* write_dataset for one database: SELECT when the server has several, and one
\* constructing command per key.  iterate_db copies the database in one step,
\* which is exact for one key per database; the shards of a DashMap are locked
\* one after the other.
DatasetOf(d) ==
    IF KeysIn(d) = {} THEN <<>>
    ELSE (IF NumDbs > 1 THEN <<SelectCmd(d)>> ELSE <<>>)
           \o [i \in 1 .. Cardinality(KeysIn(d)) |->
                 LET k == SetToSeq(KeysIn(d))[i] IN SetCmd(k, store[<<d, k>>])]

rewrite_copy ==
    /\ up /\ rewrite.at = "copy" /\ rewrite.db < NumDbs
    /\ rewrite' = [rewrite EXCEPT !.file = @ \o DatasetOf(rewrite.db), !.db = @ + 1]
    /\ UNCHANGED <<up, store, conn, aof, saving, rdb, behind, jobs, crashes, hist>>

\* What is on the disk of a file.
OnDisk(f) == [f EXCEPT !.log = SubSeq(@, 1, f.synced)]

\* The temporary file is complete and synced; the old file goes.
rewrite_remove ==
    /\ up /\ rewrite.at = "copy" /\ rewrite.db = NumDbs
    /\ aof' = NoFile
    /\ behind' = [behind EXCEPT !.aof = @ \cup {OnDisk(aof)}]
    /\ rewrite' = [rewrite EXCEPT !.at = "removed"]
    /\ UNCHANGED <<up, store, conn, saving, rdb, jobs, crashes, hist>>

\* The temporary file takes its name, the writer's handle follows it, and the
\* lock is released.
rewrite_rename ==
    /\ up /\ rewrite.at = "removed"
    /\ aof' = [there |-> TRUE, log |-> rewrite.file, synced |-> Len(rewrite.file)]
    /\ behind' = [behind EXCEPT !.aof = @ \cup {NoFile}]
    /\ rewrite' = NoRewrite
    /\ UNCHANGED <<up, store, conn, saving, rdb, jobs, crashes, hist>>

-----------------------------------------------------------------------------
(* bgsave: every database is copied, the file is written and renamed. *)

save_begin ==
    /\ up /\ saving.at = "idle" /\ jobs < MaxJobs
    /\ jobs' = jobs + 1
    /\ saving' = [at |-> "copy", db |-> 0, data |-> NoData,
                  since |-> {w \in answered : Covers(store[where[w]], w)}]
    /\ UNCHANGED <<up, store, conn, aof, rewrite, rdb, behind, crashes, hist>>

save_copy ==
    /\ up /\ saving.at = "copy" /\ saving.db < NumDbs
    /\ saving' = [saving EXCEPT !.db = @ + 1,
                     !.data = [l \in Locations |-> IF l[1] = saving.db THEN store[l] ELSE @[l]]]
    /\ UNCHANGED <<up, store, conn, aof, rewrite, rdb, behind, jobs, crashes, hist>>

\* The new file takes the old one's name; neither its contents nor the rename
\* are on the disk.
Snapshot == [there |-> TRUE, whole |-> TRUE, data |-> saving.data, since |-> saving.since]
Damaged == [there |-> TRUE, whole |-> FALSE, data |-> NoData, since |-> {}]

\* Mutant: the loop over the databases stops one short.
save_rename_early ==
    /\ up /\ saving.at = "copy" /\ saving.db >= NumDbs - 1
    /\ rdb' = Snapshot
    /\ behind' = [behind EXCEPT !.rdb = @ \cup {rdb, Damaged}]
    /\ saving' = NotSaving
    /\ UNCHANGED <<up, store, conn, aof, rewrite, jobs, crashes, hist>>

save_rename ==
    /\ up /\ saving.at = "copy" /\ saving.db = NumDbs
    /\ rdb' = Snapshot
    /\ behind' = [behind EXCEPT !.rdb = @ \cup {rdb, Damaged}]
    /\ saving' = NotSaving
    /\ UNCHANGED <<up, store, conn, aof, rewrite, jobs, crashes, hist>>

-----------------------------------------------------------------------------
(* Crashes and restarts. *)

\* The kernel writes everything back.
write_back ==
    /\ aof.synced < Len(aof.log) \/ behind.aof \cup behind.rdb # {}
    /\ aof' = [aof EXCEPT !.synced = Len(aof.log)]
    /\ behind' = [aof |-> {}, rdb |-> {}]
    /\ UNCHANGED <<up, store, conn, rewrite, saving, rdb, jobs, crashes, hist>>

CrashAllowed == up /\ crashes < MaxCrashes

Down ==
    /\ up' = FALSE /\ crashes' = crashes + 1
    /\ store' = NoData
    /\ conn' = [c \in Clients |-> NewConn]
    /\ rewrite' = NoRewrite /\ saving' = NotSaving
    /\ UNCHANGED <<jobs, where, before, logged, answered, single>>

\* The process dies; what was written stays.
kill ==
    /\ CrashAllowed
    /\ Down
    /\ intact' = (intact /\ aof.there /\ ~ rdb.there)
    /\ UNCHANGED <<aof, rdb, behind, lost>>

\* The writes that are in the AOF and not on the disk.
Unsynced == {aof.log[p].arg : p \in {q \in DOMAIN aof.log : q > aof.synced /\ aof.log[q].op = "SET"}}

\* The machine dies: the AOF keeps what is on the disk, possibly followed by a
\* part of the next command; of each file, an older one may be back.
power_failure(torn) ==
    /\ CrashAllowed
    /\ Down
    /\ rdb' \in {rdb} \cup behind.rdb
    /\ \/ /\ torn => aof.synced < Len(aof.log)
          /\ LET kept == OnDisk(aof).log \o (IF torn THEN <<Torn>> ELSE <<>>)
             IN  aof' = [aof EXCEPT !.log = kept, !.synced = Len(kept)]
          /\ intact' = (intact /\ aof.there /\ ~ rdb'.there /\ ~ torn)
       \/ /\ ~ torn /\ aof' \in behind.aof
          /\ intact' = FALSE
    /\ behind' = [aof |-> {}, rdb |-> {}]
    /\ lost' = lost \cup Unsynced

\* replay_aof dispatches the commands in their order, in one context for the
\* whole file, and stops where parsing stops: the commands it gets to, the
\* database each one meets, and what the last SET of a location leaves there.
Parsed(log) == {p \in DOMAIN log : \A q \in 1 .. p : log[q].op # "torn"}

SelectedAt(log, p) ==
    LET selects == {q \in 1 .. p - 1 : log[q].op = "SELECT"}
    IN  IF selects = {} THEN 0 ELSE log[Max(selects)].arg

SetsOf(log, l) ==
    {p \in Parsed(log) : log[p].op = "SET" /\ <<SelectedAt(log, p), log[p].key>> = l}

Replay(log) ==
    [l \in Locations |->
        LET sets == SetsOf(log, l) IN IF sets = {} THEN 0 ELSE log[Max(sets)].arg]

\* A snapshot file wins, and a damaged one means an empty store; the AOF is only
\* read when there is none.
Loaded == IF rdb.there THEN rdb.data ELSE IF aof.there THEN Replay(aof.log) ELSE NoData

restart ==
    /\ ~ up
    /\ up' = TRUE
    /\ store' = Loaded
    /\ aof' = [aof EXCEPT !.there = TRUE]    \* AofWriter::open creates the file
    /\ behind' = [behind EXCEPT !.aof = @ \cup (IF aof.there THEN {} ELSE {NoFile})]
    /\ UNCHANGED <<conn, rewrite, saving, rdb, jobs, crashes, hist>>

-----------------------------------------------------------------------------

PersistenceNext ==
    \/ \E c \in Clients, k \in Keys, via \in Vias : set(c, k, via)
    \/ \E c \in Clients, d \in Dbs : select(c, d)
    \/ \E c \in Clients : append(c) \/ reply(c)
    \/ rewrite_begin \/ rewrite_copy \/ rewrite_remove \/ rewrite_rename
    \/ save_begin \/ save_copy \/ save_rename
    \/ write_back \/ kill \/ restart
    \/ \E torn \in BOOLEAN : power_failure(torn)

PersistenceSpec == PersistenceInit /\ [][PersistenceNext]_persistenceVars

-----------------------------------------------------------------------------
(* Properties. *)

Keeps(data, ws) == \A w \in ws : Covers(data[where[w]], w)

\* What a running server holds is no older than the last answered write that was
\* logged, across restarts too, however dispatches and appends of several
\* connections, a rewrite and EXECs that are not logged interleave; except for
\* the writes a power failure found in the AOF but not on the disk, answered or
\* not (no policy of appendfsync syncs: aof.rs:54-57, 61-63), and until
\*  - a connection selects a second database, or
\*  - a crash comes between remove_file and rename, or cuts the AOF inside a
\*    command, or finds a snapshot file, which is then loaded instead of the
\*    newer AOF, or a power failure takes back the directory entry of the AOF.
StoreKeepsAnswered == up /\ intact /\ single => Keeps(store, (answered \cap logged) \ lost)

\* A snapshot file that a restarted server can load holds everything that was
\* answered, and in the store, before it was begun, whatever is written while
\* it copies one database after the other, and whichever file a power failure
\* leaves (bgsave).  It may leave one that cannot be loaded: nothing syncs it.
SnapshotKeepsAnswered == rdb.there /\ rdb.whole => Keeps(rdb.data, rdb.since)
=============================================================================
