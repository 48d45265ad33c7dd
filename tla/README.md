# A TLA+ model of VeloDB

VeloDB is an in-memory, Redis-compatible store in Rust: many connections, each a
tokio task, work on one `Store` of DashMaps; background tasks expire keys, keep the
memory limit, write the append-only file and snapshots, and feed replicas. There is no
global lock and no command loop that serialises commands. What one connection may see of
another is decided by which map operations a command consists of and where it lets a
lock go, and that is what these modules model.

Source paths below are relative to the repository root; `memory.rs` is
`src/store/memory.rs`.

## 1. The system

| Part | State it keeps | Operations | Meets | Hard behaviour |
|---|---|---|---|---|
| Replication backlog (`src/replication/backlog.rs`) | ring, write position, global offset, list of senders | push, read_from, can_serve_partial, register, unregister | every writing connection, every PSYNC session | wrap-around; attach against concurrent push |
| Master side of PSYNC (`master.rs`) | phase of the session, channel | CONTINUE, FULLRESYNC with snapshot and gap, streaming | backlog, snapshot, socket | writes during the transfer; broken sockets |
| Replica (`replica.rs`) | replication id, offset | handshake, load, apply, reconnect | its own store | offset accounting over reconnects |
| Connection loop (`src/net/connection.rs`, over `src/resp/parser.rs`) | read buffer; `ClientContext`: database, authentication, MULTI queue, watches, block request, subscriptions | read, parse, AUTH, HELLO, refuse, queue, dispatch, AOF append, backlog push, parking; a second loop while subscribed | everything | dispatch, append and push are separate steps; reads end inside a command; what one command leaves in the context meets the next |
| Transactions (`src/cmd/transaction.rs`) | queue, watched keys with versions | MULTI, EXEC, DISCARD, WATCH, UNWATCH | version counter of entries, expiry | EXEC is not isolated; an expired key reads as version 0 |
| Blocking pops (`src/cmd/list.rs`, `BlockRegistry`) | waiters per key | BLPOP, BRPOP, notify | pushes, timers | lost wake-ups, races for one element |
| Streams (`src/cmd/stream.rs`, `memory.rs`) | entries, last id; groups with cursor and pending list in a second map | XADD, XDEL, XTRIM, XGROUP, XREADGROUP, XACK, XCLAIM | two maps without a common lock | overlapping XADDs and XREADGROUPs; a stream that has expired and is still in the map |
| AOF (`src/persist/aof.rs`, `aof_rewrite.rs`, `server.rs`) | file, file lock | append, rewrite, replay | all writers, rewrite task | crash at any step; what of it was on the disk |
| Snapshots (`src/persist/rdb.rs`) | file | save, load | all writers, full sync | copy while writing |
| Key space and expiry (`src/cmd/string.rs`, `generic.rs`) | entries with deadlines | SET NX/XX, INCR, MSET, RENAME, EXPIRE, PERSIST, DEL, FLUSHDB, expiry cycle, DBSIZE | each other | look, then write |
| SCAN (`memory.rs`) | registry of cursors | scan_keys | writers, other scans | changes between pages; full registry |
| maxmemory (`memory.rs`, `server.rs`, `src/cmd/mod.rs`) | cached usage | memory cycle, eviction, refusal | writers | stale estimate, candidate gone |
| Data types (`memory.rs`, `src/cmd/*.rs`) | one value: string, list, set, hash, nested hash, sorted set | the type's commands | rewrite, snapshot | index arithmetic, two indexes of a sorted set, an unbounded loop |
| Publish/subscribe (`src/cmd/pubsub.rs`, `PubSubRegistry`) | vectors of senders per channel and pattern | SUBSCRIBE, PSUBSCRIBE, their opposites, PUBLISH | connections | dead senders noted under one lock and removed by index under another; the pattern match |
| Lua scripts (`src/cmd/lua.rs`) | cache of scripts | EVAL, EVALSHA, SCRIPT LOAD, SCRIPT FLUSH | dispatch, with a context of its own | a lock on the cache held while the script runs |
| Serializer, configuration, TLS, listener, shard router, cluster stubs, CLI | - | - | - | - |

The hazards of each part, at the line where they bite, are in `PROJECT.json`.

## 2. Modules

| Module | Models | Checked by | Proved in |
|---|---|---|---|
| `ReplLog` | abstract specification of a replication log: a stream, attached readers, each of which has the stream from its attach point | `Backlog` | `LogProofs` |
| `Backlog` | the ring and its senders, with the attach section of `handle_psync`; implements `ReplLog` | `Backlog` | `LogProofs` |
| `Replication` | master with concurrent writers, PSYNC session, socket, replica, reconnects and a restart of the master | `Replication`, `ReplicationResume` | `ReplicationProofs` |
| `Transactions` | MULTI/EXEC/WATCH and versions | `Transactions` | `TransactionsProofs` |
| `Blocking` | BLPOP/BRPOP, registry, pushes, timers | `Blocking` | `BlockingProofs` |
| `Streams` | one stream, one consumer group | `Streams` | `DataTypesProofs` |
| `Persistence` | store, AOF, rewrite, snapshot, crash, restart | `Persistence` | `LogProofs` |
| `Keyspace` | string keys with TTL, commands of several steps, expiry cycle | `Keyspace` | `KeyspaceProofs` |
| `Scan` | scan_keys with its registry | `Scan` | `ScanProofs` |
| `Eviction` | memory cycle and refusals | `Eviction` | - |
| `PubSub` | the registry of senders and the pattern match | `Connection` | `ConnectionProofs` |
| `Connection` | buffer, parsing, AUTH, queueing, both loops, subscribing and publishing, scripts; extends `PubSub` | `Connection` | `ConnectionProofs` |
| `SortedSet`, `DataTypes` | all commands on one value; rewriting and reloading it | `DataTypes` | `DataTypesProofs` |

`MC*` modules only define the constants of the runs (and, in `MCBacklog`, the byte loop
of `push` as the reference for the closed form of `Backlog`). `Replication` takes all its constants
from the configuration and is run as it is.

Conventions. A step is what one lock acquisition, one DashMap operation or one await
covers; a command that releases its entry and takes it again is several actions with the
connection's position in `at` or `phase`. Names are the code's. Variables marked
*history* exist in the model only: they record what was answered, deleted, or whether two
operations overlapped, so that a property can relate now to then. Definitions marked
*Mutant* are plausible wrong versions of the definition after them; they are not part of
the model and show that the properties notice such a mistake.

How state and actions correspond to the code:

- **Backlog.** `buffer`, `write_pos`, `global_offset` are the fields; `stream` is the
  history of all bytes. `push` is one action under the mutex (the byte loop in closed form,
  `ClosedFormIsLoop` compares the two in every state), `psync_attach` is the section of
  `handle_psync` that decides, reads and registers under one acquisition, `drop_receiver`
  is the end of a session whose sender stays behind until a push finds it dead.
- **Replication.** Dispatch and push are two steps of a connection. Writes are RPUSHes of
  distinct elements to one list, numbered in the order of dispatch, so that a lost, doubled or
  reordered write shows. A read of the replica may end inside a command (`ReadCut`): the parser
  reports an error for the first part, the replica clears its buffer, and the rest is thrown away with
  what follows in the same read (`ReadRest`) or never consumed (`ReadStuck`); `missed` has what was thrown
  away, `skewed` whatever makes the lists differ for good. The
  backlog is abstracted to the stream with the last `Capacity` positions readable, which is
  what `ReplLog`/`WindowIsExact` justify. The socket is a queue that may break.
- **Transactions.** `exec` is taken apart into one comparison or one dispatch per step. An entry's `expire` is
  never, later or past: SET with PX, EXPIRE and PERSIST set it, `key_expires` is the moment it passes, and the expiry
  cycle collects and removes in two steps (`victims`). `get_version` reads 0 for an entry that is absent or past.
  `mods` of a watched key has what happened to the key since WATCH.
- **Blocking.** Pop of one key, `register`, creation of the `Notified` future, push, clearing
  of the waiters, wake-up of each of them, timer and `unregister` are separate steps. tokio's
  `notify_waiters` reaches only futures that exist. `vanish` is the socket that dies while its
  client is parked; the pop goes on and what it takes is lost.
- **Streams.** XADD is three acquisitions (last id, check, append), XREADGROUP three (cursor,
  entries, commit), XGROUP CREATE checks, creates and installs. An expired stream stays in the map until
  it is removed: XADD's look and check do not see it (`blind`), its append does, and EXPIRE or PERSIST bring it back
  (`expire_stream`, `revive_stream`). Where the group has been destroyed between cursor and commit the `unwrap` panics,
  which ends that connection (`xreadgroup_panic`).
- **Persistence.** A write is a SET with a number of its own. `append`, `rewrite_*` and
  `save_*` follow the files: temporary copy, `remove_file`, `rename`; `write_back` is the
  operating system's write-out. Nothing but the temporary file of a rewrite is synced: of the AOF `synced` commands
  are on the disk, under every `appendfsync` policy, and `behind` has the files the disk may still hold in place of the AOF and
  of the snapshot, because neither a rename nor a removal nor a snapshot's content is synced. `kill` loses the process.
  `power_failure` keeps the part of the AOF on the disk, with or without a torn command, or brings back one of `behind`, which
  may be a snapshot that cannot be loaded (`whole`); answers stay given, and the writes that are gone are recorded in
  `lost`. `restart` loads the snapshot if there is one, an empty store if it is damaged, and else replays the AOF.
- **Keyspace.** Every value written has an id. Commands that look before they write are two
  steps; RENAME removes, then inserts; MSET sets key after key; FLUSHDB clears the map shard by shard in
  the map's order, with a shard for each key. The values that a RENAME holds in its hand when a FLUSHDB passes are
  `Carried`. A run chooses one of several mixes of commands at the start (`ops`).
- **Scan.** Collecting the page, measuring the registry (`scan_len`), emptying it (`scan_clear`), inserting the cursor
  and filtering are separate: whoever found the registry full empties it, whatever others have done since.
- **Connection.** The socket is the sequence of commands a client is going to send. A read takes any
  number of them and may end inside one, whose parts are then `head` and `tail` (parse errors) or `head`
  and `args` (the rest parses as a value that is not an array, for which `parse_command` has no
  arguments). `handle` is a program counter `at`: read, loop, run, parked, and the steps of PUBLISH and of a
  script. A context field that outlives its command (block request, receiver, queue, mode) is a
  field of `conn[c]`. BLPOP and EXEC, which `Blocking` and `Transactions` take apart, are
  plain here; WATCH is left to `Transactions`. A write, a script and a
  script's call may be made or refused (`ok`); the loop appends and pushes either way. A script makes one call, with a context of its own; EVALSHA holds the read lock of
  the cache until the script has run.
- **PubSub.** A sender is a connection and a number; it is alive while the connection holds the receiver of
  that number. PUBLISH sends and notes dead indices under a read lock, removes them under the write
  lock, then sends to matching patterns. `simple_match` is the loop of the code, `Glob` its reference.
- **Eviction.** The scan goes database by database, a candidate is chosen and later removed.
- **DataTypes.** One action per command on one key, under the entry's lock; SRANDMEMBER's loop
  has a step per probe. A bucket of a sorted set is a HashSet, so the reads are checked for
  every order of iteration.

## 3. Runs

| Run | Result | What it shows | Size |
|---|---|---|---|
| `Backlog` | pass | the ring serves exactly the stream; feeds have no gap; closed form = loop; implements `ReplLog` | 247 thousand states |
| `Replication` | pass | no full sync misses a write; partial sync is exact; the replica's offset counts what it took; an undisturbed replica ends with the master's list; full sync delivers | 358 thousand |
| `Transactions` | pass | EXEC runs what was queued; an overwritten watched key aborts unless it was deleted or expired; nothing aborts but a key that was changed or expired; all with keys that expire | 646 thousand |
| `Blocking` | pass | each element once; no stale waiter; one window loses wake-ups; a finite pop is answered; all with a client that may die parked | 578 thousand |
| `Streams` | pass | a group skips nothing; ids increase; a pending entry has an owner; each with its named exceptions | 1.4 million |
| `Persistence` | pass | the store keeps what was answered and logged, but for the exceptions listed in section 5; a loadable snapshot keeps what was answered before it | 5.4 million |
| `Keyspace` | pass | values are conserved, and outlive a FLUSHDB only in a RENAME's hand; the expiry cycle takes a live value in one window only; expired keys go | 217 thousand |
| `Scan` | pass | nothing twice; complete unless the registry was emptied under the scan | 1.8 million |
| `Eviction` | pass | an undisturbed eviction is exact and minimal; the cycle ends; refusals end | 1.0 million |
| `DataTypes` | pass | the two indexes agree; ranges, score reads and restored values are right; SRANDMEMBER ends | 2.3 thousand |
| `Connection` | pass | the i-th answer is to the i-th request; no write, queueing or subscription before AUTH; the log has the write commands of the normal loop, made or refused, in order; a receiver keeps its sender; patterns match as globs; requests are answered but for the exceptions listed in section 5 | 375 thousand |
| `ReplicationResume` | violation | `ResumeLosesNothing` | - |

The violation is a disagreement between the code and what the repository says of it:

- `ResumeLosesNothing`: a write pushed while a full sync is transferred reaches the replica
  twice, in the gap read from the backlog (`master.rs:64`) and from the channel registered
  before. Both are counted, so the offset the replica asks for after a reconnect is ahead of
  the stream and the partial sync starts behind writes it never got.
  `tests/integration.rs:1079` says "data from before reconnect must not be lost".

### Bounds

- `Backlog`: a ring of 3 and writes of 1, 2, 3 and 5 bytes: ending before, at and after the
  edge, exactly as long as the ring, and longer. 7 bytes are two rounds. The proofs remove
  these bounds.
- `Replication`: three writes against a ring of two, so that the ring drops a command during
  a transfer; three connections allow full sync, resume and resume of the resume; two reads that end
  inside a command; one restart changes the replication id.
- `Transactions`: six requests are the shortest WATCH, MULTI, queue, EXEC with two requests of
  another connection in between; two databases for SELECT. Expiry is free: a key with a time to live may expire at any step.
- `Blocking`: two clients race for one of two elements; one waits on two keys; one client may die.
- `Streams`: two XADDs and two XREADGROUPs, ids with two parts of two values, COUNT and MAXLEN one or
  more than there is, groups that start at the beginning or beyond the last id; one consumer in two connections, so that it can be deleted under a read of its own.
- `Persistence`: two writes to one key of each of two databases decide an order, and a snapshot or a rewrite copies one
  database after the other; one rewrite or snapshot (their interplay is left to the proof, which has no such bound); SELECT while the
  log is shorter than two; one crash. `StoreKeepsAnswered` speaks of behaviours in which only database 0 was selected (`single`),
  `SnapshotKeepsAnswered` of all.
- `Keyspace`: two keys (the renames need no more), two values, a sample of one key smaller than
  the number of volatile keys. Four mixes of commands: all that look before they write; DBSIZE, the
  second place that removes expired keys, against RENAME and against EXPIRE; MSET and FLUSHDB, over two
  shards, against RENAME in both directions.
- `Scan`: three keys in pages of one and two, a registry of two for two clients and abandoned
  scans, so that it is emptied under a running one, and by a second caller when it is not full any more.
- `Eviction`: every start of two databases with two keys, a limit below any entry of size 3,
  two writes during the cycle.
- `Connection`: one client with every sequence of two of all commands and of three of those that
  take part in a change of mode, with and without a password, and of four of those that leave something in the
  context; every split of them into reads. Two publishers against a subscriber that leaves
  up to two dead senders. 39 patterns of up to three characters against nine names, one with a
  star. A client that loads and runs a script against another's operation on the cache.
- `DataTypes`: up to four elements, positions from -5 to 5, stride 3 in place of 31 (any prime
  behaves alike; 3 members are the multiple at which SRANDMEMBER does not end), two finite
  scores and the infinities, 64 in place of 2^64.

Symmetry is used only where connections or writes are interchangeable and no liveness property
is checked. Deadlock checking is off where clients have a bounded number of requests and the
system may then rest.

### Fairness

Weak fairness of steps that tokio takes without anyone's request: a task that can run runs, a
timer fires, a socket that is not broken delivers, an interval task wakes. Nobody is obliged to
send a request. In `Replication` broken connections are bounded, not assumed away;
`FullSyncDelivers` holds "unless the connection breaks". In `Connection` what a client has sent arrives,
a task runs, and the timer of a parked client fires (BLPOP with timeout 0 never parks in this code);
nobody is obliged to hang up. A script that waits for the lock of its own EVALSHA keeps an OS worker thread of
tokio's, so from then on `RequestsAreAnswered` claims nothing of any connection. In `DataTypes` only the loop itself is fair.

## 4. Proofs

TLAPS checks these for every value of the constants.

`LogProofs` (2145 obligations) is about the two logs a write goes to.

The backlog, from `ByteAssumption` (a set of bytes with 0), `CapacityAssumption`
(capacity positive), `ChunksAssumption` (writes are sequences of bytes) and `BoundAssumption`.
The configuration accepts `repl-backlog-size 0`, with which the first push divides by zero: the
assumption on the capacity is one the code does not enforce.

- `Invariance`: `IInv == TypeOK /\ RingInv /\ StartInv /\ FeedsAreContiguous` is inductive.
  `WindowIsExact` alone is not, for it says nothing of the cells outside the window nor where the
  next byte goes. `RingInv` adds that the global offset is the length of the stream, that
  `write_pos` is that offset modulo the capacity, and what every cell holds. The step for `push`
  rests on `PushCell` (which byte of old stream and new data a cell ends up with), and that on
  three lemmas on `%` (`ModUnique`, `ModShift`, `RingDistance`); that a reader's feed is extended
  by exactly the new bytes rests on `SuffixOfAppend`.
- `WindowExact`, `FeedsContiguous`: properties of the run; `TypeCorrect`, the type invariant.
- `Refinement`: `Spec => ReplLog`'s specification under the mapping of `Backlog`.

The append-only file and the snapshot, from `KeysAssumption` (finitely many keys), `DbsAssumption` (there is
a database), `ViasAssumption` and the bounds.

- `PersistenceInvariance`: neither property is inductive. `SnapshotInv` says what a snapshot that is being
  copied still has to find: of the databases it has passed in its data, of the others in the store. `AofInv` says
  what `Replay` would give for the file as it is, for its part on the disk and for the file of a rewrite, each
  against the writes that must be in it: those answered or appended and about to be, less the ones a power failure took
  (`lost`), and on the disk less the ones not synced yet. `SnapshotInv` also covers the snapshots in `behind`. `HandInv` says of the write a connection has in hand that nothing can have been ordered behind it.
  A replayed location has the last SET of it, which makes replay a maximum over positions and needs no
  induction over the log.
- `SnapshotsAreComplete`, for any number of databases, and whichever snapshot a power failure leaves.
- `LoggedWritesSurvive`: `[](NumDbs = 1 => StoreKeepsAnswered)`, for any number of rewrites, snapshots and crashes. The writes in
  `lost` are the first of its exceptions: with `appendfsync always` an answered write can be lost too. The run
  checks the property with two databases as well, as long as nobody has selected the second.

`DataTypesProofs` (1952 obligations) is about values.

- `IndexesAlwaysAgree`: the two indexes of a sorted set hold the same pairs with no empty bucket. `Mirrored` needs
  no strengthening; it is kept by one pass of the loop of `zadd` and by one of `zrem` for any sorted set
  (`ZAddMirrored`, `ZRemMirrored`, on `UnindexedBuckets`), and other commands leave a value of another type. No
  assumption is used.
- `StreamInvariance`, from `LengthsAssumption` (COUNT and MAXLEN are naturals) and the bounds. `EntriesInv` adds to the
  order of the entries that an XADD past its check has an id above the last one, unless it was checked while an expired stream was
  in the map; if such a one appends to the old entries, `raced` says so. `GroupInv` adds to
  `NothingSkipped` what each XREADGROUP carries between its steps: all up to the cursor it has seen was answered, what
  it copied is everything from there to the last id it took, and no XADD can come in below either.
- `StreamTypes`, `EntriesAreInOrder` (`IdsIncrease`), `GroupsSkipNothing` (`NothingSkipped`).
- `PendingOwners` (`PendingHasOwner`): `OwnerInv` adds the consumers whose XREADGROUP is under way to those with pending
  entries, for it is their commit that adds one.
- `SlicesAreExact` and `GetrangeIsExact`, from `WidthAssumption`: the index arithmetic of LRANGE, LTRIM, ZRANGE and
  of GETRANGE, with its clamping and its "as usize", against `Between`, for every sequence shorter than 2^64
  and all integers. They are the part of `RangesAreExact` about positions, without its bounds (`AsUsizeFacts`
  has the conversion: -1 becomes the greatest position there is).

`TransactionsProofs` (646 obligations), from `DbsAssumption` (database 0 exists) and the bound.

- `Invariance`: `IInv == TypeOK /\ QueueInv /\ AbsentInv /\ VersionInv`. That EXEC runs what was queued
  needs `QueueInv`, which follows the queue from MULTI through EXEC's comparisons and dispatches;
  the two action properties need `VersionInv`, what the version of an entry tells about the commands on it
  since WATCH, with and without an expiry among them, and `AbsentInv`, that a key that is gone has no version.
- `QueueRunsWhole`, and `OverwriteAborts` and `AbortIsDeserved`, which are action properties: EXEC's
  comparison of one key against the history of that key.

`ReplicationProofs` (1904 obligations), from `CapacityAssumption` and the bounds, for any number of
writes, sessions, restarts and cut reads.

- `Invariance`: none of the four properties is inductive. `PhaseInv` says where master and replica
  can be at the same time and what the socket then holds, `FeedInv` that what a session has sent and has
  yet to send is the stream from its start, `StepInv` that the replica's list, and the snapshot on its way to
  it, end where the stream from their offset on goes on.
- `FullSyncIsComplete`, `PartialSyncHandsOver`, `OffsetIsExact`, `Convergence`: the invariants of the run.

`BlockingProofs` (1468 obligations), from `KeyListsAssumption` (a pop names one key or more, which
the commands' arity demands), `LeftsAssumption` and the bounds.

- `Invariance`: `NoticeInv` follows a notification through its three steps: a key that a client has found
  empty and that has data now is announced by a push that has yet to look at the waiters, or a push
  has taken the client out of the list and will call it, or the call has been missed in the window.
- `NoRegistrationLeft`, `WakeupsReachTheParked`.
- `ElementsInOnePlace`: the elements are counted in `Spots`, pairs of a place (a list of a database or what
  a client was given) and a position in it. The proof adds `HoldInv`, which says of every element that it
  is at one position of one place, and of nothing twice, and `GoneInv`, what a client that died has taken.

`ScanProofs` (714 obligations), from a finite set of keys in the map's order, a registry with room for
one cursor or more and COUNTs that are naturals.

- `Invariance`: `ScanInv` says of every scan how far it is: up to the key its cursor stands for in the
  registry, or the end of the page on its way, it has returned every stable key, and nothing above it;
  a scan whose cursor is missing lost it to somebody who emptied the registry.
  `TokenInv`, that no two scans hold the same cursor, is what keeps one client's page from moving another's scan.
- `NoKeyTwice`, `ScansAreComplete`.
- Pages are cut off by counting the keys below one, and cursors are maxima of pages: `LeastOf` and `MostOf` get
  least and greatest elements from the well-foundedness of `<` and of strict inclusion of finite sets
  (`WFMin`), which needs no induction over an operator.

`KeyspaceProofs` (1329 obligations), from a finite, nonempty set of keys in the map's order and the bounds.

- `Invariance`: `PlaceInv` (`MintInv`, `ApartInv`, `SomewhereInv`) says that no id is in two places and every
  one is in some; `StepInv` that only a RENAME between its two steps has a value in its hand; `FlushInv` that
  behind the shards a FLUSHDB has emptied, and in hands while it runs, old values are carried ones; `ReapInv` that
  a collected key that is live was written since.
- `ValuesInOnePlace`, and the action property `ReapersTakeExpired` (`LostOnlyIfRewritten`).

`ConnectionProofs` (4543 obligations), for any commands in any division into reads. `ScriptAssumption` says that a client
sends a finite sequence; `NamesAssumption`, which only the third result uses, that SUBSCRIBE, PSUBSCRIBE and PUBLISH
have a name (without one the first two only answer, and the arity of PUBLISH is exact).

- `Invariance`: the check for the password stands at one place of the normal loop, and EXEC's commands, the steps
  of PUBLISH, a script's call and the loop of subscribed connections come behind it. `Guarded` says
  where a connection that has not given the password can be: in the normal loop, in no mode, and in no
  handler but PING's. `PasswordIsNeeded`: `NothingUnauthenticated`.
- `OrderInvariance`: the requests of a connection are numbered as they are sent. `ReqInv` says that there is a number up to
  which all are answered or dropped, the next is in hand, then come those in the buffer and those in the socket, each
  once, and that the write commands dispatched, made or refused, and those logged are among the finished ones but for the one in hand;
  the queue of a MULTI, the parked pop, a script's call and the rest of a cut command are
  all placed in this order. `AnswersAreInOrder` (`AnswersMatchRequests`), `WritesAreLoggedInOrder` (`LogIsInOrder`).
- `ReceiversStayRegistered` (`ReceiverStaysRegistered`): `RegInv` says of the indices a publisher has noted, if no other
  publisher has removed anything since, that they still point to senders without a receiver: vectors grow at the
  end only, and a receiver that is gone does not come back. `Ranks` and `PickedFacts` say what removing a set of
  positions leaves of a vector.

The inductive invariants were checked with TLC on the runs' instances before they were proved. In the modules
proved about an `@` never stands inside the value given to another `@`: tlapm 1.4.5 expands such an
inner `@` wrongly.

Only model-checked: liveness under fairness and everything with ENABLED, which TLAPS does not
handle; what recursive computation yields for every input (`ClosedFormIsLoop`, `RestoredIsSame`, `MatchIsGlob`, and of
`RangesAreExact` what the folds of LREM leave), which would need induction over data; `ScoreReadsAgree`, which
is about sorted sequences of scores; and the safety properties of `Eviction`, whose sums over the entries are folds.

## 5. What the code does and no property states

Found while modelling and outside a property's stated conditions. A reader of the properties should know them.

First, where the code disagrees with what the repository says of it. The models follow the code, and the properties
except these behaviours by name, so that a passing run does not show the documented behaviour:

| The repository says | The code does | Excepted by |
|---|---|---|
| `README.md:30-32`: the parser "handles partial reads naturally, returning 'Incomplete, give me more data'" | a read that ends inside a command is a protocol error: the connection ends, or forgets its buffer | `AnswersMatchRequests`, `RequestsAreAnswered`, `ReplicaConverges` |
| `README.md:37-38`: "Arity validation runs - wrong number of arguments returns an error immediately" | only exact arities are checked (`cmd/mod.rs:70`); handlers index past the end of a short command and the task panics | `RequestsAreAnswered` |
| `README.md:91-92`: "multiple commands in one TCP packet are processed sequentially before the next read" | an empty array, and leaving the subscribed mode, end the loop with commands in the buffer | `RequestsAreAnswered` |
| `README.md:65`: "'always': fsync before responding", `README.md:64`: "'everysec': background tokio task fsyncs every 1 second" | both call `File::flush` (`aof.rs:54-57`, `61-63`), which syncs nothing; an answered write may be gone after a power failure | `StoreKeepsAnswered` (`lost`) |
| `aof.rs:29-31`: "atomically replaces the AOF" | `remove_file`, then `rename`: a crash in between leaves no AOF, and neither is synced | `StoreKeepsAnswered` (`intact`) |
| `CHANGELOG.md:33`: `requirepass` "gates all commands except AUTH/HELLO/PING/QUIT/RESET" | PSYNC is served before the check (`connection.rs:122-135`) | `NothingUnauthenticated` speaks of writes, queueing and subscriptions |
| `CHANGELOG.md:106`: "atomic execution and WATCH-based optimistic locking" | other connections run between EXEC's commands; versions miss most changes (below) | `OverwrittenKeyAborts` (deleted or expired keys), `ExecRunsWhatWasQueued` speaks of the queue only |
| `memory.rs:309-311`: "every key present for the whole scan is returned exactly once" | a scan whose cursor was cleared with the registry ends early | `ScanIsComplete` |
| `README.md:77-79`: "a select loop monitoring both the TCP socket and the message channel" | the loop of a subscribed connection never reads its receiver | no property is about delivery |

- **Replication.** Two connections may push in the other order than they dispatched; replica and
  master then differ for good. A full sync loads into a store it does not empty (`replica.rs:92`). A read
  that ends inside a command loses that command and what follows it in the buffer, or leaves the replica
  waiting for ever (`ReplicaConverges` excepts both). A write the server refused, for want of memory (`cmd/mod.rs:62-67`) or
  with an error, is pushed and logged like any other (`connection.rs:195-208`), so that a replica with more memory, or a replay,
  makes it; in `Replication` and `Persistence` writes succeed. What EXEC, EVAL and
  BLPOP change is neither replicated nor logged, and connections of the TLS listener have no AOF
  writer.
- **Transactions.** Other connections' commands run between EXEC's checks and its commands. Watches
  do not remember their database: after SELECT other keys are compared. Only `Store::set` moves a
  version, and deleting a key forgets it: a watched key that was pushed to, or deleted and created again, passes
  EXEC's comparison. `get_version` does not see an expired entry (`memory.rs:627-632`, `473-478`): a watched absent key
  that somebody SETs with a short PX is back at version 0 once it has expired, and EXEC runs; a watched key whose time merely comes reads as
  changed, and EXEC gives up (`OverwrittenKeyAborts` and `AbortsOnlyOnChange` have both).
- **Connection.** The parser never asks for more input: a read that ends inside a command closes the
  connection with a protocol error, and makes a subscribed connection forget its whole buffer without an answer.
  An empty array, or a rest that parses as something else than an array, is never consumed, and the
  connection answers nothing again. A block request made by BLPOP inside EXEC or while subscribed stays in
  the context; the next command that finishes in the normal loop parks for it and its own answer is replaced
  by the pop's (`AnswersMatchRequests` names these two). The loop that leaves the subscribed mode waits
  for new bytes with commands in its buffer. Writes of a subscribed connection are not logged.
  `dispatch` checks exact arities only (`cmd/mod.rs:70`), so that handlers index past the end of short
  commands; the task panics and the connection ends.
- **Scripts.** A script run by EVALSHA that calls SCRIPT FLUSH waits for the read lock its own connection
  holds, and everybody who writes the cache then waits with it. The wait blocks an OS thread of the scheduler, and with it
  any task that thread had taken up. EVAL of the same script is fine.
- **Blocking.** A push after BLPOP looked and before `notified()` wakes nobody
  (`OnlyWindowLosesWakeups` says this is the only window). The registry has no database: a push in
  another one wakes the client, which then answers empty before its time. An element is popped
  before the answer is written, and lost with the socket.
- **Streams.** Overlapping XADDs put ids out of order or in twice. An XADD to a stream that has expired and is still in the map
  is checked against nothing (`memory.rs:1212`) and appends to the old entries (`memory.rs:1220`), which stay expired, or return with a
  PERSIST in the wrong order. A consumer deleted between the steps of its XREADGROUP leaves pending entries that nobody owns
  (`memory.rs:1448-1471`); a group destroyed there panics the task. The command XTRIM is declared with arity 4 (`stream.rs:15`) and its handler demands
  one more (`stream.rs:104`), so it always answers an error. DEL leaves the groups, whose
  cursors then skip a new stream's entries. SETID replaces the group, pending entries included,
  where the comment at `stream.rs:198-201` describes only the cursor. MKSTREAM may overwrite a
  concurrent XADD.
- **Key space.** Two SET NX may both succeed and increments get lost; EXPIRE and PERSIST bring back
  a key that has expired and is still in the map; the sample is taken before the expired ones are
  picked, so that live volatile keys can hide expired ones for as long as they live. A RENAME that overlaps a FLUSHDB brings its value back.
- **SCAN.** Two callers that both find the registry full (`memory.rs:335-336`) empty it twice, the second time when it
  has new cursors and is not full.
- **Persistence.** `StoreKeepsAnswered` excepts six things. (1) Writes that a power failure finds in the AOF and not on the disk, which
  under "always" were answered all the same. (2) A crash between `remove_file` and `rename` (`aof.rs:45-46`), after which there is no
  AOF at all. (3) A command cut by a power failure, which hides everything appended after it. (4) A crash that finds a snapshot
  file, which is loaded instead of the newer AOF. (5) A power failure that takes back the AOF's directory entry, for no
  directory is synced. (6) The use of a second database, see below. A snapshot is not synced either: a power failure may leave one that cannot be
  loaded, and the server then starts empty although there is an AOF. An append that fails is ignored (`connection.rs:198`), which is not
  modelled. A command in the
  rewritten dataset that is appended afterwards is applied twice, harmless for SET and not for
  RPUSH or INCR. The file has the SELECTs of all connections in one sequence (`connection.rs:347`) and the writer
  adds none: with several databases a SET is replayed into the database that whichever connection last selected, and after
  a restart, when connections begin in database 0 again, into the one selected before. A rewritten stream loses its last id and its groups.
- **Data types.** LRANGE, LTRIM and ZRANGE take a stop before the first element for the first;
  GETRANGE takes a start past the end for the last byte and an end before the first for the last
  (`RangesAreExact` states this exactly). ZRANGE leaves out infinite scores that ZRANK counts.
  ZRANGEBYSCORE with min above max panics in `BTreeMap::range`; a NaN score equals every other. LPUSH
  of several values keeps their order. SRANDMEMBER with a count loops for ever on a set whose size is
  a multiple of 31. An emptied container survives a snapshot and not a rewrite.
- **Publish/subscribe.** The loop of a subscribed connection never reads its receiver
  (`connection.rs:80-105`), so no message is delivered, where the repository's `README.md:77-79` describes "a select loop monitoring
  both the TCP socket and the message channel". PUBLISH removes dead senders by indices noted under another lock: when two
  publishers overlap, the second removes a live sender or panics. A second SUBSCRIBE replaces the
  receiver, so that the first channel's sender is dead. UNSUBSCRIBE leaves the senders
  in the registry (`unsubscribe_channel` and `unsubscribe_pattern` are never called), and those of patterns are
  never removed. A star in a channel's name is compared literally with the pattern's star first.

## 6. Not modelled

The bytes of RESP and the serializer (no state; what the parser makes of whole and of cut commands is in
`Connection` and `Replication`), the limit on the query buffer and the protocol version, configuration, TLS,
listener and shard router (plumbing), the Lua interpreter (a library) and the conversion of its values, cluster
stubs, the CLI, the byte format of snapshots, reads that only copy a container, SINTER/SUNION/SDIFF.

## 7. Plan

Done, in this order: the backlog with its abstract log and proofs, replication, transactions,
blocking pops, streams, persistence, SCAN, key space, eviction, data types with the proof of the two
indexes; then publish/subscribe and the connection loop with AUTH and scripts, reads that end inside a
command on both ends, clients that die parked, MSET, FLUSHDB and DBSIZE;
then the proofs about transactions, replication, blocking pops, SCAN, the key space and AUTH; then those about the
append-only file and the snapshot, streams, the order of a connection's answers and of its log, the registry of
senders, and the arithmetic of positions; then expiry in transactions and streams, with the owners of pending entries, writes that are
refused, the registry of cursors measured and emptied in two steps, and what of AOF and snapshot is on the disk.

Next:

1. Proofs about `Eviction`, with its sums stated as functions of a finite set, and of `ScoreReadsAgree`.
2. `Persistence` with a command that is not idempotent; streams in rewrite and replay.
3. `Replication` over `ReplLog` by instance instead of by a restated stream.
