---------------------------- MODULE Transactions ----------------------------
(***************************************************************************)
(* MULTI / EXEC / DISCARD / WATCH / UNWATCH (src/cmd/transaction.rs), the  *)
(* queueing in the connection loop (src/net/connection.rs, lines 164-190)  *)
(* and the version counter of the entries it relies on, which an expired   *)
(* key hides (src/store/memory.rs: set, del, lpush, set_expire,            *)
(* remove_expire, get_version, active_expire_cycle).                       *)
(*                                                                         *)
(* Connections run on different threads over one DashMap, and no lock      *)
(* spans EXEC: every version comparison and every queued command is a step *)
(* of its own.  A store operation on one key is atomic.  Time is a step    *)
(* that may come at any moment (key_expires); an expired entry stays in    *)
(* the map until the expiry cycle, DEL or an overwrite takes it.           *)
(***************************************************************************)
EXTENDS Integers, Sequences, SequencesExt

CONSTANTS Clients,    \* connections
          Keys,
          Dbs,        \* database numbers
          MaxOps      \* bound: requests the clients send

ASSUME DbsAssumption == 0 \in Dbs
ASSUME BoundAssumption == MaxOps \in Nat

VARIABLES
    db,           \* db[d][k]: entry, or Absent; expire: its time is set, or has come
    victims,      \* active_expire_cycle: <<d, k>> collected, not yet removed
    db_index,     \* ClientContext::db_index
    multi_mode,   \* ClientContext::multi_mode
    multi_queue,  \* ClientContext::multi_queue
    watched,      \* ClientContext::watched_keys with watched_versions
    phase,        \* where a client is in exec(): "idle", "check", "run"
    checks,       \* exec(): watched entries not yet compared
    running,      \* exec(): queued commands not yet dispatched
    ran,          \* history: commands this EXEC has dispatched
    asked,        \* history: commands answered QUEUED since MULTI
    ops           \* requests sent so far

ctxVars == <<db_index, multi_mode, multi_queue, watched>>
execVars == <<phase, checks, running, ran>>
vars == <<db, victims, db_index, multi_mode, multi_queue, watched, phase,
          checks, running, ran, asked, ops>>

Absent == [type |-> "none", version |-> 0, expire |-> "never"]

\* SET with or without PX, EXPIRE or PERSIST ("ttl"), DEL, LPUSH, SELECT.
Commands == [op : {"set", "ttl"}, key : Keys, px : BOOLEAN]
            \cup [op : {"del", "push"}, key : Keys] \cup [op : {"select"}, db : Dbs]

Init ==
    /\ db = [d \in Dbs |-> [k \in Keys |-> Absent]]
    /\ victims = {}
    /\ db_index = [c \in Clients |-> 0]
    /\ multi_mode = [c \in Clients |-> FALSE]
    /\ multi_queue = [c \in Clients |-> <<>>]
    /\ watched = [c \in Clients |-> <<>>]
    /\ phase = [c \in Clients |-> "idle"]
    /\ checks = [c \in Clients |-> <<>>]
    /\ running = [c \in Clients |-> <<>>]
    /\ ran = [c \in Clients |-> <<>>]
    /\ asked = [c \in Clients |-> <<>>]
    /\ ops = 0

-----------------------------------------------------------------------------
(* The store. *)

Expiry(px) == IF px THEN "later" ELSE "never"

\* Mutant: set bumps the version only when it creates the key.
SetEntryNoBump(e, px) ==
    [type |-> "string", version |-> IF e.type = "none" THEN 1 ELSE e.version,
     expire |-> Expiry(px)]

\* set: or_insert with version 0, then version += 1, whatever the type was and
\* whether the entry had expired or not.
SetEntry(e, px) == [type |-> "string", version |-> e.version + 1, expire |-> Expiry(px)]

\* lpush / rpush: or_insert a list with version 0, no bump; WRONGTYPE on others.
\* A list that has expired is appended to and stays expired.
PushEntry(e) == IF e.type = "none" THEN [Absent EXCEPT !.type = "list"] ELSE e

\* set_expire / remove_expire look in the map itself: they revive an expired key.
TtlEntry(e, px) == IF e.type = "none" THEN e ELSE [e EXCEPT !.expire = Expiry(px)]

Entry(e, cmd) ==
    CASE cmd.op = "set"  -> SetEntry(e, cmd.px)
      [] cmd.op = "ttl"  -> TtlEntry(e, cmd.px)
      [] cmd.op = "del"  -> Absent
      [] cmd.op = "push" -> PushEntry(e)

\* A command that does something to the key: DEL, EXPIRE and PERSIST need an
\* entry, a push needs a list or no entry.
Changes(e, op) ==
    ~ (op \in {"del", "ttl"} /\ e.type = "none") /\ ~ (op = "push" /\ e.type = "string")

\* The version that a read through entry() finds: none in an expired entry.
Seen(e) == IF e.expire = "past" THEN 0 ELSE e.version

\* Mutant: versions are looked up in database 0 only.
get_version_db0(d, k) == Seen(db[0][k])

get_version(d, k) == Seen(db[d][k])

\* The history of a watched key: what was done to it since WATCH.
Note(ws, d, k, mod) ==
    [i \in DOMAIN ws |-> IF ws[i].db = d /\ ws[i].key = k
                         THEN [ws[i] EXCEPT !.mods = @ \cup {mod}] ELSE ws[i]]

\* The histories of all the lists in ls, indexed by client, with mod noted.
NoteAll(ls, d, k, mod) == [o \in Clients |-> Note(ls[o], d, k, mod)]

\* dispatch of one command for client c, outside or inside EXEC.
Dispatch(c, cmd) ==
    /\ IF cmd.op = "select"
       THEN /\ db_index' = [db_index EXCEPT ![c] = cmd.db]
            /\ UNCHANGED db
       ELSE /\ db' = [db EXCEPT ![db_index[c]][cmd.key] = Entry(@, cmd)]
            /\ UNCHANGED db_index
    /\ UNCHANGED victims

\* The same, with the histories of the watched keys brought up to date.
Noted(ls, c, cmd) ==
    IF cmd.op # "select" /\ Changes(db[db_index[c]][cmd.key], cmd.op)
    THEN NoteAll(ls, db_index[c], cmd.key, cmd.op)
    ELSE ls

-----------------------------------------------------------------------------
(* Time, and the expiry cycle. *)

\* The entry d, k becomes e; mod is noted for whoever watches the key.
Becomes(d, k, e, mod) ==
    /\ db' = [db EXCEPT ![d][k] = e]
    /\ watched' = NoteAll(watched, d, k, mod)
    /\ checks' = NoteAll(checks, d, k, mod)
    /\ UNCHANGED <<db_index, multi_mode, multi_queue, phase, running, ran, asked, ops>>

\* expired(): expire_at is not after now.  The entry stays in the map.
key_expires(d, k) ==
    /\ db[d][k].expire = "later"
    /\ Becomes(d, k, [db[d][k] EXCEPT !.expire = "past"], "expired")
    /\ UNCHANGED victims

\* The cycle (and DBSIZE) collects the names of expired keys ...
expire_collect(d, k) ==
    /\ db[d][k].expire = "past" /\ <<d, k>> \notin victims
    /\ victims' = victims \cup {<<d, k>>}
    /\ UNCHANGED <<db, ctxVars, execVars, asked, ops>>

\* ... and then removes what has one of the names now.
expire_remove(d, k) ==
    /\ <<d, k>> \in victims
    /\ victims' = victims \ {<<d, k>>}
    /\ IF db[d][k].type = "none" THEN UNCHANGED <<db, ctxVars, execVars, asked, ops>>
                                 ELSE Becomes(d, k, Absent, "del")

-----------------------------------------------------------------------------
(* Requests outside EXEC. *)

Request(c) == phase[c] = "idle" /\ ops < MaxOps /\ ops' = ops + 1

\* A command outside MULTI is dispatched, inside it is queued.
Command(c, cmd) ==
    /\ Request(c)
    /\ IF multi_mode[c]
       THEN /\ multi_queue' = [multi_queue EXCEPT ![c] = Append(@, cmd)]
            /\ asked' = [asked EXCEPT ![c] = Append(@, cmd)]
            /\ UNCHANGED <<db, victims, db_index, watched, checks>>
       ELSE /\ Dispatch(c, cmd)
            /\ watched' = Noted(watched, c, cmd)
            /\ checks' = Noted(checks, c, cmd)
            /\ UNCHANGED <<multi_queue, asked>>
    /\ UNCHANGED <<multi_mode, phase, running, ran>>

\* Mutant: a second MULTI keeps what the first one queued.
multi_keeps_queue(c) ==
    /\ Request(c)
    /\ multi_mode' = [multi_mode EXCEPT ![c] = TRUE]
    /\ asked' = [asked EXCEPT ![c] = <<>>]
    /\ UNCHANGED <<db, victims, db_index, multi_queue, watched, execVars>>

multi(c) ==
    /\ Request(c)
    /\ multi_mode' = [multi_mode EXCEPT ![c] = TRUE]
    /\ multi_queue' = [multi_queue EXCEPT ![c] = <<>>]
    /\ asked' = [asked EXCEPT ![c] = <<>>]
    /\ UNCHANGED <<db, victims, db_index, watched, execVars>>

discard(c) ==
    /\ Request(c)
    /\ multi_mode' = [multi_mode EXCEPT ![c] = FALSE]
    /\ multi_queue' = [multi_queue EXCEPT ![c] = <<>>]
    /\ watched' = [watched EXCEPT ![c] = <<>>]
    /\ asked' = [asked EXCEPT ![c] = <<>>]
    /\ UNCHANGED <<db, victims, db_index, execVars>>

\* WATCH inside MULTI answers OK and does nothing.
watch(c, k) ==
    /\ Request(c)
    /\ IF multi_mode[c]
       THEN UNCHANGED watched
       ELSE watched' = [watched EXCEPT ![c] = Append(@,
                [key |-> k, version |-> get_version(db_index[c], k),
                 db |-> db_index[c], mods |-> {}])]
    /\ UNCHANGED <<db, victims, db_index, multi_mode, multi_queue, execVars, asked>>

\* UNWATCH is never queued: inside MULTI it takes effect at once.
unwatch(c) ==
    /\ Request(c)
    /\ watched' = [watched EXCEPT ![c] = <<>>]
    /\ UNCHANGED <<db, victims, db_index, multi_mode, multi_queue, execVars, asked>>

-----------------------------------------------------------------------------
(* EXEC. *)

\* EXEC leaves MULTI mode and takes the queue and the watched keys.
exec(c) ==
    /\ Request(c)
    /\ multi_mode[c]
    /\ multi_mode' = [multi_mode EXCEPT ![c] = FALSE]
    /\ multi_queue' = [multi_queue EXCEPT ![c] = <<>>]
    /\ watched' = [watched EXCEPT ![c] = <<>>]
    /\ checks' = [checks EXCEPT ![c] = watched[c]]
    /\ running' = [running EXCEPT ![c] = multi_queue[c]]
    /\ ran' = [ran EXCEPT ![c] = <<>>]
    /\ phase' = [phase EXCEPT ![c] = "check"]
    /\ UNCHANGED <<db, victims, db_index, asked>>

\* EXEC without MULTI is an error and touches nothing.
exec_without_multi(c) ==
    /\ Request(c)
    /\ ~ multi_mode[c]
    /\ UNCHANGED <<db, victims, ctxVars, execVars, asked>>

\* current == versions[i], in the database the connection has selected now.
VersionUnchanged(c) ==
    get_version(db_index[c], Head(checks[c]).key) = Head(checks[c]).version

ExecCheck(c) ==
    /\ phase[c] = "check" /\ checks[c] # <<>>
    /\ IF VersionUnchanged(c)
       THEN /\ checks' = [checks EXCEPT ![c] = Tail(@)]
            /\ UNCHANGED <<phase, running>>
       ELSE /\ checks' = [checks EXCEPT ![c] = <<>>]
            /\ running' = [running EXCEPT ![c] = <<>>]
            /\ phase' = [phase EXCEPT ![c] = "idle"]
    /\ UNCHANGED <<db, victims, ctxVars, ran, asked, ops>>

ExecGo(c) ==
    /\ phase[c] = "check" /\ checks[c] = <<>>
    /\ phase' = [phase EXCEPT ![c] = "run"]
    /\ UNCHANGED <<db, victims, ctxVars, checks, running, ran, asked, ops>>

ExecRun(c) ==
    /\ phase[c] = "run" /\ running[c] # <<>>
    /\ LET cmd == Head(running[c])
       IN  /\ Dispatch(c, cmd)
           /\ watched' = Noted(watched, c, cmd)
           /\ checks' = Noted(checks, c, cmd)
           /\ ran' = [ran EXCEPT ![c] = Append(@, cmd)]
    /\ running' = [running EXCEPT ![c] = Tail(@)]
    /\ UNCHANGED <<multi_mode, multi_queue, phase, asked, ops>>

ExecDone(c) ==
    /\ phase[c] = "run" /\ running[c] = <<>>
    /\ phase' = [phase EXCEPT ![c] = "idle"]
    /\ UNCHANGED <<db, victims, ctxVars, checks, running, ran, asked, ops>>

Step ==
    \E c \in Clients :
        \/ \E cmd \in Commands : Command(c, cmd)
        \/ \E k \in Keys : watch(c, k)
        \/ multi(c) \/ discard(c) \/ unwatch(c)
        \/ exec(c) \/ exec_without_multi(c)
        \/ ExecCheck(c) \/ ExecGo(c) \/ ExecRun(c) \/ ExecDone(c)

Time ==
    \E d \in Dbs, k \in Keys : key_expires(d, k) \/ expire_collect(d, k) \/ expire_remove(d, k)

Next == Step \/ Time

Spec == Init /\ [][Next]_vars

-----------------------------------------------------------------------------
(* Properties. *)

Entries == [type : {"none", "string", "list"}, version : Nat,
            expire : {"never", "later", "past"}]
WatchEntries == [key : Keys, version : Nat, db : Dbs,
                 mods : SUBSET {"set", "del", "push", "ttl", "expired"}]

TypeOK ==
    /\ db \in [Dbs -> [Keys -> Entries]]
    /\ victims \subseteq Dbs \X Keys
    /\ db_index \in [Clients -> Dbs]
    /\ multi_mode \in [Clients -> BOOLEAN]
    /\ multi_queue \in [Clients -> Seq(Commands)]
    /\ watched \in [Clients -> Seq(WatchEntries)]
    /\ phase \in [Clients -> {"idle", "check", "run"}]
    /\ checks \in [Clients -> Seq(WatchEntries)]
    /\ {running, ran, asked} \subseteq [Clients -> Seq(Commands)]
    /\ ops \in 0 .. MaxOps

\* The comparison of a watched key, made in the database it was watched in.
Passes(c) ==
    phase[c] = "check" /\ checks[c] # <<>> /\ phase'[c] = "check" /\ checks'[c] = Tail(checks[c])
Fails(c) == phase[c] = "check" /\ phase'[c] = "idle"
SameDb(c) == Head(checks[c]).db = db_index[c]

\* A key that anyone SET after it was watched, and that was neither deleted nor
\* came to its expiry time meanwhile, never passes EXEC's comparison, however
\* the requests of the clients, the steps of their EXECs and the expiry cycle
\* interleave (watch, exec, set, get_version).  Both exceptions are real: a
\* deleted key starts again at version 0, and an expired one reads as version 0
\* (memory.rs:473-478, 627-632), so a SET with a short PX can go unnoticed.
OverwrittenKeyAborts ==
    [][\A c \in Clients :
          Passes(c) /\ SameDb(c)
              => LET mods == Head(checks[c]).mods
                 IN  "set" \in mods => "del" \in mods \/ "expired" \in mods]_vars

\* EXEC gives up only when the watched key it compared was written, deleted, given
\* or relieved of a time to live, or expired since WATCH (exec, get_version).
AbortsOnlyOnChange ==
    [][\A c \in Clients : Fails(c) /\ SameDb(c) => Head(checks[c]).mods # {}]_vars

\* An EXEC dispatches the commands answered QUEUED since the last MULTI, all of
\* them, in order and nothing else, over DISCARD, aborted EXECs and a MULTI
\* inside MULTI (multi, exec, discard, connection.rs:164-170).
ExecRunsWhatWasQueued ==
    \A c \in Clients : phase[c] = "run" => ran[c] \o running[c] = asked[c]
=============================================================================
