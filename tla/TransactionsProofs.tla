------------------------- MODULE TransactionsProofs -------------------------
(***************************************************************************)
(* Proofs about Transactions, for any number of connections, keys,         *)
(* databases and requests, with keys that expire at any moment: an EXEC    *)
(* runs what was queued, an overwritten watched key aborts it unless it    *)
(* was deleted or expired, and nothing but a change of the key does.       *)
(***************************************************************************)
EXTENDS Transactions, TLAPS

-----------------------------------------------------------------------------
(* The inductive invariant. *)

\* While a client is in MULTI its queue is what was answered QUEUED; an EXEC
\* takes the queue over and works it off from the front.
QueueInv ==
    \A c \in Clients :
        /\ multi_mode[c] => phase[c] = "idle" /\ multi_queue[c] = asked[c]
        /\ phase[c] = "check" => ran[c] = <<>> /\ running[c] = asked[c]
        /\ phase[c] = "run" => ran[c] \o running[c] = asked[c]

\* A key that is not there has version 0 and no expiry: DEL forgets both.
AbsentInv == \A d \in Dbs, k \in Keys : db[d][k].type = "none" => db[d][k] = Absent

\* What an entry e tells about a watched key w: without anything done to the key
\* a read finds the version that WATCH saw; until it is deleted or its time
\* comes the version does not fall, and every SET raises it in plain sight.
EntryTracks(e, w) ==
    /\ w.mods = {} => Seen(e) = w.version
    /\ "del" \notin w.mods /\ "expired" \notin w.mods
          => /\ e.version >= w.version
             /\ "set" \in w.mods => e.version > w.version /\ e.expire # "past"

Tracks(D, w) == EntryTracks(D[w.db][w.key], w)

AllTrack(D, ls) == \A c \in Clients : \A i \in DOMAIN ls[c] : Tracks(D, ls[c][i])

VersionInv == AllTrack(db, watched) /\ AllTrack(db, checks)

IInv == TypeOK /\ QueueInv /\ AbsentInv /\ VersionInv

\* A server without clients' requests satisfies the invariant.
LEMMA InitStep == Init => IInv
<1> SUFFICES ASSUME Init PROVE IInv
  OBVIOUS
<1>1. TypeOK
  BY DbsAssumption, BoundAssumption DEF Init, TypeOK, Absent, Entries
<1>2. QueueInv /\ AbsentInv /\ VersionInv
  BY DbsAssumption DEF Init, QueueInv, AbsentInv, Absent, VersionInv, AllTrack
<1> QED
  BY <1>1, <1>2 DEF IInv

-----------------------------------------------------------------------------
(* What a dispatched command does to entries and to watched keys. *)

\* The modifications that a history can hold.
Mods == {"set", "del", "push", "ttl", "expired"}

\* A change of an entry from e to n, noted as mod, of which the histories tell
\* the truth.
Fits(e, n, mod) ==
    /\ mod = "set" => n.version = e.version + 1 /\ n.expire # "past"
    /\ mod \in {"push", "ttl"} => n.version = e.version /\ (e.expire # "past" => n.expire # "past")

\* What one command does to one entry.
LEMMA EntryFits ==
    ASSUME NEW e \in Entries, NEW cmd \in Commands, cmd.op # "select",
           e.type = "none" => e = Absent
    PROVE  /\ Entry(e, cmd) \in Entries
           /\ Entry(e, cmd).type = "none" => Entry(e, cmd) = Absent
           /\ Fits(e, Entry(e, cmd), cmd.op)
           /\ ~ Changes(e, cmd.op) => Entry(e, cmd) = e
           /\ cmd.op \in Mods
<1>1. CASE cmd.op = "set"
  <2>1. cmd.px \in BOOLEAN
    BY <1>1 DEF Commands
  <2> QED
    BY <1>1, <2>1 DEF Entries, Entry, SetEntry, Expiry, Changes, Fits, Mods
<1>2. CASE cmd.op = "ttl"
  <2>1. cmd.px \in BOOLEAN
    BY <1>2 DEF Commands
  <2> QED
    BY <1>2, <2>1 DEF Entries, Entry, TtlEntry, Expiry, Changes, Fits, Mods
<1>3. CASE cmd.op = "del"
  BY <1>3 DEF Entries, Entry, Absent, Changes, Fits, Mods
<1>4. CASE cmd.op = "push"
  BY <1>4 DEF Entries, Entry, PushEntry, Absent, Changes, Fits, Mods
<1> QED
  BY <1>1, <1>2, <1>3, <1>4 DEF Commands

\* One watched key and one change of its entry that is noted.
LEMMA NoteTracks ==
    ASSUME NEW e \in Entries, NEW n \in Entries, NEW mod \in Mods, Fits(e, n, mod),
           NEW w \in WatchEntries, EntryTracks(e, w)
    PROVE  EntryTracks(n, [w EXCEPT !.mods = @ \cup {mod}])
<1> DEFINE u == [w EXCEPT !.mods = @ \cup {mod}]
<1>1. u.mods = w.mods \cup {mod} /\ u.version = w.version
  BY DEF WatchEntries
<1>2. e.version \in Nat /\ n.version \in Nat /\ w.version \in Nat
  BY DEF Entries, WatchEntries
<1>3. u.mods # {}
  BY <1>1
<1>4. ASSUME "del" \notin u.mods, "expired" \notin u.mods
      PROVE  n.version >= u.version /\ ("set" \in u.mods => n.version > u.version /\ n.expire # "past")
  <2>1. /\ e.version >= w.version
        /\ "set" \in w.mods => e.version > w.version /\ e.expire # "past"
    BY <1>1, <1>4 DEF EntryTracks
  <2>2. mod \in {"set", "push", "ttl"}
    BY <1>1, <1>4 DEF Mods
  <2> QED
    BY <1>1, <1>2, <2>1, <2>2 DEF Fits
<1> HIDE DEF u
<1>5. EntryTracks(n, u)
  BY <1>3, <1>4 DEF EntryTracks
<1> QED
  BY <1>5 DEF u

\* An entry changes and the change is noted in all the lists.
LEMMA ChangeTracks ==
    ASSUME TypeOK, NEW d \in Dbs, NEW k \in Keys, NEW n \in Entries, NEW mod \in Mods,
           Fits(db[d][k], n, mod), n.type = "none" => n = Absent, AbsentInv,
           db' = [db EXCEPT ![d][k] = n],
           NEW ls \in [Clients -> Seq(WatchEntries)], AllTrack(db, ls)
    PROVE  /\ db' \in [Dbs -> [Keys -> Entries]] /\ AbsentInv'
           /\ NoteAll(ls, d, k, mod) \in [Clients -> Seq(WatchEntries)]
           /\ AllTrack(db', NoteAll(ls, d, k, mod))
<1>1. db \in [Dbs -> [Keys -> Entries]] /\ db[d][k] \in Entries
  BY DEF TypeOK
<1>2. /\ db'[d][k] = n
      /\ \A x \in Dbs, y \in Keys : ~ (x = d /\ y = k) => db'[x][y] = db[x][y]
      /\ db' \in [Dbs -> [Keys -> Entries]]
  BY <1>1
<1>3. AbsentInv'
  BY <1>2 DEF AbsentInv
<1> SUFFICES ASSUME NEW o \in Clients
             PROVE  /\ Note(ls[o], d, k, mod) \in Seq(WatchEntries)
                    /\ \A i \in DOMAIN Note(ls[o], d, k, mod) : Tracks(db', Note(ls[o], d, k, mod)[i])
  BY <1>2, <1>3 DEF AllTrack, NoteAll
<1>4. ls[o] \in Seq(WatchEntries) /\ DOMAIN ls[o] = 1 .. Len(ls[o])
  OBVIOUS
<1>5. ASSUME NEW i \in DOMAIN ls[o]
      PROVE  LET w == Note(ls[o], d, k, mod)[i] IN w \in WatchEntries /\ Tracks(db', w)
  <2> DEFINE w == ls[o][i]
             u == [w EXCEPT !.mods = @ \cup {mod}]
  <2>1. w \in WatchEntries /\ Tracks(db, w)
    BY <1>4 DEF AllTrack
  <2>2. CASE w.db = d /\ w.key = k
    <3>1. Note(ls[o], d, k, mod)[i] = u
      BY <2>2 DEF Note
    <3>2. u \in WatchEntries /\ u.db = d /\ u.key = k
      BY <2>1, <2>2 DEF WatchEntries, Mods
    <3>3. EntryTracks(db[d][k], w)
      BY <2>1, <2>2 DEF Tracks
    <3>4. EntryTracks(n, u)
      BY <1>1, <2>1, <3>3, NoteTracks
    <3> HIDE DEF u, w
    <3> QED
      BY <1>2, <3>1, <3>2, <3>4 DEF Tracks
  <2>3. CASE ~ (w.db = d /\ w.key = k)
    <3>1. Note(ls[o], d, k, mod)[i] = w
      BY <2>3 DEF Note
    <3>2. w.db \in Dbs /\ w.key \in Keys
      BY <2>1 DEF WatchEntries
    <3> HIDE DEF u, w
    <3>3. Tracks(db', w)
      BY <1>2, <2>1, <2>3, <3>2 DEF Tracks
    <3> QED
      BY <2>1, <3>1, <3>3
  <2> QED
    BY <2>2, <2>3
<1>6. DOMAIN Note(ls[o], d, k, mod) = 1 .. Len(ls[o])
  BY <1>4 DEF Note
<1>7. Note(ls[o], d, k, mod) \in Seq(WatchEntries)
  <2>1. Len(ls[o]) \in Nat
    BY <1>4
  <2>2. Note(ls[o], d, k, mod) = [i \in 1 .. Len(ls[o]) |-> Note(ls[o], d, k, mod)[i]]
    BY <1>4 DEF Note
  <2> QED
    BY <1>4, <1>5, <2>1, <2>2
<1> QED
  BY <1>4, <1>5, <1>6, <1>7

\* dispatch, outside or inside EXEC, keeps the database well-formed, and the
\* histories that Noted brings up to date track the new database.
LEMMA NotedTracks ==
    ASSUME TypeOK, AbsentInv, NEW c \in Clients, NEW cmd \in Commands, Dispatch(c, cmd),
           NEW ls \in [Clients -> Seq(WatchEntries)], AllTrack(db, ls)
    PROVE  /\ db' \in [Dbs -> [Keys -> Entries]] /\ AbsentInv'
           /\ db_index' \in [Clients -> Dbs]
           /\ Noted(ls, c, cmd) \in [Clients -> Seq(WatchEntries)]
           /\ AllTrack(db', Noted(ls, c, cmd))
<1>1. CASE cmd.op = "select"
  <2>1. cmd.db \in Dbs
    BY <1>1 DEF Commands
  <2> QED
    BY <1>1, <2>1 DEF Noted, Dispatch, TypeOK, AbsentInv
<1>2. CASE cmd.op # "select"
  <2> DEFINE d == db_index[c]
             k == cmd.key
             e == db[d][k]
             n == Entry(e, cmd)
  <2>1. k \in Keys
    BY <1>2 DEF Commands
  <2>2. d \in Dbs /\ e \in Entries /\ (e.type = "none" => e = Absent)
    BY <2>1 DEF TypeOK, AbsentInv
  <2>3. db' = [db EXCEPT ![d][k] = n] /\ db_index' = db_index
    BY <1>2 DEF Dispatch
  <2>4. /\ n \in Entries /\ (n.type = "none" => n = Absent) /\ Fits(e, n, cmd.op)
        /\ ~ Changes(e, cmd.op) => n = e
        /\ cmd.op \in Mods
    BY <1>2, <2>2, EntryFits
  <2>5. CASE ~ Changes(e, cmd.op)
    <3>1. Noted(ls, c, cmd) = ls
      BY <2>5 DEF Noted
    <3>2. n = e
      BY <2>4, <2>5
    <3> HIDE DEF n
    <3>3. db' = db
      BY <2>1, <2>2, <2>3, <3>2 DEF TypeOK
    <3> QED
      BY <2>3, <3>1, <3>3 DEF TypeOK, AbsentInv
  <2>6. CASE Changes(e, cmd.op)
    <3>1. Noted(ls, c, cmd) = NoteAll(ls, d, k, cmd.op)
      BY <1>2, <2>6 DEF Noted
    <3> HIDE DEF n, d, k
    <3>2. /\ db' \in [Dbs -> [Keys -> Entries]] /\ AbsentInv'
          /\ NoteAll(ls, d, k, cmd.op) \in [Clients -> Seq(WatchEntries)]
          /\ AllTrack(db', NoteAll(ls, d, k, cmd.op))
      BY <2>1, <2>2, <2>3, <2>4, ChangeTracks
    <3> QED
      BY <2>3, <3>1, <3>2 DEF TypeOK
  <2> QED
    BY <2>5, <2>6
<1> QED
  BY <1>1, <1>2

-----------------------------------------------------------------------------
(* The actions. *)

\* Moving the first element of t to the end of s does not change s \o t.
LEMMA HeadMoves ==
    ASSUME NEW S, NEW s \in Seq(S), NEW t \in Seq(S), t # <<>>
    PROVE  Append(s, Head(t)) \o Tail(t) = s \o t
<1> DEFINE l == Append(s, Head(t)) \o Tail(t)
           r == s \o t
<1>1. Head(t) \in S /\ Tail(t) \in Seq(S) /\ Len(Tail(t)) = Len(t) - 1 /\ Len(t) \in Nat \ {0}
  OBVIOUS
<1>2. Append(s, Head(t)) \in Seq(S) /\ Len(Append(s, Head(t))) = Len(s) + 1
  BY <1>1
<1>3. l \in Seq(S) /\ r \in Seq(S) /\ Len(l) = Len(s) + Len(t) /\ Len(r) = Len(s) + Len(t)
  BY <1>1, <1>2
<1>4. ASSUME NEW i \in 1 .. Len(s) + Len(t) PROVE l[i] = r[i]
  <2>1. CASE i <= Len(s)
    BY <1>1, <1>2, <2>1
  <2>2. CASE i = Len(s) + 1
    BY <1>1, <1>2, <2>2
  <2>3. CASE i > Len(s) + 1
    <3>1. l[i] = Tail(t)[i - (Len(s) + 1)]
      BY <1>1, <1>2, <2>3
    <3>2. r[i] = t[i - Len(s)]
      BY <1>1, <2>3
    <3> QED
      BY <1>1, <2>3, <3>1, <3>2
  <2> QED
    BY <2>1, <2>2, <2>3
<1> HIDE DEF l, r
<1>5. l = r
  BY <1>3, <1>4
<1> QED
  BY <1>5 DEF l, r

\* A request outside EXEC: dispatched at once, or queued.
LEMMA CommandStep ==
    ASSUME IInv, NEW c \in Clients, NEW cmd \in Commands, Command(c, cmd)
    PROVE  IInv'
<1>1. ops' \in 0 .. MaxOps /\ phase[c] = "idle"
  BY BoundAssumption DEF Command, Request, IInv, TypeOK
<1>2. UNCHANGED <<multi_mode, phase, running, ran>>
  BY DEF Command
<1>3. CASE multi_mode[c]
  <2>1. /\ multi_queue' = [multi_queue EXCEPT ![c] = Append(@, cmd)]
        /\ asked' = [asked EXCEPT ![c] = Append(@, cmd)]
        /\ UNCHANGED <<db, victims, db_index, watched, checks>>
    BY <1>3 DEF Command
  <2>2. TypeOK'
    BY <1>1, <1>2, <2>1 DEF IInv, TypeOK
  <2>3. QueueInv'
    BY <1>1, <1>2, <2>1 DEF IInv, TypeOK, QueueInv
  <2>4. AbsentInv' /\ VersionInv'
    BY <2>1 DEF IInv, AbsentInv, VersionInv
  <2> QED
    BY <2>2, <2>3, <2>4 DEF IInv
<1>4. CASE ~ multi_mode[c]
  <2>1. /\ Dispatch(c, cmd)
        /\ watched' = Noted(watched, c, cmd) /\ checks' = Noted(checks, c, cmd)
        /\ UNCHANGED <<multi_queue, asked>>
    BY <1>4 DEF Command
  <2>2. VersionInv' /\ watched' \in [Clients -> Seq(WatchEntries)]
                    /\ checks' \in [Clients -> Seq(WatchEntries)]
    BY <2>1, NotedTracks DEF IInv, VersionInv, TypeOK
  <2>3. TypeOK' /\ AbsentInv'
    <3>1. /\ db' \in [Dbs -> [Keys -> Entries]] /\ AbsentInv'
          /\ db_index' \in [Clients -> Dbs] /\ victims' = victims
      BY <2>1, NotedTracks DEF IInv, VersionInv, TypeOK, Dispatch
    <3> QED
      BY <1>1, <1>2, <2>1, <2>2, <3>1 DEF IInv, TypeOK
  <2>4. QueueInv'
    BY <1>2, <2>1 DEF IInv, QueueInv
  <2> QED
    BY <2>2, <2>3, <2>4 DEF IInv
<1> QED
  BY <1>3, <1>4

\* WATCH notes the version the key has now.
LEMMA WatchStep ==
    ASSUME IInv, NEW c \in Clients, NEW k \in Keys, watch(c, k)
    PROVE  IInv'
<1> DEFINE w == [key |-> k, version |-> get_version(db_index[c], k),
                 db |-> db_index[c], mods |-> {}]
<1>1. w \in WatchEntries /\ Tracks(db, w)
  <2>1. w \in [key : {k}, version : {Seen(db[db_index[c]][k])}, db : {db_index[c]}, mods : {{}}]
    BY DEF get_version
  <2>2. db[db_index[c]][k] \in Entries /\ db_index[c] \in Dbs
    BY DEF IInv, TypeOK
  <2>3. db[db_index[c]][k].version \in Nat /\ Seen(db[db_index[c]][k]) \in Nat
    BY <2>2 DEF Entries, Seen
  <2>4. Seen(db[db_index[c]][k]) <= db[db_index[c]][k].version
    BY <2>3 DEF Seen
  <2> HIDE DEF w
  <2>5. w \in WatchEntries
    BY <2>1, <2>2, <2>3 DEF WatchEntries
  <2> QED
    BY <2>1, <2>3, <2>4, <2>5 DEF Tracks, EntryTracks
<1>2. ops' \in 0 .. MaxOps
  BY BoundAssumption DEF watch, Request, IInv, TypeOK
<1>3. UNCHANGED <<db, victims, db_index, multi_mode, multi_queue, execVars, asked>>
  BY DEF watch
<1>4. watched' = watched \/ watched' = [watched EXCEPT ![c] = Append(@, w)]
  BY DEF watch
<1> HIDE DEF w
<1>5. watched' \in [Clients -> Seq(WatchEntries)]
  <2>1. watched \in [Clients -> Seq(WatchEntries)] /\ Append(watched[c], w) \in Seq(WatchEntries)
    BY <1>1 DEF IInv, TypeOK
  <2>2. [watched EXCEPT ![c] = Append(@, w)] \in [Clients -> Seq(WatchEntries)]
    BY <2>1
  <2> QED
    BY <1>4, <2>1, <2>2
<1>6. TypeOK'
  BY <1>2, <1>3, <1>5 DEF execVars, IInv, TypeOK
<1>7. QueueInv' /\ AbsentInv'
  BY <1>3 DEF execVars, IInv, QueueInv, AbsentInv
<1>8. AllTrack(db, watched')
  <2> SUFFICES ASSUME NEW o \in Clients, NEW i \in DOMAIN watched'[o]
               PROVE  Tracks(db, watched'[o][i])
    BY DEF AllTrack
  <2>1. watched[o] \in Seq(WatchEntries)
    BY DEF IInv, TypeOK
  <2>2. CASE watched'[o] = watched[o]
    BY <2>2 DEF IInv, VersionInv, AllTrack
  <2>3. CASE watched'[o] = Append(watched[o], w)
    <3>1. DOMAIN watched'[o] = 1 .. Len(watched[o]) + 1
      BY <1>1, <2>1, <2>3
    <3>2. CASE i = Len(watched[o]) + 1
      BY <1>1, <2>1, <2>3, <3>2
    <3>3. CASE i \in 1 .. Len(watched[o])
      <4>1. watched'[o][i] = watched[o][i] /\ i \in DOMAIN watched[o]
        BY <1>1, <2>1, <2>3, <3>3
      <4> QED
        BY <4>1 DEF IInv, VersionInv, AllTrack
    <3> QED
      BY <2>1, <3>1, <3>2, <3>3
  <2> QED
    BY <1>4, <2>2, <2>3 DEF IInv, TypeOK
<1> QED
  BY <1>3, <1>6, <1>7, <1>8 DEF execVars, IInv, VersionInv

\* MULTI, DISCARD, UNWATCH and an EXEC without MULTI empty lists or nothing.
LEMMA ModeStep ==
    ASSUME IInv, NEW c \in Clients,
           multi(c) \/ discard(c) \/ unwatch(c) \/ exec_without_multi(c)
    PROVE  IInv'
<1>1. ops' \in 0 .. MaxOps /\ phase[c] = "idle"
  BY BoundAssumption DEF multi, discard, unwatch, exec_without_multi, Request, IInv, TypeOK
<1>2. UNCHANGED <<db, victims, db_index, execVars>>
  BY DEF multi, discard, unwatch, exec_without_multi, ctxVars
<1>3. watched' = watched \/ watched' = [watched EXCEPT ![c] = <<>>]
  BY DEF multi, discard, unwatch, exec_without_multi, ctxVars
<1>4. \/ UNCHANGED <<multi_mode, multi_queue, asked>>
      \/ /\ \E b \in BOOLEAN : multi_mode' = [multi_mode EXCEPT ![c] = b]
         /\ multi_queue' = [multi_queue EXCEPT ![c] = <<>>]
         /\ asked' = [asked EXCEPT ![c] = <<>>]
  BY DEF multi, discard, unwatch, exec_without_multi, ctxVars
<1>5. watched' \in [Clients -> Seq(WatchEntries)] /\ AllTrack(db, watched')
  <2>1. CASE watched' = watched
    BY <2>1 DEF IInv, TypeOK, VersionInv
  <2>2. CASE watched' = [watched EXCEPT ![c] = <<>>]
    BY <2>2 DEF IInv, TypeOK, VersionInv, AllTrack
  <2> QED
    BY <1>3, <2>1, <2>2
<1>6. TypeOK' /\ QueueInv'
  <2>1. CASE UNCHANGED <<multi_mode, multi_queue, asked>>
    BY <1>1, <1>2, <1>5, <2>1 DEF execVars, IInv, TypeOK, QueueInv
  <2>2. ASSUME NEW b \in BOOLEAN, multi_mode' = [multi_mode EXCEPT ![c] = b],
               multi_queue' = [multi_queue EXCEPT ![c] = <<>>], asked' = [asked EXCEPT ![c] = <<>>]
        PROVE  TypeOK' /\ QueueInv'
    <3>1. TypeOK'
      BY <1>1, <1>2, <1>5, <2>2 DEF execVars, IInv, TypeOK
    <3>2. QueueInv'
      BY <1>1, <1>2, <2>2 DEF execVars, IInv, TypeOK, QueueInv
    <3> QED
      BY <3>1, <3>2
  <2> QED
    BY <1>4, <2>1, <2>2
<1> QED
  BY <1>2, <1>5, <1>6 DEF execVars, IInv, VersionInv, AbsentInv

\* EXEC takes over queue and watched keys.
LEMMA ExecStep ==
    ASSUME IInv, NEW c \in Clients, exec(c)
    PROVE  IInv'
<1>1. ops' \in 0 .. MaxOps /\ phase[c] = "idle" /\ multi_mode[c]
  BY BoundAssumption DEF exec, Request, IInv, TypeOK
<1>2. TypeOK'
  BY <1>1 DEF exec, IInv, TypeOK
<1>3. QueueInv'
  BY <1>1 DEF exec, IInv, TypeOK, QueueInv
<1>4. AllTrack(db, watched') /\ AllTrack(db, checks')
  BY DEF exec, IInv, TypeOK, VersionInv, AllTrack
<1> QED
  BY <1>2, <1>3, <1>4 DEF exec, IInv, VersionInv, AbsentInv

\* One comparison; a difference ends the EXEC.
LEMMA CheckStep ==
    ASSUME IInv, NEW c \in Clients, ExecCheck(c)
    PROVE  IInv'
<1>1. UNCHANGED <<db, victims, ctxVars, ran, asked, ops>> /\ phase[c] = "check"
  BY DEF ExecCheck
<1>2. \/ checks' = [checks EXCEPT ![c] = Tail(@)] /\ UNCHANGED <<phase, running>>
      \/ /\ checks' = [checks EXCEPT ![c] = <<>>]
         /\ running' = [running EXCEPT ![c] = <<>>]
         /\ phase' = [phase EXCEPT ![c] = "idle"]
  BY DEF ExecCheck
<1>3. checks[c] # <<>> /\ checks[c] \in Seq(WatchEntries)
  BY DEF ExecCheck, IInv, TypeOK
<1>4. TypeOK'
  <2>1. CASE checks' = [checks EXCEPT ![c] = Tail(@)] /\ UNCHANGED <<phase, running>>
    BY <1>1, <1>3, <2>1 DEF ctxVars, IInv, TypeOK
  <2>2. CASE /\ checks' = [checks EXCEPT ![c] = <<>>]
             /\ running' = [running EXCEPT ![c] = <<>>]
             /\ phase' = [phase EXCEPT ![c] = "idle"]
    BY <1>1, <2>2 DEF ctxVars, IInv, TypeOK
  <2> QED
    BY <1>2, <2>1, <2>2
<1>5. QueueInv'
  BY <1>1, <1>2 DEF ctxVars, IInv, TypeOK, QueueInv
<1>6. AllTrack(db, checks')
  <2>1. \A i \in 1 .. Len(checks[c]) - 1 : Tail(checks[c])[i] = checks[c][i + 1]
    BY <1>3
  <2> SUFFICES ASSUME NEW o \in Clients, NEW i \in DOMAIN checks'[o]
               PROVE  Tracks(db, checks'[o][i])
    BY DEF AllTrack
  <2>2. CASE checks'[o] = checks[o]
    BY <2>2 DEF IInv, VersionInv, AllTrack
  <2>3. CASE o = c /\ checks'[o] = Tail(checks[c])
    <3>1. i \in 1 .. Len(checks[c]) - 1
      BY <1>3, <2>3
    <3>2. i + 1 \in DOMAIN checks[c]
      BY <1>3, <3>1
    <3> QED
      BY <2>1, <2>3, <3>1, <3>2 DEF IInv, VersionInv, AllTrack
  <2>4. CASE checks'[o] = <<>>
    BY <2>4
  <2> QED
    BY <1>2, <2>2, <2>3, <2>4 DEF IInv, TypeOK
<1> QED
  BY <1>1, <1>4, <1>5, <1>6 DEF ctxVars, IInv, VersionInv, AbsentInv

\* One queued command runs; or EXEC changes its phase.
LEMMA RunStep ==
    ASSUME IInv, NEW c \in Clients, ExecRun(c) \/ ExecGo(c) \/ ExecDone(c)
    PROVE  IInv'
<1>1. CASE ExecRun(c)
  <2> DEFINE cmd == Head(running[c])
  <2>1. running[c] \in Seq(Commands) /\ running[c] # <<>> /\ ran[c] \in Seq(Commands)
    BY <1>1 DEF ExecRun, IInv, TypeOK
  <2>2. cmd \in Commands /\ Tail(running[c]) \in Seq(Commands)
    BY <2>1
  <2>3. /\ Dispatch(c, cmd)
        /\ watched' = Noted(watched, c, cmd) /\ checks' = Noted(checks, c, cmd)
        /\ ran' = [ran EXCEPT ![c] = Append(@, cmd)]
        /\ running' = [running EXCEPT ![c] = Tail(@)]
        /\ phase[c] = "run"
        /\ UNCHANGED <<multi_mode, multi_queue, phase, asked, ops>>
    BY <1>1 DEF ExecRun
  <2>4. Append(ran[c], cmd) \o Tail(running[c]) = ran[c] \o running[c]
    BY <2>1, HeadMoves
  <2> HIDE DEF cmd
  <2>5. VersionInv' /\ watched' \in [Clients -> Seq(WatchEntries)]
                    /\ checks' \in [Clients -> Seq(WatchEntries)]
    BY <2>2, <2>3, NotedTracks DEF IInv, VersionInv, TypeOK
  <2>6. TypeOK' /\ AbsentInv'
    <3>1. running' \in [Clients -> Seq(Commands)] /\ ran' \in [Clients -> Seq(Commands)]
      BY <2>1, <2>2, <2>3 DEF IInv, TypeOK
    <3>2. /\ db' \in [Dbs -> [Keys -> Entries]] /\ AbsentInv'
          /\ db_index' \in [Clients -> Dbs] /\ victims' = victims
      BY <2>2, <2>3, NotedTracks DEF IInv, VersionInv, TypeOK, Dispatch
    <3> QED
      BY <2>3, <2>5, <3>1, <3>2 DEF IInv, TypeOK
  <2>7. QueueInv'
    BY <2>3, <2>4 DEF IInv, TypeOK, QueueInv
  <2> QED
    BY <2>5, <2>6, <2>7 DEF IInv
<1>2. CASE ExecGo(c) \/ ExecDone(c)
  <2>1. /\ UNCHANGED <<db, victims, ctxVars, checks, running, ran, asked, ops>>
        /\ \/ phase[c] = "check" /\ phase' = [phase EXCEPT ![c] = "run"]
           \/ phase[c] = "run" /\ phase' = [phase EXCEPT ![c] = "idle"]
    BY <1>2 DEF ExecGo, ExecDone
  <2>2. TypeOK'
    BY <2>1 DEF ctxVars, IInv, TypeOK
  <2>3. QueueInv'
    <3>1. \A o \in Clients : asked[o] \in Seq(Commands)
      BY DEF IInv, TypeOK
    <3>2. \A o \in Clients : <<>> \o asked[o] = asked[o]
      BY <3>1
    <3> QED
      BY <2>1, <3>2 DEF ctxVars, IInv, TypeOK, QueueInv
  <2> QED
    BY <2>1, <2>2, <2>3 DEF ctxVars, IInv, VersionInv, AbsentInv
<1> QED
  BY <1>1, <1>2

\* An entry that changes by itself: its time comes, or the cycle removes it.
LEMMA BecomesStep ==
    ASSUME IInv, NEW d \in Dbs, NEW k \in Keys, NEW e \in Entries, NEW mod \in {"expired", "del"},
           e.type = "none" => e = Absent, Becomes(d, k, e, mod), victims' \subseteq Dbs \X Keys
    PROVE  IInv'
<1>1. mod \in Mods /\ Fits(db[d][k], e, mod)
  BY DEF Mods, Fits
<1>2. /\ db' = [db EXCEPT ![d][k] = e]
      /\ watched' = NoteAll(watched, d, k, mod) /\ checks' = NoteAll(checks, d, k, mod)
      /\ UNCHANGED <<db_index, multi_mode, multi_queue, phase, running, ran, asked, ops>>
  BY DEF Becomes
<1>3. /\ db' \in [Dbs -> [Keys -> Entries]] /\ AbsentInv'
      /\ watched' \in [Clients -> Seq(WatchEntries)] /\ AllTrack(db', watched')
  BY <1>1, <1>2, ChangeTracks DEF IInv, VersionInv, TypeOK
<1>4. checks' \in [Clients -> Seq(WatchEntries)] /\ AllTrack(db', checks')
  BY <1>1, <1>2, ChangeTracks DEF IInv, VersionInv, TypeOK
<1>5. TypeOK'
  BY <1>2, <1>3, <1>4 DEF IInv, TypeOK
<1>6. QueueInv'
  BY <1>2 DEF IInv, QueueInv
<1> QED
  BY <1>3, <1>4, <1>5, <1>6 DEF IInv, VersionInv

\* Time and the expiry cycle keep the invariant.
LEMMA TimeStep ==
    ASSUME IInv, Time
    PROVE  IInv'
<1>1. PICK d \in Dbs, k \in Keys : key_expires(d, k) \/ expire_collect(d, k) \/ expire_remove(d, k)
  BY DEF Time
<1>2. db[d][k] \in Entries /\ victims \subseteq Dbs \X Keys
  BY DEF IInv, TypeOK
<1>3. CASE key_expires(d, k)
  <2> DEFINE e == [db[d][k] EXCEPT !.expire = "past"]
  <2>1. e \in Entries /\ e.type = db[d][k].type
    BY <1>2 DEF Entries
  <2>2. db[d][k].type # "none"
    BY <1>3 DEF key_expires, IInv, AbsentInv, Absent
  <2>3. Becomes(d, k, e, "expired") /\ victims' = victims
    BY <1>3 DEF key_expires
  <2> HIDE DEF e
  <2> QED
    BY <1>2, <2>1, <2>2, <2>3, BecomesStep
<1>4. CASE expire_collect(d, k) \/ (expire_remove(d, k) /\ db[d][k].type = "none")
  <2>1. UNCHANGED <<db, ctxVars, execVars, asked, ops>> /\ victims' \subseteq Dbs \X Keys
    BY <1>2, <1>4 DEF expire_collect, expire_remove
  <2> QED
    BY <2>1 DEF ctxVars, execVars, IInv, TypeOK, QueueInv, AbsentInv, VersionInv
<1>5. CASE expire_remove(d, k) /\ db[d][k].type # "none"
  <2>1. Becomes(d, k, Absent, "del") /\ victims' \subseteq Dbs \X Keys
    BY <1>2, <1>5 DEF expire_remove
  <2>2. Absent \in Entries
    BY DEF Absent, Entries
  <2> QED
    BY <2>1, <2>2, BecomesStep
<1> QED
  BY <1>1, <1>3, <1>4, <1>5

\* Every step keeps the invariant.
LEMMA NextStep == IInv /\ [Next]_vars => IInv'
<1> SUFFICES ASSUME IInv, [Next]_vars PROVE IInv'
  OBVIOUS
<1>1. CASE UNCHANGED vars
  BY <1>1 DEF vars, IInv, TypeOK, QueueInv, AbsentInv, VersionInv
<1>2. CASE Next
  <2>1. CASE Step
    BY <2>1, CommandStep, WatchStep, ModeStep, ExecStep, CheckStep, RunStep DEF Step
  <2> QED
    BY <1>2, <2>1, TimeStep DEF Next
<1> QED
  BY <1>1, <1>2

\* The inductive invariant holds in every state of every behaviour.
THEOREM Invariance == Spec => []IInv
<1>1. Init => IInv
  BY InitStep
<1>2. IInv /\ [Next]_vars => IInv'
  BY NextStep
<1> QED
  BY <1>1, <1>2, PTL DEF Spec

\* For any number of connections and requests, an EXEC dispatches the commands
\* that were answered QUEUED since the last MULTI, all of them and in order.
THEOREM QueueRunsWhole == Spec => []ExecRunsWhatWasQueued
<1>1. IInv => ExecRunsWhatWasQueued
  BY DEF IInv, QueueInv, ExecRunsWhatWasQueued
<1> QED
  BY <1>1, Invariance, PTL

-----------------------------------------------------------------------------
(* The action properties: what EXEC's comparison lets through. *)

\* The key EXEC compares is one whose history the invariant describes.
LEMMA HeadTracks ==
    ASSUME IInv, NEW c \in Clients, checks[c] # <<>>
    PROVE  Head(checks[c]) \in WatchEntries /\ Tracks(db, Head(checks[c]))
<1>1. checks[c] \in Seq(WatchEntries)
  BY DEF IInv, TypeOK
<1>2. 1 \in DOMAIN checks[c] /\ Head(checks[c]) = checks[c][1]
  BY <1>1
<1> QED
  BY <1>1, <1>2 DEF IInv, VersionInv, AllTrack

\* Other commands keep the length of a list of watched keys.
LEMMA NotedKeepsLength ==
    ASSUME NEW ls \in [Clients -> Seq(WatchEntries)], NEW c \in Clients, NEW cmd, NEW o \in Clients
    PROVE  DOMAIN Noted(ls, c, cmd)[o] = DOMAIN ls[o]
<1>1. Noted(ls, c, cmd) = ls
      \/ Noted(ls, c, cmd)[o] = Note(ls[o], db_index[c], cmd.key, cmd.op)
  BY DEF Noted, NoteAll
<1> QED
  BY <1>1 DEF Note

\* A step of time that notes something keeps the length of the lists.
LEMMA TimeKeepsLists ==
    ASSUME TypeOK, Time, NEW c \in Clients
    PROVE  phase' = phase /\ DOMAIN checks'[c] = DOMAIN checks[c]
<1>1. PICK d \in Dbs, k \in Keys : key_expires(d, k) \/ expire_collect(d, k) \/ expire_remove(d, k)
  BY DEF Time
<1>2. phase' = phase /\ (checks' = checks \/ \E mod : checks' = NoteAll(checks, d, k, mod))
  BY <1>1 DEF key_expires, expire_collect, expire_remove, Becomes, execVars
<1>3. ASSUME NEW mod, checks' = NoteAll(checks, d, k, mod)
      PROVE  DOMAIN checks'[c] = DOMAIN checks[c]
  <2>1. checks'[c] = Note(checks[c], d, k, mod)
    BY <1>3 DEF NoteAll
  <2> QED
    BY <2>1 DEF Note
<1> QED
  BY <1>2, <1>3

\* Only a comparison shortens the list of watched keys or gives an EXEC up.
LEMMA ComparisonDecides ==
    ASSUME IInv, [Next]_vars, NEW c \in Clients
    PROVE  /\ Passes(c) => VersionUnchanged(c)
           /\ Fails(c) => checks[c] # <<>> /\ ~ VersionUnchanged(c)
<1>1. checks \in [Clients -> Seq(WatchEntries)] /\ phase \in [Clients -> {"idle", "check", "run"}]
  BY DEF IInv, TypeOK
<1>2. CASE ExecCheck(c)
  <2>1. checks[c] \in Seq(WatchEntries) /\ checks[c] # <<>> /\ phase[c] = "check"
    BY <1>1, <1>2 DEF ExecCheck
  <2> QED
    BY <1>1, <1>2, <2>1 DEF ExecCheck, Passes, Fails
<1>3. CASE ~ ExecCheck(c)
  <2>1. phase[c] = "check" => phase'[c] # "idle" /\ DOMAIN checks'[c] = DOMAIN checks[c]
    <3> SUFFICES ASSUME phase[c] = "check"
                 PROVE  phase'[c] # "idle" /\ DOMAIN checks'[c] = DOMAIN checks[c]
      OBVIOUS
    <3>1. CASE UNCHANGED vars
      BY <3>1 DEF vars
    <3>2. CASE Time
      BY <3>2, TimeKeepsLists DEF IInv
    <3>3. CASE Step
      <4>1. PICK o \in Clients :
               \/ \E cmd \in Commands : Command(o, cmd)
               \/ \E k \in Keys : watch(o, k)
               \/ multi(o) \/ discard(o) \/ unwatch(o)
               \/ exec(o) \/ exec_without_multi(o)
               \/ ExecCheck(o) \/ ExecGo(o) \/ ExecRun(o) \/ ExecDone(o)
        BY <3>3 DEF Step
      <4>2. CASE \E cmd \in Commands : Command(o, cmd)
        <5>1. phase' = phase /\ (checks' = checks \/ \E cmd : checks' = Noted(checks, o, cmd))
          BY <4>2 DEF Command
        <5> QED
          BY <1>1, <5>1, NotedKeepsLength
      <4>3. CASE ExecRun(o)
        <5>1. phase' = phase /\ \E cmd : checks' = Noted(checks, o, cmd)
          BY <4>3 DEF ExecRun
        <5> QED
          BY <1>1, <5>1, NotedKeepsLength
      <4>4. CASE exec(o) \/ ExecCheck(o)
        BY <1>1, <1>3, <4>4 DEF exec, ExecCheck, Request
      <4>5. CASE \/ \E k \in Keys : watch(o, k)
                 \/ multi(o) \/ discard(o) \/ unwatch(o)
                 \/ exec_without_multi(o) \/ ExecGo(o) \/ ExecDone(o)
        BY <1>1, <4>5 DEF watch, multi, discard, unwatch, exec_without_multi, ExecGo, ExecDone, execVars
      <4> QED
        BY <4>1, <4>2, <4>3, <4>4, <4>5
    <3> QED
      BY <3>1, <3>2, <3>3 DEF Next
  <2>2. ~ Fails(c)
    BY <2>1 DEF Fails
  <2>3. ~ Passes(c)
    <3> SUFFICES ASSUME Passes(c) PROVE FALSE
      OBVIOUS
    <3>1. checks[c] \in Seq(WatchEntries) /\ checks[c] # <<>> /\ checks'[c] = Tail(checks[c])
          /\ phase[c] = "check"
      BY <1>1 DEF Passes
    <3>2. DOMAIN checks[c] = 1 .. Len(checks[c]) /\ DOMAIN Tail(checks[c]) = 1 .. Len(checks[c]) - 1
          /\ Len(checks[c]) \in Nat \ {0}
      BY <3>1
    <3> QED
      BY <2>1, <3>1, <3>2
  <2> QED
    BY <2>2, <2>3
<1> QED
  BY <1>2, <1>3

\* For any number of connections: a key that was SET after it was watched, and
\* neither deleted nor expired meanwhile, never passes EXEC's comparison.
THEOREM OverwriteAborts == Spec => OverwrittenKeyAborts
<1>1. IInv /\ [Next]_vars
        => [\A c \in Clients :
              Passes(c) /\ SameDb(c)
                => LET mods == Head(checks[c]).mods
                   IN  "set" \in mods => "del" \in mods \/ "expired" \in mods]_vars
  <2> SUFFICES ASSUME IInv, [Next]_vars, NEW c \in Clients, Passes(c), SameDb(c),
                      "set" \in Head(checks[c]).mods, "del" \notin Head(checks[c]).mods,
                      "expired" \notin Head(checks[c]).mods
               PROVE  FALSE
    OBVIOUS
  <2>1. checks[c] # <<>>
    BY DEF Passes
  <2>2. Head(checks[c]) \in WatchEntries /\ Tracks(db, Head(checks[c]))
    BY <2>1, HeadTracks
  <2>3. VersionUnchanged(c)
    BY ComparisonDecides
  <2> DEFINE e == db[db_index[c]][Head(checks[c]).key]
  <2>4. e.version > Head(checks[c]).version /\ e.expire # "past"
    BY <2>2 DEF Tracks, EntryTracks, SameDb
  <2>5. e \in Entries
    BY <2>2 DEF IInv, TypeOK, WatchEntries
  <2>6. Seen(e) = Head(checks[c]).version
    BY <2>3 DEF VersionUnchanged, get_version
  <2> HIDE DEF e
  <2> QED
    BY <2>2, <2>4, <2>5, <2>6 DEF Seen, WatchEntries, Entries
<1> QED
  BY <1>1, Invariance, PTL DEF Spec, OverwrittenKeyAborts

\* For any number of connections: EXEC gives up only when something was done to
\* the watched key it compared, or its time came, since WATCH.
THEOREM AbortIsDeserved == Spec => AbortsOnlyOnChange
<1>1. IInv /\ [Next]_vars
        => [\A c \in Clients : Fails(c) /\ SameDb(c) => Head(checks[c]).mods # {}]_vars
  <2> SUFFICES ASSUME IInv, [Next]_vars, NEW c \in Clients, Fails(c), SameDb(c),
                      Head(checks[c]).mods = {}
               PROVE  FALSE
    OBVIOUS
  <2>1. checks[c] # <<>> /\ ~ VersionUnchanged(c)
    BY ComparisonDecides
  <2>2. Head(checks[c]) \in WatchEntries /\ Tracks(db, Head(checks[c]))
    BY <2>1, HeadTracks
  <2> QED
    BY <2>1, <2>2 DEF VersionUnchanged, get_version, SameDb, Tracks, EntryTracks
<1> QED
  BY <1>1, Invariance, PTL DEF Spec, AbortsOnlyOnChange
=============================================================================
