----------------------------- MODULE Replication -----------------------------
(***************************************************************************)
(* A master with concurrent clients, and one replica that full- or         *)
(* partial-syncs from it, streams its writes and reconnects:               *)
(* src/replication/master.rs (handle_psync), src/replication/replica.rs,   *)
(* the write path of src/net/connection.rs and the replica task of         *)
(* src/server.rs.                                                          *)
(*                                                                         *)
(* Every write is an RPUSH of a distinct element to one list, so that a    *)
(* store is the sequence of its elements and lost, repeated and reordered  *)
(* writes all show.  The stream is counted in commands; Backlog.tla shows  *)
(* that the ring serves exactly the last Capacity positions of it and that *)
(* a registered channel carries everything pushed since.                   *)
(*                                                                         *)
(* The socket is the queue wire.  A broken connection loses what is in it; *)
(* both ends then give up on the session.  A read of the replica may end   *)
(* inside a command.  The parser never asks for more input: it fails on    *)
(* the first part, which is thrown away, and then fails on the rest, or,   *)
(* when the cut was between two elements, takes it for something that is   *)
(* not a command and stays in front of it for ever.                        *)
(***************************************************************************)
EXTENDS Integers, Sequences, SequencesExt

CONSTANTS MaxWrites,     \* bound: writes the clients issue
          Capacity,      \* commands the backlog ring holds
          MaxSessions,   \* bound: connections the replica makes
          MaxRestarts,   \* bound: master restarts
          MaxCuts        \* bound: reads that end inside a command

ASSUME CapacityAssumption == Capacity \in Nat \ {0}
ASSUME BoundAssumption == MaxWrites \in Nat /\ MaxSessions \in Nat /\ MaxRestarts \in Nat /\ MaxCuts \in Nat

VARIABLES
    store,       \* master: the list under the key
    pending,     \* dispatched by a connection, not yet pushed
    stream,      \* master: everything pushed to the backlog
    replid,      \* master: replication id, new in every life of the server
    session,     \* master: the PSYNC connection
    wire,        \* the socket, master to replica
    sync,        \* replica: ReplicaSyncState
    rstate,      \* replica: where connect_to_master is
    rstore,      \* replica: the list under the key
    sessions,    \* connections made so far
    cuts,        \* reads that ended inside a command so far
    missed,      \* history: commands of this session the replica threw away
    skewed       \* history: what makes the replica's list differ from the
                 \* master's has happened since it was last loaded cleanly

clientVars == <<store, pending>>
readVars == <<cuts, missed>>
vars == <<store, pending, stream, replid, session, wire, sync, rstate,
          rstore, sessions, cuts, missed, skewed>>

NoSession == [phase |-> "none", partial |-> FALSE, base |-> 0, catch_up |-> <<>>,
              rx |-> <<>>, rdb |-> <<>>, sent |-> <<>>, skewed |-> FALSE]

\* The writes, numbered in the order in which they are dispatched.
Cmds == 1 .. MaxWrites

Init ==
    /\ store = <<>> /\ pending = {}
    /\ stream = <<>> /\ replid = 1
    /\ session = NoSession /\ wire = <<>>
    /\ sync = [replid |-> 0, offset |-> -1]          \* "?" and -1
    /\ rstate = "down" /\ rstore = <<>>
    /\ sessions = 0 /\ cuts = 0
    /\ missed = <<>> /\ skewed = FALSE

-----------------------------------------------------------------------------
(* Clients of the master: dispatch, then push, as two steps of a           *)
(* connection.  The commands here succeed.  One that the master refuses    *)
(* (over its memory limit, cmd/mod.rs:62-67) or answers with an error is   *)
(* pushed as well (connection.rs:203-207), and a replica that has the      *)
(* memory makes it.                                                        *)

Dispatch(c) ==
    /\ c = Len(store) + 1
    /\ store' = Append(store, c)
    /\ pending' = pending \cup {c}
    /\ UNCHANGED <<stream, replid, session, wire, sync, rstate, rstore, sessions, readVars, skewed>>

Registered == session.phase # "none"

\* Mutant: the live channel is only fed once the sync has been served.
RxAfterLiveOnly(c) ==
    IF session.phase = "live" THEN Append(session.rx, c) ELSE session.rx

RxAfter(c) == IF Registered THEN Append(session.rx, c) ELSE session.rx

\* The push overtakes a write that was dispatched before it.
Overtakes(c) == \E o \in pending : o < c

Push(c) ==
    /\ c \in pending
    /\ pending' = pending \ {c}
    /\ stream' = Append(stream, c)
    /\ session' = [session EXCEPT !.rx = RxAfter(c),
                                  !.skewed = Registered /\ (@ \/ Overtakes(c))]
    /\ skewed' = (skewed \/ Overtakes(c))
    /\ UNCHANGED <<store, replid, wire, sync, rstate, rstore, sessions, readVars>>

-----------------------------------------------------------------------------
(* Master side of PSYNC. *)

WindowStart == IF Len(stream) > Capacity THEN Len(stream) - Capacity ELSE 0

InWindow(offset) == WindowStart <= offset /\ offset <= Len(stream)

read_from(offset) ==
    IF InWindow(offset) THEN SubSeq(stream, offset + 1, Len(stream)) ELSE <<>>

\* Mutant: the replication id is not compared.
CanServePartialAnyId(req) == req.offset >= 0 /\ InWindow(req.offset)

CanServePartial(req) ==
    req.offset >= 0 /\ req.replid = replid /\ InWindow(req.offset)

\* connect_to_master sends what the replica remembers; handle_psync decides,
\* reads the catch-up data and registers under one lock.
Psync ==
    /\ rstate = "down" /\ session.phase = "none" /\ sessions < MaxSessions
    /\ LET partial == CanServePartial(sync)
       IN  session' = [NoSession EXCEPT
                         !.phase = "attached",
                         !.partial = partial,
                         !.base = IF partial THEN sync.offset ELSE Len(stream),
                         !.catch_up = IF partial THEN read_from(sync.offset)
                                                 ELSE <<>>]
    /\ rstate' = "handshake"
    /\ sessions' = sessions + 1
    /\ missed' = <<>>
    /\ UNCHANGED <<clientVars, stream, replid, wire, sync, rstore, cuts, skewed>>

CmdMsgs(cs) == [i \in 1 .. Len(cs) |-> [type |-> "cmd", cmd |-> cs[i]]]

SendContinue ==
    /\ session.phase = "attached" /\ session.partial
    /\ wire' = (wire \o <<[type |-> "continue"]>>) \o CmdMsgs(session.catch_up)
    /\ session' = [session EXCEPT !.phase = "live", !.sent = session.catch_up]
    /\ UNCHANGED <<clientVars, stream, replid, sync, rstate, rstore, sessions, readVars, skewed>>

\* FULLRESYNC carries the offset read when the replica was attached; the
\* snapshot is taken afterwards.  Writes in it that the stream has not carried
\* up to that offset will be applied again.
SendFullresync ==
    /\ session.phase = "attached" /\ ~ session.partial
    /\ wire' = Append(wire, [type |-> "fullresync", replid |-> replid,
                             offset |-> session.base, rdb |-> store])
    /\ session' = [session EXCEPT !.phase = "saved", !.rdb = store,
                                  !.skewed = pending # {} \/ Len(stream) # session.base]
    /\ UNCHANGED <<clientVars, stream, replid, sync, rstate, rstore, sessions, readVars, skewed>>

\* The gap since the attach offset, read from the backlog again after the
\* transfer; the channel has these writes too.
SendGap ==
    /\ session.phase = "saved"
    /\ LET gap == read_from(session.base)
       IN  /\ wire' = wire \o CmdMsgs(gap)
           /\ session' = [session EXCEPT !.phase = "live", !.sent = gap,
                                         !.skewed = @ \/ gap # <<>>]
           /\ skewed' = (skewed \/ (rstate = "stream" /\ gap # <<>>))
    /\ UNCHANGED <<clientVars, stream, replid, sync, rstate, rstore, sessions, readVars>>

\* Mutant: the streaming loop forwards only the newest write it finds.
ForwardNewest ==
    /\ session.phase = "live" /\ session.rx # <<>>
    /\ wire' = Append(wire, [type |-> "cmd", cmd |-> Last(session.rx)])
    /\ session' = [session EXCEPT !.rx = <<>>,
                                  !.sent = Append(@, Last(session.rx))]
    /\ UNCHANGED <<clientVars, stream, replid, sync, rstate, rstore, sessions, readVars, skewed>>

Forward ==
    /\ session.phase = "live" /\ session.rx # <<>>
    /\ wire' = Append(wire, [type |-> "cmd", cmd |-> Head(session.rx)])
    /\ session' = [session EXCEPT !.rx = Tail(@),
                                  !.sent = Append(@, Head(session.rx))]
    /\ UNCHANGED <<clientVars, stream, replid, sync, rstate, rstore, sessions, readVars, skewed>>

-----------------------------------------------------------------------------
(* Replica. *)

\* load_rdb puts the keys of the snapshot into the store and removes none; a
\* key the master does not have keeps what the replica had.
LoadRdb(rdb) == IF rdb = <<>> THEN rstore ELSE rdb

\* Mutant: the snapshot is received but not loaded.
ReceiveFullresyncUnloaded ==
    /\ rstate = "handshake" /\ wire # <<>> /\ Head(wire).type = "fullresync"
    /\ sync' = [replid |-> Head(wire).replid, offset |-> Head(wire).offset]
    /\ rstate' = "stream"
    /\ wire' = Tail(wire)
    /\ skewed' = session.skewed
    /\ UNCHANGED <<clientVars, stream, replid, session, rstore, sessions, readVars>>

\* Mutant: the replica counts from zero instead of from the master's offset.
ReceiveFullresyncFromZero ==
    /\ rstate = "handshake" /\ wire # <<>> /\ Head(wire).type = "fullresync"
    /\ rstore' = LoadRdb(Head(wire).rdb)
    /\ sync' = [replid |-> Head(wire).replid, offset |-> 0]
    /\ rstate' = "stream"
    /\ wire' = Tail(wire)
    /\ skewed' = session.skewed
    /\ UNCHANGED <<clientVars, stream, replid, session, sessions, readVars>>

ReceiveFullresync ==
    /\ rstate = "handshake" /\ wire # <<>> /\ Head(wire).type = "fullresync"
    /\ rstore' = LoadRdb(Head(wire).rdb)
    /\ sync' = [replid |-> Head(wire).replid, offset |-> Head(wire).offset]
    /\ rstate' = "stream"
    /\ wire' = Tail(wire)
    /\ skewed' = session.skewed
    /\ UNCHANGED <<clientVars, stream, replid, session, sessions, readVars>>

ReceiveContinue ==
    /\ rstate = "handshake" /\ wire # <<>> /\ Head(wire).type = "continue"
    /\ rstate' = "stream"
    /\ wire' = Tail(wire)
    /\ UNCHANGED <<clientVars, stream, replid, session, sync, rstore, sessions, readVars, skewed>>

Arrives(type) == rstate = "stream" /\ wire # <<>> /\ Head(wire).type = type

\* stream_commands: the offset moves first, then the command is dispatched.
Apply ==
    /\ Arrives("cmd")
    /\ sync' = [sync EXCEPT !.offset = @ + 1]
    /\ rstore' = Append(rstore, Head(wire).cmd)
    /\ wire' = Tail(wire)
    /\ UNCHANGED <<clientVars, stream, replid, session, rstate, sessions, readVars, skewed>>

\* A read ends inside a command: the first part does not parse, buf.clear().
ReadCut ==
    /\ Arrives("cmd") /\ cuts < MaxCuts
    /\ cuts' = cuts + 1
    /\ \E rest \in {"tail", "args"} : wire' = <<[Head(wire) EXCEPT !.type = rest]>> \o Tail(wire)
    /\ skewed' = TRUE
    /\ UNCHANGED <<clientVars, stream, replid, session, sync, rstate, rstore, sessions, missed>>

CmdsOf(ms) == [i \in DOMAIN ms |-> ms[i].cmd]

\* The rest of it does not parse either: what was read with it goes too.
ReadRest ==
    /\ Arrives("tail")
    /\ \E n \in 1 .. Len(wire) :
          /\ wire' = SubSeq(wire, n + 1, Len(wire))
          /\ missed' = missed \o CmdsOf(SubSeq(wire, 1, n))
    /\ UNCHANGED <<clientVars, stream, replid, session, sync, rstate, rstore, sessions, cuts, skewed>>

\* The rest parses as a value without arguments: the loop breaks in front of it,
\* now and after every later read.
ReadStuck ==
    /\ Arrives("args") \/ (rstate = "stuck" /\ wire # <<>>)
    /\ rstate' = "stuck"
    /\ wire' = <<>>
    /\ missed' = missed \o CmdsOf(wire)
    /\ UNCHANGED <<clientVars, stream, replid, session, sync, rstore, sessions, cuts, skewed>>

-----------------------------------------------------------------------------
(* Failures. *)

\* The connection breaks: what is in flight is lost, the master returns from
\* handle_psync, and the replica's loop will connect again.
Disconnect ==
    /\ rstate # "down"
    /\ rstate' = "down" /\ wire' = <<>> /\ session' = NoSession
    /\ UNCHANGED <<clientVars, stream, replid, sync, rstore, sessions, readVars, skewed>>

\* The master is stopped and started: it saved its store, has an empty backlog
\* and a new replid.  Writes a connection had not pushed yet stay unpushed.
MasterRestart ==
    /\ replid <= MaxRestarts
    /\ replid' = replid + 1
    /\ stream' = <<>> /\ pending' = {}
    /\ rstate' = "down" /\ wire' = <<>> /\ session' = NoSession
    /\ UNCHANGED <<store, sync, rstore, sessions, readVars, skewed>>

\* Everything was sent, pushed, forwarded and applied, or the replica may not
\* connect any more: the model rests here.
Quiet ==
    /\ Len(store) = MaxWrites /\ pending = {} /\ wire = <<>> /\ session.rx = <<>>
    /\ session.phase \in {"none", "live"}

Rest ==
    /\ Quiet
    /\ rstate # "down" \/ sessions = MaxSessions
    /\ UNCHANGED vars

ClientStep == \E c \in Cmds : Dispatch(c) \/ Push(c)
MasterStep == Psync \/ SendContinue \/ SendFullresync \/ SendGap \/ Forward
ReplicaStep == ReceiveFullresync \/ ReceiveContinue \/ Apply \/ ReadRest \/ ReadStuck

Next == ClientStep \/ MasterStep \/ ReplicaStep \/ ReadCut \/ Disconnect \/ MasterRestart \/ Rest

Spec == Init /\ [][Next]_vars

\* A tokio task that can run does run: a connection that dispatched goes on to
\* push, handle_psync and the replica task go on while the socket is up.
\* Nothing obliges a client to write or a connection to break.
Fairness ==
    /\ \A c \in Cmds : WF_vars(Push(c))
    /\ WF_vars(MasterStep)
    /\ WF_vars(ReplicaStep)

FairSpec == Spec /\ Fairness

-----------------------------------------------------------------------------
(* Properties. *)

\* A full sync misses no write, wherever it falls between the attach, the
\* snapshot, the gap and the streaming loop, and however many writes the ring
\* has dropped meanwhile: every write in the stream is in the snapshot, was
\* sent, or waits in the channel (handle_psync, lines 34-69).
FullSyncMissesNothing ==
    session.phase \in {"saved", "live"} /\ ~ session.partial
        => Range(stream) \subseteq
               Range(session.rdb) \cup Range(session.sent) \cup Range(session.rx)

\* A partial sync hands over the stream from the requested offset on, every
\* command once and in stream order, across the change from catch-up data to
\* live channel (handle_psync, lines 34-48 and 75-92).
PartialSyncIsExact ==
    session.phase = "live" /\ session.partial
        => session.sent \o session.rx = SubSeq(stream, session.base + 1, Len(stream))

\* The offset a streaming replica remembers is where its session started plus
\* what it took from the session: nothing the master sent goes uncounted and
\* nothing is counted twice, over full syncs, resumes and broken transfers,
\* except for what a cut read made it throw away, which it asks for again when it
\* reconnects (stream_commands, connect_to_master).
OffsetCountsDelivery ==
    rstate = "stream"
        => sync.offset + Len(wire) + Len(missed) = session.base + Len(session.sent)

\* A write the master holds reaches a replica that is full-syncing, unless the
\* connection breaks first or a read ends inside a command (handle_psync,
\* stream_commands).
FullSyncDelivers ==
    \A c \in Cmds :
        (session.phase # "none" /\ ~ session.partial /\ c \in Range(store))
            ~> (c \in Range(rstore) \cup Range(missed) \/ session.phase = "none")

\* When everything dispatched has been pushed, sent and applied, the replica has
\* the master's list: every write once and in the same order, over reconnects,
\* resumes and restarts.  What spoils it is the history skewed: a push that
\* overtook another, a full sync with writes under way, a cut read (handle,
\* handle_psync, stream_commands).  So does a refused write in the code.
ReplicaConverges ==
    /\ pending = {} /\ wire = <<>> /\ session.rx = <<>>
    /\ session.phase = "live" /\ rstate = "stream" /\ ~ skewed
    => rstore = store

\* What tests/integration.rs:1079 says of a reconnect: "data from before
\* reconnect must not be lost".  When a resumed replica has applied everything
\* there is, it has every command of the stream it resumed.
ResumeLosesNothing ==
    Quiet /\ rstate = "stream" /\ session.partial
        => Range(stream) \subseteq Range(rstore)
=============================================================================
