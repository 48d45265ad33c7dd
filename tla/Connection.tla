----------------------------- MODULE Connection -----------------------------
(***************************************************************************)
(* The loop of a client connection (src/net/connection.rs: handle,         *)
(* handle_auth, handle_hello) over the RESP parser (src/resp/parser.rs)    *)
(* with the commands that change a ClientContext: MULTI, EXEC and DISCARD  *)
(* (src/cmd/transaction.rs), BLPOP (src/cmd/list.rs), the commands of      *)
(* src/cmd/pubsub.rs on the registry of PubSub.tla, and scripts            *)
(* (src/cmd/lua.rs) that make one call.                                    *)
(*                                                                         *)
(* A socket is the sequence of commands the client sends.  A read brings   *)
(* any number of them, and may end inside one.  The parser's combinators   *)
(* are the complete ones: they never ask for more input, so the first part *)
(* of a command is an error.  The rest of it is an error too, or, when the *)
(* read ended between two elements of the array, a value that is not an    *)
(* array, for which parse_command returns no arguments.                    *)
(*                                                                         *)
(* Persistence.tla and Replication.tla take dispatch, append and push      *)
(* apart, Transactions.tla has WATCH and EXEC step by step, Blocking.tla   *)
(* the parked client; here those are single steps.  The protocol version   *)
(* HELLO sets only decides how an answer is written and is left out.       *)
(***************************************************************************)
EXTENDS PubSub

CONSTANTS Conns,      \* connections
          Setups,     \* whether there is a password, and the commands every
                      \* client is going to send
          MaxScript   \* bound: how many these are

ASSUME ScriptAssumption ==
    \A s \in Setups, c \in Conns :
        LET script == s.script[c]
        IN  Len(script) \in 0 .. MaxScript /\ DOMAIN script = 1 .. Len(script)

\* SUBSCRIBE and PSUBSCRIBE without a name only answer, as PING does; PUBLISH
\* names its channel (the table's arity is exact), and so does a script's SUBSCRIBE.
ASSUME NamesAssumption ==
    \A s \in Setups, c \in Conns : \A x \in Range(s.script[c]) :
        /\ x.op \in {"subscribe", "psubscribe", "publish"} =>
              x.names # <<>> /\ Len(x.names) \in Nat /\ DOMAIN x.names = 1 .. Len(x.names)
        /\ x.op \in {"subscribe", "publish"} => Range(x.names) \subseteq Channels
        /\ x.op \in {"eval", "evalsha"} /\ Head(x.names) = "subscribe" =>
              \E ch \in Channels : x.names = <<"subscribe", ch>>

VARIABLES
    requirepass,  \* whether ServerConfig::requirepass is set
    sock,         \* per connection: sent and not yet read
    conn,         \* per connection: buf, ClientContext, where handle() is
    replies,      \* history: answers written, with the request they answer
    dropped,      \* history: requests thrown away unanswered
    applied,      \* history: SETs dispatched, in order, and whether they were made
    log,          \* the AOF and the backlog: they get the same commands
    misremoved,   \* history: senders removed by indices that were out of date
    lua_scripts   \* Store::lua_scripts, by the command a script calls, and the
                  \* connections that hold a read lock on it

serverVars == <<requirepass, log, misremoved, lua_scripts>>
vars == <<registryVars, serverVars, sock, conn, replies, dropped, applied>>

NoBlock == [of |-> 0, via |-> "none"]
NoRx == [n |-> 0, kind |-> "none", name |-> <<>>]
NoItem == [id |-> 0, op |-> "none", names |-> <<>>, part |-> "all"]

\* A connection that has been accepted; one that sends nothing is never made.
NewConn(auth, script) ==
    [at |-> IF script = <<>> THEN "closed" ELSE "read",
     buf |-> <<>>, loop |-> "normal",
     authenticated |-> auth, sub_mode |-> FALSE, subscribed_channels |-> <<>>,
     subscribed_patterns |-> <<>>, rx |-> NoRx, made |-> 0, multi_mode |-> FALSE,
     multi_queue |-> <<>>, block_state |-> NoBlock, cur |-> NoItem, run |-> <<>>,
     via |-> "normal", waits |-> NoBlock, dead |-> {}, stale |-> FALSE,
     sent |-> Len(script)]

Init ==
    /\ InitRegistry
    /\ \E s \in Setups :
          /\ requirepass = s.requirepass
          /\ sock = [c \in Conns |-> [i \in DOMAIN s.script[c] |->
                        [id |-> i, op |-> s.script[c][i].op, names |-> s.script[c][i].names,
                         part |-> "all"]]]
    /\ conn = [c \in Conns |-> NewConn(~ requirepass, sock[c])]
    /\ replies = [c \in Conns |-> <<>>]
    /\ dropped = [c \in Conns |-> {}]
    /\ applied = <<>> /\ log = <<>>
    /\ misremoved = {}
    /\ lua_scripts = [cached |-> {}, readers |-> {}]

At(c, where) == conn[c].at = where

\* The next answer on connection c; of is the request whose result it is.
Reply(c, req, of, via) ==
    replies' = [replies EXCEPT ![c] = Append(@, [req |-> req, of |-> of, via |-> via])]

Ids(s) == {s[i].id : i \in DOMAIN s}

-----------------------------------------------------------------------------
(* Reading and parsing. *)

Whole(s, n) == SubSeq(s, 1, n)

\* What one read takes from the socket: n entries and maybe a part of the next.
\* tail is what the rest of that one will look like to the parser.
TakeCut(s, n) == Append(Whole(s, n), [s[n + 1] EXCEPT !.part = "head"])
LeaveCut(s, n, tail) == <<[s[n + 1] EXCEPT !.part = tail]>> \o SubSeq(s, n + 2, Len(s))

\* A part read behind the part that precedes it completes the command.
Joined(buf, new) ==
    IF buf # <<>> /\ Last(buf).part = "head"
    THEN Front(buf) \o <<[Head(new) EXCEPT !.part = "all"]>> \o Tail(new)
    ELSE buf \o new

\* read_buf returned bytes; the loop that handles them is the one of the mode
\* the connection is in now.
GotBytes(c, new, rest) ==
    /\ sock' = [sock EXCEPT ![c] = rest]
    /\ conn' = [conn EXCEPT ![c].buf = Joined(@, new), ![c].at = "loop",
                            ![c].loop = IF conn[c].sub_mode THEN "sub" ELSE "normal"]
    /\ UNCHANGED <<registryVars, serverVars, replies, dropped, applied>>

Read(c) ==
    /\ At(c, "read")
    /\ \E n \in 1 .. Len(sock[c]) :
          GotBytes(c, Whole(sock[c], n), SubSeq(sock[c], n + 1, Len(sock[c])))

ReadCut(c) ==
    /\ At(c, "read")
    /\ \E n \in 0 .. Len(sock[c]) - 1, tail \in {"tail", "args"} :
          /\ sock[c][n + 1].part = "all"
          /\ sock[c][n + 1].op = "empty" => tail = "tail"
          /\ GotBytes(c, TakeCut(sock[c], n), LeaveCut(sock[c], n, tail))

\* while !buf.is_empty(): the loop goes on, or the next read is awaited.
Looped(k) == [k EXCEPT !.at = IF k.buf = <<>> THEN "read" ELSE "loop"]

\* parse_command on what the buffer starts with.
parse_command(item) ==
    CASE item.part \in {"head", "tail"}                -> "error"
      [] item.part = "args" \/ item.op = "empty"       -> "no args"
      [] OTHER                                         -> "ok"

Parsed(c, result) == At(c, "loop") /\ parse_command(Head(conn[c].buf)) = result

\* if args.is_empty() { break; }: nothing is consumed.
NoArgs(c) ==
    /\ Parsed(c, "no args")
    /\ conn' = [conn EXCEPT ![c].at = "read"]
    /\ UNCHANGED <<registryVars, serverVars, sock, replies, dropped, applied>>

\* The task ends, and with it the receiver.
Ended(k, how) == [k EXCEPT !.at = how, !.rx = NoRx, !.buf = <<>>]

\* Normal loop: "ERR protocol error", and the connection is closed.
ProtocolError(c) ==
    /\ Parsed(c, "error") /\ conn[c].loop = "normal"
    /\ Reply(c, Head(conn[c].buf).id, Head(conn[c].buf).id, "normal")
    /\ conn' = [conn EXCEPT ![c] = Ended(@, "closed")]
    /\ UNCHANGED <<registryVars, serverVars, sock, dropped, applied>>

\* Loop of a subscribed connection: buf.clear().
ClearBuffer(c) ==
    /\ Parsed(c, "error") /\ conn[c].loop = "sub"
    /\ dropped' = [dropped EXCEPT ![c] = @ \cup Ids(conn[c].buf)]
    /\ conn' = [conn EXCEPT ![c] = Looped([@ EXCEPT !.buf = <<>>])]
    /\ UNCHANGED <<registryVars, serverVars, sock, replies, applied>>

\* Ok(0): the client has closed its end.
Hangup(c) ==
    /\ At(c, "read") /\ sock[c] = <<>>
    /\ conn' = [conn EXCEPT ![c] = Ended(@, "closed")]
    /\ UNCHANGED <<registryVars, serverVars, sock, replies, dropped, applied>>

-----------------------------------------------------------------------------
(* The normal loop, up to dispatch. *)

\* A complete command at the start of the buffer, in the given loop.
Command(c, loop) == Parsed(c, "ok") /\ conn[c].loop = loop

Item(c) == Head(conn[c].buf)

Advance(k) == Looped([k EXCEPT !.buf = Tail(@)])

AuthOps == {"auth", "authbad", "hello", "helloauth"}

\* Mutant: SUBSCRIBE is let through before AUTH.
is_auth_exempt_subscribe(op) == op \in AuthOps \cup {"ping", "subscribe"}

\* AUTH and HELLO are handled before they could be looked up here.
is_auth_exempt(op) == op \in AuthOps \cup {"ping"}

\* handle_auth and handle_hello: only the right password changes anything, and
\* only if there is one.
AuthResult(k, op) == k.authenticated \/ (requirepass /\ op \in {"auth", "helloauth"})

\* PSYNC comes first, before any check: the socket is the replica's from now on.
HandlePsync(c) ==
    /\ Command(c, "normal") /\ Item(c).op = "psync"
    /\ conn' = [conn EXCEPT ![c] = Ended(@, "replica")]
    /\ UNCHANGED <<registryVars, serverVars, sock, replies, dropped, applied>>

HandleAuth(c) ==
    /\ Command(c, "normal") /\ Item(c).op \in AuthOps
    /\ Reply(c, Item(c).id, Item(c).id, "normal")
    /\ conn' = [conn EXCEPT ![c] = [Advance(@) EXCEPT !.authenticated = AuthResult(conn[c], Item(c).op)]]
    /\ UNCHANGED <<registryVars, serverVars, sock, dropped, applied>>

Refused(c) == ~ conn[c].authenticated /\ ~ is_auth_exempt(Item(c).op)

\* Mutant: a refusal ends the loop.
NoAuthBreaks(c) ==
    /\ Command(c, "normal") /\ Item(c).op \notin AuthOps \cup {"psync"}
    /\ Refused(c)
    /\ Reply(c, Item(c).id, Item(c).id, "normal")
    /\ conn' = [conn EXCEPT ![c] = [Advance(@) EXCEPT !.at = "read"]]
    /\ UNCHANGED <<registryVars, serverVars, sock, dropped, applied>>

NoAuth(c) ==
    /\ Command(c, "normal") /\ Item(c).op \notin AuthOps \cup {"psync"}
    /\ Refused(c)
    /\ Reply(c, Item(c).id, Item(c).id, "normal")
    /\ conn' = [conn EXCEPT ![c] = Advance(@)]
    /\ UNCHANGED <<registryVars, serverVars, sock, dropped, applied>>

Queued(c) == conn[c].multi_mode /\ Item(c).op \notin {"exec", "discard", "multi"}

\* Mutant: a queued write is logged when it is queued.
QueueCommandLogs(c) ==
    /\ Command(c, "normal") /\ Item(c).op \notin AuthOps \cup {"psync"}
    /\ ~ Refused(c) /\ Queued(c)
    /\ Reply(c, Item(c).id, Item(c).id, "normal")
    /\ conn' = [conn EXCEPT ![c] = [Advance(@) EXCEPT
                                       !.multi_queue = Append(conn[c].multi_queue, Item(c))]]
    /\ log' = IF Item(c).op = "set" THEN Append(log, [conn |-> c, id |-> Item(c).id]) ELSE log
    /\ UNCHANGED <<registryVars, requirepass, sock, dropped, applied, misremoved, lua_scripts>>

QueueCommand(c) ==
    /\ Command(c, "normal") /\ Item(c).op \notin AuthOps \cup {"psync"}
    /\ ~ Refused(c) /\ Queued(c)
    /\ Reply(c, Item(c).id, Item(c).id, "normal")
    /\ conn' = [conn EXCEPT ![c] = [Advance(@) EXCEPT
                                       !.multi_queue = Append(conn[c].multi_queue, Item(c))]]
    /\ UNCHANGED <<registryVars, serverVars, sock, dropped, applied>>

Dispatching(k, via) ==
    [Advance(k) EXCEPT !.at = "run", !.cur = Head(k.buf), !.run = <<Head(k.buf)>>, !.via = via]

Begin(c) ==
    /\ Command(c, "normal") /\ Item(c).op \notin AuthOps \cup {"psync"}
    /\ ~ Refused(c) /\ ~ Queued(c)
    /\ conn' = [conn EXCEPT ![c] = Dispatching(@, "normal")]
    /\ UNCHANGED <<registryVars, serverVars, sock, replies, dropped, applied>>

\* The loop of a subscribed connection dispatches whatever it reads.
SubBegin(c) ==
    /\ Command(c, "sub")
    /\ conn' = [conn EXCEPT ![c] = Dispatching(@, "sub")]
    /\ UNCHANGED <<registryVars, serverVars, sock, replies, dropped, applied>>

-----------------------------------------------------------------------------
(* dispatch. *)

\* The command whose handler runs: the one read, or the next one of EXEC's.
Running(c, ops) == At(c, "run") /\ conn[c].run # <<>> /\ Head(conn[c].run).op \in ops

Ran(k) == [k EXCEPT !.run = Tail(@)]

\* The entry of a SET that is dispatched now.
Entry(c, via, ok) ==
    [conn |-> c, id |-> Head(conn[c].run).id, via |-> via, sub_mode |-> conn[c].sub_mode,
     authenticated |-> conn[c].authenticated, ok |-> ok]

\* The key is set, or the command is refused: over the memory limit, or by its
\* handler.  What follows does not look at the answer.
RunSet(c) ==
    /\ Running(c, {"set"})
    /\ \E ok \in BOOLEAN : applied' = Append(applied, Entry(c, conn[c].via, ok))
    /\ conn' = [conn EXCEPT ![c] = Ran(@)]
    /\ UNCHANGED <<registryVars, serverVars, sock, replies, dropped>>

\* MULTI, DISCARD and EXEC; EXEC goes on with the commands it takes from the queue.
Transacted(k, op) ==
    CASE op = "multi"   -> [Ran(k) EXCEPT !.multi_mode = TRUE, !.multi_queue = <<>>]
      [] op = "discard" -> [Ran(k) EXCEPT !.multi_mode = FALSE, !.multi_queue = <<>>]
      [] op = "exec"    -> IF ~ k.multi_mode THEN Ran(k)
                           ELSE [k EXCEPT !.multi_mode = FALSE, !.multi_queue = <<>>,
                                          !.run = k.multi_queue, !.via = "exec"]

RunTransaction(c) ==
    /\ Running(c, {"multi", "discard", "exec"})
    /\ conn' = [conn EXCEPT ![c] = Transacted(@, Head(@.run).op)]
    /\ UNCHANGED <<registryVars, serverVars, sock, replies, dropped, applied>>

\* A block request notes who made it.
Blocking(k) ==
    [Ran(k) EXCEPT !.block_state = [of |-> Head(k.run).id,
                                    via |-> IF k.sub_mode THEN "sub" ELSE k.via]]

\* BLPOP finds an element, or asks the connection to park.
RunBlpop(c) ==
    /\ Running(c, {"blpop"})
    /\ \E found \in BOOLEAN : conn' = [conn EXCEPT ![c] = IF found THEN Ran(@) ELSE Blocking(@)]
    /\ UNCHANGED <<registryVars, serverVars, sock, replies, dropped, applied>>

\* Commands that only answer, unknown ones among them: the table has no AUTH,
\* HELLO or PSYNC.
RunOther(c) ==
    /\ Running(c, AuthOps \cup {"ping", "psync"})
    /\ conn' = [conn EXCEPT ![c] = Ran(@)]
    /\ UNCHANGED <<registryVars, serverVars, sock, replies, dropped, applied>>

\* A command with too few arguments: dispatch checks exact arities only, and the
\* handler's index is out of range.
RunShort(c) ==
    /\ Running(c, {"short"})
    /\ conn' = [conn EXCEPT ![c] = Ended(@, "panicked")]
    /\ UNCHANGED <<registryVars, serverVars, sock, replies, dropped, applied>>

-----------------------------------------------------------------------------
(* Publish/subscribe. *)

Names(c) == Head(conn[c].run).names

\* The senders a (P)SUBSCRIBE makes, one for each name.
NewSenders(c) == [i \in DOMAIN Names(c) |-> <<c, conn[c].made + i>>]

\* Every name makes a new pair of ends; its receiver replaces the one before.
WithReceiver(k, kind, names) ==
    [Ran(k) EXCEPT !.made = @ + Len(names), !.sub_mode = TRUE,
                   !.rx = [n |-> k.made + Len(names), kind |-> kind, name |-> Last(names)]]

RunSubscribe(c) ==
    /\ Running(c, {"subscribe"})
    /\ subscribe_channel(Names(c), NewSenders(c))
    /\ conn' = [conn EXCEPT ![c] = [WithReceiver(@, "channel", Names(c))
                                       EXCEPT !.subscribed_channels = conn[c].subscribed_channels \o Names(c)]]
    /\ UNCHANGED <<serverVars, sock, replies, dropped, applied>>

RunPsubscribe(c) ==
    /\ Running(c, {"psubscribe"})
    /\ subscribe_pattern(Names(c), NewSenders(c))
    /\ conn' = [conn EXCEPT ![c] = [WithReceiver(@, "pattern", Names(c))
                                       EXCEPT !.subscribed_patterns = conn[c].subscribed_patterns \o Names(c)]]
    /\ UNCHANGED <<serverVars, sock, replies, dropped, applied>>

\* The names an (P)UNSUBSCRIBE leaves; without arguments it leaves none.
Left(subscribed, names) ==
    IF names = <<>> THEN <<>> ELSE SelectSeq(subscribed, LAMBDA x : x \notin Range(names))

\* The last name gone ends the mode; the receiver goes with it, or at once when
\* there were no arguments.
Unsubscribed(k, names) ==
    LET over == k.subscribed_channels = <<>> /\ k.subscribed_patterns = <<>>
    IN  [k EXCEPT !.sub_mode = @ /\ ~ over,
                  !.rx = IF over \/ names = <<>> THEN NoRx ELSE @]

RunUnsubscribe(c) ==
    /\ Running(c, {"unsubscribe", "punsubscribe"})
    /\ LET k == conn[c]
       IN  conn' = [conn EXCEPT ![c] = Unsubscribed(
                       IF Head(k.run).op = "unsubscribe"
                       THEN [Ran(k) EXCEPT !.subscribed_channels = Left(k.subscribed_channels, Names(c))]
                       ELSE [Ran(k) EXCEPT !.subscribed_patterns = Left(k.subscribed_patterns, Names(c))],
                       Names(c))]
    /\ UNCHANGED <<registryVars, serverVars, sock, replies, dropped, applied>>

\* The senders whose receiver exists.
Alive == {<<c, conn[c].rx.n>> : c \in {o \in Conns : conn[o].rx # NoRx}}

PublishedOn(k) == Head(Head(k.run).names)

\* publish_channel under the read lock.  Nothing takes a message from a receiver
\* again: select! in the loop of a subscribed connection waits for the socket.
PublishSend(c) ==
    /\ Running(c, {"publish"})
    /\ LET dead == Dead(PublishedOn(conn[c]), Alive)
       IN  conn' = [conn EXCEPT ![c].at = IF dead = {} THEN "patterns" ELSE "prune",
                                ![c].dead = dead, ![c].stale = FALSE]
    /\ UNCHANGED <<registryVars, serverVars, sock, replies, dropped, applied>>

\* The other publishers that have noted indices of the channel.
Overlapping(c) ==
    {o \in Conns \ {c} : At(o, "prune") /\ PublishedOn(conn[o]) = PublishedOn(conn[c])}

\* publish_channel under the write lock.
PublishRemove(c) ==
    LET ch == PublishedOn(conn[c])
    IN  /\ At(c, "prune") /\ ~ RemovalPanics(channels[ch], conn[c].dead)
        /\ remove_dead(ch, conn[c].dead)
        /\ misremoved' = IF conn[c].stale
                         THEN misremoved \cup (Range(channels[ch]) \ Range(channels'[ch]))
                         ELSE misremoved
        /\ conn' = [o \in Conns |-> IF o = c THEN [conn[o] EXCEPT !.at = "patterns"]
                                    ELSE IF o \in Overlapping(c) THEN [conn[o] EXCEPT !.stale = TRUE]
                                    ELSE conn[o]]
        /\ UNCHANGED <<requirepass, sock, replies, dropped, applied, log, lua_scripts>>

PublishPanic(c) ==
    /\ At(c, "prune") /\ RemovalPanics(channels[PublishedOn(conn[c])], conn[c].dead)
    /\ conn' = [conn EXCEPT ![c] = Ended(@, "panicked")]
    /\ UNCHANGED <<registryVars, serverVars, sock, replies, dropped, applied>>

\* publish_patterns: sends to Reached(channel) and counts them all.
PublishPatterns(c) ==
    /\ At(c, "patterns")
    /\ conn' = [conn EXCEPT ![c] = [Ran(@) EXCEPT !.at = "run", !.dead = {}]]
    /\ UNCHANGED <<registryVars, serverVars, sock, replies, dropped, applied>>

-----------------------------------------------------------------------------
(* Scripts.  Every redis.call has a ClientContext of its own: a mode, a     *)
(* block request or a receiver it leaves there goes with it.                *)

\* The command the script calls.
Body(k) == Head(Head(k.run).names)

\* SCRIPT LOAD inserts into a shard of the map, SCRIPT FLUSH clears them all:
\* both wait for the readers (the model has one shard).
RunScript(c) ==
    /\ Running(c, {"scriptload", "scriptflush"}) /\ lua_scripts.readers = {}
    /\ lua_scripts' = [lua_scripts EXCEPT !.cached =
                          IF Head(conn[c].run).op = "scriptload" THEN @ \cup {Body(conn[c])} ELSE {}]
    /\ conn' = [conn EXCEPT ![c] = Ran(@)]
    /\ UNCHANGED <<registryVars, requirepass, sock, replies, dropped, applied, log, misremoved>>

\* EVAL starts the script, or is refused over the memory limit.
RunEval(c) ==
    /\ Running(c, {"eval"})
    /\ \/ conn' = [conn EXCEPT ![c].at = "script"]
       \/ conn' = [conn EXCEPT ![c] = Ran(@)]
    /\ UNCHANGED <<registryVars, serverVars, sock, replies, dropped, applied>>

\* EVALSHA keeps the entry of the map, and with it the shard's read lock, until
\* the script has run; it is refused over the memory limit, or for a script that
\* is not there.
RunEvalsha(c) ==
    /\ Running(c, {"evalsha"})
    /\ \/ /\ Body(conn[c]) \in lua_scripts.cached
          /\ conn' = [conn EXCEPT ![c].at = "script"]
          /\ lua_scripts' = [lua_scripts EXCEPT !.readers = @ \cup {c}]
       \/ /\ conn' = [conn EXCEPT ![c] = Ran(@)]
          /\ UNCHANGED lua_scripts
    /\ UNCHANGED <<registryVars, requirepass, sock, replies, dropped, applied, log, misremoved>>

\* The script's call, and its end.
Called(c, body) ==
    /\ At(c, "script") /\ Body(conn[c]) = body
    /\ conn' = [conn EXCEPT ![c] = [Ran(@) EXCEPT !.at = "run",
                                       !.made = conn[c].made + (IF body = "subscribe" THEN 1 ELSE 0)]]
    /\ UNCHANGED <<requirepass, sock, replies, dropped, log, misremoved>>

Released(c) == lua_scripts' = [lua_scripts EXCEPT !.readers = @ \ {c}]

CallSet(c) ==
    /\ Called(c, "set") /\ Released(c)
    /\ \E ok \in BOOLEAN : applied' = Append(applied, Entry(c, "lua", ok))
    /\ UNCHANGED registryVars

\* SUBSCRIBE leaves a sender whose receiver is gone.
CallSubscribe(c) ==
    /\ Called(c, "subscribe") /\ Released(c)
    /\ subscribe_channel(Tail(Names(c)), <<<<c, conn[c].made + 1>>>>)
    /\ UNCHANGED applied

\* BLPOP answers OK at once, MULTI changes a context nobody sees again.
CallOther(c) ==
    /\ \E body \in {"blpop", "multi"} : Called(c, body)
    /\ Released(c)
    /\ UNCHANGED <<registryVars, applied>>

\* SCRIPT FLUSH: under EVALSHA the connection's own read lock is in the way.
CallFlush(c) ==
    /\ Called(c, "scriptflush") /\ lua_scripts.readers = {}
    /\ lua_scripts' = [lua_scripts EXCEPT !.cached = {}]
    /\ UNCHANGED <<registryVars, applied>>

-----------------------------------------------------------------------------
(* After dispatch. *)

is_write_command(op) == op = "set"

Done(c, loop) == At(c, "run") /\ conn[c].run = <<>> /\ conn[c].loop = loop

\* Mutant: the block request is looked at and not taken.
FinishKeepsBlock(c) ==
    /\ Done(c, "normal")
    /\ log' = IF is_write_command(conn[c].cur.op)
              THEN Append(log, [conn |-> c, id |-> conn[c].cur.id]) ELSE log
    /\ IF ~ conn[c].sub_mode /\ conn[c].block_state # NoBlock
       THEN /\ conn' = [conn EXCEPT ![c].at = "parked", ![c].waits = conn[c].block_state]
            /\ UNCHANGED replies
       ELSE /\ conn' = [conn EXCEPT ![c] = Looped(@)]
            /\ Reply(c, conn[c].cur.id, conn[c].cur.id, "normal")
    /\ UNCHANGED <<registryVars, requirepass, sock, dropped, applied, misremoved, lua_scripts>>

\* Normal loop: AOF and backlog, then the answer, unless a block request is
\* there: whoever made it, the connection parks, and the answer is forgotten.
Finish(c) ==
    /\ Done(c, "normal")
    /\ log' = IF is_write_command(conn[c].cur.op)
              THEN Append(log, [conn |-> c, id |-> conn[c].cur.id]) ELSE log
    /\ IF ~ conn[c].sub_mode /\ conn[c].block_state # NoBlock
       THEN /\ conn' = [conn EXCEPT ![c].at = "parked", ![c].waits = conn[c].block_state,
                                    ![c].block_state = NoBlock]
            /\ UNCHANGED replies
       ELSE /\ conn' = [conn EXCEPT ![c] = Looped(@)]
            /\ Reply(c, conn[c].cur.id, conn[c].cur.id, "normal")
    /\ UNCHANGED <<registryVars, requirepass, sock, dropped, applied, misremoved, lua_scripts>>

\* The pop is notified or its time is up.
Unpark(c) ==
    /\ At(c, "parked")
    /\ Reply(c, conn[c].cur.id, conn[c].waits.of, conn[c].waits.via)
    /\ conn' = [conn EXCEPT ![c] = [Looped(@) EXCEPT !.waits = NoBlock]]
    /\ UNCHANGED <<registryVars, serverVars, sock, dropped, applied>>

\* Loop of a subscribed connection: no log, no block request; the loop ends with
\* the mode, and what is left in the buffer waits for the next read.
SubFinish(c) ==
    /\ Done(c, "sub")
    /\ Reply(c, conn[c].cur.id, conn[c].cur.id, "normal")
    /\ conn' = [conn EXCEPT ![c] = IF @.sub_mode THEN Looped(@) ELSE [@ EXCEPT !.at = "read"]]
    /\ UNCHANGED <<registryVars, serverVars, sock, dropped, applied>>

-----------------------------------------------------------------------------

ReadStep(c) == Read(c) \/ ReadCut(c)

LoopStep(c) ==
    \/ NoArgs(c) \/ ProtocolError(c) \/ ClearBuffer(c)
    \/ HandlePsync(c) \/ HandleAuth(c) \/ NoAuth(c) \/ QueueCommand(c) \/ Begin(c) \/ SubBegin(c)
    \/ RunSet(c) \/ RunTransaction(c) \/ RunBlpop(c) \/ RunOther(c) \/ RunShort(c)
    \/ RunSubscribe(c) \/ RunPsubscribe(c) \/ RunUnsubscribe(c)
    \/ PublishSend(c) \/ PublishRemove(c) \/ PublishPanic(c) \/ PublishPatterns(c)
    \/ RunScript(c) \/ RunEval(c) \/ RunEvalsha(c)
    \/ CallSet(c) \/ CallSubscribe(c) \/ CallOther(c) \/ CallFlush(c)
    \/ Finish(c) \/ SubFinish(c) \/ Unpark(c)

Next == \E c \in Conns : ReadStep(c) \/ LoopStep(c) \/ Hangup(c)

Spec == Init /\ [][Next]_vars

\* What a client has sent arrives, a task that can run runs, and the timer of a
\* parked client fires: BLPOP with timeout 0 never parks, and the one with a
\* negative timeout, which sleeps for centuries, is in Blocking.tla.  Nobody is
\* obliged to hang up.  tokio runs every runnable task as long as no task blocks
\* its thread, which EVALSHA can do (SelfLocked); RequestsAreAnswered claims
\* nothing from then on.
FairSpec == Spec /\ \A c \in Conns : WF_vars(ReadStep(c) \/ LoopStep(c))

-----------------------------------------------------------------------------
(* Properties. *)

Over(c) == conn[c].at \in {"closed", "panicked", "replica"}

\* The number of requests up to id that were not thrown away.
Kept(c, id) == Cardinality((1 .. id) \ dropped[c])

\* A client that pairs answers with requests by their order is right, over
\* pipelining, transactions, changes of mode and split reads: the i-th answer is
\* to the i-th request that was not thrown away by a subscribed connection, and
\* it is that request's own result unless a block request made inside EXEC or
\* while subscribed was left for a later command (handle, lines 76-251).
AnswersMatchRequests ==
    \A c \in Conns : \A i \in DOMAIN replies[c] :
        LET r == replies[c][i]
        IN  /\ Kept(c, r.req) = i /\ r.req \notin dropped[c]
            /\ r.of = r.req \/ r.via \in {"exec", "sub"}

\* With a password set, no write is dispatched, nobody is subscribed and nobody is
\* in MULTI on a connection that has not given it; the loop of subscribed
\* connections, which does not look, relies on this (handle, lines 88-94 and
\* 155-162).  It says nothing of PSYNC, which is served before the check (lines
\* 122-135) although CHANGELOG.md:33 exempts only AUTH, HELLO, PING, QUIT and RESET.
NothingUnauthenticated ==
    /\ \A i \in DOMAIN applied : applied[i].authenticated
    /\ \A c \in Conns : conn[c].sub_mode \/ conn[c].multi_mode => conn[c].authenticated

\* The positions of connection c's entries, and of the ones dispatched outside EXEC,
\* scripts and the subscribed loop.
Of(c, s) == {i \in DOMAIN s : s[i].conn = c}
Plain(c) == {i \in Of(c, applied) : applied[i].via = "normal"}

\* The requests at these positions, and whether they stand in their order.
Requests(s, P) == {s[i].id : i \in P}
InOrder(s, P) == \A i, j \in P : i < j => s[i].id < s[j].id

\* The write the connection has dispatched and not yet logged.
InHand(c) == At(c, "run") /\ conn[c].run = <<>>

\* The write commands that a connection's normal loop dispatched are logged in the
\* order of the requests, each once, whether they were made or refused, and no
\* others are; the last of them may be about to be logged.  So a write that was
\* made and is missing went through EXEC, a script or the loop of a subscribed
\* connection, and only a connection in that mode is in that loop (handle, lines
\* 85-99 and 190-208; exec, eval_cmd).
LogIsInOrder ==
    /\ \A c \in Conns :
          LET dispatched == Requests(applied, Plain(c))
              logged == Requests(log, Of(c, log))
          IN  /\ InOrder(applied, Plain(c)) /\ InOrder(log, Of(c, log))
              /\ \/ logged = dispatched
                 \/ /\ InHand(c) /\ conn[c].cur.id \notin logged
                    /\ dispatched = logged \cup {conn[c].cur.id}
    /\ \A i \in DOMAIN applied : applied[i].via = "sub" => applied[i].sub_mode

\* The receiver a connection holds has its sender in the registry, whatever
\* subscriptions, departures and clean-ups go on, unless two publishers overlapped
\* on the channel; and PUBLISH panics in no other case (publish_channel).
ReceiverStaysRegistered ==
    \A c \in Conns :
        /\ LET rx == conn[c].rx
               tx == <<c, rx.n>>
           IN  /\ rx.kind = "channel" => tx \in Range(channels[rx.name]) \cup misremoved
               /\ rx.kind = "pattern" => <<rx.name, tx>> \in patterns
        /\ At(c, "panicked") => conn[c].stale \/ Head(conn[c].run).op = "short"

\* PUBLISH reaches the patterns whose language has the channel's name, for
\* every name without a star of its own (simple_match, publish_patterns).
MatchIsGlob ==
    \A c \in Conns :
        At(c, "patterns") /\ "*" \notin Range(PublishedOn(conn[c]))
            => Reached(PublishedOn(conn[c])) = {x \in patterns : Glob(PublishedOn(conn[c]), x[1])}

\* The two ways a connection waits for bytes with a command in its buffer: an
\* array without arguments is never consumed, and leaving the subscribed mode
\* ends the loop.
LeftBehind(c) ==
    /\ At(c, "read") /\ conn[c].buf # <<>>
    /\ \/ parse_command(Head(conn[c].buf)) = "no args"
       \/ conn[c].loop = "sub" /\ ~ conn[c].sub_mode

\* A script that EVALSHA runs clears the cache: it waits for its own lock.
SelfLocked(c) == At(c, "script") /\ Body(conn[c]) = "scriptflush" /\ c \in lua_scripts.readers

\* Every request is answered, however reads, blocked pops, scripts and changes of
\* mode of several connections interleave, with the exceptions that the code has:
\*  - a request thrown away after a split read, and a connection that ends on one
\*    (README.md:30-32 has partial reads handled);
\*  - a connection that ends on a command with too few arguments (README.md:37-38
\*    has the arity checked first), on a misplaced PUBLISH index or on PSYNC;
\*  - a command that waits in one of the two ways above (README.md:91-92 has every
\*    command in the buffer handled before the next read);
\*  - once a script waits for its own lock nothing is claimed of anybody: it
\*    keeps a worker thread, and the other connections' tasks may be that
\*    thread's (handle, evalsha_cmd).
RequestsAreAnswered ==
    \A c \in Conns :
        <>(\/ Over(c) \/ LeftBehind(c)
           \/ \E o \in Conns : SelfLocked(o)
           \/ sock[c] = <<>> /\ Len(replies[c]) = Kept(c, conn[c].sent))
=============================================================================
