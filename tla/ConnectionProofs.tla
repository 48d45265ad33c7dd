-------------------------- MODULE ConnectionProofs --------------------------
(***************************************************************************)
(* Proofs about Connection, for any number of connections and whatever     *)
(* they send, in whichever parts it arrives.                               *)
(*                                                                         *)
(* IInv: with a password set, a connection that has not given it writes    *)
(* nothing and gets into no mode in which commands are let through.        *)
(* OrderInv: answers come, and the log is written, in the order of         *)
(* requests; it says where every request that is not answered is.          *)
(* RegInv: a receiver keeps its sender in the registry; it says what the   *)
(* indices point to that a publisher has noted.                            *)
(***************************************************************************)
EXTENDS Connection, SequenceTheorems, FiniteSetTheorems, TLAPS

-----------------------------------------------------------------------------
(* The inductive invariant. *)

Fields == {"at", "buf", "loop", "authenticated", "sub_mode", "subscribed_channels",
           "subscribed_patterns", "rx", "made", "multi_mode", "multi_queue", "block_state",
           "cur", "run", "via", "waits", "dead", "stale", "sent"}

\* What the proof has to know of the type of a context.
Context(k) ==
    /\ DOMAIN k = Fields
    /\ k.authenticated \in BOOLEAN /\ k.sub_mode \in BOOLEAN /\ k.multi_mode \in BOOLEAN

\* Nothing is dispatched but a PING.
PingOnly(run) == run = <<>> \/ (run = <<Head(run)>> /\ Head(run).op = "ping")

\* A connection that has not given the password is in the normal loop, in no
\* mode, and at most in the handler of a PING.
Guarded(k) ==
    ~ k.authenticated => /\ ~ k.sub_mode /\ ~ k.multi_mode /\ k.loop = "normal"
                         /\ k.at \notin {"prune", "patterns", "script"}
                         /\ PingOnly(k.run)

ConnInv == DOMAIN conn = Conns /\ \A c \in Conns : Context(conn[c]) /\ Guarded(conn[c])

\* What was written was written with the password.
AppliedInv == \E S : applied \in Seq(S) /\ \A x \in S : x.authenticated

IInv == ConnInv /\ AppliedInv

-----------------------------------------------------------------------------
(* Steps of one connection. *)

\* What a step makes of the context.
LEMMA OneConn ==
    ASSUME ConnInv, NEW c \in Conns, NEW t, Context(t), Guarded(t), conn' = [conn EXCEPT ![c] = t]
    PROVE  ConnInv'
<1>1. DOMAIN conn' = Conns /\ conn'[c] = t /\ \A o \in Conns \ {c} : conn'[o] = conn[o]
  BY DEF ConnInv
<1>2. ASSUME NEW o \in Conns PROVE Context(conn'[o]) /\ Guarded(conn'[o])
  BY <1>1 DEF ConnInv
<1> HIDE DEF Context, Guarded
<1> QED
  BY <1>1, <1>2 DEF ConnInv

\* A PING that has run leaves nothing to run.
LEMMA TailPing == ASSUME NEW run, PingOnly(run), run # <<>> PROVE PingOnly(Tail(run))
<1>1. PICK x : run = <<x>> /\ x.op = "ping"
  BY DEF PingOnly
<1>2. Tail(<<x>>) = <<>>
  <2>1. Len(<<x>>) = 1
    OBVIOUS
  <2>2. <<x>> \in Seq({x})
    OBVIOUS
  <2>3. Tail(<<x>>) \in Seq({x}) /\ Len(Tail(<<x>>)) = 0
    BY <2>1, <2>2
  <2> QED
    BY <2>3
<1> QED
  BY <1>1, <1>2 DEF PingOnly

\* A step that only goes on: it stays out of the handlers that a password is
\* needed for.
LEMMA GoesOn ==
    ASSUME NEW k, NEW t, Context(k), Guarded(k), DOMAIN t = Fields, t.authenticated = k.authenticated,
           t.sub_mode = k.sub_mode, t.multi_mode = k.multi_mode, t.loop = k.loop,
           t.at \notin {"prune", "patterns", "script"},
           t.run = k.run \/ (k.run # <<>> /\ t.run = Tail(k.run))
    PROVE  Context(t) /\ Guarded(t)
<1>1. Context(t)
  BY DEF Context
<1>2. PingOnly(k.run) => PingOnly(t.run)
  BY TailPing
<1>3. Guarded(t)
  BY <1>2 DEF Guarded
<1> QED
  BY <1>1, <1>3

\* A step of a connection that has given the password.
LEMMA Trusted ==
    ASSUME NEW t, DOMAIN t = Fields, t.authenticated = TRUE, t.sub_mode \in BOOLEAN, t.multi_mode \in BOOLEAN
    PROVE  Context(t) /\ Guarded(t)
BY DEF Context, Guarded

\* Where the loop goes on.
LEMMA LoopedFacts ==
    ASSUME NEW k, DOMAIN k = Fields
    PROVE  /\ DOMAIN Looped(k) = Fields /\ Looped(k).at \in {"read", "loop"}
           /\ \A f \in Fields \ {"at"} : Looped(k)[f] = k[f]
BY DEF Looped, Fields

LEMMA AdvanceFacts ==
    ASSUME NEW k, DOMAIN k = Fields
    PROVE  /\ DOMAIN Advance(k) = Fields /\ Advance(k).at \in {"read", "loop"}
           /\ \A f \in Fields \ {"at", "buf"} : Advance(k)[f] = k[f]
BY DEF Advance, Looped, Fields

LEMMA RanFacts ==
    ASSUME NEW k, DOMAIN k = Fields
    PROVE  /\ DOMAIN Ran(k) = Fields /\ Ran(k).run = Tail(k.run)
           /\ \A f \in Fields \ {"run"} : Ran(k)[f] = k[f]
BY DEF Ran, Fields

LEMMA EndedFacts ==
    ASSUME NEW k, DOMAIN k = Fields, NEW how
    PROVE  /\ DOMAIN Ended(k, how) = Fields /\ Ended(k, how).at = how
           /\ \A f \in Fields \ {"at", "rx", "buf"} : Ended(k, how)[f] = k[f]
BY DEF Ended, Fields

-----------------------------------------------------------------------------
(* Reading, and the loop up to dispatch. *)

\* A connection's context, and what a step needs of it.
LEMMA OldContext ==
    ASSUME IInv, NEW c \in Conns
    PROVE  ConnInv /\ Context(conn[c]) /\ Guarded(conn[c]) /\ DOMAIN conn[c] = Fields
BY DEF IInv, ConnInv, Context

\* read_buf.
LEMMA BytesKeep == ASSUME IInv, NEW c \in Conns, NEW new, NEW rest, At(c, "read"), GotBytes(c, new, rest) PROVE ConnInv'
<1> DEFINE k == conn[c]
           t == [k EXCEPT !.buf = Joined(k.buf, new), !.at = "loop", !.loop = IF k.sub_mode THEN "sub" ELSE "normal"]
<1>1. ConnInv /\ Context(k) /\ Guarded(k) /\ DOMAIN k = Fields
  BY OldContext
<1>2. conn' = [conn EXCEPT ![c] = t]
  BY <1>1 DEF GotBytes, ConnInv
<1> HIDE DEF k
<1>3. /\ DOMAIN t = Fields /\ t.at = "loop" /\ t.loop = (IF k.sub_mode THEN "sub" ELSE "normal") /\ t.run = k.run
      /\ t.authenticated = k.authenticated /\ t.sub_mode = k.sub_mode /\ t.multi_mode = k.multi_mode
  BY <1>1 DEF Fields
<1> HIDE DEF t
<1>4. Context(t) /\ Guarded(t)
  BY <1>1, <1>3 DEF Context, Guarded
<1> QED
  BY <1>1, <1>2, <1>4, OneConn

LEMMA ReadKeeps == ASSUME IInv, NEW c \in Conns, ReadStep(c) PROVE IInv'
<1>1. ConnInv' 
  BY BytesKeep DEF ReadStep, Read, ReadCut
<1>2. applied' = applied
  BY DEF ReadStep, Read, ReadCut, GotBytes
<1> QED
  BY <1>1, <1>2 DEF IInv, AppliedInv

\* A step that writes nothing.
LEMMA StepKeeps ==
    ASSUME IInv, NEW c \in Conns, NEW t, Context(t), Guarded(t), conn' = [conn EXCEPT ![c] = t], applied' = applied
    PROVE  IInv'
<1>1. ConnInv'
  BY OneConn DEF IInv
<1> QED
  BY <1>1 DEF IInv, AppliedInv

\* The connection ends.
LEMMA EndKeeps ==
    ASSUME IInv, NEW c \in Conns, NEW how \in {"closed", "panicked", "replica"},
           conn' = [conn EXCEPT ![c] = Ended(conn[c], how)], applied' = applied
    PROVE  IInv'
<1>1. Context(conn[c]) /\ Guarded(conn[c]) /\ DOMAIN conn[c] = Fields
  BY OldContext
<1>2. /\ DOMAIN Ended(conn[c], how) = Fields /\ Ended(conn[c], how).at = how
      /\ \A f \in Fields \ {"at", "rx", "buf"} : Ended(conn[c], how)[f] = conn[c][f]
  BY <1>1, EndedFacts
<1>3. Context(Ended(conn[c], how)) /\ Guarded(Ended(conn[c], how))
  BY <1>1, <1>2, GoesOn DEF Fields
<1> QED
  BY <1>3, StepKeeps

\* What cannot be parsed, PSYNC, and the end of the socket.
LEMMA ParseKeeps ==
    ASSUME IInv, NEW c \in Conns,
           NoArgs(c) \/ ProtocolError(c) \/ ClearBuffer(c) \/ HandlePsync(c) \/ Hangup(c)
    PROVE  IInv'
<1> DEFINE k == conn[c]
<1>1. Context(k) /\ Guarded(k) /\ DOMAIN k = Fields
  BY OldContext
<1>2. CASE NoArgs(c)
  <2> DEFINE t == [k EXCEPT !.at = "read"]
  <2>1. conn' = [conn EXCEPT ![c] = t] /\ applied' = applied
    BY <1>2 DEF NoArgs
  <2> HIDE DEF k
  <2>2. DOMAIN t = Fields /\ t.at = "read" /\ \A f \in Fields \ {"at"} : t[f] = k[f]
    BY <1>1 DEF Fields
  <2> HIDE DEF t
  <2>3. Context(t) /\ Guarded(t)
    BY <1>1, <2>2, GoesOn DEF Fields
  <2> QED
    BY <2>1, <2>3, StepKeeps
<1>3. CASE ProtocolError(c) \/ HandlePsync(c) \/ Hangup(c)
  <2>1. applied' = applied /\ \E how \in {"closed", "replica"} : conn' = [conn EXCEPT ![c] = Ended(conn[c], how)]
    BY <1>3 DEF ProtocolError, HandlePsync, Hangup
  <2> QED
    BY <2>1, EndKeeps
<1>4. CASE ClearBuffer(c)
  <2> DEFINE u == [k EXCEPT !.buf = <<>>]
             t == Looped(u)
  <2>1. conn' = [conn EXCEPT ![c] = t] /\ applied' = applied
    BY <1>4 DEF ClearBuffer
  <2> HIDE DEF k
  <2>2. DOMAIN u = Fields /\ \A f \in Fields \ {"buf"} : u[f] = k[f]
    BY <1>1 DEF Fields
  <2> HIDE DEF u
  <2>3. DOMAIN t = Fields /\ t.at \in {"read", "loop"} /\ \A f \in Fields \ {"at", "buf"} : t[f] = k[f]
    BY <2>2, LoopedFacts
  <2> HIDE DEF t
  <2>4. Context(t) /\ Guarded(t)
    BY <1>1, <2>3, GoesOn DEF Fields
  <2> QED
    BY <2>1, <2>4, StepKeeps
<1> QED
  BY <1>2, <1>3, <1>4

\* AUTH and HELLO: who has given the password stays authenticated.
LEMMA AuthKeeps == ASSUME IInv, NEW c \in Conns, HandleAuth(c) PROVE IInv'
<1> DEFINE k == conn[c]
           u == Advance(k)
           a == AuthResult(k, Item(c).op)
           t == [u EXCEPT !.authenticated = a]
<1>1. Context(k) /\ Guarded(k) /\ DOMAIN k = Fields
  BY OldContext
<1>2. conn' = [conn EXCEPT ![c] = t] /\ applied' = applied
  BY DEF HandleAuth
<1>3. DOMAIN u = Fields /\ u.at \in {"read", "loop"} /\ \A f \in Fields \ {"at", "buf"} : u[f] = k[f]
  BY <1>1, AdvanceFacts
<1>4. a \in BOOLEAN /\ (k.authenticated => a)
  BY DEF AuthResult
<1> HIDE DEF k, u, a
<1>5. /\ DOMAIN t = Fields /\ t.authenticated = a /\ t.at \in {"read", "loop"} /\ t.loop = k.loop /\ t.run = k.run
      /\ t.sub_mode = k.sub_mode /\ t.multi_mode = k.multi_mode
  BY <1>3 DEF Fields
<1> HIDE DEF t
<1>6. Context(t) /\ Guarded(t)
  BY <1>1, <1>4, <1>5 DEF Context, Guarded
<1> QED
  BY <1>2, <1>6, StepKeeps

\* A command is refused, or queued by a connection in MULTI.
LEMMA RefuseKeeps == ASSUME IInv, NEW c \in Conns, NoAuth(c) \/ QueueCommand(c) PROVE IInv'
<1> DEFINE k == conn[c]
           u == Advance(k)
           t == [u EXCEPT !.multi_queue = Append(k.multi_queue, Item(c))]
<1>1. Context(k) /\ Guarded(k) /\ DOMAIN k = Fields
  BY OldContext
<1>2. DOMAIN u = Fields /\ u.at \in {"read", "loop"} /\ \A f \in Fields \ {"at", "buf"} : u[f] = k[f]
  BY <1>1, AdvanceFacts
<1>3. applied' = applied /\ (conn' = [conn EXCEPT ![c] = u] \/ conn' = [conn EXCEPT ![c] = t])
  <2>1. CASE NoAuth(c)
    BY <2>1 DEF NoAuth
  <2>2. CASE QueueCommand(c)
    BY <2>2 DEF QueueCommand
  <2> QED
    BY <2>1, <2>2
<1> HIDE DEF k, u
<1>4. DOMAIN t = Fields /\ \A f \in Fields \ {"multi_queue"} : t[f] = u[f]
  BY <1>2 DEF Fields
<1> HIDE DEF t
<1>5. Context(u) /\ Guarded(u)
  BY <1>1, <1>2, GoesOn DEF Fields
<1>6. Context(t) /\ Guarded(t)
  BY <1>1, <1>2, <1>4, GoesOn DEF Fields
<1> QED
  BY <1>3, <1>5, <1>6, StepKeeps

\* A command is dispatched: a PING, or one of a connection that may send it.  The
\* loop of subscribed connections does not look, and need not.
LEMMA BeginKeeps == ASSUME IInv, NEW c \in Conns, Begin(c) \/ SubBegin(c) PROVE IInv'
<1> DEFINE k == conn[c]
           u == Advance(k)
           x == Head(k.buf)
<1>1. Context(k) /\ Guarded(k) /\ DOMAIN k = Fields
  BY OldContext
<1>2. DOMAIN u = Fields /\ \A f \in Fields \ {"at", "buf"} : u[f] = k[f]
  BY <1>1, AdvanceFacts
<1>3. PICK via \in {"normal", "sub"} :
           conn' = [conn EXCEPT ![c] = [u EXCEPT !.at = "run", !.cur = x, !.run = <<x>>, !.via = via]] /\ applied' = applied
  BY DEF Begin, SubBegin, Dispatching
<1> DEFINE t == [u EXCEPT !.at = "run", !.cur = x, !.run = <<x>>, !.via = via]
<1>4. k.authenticated \/ x.op = "ping"
  <2>1. CASE Begin(c)
    BY <2>1 DEF Begin, Refused, is_auth_exempt, Item
  <2>2. CASE SubBegin(c)
    BY <1>1, <2>2 DEF SubBegin, Command, Context, Guarded
  <2> QED
    BY <2>1, <2>2
<1>5. conn' = [conn EXCEPT ![c] = t] /\ applied' = applied
  BY <1>3
<1> HIDE DEF k, u, x
<1>6. /\ DOMAIN t = Fields /\ t.authenticated = k.authenticated /\ t.at = "run" /\ t.loop = k.loop /\ t.run = <<x>>
      /\ t.sub_mode = k.sub_mode /\ t.multi_mode = k.multi_mode
  BY <1>2 DEF Fields
<1> HIDE DEF t
<1>7. x.op = "ping" => PingOnly(<<x>>)
  <2>1. Head(<<x>>) = x
    OBVIOUS
  <2> QED
    BY <2>1 DEF PingOnly
<1>8. Context(t) /\ Guarded(t)
  BY <1>1, <1>4, <1>6, <1>7 DEF Context, Guarded
<1> QED
  BY <1>5, <1>8, StepKeeps

-----------------------------------------------------------------------------
(* dispatch. *)

\* A handler that is not the one of PING runs for a connection that has given the
\* password.
LEMMA Privileged ==
    ASSUME IInv, NEW c \in Conns, NEW ops, Running(c, ops), "ping" \notin ops
    PROVE  conn[c].authenticated = TRUE
<1>1. Context(conn[c]) /\ Guarded(conn[c])
  BY OldContext
<1>2. ASSUME PingOnly(conn[c].run) PROVE FALSE
  <2>1. PICK x : conn[c].run = <<x>> /\ x.op = "ping"
    BY <1>2 DEF Running, PingOnly
  <2>2. Head(<<x>>) = x
    OBVIOUS
  <2> QED
    BY <2>1, <2>2 DEF Running
<1> QED
  BY <1>1, <1>2 DEF Context, Guarded

\* What a connection that has given the password writes.
LEMMA WriteKeeps ==
    ASSUME IInv, NEW x, x.authenticated = TRUE, applied' = Append(applied, x)
    PROVE  AppliedInv'
<1>1. PICK S : applied \in Seq(S) /\ \A y \in S : y.authenticated
  BY DEF IInv, AppliedInv
<1>2. applied' \in Seq(S \cup {x})
  BY <1>1
<1>3. \A y \in S \cup {x} : y.authenticated
  BY <1>1
<1> QED
  BY <1>2, <1>3 DEF AppliedInv

\* SET.
LEMMA SetKeeps == ASSUME IInv, NEW c \in Conns, RunSet(c) PROVE IInv'
<1>0. PICK ok \in BOOLEAN : applied' = Append(applied, Entry(c, conn[c].via, ok))
  BY DEF RunSet
<1> DEFINE k == conn[c]
           x == [conn |-> c, id |-> Head(k.run).id, via |-> k.via, sub_mode |-> k.sub_mode,
                 authenticated |-> k.authenticated, ok |-> ok]
           t == Ran(k)
<1>1. Running(c, {"set"}) /\ conn' = [conn EXCEPT ![c] = t] /\ applied' = Append(applied, x)
  BY <1>0 DEF RunSet, Entry
<1>2. ConnInv /\ Context(k) /\ DOMAIN k = Fields
  BY OldContext
<1>3. k.authenticated = TRUE
  BY <1>1, Privileged
<1> HIDE DEF k
<1>4. x.authenticated = TRUE
  BY <1>3
<1>5. DOMAIN t = Fields /\ \A f \in Fields \ {"run"} : t[f] = k[f]
  BY <1>2, RanFacts
<1> HIDE DEF x, t
<1>6. AppliedInv'
  BY <1>1, <1>4, WriteKeeps
<1>7. Context(t) /\ Guarded(t)
  BY <1>2, <1>3, <1>5, Trusted DEF Fields, Context
<1>8. ConnInv'
  BY <1>1, <1>2, <1>7, OneConn
<1> QED
  BY <1>6, <1>8 DEF IInv

\* Whatever a handler that needs the password makes of the context, it stays the
\* one of a connection that has given it.
LEMMA TrustedKeeps ==
    ASSUME IInv, NEW c \in Conns, NEW t, conn[c].authenticated = TRUE, DOMAIN t = Fields, t.authenticated = TRUE,
           t.sub_mode \in BOOLEAN, t.multi_mode \in BOOLEAN, conn' = [conn EXCEPT ![c] = t], applied' = applied
    PROVE  IInv'
BY Trusted, StepKeeps

\* MULTI, DISCARD and EXEC.
LEMMA TransactionKeeps == ASSUME IInv, NEW c \in Conns, RunTransaction(c) PROVE IInv'
<1> DEFINE k == conn[c]
           op == Head(k.run).op
           t == Transacted(k, op)
<1>1. Running(c, {"multi", "discard", "exec"}) /\ conn' = [conn EXCEPT ![c] = t] /\ applied' = applied
  BY DEF RunTransaction
<1>2. Context(k) /\ DOMAIN k = Fields
  BY OldContext
<1>3. k.authenticated = TRUE /\ op \in {"multi", "discard", "exec"}
  BY <1>1, Privileged DEF Running
<1> HIDE DEF k, op
<1>4. DOMAIN t = Fields /\ t.authenticated = k.authenticated /\ t.sub_mode = k.sub_mode /\ t.multi_mode \in BOOLEAN
  BY <1>2, <1>3 DEF Transacted, Ran, Fields, Context
<1> HIDE DEF t
<1> QED
  BY <1>1, <1>2, <1>3, <1>4, TrustedKeeps DEF Context, k

\* BLPOP.
LEMMA BlpopKeeps == ASSUME IInv, NEW c \in Conns, RunBlpop(c) PROVE IInv'
<1> DEFINE k == conn[c]
<1>1. PICK found \in BOOLEAN : conn' = [conn EXCEPT ![c] = IF found THEN Ran(k) ELSE Blocking(k)]
  BY DEF RunBlpop
<1> DEFINE t == IF found THEN Ran(k) ELSE Blocking(k)
<1>2. Running(c, {"blpop"}) /\ applied' = applied /\ conn' = [conn EXCEPT ![c] = t]
  BY <1>1 DEF RunBlpop
<1>3. Context(k) /\ DOMAIN k = Fields
  BY OldContext
<1>4. k.authenticated = TRUE
  BY <1>2, Privileged
<1> HIDE DEF k
<1>5. DOMAIN t = Fields /\ t.authenticated = k.authenticated /\ t.sub_mode = k.sub_mode /\ t.multi_mode = k.multi_mode
  BY <1>3 DEF Blocking, Ran, Fields
<1> HIDE DEF t
<1> QED
  BY <1>2, <1>3, <1>4, <1>5, TrustedKeeps DEF Context, k

\* A command that only answers, and one that panics.
LEMMA OtherKeeps == ASSUME IInv, NEW c \in Conns, RunOther(c) \/ RunShort(c) PROVE IInv'
<1> DEFINE k == conn[c]
           t == Ran(k)
<1>1. Context(k) /\ Guarded(k) /\ DOMAIN k = Fields
  BY OldContext
<1>2. CASE RunOther(c)
  <2>1. conn' = [conn EXCEPT ![c] = t] /\ applied' = applied /\ k.at = "run" /\ k.run # <<>>
    BY <1>2 DEF RunOther, Running, At
  <2> HIDE DEF k
  <2>2. DOMAIN t = Fields /\ t.run = Tail(k.run) /\ \A f \in Fields \ {"run"} : t[f] = k[f]
    BY <1>1, RanFacts
  <2> HIDE DEF t
  <2>3. Context(t) /\ Guarded(t)
    BY <1>1, <2>1, <2>2, GoesOn DEF Fields
  <2> QED
    BY <2>1, <2>3, StepKeeps
<1>3. CASE RunShort(c)
  BY <1>3, EndKeeps DEF RunShort
<1> QED
  BY <1>2, <1>3

-----------------------------------------------------------------------------
(* Publish/subscribe. *)

\* SUBSCRIBE and PSUBSCRIBE: the mode is entered with the password only.
LEMMA SubscribeKeeps == ASSUME IInv, NEW c \in Conns, RunSubscribe(c) \/ RunPsubscribe(c) PROVE IInv'
<1> DEFINE k == conn[c]
           v(kind) == WithReceiver(k, kind, Names(c))
           t == [v("channel") EXCEPT !.subscribed_channels = k.subscribed_channels \o Names(c)]
           u == [v("pattern") EXCEPT !.subscribed_patterns = k.subscribed_patterns \o Names(c)]
<1>1. Context(k) /\ DOMAIN k = Fields
  BY OldContext
<1>2. ASSUME NEW kind
      PROVE  /\ DOMAIN v(kind) = Fields /\ v(kind).authenticated = k.authenticated /\ v(kind).sub_mode = TRUE
             /\ v(kind).multi_mode = k.multi_mode
  BY <1>1 DEF WithReceiver, Ran, Fields
<1>3. applied' = applied /\ k.authenticated = TRUE
  BY Privileged DEF RunSubscribe, RunPsubscribe
<1>4. CASE RunSubscribe(c)
  <2>1. conn' = [conn EXCEPT ![c] = t]
    BY <1>4 DEF RunSubscribe
  <2> HIDE DEF k, v
  <2>2. DOMAIN t = Fields /\ t.authenticated = k.authenticated /\ t.sub_mode = TRUE /\ t.multi_mode = k.multi_mode
    BY <1>2 DEF Fields
  <2> HIDE DEF t
  <2> QED
    BY <1>1, <1>3, <2>1, <2>2, TrustedKeeps DEF Context, k
<1>5. CASE RunPsubscribe(c)
  <2>1. conn' = [conn EXCEPT ![c] = u]
    BY <1>5 DEF RunPsubscribe
  <2> HIDE DEF k, v
  <2>2. DOMAIN u = Fields /\ u.authenticated = k.authenticated /\ u.sub_mode = TRUE /\ u.multi_mode = k.multi_mode
    BY <1>2 DEF Fields
  <2> HIDE DEF u
  <2> QED
    BY <1>1, <1>3, <2>1, <2>2, TrustedKeeps DEF Context, k
<1> QED
  BY <1>4, <1>5

LEMMA UnsubscribeKeeps == ASSUME IInv, NEW c \in Conns, RunUnsubscribe(c) PROVE IInv'
<1> DEFINE k == conn[c]
           v == Ran(k)
           u == IF Head(k.run).op = "unsubscribe"
                THEN [v EXCEPT !.subscribed_channels = Left(k.subscribed_channels, Names(c))]
                ELSE [v EXCEPT !.subscribed_patterns = Left(k.subscribed_patterns, Names(c))]
           t == Unsubscribed(u, Names(c))
<1>1. Context(k) /\ DOMAIN k = Fields
  BY OldContext
<1>2. conn' = [conn EXCEPT ![c] = t] /\ applied' = applied
  BY DEF RunUnsubscribe
<1>3. k.authenticated = TRUE
  BY Privileged DEF RunUnsubscribe
<1>4. DOMAIN v = Fields /\ \A f \in Fields \ {"run"} : v[f] = k[f]
  BY <1>1, RanFacts
<1> HIDE DEF k, v
<1>5. DOMAIN u = Fields /\ u.authenticated = k.authenticated /\ u.multi_mode = k.multi_mode
  BY <1>4 DEF Fields
<1> HIDE DEF u
<1>6. DOMAIN t = Fields /\ t.authenticated = k.authenticated /\ t.multi_mode = k.multi_mode /\ t.sub_mode \in BOOLEAN
  BY <1>5 DEF Unsubscribed, Fields
<1> HIDE DEF t
<1> QED
  BY <1>1, <1>2, <1>3, <1>6, TrustedKeeps DEF Context, k

\* A connection between the steps of a handler has given the password.
LEMMA PrivilegedStep ==
    ASSUME IInv, NEW c \in Conns, conn[c].at \in {"prune", "patterns", "script"}
    PROVE  conn[c].authenticated = TRUE
BY OldContext DEF Context, Guarded

\* PUBLISH, step by step; the removal tells the publishers that overlap it.
LEMMA PublishKeeps ==
    ASSUME IInv, NEW c \in Conns, PublishSend(c) \/ PublishRemove(c) \/ PublishPanic(c) \/ PublishPatterns(c)
    PROVE  IInv'
<1> DEFINE k == conn[c]
<1>1. Context(k) /\ DOMAIN k = Fields /\ ConnInv
  BY OldContext
<1>2. applied' = applied
  BY DEF PublishSend, PublishRemove, PublishPanic, PublishPatterns
<1>3. CASE PublishSend(c)
  <2> DEFINE d == Dead(PublishedOn(k), Alive)
             t == [k EXCEPT !.at = IF d = {} THEN "patterns" ELSE "prune", !.dead = d, !.stale = FALSE]
  <2>1. conn' = [conn EXCEPT ![c] = t]
    BY <1>1, <1>3 DEF PublishSend, ConnInv
  <2>2. k.authenticated = TRUE
    BY <1>3, Privileged DEF PublishSend
  <2> HIDE DEF k
  <2>3. DOMAIN t = Fields /\ t.authenticated = k.authenticated /\ t.sub_mode = k.sub_mode /\ t.multi_mode = k.multi_mode
    BY <1>1 DEF Fields
  <2> HIDE DEF t
  <2> QED
    BY <1>1, <1>2, <2>1, <2>2, <2>3, TrustedKeeps DEF Context, k
<1>4. CASE PublishRemove(c)
  <2>1. conn' = [o \in Conns |-> IF o = c THEN [conn[o] EXCEPT !.at = "patterns"]
                                 ELSE IF o \in Overlapping(c) THEN [conn[o] EXCEPT !.stale = TRUE] ELSE conn[o]]
    BY <1>4 DEF PublishRemove
  <2>2. k.authenticated = TRUE
    BY <1>4, PrivilegedStep DEF PublishRemove, At
  <2>3. ASSUME NEW o \in Conns PROVE Context(conn'[o]) /\ Guarded(conn'[o])
    <3> DEFINE h == conn[o]
    <3>1. Context(h) /\ Guarded(h) /\ DOMAIN h = Fields
      BY OldContext
    <3>2. CASE o = c
      <4> DEFINE t == [h EXCEPT !.at = "patterns"]
      <4>1. conn'[o] = t
        BY <2>1, <3>2
      <4>2. DOMAIN t = Fields /\ t.authenticated = h.authenticated /\ t.sub_mode = h.sub_mode /\ t.multi_mode = h.multi_mode
        BY <3>1 DEF Fields
      <4> HIDE DEF t
      <4> QED
        BY <2>2, <3>1, <3>2, <4>1, <4>2, Trusted DEF Context
    <3>3. CASE o # c /\ o \in Overlapping(c)
      <4> DEFINE t == [h EXCEPT !.stale = TRUE]
      <4>1. conn'[o] = t
        BY <2>1, <3>3
      <4>2. h.authenticated = TRUE
        BY <3>3, PrivilegedStep DEF Overlapping, At
      <4> HIDE DEF h
      <4>3. DOMAIN t = Fields /\ t.authenticated = h.authenticated /\ t.sub_mode = h.sub_mode /\ t.multi_mode = h.multi_mode
        BY <3>1 DEF Fields
      <4> HIDE DEF t
      <4> QED
        BY <3>1, <4>1, <4>2, <4>3, Trusted DEF Context
    <3>4. CASE o # c /\ o \notin Overlapping(c)
      BY <2>1, <3>1, <3>4
    <3> QED
      BY <3>2, <3>3, <3>4
  <2>4. DOMAIN conn' = Conns
    BY <2>1
  <2>5. ConnInv'
    <3> HIDE DEF Context, Guarded
    <3> QED
      BY <2>3, <2>4 DEF ConnInv
  <2> QED
    BY <1>2, <2>5 DEF IInv, AppliedInv
<1>5. CASE PublishPanic(c)
  BY <1>2, <1>5, EndKeeps DEF PublishPanic
<1>6. CASE PublishPatterns(c)
  <2> DEFINE u == Ran(k)
             t == [u EXCEPT !.at = "run", !.dead = {}]
  <2>1. conn' = [conn EXCEPT ![c] = t]
    BY <1>6 DEF PublishPatterns
  <2>2. k.authenticated = TRUE
    BY <1>6, PrivilegedStep DEF PublishPatterns, At
  <2> HIDE DEF k
  <2>3. DOMAIN u = Fields /\ \A f \in Fields \ {"run"} : u[f] = k[f]
    BY <1>1, RanFacts
  <2> HIDE DEF u
  <2>4. DOMAIN t = Fields /\ t.authenticated = k.authenticated /\ t.sub_mode = k.sub_mode /\ t.multi_mode = k.multi_mode
    BY <2>3 DEF Fields
  <2> HIDE DEF t
  <2> QED
    BY <1>1, <1>2, <2>1, <2>2, <2>4, TrustedKeeps DEF Context, k
<1> QED
  BY <1>3, <1>4, <1>5, <1>6

-----------------------------------------------------------------------------
(* Scripts, and what follows the dispatch. *)

\* The script's call has a context of its own, and the connection goes on.
LEMMA CalledFacts ==
    ASSUME IInv, NEW c \in Conns, NEW body, Called(c, body)
    PROVE  ConnInv' /\ conn[c].authenticated = TRUE
<1> DEFINE k == conn[c]
           u == Ran(k)
           n == k.made + (IF body = "subscribe" THEN 1 ELSE 0)
           t == [u EXCEPT !.at = "run", !.made = n]
<1>1. Context(k) /\ DOMAIN k = Fields /\ ConnInv
  BY OldContext
<1>2. conn' = [conn EXCEPT ![c] = t]
  BY DEF Called
<1>3. k.authenticated = TRUE
  BY PrivilegedStep DEF Called, At
<1> HIDE DEF k, n
<1>4. DOMAIN u = Fields /\ \A f \in Fields \ {"run"} : u[f] = k[f]
  BY <1>1, RanFacts
<1> HIDE DEF u
<1>5. DOMAIN t = Fields /\ t.authenticated = k.authenticated /\ t.sub_mode = k.sub_mode /\ t.multi_mode = k.multi_mode
  BY <1>4 DEF Fields
<1> HIDE DEF t
<1>6. Context(t) /\ Guarded(t)
  BY <1>1, <1>3, <1>5, Trusted DEF Context
<1> QED
  BY <1>1, <1>2, <1>3, <1>6, OneConn DEF k

LEMMA CallKeeps ==
    ASSUME IInv, NEW c \in Conns, CallSet(c) \/ CallSubscribe(c) \/ CallOther(c) \/ CallFlush(c)
    PROVE  IInv'
<1>1. ConnInv' /\ conn[c].authenticated = TRUE
  BY CalledFacts DEF CallSet, CallSubscribe, CallOther, CallFlush
<1>2. CASE CallSet(c)
  <2>0. PICK ok \in BOOLEAN : applied' = Append(applied, Entry(c, "lua", ok))
    BY <1>2 DEF CallSet
  <2> DEFINE x == [conn |-> c, id |-> Head(conn[c].run).id, via |-> "lua", sub_mode |-> conn[c].sub_mode,
                   authenticated |-> conn[c].authenticated, ok |-> ok]
  <2>1. applied' = Append(applied, x) /\ x.authenticated = TRUE
    BY <1>1, <2>0 DEF Entry
  <2> HIDE DEF x
  <2> QED
    BY <1>1, <2>1, WriteKeeps DEF IInv
<1>3. CASE CallSubscribe(c) \/ CallOther(c) \/ CallFlush(c)
  <2>1. applied' = applied
    BY <1>3 DEF CallSubscribe, CallOther, CallFlush
  <2> QED
    BY <1>1, <2>1 DEF IInv, AppliedInv
<1> QED
  BY <1>2, <1>3

\* SCRIPT LOAD, SCRIPT FLUSH, EVAL and EVALSHA.
LEMMA ScriptKeeps == ASSUME IInv, NEW c \in Conns, RunScript(c) \/ RunEval(c) \/ RunEvalsha(c) PROVE IInv'
<1> DEFINE k == conn[c]
           u == Ran(k)
           t == [k EXCEPT !.at = "script"]
<1>1. Context(k) /\ DOMAIN k = Fields /\ ConnInv
  BY OldContext
<1>2. k.authenticated = TRUE
  BY Privileged DEF RunScript, RunEval, RunEvalsha
<1>3. conn' = [conn EXCEPT ![c] = u] \/ conn' = [conn EXCEPT ![c] = t]
  <2>1. CASE RunScript(c)
    BY <2>1 DEF RunScript
  <2>2. CASE RunEval(c)
    BY <1>1, <2>2 DEF RunEval, ConnInv
  <2>3. CASE RunEvalsha(c)
    BY <1>1, <2>3 DEF RunEvalsha, ConnInv
  <2> QED
    BY <2>1, <2>2, <2>3
<1>4. applied' = applied
  BY DEF RunScript, RunEval, RunEvalsha
<1> HIDE DEF k
<1>5. DOMAIN u = Fields /\ \A f \in Fields \ {"run"} : u[f] = k[f]
  BY <1>1, RanFacts
<1>6. DOMAIN t = Fields /\ t.authenticated = k.authenticated /\ t.sub_mode = k.sub_mode /\ t.multi_mode = k.multi_mode
  BY <1>1 DEF Fields
<1> HIDE DEF u, t
<1>7. CASE conn' = [conn EXCEPT ![c] = u]
  <2>1. u.authenticated = k.authenticated /\ u.sub_mode = k.sub_mode /\ u.multi_mode = k.multi_mode
    BY <1>5 DEF Fields
  <2> QED
    BY <1>1, <1>2, <1>4, <1>5, <1>7, <2>1, TrustedKeeps DEF Context, k
<1>8. CASE conn' = [conn EXCEPT ![c] = t]
  BY <1>1, <1>2, <1>4, <1>6, <1>8, TrustedKeeps DEF Context, k
<1> QED
  BY <1>3, <1>7, <1>8

\* The answer, or parking for a block request, and the way out of it.
LEMMA FinishKeeps == ASSUME IInv, NEW c \in Conns, Finish(c) \/ Unpark(c) \/ SubFinish(c) PROVE IInv'
<1> DEFINE k == conn[c]
           p == [k EXCEPT !.at = "parked", !.waits = k.block_state, !.block_state = NoBlock]
           l == Looped(k)
           n == [l EXCEPT !.waits = NoBlock]
           r == [k EXCEPT !.at = "read"]
<1>1. Context(k) /\ Guarded(k) /\ DOMAIN k = Fields /\ ConnInv
  BY OldContext
<1>2. applied' = applied
  BY DEF Finish, Unpark, SubFinish
<1>3. PICK t \in {p, l, n, r} : conn' = [conn EXCEPT ![c] = t]
  <2>1. CASE Finish(c)
    <3>1. conn' = [conn EXCEPT ![c] = p] \/ conn' = [conn EXCEPT ![c] = l]
      BY <1>1, <2>1 DEF Finish, ConnInv
    <3> HIDE DEF p, l, n, r
    <3> QED
      BY <3>1
  <2>2. CASE Unpark(c)
    <3>1. conn' = [conn EXCEPT ![c] = n]
      BY <2>2 DEF Unpark
    <3> HIDE DEF p, l, n, r
    <3> QED
      BY <3>1
  <2>3. CASE SubFinish(c)
    <3>1. conn' = [conn EXCEPT ![c] = l] \/ conn' = [conn EXCEPT ![c] = r]
      BY <2>3 DEF SubFinish
    <3> HIDE DEF p, l, n, r
    <3> QED
      BY <3>1
  <2> QED
    BY <2>1, <2>2, <2>3
<1> HIDE DEF k
<1>4. DOMAIN p = Fields /\ p.at = "parked" /\ \A f \in Fields \ {"at", "waits", "block_state"} : p[f] = k[f]
  BY <1>1 DEF Fields
<1>5. DOMAIN l = Fields /\ l.at \in {"read", "loop"} /\ \A f \in Fields \ {"at"} : l[f] = k[f]
  BY <1>1, LoopedFacts
<1> HIDE DEF l
<1>6. DOMAIN n = Fields /\ n.at \in {"read", "loop"} /\ \A f \in Fields \ {"at", "waits"} : n[f] = k[f]
  BY <1>5 DEF Fields
<1>7. DOMAIN r = Fields /\ r.at = "read" /\ \A f \in Fields \ {"at"} : r[f] = k[f]
  BY <1>1 DEF Fields
<1> HIDE DEF p, n, r
<1>8. /\ DOMAIN t = Fields /\ t.at \in {"parked", "read", "loop"}
      /\ \A f \in Fields \ {"at", "waits", "block_state"} : t[f] = k[f]
  BY <1>4, <1>5, <1>6, <1>7
<1>9. Context(t) /\ Guarded(t)
  BY <1>1, <1>8, GoesOn DEF Fields
<1> QED
  BY <1>2, <1>3, <1>9, StepKeeps

-----------------------------------------------------------------------------
(* The invariant holds, and what follows from it. *)

LEMMA InitInv == Init => IInv
<1> SUFFICES ASSUME Init PROVE IInv
  OBVIOUS
<1>1. ASSUME NEW c \in Conns PROVE Context(conn[c]) /\ Guarded(conn[c])
  <2> DEFINE auth == ~ requirepass
             t == NewConn(auth, sock[c])
  <2>1. conn[c] = t
    BY DEF Init
  <2>2. auth \in BOOLEAN
    OBVIOUS
  <2> HIDE DEF auth
  <2>3. /\ DOMAIN t = Fields /\ t.authenticated = auth /\ t.sub_mode = FALSE /\ t.multi_mode = FALSE
        /\ t.loop = "normal" /\ t.at \in {"closed", "read"} /\ t.run = <<>>
    BY DEF NewConn, Fields
  <2> HIDE DEF t
  <2> QED
    BY <2>1, <2>2, <2>3 DEF Context, Guarded, PingOnly
<1>2. DOMAIN conn = Conns
  BY DEF Init
<1>3. AppliedInv
  <2>1. applied \in Seq({})
    BY DEF Init
  <2> QED
    BY <2>1 DEF AppliedInv
<1> QED
  BY <1>1, <1>2, <1>3 DEF IInv, ConnInv

\* Every step keeps the invariant.
LEMMA NextStep == IInv /\ [Next]_vars => IInv'
<1> SUFFICES ASSUME IInv, [Next]_vars PROVE IInv'
  OBVIOUS
<1>1. ASSUME NEW c \in Conns, LoopStep(c) PROVE IInv'
  BY <1>1, ParseKeeps, AuthKeeps, RefuseKeeps, BeginKeeps, SetKeeps, TransactionKeeps, BlpopKeeps, OtherKeeps,
     SubscribeKeeps, UnsubscribeKeeps, PublishKeeps, ScriptKeeps, CallKeeps, FinishKeeps, Zenon DEF LoopStep
<1>2. ASSUME NEW c \in Conns, ReadStep(c) PROVE IInv'
  BY <1>2, ReadKeeps
<1>3. ASSUME NEW c \in Conns, Hangup(c) PROVE IInv'
  BY <1>3, ParseKeeps
<1>4. CASE UNCHANGED vars
  BY <1>4 DEF vars, IInv, ConnInv, AppliedInv, Context, Guarded
<1> QED
  BY <1>1, <1>2, <1>3, <1>4 DEF Next

\* Whatever connections send, in whichever parts it arrives, the invariant holds
\* (src/net/connection.rs: handle, handle_auth, handle_hello).
THEOREM Invariance == Spec => []IInv
BY InitInv, NextStep, PTL DEF Spec

\* With a password set nothing is written, queued or subscribed to by a connection
\* that has not given it; that the loop of subscribed connections does not check is
\* sound (src/net/connection.rs: handle, lines 88-94 and 155-162).
THEOREM PasswordIsNeeded == Spec => []NothingUnauthenticated
<1>1. IInv => NothingUnauthenticated
  <2> SUFFICES ASSUME IInv PROVE NothingUnauthenticated
    OBVIOUS
  <2>1. \A c \in Conns : conn[c].sub_mode \/ conn[c].multi_mode => conn[c].authenticated
    BY DEF IInv, ConnInv, Guarded
  <2>2. PICK S : applied \in Seq(S) /\ \A x \in S : x.authenticated
    BY DEF IInv, AppliedInv
  <2>3. \A i \in DOMAIN applied : applied[i].authenticated
    BY <2>2
  <2> QED
    BY <2>1, <2>3 DEF NothingUnauthenticated
<1> QED
  BY <1>1, Invariance, PTL
-----------------------------------------------------------------------------
(* The order of answers, and of the log: the invariant. *)

\* What is on its way from a client to its handler.
Commands == UNION {Range(s.script[c]) : s \in Setups, c \in Conns}
Rest == {"tail", "args"}
Items == UNION {[id : Nat, op : {x.op}, names : {x.names}, part : {"all", "head"} \cup Rest] : x \in Commands}

\* A request has been taken from the buffer and is not answered yet.
Busy(k) == k.at \in {"run", "prune", "patterns", "script", "parked"}
Ongoing(k) == Busy(k) \/ k.at \in {"read", "loop"}

\* The buffer ends inside a command.
Open(k) == k.buf # <<>> /\ k.buf[Len(k.buf)].part = "head"

\* What comes next is the rest of a command whose first part was thrown away.
Behind(k, s) == IF k.buf # <<>> THEN k.buf[1].part \in Rest ELSE s # <<>> /\ s[1].part \in Rest

\* The number before the one of the first item of the buffer.
Base(k, s, m) == IF Behind(k, s) THEN m - 1 ELSE m

\* m requests have been taken from the buffer: those that are to come, in buffer
\* and socket, follow in their order, and only the last one of the buffer is cut.
Lined(k, s, m) ==
    /\ k.buf \in Seq(Items) /\ s \in Seq(Items)
    /\ \A i \in 1 .. Len(k.buf) : k.buf[i].id = Base(k, s, m) + i
    /\ \A i \in 1 .. Len(s) :
          s[i].id = Base(k, s, m) + Len(k.buf) - (IF Open(k) THEN 1 ELSE 0) + i
    /\ \A i \in 2 .. Len(k.buf) : k.buf[i].part \notin Rest
    /\ \A i \in 1 .. Len(k.buf) - 1 : k.buf[i].part # "head"
    /\ \A i \in 2 .. Len(s) : s[i].part = "all"
    /\ s # <<>> /\ ~ Open(k) /\ k.buf # <<>> => s[1].part = "all"
    /\ s # <<>> => s[1].part # "head"
    /\ Open(k) => s # <<>> /\ s[1].part \in Rest
    /\ k.at = "loop" => k.buf # <<>>

\* The number of requests up to m that are not thrown away.
Held(m, d) == Cardinality((1 .. m) \ d)

\* d are the requests thrown away: the others among the first m are answered, but
\* for the one in hand.
Counted(k, s, r, d, m) ==
    /\ Held(m, d) = Len(r) + (IF Busy(k) THEN 1 ELSE 0)
    /\ Busy(k) => k.cur.id = m /\ m \notin d
    /\ Behind(k, s) => /\ m \in d /\ k.sub_mode /\ k.at \in {"read", "loop"}
                       /\ k.at = "loop" => k.loop = "sub"

\* The answers given.
Answered(r, d, m) ==
    /\ r \in Seq([req : Nat, of : Nat, via : {"normal", "exec", "sub"}])
    /\ d \subseteq 1 .. m
    /\ \A i \in 1 .. Len(r) :
          /\ r[i].req \in (1 .. m) \ d /\ Held(r[i].req, d) = i
          /\ r[i].of = r[i].req \/ r[i].via \in {"exec", "sub"}

\* How the request in hand was dispatched, and for whom a block request is.
Mode(k) ==
    /\ k.run \in Seq(Items) /\ k.multi_queue \in Seq(Items)
    /\ k.at = "loop" /\ k.loop = "sub" => k.sub_mode
    /\ k.block_state.of \in Nat /\ k.waits.of \in Nat
    /\ k.at \in {"prune", "patterns"} => k.run # <<>> /\ Head(k.run).op = "publish"
    /\ k.at = "script" => k.run # <<>> /\ Head(k.run).op \in {"eval", "evalsha"}
    /\ k.at = "parked" => k.run = <<>> /\ k.loop = "normal"
    /\ Busy(k) =>
          /\ k.cur \in Items
          /\ k.via \in {"normal", "sub", "exec"}
          /\ k.via = "exec" => k.cur.op = "exec"
          /\ k.via # "exec" => k.via = k.loop /\ k.run \in {<<>>, <<k.cur>>}
          /\ k.via = "sub" /\ k.run # <<>> => k.sub_mode
    /\ \/ k.block_state = NoBlock \/ k.block_state.via \in {"exec", "sub"}
       \/ /\ k.block_state.of = k.cur.id /\ k.block_state.via = "normal"
          /\ k.at = "run" /\ k.run = <<>> /\ k.loop = "normal" /\ ~ k.sub_mode
    /\ k.at = "parked" => \/ k.waits.of = k.cur.id /\ k.waits.via = "normal"
                          \/ k.waits.via \in {"exec", "sub"}

\* A write has been dispatched and is about to be logged.
Unlogged(k) == k.at = "run" /\ k.run = <<>> /\ k.via = "normal" /\ k.cur.op = "set"

\* issued and logged are the requests whose writes were dispatched, made or
\* refused, and logged.
LogPart(k, issued, logged, m) ==
    /\ issued \subseteq 1 .. m /\ logged \subseteq issued
    /\ Busy(k) /\ k.via = "normal" /\ k.run # <<>> => m \notin issued
    /\ IF Unlogged(k) THEN issued = logged \cup {m} /\ m \notin logged ELSE issued = logged

\* All of it, for one connection: its context k, its socket s, its answers r, ...
Requested(k, s, r, d, issued, logged, m) ==
    /\ Answered(r, d, m)
    /\ Ongoing(k) => Lined(k, s, m) /\ Counted(k, s, r, d, m)
    /\ LogPart(k, issued, logged, m)

Issued(c) == Requests(applied, Plain(c))
InLog(c) == Requests(log, Of(c, log))

ReqInv(c) == \E m \in Nat : Requested(conn[c], sock[c], replies[c], dropped[c], Issued(c), InLog(c), m)

\* The histories of writes.
HistoryInv ==
    /\ applied \in Seq([conn : Conns, id : Nat, via : {"normal", "sub", "exec", "lua"},
                        sub_mode : BOOLEAN, authenticated : BOOLEAN, ok : BOOLEAN])
    /\ log \in Seq([conn : Conns, id : Nat])
    /\ \A c \in Conns : InOrder(applied, Plain(c)) /\ InOrder(log, Of(c, log))
    /\ \A i \in DOMAIN applied : applied[i].via = "sub" => applied[i].sub_mode

OrderInv ==
    /\ DOMAIN sock = Conns /\ DOMAIN replies = Conns /\ DOMAIN dropped = Conns
    /\ \A c \in Conns : Mode(conn[c]) /\ ReqInv(c)
    /\ HistoryInv

-----------------------------------------------------------------------------
(* The order of answers: what arrives. *)

\* The parts of a command.
LEMMA ItemFacts ==
    ASSUME NEW x \in Items
    PROVE  /\ x.id \in Nat /\ x.part \in {"all", "head"} \cup Rest
           /\ \A p \in {"all", "head"} \cup Rest :
                 [x EXCEPT !.part = p] \in Items /\ [x EXCEPT !.part = p].id = x.id /\ [x EXCEPT !.part = p].part = p
BY DEF Items

\* What the buffer is after a read, o = 1 when it ended inside a command (Joined).
IsJoined(buf, new, o, j) ==
    /\ j \in Seq(Items) /\ Len(j) = Len(buf) - o + Len(new)
    /\ \A i \in 1 .. Len(buf) - o : j[i] = buf[i]
    /\ \A i \in 1 .. Len(new) :
          /\ j[Len(buf) - o + i].id = new[i].id
          /\ j[Len(buf) - o + i].part = IF o = 1 /\ i = 1 THEN "all" ELSE new[i].part

LEMMA JoinedFacts ==
    ASSUME NEW buf \in Seq(Items), NEW new \in Seq(Items), new # <<>>
    PROVE  IsJoined(buf, new, IF buf # <<>> /\ buf[Len(buf)].part = "head" THEN 1 ELSE 0, Joined(buf, new))
<1> DEFINE j == Joined(buf, new)
<1>1. CASE buf # <<>> /\ buf[Len(buf)].part = "head"
  <2> DEFINE f == SubSeq(buf, 1, Len(buf) - 1)
             x == [new[1] EXCEPT !.part = "all"]
             u == f \o <<x>>
             v == Tail(new)
  <2>1. j = u \o v
    <3>1. Last(buf).part = "head" /\ Head(new) = new[1]
      BY <1>1 DEF Last
    <3> QED
      BY <1>1, <3>1 DEF Joined, Front
  <2>2. Len(buf) \in Nat \ {0} /\ Len(new) \in Nat \ {0}
    BY <1>1
  <2>3. x \in Items /\ x.id = new[1].id /\ x.part = "all"
    <3>1. new[1] \in Items
      BY <2>2
    <3> QED
      BY <3>1, ItemFacts
  <2>4. f \in Seq(Items) /\ Len(f) = Len(buf) - 1 /\ \A i \in 1 .. Len(buf) - 1 : f[i] = buf[i]
    <3> DEFINE n == Len(buf) - 1
    <3>1. n \in 0 .. Len(buf) - 1
      BY <2>2
    <3> HIDE DEF n
    <3>2. SubSeq(buf, 1, n) \in Seq(Items) /\ Len(SubSeq(buf, 1, n)) = n /\ \A i \in 1 .. n : SubSeq(buf, 1, n)[i] = buf[i]
      BY <3>1
    <3> QED
      BY <3>2 DEF n
  <2>5. v \in Seq(Items) /\ Len(v) = Len(new) - 1 /\ \A i \in 1 .. Len(new) - 1 : v[i] = new[i + 1]
    BY <2>2
  <2> HIDE DEF f, x, v
  <2>6. /\ u \in Seq(Items) /\ Len(u) = Len(buf) /\ u[Len(buf)] = x
        /\ \A i \in 1 .. Len(buf) - 1 : u[i] = buf[i]
    BY <2>2, <2>3, <2>4, SMTT(40)
  <2> HIDE DEF u, j
  <2>7. /\ j \in Seq(Items) /\ Len(j) = Len(buf) + Len(new) - 1
        /\ \A i \in 1 .. Len(buf) : j[i] = u[i]
        /\ \A i \in 1 .. Len(new) - 1 : j[Len(buf) + i] = v[i]
    <3>1. /\ j \in Seq(Items) /\ Len(j) = Len(u) + Len(v)
          /\ \A i \in 1 .. Len(u) + Len(v) : j[i] = IF i <= Len(u) THEN u[i] ELSE v[i - Len(u)]
      <4>1. u \in Seq(Items) /\ v \in Seq(Items)
        BY <2>5, <2>6
      <4>2. /\ u \o v \in Seq(Items) /\ Len(u \o v) = Len(u) + Len(v)
            /\ \A i \in 1 .. Len(u) + Len(v) : (u \o v)[i] = IF i <= Len(u) THEN u[i] ELSE v[i - Len(u)]
        BY <4>1, ConcatProperties, Zenon
      <4> QED
        BY <2>1, <4>2, Zenon
    <3>2. Len(u) = Len(buf) /\ Len(v) = Len(new) - 1
      BY <2>5, <2>6
    <3>3. ASSUME NEW i \in 1 .. Len(new) - 1 PROVE j[Len(buf) + i] = v[i]
      <4>1. Len(buf) + i \in 1 .. Len(u) + Len(v) /\ ~ (Len(buf) + i <= Len(u)) /\ Len(buf) + i - Len(u) = i
        BY <2>2, <3>2
      <4> QED
        BY <3>1, <4>1
    <3>4. ASSUME NEW i \in 1 .. Len(buf) PROVE j[i] = u[i]
      <4>1. i \in 1 .. Len(u) + Len(v) /\ i <= Len(u)
        BY <2>2, <3>2
      <4> QED
        BY <3>1, <4>1
    <3> QED
      BY <2>2, <3>1, <3>2, <3>3, <3>4
  <2>8. ASSUME NEW i \in 1 .. Len(new)
        PROVE  /\ j[Len(buf) - 1 + i].id = new[i].id
               /\ j[Len(buf) - 1 + i].part = IF i = 1 THEN "all" ELSE new[i].part
    <3>1. CASE i = 1
      BY <2>2, <2>3, <2>6, <2>7, <3>1
    <3>2. CASE i # 1
      <4>1. i - 1 \in 1 .. Len(new) - 1 /\ Len(buf) - 1 + i = Len(buf) + (i - 1)
        BY <2>2, <3>2
      <4>2. j[Len(buf) + (i - 1)] = v[i - 1] /\ v[i - 1] = new[i]
        BY <2>2, <2>5, <2>7, <4>1
      <4> QED
        BY <3>2, <4>1, <4>2
    <3> QED
      BY <3>1, <3>2
  <2>9. IsJoined(buf, new, 1, j)
    BY <2>2, <2>6, <2>7, <2>8 DEF IsJoined
  <2> QED
    BY <1>1, <2>9 DEF j
<1>2. CASE ~ (buf # <<>> /\ buf[Len(buf)].part = "head")
  <2>1. j = buf \o new
    BY <1>2 DEF Joined, Last
  <2> HIDE DEF j
  <2>2. /\ j \in Seq(Items) /\ Len(j) = Len(buf) + Len(new)
        /\ \A i \in 1 .. Len(buf) : j[i] = buf[i]
        /\ \A i \in 1 .. Len(new) : j[Len(buf) + i] = new[i]
    BY <2>1
  <2>3. IsJoined(buf, new, 0, j)
    BY <2>2 DEF IsJoined
  <2> QED
    BY <1>2, <2>3 DEF j
<1> QED
  BY <1>1, <1>2

\* A read takes n items and leaves the rest; one that ends inside a command, e = 1,
\* leaves a part of the last one it takes.
Split(s, new, rest, e) ==
    /\ s \in Seq(Items) /\ new \in Seq(Items) /\ rest \in Seq(Items) /\ new # <<>>
    /\ Len(new) + Len(rest) = Len(s) + e
    /\ \A i \in 1 .. Len(new) : new[i].id = s[i].id
    /\ \A i \in 1 .. Len(new) - e : new[i].part = s[i].part
    /\ \A i \in 1 .. Len(rest) : rest[i].id = s[Len(new) - e + i].id
    /\ \A i \in 1 + e .. Len(rest) : rest[i].part = s[Len(new) - e + i].part
    /\ e = 1 => /\ rest # <<>> /\ rest[1].part \in Rest /\ s[Len(new)].part = "all"
                /\ new[Len(new)].part = "head"

LEMMA ReadSplits ==
    ASSUME NEW s \in Seq(Items), NEW n \in 1 .. Len(s)
    PROVE  Split(s, Whole(s, n), SubSeq(s, n + 1, Len(s)), 0)
<1> DEFINE new == SubSeq(s, 1, n)
           rest == SubSeq(s, n + 1, Len(s))
<1>1. new \in Seq(Items) /\ Len(new) = n /\ \A i \in 1 .. n : new[i] = s[i]
  OBVIOUS
<1>2. rest \in Seq(Items) /\ Len(rest) = Len(s) - n /\ \A i \in 1 .. Len(s) - n : rest[i] = s[n + i]
  OBVIOUS
<1> HIDE DEF new, rest
<1>3. Split(s, new, rest, 0)
  BY <1>1, <1>2 DEF Split
<1> QED
  BY <1>3 DEF new, rest, Whole

LEMMA CutSplits ==
    ASSUME NEW s \in Seq(Items), NEW n \in 0 .. Len(s) - 1, NEW tail \in Rest, s[n + 1].part = "all"
    PROVE  Split(s, TakeCut(s, n), LeaveCut(s, n, tail), 1)
<1> DEFINE w == SubSeq(s, 1, n)
           x == [s[n + 1] EXCEPT !.part = "head"]
           y == [s[n + 1] EXCEPT !.part = tail]
           l == SubSeq(s, n + 2, Len(s))
           new == Append(w, x)
           rest == <<y>> \o l
<1>1. w \in Seq(Items) /\ Len(w) = n /\ \A i \in 1 .. n : w[i] = s[i]
  OBVIOUS
<1>2. l \in Seq(Items) /\ Len(l) = Len(s) - n - 1 /\ \A i \in 1 .. Len(s) - n - 1 : l[i] = s[n + 1 + i]
  OBVIOUS
<1>3. /\ x \in Items /\ x.id = s[n + 1].id /\ x.part = "head"
      /\ y \in Items /\ y.id = s[n + 1].id /\ y.part = tail
  <2>1. s[n + 1] \in Items
    OBVIOUS
  <2> QED
    BY <2>1, ItemFacts
<1> HIDE DEF w, x, y, l
<1>4. new \in Seq(Items) /\ Len(new) = n + 1 /\ new[n + 1] = x /\ \A i \in 1 .. n : new[i] = s[i]
  BY <1>1, <1>3
<1>5. /\ rest \in Seq(Items) /\ Len(rest) = Len(s) - n /\ rest[1] = y
      /\ \A i \in 2 .. Len(s) - n : rest[i] = s[n + i]
  <2>1. rest \in Seq(Items) /\ Len(rest) = Len(s) - n /\ rest[1] = y
    BY <1>2, <1>3
  <2>2. ASSUME NEW i \in 2 .. Len(s) - n PROVE rest[i] = s[n + i]
    <3>1. i - 1 \in 1 .. Len(s) - n - 1 /\ n + 1 + (i - 1) = n + i
      OBVIOUS
    <3>2. rest[i] = l[i - 1]
      BY <1>2, <1>3, <3>1
    <3> QED
      BY <1>2, <3>1, <3>2
  <2> QED
    BY <2>1, <2>2
<1> HIDE DEF new, rest
<1>6. Split(s, new, rest, 1)
  <2>1. \A i \in 1 .. Len(new) : new[i].id = s[i].id
    BY <1>3, <1>4
  <2>2. \A i \in 1 .. Len(rest) : rest[i].id = s[Len(new) - 1 + i].id
    BY <1>3, <1>4, <1>5
  <2> QED
    BY <1>3, <1>4, <1>5, <2>1, <2>2 DEF Split
<1> QED
  BY <1>6 DEF new, rest, w, x, y, l, TakeCut, LeaveCut, Whole

\* What was read takes its place behind what is in the buffer, and the socket goes
\* on behind it (read_buf).
LEMMA BytesLined ==
    ASSUME NEW k, NEW t, NEW s, NEW new, NEW rest, NEW e \in {0, 1}, NEW m \in Nat,
           Lined(k, s, m), Split(s, new, rest, e), t.buf = Joined(k.buf, new), t.at = "loop"
    PROVE  Lined(t, rest, m) /\ (Behind(t, rest) <=> Behind(k, s))
<1> DEFINE o == IF Open(k) THEN 1 ELSE 0
           b == Len(k.buf) - o
           l == Len(new)
           h == Base(k, s, m)
           j == Joined(k.buf, new)
<1>1. /\ k.buf \in Seq(Items) /\ s \in Seq(Items) /\ new \in Seq(Items) /\ rest \in Seq(Items)
      /\ new # <<>>
  BY DEF Lined, Split
<1>2. /\ j \in Seq(Items) /\ Len(j) = b + l
      /\ \A i \in 1 .. b : j[i] = k.buf[i]
      /\ \A i \in 1 .. l :
            j[b + i].id = new[i].id /\ j[b + i].part = IF o = 1 /\ i = 1 THEN "all" ELSE new[i].part
  <2>1. o = IF k.buf # <<>> /\ k.buf[Len(k.buf)].part = "head" THEN 1 ELSE 0
    BY DEF Open
  <2>2. IsJoined(k.buf, new, IF k.buf # <<>> /\ k.buf[Len(k.buf)].part = "head" THEN 1 ELSE 0, j)
    BY <1>1, JoinedFacts
  <2> HIDE DEF o, j
  <2>3. IsJoined(k.buf, new, o, j)
    BY <2>1, <2>2
  <2> QED
    BY <2>3 DEF IsJoined
<1>3. /\ l \in Nat \ {0} /\ b \in Nat /\ h \in Int /\ o \in {0, 1} /\ Len(k.buf) = b + o
      /\ Len(s) \in Nat /\ Len(rest) \in Nat /\ l + Len(rest) = Len(s) + e /\ l <= Len(s)
  <2>1. Len(k.buf) \in Nat /\ (Open(k) => Len(k.buf) # 0)
    BY <1>1 DEF Open
  <2>2. Len(rest) \in Nat /\ (e = 1 => Len(rest) # 0)
    BY <1>1 DEF Split
  <2> QED
    BY <1>1, <2>1, <2>2 DEF Split, Base
<1>4. /\ \A i \in 1 .. Len(k.buf) : k.buf[i].id = h + i
      /\ \A i \in 1 .. Len(s) : s[i].id = h + b + i
  BY <1>3 DEF Lined
<1>5. /\ o = 1 => k.buf[b + 1].part = "head" /\ s # <<>> /\ s[1].part \in Rest
      /\ \A i \in 2 .. b : k.buf[i].part \notin Rest
      /\ \A i \in 1 .. b : k.buf[i].part # "head"
  <2>1. CASE Open(k)
    BY <1>1, <1>3, <2>1 DEF Lined, Open
  <2>2. CASE ~ Open(k)
    <3>1. o = 0 /\ b = Len(k.buf)
      BY <1>3, <2>2
    <3>2. \A i \in 2 .. Len(k.buf) : k.buf[i].part \notin Rest
      BY DEF Lined
    <3>3. \A i \in 1 .. Len(k.buf) : k.buf[i].part # "head"
      <4>1. \A i \in 1 .. Len(k.buf) - 1 : k.buf[i].part # "head"
        BY DEF Lined
      <4>2. Len(k.buf) # 0 => k.buf[Len(k.buf)].part # "head"
        BY <1>1, <2>2 DEF Open
      <4> QED
        BY <1>1, <4>1, <4>2
    <3> HIDE DEF o, b
    <3> QED
      BY <3>1, <3>2, <3>3
  <2> QED
    BY <2>1, <2>2
<1>6. /\ \A i \in 2 .. Len(s) : s[i].part = "all"
      /\ s # <<>> => s[1].part # "head"
      /\ o = 0 /\ b > 0 /\ s # <<>> => s[1].part = "all"
      /\ s # <<>>
  <2>1. s # <<>>
    BY <1>1, <1>3
  <2>2. o = 0 /\ b > 0 => ~ Open(k) /\ k.buf # <<>>
    <3>1. o = 0 => ~ Open(k)
      OBVIOUS
    <3> HIDE DEF o, b
    <3> QED
      BY <1>1, <1>3, <3>1
  <2> HIDE DEF o, b
  <2> QED
    BY <2>1, <2>2 DEF Lined
<1>7. /\ \A i \in 1 .. l : new[i].id = s[i].id
      /\ \A i \in 1 .. l - e : new[i].part = s[i].part
      /\ \A i \in 1 .. Len(rest) : rest[i].id = s[l - e + i].id
      /\ \A i \in 1 + e .. Len(rest) : rest[i].part = s[l - e + i].part
      /\ e = 1 => rest # <<>> /\ rest[1].part \in Rest /\ s[l].part = "all" /\ new[l].part = "head"
  BY DEF Split
<1>8. "all" \notin Rest /\ "head" \notin Rest
  BY DEF Rest
<1>9. Behind(k, s) <=> IF b + o > 0 THEN k.buf[1].part \in Rest ELSE s[1].part \in Rest
  BY <1>1, <1>3, <1>6 DEF Behind
<1> HIDE DEF o, b, l, h, j
<1>10. e = 1 /\ l = 1 => o = 0
  BY <1>3, <1>5, <1>7, <1>8
<1>11. j # <<>> /\ (Behind(t, rest) <=> j[1].part \in Rest)
  BY <1>2, <1>3 DEF Behind, j
<1>12. j[1].part \in Rest <=> Behind(k, s)
  <2>1. CASE b > 0
    BY <1>2, <1>3, <1>9, <2>1
  <2>2. CASE b = 0 /\ o = 1
    <3>1. j[1].part = "all" /\ k.buf[1].part = "head"
      BY <1>2, <1>3, <1>5, <2>2
    <3> QED
      BY <1>8, <1>9, <2>2, <3>1
  <2>3. CASE b = 0 /\ o = 0
    <3>1. j[1].part = new[1].part
      BY <1>2, <1>3, <2>3
    <3>2. new[1].part \in Rest <=> s[1].part \in Rest
      BY <1>3, <1>7, <1>8
    <3> QED
      BY <1>9, <2>3, <3>1, <3>2
  <2> QED
    BY <1>3, <2>1, <2>2, <2>3
<1>13. j[b + l].part = "head" <=> e = 1
  <2>1. j[b + l].part = IF o = 1 /\ l = 1 THEN "all" ELSE new[l].part
    BY <1>2, <1>3
  <2>2. CASE e = 1
    BY <1>7, <1>10, <2>1, <2>2
  <2>3. CASE e = 0
    <3>1. new[l].part = s[l].part
      BY <1>3, <1>7, <2>3
    <3>2. s[l].part # "head"
      <4>1. l = 1 \/ l \in 2 .. Len(s)
        BY <1>3
      <4> QED
        BY <1>6, <4>1
    <3> QED
      BY <2>1, <2>3, <3>1, <3>2
  <2> QED
    BY <2>2, <2>3
<1>14. Open(t) <=> e = 1
  BY <1>2, <1>11, <1>13 DEF Open, j
<1>15. Base(t, rest, m) = h
  BY <1>11, <1>12 DEF Base, h
<1>16. ASSUME NEW i \in 1 .. Len(j)
       PROVE  /\ j[i].id = h + i
              /\ i >= 2 => j[i].part \notin Rest
              /\ i < Len(j) => j[i].part # "head"
  <2>1. CASE i <= b
    <3>1. i \in 1 .. b /\ i \in 1 .. Len(k.buf) /\ (i >= 2 => i \in 2 .. b)
      BY <1>3, <2>1
    <3> QED
      BY <1>2, <1>4, <1>5, <3>1
  <2>2. CASE i > b
    <3> DEFINE q == i - b
    <3>1. q \in 1 .. l /\ i = b + q /\ b + q <= b + l
      BY <1>2, <1>3, <2>2, SMTT(40)
    <3> HIDE DEF q
    <3>2. j[i].id = new[q].id /\ j[i].part = IF o = 1 /\ q = 1 THEN "all" ELSE new[q].part
      BY <1>2, <3>1
    <3>3. q \in 1 .. Len(s)
      BY <1>3, <3>1
    <3>4. new[q].id = h + b + q
      BY <1>4, <1>7, <3>1, <3>3
    <3>5. i >= 2 => j[i].part \notin Rest
      <4>1. CASE q = l /\ e = 1
        BY <1>7, <1>8, <3>2, <4>1
      <4>2. CASE q \in 1 .. l - e
        <5>1. new[q].part = s[q].part
          BY <1>7, <4>2
        <5>2. CASE q > 1
          BY <1>6, <1>8, <3>2, <3>3, <5>1, <5>2
        <5>3. CASE q = 1
          BY <1>3, <1>6, <1>8, <3>1, <3>2, <5>1, <5>3
        <5> QED
          BY <3>1, <5>2, <5>3
      <4> QED
        BY <1>3, <3>1, <4>1, <4>2
    <3>6. i < Len(j) => j[i].part # "head"
      <4>1. i < Len(j) => q \in 1 .. l - e
        BY <1>2, <1>3, <3>1
      <4>2. s[q].part # "head"
        <5>1. q = 1 \/ q \in 2 .. Len(s)
          BY <1>3, <3>3
        <5> QED
          BY <1>6, <5>1
      <4> QED
        BY <1>7, <3>2, <4>1, <4>2
    <3> QED
      BY <1>3, <3>1, <3>2, <3>4, <3>5, <3>6
  <2> QED
    BY <1>2, <1>3, <2>1, <2>2
<1>17. ASSUME NEW i \in 1 .. Len(rest)
       PROVE  /\ rest[i].id = h + Len(j) - (IF Open(t) THEN 1 ELSE 0) + i
              /\ i >= 2 => rest[i].part = "all"
              /\ i >= 1 + e => rest[i].part = "all"
  <2>1. l - e + i \in 1 .. Len(s) /\ (i >= 1 + e => l - e + i \in 2 .. Len(s))
    BY <1>3
  <2>2. rest[i].id = h + b + (l - e + i)
    BY <1>4, <1>7, <2>1
  <2>3. i >= 1 + e => rest[i].part = "all"
    <3> SUFFICES ASSUME i >= 1 + e PROVE rest[i].part = "all"
      OBVIOUS
    <3>1. l - e + i \in 2 .. Len(s)
      BY <2>1
    <3>2. i \in 1 + e .. Len(rest)
      BY <1>3
    <3> QED
      BY <1>6, <1>7, <3>1, <3>2
  <2>4. i >= 2 => i >= 1 + e
    BY <1>3
  <2>5. rest[i].id = h + Len(j) - e + i
    BY <1>2, <1>3, <2>2
  <2>6. e = IF Open(t) THEN 1 ELSE 0
    BY <1>14
  <2> QED
    BY <2>3, <2>4, <2>5, <2>6
<1>18. /\ rest # <<>> /\ ~ Open(t) => rest[1].part = "all"
       /\ rest # <<>> => rest[1].part # "head"
       /\ Open(t) => rest # <<>> /\ rest[1].part \in Rest
  <2>1. rest # <<>> => 1 \in 1 .. Len(rest)
    BY <1>1
  <2> QED
    BY <1>7, <1>8, <1>14, <1>17, <2>1
<1>19. t.buf = j
  BY DEF j
<1> QED
  BY <1>1, <1>2, <1>11, <1>12, <1>15, <1>16, <1>17, <1>18, <1>19, SMTT(40) DEF Lined

-----------------------------------------------------------------------------
(* The order of answers: counting. *)

\* One more request, which is not thrown away, is one more to answer.
LEMMA OneMore ==
    ASSUME NEW m \in Nat, NEW d, d \subseteq 1 .. m
    PROVE  m + 1 \notin d /\ Held(m, d) \in Nat /\ Held(m + 1, d) = Held(m, d) + 1
<1> DEFINE S == (1 .. m) \ d
<1>1. IsFiniteSet(1 .. m) /\ S \subseteq 1 .. m
  BY FS_Interval
<1>2. IsFiniteSet(S)
  BY <1>1, FS_Subset
<1>3. m + 1 \notin 1 .. m
  OBVIOUS
<1>4. m + 1 \notin d /\ m + 1 \notin S /\ (1 .. m + 1) \ d = S \cup {m + 1}
  BY <1>3
<1> HIDE DEF S
<1>5. Cardinality(S) \in Nat /\ Cardinality(S \cup {m + 1}) = Cardinality(S) + 1
  BY <1>2, <1>4, FS_AddElement, FS_CardinalityType
<1> QED
  BY <1>4, <1>5 DEF S, Held

\* The answers so far are answers when one more request has been taken.
LEMMA AnsweredOn == ASSUME NEW r, NEW d, NEW m \in Nat, Answered(r, d, m) PROVE Answered(r, d, m + 1)
<1>1. \A x \in 1 .. m : x \in 1 .. m + 1
  OBVIOUS
<1>2. d \subseteq 1 .. m + 1
  BY <1>1 DEF Answered
<1> QED
  BY <1>1, <1>2 DEF Answered

\* One more answer.
LEMMA AnswerLen == ASSUME NEW r, NEW d, NEW m, Answered(r, d, m), NEW x PROVE Len(Append(r, x)) = Len(r) + 1
BY DEF Answered

\* The next answer is to the request n, the last one taken.
LEMMA AnswerNext ==
    ASSUME NEW r, NEW d, NEW n \in Nat, Answered(r, d, n), n \notin d,
           Held(n, d) = Len(r) + 1,
           NEW of \in Nat, NEW via \in {"normal", "exec", "sub"}, of = n \/ via \in {"exec", "sub"},
           NEW a, a = Append(r, [req |-> n, of |-> of, via |-> via])
    PROVE  Answered(a, d, n)
<1> DEFINE R == [req : Nat, of : Nat, via : {"normal", "exec", "sub"}]
           x == [req |-> n, of |-> of, via |-> via]
<1>1. r \in Seq(R) /\ d \subseteq 1 .. n /\ Len(r) \in Nat
  BY DEF Answered
<1>2. x \in R /\ x.req = n /\ x.of = of /\ x.via = via
  OBVIOUS
<1>3. n \in 1 .. n
  <2>1. CASE n = 0
    <3>1. (1 .. n) \ d = {}
      BY <2>1
    <3>2. Held(n, d) = 0
      BY <3>1, FS_EmptySet DEF Held
    <3> HIDE DEF R
    <3> QED
      BY <1>1, <3>2
  <2> QED
    BY <2>1
<1> HIDE DEF x, R
<1>4. a \in Seq(R) /\ Len(a) = Len(r) + 1 /\ a[Len(r) + 1] = x /\ \A i \in 1 .. Len(r) : a[i] = r[i]
  BY <1>1, <1>2 DEF x
<1>5. ASSUME NEW i \in 1 .. Len(a)
      PROVE  /\ a[i].req \in (1 .. n) \ d /\ Held(a[i].req, d) = i
             /\ a[i].of = a[i].req \/ a[i].via \in {"exec", "sub"}
  <2>1. CASE i = Len(r) + 1
    BY <1>2, <1>3, <1>4, <2>1
  <2>2. CASE i \in 1 .. Len(r)
    BY <1>4, <2>2 DEF Answered
  <2> QED
    BY <1>1, <1>4, <2>1, <2>2
<1> QED
  BY <1>1, <1>4, <1>5 DEF Answered, R

\* The buffer's first item is a whole command, the next request: it is taken.
LEMMA TakeOne ==
    ASSUME NEW k, NEW t, NEW s, NEW m \in Nat, Lined(k, s, m), k.buf # <<>>, k.buf[1].part = "all",
           t.buf = Tail(k.buf), t.at = "loop" => t.buf # <<>>
    PROVE  k.buf[1].id = m + 1 /\ Lined(t, s, m + 1) /\ ~ Behind(t, s) /\ k.buf[1] \in Items
<1> DEFINE b == k.buf
           u == Tail(b)
<1>1. b \in Seq(Items) /\ s \in Seq(Items) /\ Len(b) \in Nat /\ Len(b) >= 1 /\ Len(s) \in Nat
  BY DEF Lined
<1>2. "all" \notin Rest /\ "head" \notin Rest
  BY DEF Rest
<1>3. ~ Behind(k, s) /\ Base(k, s, m) = m
  BY <1>2 DEF Behind, Base
<1>4. /\ \A i \in 1 .. Len(b) : b[i].id = m + i
      /\ \A i \in 1 .. Len(s) : s[i].id = m + Len(b) - (IF Open(k) THEN 1 ELSE 0) + i
      /\ \A i \in 2 .. Len(b) : b[i].part \notin Rest
      /\ \A i \in 1 .. Len(b) - 1 : b[i].part # "head"
  BY <1>3 DEF Lined
<1>5. u \in Seq(Items) /\ Len(u) = Len(b) - 1 /\ \A i \in 1 .. Len(b) - 1 : u[i] = b[i + 1]
  BY <1>1
<1>6. t.buf = u /\ k.buf = b
  OBVIOUS
<1> HIDE DEF b, u
<1>0. Len(b) = 1 \/ Len(b) >= 2
  <2>1. \A l \in Nat : l >= 1 => l = 1 \/ l >= 2
    OBVIOUS
  <2> QED
    BY <1>1, <2>1
<1>7. u # <<>> <=> Len(b) >= 2
  <2>1. u # <<>> <=> Len(u) # 0
    BY <1>5
  <2> QED
    BY <1>1, <1>5, <2>1
<1>8. Open(t) <=> Open(k)
  <2>1. CASE Len(b) >= 2
    <3>1. u[Len(u)] = b[Len(b)]
      BY <1>1, <1>5, <2>1
    <3>2. u # <<>> /\ b # <<>>
      BY <1>6, <1>7, <2>1
    <3> QED
      BY <1>6, <3>1, <3>2 DEF Open
  <2>2. CASE Len(b) = 1
    <3>1. u = <<>> /\ b[Len(b)].part = "all"
      BY <1>1, <1>6, <1>7, <2>2
    <3>2. ~ Open(t)
      BY <1>6, <3>1 DEF Open
    <3>3. ~ Open(k)
      BY <1>6, <3>1 DEF Open
    <3> QED
      BY <3>2, <3>3
  <2> QED
    BY <1>0, <2>1, <2>2
<1>9. s # <<>> /\ ~ Open(k) => s[1].part = "all"
  BY DEF Lined
<1>10. ~ Behind(t, s)
  <2>1. CASE Len(b) >= 2
    <3>1. u[1] = b[2]
      BY <1>1, <1>5, <2>1
    <3>2. u # <<>> /\ b[2].part \notin Rest
      BY <1>1, <1>4, <1>7, <2>1
    <3> QED
      BY <1>6, <3>1, <3>2 DEF Behind
  <2>2. CASE Len(b) = 1
    <3>1. ~ Open(k)
      BY <1>2, <1>6, <2>2 DEF Open
    <3>2. u = <<>>
      BY <1>1, <1>7, <2>2
    <3>3. t.buf = <<>>
      BY <1>6, <3>2
    <3>4. s # <<>> => s[1].part \notin Rest
      BY <1>2, <1>9, <3>1
    <3> QED
      BY <3>3, <3>4, Zenon DEF Behind
  <2> QED
    BY <1>0, <2>1, <2>2
<1>11. Base(t, s, m + 1) = m + 1
  BY <1>10 DEF Base
<1>12. ASSUME NEW i \in 1 .. Len(u)
       PROVE  /\ u[i].id = m + 1 + i
              /\ u[i].part \notin Rest
              /\ i < Len(u) => u[i].part # "head"
  <2>1. i + 1 \in 2 .. Len(b) /\ (i < Len(u) => i + 1 \in 1 .. Len(b) - 1) /\ i \in 1 .. Len(b) - 1
    BY <1>1, <1>5
  <2>2. u[i] = b[i + 1] /\ i + 1 \in 1 .. Len(b)
    BY <1>1, <1>5, <2>1
  <2>3. b[i + 1].id = m + (i + 1)
    BY <1>4, <2>2
  <2>4. m + (i + 1) = m + 1 + i
    OBVIOUS
  <2> QED
    BY <1>4, <2>1, <2>2, <2>3, <2>4
<1>13. ASSUME NEW i \in 1 .. Len(s) PROVE s[i].id = m + 1 + Len(u) - (IF Open(t) THEN 1 ELSE 0) + i
  BY <1>1, <1>4, <1>5, <1>8
<1>14. /\ \A i \in 2 .. Len(s) : s[i].part = "all"
       /\ s # <<>> => s[1].part # "head"
       /\ Open(k) => s # <<>> /\ s[1].part \in Rest
  BY DEF Lined
<1>15. b[1].id = m + 1 /\ b[1] \in Items
  BY <1>1, <1>4
<1>16. Lined(t, s, m + 1)
  <2>1. Len(u) \in Nat
    BY <1>5
  <2>2. \A i \in 2 .. Len(u) : u[i].part \notin Rest
    BY <1>12, <2>1
  <2>3. \A i \in 1 .. Len(u) - 1 : u[i].part # "head"
    BY <1>12, <2>1
  <2> QED
    BY <1>1, <1>5, <1>6, <1>8, <1>9, <1>11, <1>12, <1>13, <1>14, <2>2, <2>3, ZenonT(60) DEF Lined
<1> QED
  BY <1>6, <1>10, <1>15, <1>16

\* The buffer of a subscribed connection is thrown away: its items are the next
\* requests, and the rest of the last one may still come.
Thrown(k, t, s, d, m, n) ==
    /\ n \in Nat /\ n >= m /\ d \cup Ids(k.buf) \subseteq 1 .. n
    /\ (1 .. n) \ (d \cup Ids(k.buf)) = (1 .. m) \ d
    /\ Ids(k.buf) \cap (1 .. m) \subseteq d
    /\ Lined(t, s, n) /\ (Behind(t, s) => n \in Ids(k.buf))

LEMMA ThrowAway ==
    ASSUME NEW k, NEW t, NEW s, NEW m \in Nat, NEW d, d \subseteq 1 .. m, Lined(k, s, m), k.buf # <<>>,
           Behind(k, s) => m \in d, t.buf = <<>>, t.at = "read", NEW n, n = Base(k, s, m) + Len(k.buf)
    PROVE  Thrown(k, t, s, d, m, n)
<1> DEFINE b == k.buf
           h == Base(k, s, m)
           l == Len(b)
<1>1. b \in Seq(Items) /\ s \in Seq(Items) /\ l \in Nat \ {0} /\ Len(s) \in Nat
  BY DEF Lined
<1>2. h \in Nat /\ (h = m \/ (h = m - 1 /\ m \in d))
  BY DEF Base
<1>3. \A i \in 1 .. l : b[i].id = h + i
  BY DEF Lined
<1>4. Ids(b) = h + 1 .. n
  <2>1. ASSUME NEW x \in Ids(b) PROVE x \in h + 1 .. n
    <3>1. PICK i \in 1 .. l : x = b[i].id
      BY <1>1 DEF Ids
    <3> HIDE DEF b, h, l
    <3> QED
      BY <1>1, <1>2, <1>3, <3>1 DEF h, l, b
  <2>2. ASSUME NEW x \in h + 1 .. n PROVE x \in Ids(b)
    <3>1. x - h \in 1 .. l
      BY <1>1, <1>2
    <3>2. x = b[x - h].id
      BY <1>2, <1>3, <3>1
    <3> QED
      BY <1>1, <3>1, <3>2 DEF Ids
  <2> QED
    BY <2>1, <2>2
<1>5. k.buf = b /\ n = h + l
  OBVIOUS
<1>6. /\ \A i \in 2 .. Len(s) : s[i].part = "all"
      /\ s # <<>> => s[1].part # "head"
      /\ Open(k) => s # <<>> /\ s[1].part \in Rest
      /\ s # <<>> /\ ~ Open(k) => s[1].part = "all"
      /\ \A i \in 1 .. Len(s) : s[i].id = h + l - (IF Open(k) THEN 1 ELSE 0) + i
  BY DEF Lined
<1>7. "all" \notin Rest
  BY DEF Rest
<1> HIDE DEF b, h, l
<1>8. n \in Nat /\ n >= m /\ n \in Ids(b)
  BY <1>1, <1>2, <1>4, <1>5
<1>9. /\ d \cup Ids(b) \subseteq 1 .. n /\ Ids(b) \cap (1 .. m) \subseteq d
      /\ (1 .. n) \ (d \cup Ids(b)) = (1 .. m) \ d
  <2>1. ASSUME NEW x \in Ids(b) \cap (1 .. m) PROVE x \in d
    BY <1>2, <1>4
  <2>2. d \cup Ids(b) \subseteq 1 .. n
    <3>1. \A x \in 1 .. m : x \in 1 .. n
      BY <1>8
    <3>2. \A x \in h + 1 .. n : x \in 1 .. n
      BY <1>2, <1>8
    <3> QED
      BY <1>4, <3>1, <3>2
  <2>3. ASSUME NEW x \in (1 .. n) \ (d \cup Ids(b)) PROVE x \in (1 .. m) \ d
    BY <1>1, <1>2, <1>4, <1>5
  <2>4. ASSUME NEW x \in (1 .. m) \ d PROVE x \in (1 .. n) \ (d \cup Ids(b))
    BY <1>8, <2>1
  <2> QED
    BY <2>1, <2>2, <2>3, <2>4
<1>10. Behind(t, s) <=> Open(k)
  BY <1>6, <1>7 DEF Behind
<1>11. Base(t, s, n) = h + l - (IF Open(k) THEN 1 ELSE 0)
  <2>1. Base(t, s, n) = IF Open(k) THEN n - 1 ELSE n
    BY <1>10 DEF Base
  <2> QED
    BY <1>1, <1>2, <1>5, <2>1
<1>12. ~ Open(t) /\ Len(t.buf) = 0 /\ t.buf \in Seq(Items)
  BY DEF Open
<1>13. Lined(t, s, n)
  <2>1. Base(t, s, n) \in Int
    BY <1>1, <1>2, <1>11
  <2>2. \A i \in 1 .. Len(s) : s[i].id = Base(t, s, n) + Len(t.buf) - (IF Open(t) THEN 1 ELSE 0) + i
    BY <1>6, <1>11, <1>12, <2>1
  <2> QED
    BY <1>1, <1>6, <1>12, <2>2 DEF Lined
<1> QED
  BY <1>5, <1>8, <1>9, <1>13 DEF Thrown

-----------------------------------------------------------------------------
(* The order of answers: steps of one connection.                            *)

\* What a connection waits with, or goes on with, when no request is in hand.
Idle(k, s, r, d, mk, lg, m) ==
    /\ Answered(r, d, m) /\ Lined(k, s, m) /\ Held(m, d) = Len(r)
    /\ Behind(k, s) => m \in d /\ k.sub_mode /\ (k.at = "loop" => k.loop = "sub")
    /\ mk = lg /\ mk \subseteq 1 .. m
    /\ Len(r) \in Nat

LEMMA IdleFacts ==
    ASSUME NEW k, NEW s, NEW r, NEW d, NEW mk, NEW lg, NEW m \in Nat, Requested(k, s, r, d, mk, lg, m),
           k.at \in {"read", "loop"}
    PROVE  Idle(k, s, r, d, mk, lg, m)
<1>1. Ongoing(k) /\ ~ Busy(k) /\ ~ Unlogged(k)
  BY DEF Ongoing, Busy, Unlogged
<1>2. Answered(r, d, m) /\ Lined(k, s, m) /\ Counted(k, s, r, d, m) /\ LogPart(k, mk, lg, m)
  BY <1>1 DEF Requested
<1>3. Len(r) \in Nat
  BY <1>2 DEF Answered
<1> QED
  BY <1>1, <1>2, <1>3 DEF Counted, LogPart, Idle

\* One that is in hand.
LEMMA BusyFacts ==
    ASSUME NEW k, NEW s, NEW r, NEW d, NEW mk, NEW lg, NEW m \in Nat, Requested(k, s, r, d, mk, lg, m), Busy(k)
    PROVE  /\ Answered(r, d, m) /\ Lined(k, s, m) /\ Held(m, d) = Len(r) + 1
           /\ ~ Behind(k, s) /\ k.cur.id = m /\ m \notin d /\ m \in 1 .. m
           /\ LogPart(k, mk, lg, m)
<1>1. Ongoing(k) /\ k.at \notin {"read", "loop"}
  BY DEF Ongoing, Busy
<1>2. Answered(r, d, m) /\ Lined(k, s, m) /\ Counted(k, s, r, d, m) /\ LogPart(k, mk, lg, m)
  BY <1>1 DEF Requested
<1>3. Len(r) \in Nat
  BY <1>2 DEF Answered
<1>4. m # 0
  <2>1. Held(m, d) = Len(r) + 1
    BY <1>2 DEF Counted
  <2>2. ASSUME m = 0 PROVE Held(m, d) = 0
    <3>1. (1 .. m) \ d = {}
      BY <2>2
    <3> QED
      BY <3>1, FS_EmptySet DEF Held
  <2> QED
    BY <1>3, <2>1, <2>2
<1> QED
  BY <1>1, <1>2, <1>4 DEF Counted

\* The same, put together.
LEMMA IdleStep ==
    ASSUME NEW t, NEW s, NEW r, NEW d, NEW mk, NEW lg, NEW m \in Nat, t.at \in {"read", "loop"}, Idle(t, s, r, d, mk, lg, m)
    PROVE  Requested(t, s, r, d, mk, lg, m)
<1>1. ~ Busy(t) /\ ~ Unlogged(t)
  BY DEF Busy, Unlogged
<1>2. Counted(t, s, r, d, m)
  BY <1>1 DEF Counted, Idle
<1>3. LogPart(t, mk, lg, m)
  BY <1>1 DEF LogPart, Idle
<1> QED
  BY <1>2, <1>3 DEF Requested, Idle

LEMMA BusyStep ==
    ASSUME NEW t, NEW s, NEW r, NEW d, NEW mk, NEW lg, NEW m \in Nat, Answered(r, d, m), Lined(t, s, m),
           Held(m, d) = Len(r) + 1, Busy(t), t.cur.id = m, m \notin d, ~ Behind(t, s),
           LogPart(t, mk, lg, m)
    PROVE  Requested(t, s, r, d, mk, lg, m)
<1>1. Counted(t, s, r, d, m)
  BY DEF Counted
<1> QED
  BY <1>1 DEF Requested

\* Where in the loop a connection is does not matter to what is lined up.
LEMMA SameLined ==
    ASSUME NEW k, NEW t, NEW s, NEW m, Lined(k, s, m), t.buf = k.buf, t.at = "loop" => t.buf # <<>>
    PROVE  Lined(t, s, m) /\ (Behind(t, s) <=> Behind(k, s))
BY DEF Lined, Behind, Base, Open

\* read_buf.
LEMMA BytesStep ==
    ASSUME NEW k, NEW t, NEW s, NEW r, NEW d, NEW mk, NEW lg, NEW m \in Nat, Requested(k, s, r, d, mk, lg, m),
           k.at = "read", NEW new, NEW rest, NEW e \in {0, 1}, Split(s, new, rest, e),
           t.buf = Joined(k.buf, new), t.at = "loop", t.loop = IF k.sub_mode THEN "sub" ELSE "normal",
           t.sub_mode = k.sub_mode
    PROVE  Requested(t, rest, r, d, mk, lg, m)
<1>1. /\ Answered(r, d, m) /\ Lined(k, s, m) /\ Held(m, d) = Len(r)
      /\ Behind(k, s) => m \in d /\ k.sub_mode
      /\ mk = lg /\ mk \subseteq 1 .. m /\ Len(r) \in Nat
  <2>1. k.at \in {"read", "loop"}
    OBVIOUS
  <2>2. Idle(k, s, r, d, mk, lg, m)
    BY <2>1, IdleFacts
  <2> QED
    BY <2>2 DEF Idle
<1>2. Lined(t, rest, m) /\ (Behind(t, rest) <=> Behind(k, s))
  BY <1>1, BytesLined
<1>3. Behind(t, rest) => m \in d /\ t.sub_mode /\ t.loop = "sub"
  BY <1>1, <1>2
<1> QED
  <2>1. Idle(t, rest, r, d, mk, lg, m)
    BY <1>1, <1>2, <1>3 DEF Idle
  <2>2. t.at \in {"read", "loop"}
    OBVIOUS
  <2> QED
    BY <2>1, <2>2, IdleStep

\* An array without arguments: the loop ends.
LEMMA NoArgsStep ==
    ASSUME NEW k, NEW t, NEW s, NEW r, NEW d, NEW mk, NEW lg, NEW m \in Nat, Requested(k, s, r, d, mk, lg, m),
           k.at = "loop", t.at = "read", t.buf = k.buf, t.sub_mode = k.sub_mode
    PROVE  Requested(t, s, r, d, mk, lg, m)
<1>1. /\ Answered(r, d, m) /\ Lined(k, s, m) /\ Held(m, d) = Len(r)
      /\ Behind(k, s) => m \in d /\ k.sub_mode
      /\ mk = lg /\ mk \subseteq 1 .. m /\ Len(r) \in Nat
  <2>1. k.at \in {"read", "loop"}
    OBVIOUS
  <2>2. Idle(k, s, r, d, mk, lg, m)
    BY <2>1, IdleFacts
  <2> QED
    BY <2>2 DEF Idle
<1>2. Lined(t, s, m) /\ (Behind(t, s) <=> Behind(k, s))
  BY <1>1, SameLined
<1> QED
  <2>1. Idle(t, s, r, d, mk, lg, m)
    BY <1>1, <1>2 DEF Idle
  <2>2. t.at \in {"read", "loop"}
    OBVIOUS
  <2> QED
    BY <2>1, <2>2, IdleStep

\* The connection ends.
LEMMA EndStep ==
    ASSUME NEW k, NEW t, NEW s, NEW r, NEW d, NEW mk, NEW lg, NEW m \in Nat, Requested(k, s, r, d, mk, lg, m),
           ~ Unlogged(k), t.at \in {"closed", "panicked", "replica"}
    PROVE  Requested(t, s, r, d, mk, lg, m)
<1>1. ~ Ongoing(t) /\ ~ Busy(t) /\ ~ Unlogged(t)
  BY DEF Ongoing, Busy, Unlogged
<1>2. Answered(r, d, m) /\ LogPart(k, mk, lg, m)
  BY DEF Requested
<1>3. LogPart(t, mk, lg, m)
  BY <1>1, <1>2 DEF LogPart
<1> QED
  BY <1>1, <1>2, <1>3 DEF Requested

\* The connection ends with an answer to what cannot be parsed.
LEMMA ErrorStep ==
    ASSUME NEW k, NEW t, NEW s, NEW r, NEW d, NEW mk, NEW lg, NEW m \in Nat, Requested(k, s, r, d, mk, lg, m),
           k.at = "loop", k.loop = "normal", t.at = "closed"
    PROVE  /\ k.buf[1].id = m + 1
           /\ Requested(t, s, Append(r, [req |-> m + 1, of |-> m + 1, via |-> "normal"]), d, mk, lg, m + 1)
<1> DEFINE a == Append(r, [req |-> m + 1, of |-> m + 1, via |-> "normal"])
<1>0. a = Append(r, [req |-> m + 1, of |-> m + 1, via |-> "normal"])
  OBVIOUS
<1> HIDE DEF a
<1>1. /\ Answered(r, d, m) /\ Lined(k, s, m) /\ Held(m, d) = Len(r) /\ ~ Behind(k, s)
      /\ mk = lg /\ mk \subseteq 1 .. m /\ Len(r) \in Nat
  <2>1. k.at \in {"read", "loop"}
    OBVIOUS
  <2>2. Idle(k, s, r, d, mk, lg, m)
    BY <2>1, IdleFacts
  <2> QED
    BY <2>2 DEF Idle
<1>2. k.buf[1].id = m + 1
  <2>1. Base(k, s, m) = m
    BY <1>1 DEF Base
  <2>2. Len(k.buf) \in Nat /\ Len(k.buf) # 0
    BY <1>1 DEF Lined
  <2>3. 1 \in 1 .. Len(k.buf)
    BY <2>2
  <2> QED
    BY <1>1, <2>1, <2>3 DEF Lined
<1>3. Answered(a, d, m + 1)
  <2>1. d \subseteq 1 .. m
    BY <1>1 DEF Answered
  <2>2. m + 1 \notin d /\ Held(m + 1, d) = Len(r) + 1
    <3>1. m + 1 \notin d /\ Held(m + 1, d) = Held(m, d) + 1
      BY <2>1, OneMore
    <3>2. Held(m, d) = Len(r)
      BY <1>1
    <3> QED
      BY <3>1, <3>2
  <2>3. Answered(r, d, m + 1) /\ m + 1 \in Nat
    BY <1>1, AnsweredOn
  <2> QED
    BY <1>0, <2>2, <2>3, AnswerNext
<1>4. ~ Ongoing(t) /\ ~ Busy(t) /\ ~ Unlogged(t)
  BY DEF Ongoing, Busy, Unlogged
<1>5. mk \subseteq 1 .. m + 1
  BY <1>1
<1>6. LogPart(t, mk, lg, m + 1)
  BY <1>1, <1>4, <1>5 DEF LogPart
<1> QED
  BY <1>2, <1>3, <1>4, <1>6 DEF Requested, a

\* buf.clear().
LEMMA ClearStep ==
    ASSUME NEW k, NEW t, NEW s, NEW r, NEW d, NEW mk, NEW lg, NEW m \in Nat, Requested(k, s, r, d, mk, lg, m),
           k.at = "loop", k.sub_mode, t.at = "read", t.buf = <<>>, t.sub_mode = k.sub_mode
    PROVE  \E n \in Nat : Requested(t, s, r, d \cup Ids(k.buf), mk, lg, n)
<1> DEFINE n == Base(k, s, m) + Len(k.buf)
           D == d \cup Ids(k.buf)
<1>0. n = Base(k, s, m) + Len(k.buf)
  OBVIOUS
<1> HIDE DEF n
<1>1. /\ Answered(r, d, m) /\ Lined(k, s, m) /\ Held(m, d) = Len(r)
      /\ Behind(k, s) => m \in d
      /\ mk = lg /\ mk \subseteq 1 .. m /\ Len(r) \in Nat
  <2>1. k.at \in {"read", "loop"}
    OBVIOUS
  <2>2. Idle(k, s, r, d, mk, lg, m)
    BY <2>1, IdleFacts
  <2> QED
    BY <2>2 DEF Idle
<1>2. d \subseteq 1 .. m /\ k.buf # <<>>
  BY <1>1 DEF Answered, Lined
<1>3. /\ n \in Nat /\ n >= m /\ D \subseteq 1 .. n /\ (1 .. n) \ D = (1 .. m) \ d
      /\ Ids(k.buf) \cap (1 .. m) \subseteq d
      /\ Lined(t, s, n) /\ (Behind(t, s) => n \in Ids(k.buf))
  <2>1. Thrown(k, t, s, d, m, n)
    BY <1>0, <1>1, <1>2, ThrowAway
  <2> QED
    BY <2>1 DEF Thrown
<1>4. Answered(r, D, n)
  <2>1. ASSUME NEW q \in 1 .. m PROVE q \in 1 .. n /\ (1 .. q) \ D = (1 .. q) \ d
    <3>1. \A x \in 1 .. q : x \in 1 .. m
      BY <1>3
    <3> QED
      BY <1>3, <3>1
  <2>2. ASSUME NEW i \in 1 .. Len(r)
        PROVE  /\ r[i].req \in (1 .. n) \ D /\ Held(r[i].req, D) = i
               /\ r[i].of = r[i].req \/ r[i].via \in {"exec", "sub"}
    <3>1. /\ r[i].req \in (1 .. m) \ d /\ Held(r[i].req, d) = i
          /\ r[i].of = r[i].req \/ r[i].via \in {"exec", "sub"}
      BY <1>1 DEF Answered
    <3>2. Held(r[i].req, D) = Held(r[i].req, d)
      BY <2>1, <3>1 DEF Held
    <3> QED
      BY <1>3, <2>1, <3>1, <3>2
  <2> QED
    BY <1>1, <1>3, <2>2 DEF Answered
<1>5. mk \subseteq 1 .. n
  BY <1>1, <1>3
<1>6. Held(n, D) = Len(r) /\ (Behind(t, s) => n \in D)
  BY <1>1, <1>3 DEF Held
<1> HIDE DEF D
<1>7. Requested(t, s, r, D, mk, mk, n)
  <2>1. Idle(t, s, r, D, mk, mk, n)
    BY <1>1, <1>3, <1>4, <1>5, <1>6 DEF Idle
  <2>2. t.at \in {"read", "loop"}
    OBVIOUS
  <2> QED
    BY <1>3, <2>1, <2>2, IdleStep
<1> QED
  BY <1>1, <1>3, <1>7 DEF D

\* A request is answered at once.
LEMMA AnswerStep ==
    ASSUME NEW k, NEW t, NEW s, NEW r, NEW d, NEW mk, NEW lg, NEW m \in Nat, Requested(k, s, r, d, mk, lg, m),
           k.at = "loop", k.buf[1].part = "all", t.buf = Tail(k.buf), t.at \in {"read", "loop"},
           t.at = "loop" => t.buf # <<>>
    PROVE  /\ k.buf[1].id = m + 1
           /\ Requested(t, s, Append(r, [req |-> m + 1, of |-> m + 1, via |-> "normal"]), d, mk, lg, m + 1)
<1> DEFINE a == Append(r, [req |-> m + 1, of |-> m + 1, via |-> "normal"])
<1>0. a = Append(r, [req |-> m + 1, of |-> m + 1, via |-> "normal"])
  OBVIOUS
<1> HIDE DEF a
<1>1. /\ Answered(r, d, m) /\ Lined(k, s, m) /\ Held(m, d) = Len(r)
      /\ mk = lg /\ mk \subseteq 1 .. m /\ Len(r) \in Nat
  <2>1. k.at \in {"read", "loop"}
    OBVIOUS
  <2>2. Idle(k, s, r, d, mk, lg, m)
    BY <2>1, IdleFacts
  <2> QED
    BY <2>2 DEF Idle
<1>2. k.buf[1].id = m + 1 /\ Lined(t, s, m + 1) /\ ~ Behind(t, s)
  <2>1. k.buf # <<>>
    BY <1>1 DEF Lined
  <2> QED
    BY <1>1, <2>1, TakeOne
<1>3. Answered(a, d, m + 1) /\ Len(a) = Len(r) + 1 /\ Held(m + 1, d) = Len(r) + 1
  <2>1. d \subseteq 1 .. m
    BY <1>1 DEF Answered
  <2>2. m + 1 \notin d /\ Held(m + 1, d) = Len(r) + 1
    <3>1. m + 1 \notin d /\ Held(m + 1, d) = Held(m, d) + 1
      BY <2>1, OneMore
    <3>2. Held(m, d) = Len(r)
      BY <1>1
    <3> QED
      BY <3>1, <3>2
  <2>3. Answered(r, d, m + 1) /\ m + 1 \in Nat
    BY <1>1, AnsweredOn
  <2>4. Answered(a, d, m + 1)
    BY <1>0, <2>2, <2>3, AnswerNext
  <2>5. Len(a) = Len(r) + 1
    BY <1>0, <1>1, AnswerLen
  <2> QED
    BY <2>2, <2>4, <2>5
<1>4. mk \subseteq 1 .. m + 1
  BY <1>1
<1>5. Requested(t, s, a, d, mk, mk, m + 1)
  <2>1. Idle(t, s, a, d, mk, mk, m + 1)
    BY <1>1, <1>2, <1>3, <1>4 DEF Idle
  <2>2. t.at \in {"read", "loop"}
    OBVIOUS
  <2> QED
    BY <2>1, <2>2, IdleStep
<1> QED
  BY <1>1, <1>2, <1>5 DEF a

\* A request is dispatched.
LEMMA BeginStep ==
    ASSUME NEW k, NEW t, NEW s, NEW r, NEW d, NEW mk, NEW lg, NEW m \in Nat, Requested(k, s, r, d, mk, lg, m),
           k.at = "loop", k.buf[1].part = "all", t.buf = Tail(k.buf), t.at = "run", t.cur = k.buf[1],
           t.run # <<>>
    PROVE  Requested(t, s, r, d, mk, lg, m + 1) /\ k.buf[1] \in Items
<1>1. /\ Answered(r, d, m) /\ Lined(k, s, m) /\ Held(m, d) = Len(r)
      /\ mk = lg /\ mk \subseteq 1 .. m /\ Len(r) \in Nat
  <2>1. k.at \in {"read", "loop"}
    OBVIOUS
  <2>2. Idle(k, s, r, d, mk, lg, m)
    BY <2>1, IdleFacts
  <2> QED
    BY <2>2 DEF Idle
<1>2. k.buf[1].id = m + 1 /\ Lined(t, s, m + 1) /\ ~ Behind(t, s) /\ k.buf[1] \in Items
  <2>1. k.buf # <<>>
    BY <1>1 DEF Lined
  <2> QED
    BY <1>1, <2>1, TakeOne
<1>3. m + 1 \notin d /\ Held(m + 1, d) = Len(r) + 1
  <2>1. d \subseteq 1 .. m
    BY <1>1 DEF Answered
  <2>2. m + 1 \notin d /\ Held(m + 1, d) = Held(m, d) + 1
    BY <2>1, OneMore
  <2>3. Held(m, d) = Len(r)
    BY <1>1
  <2> QED
    BY <2>2, <2>3
<1>4. Answered(r, d, m + 1)
  BY <1>1, AnsweredOn
<1>5. Busy(t) /\ ~ Unlogged(t)
  BY DEF Busy, Unlogged
<1>6. mk \subseteq 1 .. m + 1 /\ m + 1 \notin mk
  BY <1>1
<1>7. LogPart(t, mk, lg, m + 1)
  BY <1>1, <1>5, <1>6 DEF LogPart
<1>8. t.cur.id = m + 1
  BY <1>2
<1> QED
  BY <1>2, <1>3, <1>4, <1>5, <1>7, <1>8, BusyStep

\* A handler goes on, without a write that is to be logged.
LEMMA HandlerStep ==
    ASSUME NEW k, NEW t, NEW s, NEW r, NEW d, NEW mk, NEW lg, NEW m \in Nat, Requested(k, s, r, d, mk, lg, m),
           Busy(k), Busy(t), t.buf = k.buf, t.cur = k.cur, ~ Unlogged(k), ~ Unlogged(t),
           t.via = "normal" /\ t.run # <<>> => k.via = "normal" /\ k.run # <<>>
    PROVE  Requested(t, s, r, d, mk, lg, m)
<1>1. /\ Answered(r, d, m) /\ Lined(k, s, m) /\ Held(m, d) = Len(r) + 1
      /\ ~ Behind(k, s) /\ k.cur.id = m /\ m \notin d /\ LogPart(k, mk, lg, m)
  BY BusyFacts
<1>2. Lined(t, s, m) /\ ~ Behind(t, s)
  <2>1. t.at # "loop"
    BY DEF Busy
  <2> QED
    BY <1>1, <2>1, SameLined
<1>3. LogPart(t, mk, lg, m)
  BY <1>1 DEF LogPart
<1>4. t.cur.id = m
  BY <1>1
<1> QED
  BY <1>1, <1>2, <1>3, <1>4, BusyStep

\* A write is dispatched that is to be logged.
WrittenBy(k, t, s, r, d, mk, lg, m) ==
    Requested(t, s, r, d, mk \cup {m}, lg, m) /\ k.cur.id = m /\ m \notin mk /\ mk \subseteq 1 .. m

LEMMA SetStep ==
    ASSUME NEW k, NEW t, NEW s, NEW r, NEW d, NEW mk, NEW lg, NEW m \in Nat, Requested(k, s, r, d, mk, lg, m),
           Busy(k), k.via = "normal", k.run # <<>>, Unlogged(t), t.buf = k.buf, t.cur = k.cur
    PROVE  WrittenBy(k, t, s, r, d, mk, lg, m)
<1>1. /\ Answered(r, d, m) /\ Lined(k, s, m) /\ Held(m, d) = Len(r) + 1
      /\ ~ Behind(k, s) /\ k.cur.id = m /\ m \notin d /\ LogPart(k, mk, lg, m) /\ m \in 1 .. m
  BY BusyFacts
<1>2. Lined(t, s, m) /\ ~ Behind(t, s) /\ Busy(t)
  <2>1. t.at = "run"
    BY DEF Unlogged
  <2>2. t.at # "loop"
    BY <2>1
  <2> QED
    BY <1>1, <2>1, <2>2, SameLined DEF Busy
<1>3. ~ Unlogged(k) /\ mk = lg /\ m \notin mk /\ mk \subseteq 1 .. m
  BY <1>1 DEF LogPart, Unlogged
<1>4. t.run = <<>>
  BY DEF Unlogged
<1>5. LogPart(t, mk \cup {m}, lg, m)
  BY <1>1, <1>3, <1>4 DEF LogPart
<1>6. t.cur.id = m
  BY <1>1
<1>7. Requested(t, s, r, d, mk \cup {m}, lg, m)
  BY <1>1, <1>2, <1>5, <1>6, BusyStep
<1> QED
  BY <1>1, <1>3, <1>7 DEF WrittenBy

\* The request in hand is answered, and what it wrote is logged.
LEMMA DoneStep ==
    ASSUME NEW k, NEW t, NEW s, NEW r, NEW d, NEW mk, NEW lg, NEW m \in Nat, Requested(k, s, r, d, mk, lg, m),
           Busy(k), t.buf = k.buf, t.at \in {"read", "loop"}, t.at = "loop" => t.buf # <<>>,
           NEW of \in Nat, NEW via \in {"normal", "exec", "sub"}, of = m \/ via \in {"exec", "sub"}
    PROVE  Requested(t, s, Append(r, [req |-> m, of |-> of, via |-> via]), d, mk, mk, m)
<1> DEFINE a == Append(r, [req |-> m, of |-> of, via |-> via])
<1>0. a = Append(r, [req |-> m, of |-> of, via |-> via])
  OBVIOUS
<1> HIDE DEF a
<1>1. /\ Answered(r, d, m) /\ Lined(k, s, m) /\ Held(m, d) = Len(r) + 1
      /\ ~ Behind(k, s) /\ m \notin d /\ LogPart(k, mk, lg, m)
  BY BusyFacts
<1>2. Lined(t, s, m) /\ ~ Behind(t, s)
  BY <1>1, SameLined
<1>3. Answered(a, d, m) /\ Len(a) = Len(r) + 1
  <2>1. Answered(r, d, m) /\ m \notin d /\ Held(m, d) = Len(r) + 1
    BY <1>1
  <2>2. Answered(a, d, m)
    BY <1>0, <2>1, AnswerNext
  <2>3. Len(a) = Len(r) + 1
    BY <1>0, <1>1, AnswerLen
  <2> QED
    BY <2>2, <2>3
<1>4. mk \subseteq 1 .. m
  BY <1>1 DEF LogPart
<1>5. Len(a) \in Nat
  BY <1>3 DEF Answered
<1>6. Requested(t, s, a, d, mk, mk, m)
  <2>1. Idle(t, s, a, d, mk, mk, m)
    BY <1>1, <1>2, <1>3, <1>4, <1>5 DEF Idle
  <2>2. t.at \in {"read", "loop"}
    OBVIOUS
  <2> QED
    BY <2>1, <2>2, IdleStep
<1> QED
  BY <1>6 DEF a

\* The connection parks, and what the request in hand wrote is logged.
LEMMA ParkStep ==
    ASSUME NEW k, NEW t, NEW s, NEW r, NEW d, NEW mk, NEW lg, NEW m \in Nat, Requested(k, s, r, d, mk, lg, m),
           Busy(k), t.buf = k.buf, t.cur = k.cur, t.run = <<>>, t.at = "parked"
    PROVE  Requested(t, s, r, d, mk, mk, m)
<1>1. /\ Answered(r, d, m) /\ Lined(k, s, m) /\ Held(m, d) = Len(r) + 1
      /\ ~ Behind(k, s) /\ k.cur.id = m /\ m \notin d /\ LogPart(k, mk, lg, m)
  BY BusyFacts
<1>2. Lined(t, s, m) /\ ~ Behind(t, s)
  <2>1. t.at # "loop"
    OBVIOUS
  <2> QED
    BY <1>1, <2>1, SameLined
<1>3. LogPart(t, mk, mk, m)
  BY <1>1 DEF LogPart, Unlogged
<1>4. t.cur.id = m /\ Busy(t)
  BY <1>1 DEF Busy
<1> QED
  BY <1>1, <1>2, <1>3, <1>4, BusyStep

-----------------------------------------------------------------------------
(* The order of answers: how the request in hand was dispatched.             *)

\* A sequence of one.
LEMMA OneItem ==
    ASSUME NEW x
    PROVE  <<x>> # <<>> /\ Head(<<x>>) = x /\ Tail(<<x>>) = <<>>
<1>1. <<x>> \in Seq({x}) /\ Len(<<x>>) = 1 /\ Head(<<x>>) = x
  OBVIOUS
<1>2. Tail(<<x>>) \in Seq({x}) /\ Len(Tail(<<x>>)) = 0
  BY <1>1
<1>3. Tail(<<x>>) = <<>>
  BY <1>2
<1>4. Len(<<>>) = 0
  OBVIOUS
<1> QED
  BY <1>1, <1>3, <1>4

\* A handler has done its part of what is to run; it may have left a block request.
RanTo(k, t) ==
    /\ t.at = "run" /\ t.run = Tail(k.run)
    /\ t.cur = k.cur /\ t.via = k.via /\ t.loop = k.loop /\ t.buf = k.buf /\ t.waits = k.waits
    /\ t.multi_queue \in {k.multi_queue, <<>>}
    /\ \/ t.block_state = k.block_state
       \/ /\ t.block_state = [of |-> Head(k.run).id, via |-> IF k.sub_mode THEN "sub" ELSE k.via]
          /\ t.sub_mode = k.sub_mode

LEMMA ModeRan ==
    ASSUME NEW k, NEW t, Mode(k), Busy(k), k.run # <<>>, RanTo(k, t)
    PROVE  /\ Mode(t) /\ Busy(t) /\ k.via \in {"normal", "sub", "exec"}
           /\ t.via # "exec" => t.run = <<>> /\ Head(k.run) = k.cur
<1>1. /\ k.run \in Seq(Items) /\ k.multi_queue \in Seq(Items) /\ k.cur \in Items
      /\ k.block_state.of \in Nat /\ k.waits.of \in Nat
      /\ k.via \in {"normal", "sub", "exec"} /\ (k.via = "exec" => k.cur.op = "exec")
      /\ k.via # "exec" => k.via = k.loop /\ k.run = <<k.cur>>
  BY DEF Mode
<1>2. k.block_state = NoBlock \/ k.block_state.via \in {"exec", "sub"}
  BY DEF Mode
<1>3. Head(k.run) \in Items /\ Tail(k.run) \in Seq(Items) /\ Head(k.run).id \in Nat
  <2>1. Head(k.run) \in Items /\ Tail(k.run) \in Seq(Items)
    BY <1>1
  <2> QED
    BY <2>1, ItemFacts
<1>4. t.via # "exec" => t.run = <<>> /\ Head(k.run) = k.cur
  BY <1>1, OneItem DEF RanTo
<1>5. /\ t.at = "run" /\ t.run \in Seq(Items) /\ t.multi_queue \in Seq(Items) /\ t.cur \in Items
      /\ t.waits.of \in Nat /\ t.via \in {"normal", "sub", "exec"} /\ (t.via = "exec" => t.cur.op = "exec")
      /\ t.via # "exec" => t.via = t.loop /\ t.run = <<>>
  <2>1. <<>> \in Seq(Items)
    OBVIOUS
  <2> QED
    BY <1>1, <1>3, <1>4, <2>1 DEF RanTo
<1>6. /\ t.block_state.of \in Nat
      /\ \/ t.block_state = NoBlock \/ t.block_state.via \in {"exec", "sub"}
         \/ t.block_state.of = t.cur.id /\ t.block_state.via = "normal" /\ t.via = "normal" /\ ~ t.sub_mode
  <2>1. CASE t.block_state = k.block_state
    BY <1>1, <1>2, <2>1
  <2>2. CASE /\ t.block_state = [of |-> Head(k.run).id, via |-> IF k.sub_mode THEN "sub" ELSE k.via]
             /\ t.sub_mode = k.sub_mode
    <3>1. t.block_state.of = Head(k.run).id /\ t.block_state.via = IF k.sub_mode THEN "sub" ELSE k.via
      BY <2>2
    <3>2. CASE k.sub_mode \/ k.via # "normal"
      BY <1>1, <1>3, <3>1, <3>2
    <3>3. CASE ~ k.sub_mode /\ k.via = "normal"
      <4>1. t.cur = k.cur /\ t.via = k.via
        BY DEF RanTo
      <4> QED
        BY <1>3, <1>4, <2>2, <3>1, <3>3, <4>1
    <3> QED
      BY <3>2, <3>3
  <2> QED
    BY <2>1, <2>2 DEF RanTo
<1>7. Busy(t)
  BY <1>5 DEF Busy
<1>8. Mode(t)
  BY <1>5, <1>6 DEF Mode
<1> QED
  BY <1>1, <1>4, <1>7, <1>8

\* A handler has more than one step.
LEMMA ModeStays ==
    ASSUME NEW k, NEW t, Mode(k), Busy(k), k.run # <<>>, t.run = k.run, t.cur = k.cur, t.via = k.via,
           t.loop = k.loop, t.waits = k.waits, t.multi_queue = k.multi_queue, t.block_state = k.block_state,
           t.sub_mode = k.sub_mode,
           \/ t.at \in {"prune", "patterns"} /\ Head(k.run).op = "publish"
           \/ t.at = "script" /\ Head(k.run).op \in {"eval", "evalsha"}
    PROVE  Mode(t) /\ Busy(t)
<1>1. Busy(t) /\ t.at \notin {"loop", "parked", "run"}
  BY DEF Busy
<1>2. k.block_state = NoBlock \/ k.block_state.via \in {"exec", "sub"}
  BY DEF Mode
<1>3. /\ t.at \in {"prune", "patterns"} => Head(t.run).op = "publish"
      /\ t.at = "script" => Head(t.run).op \in {"eval", "evalsha"}
  OBVIOUS
<1> QED
  BY <1>1, <1>2, <1>3 DEF Mode

\* No request is in hand any more, or the next one is not taken yet.
LEMMA ModeIdle ==
    ASSUME NEW k, NEW t, Mode(k), t.at \in {"read", "loop", "closed", "panicked", "replica"},
           t.run = k.run, t.multi_queue \in Seq(Items), t.at = "loop" /\ t.loop = "sub" => t.sub_mode,
           t.block_state = k.block_state, t.waits \in {k.waits, NoBlock},
           k.block_state = NoBlock \/ k.block_state.via \in {"exec", "sub"}
           \/ k.at # "run" \/ k.run # <<>> \/ k.loop # "normal" \/ k.sub_mode
    PROVE  Mode(t)
<1>1. ~ Busy(t) /\ t.at \notin {"prune", "patterns", "script", "parked"}
  BY DEF Busy
<1>2. k.block_state = NoBlock \/ k.block_state.via \in {"exec", "sub"}
  BY DEF Mode
<1>3. t.waits.of \in Nat /\ t.run \in Seq(Items) /\ t.block_state.of \in Nat
  BY DEF Mode, NoBlock
<1> QED
  BY <1>1, <1>2, <1>3 DEF Mode

\* The request is dispatched.
LEMMA ModeBegin ==
    ASSUME NEW k, NEW t, NEW x \in Items, Mode(k), k.at = "loop", t.at = "run", t.cur = x, t.run = <<x>>,
           t.via = k.loop, t.loop = k.loop, k.loop \in {"normal", "sub"}, t.sub_mode = k.sub_mode,
           t.multi_queue = k.multi_queue, t.block_state = k.block_state, t.waits = k.waits
    PROVE  Mode(t)
<1>1. k.block_state = NoBlock \/ k.block_state.via \in {"exec", "sub"}
  BY DEF Mode
<1>2. <<x>> \in Seq(Items)
  OBVIOUS
<1>3. k.loop = "sub" => t.sub_mode
  BY DEF Mode
<1> QED
  BY <1>1, <1>2, <1>3 DEF Mode

\* EXEC goes on with what was queued.
LEMMA ModeExec ==
    ASSUME NEW k, NEW t, Mode(k), k.at = "run", k.run # <<>>, Head(k.run).op = "exec", t.at = "run",
           t.run = k.multi_queue, t.multi_queue = <<>>, t.via = "exec", t.cur = k.cur, t.loop = k.loop,
           t.sub_mode = k.sub_mode, t.block_state = k.block_state, t.waits = k.waits
    PROVE  Mode(t)
<1>1. k.block_state = NoBlock \/ k.block_state.via \in {"exec", "sub"}
  BY DEF Mode
<1>2. Busy(k)
  BY DEF Busy
<1>3. k.cur \in Items /\ k.cur.op = "exec"
  <2>1. k.via # "exec" => k.run = <<k.cur>>
    BY <1>2 DEF Mode
  <2>2. k.via # "exec" => Head(k.run) = k.cur
    BY <2>1, OneItem
  <2> QED
    BY <1>2, <2>2 DEF Mode
<1>4. <<>> \in Seq(Items)
  OBVIOUS
<1> QED
  BY <1>1, <1>3, <1>4 DEF Mode

\* The connection parks for a block request.
LEMMA ModePark ==
    ASSUME NEW k, NEW t, Mode(k), k.at = "run", k.run = <<>>, k.loop = "normal", k.block_state # NoBlock,
           t.at = "parked", t.run = k.run, t.cur = k.cur, t.via = k.via, t.loop = k.loop,
           t.multi_queue = k.multi_queue, t.block_state = NoBlock, t.waits = k.block_state
    PROVE  Mode(t)
<1>1. Busy(k) /\ Busy(t)
  BY DEF Busy
<1>2. t.block_state.of \in Nat
  BY DEF NoBlock
<1> QED
  BY <1>1, <1>2 DEF Mode

-----------------------------------------------------------------------------
(* The order of writes: the histories.                                       *)

Writes == [conn : Conns, id : Nat, via : {"normal", "sub", "exec", "lua"},
           sub_mode : BOOLEAN, authenticated : BOOLEAN, ok : BOOLEAN]

\* The requests in a history that has grown, at the positions P it had.
LEMMA OldRequests ==
    ASSUME NEW S, NEW s \in Seq(S), NEW x, NEW a, a = Append(s, x), NEW P, P \subseteq 1 .. Len(s)
    PROVE  Requests(a, P) = Requests(s, P) /\ (InOrder(s, P) => InOrder(a, P))
<1>1. \A i \in 1 .. Len(s) : a[i] = s[i]
  OBVIOUS
<1>2. \A i \in P : a[i] = s[i]
  BY <1>1
<1> QED
  BY <1>2 DEF Requests, InOrder

\* The same with the new one among them, whose request is later than the others.
LEMMA NewRequest ==
    ASSUME NEW S, NEW s \in Seq(S), NEW x, NEW P, P \subseteq 1 .. Len(s), InOrder(s, P),
           \A y \in Requests(s, P) : y < x.id
    PROVE  /\ Requests(Append(s, x), P \cup {Len(s) + 1}) = Requests(s, P) \cup {x.id}
           /\ InOrder(Append(s, x), P \cup {Len(s) + 1})
<1> DEFINE n == Len(s) + 1
           a == Append(s, x)
           Q == P \cup {n}
<1>1. Len(s) \in Nat /\ a[n] = x /\ \A i \in 1 .. Len(s) : a[i] = s[i]
  OBVIOUS
<1>2. \A i \in P : a[i] = s[i] /\ i < n /\ i \in Nat
  BY <1>1
<1>3. a[n] = x /\ n \in Nat /\ Q = P \cup {n}
  BY <1>1
<1> HIDE DEF n, a, Q
<1>4. Requests(a, Q) = Requests(s, P) \cup {x.id}
  <2>1. ASSUME NEW y \in Requests(a, Q) PROVE y \in Requests(s, P) \cup {x.id}
    <3>1. PICK i \in Q : y = a[i].id
      BY DEF Requests
    <3>2. CASE i = n
      BY <1>3, <3>1, <3>2
    <3>3. CASE i \in P
      BY <1>2, <3>1, <3>3 DEF Requests
    <3> QED
      BY <1>3, <3>2, <3>3
  <2>2. ASSUME NEW y \in Requests(s, P) PROVE y \in Requests(a, Q)
    <3>1. PICK i \in P : y = s[i].id
      BY DEF Requests
    <3> QED
      BY <1>2, <1>3, <3>1 DEF Requests
  <2>3. x.id \in Requests(a, Q)
    BY <1>3 DEF Requests
  <2> QED
    BY <2>1, <2>2, <2>3
<1>5. InOrder(a, Q)
  <2> SUFFICES ASSUME NEW i \in Q, NEW j \in Q, i < j PROVE a[i].id < a[j].id
    BY DEF InOrder
  <2>1. i # n
    BY <1>2, <1>3
  <2>2. i \in P
    BY <1>3, <2>1
  <2>3. CASE j = n
    BY <1>2, <1>3, <2>2, <2>3 DEF Requests
  <2>4. CASE j \in P
    BY <1>2, <2>2, <2>4 DEF InOrder
  <2> QED
    BY <1>3, <2>3, <2>4
<1> QED
  BY <1>4, <1>5 DEF a, Q, n

\* A write is dispatched for connection c.
LEMMA WriteIssued ==
    ASSUME HistoryInv, NEW c \in Conns, NEW x \in Writes, x.conn = c, x.via = "sub" => x.sub_mode,
           applied' = Append(applied, x), log' = log,
           x.via = "normal" => \A y \in Issued(c) : y < x.id
    PROVE  /\ HistoryInv'
           /\ Issued(c)' = IF x.via = "normal" THEN Issued(c) \cup {x.id} ELSE Issued(c)
           /\ \A o \in Conns \ {c} : Issued(o)' = Issued(o)
           /\ \A o \in Conns : InLog(o)' = InLog(o)
<1> DEFINE n == Len(applied) + 1
<1>1. applied \in Seq(Writes)
  BY DEF HistoryInv, Writes
<1>2. /\ applied' \in Seq(Writes) /\ Len(applied) \in Nat /\ n \in Nat /\ DOMAIN applied' = 1 .. n /\ applied'[n] = x
      /\ DOMAIN applied = 1 .. Len(applied) /\ \A i \in 1 .. Len(applied) : applied'[i] = applied[i]
  BY <1>1
<1>3. \A i \in 1 .. n : i \in 1 .. Len(applied) \/ i = n
  BY <1>2
<1>4. n \in 1 .. n /\ n \notin 1 .. Len(applied) /\ \A i \in 1 .. Len(applied) : i \in 1 .. n
  BY <1>2
<1>5. n = Len(applied) + 1
  OBVIOUS
<1> HIDE DEF n
<1>6. ASSUME NEW o
      PROVE  /\ Plain(o) \subseteq 1 .. Len(applied)
             /\ Plain(o)' = IF o = c /\ x.via = "normal" THEN Plain(o) \cup {n} ELSE Plain(o)
  <2>1. Plain(o) = {i \in 1 .. Len(applied) : applied[i].conn = o /\ applied[i].via = "normal"}
    BY <1>2 DEF Plain, Of
  <2>2. Plain(o)' = {i \in 1 .. n : applied'[i].conn = o /\ applied'[i].via = "normal"}
    BY <1>2 DEF Plain, Of
  <2> QED
    BY <1>2, <1>3, <1>4, <2>1, <2>2
<1>7. ASSUME NEW o \in Conns
      PROVE  /\ Issued(o)' = IF o = c /\ x.via = "normal" THEN Issued(o) \cup {x.id} ELSE Issued(o)
             /\ InOrder(applied', Plain(o)')
  <2>1. InOrder(applied, Plain(o)) /\ Plain(o) \subseteq 1 .. Len(applied)
    BY <1>6 DEF HistoryInv
  <2>2. CASE o = c /\ x.via = "normal"
    <3>1. Plain(o)' = Plain(o) \cup {Len(applied) + 1}
      BY <1>5, <1>6, <2>2
    <3>2. Requests(applied', Plain(o)') = Requests(applied, Plain(o)) \cup {x.id} /\ InOrder(applied', Plain(o)')
      <4> DEFINE a == applied'
                 s == applied
                 P == Plain(o)
                 Q == Plain(o)'
      <4>1. s \in Seq(Writes) /\ a = Append(s, x) /\ P \subseteq 1 .. Len(s) /\ Q = P \cup {Len(s) + 1}
        BY <1>1, <2>1, <3>1
      <4>2. InOrder(s, P) /\ \A y \in Requests(s, P) : y < x.id
        BY <2>1, <2>2 DEF Issued
      <4> HIDE DEF a, s, P, Q
      <4>3. /\ Requests(Append(s, x), P \cup {Len(s) + 1}) = Requests(s, P) \cup {x.id}
            /\ InOrder(Append(s, x), P \cup {Len(s) + 1})
        BY <4>1, <4>2, NewRequest
      <4>4. Requests(a, Q) = Requests(s, P) \cup {x.id} /\ InOrder(a, Q)
        BY <4>1, <4>3
      <4> QED
        BY <4>4 DEF a, s, P, Q
    <3> QED
      BY <2>2, <3>2 DEF Issued
  <2>3. CASE ~ (o = c /\ x.via = "normal")
    <3>1. Plain(o)' = Plain(o)
      BY <1>6, <2>3
    <3>2. Requests(applied', Plain(o)) = Requests(applied, Plain(o)) /\ InOrder(applied', Plain(o))
      BY <1>1, <2>1, OldRequests
    <3> QED
      BY <2>3, <3>1, <3>2 DEF Issued
  <2> QED
    BY <2>2, <2>3
<1>8. \A o \in Conns : InLog(o)' = InLog(o) /\ InOrder(log', Of(o, log'))
  BY DEF InLog, HistoryInv
<1>9. \A i \in DOMAIN applied' : applied'[i].via = "sub" => applied'[i].sub_mode
  BY <1>2, <1>3 DEF HistoryInv
<1>10. HistoryInv'
  <2>1. log' \in Seq([conn : Conns, id : Nat])
    BY DEF HistoryInv
  <2> QED
    BY <1>2, <1>7, <1>8, <1>9, <2>1 DEF HistoryInv, Writes
<1> QED
  BY <1>7, <1>8, <1>10

\* A write of connection c is logged.
LEMMA WriteLogged ==
    ASSUME HistoryInv, NEW c \in Conns, NEW id \in Nat, \A y \in InLog(c) : y < id,
           log' = Append(log, [conn |-> c, id |-> id]), applied' = applied
    PROVE  /\ HistoryInv'
           /\ InLog(c)' = InLog(c) \cup {id}
           /\ \A o \in Conns \ {c} : InLog(o)' = InLog(o)
           /\ \A o \in Conns : Issued(o)' = Issued(o)
<1> DEFINE n == Len(log) + 1
           x == [conn |-> c, id |-> id]
           L == [conn : Conns, id : Nat]
<1>1. log \in Seq(L) /\ x \in L /\ x.conn = c /\ x.id = id /\ log' = Append(log, x)
  BY DEF HistoryInv
<1> HIDE DEF x, L
<1>2. /\ log' \in Seq(L) /\ Len(log) \in Nat /\ n \in Nat /\ DOMAIN log' = 1 .. n /\ log'[n] = x
      /\ DOMAIN log = 1 .. Len(log) /\ \A i \in 1 .. Len(log) : log'[i] = log[i]
  BY <1>1
<1>3. \A i \in 1 .. n : i \in 1 .. Len(log) \/ i = n
  BY <1>2
<1>4. n \in 1 .. n /\ n \notin 1 .. Len(log) /\ \A i \in 1 .. Len(log) : i \in 1 .. n
  BY <1>2
<1>5. n = Len(log) + 1
  OBVIOUS
<1> HIDE DEF n
<1>6. ASSUME NEW o
      PROVE  /\ Of(o, log) \subseteq 1 .. Len(log)
             /\ Of(o, log)' = IF o = c THEN Of(o, log) \cup {n} ELSE Of(o, log)
  <2>1. Of(o, log) = {i \in 1 .. Len(log) : log[i].conn = o}
    BY <1>2 DEF Of
  <2>2. Of(o, log)' = {i \in 1 .. n : log'[i].conn = o}
    BY <1>2 DEF Of
  <2> QED
    BY <1>1, <1>2, <1>3, <1>4, <2>1, <2>2
<1>7. ASSUME NEW o \in Conns
      PROVE  /\ InLog(o)' = IF o = c THEN InLog(o) \cup {id} ELSE InLog(o)
             /\ InOrder(log', Of(o, log)')
  <2>1. InOrder(log, Of(o, log)) /\ Of(o, log) \subseteq 1 .. Len(log)
    BY <1>6 DEF HistoryInv
  <2>2. CASE o = c
    <3>1. Of(o, log)' = Of(o, log) \cup {Len(log) + 1}
      BY <1>5, <1>6, <2>2
    <3>2. \A y \in Requests(log, Of(o, log)) : y < x.id
      BY <1>1, <2>2 DEF InLog
    <3>3. Requests(log', Of(o, log)') = Requests(log, Of(o, log)) \cup {x.id} /\ InOrder(log', Of(o, log)')
      <4> DEFINE a == log'
                 s == log
                 P == Of(o, log)
                 Q == Of(o, log)'
      <4>1. s \in Seq(L) /\ a = Append(s, x) /\ P \subseteq 1 .. Len(s) /\ Q = P \cup {Len(s) + 1}
        BY <1>1, <2>1, <3>1
      <4>2. InOrder(s, P) /\ \A y \in Requests(s, P) : y < x.id
        BY <2>1, <3>2
      <4> HIDE DEF a, s, P, Q
      <4>3. /\ Requests(Append(s, x), P \cup {Len(s) + 1}) = Requests(s, P) \cup {x.id}
            /\ InOrder(Append(s, x), P \cup {Len(s) + 1})
        BY <4>1, <4>2, NewRequest
      <4>4. Requests(a, Q) = Requests(s, P) \cup {x.id} /\ InOrder(a, Q)
        BY <4>1, <4>3
      <4> QED
        BY <4>4 DEF a, s, P, Q
    <3> QED
      BY <1>1, <2>2, <3>3 DEF InLog
  <2>3. CASE o # c
    <3>1. Of(o, log)' = Of(o, log)
      BY <1>6, <2>3
    <3>2. Requests(log', Of(o, log)) = Requests(log, Of(o, log)) /\ InOrder(log', Of(o, log))
      <4> DEFINE a == log'
                 s == log
                 P == Of(o, log)
      <4>1. s \in Seq(L) /\ a = Append(s, x) /\ P \subseteq 1 .. Len(s) /\ InOrder(s, P)
        BY <1>1, <2>1
      <4> HIDE DEF a, s, P
      <4>2. Requests(a, P) = Requests(s, P) /\ InOrder(a, P)
        BY <4>1, OldRequests
      <4> QED
        BY <4>2 DEF a, s, P
    <3> QED
      BY <2>3, <3>1, <3>2 DEF InLog
  <2> QED
    BY <2>2, <2>3
<1>8. \A o \in Conns : Issued(o)' = Issued(o) /\ InOrder(applied', Plain(o)')
  BY DEF Issued, Plain, Of, HistoryInv
<1>9. HistoryInv'
  <2>1. \A o \in Conns : InOrder(log', Of(o, log'))
    BY <1>7
  <2>2. applied' = applied
    OBVIOUS
  <2> QED
    BY <1>2, <1>8, <2>1, <2>2 DEF HistoryInv, L
<1> QED
  BY <1>7, <1>8, <1>9

-----------------------------------------------------------------------------
(* The order of answers: the other connections.                              *)

\* A step of connection c leaves what the others have.
Others(c) ==
    /\ DOMAIN sock' = Conns /\ DOMAIN replies' = Conns /\ DOMAIN dropped' = Conns
    /\ \A o \in Conns \ {c} : sock'[o] = sock[o] /\ replies'[o] = replies[o] /\ dropped'[o] = dropped[o]

LEMMA OrderStep ==
    ASSUME OrderInv, ConnInv, NEW c \in Conns, NEW t, conn' = [conn EXCEPT ![c] = t], Others(c), Mode(t), HistoryInv',
           \A o \in Conns \ {c} : Issued(o)' = Issued(o) /\ InLog(o)' = InLog(o),
           \E m \in Nat : Requested(t, sock'[c], replies'[c], dropped'[c], Issued(c)', InLog(c)', m)
    PROVE  OrderInv'
<1>1. conn'[c] = t /\ \A o \in Conns \ {c} : conn'[o] = conn[o]
  BY DEF ConnInv
<1>2. ASSUME NEW o \in Conns PROVE Mode(conn'[o]) /\ ReqInv(o)'
  <2>1. CASE o = c
    BY <1>1, <2>1 DEF ReqInv
  <2>2. CASE o # c
    <3>1. Mode(conn[o]) /\ \E m \in Nat : Requested(conn[o], sock[o], replies[o], dropped[o], Issued(o), InLog(o), m)
      BY DEF OrderInv, ReqInv
    <3>2. /\ conn'[o] = conn[o] /\ sock'[o] = sock[o] /\ replies'[o] = replies[o] /\ dropped'[o] = dropped[o]
          /\ Issued(o)' = Issued(o) /\ InLog(o)' = InLog(o)
      BY <1>1, <2>2 DEF Others
    <3> QED
      BY <3>1, <3>2 DEF ReqInv
  <2> QED
    BY <2>1, <2>2
<1> QED
  BY <1>2 DEF OrderInv, Others

\* One that writes nothing.
LEMMA QuietStep ==
    ASSUME OrderInv, ConnInv, NEW c \in Conns, NEW t, conn' = [conn EXCEPT ![c] = t], Others(c), Mode(t),
           applied' = applied, log' = log,
           \E m \in Nat : Requested(t, sock'[c], replies'[c], dropped'[c], Issued(c), InLog(c), m)
    PROVE  OrderInv'
<1>1. HistoryInv'
  BY DEF OrderInv, HistoryInv, Plain, Of
<1>2. \A o \in Conns : Issued(o)' = Issued(o) /\ InLog(o)' = InLog(o)
  BY DEF Issued, InLog, Plain, Of
<1> QED
  BY <1>1, <1>2, OrderStep

\* What the invariant says of the connection that makes a step.
LEMMA OldOrder ==
    ASSUME OrderInv, IInv, NEW c \in Conns
    PROVE  /\ ConnInv /\ DOMAIN conn[c] = Fields /\ Mode(conn[c])
           /\ \E m \in Nat : Requested(conn[c], sock[c], replies[c], dropped[c], Issued(c), InLog(c), m)
BY OldContext DEF OrderInv, ReqInv

\* A step that leaves sockets, answers and what was thrown away.
LEMMA NothingMoves ==
    ASSUME OrderInv, NEW c \in Conns, sock' = sock, replies' = replies, dropped' = dropped
    PROVE  Others(c) /\ sock'[c] = sock[c] /\ replies'[c] = replies[c] /\ dropped'[c] = dropped[c]
BY DEF OrderInv, Others

\* One that answers.
LEMMA ReplyMoves ==
    ASSUME OrderInv, NEW c \in Conns, NEW req, NEW of, NEW via, Reply(c, req, of, via), sock' = sock, dropped' = dropped
    PROVE  /\ Others(c) /\ sock'[c] = sock[c] /\ dropped'[c] = dropped[c]
           /\ replies'[c] = Append(replies[c], [req |-> req, of |-> of, via |-> via])
BY DEF OrderInv, Others, Reply

-----------------------------------------------------------------------------
(* The order of answers: reading, and the loop up to dispatch.               *)

\* What the buffer starts with, in the loop.
LEMMA LoopHead ==
    ASSUME NEW k, NEW s, NEW r, NEW d, NEW mk, NEW lg, NEW m \in Nat, Requested(k, s, r, d, mk, lg, m), k.at = "loop"
    PROVE  /\ Head(k.buf) = k.buf[1] /\ Head(k.buf) \in Items /\ k.buf[1] \in Items
           /\ parse_command(Head(k.buf)) = "ok" => k.buf[1].part = "all"
<1>1. Lined(k, s, m)
  <2>1. k.at \in {"read", "loop"}
    OBVIOUS
  <2> QED
    BY <2>1, IdleFacts DEF Idle
<1>2. k.buf \in Seq(Items) /\ k.buf # <<>>
  BY <1>1 DEF Lined
<1>3. Head(k.buf) = k.buf[1] /\ k.buf[1] \in Items
  BY <1>2
<1>4. k.buf[1].part \in {"all", "head", "tail", "args"}
  BY <1>3, ItemFacts DEF Rest
<1>5. parse_command(k.buf[1]) = "ok" => k.buf[1].part = "all"
  BY <1>4 DEF parse_command
<1> QED
  BY <1>3, <1>5

\* read_buf.
LEMMA BytesOrder ==
    ASSUME OrderInv, IInv, NEW c \in Conns, At(c, "read"), NEW new, NEW rest, NEW e \in {0, 1},
           Split(sock[c], new, rest, e), GotBytes(c, new, rest)
    PROVE  OrderInv'
<1> DEFINE k == conn[c]
           t == [k EXCEPT !.buf = Joined(k.buf, new), !.at = "loop", !.loop = IF k.sub_mode THEN "sub" ELSE "normal"]
<1>1. ConnInv /\ DOMAIN k = Fields /\ Mode(k)
  BY OldOrder
<1>2. PICK m \in Nat : Requested(k, sock[c], replies[c], dropped[c], Issued(c), InLog(c), m)
  BY OldOrder
<1>3. conn' = [conn EXCEPT ![c] = t] /\ applied' = applied /\ log' = log
  BY <1>1 DEF GotBytes, ConnInv, serverVars
<1>4. Others(c) /\ sock'[c] = rest /\ replies'[c] = replies[c] /\ dropped'[c] = dropped[c]
  BY DEF GotBytes, Others, OrderInv
<1>5. k.at = "read"
  BY DEF At
<1> HIDE DEF k
<1>6. /\ t.buf = Joined(k.buf, new) /\ t.at = "loop" /\ t.loop = (IF k.sub_mode THEN "sub" ELSE "normal")
      /\ t.sub_mode = k.sub_mode /\ t.run = k.run /\ t.multi_queue = k.multi_queue
      /\ t.block_state = k.block_state /\ t.waits = k.waits
  BY <1>1 DEF Fields
<1> HIDE DEF t
<1>7. Requested(t, rest, replies[c], dropped[c], Issued(c), InLog(c), m)
  BY <1>2, <1>5, <1>6, BytesStep
<1>8. Mode(t)
  <2>1. t.at = "loop" /\ t.loop = "sub" => t.sub_mode
    BY <1>6
  <2>2. t.multi_queue \in Seq(Items)
    BY <1>1, <1>6 DEF Mode
  <2> QED
    BY <1>1, <1>5, <1>6, <2>1, <2>2, ModeIdle
<1> QED
  BY <1>1, <1>3, <1>4, <1>7, <1>8, QuietStep

LEMMA ReadOrder == ASSUME OrderInv, IInv, NEW c \in Conns, ReadStep(c) PROVE OrderInv'
<1>1. PICK m \in Nat : Requested(conn[c], sock[c], replies[c], dropped[c], Issued(c), InLog(c), m)
  BY OldOrder
<1>2. At(c, "read")
  BY DEF ReadStep, Read, ReadCut
<1>3. sock[c] \in Seq(Items)
  <2>1. conn[c].at \in {"read", "loop"}
    BY <1>2 DEF At
  <2> QED
    BY <1>1, <2>1, IdleFacts DEF Idle, Lined
<1>4. CASE Read(c)
  <2>1. PICK n \in 1 .. Len(sock[c]) : GotBytes(c, Whole(sock[c], n), SubSeq(sock[c], n + 1, Len(sock[c])))
    BY <1>4 DEF Read
  <2>2. Split(sock[c], Whole(sock[c], n), SubSeq(sock[c], n + 1, Len(sock[c])), 0)
    BY <1>3, ReadSplits
  <2> QED
    BY <1>2, <2>1, <2>2, BytesOrder
<1>5. CASE ReadCut(c)
  <2>1. PICK n \in 0 .. Len(sock[c]) - 1, tail \in {"tail", "args"} :
           sock[c][n + 1].part = "all" /\ GotBytes(c, TakeCut(sock[c], n), LeaveCut(sock[c], n, tail))
    BY <1>5 DEF ReadCut
  <2>2. Split(sock[c], TakeCut(sock[c], n), LeaveCut(sock[c], n, tail), 1)
    BY <1>3, <2>1, CutSplits DEF Rest
  <2> QED
    BY <1>2, <2>1, <2>2, BytesOrder
<1> QED
  BY <1>4, <1>5 DEF ReadStep

\* The connection ends without an answer.
LEMMA EndOrder ==
    ASSUME OrderInv, IInv, NEW c \in Conns, NEW how \in {"closed", "panicked", "replica"},
           conn' = [conn EXCEPT ![c] = Ended(conn[c], how)], conn[c].at # "run" \/ conn[c].run # <<>>,
           sock' = sock, replies' = replies, dropped' = dropped, applied' = applied, log' = log
    PROVE  OrderInv'
<1> DEFINE k == conn[c]
           t == Ended(k, how)
<1>1. ConnInv /\ DOMAIN k = Fields /\ Mode(k)
  BY OldOrder
<1>2. PICK m \in Nat : Requested(k, sock[c], replies[c], dropped[c], Issued(c), InLog(c), m)
  BY OldOrder
<1>3. Others(c) /\ sock'[c] = sock[c] /\ replies'[c] = replies[c] /\ dropped'[c] = dropped[c]
  BY NothingMoves
<1>4. ~ Unlogged(k)
  BY DEF Unlogged
<1>5. conn' = [conn EXCEPT ![c] = t]
  OBVIOUS
<1> HIDE DEF k
<1>6. t.at = how /\ t.run = k.run /\ t.multi_queue = k.multi_queue /\ t.block_state = k.block_state /\ t.waits = k.waits
  BY <1>1, EndedFacts DEF Fields
<1> HIDE DEF t
<1>7. Mode(t)
  <2>1. t.at \notin {"loop"} /\ t.at \in {"read", "loop", "closed", "panicked", "replica"}
    BY <1>6
  <2>2. t.multi_queue \in Seq(Items)
    BY <1>1, <1>6 DEF Mode
  <2> QED
    BY <1>1, <1>6, <2>1, <2>2, ModeIdle DEF k
<1>8. Requested(t, sock[c], replies[c], dropped[c], Issued(c), InLog(c), m)
  BY <1>2, <1>4, <1>6, EndStep
<1> QED
  BY <1>1, <1>3, <1>5, <1>7, <1>8, QuietStep

\* What cannot be parsed, PSYNC, and the end of the socket.
LEMMA ParseOrder ==
    ASSUME OrderInv, IInv, NEW c \in Conns,
           NoArgs(c) \/ ProtocolError(c) \/ ClearBuffer(c) \/ HandlePsync(c) \/ Hangup(c)
    PROVE  OrderInv'
<1> DEFINE k == conn[c]
<1>1. ConnInv /\ DOMAIN k = Fields /\ Mode(k)
  BY OldOrder
<1>2. PICK m \in Nat : Requested(k, sock[c], replies[c], dropped[c], Issued(c), InLog(c), m)
  BY OldOrder
<1>3. applied' = applied /\ log' = log /\ sock' = sock
  BY DEF NoArgs, ProtocolError, ClearBuffer, HandlePsync, Hangup, serverVars
<1>4. k.multi_queue \in Seq(Items)
  BY <1>1 DEF Mode
<1>5. CASE NoArgs(c)
  <2> DEFINE t == [k EXCEPT !.at = "read"]
  <2>1. conn' = [conn EXCEPT ![c] = t] /\ replies' = replies /\ dropped' = dropped /\ k.at = "loop"
    BY <1>5 DEF NoArgs, Parsed, At
  <2>2. Others(c) /\ sock'[c] = sock[c] /\ replies'[c] = replies[c] /\ dropped'[c] = dropped[c]
    BY <1>3, <2>1, NothingMoves
  <2> HIDE DEF k
  <2>3. /\ t.at = "read" /\ t.buf = k.buf /\ t.sub_mode = k.sub_mode /\ t.run = k.run /\ t.multi_queue = k.multi_queue
        /\ t.block_state = k.block_state /\ t.waits = k.waits
    BY <1>1 DEF Fields
  <2> HIDE DEF t
  <2>4. Mode(t)
    BY <1>1, <1>4, <2>1, <2>3, ModeIdle
  <2>5. Requested(t, sock[c], replies[c], dropped[c], Issued(c), InLog(c), m)
    BY <1>2, <2>1, <2>3, NoArgsStep
  <2> QED
    BY <1>1, <1>3, <2>1, <2>2, <2>4, <2>5, QuietStep
<1>6. CASE HandlePsync(c) \/ Hangup(c)
  <2>1. /\ replies' = replies /\ dropped' = dropped /\ k.at # "run"
        /\ \E how \in {"closed", "replica"} : conn' = [conn EXCEPT ![c] = Ended(conn[c], how)]
    BY <1>6 DEF HandlePsync, Hangup, Command, Parsed, At
  <2> QED
    BY <1>3, <2>1, EndOrder
<1>7. CASE ProtocolError(c)
  <2> DEFINE t == Ended(k, "closed")
             id == Head(k.buf).id
  <2>1. conn' = [conn EXCEPT ![c] = t] /\ dropped' = dropped /\ k.at = "loop" /\ k.loop = "normal" /\ Reply(c, id, id, "normal")
    BY <1>7 DEF ProtocolError, Parsed, At
  <2>2. /\ Others(c) /\ sock'[c] = sock[c] /\ dropped'[c] = dropped[c]
        /\ replies'[c] = Append(replies[c], [req |-> id, of |-> id, via |-> "normal"])
    BY <1>3, <2>1, ReplyMoves
  <2>3. id = k.buf[1].id
    BY <1>2, <2>1, LoopHead
  <2> HIDE DEF k, id
  <2>4. t.at = "closed" /\ t.run = k.run /\ t.multi_queue = k.multi_queue /\ t.block_state = k.block_state /\ t.waits = k.waits
    BY <1>1, EndedFacts DEF Fields
  <2> HIDE DEF t
  <2>5. Mode(t)
    BY <1>1, <1>4, <2>1, <2>4, ModeIdle
  <2>6. /\ k.buf[1].id = m + 1
        /\ Requested(t, sock[c], Append(replies[c], [req |-> m + 1, of |-> m + 1, via |-> "normal"]), dropped[c],
                     Issued(c), InLog(c), m + 1)
    BY <1>2, <2>1, <2>4, ErrorStep
  <2>7. Requested(t, sock'[c], replies'[c], dropped'[c], Issued(c), InLog(c), m + 1)
    BY <2>2, <2>3, <2>6
  <2>8. m + 1 \in Nat
    OBVIOUS
  <2> QED
    BY <1>1, <1>3, <2>1, <2>2, <2>5, <2>7, <2>8, QuietStep
<1>8. CASE ClearBuffer(c)
  <2> DEFINE u == [k EXCEPT !.buf = <<>>]
             t == Looped(u)
  <2>1. /\ conn' = [conn EXCEPT ![c] = t] /\ replies' = replies /\ k.at = "loop" /\ k.loop = "sub"
        /\ dropped' = [dropped EXCEPT ![c] = @ \cup Ids(k.buf)]
    BY <1>8 DEF ClearBuffer, Parsed, At
  <2>2. /\ Others(c) /\ sock'[c] = sock[c] /\ replies'[c] = replies[c]
        /\ dropped'[c] = dropped[c] \cup Ids(k.buf)
    BY <1>3, <2>1 DEF Others, OrderInv
  <2>3. k.sub_mode
    BY <1>1, <2>1 DEF Mode
  <2> HIDE DEF k
  <2>4. DOMAIN u = Fields /\ u.buf = <<>> /\ \A f \in Fields \ {"buf"} : u[f] = k[f]
    BY <1>1 DEF Fields
  <2>5. t.at = "read" /\ \A f \in Fields \ {"at"} : t[f] = u[f]
    <3> HIDE DEF u
    <3> QED
      BY <2>4 DEF Looped, Fields
  <2> HIDE DEF t, u
  <2>6. /\ t.at = "read" /\ t.buf = <<>> /\ t.sub_mode = k.sub_mode /\ t.run = k.run /\ t.multi_queue = k.multi_queue
        /\ t.block_state = k.block_state /\ t.waits = k.waits
    BY <2>4, <2>5 DEF Fields
  <2>7. Mode(t)
    BY <1>1, <1>4, <2>1, <2>6, ModeIdle
  <2>8. \E n \in Nat : Requested(t, sock[c], replies[c], dropped[c] \cup Ids(k.buf), Issued(c), InLog(c), n)
    BY <1>2, <2>1, <2>3, <2>6, ClearStep
  <2> QED
    BY <1>1, <1>3, <2>1, <2>2, <2>7, <2>8, QuietStep
<1> QED
  BY <1>5, <1>6, <1>7, <1>8

\* Where the loop goes on with the rest of the buffer.
LEMMA AdvanceOn ==
    ASSUME NEW k, DOMAIN k = Fields
    PROVE  Advance(k).buf = Tail(k.buf) /\ (Advance(k).at = "loop" => Advance(k).buf # <<>>)
BY DEF Advance, Looped, Fields

\* AUTH, HELLO, a refusal, and a command that is queued: answered at once.
LEMMA AnswerOrder ==
    ASSUME OrderInv, IInv, NEW c \in Conns, HandleAuth(c) \/ NoAuth(c) \/ QueueCommand(c)
    PROVE  OrderInv'
<1> DEFINE k == conn[c]
           x == Head(k.buf)
           u == Advance(k)
           ta == [u EXCEPT !.authenticated = AuthResult(k, Item(c).op)]
           tq == [u EXCEPT !.multi_queue = Append(k.multi_queue, x)]
<1>1. ConnInv /\ DOMAIN k = Fields /\ Mode(k)
  BY OldOrder
<1>2. PICK m \in Nat : Requested(k, sock[c], replies[c], dropped[c], Issued(c), InLog(c), m)
  BY OldOrder
<1>3. /\ applied' = applied /\ log' = log /\ sock' = sock /\ dropped' = dropped /\ Reply(c, x.id, x.id, "normal")
      /\ k.at = "loop" /\ k.loop = "normal" /\ parse_command(x) = "ok"
  BY DEF HandleAuth, NoAuth, QueueCommand, serverVars, Command, Parsed, At, Item
<1>4. \E t \in {ta, u, tq} : conn' = [conn EXCEPT ![c] = t]
  <2>1. CASE HandleAuth(c)
    BY <2>1 DEF HandleAuth
  <2>2. CASE NoAuth(c)
    BY <2>2 DEF NoAuth
  <2>3. CASE QueueCommand(c)
    BY <2>3 DEF QueueCommand, Item
  <2> QED
    BY <2>1, <2>2, <2>3
<1>5. /\ Others(c) /\ sock'[c] = sock[c] /\ dropped'[c] = dropped[c]
      /\ replies'[c] = Append(replies[c], [req |-> x.id, of |-> x.id, via |-> "normal"])
  BY <1>3, ReplyMoves
<1>6. x = k.buf[1] /\ x \in Items /\ k.buf[1].part = "all"
  BY <1>2, <1>3, LoopHead
<1>7. k.multi_queue \in Seq(Items) /\ Append(k.multi_queue, x) \in Seq(Items)
  <2>1. k.multi_queue \in Seq(Items)
    BY <1>1 DEF Mode
  <2> HIDE DEF k, x
  <2> QED
    BY <1>6, <2>1
<1> HIDE DEF k, x
<1>8. /\ DOMAIN u = Fields /\ u.at \in {"read", "loop"} /\ \A f \in Fields \ {"at", "buf"} : u[f] = k[f]
      /\ u.buf = Tail(k.buf) /\ (u.at = "loop" => u.buf # <<>>)
  BY <1>1, AdvanceFacts, AdvanceOn
<1> HIDE DEF u
<1>9. /\ \A f \in Fields \ {"authenticated"} : ta[f] = u[f]
      /\ tq.multi_queue = Append(k.multi_queue, x) /\ \A f \in Fields \ {"multi_queue"} : tq[f] = u[f]
  BY <1>8 DEF Fields
<1> HIDE DEF ta, tq
<1>10. PICK t \in {ta, u, tq} : conn' = [conn EXCEPT ![c] = t]
  BY <1>4
<1>11. /\ \A f \in Fields \ {"authenticated", "multi_queue"} : t[f] = u[f]
       /\ t.multi_queue \in {k.multi_queue, Append(k.multi_queue, x)}
  BY <1>8, <1>9, <1>10 DEF Fields
<1>12. /\ t.at \in {"read", "loop"} /\ t.buf = Tail(k.buf) /\ (t.at = "loop" => t.buf # <<>>)
       /\ t.loop = k.loop /\ t.run = k.run /\ t.block_state = k.block_state /\ t.waits = k.waits
       /\ t.multi_queue \in Seq(Items)
  BY <1>7, <1>8, <1>11 DEF Fields
<1>13. Mode(t)
  BY <1>1, <1>3, <1>12, ModeIdle
<1>14. /\ k.buf[1].id = m + 1
       /\ Requested(t, sock[c], Append(replies[c], [req |-> m + 1, of |-> m + 1, via |-> "normal"]), dropped[c],
                    Issued(c), InLog(c), m + 1)
  BY <1>2, <1>3, <1>6, <1>12, AnswerStep
<1>15. Requested(t, sock'[c], replies'[c], dropped'[c], Issued(c), InLog(c), m + 1) /\ m + 1 \in Nat
  BY <1>5, <1>6, <1>14
<1> QED
  BY <1>1, <1>3, <1>5, <1>10, <1>13, <1>15, QuietStep

\* A command is dispatched.
LEMMA BeginOrder == ASSUME OrderInv, IInv, NEW c \in Conns, Begin(c) \/ SubBegin(c) PROVE OrderInv'
<1> DEFINE k == conn[c]
           x == Head(k.buf)
           u == Advance(k)
           t == [u EXCEPT !.at = "run", !.cur = x, !.run = <<x>>, !.via = k.loop]
<1>1. ConnInv /\ DOMAIN k = Fields /\ Mode(k)
  BY OldOrder
<1>2. PICK m \in Nat : Requested(k, sock[c], replies[c], dropped[c], Issued(c), InLog(c), m)
  BY OldOrder
<1>3. /\ applied' = applied /\ log' = log /\ sock' = sock /\ dropped' = dropped /\ replies' = replies
      /\ k.at = "loop" /\ k.loop \in {"normal", "sub"} /\ parse_command(x) = "ok" /\ conn' = [conn EXCEPT ![c] = t]
  <2>1. CASE Begin(c)
    BY <2>1 DEF Begin, serverVars, Command, Parsed, At, Dispatching
  <2>2. CASE SubBegin(c)
    BY <2>2 DEF SubBegin, serverVars, Command, Parsed, At, Dispatching
  <2> QED
    BY <2>1, <2>2
<1>4. Others(c) /\ sock'[c] = sock[c] /\ replies'[c] = replies[c] /\ dropped'[c] = dropped[c]
  BY <1>3, NothingMoves
<1>5. x = k.buf[1] /\ x \in Items /\ k.buf[1].part = "all"
  BY <1>2, <1>3, LoopHead
<1> HIDE DEF k, x
<1>6. DOMAIN u = Fields /\ u.buf = Tail(k.buf) /\ \A f \in Fields \ {"at", "buf"} : u[f] = k[f]
  BY <1>1, AdvanceFacts, AdvanceOn
<1> HIDE DEF u
<1>7. /\ t.at = "run" /\ t.cur = x /\ t.run = <<x>> /\ t.via = k.loop /\ t.loop = k.loop /\ t.buf = Tail(k.buf)
      /\ t.sub_mode = k.sub_mode /\ t.multi_queue = k.multi_queue /\ t.block_state = k.block_state /\ t.waits = k.waits
  BY <1>6 DEF Fields
<1> HIDE DEF t
<1>8. Mode(t)
  BY <1>1, <1>3, <1>5, <1>7, ModeBegin
<1>9. t.run # <<>>
  BY <1>7, OneItem
<1>10. Requested(t, sock[c], replies[c], dropped[c], Issued(c), InLog(c), m + 1) /\ m + 1 \in Nat
  <2>1. t.cur = k.buf[1]
    BY <1>5, <1>7
  <2>2. Requested(t, sock[c], replies[c], dropped[c], Issued(c), InLog(c), m + 1)
    BY <1>2, <1>3, <1>5, <1>7, <1>9, <2>1, BeginStep
  <2> QED
    BY <2>2
<1> QED
  BY <1>1, <1>3, <1>4, <1>8, <1>10, QuietStep

-----------------------------------------------------------------------------
(* The order of answers: handlers, and what follows them.                    *)

\* A handler has done its part, and has not written.
LEMMA RanOrder ==
    ASSUME OrderInv, IInv, NEW c \in Conns, NEW t, conn' = [conn EXCEPT ![c] = t], Busy(conn[c]), conn[c].run # <<>>,
           Head(conn[c].run).op # "set", RanTo(conn[c], t),
           sock' = sock, replies' = replies, dropped' = dropped, applied' = applied, log' = log
    PROVE  OrderInv'
<1> DEFINE k == conn[c]
<1>1. ConnInv /\ DOMAIN k = Fields /\ Mode(k)
  BY OldOrder
<1>2. PICK m \in Nat : Requested(k, sock[c], replies[c], dropped[c], Issued(c), InLog(c), m)
  BY OldOrder
<1>3. Others(c) /\ sock'[c] = sock[c] /\ replies'[c] = replies[c] /\ dropped'[c] = dropped[c]
  BY NothingMoves
<1>4. Mode(t) /\ Busy(t) /\ (t.via # "exec" => t.run = <<>> /\ Head(k.run) = k.cur)
  BY <1>1, ModeRan
<1>5. t.buf = k.buf /\ t.cur = k.cur /\ t.via = k.via
  BY DEF RanTo
<1>6. ~ Unlogged(k) /\ ~ Unlogged(t)
  BY <1>4, <1>5 DEF Unlogged
<1>7. t.via = "normal" /\ t.run # <<>> => k.via = "normal" /\ k.run # <<>>
  BY <1>5
<1>8. Busy(k)
  OBVIOUS
<1> HIDE DEF k
<1>9. Requested(t, sock[c], replies[c], dropped[c], Issued(c), InLog(c), m)
  BY <1>2, <1>4, <1>5, <1>6, <1>7, <1>8, HandlerStep
<1> QED
  BY <1>1, <1>3, <1>4, <1>9, QuietStep

\* A handler that is not done.
LEMMA StaysOrder ==
    ASSUME OrderInv, IInv, NEW c \in Conns, NEW t, conn' = [conn EXCEPT ![c] = t], Busy(conn[c]), conn[c].run # <<>>,
           \A f \in Fields \ {"at", "dead", "stale"} : t[f] = conn[c][f],
           \/ t.at \in {"prune", "patterns"} /\ Head(conn[c].run).op = "publish"
           \/ t.at = "script" /\ Head(conn[c].run).op \in {"eval", "evalsha"},
           sock' = sock, replies' = replies, dropped' = dropped, applied' = applied, log' = log
    PROVE  OrderInv'
<1> DEFINE k == conn[c]
<1>1. ConnInv /\ DOMAIN k = Fields /\ Mode(k)
  BY OldOrder
<1>2. PICK m \in Nat : Requested(k, sock[c], replies[c], dropped[c], Issued(c), InLog(c), m)
  BY OldOrder
<1>3. Others(c) /\ sock'[c] = sock[c] /\ replies'[c] = replies[c] /\ dropped'[c] = dropped[c]
  BY NothingMoves
<1>4. /\ Busy(k) /\ k.run # <<>>
      /\ \/ t.at \in {"prune", "patterns"} /\ Head(k.run).op = "publish"
         \/ t.at = "script" /\ Head(k.run).op \in {"eval", "evalsha"}
  OBVIOUS
<1>5. /\ t.run = k.run /\ t.cur = k.cur /\ t.via = k.via /\ t.loop = k.loop /\ t.waits = k.waits /\ t.buf = k.buf
      /\ t.multi_queue = k.multi_queue /\ t.block_state = k.block_state /\ t.sub_mode = k.sub_mode
  BY DEF Fields
<1> HIDE DEF k
<1>6. Mode(t) /\ Busy(t)
  BY <1>1, <1>4, <1>5, ModeStays
<1>7. ~ Unlogged(k) /\ ~ Unlogged(t)
  BY <1>4, <1>5 DEF Unlogged
<1>8. Requested(t, sock[c], replies[c], dropped[c], Issued(c), InLog(c), m)
  BY <1>2, <1>4, <1>5, <1>6, <1>7, HandlerStep
<1> QED
  BY <1>1, <1>3, <1>6, <1>8, QuietStep

\* Which fields a handler may change besides.
LEMMA RanToFields ==
    ASSUME NEW k, NEW t, t.at = "run", t.run = Tail(k.run),
           \A f \in Fields \ {"at", "run", "authenticated", "sub_mode", "subscribed_channels", "subscribed_patterns",
                              "rx", "made", "multi_mode", "dead"} : t[f] = k[f]
    PROVE  RanTo(k, t)
BY DEF RanTo, Fields

LEMMA RunningFacts ==
    ASSUME NEW c, NEW ops, Running(c, ops)
    PROVE  Busy(conn[c]) /\ conn[c].at = "run" /\ conn[c].run # <<>> /\ Head(conn[c].run).op \in ops
BY DEF Running, At, Busy

\* MULTI, DISCARD and EXEC.
LEMMA TransactionOrder == ASSUME OrderInv, IInv, NEW c \in Conns, RunTransaction(c) PROVE OrderInv'
<1> DEFINE k == conn[c]
           op == Head(k.run).op
           t == Transacted(k, op)
<1>1. /\ Running(c, {"multi", "discard", "exec"}) /\ conn' = [conn EXCEPT ![c] = t] /\ applied' = applied /\ log' = log
      /\ sock' = sock /\ replies' = replies /\ dropped' = dropped
  BY DEF RunTransaction, serverVars
<1>2. ConnInv /\ DOMAIN k = Fields /\ Mode(k)
  BY OldOrder
<1>3. Busy(k) /\ k.at = "run" /\ k.run # <<>> /\ op \in {"multi", "discard", "exec"}
  BY <1>1, RunningFacts
<1>4. CASE op = "exec" /\ k.multi_mode
  <2> DEFINE w == [k EXCEPT !.multi_mode = FALSE, !.multi_queue = <<>>, !.run = k.multi_queue, !.via = "exec"]
  <2>1. t = w
    BY <1>4 DEF Transacted
  <2>2. PICK m \in Nat : Requested(k, sock[c], replies[c], dropped[c], Issued(c), InLog(c), m)
    BY OldOrder
  <2>3. Others(c) /\ sock'[c] = sock[c] /\ replies'[c] = replies[c] /\ dropped'[c] = dropped[c]
    BY <1>1, NothingMoves
  <2>4. conn' = [conn EXCEPT ![c] = w]
    BY <1>1, <2>1
  <2>5. Head(k.run).op = "exec"
    BY <1>4
  <2> HIDE DEF k, op
  <2>6. /\ w.at = k.at /\ w.run = k.multi_queue /\ w.multi_queue = <<>> /\ w.via = "exec" /\ w.cur = k.cur
        /\ w.loop = k.loop /\ w.sub_mode = k.sub_mode /\ w.block_state = k.block_state /\ w.waits = k.waits
        /\ w.buf = k.buf
    BY <1>2 DEF Fields
  <2> HIDE DEF w
  <2>7. Mode(w)
    BY <1>2, <1>3, <2>5, <2>6, ModeExec
  <2>8. Busy(w) /\ ~ Unlogged(k) /\ ~ Unlogged(w)
    BY <1>3, <2>6 DEF Busy, Unlogged
  <2>9. w.via # "normal"
    BY <2>6
  <2>10. Requested(w, sock[c], replies[c], dropped[c], Issued(c), InLog(c), m)
    BY <1>3, <2>2, <2>6, <2>8, <2>9, HandlerStep
  <2> QED
    BY <1>1, <1>2, <2>3, <2>4, <2>7, <2>10, QuietStep
<1>5. CASE ~ (op = "exec" /\ k.multi_mode)
  <2> DEFINE u == Ran(k)
             w == [u EXCEPT !.multi_mode = TRUE, !.multi_queue = <<>>]
             v == [u EXCEPT !.multi_mode = FALSE, !.multi_queue = <<>>]
  <2>1. t \in {u, v, w}
    BY <1>3, <1>5 DEF Transacted
  <2> HIDE DEF k, op, t
  <2>2. DOMAIN u = Fields /\ u.run = Tail(k.run) /\ \A f \in Fields \ {"run"} : u[f] = k[f]
    BY <1>2, RanFacts
  <2> HIDE DEF u
  <2>3. /\ w.multi_queue = <<>> /\ \A f \in Fields \ {"multi_mode", "multi_queue"} : w[f] = u[f]
        /\ v.multi_queue = <<>> /\ \A f \in Fields \ {"multi_mode", "multi_queue"} : v[f] = u[f]
    BY <2>2 DEF Fields
  <2> HIDE DEF v, w
  <2>4. t.multi_queue \in {k.multi_queue, <<>>} /\ \A f \in Fields \ {"multi_mode", "multi_queue"} : t[f] = u[f]
    BY <2>1, <2>2, <2>3 DEF Fields
  <2>5. RanTo(k, t)
    BY <1>3, <2>2, <2>4 DEF RanTo, Fields
  <2>6. op # "set"
    BY <1>3
  <2> QED
    BY <1>1, <1>3, <2>5, <2>6, RanOrder DEF k, op
<1> QED
  BY <1>4, <1>5

\* BLPOP.
LEMMA BlpopOrder == ASSUME OrderInv, IInv, NEW c \in Conns, RunBlpop(c) PROVE OrderInv'
<1> DEFINE k == conn[c]
           u == Ran(k)
           b == [of |-> Head(k.run).id, via |-> IF k.sub_mode THEN "sub" ELSE k.via]
           v == [u EXCEPT !.block_state = b]
<1>1. /\ Running(c, {"blpop"}) /\ applied' = applied /\ log' = log
      /\ sock' = sock /\ replies' = replies /\ dropped' = dropped
      /\ (conn' = [conn EXCEPT ![c] = u] \/ conn' = [conn EXCEPT ![c] = v])
  BY DEF RunBlpop, serverVars, Blocking
<1>2. DOMAIN k = Fields
  BY OldOrder
<1>3. Busy(k) /\ k.at = "run" /\ k.run # <<>> /\ Head(k.run).op \in {"blpop"}
  BY <1>1, RunningFacts
<1>4. b = [of |-> Head(k.run).id, via |-> IF k.sub_mode THEN "sub" ELSE k.via]
  OBVIOUS
<1> HIDE DEF k, b
<1>5. DOMAIN u = Fields /\ u.run = Tail(k.run) /\ \A f \in Fields \ {"run"} : u[f] = k[f]
  BY <1>2, RanFacts
<1> HIDE DEF u
<1>6. v.block_state = b /\ \A f \in Fields \ {"block_state"} : v[f] = u[f]
  BY <1>5 DEF Fields
<1> HIDE DEF v
<1>7. RanTo(k, u)
  BY <1>3, <1>5, RanToFields DEF Fields
<1>8. RanTo(k, v)
  BY <1>3, <1>4, <1>5, <1>6 DEF RanTo, Fields
<1>9. Head(k.run).op # "set"
  BY <1>3
<1> QED
  BY <1>1, <1>3, <1>7, <1>8, <1>9, RanOrder DEF k

\* A command that only answers, and one that panics.
LEMMA OtherOrder == ASSUME OrderInv, IInv, NEW c \in Conns, RunOther(c) \/ RunShort(c) PROVE OrderInv'
<1> DEFINE k == conn[c]
           t == Ran(k)
<1>1. /\ applied' = applied /\ log' = log /\ sock' = sock /\ replies' = replies /\ dropped' = dropped
  BY DEF RunOther, RunShort, serverVars
<1>2. CASE RunOther(c)
  <2>1. conn' = [conn EXCEPT ![c] = t]
    BY <1>2 DEF RunOther
  <2>2. Busy(k) /\ k.at = "run" /\ k.run # <<>> /\ Head(k.run).op \in AuthOps \cup {"ping", "psync"}
    BY <1>2, RunningFacts DEF RunOther
  <2>3. Head(k.run).op # "set"
    BY <2>2 DEF AuthOps
  <2>4. DOMAIN k = Fields
    BY OldOrder
  <2> HIDE DEF k
  <2>5. t.run = Tail(k.run) /\ \A f \in Fields \ {"run"} : t[f] = k[f]
    BY <2>4, RanFacts
  <2> HIDE DEF t
  <2>6. RanTo(k, t)
    BY <2>2, <2>5, RanToFields DEF Fields
  <2> QED
    BY <1>1, <2>1, <2>2, <2>3, <2>6, RanOrder DEF k
<1>3. CASE RunShort(c)
  <2>1. k.run # <<>> /\ conn' = [conn EXCEPT ![c] = Ended(conn[c], "panicked")]
    BY <1>3 DEF RunShort, Running
  <2> QED
    BY <1>1, <2>1, EndOrder
<1> QED
  BY <1>2, <1>3

\* SUBSCRIBE, PSUBSCRIBE and the way back.
LEMMA SubscribeOrder ==
    ASSUME OrderInv, IInv, NEW c \in Conns, RunSubscribe(c) \/ RunPsubscribe(c) \/ RunUnsubscribe(c)
    PROVE  OrderInv'
<1> DEFINE k == conn[c]
           u == Ran(k)
           Touched == {"sub_mode", "subscribed_channels", "subscribed_patterns", "rx", "made"}
<1>1. /\ applied' = applied /\ log' = log /\ sock' = sock /\ replies' = replies /\ dropped' = dropped
      /\ Running(c, {"subscribe", "psubscribe", "unsubscribe", "punsubscribe"})
  BY DEF RunSubscribe, RunPsubscribe, RunUnsubscribe, serverVars, Running
<1>2. DOMAIN k = Fields
  BY OldOrder
<1>3. DOMAIN u = Fields /\ u.run = Tail(k.run) /\ \A f \in Fields \ {"run"} : u[f] = k[f]
  BY <1>2, RanFacts
<1>4. \E t : conn' = [conn EXCEPT ![c] = t] /\ \A f \in Fields \ Touched : t[f] = u[f]
  <2>1. CASE RunSubscribe(c)
    <3> DEFINE v == [u EXCEPT !.made = @ + Len(Names(c)), !.sub_mode = TRUE,
                              !.rx = [n |-> k.made + Len(Names(c)), kind |-> "channel", name |-> Last(Names(c))]]
               t == [v EXCEPT !.subscribed_channels = k.subscribed_channels \o Names(c)]
    <3>1. conn' = [conn EXCEPT ![c] = t]
      BY <2>1 DEF RunSubscribe, WithReceiver
    <3> HIDE DEF k, u
    <3>2. DOMAIN v = Fields /\ \A f \in Fields \ Touched : v[f] = u[f]
      BY <1>3 DEF Fields
    <3> HIDE DEF v
    <3>3. \A f \in Fields \ Touched : t[f] = u[f]
      BY <3>2 DEF Fields
    <3> QED
      BY <3>1, <3>3
  <2>2. CASE RunPsubscribe(c)
    <3> DEFINE v == [u EXCEPT !.made = @ + Len(Names(c)), !.sub_mode = TRUE,
                              !.rx = [n |-> k.made + Len(Names(c)), kind |-> "pattern", name |-> Last(Names(c))]]
               t == [v EXCEPT !.subscribed_patterns = k.subscribed_patterns \o Names(c)]
    <3>1. conn' = [conn EXCEPT ![c] = t]
      BY <2>2 DEF RunPsubscribe, WithReceiver
    <3> HIDE DEF k, u
    <3>2. DOMAIN v = Fields /\ \A f \in Fields \ Touched : v[f] = u[f]
      BY <1>3 DEF Fields
    <3> HIDE DEF v
    <3>3. \A f \in Fields \ Touched : t[f] = u[f]
      BY <3>2 DEF Fields
    <3> QED
      BY <3>1, <3>3
  <2>3. CASE RunUnsubscribe(c)
    <3> DEFINE v == IF Head(k.run).op = "unsubscribe"
                    THEN [u EXCEPT !.subscribed_channels = Left(k.subscribed_channels, Names(c))]
                    ELSE [u EXCEPT !.subscribed_patterns = Left(k.subscribed_patterns, Names(c))]
               t == Unsubscribed(v, Names(c))
    <3>1. conn' = [conn EXCEPT ![c] = t]
      BY <2>3 DEF RunUnsubscribe
    <3> HIDE DEF k, u
    <3>2. DOMAIN v = Fields /\ \A f \in Fields \ Touched : v[f] = u[f]
      BY <1>3 DEF Fields
    <3> HIDE DEF v
    <3>3. \A f \in Fields \ Touched : t[f] = u[f]
      BY <3>2 DEF Fields, Unsubscribed
    <3> QED
      BY <3>1, <3>3
  <2> QED
    BY <2>1, <2>2, <2>3
<1>5. PICK t : conn' = [conn EXCEPT ![c] = t] /\ \A f \in Fields \ Touched : t[f] = u[f]
  BY <1>4
<1>6. /\ Busy(k) /\ k.at = "run" /\ k.run # <<>>
      /\ Head(k.run).op \in {"subscribe", "psubscribe", "unsubscribe", "punsubscribe"}
  BY <1>1, RunningFacts
<1>7. Head(k.run).op # "set"
  BY <1>6
<1> HIDE DEF k, u
<1>8. RanTo(k, t)
  <2>1. t.at = "run" /\ t.run = Tail(k.run)
    BY <1>3, <1>5, <1>6 DEF Fields
  <2>2. /\ t.cur = k.cur /\ t.via = k.via /\ t.loop = k.loop /\ t.buf = k.buf /\ t.waits = k.waits
        /\ t.multi_queue = k.multi_queue /\ t.block_state = k.block_state
    BY <1>3, <1>5 DEF Fields
  <2> QED
    BY <2>1, <2>2 DEF RanTo
<1> QED
  BY <1>1, <1>5, <1>6, <1>7, <1>8, RanOrder DEF k

\* A connection that only learns that its indices are out of date.
LEMMA StaleOrder ==
    ASSUME NEW k, NEW t, \A f \in Fields \ {"stale"} : t[f] = k[f], Mode(k)
    PROVE  /\ Mode(t)
           /\ \A s, r, d, mk, lg, m : Requested(k, s, r, d, mk, lg, m) => Requested(t, s, r, d, mk, lg, m)
<1>1. /\ t.at = k.at /\ t.buf = k.buf /\ t.loop = k.loop /\ t.sub_mode = k.sub_mode /\ t.run = k.run /\ t.via = k.via
      /\ t.cur = k.cur /\ t.block_state = k.block_state /\ t.waits = k.waits /\ t.multi_queue = k.multi_queue
  BY DEF Fields
<1>2. Mode(t)
  BY <1>1 DEF Mode, Busy
<1>3. (Busy(t) <=> Busy(k)) /\ (Ongoing(t) <=> Ongoing(k)) /\ (Unlogged(t) <=> Unlogged(k))
  BY <1>1 DEF Busy, Ongoing, Unlogged
<1>4. ASSUME NEW s, NEW r, NEW d, NEW mk, NEW lg, NEW m, Requested(k, s, r, d, mk, lg, m)
      PROVE  Requested(t, s, r, d, mk, lg, m)
  <2>1. Lined(k, s, m) => Lined(t, s, m)
    BY <1>1, ZenonT(60) DEF Lined, Behind, Base, Open
  <2>2. Counted(k, s, r, d, m) => Counted(t, s, r, d, m)
    BY <1>1, <1>3 DEF Counted, Behind
  <2>3. LogPart(k, mk, lg, m) => LogPart(t, mk, lg, m)
    BY <1>1, <1>3 DEF LogPart
  <2> QED
    BY <1>3, <1>4, <2>1, <2>2, <2>3 DEF Requested
<1> QED
  BY <1>2, <1>4

\* publish_channel under the write lock: the others that noted indices are told.
LEMMA RemoveOrder == ASSUME OrderInv, IInv, NEW c \in Conns, PublishRemove(c) PROVE OrderInv'
<1> DEFINE k == conn[c]
           t == [k EXCEPT !.at = "patterns"]
           w == [conn EXCEPT ![c] = t]
<1>1. /\ applied' = applied /\ log' = log /\ sock' = sock /\ replies' = replies /\ dropped' = dropped /\ k.at = "prune"
      /\ conn' = [o \in Conns |-> IF o = c THEN [conn[o] EXCEPT !.at = "patterns"]
                                  ELSE IF o \in Overlapping(c) THEN [conn[o] EXCEPT !.stale = TRUE] ELSE conn[o]]
  BY DEF PublishRemove, At
<1>2. ConnInv /\ DOMAIN k = Fields /\ Mode(k)
  BY OldOrder
<1>3. PICK m \in Nat : Requested(k, sock[c], replies[c], dropped[c], Issued(c), InLog(c), m)
  BY OldOrder
<1>4. Mode(conn'[c]) /\ ReqInv(c)'
  <2>1. conn'[c] = t
    BY <1>1
  <2>2. Busy(k) /\ k.run # <<>> /\ Head(k.run).op = "publish"
    BY <1>1, <1>2 DEF Busy, Mode
  <2> HIDE DEF k
  <2>3. t.at = "patterns" /\ \A f \in Fields \ {"at"} : t[f] = k[f]
    BY <1>2 DEF Fields
  <2> HIDE DEF t
  <2>4. /\ t.run = k.run /\ t.cur = k.cur /\ t.via = k.via /\ t.loop = k.loop /\ t.waits = k.waits /\ t.buf = k.buf
        /\ t.multi_queue = k.multi_queue /\ t.block_state = k.block_state /\ t.sub_mode = k.sub_mode
    BY <2>3 DEF Fields
  <2>5. Mode(t) /\ Busy(t)
    BY <1>2, <2>2, <2>3, <2>4, ModeStays
  <2>6. ~ Unlogged(k) /\ ~ Unlogged(t)
    BY <1>1, <2>2, <2>3, <2>4 DEF Unlogged
  <2>7. Requested(t, sock[c], replies[c], dropped[c], Issued(c), InLog(c), m)
    BY <1>3, <2>2, <2>4, <2>5, <2>6, HandlerStep
  <2>8. Issued(c)' = Issued(c) /\ InLog(c)' = InLog(c)
    BY <1>1 DEF Issued, InLog, Plain, Of
  <2> QED
    BY <1>1, <2>1, <2>5, <2>7, <2>8 DEF ReqInv
<1>5. ASSUME NEW o \in Conns \ {c} PROVE Mode(conn'[o]) /\ ReqInv(o)'
  <2> DEFINE h == conn[o]
  <2>1. DOMAIN h = Fields /\ Mode(h)
    BY OldOrder
  <2>2. PICK q \in Nat : Requested(h, sock[o], replies[o], dropped[o], Issued(o), InLog(o), q)
    BY OldOrder
  <2>3. conn'[o] = h \/ conn'[o] = [h EXCEPT !.stale = TRUE]
    BY <1>1
  <2> HIDE DEF h
  <2>4. \A f \in Fields \ {"stale"} : conn'[o][f] = h[f]
    BY <2>1, <2>3 DEF Fields
  <2>5. Mode(conn'[o]) /\ Requested(conn'[o], sock[o], replies[o], dropped[o], Issued(o), InLog(o), q)
    BY <2>1, <2>2, <2>4, StaleOrder
  <2>6. Issued(o)' = Issued(o) /\ InLog(o)' = InLog(o)
    BY <1>1 DEF Issued, InLog, Plain, Of
  <2> QED
    BY <1>1, <2>5, <2>6 DEF ReqInv
<1>6. HistoryInv'
  BY <1>1 DEF OrderInv, HistoryInv, Plain, Of
<1> QED
  BY <1>1, <1>4, <1>5, <1>6 DEF OrderInv

\* The other steps of PUBLISH.
LEMMA PublishOrder ==
    ASSUME OrderInv, IInv, NEW c \in Conns, PublishSend(c) \/ PublishPanic(c) \/ PublishPatterns(c)
    PROVE  OrderInv'
<1> DEFINE k == conn[c]
<1>1. ConnInv /\ DOMAIN k = Fields /\ Mode(k)
  BY OldOrder
<1>2. applied' = applied /\ log' = log /\ sock' = sock /\ replies' = replies /\ dropped' = dropped
  BY DEF PublishSend, PublishPanic, PublishPatterns, serverVars
<1>3. CASE PublishSend(c)
  <2> DEFINE d == Dead(PublishedOn(k), Alive)
             t == [k EXCEPT !.at = IF d = {} THEN "patterns" ELSE "prune", !.dead = d, !.stale = FALSE]
  <2>1. conn' = [conn EXCEPT ![c] = t]
    BY <1>1, <1>3 DEF PublishSend, ConnInv
  <2>2. Busy(k) /\ k.run # <<>> /\ Head(k.run).op \in {"publish"}
    BY <1>3, RunningFacts DEF PublishSend
  <2> HIDE DEF k, d
  <2>3. t.at \in {"prune", "patterns"} /\ \A f \in Fields \ {"at", "dead", "stale"} : t[f] = k[f]
    BY <1>1 DEF Fields
  <2> HIDE DEF t
  <2> QED
    BY <1>2, <2>1, <2>2, <2>3, StaysOrder DEF k
<1>4. CASE PublishPanic(c)
  <2>1. k.at = "prune" /\ conn' = [conn EXCEPT ![c] = Ended(conn[c], "panicked")]
    BY <1>4 DEF PublishPanic, At
  <2> QED
    BY <1>2, <2>1, EndOrder
<1>5. CASE PublishPatterns(c)
  <2> DEFINE u == Ran(k)
             t == [u EXCEPT !.at = "run", !.dead = {}]
  <2>1. conn' = [conn EXCEPT ![c] = t] /\ k.at = "patterns"
    BY <1>5 DEF PublishPatterns, At
  <2>2. Busy(k) /\ k.run # <<>> /\ Head(k.run).op # "set"
    BY <1>1, <2>1 DEF Busy, Mode
  <2> HIDE DEF k
  <2>3. DOMAIN u = Fields /\ u.run = Tail(k.run) /\ \A f \in Fields \ {"run"} : u[f] = k[f]
    BY <1>1, RanFacts
  <2> HIDE DEF u
  <2>4. t.at = "run" /\ t.run = Tail(k.run) /\ \A f \in Fields \ {"at", "run", "dead"} : t[f] = k[f]
    BY <2>3 DEF Fields
  <2> HIDE DEF t
  <2>5. RanTo(k, t)
    BY <2>4, RanToFields DEF Fields
  <2> QED
    BY <1>2, <2>1, <2>2, <2>5, RanOrder DEF k
<1> QED
  BY <1>3, <1>4, <1>5

\* SCRIPT LOAD, SCRIPT FLUSH, EVAL and EVALSHA.
LEMMA ScriptOrder == ASSUME OrderInv, IInv, NEW c \in Conns, RunScript(c) \/ RunEval(c) \/ RunEvalsha(c) PROVE OrderInv'
<1> DEFINE k == conn[c]
           u == Ran(k)
           t == [k EXCEPT !.at = "script"]
<1>1. ConnInv /\ DOMAIN k = Fields /\ Mode(k)
  BY OldOrder
<1>2. applied' = applied /\ log' = log /\ sock' = sock /\ replies' = replies /\ dropped' = dropped
  BY DEF RunScript, RunEval, RunEvalsha, serverVars
<1>3. /\ Running(c, {"scriptload", "scriptflush", "eval", "evalsha"})
      /\ conn' = [conn EXCEPT ![c] = u] \/ (conn' = [conn EXCEPT ![c] = t] /\ Head(k.run).op \in {"eval", "evalsha"})
  <2>1. CASE RunScript(c)
    BY <2>1 DEF RunScript, Running
  <2>2. CASE RunEval(c)
    BY <1>1, <2>2 DEF RunEval, ConnInv, Running
  <2>3. CASE RunEvalsha(c)
    BY <1>1, <2>3 DEF RunEvalsha, ConnInv, Running
  <2> QED
    BY <2>1, <2>2, <2>3
<1>4. /\ Busy(k) /\ k.at = "run" /\ k.run # <<>>
      /\ Head(k.run).op \in {"scriptload", "scriptflush", "eval", "evalsha"}
  BY <1>3, RunningFacts
<1>5. Head(k.run).op # "set"
  BY <1>4
<1> HIDE DEF k
<1>6. u.run = Tail(k.run) /\ \A f \in Fields \ {"run"} : u[f] = k[f]
  BY <1>1, RanFacts
<1>7. t.at = "script" /\ \A f \in Fields \ {"at"} : t[f] = k[f]
  BY <1>1 DEF Fields
<1> HIDE DEF u, t
<1>8. CASE conn' = [conn EXCEPT ![c] = u]
  <2>1. u.at = "run"
    BY <1>4, <1>6 DEF Fields
  <2>2. RanTo(k, u)
    BY <1>6, <2>1, RanToFields
  <2> QED
    BY <1>2, <1>4, <1>5, <1>8, <2>2, RanOrder DEF k
<1>9. CASE conn' = [conn EXCEPT ![c] = t] /\ Head(k.run).op \in {"eval", "evalsha"}
  BY <1>2, <1>4, <1>7, <1>9, StaysOrder DEF k
<1> QED
  BY <1>3, <1>8, <1>9

\* The script's call.
LEMMA CalledOrder ==
    ASSUME OrderInv, IInv, NEW c \in Conns, NEW body, Called(c, body)
    PROVE  /\ Busy(conn[c]) /\ conn[c].run # <<>> /\ Head(conn[c].run).op # "set"
           /\ \E t : conn' = [conn EXCEPT ![c] = t] /\ RanTo(conn[c], t)
<1> DEFINE k == conn[c]
           u == Ran(k)
           n == k.made + (IF body = "subscribe" THEN 1 ELSE 0)
           t == [u EXCEPT !.at = "run", !.made = n]
<1>1. ConnInv /\ DOMAIN k = Fields /\ Mode(k)
  BY OldOrder
<1>2. conn' = [conn EXCEPT ![c] = t] /\ k.at = "script"
  BY DEF Called, At
<1>3. Busy(k) /\ k.run # <<>> /\ Head(k.run).op # "set"
  BY <1>1, <1>2 DEF Busy, Mode
<1> HIDE DEF k, n
<1>4. DOMAIN u = Fields /\ u.run = Tail(k.run) /\ \A f \in Fields \ {"run"} : u[f] = k[f]
  BY <1>1, RanFacts
<1> HIDE DEF u
<1>5. t.at = "run" /\ t.run = Tail(k.run) /\ \A f \in Fields \ {"at", "run", "made"} : t[f] = k[f]
  BY <1>4 DEF Fields
<1> HIDE DEF t
<1>6. RanTo(k, t)
  BY <1>5, RanToFields DEF Fields
<1> QED
  BY <1>2, <1>3, <1>6 DEF k

\* A write that is not logged: EXEC, a script, or a connection that is subscribed.
LEMMA UnloggedOrder ==
    ASSUME OrderInv, IInv, NEW c \in Conns, NEW t, conn' = [conn EXCEPT ![c] = t], Busy(conn[c]), conn[c].run # <<>>,
           RanTo(conn[c], t), ~ Unlogged(t), NEW x \in Writes, x.conn = c, x.via # "normal",
           x.via = "sub" => x.sub_mode, applied' = Append(applied, x),
           sock' = sock, replies' = replies, dropped' = dropped, log' = log
    PROVE  OrderInv'
<1> DEFINE k == conn[c]
<1>1. ConnInv /\ DOMAIN k = Fields /\ Mode(k) /\ HistoryInv
  BY OldOrder DEF OrderInv
<1>2. PICK m \in Nat : Requested(k, sock[c], replies[c], dropped[c], Issued(c), InLog(c), m)
  BY OldOrder
<1>3. Others(c) /\ sock'[c] = sock[c] /\ replies'[c] = replies[c] /\ dropped'[c] = dropped[c]
  BY NothingMoves
<1>4. Mode(t) /\ Busy(t)
  BY <1>1, ModeRan
<1>5. t.buf = k.buf /\ t.cur = k.cur /\ t.via = k.via /\ Busy(k) /\ k.run # <<>>
  BY DEF RanTo
<1>6. ~ Unlogged(k)
  BY <1>5 DEF Unlogged
<1>7. HistoryInv' /\ \A o \in Conns : Issued(o)' = Issued(o) /\ InLog(o)' = InLog(o)
  BY <1>1, WriteIssued
<1> HIDE DEF k
<1>8. Requested(t, sock[c], replies[c], dropped[c], Issued(c), InLog(c), m)
  BY <1>2, <1>4, <1>5, <1>6, HandlerStep
<1>9. Requested(t, sock'[c], replies'[c], dropped'[c], Issued(c)', InLog(c)', m)
  BY <1>3, <1>7, <1>8
<1> QED
  BY <1>1, <1>3, <1>4, <1>7, <1>9, OrderStep

LEMMA CallOrder ==
    ASSUME OrderInv, IInv, NEW c \in Conns, CallSet(c) \/ CallSubscribe(c) \/ CallOther(c) \/ CallFlush(c)
    PROVE  OrderInv'
<1>1. PICK body : Called(c, body)
  BY DEF CallSet, CallSubscribe, CallOther, CallFlush
<1>2. Busy(conn[c]) /\ conn[c].run # <<>> /\ Head(conn[c].run).op # "set"
  BY <1>1, CalledOrder
<1>3. PICK t : conn' = [conn EXCEPT ![c] = t] /\ RanTo(conn[c], t)
  BY <1>1, CalledOrder
<1>4. sock' = sock /\ replies' = replies /\ dropped' = dropped /\ log' = log
  BY <1>1 DEF Called
<1>5. CASE CallSet(c)
  <2>0. PICK ok \in BOOLEAN : applied' = Append(applied, Entry(c, "lua", ok))
    BY <1>5 DEF CallSet
  <2> DEFINE x == [conn |-> c, id |-> Head(conn[c].run).id, via |-> "lua", sub_mode |-> conn[c].sub_mode,
                   authenticated |-> conn[c].authenticated, ok |-> ok]
  <2>1. applied' = Append(applied, x)
    BY <2>0 DEF Entry
  <2>2. Mode(conn[c]) /\ conn[c].sub_mode \in BOOLEAN /\ conn[c].authenticated \in BOOLEAN
    BY OldOrder, OldContext DEF Context
  <2>3. Head(conn[c].run).id \in Nat
    <3>1. conn[c].run \in Seq(Items)
      BY <2>2 DEF Mode
    <3>2. Head(conn[c].run) \in Items
      BY <1>2, <3>1
    <3> QED
      BY <3>2, ItemFacts
  <2>4. x \in Writes /\ x.conn = c /\ x.via = "lua"
    BY <2>2, <2>3 DEF Writes
  <2>5. t.via # "exec" => Head(conn[c].run) = conn[c].cur
    BY <1>2, <1>3, <2>2, ModeRan
  <2>6. ~ Unlogged(t)
    BY <1>2, <1>3, <2>5 DEF Unlogged, RanTo
  <2> HIDE DEF x
  <2> QED
    BY <1>2, <1>3, <1>4, <2>1, <2>4, <2>6, UnloggedOrder
<1>6. CASE CallSubscribe(c) \/ CallOther(c) \/ CallFlush(c)
  <2>1. applied' = applied
    BY <1>6 DEF CallSubscribe, CallOther, CallFlush
  <2> QED
    BY <1>2, <1>3, <1>4, <2>1, RanOrder
<1> QED
  BY <1>5, <1>6

\* SET.
LEMMA SetOrder == ASSUME OrderInv, IInv, NEW c \in Conns, RunSet(c) PROVE OrderInv'
<1>0. PICK ok \in BOOLEAN : applied' = Append(applied, Entry(c, conn[c].via, ok))
  BY DEF RunSet
<1> DEFINE k == conn[c]
           x == [conn |-> c, id |-> Head(k.run).id, via |-> k.via, sub_mode |-> k.sub_mode,
                 authenticated |-> k.authenticated, ok |-> ok]
           t == Ran(k)
<1>1. /\ Running(c, {"set"}) /\ conn' = [conn EXCEPT ![c] = t] /\ applied' = Append(applied, x) /\ log' = log
      /\ sock' = sock /\ replies' = replies /\ dropped' = dropped
  BY <1>0 DEF RunSet, Entry, serverVars
<1>2. ConnInv /\ DOMAIN k = Fields /\ Mode(k) /\ k.sub_mode \in BOOLEAN /\ k.authenticated \in BOOLEAN
  BY OldOrder, OldContext DEF Context
<1>3. PICK m \in Nat : Requested(k, sock[c], replies[c], dropped[c], Issued(c), InLog(c), m)
  BY OldOrder
<1>4. Busy(k) /\ k.at = "run" /\ k.run # <<>> /\ Head(k.run).op \in {"set"}
  BY <1>1, RunningFacts
<1>5. HistoryInv
  BY DEF OrderInv
<1>6. Head(k.run).id \in Nat
  <2>1. k.run \in Seq(Items)
    BY <1>2 DEF Mode
  <2>2. Head(k.run) \in Items
    BY <1>4, <2>1
  <2> QED
    BY <2>2, ItemFacts
<1>7. Others(c) /\ sock'[c] = sock[c] /\ replies'[c] = replies[c] /\ dropped'[c] = dropped[c]
  BY <1>1, NothingMoves
<1>8. k.via = "sub" => k.sub_mode
  BY <1>2, <1>4 DEF Mode
<1> HIDE DEF k
<1>9. t.run = Tail(k.run) /\ \A f \in Fields \ {"run"} : t[f] = k[f]
  BY <1>2, RanFacts
<1> HIDE DEF t
<1>10. RanTo(k, t)
  BY <1>4, <1>9, RanToFields DEF Fields
<1>11. /\ Mode(t) /\ Busy(t) /\ k.via \in {"normal", "sub", "exec"}
       /\ t.via # "exec" => t.run = <<>> /\ Head(k.run) = k.cur
  BY <1>2, <1>4, <1>10, ModeRan
<1>12. t.buf = k.buf /\ t.cur = k.cur /\ t.via = k.via /\ t.at = "run"
  BY <1>10 DEF RanTo
<1>13. x \in Writes /\ x.conn = c /\ x.via = k.via /\ x.id = Head(k.run).id /\ (x.via = "sub" => x.sub_mode)
  BY <1>2, <1>6, <1>8, <1>11 DEF Writes
<1> HIDE DEF x
<1>14. CASE k.via = "normal"
  <2>1. Unlogged(t) /\ Head(k.run) = k.cur
    BY <1>4, <1>11, <1>12, <1>14 DEF Unlogged
  <2>2. /\ Requested(t, sock[c], replies[c], dropped[c], Issued(c) \cup {m}, InLog(c), m)
        /\ k.cur.id = m /\ m \notin Issued(c) /\ Issued(c) \subseteq 1 .. m
    <3>1. WrittenBy(k, t, sock[c], replies[c], dropped[c], Issued(c), InLog(c), m)
      BY <1>3, <1>4, <1>12, <1>14, <2>1, SetStep
    <3> QED
      BY <3>1 DEF WrittenBy
  <2>3. \A y \in Issued(c) : y < m
    BY <2>2
  <2>4. x.id = m
    BY <1>13, <2>1, <2>2
  <2>5. /\ HistoryInv' /\ Issued(c)' = Issued(c) \cup {m}
        /\ \A o \in Conns \ {c} : Issued(o)' = Issued(o)
        /\ \A o \in Conns : InLog(o)' = InLog(o)
    BY <1>1, <1>5, <1>13, <1>14, <2>3, <2>4, WriteIssued
  <2>6. Requested(t, sock'[c], replies'[c], dropped'[c], Issued(c)', InLog(c)', m)
    BY <1>7, <2>2, <2>5
  <2> QED
    BY <1>1, <1>2, <1>7, <1>11, <2>5, <2>6, OrderStep
<1>15. CASE k.via # "normal"
  <2>1. ~ Unlogged(t)
    BY <1>12, <1>15 DEF Unlogged
  <2> QED
    BY <1>1, <1>4, <1>10, <1>13, <1>15, <2>1, UnloggedOrder DEF k
<1> QED
  BY <1>14, <1>15

\* What the connection is left with when the loop goes on.
LEMMA LoopedOn ==
    ASSUME NEW k, DOMAIN k = Fields
    PROVE  Looped(k).at = "loop" => k.buf # <<>>
BY DEF Looped, Fields

\* Normal loop: the log, and then the answer, or the connection parks.
LEMMA FinishOrder == ASSUME OrderInv, IInv, NEW c \in Conns, Finish(c) PROVE OrderInv'
<1> DEFINE k == conn[c]
           u == Looped(k)
           v == [k EXCEPT !.at = "parked", !.waits = k.block_state, !.block_state = NoBlock]
<1>1. ConnInv /\ DOMAIN k = Fields /\ Mode(k)
  BY OldOrder
<1>2. PICK m \in Nat : Requested(k, sock[c], replies[c], dropped[c], Issued(c), InLog(c), m)
  BY OldOrder
<1>3. /\ k.at = "run" /\ k.run = <<>> /\ k.loop = "normal"
      /\ sock' = sock /\ dropped' = dropped /\ applied' = applied
      /\ log' = IF k.cur.op = "set" THEN Append(log, [conn |-> c, id |-> k.cur.id]) ELSE log
  BY DEF Finish, Done, At, is_write_command
<1>4. \/ ~ k.sub_mode /\ k.block_state # NoBlock /\ conn' = [conn EXCEPT ![c] = v] /\ replies' = replies
      \/ /\ k.sub_mode \/ k.block_state = NoBlock
         /\ conn' = [conn EXCEPT ![c] = u] /\ Reply(c, k.cur.id, k.cur.id, "normal")
  BY DEF Finish
<1>5. HistoryInv
  BY DEF OrderInv
<1>6. Busy(k)
  BY <1>3 DEF Busy
<1> HIDE DEF k
<1>7. k.cur.id = m /\ LogPart(k, Issued(c), InLog(c), m) /\ m \in 1 .. m
  BY <1>2, <1>6, BusyFacts
<1>8. /\ HistoryInv' /\ Issued(c)' = Issued(c) /\ InLog(c)' = Issued(c)
      /\ \A o \in Conns \ {c} : Issued(o)' = Issued(o) /\ InLog(o)' = InLog(o)
  <2>1. CASE k.cur.op = "set"
    <3>1. k.via = "normal"
      BY <1>1, <1>3, <1>6, <2>1 DEF Mode
    <3>2. Unlogged(k)
      BY <1>3, <2>1, <3>1 DEF Unlogged
    <3>3. Issued(c) = InLog(c) \cup {m} /\ m \notin InLog(c) /\ InLog(c) \subseteq 1 .. m
      BY <1>7, <3>2 DEF LogPart
    <3>4. \A y \in InLog(c) : y < m
      BY <3>3
    <3>5. log' = Append(log, [conn |-> c, id |-> m])
      BY <1>3, <1>7, <2>1
    <3>6. /\ HistoryInv' /\ InLog(c)' = InLog(c) \cup {m}
          /\ \A o \in Conns \ {c} : InLog(o)' = InLog(o)
          /\ \A o \in Conns : Issued(o)' = Issued(o)
      BY <1>3, <1>5, <3>4, <3>5, WriteLogged
    <3> QED
      BY <3>3, <3>6
  <2>2. CASE k.cur.op # "set"
    <3>1. Issued(c) = InLog(c)
      BY <1>7, <2>2 DEF LogPart, Unlogged
    <3>2. log' = log /\ applied' = applied
      BY <1>3, <2>2
    <3>3. HistoryInv'
      BY <1>5, <3>2 DEF HistoryInv, Plain, Of
    <3>4. \A o \in Conns : Issued(o)' = Issued(o) /\ InLog(o)' = InLog(o)
      BY <3>2 DEF Issued, InLog, Plain, Of
    <3> QED
      BY <3>1, <3>3, <3>4
  <2> QED
    BY <2>1, <2>2
<1>9. CASE ~ k.sub_mode /\ k.block_state # NoBlock /\ conn' = [conn EXCEPT ![c] = v] /\ replies' = replies
  <2>1. Others(c) /\ sock'[c] = sock[c] /\ replies'[c] = replies[c] /\ dropped'[c] = dropped[c]
    BY <1>3, <1>9, NothingMoves
  <2>2. /\ v.at = "parked" /\ v.waits = k.block_state /\ v.block_state = NoBlock /\ v.run = k.run /\ v.cur = k.cur
        /\ v.via = k.via /\ v.loop = k.loop /\ v.multi_queue = k.multi_queue /\ v.buf = k.buf
    BY <1>1 DEF Fields
  <2> HIDE DEF v
  <2>3. Mode(v)
    BY <1>1, <1>3, <1>9, <2>2, ModePark
  <2>4. v.run = <<>>
    BY <1>3, <2>2
  <2>5. Requested(v, sock[c], replies[c], dropped[c], Issued(c), Issued(c), m)
    BY <1>2, <1>6, <2>2, <2>4, ParkStep
  <2>6. Requested(v, sock'[c], replies'[c], dropped'[c], Issued(c)', InLog(c)', m)
    BY <1>8, <2>1, <2>5
  <2> QED
    BY <1>1, <1>8, <1>9, <2>1, <2>3, <2>6, OrderStep
<1>10. CASE /\ k.sub_mode \/ k.block_state = NoBlock
            /\ conn' = [conn EXCEPT ![c] = u] /\ Reply(c, k.cur.id, k.cur.id, "normal")
  <2>1. /\ Others(c) /\ sock'[c] = sock[c] /\ dropped'[c] = dropped[c]
        /\ replies'[c] = Append(replies[c], [req |-> m, of |-> m, via |-> "normal"])
    BY <1>3, <1>7, <1>10, ReplyMoves
  <2>2. /\ u.at \in {"read", "loop"} /\ (u.at = "loop" => k.buf # <<>>) /\ \A f \in Fields \ {"at"} : u[f] = k[f]
    BY <1>1, LoopedFacts, LoopedOn
  <2> HIDE DEF u
  <2>3. /\ u.run = k.run /\ u.multi_queue = k.multi_queue /\ u.block_state = k.block_state /\ u.waits = k.waits
        /\ u.loop = k.loop /\ u.buf = k.buf /\ (u.at = "loop" => u.buf # <<>>)
    BY <2>2 DEF Fields
  <2>4. u.at \in {"read", "loop", "closed", "panicked", "replica"} /\ u.loop # "sub" /\ u.multi_queue \in Seq(Items)
    BY <1>1, <1>3, <2>2, <2>3 DEF Mode
  <2>5. Mode(u)
    BY <1>1, <1>10, <2>3, <2>4, ModeIdle
  <2>6. Requested(u, sock[c], Append(replies[c], [req |-> m, of |-> m, via |-> "normal"]), dropped[c], Issued(c), Issued(c), m)
    BY <1>2, <1>6, <2>2, <2>3, DoneStep
  <2>7. Requested(u, sock'[c], replies'[c], dropped'[c], Issued(c)', InLog(c)', m)
    BY <1>8, <2>1, <2>6
  <2> QED
    BY <1>1, <1>8, <1>10, <2>1, <2>5, <2>7, OrderStep
<1> QED
  BY <1>4, <1>9, <1>10

\* The answer to a parked client, and the end of a command of a subscribed one.
LEMMA RepliedOrder ==
    ASSUME OrderInv, IInv, NEW c \in Conns, NEW t, NEW of \in Nat, NEW via \in {"normal", "exec", "sub"},
           conn' = [conn EXCEPT ![c] = t], Reply(c, conn[c].cur.id, of, via),
           sock' = sock, dropped' = dropped, applied' = applied, log' = log,
           Busy(conn[c]), ~ Unlogged(conn[c]), of = conn[c].cur.id \/ via \in {"exec", "sub"},
           Mode(t), t.buf = conn[c].buf, t.at \in {"read", "loop"}, t.at = "loop" => t.buf # <<>>
    PROVE  OrderInv'
<1> DEFINE k == conn[c]
<1>1. ConnInv
  BY OldOrder
<1>2. PICK m \in Nat : Requested(k, sock[c], replies[c], dropped[c], Issued(c), InLog(c), m)
  BY OldOrder
<1>3. Busy(k) /\ ~ Unlogged(k) /\ t.buf = k.buf
  OBVIOUS
<1>4. of = k.cur.id \/ via \in {"exec", "sub"}
  OBVIOUS
<1>5. /\ Others(c) /\ sock'[c] = sock[c] /\ dropped'[c] = dropped[c]
      /\ replies'[c] = Append(replies[c], [req |-> k.cur.id, of |-> of, via |-> via])
  BY ReplyMoves
<1> HIDE DEF k
<1>6. k.cur.id = m /\ LogPart(k, Issued(c), InLog(c), m)
  BY <1>2, <1>3, BusyFacts
<1>7. Issued(c) = InLog(c)
  BY <1>3, <1>6 DEF LogPart
<1>8. of = m \/ via \in {"exec", "sub"}
  BY <1>4, <1>6
<1>9. Requested(t, sock[c], Append(replies[c], [req |-> m, of |-> of, via |-> via]), dropped[c], Issued(c), Issued(c), m)
  BY <1>2, <1>3, <1>8, DoneStep
<1>10. Requested(t, sock'[c], replies'[c], dropped'[c], Issued(c), InLog(c), m)
  BY <1>5, <1>6, <1>7, <1>9
<1> QED
  BY <1>1, <1>5, <1>10, QuietStep

LEMMA UnparkOrder == ASSUME OrderInv, IInv, NEW c \in Conns, Unpark(c) PROVE OrderInv'
<1> DEFINE k == conn[c]
           u == Looped(k)
           t == [u EXCEPT !.waits = NoBlock]
<1>1. ConnInv /\ DOMAIN k = Fields /\ Mode(k)
  BY OldOrder
<1>2. PICK m \in Nat : Requested(k, sock[c], replies[c], dropped[c], Issued(c), InLog(c), m)
  BY OldOrder
<1>3. /\ k.at = "parked" /\ Reply(c, k.cur.id, k.waits.of, k.waits.via) /\ conn' = [conn EXCEPT ![c] = t]
      /\ sock' = sock /\ dropped' = dropped /\ applied' = applied /\ log' = log
  BY DEF Unpark, At, serverVars
<1>4. Busy(k) /\ ~ Unlogged(k)
  BY <1>3 DEF Busy, Unlogged
<1>5. /\ k.waits.of \in Nat /\ k.waits.via \in {"normal", "exec", "sub"} /\ k.loop = "normal"
      /\ k.waits.of = k.cur.id \/ k.waits.via \in {"exec", "sub"}
  BY <1>1, <1>3 DEF Mode
<1>6. DOMAIN u = Fields /\ u.at \in {"read", "loop"} /\ (u.at = "loop" => k.buf # <<>>) /\ \A f \in Fields \ {"at"} : u[f] = k[f]
  <2> HIDE DEF k
  <2> QED
    BY <1>1, LoopedFacts, LoopedOn
<1> HIDE DEF u
<1>7. t.waits = NoBlock /\ \A f \in Fields \ {"waits"} : t[f] = u[f]
  BY <1>6 DEF Fields
<1> HIDE DEF t
<1>8. /\ t.at \in {"read", "loop"} /\ t.run = k.run /\ t.multi_queue = k.multi_queue /\ t.block_state = k.block_state
      /\ t.loop = k.loop /\ t.buf = k.buf /\ (t.at = "loop" => t.buf # <<>>)
  BY <1>6, <1>7 DEF Fields
<1>9. Mode(t)
  <2>1. t.at \in {"read", "loop", "closed", "panicked", "replica"} /\ t.loop # "sub" /\ t.multi_queue \in Seq(Items)
        /\ k.at # "run"
    BY <1>1, <1>3, <1>5, <1>8 DEF Mode
  <2> HIDE DEF k
  <2> QED
    BY <1>1, <1>7, <1>8, <2>1, ModeIdle
<1> QED
  BY <1>3, <1>4, <1>5, <1>8, <1>9, RepliedOrder

LEMMA SubFinishOrder == ASSUME OrderInv, IInv, NEW c \in Conns, SubFinish(c) PROVE OrderInv'
<1> DEFINE k == conn[c]
           u == Looped(k)
           v == [k EXCEPT !.at = "read"]
           t == IF k.sub_mode THEN u ELSE v
<1>1. ConnInv /\ DOMAIN k = Fields /\ Mode(k)
  BY OldOrder
<1>2. PICK m \in Nat : Requested(k, sock[c], replies[c], dropped[c], Issued(c), InLog(c), m)
  BY OldOrder
<1>3. /\ k.at = "run" /\ k.loop = "sub" /\ Reply(c, k.cur.id, k.cur.id, "normal") /\ conn' = [conn EXCEPT ![c] = t]
      /\ sock' = sock /\ dropped' = dropped /\ applied' = applied /\ log' = log
  BY DEF SubFinish, Done, At, serverVars
<1>4. Busy(k)
  BY <1>3 DEF Busy
<1>5. ~ Unlogged(k)
  BY <1>1, <1>3, <1>4 DEF Mode, Unlogged
<1>6. k.cur.id \in Nat
  BY <1>1, <1>4, ItemFacts DEF Mode
<1>7. u.at \in {"read", "loop"} /\ (u.at = "loop" => k.buf # <<>>) /\ \A f \in Fields \ {"at"} : u[f] = k[f]
  <2> HIDE DEF k
  <2> QED
    BY <1>1, LoopedFacts, LoopedOn
<1>8. v.at = "read" /\ \A f \in Fields \ {"at"} : v[f] = k[f]
  <2> HIDE DEF k
  <2> QED
    BY <1>1 DEF Fields
<1> HIDE DEF u, v
<1>9. /\ t.at \in {"read", "loop"} /\ (t.at = "loop" => k.buf # <<>> /\ k.sub_mode) /\ \A f \in Fields \ {"at"} : t[f] = k[f]
  BY <1>7, <1>8
<1> HIDE DEF t
<1>10. /\ t.run = k.run /\ t.multi_queue = k.multi_queue /\ t.block_state = k.block_state /\ t.waits = k.waits
       /\ t.loop = k.loop /\ t.buf = k.buf /\ t.sub_mode = k.sub_mode /\ (t.at = "loop" => t.buf # <<>>)
  BY <1>9 DEF Fields
<1>11. Mode(t)
  <2>1. /\ t.at \in {"read", "loop", "closed", "panicked", "replica"} /\ t.multi_queue \in Seq(Items)
        /\ t.at = "loop" /\ t.loop = "sub" => t.sub_mode
        /\ k.loop # "normal"
    BY <1>1, <1>3, <1>9, <1>10 DEF Mode
  <2> HIDE DEF k
  <2> QED
    BY <1>1, <1>10, <2>1, ModeIdle
<1> QED
  BY <1>3, <1>4, <1>5, <1>6, <1>9, <1>10, <1>11, RepliedOrder

-----------------------------------------------------------------------------
(* The order of answers, and of the log: the theorems.                       *)

\* Before the first request.
LEMMA NothingYet ==
    ASSUME NEW k, NEW s \in Seq(Items), k.buf = <<>>, k.at \in {"closed", "read"},
           \A i \in 1 .. Len(s) : s[i].id = i /\ s[i].part = "all"
    PROVE  Requested(k, s, <<>>, {}, {}, {}, 0)
<1>1. Len(<<>>) = 0 /\ Len(s) \in Nat /\ <<>> \in Seq(Items)
  OBVIOUS
<1>2. ~ Busy(k) /\ ~ Unlogged(k) /\ ~ Open(k) /\ k.at # "loop"
  BY DEF Busy, Unlogged, Open
<1>3. s # <<>> => s[1].part = "all"
  <2>1. s # <<>> => 1 \in 1 .. Len(s)
    BY <1>1
  <2> QED
    BY <2>1
<1>4. ~ Behind(k, s) /\ Base(k, s, 0) = 0
  BY <1>3 DEF Behind, Base, Rest
<1>5. Held(0, {}) = 0
  <2>1. (1 .. 0) \ {} = {}
    OBVIOUS
  <2> QED
    BY <2>1, FS_EmptySet DEF Held
<1>6. Answered(<<>>, {}, 0)
  BY <1>1 DEF Answered
<1>7. Lined(k, s, 0)
  <2>1. \A i \in 1 .. Len(s) : s[i].id = Base(k, s, 0) + Len(k.buf) - (IF Open(k) THEN 1 ELSE 0) + i
    BY <1>1, <1>2, <1>4
  <2>2. \A i \in 2 .. Len(s) : s[i].part = "all"
    BY <1>1
  <2>3. k.buf \in Seq(Items) /\ Len(k.buf) = 0
    BY <1>1
  <2> QED
    BY <1>2, <1>3, <2>1, <2>2, <2>3 DEF Lined
<1>8. Counted(k, s, <<>>, {}, 0)
  BY <1>1, <1>2, <1>4, <1>5 DEF Counted
<1>9. LogPart(k, {}, {}, 0)
  BY <1>2 DEF LogPart
<1> QED
  BY <1>6, <1>7, <1>8, <1>9 DEF Requested

\* What a client is going to send.
LEMMA InitSock ==
    ASSUME Init, NEW c \in Conns
    PROVE  sock[c] \in Seq(Items) /\ \A i \in 1 .. Len(sock[c]) : sock[c][i].id = i /\ sock[c][i].part = "all"
<1>1. PICK s \in Setups : sock = [o \in Conns |-> [i \in DOMAIN s.script[o] |->
                              [id |-> i, op |-> s.script[o][i].op, names |-> s.script[o][i].names, part |-> "all"]]]
  BY DEF Init
<1> DEFINE script == s.script[c]
           n == Len(script)
<1>2. n \in Nat /\ DOMAIN script = 1 .. n
  <2>1. n \in 0 .. MaxScript /\ DOMAIN script = 1 .. n
    BY ScriptAssumption
  <2> QED
    BY <2>1
<1>3. \A i \in 1 .. n : script[i] \in Commands
  <2>1. \A i \in 1 .. n : script[i] \in Range(script)
    BY <1>2 DEF Range
  <2>2. Range(s.script[c]) \subseteq Commands
    BY DEF Commands
  <2> QED
    BY <2>1, <2>2
<1> HIDE DEF n
<1>4. sock[c] = [i \in 1 .. n |-> [id |-> i, op |-> script[i].op, names |-> script[i].names, part |-> "all"]]
  BY <1>1, <1>2
<1> HIDE DEF script
<1>5. ASSUME NEW i \in 1 .. n
      PROVE  [id |-> i, op |-> script[i].op, names |-> script[i].names, part |-> "all"] \in Items
  <2>1. script[i] \in Commands
    BY <1>3
  <2>3. i \in Nat
    BY <1>2
  <2> QED
    BY <2>1, <2>3 DEF Items
<1>6. sock[c] \in Seq(Items) /\ Len(sock[c]) = n
  BY <1>2, <1>4, <1>5
<1>7. \A i \in 1 .. n : sock[c][i].id = i /\ sock[c][i].part = "all"
  BY <1>4
<1> QED
  BY <1>6, <1>7

LEMMA InitOrder == Init => OrderInv
<1> SUFFICES ASSUME Init PROVE OrderInv
  OBVIOUS
<1>1. DOMAIN sock = Conns /\ DOMAIN replies = Conns /\ DOMAIN dropped = Conns /\ applied = <<>> /\ log = <<>>
  BY DEF Init
<1>2. \A c \in Conns : Issued(c) = {} /\ InLog(c) = {} /\ Plain(c) = {} /\ Of(c, log) = {}
  BY <1>1 DEF Issued, InLog, Plain, Of, Requests
<1>3. HistoryInv
  BY <1>1, <1>2 DEF HistoryInv, InOrder
<1>4. ASSUME NEW c \in Conns PROVE Mode(conn[c]) /\ ReqInv(c)
  <2> DEFINE auth == ~ requirepass
             k == NewConn(auth, sock[c])
  <2>1. conn[c] = k /\ replies[c] = <<>> /\ dropped[c] = {}
    BY DEF Init
  <2>2. sock[c] \in Seq(Items) /\ \A i \in 1 .. Len(sock[c]) : sock[c][i].id = i /\ sock[c][i].part = "all"
    BY InitSock
  <2> HIDE DEF auth
  <2>3. /\ k.at \in {"closed", "read"} /\ k.buf = <<>> /\ k.run = <<>> /\ k.multi_queue = <<>>
        /\ k.block_state = NoBlock /\ k.waits = NoBlock
    BY DEF NewConn
  <2> HIDE DEF k
  <2>4. Requested(k, sock[c], <<>>, {}, {}, {}, 0)
    BY <2>2, <2>3, NothingYet
  <2>5. ReqInv(c)
    BY <1>2, <2>1, <2>4 DEF ReqInv
  <2>6. NoBlock.of \in Nat /\ <<>> \in Seq(Items)
    BY DEF NoBlock
  <2>7. Mode(k)
    BY <2>3, <2>6 DEF Mode, Busy
  <2> QED
    BY <2>1, <2>5, <2>7
<1> QED
  BY <1>1, <1>3, <1>4 DEF OrderInv

LEMMA NextOrder == IInv /\ OrderInv /\ [Next]_vars => OrderInv'
<1> SUFFICES ASSUME IInv, OrderInv, [Next]_vars PROVE OrderInv'
  OBVIOUS
<1>1. ASSUME NEW c \in Conns, LoopStep(c) PROVE OrderInv'
  BY <1>1, ParseOrder, AnswerOrder, BeginOrder, SetOrder, TransactionOrder, BlpopOrder, OtherOrder, SubscribeOrder,
     RemoveOrder, PublishOrder, ScriptOrder, CallOrder, FinishOrder, UnparkOrder, SubFinishOrder, Zenon DEF LoopStep
<1>2. ASSUME NEW c \in Conns, ReadStep(c) PROVE OrderInv'
  BY <1>2, ReadOrder
<1>3. ASSUME NEW c \in Conns, Hangup(c) PROVE OrderInv'
  BY <1>3, ParseOrder
<1>4. CASE UNCHANGED vars
  <2>1. conn' = conn /\ sock' = sock /\ replies' = replies /\ dropped' = dropped /\ applied' = applied /\ log' = log
    BY <1>4 DEF vars, serverVars
  <2>2. \A c \in Conns : Issued(c)' = Issued(c) /\ InLog(c)' = InLog(c)
    BY <2>1 DEF Issued, InLog, Plain, Of
  <2>3. \A c \in Conns : Mode(conn'[c]) /\ ReqInv(c)'
    BY <2>1, <2>2 DEF OrderInv, ReqInv
  <2>4. HistoryInv'
    BY <2>1 DEF OrderInv, HistoryInv, Plain, Of
  <2> QED
    BY <2>1, <2>3, <2>4 DEF OrderInv
<1> QED
  BY <1>1, <1>2, <1>3, <1>4 DEF Next

\* Whatever connections send, in whichever parts it arrives: the requests in
\* buffer and socket follow those that were taken, each of which was answered,
\* thrown away or is in hand (src/net/connection.rs: handle).
THEOREM OrderInvariance == Spec => []OrderInv
<1>1. Init => OrderInv
  BY InitOrder
<1>2. IInv /\ OrderInv /\ [Next]_vars => OrderInv'
  BY NextOrder
<1> QED
  BY <1>1, <1>2, Invariance, PTL DEF Spec

\* A client that pairs answers with requests by their order is right: the i-th
\* answer is to the i-th request that was not thrown away, over pipelining,
\* transactions, changes of mode and split reads, and it is that request's own
\* result unless a block request was left by EXEC or by a subscribed connection
\* (src/net/connection.rs: handle, lines 76-251).
THEOREM AnswersAreInOrder == Spec => []AnswersMatchRequests
<1>1. OrderInv => AnswersMatchRequests
  <2> SUFFICES ASSUME OrderInv, NEW c \in Conns, NEW i \in DOMAIN replies[c]
               PROVE  /\ Kept(c, replies[c][i].req) = i /\ replies[c][i].req \notin dropped[c]
                      /\ replies[c][i].of = replies[c][i].req \/ replies[c][i].via \in {"exec", "sub"}
    BY DEF AnswersMatchRequests
  <2>1. PICK m \in Nat : Answered(replies[c], dropped[c], m)
    BY DEF OrderInv, ReqInv, Requested
  <2>2. i \in 1 .. Len(replies[c])
    BY <2>1 DEF Answered
  <2> QED
    BY <2>1, <2>2 DEF Answered, Held, Kept
<1> QED
  BY <1>1, OrderInvariance, PTL

\* The write commands of a connection's normal loop are logged in the order of its
\* requests, each once, made or refused, and no others; one that was dispatched
\* and is not logged is the one in hand, or went through EXEC, a script or the loop
\* of a subscribed connection (src/net/connection.rs: handle, lines 85-99 and
\* 190-208; exec, eval_cmd).
THEOREM WritesAreLoggedInOrder == Spec => []LogIsInOrder
<1>1. OrderInv => LogIsInOrder
  <2> SUFFICES ASSUME OrderInv PROVE LogIsInOrder
    OBVIOUS
  <2>1. HistoryInv
    BY DEF OrderInv
  <2>2. ASSUME NEW c \in Conns
        PROVE  \/ InLog(c) = Issued(c)
               \/ InHand(c) /\ conn[c].cur.id \notin InLog(c) /\ Issued(c) = InLog(c) \cup {conn[c].cur.id}
    <3> DEFINE k == conn[c]
    <3>1. PICK m \in Nat : Requested(k, sock[c], replies[c], dropped[c], Issued(c), InLog(c), m)
      BY DEF OrderInv, ReqInv
    <3>2. LogPart(k, Issued(c), InLog(c), m)
      BY <3>1 DEF Requested
    <3>3. CASE Unlogged(k)
      <4>1. Busy(k) /\ InHand(c)
        BY <3>3 DEF Unlogged, Busy, InHand, At
      <4> HIDE DEF k
      <4>2. k.cur.id = m
        BY <3>1, <4>1, BusyFacts
      <4>3. Issued(c) = InLog(c) \cup {m} /\ m \notin InLog(c)
        BY <3>2, <3>3 DEF LogPart
      <4> QED
        BY <4>1, <4>2, <4>3 DEF k
    <3>4. CASE ~ Unlogged(k)
      BY <3>2, <3>4 DEF LogPart
    <3> QED
      BY <3>3, <3>4
  <2>3. \A c \in Conns : InOrder(applied, Plain(c)) /\ InOrder(log, Of(c, log))
    BY <2>1 DEF HistoryInv
  <2>4. \A i \in DOMAIN applied : applied[i].via = "sub" => applied[i].sub_mode
    BY <2>1 DEF HistoryInv
  <2> QED
    BY <2>2, <2>3, <2>4 DEF LogIsInOrder, Issued, InLog
<1> QED
  BY <1>1, OrderInvariance, PTL

-----------------------------------------------------------------------------
(* The registry: the elements of a sequence at some of its positions. *)

Rank(S, i) == Cardinality({k \in S : k <= i})

\* Ranks are different, and every number up to the size of the set is one.
LEMMA Ranks ==
    ASSUME NEW n \in Nat, NEW S \in SUBSET (1 .. n)
    PROVE  /\ IsFiniteSet(S) /\ Cardinality(S) \in Nat
           /\ \A i \in S : Rank(S, i) \in 1 .. Cardinality(S)
           /\ \A i, j \in S : Rank(S, i) = Rank(S, j) => i = j
           /\ \A j \in 1 .. Cardinality(S) : \E i \in S : Rank(S, i) = j
<1> DEFINE m == Cardinality(S)
           f == [i \in S |-> Rank(S, i)]
           Below(i) == {k \in S : k <= i}
<1>0. \A k \in S : k \in Int
  OBVIOUS
<1>1. IsFiniteSet(S) /\ m \in Nat
  <2>1. IsFiniteSet(1 .. n)
    BY FS_Interval
  <2> QED
    BY <2>1, FS_Subset, FS_CardinalityType
<1>2. ASSUME NEW i \in S PROVE IsFiniteSet(Below(i)) /\ Rank(S, i) \in 1 .. m
  <2>1. Below(i) \in SUBSET S /\ i \in Below(i)
    BY <1>0
  <2>2. IsFiniteSet(Below(i)) /\ Cardinality(Below(i)) <= m /\ Cardinality(Below(i)) \in Nat
    BY <1>1, <2>1, FS_Subset, FS_CardinalityType
  <2>3. Cardinality(Below(i)) # 0
    BY <2>1, <2>2, FS_EmptySet
  <2> QED
    BY <1>1, <2>2, <2>3 DEF Rank
<1>3. ASSUME NEW i \in S, NEW j \in S, i < j PROVE Rank(S, i) # Rank(S, j)
  <2>1. Below(i) \in SUBSET Below(j) /\ j \in Below(j) /\ j \notin Below(i)
    <3>1. \A k \in S : k <= i => k <= j
      BY <1>0, <1>3
    <3>2. j <= j /\ ~ (j <= i)
      BY <1>0, <1>3
    <3> QED
      BY <3>1, <3>2
  <2>2. Cardinality(Below(j)) = Cardinality(Below(i)) => Below(j) = Below(i)
    BY <1>2, <2>1, FS_Subset
  <2> QED
    BY <2>1, <2>2 DEF Rank
<1>4. \A i, j \in S : Rank(S, i) = Rank(S, j) => i = j
  BY <1>0, <1>3
<1>5. f \in Injection(S, 1 .. m)
  BY <1>2, <1>4 DEF Injection, IsInjective
<1>6. IsFiniteSet(1 .. m) /\ Cardinality(1 .. m) = m
  BY <1>1, FS_Interval
<1>7. f \in Surjection(S, 1 .. m)
  <2> HIDE DEF f
  <2> QED
    BY <1>5, <1>6, FS_Injection
<1>8. \A j \in 1 .. m : \E i \in S : Rank(S, i) = j
  BY <1>7 DEF Surjection
<1> QED
  BY <1>1, <1>2, <1>4, <1>8

\* Picked has the elements at these positions and nothing else.
LEMMA PickedFacts ==
    ASSUME NEW s, NEW n \in Nat, NEW S \in SUBSET (1 .. n), NEW T, \A i \in S : s[i] \in T
    PROVE  /\ Picked(s, S) \in Seq(T)
           /\ \A j \in 1 .. Len(Picked(s, S)) : \E i \in S : Picked(s, S)[j] = s[i]
           /\ \A i \in S : \E j \in 1 .. Len(Picked(s, S)) : Picked(s, S)[j] = s[i]
<1> DEFINE m == Cardinality(S)
           p == [j \in 1 .. m |-> s[Nth(S, j)]]
<1>1. m \in Nat
  BY Ranks
<1>2. ASSUME NEW j \in 1 .. m PROVE Nth(S, j) \in S /\ Rank(S, Nth(S, j)) = j
  <2>1. \E i \in S : Rank(S, i) = j
    BY Ranks
  <2> QED
    BY <2>1 DEF Nth, Rank
<1>3. Picked(s, S) = p
  BY DEF Picked
<1> HIDE DEF m
<1>4. p \in Seq(T) /\ Len(p) = m /\ \A j \in 1 .. m : p[j] = s[Nth(S, j)]
  <2>1. \A j \in 1 .. m : s[Nth(S, j)] \in T
    BY <1>2
  <2> QED
    BY <1>1, <2>1
<1>5. ASSUME NEW i \in S PROVE \E j \in 1 .. m : p[j] = s[i]
  <2>1. Rank(S, i) \in 1 .. m
    BY Ranks DEF m
  <2>2. Nth(S, Rank(S, i)) \in S /\ Rank(S, Nth(S, Rank(S, i))) = Rank(S, i)
    BY <1>2, <2>1
  <2>3. Nth(S, Rank(S, i)) = i
    BY <2>2, Ranks
  <2> QED
    BY <1>4, <2>1, <2>3
<1> HIDE DEF p
<1> QED
  BY <1>2, <1>3, <1>4, <1>5

-----------------------------------------------------------------------------
(* The registry: the invariant. *)

Senders == Conns \X Nat

\* Its connection holds the receiver of the sender x, and has made it.
Lives(x, cs) == cs[x[1]].rx # NoRx /\ cs[x[1]].rx.n = x[2]
MadeBy(x, cs) == x[2] <= cs[x[1]].made

RegistryInv ==
    /\ channels = [ch \in Channels |-> channels[ch]]
    /\ \A ch \in Channels : channels[ch] \in Seq(Senders) /\ \A i \in 1 .. Len(channels[ch]) : MadeBy(channels[ch][i], conn)

\* The indices a publisher has noted are positions of senders without a receiver.
Noted(k, chans, cs) ==
    /\ PublishedOn(k) \in Channels
    /\ \A i \in k.dead : i \in 1 .. Len(chans[PublishedOn(k)]) /\ ~ Lives(chans[PublishedOn(k)][i], cs)

\* The sender of connection c's receiver is where it was put, or was removed by
\* indices that were out of date.
Listed(c, rx, chans, pats, lost) ==
    /\ rx.kind = "channel" => rx.name \in Channels /\ <<c, rx.n>> \in Range(chans[rx.name]) \cup lost
    /\ rx.kind = "pattern" => <<rx.name, <<c, rx.n>>>> \in pats

\* A handler that panicked had been overtaken, or had too few arguments.
Excused(k) == k.at = "panicked" => k.stale \/ Head(k.run).op = "short"

RegInv ==
    /\ RegistryInv
    /\ \A c \in Conns :
          /\ conn[c].made \in Nat
          /\ Listed(c, conn[c].rx, channels, patterns, misremoved)
          /\ conn[c].at = "prune" /\ ~ conn[c].stale => Noted(conn[c], channels, conn)
          /\ Excused(conn[c])

-----------------------------------------------------------------------------
(* The registry: steps of one connection. *)

\* The registry b is a and new senders of connection c with numbers up to n.
Grown(a, b, c, n) ==
    /\ b = [ch \in Channels |-> b[ch]]
    /\ \A ch \in Channels :
          /\ b[ch] \in Seq(Senders) /\ Len(a[ch]) <= Len(b[ch])
          /\ \A i \in 1 .. Len(a[ch]) : b[ch][i] = a[ch][i]
          /\ \A i \in Len(a[ch]) + 1 .. Len(b[ch]) : b[ch][i][1] = c /\ b[ch][i][2] <= n

LEMMA SameGrown == ASSUME RegistryInv, NEW c, NEW n PROVE Grown(channels, channels, c, n)
<1>1. \A ch \in Channels : Len(channels[ch]) \in Nat /\ channels[ch] \in Seq(Senders)
  BY DEF RegistryInv
<1> QED
  BY <1>1 DEF Grown, RegistryInv

\* A step of connection c that adds senders of its own, or none.
LEMMA RegStep ==
    ASSUME RegInv, ConnInv, NEW c \in Conns, NEW t, conn' = [conn EXCEPT ![c] = t],
           Grown(channels, channels', c, t.made), patterns \subseteq patterns', misremoved' = misremoved,
           t.made \in Nat, conn[c].made <= t.made,
           t.rx \in {conn[c].rx, NoRx} \/ (/\ t.rx.n \in Nat /\ t.rx.n > conn[c].made
                                          /\ Listed(c, t.rx, channels', patterns', misremoved')),
           t.at = "prune" /\ ~ t.stale => Noted(t, channels, conn), Excused(t)
    PROVE  RegInv'
<1>1. conn'[c] = t /\ \A o \in Conns \ {c} : conn'[o] = conn[o]
  BY DEF ConnInv
<1>2. \A o \in Conns : conn[o].made \in Nat /\ conn'[o].made \in Nat /\ conn[o].made <= conn'[o].made
  BY <1>1 DEF RegInv
<1>3. ASSUME NEW x \in Senders, MadeBy(x, conn), ~ Lives(x, conn) PROVE ~ Lives(x, conn')
  <2>1. x[1] \in Conns /\ x[2] \in Nat
    BY DEF Senders
  <2>2. CASE x[1] # c
    BY <1>1, <1>3, <2>1, <2>2 DEF Lives
  <2>3. CASE x[1] = c
    <3>1. x[2] <= conn[c].made /\ conn[c].made \in Nat
      BY <1>2, <1>3, <2>3 DEF MadeBy
    <3>2. CASE t.rx \in {conn[c].rx, NoRx}
      BY <1>1, <1>3, <2>3, <3>2 DEF Lives
    <3>3. CASE t.rx.n \in Nat /\ t.rx.n > conn[c].made
      <4>1. t.rx.n # x[2]
        BY <2>1, <3>1, <3>3
      <4> QED
        BY <1>1, <2>3, <4>1 DEF Lives
    <3> QED
      BY <3>2, <3>3
  <2> QED
    BY <2>2, <2>3
<1>4. \A ch \in Channels : /\ channels[ch] \in Seq(Senders) /\ channels'[ch] \in Seq(Senders)
                           /\ Len(channels[ch]) \in Nat /\ Len(channels'[ch]) \in Nat
                           /\ Len(channels[ch]) <= Len(channels'[ch])
                           /\ \A i \in 1 .. Len(channels[ch]) : channels'[ch][i] = channels[ch][i]
  BY DEF Grown, RegInv, RegistryInv
<1>5. RegistryInv'
  <2>1. ASSUME NEW ch \in Channels, NEW i \in 1 .. Len(channels'[ch]) PROVE MadeBy(channels'[ch][i], conn')
    <3> DEFINE x == channels'[ch][i]
    <3>0. x \in Senders
      BY <1>4
    <3>1. x[1] \in Conns /\ x[2] \in Nat
      BY <3>0 DEF Senders
    <3>2. CASE i \in 1 .. Len(channels[ch])
      <4>1. MadeBy(channels[ch][i], conn) /\ x = channels[ch][i]
        BY <1>4, <3>2 DEF RegInv, RegistryInv
      <4>2. x[2] <= conn[x[1]].made
        BY <4>1 DEF MadeBy
      <4> HIDE DEF x
      <4>3. x[2] <= conn'[x[1]].made
        BY <1>2, <3>1, <4>2
      <4> QED
        BY <4>3 DEF MadeBy, x
    <3>3. CASE i \in Len(channels[ch]) + 1 .. Len(channels'[ch])
      <4>1. x[1] = c /\ x[2] <= t.made
        BY <3>3 DEF Grown
      <4> QED
        BY <1>1, <4>1 DEF MadeBy
    <3> QED
      BY <1>4, <3>2, <3>3
  <2> QED
    BY <1>4, <2>1 DEF RegistryInv, Grown
<1>6. ASSUME NEW k, Noted(k, channels, conn) PROVE Noted(k, channels', conn')
  <2> DEFINE ch == PublishedOn(k)
  <2>1. ch \in Channels
    BY <1>6 DEF Noted
  <2>2. ASSUME NEW i \in k.dead PROVE i \in 1 .. Len(channels'[ch]) /\ ~ Lives(channels'[ch][i], conn')
    <3>1. i \in 1 .. Len(channels[ch]) /\ ~ Lives(channels[ch][i], conn)
      BY <1>6 DEF Noted
    <3>2. channels[ch][i] \in Senders /\ MadeBy(channels[ch][i], conn) /\ channels'[ch][i] = channels[ch][i]
      BY <1>4, <2>1, <3>1 DEF RegInv, RegistryInv
    <3>3. ~ Lives(channels[ch][i], conn')
      BY <1>3, <3>1, <3>2
    <3> QED
      BY <1>4, <2>1, <3>1, <3>2, <3>3
  <2> QED
    BY <2>1, <2>2 DEF Noted
<1>7. ASSUME NEW o \in Conns, NEW rx, Listed(o, rx, channels, patterns, misremoved)
      PROVE  Listed(o, rx, channels', patterns', misremoved')
  <2>1. \A ch \in Channels : Range(channels[ch]) \subseteq Range(channels'[ch])
    <3> SUFFICES ASSUME NEW ch \in Channels, NEW i \in DOMAIN channels[ch] PROVE channels[ch][i] \in Range(channels'[ch])
      BY DEF Range
    <3>1. i \in 1 .. Len(channels[ch]) /\ i \in DOMAIN channels'[ch] /\ channels'[ch][i] = channels[ch][i]
      BY <1>4
    <3> QED
      BY <3>1 DEF Range
  <2> QED
    BY <1>7, <2>1 DEF Listed
<1>8. ASSUME NEW o \in Conns
      PROVE  /\ Listed(o, conn'[o].rx, channels', patterns', misremoved')
             /\ conn'[o].at = "prune" /\ ~ conn'[o].stale => Noted(conn'[o], channels', conn')
             /\ Excused(conn'[o])
  <2>1. CASE o # c
    BY <1>1, <1>6, <1>7, <2>1 DEF RegInv
  <2>2. CASE o = c
    <3>1. Listed(c, NoRx, channels', patterns', misremoved')
      BY DEF Listed, NoRx
    <3>2. Listed(c, conn[c].rx, channels', patterns', misremoved')
      BY <1>7 DEF RegInv
    <3> QED
      BY <1>1, <1>6, <2>2, <3>1, <3>2
  <2> QED
    BY <2>1, <2>2
<1> QED
  BY <1>2, <1>5, <1>8 DEF RegInv

\* One that leaves the registry and goes on.
Calm(k, t) == t.made = k.made /\ t.rx \in {k.rx, NoRx} /\ t.at \notin {"prune", "panicked"}

LEMMA CalmStep ==
    ASSUME RegInv, ConnInv, NEW c \in Conns, NEW t, conn' = [conn EXCEPT ![c] = t], Calm(conn[c], t),
           UNCHANGED registryVars, misremoved' = misremoved
    PROVE  RegInv'
<1>1. channels' = channels /\ patterns' = patterns
  BY DEF registryVars
<1>2. Grown(channels, channels', c, t.made)
  BY <1>1, SameGrown DEF RegInv
<1>3. t.made \in Nat /\ conn[c].made <= t.made
  BY DEF Calm, RegInv
<1>4. Excused(t) /\ t.at # "prune" /\ t.rx \in {conn[c].rx, NoRx}
  BY DEF Calm, Excused
<1> QED
  BY <1>1, <1>2, <1>3, <1>4, RegStep

LEMMA CalmFacts ==
    ASSUME NEW k, DOMAIN k = Fields
    PROVE  /\ Calm(k, Looped(k)) /\ Calm(k, Advance(k))
           /\ k.at \notin {"prune", "panicked"} => Calm(k, Ran(k))
           /\ \A how \in {"closed", "replica"} : Calm(k, Ended(k, how))
<1>1. Calm(k, Looped(k)) /\ Calm(k, Advance(k))
  <2>1. /\ Looped(k).at \in {"read", "loop"} /\ Advance(k).at \in {"read", "loop"}
        /\ Looped(k).made = k.made /\ Looped(k).rx = k.rx /\ Advance(k).made = k.made /\ Advance(k).rx = k.rx
    BY LoopedFacts, AdvanceFacts DEF Fields
  <2> QED
    BY <2>1 DEF Calm
<1>2. k.at \notin {"prune", "panicked"} => Calm(k, Ran(k))
  <2>1. Ran(k).at = k.at /\ Ran(k).made = k.made /\ Ran(k).rx = k.rx
    BY RanFacts DEF Fields
  <2> QED
    BY <2>1 DEF Calm
<1>3. \A how \in {"closed", "replica"} : Calm(k, Ended(k, how))
  BY DEF Calm, Ended, Fields
<1> QED
  BY <1>1, <1>2, <1>3

\* Whatever else a step changes.
LEMMA CalmOther ==
    ASSUME NEW k, NEW u, NEW t, Calm(k, u), t.made = u.made, t.rx = u.rx, t.at = u.at \/ t.at \notin {"prune", "panicked"}
    PROVE  Calm(k, t)
BY DEF Calm

-----------------------------------------------------------------------------
(* The registry: reading, and the loop up to dispatch.                       *)

LEMMA ReadReg == ASSUME RegInv, IInv, NEW c \in Conns, ReadStep(c) PROVE RegInv'
<1> DEFINE k == conn[c]
<1>1. ConnInv /\ DOMAIN k = Fields
  BY OldContext
<1>2. PICK new, rest : GotBytes(c, new, rest)
  BY DEF ReadStep, Read, ReadCut
<1> DEFINE t == [k EXCEPT !.buf = Joined(k.buf, new), !.at = "loop", !.loop = IF k.sub_mode THEN "sub" ELSE "normal"]
<1>3. conn' = [conn EXCEPT ![c] = t] /\ UNCHANGED registryVars /\ misremoved' = misremoved
  BY <1>1, <1>2 DEF GotBytes, ConnInv, serverVars
<1> HIDE DEF k
<1>4. Calm(k, t)
  BY <1>1 DEF Calm, Fields
<1> HIDE DEF t
<1> QED
  BY <1>1, <1>3, <1>4, CalmStep DEF k

LEMMA ParseReg ==
    ASSUME RegInv, IInv, NEW c \in Conns, NoArgs(c) \/ ProtocolError(c) \/ ClearBuffer(c) \/ HandlePsync(c) \/ Hangup(c)
    PROVE  RegInv'
<1> DEFINE k == conn[c]
           cleared == [k EXCEPT !.buf = <<>>]
<1>1. ConnInv /\ DOMAIN k = Fields
  BY OldContext
<1>2. UNCHANGED registryVars /\ misremoved' = misremoved
  BY DEF NoArgs, ProtocolError, ClearBuffer, HandlePsync, Hangup, serverVars, registryVars
<1>3. CASE NoArgs(c)
  <2> DEFINE t == [k EXCEPT !.at = "read"]
  <2>1. conn' = [conn EXCEPT ![c] = t]
    BY <1>1, <1>3 DEF NoArgs, ConnInv
  <2>2. Calm(k, t)
    BY <1>1 DEF Calm, Fields
  <2> QED
    BY <1>1, <1>2, <2>1, <2>2, CalmStep
<1>4. CASE ProtocolError(c) \/ HandlePsync(c) \/ Hangup(c)
  <2>1. PICK how \in {"closed", "replica"} : conn' = [conn EXCEPT ![c] = Ended(k, how)]
    BY <1>4 DEF ProtocolError, HandlePsync, Hangup
  <2>2. Calm(k, Ended(k, how))
    BY <1>1, CalmFacts
  <2> QED
    BY <1>1, <1>2, <2>1, <2>2, CalmStep
<1>5. CASE ClearBuffer(c)
  <2>1. conn' = [conn EXCEPT ![c] = Looped(cleared)]
    BY <1>5 DEF ClearBuffer
  <2> HIDE DEF k
  <2>2. DOMAIN cleared = Fields /\ cleared.made = k.made /\ cleared.rx = k.rx
    BY <1>1 DEF Fields
  <2> HIDE DEF cleared
  <2>3. Calm(cleared, Looped(cleared))
    BY <2>2, CalmFacts
  <2>4. Calm(k, Looped(cleared))
    BY <2>2, <2>3 DEF Calm
  <2> QED
    BY <1>1, <1>2, <2>1, <2>4, CalmStep DEF k
<1> QED
  BY <1>3, <1>4, <1>5

LEMMA BeginReg ==
    ASSUME RegInv, IInv, NEW c \in Conns, HandleAuth(c) \/ NoAuth(c) \/ QueueCommand(c) \/ Begin(c) \/ SubBegin(c)
    PROVE  RegInv'
<1> DEFINE k == conn[c]
           u == Advance(k)
<1>1. ConnInv /\ DOMAIN k = Fields
  BY OldContext
<1>2. UNCHANGED registryVars /\ misremoved' = misremoved
  BY DEF HandleAuth, NoAuth, QueueCommand, Begin, SubBegin, serverVars, registryVars
<1>3. DOMAIN u = Fields /\ Calm(k, u)
  BY <1>1, CalmFacts, AdvanceFacts
<1>4. CASE HandleAuth(c)
  <2> DEFINE t == [u EXCEPT !.authenticated = AuthResult(k, Item(c).op)]
  <2>1. conn' = [conn EXCEPT ![c] = t]
    BY <1>4 DEF HandleAuth
  <2> HIDE DEF u, k
  <2>2. Calm(k, t)
    BY <1>3, CalmOther DEF Fields
  <2> QED
    BY <1>1, <1>2, <2>1, <2>2, CalmStep DEF k
<1>5. CASE NoAuth(c)
  <2>1. conn' = [conn EXCEPT ![c] = u]
    BY <1>5 DEF NoAuth
  <2> QED
    BY <1>1, <1>2, <1>3, <2>1, CalmStep
<1>6. CASE QueueCommand(c)
  <2> DEFINE t == [u EXCEPT !.multi_queue = Append(k.multi_queue, Item(c))]
  <2>1. conn' = [conn EXCEPT ![c] = t]
    BY <1>6 DEF QueueCommand
  <2> HIDE DEF u, k
  <2>2. Calm(k, t)
    BY <1>3, CalmOther DEF Fields
  <2> QED
    BY <1>1, <1>2, <2>1, <2>2, CalmStep DEF k
<1>7. CASE Begin(c) \/ SubBegin(c)
  <2>1. PICK via : conn' = [conn EXCEPT ![c] = Dispatching(k, via)]
    BY <1>7 DEF Begin, SubBegin
  <2> DEFINE t == [u EXCEPT !.at = "run", !.cur = Head(k.buf), !.run = <<Head(k.buf)>>, !.via = via]
  <2>2. Dispatching(k, via) = t
    BY DEF Dispatching
  <2> HIDE DEF u, k
  <2>3. t.made = u.made /\ t.rx = u.rx /\ t.at = "run"
    BY <1>3 DEF Fields
  <2> HIDE DEF t
  <2>4. Calm(k, t)
    BY <1>3, <2>3, CalmOther
  <2> QED
    BY <1>1, <1>2, <2>1, <2>2, <2>4, CalmStep DEF k
<1> QED
  BY <1>4, <1>5, <1>6, <1>7

-----------------------------------------------------------------------------
(* The registry: handlers that leave it.                                     *)

\* A handler that has run, whatever it has changed but for the receiver.
LEMMA RanReg ==
    ASSUME RegInv, IInv, NEW c \in Conns, NEW t, conn' = [conn EXCEPT ![c] = t], t.at \in {"run", "script", "patterns"},
           t.made = conn[c].made, t.rx \in {conn[c].rx, NoRx}, UNCHANGED registryVars, misremoved' = misremoved
    PROVE  RegInv'
<1>1. ConnInv
  BY OldContext
<1>2. Calm(conn[c], t)
  BY DEF Calm
<1> QED
  BY <1>1, <1>2, CalmStep

LEMMA HandlerReg ==
    ASSUME RegInv, IInv, NEW c \in Conns,
           RunSet(c) \/ RunTransaction(c) \/ RunBlpop(c) \/ RunOther(c) \/ RunScript(c) \/ RunEval(c) \/ RunEvalsha(c)
    PROVE  RegInv'
<1> DEFINE k == conn[c]
           u == Ran(k)
<1>1. ConnInv /\ DOMAIN k = Fields
  BY OldContext
<1>2. UNCHANGED registryVars /\ misremoved' = misremoved
  BY DEF RunSet, RunTransaction, RunBlpop, RunOther, RunScript, RunEval, RunEvalsha, serverVars, registryVars
<1>3. k.at = "run"
  BY DEF RunSet, RunTransaction, RunBlpop, RunOther, RunScript, RunEval, RunEvalsha, Running, At
<1>4. DOMAIN u = Fields /\ u.at = "run" /\ u.made = k.made /\ u.rx = k.rx
  BY <1>1, <1>3, RanFacts DEF Fields
<1>5. CASE conn' = [conn EXCEPT ![c] = u]
  BY <1>2, <1>4, <1>5, RanReg
<1>6. CASE RunTransaction(c)
  <2> DEFINE op == Head(k.run).op
             t == Transacted(k, op)
  <2>1. conn' = [conn EXCEPT ![c] = t] /\ op \in {"multi", "discard", "exec"}
    BY <1>6 DEF RunTransaction, Running
  <2> HIDE DEF k, u, op
  <2>2. t.at = "run" /\ t.made = k.made /\ t.rx = k.rx
    <3>1. CASE op = "multi"
      <4>1. t = [u EXCEPT !.multi_mode = TRUE, !.multi_queue = <<>>]
        BY <3>1 DEF Transacted, u
      <4> QED
        BY <1>4, <4>1 DEF Fields
    <3>2. CASE op = "discard"
      <4>1. t = [u EXCEPT !.multi_mode = FALSE, !.multi_queue = <<>>]
        BY <3>2 DEF Transacted, u
      <4> QED
        BY <1>4, <4>1 DEF Fields
    <3>3. CASE op = "exec" /\ ~ k.multi_mode
      <4>1. t = u
        BY <3>3 DEF Transacted, u
      <4> QED
        BY <1>4, <4>1
    <3>4. CASE op = "exec" /\ k.multi_mode
      <4>1. t = [k EXCEPT !.multi_mode = FALSE, !.multi_queue = <<>>, !.run = k.multi_queue, !.via = "exec"]
        BY <3>4 DEF Transacted
      <4> QED
        BY <1>1, <1>3, <4>1 DEF Fields
    <3> QED
      BY <2>1, <3>1, <3>2, <3>3, <3>4
  <2> HIDE DEF t
  <2> QED
    BY <1>2, <2>1, <2>2, RanReg DEF k
<1>7. CASE RunBlpop(c) /\ conn' # [conn EXCEPT ![c] = u]
  <2> DEFINE b == [of |-> Head(k.run).id, via |-> IF k.sub_mode THEN "sub" ELSE k.via]
             t == [u EXCEPT !.block_state = b]
  <2>1. conn' = [conn EXCEPT ![c] = t]
    BY <1>7 DEF RunBlpop, Blocking
  <2> HIDE DEF k, u, b
  <2>2. t.at = "run" /\ t.made = k.made /\ t.rx = k.rx
    BY <1>4 DEF Fields
  <2> HIDE DEF t
  <2> QED
    BY <1>2, <2>1, <2>2, RanReg DEF k
<1>8. CASE (RunEval(c) \/ RunEvalsha(c)) /\ conn' # [conn EXCEPT ![c] = u]
  <2> DEFINE t == [k EXCEPT !.at = "script"]
  <2>1. conn' = [conn EXCEPT ![c] = t]
    BY <1>1, <1>8 DEF RunEval, RunEvalsha, ConnInv
  <2> HIDE DEF k, u
  <2>2. t.at = "script" /\ t.made = k.made /\ t.rx = k.rx
    BY <1>1 DEF Fields
  <2> HIDE DEF t
  <2> QED
    BY <1>2, <2>1, <2>2, RanReg DEF k
<1> QED
  BY <1>5, <1>6, <1>7, <1>8 DEF RunSet, RunOther, RunScript

LEMMA UnsubscribeReg == ASSUME RegInv, IInv, NEW c \in Conns, RunUnsubscribe(c) PROVE RegInv'
<1> DEFINE k == conn[c]
           u == Ran(k)
           v == IF Head(k.run).op = "unsubscribe"
                THEN [u EXCEPT !.subscribed_channels = Left(k.subscribed_channels, Names(c))]
                ELSE [u EXCEPT !.subscribed_patterns = Left(k.subscribed_patterns, Names(c))]
           t == Unsubscribed(v, Names(c))
<1>1. DOMAIN k = Fields
  BY OldContext
<1>2. UNCHANGED registryVars /\ misremoved' = misremoved /\ k.at = "run" /\ conn' = [conn EXCEPT ![c] = t]
  BY DEF RunUnsubscribe, serverVars, registryVars, Running, At
<1>3. DOMAIN u = Fields /\ u.at = "run" /\ u.made = k.made /\ u.rx = k.rx
  BY <1>1, <1>2, RanFacts DEF Fields
<1> HIDE DEF u, k
<1>4. DOMAIN v = Fields /\ v.at = "run" /\ v.made = k.made /\ v.rx = k.rx
  BY <1>3 DEF Fields
<1> HIDE DEF v
<1>5. t.at = "run" /\ t.made = k.made /\ t.rx \in {k.rx, NoRx}
  BY <1>4 DEF Unsubscribed, Fields
<1> HIDE DEF t
<1> QED
  BY <1>2, <1>5, RanReg DEF k

LEMMA FinishReg ==
    ASSUME RegInv, IInv, NEW c \in Conns, Finish(c) \/ Unpark(c) \/ SubFinish(c) \/ PublishPatterns(c)
    PROVE  RegInv'
<1> DEFINE k == conn[c]
           u == Looped(k)
           r == Ran(k)
<1>1. ConnInv /\ DOMAIN k = Fields
  BY OldContext
<1>2. UNCHANGED registryVars /\ misremoved' = misremoved
  BY DEF Finish, Unpark, SubFinish, PublishPatterns, serverVars, registryVars
<1>3. DOMAIN u = Fields /\ Calm(k, u)
  BY <1>1, CalmFacts, LoopedFacts
<1>4. CASE conn' = [conn EXCEPT ![c] = u]
  BY <1>1, <1>2, <1>3, <1>4, CalmStep
<1>5. CASE Finish(c) /\ conn' # [conn EXCEPT ![c] = u]
  <2> DEFINE t == [k EXCEPT !.at = "parked", !.waits = k.block_state, !.block_state = NoBlock]
  <2>1. conn' = [conn EXCEPT ![c] = t]
    BY <1>1, <1>5 DEF Finish, ConnInv
  <2> HIDE DEF k, u
  <2>2. Calm(k, t)
    BY <1>1 DEF Calm, Fields
  <2> HIDE DEF t
  <2> QED
    BY <1>1, <1>2, <2>1, <2>2, CalmStep DEF k
<1>6. CASE Unpark(c)
  <2> DEFINE t == [u EXCEPT !.waits = NoBlock]
  <2>1. conn' = [conn EXCEPT ![c] = t]
    BY <1>6 DEF Unpark
  <2> HIDE DEF k, u
  <2>2. Calm(k, t)
    BY <1>3, CalmOther DEF Fields
  <2> HIDE DEF t
  <2> QED
    BY <1>1, <1>2, <2>1, <2>2, CalmStep DEF k
<1>7. CASE SubFinish(c) /\ conn' # [conn EXCEPT ![c] = u]
  <2> DEFINE t == [k EXCEPT !.at = "read"]
  <2>1. conn' = [conn EXCEPT ![c] = t]
    BY <1>1, <1>7 DEF SubFinish
  <2> HIDE DEF k, u
  <2>2. Calm(k, t)
    BY <1>1 DEF Calm, Fields
  <2> HIDE DEF t
  <2> QED
    BY <1>1, <1>2, <2>1, <2>2, CalmStep DEF k
<1>8. CASE PublishPatterns(c)
  <2> DEFINE t == [r EXCEPT !.at = "run", !.dead = {}]
  <2>1. conn' = [conn EXCEPT ![c] = t]
    BY <1>8 DEF PublishPatterns
  <2>2. DOMAIN r = Fields /\ r.made = k.made /\ r.rx = k.rx
    BY <1>1, RanFacts DEF Fields
  <2> HIDE DEF k, r
  <2>3. t.at = "run" /\ t.made = k.made /\ t.rx = k.rx
    BY <2>2 DEF Fields
  <2> HIDE DEF t
  <2> QED
    BY <1>2, <2>1, <2>3, RanReg DEF k
<1> QED
  BY <1>4, <1>5, <1>6, <1>7, <1>8

-----------------------------------------------------------------------------
(* The registry: SUBSCRIBE and PSUBSCRIBE.                                   *)

\* What a command names.
LEMMA NamesOf ==
    ASSUME NEW x \in Items
    PROVE  /\ x.op \in {"subscribe", "psubscribe", "publish"} =>
                 x.names # <<>> /\ Len(x.names) \in Nat /\ DOMAIN x.names = 1 .. Len(x.names)
           /\ x.op \in {"subscribe", "publish"} => Range(x.names) \subseteq Channels
           /\ x.op \in {"eval", "evalsha"} /\ Head(x.names) = "subscribe" =>
                 \E ch \in Channels : x.names = <<"subscribe", ch>>
<1>1. PICK y \in Commands : x.op = y.op /\ x.names = y.names
  BY DEF Items
<1>2. PICK s \in Setups, c \in Conns : y \in Range(s.script[c])
  BY <1>1 DEF Commands
<1> QED
  BY <1>1, <1>2, NamesAssumption

\* The command whose handler runs.
LEMMA RunsItem == ASSUME OrderInv, NEW c \in Conns, conn[c].run # <<>> PROVE Head(conn[c].run) \in Items
<1>1. conn[c].run \in Seq(Items)
  BY DEF OrderInv, Mode
<1> QED
  BY <1>1

\* subscribe_channel: connection c's new senders, after m others of its own.
LEMMA SendersAdded ==
    ASSUME RegInv, NEW c \in Conns, NEW m \in Nat, NEW n \in Nat, NEW names, NEW txs,
           DOMAIN names = 1 .. n, \A i \in 1 .. n : txs[i] = <<c, m + i>>
    PROVE  /\ Grown(channels, WithSenders(names, txs), c, m + n)
           /\ \A i \in 1 .. n : names[i] \in Channels => txs[i] \in Range(WithSenders(names, txs)[names[i]])
<1> DEFINE b == WithSenders(names, txs)
           Mine(ch) == {i \in 1 .. n : names[i] = ch}
<1>1. b = [ch \in Channels |-> channels[ch] \o Picked(txs, Mine(ch))]
  BY DEF WithSenders
<1>2. ASSUME NEW ch \in Channels
      PROVE  /\ b[ch] \in Seq(Senders) /\ Len(channels[ch]) <= Len(b[ch])
             /\ \A i \in 1 .. Len(channels[ch]) : b[ch][i] = channels[ch][i]
             /\ \A i \in Len(channels[ch]) + 1 .. Len(b[ch]) : b[ch][i][1] = c /\ b[ch][i][2] <= m + n
             /\ \A i \in Mine(ch) : txs[i] \in Range(b[ch])
  <2> DEFINE a == channels[ch]
             p == Picked(txs, Mine(ch))
  <2>1. a \in Seq(Senders)
    BY DEF RegInv, RegistryInv
  <2>2. Mine(ch) \in SUBSET (1 .. n) /\ \A i \in Mine(ch) : txs[i] \in Senders
    <3>1. \A i \in 1 .. n : m + i \in Nat
      OBVIOUS
    <3>2. ASSUME NEW i \in 1 .. n PROVE txs[i] \in Senders
      <4>1. <<c, m + i>> \in Senders
        BY <3>1 DEF Senders
      <4> QED
        BY <4>1
    <3> QED
      BY <3>2
  <2>3. /\ p \in Seq(Senders)
        /\ \A j \in 1 .. Len(p) : \E i \in Mine(ch) : p[j] = txs[i]
        /\ \A i \in Mine(ch) : \E j \in 1 .. Len(p) : p[j] = txs[i]
    <3> HIDE DEF Mine
    <3> QED
      BY <2>2, PickedFacts
  <2>4. b[ch] = a \o p
    BY <1>1
  <2>5. \A i \in Mine(ch) : i \in 1 .. n
    OBVIOUS
  <2> HIDE DEF a, p, b, Mine
  <2>6. Len(a) \in Nat /\ Len(p) \in Nat
    BY <2>1, <2>3
  <2>7. /\ b[ch] \in Seq(Senders) /\ Len(b[ch]) = Len(a) + Len(p)
        /\ \A i \in 1 .. Len(a) + Len(p) : b[ch][i] = IF i <= Len(a) THEN a[i] ELSE p[i - Len(a)]
    <3>1. /\ a \o p \in Seq(Senders) /\ Len(a \o p) = Len(a) + Len(p)
          /\ \A i \in 1 .. Len(a) + Len(p) : (a \o p)[i] = IF i <= Len(a) THEN a[i] ELSE p[i - Len(a)]
      BY <2>1, <2>3, ConcatProperties, Zenon
    <3> QED
      BY <2>4, <3>1, Zenon
  <2>8. ASSUME NEW i \in Len(a) + 1 .. Len(b[ch]) PROVE b[ch][i][1] = c /\ b[ch][i][2] <= m + n
    <3>1. i - Len(a) \in 1 .. Len(p) /\ b[ch][i] = p[i - Len(a)]
      BY <2>6, <2>7
    <3>2. PICK q \in Mine(ch) : b[ch][i] = txs[q]
      BY <2>3, <3>1, ZenonT(60)
    <3>3. txs[q] = <<c, m + q>> /\ q \in 1 .. n
      BY <2>5
    <3> QED
      BY <3>2, <3>3
  <2>9. ASSUME NEW i \in Mine(ch) PROVE txs[i] \in Range(b[ch])
    <3>1. PICK j \in 1 .. Len(p) : p[j] = txs[i]
      BY <2>3
    <3>2. Len(a) + j \in 1 .. Len(a) + Len(p) /\ ~ (Len(a) + j <= Len(a)) /\ Len(a) + j - Len(a) = j
      BY <2>6
    <3>3. b[ch][Len(a) + j] = p[j]
      <4> DEFINE q == Len(a) + j
      <4>1. b[ch][q] = IF q <= Len(a) THEN a[q] ELSE p[q - Len(a)]
        BY <2>7, <3>2
      <4> QED
        BY <3>2, <4>1
    <3>4. Len(a) + j \in DOMAIN b[ch]
      BY <2>7, <3>2
    <3> QED
      BY <3>1, <3>3, <3>4 DEF Range
  <2>10. Len(a) <= Len(b[ch]) /\ \A i \in 1 .. Len(a) : b[ch][i] = a[i]
    BY <2>6, <2>7
  <2> QED
    BY <2>7, <2>8, <2>9, <2>10 DEF a
<1>3. b = [ch \in Channels |-> b[ch]]
  BY <1>1
<1>4. ASSUME NEW i \in 1 .. n, names[i] \in Channels PROVE txs[i] \in Range(b[names[i]])
  <2>1. i \in Mine(names[i])
    OBVIOUS
  <2> QED
    BY <1>2, <1>4, <2>1
<1> HIDE DEF b
<1>5. Grown(channels, b, c, m + n)
  BY <1>2, <1>3 DEF Grown
<1> QED
  BY <1>4, <1>5 DEF b

\* What the two handlers make of the context.
LEMMA ReceiverFacts ==
    ASSUME NEW k, DOMAIN k = Fields, k.made \in Nat, k.at = "run", NEW kind, NEW names, Len(names) \in Nat
    PROVE  LET w == WithReceiver(k, kind, names)
           IN  /\ DOMAIN w = Fields /\ w.at = "run" /\ w.made = k.made + Len(names)
               /\ w.rx = [n |-> k.made + Len(names), kind |-> kind, name |-> Last(names)]
<1> DEFINE u == Ran(k)
           x == [n |-> k.made + Len(names), kind |-> kind, name |-> Last(names)]
<1>1. DOMAIN u = Fields /\ u.at = "run" /\ u.made = k.made
  BY RanFacts DEF Fields
<1>2. WithReceiver(k, kind, names) = [u EXCEPT !.made = @ + Len(names), !.sub_mode = TRUE, !.rx = x]
  BY DEF WithReceiver
<1> HIDE DEF u, x
<1>3. LET w == [u EXCEPT !.made = @ + Len(names), !.sub_mode = TRUE, !.rx = x]
      IN  DOMAIN w = Fields /\ w.at = "run" /\ w.made = k.made + Len(names) /\ w.rx = x
  BY <1>1 DEF Fields
<1> QED
  BY <1>2, <1>3 DEF x

LEMMA SubscribeReg ==
    ASSUME RegInv, IInv, OrderInv, NEW c \in Conns, RunSubscribe(c) \/ RunPsubscribe(c)
    PROVE  RegInv'
<1> DEFINE k == conn[c]
           names == Names(c)
           n == Len(names)
<1>1. ConnInv /\ DOMAIN k = Fields
  BY OldContext
<1>2. k.at = "run" /\ k.run # <<>> /\ Head(k.run).op \in {"subscribe", "psubscribe"} /\ misremoved' = misremoved
  BY DEF RunSubscribe, RunPsubscribe, serverVars, Running, At
<1>3. /\ names # <<>> /\ n \in Nat /\ DOMAIN names = 1 .. n
      /\ Head(k.run).op = "subscribe" => Range(names) \subseteq Channels
  <2>1. Head(k.run) \in Items
    BY <1>2, RunsItem
  <2> QED
    BY <1>2, <2>1, NamesOf DEF Names
<1>4. k.made \in Nat
  BY DEF RegInv
<1>5. n \in 1 .. n /\ Last(names) = names[n]
  <2>1. n # 0
    BY <1>3, EmptySeq
  <2> QED
    BY <1>3, <2>1 DEF Last
<1>6. \A i \in 1 .. n : NewSenders(c)[i] = <<c, k.made + i>>
  BY <1>3 DEF NewSenders
<1> HIDE DEF n, names
<1>7. CASE RunSubscribe(c)
  <2> DEFINE w == WithReceiver(k, "channel", names)
             t == [w EXCEPT !.subscribed_channels = k.subscribed_channels \o names]
  <2>1. /\ conn' = [conn EXCEPT ![c] = t] /\ channels' = WithSenders(names, NewSenders(c)) /\ patterns' = patterns
        /\ Head(k.run).op = "subscribe"
    BY <1>7 DEF RunSubscribe, subscribe_channel, names, Running
  <2>2. /\ DOMAIN w = Fields /\ w.at = "run" /\ w.made = k.made + n
        /\ w.rx = [n |-> k.made + n, kind |-> "channel", name |-> Last(names)]
    BY <1>1, <1>2, <1>3, <1>4, ReceiverFacts DEF n
  <2> HIDE DEF k, w
  <2>3. t.at = "run" /\ t.made = k.made + n /\ t.rx = [n |-> k.made + n, kind |-> "channel", name |-> Last(names)]
    BY <2>2 DEF Fields
  <2> HIDE DEF t
  <2>4. /\ Grown(channels, channels', c, k.made + n)
        /\ names[n] \in Channels => NewSenders(c)[n] \in Range(channels'[names[n]])
    BY <1>3, <1>4, <1>5, <1>6, <2>1, SendersAdded
  <2>5. names[n] \in Channels
    BY <1>3, <1>5, <2>1 DEF Range
  <2>6. Listed(c, t.rx, channels', patterns', misremoved')
    BY <1>5, <1>6, <2>3, <2>4, <2>5 DEF Listed
  <2>7. t.made \in Nat /\ k.made <= t.made /\ t.rx.n \in Nat /\ t.rx.n > k.made
    BY <1>4, <1>5, <2>3
  <2>8. Excused(t) /\ t.at # "prune"
    BY <2>3 DEF Excused
  <2> QED
    BY <1>1, <1>2, <2>1, <2>3, <2>4, <2>6, <2>7, <2>8, RegStep DEF k
<1>8. CASE RunPsubscribe(c)
  <2> DEFINE w == WithReceiver(k, "pattern", names)
             t == [w EXCEPT !.subscribed_patterns = k.subscribed_patterns \o names]
  <2>1. /\ conn' = [conn EXCEPT ![c] = t] /\ channels' = channels
        /\ patterns' = patterns \cup {<<names[i], NewSenders(c)[i]>> : i \in DOMAIN names}
    BY <1>8 DEF RunPsubscribe, subscribe_pattern, names
  <2>2. /\ DOMAIN w = Fields /\ w.at = "run" /\ w.made = k.made + n
        /\ w.rx = [n |-> k.made + n, kind |-> "pattern", name |-> Last(names)]
    BY <1>1, <1>2, <1>3, <1>4, ReceiverFacts DEF n
  <2> HIDE DEF k, w
  <2>3. t.at = "run" /\ t.made = k.made + n /\ t.rx = [n |-> k.made + n, kind |-> "pattern", name |-> Last(names)]
    BY <2>2 DEF Fields
  <2> HIDE DEF t
  <2>4. Grown(channels, channels', c, t.made)
    BY <2>1, SameGrown DEF RegInv
  <2>5. <<names[n], <<c, k.made + n>>>> \in patterns'
    BY <1>3, <1>5, <1>6, <2>1
  <2>6. Listed(c, t.rx, channels', patterns', misremoved')
    BY <1>5, <2>3, <2>5 DEF Listed
  <2>7. t.made \in Nat /\ k.made <= t.made /\ t.rx.n \in Nat /\ t.rx.n > k.made
    BY <1>4, <1>5, <2>3
  <2>8. Excused(t) /\ t.at # "prune" /\ patterns \subseteq patterns'
    BY <2>1, <2>3 DEF Excused
  <2> QED
    BY <1>1, <1>2, <2>1, <2>3, <2>4, <2>6, <2>7, <2>8, RegStep DEF k
<1> QED
  BY <1>7, <1>8

\* A script's call: its SUBSCRIBE leaves a sender and no receiver.
LEMMA CallReg ==
    ASSUME RegInv, IInv, OrderInv, NEW c \in Conns, CallSet(c) \/ CallSubscribe(c) \/ CallOther(c) \/ CallFlush(c)
    PROVE  RegInv'
<1> DEFINE k == conn[c]
           u == Ran(k)
<1>1. ConnInv /\ DOMAIN k = Fields
  BY OldContext
<1>2. k.made \in Nat
  BY DEF RegInv
<1>3. PICK body : Called(c, body) /\ (body = "subscribe" => CallSubscribe(c)) /\ (body # "subscribe" => UNCHANGED registryVars)
  BY DEF CallSet, CallSubscribe, CallOther, CallFlush
<1> DEFINE n == k.made + (IF body = "subscribe" THEN 1 ELSE 0)
           t == [u EXCEPT !.at = "run", !.made = n]
<1>4. conn' = [conn EXCEPT ![c] = t] /\ misremoved' = misremoved /\ k.at = "script" /\ Body(k) = body
  BY <1>3 DEF Called, At
<1>5. DOMAIN u = Fields /\ u.rx = k.rx
  BY <1>1, RanFacts DEF Fields
<1> HIDE DEF k, u, n
<1>6. t.at = "run" /\ t.made = n /\ t.rx = k.rx
  BY <1>5 DEF Fields
<1> HIDE DEF t
<1>7. CASE body # "subscribe"
  <2>1. n = k.made
    BY <1>2, <1>7 DEF n
  <2> QED
    BY <1>3, <1>4, <1>6, <1>7, <2>1, RanReg DEF k
<1>8. CASE body = "subscribe"
  <2>1. n = k.made + 1
    BY <1>8 DEF n
  <2>2. PICK ch \in Channels : Names(c) = <<"subscribe", ch>>
    <3>1. k.run # <<>> /\ Head(k.run).op \in {"eval", "evalsha"}
      BY <1>4 DEF OrderInv, Mode, k
    <3>2. Head(k.run) \in Items
      BY <3>1, RunsItem DEF k
    <3>3. Head(Head(k.run).names) = "subscribe"
      BY <1>4, <1>8 DEF Body
    <3> QED
      BY <3>1, <3>2, <3>3, NamesOf DEF Names, k
  <2>3. Tail(Names(c)) = <<ch>>
    BY <2>2
  <2> DEFINE txs == <<<<c, k.made + 1>>>>
  <2>4. channels' = WithSenders(<<ch>>, txs) /\ patterns' = patterns
    BY <1>3, <1>8, <2>3 DEF CallSubscribe, subscribe_channel, k
  <2>5. DOMAIN <<ch>> = 1 .. 1 /\ \A i \in 1 .. 1 : txs[i] = <<c, k.made + i>>
    OBVIOUS
  <2> HIDE DEF txs
  <2>6. Grown(channels, channels', c, k.made + 1)
    BY <1>2, <2>4, <2>5, SendersAdded
  <2>7. Excused(t) /\ t.at # "prune" /\ t.made \in Nat /\ k.made <= t.made
    BY <1>2, <1>6, <2>1 DEF Excused
  <2> QED
    BY <1>1, <1>4, <1>6, <2>1, <2>4, <2>6, <2>7, RegStep DEF k
<1> QED
  BY <1>7, <1>8

-----------------------------------------------------------------------------
(* The registry: PUBLISH, and handlers that panic.                           *)

LEMMA PublishesOn ==
    ASSUME OrderInv, NEW c \in Conns, conn[c].at = "prune" \/ Running(c, {"publish"})
    PROVE  PublishedOn(conn[c]) \in Channels
<1>1. conn[c].run # <<>> /\ Head(conn[c].run).op = "publish"
  BY DEF OrderInv, Mode, Running
<1> DEFINE names == Head(conn[c].run).names
<1>2. names # <<>> /\ Len(names) \in Nat /\ DOMAIN names = 1 .. Len(names) /\ Range(names) \subseteq Channels
  BY <1>1, RunsItem, NamesOf
<1>3. PublishedOn(conn[c]) = names[1]
  BY <1>2 DEF PublishedOn
<1> HIDE DEF names
<1>4. 1 \in DOMAIN names
  BY <1>2, EmptySeq
<1> QED
  BY <1>2, <1>3, <1>4 DEF Range

\* A sender that is not alive has no receiver.
LEMMA AliveFacts == ASSUME NEW x \in Senders PROVE x \in Alive <=> Lives(x, conn)
<1>1. PICK o \in Conns, n \in Nat : x = <<o, n>>
  BY DEF Senders
<1>2. x[1] = o /\ x[2] = n
  BY <1>1
<1>3. ASSUME Lives(x, conn) PROVE x \in Alive
  BY <1>1, <1>2, <1>3 DEF Lives, Alive
<1>4. ASSUME x \in Alive PROVE Lives(x, conn)
  <2>1. PICK c \in Conns : conn[c].rx # NoRx /\ x = <<c, conn[c].rx.n>>
    BY <1>4 DEF Alive
  <2>2. c = x[1] /\ conn[c].rx.n = x[2]
    BY <2>1
  <2> QED
    BY <2>1, <2>2 DEF Lives
<1> QED
  BY <1>3, <1>4

LEMMA SendReg == ASSUME RegInv, IInv, OrderInv, NEW c \in Conns, PublishSend(c) PROVE RegInv'
<1> DEFINE k == conn[c]
           ch == PublishedOn(k)
           d == Dead(ch, Alive)
           t == [k EXCEPT !.at = IF d = {} THEN "patterns" ELSE "prune", !.dead = d, !.stale = FALSE]
<1>1. ConnInv /\ DOMAIN k = Fields /\ k.made \in Nat
  BY OldContext DEF RegInv
<1>2. conn' = [conn EXCEPT ![c] = t] /\ misremoved' = misremoved /\ channels' = channels /\ patterns' = patterns
  BY <1>1 DEF PublishSend, ConnInv, serverVars, registryVars
<1>3. ch \in Channels
  BY PublishesOn DEF PublishSend
<1>4. \A i \in d : i \in 1 .. Len(channels[ch]) /\ ~ Lives(channels[ch][i], conn)
  <2> SUFFICES ASSUME NEW i \in d PROVE i \in 1 .. Len(channels[ch]) /\ ~ Lives(channels[ch][i], conn)
    OBVIOUS
  <2>1. channels[ch] \in Seq(Senders)
    BY <1>3 DEF RegInv, RegistryInv
  <2>2. i \in DOMAIN channels[ch] /\ channels[ch][i] \notin Alive
    BY DEF Dead
  <2>3. i \in 1 .. Len(channels[ch]) /\ channels[ch][i] \in Senders
    BY <2>1, <2>2
  <2> QED
    BY <2>2, <2>3, AliveFacts
<1> HIDE DEF k, d
<1>5. t.at \in {"prune", "patterns"} /\ t.dead = d /\ t.run = k.run /\ t.made = k.made /\ t.rx = k.rx
  BY <1>1 DEF Fields
<1> HIDE DEF t
<1>6. Noted(t, channels, conn)
  BY <1>3, <1>4, <1>5 DEF Noted, PublishedOn
<1>7. Excused(t)
  BY <1>5 DEF Excused
<1>8. Grown(channels, channels', c, t.made)
  BY <1>2, SameGrown DEF RegInv
<1>9. t.made \in Nat /\ conn[c].made <= t.made /\ t.rx \in {conn[c].rx, NoRx}
  BY <1>1, <1>5 DEF k
<1> QED
  BY <1>1, <1>2, <1>6, <1>7, <1>8, <1>9, RegStep

LEMMA PanicReg == ASSUME RegInv, IInv, OrderInv, NEW c \in Conns, RunShort(c) \/ PublishPanic(c) PROVE RegInv'
<1> DEFINE k == conn[c]
           t == Ended(k, "panicked")
<1>1. ConnInv /\ DOMAIN k = Fields /\ k.made \in Nat
  BY OldContext DEF RegInv
<1>2. conn' = [conn EXCEPT ![c] = t] /\ misremoved' = misremoved /\ channels' = channels /\ patterns' = patterns
  BY DEF RunShort, PublishPanic, serverVars, registryVars
<1>3. k.stale \/ Head(k.run).op = "short"
  <2>1. CASE RunShort(c)
    BY <2>1 DEF RunShort, Running
  <2>2. CASE PublishPanic(c)
    <3> SUFFICES ASSUME ~ k.stale PROVE FALSE
      OBVIOUS
    <3> DEFINE ch == PublishedOn(k)
    <3>1. k.at = "prune" /\ ~ (k.dead \subseteq DOMAIN channels[ch])
      BY <2>2 DEF PublishPanic, At, RemovalPanics
    <3>2. ch \in Channels /\ \A i \in k.dead : i \in 1 .. Len(channels[ch])
      BY <3>1 DEF RegInv, Noted
    <3>3. DOMAIN channels[ch] = 1 .. Len(channels[ch])
      BY <3>2 DEF RegInv, RegistryInv
    <3> QED
      BY <3>1, <3>2, <3>3
  <2> QED
    BY <2>1, <2>2
<1> HIDE DEF k
<1>4. t.at = "panicked" /\ t.run = k.run /\ t.stale = k.stale /\ t.made = k.made /\ t.rx = NoRx
  BY <1>1 DEF Ended, Fields
<1> HIDE DEF t
<1>5. Excused(t) /\ t.at # "prune"
  BY <1>3, <1>4 DEF Excused
<1>6. Grown(channels, channels', c, t.made)
  BY <1>2, SameGrown DEF RegInv
<1>7. t.made \in Nat /\ conn[c].made <= t.made /\ t.rx \in {conn[c].rx, NoRx}
  BY <1>1, <1>4 DEF k
<1> QED
  BY <1>1, <1>2, <1>5, <1>6, <1>7, RegStep

\* publish_channel under the write lock: indices that are up to date take no
\* sender with a receiver, others tell what they took.
LEMMA RemoveReg == ASSUME RegInv, IInv, OrderInv, NEW c \in Conns, PublishRemove(c) PROVE RegInv'
<1> DEFINE k == conn[c]
           ch == PublishedOn(k)
           a == channels[ch]
           left == DOMAIN a \ k.dead
           b == Picked(a, left)
<1>1. k.at = "prune" /\ ch \in Channels
  BY PublishesOn DEF PublishRemove, At
<1>2. /\ channels' = [channels EXCEPT ![ch] = b] /\ patterns' = patterns
      /\ misremoved' = IF k.stale THEN misremoved \cup (Range(a) \ Range(channels'[ch])) ELSE misremoved
      /\ conn' = [o \in Conns |-> IF o = c THEN [conn[o] EXCEPT !.at = "patterns"]
                                  ELSE IF o \in Overlapping(c) THEN [conn[o] EXCEPT !.stale = TRUE] ELSE conn[o]]
  BY DEF PublishRemove, remove_dead, Removed, Without
<1>3. ConnInv /\ \A o \in Conns : DOMAIN conn[o] = Fields
  BY OldContext
<1>4. DOMAIN channels = Channels /\ a \in Seq(Senders) /\ \A i \in 1 .. Len(a) : MadeBy(a[i], conn)
  BY <1>1 DEF RegInv, RegistryInv
<1>5. channels'[ch] = b /\ \A h \in Channels \ {ch} : channels'[h] = channels[h]
  BY <1>1, <1>2, <1>4
<1>6. /\ b \in Seq(Senders)
      /\ \A j \in 1 .. Len(b) : \E i \in 1 .. Len(a) : b[j] = a[i]
      /\ \A i \in left : a[i] \in Range(b)
  <2>1. Len(a) \in Nat /\ DOMAIN a = 1 .. Len(a) /\ left \in SUBSET (1 .. Len(a)) /\ \A i \in left : a[i] \in Senders
    BY <1>4
  <2> HIDE DEF left, a, b
  <2>2. /\ b \in Seq(Senders)
        /\ \A j \in 1 .. Len(b) : \E i \in left : b[j] = a[i]
        /\ \A i \in left : \E j \in 1 .. Len(b) : b[j] = a[i]
    BY <2>1, PickedFacts DEF b
  <2>3. DOMAIN b = 1 .. Len(b)
    BY <2>2
  <2> QED
    BY <2>1, <2>2, <2>3 DEF Range
<1>7. /\ conn'[c].at = "patterns"
      /\ \A o \in Conns : /\ conn'[o].rx = conn[o].rx /\ conn'[o].made = conn[o].made /\ conn'[o].run = conn[o].run
                          /\ conn'[o].dead = conn[o].dead
                          /\ o # c => conn'[o].at = conn[o].at
                          /\ conn[o].stale => conn'[o].stale
                          /\ o \in Overlapping(c) => conn'[o].stale
  <2>1. \A o \in Conns : conn'[o] = IF o = c THEN [conn[o] EXCEPT !.at = "patterns"]
                                    ELSE IF o \in Overlapping(c) THEN [conn[o] EXCEPT !.stale = TRUE] ELSE conn[o]
    BY <1>2
  <2>2. c \notin Overlapping(c)
    BY DEF Overlapping
  <2> QED
    BY <1>3, <2>1, <2>2, ZenonT(60) DEF Fields
<1> HIDE DEF a, b, left
<1>8. \A x : (Lives(x, conn') => x[1] \notin Conns \/ Lives(x, conn)) /\ (x[1] \in Conns /\ MadeBy(x, conn) => MadeBy(x, conn'))
  BY <1>7 DEF Lives, MadeBy
<1>9. RegistryInv'
  <2>1. channels' = [h \in Channels |-> channels'[h]]
    BY <1>2, <1>4
  <2>2. ASSUME NEW h \in Channels
        PROVE  channels'[h] \in Seq(Senders) /\ \A i \in 1 .. Len(channels'[h]) : MadeBy(channels'[h][i], conn')
    <3>1. CASE h = ch
      <4>1. \A i \in 1 .. Len(a) : a[i][1] \in Conns
        BY <1>4 DEF Senders
      <4> QED
        BY <1>4, <1>5, <1>6, <1>8, <3>1, <4>1
    <3>2. CASE h # ch
      <4>1. channels[h] \in Seq(Senders) /\ \A i \in 1 .. Len(channels[h]) : MadeBy(channels[h][i], conn)
        BY DEF RegInv, RegistryInv
      <4>2. \A i \in 1 .. Len(channels[h]) : channels[h][i][1] \in Conns
        BY <4>1 DEF Senders
      <4> QED
        BY <1>5, <1>8, <3>2, <4>1, <4>2
    <3> QED
      BY <3>1, <3>2
  <2> QED
    BY <2>1, <2>2 DEF RegistryInv
<1>10. ASSUME NEW o \in Conns PROVE Listed(o, conn'[o].rx, channels', patterns', misremoved')
  <2> DEFINE rx == conn[o].rx
             x == <<o, rx.n>>
  <2>1. conn'[o].rx = rx /\ Listed(o, rx, channels, patterns, misremoved)
    BY <1>7 DEF RegInv
  <2>2. ASSUME rx.kind = "channel", x \in Range(channels[rx.name]) PROVE x \in Range(channels'[rx.name]) \cup misremoved'
    <3>0. rx.name \in Channels /\ rx # NoRx
      BY <2>1, <2>2 DEF Listed, NoRx
    <3>1. CASE rx.name # ch
      BY <1>5, <2>2, <3>0, <3>1
    <3>2. CASE rx.name = ch /\ k.stale
      BY <1>2, <2>2, <3>2 DEF a
    <3>3. CASE rx.name = ch /\ ~ k.stale
      <4>1. PICK i \in DOMAIN a : a[i] = x
        BY <2>2, <3>3 DEF Range, a
      <4>2. Lives(a[i], conn)
        BY <3>0, <4>1 DEF Lives
      <4>3. i \notin k.dead
        BY <1>1, <3>3, <4>2 DEF RegInv, Noted, a
      <4> QED
        BY <1>5, <1>6, <3>3, <4>1, <4>3 DEF left
    <3> QED
      BY <3>1, <3>2, <3>3
  <2>3. misremoved \subseteq misremoved'
    BY <1>2
  <2> HIDE DEF rx
  <2> QED
    BY <1>2, <2>1, <2>2, <2>3 DEF Listed
<1>11. ASSUME NEW o \in Conns, conn'[o].at = "prune", ~ conn'[o].stale PROVE Noted(conn'[o], channels', conn')
  <2> DEFINE h == PublishedOn(conn[o])
  <2>1. o # c /\ conn[o].at = "prune" /\ ~ conn[o].stale /\ o \notin Overlapping(c)
    BY <1>7, <1>11
  <2>2. Noted(conn[o], channels, conn)
    BY <2>1 DEF RegInv
  <2>3. h # ch
    BY <2>1 DEF Overlapping, At
  <2>4. PublishedOn(conn'[o]) = h /\ conn'[o].dead = conn[o].dead
    BY <1>7 DEF PublishedOn
  <2>5. h \in Channels /\ channels'[h] = channels[h]
    BY <1>5, <2>2, <2>3 DEF Noted
  <2> HIDE DEF h
  <2>6. ASSUME NEW i \in conn[o].dead PROVE i \in 1 .. Len(channels'[h]) /\ ~ Lives(channels'[h][i], conn')
    <3>1. i \in 1 .. Len(channels[h]) /\ ~ Lives(channels[h][i], conn)
      BY <2>2 DEF Noted, h
    <3>2. channels[h][i] \in Senders
      BY <2>5, <3>1 DEF RegInv, RegistryInv
    <3>3. channels[h][i][1] \in Conns
      BY <3>2 DEF Senders
    <3> QED
      BY <1>8, <2>5, <3>1, <3>3
  <2> QED
    BY <2>4, <2>5, <2>6 DEF Noted
<1>12. ASSUME NEW o \in Conns PROVE conn'[o].made \in Nat /\ Excused(conn'[o])
  BY <1>7 DEF RegInv, Excused
<1> QED
  BY <1>9, <1>10, <1>11, <1>12 DEF RegInv

-----------------------------------------------------------------------------

LEMMA InitReg == Init => RegInv
<1> SUFFICES ASSUME Init PROVE RegInv
  OBVIOUS
<1>1. channels = [ch \in Channels |-> <<>>]
  BY DEF Init, InitRegistry
<1>2. RegistryInv
  BY <1>1 DEF RegistryInv
<1>3. ASSUME NEW c \in Conns
      PROVE  /\ conn[c].made \in Nat /\ Excused(conn[c]) /\ conn[c].at # "prune"
             /\ Listed(c, conn[c].rx, channels, patterns, misremoved)
  <2> DEFINE auth == ~ requirepass
             k == NewConn(auth, sock[c])
  <2>1. conn[c] = k
    BY DEF Init
  <2> HIDE DEF auth
  <2>2. k.made = 0 /\ k.at \in {"closed", "read"} /\ k.rx = NoRx
    BY DEF NewConn
  <2> HIDE DEF k
  <2> QED
    BY <2>1, <2>2 DEF Excused, Listed, NoRx
<1> QED
  BY <1>2, <1>3 DEF RegInv

LEMMA NextReg == IInv /\ OrderInv /\ RegInv /\ [Next]_vars => RegInv'
<1> SUFFICES ASSUME IInv, OrderInv, RegInv, [Next]_vars PROVE RegInv'
  OBVIOUS
<1>1. ASSUME NEW c \in Conns, LoopStep(c) PROVE RegInv'
  BY <1>1, ParseReg, BeginReg, HandlerReg, UnsubscribeReg, SubscribeReg, SendReg, RemoveReg, PanicReg, CallReg,
     FinishReg, Zenon DEF LoopStep
<1>2. ASSUME NEW c \in Conns, ReadStep(c) PROVE RegInv'
  BY <1>2, ReadReg
<1>3. ASSUME NEW c \in Conns, Hangup(c) PROVE RegInv'
  BY <1>3, ParseReg
<1>4. CASE UNCHANGED vars
  BY <1>4 DEF vars, serverVars, registryVars, RegInv, RegistryInv
<1> QED
  BY <1>1, <1>2, <1>3, <1>4 DEF Next

\* The receiver a connection holds has its sender in the registry, unless it was
\* removed by a publisher that another one had overtaken, and PUBLISH panics in no
\* other case: whatever subscriptions, departures, clean-ups and scripts of any
\* number of connections go on (src/store/memory.rs: publish_channel).
THEOREM ReceiversStayRegistered == Spec => []ReceiverStaysRegistered
<1>1. IInv /\ OrderInv /\ RegInv /\ [Next]_vars => RegInv'
  BY NextReg
<1>2. Spec => []RegInv
  BY <1>1, InitReg, Invariance, OrderInvariance, PTL DEF Spec
<1>3. RegInv => ReceiverStaysRegistered
  BY DEF RegInv, Listed, Excused, ReceiverStaysRegistered, At
<1> QED
  BY <1>2, <1>3, PTL
=============================================================================
