------------------------- MODULE ReplicationProofs -------------------------
(***************************************************************************)
(* Proofs about Replication, for any number of writes, sessions, restarts  *)
(* and cut reads and any capacity of the backlog: what a session hands     *)
(* over, what the replica's offset counts, and when the replica has the    *)
(* master's list.                                                          *)
(***************************************************************************)
EXTENDS Replication, SequenceTheorems, TLAPS

-----------------------------------------------------------------------------
(* The inductive invariant. *)

CmdMsg(c) == [type |-> "cmd", cmd |-> c]

Msgs == [type : {"continue"}]
        \cup [type : {"fullresync"}, replid : Nat, offset : Nat, rdb : Seq(Nat)]
        \cup [type : {"cmd", "tail", "args"}, cmd : Nat]

Sessions == [phase : {"none", "attached", "saved", "live"}, partial : BOOLEAN, base : Nat,
             catch_up : Seq(Nat), rx : Seq(Nat), rdb : Seq(Nat), sent : Seq(Nat),
             skewed : BOOLEAN]

TypeOK ==
    /\ store \in Seq(Nat) /\ pending \subseteq Nat /\ stream \in Seq(Nat)
    /\ replid \in Nat \ {0}
    /\ session \in Sessions
    /\ wire \in Seq(Msgs)
    /\ sync \in [replid : Nat, offset : Nat \cup {-1}]
    /\ rstate \in {"down", "handshake", "stream", "stuck"}
    /\ rstore \in Seq(Nat) /\ missed \in Seq(Nat)
    /\ skewed \in BOOLEAN

\* A list that has the writes 1, 2, 3 ... in order.
Counts(s) == \A i \in DOMAIN s : s[i] = i

\* The master's list is in the order of dispatch; what is pending or in the
\* stream has been dispatched.
StoreInv ==
    /\ Counts(store)
    /\ \A c \in pending : c \in 1 .. Len(store)
    /\ \A i \in DOMAIN stream : stream[i] \in 1 .. Len(store)
    /\ sync.replid <= replid
    /\ store = <<>> => /\ rstore = <<>> /\ session.rdb = <<>> /\ session.rx = <<>>
                       /\ session.catch_up = <<>> /\ session.sent = <<>>
                       /\ \A i \in DOMAIN wire : wire[i].type \in {"continue", "fullresync"}

\* The first message of a session.
Greeting ==
    IF session.partial THEN [type |-> "continue"]
    ELSE [type |-> "fullresync", replid |-> replid, offset |-> session.base, rdb |-> session.rdb]

\* Where master and replica can be at the same time, and what is in between.
PhaseInv ==
    /\ session.phase = "none" <=> rstate = "down"
    /\ session.phase \in {"none", "attached"} => wire = <<>>
    /\ session.phase = "attached" => rstate = "handshake"
    /\ session.phase \in {"attached", "saved"} => session.sent = <<>>
    /\ session.phase = "saved" => ~ session.partial
    /\ rstate = "stuck" => session.phase = "live" /\ skewed
    /\ rstate = "handshake" =>
          /\ missed = <<>>
          /\ session.partial => sync.offset = session.base /\ sync.replid = replid
    /\ rstate = "handshake" /\ session.phase \in {"saved", "live"} =>
          /\ Len(wire) = Len(session.sent) + 1 /\ wire[1] = Greeting
          /\ \A i \in 1 .. Len(session.sent) : wire[i + 1] = CmdMsg(session.sent[i])
    /\ rstate \in {"stream", "stuck"} =>
          \A i \in DOMAIN wire : wire[i].type \in {"cmd", "tail", "args"}
    /\ rstate = "stream" =>
          /\ sync.replid = replid /\ session.base <= sync.offset
          /\ ~ skewed => \A i \in DOMAIN wire : wire[i].type = "cmd"
          /\ sync.offset + Len(wire) + Len(missed) = session.base + Len(session.sent)

\* a and then b are the stream s from offset o on.
Feeds(s, o, a, b) ==
    /\ o + Len(a) + Len(b) = Len(s)
    /\ \A i \in 1 .. Len(a) : a[i] = s[o + i]
    /\ \A i \in 1 .. Len(b) : b[i] = s[o + Len(a) + i]

\* What a session has to hand over is the stream from where it started; a full
\* sync that overlapped a write is the exception.
FeedInv ==
    /\ session.phase = "attached" /\ session.partial
          => Feeds(stream, session.base, session.catch_up, session.rx)
    /\ session.phase \in {"attached", "saved"} /\ ~ session.partial
          => Feeds(stream, session.base, <<>>, session.rx)
    /\ session.phase = "live" /\ (session.partial \/ (rstate = "handshake" /\ ~ session.skewed))
          => Feeds(stream, session.base, session.sent, session.rx)
    /\ rstate = "stream" /\ ~ skewed => Feeds(stream, sync.offset, CmdsOf(wire), session.rx)

\* A list of the first n writes, at offset o of the stream s, is in step with a
\* master that has m writes, those of p pending: the stream goes on with the next
\* write, and what is pending follows on the stream.
InStep(s, p, m, n, o) ==
    /\ o \in 0 .. Len(s) /\ n + Len(s) - o <= m
    /\ \A i \in o + 1 .. Len(s) : s[i] = n + (i - o)
    /\ p = n + Len(s) - o + 1 .. m

\* The replica's list is in step unless it is skewed, and so is the snapshot that
\* is on its way.
StepInv ==
    /\ ~ skewed /\ sync.replid = replid
          => Counts(rstore) /\ InStep(stream, pending, Len(store), Len(rstore), sync.offset)
    /\ rstate = "handshake" /\ session.phase \in {"saved", "live"} /\ ~ session.partial
          => /\ session.rdb = <<>> => rstore = <<>>
             /\ ~ session.skewed =>
                   /\ Counts(session.rdb)
                   /\ InStep(stream, pending, Len(store), Len(session.rdb), session.base)

IInv == TypeOK /\ StoreInv /\ PhaseInv /\ FeedInv /\ StepInv /\ FullSyncMissesNothing

\* A master and a replica that have just been started satisfy the invariant.
LEMMA InitStep == Init => IInv
<1> SUFFICES ASSUME Init PROVE IInv
  OBVIOUS
<1>1. TypeOK
  <2>1. session \in Sessions
    BY DEF Init, Sessions, NoSession
  <2>2. <<>> \in Seq(Nat) /\ <<>> \in Seq(Msgs)
    OBVIOUS
  <2>3. sync \in [replid : Nat, offset : Nat \cup {-1}]
    BY DEF Init
  <2>4. wire \in Seq(Msgs)
    BY <2>2 DEF Init
  <2>5. /\ store \in Seq(Nat) /\ stream \in Seq(Nat) /\ rstore \in Seq(Nat) /\ missed \in Seq(Nat)
        /\ pending \subseteq Nat /\ skewed \in BOOLEAN
    BY <2>2 DEF Init
  <2>6. replid \in Nat \ {0} /\ rstate \in {"down", "handshake", "stream", "stuck"}
    BY DEF Init
  <2> QED
    BY <2>1, <2>3, <2>4, <2>5, <2>6 DEF TypeOK
<1>2. StoreInv
  BY DEF Init, StoreInv, Counts, NoSession
<1>3. PhaseInv /\ FeedInv /\ StepInv /\ FullSyncMissesNothing
  BY DEF Init, PhaseInv, FeedInv, StepInv, FullSyncMissesNothing, NoSession
<1> QED
  BY <1>1, <1>2, <1>3 DEF IInv

-----------------------------------------------------------------------------
(* Sequences that follow a stream. *)

\* A push goes to the stream and to the channel behind what is to be sent.
LEMMA FeedsPush ==
    ASSUME NEW s \in Seq(Nat), NEW a \in Seq(Nat), NEW b \in Seq(Nat), NEW o \in Nat,
           NEW c \in Nat, Feeds(s, o, a, b)
    PROVE  Feeds(Append(s, c), o, a, Append(b, c))
<1>0. Len(a) \in Nat /\ Len(b) \in Nat /\ o + Len(a) + Len(b) = Len(s)
  BY DEF Feeds
<1>1. o + Len(a) + Len(Append(b, c)) = Len(Append(s, c))
  BY DEF Feeds
<1>2. \A i \in 1 .. Len(a) : a[i] = Append(s, c)[o + i]
  BY DEF Feeds
<1>3. \A i \in 1 .. Len(Append(b, c)) : Append(b, c)[i] = Append(s, c)[o + Len(a) + i]
  <2>0. Len(Append(b, c)) = Len(b) + 1
    OBVIOUS
  <2> SUFFICES ASSUME NEW i \in 1 .. Len(b) + 1
               PROVE  Append(b, c)[i] = Append(s, c)[o + Len(a) + i]
    BY <2>0
  <2>1. CASE i = Len(b) + 1
    <3>1. o + Len(a) + i = Len(s) + 1
      BY <2>1, <1>0
    <3>2. Append(b, c)[i] = c /\ Append(s, c)[Len(s) + 1] = c
      BY <2>1
    <3> QED
      BY <3>1, <3>2
  <2>2. CASE i \in 1 .. Len(b)
    <3>1. Append(b, c)[i] = b[i] /\ b[i] = s[o + Len(a) + i]
      BY <2>2 DEF Feeds
    <3>2. o + Len(a) + i \in 1 .. Len(s)
      BY <2>2, <1>0
    <3>3. Append(s, c)[o + Len(a) + i] = s[o + Len(a) + i]
      BY <3>2
    <3> QED
      BY <3>1, <3>3
  <2>3. i = Len(b) + 1 \/ i \in 1 .. Len(b)
    BY <1>0
  <2> QED
    BY <2>1, <2>2, <2>3
<1> QED
  BY <1>1, <1>2, <1>3 DEF Feeds

\* The head of the channel is sent.
LEMMA FeedsForward ==
    ASSUME NEW s \in Seq(Nat), NEW a \in Seq(Nat), NEW b \in Seq(Nat), NEW o \in Nat,
           b # <<>>, Feeds(s, o, a, b)
    PROVE  Feeds(s, o, Append(a, Head(b)), Tail(b))
<1> DEFINE h == Append(a, Head(b))
<1>1. Len(b) # 0 /\ Head(b) = b[1] /\ Len(h) = Len(a) + 1 /\ Len(Tail(b)) = Len(b) - 1
  OBVIOUS
<1>2. \A i \in 1 .. Len(h) : h[i] = s[o + i]
  <2> SUFFICES ASSUME NEW i \in 1 .. Len(a) + 1 PROVE h[i] = s[o + i]
    BY <1>1
  <2>1. CASE i = Len(a) + 1
    <3>1. h[i] = b[1]
      BY <1>1, <2>1
    <3>2. b[1] = s[o + Len(a) + 1] /\ o + Len(a) + 1 = o + i
      BY <1>1, <2>1 DEF Feeds
    <3> QED
      BY <3>1, <3>2
  <2>2. CASE i \in 1 .. Len(a)
    <3>1. h[i] = a[i]
      BY <2>2
    <3> QED
      BY <2>2, <3>1 DEF Feeds
  <2>3. i = Len(a) + 1 \/ i \in 1 .. Len(a)
    BY SMTT(40)
  <2> QED
    BY <2>1, <2>2, <2>3
<1>3. \A i \in 1 .. Len(Tail(b)) : Tail(b)[i] = s[o + Len(h) + i]
  <2> SUFFICES ASSUME NEW i \in 1 .. Len(b) - 1 PROVE Tail(b)[i] = s[o + Len(h) + i]
    BY <1>1
  <2>1. Tail(b)[i] = b[i + 1]
    BY <1>1
  <2>2. b[i + 1] = s[o + Len(a) + (i + 1)]
    BY <1>1 DEF Feeds
  <2>3. o + Len(a) + (i + 1) = o + Len(h) + i
    BY <1>1
  <2> QED
    BY <2>1, <2>2, <2>3
<1> QED
  BY <1>1, <1>2, <1>3 DEF Feeds

\* What is next on the way is what the stream has next.
LEMMA FeedsApply ==
    ASSUME NEW s \in Seq(Nat), NEW a \in Seq(Nat), NEW b \in Seq(Nat), NEW o \in Nat,
           a # <<>>, Feeds(s, o, a, b)
    PROVE  /\ o + 1 \in 1 .. Len(s) /\ a[1] = s[o + 1]
           /\ Feeds(s, o + 1, Tail(a), b)
<1>1. Len(a) # 0 /\ Len(Tail(a)) = Len(a) - 1
  OBVIOUS
<1>2. o + 1 \in 1 .. Len(s) /\ a[1] = s[o + 1]
  BY <1>1 DEF Feeds
<1>3. \A i \in 1 .. Len(Tail(a)) : Tail(a)[i] = s[o + 1 + i]
  <2> SUFFICES ASSUME NEW i \in 1 .. Len(a) - 1 PROVE Tail(a)[i] = s[o + 1 + i]
    BY <1>1
  <2>1. Tail(a)[i] = a[i + 1]
    BY <1>1
  <2>2. a[i + 1] = s[o + (i + 1)] /\ o + (i + 1) = o + 1 + i
    BY <1>1 DEF Feeds
  <2> QED
    BY <2>1, <2>2
<1>4. \A i \in 1 .. Len(b) : b[i] = s[o + 1 + Len(Tail(a)) + i]
  <2>1. o + 1 + Len(Tail(a)) = o + Len(a)
    BY <1>1
  <2> QED
    BY <2>1 DEF Feeds
<1> QED
  BY <1>1, <1>2, <1>3, <1>4 DEF Feeds

\* Put together they are the rest of the stream.
LEMMA FeedsAll ==
    ASSUME NEW s \in Seq(Nat), NEW a \in Seq(Nat), NEW b \in Seq(Nat), NEW o \in Nat,
           Feeds(s, o, a, b)
    PROVE  a \o b = SubSeq(s, o + 1, Len(s))
<1> DEFINE l == a \o b
           r == SubSeq(s, o + 1, Len(s))
<1>0. Len(a) \in Nat /\ Len(b) \in Nat /\ Len(s) \in Nat /\ o + Len(a) + Len(b) = Len(s)
  BY DEF Feeds
<1>1. /\ l \in Seq(Nat) /\ Len(l) = Len(a) + Len(b)
      /\ \A i \in 1 .. Len(a) : l[i] = a[i]
      /\ \A i \in 1 .. Len(b) : l[Len(a) + i] = b[i]
  OBVIOUS
<1>2. r \in Seq(Nat) /\ Len(r) = Len(s) - o /\ \A i \in 1 .. Len(s) - o : r[i] = s[o + i]
  BY <1>0
<1> HIDE DEF l, r
<1>3. Len(l) = Len(r)
  BY <1>0, <1>1, <1>2
<1>4. ASSUME NEW i \in 1 .. Len(l) PROVE l[i] = r[i]
  <2>1. r[i] = s[o + i]
    <3>1. i \in 1 .. Len(s) - o
      BY <1>2, <1>3
    <3> QED
      BY <1>2, <3>1
  <2>2. CASE i \in 1 .. Len(a)
    BY <1>1, <2>1, <2>2 DEF Feeds
  <2>3. CASE i \notin 1 .. Len(a)
    <3>1. i - Len(a) \in 1 .. Len(b) /\ Len(a) + (i - Len(a)) = i /\ o + Len(a) + (i - Len(a)) = o + i
      BY <1>0, <1>1, <2>3
    <3>2. b[i - Len(a)] = s[o + Len(a) + (i - Len(a))]
      BY <3>1 DEF Feeds
    <3>3. l[Len(a) + (i - Len(a))] = b[i - Len(a)]
      BY <1>1, <3>1
    <3> QED
      BY <2>1, <3>1, <3>2, <3>3
  <2> QED
    BY <2>2, <2>3
<1>5. l = r
  BY <1>1, <1>2, <1>3, <1>4, SeqEqual
<1> QED
  BY <1>5 DEF l, r

\* A dispatched write follows what is pending.
LEMMA InStepDispatch ==
    ASSUME NEW s \in Seq(Nat), NEW p, NEW m \in Nat, NEW n \in Nat, NEW o \in Nat \cup {-1},
           InStep(s, p, m, n, o)
    PROVE  InStep(s, p \cup {m + 1}, m + 1, n, o)
<1>1. Len(s) \in Nat
  OBVIOUS
<1>2. p \cup {m + 1} = n + Len(s) - o + 1 .. m + 1
  BY <1>1 DEF InStep
<1> QED
  BY <1>1, <1>2 DEF InStep

\* So does the oldest pending write when it is pushed.
LEMMA InStepPush ==
    ASSUME NEW s \in Seq(Nat), NEW p, NEW m \in Nat, NEW n \in Nat, NEW o \in Nat \cup {-1},
           InStep(s, p, m, n, o), NEW c \in p, \A x \in p : ~ (x < c)
    PROVE  InStep(Append(s, c), p \ {c}, m, n, o)
<1> DEFINE l == Len(s)
           k == n + l - o
<1>1. l \in Nat /\ o \in 0 .. l /\ k \in Nat /\ k <= m /\ p = k + 1 .. m
  BY DEF InStep
<1>2. \A i \in o + 1 .. l : s[i] = n + (i - o)
  BY DEF InStep
<1>3. Len(Append(s, c)) = l + 1 /\ Append(s, c)[l + 1] = c /\ \A i \in 1 .. l : Append(s, c)[i] = s[i]
  OBVIOUS
<1>4. n + (l + 1) - o = k + 1 /\ n + (l + 1 - o) = k + 1 /\ 0 <= o
  BY <1>1
<1> HIDE DEF l, k
<1>5. c = k + 1 /\ k + 1 <= m
  <2>1. c \in k + 1 .. m
    BY <1>1
  <2>2. k + 1 \in p
    BY <1>1, <2>1
  <2>3. ~ (k + 1 < c)
    BY <2>2
  <2> QED
    BY <1>1, <2>1, <2>3
<1>6. p \ {c} = k + 1 + 1 .. m
  BY <1>1, <1>5
<1>7. ASSUME NEW i \in o + 1 .. l + 1 PROVE Append(s, c)[i] = n + (i - o)
  <2>1. i = l + 1 \/ i \in o + 1 .. l
    BY <1>1
  <2>2. CASE i = l + 1
    BY <1>3, <1>4, <1>5, <2>2
  <2>3. CASE i \in o + 1 .. l
    <3>1. i \in 1 .. l
      BY <1>1, <2>3
    <3> QED
      BY <1>2, <1>3, <2>3, <3>1
  <2> QED
    BY <2>1, <2>2, <2>3
<1> QED
  BY <1>1, <1>3, <1>4, <1>5, <1>6, <1>7, SMTT(40) DEF InStep

\* A list that takes the next write of the stream stays in step.
LEMMA InStepApply ==
    ASSUME NEW s \in Seq(Nat), NEW p, NEW m \in Nat, NEW n \in Nat, NEW o \in Nat,
           InStep(s, p, m, n, o), o + 1 \in 1 .. Len(s)
    PROVE  s[o + 1] = n + 1 /\ InStep(s, p, m, n + 1, o + 1)
<1>1. Len(s) \in Nat
  OBVIOUS
<1>2. s[o + 1] = n + 1
  BY <1>1 DEF InStep
<1>3. \A i \in o + 1 + 1 .. Len(s) : s[i] = n + 1 + (i - (o + 1))
  BY <1>1 DEF InStep
<1>4. n + 1 + Len(s) - (o + 1) = n + Len(s) - o
  BY <1>1
<1> QED
  BY <1>1, <1>2, <1>3, <1>4 DEF InStep

\* The elements of the sequences that the actions build.
LEMMA RangeFacts ==
    ASSUME NEW s \in Seq(Nat), NEW t \in Seq(Nat), NEW c \in Nat
    PROVE  /\ Range(Append(s, c)) = Range(s) \cup {c}
           /\ t # <<>> => Range(t) = {Head(t)} \cup Range(Tail(t))
<1>1. Range(Append(s, c)) = Range(s) \cup {c}
  <2>1. \A i \in DOMAIN s : i \in DOMAIN Append(s, c) /\ Append(s, c)[i] = s[i]
    OBVIOUS
  <2>2. Len(s) + 1 \in DOMAIN Append(s, c) /\ Append(s, c)[Len(s) + 1] = c
    OBVIOUS
  <2>3. \A i \in DOMAIN Append(s, c) : i \in DOMAIN s \/ Append(s, c)[i] = c
    OBVIOUS
  <2> QED
    BY <2>1, <2>2, <2>3 DEF Range
<1>2. ASSUME t # <<>> PROVE Range(t) = {Head(t)} \cup Range(Tail(t))
  <2>1. \A i \in DOMAIN Tail(t) : i + 1 \in DOMAIN t /\ Tail(t)[i] = t[i + 1]
    BY <1>2
  <2>2. 1 \in DOMAIN t /\ Head(t) = t[1]
    BY <1>2
  <2>3. \A i \in DOMAIN t : i = 1 \/ (i - 1 \in DOMAIN Tail(t) /\ Tail(t)[i - 1] = t[i])
    BY <1>2
  <2> HIDE <1>2
  <2>4. Range(t) \subseteq {Head(t)} \cup Range(Tail(t))
    BY <2>2, <2>3, ZenonT(60) DEF Range
  <2>5. {Head(t)} \cup Range(Tail(t)) \subseteq Range(t)
    BY <2>1, <2>2 DEF Range
  <2> QED
    BY <2>4, <2>5
<1> QED
  BY <1>1, <1>2

\* Commands on the socket.
LEMMA CmdMsgsFacts ==
    ASSUME NEW s \in Seq(Nat)
    PROVE  /\ CmdMsgs(s) \in Seq(Msgs) /\ Len(CmdMsgs(s)) = Len(s)
           /\ \A i \in 1 .. Len(s) : CmdMsgs(s)[i] = CmdMsg(s[i])
<1>1. \A i \in 1 .. Len(s) : CmdMsg(s[i]) \in Msgs
  <2>1. \A c \in Nat : CmdMsg(c) \in Msgs
    BY DEF CmdMsg, Msgs
  <2> QED
    BY <2>1
<1>2. CmdMsgs(s) = [i \in 1 .. Len(s) |-> CmdMsg(s[i])]
  BY DEF CmdMsgs, CmdMsg
<1> QED
  BY <1>1, <1>2

\* Commands follow what is in the socket.
LEMMA WriteFacts ==
    ASSUME NEW w \in Seq(Msgs), NEW s \in Seq(Nat)
    PROVE  /\ w \o CmdMsgs(s) \in Seq(Msgs) /\ Len(w \o CmdMsgs(s)) = Len(w) + Len(s)
           /\ \A i \in 1 .. Len(w) : (w \o CmdMsgs(s))[i] = w[i]
           /\ \A i \in 1 .. Len(s) : (w \o CmdMsgs(s))[Len(w) + i] = CmdMsg(s[i])
<1>1. /\ CmdMsgs(s) \in Seq(Msgs) /\ Len(CmdMsgs(s)) = Len(s)
      /\ \A i \in 1 .. Len(s) : CmdMsgs(s)[i] = CmdMsg(s[i])
  BY CmdMsgsFacts
<1>2. ASSUME NEW t \in Seq(Msgs)
      PROVE  /\ w \o t \in Seq(Msgs) /\ Len(w \o t) = Len(w) + Len(t)
             /\ \A i \in 1 .. Len(w) : (w \o t)[i] = w[i]
             /\ \A i \in 1 .. Len(t) : (w \o t)[Len(w) + i] = t[i]
  OBVIOUS
<1> QED
  BY <1>1, <1>2, ZenonT(60)

\* The commands of a part of the socket that holds nothing else.
LEMMA CmdsOfFacts ==
    ASSUME NEW w \in Seq(Msgs), \A i \in 1 .. Len(w) : w[i].type \in {"cmd", "tail", "args"}
    PROVE  /\ CmdsOf(w) \in Seq(Nat) /\ Len(CmdsOf(w)) = Len(w)
           /\ \A i \in 1 .. Len(w) : CmdsOf(w)[i] = w[i].cmd
<1>1. DOMAIN w = 1 .. Len(w) /\ Len(w) \in Nat
  OBVIOUS
<1>2. ASSUME NEW i \in 1 .. Len(w) PROVE w[i].cmd \in Nat
  <2>1. w[i] \in Msgs
    BY <1>1
  <2> QED
    BY <2>1 DEF Msgs
<1> QED
  BY <1>1, <1>2 DEF CmdsOf

-----------------------------------------------------------------------------
(* The clients keep the invariant. *)

\* A dispatch makes the list longer and the write pending.
LEMMA DispatchStep ==
    ASSUME IInv, NEW c \in Cmds, Dispatch(c)
    PROVE  IInv'
<1> USE DEF IInv
<1>1. /\ c = Len(store) + 1 /\ store' = Append(store, c) /\ pending' = pending \cup {c}
      /\ UNCHANGED <<stream, replid, session, wire, sync, rstate, rstore, missed, skewed>>
  BY DEF Dispatch, readVars
<1>2. /\ store \in Seq(Nat) /\ Len(store) \in Nat /\ c \in Nat
      /\ store' \in Seq(Nat) /\ Len(store') = Len(store) + 1 /\ store' # <<>>
  <2>1. store \in Seq(Nat) /\ Len(store) \in Nat
    BY DEF TypeOK
  <2>2. c \in Nat
    BY <1>1, <2>1
  <2> QED
    BY <1>1, <2>1, <2>2
<1>3. TypeOK'
  BY <1>1, <1>2 DEF TypeOK, Sessions
<1>4. StoreInv'
  <2>1. Counts(store')
    BY <1>1, <1>2 DEF StoreInv, Counts
  <2>2. \A x \in pending' : x \in 1 .. Len(store')
    BY <1>1, <1>2 DEF StoreInv
  <2>3. \A i \in DOMAIN stream' : stream'[i] \in 1 .. Len(store')
    BY <1>1, <1>2 DEF StoreInv
  <2>4. sync'.replid <= replid'
    BY <1>1 DEF StoreInv
  <2> QED
    BY <1>2, <2>1, <2>2, <2>3, <2>4 DEF StoreInv
<1>5. PhaseInv' /\ FeedInv' /\ FullSyncMissesNothing'
  <2>1. PhaseInv'
    BY <1>1 DEF PhaseInv, Greeting
  <2>2. FeedInv'
    BY <1>1 DEF FeedInv
  <2>3. FullSyncMissesNothing'
    BY <1>1 DEF FullSyncMissesNothing
  <2> QED
    BY <2>1, <2>2, <2>3
<1>6. StepInv'
  <2>1. Len(rstore) \in Nat /\ Len(session.rdb) \in Nat /\ session.base \in Nat /\ sync.offset \in Nat \cup {-1}
    BY DEF TypeOK, Sessions
  <2>2. ASSUME NEW n \in Nat, NEW o \in Nat \cup {-1}, InStep(stream, pending, Len(store), n, o)
        PROVE  InStep(stream, pending', Len(store'), n, o)
    <3>1. stream \in Seq(Nat)
      BY DEF TypeOK
    <3>2. InStep(stream, pending \cup {Len(store) + 1}, Len(store) + 1, n, o)
      BY <1>2, <2>2, <3>1, InStepDispatch
    <3> QED
      BY <1>1, <1>2, <3>2
  <2> QED
    BY <1>1, <2>1, <2>2 DEF StepInv
<1> QED
  BY <1>3, <1>4, <1>5, <1>6

\* A push takes the write from the pending ones to the stream and, once the
\* replica is registered, to its channel.
LEMMA PushStep ==
    ASSUME IInv, NEW c \in Cmds, Push(c)
    PROVE  IInv'
<1> USE DEF IInv
<1>1. /\ c \in pending /\ pending' = pending \ {c} /\ stream' = Append(stream, c)
      /\ skewed' = (skewed \/ Overtakes(c))
      /\ UNCHANGED <<store, replid, wire, sync, rstate, rstore, missed>>
  BY DEF Push, readVars
<1>2. /\ store \in Seq(Nat) /\ Len(store) \in Nat /\ c \in 1 .. Len(store) /\ c \in Nat /\ store # <<>>
      /\ stream \in Seq(Nat) /\ Len(stream) \in Nat
      /\ stream' \in Seq(Nat) /\ Len(stream') = Len(stream) + 1
      /\ \A i \in 1 .. Len(stream) : stream'[i] = stream[i]
      /\ stream'[Len(stream) + 1] = c
  <2>1. store \in Seq(Nat) /\ Len(store) \in Nat /\ stream \in Seq(Nat) /\ Len(stream) \in Nat
    BY DEF TypeOK
  <2>2. c \in 1 .. Len(store)
    BY <1>1 DEF StoreInv
  <2>3. c \in Nat /\ store # <<>>
    BY <2>1, <2>2
  <2> QED
    BY <1>1, <2>1, <2>2, <2>3
<1>3. /\ session \in Sessions /\ session' \in Sessions
      /\ session'.phase = session.phase /\ session'.partial = session.partial
      /\ session'.base = session.base /\ session'.catch_up = session.catch_up
      /\ session'.rdb = session.rdb /\ session'.sent = session.sent
      /\ session'.rx = RxAfter(c)
      /\ session'.skewed = (Registered /\ (session.skewed \/ Overtakes(c)))
  <2> DEFINE r == RxAfter(c)
             b == Registered /\ (session.skewed \/ Overtakes(c))
  <2>1. session \in Sessions
    BY DEF TypeOK
  <2>2. r \in Seq(Nat)
    BY <1>2, <2>1 DEF RxAfter, Sessions
  <2>3. b \in BOOLEAN
    BY DEF Registered
  <2>4. session' = [session EXCEPT !.rx = r, !.skewed = b]
    BY DEF Push
  <2> HIDE DEF r, b
  <2>5. /\ session' \in Sessions
        /\ session'.phase = session.phase /\ session'.partial = session.partial
        /\ session'.base = session.base /\ session'.catch_up = session.catch_up
        /\ session'.rdb = session.rdb /\ session'.sent = session.sent
        /\ session'.rx = r /\ session'.skewed = b
    BY <2>1, <2>2, <2>3, <2>4 DEF Sessions
  <2> QED
    BY <2>1, <2>5 DEF r, b
<1>4. TypeOK'
  <2>1. pending' \subseteq Nat /\ skewed' \in BOOLEAN
    BY <1>1 DEF TypeOK, Overtakes
  <2> QED
    BY <1>1, <1>2, <1>3, <2>1 DEF TypeOK
<1>5. StoreInv'
  <2>1. \A i \in DOMAIN stream' : stream'[i] \in 1 .. Len(store')
    BY <1>1, <1>2 DEF StoreInv
  <2> QED
    BY <1>1, <1>2, <2>1 DEF StoreInv
<1>6. PhaseInv'
  BY <1>1, <1>3 DEF PhaseInv, Greeting
<1>7. FeedInv'
  <2>1. ASSUME session.phase # "none" PROVE session'.rx = Append(session.rx, c)
    BY <1>3, <2>1 DEF RxAfter, Registered
  <2>2. ASSUME NEW o \in Nat, NEW a \in Seq(Nat), session.phase # "none", Feeds(stream, o, a, session.rx)
        PROVE  Feeds(stream', o, a, session'.rx)
    <3>1. session.rx \in Seq(Nat)
      BY <1>3 DEF Sessions
    <3>2. Feeds(Append(stream, c), o, a, Append(session.rx, c))
      BY <1>2, <2>2, <3>1, FeedsPush
    <3> QED
      BY <1>1, <2>1, <2>2, <3>2
  <2>3. session.base \in Nat /\ session.catch_up \in Seq(Nat) /\ session.sent \in Seq(Nat) /\ <<>> \in Seq(Nat)
    BY <1>3 DEF Sessions
  <2>4. ASSUME session.phase = "attached", session.partial
        PROVE  Feeds(stream', session'.base, session'.catch_up, session'.rx)
    BY <1>3, <2>2, <2>3, <2>4 DEF FeedInv
  <2>5. ASSUME session.phase \in {"attached", "saved"}, ~ session.partial
        PROVE  Feeds(stream', session'.base, <<>>, session'.rx)
    BY <1>3, <2>2, <2>3, <2>5 DEF FeedInv
  <2>6. ASSUME session.phase = "live", session.partial \/ (rstate = "handshake" /\ ~ session'.skewed)
        PROVE  Feeds(stream', session'.base, session'.sent, session'.rx)
    <3>1. ~ session.partial => ~ session.skewed
      BY <1>3, <2>6 DEF Registered
    <3> QED
      BY <1>3, <2>2, <2>3, <2>6, <3>1 DEF FeedInv
  <2>7. ASSUME rstate = "stream", ~ skewed'
        PROVE  Feeds(stream', sync.offset, CmdsOf(wire), session'.rx)
    <3>1. ~ skewed /\ session.phase # "none"
      BY <1>1, <2>7 DEF PhaseInv
    <3>2. \A i \in DOMAIN wire : wire[i] \in Msgs /\ wire[i].type = "cmd"
      BY <2>7, <3>1 DEF PhaseInv, TypeOK
    <3>3. CmdsOf(wire) \in Seq(Nat)
      <4>1. \A i \in DOMAIN wire : wire[i].cmd \in Nat
        BY <3>2 DEF Msgs
      <4>2. DOMAIN wire = 1 .. Len(wire) /\ Len(wire) \in Nat
        BY DEF TypeOK
      <4> QED
        BY <4>1, <4>2 DEF CmdsOf
    <3>4. sync.offset \in Nat
      BY <1>3, <2>7 DEF PhaseInv, TypeOK, Sessions
    <3> QED
      BY <2>2, <2>7, <3>1, <3>3, <3>4 DEF FeedInv
  <2> QED
    BY <1>1, <1>3, <2>4, <2>5, <2>6, <2>7 DEF FeedInv
<1>8. StepInv'
  <2>1. ASSUME NEW n \in Nat, NEW o \in Nat \cup {-1}, InStep(stream, pending, Len(store), n, o), ~ Overtakes(c)
        PROVE  InStep(stream', pending', Len(store), n, o)
    <3>1. \A x \in pending : ~ (x < c)
      BY <2>1 DEF Overtakes
    <3> QED
      BY <1>1, <1>2, <2>1, <3>1, InStepPush
  <2>2. Len(rstore) \in Nat /\ Len(session.rdb) \in Nat /\ session.base \in Nat /\ sync.offset \in Nat \cup {-1}
    BY DEF TypeOK, Sessions
  <2>3. ASSUME ~ skewed', sync.replid = replid
        PROVE  Counts(rstore) /\ InStep(stream', pending', Len(store), Len(rstore), sync.offset)
    <3>1. ~ skewed /\ ~ Overtakes(c)
      BY <1>1, <2>3
    <3>2. Counts(rstore) /\ InStep(stream, pending, Len(store), Len(rstore), sync.offset)
      BY <2>3, <3>1 DEF StepInv
    <3> QED
      BY <2>1, <2>2, <3>1, <3>2
  <2>4. ASSUME rstate = "handshake", session.phase \in {"saved", "live"}, ~ session.partial
        PROVE  /\ session.rdb = <<>> => rstore = <<>>
               /\ ~ session'.skewed => Counts(session.rdb) /\ InStep(stream', pending', Len(store), Len(session.rdb), session.base)
    <3>1. session.rdb = <<>> => rstore = <<>>
      BY <2>4 DEF StepInv
    <3>2. ASSUME ~ session'.skewed PROVE Counts(session.rdb) /\ InStep(stream', pending', Len(store), Len(session.rdb), session.base)
      <4>1. ~ session.skewed /\ ~ Overtakes(c)
        BY <1>3, <2>4, <3>2 DEF Registered
      <4>2. Counts(session.rdb) /\ InStep(stream, pending, Len(store), Len(session.rdb), session.base)
        BY <2>4, <4>1 DEF StepInv
      <4> QED
        BY <2>1, <2>2, <4>1, <4>2
    <3> QED
      BY <3>1, <3>2
  <2> QED
    BY <1>1, <1>3, <2>3, <2>4 DEF StepInv
<1>9. FullSyncMissesNothing'
  <2> SUFFICES ASSUME session.phase \in {"saved", "live"}, ~ session.partial
               PROVE  Range(stream') \subseteq Range(session.rdb) \cup Range(session.sent) \cup Range(session'.rx)
    BY <1>3 DEF FullSyncMissesNothing
  <2>1. session'.rx = Append(session.rx, c) /\ session.rx \in Seq(Nat)
    BY <1>3 DEF RxAfter, Registered, Sessions
  <2>2. Range(stream') = Range(stream) \cup {c} /\ Range(session'.rx) = Range(session.rx) \cup {c}
    BY <1>1, <1>2, <2>1, RangeFacts
  <2> QED
    BY <2>2 DEF FullSyncMissesNothing
<1> QED
  BY <1>4, <1>5, <1>6, <1>7, <1>8, <1>9

-----------------------------------------------------------------------------
(* The master's side of a session keeps the invariant. *)

\* What read_from returns: the rest of the stream, or nothing.
LEMMA ReadFrom ==
    ASSUME stream \in Seq(Nat), NEW o \in Nat, o <= Len(stream)
    PROVE  /\ read_from(o) \in Seq(Nat)
           /\ InWindow(o) => Feeds(stream, o, read_from(o), <<>>)
           /\ read_from(o) # <<>> => stream # <<>>
<1>1. CASE InWindow(o)
  <2>1. read_from(o) = SubSeq(stream, o + 1, Len(stream))
    BY <1>1 DEF read_from
  <2>2. Len(stream) \in Nat /\ Len(<<>>) = 0
    OBVIOUS
  <2>3. /\ SubSeq(stream, o + 1, Len(stream)) \in Seq(Nat)
        /\ Len(SubSeq(stream, o + 1, Len(stream))) = Len(stream) - o
        /\ \A i \in 1 .. Len(stream) - o : SubSeq(stream, o + 1, Len(stream))[i] = stream[o + i]
    BY <2>2
  <2> QED
    BY <2>1, <2>2, <2>3 DEF Feeds
<1>2. CASE ~ InWindow(o)
  BY <1>2 DEF read_from
<1> QED
  BY <1>1, <1>2

\* handle_psync attaches the replica: nothing is on the way, and what it will
\* send is the stream from the requested offset, or from here, on.
LEMMA PsyncStep ==
    ASSUME IInv, Psync
    PROVE  IInv'
<1> USE DEF IInv
<1> DEFINE partial == CanServePartial(sync)
           base == IF partial THEN sync.offset ELSE Len(stream)
           catch_up == IF partial THEN read_from(sync.offset) ELSE <<>>
<1>1. /\ rstate = "down" /\ session.phase = "none" /\ rstate' = "handshake" /\ missed' = <<>>
      /\ UNCHANGED <<store, pending, stream, replid, wire, sync, rstore, skewed>>
      /\ session' = [NoSession EXCEPT !.phase = "attached", !.partial = partial,
                                      !.base = base, !.catch_up = catch_up]
  BY DEF Psync, clientVars
<1>2. partial \in BOOLEAN
  BY DEF CanServePartial
<1>3. stream \in Seq(Nat) /\ Len(stream) \in Nat
  BY DEF TypeOK
<1>4. ASSUME partial
      PROVE  /\ base = sync.offset /\ base \in Nat /\ catch_up \in Seq(Nat) /\ sync.replid = replid
             /\ Feeds(stream, base, catch_up, <<>>) /\ (catch_up # <<>> => stream # <<>>)
  <2>1. sync.offset \in Nat /\ sync.replid = replid /\ InWindow(sync.offset)
    BY <1>4 DEF CanServePartial, TypeOK
  <2>2. sync.offset <= Len(stream)
    BY <2>1 DEF InWindow
  <2> QED
    BY <1>3, <1>4, <2>1, <2>2, ReadFrom
<1>5. ASSUME ~ partial
      PROVE  base = Len(stream) /\ catch_up = <<>> /\ catch_up \in Seq(Nat) /\ Feeds(stream, base, <<>>, <<>>)
  <2>1. base = Len(stream) /\ catch_up = <<>> /\ Len(<<>>) = 0
    BY <1>5
  <2>2. \A i \in 1 .. 0 : FALSE
    OBVIOUS
  <2>3. Feeds(stream, Len(stream), <<>>, <<>>)
    BY <1>3, <2>2 DEF Feeds
  <2>4. <<>> \in Seq(Nat)
    OBVIOUS
  <2> QED
    BY <2>1, <2>3, <2>4
<1>6. base \in Nat /\ catch_up \in Seq(Nat) /\ (catch_up # <<>> => stream # <<>>)
  BY <1>3, <1>4, <1>5
<1> HIDE DEF partial, base, catch_up
<1>7. /\ session' \in Sessions /\ session'.phase = "attached" /\ session'.partial = partial
      /\ session'.base = base /\ session'.catch_up = catch_up
      /\ session'.rx = <<>> /\ session'.sent = <<>> /\ session'.rdb = <<>>
  <2>1. session' = [phase |-> "attached", partial |-> partial, base |-> base, catch_up |-> catch_up,
                    rx |-> <<>>, rdb |-> <<>>, sent |-> <<>>, skewed |-> FALSE]
    BY <1>1 DEF NoSession
  <2>2. <<>> \in Seq(Nat)
    OBVIOUS
  <2> QED
    BY <1>2, <1>6, <2>1, <2>2 DEF Sessions
<1>8. TypeOK'
  BY <1>1, <1>7 DEF TypeOK
<1>9. StoreInv'
  <2>1. store = <<>> => catch_up = <<>>
    <3>1. store = <<>> => stream = <<>>
      BY <1>3 DEF StoreInv
    <3> QED
      BY <1>6, <3>1
  <2> QED
    BY <1>1, <1>7, <2>1 DEF StoreInv
<1>10. PhaseInv'
  <2>1. wire = <<>>
    BY <1>1 DEF PhaseInv
  <2> QED
    BY <1>1, <1>4, <1>7, <2>1 DEF PhaseInv
<1>11. FeedInv'
  BY <1>1, <1>4, <1>5, <1>7 DEF FeedInv
<1>12. StepInv'
  BY <1>1, <1>7 DEF StepInv
<1>13. FullSyncMissesNothing'
  BY <1>7 DEF FullSyncMissesNothing
<1> QED
  BY <1>8, <1>9, <1>10, <1>11, <1>12, <1>13

\* +CONTINUE and the catch-up data go out.
LEMMA SendContinueStep ==
    ASSUME IInv, SendContinue
    PROVE  IInv'
<1> USE DEF IInv
<1> DEFINE cu == session.catch_up
<1>1. /\ session.phase = "attached" /\ session.partial
      /\ session' = [session EXCEPT !.phase = "live", !.sent = cu]
      /\ UNCHANGED <<store, pending, stream, replid, sync, rstate, rstore, missed, skewed>>
  BY DEF SendContinue, clientVars, readVars
<1>2. wire = <<>> /\ rstate = "handshake"
  BY <1>1 DEF PhaseInv
<1>3. session \in Sessions /\ cu \in Seq(Nat) /\ Len(cu) \in Nat
  BY DEF TypeOK, Sessions
<1>4. /\ session' \in Sessions /\ session'.phase = "live" /\ session'.sent = cu
      /\ session'.partial = session.partial /\ session'.base = session.base
      /\ session'.catch_up = cu /\ session'.rx = session.rx /\ session'.rdb = session.rdb
  BY <1>1, <1>3 DEF Sessions
<1>5. /\ wire' \in Seq(Msgs) /\ Len(wire') = Len(cu) + 1
      /\ wire'[1] = [type |-> "continue"]
      /\ \A i \in 1 .. Len(cu) : wire'[i + 1] = CmdMsg(cu[i])
  <2> DEFINE h == <<[type |-> "continue"]>>
  <2>1. h \in Seq(Msgs) /\ Len(h) = 1 /\ h[1] = [type |-> "continue"] /\ <<>> \o h = h
    BY DEF Msgs
  <2>2. wire' = (<<>> \o h) \o CmdMsgs(cu)
    BY <1>2 DEF SendContinue
  <2> HIDE DEF h, cu
  <2>3. /\ wire' \in Seq(Msgs) /\ Len(wire') = Len(h) + Len(cu)
        /\ \A i \in 1 .. Len(h) : wire'[i] = h[i]
        /\ \A i \in 1 .. Len(cu) : wire'[Len(h) + i] = CmdMsg(cu[i])
    <3>1. wire' = h \o CmdMsgs(cu)
      BY <2>1, <2>2, Zenon
    <3>2. h \in Seq(Msgs) /\ cu \in Seq(Nat)
      BY <1>3, <2>1
    <3>3. /\ h \o CmdMsgs(cu) \in Seq(Msgs) /\ Len(h \o CmdMsgs(cu)) = Len(h) + Len(cu)
          /\ \A i \in 1 .. Len(h) : (h \o CmdMsgs(cu))[i] = h[i]
          /\ \A i \in 1 .. Len(cu) : (h \o CmdMsgs(cu))[Len(h) + i] = CmdMsg(cu[i])
      BY <3>2, WriteFacts, Zenon
    <3> QED
      BY <3>1, <3>3, Zenon
  <2>4. 1 \in 1 .. Len(h) /\ Len(h) + Len(cu) = Len(cu) + 1 /\ \A i \in 1 .. Len(cu) : Len(h) + i = i + 1
    BY <1>3, <2>1
  <2> QED
    BY <2>1, <2>3, <2>4
<1> HIDE DEF cu
<1>6. TypeOK'
  BY <1>1, <1>4, <1>5 DEF TypeOK
<1>7. StoreInv'
  <2>1. ASSUME store = <<>> PROVE cu = <<>> /\ \A i \in DOMAIN wire' : wire'[i].type \in {"continue", "fullresync"}
    <3>1. cu = <<>> /\ Len(cu) = 0
      BY <2>1 DEF StoreInv, cu
    <3>2. DOMAIN wire' = 1 .. 1
      BY <1>5, <3>1
    <3> QED
      BY <1>5, <3>1, <3>2
  <2> QED
    BY <1>1, <1>4, <2>1 DEF StoreInv
<1>8. PhaseInv'
  BY <1>1, <1>2, <1>4, <1>5 DEF PhaseInv, Greeting
<1>9. FeedInv'
  BY <1>1, <1>2, <1>4 DEF FeedInv, cu
<1>10. StepInv'
  BY <1>1, <1>4 DEF StepInv
<1>11. FullSyncMissesNothing'
  BY <1>1, <1>4 DEF FullSyncMissesNothing
<1> QED
  BY <1>6, <1>7, <1>8, <1>9, <1>10, <1>11

\* +FULLRESYNC and the snapshot go out: the snapshot has every write of the
\* stream, and when nothing is under way it is in step with the offset.
LEMMA SendFullresyncStep ==
    ASSUME IInv, SendFullresync
    PROVE  IInv'
<1> USE DEF IInv
<1> DEFINE m == [type |-> "fullresync", replid |-> replid, offset |-> session.base, rdb |-> store]
           sk == pending # {} \/ Len(stream) # session.base
<1>1. /\ session.phase = "attached" /\ ~ session.partial
      /\ session' = [session EXCEPT !.phase = "saved", !.rdb = store, !.skewed = sk]
      /\ UNCHANGED <<store, pending, stream, replid, sync, rstate, rstore, missed, skewed>>
  BY DEF SendFullresync, clientVars, readVars
<1>2. wire = <<>> /\ rstate = "handshake" /\ session.sent = <<>>
  BY <1>1 DEF PhaseInv
<1>3. session \in Sessions /\ store \in Seq(Nat) /\ stream \in Seq(Nat) /\ sk \in BOOLEAN /\ session.base \in Nat
  BY DEF TypeOK, Sessions
<1>4. m \in Msgs
  BY <1>3 DEF Msgs, TypeOK
<1>5. wire' = <<m>>
  BY <1>2 DEF SendFullresync
<1>6. sk \/ (pending = {} /\ Len(stream) = session.base)
  OBVIOUS
<1> HIDE DEF sk
<1>7. /\ session' \in Sessions /\ session'.phase = "saved" /\ session'.rdb = store
      /\ session'.skewed = sk /\ session'.sent = session.sent
      /\ session'.partial = session.partial /\ session'.base = session.base
      /\ session'.catch_up = session.catch_up /\ session'.rx = session.rx
  BY <1>1, <1>3 DEF Sessions
<1>8. wire'[1] = m /\ m.type = "fullresync" /\ DOMAIN wire' = 1 .. 1
  BY <1>5
<1>9. Len(wire') = 1
  BY <1>5
<1>10. wire' \in Seq(Msgs)
  BY <1>4, <1>5
<1>11. TypeOK'
  BY <1>1, <1>7, <1>10 DEF TypeOK
<1>12. StoreInv'
  BY <1>1, <1>7, <1>8 DEF StoreInv
<1>13. PhaseInv'
  <2>1. Greeting' = m
    BY <1>1, <1>7 DEF Greeting
  <2>2. Len(session'.sent) = 0
    BY <1>2, <1>7
  <2> QED
    BY <1>1, <1>2, <1>7, <1>8, <1>9, <2>1, <2>2 DEF PhaseInv
<1>14. FeedInv'
  BY <1>1, <1>2, <1>7 DEF FeedInv
<1>15. StepInv'
  <2>1. store = <<>> => rstore = <<>>
    BY DEF StoreInv
  <2>2. ASSUME ~ sk
        PROVE  Counts(store) /\ InStep(stream, pending, Len(store), Len(store), session.base)
    <3>1. pending = {} /\ session.base = Len(stream) /\ Len(stream) \in Nat /\ Len(store) \in Nat
      BY <1>3, <1>6, <2>2
    <3>2. Len(store) + Len(stream) - Len(stream) = Len(store)
      BY <3>1
    <3>3. {} = Len(store) + 1 .. Len(store)
      BY <3>1
    <3>4. \A i \in Len(stream) + 1 .. Len(stream) : FALSE
      BY <3>1
    <3> QED
      BY <3>1, <3>2, <3>3, <3>4 DEF InStep, StoreInv
  <2> QED
    BY <1>1, <1>7, <2>1, <2>2 DEF StepInv
<1>16. FullSyncMissesNothing'
  <2>1. \A i \in DOMAIN stream : stream[i] \in DOMAIN store /\ store[stream[i]] = stream[i]
    BY <1>3 DEF StoreInv, Counts
  <2>2. Range(stream) \subseteq Range(store)
    BY <2>1 DEF Range
  <2> QED
    BY <1>1, <1>7, <2>2 DEF FullSyncMissesNothing
<1> QED
  BY <1>11, <1>12, <1>13, <1>14, <1>15, <1>16

\* The gap goes out; it is empty or the snapshot is skewed.
LEMMA SendGapStep ==
    ASSUME IInv, SendGap
    PROVE  IInv'
<1> USE DEF IInv
<1> DEFINE gap == read_from(session.base)
           sk == session.skewed \/ gap # <<>>
<1>1. /\ session.phase = "saved" /\ wire' = wire \o CmdMsgs(gap)
      /\ session' = [session EXCEPT !.phase = "live", !.sent = gap, !.skewed = sk]
      /\ skewed' = (skewed \/ (rstate = "stream" /\ gap # <<>>))
      /\ UNCHANGED <<store, pending, stream, replid, sync, rstate, rstore, missed>>
  BY DEF SendGap, clientVars, readVars
<1>2. session.sent = <<>> /\ ~ session.partial /\ rstate \in {"handshake", "stream"}
  BY <1>1 DEF PhaseInv, TypeOK
<1>3. /\ session \in Sessions /\ stream \in Seq(Nat) /\ sk \in BOOLEAN /\ session.base \in Nat
      /\ wire \in Seq(Msgs) /\ Len(wire) \in Nat
  BY DEF TypeOK, Sessions
<1>4. session.base <= Len(stream) /\ Feeds(stream, session.base, <<>>, session.rx)
  <2>1. Feeds(stream, session.base, <<>>, session.rx)
    BY <1>1, <1>2 DEF FeedInv
  <2>2. session.base + 0 + Len(session.rx) = Len(stream) /\ Len(session.rx) \in Nat
    BY <1>3, <2>1 DEF Feeds, Sessions
  <2> QED
    BY <1>3, <2>1, <2>2
<1>5. gap \in Seq(Nat) /\ Len(gap) \in Nat /\ (gap # <<>> => stream # <<>>)
  BY <1>3, <1>4, ReadFrom
<1>6. /\ wire' \in Seq(Msgs) /\ Len(wire') = Len(wire) + Len(gap)
      /\ \A i \in 1 .. Len(wire) : wire'[i] = wire[i]
      /\ \A i \in 1 .. Len(gap) : wire'[Len(wire) + i] = CmdMsg(gap[i])
  <2> HIDE DEF gap
  <2>1. /\ wire \o CmdMsgs(gap) \in Seq(Msgs) /\ Len(wire \o CmdMsgs(gap)) = Len(wire) + Len(gap)
        /\ \A i \in 1 .. Len(wire) : (wire \o CmdMsgs(gap))[i] = wire[i]
        /\ \A i \in 1 .. Len(gap) : (wire \o CmdMsgs(gap))[Len(wire) + i] = CmdMsg(gap[i])
    BY <1>3, <1>5, WriteFacts, Zenon
  <2> QED
    BY <1>1, <2>1, Zenon
<1>7. sk \/ (gap = <<>> /\ ~ session.skewed)
  OBVIOUS
<1> HIDE DEF sk, gap
<1>8. /\ session' \in Sessions /\ session'.phase = "live" /\ session'.sent = gap
      /\ session'.skewed = sk /\ session'.rdb = session.rdb
      /\ session'.partial = session.partial /\ session'.base = session.base
      /\ session'.catch_up = session.catch_up /\ session'.rx = session.rx
  BY <1>1, <1>3, <1>5 DEF Sessions
<1>9. gap = <<>> => wire' = wire
  <2> SUFFICES ASSUME gap = <<>> PROVE wire' = wire
    OBVIOUS
  <2>1. Len(gap) = 0
    OBVIOUS
  <2>2. Len(wire') = Len(wire)
    BY <1>3, <1>6, <2>1
  <2> QED
    BY <1>3, <1>6, <2>2, SeqEqual, Zenon
<1>10. TypeOK'
  BY <1>1, <1>6, <1>8 DEF TypeOK
<1>11. StoreInv'
  <2>1. store = <<>> => gap = <<>>
    <3>1. store = <<>> => stream = <<>>
      BY <1>3 DEF StoreInv
    <3> QED
      BY <1>5, <3>1
  <2> QED
    BY <1>1, <1>8, <1>9, <2>1 DEF StoreInv
<1>12. PhaseInv'
  <2>1. ASSUME rstate = "handshake"
        PROVE  /\ Len(wire') = Len(gap) + 1 /\ wire'[1] = Greeting'
               /\ \A i \in 1 .. Len(gap) : wire'[i + 1] = CmdMsg(gap[i])
    <3>1. Len(wire) = 1 /\ wire[1] = Greeting
      <4>1. Len(wire) = Len(session.sent) + 1 /\ wire[1] = Greeting /\ Len(session.sent) = 0
        BY <1>1, <1>2, <2>1 DEF PhaseInv
      <4> QED
        BY <4>1
    <3>2. Greeting' = Greeting
      BY <1>1, <1>8 DEF Greeting
    <3>3. 1 \in 1 .. Len(wire) /\ Len(wire) + Len(gap) = Len(gap) + 1 /\ \A i \in 1 .. Len(gap) : Len(wire) + i = i + 1
      BY <1>5, <3>1
    <3> QED
      BY <1>6, <3>1, <3>2, <3>3
  <2>2. ASSUME rstate = "stream"
        PROVE  /\ \A i \in DOMAIN wire' : wire'[i].type \in {"cmd", "tail", "args"}
               /\ ~ skewed' => \A i \in DOMAIN wire' : wire'[i].type = "cmd"
               /\ sync.offset + Len(wire') + Len(missed) = session.base + Len(gap)
    <3>1. /\ \A i \in DOMAIN wire : wire[i].type \in {"cmd", "tail", "args"}
          /\ ~ skewed => \A i \in DOMAIN wire : wire[i].type = "cmd"
          /\ sync.offset + Len(wire) + Len(missed) = session.base + Len(session.sent)
      BY <2>2 DEF PhaseInv
    <3>2. sync.offset + Len(wire') + Len(missed) = session.base + Len(gap)
      <4>1. Len(session.sent) = 0 /\ Len(missed) \in Nat /\ sync.offset \in Int
        BY <1>2 DEF TypeOK
      <4> QED
        BY <1>3, <1>5, <1>6, <3>1, <4>1
    <3>3. \A i \in DOMAIN wire' : (i \in DOMAIN wire /\ wire'[i] = wire[i]) \/ wire'[i].type = "cmd"
      <4> SUFFICES ASSUME NEW i \in DOMAIN wire', i \notin 1 .. Len(wire) PROVE wire'[i].type = "cmd"
        BY <1>3, <1>6
      <4>1. i - Len(wire) \in 1 .. Len(gap) /\ Len(wire) + (i - Len(wire)) = i
        BY <1>3, <1>5, <1>6
      <4>2. wire'[i] = CmdMsg(gap[i - Len(wire)])
        BY <1>6, <4>1
      <4> QED
        BY <4>2 DEF CmdMsg
    <3> QED
      BY <1>1, <3>1, <3>2, <3>3
  <2> QED
    BY <1>1, <1>2, <1>8, <2>1, <2>2 DEF PhaseInv
<1>13. FeedInv'
  <2>1. ASSUME rstate = "handshake", ~ sk PROVE Feeds(stream, session.base, gap, session.rx)
    BY <1>4, <1>7, <2>1
  <2>2. ASSUME rstate = "stream", ~ skewed'
        PROVE  Feeds(stream, sync.offset, CmdsOf(wire'), session.rx)
    <3>1. ~ skewed /\ gap = <<>>
      BY <1>1, <2>2
    <3> QED
      BY <1>9, <2>2, <3>1 DEF FeedInv
  <2> QED
    BY <1>1, <1>2, <1>8, <2>1, <2>2 DEF FeedInv
<1>14. StepInv'
  BY <1>1, <1>2, <1>7, <1>8 DEF StepInv
<1>15. FullSyncMissesNothing'
  <2>1. Range(session.sent) = {}
    BY <1>2 DEF Range
  <2> QED
    BY <1>1, <1>2, <1>8, <2>1 DEF FullSyncMissesNothing
<1> QED
  BY <1>10, <1>11, <1>12, <1>13, <1>14, <1>15

\* The next write of the channel goes out.
LEMMA ForwardStep ==
    ASSUME IInv, Forward
    PROVE  IInv'
<1> USE DEF IInv
<1> DEFINE h == Head(session.rx)
           out == Append(session.sent, h)
           left == Tail(session.rx)
<1>1. /\ session.phase = "live" /\ session.rx # <<>> /\ wire' = Append(wire, CmdMsg(h))
      /\ session' = [session EXCEPT !.rx = left, !.sent = out]
      /\ UNCHANGED <<store, pending, stream, replid, sync, rstate, rstore, missed, skewed>>
  BY DEF Forward, clientVars, readVars, CmdMsg
<1>2. /\ session \in Sessions /\ session.rx \in Seq(Nat) /\ session.sent \in Seq(Nat)
      /\ wire \in Seq(Msgs) /\ Len(wire) \in Nat /\ stream \in Seq(Nat) /\ Len(session.sent) \in Nat
      /\ session.base \in Nat
  BY DEF TypeOK, Sessions
<1>3. h \in Nat /\ left \in Seq(Nat) /\ out \in Seq(Nat) /\ Len(out) = Len(session.sent) + 1
  BY <1>1, <1>2
<1>4. CmdMsg(h) \in Msgs /\ CmdMsg(h).type = "cmd" /\ CmdMsg(h).cmd = h
  BY <1>3 DEF CmdMsg, Msgs
<1>5. /\ wire' \in Seq(Msgs) /\ Len(wire') = Len(wire) + 1
      /\ \A i \in 1 .. Len(wire) : wire'[i] = wire[i]
      /\ wire'[Len(wire) + 1] = CmdMsg(h)
  <2> DEFINE m == CmdMsg(h)
  <2> HIDE DEF m
  <2>1. wire' = Append(wire, m) /\ m \in Msgs
    BY <1>1, <1>4 DEF m
  <2>2. /\ wire' \in Seq(Msgs) /\ Len(wire') = Len(wire) + 1
        /\ \A i \in 1 .. Len(wire) : wire'[i] = wire[i]
        /\ wire'[Len(wire) + 1] = m
    BY <1>2, <2>1
  <2> QED
    BY <2>2 DEF m
<1>6. ASSUME NEW o \in Nat, NEW a \in Seq(Nat), Feeds(stream, o, a, session.rx)
      PROVE  Feeds(stream, o, Append(a, h), left)
  BY <1>1, <1>2, <1>6, FeedsForward
<1>7. Range(session.sent) \cup Range(session.rx) = Range(out) \cup Range(left)
  BY <1>1, <1>2, <1>3, RangeFacts
<1>8. out[Len(session.sent) + 1] = h /\ \A i \in 1 .. Len(session.sent) : out[i] = session.sent[i]
  <2> HIDE DEF h
  <2> QED
    BY <1>2, <1>3
<1>9. store # <<>>
  BY <1>1 DEF StoreInv
<1> HIDE DEF h, out, left
<1>l. /\ Len(wire) \in Nat /\ Len(session.sent) \in Nat
      /\ Len(out) = Len(session.sent) + 1 /\ Len(wire') = Len(wire) + 1
  BY <1>2, <1>3, <1>5
<1>d. DOMAIN wire = 1 .. Len(wire) /\ DOMAIN wire' = 1 .. Len(wire')
  BY <1>2, <1>5
<1>10. /\ session' \in Sessions /\ session'.phase = session.phase /\ session'.sent = out
      /\ session'.skewed = session.skewed /\ session'.rdb = session.rdb
      /\ session'.partial = session.partial /\ session'.base = session.base
      /\ session'.catch_up = session.catch_up /\ session'.rx = left
  BY <1>1, <1>2, <1>3 DEF Sessions
<1>11. TypeOK'
  BY <1>1, <1>5, <1>10 DEF TypeOK
<1>12. StoreInv'
  BY <1>1, <1>9 DEF StoreInv
<1>13. PhaseInv'
  <2>1. ASSUME rstate = "handshake"
        PROVE  /\ Len(wire') = Len(out) + 1 /\ wire'[1] = Greeting'
               /\ \A i \in 1 .. Len(out) : wire'[i + 1] = CmdMsg(out[i])
    <3>1. /\ Len(wire) = Len(session.sent) + 1 /\ wire[1] = Greeting
          /\ \A i \in 1 .. Len(session.sent) : wire[i + 1] = CmdMsg(session.sent[i])
      BY <1>1, <2>1 DEF PhaseInv
    <3>2. Greeting' = Greeting
      BY <1>1, <1>10 DEF Greeting
    <3>3. wire'[1] = wire[1] /\ Len(wire') = Len(out) + 1
      <4>1. 1 \in 1 .. Len(wire) /\ Len(wire') = Len(out) + 1
        BY <1>l, <3>1
      <4> QED
        BY <1>5, <4>1
    <3>4. ASSUME NEW i \in 1 .. Len(out) PROVE wire'[i + 1] = CmdMsg(out[i])
      <4>1. CASE i = Len(session.sent) + 1
        <5>1. i + 1 = Len(wire) + 1
          BY <3>1, <4>1
        <5> QED
          BY <1>5, <1>8, <4>1, <5>1
      <4>2. CASE i # Len(session.sent) + 1
        <5>1. i \in 1 .. Len(session.sent) /\ i + 1 \in 1 .. Len(wire)
          BY <1>l, <3>1, <4>2
        <5>2. wire'[i + 1] = wire[i + 1] /\ out[i] = session.sent[i]
          BY <1>5, <1>8, <4>2, <5>1
        <5> QED
          BY <3>1, <5>1, <5>2
      <4> QED
        BY <4>1, <4>2
    <3> QED
      BY <3>1, <3>2, <3>3, <3>4
  <2>2. ASSUME rstate \in {"stream", "stuck"}
        PROVE  \A i \in DOMAIN wire' : wire'[i].type \in {"cmd", "tail", "args"}
    <3>1. \A i \in 1 .. Len(wire) : wire[i].type \in {"cmd", "tail", "args"}
      BY <1>d, <2>2 DEF PhaseInv
    <3>2. \A i \in DOMAIN wire' : i \in 1 .. Len(wire) \/ i = Len(wire) + 1
      BY <1>l, <1>d
    <3> QED
      BY <1>4, <1>5, <3>1, <3>2
  <2>3. ASSUME rstate = "stream"
        PROVE  /\ ~ skewed => \A i \in DOMAIN wire' : wire'[i].type = "cmd"
               /\ sync.offset + Len(wire') + Len(missed) = session.base + Len(out)
    <3>1. /\ ~ skewed => \A i \in DOMAIN wire : wire[i].type = "cmd"
          /\ sync.offset + Len(wire) + Len(missed) = session.base + Len(session.sent)
      BY <2>3 DEF PhaseInv
    <3>2. sync.offset + Len(wire') + Len(missed) = session.base + Len(out)
      <4>1. Len(missed) \in Nat /\ sync.offset \in Int
        BY DEF TypeOK
      <4>2. sync.offset + Len(wire) + Len(missed) = session.base + Len(session.sent) /\ session.base \in Nat
        BY <1>2, <3>1
      <4>3. sync.offset + Len(wire') = sync.offset + Len(wire) + 1
        BY <1>l, <4>1
      <4>4. sync.offset + Len(wire) + 1 + Len(missed) = sync.offset + Len(wire) + Len(missed) + 1
        BY <1>l, <4>1
      <4>5. session.base + Len(out) = session.base + Len(session.sent) + 1
        BY <1>l, <4>2
      <4> QED
        BY <4>2, <4>3, <4>4, <4>5
    <3>3. \A i \in DOMAIN wire' : (i \in DOMAIN wire /\ wire'[i] = wire[i]) \/ wire'[i].type = "cmd"
      <4>1. \A i \in DOMAIN wire' : i \in 1 .. Len(wire) \/ i = Len(wire) + 1
        BY <1>l, <1>d
      <4> QED
        BY <1>4, <1>5, <1>d, <4>1
    <3> QED
      BY <3>1, <3>2, <3>3
  <2> QED
    BY <1>1, <1>10, <2>1, <2>2, <2>3 DEF PhaseInv
<1>14. FeedInv'
  <2>1. ASSUME session.partial \/ (rstate = "handshake" /\ ~ session.skewed)
        PROVE  Feeds(stream, session.base, out, left)
    <3>1. Feeds(stream, session.base, session.sent, session.rx)
      BY <1>1, <2>1 DEF FeedInv
    <3> QED
      BY <1>2, <1>6, <3>1 DEF out
  <2>2. ASSUME rstate = "stream", ~ skewed
        PROVE  Feeds(stream, sync.offset, CmdsOf(wire'), left)
    <3>1. Feeds(stream, sync.offset, CmdsOf(wire), session.rx)
      BY <2>2 DEF FeedInv
    <3>2. \A i \in 1 .. Len(wire) : wire[i].type \in {"cmd", "tail", "args"}
      BY <1>2, <2>2 DEF PhaseInv
    <3>3. CmdsOf(wire) \in Seq(Nat)
      BY <1>2, <3>2, CmdsOfFacts
    <3>4. CmdsOf(wire') = Append(CmdsOf(wire), h)
      <4>1. Len(CmdsOf(wire)) = Len(wire) /\ \A i \in 1 .. Len(wire) : CmdsOf(wire)[i] = wire[i].cmd
        BY <1>2, <3>2, CmdsOfFacts
      <4>2. ASSUME NEW i \in 1 .. Len(wire') PROVE wire'[i].type \in {"cmd", "tail", "args"}
        <5>1. i \in 1 .. Len(wire) \/ i = Len(wire) + 1
          BY <1>l
        <5> QED
          BY <1>4, <1>5, <3>2, <5>1
      <4>3. /\ CmdsOf(wire') \in Seq(Nat) /\ Len(CmdsOf(wire')) = Len(wire')
            /\ \A i \in 1 .. Len(wire') : CmdsOf(wire')[i] = wire'[i].cmd
        BY <1>5, <4>2, CmdsOfFacts
      <4> DEFINE cs == CmdsOf(wire)
                 ap == Append(cs, h)
      <4>4. /\ ap \in Seq(Nat) /\ Len(ap) = Len(cs) + 1 /\ ap[Len(cs) + 1] = h
            /\ \A i \in 1 .. Len(cs) : ap[i] = cs[i]
        <5> HIDE DEF cs
        <5>1. cs \in Seq(Nat)
          BY <3>3 DEF cs
        <5> QED
          BY <1>3, <5>1
      <4>5. Len(ap) = Len(wire')
        BY <1>l, <4>1, <4>4
      <4>6. ASSUME NEW i \in 1 .. Len(wire') PROVE CmdsOf(wire')[i] = ap[i]
        <5>1. i \in 1 .. Len(wire) \/ i = Len(wire) + 1
          BY <1>l
        <5>2. CmdsOf(wire')[i] = wire'[i].cmd
          BY <4>3
        <5>3. CASE i \in 1 .. Len(wire)
          BY <1>5, <4>1, <4>4, <5>2, <5>3
        <5>4. CASE i = Len(wire) + 1
          BY <1>4, <1>5, <4>1, <4>4, <5>2, <5>4
        <5> QED
          BY <5>1, <5>3, <5>4
      <4> HIDE DEF ap
      <4>7. CmdsOf(wire') = ap
        BY <4>3, <4>4, <4>5, <4>6, SeqEqual, Zenon
      <4> QED
        BY <4>7 DEF ap
    <3>5. sync.offset \in Nat
      BY <1>2, <2>2 DEF PhaseInv, TypeOK
    <3> QED
      BY <1>6, <3>1, <3>3, <3>4, <3>5
  <2> QED
    BY <1>1, <1>10, <2>1, <2>2 DEF FeedInv
<1>15. StepInv'
  BY <1>1, <1>10 DEF StepInv
<1>16. FullSyncMissesNothing'
  BY <1>1, <1>7, <1>10 DEF FullSyncMissesNothing
<1> QED
  BY <1>11, <1>12, <1>13, <1>14, <1>15, <1>16

-----------------------------------------------------------------------------
(* The replica keeps the invariant. *)

\* What is behind the greeting of a session is what the master has sent.
LEMMA AfterGreeting ==
    ASSUME IInv, rstate = "handshake", wire # <<>>
    PROVE  /\ session.phase \in {"saved", "live"} /\ missed = <<>>
           /\ Head(wire) = Greeting
           /\ Tail(wire) \in Seq(Msgs) /\ Len(Tail(wire)) = Len(session.sent)
           /\ \A i \in DOMAIN Tail(wire) : Tail(wire)[i].type = "cmd"
           /\ CmdsOf(Tail(wire)) = session.sent
<1> USE DEF IInv
<1>1. session.phase \in {"saved", "live"} /\ missed = <<>>
  BY DEF PhaseInv, TypeOK, Sessions
<1>2. /\ Len(wire) = Len(session.sent) + 1 /\ wire[1] = Greeting
      /\ \A i \in 1 .. Len(session.sent) : wire[i + 1] = CmdMsg(session.sent[i])
  BY <1>1 DEF PhaseInv
<1>3. wire \in Seq(Msgs) /\ session.sent \in Seq(Nat)
  BY DEF TypeOK, Sessions
<1> DEFINE t == Tail(wire)
<1>4. /\ Head(wire) = wire[1] /\ t \in Seq(Msgs) /\ Len(t) = Len(wire) - 1
      /\ \A i \in 1 .. Len(t) : t[i] = wire[i + 1]
  BY <1>3
<1> HIDE DEF t
<1>5. Len(t) = Len(session.sent) /\ DOMAIN t = 1 .. Len(t)
  BY <1>2, <1>3, <1>4
<1>6. \A i \in 1 .. Len(t) : t[i] = CmdMsg(session.sent[i])
  BY <1>2, <1>4, <1>5
<1>7. \A i \in 1 .. Len(t) : t[i].type = "cmd" /\ t[i].cmd = session.sent[i]
  <2>1. \A c : CmdMsg(c).type = "cmd" /\ CmdMsg(c).cmd = c
    BY DEF CmdMsg
  <2> QED
    BY <1>6, <2>1
<1>8. CmdsOf(t) \in Seq(Nat) /\ Len(CmdsOf(t)) = Len(t) /\ \A i \in 1 .. Len(t) : CmdsOf(t)[i] = t[i].cmd
  BY <1>4, <1>7, CmdsOfFacts
<1>9. CmdsOf(t) = session.sent
  <2>1. \A i \in 1 .. Len(CmdsOf(t)) : CmdsOf(t)[i] = session.sent[i]
    BY <1>7, <1>8
  <2>2. Len(CmdsOf(t)) = Len(session.sent)
    BY <1>5, <1>8
  <2> QED
    BY <1>3, <1>8, <2>1, <2>2, SeqEqual, Zenon
<1> QED
  BY <1>1, <1>2, <1>4, <1>5, <1>7, <1>9 DEF t

\* The replica loads the snapshot and takes over offset and replication id.
LEMMA ReceiveFullresyncStep ==
    ASSUME IInv, ReceiveFullresync
    PROVE  IInv'
<1> USE DEF IInv
<1>1. /\ rstate = "handshake" /\ wire # <<>> /\ Head(wire).type = "fullresync"
      /\ rstore' = LoadRdb(Head(wire).rdb)
      /\ sync' = [replid |-> Head(wire).replid, offset |-> Head(wire).offset]
      /\ rstate' = "stream" /\ wire' = Tail(wire) /\ skewed' = session.skewed
      /\ UNCHANGED <<store, pending, stream, replid, session, missed>>
  BY DEF ReceiveFullresync, clientVars, readVars
<1>2. /\ session.phase \in {"saved", "live"} /\ missed = <<>>
      /\ Head(wire) = Greeting
      /\ wire' \in Seq(Msgs) /\ Len(wire') = Len(session.sent)
      /\ \A i \in DOMAIN wire' : wire'[i].type = "cmd"
      /\ CmdsOf(wire') = session.sent
  BY <1>1, AfterGreeting
<1>3. ~ session.partial
  BY <1>1, <1>2 DEF Greeting
<1>4. Head(wire).replid = replid /\ Head(wire).offset = session.base /\ Head(wire).rdb = session.rdb
  BY <1>2, <1>3 DEF Greeting
<1>5. session \in Sessions /\ session.rdb \in Seq(Nat) /\ session.base \in Nat /\ replid \in Nat
  BY DEF TypeOK, Sessions
<1>6. sync'.replid = replid /\ sync'.offset = session.base /\ sync' \in [replid : Nat, offset : Nat \cup {-1}]
  BY <1>1, <1>4, <1>5
<1>7. rstore' = session.rdb
  BY <1>1, <1>2, <1>3, <1>4 DEF LoadRdb, StepInv
<1>8. TypeOK'
  BY <1>1, <1>2, <1>5, <1>6, <1>7 DEF TypeOK, Sessions
<1>9. StoreInv'
  <2>1. ASSUME store = <<>> PROVE rstore' = <<>> /\ \A i \in DOMAIN wire' : wire'[i].type \in {"continue", "fullresync"}
    <3>1. session.rdb = <<>> /\ session.sent = <<>> /\ Len(session.sent) = 0
      BY <2>1 DEF StoreInv
    <3>2. DOMAIN wire' = 1 .. 0
      BY <1>2, <3>1
    <3>3. \A i \in DOMAIN wire' : FALSE
      BY <3>2
    <3> QED
      BY <1>7, <3>1, <3>3
  <2> QED
    BY <1>1, <1>5, <1>6, <2>1 DEF StoreInv
<1>10. PhaseInv'
  <2>1. sync'.offset + Len(wire') + Len(missed') = session.base + Len(session.sent)
    <3>1. Len(missed') = 0 /\ Len(session.sent) \in Nat
      BY <1>1, <1>2, <1>5 DEF Sessions
    <3> QED
      BY <1>2, <1>5, <1>6, <3>1
  <2> QED
    BY <1>1, <1>2, <1>5, <1>6, <2>1 DEF PhaseInv
<1>11. FeedInv'
  <2>1. ASSUME ~ session.skewed PROVE Feeds(stream, session.base, session.sent, session.rx)
    <3>1. CASE session.phase = "live"
      BY <1>1, <2>1, <3>1 DEF FeedInv
    <3>2. CASE session.phase = "saved"
      <4>1. session.sent = <<>>
        BY <3>2 DEF PhaseInv
      <4> QED
        BY <1>3, <3>2, <4>1 DEF FeedInv
    <3> QED
      BY <1>2, <3>1, <3>2
  <2> QED
    BY <1>1, <1>2, <1>3, <1>6, <2>1 DEF FeedInv
<1>12. StepInv'
  BY <1>1, <1>2, <1>3, <1>6, <1>7 DEF StepInv
<1>13. FullSyncMissesNothing'
  BY <1>1 DEF FullSyncMissesNothing
<1> QED
  BY <1>8, <1>9, <1>10, <1>11, <1>12, <1>13

\* The replica goes on from the offset it asked for.
LEMMA ReceiveContinueStep ==
    ASSUME IInv, ReceiveContinue
    PROVE  IInv'
<1> USE DEF IInv
<1>1. /\ rstate = "handshake" /\ wire # <<>> /\ Head(wire).type = "continue"
      /\ rstate' = "stream" /\ wire' = Tail(wire)
      /\ UNCHANGED <<store, pending, stream, replid, session, sync, rstore, missed, skewed>>
  BY DEF ReceiveContinue, clientVars, readVars
<1>2. /\ session.phase \in {"saved", "live"} /\ missed = <<>>
      /\ Head(wire) = Greeting
      /\ wire' \in Seq(Msgs) /\ Len(wire') = Len(session.sent)
      /\ \A i \in DOMAIN wire' : wire'[i].type = "cmd"
      /\ CmdsOf(wire') = session.sent
  BY <1>1, AfterGreeting
<1>3. session.partial
  BY <1>1, <1>2 DEF Greeting
<1>4. session.phase = "live" /\ sync.offset = session.base /\ sync.replid = replid
  BY <1>1, <1>2, <1>3 DEF PhaseInv
<1>5. session \in Sessions /\ session.base \in Nat
  BY DEF TypeOK, Sessions
<1>6. TypeOK'
  BY <1>1, <1>2 DEF TypeOK
<1>7. StoreInv'
  <2>1. ASSUME store = <<>> PROVE \A i \in DOMAIN wire' : wire'[i].type \in {"continue", "fullresync"}
    <3>1. session.sent = <<>> /\ Len(session.sent) = 0
      BY <2>1 DEF StoreInv
    <3>2. DOMAIN wire' = 1 .. 0
      BY <1>2, <3>1
    <3> QED
      BY <3>2
  <2> QED
    BY <1>1, <2>1 DEF StoreInv
<1>8. PhaseInv'
  <2>1. sync.offset + Len(wire') + Len(missed) = session.base + Len(session.sent)
    <3>1. Len(missed) = 0 /\ Len(session.sent) \in Nat
      BY <1>2, <1>5 DEF Sessions
    <3> QED
      BY <1>2, <1>4, <1>5, <3>1
  <2> QED
    BY <1>1, <1>2, <1>4, <1>5, <2>1 DEF PhaseInv
<1>9. FeedInv'
  BY <1>1, <1>2, <1>3, <1>4 DEF FeedInv
<1>10. StepInv'
  BY <1>1, <1>3 DEF StepInv
<1>11. FullSyncMissesNothing'
  BY <1>1 DEF FullSyncMissesNothing
<1> QED
  BY <1>6, <1>7, <1>8, <1>9, <1>10, <1>11

\* While the replica streams, the socket holds commands and parts of them.
LEMMA StreamingWire ==
    ASSUME IInv, rstate = "stream"
    PROVE  /\ wire \in Seq(Msgs) /\ Len(wire) \in Nat /\ DOMAIN wire = 1 .. Len(wire)
           /\ \A i \in 1 .. Len(wire) :
                 wire[i] \in [type : {"cmd", "tail", "args"}, cmd : Nat]
           /\ sync.offset \in Nat /\ sync.replid = replid /\ session.phase \in {"saved", "live"}
           /\ wire # <<>> => /\ 1 \in 1 .. Len(wire) /\ Head(wire) = wire[1] /\ store # <<>>
                             /\ session.phase = "live"
<1> USE DEF IInv
<1>1. wire \in Seq(Msgs) /\ Len(wire) \in Nat /\ DOMAIN wire = 1 .. Len(wire)
  BY DEF TypeOK
<1>2. ASSUME NEW i \in 1 .. Len(wire) PROVE wire[i] \in [type : {"cmd", "tail", "args"}, cmd : Nat]
  <2>1. wire[i] \in Msgs /\ wire[i].type \in {"cmd", "tail", "args"}
    BY <1>1 DEF PhaseInv
  <2> QED
    BY <2>1 DEF Msgs
<1>3. /\ session.base \in Nat /\ session.base <= sync.offset /\ sync.replid = replid
      /\ sync.offset + Len(wire) + Len(missed) = session.base + Len(session.sent)
  BY DEF PhaseInv, TypeOK, Sessions
<1>4. sync.offset \in Nat
  BY <1>3 DEF TypeOK
<1>5. session.phase \in {"saved", "live"}
  BY DEF PhaseInv, TypeOK, Sessions
<1>6. ASSUME wire # <<>>
      PROVE  /\ 1 \in 1 .. Len(wire) /\ Head(wire) = wire[1] /\ store # <<>> /\ session.phase = "live"
  <2>1. 1 \in 1 .. Len(wire) /\ Head(wire) = wire[1] /\ Len(wire) > 0
    BY <1>1, <1>6
  <2>2. store # <<>>
    <3>1. wire[1].type \in {"cmd", "tail", "args"}
      BY <1>2, <2>1
    <3> QED
      BY <1>1, <2>1, <3>1 DEF StoreInv
  <2>3. session.phase = "live"
    <3> SUFFICES ASSUME session.phase = "saved" PROVE FALSE
      BY <1>5
    <3>1. Len(session.sent) = 0 /\ Len(missed) \in Nat
      BY DEF PhaseInv, TypeOK
    <3> QED
      BY <1>1, <1>3, <1>4, <2>1, <3>1
  <2> QED
    BY <2>1, <2>2, <2>3
<1> QED
  BY <1>1, <1>2, <1>3, <1>4, <1>5, <1>6

\* The replica counts and applies a command.
LEMMA ApplyStep ==
    ASSUME IInv, Apply
    PROVE  IInv'
<1> USE DEF IInv
<1>1. /\ rstate = "stream" /\ wire # <<>> /\ Head(wire).type = "cmd"
      /\ sync' = [sync EXCEPT !.offset = sync.offset + 1]
      /\ rstore' = Append(rstore, Head(wire).cmd) /\ wire' = Tail(wire)
      /\ UNCHANGED <<store, pending, stream, replid, session, rstate, missed, skewed>>
  BY DEF Apply, Arrives, clientVars, readVars
<1>2. /\ wire \in Seq(Msgs) /\ Len(wire) \in Nat /\ DOMAIN wire = 1 .. Len(wire)
      /\ \A i \in 1 .. Len(wire) : wire[i] \in [type : {"cmd", "tail", "args"}, cmd : Nat]
      /\ sync.offset \in Nat /\ sync.replid = replid /\ session.phase \in {"saved", "live"}
      /\ 1 \in 1 .. Len(wire) /\ Head(wire) = wire[1] /\ store # <<>> /\ session.phase = "live"
  BY <1>1, StreamingWire
<1>3. /\ wire' \in Seq(Msgs) /\ Len(wire') = Len(wire) - 1 /\ DOMAIN wire' = 1 .. Len(wire')
      /\ \A i \in 1 .. Len(wire') : i + 1 \in 1 .. Len(wire) /\ wire'[i] = wire[i + 1]
  BY <1>1, <1>2
<1>4. sync'.offset = sync.offset + 1 /\ sync'.replid = replid /\ sync' \in [replid : Nat, offset : Nat \cup {-1}]
  <2>1. sync \in [replid : Nat, offset : Nat \cup {-1}]
    BY DEF TypeOK
  <2>2. sync'.offset = sync.offset + 1 /\ sync'.replid = replid
    BY <1>1, <1>2, <2>1
  <2>3. sync.offset + 1 \in Nat
    BY <1>2
  <2>4. sync' \in [replid : Nat, offset : Nat \cup {-1}]
    BY <1>1, <2>1, <2>3
  <2> QED
    BY <2>2, <2>4
<1>5. Head(wire).cmd \in Nat /\ rstore \in Seq(Nat)
  BY <1>2 DEF TypeOK
<1>6. /\ rstore' \in Seq(Nat) /\ Len(rstore') = Len(rstore) + 1
      /\ rstore'[Len(rstore) + 1] = Head(wire).cmd
      /\ \A i \in 1 .. Len(rstore) : rstore'[i] = rstore[i]
  BY <1>1, <1>5
<1>7. TypeOK'
  BY <1>1, <1>3, <1>4, <1>6 DEF TypeOK
<1>8. StoreInv'
  <2>1. sync'.replid <= replid
    BY <1>2, <1>4 DEF StoreInv
  <2> QED
    BY <1>1, <1>2, <2>1 DEF StoreInv
<1>9. PhaseInv'
  <2>1. \A i \in DOMAIN wire' : wire'[i].type \in {"cmd", "tail", "args"}
    BY <1>2, <1>3
  <2>2. ~ skewed => \A i \in DOMAIN wire' : wire'[i].type = "cmd"
    BY <1>1, <1>2, <1>3 DEF PhaseInv
  <2>3. sync'.offset + Len(wire') = sync.offset + Len(wire)
    BY <1>2, <1>3, <1>4
  <2>4. session.base <= sync'.offset
    <3>1. session.base <= sync.offset /\ session.base \in Nat
      BY <1>1 DEF PhaseInv, TypeOK, Sessions
    <3> QED
      BY <1>2, <1>4, <3>1
  <2> QED
    BY <1>1, <1>2, <1>4, <2>1, <2>2, <2>3, <2>4 DEF PhaseInv
<1>10. ASSUME ~ skewed
       PROVE  /\ Feeds(stream, sync'.offset, CmdsOf(wire'), session.rx)
              /\ Counts(rstore') /\ InStep(stream, pending, Len(store), Len(rstore'), sync'.offset)
  <2> DEFINE cs == CmdsOf(wire)
  <2>1. cs \in Seq(Nat) /\ Len(cs) = Len(wire) /\ \A i \in 1 .. Len(wire) : cs[i] = wire[i].cmd
    <3>1. \A i \in 1 .. Len(wire) : wire[i].type \in {"cmd", "tail", "args"}
      BY <1>2
    <3> QED
      BY <1>2, <3>1, CmdsOfFacts
  <2>2. CmdsOf(wire') = Tail(cs)
    <3>1. \A i \in 1 .. Len(wire') : wire'[i].type \in {"cmd", "tail", "args"}
      BY <1>2, <1>3
    <3>2. CmdsOf(wire') \in Seq(Nat) /\ Len(CmdsOf(wire')) = Len(wire') /\ \A i \in 1 .. Len(wire') : CmdsOf(wire')[i] = wire'[i].cmd
      BY <1>3, <3>1, CmdsOfFacts
    <3> HIDE DEF cs
    <3>3. cs # <<>>
      BY <1>2, <2>1
    <3>4. /\ Tail(cs) \in Seq(Nat) /\ Len(Tail(cs)) = Len(cs) - 1
          /\ \A i \in 1 .. Len(cs) - 1 : Tail(cs)[i] = cs[i + 1]
      BY <2>1, <3>3
    <3>5. Len(CmdsOf(wire')) = Len(Tail(cs))
      BY <1>3, <2>1, <3>2, <3>4
    <3>6. \A i \in 1 .. Len(CmdsOf(wire')) : CmdsOf(wire')[i] = Tail(cs)[i]
      BY <1>3, <2>1, <3>2, <3>4
    <3> QED
      BY <3>2, <3>4, <3>5, <3>6, SeqEqual, Zenon
  <2>3. Feeds(stream, sync.offset, cs, session.rx)
    BY <1>1, <1>10 DEF FeedInv
  <2>4. stream \in Seq(Nat) /\ session.rx \in Seq(Nat) /\ Len(store) \in Nat /\ Len(rstore) \in Nat
    BY DEF TypeOK, Sessions
  <2> HIDE DEF cs
  <2>5. cs # <<>> /\ cs[1] = Head(wire).cmd
    BY <1>2, <2>1
  <2>6. /\ sync.offset + 1 \in 1 .. Len(stream) /\ cs[1] = stream[sync.offset + 1]
        /\ Feeds(stream, sync.offset + 1, Tail(cs), session.rx)
    BY <1>2, <2>1, <2>3, <2>4, <2>5, FeedsApply
  <2>7. Counts(rstore) /\ InStep(stream, pending, Len(store), Len(rstore), sync.offset)
    BY <1>2, <1>10 DEF StepInv
  <2>8. stream[sync.offset + 1] = Len(rstore) + 1 /\ InStep(stream, pending, Len(store), Len(rstore) + 1, sync.offset + 1)
    BY <1>2, <2>4, <2>6, <2>7, InStepApply
  <2>9. Counts(rstore')
    <3>1. DOMAIN rstore' = 1 .. Len(rstore) + 1 /\ DOMAIN rstore = 1 .. Len(rstore)
      BY <1>5, <1>6
    <3>2. rstore'[Len(rstore) + 1] = Len(rstore) + 1
      BY <1>6, <2>5, <2>6, <2>8
    <3>3. \A i \in 1 .. Len(rstore) + 1 : i \in 1 .. Len(rstore) \/ i = Len(rstore) + 1
      BY <2>4
    <3> QED
      BY <1>6, <2>7, <3>1, <3>2, <3>3 DEF Counts
  <2> QED
    BY <1>4, <1>6, <2>2, <2>6, <2>8, <2>9
<1>11. FeedInv'
  BY <1>1, <1>10 DEF FeedInv
<1>12. StepInv'
  BY <1>1, <1>10 DEF StepInv
<1>13. FullSyncMissesNothing'
  BY <1>1 DEF FullSyncMissesNothing
<1> QED
  BY <1>7, <1>8, <1>9, <1>11, <1>12, <1>13

\* A cut read leaves a part of a command in front.
LEMMA ReadCutStep ==
    ASSUME IInv, ReadCut
    PROVE  IInv'
<1> USE DEF IInv
<1>1. /\ rstate = "stream" /\ wire # <<>> /\ skewed' = TRUE
      /\ UNCHANGED <<store, pending, stream, replid, session, sync, rstate, rstore, missed>>
  BY DEF ReadCut, Arrives, clientVars
<1>2. PICK rest \in {"tail", "args"} : wire' = <<[Head(wire) EXCEPT !.type = rest]>> \o Tail(wire)
  BY DEF ReadCut
<1>3. /\ wire \in Seq(Msgs) /\ Len(wire) \in Nat /\ DOMAIN wire = 1 .. Len(wire)
      /\ \A i \in 1 .. Len(wire) : wire[i] \in [type : {"cmd", "tail", "args"}, cmd : Nat]
      /\ sync.offset \in Nat /\ sync.replid = replid /\ session.phase \in {"saved", "live"}
      /\ 1 \in 1 .. Len(wire) /\ Head(wire) = wire[1] /\ store # <<>> /\ session.phase = "live"
  BY <1>1, StreamingWire
<1> DEFINE m == [Head(wire) EXCEPT !.type = rest]
           t == Tail(wire)
<1>4. m \in [type : {"cmd", "tail", "args"}, cmd : Nat]
  BY <1>3
<1>5. t \in Seq(Msgs) /\ Len(t) = Len(wire) - 1 /\ \A i \in 1 .. Len(t) : t[i] = wire[i + 1] /\ i + 1 \in 1 .. Len(wire)
  BY <1>1, <1>3
<1>6. wire' = <<m>> \o t /\ m \in Msgs
  BY <1>2, <1>4 DEF Msgs
<1> HIDE DEF m, t
<1>7. /\ wire' \in Seq(Msgs) /\ Len(wire') = Len(t) + 1 /\ wire'[1] = m
      /\ \A i \in 1 .. Len(t) : wire'[i + 1] = t[i]
  BY <1>5, <1>6
<1>8. Len(wire') = Len(wire) /\ DOMAIN wire' = 1 .. Len(wire')
  BY <1>3, <1>5, <1>7
<1>9. ASSUME NEW i \in DOMAIN wire' PROVE wire'[i].type \in {"cmd", "tail", "args"}
  <2>1. CASE i = 1
    BY <1>4, <1>7, <2>1
  <2>2. CASE i # 1
    <3>1. i - 1 \in 1 .. Len(t) /\ (i - 1) + 1 = i
      BY <1>3, <1>5, <1>8, <2>2
    <3>2. wire'[i] = wire[i] /\ i \in 1 .. Len(wire)
      BY <1>3, <1>5, <1>7, <1>8, <3>1
    <3> QED
      BY <1>3, <3>2
  <2> QED
    BY <2>1, <2>2
<1>10. TypeOK'
  BY <1>1, <1>7 DEF TypeOK
<1>11. StoreInv'
  BY <1>1, <1>3 DEF StoreInv
<1>12. PhaseInv'
  BY <1>1, <1>3, <1>8, <1>9 DEF PhaseInv
<1>13. FeedInv' /\ StepInv'
  BY <1>1 DEF FeedInv, StepInv
<1>14. FullSyncMissesNothing'
  BY <1>1 DEF FullSyncMissesNothing
<1> QED
  BY <1>10, <1>11, <1>12, <1>13, <1>14

\* The commands of the first n messages of the socket.
LEMMA Thrown ==
    ASSUME NEW w \in Seq(Msgs), NEW n \in 1 .. Len(w),
           \A i \in 1 .. Len(w) : w[i] \in [type : {"cmd", "tail", "args"}, cmd : Nat]
    PROVE  /\ CmdsOf(SubSeq(w, 1, n)) \in Seq(Nat) /\ Len(CmdsOf(SubSeq(w, 1, n))) = n
           /\ SubSeq(w, n + 1, Len(w)) \in Seq(Msgs) /\ Len(SubSeq(w, n + 1, Len(w))) = Len(w) - n
           /\ \A i \in 1 .. Len(w) - n : SubSeq(w, n + 1, Len(w))[i] = w[n + i] /\ n + i \in 1 .. Len(w)
<1> DEFINE a == SubSeq(w, 1, n)
<1>1. Len(w) \in Nat /\ n \in Nat /\ n <= Len(w)
  OBVIOUS
<1>2. a \in Seq(Msgs) /\ Len(a) = n /\ \A i \in 1 .. n : a[i] = w[i] /\ i \in 1 .. Len(w)
  BY <1>1
<1>3. /\ SubSeq(w, n + 1, Len(w)) \in Seq(Msgs) /\ Len(SubSeq(w, n + 1, Len(w))) = Len(w) - n
      /\ \A i \in 1 .. Len(w) - n : SubSeq(w, n + 1, Len(w))[i] = w[n + i] /\ n + i \in 1 .. Len(w)
  BY <1>1
<1> HIDE DEF a
<1>4. \A i \in 1 .. Len(a) : a[i].type \in {"cmd", "tail", "args"}
  BY <1>2
<1>5. CmdsOf(a) \in Seq(Nat) /\ Len(CmdsOf(a)) = n
  BY <1>2, <1>4, CmdsOfFacts
<1> QED
  BY <1>3, <1>5 DEF a

\* What does not parse is thrown away with what was read after it.
LEMMA ReadRestStep ==
    ASSUME IInv, ReadRest
    PROVE  IInv'
<1> USE DEF IInv
<1>1. /\ rstate = "stream" /\ wire # <<>> /\ Head(wire).type = "tail"
      /\ UNCHANGED <<store, pending, stream, replid, session, sync, rstate, rstore, skewed>>
  BY DEF ReadRest, Arrives, clientVars
<1>2. PICK n \in 1 .. Len(wire) : /\ wire' = SubSeq(wire, n + 1, Len(wire))
                                  /\ missed' = missed \o CmdsOf(SubSeq(wire, 1, n))
  BY DEF ReadRest
<1>3. /\ wire \in Seq(Msgs) /\ Len(wire) \in Nat /\ DOMAIN wire = 1 .. Len(wire)
      /\ \A i \in 1 .. Len(wire) : wire[i] \in [type : {"cmd", "tail", "args"}, cmd : Nat]
      /\ sync.offset \in Nat /\ sync.replid = replid /\ session.phase \in {"saved", "live"}
      /\ 1 \in 1 .. Len(wire) /\ Head(wire) = wire[1] /\ store # <<>> /\ session.phase = "live"
  BY <1>1, StreamingWire
<1> DEFINE cs == CmdsOf(SubSeq(wire, 1, n))
<1>4. /\ cs \in Seq(Nat) /\ Len(cs) = n
      /\ wire' \in Seq(Msgs) /\ Len(wire') = Len(wire) - n
      /\ \A i \in 1 .. Len(wire) - n : wire'[i] = wire[n + i] /\ n + i \in 1 .. Len(wire)
  BY <1>2, <1>3, Thrown
<1>5. missed' = missed \o cs /\ missed \in Seq(Nat) /\ Len(missed) \in Nat
  BY <1>2 DEF TypeOK
<1> HIDE DEF cs
<1>6. missed' \in Seq(Nat) /\ Len(missed') = Len(missed) + n
  <2>1. missed \o cs \in Seq(Nat) /\ Len(missed \o cs) = Len(missed) + Len(cs)
    BY <1>4, <1>5, ConcatProperties, Zenon
  <2> QED
    BY <1>4, <1>5, <2>1
<1>7. skewed = TRUE
  BY <1>1, <1>3 DEF PhaseInv, TypeOK
<1>8. TypeOK'
  BY <1>1, <1>4, <1>6 DEF TypeOK
<1>9. StoreInv'
  BY <1>1, <1>3 DEF StoreInv
<1>10. PhaseInv'
  <2>1. \A i \in DOMAIN wire' : wire'[i].type \in {"cmd", "tail", "args"}
    <3>1. DOMAIN wire' = 1 .. Len(wire) - n
      BY <1>4
    <3>2. ASSUME NEW i \in 1 .. Len(wire) - n PROVE wire'[i].type \in {"cmd", "tail", "args"}
      <4>1. wire'[i] = wire[n + i] /\ n + i \in 1 .. Len(wire)
        BY <1>4
      <4>2. wire[n + i] \in [type : {"cmd", "tail", "args"}, cmd : Nat]
        BY <1>3, <4>1
      <4> QED
        BY <4>1, <4>2
    <3> QED
      BY <3>1, <3>2
  <2>2. sync.offset + Len(wire') + Len(missed') = sync.offset + Len(wire) + Len(missed)
    <3>1. \A o, w, k, x \in Nat : o + (w - k) + (x + k) = o + w + x
      OBVIOUS
    <3> QED
      BY <1>3, <1>4, <1>5, <1>6, <3>1
  <2> QED
    BY <1>1, <1>3, <1>7, <2>1, <2>2 DEF PhaseInv
<1>11. FeedInv' /\ StepInv'
  BY <1>1, <1>3, <1>7 DEF FeedInv, StepInv
<1>12. FullSyncMissesNothing'
  BY <1>1 DEF FullSyncMissesNothing
<1> QED
  BY <1>8, <1>9, <1>10, <1>11, <1>12

\* In front of what only looks like a value, everything is thrown away.
LEMMA ReadStuckStep ==
    ASSUME IInv, ReadStuck
    PROVE  IInv'
<1> USE DEF IInv
<1>1. /\ (rstate = "stream" /\ Head(wire).type = "args") \/ rstate = "stuck"
      /\ wire # <<>> /\ rstate' = "stuck" /\ wire' = <<>> /\ missed' = missed \o CmdsOf(wire)
      /\ UNCHANGED <<store, pending, stream, replid, session, sync, rstore, skewed>>
  BY DEF ReadStuck, Arrives, clientVars
<1>2. skewed = TRUE /\ session.phase = "live"
  <2>1. CASE rstate = "stuck"
    BY <2>1 DEF PhaseInv, TypeOK
  <2>2. CASE rstate = "stream"
    <3>1. Head(wire).type = "args" /\ session.phase = "live"
      BY <1>1, <2>2, StreamingWire
    <3>2. 1 \in DOMAIN wire /\ wire[1].type = "args"
      BY <1>1, <2>2, <3>1, StreamingWire
    <3> QED
      BY <2>2, <3>1, <3>2 DEF PhaseInv, TypeOK
  <2> QED
    BY <1>1, <2>1, <2>2
<1>3. wire \in Seq(Msgs) /\ DOMAIN wire = 1 .. Len(wire) /\ missed \in Seq(Nat)
  BY DEF TypeOK
<1>4. \A i \in 1 .. Len(wire) : wire[i].type \in {"cmd", "tail", "args"}
  BY <1>1, <1>3 DEF PhaseInv
<1>5. CmdsOf(wire) \in Seq(Nat)
  BY <1>3, <1>4, CmdsOfFacts
<1>6. missed' \in Seq(Nat)
  <2>1. missed \o CmdsOf(wire) \in Seq(Nat)
    BY <1>3, <1>5, ConcatProperties, Zenon
  <2> QED
    BY <1>1, <2>1
<1>7. wire' \in Seq(Msgs) /\ DOMAIN wire' = {}
  BY <1>1
<1>8. TypeOK'
  BY <1>1, <1>6, <1>7 DEF TypeOK
<1>9. StoreInv'
  BY <1>1, <1>7 DEF StoreInv
<1>10. PhaseInv'
  BY <1>1, <1>2, <1>7 DEF PhaseInv
<1>11. FeedInv' /\ StepInv'
  BY <1>1, <1>2 DEF FeedInv, StepInv
<1>12. FullSyncMissesNothing'
  BY <1>1 DEF FullSyncMissesNothing
<1> QED
  BY <1>8, <1>9, <1>10, <1>11, <1>12

-----------------------------------------------------------------------------
(* Failures keep the invariant. *)

\* A broken connection: nothing of the session is left, the replica keeps its
\* list and its offset.
LEMMA DisconnectStep ==
    ASSUME IInv, Disconnect
    PROVE  IInv'
<1> USE DEF IInv
<1>1. /\ rstate' = "down" /\ wire' = <<>> /\ session' = NoSession
      /\ UNCHANGED <<store, pending, stream, replid, sync, rstore, missed, skewed>>
  BY DEF Disconnect, clientVars, readVars
<1>2. /\ session' \in Sessions /\ session'.phase = "none" /\ session'.rdb = <<>> /\ session'.rx = <<>>
      /\ session'.catch_up = <<>> /\ session'.sent = <<>>
  <2>1. <<>> \in Seq(Nat)
    OBVIOUS
  <2> QED
    BY <1>1, <2>1 DEF NoSession, Sessions
<1>3. wire' \in Seq(Msgs) /\ DOMAIN wire' = {}
  BY <1>1
<1>4. TypeOK'
  BY <1>1, <1>2, <1>3 DEF TypeOK
<1>5. StoreInv'
  BY <1>1, <1>2, <1>3 DEF StoreInv
<1>6. PhaseInv' /\ FeedInv'
  BY <1>1, <1>2 DEF PhaseInv, FeedInv
<1>7. StepInv'
  BY <1>1, <1>2 DEF StepInv
<1>8. FullSyncMissesNothing'
  BY <1>2 DEF FullSyncMissesNothing
<1> QED
  BY <1>4, <1>5, <1>6, <1>7, <1>8

\* A restarted master has a replication id no replica remembers.
LEMMA MasterRestartStep ==
    ASSUME IInv, MasterRestart
    PROVE  IInv'
<1> USE DEF IInv
<1>1. /\ replid' = replid + 1 /\ stream' = <<>> /\ pending' = {}
      /\ rstate' = "down" /\ wire' = <<>> /\ session' = NoSession
      /\ UNCHANGED <<store, sync, rstore, missed, skewed>>
  BY DEF MasterRestart, readVars
<1>2. /\ session' \in Sessions /\ session'.phase = "none" /\ session'.rdb = <<>> /\ session'.rx = <<>>
      /\ session'.catch_up = <<>> /\ session'.sent = <<>>
  <2>1. <<>> \in Seq(Nat)
    OBVIOUS
  <2> QED
    BY <1>1, <2>1 DEF NoSession, Sessions
<1>3. wire' \in Seq(Msgs) /\ DOMAIN wire' = {} /\ stream' \in Seq(Nat) /\ DOMAIN stream' = {}
  BY <1>1
<1>4. replid' \in Nat \ {0} /\ sync.replid <= replid' /\ sync.replid # replid'
  <2>1. replid \in Nat /\ sync.replid \in Nat /\ sync.replid <= replid
    BY DEF TypeOK, StoreInv
  <2> QED
    BY <1>1, <2>1
<1>5. TypeOK'
  BY <1>1, <1>2, <1>3, <1>4 DEF TypeOK
<1>6. StoreInv'
  BY <1>1, <1>2, <1>3, <1>4 DEF StoreInv
<1>7. PhaseInv' /\ FeedInv'
  BY <1>1, <1>2 DEF PhaseInv, FeedInv
<1>8. StepInv'
  BY <1>1, <1>2, <1>4 DEF StepInv
<1>9. FullSyncMissesNothing'
  BY <1>2 DEF FullSyncMissesNothing
<1> QED
  BY <1>5, <1>6, <1>7, <1>8, <1>9

\* A step that changes nothing.
LEMMA StutterStep ==
    ASSUME IInv, UNCHANGED vars
    PROVE  IInv'
<1>1. UNCHANGED <<store, pending, stream, replid, session, wire, sync, rstate, rstore, missed, skewed>>
  BY DEF vars
<1>2. TypeOK'
  BY <1>1 DEF IInv, TypeOK
<1>3. StoreInv'
  BY <1>1 DEF IInv, StoreInv
<1>4. PhaseInv'
  BY <1>1 DEF IInv, PhaseInv, Greeting
<1>5. FeedInv' /\ StepInv' /\ FullSyncMissesNothing'
  BY <1>1 DEF IInv, FeedInv, StepInv, FullSyncMissesNothing
<1> QED
  BY <1>2, <1>3, <1>4, <1>5 DEF IInv

\* Every step of master, clients and replica keeps the invariant.
LEMMA NextStep == IInv /\ [Next]_vars => IInv'
<1> SUFFICES ASSUME IInv, [Next]_vars PROVE IInv'
  OBVIOUS
<1>1. CASE ClientStep
  BY <1>1, DispatchStep, PushStep DEF ClientStep
<1>2. CASE MasterStep
  BY <1>2, PsyncStep, SendContinueStep, SendFullresyncStep, SendGapStep, ForwardStep DEF MasterStep
<1>3. CASE ReplicaStep
  BY <1>3, ReceiveFullresyncStep, ReceiveContinueStep, ApplyStep, ReadRestStep, ReadStuckStep DEF ReplicaStep
<1>4. CASE ReadCut
  BY <1>4, ReadCutStep
<1>5. CASE Disconnect
  BY <1>5, DisconnectStep
<1>6. CASE MasterRestart
  BY <1>6, MasterRestartStep
<1>7. CASE Rest
  BY <1>7, StutterStep DEF Rest
<1>8. CASE UNCHANGED vars
  BY <1>8, StutterStep
<1> QED
  BY <1>1, <1>2, <1>3, <1>4, <1>5, <1>6, <1>7, <1>8 DEF Next

-----------------------------------------------------------------------------
(* What follows for every execution. *)

\* Every reachable state of master and replica satisfies the invariant.
THEOREM Invariance == Spec => []IInv
BY InitStep, NextStep, PTL DEF Spec

\* handle_psync: however a full sync falls between the writes, and whatever the
\* ring has dropped, every write of the stream is in the snapshot, sent, or waits
\* in the channel.
THEOREM FullSyncIsComplete == Spec => []FullSyncMissesNothing
<1>1. IInv => FullSyncMissesNothing
  BY DEF IInv
<1> QED
  BY <1>1, Invariance, PTL

\* handle_psync: a resumed replica is handed the stream from the offset it asked
\* for on, every command once and in order.
THEOREM PartialSyncHandsOver == Spec => []PartialSyncIsExact
<1>1. IInv => PartialSyncIsExact
  <2> SUFFICES ASSUME IInv, session.phase = "live", session.partial
               PROVE  session.sent \o session.rx = SubSeq(stream, session.base + 1, Len(stream))
    BY DEF PartialSyncIsExact
  <2> DEFINE a == session.sent
             b == session.rx
             o == session.base
  <2>1. a \in Seq(Nat) /\ b \in Seq(Nat) /\ stream \in Seq(Nat) /\ o \in Nat
    BY DEF IInv, TypeOK, Sessions
  <2>2. Feeds(stream, o, a, b)
    BY DEF IInv, FeedInv
  <2> HIDE DEF a, b, o
  <2> QED
    BY <2>1, <2>2, FeedsAll, ZenonT(60) DEF a, b, o
<1> QED
  BY <1>1, Invariance, PTL

\* stream_commands, connect_to_master: the replica's offset is where its session
\* started plus what it took from it.
THEOREM OffsetIsExact == Spec => []OffsetCountsDelivery
<1>1. IInv => OffsetCountsDelivery
  BY DEF IInv, PhaseInv, OffsetCountsDelivery
<1> QED
  BY <1>1, Invariance, PTL

\* handle, handle_psync, stream_commands: a replica that has taken everything has
\* the master's list, unless a push overtook another, a full sync overlapped a
\* write, or a read ended inside a command.
THEOREM Convergence == Spec => []ReplicaConverges
<1>1. IInv => ReplicaConverges
  <2> SUFFICES ASSUME IInv, pending = {}, wire = <<>>, session.rx = <<>>, rstate = "stream", ~ skewed
               PROVE  rstore = store
    BY DEF ReplicaConverges
  <2>1. /\ stream \in Seq(Nat) /\ store \in Seq(Nat) /\ rstore \in Seq(Nat) /\ sync.offset \in Nat
        /\ sync.replid = replid
    BY StreamingWire DEF IInv, TypeOK
  <2>2. sync.offset = Len(stream)
    <3>1. Feeds(stream, sync.offset, CmdsOf(wire), session.rx)
      BY DEF IInv, FeedInv
    <3>2. Len(CmdsOf(wire)) = 0 /\ Len(session.rx) = 0
      <4>1. wire \in Seq(Msgs) /\ Len(wire) = 0
        OBVIOUS
      <4>2. \A i \in 1 .. Len(wire) : wire[i].type \in {"cmd", "tail", "args"}
        BY <4>1
      <4>3. Len(CmdsOf(wire)) = Len(wire)
        BY <4>1, <4>2, CmdsOfFacts
      <4>4. Len(session.rx) = 0
        OBVIOUS
      <4> QED
        BY <4>1, <4>3, <4>4
    <3> QED
      BY <2>1, <3>1, <3>2 DEF Feeds
  <2>3. Counts(rstore) /\ Counts(store) /\ InStep(stream, pending, Len(store), Len(rstore), sync.offset)
    BY <2>1 DEF IInv, StepInv, StoreInv
  <2>4. Len(rstore) = Len(store)
    <3>1. Len(stream) \in Nat /\ Len(rstore) \in Nat /\ Len(store) \in Nat
      BY <2>1
    <3>2. Len(rstore) + Len(stream) - Len(stream) = Len(rstore)
      BY <3>1
    <3>3. Len(rstore) <= Len(store) /\ {} = Len(rstore) + 1 .. Len(store)
      BY <2>2, <2>3, <3>2 DEF InStep
    <3>4. Len(store) \notin Len(rstore) + 1 .. Len(store)
      BY <3>3
    <3> QED
      BY <3>1, <3>3, <3>4
  <2>5. \A i \in 1 .. Len(rstore) : rstore[i] = store[i]
    BY <2>1, <2>3, <2>4 DEF Counts
  <2> QED
    BY <2>1, <2>4, <2>5, SeqEqual
<1> QED
  BY <1>1, Invariance, PTL
=============================================================================
