--------------------------- MODULE BlockingProofs ---------------------------
(***************************************************************************)
(* Proofs about Blocking, for any number of connections, keys, databases,  *)
(* pushes and pops: no registration is left behind, a wake-up is lost in   *)
(* one window only, and every element is in one place.                     *)
(***************************************************************************)
EXTENDS Blocking, SequenceTheorems, FiniteSetTheorems, TLAPS

-----------------------------------------------------------------------------
(* The inductive invariant. *)

Waiters == [client : Clients, id : Nat]

Pushers == [at : {"todo", "notify", "wake", "done"}, key : Keys \cup {""}, wake : SUBSET Waiters]

Requests == [id : Nat, keys : Seq(Keys), db : Dbs \cup {0}, left : BOOLEAN, timeout : Timeouts]

Phases == {"idle", "try", "register", "registered", "parked", "unblock"}

TypeOK ==
    /\ list \in [Dbs -> [Keys -> Seq(Elements)]]
    /\ waiters \in [Keys -> SUBSET Waiters]
    /\ pusher \in [Elements -> Pushers]
    /\ phase \in [Clients -> Phases] /\ req \in [Clients -> Requests] /\ idx \in [Clients -> Nat \ {0}]
    /\ woken \in [Clients -> BOOLEAN] /\ missed \in [Clients -> BOOLEAN] /\ gone \in [Clients -> BOOLEAN]
    /\ delivered \in [Clients -> Seq(Elements)] /\ wasted \in [Clients -> Seq(Elements)]
    /\ pops \in Nat

\* A pop under way is for a database, and a push that is about to notify is of
\* a key.
RequestInv ==
    /\ \A c \in Clients : phase[c] # "idle" => req[c].db \in Dbs
    /\ \A e \in Elements : pusher[e].at = "notify" => pusher[e].key \in Keys

\* A push has taken the client's Notify and will call it.
Called(c) == \E e \in Elements : pusher[e].at = "wake" /\ Waiter(c) \in pusher[e].wake

\* A push of the key has yet to look at the waiters.
Announced(k) == \E e \in Elements : pusher[e].at = "notify" /\ pusher[e].key = k

Listed(c) == phase[c] \in {"registered", "parked"}

\* The keys a client has found empty, and must be told about if they are not.
Looked(c) ==
    IF phase[c] = "try" THEN {req[c].keys[i] : i \in {j \in DOMAIN req[c].keys : j < idx[c]}}
    ELSE IF phase[c] = "register" \/ Listed(c) THEN Range(req[c].keys)
    ELSE {}

\* Unless a notification went by or arrived: a registered client is in the list
\* of every key of its pop, or the push that took it out will call it; and a key
\* that it found empty and that has data now is announced, or the call is on its
\* way.
ClientInv(c) ==
    ~ missed[c] /\ ~ woken[c] =>
        /\ Listed(c) => \A k \in Range(req[c].keys) : Waiter(c) \in waiters[k] \/ Called(c)
        /\ \A k \in Looked(c) :
              list[req[c].db][k] # <<>> => Announced(k) \/ (Listed(c) /\ Called(c))

NoticeInv == \A c \in Clients : ClientInv(c)

IInv == TypeOK /\ RequestInv /\ NoStaleWaiter /\ NoticeInv

\* A server nobody has talked to satisfies the invariant.
LEMMA InitStep == Init => IInv
<1> SUFFICES ASSUME Init PROVE IInv
  OBVIOUS
<1>1. <<>> \in Seq(Elements) /\ <<>> \in Seq(Keys)
  OBVIOUS
<1>2. NoReq \in Requests
  BY <1>1 DEF NoReq, Requests, Timeouts
<1>3. Pusher("todo", "", {}) \in Pushers
  BY DEF Pusher, Pushers
<1>4. pusher \in [Elements -> Pushers] /\ \A e \in Elements : pusher[e].at = "todo"
  BY <1>3 DEF Init, Pusher
<1>5. TypeOK
  <2>1. list \in [Dbs -> [Keys -> Seq(Elements)]]
    BY <1>1 DEF Init
  <2>2. waiters \in [Keys -> SUBSET Waiters]
    BY DEF Init
  <2>3. phase \in [Clients -> Phases] /\ req \in [Clients -> Requests] /\ idx \in [Clients -> Nat \ {0}]
    <3>1. "idle" \in Phases /\ 1 \in Nat \ {0}
      BY DEF Phases
    <3> QED
      BY <1>2, <3>1 DEF Init
  <2>4. woken \in [Clients -> BOOLEAN] /\ missed \in [Clients -> BOOLEAN] /\ gone \in [Clients -> BOOLEAN]
    BY DEF Init
  <2>5. delivered \in [Clients -> Seq(Elements)] /\ wasted \in [Clients -> Seq(Elements)]
    BY <1>1 DEF Init
  <2>6. pops \in Nat
    BY DEF Init
  <2> QED
    BY <1>4, <2>1, <2>2, <2>3, <2>4, <2>5, <2>6 DEF TypeOK
<1>6. RequestInv /\ NoStaleWaiter
  BY <1>4 DEF Init, RequestInv, NoStaleWaiter
<1>7. NoticeInv
  BY DEF Init, NoticeInv, ClientInv, Looked, Listed
<1> QED
  BY <1>5, <1>6, <1>7 DEF IInv

-----------------------------------------------------------------------------
(* What a step of one client leaves alone. *)

\* The keys of a client's pop are keys.
LEMMA LookedKeys ==
    ASSUME TypeOK, NEW c \in Clients
    PROVE  Range(req[c].keys) \subseteq Keys /\ Looked(c) \subseteq Range(req[c].keys)
<1>1. req[c].keys \in Seq(Keys)
  BY DEF TypeOK, Requests
<1>2. Range(req[c].keys) \subseteq Keys
  BY <1>1 DEF Range
<1>3. Looked(c) \subseteq Range(req[c].keys)
  BY DEF Looked, Range
<1> QED
  BY <1>2, <1>3

\* A client keeps its part of the invariant when others fetch elements, and go
\* and come in the waiter lists.
LEMMA OthersKeep ==
    ASSUME IInv, NEW c \in Clients, pusher' = pusher,
           phase'[c] = phase[c], req'[c] = req[c], idx'[c] = idx[c],
           woken'[c] = woken[c], missed'[c] = missed[c],
           \A d \in Dbs, k \in Keys : list[d][k] = <<>> => list'[d][k] = <<>>,
           \A k \in Keys : Waiter(c) \in waiters[k] => Waiter(c) \in waiters'[k]
    PROVE  ClientInv(c)'
<1> SUFFICES ASSUME ~ missed[c], ~ woken[c]
             PROVE  /\ Listed(c)' => \A k \in Range(req[c].keys) : Waiter(c)' \in waiters'[k] \/ Called(c)'
                    /\ \A k \in Looked(c)' :
                          list'[req[c].db][k] # <<>> => Announced(k)' \/ (Listed(c)' /\ Called(c)')
  BY DEF ClientInv
<1>1. Waiter(c)' = Waiter(c) /\ Listed(c)' = Listed(c) /\ Looked(c)' = Looked(c)
  BY DEF Waiter, Listed, Looked
<1>2. Called(c)' = Called(c) /\ \A k : Announced(k)' = Announced(k)
  BY <1>1 DEF Called, Announced
<1>3. ClientInv(c)
  BY DEF IInv, NoticeInv
<1>4. Range(req[c].keys) \subseteq Keys /\ Looked(c) \subseteq Range(req[c].keys)
  BY LookedKeys DEF IInv
<1>5. Looked(c) # {} => req[c].db \in Dbs
  BY DEF IInv, RequestInv, Looked, Listed
<1> QED
  BY <1>1, <1>2, <1>3, <1>4, <1>5 DEF ClientInv

-----------------------------------------------------------------------------
(* The pushing connections keep the invariant. *)

\* The element is in the list, and the push is announced.
LEMMA PushKeeps ==
    ASSUME IInv, NEW e \in Elements, NEW d \in Dbs, NEW k \in Keys, NEW left \in Lefts,
           push(e, d, k, left)
    PROVE  IInv'
<1> USE DEF IInv
<1> DEFINE new == IF left THEN <<e>> \o list[d][k] ELSE Append(list[d][k], e)
<1>1. /\ pusher[e].at = "todo" /\ pusher' = [pusher EXCEPT ![e] = Pusher("notify", k, {})]
      /\ list' = [list EXCEPT ![d][k] = new]
      /\ UNCHANGED <<waiters, phase, req, idx, woken, delivered, missed, gone, wasted, pops>>
  BY DEF push, clientVars, socketVars
<1>2. new \in Seq(Elements)
  <2>1. list[d][k] \in Seq(Elements)
    BY DEF TypeOK
  <2> QED
    BY <2>1
<1> HIDE DEF new
<1>3. list' \in [Dbs -> [Keys -> Seq(Elements)]] /\ \A x \in Dbs, y \in Keys : ~ (x = d /\ y = k) => list'[x][y] = list[x][y]
  BY <1>1, <1>2 DEF TypeOK
<1>4. Pusher("notify", k, {}) \in Pushers /\ Pusher("notify", k, {}).at = "notify" /\ Pusher("notify", k, {}).key = k
  BY DEF Pusher, Pushers
<1>5. /\ pusher' \in [Elements -> Pushers] /\ pusher'[e].at = "notify" /\ pusher'[e].key = k
      /\ \A o \in Elements : o # e => pusher'[o] = pusher[o]
  BY <1>1, <1>4 DEF TypeOK
<1>6. TypeOK'
  BY <1>1, <1>3, <1>5 DEF TypeOK
<1>7. RequestInv'
  BY <1>1, <1>5 DEF RequestInv
<1>8. NoStaleWaiter'
  BY <1>1 DEF NoStaleWaiter
<1>9. NoticeInv'
  <2> SUFFICES ASSUME NEW c \in Clients, ~ missed[c], ~ woken[c]
               PROVE  /\ Listed(c)' => \A x \in Range(req[c].keys) : Waiter(c)' \in waiters'[x] \/ Called(c)'
                      /\ \A x \in Looked(c)' :
                            list'[req[c].db][x] # <<>> => Announced(x)' \/ (Listed(c)' /\ Called(c)')
    BY <1>1 DEF NoticeInv, ClientInv
  <2>1. Waiter(c)' = Waiter(c) /\ Listed(c)' = Listed(c) /\ Looked(c)' = Looked(c)
    BY <1>1 DEF Waiter, Listed, Looked
  <2>2. Called(c) => Called(c)'
    BY <1>1, <1>5, <2>1 DEF Called
  <2>3. Announced(k)' /\ \A x : Announced(x) => Announced(x)'
    BY <1>1, <1>5 DEF Announced
  <2>4. ClientInv(c)
    BY DEF NoticeInv
  <2>5. Range(req[c].keys) \subseteq Keys /\ Looked(c) \subseteq Range(req[c].keys)
    BY LookedKeys
  <2>6. Looked(c) # {} => req[c].db \in Dbs
    BY DEF RequestInv, Looked, Listed
  <2> QED
    BY <1>1, <1>3, <2>1, <2>2, <2>3, <2>4, <2>5, <2>6 DEF ClientInv
<1> QED
  BY <1>6, <1>7, <1>8, <1>9

\* BlockRegistry::notify: every waiter of the key will be called; who is not
\* registered yet has missed it.
LEMMA NotifyKeeps ==
    ASSUME IInv, NEW e \in Elements, notify(e)
    PROVE  IInv'
<1> USE DEF IInv
<1> DEFINE k == pusher[e].key
           p == Pusher("wake", k, waiters[k])
<1>1. /\ pusher[e].at = "notify" /\ pusher' = [pusher EXCEPT ![e] = p]
      /\ waiters' = [waiters EXCEPT ![k] = {}]
      /\ missed' = [c \in Clients |-> missed[c] \/ Unlisted(c, k)]
      /\ UNCHANGED <<list, phase, req, idx, woken, delivered, gone, wasted, pops>>
  BY DEF notify, socketVars
<1>2. k \in Keys
  BY <1>1 DEF RequestInv
<1>3. p \in Pushers /\ p.at = "wake" /\ p.wake = waiters[k]
  BY <1>2 DEF Pusher, Pushers, TypeOK
<1> HIDE DEF p, k
<1>4. /\ pusher' \in [Elements -> Pushers] /\ pusher'[e] = p
      /\ \A o \in Elements : o # e => pusher'[o] = pusher[o]
  BY <1>1, <1>3 DEF TypeOK
<1>5. /\ waiters' \in [Keys -> SUBSET Waiters] /\ waiters'[k] = {}
      /\ \A x \in Keys : x # k => waiters'[x] = waiters[x]
  BY <1>1, <1>2 DEF TypeOK
<1>6. missed' \in [Clients -> BOOLEAN] /\ \A c \in Clients : ~ missed'[c] => ~ missed[c] /\ ~ Unlisted(c, k)
  BY <1>1 DEF TypeOK, Unlisted
<1>7. TypeOK'
  BY <1>1, <1>4, <1>5, <1>6 DEF TypeOK
<1>8. RequestInv'
  BY <1>1, <1>3, <1>4 DEF RequestInv
<1>9. NoStaleWaiter'
  BY <1>1, <1>5 DEF NoStaleWaiter
<1>10. NoticeInv'
  <2> SUFFICES ASSUME NEW c \in Clients, ~ missed'[c], ~ woken[c]
               PROVE  /\ Listed(c)' => \A x \in Range(req[c].keys) : Waiter(c)' \in waiters'[x] \/ Called(c)'
                      /\ \A x \in Looked(c)' :
                            list[req[c].db][x] # <<>> => Announced(x)' \/ (Listed(c)' /\ Called(c)')
    BY <1>1 DEF NoticeInv, ClientInv
  <2>1. Waiter(c)' = Waiter(c) /\ Listed(c)' = Listed(c) /\ Looked(c)' = Looked(c)
    BY <1>1 DEF Waiter, Listed, Looked
  <2>2. ~ missed[c] /\ ~ Unlisted(c, k)
    BY <1>6
  <2>3. Called(c) => Called(c)'
    BY <1>1, <1>4, <2>1 DEF Called
  <2>4. Waiter(c) \in waiters[k] => Called(c)'
    BY <1>3, <1>4, <2>1 DEF Called
  <2>5. \A x : x # k /\ Announced(x) => Announced(x)'
    BY <1>4 DEF Announced, k
  <2>6. ClientInv(c)
    BY DEF NoticeInv
  <2>7. Range(req[c].keys) \subseteq Keys /\ Looked(c) \subseteq Range(req[c].keys)
    BY LookedKeys
  <2>8. ASSUME Listed(c) PROVE \A x \in Range(req[c].keys) : Waiter(c) \in waiters'[x] \/ Called(c)'
    <3>1. \A x \in Range(req[c].keys) : Waiter(c) \in waiters[x] \/ Called(c)
      BY <2>2, <2>6, <2>8 DEF ClientInv
    <3> QED
      BY <1>5, <2>3, <2>4, <2>7, <3>1
  <2>9. ASSUME NEW x \in Looked(c), list[req[c].db][x] # <<>>
        PROVE  Announced(x)' \/ (Listed(c) /\ Called(c)')
    <3>1. Announced(x) \/ (Listed(c) /\ Called(c))
      BY <2>2, <2>6, <2>9 DEF ClientInv
    <3>2. CASE x # k
      BY <2>3, <2>5, <3>1, <3>2
    <3>3. CASE x = k
      <4>1. Listed(c)
        BY <2>2, <2>7, <3>3 DEF Unlisted, Looked, Listed
      <4>2. Waiter(c) \in waiters[k] \/ Called(c)
        BY <2>2, <2>6, <2>7, <3>3, <4>1 DEF ClientInv
      <4> QED
        BY <2>3, <2>4, <4>1, <4>2
    <3> QED
      BY <3>2, <3>3
  <2> QED
    BY <2>1, <2>8, <2>9
<1> QED
  BY <1>7, <1>8, <1>9, <1>10

\* notify_waiters: the call reaches the parked client, or the one that is about
\* to park has missed it.
LEMMA CallKeeps ==
    ASSUME IInv, NEW e \in Elements, notify_waiters(e)
    PROVE  IInv'
<1> USE DEF IInv
<1>1. /\ pusher[e].at = "wake"
      /\ UNCHANGED <<list, waiters, phase, req, idx, delivered, gone, wasted, pops>>
  BY DEF notify_waiters, socketVars
<1>2. PICK w \in pusher[e].wake :
          /\ pusher' = [pusher EXCEPT ![e].wake = @ \ {w}]
          /\ woken' = [woken EXCEPT ![w.client] =
                           @ \/ (Parked(w.client) /\ req[w.client].id = w.id)]
          /\ missed' = [missed EXCEPT ![w.client] =
                           @ \/ (phase[w.client] = "registered" /\ req[w.client].id = w.id)]
  BY DEF notify_waiters
<1>3. pusher[e] \in Pushers /\ w \in Waiters /\ w.client \in Clients
  <2>1. pusher[e] \in Pushers
    BY DEF TypeOK
  <2>2. pusher[e].wake \in SUBSET Waiters
    BY <2>1 DEF Pushers
  <2>3. w \in Waiters
    BY <2>2
  <2> QED
    BY <2>1, <2>3 DEF Waiters
<1> DEFINE rest == pusher[e].wake \ {w}
           p == [pusher[e] EXCEPT !.wake = rest]
<1>4. pusher' = [pusher EXCEPT ![e] = p]
  BY <1>2 DEF TypeOK
<1>5. p \in Pushers /\ p.at = "wake" /\ p.wake = rest
  <2>1. rest \in SUBSET Waiters
    BY <1>3 DEF Pushers
  <2> HIDE DEF rest
  <2> QED
    BY <1>1, <1>3, <2>1 DEF Pushers
<1> HIDE DEF p
<1>6. /\ pusher' \in [Elements -> Pushers] /\ pusher'[e] = p
      /\ \A o \in Elements : o # e => pusher'[o] = pusher[o]
  BY <1>4, <1>5 DEF TypeOK
<1> DEFINE won == woken[w.client] \/ (Parked(w.client) /\ req[w.client].id = w.id)
           mis == missed[w.client] \/ (phase[w.client] = "registered" /\ req[w.client].id = w.id)
<1>7. woken' = [woken EXCEPT ![w.client] = won] /\ missed' = [missed EXCEPT ![w.client] = mis]
  BY <1>2
<1>8. won \in BOOLEAN /\ mis \in BOOLEAN
  BY <1>3 DEF TypeOK
<1>9. (~ won => ~ woken[w.client]) /\ (~ mis => ~ missed[w.client])
      /\ (~ won /\ ~ mis /\ Listed(w.client) => Waiter(w.client) # w)
  BY DEF Listed, Parked, Waiter
<1> HIDE DEF won, mis
<1>10. /\ woken' \in [Clients -> BOOLEAN] /\ missed' \in [Clients -> BOOLEAN]
       /\ woken'[w.client] = won /\ missed'[w.client] = mis
       /\ \A c \in Clients : c # w.client => woken'[c] = woken[c] /\ missed'[c] = missed[c]
  BY <1>3, <1>7, <1>8 DEF TypeOK
<1>11. TypeOK'
  BY <1>1, <1>6, <1>10 DEF TypeOK
<1>12. RequestInv'
  BY <1>1, <1>5, <1>6 DEF RequestInv
<1>13. NoStaleWaiter'
  BY <1>1 DEF NoStaleWaiter
<1>14. NoticeInv'
  <2> SUFFICES ASSUME NEW c \in Clients, ~ missed'[c], ~ woken'[c]
               PROVE  /\ Listed(c)' => \A x \in Range(req[c].keys) : Waiter(c)' \in waiters[x] \/ Called(c)'
                      /\ \A x \in Looked(c)' :
                            list[req[c].db][x] # <<>> => Announced(x)' \/ (Listed(c)' /\ Called(c)')
    BY <1>1 DEF NoticeInv, ClientInv
  <2>1. Waiter(c)' = Waiter(c) /\ Listed(c)' = Listed(c) /\ Looked(c)' = Looked(c)
    BY <1>1 DEF Waiter, Listed, Looked
  <2>2. ~ missed[c] /\ ~ woken[c] /\ (Listed(c) => Waiter(c) # w)
    <3>1. CASE c = w.client
      BY <1>9, <1>10, <3>1
    <3>2. CASE c # w.client
      BY <1>10, <3>2 DEF Waiter
    <3> QED
      BY <3>1, <3>2
  <2>3. Listed(c) /\ Called(c) => Called(c)'
    <3> SUFFICES ASSUME Listed(c), NEW o \in Elements, pusher[o].at = "wake", Waiter(c) \in pusher[o].wake
                 PROVE  pusher'[o].at = "wake" /\ Waiter(c) \in pusher'[o].wake
      BY <2>1 DEF Called
    <3>1. CASE o = e
      BY <1>5, <1>6, <2>2, <3>1
    <3>2. CASE o # e
      BY <1>6, <3>2
    <3> QED
      BY <3>1, <3>2
  <2>4. \A x : Announced(x) => Announced(x)'
    BY <1>1, <1>6 DEF Announced
  <2>5. ClientInv(c)
    BY DEF NoticeInv
  <2> QED
    BY <2>1, <2>2, <2>3, <2>4, <2>5 DEF ClientInv
<1> QED
  BY <1>11, <1>12, <1>13, <1>14

\* A push that has called every waiter is answered.
LEMMA PushedKeeps ==
    ASSUME IInv, NEW e \in Elements, pushed(e)
    PROVE  IInv'
<1> USE DEF IInv
<1> DEFINE p == Pusher("done", "", {})
<1>1. /\ pusher[e].at = "wake" /\ pusher[e].wake = {} /\ pusher' = [pusher EXCEPT ![e] = p]
      /\ UNCHANGED <<list, waiters, phase, req, idx, woken, delivered, missed, gone, wasted, pops>>
  BY DEF pushed, clientVars, socketVars
<1>2. p \in Pushers /\ p.at = "done"
  BY DEF Pusher, Pushers
<1> HIDE DEF p
<1>3. /\ pusher' \in [Elements -> Pushers] /\ pusher'[e] = p
      /\ \A o \in Elements : o # e => pusher'[o] = pusher[o]
  BY <1>1, <1>2 DEF TypeOK
<1>4. TypeOK'
  BY <1>1, <1>3 DEF TypeOK
<1>5. RequestInv' /\ NoStaleWaiter'
  BY <1>1, <1>2, <1>3 DEF RequestInv, NoStaleWaiter
<1>6. NoticeInv'
  <2> SUFFICES ASSUME NEW c \in Clients PROVE ClientInv(c)'
    BY DEF NoticeInv
  <2>1. Waiter(c)' = Waiter(c) /\ Listed(c)' = Listed(c) /\ Looked(c)' = Looked(c)
    BY <1>1 DEF Waiter, Listed, Looked
  <2>2. Called(c) => Called(c)'
    BY <1>1, <1>3, <2>1 DEF Called
  <2>3. \A x : Announced(x) => Announced(x)'
    BY <1>1, <1>3 DEF Announced
  <2>4. ClientInv(c)
    BY DEF NoticeInv
  <2> QED
    BY <1>1, <2>1, <2>2, <2>3, <2>4 DEF ClientInv
<1> QED
  BY <1>4, <1>5, <1>6

-----------------------------------------------------------------------------
(* The popping clients keep the invariant. *)

\* A client that is answered is idle; nothing happens to the others.
LEMMA AnswerFacts ==
    ASSUME TypeOK, NEW b \in Clients, Answer(b)
    PROVE  /\ phase' \in [Clients -> Phases] /\ req' \in [Clients -> Requests]
           /\ idx' \in [Clients -> Nat \ {0}]
           /\ woken' \in [Clients -> BOOLEAN] /\ missed' \in [Clients -> BOOLEAN]
           /\ phase'[b] = "idle"
           /\ \A c \in Clients \ {b} : /\ phase'[c] = phase[c] /\ req'[c] = req[c] /\ idx'[c] = idx[c]
                                       /\ woken'[c] = woken[c] /\ missed'[c] = missed[c]
<1>1. NoReq \in Requests
  <2>1. <<>> \in Seq(Keys)
    OBVIOUS
  <2> QED
    BY <2>1 DEF NoReq, Requests, Timeouts
<1>2. "idle" \in Phases /\ 1 \in Nat \ {0}
  BY DEF Phases
<1> QED
  BY <1>1, <1>2 DEF TypeOK, Answer

\* A client that goes on to phase p begins with its first key.
LEMMA GotoFacts ==
    ASSUME TypeOK, NEW b \in Clients, NEW p \in Phases, Goto(b, p)
    PROVE  /\ phase' \in [Clients -> Phases] /\ idx' \in [Clients -> Nat \ {0}]
           /\ phase'[b] = p /\ idx'[b] = 1
           /\ \A c \in Clients \ {b} : phase'[c] = phase[c] /\ idx'[c] = idx[c]
<1>1. 1 \in Nat \ {0}
  OBVIOUS
<1> QED
  BY <1>1 DEF TypeOK, Goto

\* What a step of client b keeps of the invariant, when its own part is seen to.
LEMMA ClientStep ==
    ASSUME IInv, TypeOK', NEW b \in Clients, pusher' = pusher,
           \A c \in Clients \ {b} : /\ phase'[c] = phase[c] /\ req'[c] = req[c] /\ idx'[c] = idx[c]
                                    /\ woken'[c] = woken[c] /\ missed'[c] = missed[c],
           \A d \in Dbs, k \in Keys : list[d][k] = <<>> => list'[d][k] = <<>>,
           \A k \in Keys : \A w \in Waiters : w.client # b => (w \in waiters'[k] <=> w \in waiters[k]),
           \A k \in Keys : \A w \in waiters'[k] : w.client = b =>
               /\ phase'[b] \in {"registered", "parked"}
               /\ w.id = req'[b].id /\ k \in Range(req'[b].keys),
           phase'[b] # "idle" => req'[b].db \in Dbs,
           ClientInv(b)'
    PROVE  IInv'
<1>1. RequestInv'
  BY DEF IInv, RequestInv
<1>2. NoStaleWaiter'
  <2> SUFFICES ASSUME NEW k \in Keys, NEW w \in waiters'[k]
               PROVE  /\ phase'[w.client] \in {"registered", "parked"}
                      /\ w.id = req'[w.client].id /\ k \in Range(req'[w.client].keys)
    BY DEF NoStaleWaiter
  <2>1. w \in Waiters /\ w.client \in Clients
    BY DEF TypeOK, Waiters
  <2>2. CASE w.client = b
    BY <2>2
  <2>3. CASE w.client # b
    <3>1. w \in waiters[k]
      BY <2>1, <2>3
    <3> QED
      BY <2>1, <2>3, <3>1 DEF IInv, NoStaleWaiter
  <2> QED
    BY <2>2, <2>3
<1>3. NoticeInv'
  <2> SUFFICES ASSUME NEW c \in Clients, c # b PROVE ClientInv(c)'
    BY DEF NoticeInv
  <2>1. Waiter(c) \in Waiters /\ Waiter(c).client = c
    BY DEF IInv, TypeOK, Waiter, Waiters, Requests
  <2>2. \A k \in Keys : Waiter(c) \in waiters[k] => Waiter(c) \in waiters'[k]
    BY <2>1
  <2> QED
    BY <2>2, OthersKeep
<1> QED
  BY <1>1, <1>2, <1>3 DEF IInv

\* A client that is not registered is in no waiter list.
LEMMA NotListed ==
    ASSUME IInv, NEW b \in Clients, phase[b] \notin {"registered", "parked"},
           NEW k \in Keys, NEW w \in waiters[k]
    PROVE  w.client # b
BY DEF IInv, NoStaleWaiter

\* A pop begins.
LEMMA BlpopKeeps ==
    ASSUME IInv, NEW b \in Clients, NEW ks \in KeyLists, NEW d \in Dbs, NEW left \in Lefts,
           NEW t \in Timeouts, blpop(b, ks, d, left, t)
    PROVE  IInv'
<1> DEFINE r == [id |-> pops + 1, keys |-> ks, db |-> d, left |-> left, timeout |-> t]
<1>1. /\ phase[b] = "idle" /\ pops' = pops + 1 /\ req' = [req EXCEPT ![b] = r] /\ Goto(b, "try")
      /\ UNCHANGED <<list, waiters, pusher, woken, missed, delivered, gone, wasted>>
  BY DEF blpop, socketVars
<1>2. r \in Requests /\ r.db = d /\ pops' \in Nat
  BY <1>1, KeyListsAssumption, LeftsAssumption DEF IInv, TypeOK, Requests
<1> HIDE DEF r
<1>3. req' \in [Clients -> Requests] /\ req'[b] = r /\ \A c \in Clients \ {b} : req'[c] = req[c]
  BY <1>1, <1>2 DEF IInv, TypeOK
<1>4. "try" \in Phases
  BY DEF Phases
<1>5. /\ phase' \in [Clients -> Phases] /\ idx' \in [Clients -> Nat \ {0}]
      /\ phase'[b] = "try" /\ idx'[b] = 1
      /\ \A c \in Clients \ {b} : phase'[c] = phase[c] /\ idx'[c] = idx[c]
  BY <1>1, <1>4, GotoFacts DEF IInv
<1>6. TypeOK'
  BY <1>1, <1>2, <1>3, <1>5 DEF IInv, TypeOK
<1>7. \A k \in Keys : \A w \in waiters[k] : w.client # b
  BY <1>1, NotListed
<1>8. ClientInv(b)'
  <2>1. Looked(b)' = {}
    <3>1. req'[b].keys \in Seq(Keys)
      BY <1>3 DEF Requests
    <3>2. \A j \in DOMAIN req'[b].keys : ~ (j < idx'[b])
      BY <1>5, <3>1
    <3> QED
      BY <1>5, <3>2 DEF Looked
  <2>2. ~ Listed(b)'
    BY <1>5 DEF Listed
  <2> QED
    BY <2>1, <2>2 DEF ClientInv
<1> QED
  BY <1>1, <1>2, <1>3, <1>5, <1>6, <1>7, <1>8, ClientStep

\* lpop_one and rpop_one take an element or see an empty list.
LEMMA TryPopKeeps ==
    ASSUME IInv, NEW b \in Clients, phase[b] \in {"try", "unblock"}, KeysLeft(b), TryPop(b),
           UNCHANGED <<waiters, pusher, gone, pops>>
    PROVE  IInv'
<1> DEFINE d == req[b].db
           k == req[b].keys[idx[b]]
<1>1. d \in Dbs /\ k \in Keys /\ req[b].keys \in Seq(Keys) /\ idx[b] \in DOMAIN req[b].keys
  <2>1. req[b].keys \in Seq(Keys) /\ idx[b] \in Nat \ {0} /\ idx[b] <= Len(req[b].keys)
    BY DEF IInv, TypeOK, Requests, KeysLeft
  <2>2. idx[b] \in DOMAIN req[b].keys
    BY <2>1
  <2>3. k \in Keys
    BY <2>1, <2>2
  <2> QED
    BY <2>1, <2>2, <2>3 DEF IInv, RequestInv
<1>2. Source(b) = list[d][k] /\ list[d][k] \in Seq(Elements)
  BY <1>1 DEF Source, IInv, TypeOK
<1>3. \A x \in Keys : \A w \in waiters[x] : w.client # b
  BY NotListed
<1>4. CASE Source(b) # <<>>
  <2> DEFINE new == PopRest(list[d][k], req[b].left)
             el == PopElement(list[d][k], req[b].left)
  <2>1. list' = [list EXCEPT ![d][k] = new] /\ HandOver(b, el) /\ Answer(b)
    BY <1>2, <1>4 DEF TryPop
  <2>2. new \in Seq(Elements) /\ el \in Elements
    <3> PICK s : s = list[d][k]
      OBVIOUS
    <3>1. s \in Seq(Elements) /\ s # <<>>
      BY <1>2, <1>4
    <3>2. Tail(s) \in Seq(Elements) /\ Head(s) \in Elements
      BY <3>1
    <3>3. Len(s) \in Nat \ {0} /\ s[Len(s)] \in Elements
      BY <3>1
    <3>4. SubSeq(s, 1, Len(s) - 1) \in Seq(Elements)
      <4>1. \A i \in 1 .. Len(s) - 1 : s[i] \in Elements
        BY <3>1, <3>3
      <4>2. 1 \in Int /\ Len(s) - 1 \in Int
        BY <3>3
      <4> QED
        BY <4>1, <4>2, SubSeqProperties, Zenon
    <3> QED
      BY <3>2, <3>3, <3>4 DEF PopRest, PopElement, Front, Last
  <2> HIDE DEF new, el
  <2>3. /\ list' \in [Dbs -> [Keys -> Seq(Elements)]]
        /\ \A x \in Dbs, y \in Keys : ~ (x = d /\ y = k) => list'[x][y] = list[x][y]
    BY <1>1, <2>1, <2>2 DEF IInv, TypeOK
  <2>4. delivered' \in [Clients -> Seq(Elements)] /\ wasted' \in [Clients -> Seq(Elements)]
    <3>1. Append(delivered[b], el) \in Seq(Elements) /\ Append(wasted[b], el) \in Seq(Elements)
      BY <2>2 DEF IInv, TypeOK
    <3> QED
      BY <2>1, <3>1 DEF HandOver, IInv, TypeOK
  <2>5. /\ phase' \in [Clients -> Phases] /\ req' \in [Clients -> Requests]
        /\ idx' \in [Clients -> Nat \ {0}]
        /\ woken' \in [Clients -> BOOLEAN] /\ missed' \in [Clients -> BOOLEAN]
        /\ phase'[b] = "idle"
        /\ \A c \in Clients \ {b} : /\ phase'[c] = phase[c] /\ req'[c] = req[c] /\ idx'[c] = idx[c]
                                    /\ woken'[c] = woken[c] /\ missed'[c] = missed[c]
    BY <2>1, AnswerFacts DEF IInv
  <2>6. TypeOK'
    BY <2>3, <2>4, <2>5 DEF IInv, TypeOK
  <2>7. ClientInv(b)'
    BY <2>5 DEF ClientInv, Looked, Listed
  <2>8. \A x \in Dbs, y \in Keys : list[x][y] = <<>> => list'[x][y] = <<>>
    BY <1>2, <1>4, <2>3
  <2> QED
    BY <1>3, <2>5, <2>6, <2>7, <2>8, ClientStep
<1>5. CASE Source(b) = <<>>
  <2>1. idx' = [idx EXCEPT ![b] = idx[b] + 1] /\ UNCHANGED <<list, delivered, wasted, phase, req, woken, missed>>
    BY <1>5 DEF TryPop
  <2>2. idx' \in [Clients -> Nat \ {0}] /\ idx'[b] = idx[b] + 1 /\ \A c \in Clients \ {b} : idx'[c] = idx[c]
    <3>1. idx[b] \in Nat /\ idx[b] + 1 \in Nat \ {0}
      BY DEF IInv, TypeOK
    <3> QED
      BY <2>1, <3>1 DEF IInv, TypeOK
  <2>3. TypeOK'
    BY <2>1, <2>2 DEF IInv, TypeOK
  <2>4. ClientInv(b)'
    <3>1. Looked(b)' \subseteq Looked(b) \cup {k}
      <4>1. CASE phase[b] = "unblock"
        BY <2>1, <4>1 DEF Looked, Listed
      <4>2. CASE phase[b] = "try"
        <5>1. \A j \in DOMAIN req[b].keys : j < idx'[b] => j < idx[b] \/ j = idx[b]
          BY <1>1, <2>2 DEF IInv, TypeOK
        <5> QED
          BY <2>1, <4>2, <5>1 DEF Looked
      <4> QED
        BY <4>1, <4>2
    <3>2. list'[d][k] = <<>> /\ list' = list
      BY <1>2, <1>5, <2>1
    <3>3. Listed(b)' = Listed(b) /\ ~ Listed(b)
      BY <2>1 DEF Listed
    <3>4. \A x : Announced(x)' = Announced(x)
      BY DEF Announced
    <3> QED
      BY <2>1, <3>1, <3>2, <3>3, <3>4 DEF ClientInv, IInv, NoticeInv
  <2> QED
    BY <1>1, <1>3, <2>1, <2>2, <2>3, <2>4, ClientStep
<1> QED
  BY <1>4, <1>5

\* An answer leaves nothing of a client that is in no waiter list.
LEMMA AnswerKeeps ==
    ASSUME IInv, NEW b \in Clients, Answer(b), waiters' \in [Keys -> SUBSET Waiters],
           \A k \in Keys : \A w \in Waiters : w.client # b => (w \in waiters'[k] <=> w \in waiters[k]),
           \A k \in Keys : \A w \in waiters'[k] : w.client # b,
           UNCHANGED <<list, pusher, delivered, gone, wasted, pops>>
    PROVE  IInv'
<1>1. /\ phase' \in [Clients -> Phases] /\ req' \in [Clients -> Requests]
      /\ idx' \in [Clients -> Nat \ {0}]
      /\ woken' \in [Clients -> BOOLEAN] /\ missed' \in [Clients -> BOOLEAN]
      /\ phase'[b] = "idle"
      /\ \A c \in Clients \ {b} : /\ phase'[c] = phase[c] /\ req'[c] = req[c] /\ idx'[c] = idx[c]
                                  /\ woken'[c] = woken[c] /\ missed'[c] = missed[c]
  BY AnswerFacts DEF IInv
<1>2. TypeOK'
  BY <1>1 DEF IInv, TypeOK
<1>3. ClientInv(b)'
  BY <1>1 DEF ClientInv, Looked, Listed
<1> QED
  BY <1>1, <1>2, <1>3, ClientStep

\* Nothing found: the pop is answered, or will be registered.
LEMMA BlockKeeps ==
    ASSUME IInv, NEW b \in Clients, blpop_block(b)
    PROVE  IInv'
<1>1. /\ phase[b] = "try" /\ ~ KeysLeft(b)
      /\ UNCHANGED <<list, waiters, pusher, delivered, gone, wasted, pops>>
  BY DEF blpop_block, socketVars
<1>2. \A x \in Keys : \A w \in waiters[x] : w.client # b
  BY <1>1, NotListed
<1>3. CASE req[b].timeout = "zero"
  <2>1. Answer(b) /\ waiters' \in [Keys -> SUBSET Waiters]
    BY <1>1, <1>3 DEF blpop_block, IInv, TypeOK
  <2> QED
    BY <1>1, <1>2, <2>1, AnswerKeeps
<1>4. CASE req[b].timeout # "zero"
  <2>1. Goto(b, "register") /\ UNCHANGED <<req, woken, missed>>
    BY <1>4 DEF blpop_block
  <2>2. /\ phase' \in [Clients -> Phases] /\ idx' \in [Clients -> Nat \ {0}]
        /\ phase'[b] = "register" /\ idx'[b] = 1
        /\ \A c \in Clients \ {b} : phase'[c] = phase[c] /\ idx'[c] = idx[c]
    <3>1. "register" \in Phases
      BY DEF Phases
    <3> QED
      BY <2>1, <3>1, GotoFacts DEF IInv
  <2>3. TypeOK'
    BY <1>1, <2>1, <2>2 DEF IInv, TypeOK
  <2>4. ClientInv(b)'
    <3>1. Looked(b)' \subseteq Looked(b)
      <4>1. req[b].keys \in Seq(Keys) /\ idx[b] \in Nat /\ ~ (idx[b] <= Len(req[b].keys))
        BY <1>1 DEF IInv, TypeOK, Requests, KeysLeft
      <4>2. \A j \in DOMAIN req[b].keys : j < idx[b]
        BY <4>1
      <4> QED
        BY <1>1, <2>1, <2>2, <4>2 DEF Looked, Range
    <3>2. ~ Listed(b)' /\ ~ Listed(b)
      BY <1>1, <2>2 DEF Listed
    <3>3. \A x : Announced(x)' = Announced(x)
      BY <1>1 DEF Announced
    <3> QED
      BY <1>1, <2>1, <3>1, <3>2, <3>3 DEF ClientInv, IInv, NoticeInv
  <2>5. req[b].db \in Dbs
    BY <1>1 DEF IInv, RequestInv
  <2> QED
    BY <1>1, <1>2, <2>1, <2>2, <2>3, <2>4, <2>5, ClientStep
<1> QED
  BY <1>3, <1>4

\* The client is put into the list of every key of its pop.
LEMMA RegisterKeeps ==
    ASSUME IInv, NEW b \in Clients, register(b)
    PROVE  IInv'
<1>1. /\ phase[b] = "register" /\ Goto(b, "registered")
      /\ waiters' = [k \in Keys |-> IF k \in Range(req[b].keys)
                                    THEN waiters[k] \cup {Waiter(b)} ELSE waiters[k]]
      /\ UNCHANGED <<list, pusher, req, woken, missed, delivered, gone, wasted, pops>>
  BY DEF register, socketVars
<1>2. /\ phase' \in [Clients -> Phases] /\ idx' \in [Clients -> Nat \ {0}]
      /\ phase'[b] = "registered" /\ idx'[b] = 1
      /\ \A c \in Clients \ {b} : phase'[c] = phase[c] /\ idx'[c] = idx[c]
  <2>1. "registered" \in Phases
    BY DEF Phases
  <2> QED
    BY <1>1, <2>1, GotoFacts DEF IInv
<1>3. Waiter(b) \in Waiters /\ Waiter(b).client = b /\ Waiter(b).id = req[b].id /\ Waiter(b)' = Waiter(b)
  BY <1>1 DEF IInv, TypeOK, Waiter, Waiters, Requests
<1>4. \A k \in Keys : /\ waiters'[k] \in SUBSET Waiters
                      /\ \A w : w \in waiters'[k] <=> w \in waiters[k] \/ (w = Waiter(b) /\ k \in Range(req[b].keys))
  BY <1>1, <1>3 DEF IInv, TypeOK
<1>5. waiters' \in [Keys -> SUBSET Waiters]
  <2>1. DOMAIN waiters' = Keys /\ waiters' = [k \in Keys |-> waiters'[k]]
    BY <1>1
  <2> QED
    BY <1>4, <2>1
<1>6. TypeOK'
  BY <1>1, <1>2, <1>5 DEF IInv, TypeOK
<1>7. \A x \in Keys : \A w \in waiters[x] : w.client # b
  BY <1>1, NotListed
<1>8. ClientInv(b)'
  <2>1. Looked(b)' = Looked(b) /\ ~ Listed(b)
    BY <1>1, <1>2 DEF Looked, Listed
  <2>2. \A x : Announced(x)' = Announced(x)
    BY <1>1 DEF Announced
  <2>3. Range(req[b].keys) \subseteq Keys
    BY LookedKeys DEF IInv
  <2>4. \A k \in Range(req[b].keys) : Waiter(b)' \in waiters'[k]
    BY <1>3, <1>4, <2>3
  <2> QED
    BY <1>1, <2>1, <2>2, <2>4 DEF ClientInv, IInv, NoticeInv
<1>9. \A k \in Keys : \A w \in waiters'[k] : w.client = b =>
          phase'[b] \in {"registered", "parked"} /\ w.id = req'[b].id /\ k \in Range(req'[b].keys)
  BY <1>1, <1>2, <1>3, <1>4, <1>7
<1>10. \A k \in Keys : \A w \in Waiters : w.client # b => (w \in waiters'[k] <=> w \in waiters[k])
  BY <1>3, <1>4
<1>11. req'[b].db \in Dbs
  BY <1>1 DEF IInv, RequestInv
<1> QED
  BY <1>1, <1>2, <1>6, <1>8, <1>9, <1>10, <1>11, ClientStep

\* The client awaits its future.
LEMMA ParkKeeps ==
    ASSUME IInv, NEW b \in Clients, park(b)
    PROVE  IInv'
<1>1. /\ phase[b] = "registered" /\ Goto(b, "parked")
      /\ UNCHANGED <<list, waiters, pusher, req, woken, missed, delivered, gone, wasted, pops>>
  BY DEF park, socketVars
<1>2. /\ phase' \in [Clients -> Phases] /\ idx' \in [Clients -> Nat \ {0}]
      /\ phase'[b] = "parked" /\ idx'[b] = 1
      /\ \A c \in Clients \ {b} : phase'[c] = phase[c] /\ idx'[c] = idx[c]
  <2>1. "parked" \in Phases
    BY DEF Phases
  <2> QED
    BY <1>1, <2>1, GotoFacts DEF IInv
<1>3. TypeOK'
  BY <1>1, <1>2 DEF IInv, TypeOK
<1>4. ClientInv(b)'
  <2>1. Looked(b)' = Looked(b) /\ Listed(b)' = Listed(b) /\ Waiter(b)' = Waiter(b)
    BY <1>1, <1>2 DEF Looked, Listed, Waiter
  <2>2. Called(b)' = Called(b) /\ \A x : Announced(x)' = Announced(x)
    BY <1>1, <2>1 DEF Called, Announced
  <2> QED
    BY <1>1, <2>1, <2>2 DEF ClientInv, IInv, NoticeInv
<1>5. \A k \in Keys : \A w \in waiters[k] : w.client = b => w.id = req[b].id /\ k \in Range(req[b].keys)
  BY DEF IInv, NoStaleWaiter
<1>6. req'[b].db \in Dbs
  BY <1>1 DEF IInv, RequestInv
<1> QED
  BY <1>1, <1>2, <1>3, <1>4, <1>5, <1>6, ClientStep

\* unregister takes the client out of every list it is in.
LEMMA UnregisterFacts ==
    ASSUME IInv, NEW b \in Clients, waiters' = Unregistered(b)
    PROVE  /\ waiters' \in [Keys -> SUBSET Waiters]
           /\ \A k \in Keys : \A w \in Waiters : w.client # b => (w \in waiters'[k] <=> w \in waiters[k])
           /\ \A k \in Keys : \A w \in waiters'[k] : w.client # b
<1>1. \A k \in Keys : waiters'[k] \subseteq waiters[k] /\ \A w \in waiters[k] : w # Waiter(b) => w \in waiters'[k]
  BY DEF Unregistered
<1>2. Waiter(b).client = b
  BY DEF Waiter
<1>3. waiters' \in [Keys -> SUBSET Waiters]
  <2>1. DOMAIN waiters' = Keys /\ waiters' = [k \in Keys |-> waiters'[k]]
    BY DEF Unregistered
  <2>2. \A k \in Keys : waiters'[k] \in SUBSET Waiters
    BY <1>1 DEF IInv, TypeOK
  <2> QED
    BY <2>1, <2>2
<1>4. ASSUME NEW k \in Keys, NEW w \in waiters'[k], w.client = b PROVE FALSE
  <2>1. w \in waiters[k] /\ w \in Waiters
    BY <1>1 DEF IInv, TypeOK
  <2>2. w.id = req[b].id /\ k \in Range(req[b].keys)
    BY <1>4, <2>1 DEF IInv, NoStaleWaiter
  <2>3. w = Waiter(b)
    BY <1>4, <2>1, <2>2 DEF Waiter, Waiters
  <2>4. waiters'[k] = waiters[k] \ {Waiter(b)}
    BY <2>2 DEF Unregistered
  <2> QED
    BY <2>3, <2>4
<1> QED
  BY <1>1, <1>2, <1>3, <1>4

\* The future won: the client looks at its keys again.
LEMMA WakeKeeps ==
    ASSUME IInv, NEW b \in Clients, wake(b)
    PROVE  IInv'
<1>1. /\ phase[b] = "parked" /\ waiters' = Unregistered(b) /\ Goto(b, "unblock")
      /\ UNCHANGED <<list, pusher, req, woken, missed, delivered, gone, wasted, pops>>
  BY DEF wake, socketVars, Parked
<1>2. /\ phase' \in [Clients -> Phases] /\ idx' \in [Clients -> Nat \ {0}]
      /\ phase'[b] = "unblock" /\ idx'[b] = 1
      /\ \A c \in Clients \ {b} : phase'[c] = phase[c] /\ idx'[c] = idx[c]
  <2>1. "unblock" \in Phases
    BY DEF Phases
  <2> QED
    BY <1>1, <2>1, GotoFacts DEF IInv
<1>3. /\ waiters' \in [Keys -> SUBSET Waiters]
      /\ \A k \in Keys : \A w \in Waiters : w.client # b => (w \in waiters'[k] <=> w \in waiters[k])
      /\ \A k \in Keys : \A w \in waiters'[k] : w.client # b
  BY <1>1, UnregisterFacts
<1>4. TypeOK'
  BY <1>1, <1>2, <1>3 DEF IInv, TypeOK
<1>5. ClientInv(b)'
  BY <1>2 DEF ClientInv, Looked, Listed
<1>6. req'[b].db \in Dbs
  BY <1>1 DEF IInv, RequestInv
<1> QED
  BY <1>1, <1>2, <1>3, <1>4, <1>5, <1>6, ClientStep

\* The timer won: the pop is answered.
LEMMA ExpireKeeps ==
    ASSUME IInv, NEW b \in Clients, expire(b)
    PROVE  IInv'
<1>1. /\ waiters' = Unregistered(b) /\ Answer(b)
      /\ UNCHANGED <<list, pusher, delivered, gone, wasted, pops>>
  BY DEF expire, socketVars
<1> QED
  BY <1>1, UnregisterFacts, AnswerKeeps

\* Nothing is left for a client that was woken.
LEMMA UnblockEmptyKeeps ==
    ASSUME IInv, NEW b \in Clients, unblock_empty(b)
    PROVE  IInv'
<1>1. /\ phase[b] = "unblock" /\ Answer(b)
      /\ UNCHANGED <<list, waiters, pusher, delivered, gone, wasted, pops>>
  BY DEF unblock_empty, socketVars
<1>2. \A x \in Keys : \A w \in waiters[x] : w.client # b
  BY <1>1, NotListed
<1>3. waiters' \in [Keys -> SUBSET Waiters]
  BY <1>1 DEF IInv, TypeOK
<1> QED
  BY <1>1, <1>2, <1>3, AnswerKeeps

\* A step that changes no list, no waiter and no phase.
LEMMA QuietStep ==
    ASSUME IInv, gone' \in [Clients -> BOOLEAN],
           UNCHANGED <<list, waiters, pusher, phase, req, idx, woken, delivered, missed, wasted, pops>>
    PROVE  IInv'
<1>1. TypeOK'
  BY DEF IInv, TypeOK
<1>2. RequestInv' /\ NoStaleWaiter'
  BY DEF IInv, RequestInv, NoStaleWaiter
<1>3. NoticeInv'
  BY OthersKeep DEF NoticeInv
<1> QED
  BY <1>1, <1>2, <1>3 DEF IInv

\* Every step keeps the invariant.
LEMMA NextStep == IInv /\ [Next]_vars => IInv'
<1> SUFFICES ASSUME IInv, [Next]_vars PROVE IInv'
  OBVIOUS
<1>1. ASSUME NEW e \in Elements, NEW d \in Dbs, NEW k \in Keys, NEW left \in Lefts, push(e, d, k, left)
      PROVE  IInv'
  BY <1>1, PushKeeps
<1>2. ASSUME NEW e \in Elements, PushStep(e) PROVE IInv'
  BY <1>2, NotifyKeeps, CallKeeps, PushedKeeps DEF PushStep
<1>3. ASSUME NEW c \in Clients, NEW ks \in KeyLists, NEW d \in Dbs, NEW left \in Lefts, NEW t \in Timeouts,
             blpop(c, ks, d, left, t)
      PROVE  IInv'
  BY <1>3, BlpopKeeps
<1>4. ASSUME NEW c \in Clients, PopStep(c) PROVE IInv'
  <2>1. CASE blpop_try(c)
    BY <2>1, TryPopKeeps DEF blpop_try
  <2>2. CASE unblock_pop(c)
    BY <2>2, TryPopKeeps DEF unblock_pop
  <2> QED
    BY <1>4, <2>1, <2>2, BlockKeeps, RegisterKeeps, ParkKeeps, WakeKeeps, ExpireKeeps, UnblockEmptyKeeps DEF PopStep
<1>5. ASSUME NEW c \in Clients, vanish(c) PROVE IInv'
  <2>1. gone' \in [Clients -> BOOLEAN]
    BY <1>5 DEF vanish, IInv, TypeOK
  <2> QED
    BY <1>5, <2>1, QuietStep DEF vanish
<1>6. CASE UNCHANGED vars
  <2>1. gone' \in [Clients -> BOOLEAN]
    BY <1>6 DEF vars, IInv, TypeOK
  <2> QED
    BY <1>6, <2>1, QuietStep DEF vars
<1> QED
  BY <1>1, <1>2, <1>3, <1>4, <1>5, <1>6 DEF Next

-----------------------------------------------------------------------------
(* What follows for every execution. *)

\* Every reachable state satisfies the invariant.
THEOREM Invariance == Spec => []IInv
BY InitStep, NextStep, PTL DEF Spec

\* register, unregister, notify: a connection that is not waiting is in no waiter
\* list, however wake-ups and timeouts race.
THEOREM NoRegistrationLeft == Spec => []NoStaleWaiter
<1>1. IInv => NoStaleWaiter
  BY DEF IInv
<1> QED
  BY <1>1, Invariance, PTL

\* blpop, connection.rs 213-222, notify: a wake-up is lost only when the
\* notification falls between a client's first look and its Notified future.
THEOREM WakeupsReachTheParked == Spec => []OnlyWindowLosesWakeups
<1>1. IInv => OnlyWindowLosesWakeups
  <2> SUFFICES ASSUME IInv, NEW c \in Clients, Parked(c), ~ woken[c], ~ missed[c],
                      NEW k \in Range(req[c].keys), list[req[c].db][k] # <<>>,
                      \A e \in Elements : pusher[e].at \in {"todo", "done"}
               PROVE  FALSE
    BY DEF OnlyWindowLosesWakeups
  <2>1. k \in Looked(c)
    BY DEF Parked, Looked, Listed
  <2>2. Announced(k) \/ Called(c)
    BY <2>1 DEF IInv, NoticeInv, ClientInv
  <2> QED
    BY <2>2 DEF Announced, Called
<1> QED
  BY <1>1, Invariance, PTL

-----------------------------------------------------------------------------
(* Every element is in one place. *)

Places == ListPlaces \cup ClientPlaces

\* What is where.
Contents == [p \in Places |-> IF p \in ListPlaces THEN InList(p) ELSE WithClient(p)]

Single(S) == \E i \in S : S = {i}

\* In the contents H an element is nowhere, or in one place only and there once.
Nowhere(H, e) == \A p \in Places : Indices(H[p], e) = {}

Once(H, e) ==
    \E p \in Places : Single(Indices(H[p], e)) /\ \A q \in Places \ {p} : Indices(H[q], e) = {}

HoldInv == \A e \in Elements : IF pusher[e].at = "todo" THEN Nowhere(Contents, e) ELSE Once(Contents, e)

\* A client that died has got one element at most, and asks for no other.
GoneInv ==
    \A c \in Clients : /\ Len(wasted[c]) <= 1
                       /\ wasted[c] # <<>> => gone[c] /\ phase[c] = "idle"

\* The sequence t holds x as often as s does.
Same(s, t, x) ==
    /\ Indices(s, x) = {} => Indices(t, x) = {}
    /\ Single(Indices(s, x)) => Single(Indices(t, x))

\* Adding e at either end.
LEMMA AddFacts ==
    ASSUME NEW s \in Seq(Elements), NEW e \in Elements
    PROVE  /\ \A x : x # e => Same(s, Append(s, e), x) /\ Same(s, <<e>> \o s, x)
           /\ Indices(s, e) = {} => Single(Indices(Append(s, e), e)) /\ Single(Indices(<<e>> \o s, e))
<1> DEFINE a == Append(s, e)
           b == <<e>> \o s
           n == Len(s)
<1>1. n \in Nat /\ DOMAIN s = 1 .. n
  OBVIOUS
<1>2. DOMAIN a = 1 .. n + 1 /\ a[n + 1] = e /\ \A i \in 1 .. n : a[i] = s[i]
  OBVIOUS
<1>3. DOMAIN b = 1 .. n + 1 /\ b[1] = e /\ \A i \in 1 .. n : b[i + 1] = s[i]
  OBVIOUS
<1> HIDE DEF a, b, n
<1>4. \A i \in 1 .. n + 1 : (i \in 1 .. n \/ i = n + 1) /\ (i = 1 \/ (i - 1 \in 1 .. n /\ i - 1 + 1 = i))
  BY <1>1
<1>5. \A i \in 1 .. n : i \in 1 .. n + 1 /\ i + 1 \in 1 .. n + 1 /\ (i + 1) - 1 = i
  BY <1>1
<1>6. 1 \in 1 .. n + 1 /\ n + 1 \in 1 .. n + 1
  BY <1>1
<1>7. ASSUME NEW x, x # e PROVE Indices(a, x) = Indices(s, x)
  BY <1>1, <1>2, <1>4, <1>5, <1>7 DEF Indices
<1>8. ASSUME NEW x, x # e PROVE \A i : i \in Indices(b, x) <=> i \in 1 .. n + 1 /\ i - 1 \in Indices(s, x)
  BY <1>1, <1>3, <1>4, <1>5, <1>8 DEF Indices
<1>9. ASSUME NEW x, x # e PROVE Same(s, b, x)
  <2>1. Indices(s, x) = {} => Indices(b, x) = {}
    BY <1>8, <1>9
  <2>2. ASSUME NEW i, Indices(s, x) = {i} PROVE Single(Indices(b, x))
    <3>1. i \in 1 .. n
      BY <1>1, <2>2 DEF Indices
    <3>2. i + 1 \in Indices(b, x)
      BY <1>5, <1>8, <1>9, <2>2, <3>1
    <3>3. \A j \in Indices(b, x) : j = i + 1
      <4> SUFFICES ASSUME NEW j \in Indices(b, x) PROVE j = i + 1
        OBVIOUS
      <4>1. j \in 1 .. n + 1 /\ j - 1 = i
        BY <1>8, <1>9, <2>2
      <4> QED
        BY <1>1, <3>1, <4>1
    <3>4. Indices(b, x) = {i + 1}
      BY <3>2, <3>3
    <3> QED
      BY <3>4 DEF Single
  <2> QED
    BY <2>1, <2>2 DEF Same, Single
<1>10. ASSUME Indices(s, e) = {} PROVE Indices(a, e) = {n + 1} /\ Indices(b, e) = {1}
  <2>1. \A i \in 1 .. n : s[i] # e
    BY <1>1, <1>10 DEF Indices
  <2>2. n + 1 \in Indices(a, e) /\ 1 \in Indices(b, e)
    BY <1>2, <1>3, <1>6 DEF Indices
  <2>3. ASSUME NEW i \in Indices(a, e) PROVE i = n + 1
    <3>1. i \in 1 .. n + 1 /\ a[i] = e
      BY <1>2 DEF Indices
    <3> QED
      BY <1>2, <1>4, <2>1, <3>1
  <2>4. ASSUME NEW i \in Indices(b, e) PROVE i = 1
    <3>1. i \in 1 .. n + 1 /\ b[i] = e
      BY <1>3 DEF Indices
    <3>2. i # 1 => b[i] = s[i - 1] /\ i - 1 \in 1 .. n
      BY <1>3, <1>4, <3>1
    <3> QED
      BY <2>1, <3>1, <3>2
  <2>5. Indices(a, e) = {n + 1}
    BY <2>2, <2>3
  <2>6. Indices(b, e) = {1}
    BY <2>2, <2>4
  <2> QED
    BY <2>5, <2>6
<1> QED
  BY <1>7, <1>9, <1>10 DEF Same, Single, a, b

\* Taking e from either end.
LEMMA TakeFacts ==
    ASSUME NEW s \in Seq(Elements), s # <<>>, NEW left \in BOOLEAN
    PROVE  LET e == PopElement(s, left)
               t == PopRest(s, left)
           IN  /\ e \in Elements /\ t \in Seq(Elements) /\ Indices(s, e) # {}
               /\ Single(Indices(s, e)) => Indices(t, e) = {}
               /\ \A x : x # e => Same(s, t, x)
<1> DEFINE n == Len(s)
<1>1. n \in Nat \ {0} /\ DOMAIN s = 1 .. n /\ 1 \in 1 .. n /\ n \in 1 .. n
  OBVIOUS
<1>2. CASE left
  <2> DEFINE t == Tail(s)
  <2>1. t \in Seq(Elements) /\ DOMAIN t = 1 .. n - 1 /\ \A i \in 1 .. n - 1 : t[i] = s[i + 1]
    OBVIOUS
  <2>2. Head(s) = s[1] /\ s[1] \in Elements
    BY <1>1
  <2> HIDE DEF n, t
  <2>3. \A i \in 1 .. n - 1 : i + 1 \in 1 .. n /\ i + 1 # 1 /\ (i + 1) - 1 = i
    BY <1>1
  <2>4. \A i \in 1 .. n : i # 1 => i - 1 \in 1 .. n - 1 /\ i - 1 + 1 = i
    BY <1>1
  <2>5. \A x : \A i : i \in Indices(t, x) => i + 1 \in Indices(s, x) /\ i + 1 # 1 /\ (i + 1) - 1 = i
    BY <1>1, <2>1, <2>3 DEF Indices
  <2>6. \A x : \A i : i \in Indices(s, x) /\ i # 1 => i - 1 \in Indices(t, x)
    BY <1>1, <2>1, <2>4 DEF Indices
  <2>7. 1 \in Indices(s, s[1])
    BY <1>1 DEF Indices
  <2>8. Single(Indices(s, s[1])) => Indices(t, s[1]) = {}
    BY <2>5, <2>7 DEF Single
  <2>9. ASSUME NEW x, x # s[1] PROVE Same(s, t, x)
    <3>1. 1 \notin Indices(s, x)
      BY <2>9 DEF Indices
    <3>2. Indices(s, x) = {} => Indices(t, x) = {}
      BY <2>5
    <3>3. ASSUME NEW i, Indices(s, x) = {i} PROVE Single(Indices(t, x))
      <4>1. i - 1 \in Indices(t, x)
        BY <2>6, <3>1, <3>3
      <4>2. ASSUME NEW j \in Indices(t, x) PROVE j = i - 1
        <5>1. j + 1 \in {i} /\ (j + 1) - 1 = j
          BY <2>5, <3>3
        <5>2. i = j + 1
          BY <5>1
        <5> QED
          BY <5>1, <5>2, Zenon
      <4>3. Indices(t, x) = {i - 1}
        BY <4>1, <4>2
      <4> QED
        BY <4>3 DEF Single
    <3> QED
      BY <3>2, <3>3 DEF Same, Single
  <2>10. PopElement(s, left) = s[1] /\ PopRest(s, left) = t
    BY <1>2, <2>2 DEF PopElement, PopRest, t
  <2> QED
    BY <2>1, <2>2, <2>7, <2>8, <2>9, <2>10
<1>3. CASE ~ left
  <2> DEFINE t == Front(s)
  <2>1. t \in Seq(Elements) /\ DOMAIN t = 1 .. n - 1 /\ \A i \in 1 .. n - 1 : t[i] = s[i]
    BY <1>1 DEF Front
  <2>2. Last(s) = s[n] /\ s[n] \in Elements
    BY <1>1 DEF Last
  <2> HIDE DEF n, t
  <2>3. \A i \in 1 .. n : i \in 1 .. n - 1 <=> i # n
    BY <1>1
  <2>4. \A i \in 1 .. n - 1 : i \in 1 .. n /\ i # n
    BY <1>1
  <2>5. \A x : \A i : i \in Indices(t, x) <=> i \in Indices(s, x) /\ i # n
    BY <1>1, <2>1, <2>3, <2>4 DEF Indices
  <2>6. n \in Indices(s, s[n])
    BY <1>1 DEF Indices
  <2>7. Single(Indices(s, s[n])) => Indices(t, s[n]) = {}
    BY <2>5, <2>6 DEF Single
  <2>8. ASSUME NEW x, x # s[n] PROVE Same(s, t, x)
    <3>1. n \notin Indices(s, x)
      BY <2>8 DEF Indices
    <3>2. Indices(t, x) = Indices(s, x)
      BY <2>5, <3>1
    <3> QED
      BY <3>2 DEF Same
  <2>9. PopElement(s, left) = s[n] /\ PopRest(s, left) = t
    BY <1>3, <2>2 DEF PopElement, PopRest, t
  <2> QED
    BY <2>1, <2>2, <2>6, <2>7, <2>8, <2>9
<1> QED
  BY <1>2, <1>3

\* An element that every place holds as often as before is where it was.
LEMMA SameKeeps ==
    ASSUME NEW H, NEW G, NEW x, \A p \in Places : Same(H[p], G[p], x)
    PROVE  (Nowhere(H, x) => Nowhere(G, x)) /\ (Once(H, x) => Once(G, x))
<1>1. Nowhere(H, x) => Nowhere(G, x)
  BY DEF Nowhere, Same
<1>2. ASSUME NEW p \in Places, Single(Indices(H[p], x)), \A q \in Places \ {p} : Indices(H[q], x) = {}
      PROVE  Once(G, x)
  <2>1. Single(Indices(G[p], x)) /\ \A q \in Places \ {p} : Indices(G[q], x) = {}
    BY <1>2 DEF Same
  <2> QED
    BY <2>1 DEF Once
<1> QED
  BY <1>1, <1>2 DEF Once

\* A sequence holds what it holds as often as it does.
LEMMA SameSelf == ASSUME NEW s, NEW x PROVE Same(s, s, x)
BY DEF Same

\* An element that was nowhere and is put in one place is there, and the others
\* stay where they were.
LEMMA PutFacts ==
    ASSUME NEW H \in [Places -> Seq(Elements)], NEW G, NEW p \in Places, NEW e \in Elements, Nowhere(H, e),
           G[p] = Append(H[p], e) \/ G[p] = <<e>> \o H[p], \A q \in Places \ {p} : G[q] = H[q]
    PROVE  Once(G, e) /\ \A x : x # e => \A q \in Places : Same(H[q], G[q], x)
<1>1. H[p] \in Seq(Elements) /\ Indices(H[p], e) = {}
  BY DEF Nowhere
<1>2. Single(Indices(G[p], e)) /\ \A x : x # e => Same(H[p], G[p], x)
  BY <1>1, AddFacts
<1>3. \A q \in Places \ {p} : Indices(G[q], e) = {}
  BY DEF Nowhere
<1>4. Once(G, e)
  BY <1>2, <1>3 DEF Once
<1>5. ASSUME NEW x, x # e, NEW q \in Places PROVE Same(H[q], G[q], x)
  BY <1>2, <1>5, SameSelf
<1> QED
  BY <1>4, <1>5

\* An element that is taken from its place is nowhere, and the others stay where
\* they were.
LEMMA GetFacts ==
    ASSUME NEW H \in [Places -> Seq(Elements)], NEW G, NEW p \in Places, NEW left \in BOOLEAN, H[p] # <<>>,
           Once(H, PopElement(H[p], left)),
           G[p] = PopRest(H[p], left), \A q \in Places \ {p} : G[q] = H[q]
    PROVE  LET e == PopElement(H[p], left)
           IN  /\ e \in Elements /\ Nowhere(G, e)
               /\ \A x : x # e => \A q \in Places : Same(H[q], G[q], x)
<1> DEFINE e == PopElement(H[p], left)
           s == H[p]
<1>1. s \in Seq(Elements)
  OBVIOUS
<1>2. /\ e \in Elements /\ Indices(s, e) # {} /\ (Single(Indices(s, e)) => Indices(G[p], e) = {})
      /\ \A x : x # e => Same(s, G[p], x)
  BY <1>1, TakeFacts
<1> HIDE DEF e
<1>3. PICK r \in Places : Single(Indices(H[r], e)) /\ \A q \in Places \ {r} : Indices(H[q], e) = {}
  BY DEF Once, e
<1>4. r = p
  BY <1>2, <1>3
<1>5. Nowhere(G, e)
  BY <1>2, <1>3, <1>4 DEF Nowhere
<1>6. ASSUME NEW x, x # e, NEW q \in Places PROVE Same(H[q], G[q], x)
  BY <1>2, <1>6, SameSelf
<1> QED
  BY <1>2, <1>5, <1>6 DEF e

\* A list is no client.
LEMMA Apart ==
    /\ \A p \in ClientPlaces : p \notin ListPlaces
    /\ \A p \in ListPlaces : p = [db |-> p.db, key |-> p.key] /\ p.db \in Dbs /\ p.key \in Keys
    /\ \A p \in ClientPlaces : p = [client |-> p.client, got |-> p.got] /\ p.client \in Clients /\ p.got \in BOOLEAN
<1>1. \A p \in ClientPlaces : p \notin ListPlaces
  <2> SUFFICES ASSUME NEW p \in ClientPlaces, p \in ListPlaces PROVE FALSE
    OBVIOUS
  <2>1. DOMAIN p = {"client", "got"} /\ DOMAIN p = {"db", "key"}
    BY DEF ClientPlaces, ListPlaces
  <2> QED
    BY <2>1
<1>2. \A p \in ListPlaces : p = [db |-> p.db, key |-> p.key] /\ p.db \in Dbs /\ p.key \in Keys
  BY DEF ListPlaces
<1>3. \A p \in ClientPlaces : p = [client |-> p.client, got |-> p.got] /\ p.client \in Clients /\ p.got \in BOOLEAN
  BY DEF ClientPlaces
<1> QED
  BY <1>1, <1>2, <1>3

\* What a place holds is a sequence of elements.
LEMMA ContentsType ==
    ASSUME TypeOK
    PROVE  /\ Contents \in [Places -> Seq(Elements)]
           /\ \A d \in Dbs, k \in Keys : LET p == [db |-> d, key |-> k]
                                         IN  p \in ListPlaces /\ p \in Places /\ Contents[p] = list[d][k]
           /\ \A c \in Clients, b \in BOOLEAN :
                 LET p == [client |-> c, got |-> b]
                 IN  p \in ClientPlaces /\ p \in Places /\ Contents[p] = IF b THEN delivered[c] ELSE wasted[c]
<1>1. ASSUME NEW p \in ListPlaces PROVE p \in Places /\ Contents[p] = list[p.db][p.key] /\ Contents[p] \in Seq(Elements)
  <2>1. p.db \in Dbs /\ p.key \in Keys
    BY Apart
  <2>2. list[p.db][p.key] \in Seq(Elements)
    BY <2>1 DEF TypeOK
  <2> QED
    BY <2>2 DEF Contents, Places, InList
<1>2. ASSUME NEW p \in ClientPlaces
      PROVE  /\ p \in Places /\ Contents[p] = IF p.got THEN delivered[p.client] ELSE wasted[p.client]
             /\ Contents[p] \in Seq(Elements)
  <2>1. p.client \in Clients /\ p.got \in BOOLEAN /\ p \notin ListPlaces
    BY Apart
  <2>2. delivered[p.client] \in Seq(Elements) /\ wasted[p.client] \in Seq(Elements)
    BY <2>1 DEF TypeOK
  <2> QED
    BY <2>1, <2>2 DEF Contents, Places, WithClient
<1>3. Contents \in [Places -> Seq(Elements)]
  <2>1. \A p \in Places : Contents[p] \in Seq(Elements)
    BY <1>1, <1>2 DEF Places
  <2> QED
    BY <2>1 DEF Contents
<1>4. ASSUME NEW d \in Dbs, NEW k \in Keys PROVE [db |-> d, key |-> k] \in ListPlaces
  BY DEF ListPlaces
<1>5. ASSUME NEW c \in Clients, NEW b \in BOOLEAN PROVE [client |-> c, got |-> b] \in ClientPlaces
  BY DEF ClientPlaces
<1> QED
  BY <1>1, <1>2, <1>3, <1>4, <1>5

\* A step that changes neither lists nor answers, and begins no push.
LEMMA StillHeld ==
    ASSUME HoldInv, UNCHANGED <<list, delivered, wasted>>,
           \A e \in Elements : pusher'[e].at = "todo" <=> pusher[e].at = "todo"
    PROVE  HoldInv'
<1>1. Contents' = Contents
  BY DEF Contents, InList, WithClient
<1> QED
  BY <1>1 DEF HoldInv, Nowhere, Once

\* A push puts an element that was nowhere into a list.
LEMMA PushHolds ==
    ASSUME IInv, HoldInv, NEW e \in Elements, NEW d \in Dbs, NEW k \in Keys, NEW left \in Lefts,
           push(e, d, k, left)
    PROVE  HoldInv'
<1> DEFINE H == Contents
           G == Contents'
           p == [db |-> d, key |-> k]
<1>1. H \in [Places -> Seq(Elements)] /\ p \in Places /\ p \in ListPlaces /\ H[p] = list[d][k]
  BY ContentsType DEF IInv
<1>2. G[p] = list'[d][k]
  BY <1>1 DEF Contents, InList
<1>3. list'[d][k] = Append(list[d][k], e) \/ list'[d][k] = <<e>> \o list[d][k]
  BY DEF push, IInv, TypeOK
<1>4. ASSUME NEW q \in Places, q # p PROVE G[q] = H[q]
  <2>1. CASE q \in ListPlaces
    <3>1. q.db # d \/ q.key # k
      BY <1>4, <2>1, Apart
    <3>2. q.db \in Dbs /\ q.key \in Keys
      BY <2>1, Apart
    <3>3. list'[q.db][q.key] = list[q.db][q.key]
      BY <3>1, <3>2 DEF push, IInv, TypeOK
    <3> QED
      BY <2>1, <3>3 DEF Contents, InList
  <2>2. CASE q \notin ListPlaces
    BY <2>2 DEF Contents, WithClient, push, clientVars, socketVars
  <2> QED
    BY <2>1, <2>2
<1>5. pusher[e].at = "todo" /\ pusher'[e].at = "notify" /\ \A x \in Elements \ {e} : pusher'[x] = pusher[x]
  BY DEF push, Pusher, IInv, TypeOK
<1>6. Nowhere(H, e)
  BY <1>5 DEF HoldInv
<1> HIDE DEF H, G, p
<1>7. Once(G, e) /\ \A x : x # e => \A q \in Places : Same(H[q], G[q], x)
  BY <1>1, <1>2, <1>3, <1>4, <1>6, PutFacts
<1>8. ASSUME NEW x \in Elements, x # e PROVE IF pusher[x].at = "todo" THEN Nowhere(G, x) ELSE Once(G, x)
  <2>1. \A q \in Places : Same(H[q], G[q], x)
    BY <1>7, <1>8
  <2>2. (Nowhere(H, x) => Nowhere(G, x)) /\ (Once(H, x) => Once(G, x))
    BY <2>1, SameKeeps
  <2>3. IF pusher[x].at = "todo" THEN Nowhere(H, x) ELSE Once(H, x)
    BY DEF HoldInv, H
  <2> QED
    BY <2>2, <2>3
<1>9. ASSUME NEW x \in Elements PROVE IF pusher'[x].at = "todo" THEN Nowhere(G, x) ELSE Once(G, x)
  BY <1>5, <1>7, <1>8
<1> QED
  BY <1>9 DEF HoldInv, G, Nowhere, Once

\* A pop that finds an element moves it from its list to the client.
LEMMA TryPopHolds ==
    ASSUME IInv, HoldInv, NEW c \in Clients, phase[c] # "idle", KeysLeft(c), TryPop(c), pusher' = pusher
    PROVE  HoldInv'
<1>1. CASE Source(c) = <<>>
  <2>1. UNCHANGED <<list, delivered, wasted>>
    BY <1>1 DEF TryPop
  <2> QED
    BY <2>1, StillHeld
<1>2. CASE Source(c) # <<>>
  <2> DEFINE d == req[c].db
             k == req[c].keys[idx[c]]
             l == req[c].left
             e == PopElement(list[d][k], l)
             b == ~ gone[c]
             H == Contents
             G == Contents'
             p == [db |-> d, key |-> k]
             r == [client |-> c, got |-> b]
             F == [H EXCEPT ![p] = PopRest(list[d][k], l)]
  <2>1. d \in Dbs /\ k \in Keys /\ l \in BOOLEAN /\ b \in BOOLEAN
    <3>1. req[c].keys \in Seq(Keys) /\ idx[c] \in 1 .. Len(req[c].keys) /\ l \in BOOLEAN
      BY DEF IInv, TypeOK, Requests, KeysLeft
    <3> QED
      BY <3>1 DEF IInv, RequestInv
  <2>2. list[d][k] # <<>> /\ list' = [list EXCEPT ![d][k] = PopRest(@, l)] /\ HandOver(c, e)
    BY <1>2 DEF TryPop, Source
  <2>3. list'[d][k] = PopRest(list[d][k], l) /\ \A x \in Dbs, y \in Keys : x # d \/ y # k => list'[x][y] = list[x][y]
    BY <2>1, <2>2 DEF IInv, TypeOK
  <2>4. /\ (IF b THEN delivered' ELSE wasted')[c] = Append((IF b THEN delivered ELSE wasted)[c], e)
        /\ (IF b THEN wasted' ELSE delivered') = (IF b THEN wasted ELSE delivered)
        /\ \A x \in Clients \ {c} : delivered'[x] = delivered[x] /\ wasted'[x] = wasted[x]
    BY <2>2 DEF HandOver, IInv, TypeOK
  <2>5. /\ H \in [Places -> Seq(Elements)] /\ p \in Places /\ p \in ListPlaces /\ H[p] = list[d][k]
        /\ r \in Places /\ r \in ClientPlaces
    BY <2>1, ContentsType DEF IInv
  <2>6. r \notin ListPlaces /\ p # r
    BY <2>5, Apart
  <2>7. G[p] = PopRest(H[p], l)
    BY <2>3, <2>5 DEF Contents, InList
  <2>8. G[r] = Append(H[r], e)
    BY <2>4, <2>5, <2>6 DEF Contents, WithClient
  <2>9. ASSUME NEW q \in Places, q # p, q # r PROVE G[q] = H[q]
    <3>1. CASE q \in ListPlaces
      <4>1. (q.db # d \/ q.key # k) /\ q.db \in Dbs /\ q.key \in Keys
        BY <2>9, <3>1, Apart
      <4>2. list'[q.db][q.key] = list[q.db][q.key]
        BY <2>3, <4>1
      <4> QED
        BY <3>1, <4>2 DEF Contents, InList
    <3>2. CASE q \notin ListPlaces
      <4>1. (q.client # c \/ q.got # b) /\ q.client \in Clients /\ q.got \in BOOLEAN
        BY <2>9, <3>2, Apart DEF Places
      <4>2. WithClient(q)' = WithClient(q)
        BY <2>1, <2>4, <4>1 DEF WithClient
      <4> QED
        BY <3>2, <4>2 DEF Contents
    <3> QED
      BY <3>1, <3>2
  <2>10. \A x \in Elements : IF pusher[x].at = "todo" THEN Nowhere(H, x) ELSE Once(H, x)
    BY DEF HoldInv
  <2>11. H[p] \in Seq(Elements) /\ H[p] # <<>> /\ e = PopElement(H[p], l) /\ F[p] = PopRest(H[p], l)
         /\ \A q \in Places \ {p} : F[q] = H[q]
    BY <2>2, <2>5
  <2> HIDE DEF H, G, p, r, F, e, l, b
  <2>12. e \in Elements /\ Indices(H[p], e) # {} /\ F[p] \in Seq(Elements)
    BY <2>1, <2>11, TakeFacts
  <2>13. Once(H, e) /\ pusher[e].at # "todo"
    BY <2>5, <2>10, <2>12 DEF Nowhere
  <2>14. Nowhere(F, e) /\ \A x : x # e => \A q \in Places : Same(H[q], F[q], x)
    BY <2>1, <2>5, <2>11, <2>13, GetFacts
  <2>15. F \in [Places -> Seq(Elements)]
    BY <2>5, <2>11, <2>12 DEF F
  <2>16. G[r] = Append(F[r], e) /\ \A q \in Places \ {r} : G[q] = F[q]
    BY <2>5, <2>6, <2>7, <2>8, <2>9, <2>11
  <2>17. Once(G, e) /\ \A x : x # e => \A q \in Places : Same(F[q], G[q], x)
    BY <2>5, <2>12, <2>14, <2>15, <2>16, PutFacts
  <2>18. ASSUME NEW x \in Elements, x # e PROVE IF pusher[x].at = "todo" THEN Nowhere(G, x) ELSE Once(G, x)
    <3>1. (Nowhere(H, x) => Nowhere(F, x)) /\ (Once(H, x) => Once(F, x))
      BY <2>14, <2>18, SameKeeps
    <3>2. (Nowhere(F, x) => Nowhere(G, x)) /\ (Once(F, x) => Once(G, x))
      BY <2>17, <2>18, SameKeeps
    <3> QED
      BY <2>10, <3>1, <3>2
  <2>19. ASSUME NEW x \in Elements PROVE IF pusher'[x].at = "todo" THEN Nowhere(G, x) ELSE Once(G, x)
    BY <2>13, <2>17, <2>18
  <2> QED
    BY <2>19 DEF HoldInv, G, Nowhere, Once
<1> QED
  BY <1>1, <1>2

\* A pop for a client that died ends its requests.
LEMMA TryPopGone ==
    ASSUME IInv, GoneInv, NEW c \in Clients, phase[c] # "idle", TryPop(c), gone' = gone
    PROVE  GoneInv'
<1>1. wasted[c] = <<>>
  BY DEF GoneInv
<1>2. CASE Source(c) # <<>> /\ gone[c]
  <2>1. PICK e : wasted' = [wasted EXCEPT ![c] = Append(@, e)]
    BY <1>2 DEF TryPop, HandOver
  <2>2. wasted'[c] = Append(<<>>, e) /\ \A o \in Clients \ {c} : wasted'[o] = wasted[o]
    BY <1>1, <2>1 DEF IInv, TypeOK
  <2>3. Len(Append(<<>>, e)) = 1
    OBVIOUS
  <2>4. phase'[c] = "idle" /\ \A o \in Clients \ {c} : phase'[o] = phase[o]
    BY <1>2 DEF TryPop, Answer, IInv, TypeOK
  <2>5. gone'[c] /\ Len(wasted'[c]) <= 1
    BY <1>2, <2>2, <2>3
  <2>6. ASSUME NEW o \in Clients \ {c}
        PROVE  Len(wasted'[o]) <= 1 /\ (wasted'[o] # <<>> => gone'[o] /\ phase'[o] = "idle")
    BY <2>2, <2>4 DEF GoneInv
  <2> QED
    BY <2>4, <2>5, <2>6 DEF GoneInv
<1>3. CASE Source(c) # <<>> /\ ~ gone[c]
  <2>1. wasted' = wasted /\ \A o \in Clients \ {c} : phase'[o] = phase[o]
    BY <1>3 DEF TryPop, HandOver, Answer, IInv, TypeOK
  <2> QED
    BY <1>1, <2>1 DEF GoneInv
<1>4. CASE Source(c) = <<>>
  BY <1>4 DEF TryPop, GoneInv
<1> QED
  BY <1>2, <1>3, <1>4

\* Other steps: nobody comes back, and the dead ask for nothing.
LEMMA StillGone ==
    ASSUME GoneInv, wasted' = wasted,
           \A c \in Clients : gone[c] => gone'[c] /\ (phase[c] = "idle" => phase'[c] = "idle")
    PROVE  GoneInv'
BY DEF GoneInv

PlaceInv == IInv /\ HoldInv /\ GoneInv

\* Nothing has been pushed.
LEMMA InitPlaces == Init => PlaceInv
<1> SUFFICES ASSUME Init PROVE PlaceInv
  OBVIOUS
<1>1. IInv
  BY InitStep
<1>2. \A e \in Elements : pusher[e].at = "todo"
  BY DEF Init, Pusher
<1>3. ASSUME NEW p \in Places PROVE Contents[p] = <<>>
  <2>1. CASE p \in ListPlaces
    <3>1. p.db \in Dbs /\ p.key \in Keys
      BY <2>1, Apart
    <3> QED
      BY <2>1, <3>1 DEF Init, Contents, InList
  <2>2. CASE p \notin ListPlaces
    <3>1. p.client \in Clients
      BY <2>2, Apart DEF Places
    <3> QED
      BY <2>2, <3>1 DEF Init, Contents, WithClient
  <2> QED
    BY <2>1, <2>2
<1>4. \A e : Indices(<<>>, e) = {}
  BY DEF Indices
<1>5. HoldInv
  BY <1>2, <1>3, <1>4 DEF HoldInv, Nowhere
<1>6. GoneInv
  <2>1. Len(<<>>) = 0
    OBVIOUS
  <2>2. \A c \in Clients : wasted[c] = <<>>
    BY DEF Init
  <2> QED
    BY <2>1, <2>2 DEF GoneInv
<1> QED
  BY <1>1, <1>5, <1>6 DEF PlaceInv

\* Every step keeps every element in its place or moves it.
LEMMA NextPlaces == PlaceInv /\ [Next]_vars => PlaceInv'
<1> SUFFICES ASSUME PlaceInv, [Next]_vars PROVE PlaceInv'
  OBVIOUS
<1> USE DEF PlaceInv
<1>1. IInv'
  BY NextStep
<1>2. ASSUME NEW e \in Elements, NEW d \in Dbs, NEW k \in Keys, NEW left \in Lefts, push(e, d, k, left)
      PROVE  HoldInv' /\ GoneInv'
  <2>1. UNCHANGED <<wasted, gone, phase>>
    BY <1>2 DEF push, clientVars, socketVars
  <2> QED
    BY <1>2, <2>1, PushHolds, StillGone
<1>3. ASSUME NEW e \in Elements, PushStep(e) PROVE HoldInv' /\ GoneInv'
  <2>1. UNCHANGED <<list, delivered, wasted, gone, phase>>
    BY <1>3 DEF PushStep, notify, notify_waiters, pushed, clientVars, socketVars
  <2>2. pusher[e].at # "todo" /\ pusher'[e].at # "todo" /\ \A x \in Elements \ {e} : pusher'[x] = pusher[x]
    <3>1. CASE notify(e)
      BY <3>1 DEF notify, Pusher, IInv, TypeOK
    <3>2. CASE notify_waiters(e)
      <4>1. pusher[e].at = "wake" /\ \E w : pusher' = [pusher EXCEPT ![e].wake = @ \ {w}]
        BY <3>2 DEF notify_waiters
      <4> QED
        BY <4>1 DEF IInv, TypeOK, Pushers
    <3>3. CASE pushed(e)
      BY <3>3 DEF pushed, Pusher, IInv, TypeOK
    <3> QED
      BY <1>3, <3>1, <3>2, <3>3 DEF PushStep
  <2>3. \A x \in Elements : pusher'[x].at = "todo" <=> pusher[x].at = "todo"
    BY <2>2
  <2> QED
    BY <2>1, <2>3, StillHeld, StillGone
<1>4. ASSUME NEW c \in Clients, NEW ks \in KeyLists, NEW d \in Dbs, NEW left \in Lefts, NEW t \in Timeouts,
             blpop(c, ks, d, left, t)
      PROVE  HoldInv' /\ GoneInv'
  <2>1. UNCHANGED <<list, delivered, wasted, gone, pusher>> /\ ~ gone[c]
    BY <1>4 DEF blpop, socketVars
  <2>2. \A o \in Clients \ {c} : phase'[o] = phase[o]
    BY <1>4 DEF blpop, Goto, IInv, TypeOK
  <2> QED
    BY <2>1, <2>2, StillHeld, StillGone
<1>5. ASSUME NEW c \in Clients, PopStep(c) PROVE HoldInv' /\ GoneInv'
  <2>1. CASE blpop_try(c) \/ unblock_pop(c)
    <3>1. phase[c] # "idle" /\ KeysLeft(c) /\ TryPop(c) /\ pusher' = pusher /\ gone' = gone
      BY <2>1 DEF blpop_try, unblock_pop
    <3> QED
      BY <3>1, TryPopHolds, TryPopGone
  <2>2. CASE ~ (blpop_try(c) \/ unblock_pop(c))
    <3>1. blpop_block(c) \/ register(c) \/ park(c) \/ wake(c) \/ expire(c) \/ unblock_empty(c)
      BY <1>5, <2>2 DEF PopStep
    <3>2. UNCHANGED <<list, delivered, wasted, gone, pusher>> /\ phase[c] # "idle"
      BY <3>1 DEF blpop_block, register, park, wake, expire, unblock_empty, socketVars, Parked
    <3>3. \A o \in Clients \ {c} : phase'[o] = phase[o]
      BY <3>1 DEF blpop_block, register, park, wake, expire, unblock_empty, Answer, Goto, IInv, TypeOK
    <3> QED
      BY <3>2, <3>3, StillHeld, StillGone
  <2> QED
    BY <2>1, <2>2
<1>6. ASSUME NEW c \in Clients, vanish(c) PROVE HoldInv' /\ GoneInv'
  <2>1. UNCHANGED <<list, delivered, wasted, pusher, phase>>
    BY <1>6 DEF vanish
  <2>2. \A o \in Clients : gone[o] => gone'[o]
    BY <1>6 DEF vanish, IInv, TypeOK
  <2> QED
    BY <2>1, <2>2, StillHeld, StillGone
<1>7. CASE UNCHANGED vars
  <2>1. UNCHANGED <<list, delivered, wasted, pusher, phase, gone>>
    BY <1>7 DEF vars
  <2> QED
    BY <1>1, <2>1, StillHeld, StillGone
<1>8. CASE Next
  BY <1>1, <1>2, <1>3, <1>4, <1>5, <1>6, <1>8 DEF Next
<1> QED
  BY <1>1, <1>7, <1>8

\* The spots of an element are those of the contents.
LEMMA SpotsAre ==
    ASSUME NEW e
    PROVE  /\ \A z \in Spots(e) : \E p \in Places : \E i \in Indices(Contents[p], e) : z = <<p, i>>
           /\ \A p \in Places : \A i \in Indices(Contents[p], e) : <<p, i>> \in Spots(e)
<1> DEFINE A == UNION {{p} \X Indices(InList(p), e) : p \in ListPlaces}
           B == UNION {{p} \X Indices(WithClient(p), e) : p \in ClientPlaces}
<1>1. Spots(e) = A \cup B
  BY DEF Spots
<1>2. \A p \in ListPlaces : p \in Places /\ Contents[p] = InList(p)
  BY DEF Contents, Places
<1>3. \A p \in ClientPlaces : p \in Places /\ Contents[p] = WithClient(p)
  BY Apart DEF Contents, Places
<1>4. ASSUME NEW z \in Spots(e) PROVE \E p \in Places : \E i \in Indices(Contents[p], e) : z = <<p, i>>
  <2>1. CASE z \in A
    <3>1. PICK p \in ListPlaces : z \in {p} \X Indices(InList(p), e)
      BY <2>1
    <3> QED
      BY <1>2, <3>1
  <2>2. CASE z \in B
    <3>1. PICK p \in ClientPlaces : z \in {p} \X Indices(WithClient(p), e)
      BY <2>2
    <3> QED
      BY <1>3, <3>1
  <2> HIDE DEF A, B
  <2> QED
    BY <1>1, <1>4, <2>1, <2>2
<1>5. ASSUME NEW p \in Places, NEW i \in Indices(Contents[p], e) PROVE <<p, i>> \in Spots(e)
  <2>1. CASE p \in ListPlaces
    <3>1. <<p, i>> \in {p} \X Indices(InList(p), e)
      BY <1>2, <1>5, <2>1
    <3>2. <<p, i>> \in A
      BY <2>1, <3>1
    <3> HIDE DEF A, B
    <3> QED
      BY <1>1, <3>2
  <2>2. CASE p \in ClientPlaces
    <3>1. <<p, i>> \in {p} \X Indices(WithClient(p), e)
      BY <1>3, <1>5, <2>2
    <3>2. <<p, i>> \in B
      BY <2>2, <3>1
    <3> HIDE DEF A, B
    <3> QED
      BY <1>1, <3>2
  <2> QED
    BY <2>1, <2>2 DEF Places
<1> QED
  BY <1>4, <1>5

\* lpop_one, rpop_one, unblock_pop: every element pushed is in one list or was
\* answered to one client, and a client that died took one with it at most.
THEOREM ElementsInOnePlace == Spec => []EachElementOnce
<1>1. PlaceInv => EachElementOnce
  <2> SUFFICES ASSUME PlaceInv PROVE EachElementOnce
    OBVIOUS
  <2>1. ASSUME NEW e \in Elements, Nowhere(Contents, e) PROVE Cardinality(Spots(e)) = 0
    <3>1. Spots(e) = {}
      BY <2>1, SpotsAre DEF Nowhere
    <3> QED
      BY <3>1, FS_EmptySet
  <2>2. ASSUME NEW e \in Elements, Once(Contents, e) PROVE Cardinality(Spots(e)) = 1
    <3>1. PICK p \in Places : /\ Single(Indices(Contents[p], e))
                              /\ \A q \in Places \ {p} : Indices(Contents[q], e) = {}
      BY <2>2 DEF Once
    <3>2. PICK i \in Indices(Contents[p], e) : Indices(Contents[p], e) = {i}
      BY <3>1 DEF Single
    <3>3. <<p, i>> \in Spots(e)
      BY <3>2, SpotsAre
    <3>4. ASSUME NEW z \in Spots(e) PROVE z = <<p, i>>
      <4>1. PICK q \in Places : \E j \in Indices(Contents[q], e) : z = <<q, j>>
        BY SpotsAre
      <4> QED
        BY <3>1, <3>2, <4>1
    <3>5. Spots(e) = {<<p, i>>}
      BY <3>3, <3>4
    <3> QED
      BY <3>5, FS_Singleton
  <2>3. \A e \in Elements : Cardinality(Spots(e)) = IF pusher[e].at = "todo" THEN 0 ELSE 1
    BY <2>1, <2>2 DEF PlaceInv, HoldInv
  <2>4. ASSUME NEW c \in Clients PROVE Len(wasted[c]) <= IF gone[c] THEN 1 ELSE 0
    <3>1. Len(<<>>) = 0
      OBVIOUS
    <3>2. gone[c] \in BOOLEAN
      BY DEF PlaceInv, IInv, TypeOK
    <3> QED
      BY <3>1, <3>2 DEF PlaceInv, GoneInv
  <2> QED
    BY <2>3, <2>4 DEF EachElementOnce
<1>2. Spec => []PlaceInv
  BY InitPlaces, NextPlaces, PTL DEF Spec
<1> QED
  BY <1>1, <1>2, PTL
=============================================================================
