------------------------------ MODULE Blocking ------------------------------
(***************************************************************************)
(* Blocking list pops: BLPOP / BRPOP (src/cmd/list.rs), the parking and    *)
(* unparking of the connection (src/net/connection.rs, lines 213-236 and   *)
(* unblock_pop), the BlockRegistry and the pushes that notify it           *)
(* (src/store/memory.rs).                                                  *)
(*                                                                         *)
(* No lock spans two of these steps: a pop of one key, the registration,   *)
(* the creation of the Notified future, a push, the clearing of the        *)
(* waiters and the wake-up of each of them.  tokio's notify_waiters        *)
(* reaches the Notified futures that exist when it is called and leaves    *)
(* nothing behind for later ones.                                          *)
(***************************************************************************)
EXTENDS Integers, Sequences, SequencesExt

CONSTANTS Clients,     \* connections that issue BLPOP / BRPOP
          MaxPushes,   \* bound: elements the pushing connections push
          Keys,        \* list keys
          Dbs,         \* databases
          KeyLists,    \* key arguments of a blocking pop
          Lefts,       \* TRUE: LPUSH and BLPOP are issued; FALSE: RPUSH and BRPOP
          MaxPops      \* bound: blocking pops issued

ASSUME KeyListsAssumption == KeyLists \subseteq Seq(Keys) \ {<<>>}
ASSUME LeftsAssumption == Lefts \subseteq BOOLEAN
ASSUME BoundAssumption == MaxPushes \in Nat /\ MaxPops \in Nat

VARIABLES
    list,        \* list[d][k]: the list
    waiters,     \* BlockRegistry::waiters, by key: client and Notify id
    pusher,      \* pusher[e]: where the connection pushing e is
    phase,       \* where a client is
    req,         \* its pop: id, keys, database, direction, timeout
    idx,         \* the key it looks at next
    woken,       \* its Notified future has been completed
    delivered,   \* history: elements answered to each client
    missed,      \* history: a notification went by before the client parked
    gone,        \* the client's end of the socket is dead
    wasted,      \* history: elements popped for a client that was gone
    pops         \* BlockRegistry::next_id; here every blocking pop takes one

socketVars == <<gone, wasted>>
clientVars == <<phase, req, idx, woken, delivered, missed, socketVars, pops>>
vars == <<list, waiters, pusher, phase, req, idx, woken, delivered, missed,
          gone, wasted, pops>>

\* The elements, numbered in the order in which their pushes begin.
Elements == 1 .. MaxPushes

Timeouts == {"zero", "finite", "negative"}
NoReq == [id |-> 0, keys |-> <<>>, db |-> 0, left |-> TRUE, timeout |-> "zero"]
Pusher(at, k, wake) == [at |-> at, key |-> k, wake |-> wake]

Init ==
    /\ list = [d \in Dbs |-> [k \in Keys |-> <<>>]]
    /\ waiters = [k \in Keys |-> {}]
    /\ pusher = [e \in Elements |-> Pusher("todo", "", {})]
    /\ phase = [c \in Clients |-> "idle"]
    /\ req = [c \in Clients |-> NoReq]
    /\ idx = [c \in Clients |-> 1]
    /\ woken = [c \in Clients |-> FALSE]
    /\ delivered = [c \in Clients |-> <<>>]
    /\ missed = [c \in Clients |-> FALSE]
    /\ gone = [c \in Clients |-> FALSE]
    /\ wasted = [c \in Clients |-> <<>>]
    /\ pops = 0

-----------------------------------------------------------------------------
(* Pushing: the element, then the registry, then the waiters one by one. *)

\* lpush / rpush: the entry is dropped before the registry is touched.
push(e, d, k, left) ==
    /\ pusher[e].at = "todo" /\ \A o \in 1 .. e - 1 : pusher[o].at # "todo"
    /\ list' = [list EXCEPT ![d][k] = IF left THEN <<e>> \o @ ELSE Append(@, e)]
    /\ pusher' = [pusher EXCEPT ![e] = Pusher("notify", k, {})]
    /\ UNCHANGED <<waiters, clientVars>>

Parked(c) == phase[c] = "parked"

\* Between the first look at its keys and its registration, a client is in no
\* waiter list.
Unlisted(c, k) == phase[c] \in {"try", "register"} /\ k \in Range(req[c].keys)

\* Mutant: one waiter of the key is woken, all are forgotten.
notify_one(e) ==
    /\ pusher[e].at = "notify"
    /\ LET k == pusher[e].key
           first == IF waiters[k] = {} THEN {} ELSE {CHOOSE w \in waiters[k] : TRUE}
       IN  /\ pusher' = [pusher EXCEPT ![e] = Pusher("wake", k, first)]
           /\ waiters' = [waiters EXCEPT ![k] = {}]
           /\ missed' = [c \in Clients |-> missed[c] \/ Unlisted(c, k)]
    /\ UNCHANGED <<list, phase, req, idx, woken, delivered, socketVars, pops>>

\* BlockRegistry::notify: take and clear the waiters of the key, in whatever
\* database they wait.
notify(e) ==
    /\ pusher[e].at = "notify"
    /\ LET k == pusher[e].key
       IN  /\ pusher' = [pusher EXCEPT ![e] = Pusher("wake", k, waiters[k])]
           /\ waiters' = [waiters EXCEPT ![k] = {}]
           /\ missed' = [c \in Clients |-> missed[c] \/ Unlisted(c, k)]
    /\ UNCHANGED <<list, phase, req, idx, woken, delivered, socketVars, pops>>

\* notify_waiters() on one of the collected Notify objects: it completes the
\* future that awaits this object, if there is one.
notify_waiters(e) ==
    /\ pusher[e].at = "wake"
    /\ \E w \in pusher[e].wake :
          /\ pusher' = [pusher EXCEPT ![e].wake = @ \ {w}]
          /\ woken' = [woken EXCEPT ![w.client] =
                           @ \/ (Parked(w.client) /\ req[w.client].id = w.id)]
          /\ missed' = [missed EXCEPT ![w.client] =
                           @ \/ (phase[w.client] = "registered" /\ req[w.client].id = w.id)]
    /\ UNCHANGED <<list, waiters, phase, req, idx, delivered, socketVars, pops>>

\* The push is answered.
pushed(e) ==
    /\ pusher[e].at = "wake" /\ pusher[e].wake = {}
    /\ pusher' = [pusher EXCEPT ![e] = Pusher("done", "", {})]
    /\ UNCHANGED <<list, waiters, clientVars>>

-----------------------------------------------------------------------------
(* Popping. *)

\* Mutant: pop_front answers the element and leaves it for the next reader.
PopRestPeek(s, left) == s

PopRest(s, left) == IF left THEN Tail(s) ELSE Front(s)
PopElement(s, left) == IF left THEN Head(s) ELSE Last(s)

\* The list client c looks at next.
Source(c) == list[req[c].db][req[c].keys[idx[c]]]

Waiter(c) == [client |-> c, id |-> req[c].id]

Answer(c) == /\ phase' = [phase EXCEPT ![c] = "idle"]
             /\ idx' = [idx EXCEPT ![c] = 1]
             /\ req' = [req EXCEPT ![c] = NoReq]
             /\ woken' = [woken EXCEPT ![c] = FALSE]
             /\ missed' = [missed EXCEPT ![c] = FALSE]

Goto(c, p) == /\ phase' = [phase EXCEPT ![c] = p]
              /\ idx' = [idx EXCEPT ![c] = 1]

\* The element is out of the list when write_all finds the socket dead.
HandOver(c, e) ==
    IF gone[c] THEN wasted' = [wasted EXCEPT ![c] = Append(@, e)] /\ UNCHANGED delivered
               ELSE delivered' = [delivered EXCEPT ![c] = Append(@, e)] /\ UNCHANGED wasted

\* lpop_one / rpop_one on the next key; found: answer, not found: go on.
TryPop(c) ==
    IF Source(c) # <<>>
    THEN /\ list' = [list EXCEPT ![req[c].db][req[c].keys[idx[c]]] =
                                     PopRest(@, req[c].left)]
         /\ HandOver(c, PopElement(Source(c), req[c].left))
         /\ Answer(c)
    ELSE /\ idx' = [idx EXCEPT ![c] = @ + 1]
         /\ UNCHANGED <<list, delivered, wasted, phase, req, woken, missed>>

KeysLeft(c) == idx[c] <= Len(req[c].keys)

blpop(c, ks, d, left, timeout) ==
    /\ phase[c] = "idle" /\ ~ gone[c] /\ pops < MaxPops
    /\ pops' = pops + 1
    /\ req' = [req EXCEPT ![c] = [id |-> pops + 1, keys |-> ks, db |-> d,
                                  left |-> left, timeout |-> timeout]]
    /\ Goto(c, "try")
    /\ UNCHANGED <<list, waiters, pusher, woken, missed, delivered, socketVars>>

blpop_try(c) ==
    /\ phase[c] = "try" /\ KeysLeft(c)
    /\ TryPop(c)
    /\ UNCHANGED <<waiters, pusher, gone, pops>>

\* Nothing found: timeout 0 answers nil, any other sets block_state.
blpop_block(c) ==
    /\ phase[c] = "try" /\ ~ KeysLeft(c)
    /\ IF req[c].timeout = "zero"
       THEN Answer(c)
       ELSE Goto(c, "register") /\ UNCHANGED <<req, woken, missed>>
    /\ UNCHANGED <<list, waiters, pusher, delivered, socketVars, pops>>

\* One step for the loop over the keys: a notify that falls between two keys
\* commutes with the part of the loop it does not touch.
register(c) ==
    /\ phase[c] = "register"
    /\ waiters' = [k \in Keys |-> IF k \in Range(req[c].keys)
                                  THEN waiters[k] \cup {Waiter(c)} ELSE waiters[k]]
    /\ Goto(c, "registered")
    /\ UNCHANGED <<list, pusher, req, woken, missed, delivered, socketVars, pops>>

\* notify.notified(): only from here on can a wake-up reach the client.
park(c) ==
    /\ phase[c] = "registered"
    /\ Goto(c, "parked")
    /\ UNCHANGED <<list, waiters, pusher, req, woken, missed, delivered, socketVars, pops>>

\* Mutant: only the first key is unregistered.
UnregisteredFirst(c) ==
    [waiters EXCEPT ![Head(req[c].keys)] = @ \ {Waiter(c)}]

Unregistered(c) ==
    [k \in Keys |-> IF k \in Range(req[c].keys) THEN waiters[k] \ {Waiter(c)}
                                              ELSE waiters[k]]

\* select!, then unregister: the future won.
wake(c) ==
    /\ Parked(c) /\ woken[c]
    /\ waiters' = Unregistered(c)
    /\ Goto(c, "unblock")
    /\ UNCHANGED <<list, pusher, req, woken, missed, delivered, socketVars, pops>>

\* Mutant: the timer only counts while the client has not been notified of
\* anything and some list has data.
expire_if_data(c) ==
    /\ Parked(c) /\ req[c].timeout = "finite"
    /\ \E k \in Range(req[c].keys) : list[req[c].db][k] # <<>>
    /\ waiters' = Unregistered(c)
    /\ Answer(c)
    /\ UNCHANGED <<list, pusher, delivered, socketVars, pops>>

\* select!, then unregister: the timer won, and the answer is empty.  A
\* negative timeout becomes a sleep of centuries.
expire(c) ==
    /\ Parked(c) /\ req[c].timeout = "finite"
    /\ waiters' = Unregistered(c)
    /\ Answer(c)
    /\ UNCHANGED <<list, pusher, delivered, socketVars, pops>>

unblock_pop(c) ==
    /\ phase[c] = "unblock" /\ KeysLeft(c)
    /\ TryPop(c)
    /\ UNCHANGED <<waiters, pusher, gone, pops>>

\* Someone else was faster, or the push was in another database.
unblock_empty(c) ==
    /\ phase[c] = "unblock" /\ ~ KeysLeft(c)
    /\ Answer(c)
    /\ UNCHANGED <<list, waiters, pusher, delivered, socketVars, pops>>

\* The client dies while it waits.  Its task awaits the future and the timer
\* only; it learns of it when it writes the answer, and ends.  Bound: one client.
vanish(c) ==
    /\ Parked(c) /\ \A o \in Clients : ~ gone[o]
    /\ gone' = [gone EXCEPT ![c] = TRUE]
    /\ UNCHANGED <<list, waiters, pusher, phase, req, idx, woken, delivered, missed, wasted, pops>>

-----------------------------------------------------------------------------

PushStep(e) == notify(e) \/ notify_waiters(e) \/ pushed(e)

PopStep(c) ==
    \/ blpop_try(c) \/ blpop_block(c) \/ register(c) \/ park(c)
    \/ wake(c) \/ expire(c) \/ unblock_pop(c) \/ unblock_empty(c)

Next ==
    \/ \E e \in Elements, d \in Dbs, k \in Keys, left \in Lefts : push(e, d, k, left)
    \/ \E e \in Elements : PushStep(e)
    \/ \E c \in Clients, ks \in KeyLists, d \in Dbs, left \in Lefts, t \in Timeouts :
           blpop(c, ks, d, left, t)
    \/ \E c \in Clients : PopStep(c) \/ vanish(c)

Spec == Init /\ [][Next]_vars

\* A request being executed goes on, a completed future and an elapsed timer
\* resume the task that awaits them.  Nothing obliges anyone to send a request.
Fairness ==
    /\ \A e \in Elements : WF_vars(PushStep(e))
    /\ \A c \in Clients : WF_vars(PopStep(c))

FairSpec == Spec /\ Fairness

-----------------------------------------------------------------------------
(* Properties. *)

\* Where elements are: in the lists, and in what clients were answered.
ListPlaces == [db : Dbs, key : Keys]
ClientPlaces == [client : Clients, got : BOOLEAN]

InList(p) == list[p.db][p.key]
WithClient(p) == IF p.got THEN delivered[p.client] ELSE wasted[p.client]

Indices(s, e) == {i \in DOMAIN s : s[i] = e}

\* The places and positions of an element.
Spots(e) ==
    (UNION {{p} \X Indices(InList(p), e) : p \in ListPlaces})
      \cup (UNION {{p} \X Indices(WithClient(p), e) : p \in ClientPlaces})

\* Every pushed element is in exactly one place, in a list or with the one
\* client it was answered to, whatever pops, wake-ups and timeouts race for it;
\* a client that died while it waited takes one element with it and no more
\* (lpop_one, rpop_one, unblock_pop, connection.rs 230-236).
EachElementOnce ==
    /\ \A e \in Elements : Cardinality(Spots(e)) = IF pusher[e].at = "todo" THEN 0 ELSE 1
    /\ \A c \in Clients : Len(wasted[c]) <= IF gone[c] THEN 1 ELSE 0

\* A connection that is not waiting is in no waiter list: neither a wake-up nor
\* a timeout leaves a registration behind for a later push to find
\* (register, unregister, notify).
NoStaleWaiter ==
    \A k \in Keys : \A w \in waiters[k] :
        /\ phase[w.client] \in {"registered", "parked"}
        /\ w.id = req[w.client].id /\ k \in Range(req[w.client].keys)

\* A blocking pop with a positive timeout is always answered in the end,
\* whether its wake-up was lost or not.
FinitePopIsAnswered ==
    \A c \in Clients :
        (phase[c] # "idle" /\ req[c].timeout = "finite") ~> (phase[c] = "idle")

\* README.md:70-73, "the notify fires, the blocked connection wakes up, pops the
\* value, and responds": when no push is under way, a parked client whose key
\* has data is on its way out, unless a notification went by after it had looked
\* at its keys and before its Notified future existed.  That window is the only
\* one in which a wake-up can be lost (blpop, connection.rs 213-222, notify).
OnlyWindowLosesWakeups ==
    \A c \in Clients :
        /\ Parked(c) /\ ~ woken[c]
        /\ \E k \in Range(req[c].keys) : list[req[c].db][k] # <<>>
        /\ \A e \in Elements : pusher[e].at \in {"todo", "done"}
        => missed[c]
=============================================================================
