-------------------------------- MODULE Scan --------------------------------
(***************************************************************************)
(* SCAN: scan_keys and its registry of cursors (src/store/memory.rs).      *)
(*                                                                         *)
(* Keys are numbers, compared as the code compares byte strings.  One call *)
(* takes up to five steps that no lock joins: the page is collected, the   *)
(* registry is measured, emptied if it was full, the new cursor is         *)
(* inserted, and the keys that have gone or expired meanwhile are filtered *)
(* out.  (The map's own iterations, len() and clear() are one step each: a *)
(* key or cursor that comes or goes while one runs is met or missed, as if *)
(* it had come or gone just before or after.)                              *)
(* A scan is a client's sequence of calls from cursor 0 to cursor 0; a     *)
(* client may also give up half-way, which leaves its cursor in the        *)
(* registry.                                                               *)
(***************************************************************************)
EXTENDS Integers, Sequences, FiniteSets, FiniteSetsExt, Functions

CONSTANTS Clients,
          Keys,          \* a set of numbers
          MaxCursors,    \* MAX_SCAN_CURSORS
          Counts,        \* COUNT arguments
          MaxCalls,      \* bound: SCAN calls
          MaxEdits,      \* bound: keys added, removed or expired
          MaxAbandons    \* bound: scans given up

ASSUME KeysAssumption == Keys \subseteq Nat /\ IsFiniteSet(Keys)
ASSUME CursorsAssumption == MaxCursors \in Nat \ {0}
ASSUME CountsAssumption == Counts \subseteq Nat
ASSUME BoundAssumption == {MaxCalls, MaxEdits, MaxAbandons} \subseteq Nat

VARIABLES
    db,           \* db[k]: "absent", "live" or "expired" (still in the map)
    cursors,      \* scan_cursors: token -> last key returned
    next_token,   \* next_scan_cursor
    scan,         \* the scan of each client
    edits, abandons

vars == <<db, cursors, next_token, scan, edits, abandons>>

\* at: "idle" between scans, "ready" between calls, "page", "clear", "insert"
\* and "filter" inside one.  got counts how often each key was returned; stable
\* are the keys live for the whole scan so far; evicted says that the registry
\* was emptied while it held the scan's cursor.
NoScan == [at |-> "idle", cursor |-> 0, page |-> {}, more |-> FALSE,
           got |-> [k \in Keys |-> 0], stable |-> {}, evicted |-> FALSE, done |-> FALSE]

Live == {k \in Keys : db[k] = "live"}

Init ==
    /\ db \in [Keys -> {"absent", "live"}]
    /\ cursors = [t \in {} |-> 0]
    /\ next_token = 1
    /\ scan = [c \in Clients |-> NoScan]
    /\ edits = 0 /\ abandons = 0

-----------------------------------------------------------------------------

\* A client begins a scan with cursor 0, its former one ended or given up.
begin(c) ==
    /\ scan[c].at = "idle"
    /\ scan' = [scan EXCEPT ![c] = [NoScan EXCEPT !.at = "ready", !.stable = Live]]
    /\ UNCHANGED <<db, cursors, next_token, edits, abandons>>

Smallest(S, n) == {k \in S : Cardinality({j \in S : j < k}) < n}

\* Mutant: the comparison with the cursor's key is not strict.
AfterInclusive(start) == {k \in Keys : db[k] # "absent" /\ k >= start}

\* The keys in the map above the cursor's key, expired ones included.
After(start) == {k \in Keys : db[k] # "absent" /\ k > start}

FirstKey == -1    \* cursor 0: no lower bound

Page(start, count) == Smallest(After(start), Max({count, 1}))

\* Mutant: has_more is taken after the truncation.
HasMoreTruncated(start, count) == Cardinality(Page(start, count)) > Max({count, 1})

\* has_more, taken before the keys are truncated to the page.
HasMore(start, count) == Page(start, count) # After(start)

\* The cursor is taken out of the registry and the page is collected.
scan_keys(c, count) ==
    /\ scan[c].at = "ready" /\ next_token <= MaxCalls
    /\ scan[c].cursor = 0 \/ scan[c].cursor \in DOMAIN cursors
    /\ LET start == IF scan[c].cursor = 0 THEN FirstKey ELSE cursors[scan[c].cursor]
       IN  scan' = [scan EXCEPT ![c].at = "page",
                                ![c].page = Page(start, count),
                                ![c].more = HasMore(start, count)]
    /\ cursors' = Restrict(cursors, DOMAIN cursors \ {scan[c].cursor})
    /\ UNCHANGED <<db, next_token, edits, abandons>>

\* A cursor that is not in the registry ends the scan with an empty page.
scan_unknown(c) ==
    /\ scan[c].at = "ready" /\ scan[c].cursor # 0
    /\ scan[c].cursor \notin DOMAIN cursors
    /\ scan' = [scan EXCEPT ![c].at = "idle", ![c].done = TRUE]
    /\ UNCHANGED <<db, cursors, next_token, edits, abandons>>

Full == Cardinality(DOMAIN cursors) >= MaxCursors

\* The crude bound: the registry is measured ...
scan_len(c) ==
    /\ scan[c].at = "page" /\ scan[c].more
    /\ scan' = [scan EXCEPT ![c].at = IF Full THEN "clear" ELSE "insert"]
    /\ UNCHANGED <<db, cursors, next_token, edits, abandons>>

\* ... and emptied by every caller that found it full, whatever it holds by then.
scan_clear(c) ==
    /\ scan[c].at = "clear"
    /\ cursors' = [t \in {} |-> 0]
    /\ scan' = [b \in Clients |->
                  [scan[b] EXCEPT !.at = IF b = c THEN "insert" ELSE @,
                                  !.evicted = @ \/ scan[b].cursor \in DOMAIN cursors]]
    /\ UNCHANGED <<db, next_token, edits, abandons>>

scan_insert(c) ==
    /\ scan[c].at = "insert"
    /\ cursors' = [t \in DOMAIN cursors \cup {next_token} |->
                      IF t = next_token THEN Max(scan[c].page) ELSE cursors[t]]
    /\ next_token' = next_token + 1
    /\ scan' = [scan EXCEPT ![c].at = "filter", ![c].cursor = next_token]
    /\ UNCHANGED <<db, edits, abandons>>

\* Nothing is left above the page: the answer will carry cursor 0.
scan_last(c) ==
    /\ scan[c].at = "page" /\ ~ scan[c].more
    /\ scan' = [scan EXCEPT ![c].at = "filter", ![c].cursor = 0]
    /\ UNCHANGED <<db, cursors, next_token, edits, abandons>>

\* The answer: the keys of the page that are still there and not expired.
scan_filter(c) ==
    /\ scan[c].at = "filter"
    /\ scan' = [scan EXCEPT
          ![c].got = [k \in Keys |-> @[k] + (IF k \in scan[c].page \cap Live THEN 1 ELSE 0)],
          ![c].at = IF scan[c].cursor = 0 THEN "idle" ELSE "ready",
          ![c].done = scan[c].cursor = 0]
    /\ UNCHANGED <<db, cursors, next_token, edits, abandons>>

\* The client gives up; nothing tells the server.
abandon(c) ==
    /\ scan[c].at = "ready" /\ scan[c].cursor # 0 /\ abandons < MaxAbandons
    /\ scan' = [scan EXCEPT ![c] = NoScan]
    /\ abandons' = abandons + 1
    /\ UNCHANGED <<db, cursors, next_token, edits>>

\* Someone writes, deletes, or the key's time comes.
edit(k, to) ==
    /\ edits < MaxEdits /\ db[k] # to
    /\ to = "expired" => db[k] = "live"
    /\ db' = [db EXCEPT ![k] = to]
    /\ scan' = [c \in Clients |-> [scan[c] EXCEPT !.stable = @ \ {k}]]
    /\ edits' = edits + 1
    /\ UNCHANGED <<cursors, next_token, abandons>>

Next ==
    \/ \E c \in Clients : \/ begin(c) \/ scan_unknown(c) \/ scan_len(c)
                          \/ scan_clear(c) \/ scan_insert(c) \/ scan_last(c) \/ scan_filter(c) \/ abandon(c)
                          \/ \E n \in Counts : scan_keys(c, n)
    \/ \E k \in Keys, to \in {"absent", "live", "expired"} : edit(k, to)

Spec == Init /\ [][Next]_vars

-----------------------------------------------------------------------------
(* Properties. *)

Scans == [at : {"idle", "ready", "page", "clear", "insert", "filter"}, cursor : Nat,
          page : SUBSET Keys, more : BOOLEAN, got : [Keys -> Nat], stable : SUBSET Keys, evicted : BOOLEAN, done : BOOLEAN]

TypeOK ==
    /\ db \in [Keys -> {"absent", "live", "expired"}]
    /\ next_token \in Nat \ {0}
    /\ DOMAIN cursors \subseteq 1 .. next_token - 1
    /\ cursors \in [DOMAIN cursors -> Keys]
    /\ scan \in [Clients -> Scans]

\* memory.rs:309-311: no scan returns a key twice, whatever is added, removed
\* or expires between and during its calls and whoever else scans.
NothingTwice == \A c \in Clients, k \in Keys : scan[c].got[k] <= 1

\* memory.rs:309-311, "every key present for the whole scan is returned exactly
\* once": a scan that was told it is complete has returned every key that was
\* live from its first call to its last, with one exception: the registry was
\* emptied while it held the scan's cursor (by a call that had found it full; it
\* need not be full any more).  Such a scan ends early without an error.
ScanIsComplete ==
    \A c \in Clients :
        scan[c].done /\ ~ scan[c].evicted => \A k \in scan[c].stable : scan[c].got[k] = 1
=============================================================================
