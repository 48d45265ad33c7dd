------------------------------- MODULE PubSub -------------------------------
(***************************************************************************)
(* PubSubRegistry (src/store/memory.rs, lines 222-290) and the pattern     *)
(* match it uses (simple_match, lines 1671-1684).                          *)
(*                                                                         *)
(* A channel's senders are a vector in a DashMap entry.  PUBLISH sends     *)
(* under the entry's read lock, which other publishers may hold as well,   *)
(* notes the indices of the senders that have lost their receiver, and     *)
(* removes these indices under the write lock.  Patterns are not cleaned   *)
(* up.  Connection.tla has the commands that use the registry.             *)
(***************************************************************************)
EXTENDS Integers, Sequences, SequencesExt

CONSTANTS Channels    \* channel names: sequences of characters

VARIABLES
    channels,    \* the vector of senders of every channel
    patterns     \* set of <<pattern, sender>>: vectors whose order nobody sees

registryVars == <<channels, patterns>>

InitRegistry ==
    /\ channels = [ch \in Channels |-> <<>>]
    /\ patterns = {}

-----------------------------------------------------------------------------
(* Subscribing. *)

\* The j-th smallest of a set of positions.
Nth(S, j) == CHOOSE i \in S : Cardinality({k \in S : k <= i}) = j

\* What a sequence has at some of its positions, in their order.
Picked(s, S) == [j \in 1 .. Cardinality(S) |-> s[Nth(S, j)]]

\* subscribe_channel for every name in turn; txs[i] is the sender made for it.
WithSenders(names, txs) ==
    [ch \in Channels |-> channels[ch] \o Picked(txs, {i \in DOMAIN names : names[i] = ch})]

subscribe_channel(names, txs) ==
    /\ channels' = WithSenders(names, txs)
    /\ UNCHANGED patterns

subscribe_pattern(names, txs) ==
    /\ patterns' = patterns \cup {<<names[i], txs[i]>> : i \in DOMAIN names}
    /\ UNCHANGED channels

-----------------------------------------------------------------------------
(* PUBLISH on a channel. *)

\* The indices whose send fails, given the senders that have a receiver.
Dead(ch, alive) == {i \in DOMAIN channels[ch] : channels[ch][i] \notin alive}

\* What is left of a vector when some of its positions are removed.
Without(s, gone) == Picked(s, DOMAIN s \ gone)

\* Mutant: the noted indices are removed first one first, so that each removal
\* shifts the positions of those that follow.
RemovedForward(s, dead) ==
    Without(s, {i + Cardinality({j \in dead : j < i}) : i \in dead})

\* Vec::remove of the noted indices, the last one first.
Removed(s, dead) == Without(s, dead)

\* Vec::remove panics behind the end; the last index is tried first.
RemovalPanics(s, dead) == ~ (dead \subseteq DOMAIN s)

remove_dead(ch, dead) ==
    /\ channels' = [channels EXCEPT ![ch] = Removed(@, dead)]
    /\ UNCHANGED patterns

-----------------------------------------------------------------------------
(* PUBLISH to patterns. *)

\* Mutant: without going back to the last star.
simple_match_greedy(s, p) ==
    LET Loop[si \in 1 .. Len(s) + 1, pi \in 1 .. Len(p) + 1] ==
            IF si > Len(s) THEN \A k \in pi .. Len(p) : p[k] = "*"
            ELSE IF pi <= Len(p) /\ p[pi] \in {"?", s[si]} THEN Loop[si + 1, pi + 1]
            ELSE pi <= Len(p) /\ p[pi] = "*" /\ (Loop[si, pi + 1] \/ pi = Len(p))
    IN  Loop[1, 1]

\* The loop of simple_match.  A character of the pattern that equals the one of
\* the name is taken literally before it is looked at as a star.
simple_match(s, p) ==
    LET Loop[si \in 1 .. Len(s) + 1, pi \in 1 .. Len(p) + 1,
             star \in 0 .. Len(p), match_idx \in 0 .. Len(s) + 1] ==
            IF si > Len(s) THEN \A k \in pi .. Len(p) : p[k] = "*"
            ELSE IF pi <= Len(p) /\ p[pi] \in {"?", s[si]}
                 THEN Loop[si + 1, pi + 1, star, match_idx]
            ELSE IF pi <= Len(p) /\ p[pi] = "*" THEN Loop[si, pi + 1, pi, si]
            ELSE star # 0 /\ Loop[match_idx + 1, star + 1, star, match_idx + 1]
    IN  Loop[1, 1, 0, 0]

\* publish_patterns: the senders it clones and sends to, dead ones included.
Reached(ch) == {x \in patterns : simple_match(ch, x[1])}

\* The reference: a pattern as a language.
Glob(s, p) ==
    LET From[i \in 1 .. Len(s) + 1, j \in 1 .. Len(p) + 1] ==
            IF j > Len(p) THEN i > Len(s)
            ELSE IF p[j] = "*" THEN \E k \in i .. Len(s) + 1 : From[k, j + 1]
            ELSE i <= Len(s) /\ p[j] \in {"?", s[i]} /\ From[i + 1, j + 1]
    IN  From[1, 1]
=============================================================================
