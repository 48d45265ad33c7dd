---------------------------- MODULE MCConnection ----------------------------
(***************************************************************************)
(* Connection for TLC: sets of scripts.  One client that sends every       *)
(* sequence of commands of a certain length; subscribers against two       *)
(* publishers; one pattern against one published name, for all short       *)
(* patterns and names; Lua scripts against changes of their cache.         *)
(***************************************************************************)
EXTENDS Connection

MCConns == {"a", "b", "c"}

Cmd(op, names) == [op |-> op, names |-> names]
Silent == <<>>
ch == <<"a">>

\* Names, patterns of up to three characters, and one name with a star.
Strings(chars, n) == UNION {[1 .. k -> chars] : k \in 1 .. n}
MCNames == Strings({"a", "b"}, 2) \cup {<<"a", "b", "a">>, <<"a", "a", "b">>}
MCChannels == MCNames \cup {<<"*", "a">>}
MCPatterns == Strings({"a", "*", "?"}, 3)

Subscribe == Cmd("subscribe", <<ch>>)
Unsubscribe == Cmd("unsubscribe", <<>>)

\* The commands that leave something in the context for the next, four of them.
StickyOps == {Subscribe, Unsubscribe} \cup {Cmd(op, <<>>) : op \in {"blpop", "set", "multi", "exec"}}

\* What else takes part in a change of mode, three of them.
CoreOps == StickyOps \cup {Cmd(op, <<>>) : op \in {"ping", "auth", "empty", "short", "punsubscribe"}}
                     \cup {Cmd("psubscribe", <<ch>>)}

\* Every command, two of them.
AllOps == CoreOps \cup {Cmd(op, <<>>) : op \in AuthOps \cup {"discard", "psync"}}
                  \cup {Cmd("unsubscribe", <<ch>>), Cmd("punsubscribe", <<ch>>)}
                  \cup {Cmd("eval", <<body>>) : body \in {"set", "blpop", "multi", "scriptflush"}}
                  \cup {Cmd("eval", <<"subscribe", ch>>)}

Alone(s) == [c \in MCConns |-> IF c = "a" THEN s ELSE <<>>]

OneClient == {Alone(s) : s \in [1 .. 2 -> AllOps] \cup [1 .. 3 -> CoreOps]}
LongClient == {Alone(s) : s \in [1 .. 4 -> StickyOps]}

\* A subscriber that leaves dead senders behind, and two publishers.
Subscribing == {<<Subscribe>>, <<Cmd("subscribe", <<ch, ch, ch>>)>>, <<Subscribe, Unsubscribe>>,
                <<Subscribe, Subscribe>>, <<Subscribe, Unsubscribe, Subscribe>>,
                <<Cmd("eval", <<"subscribe", ch>>), Subscribe>>}

Fanout == {[c \in MCConns |-> IF c = "a" THEN s ELSE <<Cmd("publish", <<ch>>)>>] : s \in Subscribing}

Matching == {[c \in MCConns |-> CASE c = "a" -> <<Cmd("psubscribe", <<p>>)>>
                                  [] c = "b" -> <<Cmd("publish", <<name>>)>>
                                  [] OTHER   -> <<>>] : p \in MCPatterns, name \in MCChannels}

\* One client loads and runs a script, another runs it or changes the cache.
CacheOps == {Cmd("scriptload", <<"set">>), Cmd("scriptflush", <<>>), Cmd("eval", <<"scriptflush">>),
             Cmd("evalsha", <<"set">>), Cmd("evalsha", <<"scriptflush">>)}
Scripted == {[c \in MCConns |-> CASE c = "a" -> <<Cmd("scriptload", <<body>>), Cmd("evalsha", <<body>>)>>
                                  [] c = "b" -> <<op, Cmd("ping", <<>>)>>
                                  [] OTHER   -> <<>>] :
                body \in {"set", "scriptflush"}, op \in CacheOps}

MCSetups == [requirepass : {FALSE},
             script : OneClient \cup LongClient \cup Fanout \cup Matching \cup Scripted]
            \cup [requirepass : {TRUE}, script : OneClient]
=============================================================================
