------------------------------ MODULE Eviction ------------------------------
(***************************************************************************)
(* maxmemory: the memory cycle (src/server.rs, start_memory_cycle_task),   *)
(* the usage estimate and the eviction loop (src/store/memory.rs,          *)
(* estimated_memory, refresh_memory_usage, evict_until_under) and the      *)
(* dispatcher's check of the cached estimate (src/cmd/mod.rs, dispatch).   *)
(*                                                                         *)
(* A key is in one database and has a size, overhead included.  The scan   *)
(* visits one database after the other, and a candidate is chosen, and     *)
(* then removed, while connections go on writing and deleting.             *)
(***************************************************************************)
EXTENDS Integers, FiniteSets, FiniteSetsExt

CONSTANTS NumDbs,       \* databases
          Keys,
          Sizes,        \* sizes of an entry
          Policies,     \* values of maxmemory-policy the server may be started with
          Limit,        \* maxmemory, not 0
          WriteOps,     \* what connections do: "write", "del", "persist"
          MaxWrites     \* bound: writes and deletes issued

ASSUME SizesAssumption == Sizes \subseteq Nat \ {0} /\ IsFiniteSet(Sizes)
ASSUME PoliciesAssumption == Policies \subseteq {"noeviction", "allkeys-random", "volatile-random"}
ASSUME LimitAssumption == Limit \in Nat \ {0} /\ MaxWrites \in Nat
ASSUME DbsAssumption == NumDbs \in Nat \ {0}

VARIABLES
    policy,   \* eviction_policy, set when the server starts
    db,       \* db[d][k]: size, 0 if there is no entry, and whether it has a TTL
    cached,   \* cached_memory_usage
    cycle,    \* the memory cycle: where it is, its database, its counts
    writes,   \* writes issued
    quiet     \* history: nobody has written since the eviction was begun

vars == <<policy, db, cached, cycle, writes, quiet>>

Dbs == 0 .. NumDbs - 1
NoEntry == [size |-> 0, ttl |-> FALSE]
Sleeping == [at |-> "sleep", d |-> 0, usage |-> 0, progressed |-> FALSE, key |-> "", size |-> 0]

Init ==
    /\ policy \in Policies
    /\ db \in [Dbs -> [Keys -> {NoEntry} \cup [size : Sizes, ttl : BOOLEAN]]]
    /\ cached = 0
    /\ cycle = Sleeping
    /\ writes = 0
    /\ quiet = FALSE

UsageOf(d) == MapThenSumSet(LAMBDA k : db[d][k].size, Keys)
Total == MapThenSumSet(UsageOf, Dbs)
LastDb == NumDbs - 1

-----------------------------------------------------------------------------
(* Connections. *)

over_memory_limit == cached > Limit

\* dispatch refuses a command that may grow memory.
Refused == over_memory_limit /\ policy = "noeviction"

Request(op) == op \in WriteOps /\ writes < MaxWrites /\ writes' = writes + 1 /\ quiet' = FALSE

write(d, k, size, ttl) ==
    /\ Request("write") /\ ~ Refused
    /\ db' = [db EXCEPT ![d][k] = [size |-> size, ttl |-> ttl]]
    /\ UNCHANGED <<policy, cached, cycle>>

del(d, k) ==
    /\ Request("del") /\ db[d][k].size # 0
    /\ db' = [db EXCEPT ![d][k] = NoEntry]
    /\ UNCHANGED <<policy, cached, cycle>>

persist(d, k) ==
    /\ Request("persist") /\ db[d][k].size # 0
    /\ db' = [db EXCEPT ![d][k].ttl = FALSE]
    /\ UNCHANGED <<policy, cached, cycle>>

-----------------------------------------------------------------------------
(* The cycle. *)

\* The interval has passed: the scan begins.
wake ==
    /\ cycle.at = "sleep"
    /\ cycle' = [Sleeping EXCEPT !.at = "refresh"]
    /\ UNCHANGED <<policy, db, cached, writes, quiet>>

\* estimated_memory, one database: for refresh_memory_usage, and a second time
\* at the start of evict_until_under.
scan ==
    /\ cycle.at \in {"refresh", "estimate"} /\ cycle.d <= LastDb
    /\ cycle' = [cycle EXCEPT !.usage = @ + UsageOf(cycle.d), !.d = @ + 1]
    /\ UNCHANGED <<policy, db, cached, writes, quiet>>

\* Mutant: the cached estimate only ever grows.
refresh_memory_usage_max ==
    /\ cycle.at = "refresh" /\ cycle.d > LastDb
    /\ cached' = Max({cached, cycle.usage})
    /\ cycle' = IF cycle.usage > Limit /\ policy # "noeviction"
                THEN [Sleeping EXCEPT !.at = "estimate"] ELSE Sleeping
    /\ quiet' = TRUE
    /\ UNCHANGED <<policy, db, writes>>

\* The cached estimate is stored; over the limit, eviction begins.
refresh_memory_usage ==
    /\ cycle.at = "refresh" /\ cycle.d > LastDb
    /\ cached' = cycle.usage
    /\ cycle' = IF cycle.usage > Limit /\ policy # "noeviction"
                THEN [Sleeping EXCEPT !.at = "estimate"] ELSE Sleeping
    /\ quiet' = TRUE
    /\ UNCHANGED <<policy, db, writes>>

\* Mutant: the loop goes on without progress.
EndsNever == FALSE

\* A round over the databases is over without progress.
EndsFutile == cycle.d > LastDb /\ ~ cycle.progressed

evict_round ==
    /\ \/ cycle.at = "estimate" /\ cycle.d > LastDb
       \/ cycle.at = "evict" /\ cycle.d > LastDb /\ ~ EndsFutile
    /\ cycle.usage > Limit
    /\ cycle' = [cycle EXCEPT !.at = "evict", !.d = 0, !.progressed = FALSE]
    /\ UNCHANGED <<policy, db, cached, writes, quiet>>

Candidates(d) ==
    {k \in Keys : db[d][k].size # 0 /\ (policy = "volatile-random" => db[d][k].ttl)}

\* The candidate of one database, copied out of the map with its size.
evict_choose ==
    /\ cycle.at = "evict" /\ cycle.d <= LastDb /\ cycle.usage > Limit
    /\ \/ \E k \in Candidates(cycle.d) :
             cycle' = [cycle EXCEPT !.at = "remove", !.key = k, !.size = db[cycle.d][k].size]
       \/ /\ Candidates(cycle.d) = {}
          /\ cycle' = [cycle EXCEPT !.d = @ + 1]
    /\ UNCHANGED <<policy, db, cached, writes, quiet>>

\* Mutant: the size of the entry is not taken off.
SubtractedNot(usage, size) == usage

\* saturating_sub
Subtracted(usage, size) == IF usage > size THEN usage - size ELSE 0

\* It is removed, whatever it is by now; if it has gone nothing is counted.
evict_remove ==
    /\ cycle.at = "remove"
    /\ LET gone == db[cycle.d][cycle.key].size = 0
       IN  /\ db' = [db EXCEPT ![cycle.d][cycle.key] = NoEntry]
           /\ cycle' = [cycle EXCEPT !.at = "evict", !.d = @ + 1, !.key = "", !.size = 0,
                           !.usage = IF gone THEN @ ELSE Subtracted(@, cycle.size),
                           !.progressed = @ \/ ~ gone]
    /\ UNCHANGED <<policy, cached, writes, quiet>>

\* Under the limit, or a round brought nothing.
evict_done ==
    /\ \/ cycle.at = "estimate" /\ cycle.d > LastDb /\ cycle.usage <= Limit
       \/ cycle.at = "evict" /\ (cycle.usage <= Limit \/ EndsFutile)
    /\ cached' = cycle.usage
    /\ cycle' = Sleeping
    /\ UNCHANGED <<policy, db, writes, quiet>>

CycleStep == scan \/ refresh_memory_usage \/ evict_round \/ evict_choose \/ evict_remove \/ evict_done

Next ==
    \/ \E d \in Dbs, k \in Keys : \/ \E s \in Sizes, t \in BOOLEAN : write(d, k, s, t)
                                  \/ del(d, k) \/ persist(d, k)
    \/ wake
    \/ CycleStep

Spec == Init /\ [][Next]_vars

\* The task sleeps for its interval and then runs.
FairSpec == Spec /\ WF_vars(wake) /\ WF_vars(CycleStep)

-----------------------------------------------------------------------------
(* Properties. *)

TypeOK ==
    /\ \A d \in Dbs, k \in Keys : db[d][k].size \in Sizes \cup {0} /\ db[d][k].ttl \in BOOLEAN
    /\ policy \in Policies /\ cached \in Nat /\ writes \in 0 .. MaxWrites
    /\ cycle.at \in {"sleep", "refresh", "estimate", "evict", "remove"}
    /\ cycle.d \in 0 .. LastDb + 1 /\ cycle.usage \in Nat
    /\ cycle.at = "remove" <=> cycle.size # 0

Done == cycle.at # "sleep" /\ cycle'.at = "sleep"

\* Left alone, an eviction takes only what it needs and all it can: it removes
\* an entry only while what is really stored is over the limit, and it ends only
\* when that fits or no candidate is left; the cached estimate is then exact,
\* nothing the loop subtracts differs from what it removed (evict_until_under).
QuietEvictionIsExact ==
    [][quiet =>
          /\ cycle.at = "remove" /\ db' # db => Total > Limit
          /\ Done /\ cycle.at # "refresh"
                => /\ cached' = Total
                   /\ Total <= Limit \/ \A d \in Dbs : Candidates(d) = {}]_vars

\* A full cycle always comes to its end, however connections write and delete
\* under it, and another one follows.
CycleRepeats == []<>(cycle.at = "sleep") /\ []<>(cycle.at # "sleep")

\* Writes are not refused for ever once what is stored fits the limit again: a
\* scan that ran across the deletes is followed by one that did not (dispatch,
\* cmd/mod.rs 62-67, against refresh_memory_usage).
RefusalEnds == (Refused /\ Total <= Limit) ~> ~ Refused
=============================================================================
