----------------------------- MODULE ScanProofs -----------------------------
(***************************************************************************)
(* Proofs about Scan, for any number of clients, any finite set of keys,   *)
(* any size of the registry and any number of calls: no scan returns a key *)
(* twice, and a scan whose cursor was not thrown out returns every key     *)
(* that was live all the time.                                             *)
(***************************************************************************)
EXTENDS Scan, FiniteSetTheorems, WellFoundedInduction, TLAPS

-----------------------------------------------------------------------------
(* The inductive invariant. *)

\* Tokens are given out once: two clients never hold the same cursor, and none
\* that is yet to be given out.
TokenInv ==
    /\ \A c \in Clients : scan[c].cursor < next_token
    /\ \A b, c \in Clients : scan[b].cursor = scan[c].cursor /\ b # c => scan[b].cursor = 0

\* The page on its way to the client.
OnItsWay(s) == IF s.at \in {"page", "clear", "insert", "filter"} THEN s.page ELSE {}

\* The scan s has returned, or is about to return, nothing above m and every
\* stable key up to m.
UpTo(s, m) ==
    \A k \in Keys : /\ k > m => s.got[k] = 0 /\ k \notin OnItsWay(s)
                    /\ k \in s.stable /\ k <= m => s.got[k] = 1 \/ k \in OnItsWay(s)

\* It has returned, or is about to return, every stable key.
Everything(s) == \A k \in s.stable : s.got[k] = 1 \/ k \in OnItsWay(s)

\* Keys on their way have not been returned before, and none more than once.
NoRepeat(s) == \A k \in Keys : s.got[k] <= 1 /\ (k \in OnItsWay(s) => s.got[k] = 0)

Between(s) == s.at \in {"ready", "filter"}

\* How far a scan is, in a registry f: its cursor's key or the end of its page tells, unless its
\* cursor is lost.
FarInv(s, f) ==
    /\ s.at = "ready" /\ s.cursor = 0 => UpTo(s, FirstKey)
    /\ Between(s) /\ s.cursor \in DOMAIN f => UpTo(s, f[s.cursor])
    /\ Between(s) /\ s.cursor \notin DOMAIN f => s.cursor = 0 \/ s.evicted
    /\ s.at \in {"clear", "insert"} \/ (s.at = "page" /\ s.more) => s.page # {} /\ UpTo(s, Max(s.page))
    /\ (s.at = "filter" /\ s.cursor = 0) \/ (s.at = "page" /\ ~ s.more) => Everything(s)

EndInv(s) == s.done => s.at = "idle" /\ (s.evicted \/ Everything(s))

\* A scan under way takes its keys for stable only while they are live.
StableInv(s, live) == s.at # "idle" => s.stable \subseteq live

ScanInv(s, f, live) == NoRepeat(s) /\ FarInv(s, f) /\ EndInv(s) /\ StableInv(s, live)

IInv == TypeOK /\ TokenInv /\ \A c \in Clients : ScanInv(scan[c], cursors, Live)

-----------------------------------------------------------------------------
(* Finite sets of numbers, and pages. *)

\* A nonempty set of natural numbers has a least element.
LEMMA LeastOf ==
    ASSUME NEW T \in SUBSET Nat, T # {}
    PROVE  \E x \in T : \A y \in T : x <= y
<1> DEFINE R == OpToRel(<, Nat)
<1>1. \A x, y \in Nat : x < y => <<x, y>> \in R
  BY DEF OpToRel
<1>2. IsWellFoundedOn(R, Nat)
  BY NatLessThanWellFounded, Zenon
<1> HIDE DEF R
<1>3. PICK x \in T : \A y \in T : ~ (<<y, x>> \in R)
  BY <1>2, WFMin, Zenon
<1>4. \A y \in T : ~ (y < x)
  BY <1>1, <1>3
<1> QED
  BY <1>4

\* A nonempty finite set of integers has a largest element: a smallest set
\* without one would have one.
LEMMA MostOf ==
    ASSUME NEW S \in SUBSET Int, IsFiniteSet(S), S # {}
    PROVE  \E x \in S : \A y \in S : y <= x
<1> DEFINE R == StrictSubsetOrdering(S)
           F == FiniteSubsetsOf(S)
           Bad == {U \in F : U # {} /\ ~ \E x \in U : \A y \in U : y <= x}
<1>1. IsWellFoundedOn(R, F)
  BY FS_StrictSubsetOrderingWellFounded, Zenon
<1>2. \A U, V \in F : U \subseteq V /\ U # V => <<U, V>> \in R
  BY DEF StrictSubsetOrdering, FiniteSubsetsOf
<1>3. \A U : U \in F <=> U \subseteq S /\ IsFiniteSet(U)
  BY DEF FiniteSubsetsOf
<1> SUFFICES ASSUME S \in Bad PROVE FALSE
  BY <1>3
<1> HIDE DEF R, F
<1>4. PICK U \in Bad : \A V \in Bad : ~ (<<V, U>> \in R)
  <2>1. Bad \subseteq F /\ Bad # {}
    OBVIOUS
  <2> QED
    BY <1>1, <2>1, WFMin, Zenon
<1>5. PICK u \in U : TRUE
  OBVIOUS
<1>6. U \ {u} \in F
  BY <1>3, FS_RemoveElement
<1>7. U \ {u} = {} \/ \E x \in U \ {u} : \A y \in U \ {u} : y <= x
  BY <1>2, <1>4, <1>6
<1>8. U \subseteq Int
  BY <1>3
<1> QED
  BY <1>5, <1>7, <1>8

\* Max of a set of keys is its largest key.
LEMMA MaxFacts ==
    ASSUME NEW S \in SUBSET Keys, S # {}
    PROVE  Max(S) \in S /\ \A k \in S : k <= Max(S)
<1>1. IsFiniteSet(S) /\ S \subseteq Nat
  BY KeysAssumption, FS_Subset
<1>2. S \in SUBSET Int
  BY <1>1
<1>3. \E x \in S : \A y \in S : x >= y
  <2>1. PICK x \in S : \A y \in S : y <= x
    BY <1>1, <1>2, MostOf
  <2>2. \A y \in S : x >= y
    BY <1>2, <2>1
  <2> QED
    BY <2>2
<1>4. Max(S) \in S /\ \A y \in S : Max(S) >= y
  BY <1>3 DEF Max
<1> QED
  BY <1>2, <1>4

\* COUNT 0 is COUNT 1.
LEMMA CountFacts == ASSUME NEW n \in Nat PROVE Max({n, 1}) \in Nat /\ Max({n, 1}) >= 1
<1>1. \E x \in {n, 1} : \A y \in {n, 1} : x >= y
  OBVIOUS
<1>2. Max({n, 1}) \in {n, 1} /\ \A y \in {n, 1} : Max({n, 1}) >= y
  BY <1>1 DEF Max
<1> QED
  BY <1>2

\* The smallest n of S are some if there are any, and with one of them all that
\* are smaller.
LEMMA SmallestFacts ==
    ASSUME NEW S \in SUBSET Keys, NEW n \in Nat, n >= 1
    PROVE  /\ Smallest(S, n) \subseteq S
           /\ S # {} => Smallest(S, n) # {}
           /\ \A k \in Smallest(S, n), j \in S : j <= k => j \in Smallest(S, n)
<1> DEFINE Under(k) == {j \in S : j < k}
<1>1. Smallest(S, n) = {k \in S : Cardinality(Under(k)) < n}
  BY DEF Smallest
<1>2. S \subseteq Nat /\ IsFiniteSet(S)
  BY KeysAssumption, FS_Subset
<1>3. \A k \in S : IsFiniteSet(Under(k)) /\ Cardinality(Under(k)) \in Nat
  <2> TAKE k \in S
  <2>1. Under(k) \in SUBSET S
    OBVIOUS
  <2>2. IsFiniteSet(Under(k))
    BY <1>2, <2>1, FS_Subset
  <2> QED
    BY <2>2, FS_CardinalityType
<1>4. S # {} => Smallest(S, n) # {}
  <2> SUFFICES ASSUME S # {} PROVE Smallest(S, n) # {}
    OBVIOUS
  <2>1. PICK x \in S : \A y \in S : x <= y
    BY <1>2, LeastOf
  <2>2. Under(x) = {}
    <3> SUFFICES ASSUME NEW y \in S, y < x PROVE FALSE
      OBVIOUS
    <3>1. x \in Nat /\ y \in Nat /\ x <= y
      BY <1>2, <2>1
    <3> QED
      BY <3>1
  <2>3. Cardinality(Under(x)) = 0
    BY <2>2, FS_EmptySet
  <2> QED
    BY <1>1, <2>3
<1>5. ASSUME NEW k \in Smallest(S, n), NEW j \in S, j <= k PROVE j \in Smallest(S, n)
  <2>1. k \in S /\ Cardinality(Under(k)) < n
    BY <1>1
  <2>2. Under(j) \in SUBSET Under(k)
    <3> SUFFICES ASSUME NEW i \in S, i < j PROVE i < k
      OBVIOUS
    <3>1. i \in Nat /\ j \in Nat /\ k \in Nat
      BY <1>2, <2>1
    <3> QED
      BY <1>5, <3>1
  <2>3. Cardinality(Under(j)) <= Cardinality(Under(k))
    BY <1>3, <2>1, <2>2, FS_Subset
  <2>4. Cardinality(Under(j)) < n
    BY <1>3, <2>1, <2>3
  <2> QED
    BY <1>1, <2>4
<1> QED
  BY <1>1, <1>4, <1>5

-----------------------------------------------------------------------------
(* What a step of one scan leaves alone. *)

\* A scan is as far as it was when its cursor is as it was.
LEMMA RegistryKeeps ==
    ASSUME NEW s, NEW f, NEW g, NEW live, ScanInv(s, f, live),
           s.cursor \in DOMAIN g <=> s.cursor \in DOMAIN f, s.cursor \in DOMAIN f => g[s.cursor] = f[s.cursor]
    PROVE  ScanInv(s, g, live)
BY DEF ScanInv, FarInv

\* A step of one client that keeps the other cursors, or gives out the next token.
LEMMA OneStep ==
    ASSUME IInv, NEW c \in Clients, NEW t \in Scans, scan' = [scan EXCEPT ![c] = t], db' = db,
           next_token' \in Nat \ {0}, next_token <= next_token',
           DOMAIN cursors' \subseteq 1 .. next_token' - 1, cursors' \in [DOMAIN cursors' -> Keys],
           t.cursor \in {0, scan[c].cursor} \/ (t.cursor = next_token /\ next_token' = next_token + 1),
           ScanInv(t, cursors', Live),
           \A x \in 1 .. next_token - 1 : x # scan[c].cursor =>
               /\ x \in DOMAIN cursors' <=> x \in DOMAIN cursors
               /\ x \in DOMAIN cursors => cursors'[x] = cursors[x]
    PROVE  IInv'
<1>1. scan'[c] = t /\ \A b \in Clients \ {c} : scan'[b] = scan[b]
  BY DEF IInv, TypeOK
<1>2. Live' = Live
  BY DEF Live
<1>3. scan \in [Clients -> Scans] /\ next_token \in Nat \ {0} /\ \A b \in Clients : scan[b].cursor \in Nat
  BY DEF IInv, TypeOK, Scans
<1>4. \A b \in Clients : scan[b].cursor < next_token
  BY DEF IInv, TokenInv
<1>5. \A b \in Clients \ {c} : scan[b].cursor = scan[c].cursor => scan[b].cursor = 0
  BY DEF IInv, TokenInv
<1>6. TypeOK'
  BY DEF IInv, TypeOK
<1>7. TokenInv'
  <2>1. t.cursor \in Nat
    BY DEF Scans
  <2>2. t.cursor < next_token'
    BY <1>3, <1>4, <2>1
  <2>3. ASSUME NEW b \in Clients PROVE scan'[b].cursor < next_token'
    <3>1. scan[b].cursor < next_token'
      BY <1>3, <1>4
    <3> QED
      BY <1>1, <2>2, <3>1
  <2>4. ASSUME NEW b \in Clients \ {c}, scan[b].cursor = t.cursor PROVE t.cursor = 0
    <3>1. scan[b].cursor # next_token
      BY <1>3, <1>4
    <3> QED
      BY <1>5, <2>4, <3>1
  <2>5. ASSUME NEW a \in Clients, NEW b \in Clients, scan'[a].cursor = scan'[b].cursor, a # b
        PROVE  scan'[a].cursor = 0
    <3>1. CASE a = c \/ b = c
      BY <1>1, <2>4, <2>5, <3>1
    <3>2. CASE a # c /\ b # c
      BY <1>1, <2>5, <3>2 DEF IInv, TokenInv
    <3> QED
      BY <3>1, <3>2
  <2> QED
    BY <2>3, <2>5 DEF TokenInv
<1>8. ASSUME NEW b \in Clients PROVE ScanInv(scan'[b], cursors', Live)
  <2>1. CASE b = c
    BY <1>1, <2>1
  <2>2. CASE b # c
    <3>1. ScanInv(scan[b], cursors, Live)
      BY DEF IInv
    <3>2. 0 \notin DOMAIN cursors /\ 0 \notin DOMAIN cursors'
      BY <1>3 DEF IInv, TypeOK
    <3>3. scan[b].cursor = 0 \/ (scan[b].cursor \in 1 .. next_token - 1 /\ scan[b].cursor # scan[c].cursor)
      BY <1>3, <1>4, <1>5, <2>2
    <3>4. scan[b].cursor \in DOMAIN cursors' <=> scan[b].cursor \in DOMAIN cursors
      BY <3>2, <3>3
    <3>5. scan[b].cursor \in DOMAIN cursors => cursors'[scan[b].cursor] = cursors[scan[b].cursor]
      BY <3>2, <3>3
    <3>6. ScanInv(scan[b], cursors', Live)
      BY <3>1, <3>4, <3>5, RegistryKeeps
    <3> QED
      BY <1>1, <2>2, <3>6
  <2> QED
    BY <2>1, <2>2
<1> QED
  BY <1>2, <1>6, <1>7, <1>8 DEF IInv

-----------------------------------------------------------------------------
(* Every step keeps the invariant. *)

\* No scan has begun.
LEMMA InitStep == Init => IInv
<1> SUFFICES ASSUME Init PROVE IInv
  OBVIOUS
<1>1. NoScan \in Scans
  BY DEF NoScan, Scans
<1>2. DOMAIN cursors = {} /\ cursors \in [DOMAIN cursors -> Keys]
  BY DEF Init
<1>3. TypeOK
  <2>1. db \in [Keys -> {"absent", "live", "expired"}]
    BY DEF Init
  <2>2. scan \in [Clients -> Scans]
    BY <1>1 DEF Init
  <2> QED
    BY <1>2, <2>1, <2>2 DEF TypeOK, Init
<1>4. \A c \in Clients : scan[c] = NoScan
  BY DEF Init
<1>5. TokenInv
  BY <1>4 DEF TokenInv, NoScan, Init
<1>6. ScanInv(NoScan, cursors, Live)
  BY DEF ScanInv, NoScan, NoRepeat, FarInv, Between, EndInv, StableInv, OnItsWay
<1> QED
  BY <1>3, <1>4, <1>5, <1>6 DEF IInv

\* A step of a client that touches neither the registry nor the token.
LEMMA OwnStep ==
    ASSUME IInv, NEW c \in Clients, NEW t \in Scans, scan' = [scan EXCEPT ![c] = t],
           UNCHANGED <<db, cursors, next_token>>, t.cursor \in {0, scan[c].cursor},
           ScanInv(t, cursors, Live)
    PROVE  IInv'
<1>1. next_token' \in Nat \ {0} /\ next_token <= next_token'
  BY DEF IInv, TypeOK
<1>2. DOMAIN cursors' \subseteq 1 .. next_token' - 1 /\ cursors' \in [DOMAIN cursors' -> Keys]
  BY DEF IInv, TypeOK
<1> QED
  BY <1>1, <1>2, OneStep

\* A scan begins.
LEMMA BeginKeeps == ASSUME IInv, NEW c \in Clients, begin(c) PROVE IInv'
<1> DEFINE t == [NoScan EXCEPT !.at = "ready", !.stable = Live]
<1>1. /\ t \in Scans /\ t.at = "ready" /\ t.cursor = 0 /\ t.got = [k \in Keys |-> 0] /\ t.stable = Live
      /\ t.done = FALSE
  BY DEF NoScan, Scans, Live
<1>2. scan' = [scan EXCEPT ![c] = t] /\ UNCHANGED <<db, cursors, next_token>>
  BY DEF begin
<1> HIDE DEF t
<1>3. 0 \notin DOMAIN cursors
  BY DEF IInv, TypeOK
<1>4. \A k \in Keys : t.got[k] = 0 /\ ~ (k <= FirstKey)
  BY <1>1, KeysAssumption DEF FirstKey
<1>5. OnItsWay(t) = {}
  BY <1>1 DEF OnItsWay
<1>6. UpTo(t, FirstKey) /\ NoRepeat(t)
  BY <1>4, <1>5 DEF UpTo, NoRepeat
<1>7. ScanInv(t, cursors, Live)
  BY <1>1, <1>3, <1>6 DEF ScanInv, FarInv, EndInv, StableInv
<1> QED
  BY <1>1, <1>2, <1>7, OwnStep

\* A scan is given up.
LEMMA AbandonKeeps == ASSUME IInv, NEW c \in Clients, abandon(c) PROVE IInv'
<1>1. NoScan \in Scans /\ NoScan.cursor = 0
  BY DEF NoScan, Scans
<1>2. ScanInv(NoScan, cursors, Live)
  BY DEF ScanInv, NoScan, NoRepeat, FarInv, Between, EndInv, StableInv, OnItsWay
<1>3. scan' = [scan EXCEPT ![c] = NoScan] /\ UNCHANGED <<db, cursors, next_token>>
  BY DEF abandon
<1> QED
  BY <1>1, <1>2, <1>3, OwnStep

\* A lost cursor ends the scan.
LEMMA UnknownKeeps == ASSUME IInv, NEW c \in Clients, scan_unknown(c) PROVE IInv'
<1> DEFINE s == scan[c]
           t == [s EXCEPT !.at = "idle", !.done = TRUE]
<1>1. s \in Scans /\ ScanInv(s, cursors, Live) /\ s.at = "ready" /\ s.cursor # 0 /\ s.cursor \notin DOMAIN cursors
  BY DEF IInv, TypeOK, scan_unknown
<1>2. scan' = [scan EXCEPT ![c] = t] /\ UNCHANGED <<db, cursors, next_token>>
  BY DEF scan_unknown, IInv, TypeOK
<1> HIDE DEF s
<1>3. t \in Scans /\ t.at = "idle" /\ t.cursor = s.cursor /\ t.got = s.got /\ t.evicted = s.evicted
  BY <1>1 DEF Scans
<1> HIDE DEF t
<1>4. s.evicted
  BY <1>1 DEF ScanInv, FarInv, Between
<1>5. NoRepeat(t)
  BY <1>1, <1>3 DEF ScanInv, NoRepeat, OnItsWay
<1>6. ScanInv(t, cursors, Live)
  BY <1>3, <1>4, <1>5 DEF ScanInv, FarInv, Between, EndInv, StableInv
<1> QED
  BY <1>2, <1>3, <1>6, OwnStep DEF s

\* The last page.
LEMMA LastKeeps == ASSUME IInv, NEW c \in Clients, scan_last(c) PROVE IInv'
<1> DEFINE s == scan[c]
           t == [s EXCEPT !.at = "filter", !.cursor = 0]
<1>1. s \in Scans /\ ScanInv(s, cursors, Live) /\ s.at = "page" /\ ~ s.more /\ 0 \notin DOMAIN cursors
  BY DEF IInv, TypeOK, scan_last
<1>2. scan' = [scan EXCEPT ![c] = t] /\ UNCHANGED <<db, cursors, next_token>>
  BY DEF scan_last, IInv, TypeOK
<1> HIDE DEF s
<1>3. /\ t \in Scans /\ t.at = "filter" /\ t.cursor = 0 /\ t.got = s.got /\ t.page = s.page /\ t.stable = s.stable
      /\ t.done = s.done
  BY <1>1 DEF Scans
<1> HIDE DEF t
<1>4. OnItsWay(t) = OnItsWay(s)
  BY <1>1, <1>3 DEF OnItsWay
<1>5. NoRepeat(t) /\ Everything(t)
  BY <1>1, <1>3, <1>4 DEF ScanInv, NoRepeat, FarInv, Everything
<1>6. ScanInv(t, cursors, Live)
  BY <1>1, <1>3, <1>5 DEF ScanInv, FarInv, EndInv, StableInv
<1> QED
  BY <1>2, <1>3, <1>6, OwnStep

\* The keys that are still live are returned.
LEMMA FilterKeeps == ASSUME IInv, NEW c \in Clients, scan_filter(c) PROVE IInv'
<1> DEFINE s == scan[c]
           g == [k \in Keys |-> s.got[k] + (IF k \in s.page \cap Live THEN 1 ELSE 0)]
           t == [s EXCEPT !.got = g, !.at = IF s.cursor = 0 THEN "idle" ELSE "ready", !.done = s.cursor = 0]
<1>1. s \in Scans /\ ScanInv(s, cursors, Live) /\ s.at = "filter" /\ 0 \notin DOMAIN cursors
  <2>1. s.at = "filter"
    BY DEF scan_filter
  <2> QED
    BY <2>1 DEF IInv, TypeOK
<1>2. scan' = [scan EXCEPT ![c] = t] /\ UNCHANGED <<db, cursors, next_token>>
  BY DEF scan_filter, IInv, TypeOK
<1> HIDE DEF s
<1>3. s.got \in [Keys -> Nat] /\ s.stable \subseteq Keys /\ s.page \subseteq Keys
  BY <1>1 DEF Scans
<1>4. g \in [Keys -> Nat] /\ \A k \in Keys : g[k] = IF k \in s.page \cap Live THEN s.got[k] + 1 ELSE s.got[k]
  BY <1>3
<1> HIDE DEF g
<1>5. /\ t \in Scans /\ t.at = (IF s.cursor = 0 THEN "idle" ELSE "ready") /\ t.cursor = s.cursor /\ t.got = g
      /\ t.stable = s.stable /\ t.evicted = s.evicted /\ t.done = (s.cursor = 0)
  BY <1>1, <1>4 DEF Scans
<1> HIDE DEF t
<1>6. OnItsWay(t) = {} /\ OnItsWay(s) = s.page
  BY <1>1, <1>5 DEF OnItsWay
<1>7. \A k \in Keys : s.got[k] <= 1 /\ (k \in s.page => s.got[k] = 0)
  BY <1>1, <1>6 DEF ScanInv, NoRepeat
<1>8. NoRepeat(t)
  BY <1>3, <1>4, <1>5, <1>6, <1>7 DEF NoRepeat
<1>9. s.stable \subseteq Live
  BY <1>1 DEF ScanInv, StableInv
<1>10. \A k \in s.stable : s.got[k] = 1 \/ k \in s.page => g[k] = 1
  <2> SUFFICES ASSUME NEW k \in s.stable, s.got[k] = 1 \/ k \in s.page PROVE g[k] = 1
    OBVIOUS
  <2>1. k \in Keys /\ k \in Live
    BY <1>3, <1>9
  <2> QED
    BY <1>4, <1>7, <2>1
<1>11. ASSUME NEW m, UpTo(s, m) PROVE UpTo(t, m)
  BY <1>4, <1>5, <1>6, <1>10, <1>11 DEF UpTo
<1>12. Everything(s) => Everything(t)
  BY <1>5, <1>6, <1>10 DEF Everything
<1>13. FarInv(t, cursors)
  BY <1>1, <1>5, <1>11 DEF ScanInv, FarInv, Between
<1>14. EndInv(t)
  BY <1>1, <1>5, <1>12 DEF ScanInv, FarInv, EndInv
<1>15. ScanInv(t, cursors, Live)
  BY <1>5, <1>8, <1>9, <1>13, <1>14 DEF ScanInv, StableInv
<1> QED
  BY <1>2, <1>5, <1>15, OwnStep DEF s

\* A page is collected above the cursor's key.
LEMMA KeysKeeps == ASSUME IInv, NEW c \in Clients, NEW n \in Counts, scan_keys(c, n) PROVE IInv'
<1> DEFINE s == scan[c]
           m == IF s.cursor = 0 THEN FirstKey ELSE cursors[s.cursor]
           P == Page(m, n)
           A == After(m)
           t == [s EXCEPT !.at = "page", !.page = P, !.more = P # A]
           f == Restrict(cursors, DOMAIN cursors \ {s.cursor})
<1>1. /\ s \in Scans /\ ScanInv(s, cursors, Live) /\ s.at = "ready" /\ 0 \notin DOMAIN cursors
      /\ s.cursor = 0 \/ s.cursor \in DOMAIN cursors
  BY DEF IInv, TypeOK, scan_keys
<1>2. scan' = [scan EXCEPT ![c] = t] /\ cursors' = f /\ UNCHANGED <<db, next_token>>
  BY DEF scan_keys, HasMore, IInv, TypeOK
<1>3. m \in Int
  BY <1>1, KeysAssumption DEF IInv, TypeOK, FirstKey
<1>4. UpTo(s, m) /\ OnItsWay(s) = {}
  BY <1>1 DEF ScanInv, FarInv, Between, OnItsWay
<1>5. A \in SUBSET Keys /\ \A k \in Keys : k \in A <=> db[k] # "absent" /\ k > m
  BY DEF After
<1>6. P \subseteq A /\ (A # {} => P # {}) /\ \A k \in P, j \in A : j <= k => j \in P
  <2>1. Max({n, 1}) \in Nat /\ Max({n, 1}) >= 1
    BY CountsAssumption, CountFacts
  <2> QED
    BY <1>5, <2>1, SmallestFacts, SMTT(40) DEF Page
<1>7. \A x : x \in DOMAIN f <=> x \in DOMAIN cursors /\ x # s.cursor
  BY DEF Restrict
<1>8. \A x \in DOMAIN f : f[x] = cursors[x]
  BY DEF Restrict
<1>9. DOMAIN f \subseteq DOMAIN cursors /\ f \in [DOMAIN f -> Keys]
  BY <1>7 DEF IInv, TypeOK, Restrict
<1> HIDE DEF s, m, P, A, f
<1>10. /\ t \in Scans /\ t.at = "page" /\ t.cursor = s.cursor /\ t.got = s.got /\ t.page = P /\ t.more = (P # A)
       /\ t.stable = s.stable /\ t.done = s.done
  BY <1>1, <1>5, <1>6 DEF Scans
<1> HIDE DEF t
<1>11. OnItsWay(t) = P
  BY <1>10 DEF OnItsWay
<1>12. \A k \in Keys : s.got[k] <= 1 /\ (k > m => s.got[k] = 0) /\ (k \in s.stable /\ k <= m => s.got[k] = 1)
  BY <1>1, <1>4 DEF ScanInv, NoRepeat, UpTo
<1>13. NoRepeat(t)
  BY <1>5, <1>6, <1>10, <1>11, <1>12 DEF NoRepeat
<1>14. s.stable \subseteq Live /\ s.stable \subseteq Keys
  BY <1>1 DEF ScanInv, StableInv, Scans
<1>15. \A k \in s.stable : k \in Keys /\ k \in Int /\ (k > m => k \in A) /\ (k <= m => s.got[k] = 1)
  <2> TAKE k \in s.stable
  <2>1. k \in Keys /\ db[k] = "live"
    BY <1>14 DEF Live
  <2>2. k \in Int
    BY <2>1, KeysAssumption
  <2> QED
    BY <1>5, <1>12, <2>1, <2>2
<1>16. P = A => Everything(t)
  <2> SUFFICES ASSUME P = A, NEW k \in s.stable PROVE s.got[k] = 1 \/ k \in P
    BY <1>10, <1>11 DEF Everything
  <2>1. k \in Int /\ (k > m => k \in A) /\ (k <= m => s.got[k] = 1)
    BY <1>15
  <2> QED
    BY <1>3, <2>1
<1>17. P # A => P # {} /\ UpTo(t, Max(P))
  <2> SUFFICES ASSUME P # A PROVE P # {} /\ UpTo(t, Max(P))
    OBVIOUS
  <2>1. P # {}
    BY <1>6
  <2>2. Max(P) \in P /\ \A k \in P : k <= Max(P)
    BY <1>5, <1>6, <2>1, MaxFacts
  <2>3. Max(P) \in Int /\ Max(P) > m
    <3>1. Max(P) \in A /\ Max(P) \in Keys
      BY <1>5, <1>6, <2>2
    <3>2. \A k \in Keys : k \in Int
      BY KeysAssumption
    <3> QED
      BY <1>5, <3>1, <3>2
  <2>4. ASSUME NEW k \in Keys, k > Max(P) PROVE t.got[k] = 0 /\ k \notin P
    <3>1. k \in Int
      BY KeysAssumption
    <3>2. k > m
      BY <1>3, <2>3, <2>4, <3>1
    <3>3. k \notin P
      BY <2>2, <2>3, <2>4, <3>1
    <3> QED
      BY <1>10, <1>12, <3>2, <3>3
  <2>5. ASSUME NEW k \in Keys, k \in s.stable, k <= Max(P) PROVE s.got[k] = 1 \/ k \in P
    <3>1. k \in Int /\ (k > m => k \in A) /\ (k <= m => s.got[k] = 1)
      BY <1>15, <2>5
    <3>2. k > m \/ k <= m
      BY <1>3, <3>1
    <3> QED
      BY <1>6, <2>2, <2>5, <3>1, <3>2
  <2> QED
    BY <1>10, <1>11, <2>1, <2>4, <2>5 DEF UpTo
<1>18. ScanInv(t, f, Live)
  BY <1>1, <1>10, <1>13, <1>14, <1>16, <1>17 DEF ScanInv, FarInv, Between, EndInv, StableInv
<1>19. next_token' \in Nat \ {0} /\ next_token <= next_token'
  BY <1>2 DEF IInv, TypeOK
<1>20. DOMAIN cursors' \subseteq 1 .. next_token' - 1 /\ cursors' \in [DOMAIN cursors' -> Keys]
  BY <1>2, <1>9 DEF IInv, TypeOK
<1>21. \A x \in 1 .. next_token - 1 : x # scan[c].cursor =>
               /\ x \in DOMAIN cursors' <=> x \in DOMAIN cursors
               /\ x \in DOMAIN cursors => cursors'[x] = cursors[x]
  BY <1>2, <1>7, <1>8 DEF s
<1> QED
  BY <1>2, <1>10, <1>18, <1>19, <1>20, <1>21, OneStep DEF s

\* The new cursor stands at the end of the page.
LEMMA InsertKeeps == ASSUME IInv, NEW c \in Clients, scan_insert(c) PROVE IInv'
<1> DEFINE s == scan[c]
           t == [s EXCEPT !.at = "filter", !.cursor = next_token]
           f == [x \in DOMAIN cursors \cup {next_token} |-> IF x = next_token THEN Max(s.page) ELSE cursors[x]]
<1>1. /\ s \in Scans /\ ScanInv(s, cursors, Live) /\ s.at = "insert" /\ next_token \in Nat \ {0}
      /\ DOMAIN cursors \subseteq 1 .. next_token - 1 /\ cursors \in [DOMAIN cursors -> Keys]
  BY DEF IInv, TypeOK, scan_insert
<1>2. scan' = [scan EXCEPT ![c] = t] /\ cursors' = f /\ next_token' = next_token + 1 /\ db' = db
  BY DEF scan_insert, IInv, TypeOK
<1> HIDE DEF s
<1>3. s.page # {} /\ UpTo(s, Max(s.page)) /\ s.page \in SUBSET Keys
  BY <1>1 DEF ScanInv, FarInv, Scans
<1>4. Max(s.page) \in Keys
  BY <1>3, MaxFacts
<1>5. f \in [DOMAIN f -> Keys] /\ DOMAIN f = DOMAIN cursors \cup {next_token} /\ f[next_token] = Max(s.page)
  BY <1>1, <1>4
<1>6. \A x \in 1 .. next_token - 1 : x # next_token
  BY <1>1
<1>7. \A x \in 1 .. next_token - 1 : /\ x \in DOMAIN f <=> x \in DOMAIN cursors
                                     /\ x \in DOMAIN cursors => f[x] = cursors[x]
  BY <1>5, <1>6
<1>8. DOMAIN f \subseteq 1 .. (next_token + 1) - 1
  BY <1>1, <1>5
<1>9. /\ t \in Scans /\ t.at = "filter" /\ t.cursor = next_token /\ t.got = s.got /\ t.page = s.page
      /\ t.stable = s.stable /\ t.done = s.done
  BY <1>1 DEF Scans
<1> HIDE DEF t, f
<1>10. OnItsWay(t) = OnItsWay(s)
  BY <1>1, <1>9 DEF OnItsWay
<1>11. NoRepeat(t) /\ UpTo(t, f[next_token])
  BY <1>1, <1>3, <1>5, <1>9, <1>10 DEF ScanInv, NoRepeat, UpTo
<1>12. ScanInv(t, f, Live)
  BY <1>1, <1>5, <1>9, <1>11 DEF ScanInv, FarInv, EndInv, StableInv
<1>13. next_token' \in Nat \ {0} /\ next_token <= next_token'
  BY <1>1, <1>2
<1>14. DOMAIN cursors' \subseteq 1 .. next_token' - 1 /\ cursors' \in [DOMAIN cursors' -> Keys]
  BY <1>2, <1>5, <1>8
<1> QED
  BY <1>2, <1>7, <1>9, <1>12, <1>13, <1>14, OneStep

\* The registry is measured.
LEMMA LenKeeps == ASSUME IInv, NEW c \in Clients, scan_len(c) PROVE IInv'
<1> DEFINE s == scan[c]
           t == [s EXCEPT !.at = IF Full THEN "clear" ELSE "insert"]
<1>1. s \in Scans /\ ScanInv(s, cursors, Live) /\ s.at = "page" /\ s.more
  BY DEF IInv, TypeOK, scan_len
<1>2. scan' = [scan EXCEPT ![c] = t] /\ UNCHANGED <<db, cursors, next_token>>
  BY DEF scan_len, IInv, TypeOK
<1> HIDE DEF s
<1>3. /\ t \in Scans /\ t.at \in {"clear", "insert"} /\ t.cursor = s.cursor /\ t.got = s.got /\ t.page = s.page
      /\ t.stable = s.stable /\ t.done = s.done
  BY <1>1 DEF Scans
<1> HIDE DEF t
<1>4. OnItsWay(t) = OnItsWay(s)
  BY <1>1, <1>3 DEF OnItsWay
<1>5. s.page # {} /\ UpTo(s, Max(s.page))
  BY <1>1 DEF ScanInv, FarInv
<1>6. NoRepeat(t) /\ t.page # {} /\ UpTo(t, Max(t.page))
  BY <1>1, <1>3, <1>4, <1>5 DEF ScanInv, NoRepeat, UpTo
<1>7. ScanInv(t, cursors, Live)
  BY <1>1, <1>3, <1>6 DEF ScanInv, FarInv, Between, EndInv, StableInv
<1> QED
  BY <1>2, <1>3, <1>7, OwnStep DEF s

\* The registry is emptied: whoever loses a cursor is marked.
LEMMA ClearKeeps == ASSUME IInv, NEW c \in Clients, scan_clear(c) PROVE IInv'
<1> DEFINE lost(b) == scan[b].cursor \in DOMAIN cursors
           t(b) == [scan[b] EXCEPT !.at = IF b = c THEN "insert" ELSE @, !.evicted = @ \/ lost(b)]
<1>1. scan' = [b \in Clients |-> t(b)] /\ cursors' = [x \in {} |-> 0] /\ UNCHANGED <<db, next_token>>
      /\ scan[c].at = "clear"
  BY DEF scan_clear
<1>2. Live' = Live
  BY <1>1 DEF Live
<1>3. \A b \in Clients : scan[b] \in Scans /\ ScanInv(scan[b], cursors, Live)
  BY DEF IInv, TypeOK
<1>4. DOMAIN cursors' \subseteq DOMAIN cursors /\ cursors' \in [DOMAIN cursors' -> Keys]
  BY <1>1
<1>5. \A x \in DOMAIN cursors' : cursors'[x] = cursors[x]
  BY <1>1
<1>6. \A b \in Clients : scan[b].cursor \in DOMAIN cursors => lost(b) \/ scan[b].cursor \in DOMAIN cursors'
  OBVIOUS
<1>7. \A b \in Clients : lost(b) \in BOOLEAN
  OBVIOUS
<1> HIDE DEF lost
<1>8. ASSUME NEW b \in Clients
      PROVE  /\ t(b) \in Scans /\ t(b).at = (IF b = c THEN "insert" ELSE scan[b].at) /\ t(b).cursor = scan[b].cursor
             /\ t(b).page = scan[b].page /\ t(b).more = scan[b].more /\ t(b).got = scan[b].got
             /\ t(b).stable = scan[b].stable /\ t(b).done = scan[b].done
             /\ t(b).evicted = (scan[b].evicted \/ lost(b))
  BY <1>3, <1>7 DEF Scans
<1>9. \A b \in Clients : scan'[b] = t(b)
  BY <1>1
<1>10. scan' \in [Clients -> Scans]
  BY <1>1, <1>8
<1> HIDE DEF t
<1>11. ASSUME NEW b \in Clients PROVE ScanInv(t(b), cursors', Live)
  <2> DEFINE s == scan[b]
             u == t(b)
  <2>1. (u.at = "insert" /\ s.at = "clear") \/ u.at = s.at
    BY <1>1, <1>8, <1>11
  <2>2. OnItsWay(u) = OnItsWay(s)
    BY <1>8, <1>11, <2>1 DEF OnItsWay
  <2>3. /\ u.cursor = s.cursor /\ u.page = s.page /\ u.more = s.more /\ u.got = s.got /\ u.stable = s.stable
        /\ u.done = s.done /\ (s.evicted => u.evicted) /\ (lost(b) => u.evicted)
    BY <1>8, <1>11
  <2>4. ScanInv(s, cursors, Live)
    BY <1>3
  <2>5. s.cursor \in DOMAIN cursors' => s.cursor \in DOMAIN cursors /\ cursors'[s.cursor] = cursors[s.cursor]
    BY <1>4, <1>5
  <2>6. s.cursor \in DOMAIN cursors => u.evicted \/ s.cursor \in DOMAIN cursors'
    BY <1>6, <2>3
  <2> HIDE DEF s, u
  <2>7. NoRepeat(u) /\ (Everything(s) => Everything(u)) /\ \A m : UpTo(s, m) => UpTo(u, m)
    BY <2>2, <2>3, <2>4 DEF ScanInv, NoRepeat, Everything, UpTo
  <2>8. StableInv(u, Live) /\ EndInv(u)
    BY <2>1, <2>3, <2>4, <2>7 DEF ScanInv, StableInv, EndInv
  <2>9. FarInv(u, cursors')
    BY <2>1, <2>3, <2>4, <2>5, <2>6, <2>7 DEF ScanInv, FarInv, Between
  <2> QED
    BY <2>7, <2>8, <2>9 DEF ScanInv, u
<1>12. TypeOK'
  BY <1>1, <1>4, <1>10 DEF IInv, TypeOK
<1>13. TokenInv'
  BY <1>1, <1>8, <1>9 DEF IInv, TokenInv
<1> QED
  BY <1>2, <1>9, <1>11, <1>12, <1>13 DEF IInv

\* A key that changes is not stable any more.
LEMMA EditKeeps ==
    ASSUME IInv, NEW k \in Keys, NEW to \in {"absent", "live", "expired"}, edit(k, to)
    PROVE  IInv'
<1> DEFINE t(b) == [scan[b] EXCEPT !.stable = @ \ {k}]
<1>1. scan' = [b \in Clients |-> t(b)] /\ UNCHANGED <<cursors, next_token>> /\ db' = [db EXCEPT ![k] = to]
  BY DEF edit
<1>2. \A b \in Clients : scan[b] \in Scans /\ ScanInv(scan[b], cursors, Live)
  BY DEF IInv, TypeOK
<1>3. Live \ {k} \subseteq Live'
  BY <1>1 DEF Live, IInv, TypeOK
<1>4. ASSUME NEW b \in Clients
      PROVE  /\ t(b) \in Scans /\ t(b).at = scan[b].at /\ t(b).cursor = scan[b].cursor /\ t(b).page = scan[b].page
             /\ t(b).more = scan[b].more /\ t(b).got = scan[b].got /\ t(b).stable = scan[b].stable \ {k}
             /\ t(b).done = scan[b].done /\ t(b).evicted = scan[b].evicted
  BY <1>2 DEF Scans
<1>5. \A b \in Clients : scan'[b] = t(b)
  BY <1>1
<1>6. scan' \in [Clients -> Scans]
  BY <1>1, <1>4
<1> HIDE DEF t
<1>7. ASSUME NEW b \in Clients PROVE ScanInv(t(b), cursors, Live')
  <2> DEFINE s == scan[b]
             u == t(b)
  <2>1. /\ u.at = s.at /\ u.cursor = s.cursor /\ u.page = s.page /\ u.more = s.more /\ u.got = s.got
        /\ u.stable = s.stable \ {k} /\ u.done = s.done /\ u.evicted = s.evicted
    BY <1>4, <1>7
  <2>2. ScanInv(s, cursors, Live)
    BY <1>2
  <2> HIDE DEF s, u
  <2>3. OnItsWay(u) = OnItsWay(s)
    BY <2>1 DEF OnItsWay
  <2>4. NoRepeat(u) /\ (Everything(s) => Everything(u)) /\ \A m : UpTo(s, m) => UpTo(u, m)
    BY <2>1, <2>2, <2>3 DEF ScanInv, NoRepeat, Everything, UpTo
  <2>5. StableInv(u, Live')
    BY <1>3, <2>1, <2>2 DEF ScanInv, StableInv
  <2>6. FarInv(u, cursors) /\ EndInv(u)
    BY <2>1, <2>2, <2>4 DEF ScanInv, FarInv, Between, EndInv
  <2> QED
    BY <2>4, <2>5, <2>6 DEF ScanInv, u
<1>8. TypeOK'
  BY <1>1, <1>6 DEF IInv, TypeOK
<1>9. TokenInv'
  BY <1>1, <1>4, <1>5 DEF IInv, TokenInv
<1> QED
  BY <1>1, <1>5, <1>7, <1>8, <1>9 DEF IInv

\* Every step keeps the invariant.
LEMMA NextStep == IInv /\ [Next]_vars => IInv'
<1> SUFFICES ASSUME IInv, [Next]_vars PROVE IInv'
  OBVIOUS
<1>1. CASE Next
  BY <1>1, BeginKeeps, AbandonKeeps, UnknownKeeps, LastKeeps, FilterKeeps, KeysKeeps, InsertKeeps, LenKeeps, ClearKeeps,
     EditKeeps DEF Next
<1>2. CASE UNCHANGED vars
  <2>1. UNCHANGED <<db, cursors, next_token, scan>>
    BY <1>2 DEF vars
  <2>2. TypeOK' /\ TokenInv'
    BY <2>1 DEF IInv, TypeOK, TokenInv
  <2>3. Live' = Live
    BY <2>1 DEF Live
  <2> QED
    BY <2>1, <2>2, <2>3 DEF IInv
<1> QED
  BY <1>1, <1>2

-----------------------------------------------------------------------------
(* What follows for every execution. *)

\* Every reachable state satisfies the invariant.
THEOREM Invariance == Spec => []IInv
BY InitStep, NextStep, PTL DEF Spec

\* scan_keys: no scan returns a key twice, whatever changes and whoever scans
\* meanwhile.
THEOREM NoKeyTwice == Spec => []NothingTwice
<1>1. IInv => NothingTwice
  BY DEF IInv, ScanInv, NoRepeat, NothingTwice
<1> QED
  BY <1>1, Invariance, PTL

\* scan_keys: a scan that is told it is complete has returned every key that was
\* live all the time, unless the registry was emptied over its cursor.
THEOREM ScansAreComplete == Spec => []ScanIsComplete
<1>1. IInv => ScanIsComplete
  <2> SUFFICES ASSUME IInv, NEW c \in Clients, scan[c].done, ~ scan[c].evicted, NEW k \in scan[c].stable
               PROVE  scan[c].got[k] = 1
    BY DEF ScanIsComplete
  <2>1. scan[c].at = "idle" /\ Everything(scan[c])
    BY DEF IInv, ScanInv, EndInv
  <2> QED
    BY <2>1 DEF Everything, OnItsWay
<1> QED
  BY <1>1, Invariance, PTL
=============================================================================
