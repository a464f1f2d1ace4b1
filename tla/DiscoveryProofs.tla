-------------------------- MODULE DiscoveryProofs ---------------------------
(***************************************************************************)
(* For every catalogue, limit and counter width: the connection never goes *)
(* back to an older list, no goroutine of the resolver waits in vain       *)
(* before Close, every variable has its type, and every ready connection   *)
(* gets its turn.  The lists the goroutines hold are ordered along the     *)
(* chain from the connection to Consul, and every hand-over keeps them so. *)
(* How long a connection has not been picked is read off the counter of    *)
(* the round robin, before and after it wraps.                             *)
(***************************************************************************)
EXTENDS ServiceDiscovery, FiniteSetTheorems, TLAPS

\* The contents are versions, and the further from Consul the older.
Chain ==
    /\ version \in Nat /\ fetched \in Nat /\ held \in Nat /\ input \in Nat /\ applied \in Nat
    /\ applied <= input /\ input <= held /\ held <= fetched /\ fetched <= version

\* Every list in a goroutine's hands is at least as new as the one it will replace.
LEMMA ChainInit == Init => Chain
BY DEF Init, ResolverInit, Chain

\* No step of the resolver takes an older list past a newer one, and only an accepted
\* update changes what the connection has.
LEMMA ChainStep ==
    ASSUME Chain, [Next]_discoveryVars
    PROVE  Chain' /\ applied' >= applied
<1> USE DEF Chain
<1>1. CASE ResolverStep
    BY <1>1 DEF ResolverStep, CatalogueChanges, IndexLost, Build, BuildFails, Close,
        QueryAnswered, QueryFails, QueryPanics, BackoffEnds, FetcherQuits, CheckContext,
        Receive, WatcherQuits, Forward, UpdateRefused, PopulateQuits,
        consulVars, buildVars, fetcherVars, watcherVars, populateVars
<1>2. CASE UpdateBalancer
    BY <1>2 DEF UpdateBalancer, UpdateState, consulVars, fetcherVars, watcherVars
<1>3. CASE UNCHANGED resolverVars
    BY <1>3 DEF resolverVars, consulVars, fetcherVars, watcherVars, populateVars
<1>4. Next => ResolverStep \/ UpdateBalancer \/ UNCHANGED resolverVars
    BY DEF Next, Pick, ConnReady, ConnBroken
<1> QED
    BY <1>1, <1>2, <1>3, <1>4 DEF discoveryVars

\* The lists stay ordered in every reachable state.
THEOREM ListsOrdered == Spec => []Chain
<1>1. Chain /\ [Next]_discoveryVars => Chain'
    BY ChainStep
<1> QED
    BY <1>1, ChainInit, PTL DEF Spec

\* populateEndpoints never gives the connection an older list than it has, however long
\* fetcher and watcher were held up in between.
THEOREM UpdatesMoveForward == Spec => NeverBack
<1>1. Chain /\ [Next]_discoveryVars => [applied' >= applied]_applied
    BY ChainStep
<1>2. Spec => [][Next]_discoveryVars
    BY DEF Spec
<1> QED
    BY <1>1, <1>2, ListsOrdered, PTL DEF NeverBack

-----------------------------------------------------------------------------
(* The resolver's types.                                                   *)

\* Every step of the resolver keeps them.
LEMMA ResolverTyped ==
    ASSUME ResolverTypeOK, ResolverStep \/ UpdateState \/ UNCHANGED resolverVars
    PROVE  ResolverTypeOK'
<1>0. Catalogue \in Seq(Seq(Entries)) /\ MaxResets \in Nat
  BY CatalogueAssumption
<1>1. version' \in DOMAIN Catalogue /\ index' \in Nat /\ resets' \in 0 .. MaxResets
  <2>1. CASE CatalogueChanges
    BY <1>0, <2>1 DEF ResolverTypeOK, CatalogueChanges
  <2>2. CASE IndexLost
    BY <1>0, <2>2 DEF ResolverTypeOK, IndexLost
  <2>3. CASE UNCHANGED consulVars
    BY <2>3 DEF ResolverTypeOK, consulVars
  <2> QED
    BY <2>1, <2>2, <2>3 DEF ResolverStep, Build, BuildFails, Close, QueryAnswered, QueryFails,
       QueryPanics, BackoffEnds, FetcherQuits, CheckContext, Receive, WatcherQuits, Forward,
       UpdateRefused, PopulateQuits, UpdateState, resolverVars
<1>2. /\ client' \in {"none", "ok", "nil"} /\ context' \in {"unbuilt", "live", "done"}
      /\ fetcher' \in {"off", "query", "backoff", "send", "done"}
  BY DEF ResolverTypeOK, ResolverStep, CatalogueChanges, IndexLost, Build, BuildFails, Close,
     QueryAnswered, QueryFails, QueryPanics, BackoffEnds, FetcherQuits, CheckContext,
     Receive, WatcherQuits, Forward, UpdateRefused, PopulateQuits, UpdateState, buildVars,
     fetcherVars, resolverVars
<1>3. /\ watcher' \in {"off", "check", "select", "forward", "done"}
      /\ populate' \in {"off", "select", "update", "done"}
  BY DEF ResolverTypeOK, ResolverStep, CatalogueChanges, IndexLost, Build, BuildFails, Close,
     QueryAnswered, QueryFails, QueryPanics, BackoffEnds, FetcherQuits, CheckContext,
     Receive, WatcherQuits, Forward, UpdateRefused, PopulateQuits, UpdateState, watcherVars,
     populateVars, resolverVars
<1>4. lastIndex' \in Nat
  BY DEF ResolverTypeOK, ResolverStep, CatalogueChanges, IndexLost, Build, BuildFails, Close,
     QueryAnswered, QueryFails, QueryPanics, BackoffEnds, FetcherQuits, CheckContext,
     Receive, WatcherQuits, Forward, UpdateRefused, PopulateQuits, UpdateState,
     fetcherVars, resolverVars
<1>5. /\ fetched' \in 0 .. Len(Catalogue) /\ held' \in 0 .. Len(Catalogue)
      /\ input' \in 0 .. Len(Catalogue) /\ applied' \in 0 .. Len(Catalogue)
  <2>1. /\ fetched \in 0 .. Len(Catalogue) /\ held \in 0 .. Len(Catalogue)
        /\ input \in 0 .. Len(Catalogue) /\ applied \in 0 .. Len(Catalogue)
        /\ version \in 0 .. Len(Catalogue)
    BY <1>0 DEF ResolverTypeOK
  <2>2. fetched' \in {fetched, version} /\ held' \in {held, fetched}
    BY DEF ResolverStep, CatalogueChanges, IndexLost, Build, BuildFails, Close,
       QueryAnswered, QueryFails, QueryPanics, BackoffEnds, FetcherQuits, CheckContext,
       Receive, WatcherQuits, Forward, UpdateRefused, PopulateQuits, UpdateState,
       fetcherVars, watcherVars, resolverVars
  <2>3. input' \in {input, held} /\ applied' \in {applied, input}
    BY DEF ResolverStep, CatalogueChanges, IndexLost, Build, BuildFails, Close,
       QueryAnswered, QueryFails, QueryPanics, BackoffEnds, FetcherQuits, CheckContext,
       Receive, WatcherQuits, Forward, UpdateRefused, PopulateQuits, UpdateState,
       populateVars, resolverVars
  <2> QED
    BY <2>1, <2>2, <2>3
<1>6. panicked' \in {panicked, TRUE}
  BY DEF ResolverStep, CatalogueChanges, IndexLost, Build, BuildFails, Close,
     QueryAnswered, QueryFails, QueryPanics, BackoffEnds, FetcherQuits, CheckContext,
     Receive, WatcherQuits, Forward, UpdateRefused, PopulateQuits, UpdateState, resolverVars
<1>7. quit' \in {quit, TRUE, FALSE}
  BY DEF ResolverStep, CatalogueChanges, IndexLost, Build, BuildFails, Close,
     QueryAnswered, QueryFails, QueryPanics, BackoffEnds, FetcherQuits, CheckContext,
     Receive, WatcherQuits, Forward, UpdateRefused, PopulateQuits, UpdateState, watcherVars,
     resolverVars
<1>8. panicked' \in BOOLEAN /\ quit' \in BOOLEAN
  BY <1>6, <1>7 DEF ResolverTypeOK
<1> QED
  BY <1>1, <1>2, <1>3, <1>4, <1>5, <1>8 DEF ResolverTypeOK

-----------------------------------------------------------------------------
(* Who waits for whom.                                                     *)

\* The end of the three goroutines: it begins with Close, and the fetcher is last.
EndsInOrder ==
    /\ context = "unbuilt" => fetcher = "off" /\ watcher = "off" /\ populate = "off" /\ ~ quit
    /\ watcher = "done" => quit
    /\ quit => watcher = "done" /\ context = "done"
    /\ fetcher = "done" => quit
    /\ populate = "done" => context = "done"

\* Every step of the resolver keeps the order.
LEMMA EndsStep ==
    ASSUME EndsInOrder, [Next]_discoveryVars
    PROVE  EndsInOrder'
<1>1. CASE CatalogueChanges \/ IndexLost \/ BuildFails \/ UNCHANGED resolverVars
  <2>1. UNCHANGED <<context, fetcher, watcher, quit, populate>>
    BY <1>1 DEF CatalogueChanges, IndexLost, BuildFails, buildVars, fetcherVars, watcherVars,
       populateVars, resolverVars
  <2> QED
    BY <2>1 DEF EndsInOrder
<1>2. CASE Build
  BY <1>2 DEF Build, EndsInOrder
<1>3. CASE Close
  BY <1>3 DEF Close, EndsInOrder, fetcherVars, watcherVars, populateVars
<1>4. CASE QueryAnswered \/ QueryFails \/ QueryPanics \/ BackoffEnds \/ FetcherQuits
  <2>1. /\ fetcher # "off" /\ (fetcher' = "done" => fetcher = "done" \/ quit)
        /\ UNCHANGED <<context, watcher, quit, populate>>
    BY <1>4 DEF QueryAnswered, QueryFails, QueryPanics, BackoffEnds, FetcherQuits, buildVars,
       fetcherVars, watcherVars, populateVars
  <2> QED
    BY <2>1 DEF EndsInOrder
<1>5. CASE CheckContext
  <2>1. /\ watcher = "check" /\ UNCHANGED <<context, fetcher, populate>>
        /\ watcher' = (IF context = "done" THEN "done" ELSE "select")
        /\ quit' = (context = "done")
    BY <1>5 DEF CheckContext, buildVars, fetcherVars, populateVars
  <2>2. CASE context = "done"
    BY <2>1, <2>2 DEF EndsInOrder
  <2>3. CASE context # "done"
    BY <2>1, <2>3 DEF EndsInOrder
  <2> QED
    BY <2>2, <2>3
<1>6. CASE Receive \/ Forward
  BY <1>6 DEF Receive, Forward, EndsInOrder, buildVars, fetcherVars, populateVars
<1>7. CASE WatcherQuits
  BY <1>7 DEF WatcherQuits, EndsInOrder, buildVars, fetcherVars, populateVars
<1>8. CASE UpdateState \/ UpdateRefused \/ PopulateQuits
  BY <1>8 DEF UpdateState, UpdateRefused, PopulateQuits, EndsInOrder, buildVars, fetcherVars,
     watcherVars
<1>9. Next => ResolverStep \/ UpdateBalancer \/ UNCHANGED resolverVars
  BY DEF Next, Pick, ConnReady, ConnBroken
<1> QED
  BY <1>1, <1>2, <1>3, <1>4, <1>5, <1>6, <1>7, <1>8, <1>9
     DEF discoveryVars, ResolverStep, UpdateBalancer

\* No goroutine of the resolver waits for one that has ended, but for a channel that is
\* closed: quit for the fetcher, the context for the others.  Only the watcher's send to
\* populateEndpoints does not watch the context, and it is left alone only after Close.
THEOREM NobodyWaitsInVain == Spec => []WaitsAnswered
<1>1. Init => EndsInOrder
  BY DEF Init, ResolverInit, EndsInOrder
<1>2. EndsInOrder /\ [Next]_discoveryVars => EndsInOrder'
  BY EndsStep
<1>3. EndsInOrder => WaitsAnswered
  BY DEF EndsInOrder, WaitsAnswered
<1> QED
  BY <1>1, <1>2, <1>3, PTL DEF Spec

-----------------------------------------------------------------------------
(* A turn of the picker's counter.                                         *)

\* What the counter modulo n does at an increment.
LEMMA ModuloStep ==
    ASSUME NEW m \in Nat, NEW n \in Nat \ {0}
    PROVE  /\ m % n \in 0 .. n - 1
           /\ m < n => m % n = m
           /\ (m + 1) % n = IF m % n = n - 1 THEN 0 ELSE (m % n) + 1
<1>1. m % n \in 0 .. n - 1 /\ (m < n => m % n = m)
  OBVIOUS
<1>2. m \in Int /\ n \in Int /\ n > 0
  OBVIOUS
<1>3. m = n * (m \div n) + (m % n)
  BY <1>2, SMTT(30)
<1>4. m \div n \in Nat
  BY <1>2, SMTT(30)
<1>5. ASSUME NEW q \in Nat, NEW r \in 0 .. n - 1 PROVE (n * q + r) % n = r
  OBVIOUS
<1>6. CASE m % n = n - 1
  <2>1. m + 1 = n * ((m \div n) + 1) + 0
    <3> DEFINE q == m \div n
           r == m % n
    <3>1. m = n * q + r /\ r = n - 1 /\ q \in Nat
      BY <1>3, <1>4, <1>6
    <3> HIDE DEF q, r
    <3>2. n * (q + 1) = n * q + n
      BY <3>1
    <3>3. m + 1 = n * (q + 1) + 0
      BY <3>1, <3>2
    <3> QED
      BY <3>3 DEF q
  <2>2. (n * ((m \div n) + 1) + 0) % n = 0
    BY <1>4, <1>5
  <2> QED
    BY <1>1, <1>6, <2>1, <2>2
<1>7. CASE m % n # n - 1
  <2>1. m + 1 = n * (m \div n) + ((m % n) + 1)
    <3> DEFINE q == m \div n
           r == m % n
           nq == n * q
    <3>1. m = nq + r /\ r \in Int /\ nq \in Int
      BY <1>1, <1>3, <1>4
    <3> HIDE DEF q, r, nq
    <3>2. m + 1 = nq + (r + 1)
      BY <3>1
    <3> QED
      BY <3>2 DEF q, r, nq
  <2>2. (m % n) + 1 \in 0 .. n - 1
    BY <1>1, <1>7
  <2>3. (n * (m \div n) + ((m % n) + 1)) % n = (m % n) + 1
    BY <1>4, <1>5, <2>2
  <2> QED
    BY <1>1, <1>7, <2>1, <2>3
<1> QED
  BY <1>6, <1>7

\* How long the connection with index k of n may have waited when the counter is m:
\* as long as it takes from k to m, or, if the counter started or wrapped below k,
\* one whole turn more.
TurnBound(m, n, k) ==
    IF m < k THEN m + n
    ELSE IF m % n >= k THEN (m % n) - k ELSE (m % n) + n - k

\* It is never negative and never more than two turns less two picks.
LEMMA TurnLimits ==
    ASSUME NEW m \in Nat, NEW n \in Nat \ {0}, NEW k \in 0 .. n - 1
    PROVE  TurnBound(m, n, k) \in 0 .. 2 * (n - 1)
<1> DEFINE r == m % n
<1>1. r \in 0 .. n - 1
  BY ModuloStep
<1>2. TurnBound(m, n, k) = IF m < k THEN m + n ELSE IF r >= k THEN r - k ELSE r + n - k
  BY DEF TurnBound
<1> HIDE DEF r
<1> QED
  BY <1>1, <1>2

\* A pick resets it for the connection whose turn it is and adds one for the others,
\* also where the counter wraps, if it has as many values as there are connections.
LEMMA TurnStep ==
    ASSUME NEW M \in Nat \ {0}, NEW n \in 1 .. M, NEW k \in 0 .. n - 1,
           NEW m \in 0 .. M - 1, NEW w \in Nat, w <= TurnBound(m, n, k)
    PROVE  LET next_ == (m + 1) % M
           IN  (IF next_ % n = k THEN 0 ELSE w + 1) <= TurnBound(next_, n, k)
<1> DEFINE m1 == (m + 1) % M
<1>1. m1 = IF m = M - 1 THEN 0 ELSE m + 1
  <2>1. m \in Nat /\ m < M
    OBVIOUS
  <2>2. m % M = m
    BY <2>1, ModuloStep
  <2>3. (m + 1) % M = IF m % M = M - 1 THEN 0 ELSE (m % M) + 1
    BY <2>1, ModuloStep
  <2> QED
    BY <2>2, <2>3
<1>2. m1 \in 0 .. M - 1
  BY <1>1
<1> HIDE DEF m1
<1>3. m \in Nat /\ m1 \in Nat /\ n \in Nat \ {0}
  BY <1>2
<1> SUFFICES (IF m1 % n = k THEN 0 ELSE w + 1) <= TurnBound(m1, n, k)
  BY DEF m1
<1>4. TurnBound(m1, n, k) \in 0 .. 2 * (n - 1)
  BY <1>3, TurnLimits
<1>5. CASE m1 % n = k
  BY <1>4, <1>5
<1>6. CASE m1 % n # k /\ m = M - 1
  <2>1. m1 = 0 /\ m >= k
    BY <1>1, <1>6
  <2>2. 0 % n = 0 /\ m % n \in 0 .. n - 1
    BY <1>3, ModuloStep
  <2>3. 0 < k
    BY <1>6, <2>1, <2>2
  <2>4. w <= n - 1
    BY <2>1, <2>2 DEF TurnBound
  <2> QED
    BY <1>6, <2>1, <2>3, <2>4 DEF TurnBound
<1>7. CASE m1 % n # k /\ m # M - 1
  <2>1. m1 = m + 1
    BY <1>1, <1>7
  <2>2. /\ m % n \in 0 .. n - 1 /\ m1 % n \in 0 .. n - 1
        /\ m1 % n = IF m % n = n - 1 THEN 0 ELSE (m % n) + 1
        /\ m1 < n => m1 % n = m1
    BY <1>3, <2>1, ModuloStep
  <2>3. m1 # k
    BY <1>7, <2>2
  <2> DEFINE r == m % n
             r1 == m1 % n
  <2>4. w <= IF m < k THEN m + n ELSE IF r >= k THEN r - k ELSE r + n - k
    BY DEF TurnBound
  <2>5. TurnBound(m1, n, k) = IF m1 < k THEN m1 + n ELSE IF r1 >= k THEN r1 - k ELSE r1 + n - k
    BY DEF TurnBound
  <2>6. /\ r \in 0 .. n - 1 /\ r1 \in 0 .. n - 1 /\ r1 # k
        /\ r1 = IF r = n - 1 THEN 0 ELSE r + 1
    BY <1>7, <2>2
  <2> HIDE DEF r, r1
  <2>7. w + 1 <= IF m1 < k THEN m1 + n ELSE IF r1 >= k THEN r1 - k ELSE r1 + n - k
    BY <2>1, <2>3, <2>4, <2>6
  <2> QED
    BY <1>7, <2>5, <2>7
<1> QED
  BY <1>5, <1>6, <1>7

-----------------------------------------------------------------------------
(* The picker.                                                             *)

\* It has each ready connection once, and no more than its counter can number.
PickerTyped ==
    /\ subConns \in Seq(Endpoints(applied))
    /\ \A i, j \in 1 .. Len(subConns) : i # j => subConns[i] # subConns[j]
    /\ Len(subConns) = Cardinality(ready)
    /\ Len(subConns) <= Modulus
    /\ next \in 0 .. Modulus - 1
    /\ waits \in [ready -> Nat]

\* No connection has waited longer than its place and the counter allow.
TurnsKept ==
    \A i \in 1 .. Len(subConns) :
        waits[subConns[i]] <= TurnBound(next, Len(subConns), i - 1)

PickerInv == PickerTyped /\ TurnsKept

\* A content of the catalogue has finitely many endpoints, no more than the counter has
\* values.
LEMMA EndpointsFinite ==
    ASSUME NEW v \in 0 .. Len(Catalogue)
    PROVE  IsFiniteSet(Endpoints(v)) /\ Cardinality(Endpoints(v)) <= Modulus
<1> DEFINE ss == IF v = 0 THEN <<>> ELSE Catalogue[v]
           D == {k \in DOMAIN ss : Limit = 0 \/ k <= Limit}
           f == [i \in D |-> Endpoint(ss[i])]
<1>1. Catalogue \in Seq(Seq(Entries))
  BY CatalogueAssumption
<1>2. v # 0 => v \in DOMAIN Catalogue /\ Catalogue[v] \in Seq(Entries)
  BY <1>1
<1>3. IsFiniteSet(D)
  <2>1. Len(ss) \in Nat /\ DOMAIN ss = 1 .. Len(ss)
    BY <1>2
  <2>2. D \subseteq 1 .. Len(ss)
    BY <2>1
  <2> HIDE DEF D, ss
  <2>3. IsFiniteSet(1 .. Len(ss))
    <3>1. 1 \in Int /\ Len(ss) \in Int
      BY <2>1
    <3> QED
      BY <3>1, FS_Interval
  <2> QED
    BY <2>2, <2>3, FS_Subset
<1>4. Endpoints(v) = {Endpoint(ss[i]) : i \in D}
  BY DEF Endpoints
<1>5. f \in Surjection(D, Endpoints(v))
  <2> HIDE DEF D, ss
  <2> QED
    BY <1>4 DEF Surjection
<1>6. IsFiniteSet(Endpoints(v))
  <2> HIDE DEF D, f
  <2> QED
    BY <1>3, <1>5, FS_Surjection
<1>7. CASE v = 0
  <2>1. Endpoints(v) = {}
    BY <1>7 DEF Endpoints
  <2> QED
    BY <1>6, <2>1, FS_EmptySet, ModulusAssumption
<1>8. CASE v # 0
  BY <1>2, <1>6, <1>8, ModulusAssumption
<1> QED
  BY <1>7, <1>8

\* Build lists every connection it is given exactly once.
LEMMA BuildLists ==
    ASSUME NEW conns, IsFiniteSet(conns), NEW s \in SetToSeqs(conns)
    PROVE  /\ s \in Seq(conns) /\ Len(s) = Cardinality(conns) /\ ToSet(s) = conns
           /\ \A i, j \in 1 .. Len(s) : i # j => s[i] # s[j]
<1> DEFINE n == Cardinality(conns)
<1>1. n \in Nat
  BY FS_CardinalityType
<1>2. s \in [1 .. n -> conns] /\ \A i, j \in 1 .. n : i # j => s[i] # s[j]
  BY DEF SetToSeqs
<1>3. IsFiniteSet(1 .. n) /\ Cardinality(1 .. n) = n
  BY <1>1, FS_Interval
<1>4. s \in Injection(1 .. n, conns)
  BY <1>2 DEF Injection, IsInjective
<1>5. s \in Surjection(1 .. n, conns)
  BY <1>3, <1>4, FS_Injection
<1>6. s \in Seq(conns) /\ Len(s) = n
  BY <1>1, <1>2
<1>7. ToSet(s) = conns
  BY <1>2, <1>5 DEF ToSet, Surjection
<1> QED
  BY <1>2, <1>6, <1>7

\* A new picker: nobody has waited.
LEMMA BuildKept ==
    ASSUME NEW v \in 0 .. Len(Catalogue), NEW conns \in SUBSET Endpoints(v),
           BuildPicker(conns), applied' = v
    PROVE  PickerInv'
<1>1. IsFiniteSet(conns) /\ Cardinality(conns) <= Modulus /\ Cardinality(conns) \in Nat
  <2>1. IsFiniteSet(Endpoints(v)) /\ Cardinality(Endpoints(v)) <= Modulus
    BY EndpointsFinite
  <2>2. IsFiniteSet(conns) /\ Cardinality(conns) <= Cardinality(Endpoints(v))
    BY <2>1, FS_Subset
  <2> QED
    BY <2>1, <2>2, FS_CardinalityType, ModulusAssumption
<1>2. subConns' \in SetToSeqs(conns)
  BY DEF BuildPicker
<1>3. /\ subConns' \in Seq(conns) /\ Len(subConns') = Cardinality(conns)
      /\ ToSet(subConns') = conns
      /\ \A i, j \in 1 .. Len(subConns') : i # j => subConns'[i] # subConns'[j]
  BY <1>1, <1>2, BuildLists
<1>4. ready' = conns
  BY <1>3 DEF ready
<1>5. next' \in 0 .. Modulus - 1 /\ next' \in Nat
  <2>1. conns # {} => Cardinality(conns) # 0
    BY <1>1, FS_EmptySet
  <2> QED
    BY <1>1, <2>1, ModulusAssumption DEF BuildPicker
<1>6. waits' = [c \in conns |-> 0]
  BY DEF BuildPicker
<1>7. PickerTyped'
  <2>1. subConns' \in Seq(Endpoints(applied'))
    BY <1>3
  <2>2. waits' \in [ready' -> Nat]
    BY <1>4, <1>6
  <2> QED
    BY <1>1, <1>3, <1>4, <1>5, <2>1, <2>2 DEF PickerTyped
<1>8. TurnsKept'
  <2> SUFFICES ASSUME NEW i \in 1 .. Len(subConns')
               PROVE  waits'[subConns'[i]] <= TurnBound(next', Len(subConns'), i - 1)
    BY DEF TurnsKept
  <2>1. subConns'[i] \in conns
    BY <1>3
  <2>2. TurnBound(next', Len(subConns'), i - 1) \in 0 .. 2 * (Len(subConns') - 1)
    <3>1. Len(subConns') \in Nat \ {0} /\ i - 1 \in 0 .. Len(subConns') - 1
      BY <1>1, <1>3
    <3> QED
      BY <1>5, <3>1, TurnLimits
  <2> QED
    BY <1>1, <1>3, <1>6, <2>1, <2>2
<1> QED
  BY <1>7, <1>8 DEF PickerInv

\* A pick keeps the turns.
LEMMA PickKept ==
    ASSUME PickerInv, Pick PROVE PickerInv'
<1> DEFINE n == Len(subConns)
<1>1. /\ subConns' = subConns /\ ready' = ready /\ applied' = applied
      /\ next' = (next + 1) % Modulus
      /\ waits' = [c \in ready |-> IF c = Picked(next') THEN 0 ELSE waits[c] + 1]
  BY DEF Pick, ready, resolverVars, populateVars
<1>2. /\ n \in 1 .. Modulus /\ Modulus \in Nat \ {0} /\ next \in 0 .. Modulus - 1
      /\ waits \in [ready -> Nat]
  BY ModulusAssumption DEF Pick, PickerInv, PickerTyped
<1>3. next' \in 0 .. Modulus - 1 /\ next' \in Nat
  BY <1>1, <1>2, ModuloStep
<1>4. next' % n \in 0 .. n - 1
  <2>1. n \in Nat \ {0}
    BY <1>2
  <2> HIDE DEF n
  <2> QED
    BY <1>3, <2>1, ModuloStep
<1>5. waits' \in [ready -> Nat]
  BY <1>1, <1>2
<1>6. PickerTyped'
  BY <1>1, <1>3, <1>5 DEF PickerInv, PickerTyped
<1>7. TurnsKept'
  <2> SUFFICES ASSUME NEW i \in 1 .. n
               PROVE  waits'[subConns[i]] <= TurnBound(next', n, i - 1)
    BY <1>1 DEF TurnsKept
  <2>1. subConns[i] \in ready
    BY DEF PickerInv, PickerTyped, ready, ToSet
  <2>2. waits[subConns[i]] \in Nat /\ waits[subConns[i]] <= TurnBound(next, n, i - 1)
    BY <1>2, <2>1 DEF PickerInv, TurnsKept
  <2>3. subConns[i] = Picked(next') <=> next' % n = i - 1
    <3>1. Picked(next') = subConns[(next' % n) + 1] /\ (next' % n) + 1 \in 1 .. n
      BY <1>2, <1>4 DEF Picked
    <3> DEFINE j == (next' % n) + 1
    <3>2. subConns[i] = subConns[j] <=> i = j
      BY <3>1 DEF PickerInv, PickerTyped
    <3> QED
      BY <1>4, <3>1, <3>2
  <2>4. waits'[subConns[i]] = IF next' % n = i - 1 THEN 0 ELSE waits[subConns[i]] + 1
    BY <1>1, <2>1, <2>3
  <2>5. i - 1 \in 0 .. n - 1
    BY <1>2
  <2> HIDE DEF n
  <2>6. (IF ((next + 1) % Modulus) % n = i - 1 THEN 0 ELSE waits[subConns[i]] + 1)
            <= TurnBound((next + 1) % Modulus, n, i - 1)
    BY <1>2, <2>2, <2>5, TurnStep
  <2> QED
    BY <1>1, <2>4, <2>6
<1> QED
  BY <1>6, <1>7 DEF PickerInv

\* Everything else that happens keeps the picker or builds a new one.
LEMMA PickerStep ==
    ASSUME ResolverTypeOK, PickerInv, [Next]_discoveryVars PROVE ResolverTypeOK' /\ PickerInv'
<1>0. applied \in 0 .. Len(Catalogue) /\ input \in 0 .. Len(Catalogue)
  BY DEF ResolverTypeOK
<1>1. ResolverTypeOK'
  <2>1. ResolverStep \/ UpdateState \/ UNCHANGED resolverVars
    BY DEF Next, UpdateBalancer, Pick, ConnReady, ConnBroken, discoveryVars
  <2> QED
    BY <2>1, ResolverTyped
<1>2. ready \subseteq Endpoints(applied)
  BY DEF PickerInv, PickerTyped, ready, ToSet
<1>3. ASSUME UNCHANGED pickerVars, applied' = applied PROVE PickerInv'
  <2>1. subConns' = subConns /\ next' = next /\ waits' = waits /\ ready' = ready
    BY <1>3 DEF pickerVars, ready
  <2>2. PickerTyped'
    BY <1>3, <2>1 DEF PickerInv, PickerTyped
  <2>3. TurnsKept'
    BY <2>1 DEF PickerInv, TurnsKept
  <2> QED
    BY <2>2, <2>3 DEF PickerInv
<1>4. ASSUME ResolverStep, UNCHANGED pickerVars PROVE PickerInv'
  <2>1. applied' = applied
    BY <1>4 DEF ResolverStep, CatalogueChanges, IndexLost, Build, BuildFails, Close,
       QueryAnswered, QueryFails, QueryPanics, BackoffEnds, FetcherQuits, CheckContext,
       Receive, WatcherQuits, Forward, UpdateRefused, PopulateQuits, populateVars
  <2> QED
    BY <1>3, <1>4, <2>1
<1>5. ASSUME UpdateBalancer PROVE PickerInv'
  <2>1. applied' = input /\ BuildPicker(ready \cap Endpoints(applied'))
    BY <1>5 DEF UpdateBalancer, UpdateState
  <2>2. BuildPicker(ready \cap Endpoints(input))
    BY <2>1
  <2> QED
    BY <1>0, <2>1, <2>2, BuildKept
<1>6. ASSUME Pick PROVE PickerInv'
  BY <1>6, PickKept
<1>7. ASSUME NEW c, ConnReady(c) \/ ConnBroken(c) PROVE PickerInv'
  <2>1. applied' = applied
    BY <1>7 DEF ConnReady, ConnBroken, resolverVars, populateVars
  <2>2. CASE ConnReady(c)
    <3>1. ready \cup {c} \in SUBSET Endpoints(applied) /\ BuildPicker(ready \cup {c})
      BY <1>2, <2>2 DEF ConnReady
    <3> QED
      BY <1>0, <2>1, <3>1, BuildKept
  <2>3. CASE ConnBroken(c)
    <3>1. ready \ {c} \in SUBSET Endpoints(applied) /\ BuildPicker(ready \ {c})
      BY <1>2, <2>3 DEF ConnBroken
    <3> QED
      BY <1>0, <2>1, <3>1, BuildKept
  <2> QED
    BY <1>7, <2>2, <2>3
<1>8. ASSUME UNCHANGED discoveryVars PROVE PickerInv'
  BY <1>3, <1>8 DEF discoveryVars, resolverVars, populateVars
<1> QED
  BY <1>1, <1>4, <1>5, <1>6, <1>7, <1>8 DEF Next

\* Before the resolver is built there is nothing to pick from.
LEMMA PickerInit == Init => ResolverTypeOK /\ PickerInv
<1> SUFFICES ASSUME Init PROVE ResolverTypeOK /\ PickerInv
  OBVIOUS
<1>1. ResolverTypeOK
  <2>1. 1 \in DOMAIN Catalogue /\ 0 \in 0 .. Len(Catalogue) /\ 0 \in 0 .. MaxResets
    BY CatalogueAssumption
  <2> QED
    BY <2>1 DEF Init, ResolverInit, ResolverTypeOK
<1>2. subConns = <<>> /\ next = 0 /\ waits = <<>>
  BY DEF Init
<1>3. ready = {}
  BY <1>2 DEF ready, ToSet
<1>4. PickerTyped
  <2>1. Len(subConns) = 0 /\ subConns \in Seq(Endpoints(applied))
    BY <1>2
  <2>2. waits \in [ready -> Nat]
    BY <1>2, <1>3
  <2> QED
    BY <1>2, <1>3, <2>1, <2>2, FS_EmptySet, ModulusAssumption DEF PickerTyped
<1>5. TurnsKept
  BY <1>2 DEF TurnsKept
<1> QED
  BY <1>1, <1>4, <1>5 DEF PickerInv

\* Slice, counter and waiting times agree in every reachable state, however the resolver's
\* updates and the picks interleave.
THEOREM PickerInvariant == Spec => [](ResolverTypeOK /\ PickerInv)
<1>1. ResolverTypeOK /\ PickerInv /\ [Next]_discoveryVars => (ResolverTypeOK /\ PickerInv)'
  BY PickerStep
<1> QED
  BY <1>1, PickerInit, PTL DEF Spec

\* The picker has connections of the list that was applied last, and its counter wraps
\* within its width.
THEOREM DiscoveryTyped == Spec => []TypeOK
<1>1. ResolverTypeOK /\ PickerInv => TypeOK
  BY DEF PickerInv, PickerTyped, TypeOK
<1> QED
  BY <1>1, PickerInvariant, PTL

\* Round robin for any number of connections, any order, any start and any counter
\* that can number them: nobody waits for two whole turns.
THEOREM TurnsAreShared == Spec => []FairShare
<1>1. ResolverTypeOK /\ PickerInv => FairShare
  <2> SUFFICES ASSUME PickerInv, NEW c \in ready
               PROVE  waits[c] <= 2 * (Cardinality(ready) - 1)
    BY DEF FairShare
  <2>0. DOMAIN subConns = 1 .. Len(subConns)
    BY DEF PickerInv, PickerTyped
  <2>1. PICK i \in 1 .. Len(subConns) : subConns[i] = c
    BY <2>0 DEF ready, ToSet
  <2>2. /\ Len(subConns) \in Nat /\ Len(subConns) = Cardinality(ready) /\ next \in Nat
        /\ waits[c] \in Nat
    BY DEF PickerInv, PickerTyped
  <2>3. waits[c] <= TurnBound(next, Len(subConns), i - 1)
    BY <2>1 DEF PickerInv, TurnsKept
  <2>4. TurnBound(next, Len(subConns), i - 1) \in 0 .. 2 * (Len(subConns) - 1)
    <3>1. Len(subConns) \in Nat \ {0} /\ i - 1 \in 0 .. Len(subConns) - 1
      BY <2>2
    <3> QED
      BY <2>2, <3>1, TurnLimits
  <2> QED
    BY <2>2, <2>3, <2>4
<1> QED
  BY <1>1, PickerInvariant, PTL
=============================================================================
