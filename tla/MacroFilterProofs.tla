------------------------- MODULE MacroFilterProofs -------------------------
(***************************************************************************)
(* Proofs about MacroFilter, for all assets, candidates and brokers: the   *)
(* sources it reports, the symbol the engine's snapshot is read from, the  *)
(* age of what comes from the web and the evaluations that /status breaks. *)
(***************************************************************************)
EXTENDS MacroFilter, SequenceTheorems, FiniteSetTheorems, TLAPS

USE MacroAssumption DEF MacroAssumption

Sources == Symbols \cup {Web, NoSymbol}
Fetched == [from: Sources, at: 0..MaxTime]

----------------------------------------------------------------------------
(* The constants *)

LEMMA AssetsAreFinite ==
  /\ IsFiniteSet(AssetSet) /\ Len(Assets) \in Nat
  /\ \A i \in 1..Len(Assets): Assets[i] \in AssetSet
<1>1. Len(Assets) \in Nat /\ Assets \in [1..Len(Assets) -> AssetSet]
  BY LenProperties
<1>2. Assets \in Surjection(1..Len(Assets), AssetSet)
  BY <1>1 DEF Surjection, AssetSet
<1>3. IsFiniteSet(1..Len(Assets))
  BY <1>1, FS_Interval
<1> QED
  BY <1>1, <1>2, <1>3, FS_Surjection

(* What is discovered is a symbol the broker lists *)
LEMMA Discovery ==
  ASSUME listed \in Brokers, NEW a
  PROVE  Discovered(a) \subseteq listed /\ listed \subseteq Symbols
<1>1. listed \subseteq Symbols
  BY DEF Symbols
<1>2. GoldLike \subseteq listed
  OBVIOUS
<1> QED
  BY <1>1, <1>2 DEF Discovered, Usable

----------------------------------------------------------------------------
(* Types *)

LEMMA InitType == Init => TypeOK
<1> SUFFICES ASSUME Init PROVE TypeOK
  OBVIOUS
<1>1. listed \in Brokers /\ cur \in listed
  BY DEF Init
<1>2. 0 \in 0..Len(Assets) + 2 /\ 0 \in 0..MaxTime
  BY AssetsAreFinite
<1>3. next \in [Threads -> 0..Len(Assets) + 2]
  BY <1>2 DEF Init
<1>4. data \in [AssetSet -> Fetched]
  BY <1>2 DEF Init, Fetched, Sources, NoData
<1>5. /\ cache \in [AssetSet -> {Never} \cup 0..MaxTime]
      /\ resolved \in [AssetSet -> Sources]
      /\ leaning \in [AssetSet -> {"up", "down", "flat"}]
  BY DEF Init, Sources
<1>6. /\ stage \in [Threads -> {"broker", "web"}]
      /\ keys \in [Threads -> SUBSET AssetSet]
  BY DEF Init
<1> QED
  BY <1>1, <1>2, <1>3, <1>4, <1>5, <1>6 DEF Init, TypeOK, Fetched, Sources

(* _fetch returns something of its type, and the thread goes on *)
LEMMA ReturnsType ==
  ASSUME TypeOK, NEW t \in Threads, NEW a \in AssetSet, NEW where \in Sources,
         NEW at \in 0..MaxTime, next[t] \in 1..Len(Assets), Returns(t, a, where, at)
  PROVE  /\ next' \in [Threads -> 0..Len(Assets) + 2]
         /\ stage' \in [Threads -> {"broker", "web"}]
         /\ data' \in [AssetSet -> Fetched]
         /\ leaning' \in [AssetSet -> {"up", "down", "flat"}]
         /\ status' \subseteq AssetSet
         /\ UNCHANGED <<listed, snapshot, keys, bias, broken, now>>
<1>1. next' \in [Threads -> 0..Len(Assets) + 2]
  BY AssetsAreFinite DEF Returns, TypeOK
<1>2. data' \in [AssetSet -> Fetched]
  BY DEF Returns, TypeOK, Fetched, Sources
<1>3. leaning' \in [AssetSet -> {"up", "down", "flat"}]
  BY DEF Returns, TypeOK
<1>4. status' \subseteq AssetSet /\ stage' \in [Threads -> {"broker", "web"}]
  BY DEF Returns, TypeOK
<1> QED
  BY <1>1, <1>2, <1>3, <1>4 DEF Returns

LEMMA FetchType ==
  ASSUME TypeOK, NEW t \in Threads, NEW a \in AssetSet,
         \/ FetchKnown(t, a) \/ FetchDiscovered(t, a) \/ BrokerFails(t, a)
         \/ FetchCached(t, a) \/ FetchWeb(t, a) \/ FetchNothing(t, a)
  PROVE  TypeOK'
<1>l. listed \subseteq Symbols /\ cur \in listed /\ Discovered(a) \subseteq listed
  BY Discovery DEF TypeOK
<1>r. resolved \in [AssetSet -> Sources] /\ cache \in [AssetSet -> {Never} \cup 0..MaxTime] /\ now \in 0..MaxTime
  BY DEF TypeOK, Sources
<1>0. 0 \in 0..MaxTime
  OBVIOUS
<1>1. CASE BrokerFails(t, a)
  <2>1. cur' \in listed
    BY <1>1, <1>l DEF BrokerFails
  <2>2. stage' \in [Threads -> {"broker", "web"}]
    BY <1>1 DEF BrokerFails, TypeOK
  <2> QED
    BY <1>1, <2>1, <2>2 DEF BrokerFails, TypeOK, results
<1>2. CASE FetchKnown(t, a)
  <2>1. next[t] \in 1..Len(Assets) /\ resolved[a] \in Sources /\ Returns(t, a, resolved[a], 0)
    BY <1>2, <1>r DEF FetchKnown, Evaluating
  <2> QED
    BY <1>2, <1>0, <2>1, ReturnsType DEF FetchKnown, TypeOK, Fetched, Sources
<1>3. CASE FetchDiscovered(t, a)
  <2>1. PICK s \in Discovered(a): /\ cur' = s /\ resolved' = [resolved EXCEPT ![a] = s]
                                  /\ Returns(t, a, s, 0)
    BY <1>3 DEF FetchDiscovered
  <2>2. next[t] \in 1..Len(Assets) /\ s \in Sources /\ s \in listed
    BY <1>3, <1>l DEF FetchDiscovered, Evaluating, Sources
  <2>3. resolved' \in [AssetSet -> Sources] /\ cur' \in listed
    BY <2>1, <2>2, <1>r
  <2>4. /\ next' \in [Threads -> 0..Len(Assets) + 2]
        /\ stage' \in [Threads -> {"broker", "web"}]
        /\ data' \in [AssetSet -> Fetched]
        /\ leaning' \in [AssetSet -> {"up", "down", "flat"}]
        /\ status' \subseteq AssetSet
        /\ UNCHANGED <<listed, snapshot, keys, bias, broken, now>>
    BY <1>0, <2>1, <2>2, ReturnsType
  <2> QED
    BY <1>3, <2>3, <2>4 DEF FetchDiscovered, TypeOK, Fetched, Sources
<1>4. CASE FetchCached(t, a)
  <2>1. next[t] \in 1..Len(Assets) /\ Web \in Sources /\ cache[a] \in 0..MaxTime
    BY <1>4, <1>r DEF FetchCached, Evaluating, Sources, Fresh
  <2>2. resolved' \in [AssetSet -> Sources] /\ Returns(t, a, Web, cache[a])
    BY <1>4, <1>r, <2>1 DEF FetchCached
  <2> QED
    BY <1>4, <2>1, <2>2, ReturnsType DEF FetchCached, TypeOK, Fetched, Sources
<1>5. CASE FetchWeb(t, a)
  <2>1. next[t] \in 1..Len(Assets) /\ Web \in Sources
    BY <1>5 DEF FetchWeb, Evaluating, Sources
  <2>2. /\ resolved' \in [AssetSet -> Sources] /\ Returns(t, a, Web, now)
        /\ cache' \in [AssetSet -> {Never} \cup 0..MaxTime]
    BY <1>5, <1>r, <2>1 DEF FetchWeb
  <2>3. /\ next' \in [Threads -> 0..Len(Assets) + 2]
        /\ stage' \in [Threads -> {"broker", "web"}]
        /\ data' \in [AssetSet -> Fetched]
        /\ leaning' \in [AssetSet -> {"up", "down", "flat"}]
        /\ status' \subseteq AssetSet
        /\ UNCHANGED <<listed, snapshot, keys, bias, broken, now>>
    BY <1>r, <2>1, <2>2, ReturnsType
  <2> QED
    BY <1>5, <2>2, <2>3 DEF FetchWeb, TypeOK, Fetched, Sources
<1>6. CASE FetchNothing(t, a)
  <2>1. next[t] \in 1..Len(Assets) /\ NoSymbol \in Sources /\ Returns(t, a, NoSymbol, 0)
    BY <1>6 DEF FetchNothing, Evaluating, Sources
  <2> QED
    BY <1>6, <1>0, <2>1, ReturnsType DEF FetchNothing, TypeOK, Fetched, Sources
<1> QED
  BY <1>1, <1>2, <1>3, <1>4, <1>5, <1>6

LEMMA NextType == TypeOK /\ [Next]_vars => TypeOK'
<1> SUFFICES ASSUME TypeOK, [Next]_vars PROVE TypeOK'
  OBVIOUS
<1> USE DEF control, results
<1>n. Len(Assets) \in Nat
  BY AssetsAreFinite
<1>1. CASE UNCHANGED vars
  BY <1>1 DEF TypeOK, vars
<1>2. CASE TimePasses
  BY <1>2 DEF TypeOK, TimePasses
<1>3. ASSUME NEW t \in Threads, NEW a \in AssetSet,
             \/ FetchKnown(t, a) \/ FetchDiscovered(t, a) \/ BrokerFails(t, a)
             \/ FetchCached(t, a) \/ FetchWeb(t, a) \/ FetchNothing(t, a)
      PROVE  TypeOK'
  BY <1>3, FetchType
<1>4. ASSUME NEW t \in Threads, FetchSnapshot(t) PROVE TypeOK'
  <2>1. next' \in [Threads -> 0..Len(Assets) + 2]
    <3>1. next \in [Threads -> 0..Len(Assets) + 2] /\ 1 \in 0..Len(Assets) + 2
      BY <1>n DEF TypeOK
    <3>2. CASE next' = next
      BY <3>1, <3>2
    <3>3. CASE next' = [next EXCEPT ![t] = 1]
      BY <3>1, <3>3
    <3> QED
      BY <1>4, <3>2, <3>3 DEF FetchSnapshot
  <2>2. snapshot' \in listed \cup {NoSymbol} /\ bias' \in {NoSymbol, "NEUTRAL", "BULLISH", "BEARISH", "CONFLICTING"}
    BY <1>4 DEF FetchSnapshot, TypeOK
  <2> QED
    BY <1>4, <2>1, <2>2 DEF FetchSnapshot, TypeOK
<1>5. ASSUME NEW t \in Threads, ListSources(t) PROVE TypeOK'
  <2>1. next' \in [Threads -> 0..Len(Assets) + 2]
    BY <1>5, <1>n DEF ListSources, TypeOK
  <2>2. keys' \in [Threads -> SUBSET AssetSet]
    BY <1>5 DEF ListSources, TypeOK, Keys
  <2> QED
    BY <1>5, <2>1, <2>2 DEF ListSources, TypeOK
<1>6. ASSUME NEW t \in Threads, Synthesize(t) \/ ListingBreaks(t) PROVE TypeOK'
  <2>1. Leave(t)
    BY <1>6 DEF Synthesize, ListingBreaks
  <2>2. next' \in [Threads -> 0..Len(Assets) + 2]
    BY <2>1, <1>n DEF Leave, TypeOK
  <2>3. keys' \in [Threads -> SUBSET AssetSet]
    BY <2>1 DEF Leave, TypeOK
  <2>4. leaning' \in [AssetSet -> {"up", "down", "flat"}]
    BY <2>1 DEF Leave, TypeOK
  <2>5. /\ bias' \in {NoSymbol, "NEUTRAL", "BULLISH", "BEARISH", "CONFLICTING"}
        /\ broken' \in Nat
    BY <1>6 DEF Synthesize, ListingBreaks, TypeOK
  <2> QED
    BY <2>1, <2>2, <2>3, <2>4, <2>5 DEF Leave, TypeOK
<1> QED
  BY <1>1, <1>2, <1>3, <1>4, <1>5, <1>6 DEF Next

----------------------------------------------------------------------------
(* Sources *)

Fetching(t, a) ==
    \/ FetchKnown(t, a) \/ FetchDiscovered(t, a) \/ BrokerFails(t, a)
    \/ FetchCached(t, a) \/ FetchWeb(t, a) \/ FetchNothing(t, a)

(* What _fetch returns has a source, which is recorded; candles of the web *)
(* are fresh.  No other entry of _resolved changes, and none is taken back *)
LEMMA FetchReturns ==
  ASSUME TypeOK, NEW t \in Threads, NEW a \in AssetSet, Fetching(t, a), ~BrokerFails(t, a)
  PROVE  /\ \E where \in Sources, at \in 0..MaxTime:
              /\ Returns(t, a, where, at)
              /\ where # NoSymbol => resolved'[a] = where
              /\ where = Web => now - at <= TTL
         /\ \A b \in AssetSet: b # a => resolved'[b] = resolved[b]
         /\ resolved[a] # NoSymbol => resolved'[a] # NoSymbol
<1>l. listed \subseteq Symbols /\ Discovered(a) \subseteq listed
  BY Discovery DEF TypeOK
<1>r. resolved \in [AssetSet -> Sources] /\ now \in 0..MaxTime /\ 0 \in 0..MaxTime
  BY DEF TypeOK, Sources
<1>w. Web # NoSymbol /\ Web \in Sources /\ NoSymbol \in Sources
  BY DEF Web, NoSymbol, Sources
<1>1. CASE FetchKnown(t, a)
  <2>1. resolved' = resolved /\ Returns(t, a, resolved[a], 0) /\ resolved[a] \in listed
    BY <1>1 DEF FetchKnown
  <2>2. resolved[a] # Web /\ resolved[a] \in Sources
    BY <2>1, <1>l, <1>r
  <2> QED
    BY <2>1, <2>2, <1>r
<1>2. CASE FetchDiscovered(t, a)
  <2>1. PICK s \in Discovered(a): resolved' = [resolved EXCEPT ![a] = s] /\ Returns(t, a, s, 0)
    BY <1>2 DEF FetchDiscovered
  <2>2. s # Web /\ s # NoSymbol /\ s \in Sources
    BY <1>l DEF Sources
  <2> QED
    BY <2>1, <2>2, <1>r
<1>3. CASE FetchCached(t, a)
  <2>1. /\ resolved' = [resolved EXCEPT ![a] = Web] /\ Returns(t, a, Web, cache[a])
        /\ cache[a] \in 0..MaxTime /\ now - cache[a] <= TTL
    BY <1>3 DEF FetchCached, Fresh, TypeOK
  <2> QED
    BY <2>1, <1>w, <1>r
<1>4. CASE FetchWeb(t, a)
  <2>1. resolved' = [resolved EXCEPT ![a] = Web] /\ Returns(t, a, Web, now) /\ now - now <= TTL
    BY <1>4, <1>r DEF FetchWeb
  <2> QED
    BY <2>1, <1>w, <1>r
<1>5. CASE FetchNothing(t, a)
  <2>1. resolved' = resolved /\ Returns(t, a, NoSymbol, 0)
    BY <1>5 DEF FetchNothing
  <2> QED
    BY <2>1, <1>w, <1>r
<1> QED
  BY <1>1, <1>2, <1>3, <1>4, <1>5 DEF Fetching

LEMMA NextSources == TypeOK /\ SourcesAreTrue /\ [Next]_vars => SourcesAreTrue'
<1> SUFFICES ASSUME TypeOK, SourcesAreTrue, [Next]_vars PROVE SourcesAreTrue'
  OBVIOUS
<1> USE DEF control, results
<1>1. CASE UNCHANGED <<data, resolved, status>>
  BY <1>1 DEF SourcesAreTrue
<1>2. ASSUME NEW t \in Threads, NEW a \in AssetSet, Fetching(t, a), ~BrokerFails(t, a)
      PROVE  SourcesAreTrue'
  <2>1. PICK where \in Sources, at \in 0..MaxTime:
          Returns(t, a, where, at) /\ (where # NoSymbol => resolved'[a] = where)
    BY <1>2, FetchReturns
  <2>2. \A b \in AssetSet: b # a => resolved'[b] = resolved[b]
    BY <1>2, FetchReturns
  <2> SUFFICES ASSUME NEW b \in AssetSet \ status', data'[b].from # NoSymbol
               PROVE  resolved'[b] = data'[b].from
    BY DEF SourcesAreTrue
  <2>3. CASE b # a
    <3>1. b \notin status /\ data'[b] = data[b]
      BY <2>1, <2>3 DEF Returns, TypeOK
    <3> QED
      BY <2>2, <2>3, <3>1 DEF SourcesAreTrue
  <2>4. CASE b = a
    <3>1. data'[a].from = where
      BY <2>1, <2>4 DEF Returns, TypeOK
    <3> QED
      BY <2>1, <2>4, <3>1
  <2> QED
    BY <2>3, <2>4
<1> QED
  BY <1>1, <1>2 DEF Next, Fetching, FetchSnapshot, BrokerFails, ListSources, Leave, Synthesize,
     ListingBreaks, TimePasses, vars

(* What the web gave is fresh when it is used *)
LEMMA NextFresh ==
  ASSUME TypeOK, [Next]_vars, NEW a \in AssetSet, data'[a].from = Web, data'[a] # data[a]
  PROVE  now - data'[a].at <= TTL
<1> USE DEF control, results
<1>1. PICK t \in Threads, b \in AssetSet: Fetching(t, b) /\ ~BrokerFails(t, b)
  BY DEF Next, Fetching, FetchSnapshot, BrokerFails, ListSources, Leave, Synthesize,
     ListingBreaks, TimePasses, vars
<1>2. PICK where \in Sources, at \in 0..MaxTime:
        Returns(t, b, where, at) /\ (where = Web => now - at <= TTL)
  BY <1>1, FetchReturns
<1>3. a = b /\ data'[a] = [from |-> where, at |-> at]
  BY <1>2 DEF Returns, TypeOK
<1> QED
  BY <1>2, <1>3

----------------------------------------------------------------------------
(* The engine's symbol *)

LEMMA NextOnGold ==
  TypeOK /\ ConnectorOnGold /\ SnapshotIsGold /\ [Next]_vars
    => ConnectorOnGold' /\ SnapshotIsGold'
<1> SUFFICES ASSUME TypeOK, ConnectorOnGold, SnapshotIsGold, [Next]_vars
             PROVE  ConnectorOnGold' /\ SnapshotIsGold'
  OBVIOUS
<1> USE DEF control, results
<1>1. listed' = listed
  BY DEF Next, FetchKnown, FetchDiscovered, FetchCached, FetchWeb, FetchNothing, Returns, FetchSnapshot,
     BrokerFails, ListSources, Leave, Synthesize, ListingBreaks, TimePasses, vars
<1> SUFFICES ASSUME GoldLike = {Gold}, \A a \in AssetSet: Usable(a) = {}
             PROVE  cur' = Gold /\ snapshot' \in {Gold, NoSymbol}
  BY <1>1 DEF ConnectorOnGold, SnapshotIsGold, Usable
<1>2. cur = Gold /\ snapshot \in {Gold, NoSymbol} /\ \A a \in AssetSet: Discovered(a) = {Gold}
  BY DEF ConnectorOnGold, SnapshotIsGold, Discovered
<1>3. cur' = Gold
  BY <1>2 DEF Next, FetchKnown, FetchDiscovered, FetchCached, FetchWeb, FetchNothing, FetchSnapshot,
     BrokerFails, ListSources, Leave, Synthesize, ListingBreaks, TimePasses, vars
<1>4. snapshot' \in {snapshot, cur}
  BY DEF Next, FetchKnown, FetchDiscovered, FetchCached, FetchWeb, FetchNothing, Returns, FetchSnapshot,
     BrokerFails, ListSources, Leave, Synthesize, ListingBreaks, TimePasses, vars
<1> QED
  BY <1>2, <1>3, <1>4

----------------------------------------------------------------------------
(* Broken evaluations *)

(* No asset is unresolved again *)
LEMMA KeysGrow == TypeOK /\ [Next]_vars => Keys \subseteq Keys'
<1> SUFFICES ASSUME TypeOK, [Next]_vars PROVE Keys \subseteq Keys'
  OBVIOUS
<1> USE DEF control, results
<1>1. CASE resolved' = resolved
  BY <1>1 DEF Keys
<1>2. ASSUME NEW t \in Threads, NEW a \in AssetSet, Fetching(t, a), ~BrokerFails(t, a)
      PROVE  Keys \subseteq Keys'
  <2>1. /\ \A b \in AssetSet: b # a => resolved'[b] = resolved[b]
        /\ resolved[a] # NoSymbol => resolved'[a] # NoSymbol
    BY <1>2, FetchReturns
  <2> QED
    BY <2>1 DEF Keys
<1> QED
  BY <1>1, <1>2 DEF Next, Fetching, FetchSnapshot, BrokerFails, ListSources, Leave, Synthesize,
     ListingBreaks, TimePasses, vars

LEMMA SmallerKeys ==
  ASSUME NEW S \in SUBSET AssetSet, NEW T \in SUBSET AssetSet, S \subseteq T
  PROVE  /\ Cardinality(S) \in Nat /\ Cardinality(T) \in Nat /\ Cardinality(S) <= Cardinality(T)
         /\ S # T => Cardinality(S) < Cardinality(T)
<1>1. IsFiniteSet(S) /\ IsFiniteSet(T)
  BY AssetsAreFinite, FS_Subset
<1>2. Cardinality(S) \in Nat /\ Cardinality(T) \in Nat
  BY <1>1, FS_CardinalityType
<1>3. Cardinality(S) <= Cardinality(T) /\ (Cardinality(T) = Cardinality(S) => T = S)
  BY <1>1, FS_Subset
<1> QED
  BY <1>2, <1>3

LEMMA NextLost == TypeOK /\ LostBefore /\ [Next]_vars => LostBefore'
<1> SUFFICES ASSUME TypeOK, LostBefore, [Next]_vars PROVE LostBefore'
  OBVIOUS
<1> USE DEF control, results
<1>k. Keys \subseteq Keys' /\ Keys' \subseteq AssetSet /\ Keys \subseteq AssetSet
  BY KeysGrow DEF Keys
<1>n. /\ Len(Assets) \in Nat /\ broken \in Nat /\ keys[Engine] \in SUBSET AssetSet
      /\ Engine \in Threads /\ Engine # Listener
      /\ keys[Engine] \subseteq Keys
  BY AssetsAreFinite DEF TypeOK, Threads, Engine, Listener, LostBefore
<1>c. /\ Cardinality(Keys) \in Nat /\ Cardinality(Keys') \in Nat
      /\ Cardinality(Keys) <= Cardinality(Keys')
  BY <1>k, SmallerKeys
<1>d. /\ Cardinality(keys[Engine]) \in Nat /\ Cardinality(keys[Engine]) <= Cardinality(Keys)
      /\ keys[Engine] # Keys => Cardinality(keys[Engine]) < Cardinality(Keys)
  BY <1>k, <1>n, SmallerKeys
(* Steps in which the engine neither lists the keys nor ends an evaluation *)
<1>1. CASE keys'[Engine] = keys[Engine] /\ Listing' = Listing /\ broken' = broken
  BY <1>1, <1>k, <1>n, <1>c, <1>d DEF LostBefore
<1>2. CASE ListSources(Engine)
  <2>1. keys'[Engine] = Keys /\ broken' = broken /\ ~Listing
    BY <1>2, <1>n DEF ListSources, TypeOK, Listing
  <2>2. broken <= Cardinality(Keys)
    BY <2>1 DEF LostBefore
  <2> QED
    BY <2>1, <2>2, <1>k, <1>n, <1>c DEF LostBefore
<1>3. CASE Synthesize(Engine) \/ ListingBreaks(Engine)
  <2>1. Leave(Engine) /\ Listing /\ keys'[Engine] = {} /\ next'[Engine] = 0
    BY <1>3, <1>n DEF Synthesize, ListingBreaks, Leave, TypeOK, Listing
  <2>2. ~Listing'
    BY <2>1, <1>n DEF Listing
  <2>3. broken' = broken \/ (broken' = broken + 1 /\ keys[Engine] # Keys)
    BY <1>3 DEF Synthesize, ListingBreaks
  <2>4. broken <= Cardinality(keys[Engine])
    BY <2>1 DEF LostBefore
  <2>5. broken' <= Cardinality(Keys')
    BY <2>3, <2>4, <1>n, <1>c, <1>d
  <2> QED
    BY <2>1, <2>2, <2>5 DEF LostBefore
<1>4. ASSUME NEW t \in Threads, NEW a \in AssetSet, Fetching(t, a)
      PROVE  keys' = keys /\ Listing' = Listing /\ broken' = broken
  <2>1. CASE BrokerFails(t, a)
    BY <2>1 DEF BrokerFails, Listing
  <2>2. CASE ~BrokerFails(t, a)
    <3>1. PICK where \in Sources, at \in 0..MaxTime: Returns(t, a, where, at)
      BY <1>4, <2>2, FetchReturns
    <3>2. next[t] \in 1..Len(Assets)
      BY <1>4, <2>2 DEF Fetching, FetchKnown, FetchDiscovered, FetchCached, FetchWeb, FetchNothing, Evaluating
    <3>3. keys' = keys /\ broken' = broken /\ next' = [next EXCEPT ![t] = @ + 1]
      BY <3>1 DEF Returns
    <3>4. next \in [Threads -> 0..Len(Assets) + 2]
      BY DEF TypeOK
    <3>5. CASE t = Engine
      <4>1. next'[Engine] = next[Engine] + 1 /\ next[Engine] \in 1..Len(Assets)
        BY <3>2, <3>3, <3>4, <3>5, <1>n
      <4> QED
        BY <4>1, <3>3, <1>n DEF Listing
    <3>6. CASE t # Engine
      BY <3>3, <3>4, <3>6, <1>n DEF Listing
    <3> QED
      BY <3>5, <3>6
  <2> QED
    BY <2>1, <2>2
<1>5. ASSUME NEW t \in Threads, FetchSnapshot(t)
      PROVE  keys' = keys /\ Listing' = Listing /\ broken' = broken
  <2>1. keys' = keys /\ broken' = broken
    BY <1>5 DEF FetchSnapshot
  <2>2. next \in [Threads -> 0..Len(Assets) + 2]
    BY DEF TypeOK
  <2>3. next'[Engine] = next[Engine] \/ (next[Engine] = 0 /\ next'[Engine] = 1)
    BY <1>5, <1>n, <2>2 DEF FetchSnapshot
  <2> QED
    BY <2>1, <2>3, <1>n DEF Listing
<1>6. ASSUME NEW t \in Threads, t # Engine,
             ListSources(t) \/ Synthesize(t) \/ ListingBreaks(t)
      PROVE  keys'[Engine] = keys[Engine] /\ Listing' = Listing /\ broken' = broken
  BY <1>6, <1>n DEF ListSources, Synthesize, ListingBreaks, Leave, Listing, TypeOK
<1>7. CASE TimePasses \/ UNCHANGED vars
  BY <1>7, <1>1 DEF TimePasses, vars, Listing
<1> QED
  BY <1>1, <1>2, <1>3, <1>4, <1>5, <1>6, <1>7 DEF Next, Fetching

----------------------------------------------------------------------------
(* Theorems *)

LEMMA InitMacro == Init => MacroInv
<1> SUFFICES ASSUME Init PROVE MacroInv
  OBVIOUS
<1>1. SourcesAreTrue
  BY DEF Init, SourcesAreTrue, NoData
<1>2. ConnectorOnGold /\ SnapshotIsGold
  BY DEF Init, ConnectorOnGold, SnapshotIsGold
<1>3. Keys = {} /\ keys[Engine] = {}
  BY DEF Init, Keys, Threads, Engine
<1>4. LostBefore
  <2>1. broken = 0 /\ Cardinality({}) = 0
    BY FS_EmptySet DEF Init
  <2>2. (IF Listing THEN keys[Engine] ELSE Keys) = {}
    BY <1>3
  <2>3. broken <= Cardinality({})
    BY <2>1
  <2> QED
    BY <1>3, <2>2, <2>3 DEF LostBefore
<1> QED
  BY <1>1, <1>2, <1>4, InitType DEF MacroInv

LEMMA Inductive == Spec => []MacroInv
<1>1. MacroInv /\ [Next]_vars => MacroInv'
  BY NextType, NextSources, NextOnGold, NextLost DEF MacroInv
<1> QED
  BY <1>1, InitMacro, PTL DEF Spec

(* The connector always has one of the broker's symbols, and the tables of *)
(* the filter keep their types, for both threads.                          *)
THEOREM TypeCorrect == Spec => []TypeOK
<1>1. MacroInv => TypeOK
  BY DEF MacroInv
<1> QED
  BY <1>1, Inductive, PTL

(* The source reported for an asset is the one its candles were read from, *)
(* unless /status has fetched the asset since.                             *)
THEOREM SourcesReported == Spec => []SourcesAreTrue
<1>1. MacroInv => SourcesAreTrue
  BY DEF MacroInv
<1> QED
  BY <1>1, Inductive, PTL

(* With a broker that lists no candidate and one gold symbol, no search of *)
(* the macro filter moves the engine's snapshot away from gold.            *)
THEOREM SnapshotStaysGold == Spec => []SnapshotIsGold
<1>1. MacroInv => SnapshotIsGold
  BY DEF MacroInv
<1> QED
  BY <1>1, Inductive, PTL

(* Over the life of the process /status breaks no more evaluations of the  *)
(* engine than there are assets resolved.                                  *)
THEOREM FewEvaluationsLost == Spec => []FewAreLost
<1>1. MacroInv => FewAreLost
  <2> SUFFICES ASSUME MacroInv PROVE broken <= Cardinality(Keys)
    BY DEF FewAreLost
  <2>1. keys[Engine] \in SUBSET AssetSet /\ Keys \subseteq AssetSet /\ keys[Engine] \subseteq Keys
    BY DEF MacroInv, LostBefore, Keys
  <2>2. /\ Cardinality(keys[Engine]) \in Nat /\ Cardinality(Keys) \in Nat
        /\ Cardinality(keys[Engine]) <= Cardinality(Keys)
    BY <2>1, SmallerKeys
  <2>3. broken \in Nat /\ (broken <= Cardinality(keys[Engine]) \/ broken <= Cardinality(Keys))
    BY DEF MacroInv, LostBefore, TypeOK
  <2> QED
    BY <2>2, <2>3
<1> QED
  BY <1>1, Inductive, PTL

(* Candles from the web are never older than the time to live when they    *)
(* are used.                                                               *)
THEOREM WebDataIsFresh == Spec => WebDataFresh
<1>1. TypeOK /\ [Next]_vars =>
        [\A a \in AssetSet: (data'[a].from = Web /\ data'[a] # data[a])
                               => now - data'[a].at <= TTL]_vars
  BY NextFresh
<1> QED
  BY <1>1, TypeCorrect, PTL DEF Spec, WebDataFresh
=============================================================================
