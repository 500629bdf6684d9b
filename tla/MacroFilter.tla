---------------------------- MODULE MacroFilter ----------------------------
(***************************************************************************)
(* core/macro_filter.py on top of core/mt5_connector.py: the engine thread *)
(* reads its candles, then the macro filter reads the dollar, the yields   *)
(* and the VIX, from the broker if it lists such a symbol and from the web *)
(* if it does not.  /status makes the listener thread do the same with the *)
(* same filter and the same connector (telegram_bot.py:318-325).           *)
(*                                                                         *)
(* The connector keeps one symbol, _symbol, which every call that names no *)
(* symbol falls back to; discover_symbol writes it, and the macro filter   *)
(* uses discover_symbol as its resolver (engine.py:118).                   *)
(*                                                                         *)
(* A set of candles is reduced to where it comes from and when; what the   *)
(* filter concludes from it (up, down, flat) is a choice.  Of what the     *)
(* listener thread reads only the effect on the shared tables is kept.     *)
(***************************************************************************)
EXTENDS Integers, Sequences, FiniteSets

CONSTANTS
    Assets,      \* what the filter evaluates, in its order
    Candidates,  \* the symbol and its fallbacks configured for each asset
    Gold,        \* the symbol the engine trades
    GoldLike,    \* the broker's symbols whose name contains XAU and USD
    Brokers,     \* what a broker may list: sets of symbols
    WebFallback, \* macro.use_web_api_fallback
    TTL,         \* macro.web_api_cache_minutes
    MaxTime      \* bound: minutes the model runs for

NoSymbol == "none"
Web == "web"
Engine == "engine"
Listener == "listener"
Threads == {Engine, Listener}
NoData == [from |-> NoSymbol, at |-> 0]
Never == -1

AssetSet == {Assets[i]: i \in 1..Len(Assets)}
CandidateSet(a) == {Candidates[a][i]: i \in 1..Len(Candidates[a])}
Symbols == UNION Brokers \cup UNION {CandidateSet(a): a \in AssetSet}

ASSUME MacroAssumption ==
    /\ Assets \in Seq(AssetSet)
    /\ Gold \in GoldLike /\ \A symbols \in Brokers: GoldLike \subseteq symbols
    /\ NoSymbol \notin Symbols /\ Web \notin Symbols
    /\ WebFallback \in BOOLEAN /\ TTL \in Nat /\ MaxTime \in Nat

VARIABLES
    listed,    \* the broker's symbols
    cur,       \* connector._symbol
    snapshot,  \* the symbol the engine's last market snapshot was read from
    next,      \* thread -> index of the asset it evaluates, 0 between evaluations
    stage,     \* thread -> part of _fetch it is in: "broker", "web"
    keys,      \* thread -> the keys of _resolved when it began to list the sources
    resolved,  \* _resolved: asset -> symbol, web or none
    cache,     \* _Cache: asset -> time of the candles it holds, or Never
    data,      \* what _fetch returned to the engine for the asset
    leaning,   \* what its evaluator makes of it: "up", "down", "flat"
    bias,      \* what evaluate() gave the engine's tick, none before that
    status,    \* history: assets fetched for /status since the engine fetched them
    broken,    \* history: the engine's evaluations that ended in an exception
    now

control == <<next, stage, keys>>
results == <<data, leaning, bias>>
vars == <<listed, cur, snapshot, control, resolved, cache, results, status, broken, now>>

Init ==
    /\ listed \in Brokers
    /\ cur = Gold /\ snapshot = NoSymbol
    /\ next = [t \in Threads |-> 0]
    /\ stage = [t \in Threads |-> "broker"]
    /\ keys = [t \in Threads |-> {}]
    /\ resolved = [a \in AssetSet |-> NoSymbol]
    /\ cache = [a \in AssetSet |-> Never]
    /\ data = [a \in AssetSet |-> NoData]
    /\ leaning = [a \in AssetSet |-> "flat"]
    /\ bias = NoSymbol /\ status = {} /\ broken = 0 /\ now = 0

----------------------------------------------------------------------------
(* discover_symbol(primary, fallbacks): the first candidate the broker     *)
(* has, else any of its symbols that looks like gold                       *)
Usable(a) == {i \in 1..Len(Candidates[a]): Candidates[a][i] \in listed}
(* Mutant: the first candidate, listed or not *)
DiscoveredUnchecked(a) == {Candidates[a][1]}

Discovered(a) ==
    IF Usable(a) # {}
    THEN {Candidates[a][i]: i \in {j \in Usable(a): \A k \in Usable(a): j <= k}}
    ELSE GoldLike

(* _fetch_snapshot: get_closed_candles without a symbol; the engine's tick *)
(* may end before the macro filter.  The reading of the last tick is gone. *)
FetchSnapshot(t) ==
    /\ next[t] = 0
    /\ IF t = Engine THEN snapshot' = cur /\ bias' = NoSymbol
       ELSE UNCHANGED <<snapshot, bias>>
    /\ next' \in {next, [next EXCEPT ![t] = 1]}
    /\ UNCHANGED <<listed, cur, stage, keys, resolved, cache, data, leaning, status, broken, now>>

Evaluating(t, a, part) ==
    /\ next[t] \in 1..Len(Assets) /\ a = Assets[next[t]] /\ stage[t] = part

(* _fetch returns, and the evaluator of the asset draws its conclusion     *)
Returns(t, a, where, at) ==
    /\ IF t = Engine
       THEN /\ data' = [data EXCEPT ![a] = [from |-> where, at |-> at]]
            /\ \E l \in IF where = NoSymbol THEN {"flat"} ELSE {"up", "down", "flat"}:
                 /\ a = "vix" => l # "down"
                 /\ leaning' = [leaning EXCEPT ![a] = l]
            /\ status' = status \ {a}
       ELSE /\ UNCHANGED <<data, leaning>>
            /\ status' = status \cup {a}
    /\ next' = [next EXCEPT ![t] = @ + 1]
    /\ stage' = [stage EXCEPT ![t] = "broker"]
    /\ UNCHANGED <<listed, snapshot, keys, bias, broken, now>>

(* The symbol resolved before still has candles *)
FetchKnown(t, a) ==
    /\ Evaluating(t, a, "broker") /\ resolved[a] \in listed
    /\ Returns(t, a, resolved[a], 0)
    /\ UNCHANGED <<cur, resolved, cache>>

(* It has none, or there is none yet: a fresh one is discovered *)
FetchDiscovered(t, a) ==
    /\ Evaluating(t, a, "broker")
    /\ \E s \in Discovered(a):
         /\ cur' = s
         /\ resolved' = [resolved EXCEPT ![a] = s]
         /\ Returns(t, a, s, 0)
    /\ UNCHANGED cache

(* Mutant: the connector forgets its symbol *)
BrokerForgets(t, a) ==
    /\ Evaluating(t, a, "broker") /\ cur' = NoSymbol
    /\ stage' = [stage EXCEPT ![t] = "web"]
    /\ UNCHANGED <<listed, snapshot, next, keys, resolved, cache, results, status, broken, now>>

(* The search fails, or what it has discovered has no candles *)
BrokerFails(t, a) ==
    /\ Evaluating(t, a, "broker")
    /\ cur' \in {cur} \cup Discovered(a)
    /\ stage' = [stage EXCEPT ![t] = "web"]
    /\ UNCHANGED <<listed, snapshot, next, keys, resolved, cache, results, status, broken, now>>

(* Mutant: what is cached is fresh *)
FreshForever(a) == cache[a] # Never

Fresh(a) == cache[a] # Never /\ now - cache[a] <= TTL

(* Mutant: the source stays the one resolved before *)
FetchCachedSilently(t, a) ==
    /\ Evaluating(t, a, "web") /\ WebFallback /\ Fresh(a)
    /\ Returns(t, a, Web, cache[a])
    /\ UNCHANGED <<cur, resolved, cache>>

FetchCached(t, a) ==
    /\ Evaluating(t, a, "web") /\ WebFallback /\ Fresh(a)
    /\ resolved' = [resolved EXCEPT ![a] = Web]
    /\ Returns(t, a, Web, cache[a])
    /\ UNCHANGED <<cur, cache>>

FetchWeb(t, a) ==
    /\ Evaluating(t, a, "web") /\ WebFallback /\ ~Fresh(a)
    /\ cache' = [cache EXCEPT ![a] = now]
    /\ resolved' = [resolved EXCEPT ![a] = Web]
    /\ Returns(t, a, Web, now)
    /\ UNCHANGED cur

(* Mutant: an asset without data is resolved afresh *)
ForgetsResolved(t, a) ==
    /\ Evaluating(t, a, "web") /\ (WebFallback => ~Fresh(a))
    /\ resolved' = [resolved EXCEPT ![a] = NoSymbol]
    /\ Returns(t, a, NoSymbol, 0)
    /\ UNCHANGED <<cur, cache>>

(* No fallback, or the web fails *)
FetchNothing(t, a) ==
    /\ Evaluating(t, a, "web") /\ (WebFallback => ~Fresh(a))
    /\ Returns(t, a, NoSymbol, 0)
    /\ UNCHANGED <<cur, resolved, cache>>

(* evaluate(): the dollar and the yields vote against gold, fear for it.   *)
(* Its result lists the sources, key by key.                               *)
Bulls == {a \in AssetSet: leaning[a] = IF a = "vix" THEN "up" ELSE "down"}
Bears == {a \in AssetSet \ {"vix"}: leaning[a] = "up"}
Keys == {a \in AssetSet: resolved[a] # NoSymbol}

ListSources(t) ==
    /\ next[t] = Len(Assets) + 1
    /\ next' = [next EXCEPT ![t] = @ + 1]
    /\ keys' = [keys EXCEPT ![t] = Keys]
    /\ UNCHANGED <<listed, cur, snapshot, stage, resolved, cache, results, status, broken, now>>

(* The local variables of evaluate() are gone with its end *)
Leave(t) ==
    /\ next[t] = Len(Assets) + 2
    /\ next' = [next EXCEPT ![t] = 0]
    /\ keys' = [keys EXCEPT ![t] = {}]
    /\ leaning' = IF t = Engine THEN [a \in AssetSet |-> "flat"] ELSE leaning
    /\ UNCHANGED <<listed, cur, snapshot, stage, resolved, cache, data, status, now>>

Synthesize(t) ==
    /\ Leave(t) /\ keys[t] = Keys
    /\ bias' = IF t # Engine THEN bias
               ELSE IF Bulls = {} /\ Bears = {} THEN "NEUTRAL"
               ELSE IF Bears = {} THEN "BULLISH"
               ELSE IF Bulls = {} THEN "BEARISH" ELSE "CONFLICTING"
    /\ UNCHANGED broken

(* The dictionary has grown while its items were listed: RuntimeError      *)
ListingBreaks(t) ==
    /\ Leave(t) /\ keys[t] # Keys
    /\ broken' = IF t = Engine THEN broken + 1 ELSE broken
    /\ UNCHANGED bias

TimePasses ==
    /\ now < MaxTime
    /\ now' = now + 1
    /\ UNCHANGED <<listed, cur, snapshot, control, resolved, cache, results, status, broken>>

Next ==
    \/ \E t \in Threads:
          \/ FetchSnapshot(t)
          \/ \E a \in AssetSet: \/ FetchKnown(t, a) \/ FetchDiscovered(t, a) \/ BrokerFails(t, a)
                                \/ FetchCached(t, a) \/ FetchWeb(t, a) \/ FetchNothing(t, a)
          \/ ListSources(t) \/ Synthesize(t) \/ ListingBreaks(t)
    \/ TimePasses

Spec == Init /\ [][Next]_vars

----------------------------------------------------------------------------
(* Properties *)

(* The connector always has a symbol and the tables are of their types.    *)
TypeOK ==
    /\ listed \in Brokers /\ cur \in listed
    /\ snapshot \in listed \cup {NoSymbol}
    /\ next \in [Threads -> 0..Len(Assets) + 2]
    /\ stage \in [Threads -> {"broker", "web"}]
    /\ keys \in [Threads -> SUBSET AssetSet]
    /\ resolved \in [AssetSet -> Symbols \cup {Web, NoSymbol}]
    /\ cache \in [AssetSet -> {Never} \cup 0..MaxTime]
    /\ data \in [AssetSet -> [from: Symbols \cup {Web, NoSymbol}, at: 0..MaxTime]]
    /\ leaning \in [AssetSet -> {"up", "down", "flat"}]
    /\ bias \in {NoSymbol, "NEUTRAL", "BULLISH", "BEARISH", "CONFLICTING"}
    /\ status \subseteq AssetSet /\ broken \in Nat /\ now \in 0..MaxTime

(* Candles that come from the web were fetched no longer than TTL minutes  *)
(* before they are used, however many evaluations of either thread lie in  *)
(* between.                                                                *)
WebDataFresh ==
    [][\A a \in AssetSet: (data'[a].from = Web /\ data'[a] # data[a])
                              => now - data'[a].at <= TTL]_vars

(* The source that is reported for an asset is the one its candles were    *)
(* read from, whatever was resolved in earlier evaluations, unless /status *)
(* has fetched the asset since.                                            *)
SourcesAreTrue ==
    \A a \in AssetSet \ status: data[a].from # NoSymbol => resolved[a] = data[a].from

(* With a broker that lists none of the candidates and one gold symbol the *)
(* market snapshot is read from the symbol the engine trades, although     *)
(* each search for a candidate, of both threads, ends by setting the       *)
(* connector's symbol.                                                     *)
SnapshotIsGold ==
    (GoldLike = {Gold} /\ \A a \in AssetSet: Usable(a) = {})
        => snapshot \in {Gold, NoSymbol}

(* /status can break an evaluation of the engine only by resolving an      *)
(* asset for the first time: over the life of the process no more          *)
(* evaluations are lost than there are assets, so that a run of them never *)
(* reaches the limit of errors in a row that pauses the engine.            *)
FewAreLost == broken <= Cardinality(Keys)

----------------------------------------------------------------------------
(* The inductive invariants behind SnapshotIsGold and FewAreLost.          *)

(* Without a candidate the connector's symbol stays the one it began with  *)
ConnectorOnGold ==
    (GoldLike = {Gold} /\ \A a \in AssetSet: Usable(a) = {}) => cur = Gold

(* An evaluation of the engine can only break on a key that was added      *)
(* since it listed the keys, and none is ever removed                      *)
Listing == next[Engine] = Len(Assets) + 2
LostBefore ==
    /\ keys[Engine] \subseteq Keys
    /\ broken <= Cardinality(IF Listing THEN keys[Engine] ELSE Keys)

MacroInv ==
    TypeOK /\ SourcesAreTrue /\ ConnectorOnGold /\ SnapshotIsGold /\ LostBefore
=============================================================================
