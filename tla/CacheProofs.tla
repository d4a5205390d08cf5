---------------------------- MODULE CacheProofs -----------------------------
(***************************************************************************)
(* Proofs about the cache (internal/cache/cache.go): its entries, module   *)
(* CacheSpec, and its coalescing of requests, module Coalesce.             *)
(*                                                                         *)
(* The register cache implements the map with expiry for every set of      *)
(* slaves, functions, addresses and values, every TTL, negative ones       *)
(* included, and whether stale entries are kept or not.                    *)
(*                                                                         *)
(* Coalescing, for any set of callers, keys and payloads: SingleFlight is  *)
(* inductive together with the types.  NoOrphanFollower rests on it: a     *)
(* caller that follows finds a registered leader of its key.  The facts    *)
(* about returned results need to know who holds a result before it is     *)
(* returned, and that a woken follower's is of its own key, which is       *)
(* NoOrphanFollower in the state before the close.                         *)
(***************************************************************************)
EXTENDS CacheSpec, Coalesce, TLAPS

Entry == [data : Values, ts : Nat]

\* The entries are a partial function from register keys to entries.
CacheMap ==
    /\ DOMAIN entries \subseteq RegKeys
    /\ entries \in [DOMAIN entries -> Entry]
    /\ now \in Nat

\* startAddr+i wraps around, so the keys of a range are register keys.
LEMMA RangeKeysAreKeys ==
    ASSUME NEW s \in SlaveIDs, NEW f \in FunctionCodes, NEW a \in Addrs, NEW q \in Nat
    PROVE  RangeAddrs(a, q) \subseteq Addrs /\ RangeKeys(s, f, a, q) \subseteq RegKeys
<1>1. RangeAddrs(a, q) \subseteq Addrs
  BY AddressAssumption DEF RangeAddrs, Addrs
<1> QED  BY <1>1 DEF RangeKeys, RegKey, RegKeys

\* Storing the values of some keys (Set, SetRange) is Store of the map.
LEMMA StoreStep ==
    ASSUME CacheMap, NEW K \in SUBSET RegKeys, NEW v \in [K -> Values],
           entries' = Stored(K, v), now' = now, call' = Storing(v)
    PROVE  CacheMap' /\ Promise!Store(K, v)
<1> DEFINE new == [k \in DOMAIN entries \cup K |->
                      IF k \in K THEN [data |-> v[k], ts |-> now] ELSE entries[k]]
<1>1. entries' = new
  BY DEF Stored
<1>2. new \in [DOMAIN entries \cup K -> Entry]
  BY DEF CacheMap, Entry
<1>3. CacheMap'
  BY <1>1, <1>2 DEF CacheMap
<1>4. Visible' = Promise!Live([k \in DOMAIN Visible \cup K |->
                     IF k \in K THEN [data |-> v[k], ts |-> now] ELSE Visible[k]], now)
  <2>1. CASE KeepStale
    BY <1>1, <2>1 DEF Visible, Promise!Live
  <2>2. CASE ~KeepStale
    <3> DEFINE old   == {k \in DOMAIN entries : ~(now - entries[k].ts > TTL)}
               seen  == {k \in DOMAIN new : ~(now - new[k].ts > TTL)}
               mixed == [k \in old \cup K |->
                           IF k \in K THEN [data |-> v[k], ts |-> now] ELSE entries[k]]
               live  == {k \in DOMAIN mixed : now - mixed[k].ts <= TTL}
    <3>1. Visible = [k \in old |-> entries[k]]
      BY <2>2 DEF Visible, Restrict, IsExpired
    <3>2. Visible' = [k \in seen |-> new[k]]
      BY <2>2, <1>1 DEF Visible, Restrict, IsExpired
    <3>3. [k \in DOMAIN Visible \cup K |->
             IF k \in K THEN [data |-> v[k], ts |-> now] ELSE Visible[k]] = mixed
      BY <3>1
    <3>4. Promise!Live(mixed, now) = [k \in live |-> mixed[k]]
      <4> HIDE DEF mixed
      <4> QED  BY <2>2 DEF Promise!Live, Promise!Restrict
    <3>5. \A k \in old \cup K : mixed[k] = new[k]
      OBVIOUS
    <3>6. seen = live
      <4>1. \A k \in DOMAIN new : new[k].ts \in Nat
        BY <1>2 DEF Entry
      <4>2. ASSUME NEW k \in seen PROVE k \in old \cup K
        BY <4>2
      <4>3. seen \subseteq live /\ live \subseteq seen
        <5>1. DOMAIN mixed = old \cup K /\ DOMAIN new = DOMAIN entries \cup K
          OBVIOUS
        <5>2. \A k \in DOMAIN mixed : k \in DOMAIN new
          BY <5>1
        <5> HIDE DEF mixed, new, old
        <5> QED  BY <4>1, <4>2, <5>1, <5>2, <3>5, CacheAssumption DEF CacheMap
      <4> HIDE DEF seen, live
      <4> QED  BY <4>3
    <3>7. [k \in seen |-> new[k]] = [k \in live |-> mixed[k]]
      BY <3>5, <3>6
    <3> HIDE DEF mixed, live, seen, new, old
    <3> QED  BY <3>2, <3>3, <3>4, <3>7
  <2> QED  BY <2>1, <2>2
<1> QED  BY <1>3, <1>4 DEF Promise!Store, Storing

\* Removing some keys (Delete, DeleteRange) is Remove of the map.
LEMMA RemoveStep ==
    ASSUME CacheMap, NEW K \in SUBSET RegKeys,
           entries' = Without(K), now' = now, call' = Removing(K)
    PROVE  CacheMap' /\ Promise!Remove(K)
<1>1. entries' = [k \in DOMAIN entries \ K |-> entries[k]]
  BY DEF Without, Restrict
<1>2. CacheMap'
  BY <1>1 DEF CacheMap
<1>3. Visible' = [k \in DOMAIN Visible \ K |-> Visible[k]]
  <2>1. CASE KeepStale
    BY <1>1, <2>1 DEF Visible
  <2>2. CASE ~KeepStale
    <3> DEFINE old  == {k \in DOMAIN entries : ~(now - entries[k].ts > TTL)}
               seen == {k \in DOMAIN entries \ K : ~(now - entries[k].ts > TTL)}
    <3>1. Visible = [k \in old |-> entries[k]]
      BY <2>2 DEF Visible, Restrict, IsExpired
    <3>2. Visible' = [k \in seen |-> entries[k]]
      BY <2>2, <1>1 DEF Visible, Restrict, IsExpired
    <3>3. seen = old \ K
      OBVIOUS
    <3> HIDE DEF old, seen
    <3> QED  BY <3>1, <3>2, <3>3
  <2> QED  BY <2>1, <2>2
<1> QED  BY <1>2, <1>3 DEF Promise!Remove, Promise!Restrict, Removing

\* The cleanup goroutine takes away nothing that a reader could see.
LEMMA CleanupStep ==
    ASSUME CacheMap, CleanupOnce, UNCHANGED call
    PROVE  CacheMap' /\ UNCHANGED <<Visible, now, call>>
<1>1. entries' = [k \in {x \in DOMAIN entries : ~IsExpired(entries[x])} |-> entries[k]]
  BY DEF CleanupOnce, Restrict
<1>2. now' = now /\ ~KeepStale
  BY DEF CleanupOnce
<1>3. CacheMap'
  BY <1>1, <1>2 DEF CacheMap
<1>4. Visible' = Visible
  BY <1>1, <1>2 DEF Visible, Restrict, IsExpired
<1> QED  BY <1>2, <1>3, <1>4

\* The clock only hides what outlives its TTL.
LEMMA TickStep ==
    ASSUME CacheMap, Tick, UNCHANGED call
    PROVE  CacheMap' /\ Promise!Advance
<1>1. entries' = entries /\ now' = now + 1
  BY DEF Tick
<1>2. CacheMap'
  BY <1>1 DEF CacheMap
<1>3. Visible' = Promise!Live(Visible, now')
  <2>1. CASE KeepStale
    BY <1>1, <2>1 DEF Visible, Promise!Live
  <2>2. CASE ~KeepStale
    <3> DEFINE old  == {k \in DOMAIN entries : ~(now - entries[k].ts > TTL)}
               seen == {k \in DOMAIN entries : ~(now' - entries[k].ts > TTL)}
               live == {k \in old : now' - entries[k].ts <= TTL}
    <3>1. Visible = [k \in old |-> entries[k]]
      BY <2>2 DEF Visible, Restrict, IsExpired
    <3>2. Visible' = [k \in seen |-> entries[k]]
      <4>1. Visible' = [k \in {x \in DOMAIN entries' : ~(now' - entries'[x].ts > TTL)}
                          |-> entries'[k]]
        BY <2>2 DEF Visible, Restrict, IsExpired
      <4>2. {x \in DOMAIN entries' : ~(now' - entries'[x].ts > TTL)} = seen
        BY <1>1
      <4> HIDE DEF seen
      <4> QED  BY <4>1, <4>2, <1>1
    <3>3. Promise!Live(Visible, now') = [k \in live |-> entries[k]]
      <4>1. Promise!Live(Visible, now') =
               [k \in {x \in DOMAIN Visible : now' - Visible[x].ts <= TTL} |-> Visible[k]]
        BY <2>2 DEF Promise!Live, Promise!Restrict
      <4>2. {x \in DOMAIN Visible : now' - Visible[x].ts <= TTL} = live
        BY <1>1, <3>1
      <4>3. \A k \in live : Visible[k] = entries[k]
        BY <3>1
      <4> HIDE DEF live
      <4> QED  BY <4>1, <4>2, <4>3
    <3>4. \A k \in DOMAIN entries : entries[k].ts \in Nat
      BY DEF CacheMap, Entry
    <3>5. seen \subseteq live /\ live \subseteq seen
      BY <1>1, <3>4, CacheAssumption DEF CacheMap
    <3> HIDE DEF old, seen, live
    <3>6. seen = live
      BY <3>5
    <3> QED  BY <3>2, <3>3, <3>6
  <2> QED  BY <2>1, <2>2
<1> QED  BY <1>1, <1>2, <1>3 DEF Promise!Advance

\* Every step of the cache is a step of the map, or none.
LEMMA StepSimulated ==
    CacheMap /\ [CacheNext]_<<cacheVars, call>>
       => CacheMap' /\ [Promise!Next]_<<Visible, now, call>>
<1> SUFFICES ASSUME CacheMap, [CacheNext]_<<cacheVars, call>>
             PROVE  CacheMap' /\ [Promise!Next]_<<Visible, now, call>>
  OBVIOUS
<1>1. ASSUME NEW k \in RegKeys, NEW v \in Values,
             Set(k, v), call' = Storing([x \in {k} |-> v])
      PROVE  CacheMap' /\ Promise!Next
  BY <1>1, StoreStep DEF Set, Promise!Next
<1>2. ASSUME NEW k \in RegKeys, Delete(k), call' = Removing({k})
      PROVE  CacheMap' /\ Promise!Next
  BY <1>2, RemoveStep DEF Delete, Promise!Next
<1>3. ASSUME NEW s \in SlaveIDs, NEW f \in FunctionCodes, NEW a \in Addrs,
             NEW q \in 0 .. MaxQuantity, NEW vals \in [RangeAddrs(a, q) -> Values],
             SetRange(s, f, vals),
             call' = Storing([k \in RangeKeys(s, f, a, q) |-> vals[k[3]]])
      PROVE  CacheMap' /\ Promise!Next
  <2> DEFINE K == RangeKeys(s, f, a, q)
             v == [k \in K |-> vals[k[3]]]
  <2>1. K \in SUBSET RegKeys
    BY RangeKeysAreKeys, CacheSpecAssumption
  <2>2. \A k \in K : k[3] \in RangeAddrs(a, q)
    BY DEF RangeKeys, RegKey
  <2>3. v \in [K -> Values]
    BY <2>2
  <2>4. entries' = Stored(K, v) /\ now' = now
    BY <1>3 DEF SetRange, RangeKeys
  <2> HIDE DEF K
  <2>5. CacheMap' /\ Promise!Store(K, v)
    BY <1>3, <2>1, <2>3, <2>4, StoreStep DEF K
  <2> QED  BY <2>1, <2>3, <2>5 DEF Promise!Next
<1>4. ASSUME NEW s \in SlaveIDs, NEW f \in FunctionCodes, NEW a \in Addrs,
             NEW q \in 0 .. MaxQuantity,
             DeleteRange(s, f, a, q), call' = Removing(RangeKeys(s, f, a, q))
      PROVE  CacheMap' /\ Promise!Next
  <2>1. RangeKeys(s, f, a, q) \in SUBSET RegKeys
    BY RangeKeysAreKeys, CacheSpecAssumption
  <2> QED  BY <1>4, <2>1, RemoveStep DEF DeleteRange, Promise!Next
<1>5. CASE CleanupOnce /\ UNCHANGED call
  BY <1>5, CleanupStep
<1>6. CASE Tick /\ UNCHANGED call
  BY <1>6, TickStep DEF Promise!Next
<1>7. CASE UNCHANGED <<cacheVars, call>>
  BY <1>7 DEF cacheVars, CacheMap, Visible, Restrict, IsExpired
<1> QED  BY <1>1, <1>2, <1>3, <1>4, <1>5, <1>6, <1>7 DEF CacheNext

\* A new cache is an empty map.
LEMMA InitSimulated ==
    Init => CacheMap /\ Promise!Init
BY DEF Init, CacheInit, NoCall, CacheMap, Entry, Visible, Restrict, Promise!Init

\* Whatever its parameters, the cache keeps its promise: a call stores or
\* removes exactly what it names, the cleanup goroutine never takes away a value
\* a reader could have seen, and a value is seen with the time it was stored.
THEOREM CacheIsTTLMap ==
    Spec => ImplementsTTLMap
BY InitSimulated, StepSimulated, PTL DEF Spec, ImplementsTTLMap, Promise!Spec

\* A cached value is one that was stored, under a register key.
THEOREM CacheTyped ==
    Spec => []CacheTypeOK
<1>1. CacheMap => CacheTypeOK
  BY DEF CacheMap, CacheTypeOK, Entry
<1> QED  BY <1>1, InitSimulated, StepSimulated, PTL DEF Spec

-----------------------------------------------------------------------------
(* Coalescing. *)

\* A caller holds a result exactly while the code does, and a result that is
\* data was fetched for the caller's key.
ResultsOfOwnKey ==
    \A c \in Callers :
        /\ res[c] # None <=> cpc[c] \in {"publish", "close", "woken", "return"}
        /\ res[c] # None /\ res[c].err = "none" => res[c].data \in Fetch(key[c])

\* Only a caller that has called has a key, and its status is not set before
\* it returns.
CallLocals ==
    \A c \in Callers : /\ cpc[c] # "idle" => key[c] \in Keys
                       /\ coalesced[c] => cpc[c] = "return"

CoInv ==
    /\ CoTypeOK
    /\ CallLocals
    /\ SingleFlight
    /\ NoOrphanFollower
    /\ ResultsOfOwnKey
    /\ OwnCancellationOnly

-----------------------------------------------------------------------------
\* In the initial state nobody has called the coalescer.
LEMMA CoInitial == CoInit => CoInv
BY DEF CoInit, CoInv, CoTypeOK, CallLocals, SingleFlight, NoOrphanFollower,
       ResultsOfOwnKey, OwnCancellationOnly

\* A context step moves no caller.
LEMMA ContextStep ==
    ASSUME CoInv, NEW c \in Callers, NewContext(c) \/ ContextEnds(c)
    PROVE  CoInv'
<1> USE CoalesceAssumption DEF CoInv, CoTypeOK, NewContext, ContextEnds
<1>1. CoTypeOK'
  BY DEF CallLocals
<1>2. CallLocals'
  BY DEF CallLocals
<1>3. SingleFlight'
  BY DEF CallLocals, SingleFlight
<1>4. NoOrphanFollower'
  BY DEF SingleFlight, NoOrphanFollower
<1>5. ResultsOfOwnKey'
  BY DEF CallLocals, NoOrphanFollower, ResultsOfOwnKey
<1>6. OwnCancellationOnly'
  BY DEF CallLocals, ResultsOfOwnKey, OwnCancellationOnly
<1> QED  BY <1>1, <1>2, <1>3, <1>4, <1>5, <1>6

\* A call of CoalesceWithStatus holds no result and no flight yet.
LEMMA CallStep ==
    ASSUME CoInv, NEW c \in Callers, NEW k \in Keys, Call(c, k)
    PROVE  CoInv'
<1> USE CoalesceAssumption DEF CoInv, CoTypeOK, Call
<1>1. CoTypeOK'
  BY DEF CallLocals
<1>2. CallLocals'
  BY DEF CallLocals
<1>3. SingleFlight'
  BY DEF CallLocals, SingleFlight
<1>4. NoOrphanFollower'
  BY DEF SingleFlight, NoOrphanFollower
<1>5. ResultsOfOwnKey'
  BY DEF CallLocals, NoOrphanFollower, ResultsOfOwnKey
<1>6. OwnCancellationOnly'
  BY DEF CallLocals, ResultsOfOwnKey, OwnCancellationOnly
<1> QED  BY <1>1, <1>2, <1>3, <1>4, <1>5, <1>6

\* A call whose context is over returns its own context's error.
LEMMA EnterCanceledStep ==
    ASSUME CoInv, NEW c \in Callers, EnterCanceled(c)
    PROVE  CoInv'
<1> USE CoalesceAssumption DEF CoInv, CoTypeOK, EnterCanceled, Fail
<1>1. CoTypeOK'
  BY DEF CallLocals
<1>2. CallLocals'
  BY DEF CallLocals
<1>3. SingleFlight'
  BY DEF CallLocals, SingleFlight
<1>4. NoOrphanFollower'
  BY DEF SingleFlight, NoOrphanFollower
<1>5. ResultsOfOwnKey'
  BY DEF CallLocals, NoOrphanFollower, ResultsOfOwnKey
<1>6. OwnCancellationOnly'
  BY DEF CallLocals, ResultsOfOwnKey, OwnCancellationOnly
<1> QED  BY <1>1, <1>2, <1>3, <1>4, <1>5, <1>6

\* A caller registers a flight only where the in-flight map has none.
LEMMA LeadStep ==
    ASSUME CoInv, NEW c \in Callers, Lead(c)
    PROVE  CoInv'
<1> USE CoalesceAssumption DEF CoInv, CoTypeOK, Lead
<1>1. CoTypeOK'
  BY DEF CallLocals
<1>2. CallLocals'
  BY DEF CallLocals
<1>3. SingleFlight'
  BY DEF CallLocals, SingleFlight
<1>4. NoOrphanFollower'
  BY DEF SingleFlight, NoOrphanFollower
<1>5. ResultsOfOwnKey'
  BY DEF CallLocals, NoOrphanFollower, ResultsOfOwnKey
<1>6. OwnCancellationOnly'
  BY DEF CallLocals, ResultsOfOwnKey, OwnCancellationOnly
<1> QED  BY <1>1, <1>2, <1>3, <1>4, <1>5, <1>6

\* A follower finds its leader registered, so the leader has yet to close.
LEMMA FollowStep ==
    ASSUME CoInv, NEW c \in Callers, Follow(c)
    PROVE  CoInv'
<1> USE CoalesceAssumption DEF CoInv, CoTypeOK, Follow
<1>1. CoTypeOK'
  BY DEF CallLocals
<1>2. CallLocals'
  BY DEF CallLocals
<1>3. SingleFlight'
  BY DEF CallLocals, SingleFlight
<1>4. NoOrphanFollower'
  BY DEF SingleFlight, NoOrphanFollower
<1>5. ResultsOfOwnKey'
  BY DEF CallLocals, NoOrphanFollower, ResultsOfOwnKey
<1>6. OwnCancellationOnly'
  BY DEF CallLocals, ResultsOfOwnKey, OwnCancellationOnly
<1> QED  BY <1>1, <1>2, <1>3, <1>4, <1>5, <1>6

\* The fetch returns data of the leader's key, which is the flight's.
LEMMA FetchReturnStep ==
    ASSUME CoInv, NEW c \in Callers, NEW r \in Outcomes(key[c]), FetchReturn(c, r)
    PROVE  CoInv'
<1> USE CoalesceAssumption DEF CoInv, CoTypeOK, FetchReturn, Outcomes, Ok, Fail
<1>1. CoTypeOK'
  BY DEF CallLocals
<1>2. CallLocals'
  BY DEF CallLocals
<1>3. SingleFlight'
  BY DEF CallLocals, SingleFlight
<1>4. NoOrphanFollower'
  BY DEF SingleFlight, NoOrphanFollower
<1>5. ResultsOfOwnKey'
  BY DEF CallLocals, NoOrphanFollower, ResultsOfOwnKey
<1>6. OwnCancellationOnly'
  BY DEF CallLocals, ResultsOfOwnKey, OwnCancellationOnly
<1> QED  BY <1>1, <1>2, <1>3, <1>4, <1>5, <1>6

\* The leader deletes its own flight from the map and no other.
LEMMA UnregisterStep ==
    ASSUME CoInv, NEW c \in Callers, Unregister(c)
    PROVE  CoInv'
<1> USE CoalesceAssumption DEF CoInv, CoTypeOK, Unregister, Restrict
<1>1. CoTypeOK'
  BY DEF CallLocals
<1>2. CallLocals'
  BY DEF CallLocals
<1>3. SingleFlight'
  BY DEF CallLocals, SingleFlight
<1>4. NoOrphanFollower'
  BY DEF SingleFlight, NoOrphanFollower
<1>5. ResultsOfOwnKey'
  BY DEF CallLocals, NoOrphanFollower, ResultsOfOwnKey
<1>6. OwnCancellationOnly'
  BY DEF CallLocals, ResultsOfOwnKey, OwnCancellationOnly
<1> QED  BY <1>1, <1>2, <1>3, <1>4, <1>5, <1>6

\* Closing done hands every follower a result of its own key.
LEMMA CloseDoneStep ==
    ASSUME CoInv, NEW c \in Callers, CloseDone(c)
    PROVE  CoInv'
<1> USE CoalesceAssumption DEF CoInv, CoTypeOK, CloseDone, Followers
<1>1. CoTypeOK'
  BY DEF CallLocals
<1>2. CallLocals'
  BY DEF CallLocals
<1>3. SingleFlight'
  BY DEF CallLocals, SingleFlight
<1>4. NoOrphanFollower'
  BY DEF SingleFlight, NoOrphanFollower
<1>5. ResultsOfOwnKey'
  BY DEF CallLocals, NoOrphanFollower, ResultsOfOwnKey
<1>6. OwnCancellationOnly'
  BY DEF CallLocals, ResultsOfOwnKey, OwnCancellationOnly
<1> QED  BY <1>1, <1>2, <1>3, <1>4, <1>5, <1>6

\* A follower gives up with the error of its own context.
LEMMA FollowerCanceledStep ==
    ASSUME CoInv, NEW c \in Callers, FollowerCanceled(c)
    PROVE  CoInv'
<1> USE CoalesceAssumption DEF CoInv, CoTypeOK, FollowerCanceled, Fail
<1>1. CoTypeOK'
  BY DEF CallLocals
<1>2. CallLocals'
  BY DEF CallLocals
<1>3. SingleFlight'
  BY DEF CallLocals, SingleFlight
<1>4. NoOrphanFollower'
  BY DEF SingleFlight, NoOrphanFollower
<1>5. ResultsOfOwnKey'
  BY DEF CallLocals, NoOrphanFollower, ResultsOfOwnKey
<1>6. OwnCancellationOnly'
  BY DEF CallLocals, ResultsOfOwnKey, OwnCancellationOnly
<1> QED  BY <1>1, <1>2, <1>3, <1>4, <1>5, <1>6

\* A follower shares a result that is no cancellation.
LEMMA ShareStep ==
    ASSUME CoInv, NEW c \in Callers, Share(c)
    PROVE  CoInv'
<1> USE CoalesceAssumption DEF CoInv, CoTypeOK, Share
<1>1. CoTypeOK'
  BY DEF CallLocals
<1>2. CallLocals'
  BY DEF CallLocals
<1>3. SingleFlight'
  BY DEF CallLocals, SingleFlight
<1>4. NoOrphanFollower'
  BY DEF SingleFlight, NoOrphanFollower
<1>5. ResultsOfOwnKey'
  BY DEF CallLocals, NoOrphanFollower, ResultsOfOwnKey
<1>6. OwnCancellationOnly'
  BY DEF CallLocals, ResultsOfOwnKey, OwnCancellationOnly
<1> QED  BY <1>1, <1>2, <1>3, <1>4, <1>5, <1>6

\* A follower of a cancelled leader starts over with nothing.
LEMMA RetryStep ==
    ASSUME CoInv, NEW c \in Callers, Retry(c)
    PROVE  CoInv'
<1> USE CoalesceAssumption DEF CoInv, CoTypeOK, Retry
<1>1. CoTypeOK'
  BY DEF CallLocals
<1>2. CallLocals'
  BY DEF CallLocals
<1>3. SingleFlight'
  BY DEF CallLocals, SingleFlight
<1>4. NoOrphanFollower'
  BY DEF SingleFlight, NoOrphanFollower
<1>5. ResultsOfOwnKey'
  BY DEF CallLocals, NoOrphanFollower, ResultsOfOwnKey
<1>6. OwnCancellationOnly'
  BY DEF CallLocals, ResultsOfOwnKey, OwnCancellationOnly
<1> QED  BY <1>1, <1>2, <1>3, <1>4, <1>5, <1>6

\* The caller takes the result and leaves the coalescer.
LEMMA ReturnStep ==
    ASSUME CoInv, NEW c \in Callers, Return(c)
    PROVE  CoInv'
<1> USE CoalesceAssumption DEF CoInv, CoTypeOK, Return
<1>1. CoTypeOK'
  BY DEF CallLocals
<1>2. CallLocals'
  BY DEF CallLocals
<1>3. SingleFlight'
  BY DEF CallLocals, SingleFlight
<1>4. NoOrphanFollower'
  BY DEF SingleFlight, NoOrphanFollower
<1>5. ResultsOfOwnKey'
  BY DEF CallLocals, NoOrphanFollower, ResultsOfOwnKey
<1>6. OwnCancellationOnly'
  BY DEF CallLocals, ResultsOfOwnKey, OwnCancellationOnly
<1> QED  BY <1>1, <1>2, <1>3, <1>4, <1>5, <1>6

-----------------------------------------------------------------------------
\* Every step of CoalesceWithStatus and of its callers' contexts preserves
\* the invariant.
LEMMA CoNextPreserves == CoInv /\ [CoNext]_coVars => CoInv'
<1> SUFFICES ASSUME CoInv, [CoNext]_coVars PROVE CoInv'
  OBVIOUS
<1>1. CASE UNCHANGED coVars
  BY <1>1 DEF coVars, CoInv, CoTypeOK, CallLocals, SingleFlight, NoOrphanFollower,
              ResultsOfOwnKey, OwnCancellationOnly
<1>2. ASSUME NEW c \in Callers, NewContext(c) \/ ContextEnds(c)
      PROVE  CoInv'
  BY <1>2, ContextStep
<1>3. ASSUME NEW c \in Callers, NEW k \in Keys, Call(c, k)
      PROVE  CoInv'
  BY <1>3, CallStep
<1>4. ASSUME NEW c \in Callers, CoStep(c)
      PROVE  CoInv'
  BY <1>4, EnterCanceledStep, LeadStep, FollowStep, UnregisterStep, CloseDoneStep,
     FollowerCanceledStep, ShareStep, RetryStep DEF CoStep
<1>5. ASSUME NEW c \in Callers, FetchReturns(c)
      PROVE  CoInv'
  BY <1>5, FetchReturnStep DEF FetchReturns
<1>6. ASSUME NEW c \in Callers, Return(c)
      PROVE  CoInv'
  BY <1>6, ReturnStep
<1> QED  BY <1>1, <1>2, <1>3, <1>4, <1>5, <1>6 DEF CoNext

\* The inductive invariant holds of every behaviour of the coalescer.
THEOREM CoInvariant == CoSpec => []CoInv
<1>1. CoInit => CoInv
  BY CoInitial
<1>2. CoInv /\ [CoNext]_coVars => CoInv'
  BY CoNextPreserves
<1> QED  BY <1>1, <1>2, PTL DEF CoSpec

\* The coalescer's map and locals keep their types: every registered leader
\* is a caller, every key one that was asked for.
THEOREM CoTypeCorrect == CoSpec => []CoTypeOK
BY CoInvariant, PTL DEF CoInv

\* At most one fetch per key is in flight, for any number of callers and keys.
THEOREM SingleFlightHolds == CoSpec => []SingleFlight
BY CoInvariant, PTL DEF CoInv

\* No follower ever waits on a flight whose done channel is already closed.
THEOREM NoOrphanFollowerHolds == CoSpec => []NoOrphanFollower
BY CoInvariant, PTL DEF CoInv

\* No follower returns somebody else's cancellation.
THEOREM OwnCancellationOnlyHolds == CoSpec => []OwnCancellationOnly
BY CoInvariant, PTL DEF CoInv

\* Data returned to a caller, shared or fetched, is data of its own key.
THEOREM ResultOfOwnKeyHolds == CoSpec => []ResultOfOwnKey
<1>1. CoInv => ResultOfOwnKey
  BY DEF CoInv, ResultsOfOwnKey, ResultOfOwnKey
<1> QED  BY <1>1, CoInvariant, PTL
=============================================================================
