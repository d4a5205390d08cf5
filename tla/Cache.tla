-------------------------------- MODULE Cache --------------------------------
(***************************************************************************)
(* The in-memory register cache (internal/cache/cache.go, without the      *)
(* coalescing half, which is module Coalesce).  Every operation holds      *)
(* c.mu for its whole body and is therefore one atomic step.               *)
(*                                                                         *)
(* The text "slave:function:address" that RegKey formats determines its    *)
(* three numbers, so a key is the triple of them.                          *)
(***************************************************************************)
EXTENDS Addresses, Functions

CONSTANTS
    SlaveIDs, FunctionCodes,
    TTL,            \* defaultTTL in ticks; Load accepts zero and negatives
    KeepStale,      \* cleanup must not delete (CacheServeStale)
    MaxTime         \* bound on the clock of a finite model

ASSUME CacheAssumption ==
    /\ TTL \in Int
    /\ KeepStale \in BOOLEAN
    /\ MaxTime \in Nat

VARIABLES
    entries,    \* c.entries: register key -> value and time it was stored
    now         \* the clock that time.Now reads

cacheVars == <<entries, now>>

RegKeys == SlaveIDs \X FunctionCodes \X Addrs

CacheInit == entries = [k \in {} |-> 0] /\ now = 0

-----------------------------------------------------------------------------
RegKey(s, f, a) == <<s, f, a>>

RangeKeys(s, f, a, q) == {RegKey(s, f, x) : x \in RangeAddrs(a, q)}

IsExpired(e) == now - e.ts > TTL

Get(k)      == k \in DOMAIN entries /\ ~IsExpired(entries[k])
GetStale(k) == k \in DOMAIN entries

\* A range is answered from the cache only as a whole.
GetRange(s, f, a, q)      == q # 0 /\ \A k \in RangeKeys(s, f, a, q) : Get(k)
GetRangeStale(s, f, a, q) == q # 0 /\ \A k \in RangeKeys(s, f, a, q) : GetStale(k)

\* The values of a range, by address.
RangeValues(s, f, a, q) == [x \in RangeAddrs(a, q) |-> entries[RegKey(s, f, x)].data]

-----------------------------------------------------------------------------
Stored(K, v) == [k \in DOMAIN entries \cup K |->
                    IF k \in K THEN [data |-> v[k], ts |-> now] ELSE entries[k]]

Without(K) == Restrict(entries, DOMAIN entries \ K)

Set(k, v) ==
    /\ entries' = Stored({k}, [x \in {k} |-> v])
    /\ UNCHANGED now

Delete(k) ==
    /\ entries' = Without({k})
    /\ UNCHANGED now

\* vals: address -> value, for the addresses of the range
SetRange(s, f, vals) ==
    /\ entries' = Stored({RegKey(s, f, x) : x \in DOMAIN vals},
                         [k \in {RegKey(s, f, x) : x \in DOMAIN vals} |-> vals[k[3]]])
    /\ UNCHANGED now

DeleteRange(s, f, a, q) ==
    /\ entries' = Without(RangeKeys(s, f, a, q))
    /\ UNCHANGED now

\* Defect: an entry is deleted when it reaches its TTL, not when it has
\* passed it.
CleanupEarly ==
    /\ ~KeepStale
    /\ entries' = Restrict(entries, {k \in DOMAIN entries : now - entries[k].ts < TTL})
    /\ UNCHANGED now

\* The body of cleanupOnce, run by the ticker of the cleanup goroutine.
CleanupOnce ==
    /\ ~KeepStale
    /\ entries' = Restrict(entries, {k \in DOMAIN entries : ~IsExpired(entries[k])})
    /\ UNCHANGED now

Tick ==
    /\ now < MaxTime
    /\ now' = now + 1
    /\ UNCHANGED entries
=============================================================================
