----------------------------- MODULE CacheSpec -----------------------------
(***************************************************************************)
(* The register cache on its own: any sequence of its operations, with the *)
(* cleanup goroutine and the clock, and what it promises.                  *)
(***************************************************************************)
EXTENDS Cache

CONSTANTS
    Values,         \* what is stored
    MaxQuantity     \* bound on the length of a range

ASSUME CacheSpecAssumption == MaxQuantity \in Nat

\* The last call that changes the cache, with its arguments: what its users
\* asked for, as opposed to what the cleanup goroutine does on its own.
VARIABLE call

NoCall       == [op |-> "none"]
Storing(v)   == [op |-> "store", vals |-> v]
Removing(K)  == [op |-> "remove", keys |-> K]

CacheTypeOK ==
    /\ DOMAIN entries \subseteq RegKeys
    /\ \A k \in DOMAIN entries : entries[k] \in [data : Values, ts : Nat]
    /\ now \in Nat

Init == CacheInit /\ call = NoCall

CacheNext ==
    \/ \E k \in RegKeys :
          \/ \E v \in Values : Set(k, v) /\ call' = Storing([x \in {k} |-> v])
          \/ Delete(k) /\ call' = Removing({k})
    \/ \E s \in SlaveIDs, f \in FunctionCodes, a \in Addrs, q \in 0 .. MaxQuantity :
          \/ \E vals \in [RangeAddrs(a, q) -> Values] :
                /\ SetRange(s, f, vals)
                /\ call' = Storing([k \in RangeKeys(s, f, a, q) |-> vals[k[3]]])
          \/ DeleteRange(s, f, a, q) /\ call' = Removing(RangeKeys(s, f, a, q))
    \/ CleanupOnce /\ UNCHANGED call
    \/ Tick /\ UNCHANGED call

Spec == Init /\ [][CacheNext]_<<cacheVars, call>>

-----------------------------------------------------------------------------
(* What a reader can see of the cache: GetStale when stale data is kept     *)
(* for it, Get otherwise.                                                   *)
Visible == IF KeepStale THEN entries
           ELSE Restrict(entries, {k \in DOMAIN entries : ~IsExpired(entries[k])})

Promise == INSTANCE TTLMap WITH visible <- Visible

\* The cache implements the map with expiry: a call stores or removes exactly
\* the registers it names, the cleanup goroutine, whenever its ticker runs it,
\* never takes away a value a reader could have seen (a fresh one, or any one
\* when stale data is kept), and a value is seen with the time of its last
\* store.
ImplementsTTLMap == Promise!Spec
=============================================================================
