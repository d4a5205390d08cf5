------------------------------ MODULE Coalesce ------------------------------
(***************************************************************************)
(* Request coalescing of the cache (internal/cache/cache.go,               *)
(* CoalesceWithStatus).  Callers that ask for the same key while a fetch   *)
(* for it is in flight follow the caller that leads the fetch and share    *)
(* its outcome; a follower whose leader was cancelled starts over.         *)
(*                                                                         *)
(* The fetch function is a parameter of the code and an environment step   *)
(* here: FetchReturn hands the leader any outcome the fetch may have.      *)
(***************************************************************************)
EXTENDS Naturals, Functions

CONSTANTS
    Callers,    \* the goroutines that call CoalesceWithStatus
    Keys,       \* coalescing keys
    Payload,    \* the data a fetch can return
    Fetch(_),   \* Fetch(k): the data a fetch for key k can return
    Errors,     \* kinds of error a fetch can return; "ctx" is any error that
                \* errors.Is reports as Canceled or DeadlineExceeded
    None        \* "nil": no key, no leader, no result

ASSUME CoalesceAssumption ==
    /\ None \notin Callers
    /\ "ctx" \in Errors /\ "none" \notin Errors
    /\ \A k \in Keys : Fetch(k) \subseteq Payload
    /\ None \notin [err : Errors \cup {"none"}, data : Payload \cup {None}]

Ok(d)   == [err |-> "none", data |-> d]
Fail(e) == [err |-> e, data |-> None]

Outcomes(k) == {Ok(d) : d \in Fetch(k)} \cup {Fail(e) : e \in Errors}

VARIABLES
    inflight,   \* the map key -> inflightRequest, named by its leader
    cpc,        \* where each caller is in CoalesceWithStatus
    key,        \* the key each caller asks for
    leader,     \* the flight each follower waits on
    res,        \* leader: req.result/req.err; woken follower: a copy of them
    coalesced,  \* CoalesceResult.Coalesced of the outcome to be returned
    ctx         \* the context of each caller's request, as ctx.Err() sees it

coVars == <<inflight, cpc, key, leader, res, coalesced, ctx>>

CoTypeOK ==
    /\ DOMAIN inflight \subseteq Keys
    /\ \A k \in DOMAIN inflight : inflight[k] \in Callers
    /\ cpc \in [Callers -> {"idle", "enter", "fetch", "publish", "close",
                            "wait", "woken", "return"}]
    /\ key \in [Callers -> Keys \cup {None}]
    /\ leader \in [Callers -> Callers \cup {None}]
    /\ res \in [Callers -> [err : Errors \cup {"none"},
                            data : Payload \cup {None}] \cup {None}]
    /\ coalesced \in [Callers -> BOOLEAN]
    /\ ctx \in [Callers -> {"active", "done"}]

CoInit ==
    /\ inflight = [k \in {} |-> None]
    /\ cpc = [c \in Callers |-> "idle"]
    /\ key = [c \in Callers |-> None]
    /\ leader = [c \in Callers |-> None]
    /\ res = [c \in Callers |-> None]
    /\ coalesced = [c \in Callers |-> FALSE]
    /\ ctx = [c \in Callers |-> "active"]

-----------------------------------------------------------------------------
(* The request context of a caller. *)

\* A new request brings a new context.
NewContext(c) ==
    /\ cpc[c] = "idle"
    /\ ctx' = [ctx EXCEPT ![c] = "active"]
    /\ UNCHANGED <<inflight, cpc, key, leader, res, coalesced>>

\* The request times out or the proxy shuts down.
ContextEnds(c) ==
    /\ ctx[c] = "active"
    /\ ctx' = [ctx EXCEPT ![c] = "done"]
    /\ UNCHANGED <<inflight, cpc, key, leader, res, coalesced>>

-----------------------------------------------------------------------------
(* CoalesceWithStatus. *)

Call(c, k) ==
    /\ cpc[c] = "idle"
    /\ cpc' = [cpc EXCEPT ![c] = "enter"]
    /\ key' = [key EXCEPT ![c] = k]
    /\ UNCHANGED <<inflight, leader, res, coalesced, ctx>>

\* The loop head finds the context done.
EnterCanceled(c) ==
    /\ cpc[c] = "enter"
    /\ ctx[c] = "done"
    /\ cpc' = [cpc EXCEPT ![c] = "return"]
    /\ res' = [res EXCEPT ![c] = Fail("ctx")]
    /\ UNCHANGED <<inflight, key, leader, coalesced, ctx>>

\* Defect: the flight is registered without looking for an existing one.
LeadUnchecked(c) ==
    /\ cpc[c] = "enter"
    /\ ctx[c] # "done"
    /\ inflight' = [k \in DOMAIN inflight \cup {key[c]} |->
                        IF k = key[c] THEN c ELSE inflight[k]]
    /\ cpc' = [cpc EXCEPT ![c] = "fetch"]
    /\ UNCHANGED <<key, leader, res, coalesced, ctx>>

\* No flight for the key: register one and run the fetch.
Lead(c) ==
    /\ cpc[c] = "enter"
    /\ ctx[c] # "done"
    /\ key[c] \notin DOMAIN inflight
    /\ inflight' = [k \in DOMAIN inflight \cup {key[c]} |->
                        IF k = key[c] THEN c ELSE inflight[k]]
    /\ cpc' = [cpc EXCEPT ![c] = "fetch"]
    /\ UNCHANGED <<key, leader, res, coalesced, ctx>>

\* Defect: any flight is followed, whatever its key.
FollowAny(c) ==
    /\ cpc[c] = "enter"
    /\ ctx[c] # "done"
    /\ DOMAIN inflight # {}
    /\ \E k \in DOMAIN inflight : leader' = [leader EXCEPT ![c] = inflight[k]]
    /\ cpc' = [cpc EXCEPT ![c] = "wait"]
    /\ UNCHANGED <<inflight, key, res, coalesced, ctx>>

\* There is a flight: follow it.
Follow(c) ==
    /\ cpc[c] = "enter"
    /\ ctx[c] # "done"
    /\ key[c] \in DOMAIN inflight
    /\ leader' = [leader EXCEPT ![c] = inflight[key[c]]]
    /\ cpc' = [cpc EXCEPT ![c] = "wait"]
    /\ UNCHANGED <<inflight, key, res, coalesced, ctx>>

\* The leader's fetch returns; a success that comes after the leader's own
\* context ended is turned into the context's error.
FetchReturn(c, r) ==
    /\ cpc[c] = "fetch"
    /\ res' = [res EXCEPT ![c] = IF r.err = "none" /\ ctx[c] = "done"
                                 THEN [r EXCEPT !.err = "ctx"] ELSE r]
    /\ cpc' = [cpc EXCEPT ![c] = "publish"]
    /\ UNCHANGED <<inflight, key, leader, coalesced, ctx>>

\* Defect: the flight stays in the map when done is closed, so a caller can
\* still find it and wait for a close that has already happened.
UnregisterLate(c) ==
    /\ cpc[c] = "publish"
    /\ cpc' = [cpc EXCEPT ![c] = "close"]
    /\ UNCHANGED <<inflight, key, leader, res, coalesced, ctx>>

\* delete(c.inflight, key): later callers start a flight of their own.
Unregister(c) ==
    /\ cpc[c] = "publish"
    /\ inflight' = Restrict(inflight, DOMAIN inflight \ {key[c]})
    /\ cpc' = [cpc EXCEPT ![c] = "close"]
    /\ UNCHANGED <<key, leader, res, coalesced, ctx>>

Followers(c) == {f \in Callers : cpc[f] = "wait" /\ leader[f] = c}

\* close(req.done).  A closed flight never changes again, so each follower
\* can be given its copy of the result here.  The leader returns.
CloseDone(c) ==
    /\ cpc[c] = "close"
    /\ cpc' = [f \in Callers |-> IF f = c THEN "return"
                                 ELSE IF f \in Followers(c) THEN "woken" ELSE cpc[f]]
    /\ res' = [f \in Callers |-> IF f \in Followers(c) THEN res[c] ELSE res[f]]
    /\ UNCHANGED <<inflight, key, leader, coalesced, ctx>>

\* Defect: a waiting follower looks at its context only once done is closed.
FollowerCanceledLate(c) ==
    /\ cpc[c] = "woken"
    /\ ctx[c] = "done"
    /\ cpc' = [cpc EXCEPT ![c] = "return"]
    /\ res' = [res EXCEPT ![c] = Fail("ctx")]
    /\ coalesced' = [coalesced EXCEPT ![c] = TRUE]
    /\ leader' = [leader EXCEPT ![c] = None]
    /\ UNCHANGED <<inflight, key, ctx>>

\* The follower's context ends before it has taken the result.
FollowerCanceled(c) ==
    /\ cpc[c] \in {"wait", "woken"}
    /\ ctx[c] = "done"
    /\ cpc' = [cpc EXCEPT ![c] = "return"]
    /\ res' = [res EXCEPT ![c] = Fail("ctx")]
    /\ coalesced' = [coalesced EXCEPT ![c] = TRUE]
    /\ leader' = [leader EXCEPT ![c] = None]
    /\ UNCHANGED <<inflight, key, ctx>>

\* Defect: the leader's cancellation is shared like any other failure.
ShareCancellation(c) ==
    /\ cpc[c] = "woken"
    /\ ctx[c] # "done"
    /\ cpc' = [cpc EXCEPT ![c] = "return"]
    /\ coalesced' = [coalesced EXCEPT ![c] = TRUE]
    /\ leader' = [leader EXCEPT ![c] = None]
    /\ UNCHANGED <<inflight, key, res, ctx>>

\* The follower shares the leader's data or its failure.
Share(c) ==
    /\ cpc[c] = "woken"
    /\ ctx[c] # "done"
    /\ res[c].err # "ctx"
    /\ cpc' = [cpc EXCEPT ![c] = "return"]
    /\ coalesced' = [coalesced EXCEPT ![c] = TRUE]
    /\ leader' = [leader EXCEPT ![c] = None]
    /\ UNCHANGED <<inflight, key, res, ctx>>

\* The leader was cancelled, this follower was not: go round the loop.
Retry(c) ==
    /\ cpc[c] = "woken"
    /\ ctx[c] # "done"
    /\ res[c].err = "ctx"
    /\ cpc' = [cpc EXCEPT ![c] = "enter"]
    /\ res' = [res EXCEPT ![c] = None]
    /\ leader' = [leader EXCEPT ![c] = None]
    /\ UNCHANGED <<inflight, key, coalesced, ctx>>

\* The caller takes the returned values; its stack frame is gone.
Return(c) ==
    /\ cpc[c] = "return"
    /\ cpc' = [cpc EXCEPT ![c] = "idle"]
    /\ key' = [key EXCEPT ![c] = None]
    /\ res' = [res EXCEPT ![c] = None]
    /\ coalesced' = [coalesced EXCEPT ![c] = FALSE]
    /\ UNCHANGED <<inflight, leader, ctx>>

-----------------------------------------------------------------------------
\* The steps the code takes by itself once it has been called.
CoStep(c) ==
    \/ EnterCanceled(c) \/ Lead(c) \/ Follow(c)
    \/ Unregister(c) \/ CloseDone(c)
    \/ FollowerCanceled(c) \/ Share(c) \/ Retry(c)

FetchReturns(c) == cpc[c] = "fetch" /\ \E r \in Outcomes(key[c]) : FetchReturn(c, r)

CoNext ==
    \E c \in Callers :
        \/ NewContext(c) \/ ContextEnds(c)
        \/ \E k \in Keys : Call(c, k)
        \/ CoStep(c)
        \/ FetchReturns(c)
        \/ Return(c)

CoSpec == CoInit /\ [][CoNext]_coVars

(***************************************************************************)
(* Fairness: a goroutine that can run does run, and the context of a       *)
(* request ends, because the server gives every request a deadline and     *)
(* Load refuses a RequestTimeout that is not positive.  Nothing is assumed *)
(* of the fetch: it may never return.                                      *)
(***************************************************************************)
CoFairness ==
    \A c \in Callers : /\ WF_coVars(CoStep(c))
                       /\ WF_coVars(cpc[c] # "idle" /\ ContextEnds(c))

-----------------------------------------------------------------------------
(* Properties. *)

\* "Only one fetch runs for a given key at a time": the callers inside the
\* fetch, or past it and not yet unregistered, are exactly the registered
\* leaders, one for each key of the in-flight map.
SingleFlight ==
    /\ \A k \in DOMAIN inflight : /\ cpc[inflight[k]] \in {"fetch", "publish"}
                                  /\ key[inflight[k]] = k
    /\ \A c \in Callers : cpc[c] \in {"fetch", "publish"} =>
                            /\ key[c] \in DOMAIN inflight
                            /\ inflight[key[c]] = c

\* No wake-up is lost between delete and close: a follower that is still
\* waiting waits on a caller that leads a fetch for the same key and has not
\* closed its done channel yet.
NoOrphanFollower ==
    \A f \in Callers : cpc[f] = "wait" =>
        /\ leader[f] \in Callers
        /\ cpc[leader[f]] \in {"fetch", "publish", "close"}
        /\ key[leader[f]] = key[f]

\* A follower is never failed by somebody else's cancellation: a shared
\* outcome that is a context error is the follower's own context's.
OwnCancellationOnly ==
    \A c \in Callers :
        (cpc[c] = "return" /\ coalesced[c] /\ res[c].err = "ctx") => ctx[c] = "done"

\* Whoever fetched it, the data a caller returns was fetched for the key
\* that this caller asked for.
ResultOfOwnKey ==
    \A c \in Callers :
        (cpc[c] = "return" /\ res[c].err = "none") => res[c].data \in Fetch(key[c])

\* No caller is held by another one: a call returns or comes to lead a fetch
\* of its own, although the fetch it follows may hang and although one
\* cancelled leader after another may send it round the loop.
NotHeldByLeader ==
    \A c \in Callers : cpc[c] = "enter" ~> cpc[c] \in {"return", "fetch"}
=============================================================================
