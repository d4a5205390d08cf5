------------------------------- MODULE MCCache -------------------------------
(***************************************************************************)
(* Model checking of the cache: its registers (CacheSpec) and its flights  *)
(* (Coalesce).  The two have locks and state of their own: a behaviour is  *)
(* one of the registers or one of the flights.  A fetch for key k returns  *)
(* k, so data of different keys can be told apart.                         *)
(***************************************************************************)
EXTENDS CacheSpec, Coalesce

CONSTANTS c1, c2, c3, k1, k2

MCCallers  == {c1, c2, c3}
MCTwoKeys  == {k1, k2}
MCFetch(k) == {k}

VARIABLE part       \* "registers" or "flights"

registerVars == <<cacheVars, call>>

PartsInit == Init /\ CoInit /\ part \in {"registers", "flights"}

PartsNext ==
    \/ part = "registers" /\ CacheNext /\ UNCHANGED <<part, coVars>>
    \/ part = "flights" /\ CoNext /\ UNCHANGED <<part, registerVars>>

\* The fairness speaks of callers that have called, and so of flights only.
PartsSpec == PartsInit /\ [][PartsNext]_<<part, registerVars, coVars>> /\ CoFairness
=============================================================================
