------------------------------- MODULE TTLMap -------------------------------
(***************************************************************************)
(* What the register cache promises its readers: a map in which a stored   *)
(* value can be read until it is removed, overwritten or outlives its TTL; *)
(* with KeepStale it never outlives anything.  There is no cleanup here:   *)
(* unless a call asks for it, an implementation may only forget what no    *)
(* reader could have seen.                                                 *)
(***************************************************************************)
EXTENDS Integers, Functions

CONSTANTS RegKeys, Values, TTL, KeepStale

VARIABLES
    visible,    \* what a reader can see
    now,
    call        \* the last call that stores or removes

\* The part of a map that a reader can still see at time t.
Live(m, t) == IF KeepStale THEN m
              ELSE Restrict(m, {k \in DOMAIN m : t - m[k].ts <= TTL})

Init == visible = [k \in {} |-> 0] /\ now = 0 /\ call = [op |-> "none"]

Store(K, v) ==
    /\ call' = [op |-> "store", vals |-> v]
    /\ visible' = Live([k \in DOMAIN visible \cup K |->
                            IF k \in K THEN [data |-> v[k], ts |-> now]
                            ELSE visible[k]], now)
    /\ UNCHANGED now

Remove(K) ==
    /\ call' = [op |-> "remove", keys |-> K]
    /\ visible' = Restrict(visible, DOMAIN visible \ K)
    /\ UNCHANGED now

Advance ==
    /\ now' = now + 1
    /\ visible' = Live(visible, now')
    /\ UNCHANGED call

Next ==
    \/ \E K \in SUBSET RegKeys : \/ \E v \in [K -> Values] : Store(K, v)
                                 \/ Remove(K)
    \/ Advance

Spec == Init /\ [][Next]_<<visible, now, call>>
=============================================================================
