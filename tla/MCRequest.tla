------------------------------- MODULE MCRequest -------------------------------
(***************************************************************************)
(* Model checking of what one request gets: Budget with every combination  *)
(* of the durations that matter and each other variable unset, bad and     *)
(* good, and Errors.  The two share no state: a behaviour is one of Budget *)
(* or one of Errors.                                                       *)
(***************************************************************************)
EXTENDS Budget, Errors

VARIABLE part       \* "budget" or "errors"

requestVars == <<part, budgetVars, errorVars>>

Unsets == [upstream |-> 1, slave |-> Unset, ttl |-> Unset, readonly |-> Unset,
           attempt |-> Unset, timeout |-> Unset, request |-> Unset,
           requestDelay |-> Unset, connectDelay |-> Unset, shutdown |-> Unset]

Timed == {[Unsets EXCEPT !.attempt = a, !.timeout = t, !.request = r,
                         !.requestDelay = q, !.connectDelay = c] :
             a \in {Unset, Bad, -1, 0, 1, 2, 3}, t \in {Unset, Bad, 0, 1, 3},
             r \in {Unset, Bad, 0, 1, 2, 5, MaxDuration},
             q \in {Unset, Bad, -1, 1, 2}, c \in {Unset, Bad, -1, 1, 2}}

MCEnvs ==
    Timed \cup {[Unsets EXCEPT ![v] = x] : v \in {"slave", "ttl", "shutdown"}, x \in {Bad, 0}}
          \cup {[Unsets EXCEPT !.readonly = x] : x \in {Bad, "false", "true", "deny"}}
          \cup {[Unsets EXCEPT !.upstream = Unset]}

RequestInit ==
    /\ ErrorInit
    /\ \/ part = "budget" /\ BudgetInit
       \/ /\ part = "errors"
          /\ phase = "exit" /\ env = Unset /\ cfg = Unset /\ warned = FALSE
          /\ attempt = 0 /\ session = FALSE /\ slotReady = FALSE
          /\ slotAt = 0 /\ elapsed = 0 /\ queued = 0 /\ dialled = 0 /\ granted = Unset

RequestNext ==
    \/ part = "budget" /\ BudgetNext /\ UNCHANGED <<part, errorVars>>
    \/ part = "errors" /\ ErrorNext /\ UNCHANGED <<part, budgetVars>>

RequestSpec == RequestInit /\ [][RequestNext]_requestVars
===============================================================================
