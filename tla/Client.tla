-------------------------------- MODULE Client --------------------------------
(***************************************************************************)
(* The upstream client (internal/modbus/client.go): the owner token, the   *)
(* session and its guarded connection, request pacing, the retry of        *)
(* Execute, and Connect and Close.                                         *)
(*                                                                         *)
(* A call is one execution of Execute, Connect or Close by some goroutine. *)
(* Execute's request is a read, or a write or opaque request, which it     *)
(* treats alike; it has passed ValidateRequest.  The network, the device   *)
(* and the Modbus library are external: a request written to a connection  *)
(* is received by the device at any later time or never, and the library   *)
(* answers or fails within the deadline of the connection.                 *)
(***************************************************************************)
EXTENDS Health, FiniteSets

CONSTANTS
    Calls,
    Kind,           \* call -> "read", "write", "connect" or "close"
    RequestDelay,   \* requestDelay, in ticks of the clock
    MaxTime,        \* bound: the clock
    None

\* The guarded connections, with the attempts <<c, n>> written and not answered.
Conns == [ctx : Calls \cup {None}, canceledErr : BOOLEAN,
          deadline : {"unset", "ahead", "past"}, unanswered : SUBSET (Calls \X {1, 2})]

ASSUME ClientAssumption ==
    /\ Kind \in [Calls -> {"read", "write", "connect", "close"}]
    /\ RequestDelay \in Nat /\ MaxTime \in Nat
    /\ None \notin Calls /\ None \notin Conns

VARIABLES
    pc,             \* where each call is
    ctx,            \* its context: "active", "late" (the deadline has passed,
                    \* the timer has not fired), "deadline" or "canceled"
    attempt,        \* Execute's local variables
    requestSlotReady,
    err,            \* "none" or the kind of the error
    responseCompletedAt,
    watchdog,       \* the goroutine of BeginRequest
    owner,          \* who took the token from the owner channel, or None
    session,        \* None, or the guarded connection of the open session
    nextRequestAt,
    health,         \* module Health
    now,
    sent, received  \* external: attempts <<c, n>> written, and received

callVars == <<pc, attempt, requestSlotReady, err, responseCompletedAt>>
wireVars == <<sent, received>>
vars == <<callVars, ctx, watchdog, owner, session, nextRequestAt, health, now, wireVars>>

Executes == {c \in Calls : Kind[c] \in {"read", "write"}}

\* newGuardedConn, and the requests written to it that were not answered.
NewConn == [ctx |-> None, canceledErr |-> FALSE, deadline |-> "unset", unanswered |-> {}]

Init ==
    /\ pc = [c \in Calls |-> "start"]
    /\ ctx = [c \in Calls |-> "active"]
    /\ attempt = [c \in Calls |-> 1]
    /\ requestSlotReady = [c \in Calls |-> FALSE]
    /\ err = [c \in Calls |-> "none"]
    /\ responseCompletedAt = [c \in Calls |-> Never]
    /\ watchdog = [c \in Calls |-> "stopped"]
    /\ owner = None
    /\ session = None
    /\ nextRequestAt = Never
    /\ health = NewHealth
    /\ now = 1
    /\ sent = {} /\ received = {}

-----------------------------------------------------------------------------
(* Contexts. *)

\* ctx.Err() and contextError(ctx).  The latter also looks at the clock.
CtxErr(c)       == IF ctx[c] \in {"deadline", "canceled"} THEN ctx[c] ELSE "none"
ContextError(c) == IF ctx[c] = "late" THEN "deadline" ELSE CtxErr(c)
Alive(c)        == ContextError(c) = "none"

\* Connect and Close use context.Background().
ContextEnds(c) ==
    /\ c \in Executes /\ pc[c] # "done"
    /\ \/ ctx[c] = "active" /\ ctx' = [ctx EXCEPT ![c] = "late"]
       \/ ctx[c] = "late" /\ ctx' = [ctx EXCEPT ![c] = "deadline"]
       \/ ctx[c] \in {"active", "late"} /\ ctx' = [ctx EXCEPT ![c] = "canceled"]
    /\ UNCHANGED <<callVars, watchdog, owner, session, nextRequestAt, health, now, wireVars>>

Goto(c, l) == pc' = [pc EXCEPT ![c] = l]

GotoWith(c, l, e) == Goto(c, l) /\ err' = [err EXCEPT ![c] = e]

-----------------------------------------------------------------------------
(* acquire and release. *)

\* acquire fails before it has the token.
AcquireCanceled(c) ==
    /\ pc[c] \in {"start", "select"}
    /\ CtxErr(c) # "none"
    /\ GotoWith(c, "done", CtxErr(c))
    /\ UNCHANGED <<ctx, attempt, requestSlotReady, responseCompletedAt, watchdog, owner,
                   session, nextRequestAt, health, now, wireVars>>

Enter(c) ==
    /\ pc[c] = "start"
    /\ CtxErr(c) = "none"
    /\ Goto(c, "select")
    /\ UNCHANGED <<ctx, attempt, requestSlotReady, err, responseCompletedAt, watchdog, owner,
                   session, nextRequestAt, health, now, wireVars>>

\* select may choose the token although the context is done.
TakeToken(c) ==
    /\ pc[c] = "select"
    /\ owner = None
    /\ owner' = c
    /\ Goto(c, "acquired")
    /\ UNCHANGED <<ctx, attempt, requestSlotReady, err, responseCompletedAt, watchdog,
                   session, nextRequestAt, health, now, wireVars>>

\* Defect: the token is not given back when the context is done.
RecheckKeepsToken(c) ==
    /\ pc[c] = "acquired"
    /\ IF CtxErr(c) # "none" THEN GotoWith(c, "done", CtxErr(c))
                             ELSE Goto(c, "attempt") /\ UNCHANGED err
    /\ UNCHANGED <<ctx, attempt, requestSlotReady, responseCompletedAt, watchdog, owner,
                   session, nextRequestAt, health, now, wireVars>>

Recheck(c) ==
    /\ pc[c] = "acquired"
    /\ \/ /\ CtxErr(c) # "none"
          /\ owner' = None
          /\ GotoWith(c, "done", CtxErr(c))
       \/ /\ CtxErr(c) = "none"
          /\ Goto(c, "attempt")
          /\ UNCHANGED <<owner, err>>
    /\ UNCHANGED <<ctx, attempt, requestSlotReady, responseCompletedAt, watchdog,
                   session, nextRequestAt, health, now, wireVars>>

Release(c) ==
    /\ pc[c] = "release"
    /\ owner' = None
    /\ Goto(c, "done")
    /\ UNCHANGED <<ctx, attempt, requestSlotReady, err, responseCompletedAt, watchdog,
                   session, nextRequestAt, health, now, wireVars>>

-----------------------------------------------------------------------------
(* connectLocked, for Execute without a session and for Connect; Close. *)

Connecting(c) ==
    /\ pc[c] = "attempt"
    /\ Kind[c] = "connect" \/ (c \in Executes /\ session = None)

ConnectLocked(c) ==
    /\ Connecting(c)
    /\ session' = NewConn
    /\ health' = Connected(health)
    /\ Goto(c, IF Kind[c] = "connect" THEN "release" ELSE "slot")
    /\ UNCHANGED <<ctx, attempt, requestSlotReady, err, responseCompletedAt, watchdog, owner,
                   nextRequestAt, now, wireVars>>

\* The kinds connectLocked fails with: a dial that times out looks like a
\* context's deadline, whichever timer fired.
ConnectErrors(c) == TransportKinds \cup {"local", "deadline"} \cup ({CtxErr(c)} \ {"none"})

ConnectLockedFails(c, k) ==
    /\ Connecting(c)
    /\ session' = None
    /\ health' = ConnectFailed(health, k)
    /\ GotoWith(c, IF Kind[c] = "connect" THEN "release" ELSE "failed", k)
    /\ UNCHANGED <<ctx, attempt, requestSlotReady, responseCompletedAt, watchdog, owner,
                   nextRequestAt, now, wireVars>>

Close(c) ==
    /\ pc[c] = "attempt" /\ Kind[c] = "close"
    /\ session' = None
    /\ health' = Disconnected(health)
    /\ Goto(c, "release")
    /\ UNCHANGED <<ctx, attempt, requestSlotReady, err, responseCompletedAt, watchdog, owner,
                   nextRequestAt, now, wireVars>>

UseSession(c) ==
    /\ pc[c] = "attempt" /\ c \in Executes
    /\ session # None
    /\ Goto(c, "slot")
    /\ UNCHANGED <<ctx, attempt, requestSlotReady, err, responseCompletedAt, watchdog, owner,
                   session, nextRequestAt, health, now, wireVars>>

-----------------------------------------------------------------------------
(* Execute, up to the wire. *)

\* Defect: a request that has reconnected does not wait for its slot.
SlotReadyUnpaced(c) ==
    /\ pc[c] = "slot"
    /\ Alive(c)
    /\ requestSlotReady' = [requestSlotReady EXCEPT ![c] = TRUE]
    /\ Goto(c, "begin")
    /\ UNCHANGED <<ctx, attempt, err, responseCompletedAt, watchdog, owner, session,
                   nextRequestAt, health, now, wireVars>>

\* waitForRequestSlot, which a retry skips, and the checks of the context
\* before BeginRequest.
SlotReady(c) ==
    /\ pc[c] = "slot"
    /\ requestSlotReady[c] \/ now >= nextRequestAt
    /\ Alive(c)
    /\ requestSlotReady' = [requestSlotReady EXCEPT ![c] = TRUE]
    /\ Goto(c, "begin")
    /\ UNCHANGED <<ctx, attempt, err, responseCompletedAt, watchdog, owner, session,
                   nextRequestAt, health, now, wireVars>>

SlotRefused(c) ==
    /\ pc[c] = "slot"
    /\ requestSlotReady[c] \/ now >= nextRequestAt \/ CtxErr(c) # "none"
    /\ ~Alive(c)
    /\ GotoWith(c, "final", ContextError(c))
    /\ UNCHANGED <<ctx, attempt, requestSlotReady, responseCompletedAt, watchdog, owner,
                   session, nextRequestAt, health, now, wireVars>>

\* BeginRequest binds the connection to the context, clamps its deadline and
\* starts the watchdog.
BeginRequest(c) ==
    /\ pc[c] = "begin"
    /\ session' = [session EXCEPT !.ctx = c, !.canceledErr = ~Alive(c),
                                  !.deadline = IF Alive(c) THEN "ahead" ELSE "past"]
    /\ watchdog' = [watchdog EXCEPT ![c] = "running"]
    /\ Goto(c, "bound")
    /\ UNCHANGED <<ctx, attempt, requestSlotReady, err, responseCompletedAt, owner,
                   nextRequestAt, health, now, wireVars>>

\* finishRequest closes the stop channel.
StopWatchdog(c) ==
    watchdog' = [watchdog EXCEPT ![c] = IF @ = "running" THEN "stopping" ELSE @]

\* The context is checked once more.
Bound(c) ==
    /\ pc[c] = "bound"
    /\ \/ /\ Alive(c)
          /\ Goto(c, "write")
          /\ UNCHANGED <<err, watchdog>>
       \/ /\ ~Alive(c)
          /\ GotoWith(c, "refused", ContextError(c))
          /\ StopWatchdog(c)
    /\ UNCHANGED <<ctx, attempt, requestSlotReady, responseCompletedAt, owner, session,
                   nextRequestAt, health, now, wireVars>>

-----------------------------------------------------------------------------
(* The guarded connection: its watchdog, Write, and the response. *)

\* The context ends first, or both channels are ready: cancel sets the
\* deadline of the connection to now unless it is unbound.
WatchdogCancels(c) ==
    /\ watchdog[c] \in {"running", "stopping"}
    /\ CtxErr(c) # "none"
    /\ watchdog' = [watchdog EXCEPT ![c] = "stopped"]
    /\ session' = IF session = None \/ session.ctx = None THEN session
                  ELSE [session EXCEPT !.canceledErr = TRUE, !.deadline = "past"]
    /\ UNCHANGED <<callVars, ctx, owner, nextRequestAt, health, now, wireVars>>

WatchdogStops(c) ==
    /\ watchdog[c] = "stopping"
    /\ watchdog' = [watchdog EXCEPT ![c] = "stopped"]
    /\ UNCHANGED <<callVars, ctx, owner, session, nextRequestAt, health, now, wireVars>>

\* guardedConn.Write refuses when requestErrorLocked finds the request over;
\* that its own deadline has passed is reported as a context's deadline.
WriteRefused(c) ==
    /\ pc[c] = "write"
    /\ GotoWith(c, "finish", IF Alive(c) THEN "deadline" ELSE ContextError(c))
    /\ StopWatchdog(c)
    /\ UNCHANGED <<ctx, attempt, requestSlotReady, responseCompletedAt, owner, session,
                   nextRequestAt, health, now, wireVars>>

Write(c) ==
    /\ pc[c] = "write"
    /\ Alive(c) /\ ~session.canceledErr
    /\ sent' = sent \cup {<<c, attempt[c]>>}
    /\ session' = [session EXCEPT !.unanswered = @ \cup {<<c, attempt[c]>>}]
    /\ Goto(c, "read")
    /\ UNCHANGED <<ctx, attempt, requestSlotReady, err, responseCompletedAt, watchdog, owner,
                   nextRequestAt, health, now, received>>

\* The library sets a deadline of its own, which clampDeadlineLocked cuts.
SetDeadline(c) ==
    /\ pc[c] \in {"write", "read"}
    /\ session' = [session EXCEPT !.deadline =
                      IF Alive(c) /\ ~session.canceledErr THEN "ahead" ELSE "past"]
    /\ UNCHANGED <<callVars, ctx, watchdog, owner, nextRequestAt, health, now, wireVars>>

\* External: a request that was written reaches the device.
Deliver(m) ==
    /\ m \in sent \ received
    /\ received' = received \cup {m}
    /\ UNCHANGED <<callVars, ctx, watchdog, owner, session, nextRequestAt, health, now, sent>>

\* executeRequest returns a result ("none") or a well-formed exception.
Answered(c, e) ==
    /\ pc[c] = "read"
    /\ <<c, attempt[c]>> \in received
    /\ session.deadline = "ahead"
    /\ session' = [session EXCEPT !.unanswered = @ \ {<<c, attempt[c]>>}]
    /\ responseCompletedAt' = [responseCompletedAt EXCEPT ![c] = now]
    /\ GotoWith(c, "finish", e)
    /\ StopWatchdog(c)
    /\ UNCHANGED <<ctx, attempt, requestSlotReady, owner, nextRequestAt, health, now, wireVars>>

\* It times out, loses the connection, or cannot make sense of the response,
\* which classifyRequestPathError turns into a closed transport.
ReadFails(c, k) ==
    /\ pc[c] = "read"
    /\ GotoWith(c, "finish", k)
    /\ StopWatchdog(c)
    /\ UNCHANGED <<ctx, attempt, requestSlotReady, responseCompletedAt, owner, session,
                   nextRequestAt, health, now, wireVars>>

\* Defect: finishRequest does not wait for the watchdog.
FinishRequestUnjoined(c) ==
    /\ pc[c] \in {"refused", "finish"}
    /\ session' = [session EXCEPT !.ctx = None, !.canceledErr = FALSE]
    /\ Goto(c, IF pc[c] = "refused" THEN "final" ELSE "classify")
    /\ UNCHANGED <<ctx, attempt, requestSlotReady, err, responseCompletedAt, watchdog, owner,
                   nextRequestAt, health, now, wireVars>>

\* finishRequest has waited for the watchdog and unbinds.
FinishRequest(c) ==
    /\ pc[c] \in {"refused", "finish"}
    /\ watchdog[c] = "stopped"
    /\ session' = [session EXCEPT !.ctx = None, !.canceledErr = FALSE]
    /\ Goto(c, IF pc[c] = "refused" THEN "final" ELSE "classify")
    /\ UNCHANGED <<ctx, attempt, requestSlotReady, err, responseCompletedAt, watchdog, owner,
                   nextRequestAt, health, now, wireVars>>

-----------------------------------------------------------------------------
(* Execute, after the wire. *)

\* A response.  It paces the next request even if it comes too late for the
\* context of this one, which then fails.
Succeeded(c) ==
    /\ pc[c] = "classify" /\ err[c] = "none"
    /\ nextRequestAt' = IF RequestDelay > 0 THEN responseCompletedAt[c] + RequestDelay
                        ELSE nextRequestAt
    /\ \/ /\ Alive(c)
          /\ health' = RecordSuccess(health, attempt[c], now)
          /\ Goto(c, "release")
          /\ UNCHANGED err
       \/ /\ ~Alive(c)
          /\ GotoWith(c, "final", ContextError(c))
          /\ UNCHANGED health
    /\ UNCHANGED <<ctx, attempt, requestSlotReady, responseCompletedAt, watchdog, owner,
                   session, now, wireVars>>

\* An error.  The context's own error hides any but a protocol exception.
Failed(c) ==
    /\ pc[c] = "classify" /\ err[c] # "none"
    /\ GotoWith(c, "failed", IF err[c] # "exception" /\ ~Alive(c) THEN ContextError(c) ELSE err[c])
    /\ UNCHANGED <<ctx, attempt, requestSlotReady, responseCompletedAt, watchdog, owner,
                   session, nextRequestAt, health, now, wireVars>>

\* Defect: any request is retried.
WillRetryAny(c) ==
    attempt[c] = 1 /\ err[c] \in TransportKinds /\ Alive(c)

WillRetry(c) ==
    /\ attempt[c] = 1
    /\ Kind[c] = "read"
    /\ err[c] \in TransportKinds
    /\ Alive(c)

\* recordFirstFailure, if it applies.
FirstFailure(c) ==
    IF attempt[c] = 1 /\ err[c] \in TransportKinds
    THEN RecordFirstFailure(health, now) ELSE health

Retry(c) ==
    /\ pc[c] = "failed"
    /\ WillRetry(c)
    /\ session' = None
    /\ health' = RecordRetry(Disconnected(FirstFailure(c)))
    /\ attempt' = [attempt EXCEPT ![c] = @ + 1]
    /\ Goto(c, "attempt")
    /\ UNCHANGED <<ctx, requestSlotReady, err, responseCompletedAt, watchdog, owner,
                   nextRequestAt, now, wireVars>>

\* Defect: a timeout keeps the connection.
GiveUpKeepsSession(c) ==
    /\ pc[c] = "failed"
    /\ ~WillRetry(c)
    /\ IF err[c] \in {"exception", "timeout"}
       THEN UNCHANGED session /\ health' = FirstFailure(c)
       ELSE session' = None /\ health' = Disconnected(FirstFailure(c))
    /\ Goto(c, "final")
    /\ UNCHANGED <<ctx, attempt, requestSlotReady, err, responseCompletedAt, watchdog, owner,
                   nextRequestAt, now, wireVars>>

\* Defect: the connection is closed and still reported.
GiveUpForgetsHealth(c) ==
    /\ pc[c] = "failed"
    /\ ~WillRetry(c)
    /\ IF err[c] = "exception" THEN UNCHANGED session ELSE session' = None
    /\ health' = FirstFailure(c)
    /\ Goto(c, "final")
    /\ UNCHANGED <<ctx, attempt, requestSlotReady, err, responseCompletedAt, watchdog, owner,
                   nextRequestAt, now, wireVars>>

\* Only a protocol exception keeps the connection.
GiveUp(c) ==
    /\ pc[c] = "failed"
    /\ ~WillRetry(c)
    /\ IF err[c] = "exception"
       THEN UNCHANGED session /\ health' = FirstFailure(c)
       ELSE session' = None /\ health' = Disconnected(FirstFailure(c))
    /\ Goto(c, "final")
    /\ UNCHANGED <<ctx, attempt, requestSlotReady, err, responseCompletedAt, watchdog, owner,
                   nextRequestAt, now, wireVars>>

Final(c) ==
    /\ pc[c] = "final"
    /\ health' = FinalError(health, err[c])
    /\ Goto(c, "release")
    /\ UNCHANGED <<ctx, attempt, requestSlotReady, err, responseCompletedAt, watchdog, owner,
                   session, nextRequestAt, now, wireVars>>

-----------------------------------------------------------------------------
Tick ==
    /\ now < MaxTime
    /\ now' = now + 1
    /\ UNCHANGED <<callVars, ctx, watchdog, owner, session, nextRequestAt, health, wireVars>>

Step(c) ==
    \/ AcquireCanceled(c) \/ Enter(c) \/ Recheck(c) \/ Release(c)
    \/ ConnectLocked(c) \/ \E k \in ConnectErrors(c) : ConnectLockedFails(c, k)
    \/ Close(c) \/ UseSession(c)
    \/ SlotReady(c) \/ SlotRefused(c) \/ BeginRequest(c) \/ Bound(c)
    \/ WriteRefused(c) \/ Write(c)
    \/ \E e \in {"none", "exception"} : Answered(c, e)
    \/ \E k \in TransportKinds : ReadFails(c, k)
    \/ FinishRequest(c)
    \/ Succeeded(c) \/ Failed(c) \/ Retry(c) \/ GiveUp(c) \/ Final(c)

Watchdog(c) == WatchdogCancels(c) \/ WatchdogStops(c)

Next ==
    \/ \E c \in Calls : TakeToken(c) \/ Step(c) \/ SetDeadline(c) \/ Watchdog(c)
                          \/ ContextEnds(c)
    \/ \E m \in sent : Deliver(m)
    \/ Tick

Spec == Init /\ [][Next]_vars

(***************************************************************************)
(* Fairness: goroutines run, the library returns within the deadline of    *)
(* the connection, and the context of every Execute ends because the       *)
(* server gave it a timeout.  The token goes to the goroutines that wait   *)
(* for it in turn, which is how Go serves the receivers of a channel.      *)
(***************************************************************************)
FairSpec ==
    /\ Spec
    /\ \A c \in Calls : /\ WF_vars(Step(c)) /\ WF_vars(Watchdog(c))
                        /\ WF_vars(ContextEnds(c)) /\ SF_vars(TakeToken(c))

-----------------------------------------------------------------------------
(* Properties. *)

Holding == {"acquired", "attempt", "slot", "begin", "bound", "refused", "write", "read",
            "finish", "classify", "failed", "final", "release"}

ClientTypeOK ==
    /\ pc \in [Calls -> Holding \cup {"start", "select", "done"}]
    /\ ctx \in [Calls -> {"active", "late", "deadline", "canceled"}]
    /\ attempt \in [Calls -> {1, 2}]
    /\ requestSlotReady \in [Calls -> BOOLEAN]
    /\ err \in [Calls -> Kinds \cup {"none"}]
    /\ responseCompletedAt \in [Calls -> Nat]
    /\ watchdog \in [Calls -> {"running", "stopping", "stopped"}]
    /\ owner \in Calls \cup {None}
    /\ session \in Conns \cup {None}
    /\ nextRequestAt \in Nat /\ now \in Nat
    /\ sent \in SUBSET (Calls \X {1, 2}) /\ received \in SUBSET sent

\* The owner token is neither lost nor duplicated: it is out exactly while
\* one call is between acquire and release, cancelled acquires included.
TokenConserved ==
    \A c \in Calls : pc[c] \in Holding <=> owner = c

\* "retry reads once but never retry ambiguous writes": whatever fails and
\* whenever, a write or opaque request is written to the wire at most once.
WritesSentOnce ==
    \A c \in Calls : Kind[c] # "read" => Cardinality({n \in {1, 2} : <<c, n>> \in sent}) <= 1

\* A connection is handed to the next request only when every request
\* written to it was answered, so no late response can meet a later request.
CleanConnection ==
    owner = None /\ session # None => session.unanswered = {}

\* The watchdog of one request never cuts short another, and cuts its own
\* for good: while a request is on the wire the connection is bound to it,
\* uncancelled with its deadline ahead as long as its context is alive, and
\* once cancelled never given another deadline.
OwnDeadline ==
    \A c \in Calls : pc[c] \in {"write", "read"} =>
        /\ session.ctx = c
        /\ ctx[c] = "active" => ~session.canceledErr /\ session.deadline = "ahead"
        /\ session.canceledErr => session.deadline = "past"

\* "Configurable minimum interval measured from each successful upstream
\* response": nothing is written to the wire before RequestDelay has passed
\* since every earlier result, whoever asked for it and even if it came too
\* late for them.
RequestsPaced ==
    [][\A c, d \in Calls :
         (/\ <<c, attempt[c]>> \in sent' \ sent
          /\ responseCompletedAt[d] # Never /\ err[d] # "exception")
         => now >= responseCompletedAt[d] + RequestDelay]_vars

\* While nobody holds the token, the health endpoint says "connected" exactly
\* when there is an open session.
HealthMatchesSession ==
    owner = None => (health.connected <=> session # None)

\* The diagnostics agree with each other: there is a first failure exactly
\* while failures are counted, and no more recovered retries than retries.
DiagnosticsConsistent ==
    /\ health.firstFailureAt # Never <=> health.firstFailures > 0
    /\ health.recoveredRetries <= health.totalRetries

\* What the health endpoint says when Execute returns: after a result it
\* answers 200, degraded exactly when the result took a retry; after a
\* transport failure it answers 503 ("a final upstream failure still returns
\* HTTP 503").
HealthAfterCall ==
    \A c \in Executes : pc[c] = "release" =>
        /\ err[c] = "none" => /\ HealthReport(health, now).http = 200
                              /\ attempt[c] = 2 <=> health.firstFailureAt # Never
        /\ err[c] \in TransportKinds => HealthReport(health, now).http = 503

\* The state of module Upstream.
Outcome ==
    [c \in Executes |-> IF pc[c] # "done" THEN "pending"
                        ELSE CASE err[c] = "none" -> "ok"
                               [] err[c] = "exception" -> "exception"
                               [] OTHER -> "failed"]

Received == [c \in Executes |-> Cardinality({n \in {1, 2} : <<c, n>> \in received})]

Promise == INSTANCE Upstream WITH
             Calls <- Executes,
             Limit <- [c \in Executes |-> IF Kind[c] = "read" THEN 2 ELSE 1],
             outcome <- Outcome, received <- Received

\* Execute keeps the promise the request handlers rely on.
ImplementsUpstream == Promise!Spec

\* Every call returns: Execute because its context ends, Connect and Close
\* because everyone who holds the token gives it back.
CallsReturn == \A c \in Calls : <>(pc[c] = "done")
=============================================================================
