-------------------------------- MODULE Errors --------------------------------
(***************************************************************************)
(* What a failure becomes on its way to the client: the classification of  *)
(* errors (internal/modbus/errors.go), the wrapping that the upstream      *)
(* client, the coalescer and the handler do, and the exception code the    *)
(* server answers with.                                                    *)
(*                                                                         *)
(* An error is the record of what errors.Is and errors.As find in it: its  *)
(* innermost cause, and the wrappers around it (<<>> for a wrapper that is *)
(* not there).  Wrapping by %w and by coalescingError changes none of it.  *)
(***************************************************************************)
EXTENDS Naturals, Sequences, Exceptions

CONSTANT Codes      \* the exception codes a device may send; 0 is malformed

\* "dial timeout": the net package's timeout of a dial, which errors.Is takes
\* for context.DeadlineExceeded; "closed": EOF, a closed or reset connection
\* and their like; "net": any other net.Error; "other": an error of no known
\* type, such as the library's complaints about a frame.
Causes == {"deadline", "dial timeout", "canceled", "io timeout", "closed", "net", "other"}

Error(c) == [cause |-> c, modbus |-> <<>>, validation |-> <<>>, upstream |-> FALSE,
             request |-> <<>>]

Nil == Error("nil")

\* newValidationError, and gridmodbus.Error: whether its function code is that
\* of the request with the high bit set, and its exception code.
ValidationError(code)         == [Error("other") EXCEPT !.validation = <<code>>]
ModbusError(ofRequest, code)  == [Error("other") EXCEPT !.modbus = <<ofRequest, code>>]

-----------------------------------------------------------------------------
(* errors.go. *)

IsDeadlineExceeded(e) == e.cause \in {"deadline", "dial timeout"}
IsCanceled(e)         == e.cause = "canceled"

\* Defect: the exceptions of the device are not recognised.
ClassifyNoException(e) ==
    IF e = Nil THEN <<"none", 0>>
    ELSE IF IsDeadlineExceeded(e) THEN <<"deadline", 0>>
    ELSE IF IsCanceled(e) THEN <<"canceled", 0>>
    ELSE IF e.validation # <<>> THEN <<"local", e.validation[1]>>
    ELSE IF e.upstream \/ e.cause \in {"closed", "net"} THEN <<"closed", 0>>
    ELSE IF e.cause = "io timeout" THEN <<"timeout", 0>>
    ELSE <<"local", 0>>

\* The first test that applies.
classifyError(e) ==
    IF e = Nil THEN <<"none", 0>>
    ELSE IF IsDeadlineExceeded(e) THEN <<"deadline", 0>>
    ELSE IF IsCanceled(e) THEN <<"canceled", 0>>
    ELSE IF e.validation # <<>> THEN <<"local", e.validation[1]>>
    ELSE IF e.upstream THEN <<"closed", 0>>
    ELSE IF e.modbus # <<>> THEN <<"exception", e.modbus[2]>>
    ELSE IF e.cause = "io timeout" THEN <<"timeout", 0>>
    ELSE IF e.cause \in {"closed", "net"} THEN <<"closed", 0>>
    ELSE <<"local", 0>>

Kind(e) == classifyError(e)[1]

\* requestError, as Execute and finalError call it.
requestError(e) == [e EXCEPT !.request = classifyError(e)]

ErrorKindOf(e) == IF e.request # <<>> THEN e.request[1] ELSE Kind(e)

\* The first that applies.
DownstreamException(e) ==
    LET ofRequest == e.request # <<>> /\ (\/ e.request[1] = "exception"
                                          \/ e.request[1] = "local" /\ e.request[2] # 0)
    IN  IF ofRequest THEN e.request[2]
        ELSE IF e.upstream THEN ExcGatewayTargetFailed
        ELSE IF e.modbus # <<>> THEN e.modbus[2]
        ELSE IF e.validation # <<>> THEN e.validation[1]
        ELSE IF ErrorKindOf(e) \in {"timeout", "closed", "deadline", "canceled"}
             THEN ExcGatewayTargetFailed
        ELSE ExcServerFailure

\* Defect: any exception the library reports is taken for the device's answer.
ClassifyTrusting(e) ==
    IF e.modbus = <<>> /\ Kind(e) = "local" THEN [e EXCEPT !.upstream = TRUE] ELSE e

\* An exception that answers another function or has no code, and an error
\* of no known kind, count as a failure of the transport.
classifyRequestPathError(e) ==
    IF \/ e.modbus # <<>> /\ (~e.modbus[1] \/ e.modbus[2] = 0)
       \/ e.modbus = <<>> /\ Kind(e) = "local"
    THEN [e EXCEPT !.upstream = TRUE] ELSE e

-----------------------------------------------------------------------------
(* The way of one request's error. *)

VARIABLES
    holder,     \* who has the error: "client", "coalescer", "handler", "server"
    ctx,        \* the request's context, as in module Client
    err,
    origin,     \* history: what happened to the request, with the exception code
    stale,      \* history: stale data was served instead
    sent        \* the exception code that was answered, or 0

errorVars == <<holder, ctx, err, origin, stale, sent>>

Origin(what, code) == [what |-> what, code |-> code]

ErrorInit ==
    /\ holder = "client" /\ ctx = "active"
    /\ err = Nil /\ origin = Origin("none", 0) /\ stale = FALSE /\ sent = 0

CtxErr       == IF ctx \in {"deadline", "canceled"} THEN Error(ctx) ELSE Nil
ContextError == IF ctx = "late" THEN Error("deadline") ELSE CtxErr

\* External: the deadline passes, its timer fires, or the server shuts down.
ContextEnds ==
    /\ holder # "sent"
    /\ \/ ctx = "active" /\ ctx' = "late"
       \/ ctx = "late" /\ ctx' = "deadline"
       \/ ctx \in {"active", "late"} /\ ctx' = "canceled"
    /\ UNCHANGED <<holder, err, origin, stale, sent>>

Passes(from, to, e, o) ==
    /\ holder = from /\ holder' = to
    /\ err' = e /\ origin' = o
    /\ UNCHANGED <<ctx, stale, sent>>

\* HandleRequest answers a request that is not valid by itself.
Rejected(code) ==
    /\ holder = "client" /\ holder' = "sent"
    /\ sent' = DownstreamException(ValidationError(code))
    /\ err' = ValidationError(code) /\ origin' = Origin("validation", code)
    /\ UNCHANGED <<ctx, stale>>

\* Execute: acquire, waitForRequestSlot and the checks of the context.
ContextOver ==
    /\ ContextError # Nil
    /\ Passes("client", "coalescer", requestError(ContextError), Origin("context", 0))

\* Execute: connectLocked.  A dial fails with a net.Error or with the context.
DialFails(e) ==
    /\ \/ e.modbus = <<>> /\ e.cause \in {"dial timeout", "io timeout", "closed", "net"}
       \/ e = CtxErr
    /\ Passes("client", "coalescer", requestError(e), Origin("transport", 0))

\* Execute: what executeRequest returned, once the last attempt is over.
AttemptFails(raw) ==
    LET e       == classifyRequestPathError(raw)
        genuine == raw.modbus # <<>> /\ raw.modbus[1] /\ raw.modbus[2] # 0
    IN  /\ IsCanceled(raw) => ctx = "canceled"
        /\ IF Kind(e) # "exception" /\ ContextError # Nil
           THEN Passes("client", "coalescer", requestError(ContextError), Origin("context", 0))
           ELSE Passes("client", "coalescer", requestError(e),
                       IF genuine THEN Origin("exception", raw.modbus[2])
                                  ELSE Origin("transport", 0))

RawErrors == {Error(c) : c \in Causes \ {"dial timeout"}} \cup
             {ModbusError(m[1], m[2]) : m \in BOOLEAN \X Codes}

Succeeds ==
    /\ ContextError = Nil
    /\ Passes("client", "coalescer", Nil, Origin("success", 0))

\* CoalesceWithStatus hands the result to the one who fetched ...
Fetched ==
    IF err = Nil /\ CtxErr # Nil
    THEN Passes("coalescer", "handler", CtxErr, Origin("context", 0))
    ELSE Passes("coalescer", "handler", err, origin)

\* (a write or an opaque request goes past it) ...
NotCoalesced == Passes("coalescer", "server", err, origin)

\* ... and to a request that waited for it, with a context of its own, which
\* fetches itself when the one who did gave up.
Shared(c) ==
    /\ holder = "coalescer" /\ ctx' = c /\ UNCHANGED <<stale, sent>>
    /\ \/ /\ CtxErr' # Nil
          /\ holder' = "handler" /\ err' = CtxErr' /\ origin' = Origin("context", 0)
       \/ /\ CtxErr' = Nil
          /\ IF IsCanceled(err) \/ IsDeadlineExceeded(err)
             THEN holder' = "client" /\ err' = Nil /\ origin' = Origin("none", 0)
             ELSE holder' = "handler" /\ UNCHANGED <<err, origin>>

\* handleRead, when it serves stale data.
ServeStale ==
    /\ err # Nil /\ ErrorKindOf(err) # "exception" /\ ContextError = Nil
    /\ holder = "handler" /\ holder' = "server"
    /\ err' = Nil /\ stale' = TRUE
    /\ UNCHANGED <<ctx, origin, sent>>

HandlerReturns == Passes("handler", "server", err, origin)

\* handleConn: a result that comes too late is an error; errors are answered
\* by an exception.
AnswerError ==
    LET e == IF err = Nil THEN ContextError ELSE err
    IN  /\ holder = "server" /\ holder' = "sent"
        /\ sent' = IF e = Nil THEN 0 ELSE DownstreamException(e)
        /\ origin' = IF err = e THEN origin ELSE Origin("context", 0)
        /\ err' = e /\ UNCHANGED <<ctx, stale>>

ErrorNext ==
    \/ ContextEnds \/ ContextOver \/ Succeeds \/ Fetched \/ NotCoalesced
    \/ ServeStale \/ HandlerReturns \/ AnswerError
    \/ \E code \in {ExcIllegalFunction, ExcIllegalAddress, ExcIllegalValue} : Rejected(code)
    \/ \E e \in RawErrors \cup {Error("dial timeout")} : DialFails(e)
    \/ \E raw \in RawErrors : AttemptFails(raw)
    \/ \E c \in {"active", "late", "deadline", "canceled"} : Shared(c)

ErrorSpec == ErrorInit /\ [][ErrorNext]_errorVars

-----------------------------------------------------------------------------
\* The documented mapping (SPEC.md, error codes): an exception of the device
\* keeps its code, a request that is not valid gets a validation code, and
\* every failure of the transport, malformed exceptions included, and every
\* deadline is answered by 0x0B; the code 0 is never sent for a failure.
DocumentedException ==
    holder = "sent" /\ err # Nil =>
        /\ origin.what \in {"transport", "context"} => sent = ExcGatewayTargetFailed
        /\ origin.what \in {"exception", "validation"} => sent = origin.code
        /\ sent # 0

\* Stale data answers a failure of the transport or of the time only: it
\* never replaces an exception that the device sent.
StaleHidesNoException == stale => origin.what # "exception"

\* "Reconnect after transport failures; retry reads once" (SPEC.md): while the
\* request has time left, a failure of the transport, malformed exceptions
\* included, has one of the two kinds that Execute retries.
TransportRetryable ==
    holder = "coalescer" /\ ctx = "active" /\ origin.what = "transport" =>
        ErrorKindOf(err) \in {"timeout", "closed"}

===============================================================================
