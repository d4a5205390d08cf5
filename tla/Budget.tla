-------------------------------- MODULE Budget --------------------------------
(***************************************************************************)
(* Configured durations and what a read can do with them: Load             *)
(* (internal/config/config.go), the warning of New (internal/proxy/        *)
(* proxy.go), and the time that Execute spends on one read and its retry   *)
(* (internal/modbus/client.go; module Client has the rest of Execute).     *)
(*                                                                         *)
(* The unit of time is ten seconds.  Queueing, dialling, the connect       *)
(* delay, pacing and the attempts take time; the proxy's own steps do not. *)
(***************************************************************************)
EXTENDS Integers

CONSTANTS
    Unset, Bad,     \* an environment variable that is empty, or does not parse
    Envs,           \* the environments tried
    MaxDuration     \* the largest time.Duration

Durations == -MaxDuration - 1 .. MaxDuration

ASSUME BudgetAssumption ==
    /\ MaxDuration \in Nat /\ MaxDuration >= 3
    /\ Unset \notin Int /\ Bad \notin Int /\ Bad # Unset
    /\ \A e \in Envs : {e.ttl, e.attempt, e.timeout, e.request, e.requestDelay, e.connectDelay,
                        e.shutdown} \subseteq Durations \cup {Unset, Bad}

VARIABLES
    phase,      \* of main, then of Execute
    env, cfg,
    warned,     \* New has logged that the budget is too small for a retry
    attempt, session, slotReady,    \* Execute's state
    slotAt,     \* c.nextRequestAt
    elapsed,    \* since the request arrived
    queued,     \* history: the time spent waiting for the token
    dialled,    \* history: the time spent dialling
    granted     \* the last attempt: when it began and its socket timeout

timeVars   == <<slotAt, elapsed, queued, dialled>>
execVars   == <<attempt, session, slotReady, timeVars, granted>>
budgetVars == <<phase, env, cfg, warned, execVars>>

-----------------------------------------------------------------------------
(* Load. *)

Default(v, d) == IF v = Unset THEN d ELSE v

\* parsePositiveDuration, and the same check of MODBUS_REQUEST_TIMEOUT.
parsePositiveDuration(v) == v # Bad /\ (v # Unset => v > 0)

Loads(e) ==
    /\ e.upstream # Unset
    /\ e.slave # Bad /\ e.ttl # Bad
    /\ e.readonly \in {Unset, "false", "true", "deny"}
    /\ parsePositiveDuration(e.attempt) /\ parsePositiveDuration(e.timeout)
    /\ e.attempt # Unset /\ e.timeout # Unset => e.attempt = e.timeout
    /\ parsePositiveDuration(e.request)
    /\ e.requestDelay # Bad /\ e.connectDelay # Bad /\ e.shutdown # Bad

Config(e) ==
    [readonly        |-> Default(e.readonly, "true"),
     cacheTTL        |-> Default(e.ttl, 1),
     attemptTimeout  |-> Default(e.attempt, Default(e.timeout, 1)),
     requestTimeout  |-> Default(e.request, 3),
     requestDelay    |-> Default(e.requestDelay, 0),
     connectDelay    |-> Default(e.connectDelay, 0),
     shutdownTimeout |-> Default(e.shutdown, 3)]

BudgetInit ==
    /\ phase = "start" /\ env \in Envs
    /\ cfg = Unset /\ warned = FALSE
    /\ attempt = 0 /\ session = FALSE /\ slotReady = FALSE
    /\ slotAt = 0 /\ elapsed = 0 /\ queued = 0 /\ dialled = 0 /\ granted = Unset

Load ==
    /\ phase = "start"
    /\ \/ Loads(env) /\ cfg' = Config(env) /\ phase' = "loaded"
       \/ ~Loads(env) /\ cfg' = cfg /\ phase' = "exit"
    /\ UNCHANGED <<env, warned, execVars>>

-----------------------------------------------------------------------------
(* New. *)

\* Defect: the sum wraps around.
AddWrapping(total, d) ==
    IF d <= 0 THEN total
    ELSE IF d > MaxDuration - total THEN total + d - 2 * MaxDuration - 2 ELSE total + d

\* One round of the loop of saturatingDurationSum.
AddSaturating(total, d) ==
    IF d <= 0 THEN total
    ELSE IF d > MaxDuration - total THEN MaxDuration ELSE total + d

saturatingDurationSum(a, b, c, d, e) ==
    AddSaturating(AddSaturating(AddSaturating(AddSaturating(AddSaturating(0, a), b), c), d), e)

retryBudget ==
    saturatingDurationSum(cfg.attemptTimeout, cfg.attemptTimeout, cfg.connectDelay,
                          cfg.connectDelay, cfg.requestDelay)

New ==
    /\ phase = "loaded" /\ phase' = "idle"
    /\ warned' = (cfg.requestTimeout <= retryBudget)
    /\ UNCHANGED <<env, cfg, execVars>>

-----------------------------------------------------------------------------
(* Execute of a read. *)

Positive(d) == IF d > 0 THEN d ELSE 0

Smaller(a, b) == IF a < b THEN a ELSE b

contextError(time) == time >= cfg.requestTimeout

\* Defect: the budget does not cap the attempt.
socketTimeoutUncapped(time) == cfg.attemptTimeout

\* At least a nanosecond, which is no time here.
socketTimeoutFor(time) == Positive(Smaller(cfg.attemptTimeout, cfg.requestTimeout - time))

\* acquire, behind other requests.  The slot of the last success before this
\* one may lie a whole delay ahead.
Execute ==
    /\ phase = "idle"
    /\ \E wait \in 0 .. cfg.requestTimeout :
          /\ queued' = wait /\ elapsed' = wait
          /\ \/ /\ contextError(wait) /\ phase' = "expired"
                /\ UNCHANGED <<attempt, session, slotAt>>
             \/ /\ ~contextError(wait) /\ phase' = "loop" /\ attempt' = 1
                /\ session' \in BOOLEAN
                /\ slotAt' \in 0 .. wait + Positive(cfg.requestDelay)
    /\ UNCHANGED <<env, cfg, warned, slotReady, dialled, granted>>

\* The net.Dialer gives up at its Timeout, or when the context ends.
DialTimeout == Positive(Smaller(cfg.attemptTimeout, cfg.requestTimeout - elapsed))

\* connectLocked.  The connect delay is spent in the library, which may or may
\* not cut it short when the context ends.
Connected ==
    /\ phase = "loop" /\ ~session
    /\ \E d \in 0 .. DialTimeout :
          /\ dialled' = dialled + d
          /\ \/ /\ elapsed' = elapsed + d + Positive(cfg.connectDelay)
                /\ session' = TRUE /\ phase' = phase
             \/ /\ contextError(elapsed + d + Positive(cfg.connectDelay))
                /\ elapsed' = cfg.requestTimeout
                /\ session' = session /\ phase' = "expired"
    /\ UNCHANGED <<env, cfg, warned, attempt, slotReady, slotAt, queued, granted>>

\* connectLocked fails.  A dial that is refused, or breaks off, is a transport
\* error and retried while there is time; one that times out is classified as
\* a deadline (module Errors) and is not.
ConnectFails ==
    /\ phase = "loop" /\ ~session
    /\ \E d \in 0 .. DialTimeout, timedOut \in BOOLEAN :
          /\ timedOut => d = DialTimeout
          /\ elapsed' = elapsed + d /\ dialled' = dialled + d
          /\ IF attempt = 1 /\ ~timedOut /\ ~contextError(elapsed')
             THEN attempt' = 2 /\ phase' = phase
             ELSE /\ attempt' = attempt
                  /\ phase' = IF contextError(elapsed') THEN "expired" ELSE "failed"
    /\ UNCHANGED <<env, cfg, warned, session, slotReady, slotAt, queued, granted>>

\* waitForRequestSlot, in the first attempt that comes so far, and the checks
\* of the context that follow.
WaitForRequestSlot ==
    /\ phase = "loop" /\ session
    /\ LET ready == IF ~slotReady /\ slotAt > elapsed
                    THEN IF elapsed < cfg.requestTimeout
                         THEN Smaller(slotAt, cfg.requestTimeout) ELSE elapsed
                    ELSE elapsed
       IN  /\ elapsed' = ready
           /\ \/ contextError(ready) /\ phase' = "expired" /\ UNCHANGED slotReady
              \/ ~contextError(ready) /\ phase' = "attempt" /\ slotReady' = TRUE
    /\ UNCHANGED <<env, cfg, warned, attempt, session, slotAt, queued, dialled, granted>>

\* One attempt: it ends within its socket timeout, with a response, an exception
\* or another error.  Without an exception, a context that is over prevails.
Attempt ==
    /\ phase = "attempt"
    /\ granted' = [from |-> elapsed, timeout |-> socketTimeoutFor(elapsed)]
    /\ \E d \in 0 .. socketTimeoutFor(elapsed), result \in {"done", "exception", "error"} :
          /\ elapsed' = elapsed + d
          /\ IF result = "exception" \/ (result = "done" /\ ~contextError(elapsed'))
             THEN phase' = "done" /\ UNCHANGED <<session, attempt>>
             ELSE IF contextError(elapsed')
             THEN phase' = "expired" /\ session' = (result = "done") /\ UNCHANGED attempt
             ELSE /\ session' = FALSE
                  /\ \/ attempt = 1 /\ phase' = "loop" /\ attempt' = 2
                     \/ phase' = "failed" /\ attempt' = attempt
    /\ UNCHANGED <<env, cfg, warned, slotReady, slotAt, queued, dialled>>

BudgetNext ==
    \/ Load \/ New \/ Execute \/ Connected \/ ConnectFails
    \/ WaitForRequestSlot \/ Attempt

BudgetSpec == BudgetInit /\ [][BudgetNext]_budgetVars

-----------------------------------------------------------------------------
\* A configuration that Load accepts has the positive timeouts and the known
\* mode that the client, the server and handleWrite rely on, and heeds both
\* names of the attempt timeout, whichever are set.
LoadedConfigUsable ==
    phase \notin {"start", "exit"} =>
        /\ cfg.attemptTimeout > 0 /\ cfg.requestTimeout > 0
        /\ cfg.readonly \in {"false", "true", "deny"}
        /\ {env.attempt, env.timeout} \subseteq {Unset, cfg.attemptTimeout}

Requested == phase \notin {"start", "loaded", "exit"}

\* The read was not cut short: its budget has not ended, and the last attempt
\* had the whole attempt timeout.
Unhurried ==
    /\ phase # "expired"
    /\ granted # Unset => granted.timeout = cfg.attemptTimeout

\* Two attempts, two connect delays and the pacing: what a full retry takes
\* besides queueing and dialling, as an exact sum.
RetryTime ==
    2 * cfg.attemptTimeout + 2 * Positive(cfg.connectDelay) + Positive(cfg.requestDelay)

\* When New does not warn, the budget exceeds the time of a full retry however
\* large the durations are, and as long as queueing and dialling together stay
\* below the difference, neither the read nor its retry is cut short.
UnwarnedRetryFits ==
    Requested /\ ~warned =>
        /\ RetryTime < cfg.requestTimeout
        /\ RetryTime + queued + dialled < cfg.requestTimeout => Unhurried

\* "A full read retry budget needs room for two attempt timeouts, two connect
\* delays, request pacing, and any dial time" (README.md): when New does not
\* warn that the budget may expire before a full read retry, a read that had
\* not to queue is not cut short.
NoWarningMeansFullRetry ==
    Requested /\ ~warned /\ queued = 0 => Unhurried

\* "The end-to-end budget caps every individual attempt" (SPEC.md): no attempt
\* begins after the request's deadline, or may last beyond it.
BudgetCapsAttempts ==
    granted # Unset =>
        granted.timeout > 0 /\ granted.from + granted.timeout <= cfg.requestTimeout

===============================================================================
