-------------------------------- MODULE Health --------------------------------
(***************************************************************************)
(* The reliability diagnostics of the upstream client: the fields that     *)
(* healthMu guards (internal/modbus/client.go), the functions that record  *)
(* into them, and what the health endpoint reports.  Every operator maps   *)
(* the fields before a critical section to the fields after it.            *)
(***************************************************************************)
EXTENDS Naturals

CONSTANT DegradedWindow         \* degradedWindow, in ticks of the clock

ASSUME HealthAssumption == DegradedWindow \in Nat

\* The zero value of a time.Time; the clock starts after it.
Never == 0

Kinds == {"exception", "timeout", "closed", "deadline", "canceled", "local"}

TransportKinds == {"timeout", "closed"}

NewHealth ==
    [lastErr |-> "none", connected |-> FALSE, firstFailureAt |-> Never,
     lastFirstSuccess |-> Never, lastSuccess |-> Never, firstFailures |-> 0,
     finalFailures |-> 0, totalRetries |-> 0, recoveredRetries |-> 0]

\* The health updates of connectLocked, disconnectLocked and Close.
Connected(h)        == [h EXCEPT !.connected = TRUE, !.lastErr = "none"]
ConnectFailed(h, k) == [h EXCEPT !.connected = FALSE, !.lastErr = k]
Disconnected(h)     == [h EXCEPT !.connected = FALSE]

RecordFirstFailure(h, now) ==
    [h EXCEPT !.firstFailureAt = IF @ = Never THEN now ELSE @,
              !.firstFailures = @ + 1]

RecordRetry(h) == [h EXCEPT !.totalRetries = @ + 1]

\* Defect: a recovered retry clears the time of the first failure.
RecordSuccessClears(h, attempt, now) ==
    [h EXCEPT !.firstFailureAt = Never,
              !.firstFailures = IF attempt = 1 THEN 0 ELSE @,
              !.recoveredRetries = IF attempt = 1 THEN @ ELSE @ + 1,
              !.lastFirstSuccess = IF attempt = 1 THEN now ELSE @,
              !.lastSuccess = now, !.lastErr = "none", !.finalFailures = 0,
              !.connected = TRUE]

RecordSuccess(h, attempt, now) ==
    LET first == attempt = 1
    IN  [h EXCEPT !.firstFailureAt = IF first THEN Never ELSE @,
                  !.firstFailures = IF first THEN 0 ELSE @,
                  !.lastFirstSuccess = IF first THEN now ELSE @,
                  !.recoveredRetries = IF first THEN @ ELSE @ + 1,
                  !.lastSuccess = now, !.lastErr = "none", !.finalFailures = 0,
                  !.connected = TRUE]

\* finalError with an error of kind k.
FinalError(h, k) ==
    CASE k = "exception" ->
            [h EXCEPT !.lastErr = "none", !.finalFailures = 0, !.connected = TRUE]
      [] k = "canceled" -> h
      [] OTHER ->
            [h EXCEPT !.lastErr = k,
                      !.finalFailures = IF k \in TransportKinds THEN @ + 1 ELSE @]

\* healthyLocked, and the status of healthStatus.
Healthy(h) == h.lastErr = "none" /\ h.connected

Sustained(h, now) ==
    h.firstFailureAt # Never /\ now - h.firstFailureAt >= DegradedWindow

\* What handleHealth answers.
HealthReport(h, now) ==
    [http   |-> IF Healthy(h) THEN 200 ELSE 503,
     status |-> CASE ~Healthy(h) -> "unhealthy"
                  [] Sustained(h, now) -> "degraded"
                  [] OTHER -> "ok"]
=============================================================================
