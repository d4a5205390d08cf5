---------------------------- MODULE ClientProofs ----------------------------
(***************************************************************************)
(* The rest of the steps, and what follows from the inductive invariant of *)
(* module ClientSteps: the properties of the upstream client, and that it  *)
(* implements module Upstream.                                             *)
(***************************************************************************)
EXTENDS ClientSteps, FiniteSetTheorems

\* finishRequest unbinds the connection once its watchdog has stopped.
LEMMA FinishRequestStep ==
    ASSUME IInv, NEW c \in Calls, FinishRequest(c)
    PROVE  IInv'
<1> USE ClientAssumption DEF IInv, FinishRequest, Goto, callVars, wireVars, Executes
<1>1. session \in Conns /\ session # None /\ session.ctx = c
  BY Zenon DEF Types, ClientTypeOK, Bindings, Wired
<1>2. /\ session' \in Conns /\ session' # None
      /\ session'.ctx = None /\ ~session'.canceledErr
      /\ session'.deadline = session.deadline /\ session'.unanswered = session.unanswered
  <2>1. session' = [session EXCEPT !.ctx = None, !.canceledErr = FALSE]
    OBVIOUS
  <2> HIDE DEF FinishRequest
  <2> QED  BY Zenon, <1>1, <2>1 DEF Conns
<1>3. Types'
  BY Zenon, <1>1, <1>2 DEF Types, ClientTypeOK, Holding, Kinds
<1>4. TokenConserved'
  BY ZenonT(30) DEF Types, ClientTypeOK, TokenConserved, Holding
<1>5. Bindings'
  BY <1>1, <1>2 DEF Bindings, Wired, Types, ClientTypeOK, TokenConserved, Holding
<1>6. Deadlines'
  BY ZenonT(30), <1>1, <1>2 DEF Deadlines, Bindings, Wired, Types, ClientTypeOK, TokenConserved, Holding
<1>7. Unanswered'
  BY Zenon, <1>1, <1>2 DEF Unanswered, Outstanding, Types, ClientTypeOK, TokenConserved, Holding
<1>8. Reported'
  BY Zenon, <1>1, <1>2 DEF Reported, Types, Bindings, Wired
<1>9. Counted'
  BY DEF Counted, SameCounts, DiagnosticsConsistent, Types, ClientTypeOK, TokenConserved,
       Holding
<1>10. Paced'
  BY DEF Paced, Never, Types, ClientTypeOK, TokenConserved, Holding
<1>11. Executing' /\ SentOnce' /\ Heard'
  BY ZenonT(30) DEF Executing, ExecutePcs, Wired, Types, ClientTypeOK, SentOnce, Heard, Kinds
<1> QED  BY Zenon, <1>3, <1>4, <1>5, <1>6, <1>7, <1>8, <1>9, <1>10, <1>11

\* A result moves nextRequestAt forward, and health records it unless it came
\* too late.
LEMMA SucceededStep ==
    ASSUME IInv, NEW c \in Calls, Succeeded(c)
    PROVE  IInv'
<1>1. attempt[c] \in {1, 2} /\ now \in Nat /\ health \in Healths
  BY Zenon DEF IInv, Types, ClientTypeOK
<1>2. ASSUME Alive(c)
      PROVE  /\ health' \in Healths /\ health'.connected
             /\ health'.totalRetries = health.totalRetries
             /\ attempt[c] = 1 => /\ health'.firstFailureAt = Never /\ health'.firstFailures = 0
                                  /\ health'.recoveredRetries = health.recoveredRetries
             /\ attempt[c] = 2 => /\ health'.firstFailureAt = health.firstFailureAt
                                  /\ health'.firstFailures = health.firstFailures
                                  /\ health'.recoveredRetries = health.recoveredRetries + 1
  <2>1. health' = RecordSuccess(health, attempt[c], now)
    BY Zenon, <1>2 DEF Succeeded
  <2>2. health' \in Healths /\ health'.connected
    BY Zenon, <1>1, <2>1, SuccessUpdate
  <2>3. CASE attempt[c] = 1
    <3>1. health' = RecordSuccess(health, 1, now)
      BY Zenon, <2>1, <2>3
    <3> QED  BY <1>1, <2>3, <2>2, <3>1, SuccessCounts
  <2>4. CASE attempt[c] = 2
    <3>1. health' = RecordSuccess(health, 2, now)
      BY Zenon, <2>1, <2>4
    <3> QED  BY <1>1, <2>4, <2>2, <3>1, SuccessCounts
  <2> QED  BY Zenon, <1>1, <2>3, <2>4
<1>3. ~Alive(c) => health' = health
  BY Zenon DEF Succeeded
<1> USE ClientAssumption DEF IInv, Succeeded, Goto, GotoWith, Alive, ContextError, CtxErr,
     callVars, wireVars, Executes
<1>4. Types'
  BY <1>2, <1>3 DEF Types, ClientTypeOK, Holding, Kinds
<1>5. TokenConserved'
  BY DEF Types, ClientTypeOK, TokenConserved, Holding
<1>6. Bindings'
  BY DEF Bindings, Wired, Types, ClientTypeOK, TokenConserved, Holding
<1>7. Deadlines'
  BY DEF Deadlines, Bindings, Wired, Types, ClientTypeOK, TokenConserved, Holding
<1>8. Unanswered'
  BY Zenon DEF Unanswered, Outstanding, Types, ClientTypeOK, TokenConserved, Holding
<1>9. Reported'
  BY Zenon, <1>2, <1>3 DEF Reported, Types, Bindings, Wired
<1>10. Counted'
  <2>1. health.recoveredRetries \in Nat /\ health.totalRetries \in Nat
    BY Zenon DEF Types, Healths
  <2>2. \A d \in Calls : pc'[d] \in Holding \ {"release"} => d = c /\ ~Alive(c)
    BY <1>2, <1>3 DEF Types, ClientTypeOK, TokenConserved, Holding
  <2>3. \A d \in Calls : pc'[d] \in {"start", "select"} => attempt'[d] = 1
    BY ZenonT(30) DEF Counted, Types, ClientTypeOK
  <2>4. CASE Alive(c)
    <3>1. attempt[c] = 2 => health.recoveredRetries < health.totalRetries
      BY Zenon DEF Counted, Holding
    <3>2. DiagnosticsConsistent'
      BY <1>1, <1>2, <2>1, <2>4, <3>1 DEF Counted, DiagnosticsConsistent
    <3> QED  BY Zenon, <2>2, <2>3, <2>4, <3>2 DEF Counted
  <2>5. CASE ~Alive(c)
    BY <1>3, <2>3, <2>5 DEF Counted, DiagnosticsConsistent, Types, ClientTypeOK,
         TokenConserved, Holding
  <2> QED  BY Zenon, <2>4, <2>5
<1>11. Paced'
  BY DEF Paced, Never, Types, ClientTypeOK, TokenConserved, Holding
<1>12. Executing' /\ SentOnce' /\ Heard'
  BY DEF Executing, ExecutePcs, Wired, Types, ClientTypeOK, SentOnce, Heard, Kinds
<1> QED  BY Zenon, <1>4, <1>5, <1>6, <1>7, <1>8, <1>9, <1>10, <1>11, <1>12

\* An error is classified.
LEMMA FailedStep ==
    ASSUME IInv, NEW c \in Calls, Failed(c)
    PROVE  IInv'
<1> USE ClientAssumption DEF IInv, Failed, Goto, GotoWith, Alive, ContextError, CtxErr,
     callVars, wireVars, Executes
<1>1. Types'
  BY Zenon DEF Types, ClientTypeOK, Holding, Kinds
<1>2. TokenConserved'
  BY Zenon DEF Types, ClientTypeOK, TokenConserved, Holding
<1>3. Bindings'
  BY ZenonT(30) DEF Bindings, Wired, Types, ClientTypeOK, TokenConserved, Holding
<1>4. Deadlines'
  BY ZenonT(30) DEF Deadlines, Bindings, Wired, Types, ClientTypeOK, TokenConserved, Holding
<1>5. Unanswered'
  BY Zenon DEF Unanswered, Outstanding, Types, ClientTypeOK, TokenConserved, Holding
<1>6. Counted'
  BY DEF Counted, SameCounts, DiagnosticsConsistent, Types, ClientTypeOK, TokenConserved,
       Holding
<1>7. Paced'
  BY DEF Paced, Never, Types, ClientTypeOK, TokenConserved, Holding
<1>8. Executing' /\ Reported' /\ SentOnce' /\ Heard'
  BY DEF Executing, ExecutePcs, Wired, Types, ClientTypeOK, Reported, Bindings, SentOnce,
       Heard, Kinds
<1> QED  BY Zenon, <1>1, <1>2, <1>3, <1>4, <1>5, <1>6, <1>7, <1>8

\* Only a read at its first attempt is retried, on a connection of its own.
LEMMA RetryStep ==
    ASSUME IInv, NEW c \in Calls, Retry(c)
    PROVE  IInv'
<1>1. health \in Healths /\ now \in Nat /\ now > 0
  BY SMTT(30) DEF IInv, Types, ClientTypeOK
<1>2. /\ FirstFailure(c) = RecordFirstFailure(health, now)
      /\ health' = RecordRetry(Disconnected(FirstFailure(c)))
  BY Zenon DEF Retry, WillRetry, FirstFailure
<1>3. /\ FirstFailure(c) \in Healths
      /\ FirstFailure(c).firstFailureAt # Never /\ FirstFailure(c).firstFailures > 0
      /\ FirstFailure(c).totalRetries = health.totalRetries
      /\ FirstFailure(c).recoveredRetries = health.recoveredRetries
  BY Zenon, <1>1, <1>2, FirstFailureUpdate
<1>4. /\ Disconnected(FirstFailure(c)) \in Healths /\ ~Disconnected(FirstFailure(c)).connected
      /\ SameCounts(FirstFailure(c), Disconnected(FirstFailure(c)))
  BY Zenon, <1>3, ConnectionUpdates
<1>5. /\ health' \in Healths /\ ~health'.connected
      /\ health'.firstFailureAt # Never /\ health'.firstFailures > 0
      /\ health'.recoveredRetries = health.recoveredRetries
      /\ health'.totalRetries = health.totalRetries + 1
  BY <1>2, <1>3, <1>4, RetryUpdate DEF SameCounts
<1> USE ClientAssumption DEF IInv, Retry, Goto, WillRetry, TransportKinds, callVars, wireVars,
     Executes
<1>6. Types'
  BY <1>5 DEF Types, ClientTypeOK, Holding, Kinds
<1>7. TokenConserved'
  BY Zenon DEF Types, ClientTypeOK, TokenConserved, Holding
<1>8. Executing'
  BY Zenon DEF Executing, ExecutePcs, Wired, Types, ClientTypeOK
<1>9. Bindings'
  BY DEF Bindings, Wired, Types, ClientTypeOK, TokenConserved, Holding
<1>10. Deadlines'
  BY DEF Deadlines, Bindings, Wired, Types, ClientTypeOK, TokenConserved, Holding
<1>11. Unanswered'
  BY Zenon DEF Unanswered, Outstanding, Types, ClientTypeOK, TokenConserved, Holding
<1>12. Reported'
  BY Zenon, <1>5 DEF Reported, Types, Bindings, Wired
<1>13. SentOnce'
  BY Zenon DEF SentOnce, Types, ClientTypeOK
<1>14. Counted'
  <2>1. health.recoveredRetries \in Nat /\ health.totalRetries \in Nat
    BY Zenon DEF Types, Healths
  <2>2. DiagnosticsConsistent' /\ health'.recoveredRetries < health'.totalRetries
    BY <1>5, <2>1 DEF Counted, DiagnosticsConsistent
  <2>3. \A d \in Calls : pc'[d] \notin {"start", "select"} \/ attempt'[d] = 1
    BY Zenon DEF Counted, Types, ClientTypeOK
  <2> QED  BY Zenon, <2>2, <2>3 DEF Counted
<1>15. Heard'
  BY SMTT(30) DEF Heard, Kinds, Types, ClientTypeOK
<1>16. Paced'
  <2>1. responseCompletedAt[c] = Never
    BY Zenon DEF Paced
  <2>2. requestSlotReady[c] => nextRequestAt <= now
    BY Zenon, <2>1 DEF Paced, Holding
  <2>3. /\ \A d \in Calls \ {c} : pc'[d] = pc[d]
        /\ pc'[c] = "attempt"
    BY Zenon DEF Types, ClientTypeOK
  <2> QED  BY Zenon, <2>1, <2>2, <2>3 DEF Paced
<1> QED  BY Zenon, <1>6, <1>7, <1>8, <1>9, <1>10, <1>11, <1>12, <1>13, <1>14, <1>15, <1>16

\* Whatever is not an exception closes the connection with its unanswered
\* request.
LEMMA GiveUpStep ==
    ASSUME IInv, NEW c \in Calls, GiveUp(c)
    PROVE  IInv'
<1>1. /\ health \in Healths /\ now \in Nat /\ now > 0
      /\ health.firstFailureAt # Never <=> health.firstFailures > 0
  BY Zenon DEF IInv, Types, ClientTypeOK, Counted, DiagnosticsConsistent
<1>2. /\ FirstFailure(c) \in Healths /\ (FirstFailure(c).connected <=> health.connected)
      /\ FirstFailure(c).firstFailureAt # Never <=> FirstFailure(c).firstFailures > 0
      /\ FirstFailure(c).totalRetries = health.totalRetries
      /\ FirstFailure(c).recoveredRetries = health.recoveredRetries
  <2>1. CASE FirstFailure(c) = health
    BY Zenon, <1>1, <2>1
  <2>2. CASE FirstFailure(c) = RecordFirstFailure(health, now)
    BY <1>1, <2>2, FirstFailureUpdate
  <2> QED  BY Zenon, <2>1, <2>2 DEF FirstFailure
<1>3. /\ Disconnected(FirstFailure(c)) \in Healths /\ ~Disconnected(FirstFailure(c)).connected
      /\ SameCounts(FirstFailure(c), Disconnected(FirstFailure(c)))
  BY Zenon, <1>2, ConnectionUpdates
<1>4. health' = IF err[c] = "exception" THEN FirstFailure(c) ELSE Disconnected(FirstFailure(c))
  BY Zenon DEF GiveUp
<1>5. /\ health' \in Healths
      /\ health'.connected <=> (err[c] = "exception" /\ health.connected)
      /\ health'.firstFailureAt # Never <=> health'.firstFailures > 0
      /\ health'.recoveredRetries = health.recoveredRetries
      /\ health'.totalRetries = health.totalRetries
  BY Zenon, <1>2, <1>3, <1>4 DEF SameCounts
<1> USE ClientAssumption DEF IInv, GiveUp, Goto, callVars, wireVars, Executes
<1>6. Types'
  BY Zenon, <1>5 DEF Types, ClientTypeOK, Holding, Kinds
<1>7. TokenConserved'
  BY Zenon DEF Types, ClientTypeOK, TokenConserved, Holding
<1>8. Bindings'
  BY DEF Bindings, Wired, Types, ClientTypeOK, TokenConserved, Holding
<1>9. Deadlines'
  BY DEF Deadlines, Bindings, Wired, Types, ClientTypeOK, TokenConserved, Holding
<1>10. Unanswered'
  BY Zenon DEF Unanswered, Outstanding, Types, ClientTypeOK, TokenConserved, Holding
<1>11. Reported'
  BY Zenon, <1>5 DEF Reported, Types, Bindings, Wired
<1>12. Counted'
  BY SMTT(30), <1>5 DEF Counted, SameCounts, DiagnosticsConsistent, Types, ClientTypeOK,
       TokenConserved, Holding
<1>13. Paced'
  BY ZenonT(30) DEF Paced, Never, Types, ClientTypeOK, TokenConserved, Holding
<1>14. Executing' /\ SentOnce' /\ Heard'
  BY SMTT(30) DEF Executing, ExecutePcs, Wired, Types, ClientTypeOK, SentOnce, Heard, Kinds
<1> QED  BY Zenon, <1>6, <1>7, <1>8, <1>9, <1>10, <1>11, <1>12, <1>13, <1>14

\* finalError records the error of the call.
LEMMA FinalStep ==
    ASSUME IInv, NEW c \in Calls, Final(c)
    PROVE  IInv'
<1>1. health \in Healths /\ err[c] \in Kinds \cup {"none"}
  BY Zenon DEF IInv, Types, ClientTypeOK
<1>2. health' = FinalError(health, err[c])
  BY Zenon DEF Final
<1>3. /\ health' \in Healths /\ SameCounts(health, health')
      /\ health'.connected <=> health.connected \/ err[c] = "exception"
  BY Zenon, <1>1, <1>2, FinalUpdate
<1> USE ClientAssumption DEF IInv, Final, Goto, callVars, wireVars, Executes
<1>4. Types'
  BY Zenon, <1>3 DEF Types, ClientTypeOK, Holding, Kinds
<1>5. TokenConserved'
  BY Zenon DEF Types, ClientTypeOK, TokenConserved, Holding
<1>6. Bindings'
  BY ZenonT(30) DEF Bindings, Wired, Types, ClientTypeOK, TokenConserved, Holding
<1>7. Deadlines'
  BY ZenonT(30) DEF Deadlines, Bindings, Wired, Types, ClientTypeOK, TokenConserved, Holding
<1>8. Unanswered'
  BY SMTT(30) DEF Unanswered, Outstanding, Types, ClientTypeOK, TokenConserved, Holding
<1>9. Reported'
  BY Zenon, <1>3 DEF Reported, Types, Bindings, Wired
<1>10. Counted'
  BY SMTT(30), <1>3 DEF Counted, SameCounts, DiagnosticsConsistent, Types, ClientTypeOK,
       TokenConserved, Holding
<1>11. Paced'
  BY SMTT(30) DEF Paced, Never, Types, ClientTypeOK, TokenConserved, Holding
<1>12. Executing' /\ SentOnce' /\ Heard'
  BY ZenonT(30) DEF Executing, ExecutePcs, Wired, Types, ClientTypeOK, SentOnce, Heard, Kinds
<1> QED  BY Zenon, <1>4, <1>5, <1>6, <1>7, <1>8, <1>9, <1>10, <1>11, <1>12

\* The context of a call ends, which nobody has noticed yet.
LEMMA ContextEndsStep ==
    ASSUME IInv, NEW c \in Calls, ContextEnds(c)
    PROVE  IInv'
<1> USE ClientAssumption DEF IInv, ContextEnds, callVars, wireVars, Executes
<1>1. Types'
  BY Zenon DEF Types, ClientTypeOK, Holding, Kinds
<1>2. TokenConserved'
  BY Zenon DEF Types, ClientTypeOK, TokenConserved, Holding
<1>3. Bindings'
  BY Zenon DEF Bindings, Wired, Types, ClientTypeOK, TokenConserved, Holding
<1>4. Deadlines'
  BY DEF Deadlines, Bindings, Wired, Types, ClientTypeOK, TokenConserved, Holding
<1>5. Unanswered'
  BY Zenon DEF Unanswered, Outstanding, Types, ClientTypeOK, TokenConserved, Holding
<1>6. Counted'
  BY Zenon DEF Counted, SameCounts, DiagnosticsConsistent, Types, ClientTypeOK, TokenConserved,
       Holding
<1>7. Paced'
  BY Zenon DEF Paced, Never, Types, ClientTypeOK, TokenConserved, Holding
<1>8. Executing' /\ Reported' /\ SentOnce' /\ Heard'
  BY Zenon DEF Executing, ExecutePcs, Wired, Types, ClientTypeOK, Reported, Bindings, SentOnce,
       Heard, Kinds
<1> QED  BY SMTT(30), <1>1, <1>2, <1>3, <1>4, <1>5, <1>6, <1>7, <1>8

\* A request reaches the device; the clock advances; nothing happens.
LEMMA OtherSteps ==
    ASSUME IInv, (\E m \in sent : Deliver(m)) \/ Tick \/ UNCHANGED vars
    PROVE  IInv'
<1> USE ClientAssumption DEF IInv, callVars, wireVars
<1>1. UNCHANGED <<callVars, ctx, watchdog, owner, session, health, sent>>
  BY Zenon DEF Deliver, Tick, vars
<1>2. Types'
  BY SMTT(30), <1>1 DEF Types, ClientTypeOK, Deliver, Tick, vars
<1>3. TokenConserved' /\ Executing' /\ SentOnce' /\ Reported' /\ Heard'
  BY Zenon, <1>1 DEF TokenConserved, Executing, SentOnce, Reported, Heard, Deliver, Tick, vars
<1>4. Bindings' /\ Deadlines'
  BY Zenon, <1>1 DEF Bindings, Deadlines
<1>5. Unanswered'
  BY Zenon, <1>1 DEF Unanswered, Outstanding
<1>6. Counted'
  BY Zenon, <1>1 DEF Counted, DiagnosticsConsistent
<1>7. Paced'
  BY <1>1 DEF Paced, Types, ClientTypeOK, Deliver, Tick, vars
<1> QED  BY Zenon, <1>2, <1>3, <1>4, <1>5, <1>6, <1>7

\* The invariant holds initially.
LEMMA InitHolds == Init => IInv
<1> SUFFICES ASSUME Init PROVE IInv
  OBVIOUS
<1> USE ClientAssumption DEF Init
<1>1. Types
  BY DEF Types, ClientTypeOK, Healths, NewHealth, Never, Kinds
<1>2. TokenConserved /\ Executing /\ Bindings /\ Deadlines
  BY Zenon DEF TokenConserved, Holding, Executing, ExecutePcs, Wired, Bindings, Deadlines
<1>3. Unanswered /\ Reported /\ SentOnce
  BY Zenon DEF Unanswered, Reported, NewHealth, SentOnce
<1>4. Counted
  BY DEF Counted, DiagnosticsConsistent, NewHealth, Holding
<1>5. Paced /\ Heard
  BY DEF Paced, Never, Holding, Heard, Executes
<1> QED  BY Zenon, <1>1, <1>2, <1>3, <1>4, <1>5 DEF IInv

\* Every step keeps the invariant.
LEMMA NextPreserves == IInv /\ [Next]_vars => IInv'
<1> SUFFICES ASSUME IInv, [Next]_vars PROVE IInv'
  OBVIOUS
<1>1. CASE (\E m \in sent : Deliver(m)) \/ Tick \/ UNCHANGED vars
  BY Zenon, <1>1, OtherSteps
<1>2. ASSUME NEW c \in Calls, Step(c)
      PROVE  IInv'
  <2>1. CASE AcquireCanceled(c) \/ Enter(c) \/ Recheck(c) \/ Release(c)
    BY Zenon, <2>1, AcquireCanceledStep, EnterStep, RecheckStep, ReleaseStep
  <2>2. CASE ConnectLocked(c) \/ Close(c) \/ UseSession(c)
    BY Zenon, <2>2, ConnectLockedStep, CloseStep, UseSessionStep
  <2>3. CASE \E k \in ConnectErrors(c) : ConnectLockedFails(c, k)
    BY Zenon, <2>3, ConnectLockedFailsStep
  <2>4. CASE SlotReady(c) \/ SlotRefused(c) \/ BeginRequest(c) \/ Bound(c)
    BY Zenon, <2>4, SlotReadyStep, SlotRefusedStep, BeginRequestStep, BoundStep
  <2>5. CASE WriteRefused(c) \/ Write(c) \/ FinishRequest(c)
    BY Zenon, <2>5, WriteRefusedStep, WriteStep, FinishRequestStep
  <2>6. CASE \/ \E e \in {"none", "exception"} : Answered(c, e)
             \/ \E k \in TransportKinds : ReadFails(c, k)
    BY Zenon, <2>6, AnsweredStep, ReadFailsStep
  <2>7. CASE Succeeded(c) \/ Failed(c) \/ Retry(c) \/ GiveUp(c) \/ Final(c)
    BY Zenon, <2>7, SucceededStep, FailedStep, RetryStep, GiveUpStep, FinalStep
  <2> QED  BY Zenon, <1>2, <2>1, <2>2, <2>3, <2>4, <2>5, <2>6, <2>7 DEF Step
<1>3. ASSUME NEW c \in Calls, TakeToken(c) \/ SetDeadline(c) \/ Watchdog(c) \/ ContextEnds(c)
      PROVE  IInv'
  BY Zenon, <1>3, TakeTokenStep, SetDeadlineStep, WatchdogCancelsStep, WatchdogStopsStep,
     ContextEndsStep DEF Watchdog
<1> QED  BY Zenon, <1>1, <1>2, <1>3 DEF Next

-----------------------------------------------------------------------------
(* The theorems. *)

\* The inductive invariant holds throughout.
THEOREM ClientInvariant == Spec => []IInv
<1> QED  BY InitHolds, NextPreserves, PTL DEF Spec

\* The variables of the client keep their types.
THEOREM ClientTyped == Spec => []ClientTypeOK
<1>1. IInv => ClientTypeOK
  BY Zenon DEF IInv, Types
<1> QED  BY <1>1, ClientInvariant, PTL

\* acquire and release neither lose nor duplicate the owner token.
THEOREM TokenConservedHolds == Spec => []TokenConserved
<1>1. IInv => TokenConserved
  BY Zenon DEF IInv
<1> QED  BY <1>1, ClientInvariant, PTL

\* Execute writes a request that is not a read to the wire at most once,
\* however many calls there are and whatever fails: such a call never gets to
\* a second attempt.
THEOREM WritesSentOnceHolds == Spec => []WritesSentOnce
<1>1. IInv => WritesSentOnce
  <2> SUFFICES ASSUME IInv, NEW c \in Calls, Kind[c] # "read"
               PROVE  Cardinality({n \in {1, 2} : <<c, n>> \in sent}) <= 1
    BY Zenon DEF WritesSentOnce
  <2> DEFINE T == {n \in {1, 2} : <<c, n>> \in sent}
  <2>1. T \subseteq {1}
    BY Zenon DEF IInv, SentOnce
  <2>2. IsFiniteSet({1}) /\ Cardinality({1}) = 1
    BY Zenon, FS_Singleton
  <2> HIDE DEF T
  <2>3. Cardinality(T) <= 1
    BY Zenon, <2>1, <2>2, FS_Subset
  <2> QED  BY Zenon, <2>3 DEF T
<1> QED  BY <1>1, ClientInvariant, PTL

\* Execute never leaves a connection with an unanswered request to the next
\* owner of the token.
THEOREM CleanConnectionHolds == Spec => []CleanConnection
<1>1. IInv => CleanConnection
  BY Zenon, ClientAssumption DEF IInv, Unanswered, CleanConnection
<1> QED  BY <1>1, ClientInvariant, PTL

\* The connection of a request on the wire is bound to its own context, and
\* no watchdog but its own can have cancelled it.
THEOREM OwnDeadlineHolds == Spec => []OwnDeadline
<1>1. IInv => OwnDeadline
  BY Zenon DEF IInv, Bindings, Wired, Deadlines, OwnDeadline
<1> QED  BY <1>1, ClientInvariant, PTL

\* The health endpoint reports a connection exactly while there is a session.
THEOREM HealthMatchesSessionHolds == Spec => []HealthMatchesSession
<1>1. IInv => HealthMatchesSession
  BY Zenon DEF IInv, Reported, HealthMatchesSession
<1> QED  BY <1>1, ClientInvariant, PTL

\* A recovered retry was counted as a retry before, and the first failure has
\* a date exactly while failures are counted.
THEOREM DiagnosticsConsistentHolds == Spec => []DiagnosticsConsistent
<1>1. IInv => DiagnosticsConsistent
  BY Zenon DEF IInv, Counted
<1> QED  BY <1>1, ClientInvariant, PTL

\* Execute writes nothing to the wire before the request delay has passed since
\* every earlier result.
THEOREM RequestsPacedHolds == Spec => RequestsPaced
<1> DEFINE A == \A c, d \in Calls :
                  (/\ <<c, attempt[c]>> \in sent' \ sent
                   /\ responseCompletedAt[d] # Never /\ err[d] # "exception")
                  => now >= responseCompletedAt[d] + RequestDelay
<1>1. IInv /\ [Next]_vars => [A]_vars
  <2> SUFFICES ASSUME IInv, Next, NEW c \in Calls, NEW d \in Calls,
                      <<c, attempt[c]>> \in sent' \ sent,
                      responseCompletedAt[d] # Never, err[d] # "exception"
               PROVE  now >= responseCompletedAt[d] + RequestDelay
    BY SMTT(30)
  <2>1. PICK w \in Calls : Write(w)
    BY ZenonT(60) DEF Next, Step, Watchdog, AcquireCanceled, Enter, TakeToken, Recheck, Release,
       ConnectLocked, ConnectLockedFails, Close, UseSession, SlotReady, SlotRefused,
       BeginRequest, Bound, WriteRefused, Answered, ReadFails, FinishRequest, Succeeded,
       Failed, Retry, GiveUp, Final, SetDeadline, WatchdogCancels, WatchdogStops,
       ContextEnds, Deliver, Tick, wireVars
  <2>2. pc[w] = "write" /\ owner = w /\ requestSlotReady[w] /\ nextRequestAt <= now
    BY Zenon, <2>1 DEF Write, IInv, TokenConserved, Holding, Paced
  <2>3. pc[d] \notin {"finish", "classify"}
    BY Zenon, <2>2 DEF IInv, TokenConserved, Holding
  <2>4. /\ responseCompletedAt[d] \in Nat /\ nextRequestAt \in Nat /\ now \in Nat
        /\ RequestDelay \in Nat
    BY Zenon, ClientAssumption DEF IInv, Types, ClientTypeOK
  <2>5. /\ responseCompletedAt[d] <= now
        /\ RequestDelay = 0 \/ nextRequestAt >= responseCompletedAt[d] + RequestDelay
    BY Zenon, <2>3 DEF IInv, Paced
  <2> QED  BY <2>2, <2>4, <2>5
<1> QED  BY <1>1, ClientInvariant, PTL DEF Spec, RequestsPaced

-----------------------------------------------------------------------------
(* Execute implements what the request handlers rely on. *)

\* The attempts of each call that were received.
Attempts == [c \in Calls |-> {n \in {1, 2} : <<c, n>> \in received}]

\* A step of a call moves that call only, not once it is done, and delivers
\* nothing.
LEMMA CallStep ==
    ASSUME IInv, NEW c \in Calls,
           TakeToken(c) \/ Step(c) \/ SetDeadline(c) \/ Watchdog(c) \/ ContextEnds(c)
    PROVE  /\ received' = received
           /\ \A d \in Calls : d # c \/ pc[d] = "done" => pc'[d] = pc[d] /\ err'[d] = err[d]
<1> USE DEF IInv, Types, ClientTypeOK, callVars, wireVars, Goto, GotoWith
<1>1. CASE \/ AcquireCanceled(c) \/ Enter(c) \/ TakeToken(c) \/ Recheck(c) \/ Release(c)
           \/ Close(c) \/ UseSession(c) \/ ConnectLocked(c)
           \/ \E k \in ConnectErrors(c) : ConnectLockedFails(c, k)
  BY Zenon, <1>1 DEF AcquireCanceled, Enter, TakeToken, Recheck, Release, Close, UseSession,
     ConnectLocked, ConnectLockedFails, Connecting
<1>2. CASE \/ SlotReady(c) \/ SlotRefused(c) \/ BeginRequest(c) \/ Bound(c)
           \/ WriteRefused(c) \/ Write(c) \/ FinishRequest(c)
           \/ \E e \in {"none", "exception"} : Answered(c, e)
           \/ \E k \in TransportKinds : ReadFails(c, k)
  BY SMTT(30), <1>2 DEF SlotReady, SlotRefused, BeginRequest, Bound, WriteRefused, Write,
     FinishRequest, Answered, ReadFails
<1>3. CASE \/ Succeeded(c) \/ Failed(c) \/ Retry(c) \/ GiveUp(c) \/ Final(c)
           \/ SetDeadline(c) \/ Watchdog(c) \/ ContextEnds(c)
  BY Zenon, <1>3 DEF Succeeded, Failed, Retry, GiveUp, Final, SetDeadline, Watchdog,
     WatchdogCancels, WatchdogStops, ContextEnds
<1> QED  BY SMTT(30), <1>1, <1>2, <1>3 DEF Step

\* Counting the attempts that were received.
LEMMA AttemptCount ==
    ASSUME NEW S \in SUBSET {1, 2}
    PROVE  /\ Cardinality(S) \in Nat
           /\ S # {} => Cardinality(S) > 0
           /\ S = {} => Cardinality(S) = 0
           /\ \A n \in {1, 2} \ S : /\ Cardinality(S) < 2
                                    /\ Cardinality(S \cup {n}) = Cardinality(S) + 1
<1>1. IsFiniteSet({1}) /\ IsFiniteSet({2}) /\ Cardinality({1}) = 1 /\ Cardinality({2}) = 1
  BY Zenon, FS_Singleton
<1>2. IsFiniteSet({1} \cup {2})
  BY Zenon, <1>1, FS_AddElement
<1>3. S \subseteq {1} \cup {2}
  OBVIOUS
<1>4. IsFiniteSet(S)
  BY Zenon, <1>2, <1>3, FS_Subset
<1>5. Cardinality(S) \in Nat
  BY Zenon, <1>4, FS_CardinalityType
<1>6. Cardinality(S) = 0 <=> S = {}
  BY Zenon, <1>4, FS_EmptySet
<1>7. ASSUME NEW n \in {1, 2} \ S
      PROVE  Cardinality(S) < 2 /\ Cardinality(S \cup {n}) = Cardinality(S) + 1
  <2>1. CASE S \subseteq {1}
    <3>1. Cardinality(S) <= Cardinality({1})
      BY Zenon, <1>1, <2>1, FS_Subset
    <3> QED  BY <1>1, <1>4, <1>5, <3>1, FS_AddElement
  <2>2. CASE S \subseteq {2}
    <3>1. Cardinality(S) <= Cardinality({2})
      BY Zenon, <1>1, <2>2, FS_Subset
    <3> QED  BY <1>1, <1>4, <1>5, <3>1, FS_AddElement
  <2> QED  BY Zenon, <2>1, <2>2
<1>8. S # {} => Cardinality(S) > 0
  <2>1. \A k \in Nat : k # 0 => k > 0
    OBVIOUS
  <2> QED  BY Zenon, <1>5, <1>6, <2>1
<1> QED  BY Zenon, <1>5, <1>6, <1>7, <1>8

\* The device receives a read at most twice and anything else at most once,
\* and Execute returns an answer only of a request that was received.
THEOREM ClientImplementsUpstream == Spec => ImplementsUpstream
<1> USE DEF Executes
<1>0. \A c \in Executes : /\ Received[c] = Cardinality(Attempts[c])
                           /\ Received'[c] = Cardinality(Attempts'[c])
  BY Zenon DEF Received, Attempts
<1>1. Init => Promise!Init
  <2> SUFFICES ASSUME Init PROVE Promise!Init
    OBVIOUS
  <2>1. \A c \in Executes : Outcome[c] = "pending" /\ Cardinality(Attempts[c]) = 0
    <3> SUFFICES ASSUME NEW c \in Executes
                 PROVE  Outcome[c] = "pending" /\ Cardinality(Attempts[c]) = 0
      OBVIOUS
    <3>1. Attempts[c] = {}
      BY Zenon DEF Init, Attempts
    <3> QED  BY Zenon, <3>1, FS_EmptySet DEF Init, Outcome, Executes
  <2> QED  BY Zenon, <1>0, <2>1 DEF Promise!Init, Outcome, Received
<1>2. ASSUME IInv, IInv', [Next]_vars
      PROVE  [Promise!Next]_<<Outcome, Received>>
  <2>1. CASE UNCHANGED <<pc, err, received>>
    BY Zenon, <2>1 DEF Outcome, Received
  <2>2. ASSUME NEW c \in Calls, received' = received,
               \A d \in Calls : d # c \/ pc[d] = "done" => pc'[d] = pc[d] /\ err'[d] = err[d]
        PROVE  [Promise!Next]_<<Outcome, Received>>
    <3>1. Received' = Received
      BY Zenon, <2>2 DEF Received
    <3>2. \A d \in Executes \ {c} : Outcome'[d] = Outcome[d]
      BY Zenon, <2>2 DEF Outcome, Executes
    <3>3. CASE c \in Executes /\ pc[c] # "done" /\ pc'[c] = "done"
      <4>1. Outcome[c] = "pending" /\ Outcome'[c] \in {"ok", "exception", "failed"}
        BY Zenon, <3>3 DEF Outcome
      <4>2. Outcome' = [Outcome EXCEPT ![c] = Outcome'[c]]
        <5>1. /\ Outcome = [d \in Executes |-> Outcome[d]]
              /\ Outcome' = [d \in Executes |-> Outcome'[d]]
          BY Zenon DEF Outcome
        <5> HIDE DEF Executes
        <5> QED  BY Zenon, <3>2, <3>3, <5>1
      <4>3. Outcome'[c] # "failed" => Received[c] > 0
        <5> SUFFICES ASSUME Outcome'[c] # "failed" PROVE Received[c] > 0
          OBVIOUS
        <5>1. err'[c] \in {"none", "exception"}
          BY Zenon, <3>3 DEF Outcome
        <5>2. <<c, attempt'[c]>> \in received /\ attempt'[c] \in {1, 2}
          BY Zenon, <1>2, <2>2, <3>3, <5>1 DEF IInv, Heard, Types, ClientTypeOK
        <5>3. Attempts[c] # {} /\ Attempts[c] \in SUBSET {1, 2}
          BY Zenon, <5>2 DEF Attempts
        <5> QED  BY Zenon, <1>0, <3>3, <5>3, AttemptCount
      <4>4. Promise!Return(c, Outcome'[c])
        BY Zenon, <3>1, <3>3, <4>1, <4>2, <4>3 DEF Promise!Return
      <4> QED  BY Zenon, <3>3, <4>1, <4>4 DEF Promise!Next, Promise!Outcomes
    <3>4. CASE ~(c \in Executes /\ pc[c] # "done" /\ pc'[c] = "done")
      <4>1. \A d \in Executes : Outcome'[d] = Outcome[d]
        BY ZenonT(30), <2>2, <3>2, <3>4 DEF Outcome
      <4>2. Outcome' = Outcome
        BY Zenon, <4>1 DEF Outcome
      <4> QED  BY Zenon, <3>1, <4>2
    <3> QED  BY Zenon, <3>3, <3>4
  <2>3. ASSUME NEW m \in sent, Deliver(m)
        PROVE  [Promise!Next]_<<Outcome, Received>>
    <3>1. PICK c \in Calls, n \in {1, 2} : m = <<c, n>>
      BY <1>2 DEF IInv, Types, ClientTypeOK
    <3>2. Outcome' = Outcome
      BY Zenon, <2>3 DEF Deliver, callVars, Outcome
    <3>3. \A d \in Calls \ {c} : Attempts'[d] = Attempts[d]
      BY Zenon, <2>3, <3>1 DEF Deliver, Attempts
    <3>4. /\ Attempts[c] \in SUBSET {1, 2} /\ n \in {1, 2} \ Attempts[c]
          /\ Attempts'[c] = Attempts[c] \cup {n}
      BY Zenon, <2>3, <3>1 DEF Deliver, Attempts
    <3>5. CASE c \in Executes
      <4>1. Cardinality(Attempts'[c]) = Cardinality(Attempts[c]) + 1
        BY Zenon, <3>4, AttemptCount
      <4>2. Cardinality(Attempts[c]) < (IF Kind[c] = "read" THEN 2 ELSE 1)
        <5>1. CASE Kind[c] = "read"
          BY Zenon, <3>4, <5>1, AttemptCount
        <5>2. CASE Kind[c] # "read"
          <6>1. Attempts[c] = {}
            BY SMTT(30), <1>2, <2>3, <3>1, <3>4, <5>2 DEF IInv, SentOnce, Types,
                 ClientTypeOK, Attempts
          <6> QED  BY <3>4, <5>2, <6>1, AttemptCount
        <5> QED  BY Zenon, <5>1, <5>2
      <4>3. Received' = [Received EXCEPT ![c] = @ + 1]
        <5>1. /\ Received = [d \in Executes |-> Received[d]]
              /\ Received' = [d \in Executes |-> Received'[d]]
          BY Zenon DEF Received
        <5>2. \A d \in Executes \ {c} : Received'[d] = Received[d]
          BY Zenon, <1>0, <3>3
        <5>3. Received'[c] = Received[c] + 1
          BY Zenon, <1>0, <3>5, <4>1
        <5> HIDE DEF Executes
        <5> QED  BY Zenon, <3>5, <5>1, <5>2, <5>3
      <4>4. Promise!DeviceReceives(c)
        BY Zenon, <1>0, <3>2, <3>5, <4>2, <4>3 DEF Promise!DeviceReceives
      <4> QED  BY Zenon, <3>5, <4>4 DEF Promise!Next
    <3>6. CASE c \notin Executes
      <4>1. Received' = Received
        BY Zenon, <3>3, <3>6 DEF Received, Attempts
      <4> QED  BY Zenon, <3>2, <4>1
    <3> QED  BY Zenon, <3>5, <3>6
  <2>4. CASE \E c \in Calls : TakeToken(c) \/ Step(c) \/ SetDeadline(c) \/ Watchdog(c)
                               \/ ContextEnds(c)
    BY Zenon, <1>2, <2>2, <2>4, CallStep
  <2>5. CASE Tick \/ UNCHANGED vars
    BY Zenon, <2>1, <2>5 DEF Tick, vars, callVars, wireVars
  <2> QED  BY Zenon, <1>2, <2>3, <2>4, <2>5 DEF Next
<1> QED  BY <1>1, <1>2, ClientInvariant, PTL DEF Spec, ImplementsUpstream, Promise!Spec

-----------------------------------------------------------------------------
(* What the health endpoint says when a call returns. *)

\* The health fields, and what a call that returns has made of them, through
\* every step of the client.
LEMMA NextSettles ==
    ASSUME IInv, Settled, [Next]_vars
    PROVE  Settled'
<1>1. CASE \E c \in Calls : TakeToken(c) \/ Step(c)
  BY Zenon, <1>1, QuietSteps, HealthSteps DEF Step
<1>2. CASE \E c \in Calls : SetDeadline(c) \/ Watchdog(c) \/ ContextEnds(c)
  BY Zenon, <1>2 DEF SetDeadline, Watchdog, WatchdogCancels, WatchdogStops, ContextEnds, Settled,
       callVars
<1>3. CASE (\E m \in sent : Deliver(m)) \/ Tick \/ UNCHANGED vars
  BY Zenon, <1>3 DEF Deliver, Tick, vars, callVars, Settled
<1> QED  BY Zenon, <1>1, <1>2, <1>3 DEF Next

\* When an Execute returns, the health endpoint answers 200 after a result,
\* with a first failure on record exactly if the result took a retry, and 503
\* after a transport failure.
THEOREM HealthFollowsCalls == Spec => []HealthAfterCall
<1>1. Init => Settled
  BY DEF Init, Settled, Holding
<1>2. IInv /\ Settled => HealthAfterCall
  <2> SUFFICES ASSUME IInv, Settled, NEW c \in Executes, pc[c] = "release"
               PROVE  /\ err[c] = "none" =>
                           /\ HealthReport(health, now).http = 200
                           /\ attempt[c] = 2 <=> health.firstFailureAt # Never
                      /\ err[c] \in TransportKinds => HealthReport(health, now).http = 503
    BY Zenon DEF HealthAfterCall
  <2>1. c \in Calls /\ attempt[c] \in {1, 2}
    BY Zenon DEF Executes, IInv, Types, ClientTypeOK
  <2>2. Healthy(health) => HealthReport(health, now).http = 200
    BY Zenon DEF HealthReport
  <2>3. ~Healthy(health) => HealthReport(health, now).http = 503
    BY Zenon DEF HealthReport
  <2> QED  BY <2>1, <2>2, <2>3 DEF Settled, Healthy, Holding
<1> QED  BY <1>1, <1>2, ClientInvariant, NextSettles, PTL DEF Spec
=============================================================================
