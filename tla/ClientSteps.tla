----------------------------- MODULE ClientSteps ----------------------------
(***************************************************************************)
(* The inductive invariant of the upstream client, for any number of calls *)
(* of any kind, any request delay and any clock, and that the steps up to  *)
(* the answer of the device keep it; the others are in ClientProofs.       *)
(*                                                                         *)
(* Nothing about the connection is inductive without the binding of a      *)
(* connection to the call that has the token, from BeginRequest until      *)
(* finishRequest has joined the watchdog.  That the connection is clean    *)
(* needs that its only unanswered request is the owner's last attempt and  *)
(* that the owner will close it.  The pacing needs that a call whose slot  *)
(* is ready has waited for every result before, so that its own result is  *)
(* the latest when it moves nextRequestAt.                                 *)
(*                                                                         *)
(* The last section has Settled, what the health fields say of a call that *)
(* returns, and that every step of a call keeps it.                        *)
(***************************************************************************)
EXTENDS Client, TLAPS

\* Where a call has the connection bound to its context.
Wired == {"bound", "refused", "write", "read", "finish"}

\* Where only Execute gets.
ExecutePcs == Wired \cup {"slot", "begin", "classify", "failed", "final"}

Healths == [lastErr : Kinds \cup {"none"}, connected : BOOLEAN, firstFailureAt : Nat,
            lastFirstSuccess : Nat, lastSuccess : Nat, firstFailures : Nat,
            finalFailures : Nat, totalRetries : Nat, recoveredRetries : Nat]

Types == ClientTypeOK /\ health \in Healths /\ now > 0

Executing == \A c \in Calls : pc[c] \in ExecutePcs => c \in Executes

\* Who has a session, whom it is bound to, and whose watchdog runs.
Bindings ==
    \A c \in Calls :
        /\ pc[c] \in Wired \cup {"slot", "begin", "classify"} => session # None
        /\ pc[c] \in Wired => session.ctx = c
        /\ watchdog[c] # "stopped" => pc[c] \in Wired
        /\ pc[c] \in {"failed", "final"} /\ err[c] = "exception" => session # None

\* The deadline of the connection on the way to the wire and on it.
Deadlines ==
    \A c \in Calls : pc[c] \in {"bound", "write", "read"} =>
        /\ ctx[c] = "active" => ~session.canceledErr /\ session.deadline = "ahead"
        /\ session.canceledErr => session.deadline = "past"

\* A request that was written and not answered is the owner's last attempt,
\* and the owner is on its way to give the connection up.
Outstanding(c) ==
    \/ pc[c] = "read"
    \/ pc[c] \in {"finish", "classify", "failed"} /\ err[c] \notin {"none", "exception"}

Unanswered ==
    session # None => \A m \in session.unanswered :
        owner \in Calls /\ m = <<owner, attempt[owner]>> /\ Outstanding(owner)

Reported == health.connected <=> session # None

SentOnce == \A c \in Calls : Kind[c] # "read" => attempt[c] = 1 /\ <<c, 2>> \notin sent

\* A retry is counted before it is recovered.
Counted ==
    /\ DiagnosticsConsistent
    /\ \A c \in Calls :
          /\ pc[c] \in {"start", "select"} => attempt[c] = 1
          /\ pc[c] \in Holding \ {"release"} /\ attempt[c] = 2 =>
                health.recoveredRetries < health.totalRetries

\* An Execute that has an answer has been received.
Heard ==
    \A c \in Executes :
        /\ pc[c] \in {"refused", "finish", "classify", "failed", "final", "release", "done"}
        /\ err[c] \in {"none", "exception"}
        => <<c, attempt[c]>> \in received

\* When results came, and what nextRequestAt says of them: a call whose slot is
\* ready has waited for all of them, and the one whose result has not been
\* recorded yet came after.
Paced ==
    \A c \in Calls :
        /\ responseCompletedAt[c] <= now
        /\ responseCompletedAt[c] # Never =>
              /\ pc[c] \in {"finish", "classify", "failed", "final", "release", "done"}
              /\ pc[c] = "failed" => err[c] = "exception"
              /\ pc[c] \in {"finish", "classify"} => err[c] \in {"none", "exception"}
              /\ pc[c] \in {"finish", "classify"} => nextRequestAt <= responseCompletedAt[c]
              /\ err[c] = "exception" \/ pc[c] \in {"finish", "classify"} \/ RequestDelay = 0
                   \/ nextRequestAt >= responseCompletedAt[c] + RequestDelay
        /\ pc[c] \in {"finish", "classify"} /\ err[c] = "none" => responseCompletedAt[c] # Never
        /\ pc[c] \in {"begin", "bound", "write", "read"} => requestSlotReady[c]
        /\ pc[c] \in {"start", "select"} => ~requestSlotReady[c]
        /\ requestSlotReady[c] /\ pc[c] \in Holding /\ responseCompletedAt[c] = Never =>
              nextRequestAt <= now

IInv ==
    /\ Types /\ TokenConserved /\ Executing /\ Bindings /\ Deadlines
    /\ Unanswered /\ Reported /\ SentOnce /\ Counted /\ Heard /\ Paced

-----------------------------------------------------------------------------
(* The health updates, by what the invariant looks at. *)

SameCounts(h, g) ==
    /\ g.firstFailureAt = h.firstFailureAt /\ g.firstFailures = h.firstFailures
    /\ g.totalRetries = h.totalRetries /\ g.recoveredRetries = h.recoveredRetries

\* connectLocked, disconnectLocked and Close set connected and count nothing.
LEMMA ConnectionUpdates ==
    ASSUME NEW h \in Healths, NEW k \in Kinds \cup {"none"}
    PROVE  /\ Connected(h) \in Healths /\ Connected(h).connected
           /\ ConnectFailed(h, k) \in Healths /\ ~ConnectFailed(h, k).connected
           /\ Disconnected(h) \in Healths /\ ~Disconnected(h).connected
           /\ SameCounts(h, Connected(h)) /\ SameCounts(h, ConnectFailed(h, k))
           /\ SameCounts(h, Disconnected(h))
BY Zenon DEF Healths, Connected, ConnectFailed, Disconnected, SameCounts

\* recordFirstFailure counts a failure and dates the first.
LEMMA FirstFailureUpdate ==
    ASSUME NEW h \in Healths, NEW n \in Nat, n > 0
    PROVE  LET g == RecordFirstFailure(h, n)
           IN  /\ g \in Healths /\ (g.connected <=> h.connected)
               /\ g.firstFailureAt # Never /\ g.firstFailures > 0
               /\ g.totalRetries = h.totalRetries /\ g.recoveredRetries = h.recoveredRetries
<1> DEFINE at == IF h.firstFailureAt = Never THEN n ELSE h.firstFailureAt
           count == h.firstFailures + 1
<1>1. RecordFirstFailure(h, n) = [h EXCEPT !.firstFailureAt = at, !.firstFailures = count]
  BY DEF RecordFirstFailure
<1>2. at \in Nat /\ at # Never /\ count \in Nat /\ count > 0
  BY DEF Healths, Never
<1> HIDE DEF at, count
<1> DEFINE g == RecordFirstFailure(h, n)
<1>3. g \in Healths
  BY Zenon, <1>1, <1>2 DEF Healths
<1>4. g.firstFailureAt = at /\ g.firstFailures = count
  BY <1>1 DEF Healths
<1>5. /\ g.connected = h.connected /\ g.totalRetries = h.totalRetries
      /\ g.recoveredRetries = h.recoveredRetries
  BY <1>1 DEF Healths
<1> QED  BY <1>2, <1>3, <1>4, <1>5

\* recordRetry counts a retry and touches nothing else.
LEMMA RetryUpdate ==
    ASSUME NEW h \in Healths
    PROVE  LET g == RecordRetry(h)
           IN  /\ g \in Healths /\ (g.connected <=> h.connected)
               /\ g.firstFailureAt = h.firstFailureAt /\ g.firstFailures = h.firstFailures
               /\ g.totalRetries = h.totalRetries + 1 /\ g.recoveredRetries = h.recoveredRetries
BY DEF Healths, RecordRetry

\* recordSuccess clears the failures after a first attempt, and counts a
\* recovery after a retry.
LEMMA SuccessUpdate ==
    ASSUME NEW h \in Healths, NEW a \in {1, 2}, NEW n \in Nat,
           NEW g, g = RecordSuccess(h, a, n)
    PROVE  /\ g \in Healths /\ g.connected
           /\ a = 1 => /\ g.firstFailureAt = Never /\ g.firstFailures = 0
                       /\ g.recoveredRetries = h.recoveredRetries
           /\ a = 2 => /\ g.firstFailureAt = h.firstFailureAt
                       /\ g.firstFailures = h.firstFailures
                       /\ g.recoveredRetries = h.recoveredRetries + 1
           /\ g.totalRetries = h.totalRetries
<1> DEFINE at == IF a = 1 THEN Never ELSE h.firstFailureAt
           count == IF a = 1 THEN 0 ELSE h.firstFailures
           first == IF a = 1 THEN n ELSE h.lastFirstSuccess
           recovered == IF a = 1 THEN h.recoveredRetries ELSE h.recoveredRetries + 1
<1>1. g = [h EXCEPT !.firstFailureAt = at, !.firstFailures = count,
                    !.lastFirstSuccess = first, !.recoveredRetries = recovered,
                    !.lastSuccess = n, !.lastErr = "none", !.finalFailures = 0,
                    !.connected = TRUE]
  BY DEF RecordSuccess
<1>2. at \in Nat /\ count \in Nat /\ first \in Nat /\ recovered \in Nat
  BY DEF Healths, Never
<1>3. /\ g.firstFailureAt = at /\ g.firstFailures = count /\ g.recoveredRetries = recovered
      /\ g.totalRetries = h.totalRetries /\ g.connected
  <2> HIDE DEF at, count, first, recovered
  <2> QED  BY <1>1 DEF Healths
<1>4. g \in Healths
  <2> HIDE DEF at, count, first, recovered
  <2>1. g = [lastErr |-> "none", connected |-> TRUE, firstFailureAt |-> at,
             lastFirstSuccess |-> first, lastSuccess |-> n, firstFailures |-> count,
             finalFailures |-> 0, totalRetries |-> h.totalRetries,
             recoveredRetries |-> recovered]
    BY Zenon, <1>1 DEF Healths
  <2>2. h.totalRetries \in Nat
    BY DEF Healths
  <2> QED  BY <1>2, <2>1, <2>2 DEF Healths
<1> QED  BY <1>3, <1>4

\* The same for the two attempts a request can be at.
LEMMA SuccessCounts ==
    ASSUME NEW h \in Healths, NEW n \in Nat
    PROVE  /\ LET g == RecordSuccess(h, 1, n)
              IN  /\ g.firstFailureAt = Never /\ g.firstFailures = 0
                  /\ g.recoveredRetries = h.recoveredRetries
                  /\ g.totalRetries = h.totalRetries
           /\ LET g == RecordSuccess(h, 2, n)
              IN  /\ g.firstFailureAt = h.firstFailureAt /\ g.firstFailures = h.firstFailures
                  /\ g.recoveredRetries = h.recoveredRetries + 1
                  /\ g.totalRetries = h.totalRetries
<1>1. /\ RecordSuccess(h, 1, n) = RecordSuccess(h, 1, n)
      /\ RecordSuccess(h, 2, n) = RecordSuccess(h, 2, n)
  OBVIOUS
<1> QED  BY <1>1, SuccessUpdate

\* finalError says connected again after an exception and touches no counter of
\* first failures or retries.
LEMMA FinalUpdate ==
    ASSUME NEW h \in Healths, NEW k \in Kinds \cup {"none"}
    PROVE  LET g == FinalError(h, k)
           IN  /\ g \in Healths /\ SameCounts(h, g)
               /\ (g.connected <=> h.connected \/ k = "exception")
<1>1. CASE k = "exception"
  BY Zenon, <1>1 DEF Healths, FinalError, SameCounts, Kinds
<1>2. CASE k = "canceled"
  BY <1>2 DEF Healths, FinalError, SameCounts, Kinds
<1>3. CASE k \notin {"exception", "canceled"}
  <2> DEFINE f == IF k \in TransportKinds THEN h.finalFailures + 1 ELSE h.finalFailures
  <2>1. FinalError(h, k) = [h EXCEPT !.lastErr = k, !.finalFailures = f]
    BY <1>3 DEF FinalError
  <2>2. f \in Nat
    BY DEF Healths
  <2> HIDE DEF f
  <2> QED  BY Zenon, <1>3, <2>1, <2>2 DEF Healths, SameCounts
<1> QED  BY <1>1, <1>2, <1>3

-----------------------------------------------------------------------------
(* One lemma for each action. *)

\* acquire gives up without the token: the call was bound to nothing.
LEMMA AcquireCanceledStep ==
    ASSUME IInv, NEW c \in Calls, AcquireCanceled(c)
    PROVE  IInv'
<1> USE ClientAssumption DEF IInv, AcquireCanceled, Goto, GotoWith, CtxErr, callVars,
     wireVars, Executes
<1>1. Types'
  BY DEF Types, ClientTypeOK, Holding, Kinds
<1>2. TokenConserved'
  BY DEF Types, ClientTypeOK, TokenConserved, Holding
<1>3. Bindings'
  BY DEF Bindings, Wired, Types, ClientTypeOK, TokenConserved, Holding
<1>4. Deadlines'
  BY DEF Deadlines, Bindings, Wired, Types, ClientTypeOK, TokenConserved, Holding
<1>5. Unanswered'
  BY DEF Unanswered, Outstanding, Types, ClientTypeOK, TokenConserved, Holding
<1>6. Counted'
  BY DEF Counted, SameCounts, DiagnosticsConsistent, Types, ClientTypeOK, TokenConserved,
       Holding
<1>7. Paced'
  BY DEF Paced, Never, Types, ClientTypeOK, TokenConserved, Holding
<1>8. Executing' /\ Reported' /\ SentOnce' /\ Heard'
  BY DEF Executing, ExecutePcs, Wired, Types, ClientTypeOK, Reported, Bindings, SentOnce,
       Heard, Kinds
<1> QED  BY <1>1, <1>2, <1>3, <1>4, <1>5, <1>6, <1>7, <1>8

\* acquire starts to wait.
LEMMA EnterStep ==
    ASSUME IInv, NEW c \in Calls, Enter(c)
    PROVE  IInv'
<1> USE ClientAssumption DEF IInv, Enter, Goto, callVars, wireVars, Executes
<1>1. Types'
  BY DEF Types, ClientTypeOK, Holding, Kinds
<1>2. TokenConserved'
  BY DEF Types, ClientTypeOK, TokenConserved, Holding
<1>3. Bindings'
  BY DEF Bindings, Wired, Types, ClientTypeOK, TokenConserved, Holding
<1>4. Deadlines'
  BY DEF Deadlines, Bindings, Wired, Types, ClientTypeOK, TokenConserved, Holding
<1>5. Unanswered'
  BY DEF Unanswered, Outstanding, Types, ClientTypeOK, TokenConserved, Holding
<1>6. Counted'
  BY DEF Counted, SameCounts, DiagnosticsConsistent, Types, ClientTypeOK, TokenConserved,
       Holding
<1>7. Paced'
  BY DEF Paced, Never, Types, ClientTypeOK, TokenConserved, Holding
<1>8. Executing' /\ Reported' /\ SentOnce' /\ Heard'
  BY DEF Executing, ExecutePcs, Wired, Types, ClientTypeOK, Reported, Bindings, SentOnce,
       Heard, Kinds
<1> QED  BY <1>1, <1>2, <1>3, <1>4, <1>5, <1>6, <1>7, <1>8

\* acquire gets the token, which nobody had: the connection it will find has
\* no unanswered request.
LEMMA TakeTokenStep ==
    ASSUME IInv, NEW c \in Calls, TakeToken(c)
    PROVE  IInv'
<1> USE ClientAssumption DEF IInv, TakeToken, Goto, callVars, wireVars, Executes
<1>1. Types'
  BY DEF Types, ClientTypeOK, Holding, Kinds
<1>2. TokenConserved'
  BY DEF Types, ClientTypeOK, TokenConserved, Holding
<1>3. Bindings'
  BY DEF Bindings, Wired, Types, ClientTypeOK, TokenConserved, Holding
<1>4. Deadlines'
  BY DEF Deadlines, Bindings, Wired, Types, ClientTypeOK, TokenConserved, Holding
<1>5. Unanswered'
  BY DEF Unanswered, Outstanding, Types, ClientTypeOK, TokenConserved, Holding
<1>6. Counted'
  BY DEF Counted, SameCounts, DiagnosticsConsistent, Types, ClientTypeOK, TokenConserved,
       Holding
<1>7. Paced'
  BY DEF Paced, Never, Types, ClientTypeOK, TokenConserved, Holding
<1>8. Executing' /\ Reported' /\ SentOnce' /\ Heard'
  BY DEF Executing, ExecutePcs, Wired, Types, ClientTypeOK, Reported, Bindings, SentOnce,
       Heard, Kinds
<1> QED  BY <1>1, <1>2, <1>3, <1>4, <1>5, <1>6, <1>7, <1>8

\* acquire looks at the context once more and keeps the token or returns it.
LEMMA RecheckStep ==
    ASSUME IInv, NEW c \in Calls, Recheck(c)
    PROVE  IInv'
<1> USE ClientAssumption DEF IInv, Recheck, Goto, GotoWith, CtxErr, callVars, wireVars, Executes
<1>1. Types'
  BY DEF Types, ClientTypeOK, Holding, Kinds
<1>2. TokenConserved'
  BY DEF Types, ClientTypeOK, TokenConserved, Holding
<1>3. Bindings'
  BY DEF Bindings, Wired, Types, ClientTypeOK, TokenConserved, Holding
<1>4. Deadlines'
  BY DEF Deadlines, Bindings, Wired, Types, ClientTypeOK, TokenConserved, Holding
<1>5. Unanswered'
  BY DEF Unanswered, Outstanding, Types, ClientTypeOK, TokenConserved, Holding
<1>6. Counted'
  BY DEF Counted, SameCounts, DiagnosticsConsistent, Types, ClientTypeOK, TokenConserved,
       Holding
<1>7. Paced'
  BY DEF Paced, Never, Types, ClientTypeOK, TokenConserved, Holding
<1>8. Executing' /\ Reported' /\ SentOnce' /\ Heard'
  BY DEF Executing, ExecutePcs, Wired, Types, ClientTypeOK, Reported, Bindings, SentOnce,
       Heard, Kinds
<1> QED  BY <1>1, <1>2, <1>3, <1>4, <1>5, <1>6, <1>7, <1>8

\* release returns the token: whoever fails has closed its connection before.
LEMMA ReleaseStep ==
    ASSUME IInv, NEW c \in Calls, Release(c)
    PROVE  IInv'
<1> USE ClientAssumption DEF IInv, Release, Goto, callVars, wireVars, Executes
<1>1. Types'
  BY DEF Types, ClientTypeOK, Holding, Kinds
<1>2. TokenConserved'
  BY DEF Types, ClientTypeOK, TokenConserved, Holding
<1>3. Bindings'
  BY DEF Bindings, Wired, Types, ClientTypeOK, TokenConserved, Holding
<1>4. Deadlines'
  BY DEF Deadlines, Bindings, Wired, Types, ClientTypeOK, TokenConserved, Holding
<1>5. Unanswered'
  BY DEF Unanswered, Outstanding, Types, ClientTypeOK, TokenConserved, Holding
<1>6. Counted'
  BY DEF Counted, SameCounts, DiagnosticsConsistent, Types, ClientTypeOK, TokenConserved,
       Holding
<1>7. Paced'
  BY DEF Paced, Never, Types, ClientTypeOK, TokenConserved, Holding
<1>8. Executing' /\ Reported' /\ SentOnce' /\ Heard'
  BY DEF Executing, ExecutePcs, Wired, Types, ClientTypeOK, Reported, Bindings, SentOnce,
       Heard, Kinds
<1> QED  BY <1>1, <1>2, <1>3, <1>4, <1>5, <1>6, <1>7, <1>8

\* connectLocked opens a new connection, bound to nobody, and reports it.
LEMMA ConnectLockedStep ==
    ASSUME IInv, NEW c \in Calls, ConnectLocked(c)
    PROVE  IInv'
<1> USE ClientAssumption DEF IInv, ConnectLocked, Connecting, NewConn, Goto, callVars,
     wireVars, Executes
<1>1. session' = NewConn /\ NewConn \in Conns
  BY SMTT(30) DEF NewConn, Conns
<1>2. session' # None /\ session'.ctx = None /\ session'.unanswered = {}
  <2>1. session' # None
    BY Zenon, <1>1
  <2>2. NewConn.ctx = None /\ NewConn.unanswered = {}
    BY DEF NewConn
  <2> QED  BY <1>1, <2>1, <2>2
<1>3. health' \in Healths /\ health'.connected /\ SameCounts(health, health')
  BY ConnectionUpdates DEF Types
<1>4. Types'
  BY <1>1, <1>2, <1>3 DEF Types, ClientTypeOK, Holding, Kinds
<1>5. TokenConserved'
  BY DEF Types, ClientTypeOK, TokenConserved, Holding
<1>6. Bindings'
  BY <1>1, <1>2, <1>3 DEF Bindings, Wired, Types, ClientTypeOK, TokenConserved, Holding
<1>7. Deadlines'
  BY <1>1, <1>2, <1>3 DEF Deadlines, Bindings, Wired, Types, ClientTypeOK, TokenConserved,
       Holding
<1>8. Unanswered'
  BY <1>1, <1>2, <1>3 DEF Unanswered, Outstanding, Types, ClientTypeOK, TokenConserved, Holding
<1>9. Reported'
  BY <1>1, <1>2, <1>3 DEF Reported, Types, Bindings, Wired
<1>10. Counted'
  BY <1>1, <1>2, <1>3 DEF Counted, SameCounts, DiagnosticsConsistent, Types, ClientTypeOK,
       TokenConserved, Holding
<1>11. Paced'
  BY DEF Paced, Never, Types, ClientTypeOK, TokenConserved, Holding
<1>12. Executing' /\ SentOnce' /\ Heard'
  BY DEF Executing, ExecutePcs, Wired, Types, ClientTypeOK, SentOnce, Heard, Kinds
<1> QED  BY SMTT(30), <1>4, <1>5, <1>6, <1>7, <1>8, <1>9, <1>10, <1>11, <1>12

\* connectLocked fails and leaves no session and no report of one.
LEMMA ConnectLockedFailsStep ==
    ASSUME IInv, NEW c \in Calls, NEW k \in ConnectErrors(c), ConnectLockedFails(c, k)
    PROVE  IInv'
<1> USE ClientAssumption DEF IInv, ConnectLockedFails, Connecting, Goto, GotoWith,
     ConnectErrors, CtxErr, TransportKinds, callVars, wireVars, Executes
<1>1. /\ health' \in Healths /\ ~health'.connected /\ SameCounts(health, health')
  BY ConnectionUpdates DEF Types, Kinds
<1>2. Types'
  BY <1>1 DEF Types, ClientTypeOK, Holding, Kinds
<1>3. TokenConserved'
  BY DEF Types, ClientTypeOK, TokenConserved, Holding
<1>4. Bindings'
  BY DEF Bindings, Wired, Types, ClientTypeOK, TokenConserved, Holding
<1>5. Deadlines'
  BY DEF Deadlines, Bindings, Wired, Types, ClientTypeOK, TokenConserved, Holding
<1>6. Unanswered'
  BY DEF Unanswered, Outstanding, Types, ClientTypeOK, TokenConserved, Holding
<1>7. Reported'
  BY <1>1 DEF Reported, Types, Bindings, Wired
<1>8. Counted'
  BY <1>1 DEF Counted, SameCounts, DiagnosticsConsistent, Types, ClientTypeOK,
       TokenConserved, Holding
<1>9. Paced'
  BY DEF Paced, Never, Types, ClientTypeOK, TokenConserved, Holding
<1>10. Executing' /\ SentOnce' /\ Heard'
  BY DEF Executing, ExecutePcs, Wired, Types, ClientTypeOK, SentOnce, Heard, Kinds
<1> QED  BY <1>2, <1>3, <1>4, <1>5, <1>6, <1>7, <1>8, <1>9, <1>10

\* Close leaves no session and no report of one.
LEMMA CloseStep ==
    ASSUME IInv, NEW c \in Calls, Close(c)
    PROVE  IInv'
<1> USE ClientAssumption DEF IInv, Close, Goto, callVars, wireVars, Executes
<1>1. /\ health' \in Healths /\ ~health'.connected /\ SameCounts(health, health')
  BY ConnectionUpdates DEF Types
<1>2. Types'
  BY <1>1 DEF Types, ClientTypeOK, Holding, Kinds
<1>3. TokenConserved'
  BY DEF Types, ClientTypeOK, TokenConserved, Holding
<1>4. Bindings'
  BY DEF Bindings, Wired, Types, ClientTypeOK, TokenConserved, Holding
<1>5. Deadlines'
  BY DEF Deadlines, Bindings, Wired, Types, ClientTypeOK, TokenConserved, Holding
<1>6. Unanswered'
  BY DEF Unanswered, Outstanding, Types, ClientTypeOK, TokenConserved, Holding
<1>7. Reported'
  BY <1>1 DEF Reported, Types, Bindings, Wired
<1>8. Counted'
  BY <1>1 DEF Counted, SameCounts, DiagnosticsConsistent, Types, ClientTypeOK,
       TokenConserved, Holding
<1>9. Paced'
  BY DEF Paced, Never, Types, ClientTypeOK, TokenConserved, Holding
<1>10. Executing' /\ SentOnce' /\ Heard'
  BY DEF Executing, ExecutePcs, Wired, Types, ClientTypeOK, SentOnce, Heard, Kinds
<1> QED  BY <1>2, <1>3, <1>4, <1>5, <1>6, <1>7, <1>8, <1>9, <1>10

\* Execute goes on with the session it finds.
LEMMA UseSessionStep ==
    ASSUME IInv, NEW c \in Calls, UseSession(c)
    PROVE  IInv'
<1> USE ClientAssumption DEF IInv, UseSession, Goto, callVars, wireVars, Executes
<1>1. Types'
  BY DEF Types, ClientTypeOK, Holding, Kinds
<1>2. TokenConserved'
  BY DEF Types, ClientTypeOK, TokenConserved, Holding
<1>3. Bindings'
  BY DEF Bindings, Wired, Types, ClientTypeOK, TokenConserved, Holding
<1>4. Deadlines'
  BY DEF Deadlines, Bindings, Wired, Types, ClientTypeOK, TokenConserved, Holding
<1>5. Unanswered'
  BY DEF Unanswered, Outstanding, Types, ClientTypeOK, TokenConserved, Holding
<1>6. Counted'
  BY DEF Counted, SameCounts, DiagnosticsConsistent, Types, ClientTypeOK, TokenConserved,
       Holding
<1>7. Paced'
  BY DEF Paced, Never, Types, ClientTypeOK, TokenConserved, Holding
<1>8. Executing' /\ Reported' /\ SentOnce' /\ Heard'
  BY DEF Executing, ExecutePcs, Wired, Types, ClientTypeOK, Reported, Bindings, SentOnce,
       Heard, Kinds
<1> QED  BY <1>1, <1>2, <1>3, <1>4, <1>5, <1>6, <1>7, <1>8

\* waitForRequestSlot ends when nextRequestAt has come.
LEMMA SlotReadyStep ==
    ASSUME IInv, NEW c \in Calls, SlotReady(c)
    PROVE  IInv'
<1> USE ClientAssumption DEF IInv, SlotReady, Goto, callVars, wireVars, Executes
<1>1. Types'
  BY DEF Types, ClientTypeOK, Holding, Kinds
<1>2. TokenConserved'
  BY DEF Types, ClientTypeOK, TokenConserved, Holding
<1>3. Bindings'
  BY DEF Bindings, Wired, Types, ClientTypeOK, TokenConserved, Holding
<1>4. Deadlines'
  BY DEF Deadlines, Bindings, Wired, Types, ClientTypeOK, TokenConserved, Holding
<1>5. Unanswered'
  BY DEF Unanswered, Outstanding, Types, ClientTypeOK, TokenConserved, Holding
<1>6. Counted'
  BY DEF Counted, SameCounts, DiagnosticsConsistent, Types, ClientTypeOK, TokenConserved,
       Holding
<1>7. Paced'
  BY DEF Paced, Never, Types, ClientTypeOK, TokenConserved, Holding
<1>8. Executing' /\ Reported' /\ SentOnce' /\ Heard'
  BY SMTT(30) DEF Executing, ExecutePcs, Wired, Types, ClientTypeOK, Reported, Bindings,
       SentOnce,
       Heard, Kinds
<1> QED  BY <1>1, <1>2, <1>3, <1>4, <1>5, <1>6, <1>7, <1>8

\* The context ends while Execute waits for its slot.
LEMMA SlotRefusedStep ==
    ASSUME IInv, NEW c \in Calls, SlotRefused(c)
    PROVE  IInv'
<1> USE ClientAssumption DEF IInv, SlotRefused, Goto, GotoWith, Alive, ContextError, CtxErr,
     callVars, wireVars, Executes
<1>1. Types'
  BY DEF Types, ClientTypeOK, Holding, Kinds
<1>2. TokenConserved'
  BY DEF Types, ClientTypeOK, TokenConserved, Holding
<1>3. Bindings'
  BY DEF Bindings, Wired, Types, ClientTypeOK, TokenConserved, Holding
<1>4. Deadlines'
  BY DEF Deadlines, Bindings, Wired, Types, ClientTypeOK, TokenConserved, Holding
<1>5. Unanswered'
  BY DEF Unanswered, Outstanding, Types, ClientTypeOK, TokenConserved, Holding
<1>6. Counted'
  BY DEF Counted, SameCounts, DiagnosticsConsistent, Types, ClientTypeOK, TokenConserved,
       Holding
<1>7. Paced'
  BY DEF Paced, Never, Types, ClientTypeOK, TokenConserved, Holding
<1>8. Executing' /\ Reported' /\ SentOnce' /\ Heard'
  BY DEF Executing, ExecutePcs, Wired, Types, ClientTypeOK, Reported, Bindings, SentOnce,
       Heard, Kinds
<1> QED  BY ZenonT(60), <1>1, <1>2, <1>3, <1>4, <1>5, <1>6, <1>7, <1>8

\* BeginRequest binds the connection and clamps its deadline to the context.
LEMMA BeginRequestStep ==
    ASSUME IInv, NEW c \in Calls, BeginRequest(c)
    PROVE  IInv'
<1> USE ClientAssumption DEF IInv, BeginRequest, Goto, Alive, ContextError, CtxErr, callVars,
     wireVars, Executes
<1>1. session \in Conns /\ session # None
  BY DEF Types, ClientTypeOK, Bindings
<1>2. /\ session' \in Conns /\ session' # None /\ session'.ctx = c
      /\ session'.unanswered = session.unanswered
      /\ Alive(c) => ~session'.canceledErr /\ session'.deadline = "ahead"
      /\ ~Alive(c) => session'.canceledErr /\ session'.deadline = "past"
  <2>1. CASE Alive(c)
    <3>1. session' = [session EXCEPT !.ctx = c, !.canceledErr = FALSE, !.deadline = "ahead"]
      BY Zenon, <2>1
    <3>2. session' \in Conns
      BY Zenon, <1>1, <3>1 DEF Conns
    <3>3. /\ session'.ctx = c /\ session'.unanswered = session.unanswered
          /\ session'.canceledErr = FALSE /\ session'.deadline = "ahead"
      BY Zenon, <1>1, <3>1 DEF Conns
    <3> HIDE DEF BeginRequest
    <3> QED  BY <2>1, <3>2, <3>3
  <2>2. CASE ~Alive(c)
    <3>1. session' = [session EXCEPT !.ctx = c, !.canceledErr = TRUE, !.deadline = "past"]
      BY Zenon, <2>2
    <3>2. session' \in Conns
      BY Zenon, <1>1, <3>1 DEF Conns
    <3>3. /\ session'.ctx = c /\ session'.unanswered = session.unanswered
          /\ session'.canceledErr = TRUE /\ session'.deadline = "past"
      BY Zenon, <1>1, <3>1 DEF Conns
    <3> HIDE DEF BeginRequest
    <3> QED  BY <2>2, <3>2, <3>3
  <2> QED  BY Zenon, <2>1, <2>2
<1>3. Types'
  BY <1>1, <1>2 DEF Types, ClientTypeOK, Holding, Kinds
<1>4. TokenConserved'
  BY DEF Types, ClientTypeOK, TokenConserved, Holding
<1>5. Bindings'
  BY <1>1, <1>2 DEF Bindings, Wired, Types, ClientTypeOK, TokenConserved, Holding
<1>6. Deadlines'
  BY <1>1, <1>2 DEF Deadlines, Bindings, Wired, Types, ClientTypeOK, TokenConserved, Holding
<1>7. Unanswered'
  BY <1>1, <1>2 DEF Unanswered, Outstanding, Types, ClientTypeOK, TokenConserved, Holding
<1>8. Reported'
  BY <1>1, <1>2 DEF Reported, Types, Bindings, Wired
<1>9. Counted'
  BY DEF Counted, SameCounts, DiagnosticsConsistent, Types, ClientTypeOK, TokenConserved,
       Holding
<1>10. Paced'
  BY DEF Paced, Never, Types, ClientTypeOK, TokenConserved, Holding
<1>11. Executing' /\ SentOnce' /\ Heard'
  BY DEF Executing, ExecutePcs, Wired, Types, ClientTypeOK, SentOnce, Heard, Kinds
<1> QED  BY <1>3, <1>4, <1>5, <1>6, <1>7, <1>8, <1>9, <1>10, <1>11

\* Execute checks the context after BeginRequest.
LEMMA BoundStep ==
    ASSUME IInv, NEW c \in Calls, Bound(c)
    PROVE  IInv'
<1> USE ClientAssumption DEF IInv, Bound, Goto, GotoWith, StopWatchdog, Alive, ContextError,
     CtxErr, callVars, wireVars, Executes
<1>1. Types'
  BY DEF Types, ClientTypeOK, Holding, Kinds
<1>2. TokenConserved'
  BY DEF Types, ClientTypeOK, TokenConserved, Holding
<1>3. Bindings'
  BY DEF Bindings, Wired, Types, ClientTypeOK, TokenConserved, Holding
<1>4. Deadlines'
  BY DEF Deadlines, Bindings, Wired, Types, ClientTypeOK, TokenConserved, Holding
<1>5. Unanswered'
  BY DEF Unanswered, Outstanding, Types, ClientTypeOK, TokenConserved, Holding
<1>6. Counted'
  BY DEF Counted, SameCounts, DiagnosticsConsistent, Types, ClientTypeOK, TokenConserved,
       Holding
<1>7. Paced'
  BY DEF Paced, Never, Types, ClientTypeOK, TokenConserved, Holding
<1>8. Executing' /\ Reported' /\ SentOnce' /\ Heard'
  BY DEF Executing, ExecutePcs, Wired, Types, ClientTypeOK, Reported, Bindings, SentOnce,
       Heard, Kinds
<1> QED  BY <1>1, <1>2, <1>3, <1>4, <1>5, <1>6, <1>7, <1>8

\* A watchdog that cancels finds the connection still bound to its own call.
LEMMA WatchdogCancelsStep ==
    ASSUME IInv, NEW c \in Calls, WatchdogCancels(c)
    PROVE  IInv'
<1> USE ClientAssumption DEF IInv, WatchdogCancels, CtxErr, callVars, wireVars, Executes
<1>1. session \in Conns /\ session # None /\ session.ctx = c
  BY DEF Types, ClientTypeOK, Bindings, Wired
<1>2. /\ session' \in Conns /\ session' # None /\ session'.ctx = c
      /\ session'.unanswered = session.unanswered
      /\ session'.canceledErr /\ session'.deadline = "past"
  <2>1. session' = [session EXCEPT !.canceledErr = TRUE, !.deadline = "past"]
    BY <1>1
  <2> QED  BY ZenonT(60), <1>1, <2>1 DEF Conns
<1>3. Types'
  BY <1>1, <1>2 DEF Types, ClientTypeOK, Holding, Kinds
<1>4. TokenConserved'
  BY DEF Types, ClientTypeOK, TokenConserved, Holding
<1>5. Bindings'
  BY <1>1, <1>2 DEF Bindings, Wired, Types, ClientTypeOK, TokenConserved, Holding
<1>6. Deadlines'
  BY <1>1, <1>2 DEF Deadlines, Bindings, Wired, Types, ClientTypeOK, TokenConserved, Holding
<1>7. Unanswered'
  BY <1>1, <1>2 DEF Unanswered, Outstanding, Types, ClientTypeOK, TokenConserved, Holding
<1>8. Reported'
  BY <1>1, <1>2 DEF Reported, Types, Bindings, Wired
<1>9. Counted'
  BY DEF Counted, SameCounts, DiagnosticsConsistent, Types, ClientTypeOK, TokenConserved,
       Holding
<1>10. Paced'
  BY DEF Paced, Never, Types, ClientTypeOK, TokenConserved, Holding
<1>11. Executing' /\ SentOnce' /\ Heard'
  BY DEF Executing, ExecutePcs, Wired, Types, ClientTypeOK, SentOnce, Heard, Kinds
<1> QED  BY <1>3, <1>4, <1>5, <1>6, <1>7, <1>8, <1>9, <1>10, <1>11

\* A watchdog ends without cancelling.
LEMMA WatchdogStopsStep ==
    ASSUME IInv, NEW c \in Calls, WatchdogStops(c)
    PROVE  IInv'
<1> USE ClientAssumption DEF IInv, WatchdogStops, callVars, wireVars, Executes
<1>1. Types'
  BY DEF Types, ClientTypeOK, Holding, Kinds
<1>2. TokenConserved'
  BY DEF Types, ClientTypeOK, TokenConserved, Holding
<1>3. Bindings'
  BY DEF Bindings, Wired, Types, ClientTypeOK, TokenConserved, Holding
<1>4. Deadlines'
  BY DEF Deadlines, Bindings, Wired, Types, ClientTypeOK, TokenConserved, Holding
<1>5. Unanswered'
  BY DEF Unanswered, Outstanding, Types, ClientTypeOK, TokenConserved, Holding
<1>6. Counted'
  BY DEF Counted, SameCounts, DiagnosticsConsistent, Types, ClientTypeOK, TokenConserved,
       Holding
<1>7. Paced'
  BY DEF Paced, Never, Types, ClientTypeOK, TokenConserved, Holding
<1>8. Executing' /\ Reported' /\ SentOnce' /\ Heard'
  BY SMTT(30) DEF Executing, ExecutePcs, Wired, Types, ClientTypeOK, Reported, Bindings,
       SentOnce,
       Heard, Kinds
<1> QED  BY <1>1, <1>2, <1>3, <1>4, <1>5, <1>6, <1>7, <1>8

\* The guarded connection refuses the write: nothing is sent.
LEMMA WriteRefusedStep ==
    ASSUME IInv, NEW c \in Calls, WriteRefused(c)
    PROVE  IInv'
<1> USE ClientAssumption DEF IInv, WriteRefused, Goto, GotoWith, StopWatchdog, Alive,
     ContextError, CtxErr, callVars, wireVars, Executes
<1>1. Types'
  BY DEF Types, ClientTypeOK, Holding, Kinds
<1>2. TokenConserved'
  BY DEF Types, ClientTypeOK, TokenConserved, Holding
<1>3. Bindings'
  BY DEF Bindings, Wired, Types, ClientTypeOK, TokenConserved, Holding
<1>4. Deadlines'
  BY DEF Deadlines, Bindings, Wired, Types, ClientTypeOK, TokenConserved, Holding
<1>5. Unanswered'
  BY DEF Unanswered, Outstanding, Types, ClientTypeOK, TokenConserved, Holding
<1>6. Counted'
  BY DEF Counted, SameCounts, DiagnosticsConsistent, Types, ClientTypeOK, TokenConserved,
       Holding
<1>7. Paced'
  BY DEF Paced, Never, Types, ClientTypeOK, TokenConserved, Holding
<1>8. Executing' /\ Reported' /\ SentOnce' /\ Heard'
  BY DEF Executing, ExecutePcs, Wired, Types, ClientTypeOK, Reported, Bindings, SentOnce,
       Heard, Kinds
<1> QED  BY ZenonT(60), <1>1, <1>2, <1>3, <1>4, <1>5, <1>6, <1>7, <1>8

\* The request is written: it is the first unanswered one.
LEMMA WriteStep ==
    ASSUME IInv, NEW c \in Calls, Write(c)
    PROVE  IInv'
<1> USE ClientAssumption DEF IInv, Write, Goto, Alive, ContextError, CtxErr, callVars,
     wireVars, Executes
<1>1. session \in Conns /\ session # None /\ session.ctx = c
  BY DEF Types, ClientTypeOK, Bindings, Wired
<1>2. /\ session' \in Conns /\ session' # None
      /\ session'.ctx = session.ctx /\ (session'.canceledErr <=> session.canceledErr)
         /\ session'.deadline = session.deadline
         /\ session'.unanswered = session.unanswered \cup {<<c, attempt[c]>>}
  BY <1>1 DEF Conns, Types, ClientTypeOK
<1>3. Types'
  BY <1>1, <1>2 DEF Types, ClientTypeOK, Holding, Kinds
<1>4. TokenConserved'
  BY DEF Types, ClientTypeOK, TokenConserved, Holding
<1>5. Executing'
  BY DEF Executing, ExecutePcs, Wired, Types, ClientTypeOK
<1>6. Bindings'
  BY <1>1, <1>2 DEF Bindings, Wired, Types, ClientTypeOK, TokenConserved, Holding
<1>7. Deadlines'
  BY <1>1, <1>2 DEF Deadlines, Bindings, Wired, Types, ClientTypeOK, TokenConserved, Holding
<1>8. Unanswered'
  BY <1>1, <1>2 DEF Unanswered, Outstanding, Types, ClientTypeOK, TokenConserved, Holding
<1>9. Reported'
  BY <1>1, <1>2 DEF Reported, Types, Bindings, Wired
<1>10. SentOnce'
  BY DEF SentOnce, Types, ClientTypeOK
<1>11. Counted'
  BY DEF Counted, SameCounts, DiagnosticsConsistent, Types, ClientTypeOK, TokenConserved,
       Holding
<1>12. Heard'
  BY DEF Heard, Kinds, Types, ClientTypeOK
<1>13. Paced'
  BY DEF Paced, Never, Types, ClientTypeOK, TokenConserved, Holding
<1> QED  BY <1>3, <1>4, <1>5, <1>6, <1>7, <1>8, <1>9, <1>10, <1>11, <1>12, <1>13

\* The library's own deadline is clamped.
LEMMA SetDeadlineStep ==
    ASSUME IInv, NEW c \in Calls, SetDeadline(c)
    PROVE  IInv'
<1> USE ClientAssumption DEF IInv, SetDeadline, Alive, ContextError, CtxErr, callVars,
     wireVars, Executes
<1>1. session \in Conns /\ session # None /\ session.ctx = c
  BY DEF Types, ClientTypeOK, Bindings, Wired
<1>2. /\ session' \in Conns /\ session' # None
      /\ session'.ctx = session.ctx /\ (session'.canceledErr <=> session.canceledErr)
         /\ session'.deadline = (IF Alive(c) /\ ~session.canceledErr THEN "ahead" ELSE "past")
         /\ session'.unanswered = session.unanswered
  BY <1>1 DEF Conns, Types, ClientTypeOK
<1>3. Types'
  BY <1>1, <1>2 DEF Types, ClientTypeOK, Holding, Kinds
<1>4. TokenConserved'
  BY DEF Types, ClientTypeOK, TokenConserved, Holding
<1>5. Bindings'
  BY <1>1, <1>2 DEF Bindings, Wired, Types, ClientTypeOK, TokenConserved, Holding
<1>6. Deadlines'
  BY <1>1, <1>2 DEF Deadlines, Bindings, Wired, Types, ClientTypeOK, TokenConserved, Holding
<1>7. Unanswered'
  BY <1>1, <1>2 DEF Unanswered, Outstanding, Types, ClientTypeOK, TokenConserved, Holding
<1>8. Reported'
  BY <1>1, <1>2 DEF Reported, Types, Bindings, Wired
<1>9. Counted'
  BY DEF Counted, SameCounts, DiagnosticsConsistent, Types, ClientTypeOK, TokenConserved,
       Holding
<1>10. Paced'
  BY DEF Paced, Never, Types, ClientTypeOK, TokenConserved, Holding
<1>11. Executing' /\ SentOnce' /\ Heard'
  BY DEF Executing, ExecutePcs, Wired, Types, ClientTypeOK, SentOnce, Heard, Kinds
<1> QED  BY <1>3, <1>4, <1>5, <1>6, <1>7, <1>8, <1>9, <1>10, <1>11

\* The answer of the last unanswered request arrives.
LEMMA AnsweredStep ==
    ASSUME IInv, NEW c \in Calls, NEW e \in {"none", "exception"}, Answered(c, e)
    PROVE  IInv'
<1> USE ClientAssumption DEF IInv, Answered, Goto, GotoWith, StopWatchdog, callVars, wireVars,
     Executes
<1>1. session \in Conns /\ session # None /\ session.ctx = c
  BY DEF Types, ClientTypeOK, Bindings, Wired
<1>2. /\ session' \in Conns /\ session' # None
      /\ session'.ctx = session.ctx /\ (session'.canceledErr <=> session.canceledErr)
         /\ session'.deadline = session.deadline
         /\ session'.unanswered = session.unanswered \ {<<c, attempt[c]>>}
  BY <1>1 DEF Conns, Types, ClientTypeOK
<1>3. Types'
  BY <1>1, <1>2 DEF Types, ClientTypeOK, Holding, Kinds
<1>4. TokenConserved'
  BY DEF Types, ClientTypeOK, TokenConserved, Holding
<1>5. Bindings'
  BY <1>1, <1>2 DEF Bindings, Wired, Types, ClientTypeOK, TokenConserved, Holding
<1>6. Deadlines'
  BY <1>1, <1>2 DEF Deadlines, Bindings, Wired, Types, ClientTypeOK, TokenConserved, Holding
<1>7. Unanswered'
  BY <1>1, <1>2 DEF Unanswered, Outstanding, Types, ClientTypeOK, TokenConserved, Holding
<1>8. Reported'
  BY <1>1, <1>2 DEF Reported, Types, Bindings, Wired
<1>9. Counted'
  BY DEF Counted, SameCounts, DiagnosticsConsistent, Types, ClientTypeOK, TokenConserved,
       Holding
<1>10. Paced'
  BY DEF Paced, Never, Types, ClientTypeOK, TokenConserved, Holding
<1>11. Executing' /\ SentOnce' /\ Heard'
  BY DEF Executing, ExecutePcs, Wired, Types, ClientTypeOK, SentOnce, Heard, Kinds
<1> QED  BY <1>3, <1>4, <1>5, <1>6, <1>7, <1>8, <1>9, <1>10, <1>11

\* The answer does not arrive: the request stays unanswered.
LEMMA ReadFailsStep ==
    ASSUME IInv, NEW c \in Calls, NEW k \in TransportKinds, ReadFails(c, k)
    PROVE  IInv'
<1> USE ClientAssumption DEF IInv, ReadFails, Goto, GotoWith, StopWatchdog, TransportKinds,
     callVars, wireVars, Executes
<1>1. Types'
  BY DEF Types, ClientTypeOK, Holding, Kinds
<1>2. TokenConserved'
  BY DEF Types, ClientTypeOK, TokenConserved, Holding
<1>3. Bindings'
  BY DEF Bindings, Wired, Types, ClientTypeOK, TokenConserved, Holding
<1>4. Deadlines'
  BY DEF Deadlines, Bindings, Wired, Types, ClientTypeOK, TokenConserved, Holding
<1>5. Unanswered'
  BY DEF Unanswered, Outstanding, Types, ClientTypeOK, TokenConserved, Holding
<1>6. Counted'
  BY DEF Counted, SameCounts, DiagnosticsConsistent, Types, ClientTypeOK, TokenConserved,
       Holding
<1>7. Paced'
  BY DEF Paced, Never, Types, ClientTypeOK, TokenConserved, Holding
<1>8. Executing' /\ Reported' /\ SentOnce' /\ Heard'
  BY DEF Executing, ExecutePcs, Wired, Types, ClientTypeOK, Reported, Bindings, SentOnce,
       Heard, Kinds
<1> QED  BY <1>1, <1>2, <1>3, <1>4, <1>5, <1>6, <1>7, <1>8

-----------------------------------------------------------------------------
(* What a step does to the health fields, and to what they say of a call. *)

\* Where a call has failed it has an error; a call at its second attempt has
\* left the time of a first failure behind; and an Execute that releases the
\* token has left its outcome in the health fields.
Settled ==
    \A c \in Calls :
        /\ pc[c] \in {"refused", "failed", "final"} => err[c] # "none"
        /\ pc[c] \in Holding /\ attempt[c] = 2 => health.firstFailureAt # Never
        /\ c \in Executes /\ pc[c] = "release" =>
              /\ err[c] = "none" => /\ health.lastErr = "none" /\ health.connected
                                    /\ attempt[c] = 1 => health.firstFailureAt = Never
              /\ err[c] \in TransportKinds => health.lastErr # "none"

\* A step that leaves the health fields alone, and gives the call that takes it an error
\* where it fails.
LEMMA QuietSettles ==
    ASSUME Settled, NEW c \in Calls, health' = health, attempt' = attempt,
           \A d \in Calls \ {c} : pc'[d] = pc[d] /\ err'[d] = err[d],
           pc'[c] # "release",
           pc'[c] \in {"refused", "failed", "final"} => err'[c] # "none",
           pc'[c] \in Holding /\ attempt[c] = 2 => pc[c] \in Holding
    PROVE  Settled'
<1>1. ASSUME NEW d \in Calls \ {c}
      PROVE  /\ pc'[d] \in {"refused", "failed", "final"} => err'[d] # "none"
             /\ pc'[d] \in Holding /\ attempt'[d] = 2 => health'.firstFailureAt # Never
             /\ d \in Executes /\ pc'[d] = "release" =>
                   /\ err'[d] = "none" =>
                         /\ health'.lastErr = "none" /\ health'.connected
                         /\ attempt'[d] = 1 => health'.firstFailureAt = Never
                   /\ err'[d] \in TransportKinds => health'.lastErr # "none"
  BY Zenon, <1>1 DEF Settled
<1>2. pc'[c] \in Holding /\ attempt'[c] = 2 => health'.firstFailureAt # Never
  BY Zenon DEF Settled
<1> QED  BY Zenon, <1>1, <1>2 DEF Settled

\* The steps that leave the health fields alone.
LEMMA QuietSteps ==
    ASSUME IInv, Settled, NEW c \in Calls,
           \/ AcquireCanceled(c) \/ Enter(c) \/ TakeToken(c) \/ Recheck(c) \/ Release(c)
           \/ UseSession(c) \/ SlotReady(c) \/ SlotRefused(c) \/ BeginRequest(c) \/ Bound(c)
           \/ WriteRefused(c) \/ Write(c)
           \/ (\E e \in {"none", "exception"} : Answered(c, e))
           \/ (\E k \in TransportKinds : ReadFails(c, k))
           \/ FinishRequest(c) \/ Failed(c)
    PROVE  Settled'
<1> DEFINE Others == \A d \in Calls \ {c} : pc'[d] = pc[d] /\ err'[d] = err[d]
           Named == pc'[c] \in {"refused", "failed", "final"} => err'[c] # "none"
           Kept == pc'[c] \in Holding /\ attempt[c] = 2 => pc[c] \in Holding
<1> SUFFICES /\ health' = health /\ attempt' = attempt /\ Others /\ pc'[c] # "release"
             /\ Named /\ Kept
  BY Zenon, QuietSettles
<1>a. /\ DOMAIN pc = Calls /\ DOMAIN err = Calls
      /\ pc[c] \in {"start", "select"} => attempt[c] # 2
  BY DEF IInv, Types, ClientTypeOK, Counted
<1>b. pc[c] = "refused" => err[c] # "none"
  BY SMTT(30) DEF Settled
<1>1. CASE AcquireCanceled(c)
  BY Zenon, <1>a, <1>1 DEF AcquireCanceled, Goto, GotoWith, Holding
<1>2. CASE Enter(c)
  BY Zenon, <1>a, <1>2 DEF Enter, Goto, Holding
<1>3. CASE TakeToken(c)
  BY Zenon, <1>a, <1>3 DEF TakeToken, Goto, Holding
<1>4. CASE Recheck(c)
  BY Zenon, <1>a, <1>4 DEF Recheck, Goto, GotoWith, Holding
<1>5. CASE Release(c)
  BY Zenon, <1>a, <1>5 DEF Release, Goto, Holding
<1>6. CASE UseSession(c)
  BY Zenon, <1>a, <1>6 DEF UseSession, Goto, Holding
<1>7. CASE SlotReady(c)
  BY Zenon, <1>a, <1>7 DEF SlotReady, Goto, Holding
<1>8. CASE SlotRefused(c)
  BY Zenon, <1>a, <1>8 DEF SlotRefused, Goto, GotoWith, Alive, Holding
<1>9. CASE BeginRequest(c)
  BY Zenon, <1>a, <1>9 DEF BeginRequest, Goto, Holding
<1>10. CASE Bound(c)
  BY Zenon, <1>a, <1>10 DEF Bound, Goto, GotoWith, Alive, Holding
<1>11. CASE WriteRefused(c)
  BY Zenon, <1>a, <1>11 DEF WriteRefused, Goto, GotoWith, Holding
<1>12. CASE Write(c)
  BY Zenon, <1>a, <1>12 DEF Write, Goto, Holding
<1>13. CASE \E e \in {"none", "exception"} : Answered(c, e)
  BY Zenon, <1>a, <1>13 DEF Answered, Goto, GotoWith, Holding
<1>14. CASE \E k \in TransportKinds : ReadFails(c, k)
  BY Zenon, <1>a, <1>14 DEF ReadFails, Goto, GotoWith, Holding
<1>15. CASE FinishRequest(c)
  BY Zenon, <1>a, <1>b, <1>15 DEF FinishRequest, Goto, Holding
<1>16. CASE Failed(c)
  BY Zenon, <1>a, <1>16 DEF Failed, Goto, GotoWith, Alive, Holding
<1> QED  BY Zenon, <1>1, <1>2, <1>3, <1>4, <1>5, <1>6, <1>7, <1>8, <1>9,
            <1>10, <1>11, <1>12, <1>13, <1>14, <1>15, <1>16

\* What recordSuccess and finalError leave in lastErr.
LEMMA LastErrors ==
    ASSUME NEW h \in Healths
    PROVE  /\ \A a \in {1, 2}, n \in Nat : RecordSuccess(h, a, n).lastErr = "none"
           /\ \A k \in TransportKinds : FinalError(h, k).lastErr # "none"
BY Zenon DEF Healths, RecordSuccess, FinalError, TransportKinds

\* The updates of the connection and of a call's last error leave the time of the first
\* failure.
LEMMA FailureTimes ==
    ASSUME NEW h \in Healths, NEW k \in Kinds \cup {"none"}
    PROVE  /\ Connected(h).firstFailureAt = h.firstFailureAt
           /\ ConnectFailed(h, k).firstFailureAt = h.firstFailureAt
           /\ Disconnected(h).firstFailureAt = h.firstFailureAt
           /\ FinalError(h, k).firstFailureAt = h.firstFailureAt
<1>1. /\ SameCounts(h, Connected(h)) /\ SameCounts(h, ConnectFailed(h, k))
      /\ SameCounts(h, Disconnected(h))
  BY Zenon, ConnectionUpdates
<1>2. SameCounts(h, FinalError(h, k))
  BY Zenon, FinalUpdate
<1> QED  BY Zenon, <1>1, <1>2 DEF SameCounts

\* recordFirstFailure dates the first failure, and disconnecting after it keeps the date.
LEMMA FirstFailureDated ==
    ASSUME NEW h \in Healths
    PROVE  /\ \A n \in Nat : n > 0 => /\ RecordFirstFailure(h, n) \in Healths
                                      /\ RecordFirstFailure(h, n).firstFailureAt # Never
           /\ Disconnected(h) \in Healths
           /\ Disconnected(h).firstFailureAt = h.firstFailureAt
<1>1. ASSUME NEW n \in Nat, n > 0
      PROVE  /\ RecordFirstFailure(h, n) \in Healths
             /\ RecordFirstFailure(h, n).firstFailureAt # Never
  BY Zenon, <1>1, FirstFailureUpdate
<1>2. "none" \in Kinds \cup {"none"}
  OBVIOUS
<1>3. Disconnected(h) \in Healths /\ SameCounts(h, Disconnected(h))
  BY Zenon, <1>2, ConnectionUpdates
<1> QED  BY Zenon, <1>1, <1>3 DEF SameCounts

\* A result at the first attempt clears the time of the first failure, one at the second
\* keeps it.
LEMMA SuccessTimes ==
    ASSUME NEW h \in Healths, NEW n \in Nat
    PROVE  /\ RecordSuccess(h, 1, n).firstFailureAt = Never
           /\ RecordSuccess(h, 2, n).firstFailureAt = h.firstFailureAt
BY Zenon, SuccessCounts

\* Only the call that has the token is where Settled speaks of: a step of it needs to
\* settle its own account.
LEMMA HolderSettles ==
    ASSUME IInv, NEW c \in Calls, pc[c] \in Holding, \A d \in Calls \ {c} : pc'[d] = pc[d],
           pc'[c] \in {"refused", "failed", "final"} => err'[c] # "none",
           pc'[c] \in Holding /\ attempt'[c] = 2 => health'.firstFailureAt # Never,
           c \in Executes /\ pc'[c] = "release" =>
              /\ err'[c] = "none" => /\ health'.lastErr = "none" /\ health'.connected
                                     /\ attempt'[c] = 1 => health'.firstFailureAt = Never
              /\ err'[c] \in TransportKinds => health'.lastErr # "none"
    PROVE  Settled'
<1>1. \A d \in Calls \ {c} : pc'[d] \notin Holding
  BY Zenon DEF IInv, TokenConserved
<1>2. \A d \in Calls \ {c} : pc'[d] \notin {"refused", "failed", "final", "release"}
  BY Zenon, <1>1 DEF Holding
<1> QED  BY Zenon, <1>1, <1>2 DEF Settled

\* The steps that change the health fields are steps of the holder of the token.
LEMMA HealthSteps ==
    ASSUME IInv, Settled, NEW c \in Calls,
           \/ ConnectLocked(c) \/ (\E k \in ConnectErrors(c) : ConnectLockedFails(c, k))
           \/ Close(c) \/ Succeeded(c) \/ Retry(c) \/ GiveUp(c) \/ Final(c)
    PROVE  Settled'
<1>1. /\ health \in Healths /\ now \in Nat /\ now > 0 /\ attempt[c] \in {1, 2}
      /\ attempt \in [Calls -> {1, 2}] /\ DOMAIN pc = Calls /\ DOMAIN err = Calls
  BY Zenon DEF IInv, Types, ClientTypeOK
<1>2. /\ pc[c] \in {"refused", "failed", "final"} => err[c] # "none"
      /\ pc[c] \in Holding /\ attempt[c] = 2 => health.firstFailureAt # Never
  BY Zenon DEF Settled
<1>3. ASSUME NEW k \in Kinds \cup {"none"}
      PROVE  /\ Connected(health).firstFailureAt = health.firstFailureAt
             /\ ConnectFailed(health, k).firstFailureAt = health.firstFailureAt
             /\ Disconnected(health).firstFailureAt = health.firstFailureAt
             /\ FinalError(health, k).firstFailureAt = health.firstFailureAt
  BY Zenon, <1>1, <1>3, FailureTimes
<1>4. CASE ConnectLocked(c)
  <2>1. /\ pc[c] = "attempt" /\ \A d \in Calls \ {c} : pc'[d] = pc[d]
        /\ pc'[c] = IF Kind[c] = "connect" THEN "release" ELSE "slot"
        /\ attempt' = attempt /\ health'.firstFailureAt = health.firstFailureAt
    BY Zenon, <1>1, <1>3, <1>4 DEF ConnectLocked, Connecting, Goto
  <2>2. c \in Executes => Kind[c] # "connect"
    BY Zenon DEF Executes
  <2> QED  BY Zenon, <1>2, <2>1, <2>2, HolderSettles DEF Holding
<1>5. CASE \E k \in ConnectErrors(c) : ConnectLockedFails(c, k)
  <2>1. PICK k \in ConnectErrors(c) : ConnectLockedFails(c, k)
    BY Zenon, <1>5
  <2>2. k \in Kinds /\ k # "none"
    BY Zenon DEF ConnectErrors, CtxErr, Kinds, TransportKinds
  <2>3. /\ pc[c] = "attempt" /\ \A d \in Calls \ {c} : pc'[d] = pc[d]
        /\ pc'[c] = IF Kind[c] = "connect" THEN "release" ELSE "failed"
        /\ err'[c] = k
        /\ attempt' = attempt /\ health' = ConnectFailed(health, k)
    BY Zenon, <1>1, <2>1 DEF ConnectLockedFails, Connecting, Goto, GotoWith
  <2>4. c \in Executes => Kind[c] # "connect"
    BY Zenon DEF Executes
  <2>5. health'.firstFailureAt = health.firstFailureAt
    BY Zenon, <1>3, <2>2, <2>3
  <2> QED  BY Zenon, <1>2, <2>2, <2>3, <2>4, <2>5, HolderSettles DEF Holding
<1>6. CASE Close(c)
  <2>1. /\ pc[c] = "attempt" /\ \A d \in Calls \ {c} : pc'[d] = pc[d]
        /\ pc'[c] = "release" /\ Kind[c] = "close"
        /\ attempt' = attempt /\ health'.firstFailureAt = health.firstFailureAt
    BY Zenon, <1>1, <1>3, <1>6 DEF Close, Goto
  <2>2. c \notin Executes
    BY Zenon, <2>1 DEF Executes
  <2> QED  BY Zenon, <1>2, <2>1, <2>2, HolderSettles DEF Holding
<1>7. CASE Succeeded(c)
  <2>1. CASE Alive(c) /\ health' = RecordSuccess(health, attempt[c], now)
    <3>1. health'.lastErr = "none"
      BY Zenon, <2>1, <1>1, LastErrors
    <3>2. health'.connected
      BY Zenon, <2>1, <1>1, SuccessUpdate
    <3>3. /\ attempt[c] = 1 => health'.firstFailureAt = Never
          /\ attempt[c] = 2 => health'.firstFailureAt = health.firstFailureAt
      <4>1. CASE attempt[c] = 1
        <5>1. health' = RecordSuccess(health, 1, now)
          BY Zenon, <2>1, <4>1
        <5>2. health'.firstFailureAt = Never
          BY Zenon, <1>1, <5>1, SuccessTimes
        <5> QED  BY <4>1, <5>2
      <4>2. CASE attempt[c] = 2
        <5>1. health' = RecordSuccess(health, 2, now)
          BY <2>1, <4>2
        <5>2. health'.firstFailureAt = health.firstFailureAt
          BY Zenon, <1>1, <5>1, SuccessTimes
        <5> QED  BY <4>2, <5>2
      <4> QED  BY SMTT(30), <1>1, <4>1, <4>2
    <3>4. /\ pc[c] = "classify" /\ err[c] = "none" /\ \A d \in Calls \ {c} : pc'[d] = pc[d]
          /\ pc'[c] = "release" /\ err' = err /\ attempt' = attempt
      BY Zenon, <1>1, <1>7, <2>1 DEF Succeeded, Goto
    <3>5. "none" \notin TransportKinds
      BY Zenon DEF TransportKinds
    <3>6. pc[c] \in Holding
      BY Zenon, <3>4 DEF Holding
    <3>7. attempt'[c] = 2 => health'.firstFailureAt # Never
      BY Zenon, <1>2, <3>3, <3>4, <3>6
    <3>8. /\ err'[c] = "none" /\ pc'[c] \notin {"refused", "failed", "final"}
          /\ attempt'[c] = 1 => health'.firstFailureAt = Never
      BY Zenon, <3>3, <3>4
    <3> HIDE <1>1
    <3> QED  BY Zenon, <3>1, <3>2, <3>4, <3>5, <3>6, <3>7, <3>8, HolderSettles
  <2>2. CASE ~Alive(c) /\ health' = health
    <3>1. /\ pc[c] = "classify" /\ \A d \in Calls \ {c} : pc'[d] = pc[d]
          /\ pc'[c] = "final" /\ err'[c] # "none" /\ attempt' = attempt
      BY Zenon, <1>1, <1>7, <2>2 DEF Succeeded, Goto, GotoWith, Alive
    <3> QED  BY Zenon, <1>2, <2>2, <3>1, HolderSettles DEF Holding
  <2> QED  BY Zenon, <1>7, <2>1, <2>2 DEF Succeeded
<1>8. CASE Retry(c)
  <2>1. FirstFailure(c) = RecordFirstFailure(health, now)
    BY Zenon, <1>8 DEF Retry, WillRetry, FirstFailure
  <2>2. /\ FirstFailure(c) \in Healths /\ FirstFailure(c).firstFailureAt # Never
    BY Zenon, <1>1, <2>1, FirstFailureDated
  <2>3. /\ Disconnected(FirstFailure(c)) \in Healths
        /\ Disconnected(FirstFailure(c)).firstFailureAt # Never
    BY Zenon, <2>2, FirstFailureDated
  <2>4. health'.firstFailureAt # Never
    <3>1. health' = RecordRetry(Disconnected(FirstFailure(c)))
      BY Zenon, <1>8 DEF Retry
    <3> QED  BY Zenon, <2>3, <3>1, RetryUpdate
  <2>5. /\ pc[c] = "failed" /\ \A d \in Calls \ {c} : pc'[d] = pc[d]
        /\ pc'[c] = "attempt"
    BY Zenon, <1>1, <1>8 DEF Retry, Goto
  <2> QED  BY Zenon, <2>4, <2>5, HolderSettles DEF Holding
<1>9. CASE GiveUp(c)
  <2>1. /\ FirstFailure(c) \in Healths
        /\ attempt[c] = 2 => FirstFailure(c).firstFailureAt = health.firstFailureAt
    <3>1. RecordFirstFailure(health, now) \in Healths
      BY Zenon, <1>1, FirstFailureDated
    <3>2. CASE attempt[c] = 1 /\ err[c] \in TransportKinds
      <4>1. FirstFailure(c) = RecordFirstFailure(health, now)
        BY Zenon, <3>2 DEF FirstFailure
      <4>2. attempt[c] # 2
        BY <3>2
      <4> QED  BY Zenon, <3>1, <4>1, <4>2
    <3>3. CASE ~(attempt[c] = 1 /\ err[c] \in TransportKinds)
      <4>1. FirstFailure(c) = health
        BY Zenon, <3>3 DEF FirstFailure
      <4> QED  BY Zenon, <1>1, <4>1
    <3> QED  BY Zenon, <3>2, <3>3
  <2>2. Disconnected(FirstFailure(c)).firstFailureAt = FirstFailure(c).firstFailureAt
    BY Zenon, <2>1, FirstFailureDated
  <2>3. attempt[c] = 2 => health'.firstFailureAt = health.firstFailureAt
    <3>1. health' = FirstFailure(c) \/ health' = Disconnected(FirstFailure(c))
      BY Zenon, <1>9 DEF GiveUp
    <3> QED  BY Zenon, <2>1, <2>2, <3>1
  <2>4. /\ pc[c] = "failed" /\ \A d \in Calls \ {c} : pc'[d] = pc[d]
        /\ pc'[c] = "final" /\ err' = err /\ attempt' = attempt
    BY Zenon, <1>1, <1>9 DEF GiveUp, Goto
  <2> QED  BY Zenon, <1>2, <2>3, <2>4, HolderSettles DEF Holding
<1>10. CASE Final(c)
  <2>1. /\ pc[c] = "final" /\ \A d \in Calls \ {c} : pc'[d] = pc[d]
        /\ pc'[c] = "release" /\ err' = err /\ attempt' = attempt
        /\ health' = FinalError(health, err[c])
    BY Zenon, <1>1, <1>10 DEF Final, Goto
  <2>2. err[c] \in Kinds \cup {"none"}
    BY Zenon DEF IInv, Types, ClientTypeOK
  <2>3. /\ health'.firstFailureAt = health.firstFailureAt
        /\ err[c] \in TransportKinds => health'.lastErr # "none"
    BY Zenon, <1>1, <1>3, <2>1, <2>2, LastErrors
  <2>4. err[c] # "none"
    BY Zenon, <1>2, <2>1
  <2> QED  BY Zenon, <1>2, <2>1, <2>3, <2>4, HolderSettles DEF Holding
<1> QED  BY Zenon, <1>4, <1>5, <1>6, <1>7, <1>8, <1>9, <1>10
=============================================================================
