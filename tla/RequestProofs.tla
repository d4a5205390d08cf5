--------------------------- MODULE RequestProofs ----------------------------
(***************************************************************************)
(* Proofs about what one request gets.                                     *)
(*                                                                         *)
(* Module Budget: what the warning of New says of every configuration that *)
(* Load accepts, and that the budget caps every attempt.  The invariant    *)
(* accounts for the time that has passed: besides queueing and dialling,   *)
(* at most one connect delay and the pacing before the first attempt, and  *)
(* one attempt timeout and one connect delay more before the second.       *)
(*                                                                         *)
(* Module Errors, for any set of exception codes of the device: what the   *)
(* client is told of a failure.  The invariant says of an error on its way *)
(* what DownstreamException will make of it, given where it came from.     *)
(***************************************************************************)
EXTENDS Budget, Errors, TLAPS

A == cfg.attemptTimeout
C == Positive(cfg.connectDelay)
R == Positive(cfg.requestDelay)

CfgOK ==
    /\ cfg.attemptTimeout \in Int /\ cfg.attemptTimeout > 0
    /\ cfg.requestTimeout \in Int /\ cfg.requestTimeout > 0
    /\ cfg.requestTimeout <= MaxDuration
    /\ cfg.requestDelay \in Int /\ cfg.connectDelay \in Int
    /\ cfg.readonly \in {"false", "true", "deny"}
    /\ {env.attempt, env.timeout} \subseteq {Unset, cfg.attemptTimeout}

\* The time that New does not count.
Uncounted == queued + dialled

\* The time spent so far.
Accounted ==
    /\ attempt \in {1, 2} /\ session \in BOOLEAN /\ slotReady \in BOOLEAN
    /\ elapsed \in Nat /\ slotAt \in Nat /\ slotAt <= queued + R
    /\ ~slotReady => elapsed <= Uncounted + IF session THEN C ELSE 0
    /\ slotReady /\ attempt = 1 => session /\ elapsed <= Uncounted + C + R
    /\ slotReady /\ attempt = 2 =>
          elapsed <= Uncounted + A + R + IF session THEN 2 * C ELSE C
    /\ phase = "attempt" => slotReady /\ session /\ ~contextError(elapsed)

\* The budget has room for a full retry and for what was spent beside it.
Fits == RetryTime + Uncounted < cfg.requestTimeout

Requesting == phase \in {"loop", "attempt"}

BudgetInv ==
    /\ env \in Envs
    /\ phase \in {"start", "loaded", "exit", "idle", "loop", "attempt", "done", "failed",
                  "expired"}
    /\ phase \in {"start", "loaded", "exit", "idle"} =>
          elapsed = 0 /\ granted = Unset /\ slotReady = FALSE
    /\ queued \in Nat /\ dialled \in Nat
    /\ phase \notin {"start", "exit"} => CfgOK
    /\ phase \notin {"start", "loaded", "exit"} =>
          warned = (cfg.requestTimeout <= retryBudget)
    /\ Requesting => Accounted
    /\ Requested /\ Fits => Unhurried
    /\ BudgetCapsAttempts

-----------------------------------------------------------------------------
\* A duration that is not positive delays nothing.
LEMMA PositiveNat == ASSUME NEW d \in Int PROVE Positive(d) \in Nat
BY DEF Positive

\* A bound stays one when something is added to it.
LEMMA AddNat == ASSUME NEW a \in Nat, NEW b \in Nat, NEW d \in Nat, a <= b PROVE a <= b + d
OBVIOUS

\* A sum that has not reached the largest duration is exact.
LEMMA AddExact ==
    ASSUME NEW total \in Nat, NEW d \in Int, total <= MaxDuration
    PROVE  /\ AddSaturating(total, d) \in Nat /\ AddSaturating(total, d) <= MaxDuration
           /\ total <= AddSaturating(total, d)
           /\ AddSaturating(total, d) < MaxDuration =>
                 AddSaturating(total, d) = total + Positive(d)
BY BudgetAssumption DEF AddSaturating, Positive

\* Without a warning the request outlasts two attempts, two connect delays and
\* the pacing: the sum was exact, for a budget is at most the largest duration.
LEMMA RoomForRetry ==
    ASSUME CfgOK, ~(cfg.requestTimeout <= retryBudget)
    PROVE  RetryTime < cfg.requestTimeout
<1> DEFINE s1 == AddSaturating(0, cfg.attemptTimeout)
           s2 == AddSaturating(s1, cfg.attemptTimeout)
           s3 == AddSaturating(s2, cfg.connectDelay)
           s4 == AddSaturating(s3, cfg.connectDelay)
           s5 == AddSaturating(s4, cfg.requestDelay)
<1>1. /\ s1 \in Nat /\ s1 <= MaxDuration
      /\ s1 < MaxDuration => s1 = Positive(cfg.attemptTimeout)
  BY BudgetAssumption DEF CfgOK, Positive, AddSaturating
<1>2. /\ s2 \in Nat /\ s2 <= MaxDuration /\ s1 <= s2
      /\ s2 < MaxDuration => s2 = s1 + Positive(cfg.attemptTimeout)
  BY <1>1, AddExact DEF CfgOK
<1>3. /\ s3 \in Nat /\ s3 <= MaxDuration /\ s2 <= s3
      /\ s3 < MaxDuration => s3 = s2 + C
  BY <1>2, AddExact DEF CfgOK, C
<1>4. /\ s4 \in Nat /\ s4 <= MaxDuration /\ s3 <= s4
      /\ s4 < MaxDuration => s4 = s3 + C
  BY <1>3, AddExact DEF CfgOK, C
<1>5. /\ s5 \in Nat /\ s5 <= MaxDuration /\ s4 <= s5
      /\ s5 < MaxDuration => s5 = s4 + R
  BY <1>4, AddExact DEF CfgOK, R
<1>6. retryBudget = s5
  BY DEF retryBudget, saturatingDurationSum
<1>7. s5 < cfg.requestTimeout /\ s5 < MaxDuration
  BY <1>5, <1>6, BudgetAssumption DEF CfgOK
<1>8. C \in Nat /\ R \in Nat /\ Positive(cfg.attemptTimeout) = A
  BY PositiveNat DEF CfgOK, A, C, R, Positive
<1> HIDE DEF s1, s2, s3, s4, s5
<1>9. s5 = 2 * A + 2 * C + R
  BY <1>1, <1>2, <1>3, <1>4, <1>5, <1>7, <1>8, BudgetAssumption DEF CfgOK, A
<1>10. QED
  BY <1>7, <1>9 DEF RetryTime, A, C, R

-----------------------------------------------------------------------------
\* Nothing is configured, and no time has passed.
LEMMA BudgetStarts == BudgetInit => BudgetInv
BY DEF BudgetInit, BudgetInv, Requesting, Requested, BudgetCapsAttempts

\* Load accepts positive timeouts only.
LEMMA LoadInv == ASSUME BudgetInv, Load PROVE BudgetInv'
<1>1. CASE Loads(env)
  <2>1. cfg' = Config(env) /\ phase' = "loaded" /\ env' = env
    BY <1>1 DEF Load
  <2>2. {env.attempt, env.timeout, env.request, env.requestDelay, env.connectDelay}
           \subseteq Durations \cup {Unset, Bad}
    BY BudgetAssumption DEF BudgetInv
  <2>3. CfgOK'
    BY <1>1, <2>1, <2>2, BudgetAssumption
       DEF CfgOK, Config, Default, Loads, parsePositiveDuration, Durations
  <2>4. QED
    BY <1>1, <2>1, <2>3 DEF Load, BudgetInv, execVars, timeVars, Requesting, Requested,
                            BudgetCapsAttempts
<1>2. CASE ~Loads(env)
  BY <1>2 DEF Load, BudgetInv, execVars, timeVars, Requesting, Requested, BudgetCapsAttempts
<1>3. QED
  BY <1>1, <1>2

\* New warns by the budget of the configuration.
LEMMA NewInv == ASSUME BudgetInv, New PROVE BudgetInv'
BY DEF New, BudgetInv, CfgOK, retryBudget, execVars, timeVars, Requesting, Unhurried,
       BudgetCapsAttempts

\* Steps of Execute leave the configuration and the warning alone.
LEMMA SameConfig ==
    ASSUME UNCHANGED <<env, cfg, warned>>
    PROVE  /\ CfgOK' = CfgOK /\ retryBudget' = retryBudget /\ RetryTime' = RetryTime
           /\ A' = A /\ C' = C /\ R' = R
BY DEF CfgOK, retryBudget, RetryTime, A, C, R

\* The durations of a configuration are numbers.
LEMMA CfgNumbers ==
    ASSUME CfgOK
    PROVE  /\ A \in Nat /\ A > 0 /\ C \in Nat /\ R \in Nat /\ cfg.requestTimeout \in Nat
           /\ RetryTime = 2 * A + 2 * C + R
BY PositiveNat DEF CfgOK, A, C, R, RetryTime

\* A step of Execute that grants no attempt: the time has to be accounted for,
\* and the budget may end only when it had no room.
LEMMA TimeStep ==
    ASSUME BudgetInv, CfgOK, Requested, UNCHANGED <<env, cfg, warned, granted>>,
           queued' \in Nat, dialled' \in Nat,
           Uncounted \in Nat, Uncounted' \in Nat, Uncounted <= Uncounted',
           phase' \in {"loop", "attempt", "failed", "expired"},
           phase' \in {"loop", "attempt"} => Accounted',
           phase' = "expired" => cfg.requestTimeout <= RetryTime + Uncounted'
    PROVE  BudgetInv'
<1>1. CfgOK' /\ RetryTime' = RetryTime /\ retryBudget' = retryBudget
  BY SameConfig
<1>2. RetryTime \in Nat /\ cfg.requestTimeout \in Nat
  BY CfgNumbers
<1>3. Fits' => Fits /\ phase' # "expired"
  BY <1>1, <1>2 DEF Fits
<1>4. Fits' => Unhurried'
  BY <1>3 DEF BudgetInv, Unhurried
<1>5. QED
  BY <1>1, <1>4 DEF BudgetInv, Requested, Requesting, BudgetCapsAttempts

\* Execute begins: all the time that has passed was spent waiting, and the slot
\* is at most one request delay away.
LEMMA ExecuteInv == ASSUME BudgetInv, Execute PROVE BudgetInv'
<1>1. CfgOK /\ Requested /\ slotReady = FALSE /\ dialled \in Nat /\ queued \in Nat
  BY DEF BudgetInv, Execute, Requested
<1>2. UNCHANGED <<env, cfg, warned, slotReady, dialled, granted>>
  BY DEF Execute
<1>3. PICK wait \in 0 .. cfg.requestTimeout :
         /\ queued' = wait /\ elapsed' = wait
         /\ \/ contextError(wait) /\ phase' = "expired"
            \/ /\ phase' = "loop" /\ attempt' = 1 /\ session' \in BOOLEAN
               /\ slotAt' \in 0 .. wait + Positive(cfg.requestDelay)
  BY DEF Execute
<1>4. wait \in Nat /\ R \in Nat /\ C \in Nat /\ A \in Nat /\ cfg.requestTimeout \in Nat
  BY <1>1, <1>3, CfgNumbers
<1>5. CfgOK' /\ RetryTime' = RetryTime /\ retryBudget' = retryBudget /\ R' = R /\ C' = C
  BY <1>1, <1>2, SameConfig
<1>6. CASE contextError(wait) /\ phase' = "expired"
  <2>1. ~Fits'
    BY <1>1, <1>2, <1>3, <1>4, <1>5, <1>6, CfgNumbers DEF Fits, Uncounted, contextError
  <2>2. QED
    BY <1>1, <1>2, <1>3, <1>4, <1>5, <1>6, <2>1
       DEF BudgetInv, Requested, Requesting, BudgetCapsAttempts, Execute
<1>7. CASE /\ phase' = "loop" /\ attempt' = 1 /\ session' \in BOOLEAN
           /\ slotAt' \in 0 .. wait + Positive(cfg.requestDelay)
  <2>1. slotAt' \in Nat /\ slotAt' <= queued' + R
    BY <1>3, <1>4, <1>7 DEF R
  <2>2. Accounted'
    <3>1. Uncounted' \in Nat /\ elapsed' \in Nat /\ elapsed' <= Uncounted'
      <4>1. queued' = wait /\ elapsed' = wait /\ dialled' = dialled
        BY <1>2, <1>3
      <4>2. Uncounted' = wait + dialled
        BY <4>1 DEF Uncounted
      <4>3. QED
        BY <1>1, <1>4, <4>1, <4>2
    <3>2. slotReady' = FALSE /\ attempt' = 1 /\ phase' = "loop" /\ session' \in BOOLEAN
      BY <1>1, <1>2, <1>7
    <3>3. elapsed' <= Uncounted' + (IF session' THEN C' ELSE 0)
      <4>1. C' \in Nat /\ (IF session' THEN C' ELSE 0) \in Nat
        BY <1>4, <1>5
      <4>2. QED
        BY <3>1, <4>1, AddNat
    <3>4. slotAt' <= queued' + R'
      BY <1>5, <2>1
    <3>5. QED
      BY <2>1, <3>1, <3>2, <3>3, <3>4 DEF Accounted
  <2>3. Unhurried'
    BY <1>2, <1>7 DEF BudgetInv, Execute, Unhurried
  <2>4. QED
    BY <1>1, <1>2, <1>3, <1>4, <1>5, <1>7, <2>2, <2>3
       DEF BudgetInv, Requested, Requesting, BudgetCapsAttempts, Execute
<1>8. QED
  BY <1>3, <1>6, <1>7

\* connectLocked: a dial adds as much to the elapsed time as to the time that
\* is not counted, a connection one connect delay more.
LEMMA ConnectInv == ASSUME BudgetInv, Connected \/ ConnectFails PROVE BudgetInv'
<1>1. /\ phase = "loop" /\ ~session
      /\ UNCHANGED <<env, cfg, warned, slotReady, slotAt, queued, granted>>
      /\ CfgOK /\ Accounted /\ Requested /\ queued \in Nat /\ dialled \in Nat
  BY DEF BudgetInv, Requesting, Requested, Connected, ConnectFails
<1>2. /\ A \in Nat /\ C \in Nat /\ R \in Nat /\ cfg.requestTimeout \in Nat
      /\ RetryTime = 2 * A + 2 * C + R /\ A' = A /\ C' = C /\ R' = R
  BY <1>1, CfgNumbers, SameConfig
<1>3. DialTimeout \in Nat
  BY <1>1, <1>2 DEF DialTimeout, Positive, Smaller, Accounted, A
<1>4. elapsed \in Nat /\ elapsed <= Uncounted + A + R + C
  BY <1>1, <1>2 DEF Accounted, Uncounted
<1>5. CASE Connected
  <2>1. PICK d \in 0 .. DialTimeout :
           /\ dialled' = dialled + d
           /\ \/ elapsed' = elapsed + d + C /\ session' = TRUE /\ phase' = phase
              \/ contextError(elapsed + d + C) /\ phase' = "expired"
    BY <1>5 DEF Connected, C
  <2>2. /\ d \in Nat /\ Uncounted' = Uncounted + d /\ Uncounted \in Nat
        /\ attempt' = attempt
    BY <1>1, <1>3, <1>5, <2>1 DEF Uncounted, Connected
  <2>3. CASE elapsed' = elapsed + d + C /\ session' = TRUE /\ phase' = phase
    <3>1. Accounted'
      BY <1>1, <1>2, <2>2, <2>3 DEF Accounted
    <3>2. QED
      BY <1>1, <2>1, <2>2, <2>3, <3>1, TimeStep
  <2>4. CASE contextError(elapsed + d + C) /\ phase' = "expired"
    <3>1. cfg.requestTimeout <= RetryTime + Uncounted'
      BY <1>2, <1>4, <2>2, <2>4 DEF contextError
    <3>2. QED
      BY <1>1, <2>1, <2>2, <2>4, <3>1, TimeStep
  <2>5. QED
    BY <2>1, <2>3, <2>4
<1>6. CASE ConnectFails
  <2>1. PICK d \in 0 .. DialTimeout :
           /\ dialled' = dialled + d /\ elapsed' = elapsed + d
           /\ \/ attempt = 1 /\ attempt' = 2 /\ phase' = phase
              \/ phase' = "failed"
              \/ contextError(elapsed') /\ phase' = "expired"
    BY <1>6 DEF ConnectFails
  <2>2. /\ d \in Nat /\ Uncounted' = Uncounted + d /\ Uncounted \in Nat
        /\ session' = session
    BY <1>1, <1>3, <1>6, <2>1 DEF Uncounted, ConnectFails
  <2>3. CASE attempt = 1 /\ attempt' = 2 /\ phase' = phase
    <3>1. Accounted'
      BY <1>1, <1>2, <2>1, <2>2, <2>3 DEF Accounted
    <3>2. QED
      BY <1>1, <2>1, <2>2, <2>3, <3>1, TimeStep
  <2>4. CASE phase' = "failed"
    BY <1>1, <2>1, <2>2, <2>4, TimeStep
  <2>5. CASE contextError(elapsed') /\ phase' = "expired"
    <3>1. cfg.requestTimeout <= RetryTime + Uncounted'
      BY <1>2, <1>4, <2>1, <2>2, <2>5 DEF contextError
    <3>2. QED
      BY <1>1, <2>1, <2>2, <2>5, <3>1, TimeStep
  <2>6. QED
    BY <2>1, <2>3, <2>4, <2>5
<1>7. QED
  BY <1>5, <1>6

\* waitForRequestSlot waits at most the request delay.
LEMMA SlotInv == ASSUME BudgetInv, WaitForRequestSlot PROVE BudgetInv'
<1>1. /\ phase = "loop" /\ session /\ Requested
      /\ UNCHANGED <<env, cfg, warned, attempt, session, slotAt, queued, dialled, granted>>
      /\ CfgOK /\ Accounted /\ queued \in Nat /\ dialled \in Nat
  BY DEF BudgetInv, Requesting, Requested, WaitForRequestSlot
<1>2. /\ A \in Nat /\ C \in Nat /\ R \in Nat /\ cfg.requestTimeout \in Nat
      /\ RetryTime = 2 * A + 2 * C + R /\ A' = A /\ C' = C /\ R' = R
      /\ Uncounted \in Nat /\ Uncounted' = Uncounted
  BY <1>1, CfgNumbers, SameConfig DEF Uncounted
<1>3. /\ elapsed' \in Nat
      /\ elapsed' = elapsed \/ (~slotReady /\ elapsed' <= slotAt)
  BY <1>1, <1>2 DEF WaitForRequestSlot, Accounted, Smaller
<1>4. \/ contextError(elapsed') /\ phase' = "expired"
      \/ ~contextError(elapsed') /\ phase' = "attempt" /\ slotReady'
  BY DEF WaitForRequestSlot
<1>5. slotReady' \in BOOLEAN
  BY <1>1 DEF WaitForRequestSlot, Accounted
<1>6. /\ elapsed' <= Uncounted + A + R + 2 * C
      /\ attempt = 1 => elapsed' <= Uncounted + C + R
  BY <1>1, <1>2, <1>3 DEF Accounted, Uncounted
<1>7. CASE contextError(elapsed') /\ phase' = "expired"
  <2>1. cfg.requestTimeout <= RetryTime + Uncounted'
    BY <1>2, <1>3, <1>6, <1>7, SameConfig DEF contextError
  <2>2. QED
    BY <1>1, <1>2, <1>7, <2>1, TimeStep
<1>8. CASE ~contextError(elapsed') /\ phase' = "attempt" /\ slotReady'
  <2>1. ~contextError(elapsed)'
    BY <1>1, <1>8 DEF contextError
  <2>2. Accounted'
    BY <1>1, <1>2, <1>3, <1>5, <1>6, <1>8, <2>1 DEF Accounted
  <2>3. QED
    BY <1>1, <1>2, <1>8, <2>2, TimeStep
<1>9. QED
  BY <1>4, <1>7, <1>8

\* An attempt takes no longer than its socket timeout.
LEMMA AttemptInv == ASSUME BudgetInv, Attempt PROVE BudgetInv'
<1> DEFINE t == socketTimeoutFor(elapsed)
<1>1. /\ phase = "attempt" /\ UNCHANGED <<env, cfg, warned, slotReady, slotAt, queued, dialled>>
      /\ CfgOK /\ Accounted /\ queued \in Nat /\ dialled \in Nat
  BY DEF BudgetInv, Requesting, Attempt
<1>2. /\ A \in Nat /\ A > 0 /\ C \in Nat /\ R \in Nat /\ cfg.requestTimeout \in Nat
      /\ RetryTime = 2 * A + 2 * C + R /\ A' = A /\ C' = C /\ R' = R
      /\ Uncounted \in Nat /\ Uncounted' = Uncounted /\ RetryTime' = RetryTime
  BY <1>1, CfgNumbers, SameConfig DEF Uncounted
<1>3. elapsed \in Nat /\ elapsed < cfg.requestTimeout /\ elapsed <= Uncounted + A + R + 2 * C
  BY <1>1, <1>2 DEF Accounted, contextError
<1>4. /\ t \in Nat /\ t > 0 /\ t <= A /\ elapsed + t <= cfg.requestTimeout
      /\ t = A \/ t = cfg.requestTimeout - elapsed
  BY <1>2, <1>3 DEF socketTimeoutFor, Positive, Smaller, A
<1>5. granted' = [from |-> elapsed, timeout |-> t]
  BY DEF Attempt
<1>6. elapsed' \in Nat /\ elapsed' <= elapsed + t
  BY <1>3, <1>4 DEF Attempt
<1>7. phase' \in {"done", "expired", "loop", "failed"}
  BY DEF Attempt
<1>8. phase' = "expired" => contextError(elapsed')
  BY DEF Attempt
<1>9. phase' = "loop" => attempt = 1 /\ attempt' = 2 /\ session' = FALSE
  BY <1>1 DEF Attempt, Accounted
<1> HIDE DEF t
<1>10. BudgetCapsAttempts'
  BY <1>1, <1>4, <1>5 DEF BudgetCapsAttempts
<1>11. phase' = "loop" => Accounted'
  <2> SUFFICES ASSUME phase' = "loop" PROVE Accounted'
    OBVIOUS
  <2>1. /\ attempt = 1 /\ attempt' = 2 /\ session' \in BOOLEAN /\ ~session'
        /\ slotReady /\ slotReady' \in BOOLEAN /\ slotReady' /\ slotAt' = slotAt
    BY <1>1, <1>9 DEF Accounted
  <2>2. elapsed' <= Uncounted + A + R + C
    BY <1>1, <1>2, <1>3, <1>4, <1>6, <2>1 DEF Accounted
  <2>3. slotAt \in Nat /\ slotAt <= queued + R
    BY <1>1 DEF Accounted
  <2>4. QED
    BY <1>1, <1>2, <1>6, <2>1, <2>2, <2>3 DEF Accounted
<1>12. Fits' => Unhurried'
  <2> SUFFICES ASSUME Fits' PROVE Unhurried'
    OBVIOUS
  <2>1. 2 * A + 2 * C + R + Uncounted < cfg.requestTimeout
    BY <1>1, <1>2 DEF Fits
  <2>2. t = A
    BY <1>2, <1>3, <1>4, <2>1
  <2>3. elapsed' < cfg.requestTimeout
    BY <1>2, <1>3, <1>6, <2>1, <2>2
  <2>4. phase' # "expired"
    BY <1>2, <1>6, <1>8, <2>3 DEF contextError
  <2>5. QED
    BY <1>1, <1>5, <2>2, <2>4 DEF Unhurried, A
<1>13. QED
  BY <1>1, <1>7, <1>10, <1>11, <1>12, SameConfig DEF BudgetInv, Requesting, Requested

\* The invariant holds for every environment.
THEOREM BudgetInvariant == BudgetSpec => []BudgetInv
<1>1. BudgetInv /\ [BudgetNext]_budgetVars => BudgetInv'
  <2> SUFFICES ASSUME BudgetInv, [BudgetNext]_budgetVars
               PROVE  BudgetInv'
    OBVIOUS
  <2>1. CASE BudgetNext
    BY <2>1, LoadInv, NewInv, ExecuteInv, ConnectInv, SlotInv, AttemptInv DEF BudgetNext
  <2>2. CASE UNCHANGED budgetVars
    BY <2>2, SameConfig DEF budgetVars, execVars, timeVars, BudgetInv, Requesting, Requested, Accounted,
                            Fits, Uncounted, Unhurried, contextError, BudgetCapsAttempts
  <2>3. QED
    BY <2>1, <2>2
<1>2. QED
  BY <1>1, BudgetStarts, PTL DEF BudgetSpec

\* Every configuration that Load accepts is usable, whatever the environment.
THEOREM AcceptedConfigUsable == BudgetSpec => []LoadedConfigUsable
<1>1. BudgetInv => LoadedConfigUsable
  BY DEF BudgetInv, CfgOK, LoadedConfigUsable
<1>2. QED
  BY <1>1, BudgetInvariant, PTL

\* Without a warning, a full retry fits into the budget for all durations up to
\* the largest, and it is not cut short before queueing and dialling have used
\* what the budget leaves beside it.
THEOREM WarningComplete == BudgetSpec => []UnwarnedRetryFits
<1>1. BudgetInv => UnwarnedRetryFits
  <2> SUFFICES ASSUME BudgetInv, Requested, ~warned
               PROVE  /\ RetryTime < cfg.requestTimeout
                      /\ RetryTime + queued + dialled < cfg.requestTimeout => Unhurried
    BY DEF UnwarnedRetryFits
  <2>1. CfgOK /\ ~(cfg.requestTimeout <= retryBudget)
    BY DEF BudgetInv, Requested
  <2>2. RetryTime < cfg.requestTimeout /\ RetryTime \in Nat
    BY <2>1, RoomForRetry, CfgNumbers
  <2>3. RetryTime + queued + dialled = RetryTime + Uncounted
    BY <2>2 DEF BudgetInv, Uncounted
  <2>4. QED
    BY <2>2, <2>3 DEF BudgetInv, Fits
<1>2. QED
  BY <1>1, BudgetInvariant, PTL

\* No attempt outlasts the request's budget, for all durations.
THEOREM AttemptsCapped == BudgetSpec => []BudgetCapsAttempts
<1>1. BudgetInv => BudgetCapsAttempts
  BY DEF BudgetInv
<1>2. QED
  BY <1>1, BudgetInvariant, PTL

-----------------------------------------------------------------------------
(* Errors. *)

\* An error is on its way here.
Travels == {"coalescer", "handler", "server"}

\* What an error still says of its origin: a failure of the transport or of the
\* context is answered by 0x0B, an exception of the device by its own code.
Blames(e, o) ==
    \/ o.what \in {"transport", "context"} /\ DownstreamException(e) = ExcGatewayTargetFailed
    \/ /\ o.what = "exception" /\ ErrorKindOf(e) = "exception"
       /\ DownstreamException(e) = o.code /\ o.code # 0

\* A failure of the transport that Execute does not retry while the request has
\* time left passes for the deadline of the context.
UnretriedIsDeadline ==
    holder = "coalescer" /\ ctx = "active" /\ origin.what = "transport" =>
        ErrorKindOf(err) \in {"timeout", "closed"} \/ IsDeadlineExceeded(err)

\* An error on its way says what happened, stale data stands for no exception,
\* and what is stated of decided errors holds.
ErrInv ==
    /\ holder \in Travels /\ err # Nil => Blames(err, origin)
    /\ stale => holder \in {"server", "sent"} /\ origin.what # "exception"
    /\ DocumentedException
    /\ UnretriedIsDeadline

-----------------------------------------------------------------------------
(* What classifyError and DownstreamException make of the errors there are. *)

\* A cause on its own: the kind that classifyError gives it.
LEMMA BareError ==
    ASSUME NEW c \in Causes
    PROVE  /\ Error(c) # Nil
           /\ Kind(Error(c)) = CASE c \in {"deadline", "dial timeout"} -> "deadline"
                                 [] c = "canceled" -> "canceled"
                                 [] c = "io timeout" -> "timeout"
                                 [] c \in {"closed", "net"} -> "closed"
                                 [] OTHER -> "local"
<1>1. Error(c).cause = c /\ Nil.cause = "nil"
  BY DEF Error, Nil
<1>2. Error(c).modbus = <<>> /\ Error(c).validation = <<>> /\ Error(c).upstream = FALSE
  BY DEF Error
<1>3. Error(c) # Nil
  BY <1>1 DEF Causes
<1> QED  BY <1>1, <1>2, <1>3 DEF Kind, classifyError, IsDeadlineExceeded, IsCanceled, Causes

\* requestError keeps what it wraps and records its kind.
LEMMA Wrapped ==
    ASSUME NEW e, DOMAIN e = {"cause", "modbus", "validation", "upstream", "request"},
           e = [x \in DOMAIN e |-> e[x]]
    PROVE  LET w == requestError(e)
           IN  /\ w # Nil /\ w.request = classifyError(e) /\ ErrorKindOf(w) = Kind(e)
               /\ w.cause = e.cause /\ w.upstream = e.upstream /\ w.modbus = e.modbus
               /\ w.validation = e.validation
<1> DEFINE w == requestError(e)
<1>1. /\ w.request = classifyError(e) /\ w.cause = e.cause /\ w.upstream = e.upstream
      /\ w.modbus = e.modbus /\ w.validation = e.validation
  BY DEF requestError
<1>2. classifyError(e) # <<>>
  BY DEF classifyError
<1>3. w # Nil
  BY <1>1, <1>2 DEF Nil, Error
<1>4. ErrorKindOf(w) = Kind(e)
  BY <1>1, <1>2 DEF ErrorKindOf, Kind
<1> QED  BY <1>1, <1>3, <1>4

\* The errors of a context, on their own and as finalError wraps them.
LEMMA ContextErrors ==
    ASSUME NEW c \in {"deadline", "canceled"}
    PROVE  /\ Error(c) # Nil /\ requestError(Error(c)) # Nil
           /\ DownstreamException(Error(c)) = ExcGatewayTargetFailed
           /\ DownstreamException(requestError(Error(c))) = ExcGatewayTargetFailed
<1> DEFINE e == Error(c)
           w == requestError(e)
<1>1. c \in Causes
  BY DEF Causes
<1>2. /\ e.modbus = <<>> /\ e.validation = <<>> /\ e.upstream = FALSE /\ e.request = <<>>
      /\ e.cause = c
      /\ DOMAIN e = {"cause", "modbus", "validation", "upstream", "request"}
      /\ e = [x \in DOMAIN e |-> e[x]]
  BY DEF Error
<1>3. e # Nil /\ Kind(e) = c
  BY <1>1, BareError
<1>4. /\ w # Nil /\ w.modbus = <<>> /\ w.validation = <<>> /\ w.upstream = FALSE
      /\ ErrorKindOf(w) = c /\ w.request = classifyError(e)
  BY <1>2, <1>3, Wrapped
<1>5. w.request[1] = c
  BY <1>3, <1>4 DEF Kind
<1> HIDE DEF e, w
<1>6. DownstreamException(e) = ExcGatewayTargetFailed
  BY <1>2, <1>3 DEF DownstreamException, ErrorKindOf
<1>7. DownstreamException(w) = ExcGatewayTargetFailed
  BY <1>4, <1>5 DEF DownstreamException
<1> QED  BY <1>3, <1>4, <1>6, <1>7 DEF e, w

\* Failures of a dial or of an attempt that no exception explains: they are
\* answered by 0x0B, and have a kind that is retried unless errors.Is takes them
\* for an error of the context.
LEMMA TransportErrors ==
    ASSUME NEW c \in Causes
    PROVE  LET w == requestError(classifyRequestPathError(Error(c)))
           IN  /\ w # Nil
               /\ DownstreamException(w) = ExcGatewayTargetFailed
               /\ ErrorKindOf(w) \in {"timeout", "closed", "deadline", "canceled"}
               /\ ErrorKindOf(w) \in {"timeout", "closed"} \/ c = "canceled"
                     \/ IsDeadlineExceeded(w)
               /\ c # "other" => classifyRequestPathError(Error(c)) = Error(c)
<1> DEFINE e == Error(c)
           p == classifyRequestPathError(e)
           w == requestError(p)
<1>1. /\ e.modbus = <<>> /\ e.validation = <<>> /\ e.upstream = FALSE /\ e.request = <<>>
      /\ e.cause = c
      /\ DOMAIN e = {"cause", "modbus", "validation", "upstream", "request"}
      /\ e = [x \in DOMAIN e |-> e[x]]
  BY DEF Error
<1>2. Kind(e) = "local" <=> c = "other"
  BY BareError DEF Causes
<1>3. /\ p = IF c = "other" THEN [e EXCEPT !.upstream = TRUE] ELSE e
  BY <1>1, <1>2 DEF classifyRequestPathError
<1>4. /\ p.modbus = <<>> /\ p.validation = <<>> /\ p.cause = c
      /\ p.upstream = (c = "other")
      /\ DOMAIN p = {"cause", "modbus", "validation", "upstream", "request"}
      /\ p = [x \in DOMAIN p |-> p[x]]
  BY <1>1, <1>3
<1>5. /\ Kind(p) \in {"timeout", "closed", "deadline", "canceled"}
      /\ Kind(p) = "canceled" => c = "canceled"
      /\ Kind(p) = "deadline" => c \in {"deadline", "dial timeout"}
  <2>1. p # Nil
    <3>1. Nil.cause = "nil" /\ c # "nil"
      BY DEF Nil, Error, Causes
    <3> QED  BY <1>4, <3>1
  <2> HIDE DEF p
  <2> QED  BY <1>4, <2>1 DEF Kind, classifyError, IsDeadlineExceeded, IsCanceled, Causes
<1> HIDE DEF p
<1>6. /\ w # Nil /\ w.modbus = <<>> /\ w.validation = <<>> /\ w.cause = c
      /\ w.upstream = (c = "other")
      /\ ErrorKindOf(w) = Kind(p) /\ w.request[1] = Kind(p)
  BY <1>4, Wrapped DEF Kind
<1> HIDE DEF w
<1>7. DownstreamException(w) = ExcGatewayTargetFailed
  BY <1>5, <1>6 DEF DownstreamException
<1>8. ErrorKindOf(w) = "deadline" => IsDeadlineExceeded(w)
  BY <1>5, <1>6 DEF IsDeadlineExceeded
<1>9. c # "other" => p = e
  BY <1>3
<1> QED  BY <1>5, <1>6, <1>7, <1>8, <1>9 DEF w, p

\* Exceptions that the library reports: the device's own keeps its code, any
\* other is a failure of the transport.
LEMMA Exceptions ==
    ASSUME NEW b \in BOOLEAN, NEW code \in Codes
    PROVE  LET w == requestError(classifyRequestPathError(ModbusError(b, code)))
           IN  /\ w # Nil
               /\ b /\ code # 0 => /\ ErrorKindOf(w) = "exception"
                                   /\ DownstreamException(w) = code
               /\ ~(b /\ code # 0) => /\ ErrorKindOf(w) = "closed"
                                      /\ DownstreamException(w) = ExcGatewayTargetFailed
<1> DEFINE e == ModbusError(b, code)
           p == classifyRequestPathError(e)
           w == requestError(p)
<1>1. /\ e.modbus = <<b, code>> /\ e.validation = <<>> /\ e.upstream = FALSE
      /\ e.request = <<>> /\ e.cause = "other"
      /\ DOMAIN e = {"cause", "modbus", "validation", "upstream", "request"}
      /\ e = [x \in DOMAIN e |-> e[x]]
  BY DEF ModbusError, Error
<1>2. <<b, code>> # <<>> /\ <<b, code>>[1] = b /\ <<b, code>>[2] = code
  OBVIOUS
<1>3. p = IF b /\ code # 0 THEN e ELSE [e EXCEPT !.upstream = TRUE]
  BY <1>1, <1>2 DEF classifyRequestPathError
<1>4. /\ p.modbus = <<b, code>> /\ p.validation = <<>> /\ p.cause = "other"
      /\ p.upstream = ~(b /\ code # 0)
      /\ DOMAIN p = {"cause", "modbus", "validation", "upstream", "request"}
      /\ p = [x \in DOMAIN p |-> p[x]]
  BY <1>1, <1>3
<1>5. classifyError(p) = IF b /\ code # 0 THEN <<"exception", code>> ELSE <<"closed", 0>>
  <2>1. p # Nil
    BY <1>4 DEF Nil, Error
  <2> HIDE DEF p
  <2> QED  BY <1>2, <1>4, <2>1 DEF classifyError, IsDeadlineExceeded, IsCanceled
<1> HIDE DEF p
<1>6. /\ w # Nil /\ w.modbus = <<b, code>> /\ w.validation = <<>>
      /\ w.upstream = ~(b /\ code # 0)
      /\ ErrorKindOf(w) = Kind(p) /\ w.request = classifyError(p)
  BY <1>4, Wrapped
<1> HIDE DEF w
<1>7. CASE b /\ code # 0
  <2>1. w.request = <<"exception", code>> /\ Kind(p) = "exception"
    BY <1>5, <1>6, <1>7 DEF Kind
  <2>2. DownstreamException(w) = code
    BY <2>1 DEF DownstreamException
  <2> QED  BY <1>6, <1>7, <2>1, <2>2 DEF w, p
<1>8. CASE ~(b /\ code # 0)
  <2>0. w.upstream
    BY Zenon, <1>6, <1>8
  <2>1. w.request = <<"closed", 0>> /\ Kind(p) = "closed"
    BY <1>5, <1>6, <1>8 DEF Kind
  <2>2. DownstreamException(w) = ExcGatewayTargetFailed
    BY <2>0, <2>1 DEF DownstreamException
  <2> QED  BY <1>6, <1>8, <2>1, <2>2 DEF w, p
<1> QED  BY <1>7, <1>8

-----------------------------------------------------------------------------
(* The steps. *)

\* The context's error, when there is one.
LEMMA ContextErrorIs ==
    /\ CtxErr # Nil => ctx \in {"deadline", "canceled"} /\ CtxErr = Error(ctx)
    /\ ContextError # Nil => \E c \in {"deadline", "canceled"} : ContextError = Error(c)
BY DEF ContextError, CtxErr

\* The error and the origin that Execute leaves for its caller.
LEMMA Leaves ==
    ASSUME ErrInv, NEW e, NEW o, Passes("client", "coalescer", e, o),
           e # Nil => Blames(e, o),
           (ctx = "active" /\ o.what = "transport") =>
              ErrorKindOf(e) \in {"timeout", "closed"} \/ IsDeadlineExceeded(e)
    PROVE  ErrInv'
BY DEF ErrInv, Passes, DocumentedException, UnretriedIsDeadline, Travels

\* An error goes on as it is.
LEMMA GoesOn ==
    ASSUME ErrInv, NEW from \in {"coalescer", "handler"}, NEW to \in {"handler", "server"},
           Passes(from, to, err, origin)
    PROVE  ErrInv'
BY DEF ErrInv, Passes, DocumentedException, UnretriedIsDeadline, Travels

\* The context has ended: its error replaces whatever happened.
LEMMA ContextOverStep == ErrInv /\ ContextOver => ErrInv'
<1> SUFFICES ASSUME ErrInv, ContextOver PROVE ErrInv'
  OBVIOUS
<1>1. PICK c \in {"deadline", "canceled"} : ContextError = Error(c)
  BY ContextErrorIs DEF ContextOver
<1>2. Blames(requestError(ContextError), Origin("context", 0))
  BY <1>1, ContextErrors DEF Blames, Origin
<1>3. Origin("context", 0).what # "transport"
  BY DEF Origin
<1> QED  BY <1>2, <1>3, Leaves DEF ContextOver

\* An error of the library is a bare one or an exception.
LEMMA RawErrorIs ==
    ASSUME NEW e \in RawErrors
    PROVE  \/ \E c \in Causes \ {"dial timeout"} : e = Error(c)
           \/ \E b \in BOOLEAN, code \in Codes : e = ModbusError(b, code)
BY DEF RawErrors

\* A dial fails with an error of the network, or because the context ended.
LEMMA DialFailsStep ==
    ASSUME ErrInv, NEW e \in RawErrors \cup {Error("dial timeout")}, DialFails(e)
    PROVE  ErrInv'
<1> DEFINE o == Origin("transport", 0)
<1>0. Passes("client", "coalescer", requestError(e), o) /\ o.what = "transport"
  BY DEF DialFails, Origin
<1>1. \/ \E c \in Causes : e = Error(c)
      \/ \E b \in BOOLEAN, code \in Codes : e = ModbusError(b, code)
  <2>1. "dial timeout" \in Causes
    BY DEF Causes
  <2> QED  BY Zenon, <2>1, RawErrorIs
<1>2. CASE e.modbus = <<>> /\ e.cause \in {"dial timeout", "io timeout", "closed", "net"}
  <2>1. \A b \in BOOLEAN, code \in Codes : ModbusError(b, code).modbus # <<>>
    BY DEF ModbusError, Error
  <2>2. PICK c \in Causes : e = Error(c)
    BY <1>1, <1>2, <2>1
  <2>3. e.cause = c
    BY <2>2 DEF Error
  <2>4. c \notin {"other", "canceled"}
    BY <1>2, <2>3
  <2>5. classifyRequestPathError(e) = e
    BY <2>2, <2>4, TransportErrors
  <2>6. /\ DownstreamException(requestError(e)) = ExcGatewayTargetFailed
        /\ ErrorKindOf(requestError(e)) \in {"timeout", "closed"}
             \/ IsDeadlineExceeded(requestError(e))
    BY <2>2, <2>4, <2>5, TransportErrors
  <2> HIDE DEF o
  <2> QED  BY <1>0, <2>6, Leaves DEF Blames
<1>3. CASE e = CtxErr
  <2>1. e # Nil
    <3>1. \A b \in BOOLEAN, code \in Codes : ModbusError(b, code).cause = "other"
      BY DEF ModbusError, Error
    <3>2. Nil.cause = "nil"
      BY DEF Nil, Error
    <3> QED  BY <1>1, <3>1, <3>2, BareError
  <2>2. ctx \in {"deadline", "canceled"} /\ e = Error(ctx)
    BY <1>3, <2>1, ContextErrorIs
  <2>3. DownstreamException(requestError(e)) = ExcGatewayTargetFailed
    BY <2>2, ContextErrors
  <2> HIDE DEF o
  <2> QED  BY <1>0, <2>2, <2>3, Leaves DEF Blames
<1> QED  BY <1>2, <1>3 DEF DialFails

\* An attempt fails: the context's error wins over a failure that is no exception.
LEMMA AttemptFailsStep ==
    ASSUME ErrInv, NEW raw \in RawErrors, AttemptFails(raw)
    PROVE  ErrInv'
<1> DEFINE e == classifyRequestPathError(raw)
           genuine == raw.modbus # <<>> /\ raw.modbus[1] /\ raw.modbus[2] # 0
           o == IF genuine THEN Origin("exception", raw.modbus[2]) ELSE Origin("transport", 0)
<1>1. CASE Kind(e) # "exception" /\ ContextError # Nil
  <2>1. ContextOver
    BY <1>1 DEF AttemptFails, ContextOver
  <2> QED  BY <2>1, ContextOverStep
<1>2. CASE ~(Kind(e) # "exception" /\ ContextError # Nil)
  <2>1. Passes("client", "coalescer", requestError(e), o)
    BY <1>2 DEF AttemptFails
  <2>2. CASE \E c \in Causes \ {"dial timeout"} : raw = Error(c)
    <3>1. PICK c \in Causes : raw = Error(c)
      BY <2>2
    <3>2. raw.modbus = <<>> /\ raw.cause = c
      BY <3>1 DEF Error
    <3>3. o.what = "transport"
      BY <3>2 DEF Origin
    <3>4. c = "canceled" => ctx = "canceled"
      BY <3>2 DEF AttemptFails, IsCanceled
    <3>5. /\ DownstreamException(requestError(e)) = ExcGatewayTargetFailed
          /\ ErrorKindOf(requestError(e)) \in {"timeout", "closed"} \/ c = "canceled"
               \/ IsDeadlineExceeded(requestError(e))
      BY <3>1, TransportErrors
    <3> HIDE DEF e, o
    <3> QED  BY <2>1, <3>3, <3>4, <3>5, Leaves DEF Blames
  <2>3. CASE \E b \in BOOLEAN, code \in Codes : raw = ModbusError(b, code)
    <3>1. PICK b \in BOOLEAN, code \in Codes : raw = ModbusError(b, code)
      BY <2>3
    <3>2. raw.modbus = <<b, code>>
      BY <3>1 DEF ModbusError, Error
    <3>3. genuine <=> b /\ code # 0
      BY <3>2
    <3>4. CASE b /\ code # 0
      <4>1. o.what = "exception" /\ o.code = code
        BY <3>2, <3>3, <3>4 DEF Origin
      <4>2. ErrorKindOf(requestError(e)) = "exception" /\ DownstreamException(requestError(e)) = code
        BY <3>1, <3>4, Exceptions
      <4> HIDE DEF e, o
      <4> QED  BY <2>1, <3>4, <4>1, <4>2, Leaves DEF Blames
    <3>5. CASE ~(b /\ code # 0)
      <4>1. o.what = "transport"
        BY <3>3, <3>5 DEF Origin
      <4>2. /\ ErrorKindOf(requestError(e)) = "closed"
            /\ DownstreamException(requestError(e)) = ExcGatewayTargetFailed
        BY <3>1, <3>5, Exceptions
      <4> HIDE DEF e, o
      <4> QED  BY <2>1, <4>1, <4>2, Leaves DEF Blames
    <3> QED  BY <3>4, <3>5
  <2> QED  BY <2>2, <2>3, RawErrorIs
<1> QED  BY <1>1, <1>2

\* A request that does not validate is answered by the code of its fault.
LEMMA RejectedStep ==
    ASSUME ErrInv, NEW code \in {ExcIllegalFunction, ExcIllegalAddress, ExcIllegalValue},
           Rejected(code)
    PROVE  ErrInv'
<1>1. DownstreamException(ValidationError(code)) = code
  <2>1. /\ ValidationError(code).request = <<>> /\ ValidationError(code).upstream = FALSE
        /\ ValidationError(code).modbus = <<>> /\ ValidationError(code).validation = <<code>>
    BY DEF ValidationError, Error
  <2> QED  BY <2>1 DEF DownstreamException
<1>2. code # 0
  BY DEF ExcIllegalFunction, ExcIllegalAddress, ExcIllegalValue
<1>3. Origin("validation", code).what = "validation" /\ Origin("validation", code).code = code
  BY DEF Origin
<1> QED  BY <1>1, <1>2, <1>3 DEF Rejected, ErrInv, DocumentedException, UnretriedIsDeadline, Travels

\* The leader's result leaves the coalescer, unless its context has ended.
LEMMA FetchedStep == ErrInv /\ Fetched => ErrInv'
<1> SUFFICES ASSUME ErrInv, Fetched PROVE ErrInv'
  OBVIOUS
<1>1. CASE err = Nil /\ CtxErr # Nil
  <2>1. DownstreamException(CtxErr) = ExcGatewayTargetFailed
    BY <1>1, ContextErrorIs, ContextErrors
  <2>2. Origin("context", 0).what = "context"
    BY DEF Origin
  <2> QED  BY <1>1, <2>1, <2>2
            DEF Fetched, Passes, ErrInv, Blames, DocumentedException, UnretriedIsDeadline, Travels
<1>2. CASE ~(err = Nil /\ CtxErr # Nil)
  BY <1>2, GoesOn DEF Fetched, Travels
<1> QED  BY <1>1, <1>2

\* A follower takes over the leader's result, fails by its own context, or fetches.
LEMMA SharedStep ==
    ASSUME ErrInv, NEW c, Shared(c)
    PROVE  ErrInv'
<1>1. CASE CtxErr' # Nil /\ holder' = "handler" /\ err' = CtxErr' /\ origin' = Origin("context", 0)
  <2>1. CtxErr' = Error(ctx') /\ ctx' \in {"deadline", "canceled"}
    BY <1>1 DEF CtxErr
  <2>2. DownstreamException(Error(ctx')) = ExcGatewayTargetFailed
    BY <2>1, ContextErrors
  <2>3. Origin("context", 0).what = "context"
    BY DEF Origin
  <2> QED  BY <1>1, <2>1, <2>2, <2>3
            DEF Shared, ErrInv, Blames, DocumentedException, UnretriedIsDeadline, Travels
<1>2. CASE holder' = "client" /\ err' = Nil /\ origin' = Origin("none", 0)
  BY <1>2 DEF Shared, ErrInv, DocumentedException, UnretriedIsDeadline, Travels
<1>3. CASE holder' = "handler" /\ UNCHANGED <<err, origin>>
  BY <1>3 DEF Shared, ErrInv, DocumentedException, UnretriedIsDeadline, Travels
<1> QED  BY <1>1, <1>2, <1>3 DEF Shared

\* The server answers with the code of the error.
LEMMA AnswerStep == ErrInv /\ AnswerError => ErrInv'
<1> SUFFICES ASSUME ErrInv, AnswerError PROVE ErrInv'
  OBVIOUS
<1> DEFINE e == IF err = Nil THEN ContextError ELSE err
<1>0. /\ holder = "server" /\ holder' = "sent" /\ err' = e /\ stale' = stale
      /\ sent' = IF e = Nil THEN 0 ELSE DownstreamException(e)
      /\ origin' = IF err = e THEN origin ELSE Origin("context", 0)
  BY DEF AnswerError
<1>1. Origin("context", 0).what = "context"
  BY DEF Origin
<1>2. stale' => origin'.what # "exception"
  BY <1>0, <1>1 DEF ErrInv
<1>3. DocumentedException'
  <2>1. CASE err = Nil /\ ContextError # Nil
    <3>1. DownstreamException(ContextError) = ExcGatewayTargetFailed
      BY <2>1, ContextErrorIs, ContextErrors
    <3> QED  BY <1>0, <1>1, <2>1, <3>1 DEF DocumentedException, ExcGatewayTargetFailed
  <2>2. CASE err = Nil /\ ContextError = Nil
    BY <1>0, <2>2 DEF DocumentedException
  <2>3. CASE err # Nil
    <3>1. Blames(err, origin)
      BY <1>0, <2>3 DEF ErrInv, Travels
    <3> QED  BY <1>0, <2>3, <3>1 DEF DocumentedException, Blames, ExcGatewayTargetFailed
  <2> QED  BY <2>1, <2>2, <2>3
<1> QED  BY <1>0, <1>2, <1>3 DEF ErrInv, UnretriedIsDeadline, Travels

\* The remaining steps: the context ends, Execute succeeds, a write goes past the
\* coalescer, the handler returns, or serves stale data for a failure that is no
\* exception.
LEMMA OtherSteps ==
    ErrInv /\ (ContextEnds \/ Succeeds \/ NotCoalesced \/ HandlerReturns \/ ServeStale) => ErrInv'
<1>1. ErrInv /\ ContextEnds => ErrInv'
  BY DEF ContextEnds, ErrInv, DocumentedException, UnretriedIsDeadline
<1>2. ErrInv /\ Succeeds => ErrInv'
  <2>1. Origin("success", 0).what = "success"
    BY DEF Origin
  <2> QED  BY <2>1, Leaves DEF Succeeds
<1>3. ErrInv /\ (NotCoalesced \/ HandlerReturns) => ErrInv'
  BY GoesOn DEF NotCoalesced, HandlerReturns, Travels
<1>4. ErrInv /\ ServeStale => ErrInv'
  BY DEF ServeStale, ErrInv, Blames, DocumentedException, UnretriedIsDeadline, Travels
<1> QED  BY <1>1, <1>2, <1>3, <1>4

\* Every error of Execute, of the coalescer and of the handler keeps saying where it
\* came from.
THEOREM ErrorInvariant == ErrorSpec => []ErrInv
<1>1. ErrorInit => ErrInv
  BY DEF ErrorInit, ErrInv, DocumentedException, UnretriedIsDeadline, Travels
<1>2. ErrInv /\ [ErrorNext]_errorVars => ErrInv'
  <2> SUFFICES ASSUME ErrInv, [ErrorNext]_errorVars PROVE ErrInv'
    OBVIOUS
  <2>1. CASE UNCHANGED errorVars
    BY <2>1 DEF errorVars, ErrInv, DocumentedException, UnretriedIsDeadline
  <2>2. CASE ErrorNext
    BY <2>2, ContextOverStep, DialFailsStep, AttemptFailsStep, RejectedStep, FetchedStep,
       SharedStep, AnswerStep, OtherSteps DEF ErrorNext
  <2> QED  BY <2>1, <2>2
<1> QED  BY <1>1, <1>2, PTL DEF ErrorSpec

\* A client sees the device's exception code when the device sent one, the code of
\* the fault of a request that does not validate, and 0x0B for every failure of the
\* transport or the deadline, whichever layers wrapped the error (DownstreamException).
THEOREM ExceptionsAsDocumented == ErrorSpec => []DocumentedException
<1>1. ErrInv => DocumentedException
  BY DEF ErrInv
<1> QED  BY <1>1, ErrorInvariant, PTL

\* handleRead serves stale data for failures of the transport and of the context,
\* never in place of an exception of the device.
THEOREM StaleHidesNoExceptionHolds == ErrorSpec => []StaleHidesNoException
<1>1. ErrInv => StaleHidesNoException
  BY DEF ErrInv, StaleHidesNoException
<1> QED  BY <1>1, ErrorInvariant, PTL

\* The run that refutes TransportRetryable shows that some failures of the
\* transport are not retried; these are all of them: the timeouts, of a dial or
\* of an attempt, that errors.Is takes for the deadline of the context.
THEOREM UnretriedAreDeadlines == ErrorSpec => []UnretriedIsDeadline
<1>1. ErrInv => UnretriedIsDeadline
  BY DEF ErrInv
<1> QED  BY <1>1, ErrorInvariant, PTL

=============================================================================
