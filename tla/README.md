# A TLA+ verification of mbproxy

mbproxy is a caching Modbus TCP proxy: many downstream clients, one upstream
device behind one TCP connection. This directory holds TLA+ modules translated
from its source (`src/`), the TLC configurations that check them on small
instances, and TLAPS proofs of the properties that matter most for instances of
any size. `PROJECT.json` relates every definition to the lines it models.

## 1. The system

| Part | Source | State | Operations |
|---|---|---|---|
| register cache | `internal/cache/cache.go` | `entries`: register key to value and time | Get, GetStale, Set, Delete, the range forms, the cleanup goroutine |
| coalescing | `internal/cache/cache.go` | `inflight`, one `done` channel per flight | `CoalesceWithStatus`: lead, follow, share, retry |
| request handlers | `internal/proxy/proxy.go` | `writeGeneration`, under `cacheStateMu` | handleRead, handleWrite, handlePassthrough |
| upstream client | `internal/modbus/client.go` | the owner token, the session, `nextRequestAt` | Execute, Connect, Close |
| guarded connection | `internal/modbus/client.go` | bound context, deadline, cancellation | BeginRequest and its finish, Write, SetDeadline, the watchdog |
| health | `internal/modbus/client.go`, `internal/health/health.go` | the fields under `healthMu` | record functions, finalError, the endpoint |
| validation, errors | `internal/modbus/client.go`, `errors.go` | none | ValidateRequest, classifyError |
| downstream server | `internal/modbus/server.go` | connections, wait group, shutdown flag | Listen, Serve, handleConn, Close, Wait |
| framing | `server.go`, `proxy.go` | none | readRequest, parsePDU, writeResponse, decompose/assembleResponse |
| start-up and shutdown | `cmd/mbproxy/main.go`, `proxy.go` | the root context | Run, Shutdown, signals |
| configuration, logging | `internal/config`, `internal/logging` | none after start | Load |

A connection goroutine reads a request, gives it a context with a timeout and
calls `HandleRequest`. A read is answered from the cache, or fetched through
the coalescer by `Client.Execute` and stored if no write has begun or ended
since the miss. A write invalidates its range, is executed, and invalidates it
again. `Execute` calls are serialised by a one-slot channel, the owner token.

What is hard here, and hardly reached by a test:

- a read that overlaps a write and stores, shares or falls back to a pre-write
  value;
- followers whose leader is cancelled, finishes or hangs;
- a context that ends at any point of `acquire`, of a fetch or on the wire;
- a failure that leaves it unknown whether the device saw a write;
- a connection that is kept although a response to it may still come;
- a watchdog goroutine that outlives the request it was started for;
- health fields written in several places while sessions come and go;
- shutdown while all of this is going on.

`PROJECT.json` lists these as hazards, each at its line and with the properties
that would catch it.

## 2. The modules

| Module | Models |
|---|---|
| `Addresses` | register addresses that wrap around, and ranges of them |
| `Modbus` | function codes, what the parser guarantees, `ValidateRequest` |
| `Exceptions` | the exception codes |
| `Cache` | the operations of the register cache |
| `CacheSpec` | the cache on its own, with the last call of its users in `call`; it implements `TTLMap`, a map with expiry that changes only as a call asks or as values expire |
| `Coalesce` | `CoalesceWithStatus` |
| `Proxy` | the handlers, composed with `Cache` and `Coalesce` |
| `Health` | the diagnostics and the answer of the health endpoint |
| `Client` | Execute, Connect, Close and the guarded connection; it implements `Upstream`, what a call promises |
| `Server` | Listen, the accept loop, one `handleConn` per connection, Close and Wait |
| `Main` | main, Run and Shutdown, composed with `Server` and with the client's token and session |
| `Frames` | readRequest, parsePDU, the byte-level checks of ValidateRequest, the answer to a write |
| `Values` | decomposeResponse, assembleResponse and the bytes that handleRead moves |
| `Budget` | Load, the warning of New, and the time that one read and its retry may take |
| `Errors` | classifyError, the wrapping of errors on their way to the client, DownstreamException |
| `CacheProofs`, `ProxyProofs` and `ProxyCoalescing`, `ClientSteps` and `ClientProofs`, `MainProofs`, `WireProofs`, `RequestProofs` | the proofs |
| `MCCache`, `MCProxy`, `MCClient`, `MCRequest`, `MCWire` | values of the constants for TLC |

`MCCache` runs `CacheSpec` and `Coalesce` side by side, `MCRequest` runs `Budget` and
`Errors`, and `MCWire` runs `MCRequest`, `Frames` and `Values`. The modules run together share
no state, and the variable `part` or `layer`, chosen in the initial state, says
which of them a behaviour belongs to. The states of such a run are those of its
modules added up.

An operator whose comment begins with *Defect* is a plausible bug in the
operator below it. No specification uses it; substituting it for that operator
must break a property.

### How the state corresponds to the code

**Cache.** Each operation holds `c.mu` throughout and is one step. The key
text `slave:function:address` is a triple. Values are abstract.

**Coalesce.** `cpc` is the caller's place in `CoalesceWithStatus`: `enter` (loop
head), `fetch`, `publish` (fetched, still registered), `close` (unregistered,
channel open), `wait`, `woken`, `return`. A flight is named by its leader.
Unregistering and closing are two steps, as in the code. The fetch is a
parameter. Any error for which `errors.Is` finds a context error is `ctx`.

**Proxy.** Each section under `cacheStateMu` is one step. `client.Execute` is one
step that meets the device. A register holds a *version*, the number of times
it has changed; all four read functions see the same registers, the worst case
that `invalidateCache` defends against. A write may reach the device although
it fails. A response may cover only a prefix of its range. `floorAt` and
`arrived` are history variables: `floorAt[g]` is what the device held in the
written ranges when generation `g` began, and `arrived` is the generation at
which a request came in. No action's guard reads them. A context check also
looks at the clock, so it may fail before the timer has fired (`past`, chosen
anew at each check).

**Client.** `pc` is the call's place in Execute, Connect or Close. A context is
`active`, `late` (deadline passed, timer not fired: `contextError` sees it,
`ctx.Err` does not), `deadline` or `canceled`. `sent` and `received` are the
wire: what was written may arrive later, even after the call has failed, or
never. `session.unanswered` holds the requests written to the connection and
not answered. The slave ID, payload bytes, durations for the log and
`writeStarted`, which the code sets and never reads, are left out.
Consecutive checks of the context with nothing between them are one step.

**Server.** `serve`, `closer` and `handler[c]` are the places of the goroutines of
Serve, of Close and Wait, and of each `handleConn`. Each critical section of
`s.mu` is one step: reading the flag after a failed Accept, registering a
connection (or refusing it when Close came first), `Close`, and the removal at
the end. Adding to the wait group is a step of its own, after the lock. `socket`
is the client's side: it may leave, or stop reading, at any time.

**Main.** `main` is the place of the main goroutine; `run` is Run's place in
`client.Connect`. Of the client only what the shutdown shares with it is kept:
`owner`, who holds the token, and `session`, who opened the session. The context
of every request is a child of the one that main cancels.

**Frames and Values.** A frame is the header and PDU fields the code looks at, with
their widths in bits; of write data only the number of bytes counts in `Frames`.
In `Values` bytes are numbers and a coil is a bit of one. The device may answer with
any of the constant `Paddings` after the last coil, with the response cut off after any
byte, or with any of the constant `Tails` after it: the proofs are for all of them, and
`MCWire` has padding of zeros, of ones and of a mixture, and up to three bytes too many.
A range may be of any length: the
limits of `ValidateRequest`, under which the code's 16-bit byte counts do not wrap,
are in `Frames`.

**Budget.** The unit of time is ten seconds. A request may queue for
the owner token until its budget ends, and a dial takes any time up to the attempt
timeout or the end of the context, whichever comes first; `queued` and `dialled` add
these times up. The connect delay may or may not be cut short by the
context. The proxy's own steps and the floor of one nanosecond in
`socketTimeoutFor` are no time.
Durations saturate at `MaxDuration` as `saturatingDurationSum` does.

**Errors.** An error is the record of what `errors.Is` and `errors.As` find in it. A
dial timeout is a cause of its own, because Go's `net` package makes it match
`context.DeadlineExceeded`.

**Proxy modes.** `readOnly` is a variable that Init chooses among `Modes` and nothing
changes, so that one run covers several modes.

**External** parts are the network, the device, the Modbus library, contexts and
the clock. They are modelled from how the code uses them.

## 3. What TLC checks

| Run | Instance | Distinct states | Checks |
|---|---|---|---|
| `MCCache` | 2 functions, 2 addresses, TTL 1, clock to 3; 3 callers, 2 keys | 340,884 | `ImplementsTTLMap`; `SingleFlight`, `NoOrphanFollower`, `OwnCancellationOnly`, `ResultOfOwnKey`, `NotHeldByLeader` |
| `MCProxyCoherence` | 2 readers, 1 writer, 1 register, stale fallback | 531,814 | `TypeOK`, `CacheCoherent`, `ReadsSeeWrites` |
| `MCProxyRanges` | 2 clients, 2 registers, 2 read functions, expiry, exceptions | 675,508 | `CacheCoherent`, `ReadsSeeWrites`, `UsesCoalescer` |
| `MCProxyModes` | 2 clients that read and write, all three modes, a device that changes | 375,261 | `ReadOnlyIsolates`, `EveryRequestAnswered` |
| `MCClient` | a read and a write, request delay 1 | 727,921 | `TokenConserved`, `WritesSentOnce`, `CleanConnection`, `OwnDeadline`, `HealthMatchesSession`, `HealthAfterCall`, `DiagnosticsConsistent`, `RequestsPaced`, `ImplementsUpstream` |
| `MCClientLive` | a read, a Connect and a Close | 59,987 | `CallsReturn` |
| `MCServer` | 3 connections | 75,816 | `NoConnSurvivesClose`, `NoRequestAfterWait`, `ServeReturns`, `CloseDrains` |
| `MCMain` | 2 connections | 27,963 | `NoRequestReopens`, `ImplementsServer`, `SignalEndsProcess` |
| `MCMainInFlight` | 1 connection | (violation) | `InFlightAnswerable` |
| `MCWire` | frames on both sides of every limit; 10 coils or registers, 2 fetches; 6,136 environments; every cause, 5 exception codes | 1,559,011 | `SliceInBounds`, `ForwardedFits`, `AnswersLikeTheDevice`; `CacheHoldsDevice`, `HitIsDeviceAnswer`; `UnwarnedRetryFits`, `BudgetCapsAttempts`; `DocumentedException`, `StaleHidesNoException` |
| `MCRequestDial` | the 6,136 environments | (violation) | `NoWarningMeansFullRetry` |
| `MCRequestRetry` | every cause, 5 exception codes | (violation) | `TransportRetryable` |

All of them hold, except those of the three runs marked as violations. The comment above each property says what it means.

- `CacheCoherent` is the README's claim that reads overlapping a write cannot
  leave pre-write values cached. Its limit: a write that timed out and is
  applied by the device *after* the second invalidation counts as a change by
  the device, which only the TTL bounds.
- `ReadsSeeWrites` extends it to what clients are told, from the cache, a
  fetch, another request's fetch or the stale fallback.
- `UsesCoalescer` says the composed system is a behaviour of `Coalesce`. Hence
  what holds of `Coalesce` alone holds inside the proxy.
- `ImplementsUpstream`: the device receives a read at most twice and anything
  else at most once, and an answer is returned only if it was received.
- `NoConnSurvivesClose` and `NoRequestAfterWait`: the accept loop may hold a
  connection while Close runs. It is closed all the same, and although Wait may
  miss its goroutine, that goroutine handles no request.
- `ImplementsServer` says the process uses the server as `Server` allows, so the
  properties of `Server` hold in the process. `NoRequestReopens` is why main
  cancels the requests' context before it closes the client.
- `UnwarnedRetryFits` gives the warning of New its meaning: without it the budget
  exceeds two attempts, two connect delays and the pacing, also for durations
  whose sum would overflow. A read and its retry are then not cut short as long
  as queueing and dialling take less than the difference. No more than that can
  be said: see `MCRequestDial` below.
- `EveryRequestAnswered` ends where HandleRequest returns. Whether the response
  reaches the client is up to the client, for the write has no deadline.
- `DocumentedException` follows each failure through every wrapper to the
  exception code, and compares it with the table in SPEC.md.
- `CacheHoldsDevice` and `HitIsDeviceAnswer`: taking responses apart and putting
  any cached range together again gives the bytes that the device would send.

### Where the code and its documents disagree

`MCMainInFlight` shows that `InFlightAnswerable` fails. SPEC.md:137 promises to
complete requests in flight before shutdown, with a timeout. main
(`main.go:91`) cancels their context first, and Shutdown closes their
connections before it waits, so a request in flight is not answered.

`MCRequestDial` shows that `NoWarningMeansFullRetry` fails. README.md:46 and SPEC.md:163
count the dial time among what a full retry needs; New (`proxy.go:38`) does not. A
dial takes up to an attempt timeout (`client.go:149`), so with the default 10 s
and 30 s, which draw no warning, slow dials use up the budget of a
read that did not even have to queue.

`MCRequestRetry` shows that `TransportRetryable` fails. SPEC.md:47 says that reads are
retried after transport failures. A dial that times out matches
`context.DeadlineExceeded`, is classified as the deadline of the request
(`errors.go:81`) and is not retried, although the request has time left.

Two more were met while modelling. No run is dedicated to them; the models have
the code's behaviour:

- `Wait` need not wait for all connections, as its comment (`server.go:136`) says:
  a connection is added to the wait group after the lock is released
  (`server.go:116`). `NoRequestAfterWait` is what remains true.
- The Connect of Run (`proxy.go:110`) has no context that shutdown cancels. It may
  open a session after `client.Close`, which is then open when the process
  ends (SPEC.md:138). `NoRequestReopens` speaks of requests only.

**Bounds.** `MaxTime` bounds the clock, `MaxWrites` the writes received, `MaxExpired`
the contexts that are over at once, `MaxChanges` the changes by the device,
`MaxQuantity` a range and `MaxFetches` the responses cached. One write already
gives three generations, and the races are between one write and the reads
around it. Three coalescing callers are a leader, a follower and a caller that
comes after the flight was unregistered; their only error is the context's,
since only that one is treated differently, and the proxy runs and the proofs
have the others. Two client calls are a holder of the token and a waiter, and
`MCClientLive` adds a Close. Three connections are one being served, one being
accepted and one in the queue when Close comes; a connection is used once.
`MCWire` has the code's own limits and, of each field, the values next to them.
It and the `MCRequest` runs have durations negative, zero, small, at the default and at the
largest. Symmetry is used only for interchangeable readers, never with
liveness. Deadlock is checked in the cache and proxy runs; in the
others the system stops when every call has returned, the process has ended,
or the one request followed is answered.

**Fairness.** Weak fairness on the steps of a goroutine: Go schedules what can
run. Weak fairness on the end of a request's context: `handleConn` gives it a
timeout, and `Load` refuses one that is not positive. In `Coalesce` the fetch
is *not* fair. In `Proxy` the steps of HandleRequest are fair, since Execute is
bounded by the context, and `Reply` is *not*: `writeResponse` has no deadline, and a
client that does not read may block it. In `Client` the library returns within the connection's
deadline. Taking the owner token is strongly fair, because Go serves the
goroutines waiting to receive from a channel in their order. In `Server` a
handler returns, because its budget is positive; a read or a write on a
connection ends only once the proxy has closed it, for nothing else bounds
them; clients owe nothing. In `Main` only main itself runs for certain, and
whoever holds the token gives it back, because a dial and an attempt have
timeouts.

## 4. What is proved

All proofs are checked by TLAPS for every value of the constants that satisfies
the named assumptions they cite. The assumptions say only that constants have
their types, that `None` is none of the other values, that a context's error is
among the errors, that requests are as `parsePDU` leaves them,
(`LimitAssumption`, `FramesAssumption`) that limits and field widths are the
code's, and (`DevicesAssumption`) that a coil is a bit and a register two bytes.

Every safety invariant, action property and refinement of section 3 that holds has
a theorem here.

**`CacheProofs`**, of the entries: `CacheIsTTLMap`, the refinement `ImplementsTTLMap`, with
`CacheTyped`. Each operation is shown to be the abstract step of the call it
records; the cleanup goroutine removes only what has expired already.

**`CacheProofs`**, of the coalescing: `CoTypeCorrect`, `SingleFlightHolds`,
`NoOrphanFollowerHolds`, `OwnCancellationOnlyHolds`, `ResultOfOwnKeyHolds`, from
one inductive invariant `CoInv` that conjoins the properties with what they
need of each other: a result on its way to a caller belongs to its key, because
a follower and its leader have the same key.

**`ProxyProofs`**: `TypeCorrect`, `CacheCoherentHolds`, `ReadsSeeWritesHolds`, from
`IInv`. `CacheCoherent` is not inductive: a store may bring in any value that is
in flight. `IInv` therefore follows a value from the device to the client:

- `Floors`: floors only rise with the generation, and the device is never below
  the current one;
- `Entries`: cached values lie between the current floor and the device;
- `Fetches`: a fetched value is at least the floor of the generation its handler
  read at the miss. The store compares that generation with the current one,
  so the value is then at least the current floor;
- `Stages` and `Flights`: the key holds the generation, and a follower has the key
  of its leader, so a shared value is as new as a fetched one;
- `Replies`: the generation at the miss is not older than at the arrival.

A new generation raises the floor in the written range only, and the same step
deletes that range from the cache: that is why `Entries` survives it.

**`ProxyCoalescing`**: the refinement `ProxyUsesCoalescer`, step by step: each action of
a handler is one of `Coalesce` or leaves its variables alone. The keys and outcomes
of `Coalesce` are bounded, so the proof needs an account of the writes, `Counts`: a
write that was received has two generations and one version of a register still to
use, one that has begun one of each, one that was executed one generation.
`Conduct` says that a fetch brings data of its key and that only a proxy that may
write is writing; from it also follows `ReadOnlyIsolatesHolds`, an action property.
`Accounted` is the theorem that both hold. `CoalescerKeepsItsPromises` restates for the
proxy's own handlers what `CacheProofs` shows of any callers: one fetch per range and
generation, no orphaned follower, no foreign cancellation, no foreign data.

**`ClientSteps`, `ClientProofs`**: `TokenConservedHolds`, `WritesSentOnceHolds`,
`CleanConnectionHolds`, `OwnDeadlineHolds`, `RequestsPacedHolds`,
`HealthMatchesSessionHolds`, `DiagnosticsConsistentHolds`, `HealthFollowsCalls` and the refinement
`ClientImplementsUpstream`, for any number of calls of any kind and any delay.
`ClientSteps` has the inductive invariants and the first half of the steps of `IInv`,
`ClientProofs` the rest and the theorems. None of the properties is inductive
alone; `IInv` adds:

- `Executing`: only Execute gets to the steps between connecting and finalError;
- `Bindings`: the connection is bound to the token holder's context from
  BeginRequest until finishRequest has joined the watchdog, so no watchdog
  outlives its request;
- `Deadlines`: while a request whose context is active is on its way to the wire
  or on it, the connection's deadline lies ahead;
- `Unanswered`: what is written and not answered is the holder's last attempt,
  and the holder discards the session before it gives back the token;
- `Reported`, `Counted`: the health fields follow the session and the attempts;
- `SentOnce`: whatever is not a read stays in its first attempt;
- `Paced`: a call that has its slot has waited for every earlier result;
- `Heard`: a call with an answer was received by the device, for the refinement.

`HealthFollowsCalls` needs one more invariant, `Settled`: a call that has failed has an
error, the second attempt has left the time of the first failure behind, and a call
about to give back the token has left its outcome in the health fields. Only the
holder of the token is in a place that `Settled` speaks of, so a step has to settle the
holder's account only (`HolderSettles`, `QuietSettles`).

**`MainProofs`**: `CloseReachesEveryConnection`, `WaitEndsRequests` from `ServerInv`,
which keeps count of who is in the map (`InMap`) and in the wait group (`Counted`)
and says that a handler that has left its loop has closed its connection;
`MainImplementsServer`, each step of the process being one of the server or
none, and with it `MainKeepsServerPromises`; and `NoRequestReopensSession` from
`MainInv`: a request that holds the token is being handled, the context is cancelled before the shutdown begins,
and no request gets the token after `client.Close`.

**`WireProofs`**, of `Frames`: `NoSliceOutOfBounds`, `WritesAnsweredAlike`,
`ValidRequestsFit`, for frames with any fields, not only the ones that `MCWire` tries.

**`WireProofs`**, of `Values`: `CacheHoldsDeviceAlways` and `HitsAnswerLikeDevice`, for any
number of addresses and any contents of the device. The two properties together are
inductive (`ValueInv`). What carries them are lemmas about the operators: the bits of
the byte put together from a set are that set (`BitOfByte`), coil `k` is bit `k % 8` of
byte `k \div 8` (`CoilPlace`), a full payload holds the value of each address in its place
(`FullHolds`), and whatever the device sends is taken apart into these values or into
none (`DecomposedPayloads`).

**`RequestProofs`**, of `Budget`: `AcceptedConfigUsable`, `WarningComplete`,
`AttemptsCapped`, for any durations. `UnwarnedRetryFits` speaks of the end of a read only.
`BudgetInv` accounts for the time on the way (`Accounted`): besides queueing and dialling,
at most a connect delay and the pacing have passed before the first attempt, and
an attempt timeout and a connect delay more before the second. `AcceptedConfigUsable` says that Load lets through positive
timeouts and a known mode only, and heeds both names of the attempt timeout.

**`RequestProofs`**, of `Errors`: `ErrorInvariant`, and from it `ExceptionsAsDocumented`,
`StaleHidesNoExceptionHolds` and `UnretriedAreDeadlines`, for any set of exception codes. The
last one bounds what `MCRequestRetry` shows: a transport failure that leaves Execute while
the request has time left, and is not classified as one, matches the deadline error.
`DocumentedException` speaks of the answer only. `ErrInv` says of an error while it
travels (`Blames`) that `DownstreamException` will find its origin in it: 0x0B for the
transport and the context, the device's own code for an exception, whatever has
wrapped it. The lemmas before it work out what `classifyError`, `requestError` and
`classifyRequestPathError` make of each cause.

**Model-checked only**: the liveness properties `NotHeldByLeader`, `EveryRequestAnswered`,
`CallsReturn`, `ServeReturns`, `CloseDrains` and `SignalEndsProcess`, because fairness and
`ENABLED` are out of the prover's reach.

## 5. What is not modelled

- Logging (`internal/logging`, and the log calls everywhere): no state.
- The HTTP server of the health endpoint, which is the library's, and the
  `-health` mode of main with `CheckHealth`: one HTTP request by another process.
  What the endpoint answers is in `Health`.
- `Close` of the cache, which only stops the cleanup goroutine when the process
  ends. Cleanup may stop in `CacheSpec` at any time, for it is not fair.
- The wire format inside the Modbus library, and TCP.
- The time that the proxy's own steps take, in `Budget`.
