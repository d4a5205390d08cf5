-------------------------------- MODULE Proxy --------------------------------
(***************************************************************************)
(* The request handlers of the proxy (internal/proxy/proxy.go): handleRead *)
(* over the cache and the coalescer, handleWrite with its two              *)
(* invalidations, handlePassthrough, and the part of the server's          *)
(* connection loop that brackets a request with its context.               *)
(*                                                                         *)
(* Each handler is a connection goroutine.  Everything done under          *)
(* cacheStateMu is one step.  The upstream is external: client.Execute is  *)
(* one step that meets the device and has any of the outcomes its callers  *)
(* tell apart.  A register's value is abstracted to a version, the number  *)
(* of times it has changed; all four read functions see the same register, *)
(* which is the aliasing invalidateCache defends against.                  *)
(***************************************************************************)
EXTENDS Cache, Modbus, FiniteSets

CONSTANTS
    Handlers,       \* connection goroutines
    Requests,       \* handler -> the requests its client may send
    Modes,          \* the values of cfg.ReadOnly that are tried
    Errors,         \* what Execute may fail with: "exception" of the device,
                    \* "transport" or local, "ctx" for a context's error
    None,
    MaxWrites,      \* bound: write requests received
    MaxExpired,     \* bound: requests at the same time whose context is over
    MaxChanges      \* bound: version a register reaches without the proxy

ASSUME ProxyAssumption ==
    /\ None \notin Handlers
    /\ Modes \subseteq {"false", "true", "deny"}
    /\ "ctx" \in Errors /\ Errors \subseteq {"exception", "transport", "ctx"}
    /\ ReadFunctions \subseteq FunctionCodes
    /\ MaxWrites \in Nat /\ MaxChanges \in Nat
    /\ \A p \in Handlers : \A r \in Requests[p] :
            /\ DOMAIN r = {"slave", "fc", "addr", "qty", "wellFormed"}
            /\ r.slave \in SlaveIDs /\ r.fc \in Nat
            /\ r.addr \in Addrs /\ r.qty \in Nat
            /\ r.wellFormed \in BOOLEAN
            /\ Parsed(r)
    /\ MaxExpired \in Nat

VARIABLES
    readOnly,           \* cfg.ReadOnly, which nothing changes
    pc,                 \* where each handler is
    req,                \* its request
    writeGeneration,    \* p.writeGeneration
    gen,                \* the local variable generation of handleRead
    got,                \* what client.Execute returned, before it is used
    resp,               \* what HandleRequest returned
    inflight, cpc, key, leader, res, coalesced, ctx,    \* module Coalesce
    device,             \* external: the version of each register
    writes,             \* write requests received so far
    floorAt,            \* history: generation -> what reads of it must see
    arrived             \* history: the generation when the request arrived

coalesceVars == <<inflight, cpc, key, leader, res, coalesced, ctx>>
handlerVars  == <<pc, req, gen, got, resp>>
deviceVars   == <<device, writes>>
historyVars  == <<floorAt, arrived>>

vars == <<readOnly, cacheVars, handlerVars, writeGeneration, coalesceVars, deviceVars, historyVars>>

Registers == SlaveIDs \X Addrs

(***************************************************************************)
(* Coalescing keys carry the generation and the range, and a fetch returns *)
(* the versions of the range's registers or of a prefix of them.           *)
(***************************************************************************)
Versions == 0 .. MaxChanges + MaxWrites

Prefixes(a, q) == {RangeAddrs(a, n) : n \in 0 .. q}

FetchOf(k) == UNION {[P -> Versions] : P \in Prefixes(k.addr, k.qty)}

CoalescingKeys ==
    {[gen |-> g, slave |-> r.slave, fc |-> r.fc, addr |-> r.addr, qty |-> r.qty] :
        g \in 0 .. 2 * MaxWrites, r \in {x \in UNION {Requests[p] : p \in Handlers} : IsReadFunction(x.fc)}}

Co == INSTANCE Coalesce WITH
        Callers <- Handlers, Keys <- CoalescingKeys, Fetch <- FetchOf,
        Payload <- UNION {FetchOf(k) : k \in CoalescingKeys}

Init ==
    /\ readOnly \in Modes
    /\ CacheInit
    /\ pc = [p \in Handlers |-> "idle"]
    /\ req = [p \in Handlers |-> None]
    /\ writeGeneration = 0
    /\ gen = [p \in Handlers |-> 0]
    /\ got = [p \in Handlers |-> None]
    /\ resp = [p \in Handlers |-> None]
    /\ Co!CoInit
    /\ device = [x \in Registers |-> 0]
    /\ writes = 0
    /\ floorAt = [g \in {0} |-> [x \in Registers |-> 0]]
    /\ arrived = [p \in Handlers |-> 0]

-----------------------------------------------------------------------------
(* The connection loop around HandleRequest, and the request context. *)

\* readRequest returned r; context.WithTimeout.
Receive(p, r) ==
    /\ pc[p] = "idle"
    /\ IsWriteFunction(r.fc) => writes < MaxWrites
    /\ writes' = IF IsWriteFunction(r.fc) THEN writes + 1 ELSE writes
    /\ pc' = [pc EXCEPT ![p] = "handle"]
    /\ req' = [req EXCEPT ![p] = r]
    /\ arrived' = [arrived EXCEPT ![p] = writeGeneration]
    /\ Co!NewContext(p)
    /\ UNCHANGED <<readOnly, cacheVars, writeGeneration, gen, got, resp, device, floorAt>>

\* The request times out, or the server's context is cancelled.
ContextEnds(p) ==
    /\ pc[p] \notin {"idle", "respond"}
    /\ Cardinality({q \in Handlers : pc[q] # "idle" /\ ctx[q] = "done"}) < MaxExpired
    /\ Co!ContextEnds(p)
    /\ UNCHANGED <<readOnly, cacheVars, writeGeneration, handlerVars, deviceVars, historyVars>>

\* requestContextActive, and the negation of contextError.  Both also look
\* at the clock: past tells whether the deadline has passed although its
\* timer has not fired.
RequestContextActive(p, past) == ctx[p] = "active" /\ ~past

\* An exception the proxy itself answers with, which is not an error.
Rejected == Co!Fail("rejected")

\* HandleRequest returns r.  A response that comes too late is replaced by
\* the context's error.
Returns(p, r) ==
    /\ pc' = [pc EXCEPT ![p] = "respond"]
    /\ \E past \in BOOLEAN :
          resp' = [resp EXCEPT ![p] =
                      IF r.err \in {"none", "rejected"} /\ ~RequestContextActive(p, past)
                      THEN Co!Fail("ctx") ELSE r]

\* cancel() and writeResponse; the loop waits for the next request.
Reply(p) ==
    /\ pc[p] = "respond"
    /\ pc' = [pc EXCEPT ![p] = "idle"]
    /\ req' = [req EXCEPT ![p] = None]
    /\ gen' = [gen EXCEPT ![p] = 0]
    /\ resp' = [resp EXCEPT ![p] = None]
    /\ arrived' = [arrived EXCEPT ![p] = 0]
    /\ ctx' = [ctx EXCEPT ![p] = "done"]
    /\ UNCHANGED <<cacheVars, writeGeneration, got, inflight, cpc, key, leader, res, coalesced,
                   deviceVars, floorAt>>

-----------------------------------------------------------------------------
(* HandleRequest: validation and dispatch. *)

RejectInvalid(p) ==
    /\ pc[p] = "handle"
    /\ ~ValidateRequest(req[p])
    /\ Returns(p, Rejected)
    /\ UNCHANGED <<cacheVars, writeGeneration, req, gen, got, coalesceVars,
                   deviceVars, historyVars>>

Handling(p, functions) ==
    /\ pc[p] = "handle"
    /\ ValidateRequest(req[p])
    /\ req[p].fc \in functions

-----------------------------------------------------------------------------
(* handleRead. *)

CacheHit(r)      == GetRange(r.slave, r.fc, r.addr, r.qty)
CacheHitStale(r) == GetRangeStale(r.slave, r.fc, r.addr, r.qty)
Cached(r)        == Co!Ok(RangeValues(r.slave, r.fc, r.addr, r.qty))

ReadHit(p) ==
    /\ Handling(p, ReadFunctions)
    /\ CacheHit(req[p])
    /\ Returns(p, Cached(req[p]))
    /\ UNCHANGED <<cacheVars, writeGeneration, req, gen, got, coalesceVars,
                   deviceVars, historyVars>>

\* Defect: the coalescing key leaves the quantity out.
RangeKeyNoQuantity(g, r) ==
    [gen |-> g, slave |-> r.slave, fc |-> r.fc, addr |-> r.addr, qty |-> 1]

\* Defect: the coalescing key is the range alone.
RangeKeyNoGeneration(g, r) ==
    [gen |-> 0, slave |-> r.slave, fc |-> r.fc, addr |-> r.addr, qty |-> r.qty]

RangeKey(g, r) ==
    [gen |-> g, slave |-> r.slave, fc |-> r.fc, addr |-> r.addr, qty |-> r.qty]

\* The miss and the generation are read under one lock; then the coalescer.
ReadMiss(p) ==
    /\ Handling(p, ReadFunctions)
    /\ ~CacheHit(req[p])
    /\ gen' = [gen EXCEPT ![p] = writeGeneration]
    /\ pc' = [pc EXCEPT ![p] = "coalesce"]
    /\ Co!Call(p, RangeKey(writeGeneration, req[p]))
    /\ UNCHANGED <<cacheVars, writeGeneration, req, got, resp, deviceVars, historyVars>>

\* The steps of CoalesceWithStatus itself.
CoalesceStep(p) ==
    /\ pc[p] = "coalesce"
    /\ Co!CoStep(p)
    /\ UNCHANGED <<cacheVars, writeGeneration, handlerVars, deviceVars, historyVars>>

\* What the device holds for a set of addresses of a slave.
DeviceValues(s, A) == [x \in A |-> device[<<s, x>>]]

\* Defect: Execute does not return once its context is over.
ExecuteReadHangs(p) ==
    /\ pc[p] = "coalesce"
    /\ cpc[p] = "fetch"
    /\ ctx[p] = "active"
    /\ got' = [got EXCEPT ![p] = Co!Fail("ctx")]
    /\ pc' = [pc EXCEPT ![p] = "fetched"]
    /\ UNCHANGED <<cacheVars, writeGeneration, req, gen, resp, coalesceVars,
                   deviceVars, historyVars>>

\* The fetch calls client.Execute.
ExecuteRead(p) ==
    /\ pc[p] = "coalesce"
    /\ cpc[p] = "fetch"
    /\ \E o \in {Co!Ok(DeviceValues(req[p].slave, P)) : P \in Prefixes(req[p].addr, req[p].qty)}
                \cup {Co!Fail(e) : e \in Errors} :
          got' = [got EXCEPT ![p] = o]
    /\ pc' = [pc EXCEPT ![p] = "fetched"]
    /\ UNCHANGED <<cacheVars, writeGeneration, req, gen, resp, coalesceVars,
                   deviceVars, historyVars>>

\* decomposeResponse: nil unless the response holds the whole range.
Decomposes(r, o) == o.err = "none" /\ DOMAIN o.data = RangeAddrs(r.addr, r.qty)

\* Defect: the generation is not compared.
FetchedUnchecked(p) ==
    /\ pc[p] = "fetched"
    /\ IF Decomposes(req[p], got[p])
       THEN SetRange(req[p].slave, req[p].fc, got[p].data)
       ELSE UNCHANGED cacheVars
    /\ Co!FetchReturn(p, got[p])
    /\ got' = [got EXCEPT ![p] = None]
    /\ pc' = [pc EXCEPT ![p] = "coalesce"]
    /\ UNCHANGED <<writeGeneration, req, gen, resp, deviceVars, historyVars>>

\* The rest of the fetch: a complete response of the current generation is
\* stored, and the fetch returns to the coalescer.
Fetched(p) ==
    /\ pc[p] = "fetched"
    /\ IF Decomposes(req[p], got[p]) /\ writeGeneration = gen[p]
       THEN SetRange(req[p].slave, req[p].fc, got[p].data)
       ELSE UNCHANGED cacheVars
    /\ Co!FetchReturn(p, got[p])
    /\ got' = [got EXCEPT ![p] = None]
    /\ pc' = [pc EXCEPT ![p] = "coalesce"]
    /\ UNCHANGED <<writeGeneration, req, gen, resp, deviceVars, historyVars>>

\* CoalesceWithStatus has returned res[p].
Coalesced(p) == pc[p] = "coalesce" /\ cpc[p] = "return"

StaleFallback(p, past) ==
    /\ KeepStale
    /\ res[p].err # "exception"
    /\ RequestContextActive(p, past)
    /\ CacheHitStale(req[p])

ReadReturns(p) ==
    /\ Coalesced(p)
    /\ \/ /\ res[p].err = "none"
          /\ Returns(p, res[p])
       \/ /\ res[p].err # "none"
          /\ \E past \in BOOLEAN : StaleFallback(p, past)
          /\ Returns(p, Cached(req[p]))
       \/ /\ res[p].err # "none"
          /\ \E past \in BOOLEAN : ~StaleFallback(p, past)
          /\ Returns(p, Co!Fail(res[p].err))
    /\ Co!Return(p)
    /\ UNCHANGED <<cacheVars, writeGeneration, req, gen, got, deviceVars, historyVars>>

-----------------------------------------------------------------------------
(* handleWrite. *)

\* readonly mode: "true" pretends success, "deny" answers illegal function.
WriteReadOnly(p) ==
    /\ Handling(p, WriteFunctions)
    /\ readOnly # "false"
    /\ Returns(p, IF readOnly = "true" THEN Co!Ok(None) ELSE Rejected)
    /\ UNCHANGED <<cacheVars, writeGeneration, req, gen, got, coalesceVars,
                   deviceVars, historyVars>>

WrittenRegisters(r) == {r.slave} \X RangeAddrs(r.addr, r.qty)

\* Defect: only the read function that matches the write is invalidated.
InvalidateOneFunction(r) ==
    DeleteRange(r.slave, FuncReadHoldingRegisters, r.addr, r.qty)

\* DeleteRange for every read function.
InvalidateCache(r) ==
    /\ entries' = Without(UNION {RangeKeys(r.slave, f, r.addr, r.qty) : f \in ReadFunctions})
    /\ UNCHANGED now

\* History: reads of the generation that begins here must see at least what
\* the device now holds in the written range.
RaiseFloor(r) ==
    floorAt' = [g \in 0 .. writeGeneration + 1 |->
                   IF g <= writeGeneration THEN floorAt[g]
                   ELSE [x \in Registers |-> IF x \in WrittenRegisters(r) THEN device[x]
                                             ELSE floorAt[writeGeneration][x]]]

\* Defect: the generation is not incremented.
NextGenerationForgotten(r) ==
    /\ InvalidateCache(r)
    /\ RaiseFloor(r)
    /\ UNCHANGED writeGeneration

NextGeneration(r) ==
    /\ writeGeneration' = writeGeneration + 1
    /\ InvalidateCache(r)
    /\ RaiseFloor(r)

\* Defect: only "deny" stops a write, "true" falls through.
WriteBeginUnlessDenied(p) ==
    /\ Handling(p, WriteFunctions)
    /\ readOnly # "deny"
    /\ NextGeneration(req[p])
    /\ pc' = [pc EXCEPT ![p] = "write"]
    /\ UNCHANGED <<req, gen, got, resp, coalesceVars, deviceVars, arrived>>

WriteBegin(p) ==
    /\ Handling(p, WriteFunctions)
    /\ readOnly = "false"
    /\ NextGeneration(req[p])
    /\ pc' = [pc EXCEPT ![p] = "write"]
    /\ UNCHANGED <<req, gen, got, resp, coalesceVars, deviceVars, arrived>>

\* client.Execute.  A write may have reached the device although it failed.
ExecuteWrite(p) ==
    /\ pc[p] = "write"
    /\ \E applied \in BOOLEAN, e \in Errors \cup {"none"} :
          /\ e = "none" => applied
          /\ device' = [x \in Registers |->
                           IF applied /\ x \in WrittenRegisters(req[p])
                           THEN device[x] + 1 ELSE device[x]]
          /\ got' = [got EXCEPT ![p] = IF e = "none" THEN Co!Ok(None) ELSE Co!Fail(e)]
    /\ pc' = [pc EXCEPT ![p] = "written"]
    /\ UNCHANGED <<cacheVars, writeGeneration, req, gen, resp, coalesceVars,
                   writes, historyVars>>

\* The deferred function, whatever the outcome, and the return.
WriteEnd(p) ==
    /\ pc[p] = "written"
    /\ NextGeneration(req[p])
    /\ Returns(p, got[p])
    /\ got' = [got EXCEPT ![p] = None]
    /\ UNCHANGED <<req, gen, coalesceVars, deviceVars, arrived>>

-----------------------------------------------------------------------------
\* handlePassthrough: no cache, no read-only check.  What an opaque request
\* does to the device is a DeviceChange.
Passthrough(p) ==
    /\ Handling(p, Nat \ (ReadFunctions \cup WriteFunctions))
    /\ \E o \in {Co!Ok(None)} \cup {Co!Fail(e) : e \in Errors} : Returns(p, o)
    /\ UNCHANGED <<cacheVars, writeGeneration, req, gen, got, coalesceVars,
                   deviceVars, historyVars>>

\* External: a register changes without the proxy, or a write that timed out
\* reaches the device after all.
DeviceChange(x) ==
    /\ device[x] < MaxChanges
    /\ device' = [device EXCEPT ![x] = @ + 1]
    /\ UNCHANGED <<readOnly, cacheVars, writeGeneration, handlerVars, coalesceVars, writes,
                   historyVars>>

\* The cleanup goroutine and the clock.
Background ==
    /\ CleanupOnce \/ Tick
    /\ UNCHANGED <<readOnly, writeGeneration, handlerVars, coalesceVars, deviceVars, historyVars>>

-----------------------------------------------------------------------------
\* What a handler goroutine does once it has a request.
Step(p) ==
    /\ UNCHANGED readOnly
    /\ \/ RejectInvalid(p)
       \/ ReadHit(p) \/ ReadMiss(p) \/ CoalesceStep(p)
       \/ ExecuteRead(p) \/ Fetched(p) \/ ReadReturns(p)
       \/ WriteReadOnly(p) \/ WriteBegin(p) \/ ExecuteWrite(p) \/ WriteEnd(p)
       \/ Passthrough(p)
       \/ Reply(p)

Next ==
    \/ \E p \in Handlers : \/ \E r \in Requests[p] : Receive(p, r)
                           \/ ContextEnds(p)
                           \/ Step(p)
    \/ \E x \in Registers : DeviceChange(x)
    \/ Background

Spec == Init /\ [][Next]_vars

(***************************************************************************)
(* Fairness: a handler that can take a step of HandleRequest takes one,    *)
(* because goroutines are scheduled and Execute returns (its context       *)
(* bounds it), and the context of a request ends: handleConn gives it a    *)
(* timeout, and Load refuses a RequestTimeout that is not positive.  Reply *)
(* is not fair: writeResponse has no deadline, and a client that does not  *)
(* read blocks it until the server is closed (module Server).              *)
(***************************************************************************)
FairSpec ==
    /\ Spec
    /\ \A p \in Handlers : /\ WF_vars(pc[p] # "respond" /\ Step(p))
                           /\ WF_vars(ContextEnds(p))

-----------------------------------------------------------------------------
(* Properties. *)

CacheTypes ==
    /\ DOMAIN entries \subseteq SlaveIDs \X ReadFunctions \X Addrs
    /\ \A k \in DOMAIN entries : entries[k].data \in Nat /\ entries[k].ts \in Nat
    /\ now \in Nat

HandlerTypes ==
    /\ pc \in [Handlers -> {"idle", "handle", "coalesce", "fetched", "write",
                            "written", "respond"}]
    /\ DOMAIN req = Handlers /\ DOMAIN got = Handlers /\ DOMAIN resp = Handlers
    /\ \A p \in Handlers : pc[p] # "idle" => req[p] \in Requests[p]
    /\ gen \in [Handlers -> 0 .. writeGeneration]
    /\ arrived \in [Handlers -> 0 .. writeGeneration]
    /\ writes \in Nat

DeviceTypes ==
    /\ writeGeneration \in Nat
    /\ device \in [Registers -> Nat]
    /\ floorAt \in [0 .. writeGeneration -> [Registers -> Nat]]

TypeOK == CacheTypes /\ HandlerTypes /\ DeviceTypes

\* "Neither older reads nor reads that execute in the write scheduling window
\* can leave pre-write values cached": no cached value, fresh or expired, is
\* older than what the device held in that register when a write to it was
\* last bracketed by an invalidation (before it was sent, after it returned).
CacheCoherent ==
    \A k \in DOMAIN entries :
        entries[k].data >= floorAt[writeGeneration][<<k[1], k[3]>>]

\* A read sees the writes that completed before it arrived: whether answered
\* from the cache, by its own fetch, by another request's fetch it was
\* coalesced with, or with stale data after a failure, every register is at
\* least as new as the last invalidation before the arrival, and no newer
\* than the device.
ReadsSeeWrites ==
    \A p \in Handlers :
        (pc[p] = "respond" /\ IsReadFunction(req[p].fc) /\ resp[p].err = "none") =>
            \A x \in DOMAIN resp[p].data :
                resp[p].data[x] \in floorAt[arrived[p]][<<req[p].slave, x>>]
                                     .. device[<<req[p].slave, x>>]

\* The handlers use the coalescer as module Coalesce says it is used: one
\* call at a time each, a fetch that returns data of the key it was started
\* for, one return for each call.
UsesCoalescer == Co!CoSpec

\* In the read-only modes no standard write reaches the device or disturbs
\* the cache: registers change by themselves only, and an entry goes away
\* only because it has expired.
ReadOnlyIsolates ==
    [][readOnly # "false" =>
         /\ device' # device => \E x \in Registers : DeviceChange(x)
         /\ \A k \in DOMAIN entries \ DOMAIN entries' : IsExpired(entries[k])]_vars

\* HandleRequest returns for every request that was read from a connection, with
\* a response or an error that handleConn can answer, even when the handlers of
\* other connections are stuck writing to clients that do not read.
EveryRequestAnswered ==
    \A p \in Handlers : pc[p] = "handle" ~> pc[p] = "respond"
=============================================================================
