---------------------------- MODULE ProxyProofs ----------------------------
(***************************************************************************)
(* Proofs that the cache of the proxy stays coherent with the writes that  *)
(* pass through it, for any number of handlers, slaves, registers and      *)
(* requests.                                                               *)
(***************************************************************************)
EXTENDS Proxy, TLAPS

\* The coalescer's variables, as far as the proof looks at them: who can be
\* found in the in-flight map, and whom a follower waits on.
Flights ==
    /\ cpc \in [Handlers -> {"idle", "enter", "fetch", "publish", "close",
                             "wait", "woken", "return"}]
    /\ DOMAIN key = Handlers /\ DOMAIN leader = Handlers /\ DOMAIN res = Handlers
    /\ DOMAIN coalesced = Handlers /\ DOMAIN ctx = Handlers
    /\ \A k \in DOMAIN inflight : /\ inflight[k] \in Handlers
                                  /\ cpc[inflight[k]] \in {"fetch", "publish"}
                                  /\ key[inflight[k]] = k
    /\ \A p \in Handlers : cpc[p] = "wait" =>
          /\ leader[p] \in Handlers
          /\ cpc[leader[p]] \in {"fetch", "publish", "close"}
          /\ key[leader[p]] = key[p]

\* A handler is in the coalescer exactly while it serves a read that missed,
\* with the key of its request and of the generation it read at the miss.
Stages ==
    \A p \in Handlers :
        /\ cpc[p] # "idle" <=> pc[p] \in {"coalesce", "fetched"}
        /\ pc[p] = "fetched" => cpc[p] = "fetch"
        /\ cpc[p] # "idle" => /\ key[p] = RangeKey(gen[p], req[p])
                              /\ arrived[p] <= gen[p]
                              /\ IsReadFunction(req[p].fc)
        /\ pc[p] \in {"write", "written"} => IsWriteFunction(req[p].fc)

\* What a generation's reads must see never decreases, and the device never
\* falls behind it.
Floors ==
    /\ \A g, h \in 0 .. writeGeneration : g <= h =>
          \A x \in Registers : floorAt[g][x] <= floorAt[h][x]
    /\ \A x \in Registers : floorAt[writeGeneration][x] <= device[x]

\* Every cached value lies between the current floor and the device.
Entries ==
    \A k \in DOMAIN entries :
        /\ floorAt[writeGeneration][<<k[1], k[3]>>] <= entries[k].data
        /\ entries[k].data <= device[<<k[1], k[3]>>]

\* The versions d of registers of slave s lie between a floor and a device.
Between(fl, dv, s, d) ==
    \A x \in DOMAIN d : /\ x \in Addrs
                        /\ d[x] \in Nat
                        /\ fl[<<s, x>>] <= d[x]
                        /\ d[x] <= dv[<<s, x>>]

HoldsResult == {"publish", "close", "woken", "return"}

\* Every fetched value on its way to a client, in the hands of the handler
\* that fetched it or of one that shares it, is at least as new as the
\* generation its handler read at the miss.
Fetches ==
    \A p \in Handlers :
        /\ (pc[p] = "fetched" /\ got[p].err = "none") =>
              Between(floorAt[gen[p]], device, req[p].slave, got[p].data)
        /\ (cpc[p] \in HoldsResult /\ res[p].err = "none") =>
              Between(floorAt[gen[p]], device, req[p].slave, res[p].data)

\* Every answer to a read is at least as new as the generation at its arrival.
Replies ==
    \A p \in Handlers :
        (pc[p] = "respond" /\ IsReadFunction(req[p].fc) /\ resp[p].err = "none") =>
            Between(floorAt[arrived[p]], device, req[p].slave, resp[p].data)

IInv ==
    /\ TypeOK
    /\ Flights
    /\ Stages
    /\ Floors
    /\ Entries
    /\ Fetches
    /\ Replies

-----------------------------------------------------------------------------
(* Facts about ranges, requests and versions. *)

\* uint16 arithmetic stays inside the address space.
LEMMA RangeInAddrs ==
    ASSUME NEW a \in Addrs, NEW q \in Nat
    PROVE  RangeAddrs(a, q) \subseteq Addrs
BY AddressAssumption DEF RangeAddrs, Addrs

\* Neither does a response that holds only the first registers of a range
\* leave it.
LEMMA PrefixInAddrs ==
    ASSUME NEW a \in Addrs, NEW q \in Nat, NEW P \in Prefixes(a, q)
    PROVE  P \subseteq Addrs
BY RangeInAddrs DEF Prefixes

\* What parsePDU produces.
LEMMA RequestFields ==
    ASSUME NEW p \in Handlers, NEW r \in Requests[p]
    PROVE  r.slave \in SlaveIDs /\ r.addr \in Addrs /\ r.qty \in Nat /\ r.fc \in Nat
BY Zenon, ProxyAssumption

\* A device that has moved on, or a lower floor, leaves Between as it is.
LEMMA BetweenWidens ==
    ASSUME NEW fl \in [Registers -> Nat], NEW fl2 \in [Registers -> Nat],
           NEW dv \in [Registers -> Nat], NEW dv2 \in [Registers -> Nat],
           \A x \in Registers : fl2[x] <= fl[x] /\ dv[x] <= dv2[x],
           NEW s \in SlaveIDs, NEW d, Between(fl, dv, s, d)
    PROVE  Between(fl2, dv2, s, d)
<1> SUFFICES ASSUME NEW x \in DOMAIN d
             PROVE  /\ x \in Addrs /\ d[x] \in Nat
                    /\ fl2[<<s, x>>] <= d[x] /\ d[x] <= dv2[<<s, x>>]
  BY Zenon DEF Between
<1>1. <<s, x>> \in Registers
  BY Zenon DEF Between, Registers
<1> QED  BY <1>1 DEF Between

\* The floor of the current generation is one.
LEMMA CurrentFloor ==
    ASSUME DeviceTypes
    PROVE  floorAt[writeGeneration] \in [Registers -> Nat] /\ device \in [Registers -> Nat]
<1>1. writeGeneration \in 0 .. writeGeneration
  BY DEF DeviceTypes
<1> QED  BY Zenon, <1>1 DEF DeviceTypes

\* The generations so far are generations after the next increment.
LEMMA GenerationGrows ==
    ASSUME DeviceTypes, writeGeneration' = writeGeneration + 1
    PROVE  0 .. writeGeneration \subseteq 0 .. writeGeneration'
BY DEF DeviceTypes

\* What the device holds lies between any floor below it and itself.
LEMMA DeviceBetween ==
    ASSUME NEW fl \in [Registers -> Nat], device \in [Registers -> Nat],
           \A x \in Registers : fl[x] <= device[x],
           NEW s \in SlaveIDs, NEW A \in SUBSET Addrs
    PROVE  Between(fl, device, s, DeviceValues(s, A))
<1>1. \A x \in A : <<s, x>> \in Registers
  BY Zenon DEF Registers
<1> QED  BY <1>1 DEF Between, DeviceValues

\* The cached values of a range lie between the current floor and the device.
LEMMA CachedBetween ==
    ASSUME CacheTypes, DeviceTypes, Entries,
           NEW s \in SlaveIDs, NEW f, NEW a \in Addrs, NEW q \in Nat,
           \A k \in RangeKeys(s, f, a, q) : k \in DOMAIN entries
    PROVE  Between(floorAt[writeGeneration], device, s, RangeValues(s, f, a, q))
<1> SUFFICES ASSUME NEW x \in RangeAddrs(a, q)
             PROVE  /\ x \in Addrs /\ entries[RegKey(s, f, x)].data \in Nat
                    /\ floorAt[writeGeneration][<<s, x>>] <= entries[RegKey(s, f, x)].data
                    /\ entries[RegKey(s, f, x)].data <= device[<<s, x>>]
  BY Zenon DEF Between, RangeValues
<1>1. x \in Addrs
  BY Zenon, RangeInAddrs
<1>2. RegKey(s, f, x) \in DOMAIN entries
  BY Zenon DEF RangeKeys
<1> QED  BY Zenon, <1>1, <1>2 DEF CacheTypes, Entries, RegKey

-----------------------------------------------------------------------------
(* The coalescer. *)

\* Every step of the coalescer keeps the map and the followers in order,
\* whatever the key and the outcome of a fetch.
LEMMA FlightsKept ==
    ASSUME Flights, NEW p \in Handlers, NEW k, NEW r,
           \/ Co!Call(p, k) \/ Co!CoStep(p) \/ Co!FetchReturn(p, r) \/ Co!Return(p)
    PROVE  Flights'
<1>1. CASE Co!Call(p, k)
  BY Zenon, <1>1 DEF Flights, Co!Call
<1>2. CASE Co!EnterCanceled(p)
  BY Zenon, <1>2 DEF Flights, Co!EnterCanceled
<1>3. CASE Co!Lead(p)
  BY Zenon, <1>3 DEF Flights, Co!Lead
<1>4. CASE Co!Follow(p)
  BY <1>4 DEF Flights, Co!Follow
<1>5. CASE Co!FetchReturn(p, r)
  BY Zenon, <1>5 DEF Flights, Co!FetchReturn
<1>6. CASE Co!Unregister(p)
  BY <1>6 DEF Flights, Co!Unregister, Co!Restrict
<1>7. CASE Co!CloseDone(p)
  BY Zenon, <1>7 DEF Flights, Co!CloseDone, Co!Followers
<1>8. CASE Co!FollowerCanceled(p)
  BY Zenon, <1>8 DEF Flights, Co!FollowerCanceled
<1>9. CASE Co!Share(p)
  BY Zenon, <1>9 DEF Flights, Co!Share
<1>10. CASE Co!Retry(p)
  BY ZenonT(30), <1>10 DEF Flights, Co!Retry
<1>11. CASE Co!Return(p)
  BY Zenon, <1>11 DEF Flights, Co!Return
<1> QED  BY Zenon, <1>1, <1>2, <1>3, <1>4, <1>5, <1>6, <1>7, <1>8, <1>9, <1>10, <1>11 DEF Co!CoStep

-----------------------------------------------------------------------------
(* Steps that leave the cache, the generation and the device alone. *)

\* The parts of the invariant, for leaves that need only some of them.
LEMMA Parts ==
    ASSUME IInv
    PROVE  /\ CacheTypes /\ HandlerTypes /\ DeviceTypes
           /\ Flights /\ Stages /\ Floors /\ Entries /\ Fetches /\ Replies
BY Zenon DEF IInv, TypeOK

\* What holds of the data holds when neither the cache, the generation, the
\* device nor the floors change.
LEMMA DataKept ==
    ASSUME CacheTypes, DeviceTypes, Floors, Entries,
           UNCHANGED <<entries, now, writeGeneration, device, floorAt>>
    PROVE  (CacheTypes /\ DeviceTypes /\ Floors /\ Entries)'
BY Zenon DEF CacheTypes, DeviceTypes, Floors, Entries

\* A request arrives.
LEMMA ReceiveStep ==
    ASSUME IInv, NEW p \in Handlers, NEW r \in Requests[p], Receive(p, r)
    PROVE  IInv'
<1> USE DEF IInv, TypeOK, Receive, Co!NewContext, cacheVars
<1>1. (CacheTypes /\ DeviceTypes /\ Floors /\ Entries)'
  BY Zenon, DataKept
<1>2. HandlerTypes'
  BY DEF HandlerTypes, DeviceTypes
<1>3. Flights'
  BY Zenon DEF Flights
<1>4. Stages'
  BY DEF HandlerTypes, DeviceTypes, Flights, Stages
<1>5. Fetches'
  BY DEF HandlerTypes, Flights, Stages, Fetches, HoldsResult
<1>6. Replies'
  BY Zenon DEF HandlerTypes, Replies
<1> QED  BY Zenon, <1>1, <1>2, <1>3, <1>4, <1>5, <1>6

\* A context ends.
LEMMA ContextEndsStep ==
    ASSUME IInv, NEW p \in Handlers, ContextEnds(p)
    PROVE  IInv'
<1> USE DEF IInv, TypeOK, ContextEnds, Co!ContextEnds, cacheVars, coalesceVars, handlerVars, deviceVars, historyVars
<1>1. (CacheTypes /\ DeviceTypes /\ Floors /\ Entries)'
  BY Zenon, DataKept
<1>2. HandlerTypes'
  BY Zenon DEF HandlerTypes, DeviceTypes
<1>3. Flights'
  BY Zenon DEF Flights
<1>4. Stages'
  BY Zenon DEF HandlerTypes, DeviceTypes, Flights, Stages
<1>5. Fetches'
  BY Zenon DEF HandlerTypes, Flights, Stages, Fetches, HoldsResult
<1>6. Replies'
  BY Zenon DEF HandlerTypes, Replies
<1> QED  BY Zenon, <1>1, <1>2, <1>3, <1>4, <1>5, <1>6

\* The reply is written.
LEMMA ReplyStep ==
    ASSUME IInv, NEW p \in Handlers, Reply(p)
    PROVE  IInv'
<1> USE DEF IInv, TypeOK, Reply, cacheVars, deviceVars
<1>1. (CacheTypes /\ DeviceTypes /\ Floors /\ Entries)'
  BY Zenon, DataKept
<1>2. HandlerTypes'
  BY DEF HandlerTypes, DeviceTypes
<1>3. Flights'
  BY Zenon DEF Flights
<1>4. Stages'
  BY DEF HandlerTypes, DeviceTypes, Flights, Stages
<1>5. Fetches'
  <2>1. \A q \in Handlers : pc'[q] = "fetched" => pc[q] = "fetched" /\ q # p
    BY Zenon DEF HandlerTypes
  <2>2. \A q \in Handlers : cpc[q] \in HoldsResult => q # p
    BY Zenon DEF Stages, HoldsResult
  <2>3. \A q \in Handlers : q # p => gen'[q] = gen[q] /\ req'[q] = req[q]
    BY Zenon DEF HandlerTypes
  <2> QED  BY Zenon, <2>1, <2>2, <2>3 DEF Fetches
<1>6. Replies'
  BY Zenon DEF HandlerTypes, Replies
<1> QED  BY Zenon, <1>1, <1>2, <1>3, <1>4, <1>5, <1>6

\* What the steps of the coalescer have in common: no caller enters, leaves or
\* changes its key, nobody else leaves the fetch, and a result moves only
\* from a caller to callers with the same key.
LEMMA ResultsFollowKeys ==
    ASSUME Flights, NEW p \in Handlers, Co!CoStep(p)
    PROVE  /\ key' = key
           /\ \A q \in Handlers : /\ cpc'[q] = "idle" <=> cpc[q] = "idle"
                                  /\ q # p /\ cpc[q] = "fetch" => cpc'[q] = "fetch"
           /\ \A q \in Handlers : (cpc'[q] \in HoldsResult /\ res'[q].err = "none") =>
                 \E o \in Handlers : /\ cpc[o] \in HoldsResult /\ key[o] = key[q]
                                     /\ res[o] = res'[q]
<1> USE DEF Flights, HoldsResult
<1>1. CASE Co!EnterCanceled(p)
  BY Zenon, <1>1 DEF Co!EnterCanceled, Co!Fail
<1>2. CASE Co!Lead(p)
  BY Zenon, <1>2 DEF Co!Lead
<1>3. CASE Co!Follow(p)
  BY Zenon, <1>3 DEF Co!Follow
<1>4. CASE Co!Unregister(p)
  BY Zenon, <1>4 DEF Co!Unregister
<1>5. CASE Co!CloseDone(p)
  BY ZenonT(30), <1>5 DEF Co!CloseDone, Co!Followers
<1>6. CASE Co!FollowerCanceled(p)
  BY Zenon, <1>6 DEF Co!FollowerCanceled, Co!Fail
<1>7. CASE Co!Share(p)
  BY Zenon, <1>7 DEF Co!Share
<1>8. CASE Co!Retry(p)
  BY Zenon, <1>8 DEF Co!Retry
<1> QED  BY Zenon, <1>1, <1>2, <1>3, <1>4, <1>5, <1>6, <1>7, <1>8 DEF Co!CoStep

\* A step of CoalesceWithStatus: a follower shares data of its own generation,
\* because the generation is part of the key.
LEMMA CoalesceStepStep ==
    ASSUME IInv, NEW p \in Handlers, CoalesceStep(p)
    PROVE  IInv'
<1> USE DEF IInv, TypeOK, CoalesceStep, cacheVars, handlerVars, deviceVars, historyVars
<1>1. (CacheTypes /\ DeviceTypes /\ Floors /\ Entries)'
  BY Zenon, DataKept
<1>2. HandlerTypes' /\ Replies'
  BY Zenon DEF HandlerTypes, Replies
<1>3. Flights'
  BY Zenon, FlightsKept
<1>4. Stages'
  BY ZenonT(30), ResultsFollowKeys DEF Stages
<1>5. Fetches'
  <2>1. \A q \in Handlers : cpc[q] # "idle" => gen[q] = key[q].gen /\ req[q].slave = key[q].slave
    <3> TAKE q \in Handlers
    <3>1. RangeKey(gen[q], req[q]).gen = gen[q] /\ RangeKey(gen[q], req[q]).slave = req[q].slave
      BY Zenon DEF RangeKey
    <3> QED  BY Zenon, <3>1 DEF Stages
  <2>2. \A q \in Handlers : cpc'[q] \in HoldsResult => cpc[q] # "idle"
    BY Zenon, ResultsFollowKeys DEF HoldsResult
  <2> SUFFICES ASSUME NEW q \in Handlers, cpc'[q] \in HoldsResult, res'[q].err = "none"
               PROVE  Between(floorAt[gen[q]], device, req[q].slave, res'[q].data)
    BY Zenon DEF Fetches
  <2>3. PICK o \in Handlers : /\ cpc[o] \in HoldsResult /\ key[o] = key[q]
                              /\ res[o] = res'[q]
    BY Zenon, ResultsFollowKeys
  <2>4. cpc[o] # "idle" /\ cpc[q] # "idle"
    BY Zenon, <2>2, <2>3 DEF HoldsResult
  <2>5. gen[o] = gen[q] /\ req[o].slave = req[q].slave
    BY Zenon, <2>1, <2>3, <2>4
  <2>6. Between(floorAt[gen[o]], device, req[o].slave, res[o].data)
    BY Zenon, <2>3 DEF Fetches
  <2> QED  BY Zenon, <2>3, <2>5, <2>6
<1> QED  BY Zenon, <1>1, <1>2, <1>3, <1>4, <1>5

\* HandleRequest returns r or an error, and disturbs no other handler.
LEMMA ReturnsOwn ==
    ASSUME HandlerTypes, NEW p \in Handlers, NEW r, Returns(p, r)
    PROVE  /\ pc' = [pc EXCEPT ![p] = "respond"]
           /\ DOMAIN resp' = Handlers
           /\ \A q \in Handlers : q # p => resp'[q] = resp[q]
           /\ resp'[p].err = "none" => resp'[p] = r
<1>1. Co!Fail("ctx").err # "none"
  BY Zenon DEF Co!Fail
<1>2. resp'[p] = r \/ resp'[p] = Co!Fail("ctx")
  BY Zenon DEF Returns, HandlerTypes
<1>3. DOMAIN resp' = Handlers /\ \A q \in Handlers : q # p => resp'[q] = resp[q]
  BY Zenon DEF Returns, HandlerTypes
<1> QED  BY Zenon, <1>1, <1>2, <1>3 DEF Returns

\* A handler that has not entered the coalescer returns: it is enough that
\* the data of a read is as new as it has to be.
LEMMA HandlerReturns ==
    ASSUME IInv, NEW p \in Handlers, NEW r, pc[p] = "handle", Returns(p, r),
           UNCHANGED <<cacheVars, writeGeneration, req, gen, got, coalesceVars,
                       deviceVars, historyVars>>,
           (IsReadFunction(req[p].fc) /\ r.err = "none") =>
               Between(floorAt[arrived[p]], device, req[p].slave, r.data)
    PROVE  IInv'
<1> USE DEF IInv, TypeOK, cacheVars, coalesceVars, deviceVars, historyVars
<1>1. (CacheTypes /\ DeviceTypes /\ Floors /\ Entries)'
  BY Zenon, DataKept
<1>0. /\ pc' = [pc EXCEPT ![p] = "respond"]
      /\ DOMAIN resp' = Handlers
      /\ \A q \in Handlers : q # p => resp'[q] = resp[q]
      /\ resp'[p].err = "none" => resp'[p] = r
  BY Zenon, ReturnsOwn
<1>2. HandlerTypes'
  BY Zenon, <1>0 DEF HandlerTypes
<1>3. Flights'
  BY Zenon DEF Flights
<1>4. Stages'
  BY Zenon, <1>0 DEF HandlerTypes, Stages
<1>5. Fetches'
  BY Zenon, <1>0 DEF HandlerTypes, Fetches
<1>6. Replies'
  BY Zenon, <1>0 DEF HandlerTypes, Replies
<1> QED  BY Zenon, <1>1, <1>2, <1>3, <1>4, <1>5, <1>6

\* An invalid request is answered with an exception.
LEMMA RejectInvalidStep ==
    ASSUME IInv, NEW p \in Handlers, RejectInvalid(p)
    PROVE  IInv'
<1>1. Rejected.err # "none"
  BY Zenon DEF Rejected, Co!Fail
<1> QED  BY Zenon, <1>1, HandlerReturns DEF RejectInvalid

\* The read and write functions are different codes.
LEMMA ReadsAreNotWrites == ReadFunctions \cap WriteFunctions = {}
BY DEF ReadFunctions, WriteFunctions, SingleWrites, MultipleWrites, FuncReadCoils,
       FuncReadDiscreteInputs, FuncReadHoldingRegisters, FuncReadInputRegisters,
       FuncWriteSingleCoil, FuncWriteSingleRegister, FuncWriteMultipleCoils,
       FuncWriteMultipleRegs

\* A write in a read-only mode carries no register data.
LEMMA WriteReadOnlyStep ==
    ASSUME IInv, NEW p \in Handlers, WriteReadOnly(p)
    PROVE  IInv'
<1>1. ~IsReadFunction(req[p].fc)
  BY Zenon, ReadsAreNotWrites DEF WriteReadOnly, Handling, IsReadFunction
<1> QED  BY Zenon, <1>1, HandlerReturns DEF WriteReadOnly, Handling

\* Neither does an opaque request.
LEMMA PassthroughStep ==
    ASSUME IInv, NEW p \in Handlers, Passthrough(p)
    PROVE  IInv'
<1>1. ~IsReadFunction(req[p].fc)
  BY Zenon DEF Passthrough, Handling, IsReadFunction
<1> QED  BY Zenon, <1>1, HandlerReturns DEF Passthrough, Handling

\* Floors of earlier generations are below the current one.
LEMMA FloorBelowCurrent ==
    ASSUME IInv, NEW g \in 0 .. writeGeneration, NEW s \in SlaveIDs, NEW d,
           Between(floorAt[writeGeneration], device, s, d)
    PROVE  Between(floorAt[g], device, s, d)
<1> USE DEF IInv, TypeOK
<1>1. /\ floorAt[g] \in [Registers -> Nat] /\ floorAt[writeGeneration] \in [Registers -> Nat]
      /\ device \in [Registers -> Nat]
  BY DEF DeviceTypes
<1>2. \A x \in Registers : floorAt[g][x] <= floorAt[writeGeneration][x] /\ device[x] <= device[x]
  BY <1>1 DEF Floors, DeviceTypes
<1> QED  BY Zenon, <1>1, <1>2, BetweenWidens

\* A hit: the cache is coherent with the current generation, and the request
\* arrived in this one or before.
LEMMA ReadHitStep ==
    ASSUME IInv, NEW p \in Handlers, ReadHit(p)
    PROVE  IInv'
<1> USE DEF IInv, TypeOK
<1>1. req[p].slave \in SlaveIDs /\ req[p].addr \in Addrs /\ req[p].qty \in Nat
  BY Zenon, RequestFields DEF ReadHit, Handling, HandlerTypes
<1>2. Between(floorAt[writeGeneration], device, req[p].slave, Cached(req[p]).data)
  BY Zenon, <1>1, CachedBetween DEF ReadHit, CacheHit, GetRange, Get, Cached, Co!Ok
<1>3. Between(floorAt[arrived[p]], device, req[p].slave, Cached(req[p]).data)
  BY Zenon, <1>1, <1>2, FloorBelowCurrent DEF HandlerTypes
<1> QED  BY Zenon, <1>3, HandlerReturns DEF ReadHit, Handling

\* A miss: the key is made of the generation the handler will compare.
LEMMA ReadMissStep ==
    ASSUME IInv, NEW p \in Handlers, ReadMiss(p)
    PROVE  IInv'
<1>1. /\ pc[p] = "handle" /\ req[p].fc \in ReadFunctions
      /\ gen' = [gen EXCEPT ![p] = writeGeneration]
      /\ pc' = [pc EXCEPT ![p] = "coalesce"]
      /\ Co!Call(p, RangeKey(writeGeneration, req[p]))
      /\ UNCHANGED <<entries, now, writeGeneration, req, got, resp, device, writes, floorAt, arrived>>
  BY Zenon DEF ReadMiss, Handling, cacheVars, deviceVars, historyVars
<1>2. /\ cpc'[p] = "enter" /\ key'[p] = RangeKey(writeGeneration, req[p]) /\ res' = res
      /\ \A q \in Handlers : q # p => cpc'[q] = cpc[q] /\ key'[q] = key[q]
  BY Zenon, <1>1, Parts DEF Co!Call, Flights
<1>3. /\ gen'[p] = writeGeneration /\ pc'[p] = "coalesce"
      /\ \A q \in Handlers : q # p => gen'[q] = gen[q] /\ pc'[q] = pc[q]
  BY Zenon, <1>1, Parts DEF HandlerTypes
<1>4. (CacheTypes /\ DeviceTypes /\ Floors /\ Entries)'
  BY Zenon, <1>1, Parts, DataKept
<1>5. writeGeneration \in 0 .. writeGeneration /\ arrived[p] <= writeGeneration
  BY Parts DEF HandlerTypes, DeviceTypes
<1>6. HandlerTypes'
  BY Zenon, <1>1, <1>5, Parts DEF HandlerTypes
<1>7. Flights'
  BY Zenon, <1>1, Parts, FlightsKept
<1>8. Stages'
  <2> SUFFICES ASSUME NEW q \in Handlers
               PROVE  /\ cpc'[q] # "idle" <=> pc'[q] \in {"coalesce", "fetched"}
                      /\ pc'[q] = "fetched" => cpc'[q] = "fetch"
                      /\ cpc'[q] # "idle" => /\ key'[q] = RangeKey(gen'[q], req'[q])
                                             /\ arrived'[q] <= gen'[q]
                                             /\ IsReadFunction(req'[q].fc)
                      /\ pc'[q] \in {"write", "written"} => IsWriteFunction(req'[q].fc)
    BY Zenon DEF Stages
  <2>1. CASE q = p
    BY Zenon, <1>1, <1>2, <1>3, <1>5, <2>1 DEF IsReadFunction
  <2>2. CASE q # p
    BY ZenonT(30), <1>1, <1>2, <1>3, <2>2, Parts DEF Stages
  <2> QED  BY Zenon, <2>1, <2>2
<1>9. Fetches'
  BY ZenonT(30), <1>1, <1>2, <1>3, Parts DEF Fetches, HoldsResult
<1>10. Replies'
  BY Zenon, <1>1, <1>3, Parts DEF Replies
<1> QED  BY Zenon, <1>4, <1>6, <1>7, <1>8, <1>9, <1>10 DEF IInv, TypeOK

\* The fetch reads the device, which is never below a floor.
LEMMA ExecuteReadStep ==
    ASSUME IInv, NEW p \in Handlers, ExecuteRead(p)
    PROVE  IInv'
<1> USE DEF IInv, TypeOK, ExecuteRead, cacheVars, coalesceVars, deviceVars, historyVars
<1>1. (CacheTypes /\ DeviceTypes /\ Floors /\ Entries)'
  BY Zenon, DataKept
<1>2. HandlerTypes'
  BY Zenon DEF HandlerTypes
<1>3. Flights'
  BY Zenon DEF Flights
<1>4. Stages'
  BY Zenon DEF HandlerTypes, Stages
<1>5. Fetches'
  <2>1. req[p].slave \in SlaveIDs /\ req[p].addr \in Addrs /\ req[p].qty \in Nat
    BY Zenon, RequestFields DEF HandlerTypes
  <2>2. got'[p].err = "none" =>
           \E P \in Prefixes(req[p].addr, req[p].qty) :
              got'[p].data = DeviceValues(req[p].slave, P)
    <3>1. \A e \in Errors : Co!Fail(e).err # "none"
      BY Zenon, ProxyAssumption DEF Co!Fail
    <3>2. \A P : Co!Ok(DeviceValues(req[p].slave, P)).data = DeviceValues(req[p].slave, P)
      BY Zenon DEF Co!Ok
    <3>3. PICK o \in {Co!Ok(DeviceValues(req[p].slave, P)) : P \in Prefixes(req[p].addr, req[p].qty)}
                      \cup {Co!Fail(e) : e \in Errors} : got'[p] = o
      BY Zenon DEF HandlerTypes
    <3>4. CASE \E e \in Errors : o = Co!Fail(e)
      BY Zenon, <3>1, <3>3, <3>4
    <3>5. CASE \E P \in Prefixes(req[p].addr, req[p].qty) : o = Co!Ok(DeviceValues(req[p].slave, P))
      BY Zenon, <3>2, <3>3, <3>5
    <3> QED  BY Zenon, <3>3, <3>4, <3>5
  <2>3. \A P \in Prefixes(req[p].addr, req[p].qty) :
           Between(floorAt[writeGeneration], device, req[p].slave, DeviceValues(req[p].slave, P))
    <3> TAKE P \in Prefixes(req[p].addr, req[p].qty)
    <3>1. P \in SUBSET Addrs
      BY Zenon, <2>1, PrefixInAddrs
    <3>2. floorAt[writeGeneration] \in [Registers -> Nat] /\ device \in [Registers -> Nat]
      BY Zenon, Parts, CurrentFloor
    <3> QED  BY Zenon, <2>1, <3>1, <3>2, DeviceBetween DEF Floors
  <2>4. got'[p].err = "none" => Between(floorAt[gen[p]], device, req[p].slave, got'[p].data)
    BY Zenon, <2>1, <2>2, <2>3, FloorBelowCurrent DEF HandlerTypes
  <2> QED  BY Zenon, <2>4 DEF HandlerTypes, Fetches
<1>6. Replies'
  BY Zenon DEF HandlerTypes, Replies
<1> QED  BY Zenon, <1>1, <1>2, <1>3, <1>4, <1>5, <1>6

\* A result the coalescer is about to return is as new as the arrival of its
\* request: the generation at the miss is not older.
LEMMA ResultBetween ==
    ASSUME IInv, NEW p \in Handlers, pc[p] = "coalesce", cpc[p] = "return", res[p].err = "none"
    PROVE  Between(floorAt[arrived[p]], device, req[p].slave, res[p].data)
<1>1. req[p].slave \in SlaveIDs
  BY Zenon, Parts, RequestFields DEF HandlerTypes
<1>2. Between(floorAt[gen[p]], device, req[p].slave, res[p].data)
  BY Zenon, Parts DEF Fetches, HoldsResult
<1>3. gen[p] \in 0 .. writeGeneration /\ arrived[p] \in 0 .. writeGeneration /\ arrived[p] <= gen[p]
  BY Zenon, Parts DEF HandlerTypes, Stages
<1>4. /\ floorAt[gen[p]] \in [Registers -> Nat] /\ floorAt[arrived[p]] \in [Registers -> Nat]
      /\ device \in [Registers -> Nat]
  BY Zenon, <1>3, Parts DEF DeviceTypes
<1>5. \A x \in Registers : floorAt[arrived[p]][x] <= floorAt[gen[p]][x]
  BY Zenon, <1>3, Parts DEF Floors
<1>6. \A x \in Registers : device[x] <= device[x]
  BY <1>4
<1>7. \A x \in Registers : floorAt[arrived[p]][x] <= floorAt[gen[p]][x] /\ device[x] <= device[x]
  BY Zenon, <1>5, <1>6
<1> QED  BY ZenonT(30), <1>1, <1>2, <1>4, <1>7, BetweenWidens

\* The stale values of a range are as new as the arrival of the request.
LEMMA StaleBetween ==
    ASSUME IInv, NEW p \in Handlers, pc[p] = "coalesce", CacheHitStale(req[p])
    PROVE  Between(floorAt[arrived[p]], device, req[p].slave, Cached(req[p]).data)
<1> USE DEF IInv, TypeOK
<1>1. req[p].slave \in SlaveIDs /\ req[p].addr \in Addrs /\ req[p].qty \in Nat
  BY Zenon, RequestFields DEF HandlerTypes
<1>2. Between(floorAt[writeGeneration], device, req[p].slave, Cached(req[p]).data)
  BY Zenon, <1>1, CachedBetween DEF CacheHitStale, GetRangeStale, GetStale, Cached, Co!Ok
<1> QED  BY Zenon, <1>1, <1>2, FloorBelowCurrent DEF HandlerTypes

\* A read returns what the coalescer gave it, or stale values of the cache;
\* both are at least as new as the generation at the request's arrival.
LEMMA ReadReturnsStep ==
    ASSUME IInv, NEW p \in Handlers, ReadReturns(p)
    PROVE  IInv'
<1> USE DEF IInv, TypeOK
<1>1. /\ pc[p] = "coalesce" /\ cpc[p] = "return" /\ Co!Return(p)
      /\ UNCHANGED <<entries, now, writeGeneration, req, gen, got, device, writes, floorAt, arrived>>
  BY Zenon DEF ReadReturns, Coalesced, cacheVars, deviceVars, historyVars
<1>2. PICK r : /\ Returns(p, r)
               /\ r.err = "none" => Between(floorAt[arrived[p]], device, req[p].slave, r.data)
  <2>1. CASE res[p].err = "none" /\ Returns(p, res[p])
    BY Zenon, <1>1, <2>1, ResultBetween
  <2>2. CASE CacheHitStale(req[p]) /\ Returns(p, Cached(req[p]))
    BY Zenon, <1>1, <2>2, StaleBetween
  <2>3. CASE res[p].err # "none" /\ Returns(p, Co!Fail(res[p].err))
    <3>1. Co!Fail(res[p].err).err = res[p].err
      BY Zenon DEF Co!Fail
    <3> QED  BY Zenon, <2>3, <3>1
  <2> QED  BY Zenon, <2>1, <2>2, <2>3 DEF ReadReturns, StaleFallback
<1>3. /\ pc' = [pc EXCEPT ![p] = "respond"]
      /\ DOMAIN resp' = Handlers
      /\ \A q \in Handlers : q # p => resp'[q] = resp[q]
      /\ resp'[p].err = "none" => resp'[p] = r
  BY Zenon, <1>2, ReturnsOwn
<1>4. /\ cpc'[p] = "idle"
      /\ \A q \in Handlers : q # p => cpc'[q] = cpc[q] /\ key'[q] = key[q] /\ res'[q] = res[q]
  BY Zenon, <1>1 DEF Co!Return, Flights
<1>5. pc'[p] = "respond" /\ \A q \in Handlers : q # p => pc'[q] = pc[q]
  BY Zenon, <1>3 DEF HandlerTypes
<1>6. (CacheTypes /\ DeviceTypes /\ Floors /\ Entries)'
  BY Zenon, <1>1, DataKept
<1>7. HandlerTypes'
  BY Zenon, <1>1, <1>3 DEF HandlerTypes
<1>8. Flights'
  BY Zenon, <1>1, FlightsKept
<1>9. Stages'
  BY Zenon, <1>1, <1>4, <1>5 DEF Stages
<1>10. Fetches'
  BY Zenon, <1>1, <1>4, <1>5 DEF Fetches, HoldsResult
<1>11. Replies'
  BY ZenonT(30), <1>1, <1>2, <1>3, <1>5 DEF Replies
<1> QED  BY Zenon, <1>6, <1>7, <1>8, <1>9, <1>10, <1>11

-----------------------------------------------------------------------------
(* Steps that fill, invalidate or expire the cache, and the device. *)

\* SetRange stores values that lie between the floor and the device.
LEMMA StoreKept ==
    ASSUME CacheTypes, Entries, NEW s \in SlaveIDs, NEW f \in ReadFunctions, NEW d,
           Between(floorAt[writeGeneration], device, s, d), SetRange(s, f, d),
           UNCHANGED <<writeGeneration, floorAt, device>>
    PROVE  CacheTypes' /\ Entries'
<1> DEFINE K == {RegKey(s, f, x) : x \in DOMAIN d}
<1>1. /\ DOMAIN entries' = DOMAIN entries \cup K
      /\ \A k \in DOMAIN entries \ K : entries'[k] = entries[k]
      /\ \A k \in K : entries'[k] = [data |-> d[k[3]], ts |-> now]
      /\ now' = now
  BY Zenon DEF SetRange, Stored
<1>2. \A k \in K : /\ k \in SlaveIDs \X ReadFunctions \X Addrs
                   /\ k[1] = s /\ k[3] \in DOMAIN d
  <2> TAKE k \in K
  <2>1. PICK x \in DOMAIN d : k = <<s, f, x>>
    BY Zenon DEF RegKey
  <2>2. x \in Addrs
    BY Zenon DEF Between
  <2> QED  BY Zenon, <2>1, <2>2
<1> HIDE DEF K
<1>3. \A k \in K : entries'[k].data = d[k[3]] /\ entries'[k].ts = now
  <2> TAKE k \in K
  <2>1. entries'[k] = [data |-> d[k[3]], ts |-> now]
    BY Zenon, <1>1
  <2> QED  BY <2>1, SMTT(30)
<1>4. \A k \in K : /\ d[k[3]] \in Nat
                   /\ floorAt[writeGeneration][<<k[1], k[3]>>] <= d[k[3]]
                   /\ d[k[3]] <= device[<<k[1], k[3]>>]
  BY Zenon, <1>2 DEF Between
<1>5. CacheTypes'
  BY Zenon, <1>1, <1>2, <1>3, <1>4 DEF CacheTypes
<1>6. Entries'
  BY Zenon, <1>1, <1>3, <1>4 DEF Entries
<1> QED  BY Zenon, <1>5, <1>6

\* A fetch of the current generation is stored: it is as new as the current
\* floor.  A fetch of an older generation is not stored.
LEMMA FetchedStep ==
    ASSUME IInv, NEW p \in Handlers, Fetched(p)
    PROVE  IInv'
<1> USE DEF IInv, TypeOK, Fetched, deviceVars, historyVars
<1>1. HandlerTypes' /\ DeviceTypes' /\ Floors'
  BY Zenon DEF HandlerTypes, DeviceTypes, Floors
<1>2. Flights'
  BY Zenon, FlightsKept
<1>3. Stages'
  BY DEF Co!FetchReturn, HandlerTypes, Flights, Stages
<1>4. Fetches'
  <2>1. res'[p].err = "none" => res'[p] = got[p] /\ got[p].err = "none"
    BY DEF Co!FetchReturn, Flights
  <2> QED  BY <2>1 DEF Co!FetchReturn, HandlerTypes, Flights, Stages, Fetches, HoldsResult
<1>5. Replies'
  BY Zenon DEF HandlerTypes, Replies
<1>6. CASE UNCHANGED cacheVars
  <2>1. CacheTypes' /\ Entries'
    BY Zenon, <1>6 DEF cacheVars, CacheTypes, Entries
  <2> QED  BY Zenon, <1>1, <1>2, <1>3, <1>4, <1>5, <2>1
<1>7. CASE /\ Decomposes(req[p], got[p]) /\ writeGeneration = gen[p]
           /\ SetRange(req[p].slave, req[p].fc, got[p].data)
  <2>1. Between(floorAt[writeGeneration], device, req[p].slave, got[p].data)
    BY Zenon, <1>7 DEF Decomposes, Fetches
  <2>2. req[p].slave \in SlaveIDs /\ req[p].fc \in ReadFunctions
    BY Zenon, RequestFields DEF HandlerTypes, Stages, IsReadFunction
  <2>3. CacheTypes' /\ Entries'
    BY Zenon, <1>7, <2>1, <2>2, StoreKept
  <2> QED  BY Zenon, <1>1, <1>2, <1>3, <1>4, <1>5, <2>3
<1> QED  BY Zenon, <1>6, <1>7

\* What a new generation does to the data: the floor of the written registers
\* is raised to the device and their entries are gone.
LEMMA NextGenerationKept ==
    ASSUME CacheTypes, DeviceTypes, Floors, Entries,
           NEW p \in Handlers, NEW r \in Requests[p], NextGeneration(r), device' = device
    PROVE  /\ (CacheTypes /\ DeviceTypes /\ Floors /\ Entries)'
           /\ writeGeneration' = writeGeneration + 1
           /\ \A g \in 0 .. writeGeneration : floorAt'[g] = floorAt[g]
<1> USE DEF NextGeneration
<1> DEFINE W == WrittenRegisters(r)
           new == [x \in Registers |-> IF x \in W THEN device[x] ELSE floorAt[writeGeneration][x]]
<1>0. /\ writeGeneration \in Nat /\ writeGeneration \in 0 .. writeGeneration
      /\ writeGeneration + 1 \in 0 .. writeGeneration + 1 /\ ~(writeGeneration + 1 <= writeGeneration)
      /\ \A g \in 0 .. writeGeneration : g \in 0 .. writeGeneration + 1 /\ g <= writeGeneration
      /\ \A g \in 0 .. writeGeneration + 1 : g \in 0 .. writeGeneration \/ g = writeGeneration + 1
  BY DEF DeviceTypes
<1>1. /\ \A g \in 0 .. writeGeneration : floorAt'[g] = floorAt[g]
      /\ floorAt'[writeGeneration + 1] = new
      /\ DOMAIN floorAt' = 0 .. writeGeneration + 1
  BY Zenon, <1>0 DEF RaiseFloor
<1>2. new \in [Registers -> Nat]
  BY DEF DeviceTypes
<1>3. DeviceTypes'
  <2>1. \A g \in 0 .. writeGeneration + 1 : floorAt'[g] \in [Registers -> Nat]
    <3> TAKE g \in 0 .. writeGeneration + 1
    <3>1. CASE g = writeGeneration + 1
      BY Zenon, <1>1, <1>2, <3>1
    <3>2. CASE g \in 0 .. writeGeneration
      BY Zenon, <1>1, <3>2 DEF DeviceTypes
    <3> QED  BY Zenon, <1>0, <3>1, <3>2
  <2>2. floorAt' = [g \in 0 .. writeGeneration + 1 |-> floorAt'[g]]
    BY Zenon DEF RaiseFloor
  <2> QED  BY <2>1, <2>2 DEF DeviceTypes
<1>4. \A x \in Registers : floorAt[writeGeneration][x] <= new[x] /\ new[x] <= device[x]
  BY DEF Floors, DeviceTypes
<1> HIDE DEF new
<1>5. Floors'
  <2>1. \A g \in 0 .. writeGeneration + 1 : \A x \in Registers : floorAt'[g][x] <= new[x]
    <3> TAKE g \in 0 .. writeGeneration + 1
    <3> TAKE x \in Registers
    <3>1. CASE g = writeGeneration + 1
      BY <1>1, <1>2, <3>1
    <3>2. CASE g \in 0 .. writeGeneration
      <4>1. floorAt[g][x] <= floorAt[writeGeneration][x]
        BY Zenon, <1>0, <3>2 DEF Floors
      <4>2. floorAt[g][x] \in Nat /\ floorAt[writeGeneration][x] \in Nat /\ new[x] \in Nat
        BY <1>2, <3>2 DEF DeviceTypes
      <4>3. floorAt[writeGeneration][x] <= new[x] /\ floorAt'[g][x] = floorAt[g][x]
        BY Zenon, <1>1, <1>4, <3>2
      <4> QED  BY <4>1, <4>2, <4>3
    <3> QED  BY Zenon, <1>0, <3>1, <3>2
  <2>2. \A g, h \in 0 .. writeGeneration + 1 : g <= h =>
           \A x \in Registers : floorAt'[g][x] <= floorAt'[h][x]
    <3> SUFFICES ASSUME NEW g \in 0 .. writeGeneration + 1, NEW h \in 0 .. writeGeneration + 1,
                        g <= h, NEW x \in Registers
                 PROVE  floorAt'[g][x] <= floorAt'[h][x]
      OBVIOUS
    <3>1. CASE h = writeGeneration + 1
      BY Zenon, <1>1, <2>1, <3>1
    <3>2. CASE h \in 0 .. writeGeneration
      BY <1>1, <3>2 DEF Floors, DeviceTypes
    <3> QED  BY Zenon, <1>0, <3>1, <3>2
  <2> QED  BY Zenon, <1>1, <1>4, <2>2 DEF Floors
<1>6. /\ DOMAIN entries' \subseteq DOMAIN entries
      /\ \A k \in DOMAIN entries' : entries'[k] = entries[k] /\ <<k[1], k[3]>> \notin W
  <2>1. \A k \in DOMAIN entries :
           <<k[1], k[3]>> \in W =>
               k \in UNION {RangeKeys(r.slave, f, r.addr, r.qty) : f \in ReadFunctions}
    <3> SUFFICES ASSUME NEW k \in DOMAIN entries, <<k[1], k[3]>> \in W
                 PROVE  \E f \in ReadFunctions : k \in RangeKeys(r.slave, f, r.addr, r.qty)
      OBVIOUS
    <3>1. /\ k[1] = r.slave /\ k[3] \in RangeAddrs(r.addr, r.qty)
          /\ k[2] \in ReadFunctions /\ k = <<k[1], k[2], k[3]>>
      BY DEF WrittenRegisters, CacheTypes
    <3> QED  BY Zenon, <3>1 DEF RangeKeys, RegKey
  <2> QED  BY Zenon, <2>1 DEF InvalidateCache, Without, Restrict
<1>7. CacheTypes' /\ Entries'
  <2>1. CacheTypes'
    BY Zenon, <1>6 DEF InvalidateCache, CacheTypes
  <2>2. \A k \in DOMAIN entries' : <<k[1], k[3]>> \in Registers
    BY Zenon, <1>6 DEF CacheTypes, Registers
  <2>3. \A k \in DOMAIN entries' : new[<<k[1], k[3]>>] = floorAt[writeGeneration][<<k[1], k[3]>>]
    BY Zenon, <1>6, <2>2 DEF new
  <2> QED  BY Zenon, <1>1, <1>6, <2>1, <2>2, <2>3 DEF Entries
<1> QED  BY Zenon, <1>1, <1>3, <1>5, <1>7

\* Handlers in flight keep their floors when a generation begins.
LEMMA WriteBeginStep ==
    ASSUME IInv, NEW p \in Handlers, WriteBegin(p)
    PROVE  IInv'
<1> USE DEF IInv, TypeOK, WriteBegin, Handling, coalesceVars, deviceVars
<1>0. req[p] \in Requests[p]
  BY Zenon DEF HandlerTypes
<1>1. /\ (CacheTypes /\ DeviceTypes /\ Floors /\ Entries)'
      /\ writeGeneration' = writeGeneration + 1
      /\ \A g \in 0 .. writeGeneration : floorAt'[g] = floorAt[g]
  BY Zenon, <1>0, NextGenerationKept
<1>2. HandlerTypes'
  <2>1. 0 .. writeGeneration \subseteq 0 .. writeGeneration'
    BY Zenon, <1>1, Parts, GenerationGrows
  <2> QED  BY Zenon, <2>1 DEF HandlerTypes
<1>3. Flights'
  BY Zenon DEF Flights
<1>4. Stages'
  BY Zenon DEF HandlerTypes, Stages, IsWriteFunction
<1>5. Fetches'
  BY Zenon, <1>1 DEF HandlerTypes, Fetches
<1>6. Replies'
  BY Zenon, <1>1 DEF HandlerTypes, Replies
<1> QED  BY Zenon, <1>1, <1>2, <1>3, <1>4, <1>5, <1>6

\* The deferred function of handleWrite begins one more generation, and a
\* write carries no register data back.
LEMMA WriteEndStep ==
    ASSUME IInv, NEW p \in Handlers, WriteEnd(p)
    PROVE  IInv'
<1> USE DEF IInv, TypeOK, WriteEnd, coalesceVars, deviceVars
<1>0. req[p] \in Requests[p] /\ ~IsReadFunction(req[p].fc)
  BY Zenon, ReadsAreNotWrites DEF HandlerTypes, Stages, IsReadFunction, IsWriteFunction
<1>1. /\ (CacheTypes /\ DeviceTypes /\ Floors /\ Entries)'
      /\ writeGeneration' = writeGeneration + 1
      /\ \A g \in 0 .. writeGeneration : floorAt'[g] = floorAt[g]
  BY Zenon, <1>0, NextGenerationKept
<1>2. /\ pc' = [pc EXCEPT ![p] = "respond"]
      /\ DOMAIN resp' = Handlers
      /\ \A q \in Handlers : q # p => resp'[q] = resp[q]
  BY Zenon, ReturnsOwn
<1>3. HandlerTypes'
  <2>1. 0 .. writeGeneration \subseteq 0 .. writeGeneration'
    BY Zenon, <1>1, Parts, GenerationGrows
  <2> QED  BY Zenon, <1>2, <2>1 DEF HandlerTypes
<1>4. Flights'
  BY Zenon DEF Flights
<1>5. Stages'
  BY Zenon, <1>2 DEF HandlerTypes, Stages
<1>6. Fetches'
  BY Zenon, <1>1, <1>2 DEF HandlerTypes, Fetches
<1>7. Replies'
  BY Zenon, <1>0, <1>1, <1>2 DEF HandlerTypes, Replies
<1> QED  BY Zenon, <1>1, <1>3, <1>4, <1>5, <1>6, <1>7

\* A device that moves on leaves everything as new as it was.
LEMMA DeviceGrows ==
    ASSUME IInv, device' \in [Registers -> Nat],
           \A x \in Registers : device[x] <= device'[x],
           UNCHANGED <<entries, now, writeGeneration, floorAt>>
    PROVE  /\ (CacheTypes /\ DeviceTypes /\ Floors /\ Entries)'
           /\ \A g \in 0 .. writeGeneration, s \in SlaveIDs :
                 \A d : Between(floorAt[g], device, s, d) => Between(floorAt[g], device', s, d)
<1> USE DEF IInv, TypeOK
<1>1. DeviceTypes' /\ CacheTypes'
  BY Zenon DEF DeviceTypes, CacheTypes
<1>2. Floors'
  <2>1. \A x \in Registers : floorAt[writeGeneration][x] <= device'[x]
    BY DEF Floors, DeviceTypes
  <2> QED  BY Zenon, <2>1 DEF Floors
<1>3. Entries'
  <2>1. \A k \in DOMAIN entries : <<k[1], k[3]>> \in Registers /\ entries[k].data \in Nat
    BY Zenon DEF CacheTypes, Registers
  <2>2. \A k \in DOMAIN entries : entries[k].data <= device'[<<k[1], k[3]>>]
    <3> TAKE k \in DOMAIN entries
    <3> DEFINE x == <<k[1], k[3]>>
    <3>1. x \in Registers /\ entries[k].data \in Nat /\ entries[k].data <= device[x]
      BY Zenon, <2>1 DEF Entries
    <3> HIDE DEF x
    <3>2. device[x] \in Nat /\ device'[x] \in Nat /\ device[x] <= device'[x]
      BY Zenon, <3>1 DEF DeviceTypes
    <3>3. entries[k].data <= device'[x]
      BY <3>1, <3>2
    <3> QED  BY Zenon, <3>3 DEF x
  <2> QED  BY Zenon, <2>2 DEF Entries
<1>4. \A g \in 0 .. writeGeneration, s \in SlaveIDs :
         \A d : Between(floorAt[g], device, s, d) => Between(floorAt[g], device', s, d)
  <2> TAKE g \in 0 .. writeGeneration, s \in SlaveIDs
  <2> TAKE d
  <2>1. /\ floorAt[g] \in [Registers -> Nat] /\ device \in [Registers -> Nat]
        /\ \A x \in Registers : floorAt[g][x] <= floorAt[g][x]
    BY DEF DeviceTypes
  <2> QED  BY Zenon, <2>1, BetweenWidens
<1> QED  BY Zenon, <1>1, <1>2, <1>3, <1>4

\* The write reaches the device, or not.
LEMMA ExecuteWriteStep ==
    ASSUME IInv, NEW p \in Handlers, ExecuteWrite(p)
    PROVE  IInv'
<1> USE DEF IInv, TypeOK, ExecuteWrite, cacheVars, coalesceVars, historyVars
<1>0. device' \in [Registers -> Nat] /\ \A x \in Registers : device[x] <= device'[x]
  BY DEF DeviceTypes
<1>1. /\ (CacheTypes /\ DeviceTypes /\ Floors /\ Entries)'
      /\ \A g \in 0 .. writeGeneration, s \in SlaveIDs :
            \A d : Between(floorAt[g], device, s, d) => Between(floorAt[g], device', s, d)
  BY Zenon, <1>0, DeviceGrows
<1>2. HandlerTypes'
  BY Zenon DEF HandlerTypes
<1>3. Flights'
  BY Zenon DEF Flights
<1>4. Stages'
  BY Zenon DEF HandlerTypes, Stages
<1>5. \A q \in Handlers : pc[q] # "idle" => req[q].slave \in SlaveIDs
  BY Zenon, RequestFields DEF HandlerTypes
<1>6. Fetches'
  <2> SUFFICES ASSUME NEW q \in Handlers
               PROVE  /\ (pc'[q] = "fetched" /\ got'[q].err = "none") =>
                            Between(floorAt[gen[q]], device', req[q].slave, got'[q].data)
                      /\ (cpc[q] \in HoldsResult /\ res[q].err = "none") =>
                            Between(floorAt[gen[q]], device', req[q].slave, res[q].data)
    BY Zenon DEF Fetches
  <2>1. gen[q] \in 0 .. writeGeneration
    BY Zenon DEF HandlerTypes
  <2>2. pc'[q] = "fetched" => pc[q] = "fetched" /\ got'[q] = got[q] /\ pc[q] # "idle"
    BY Zenon DEF HandlerTypes
  <2>3. cpc[q] \in HoldsResult => pc[q] # "idle"
    BY Zenon DEF HandlerTypes, Stages, HoldsResult
  <2> QED  BY Zenon, <1>1, <1>5, <2>1, <2>2, <2>3 DEF Fetches
<1>7. Replies'
  BY Zenon, <1>1, <1>5 DEF HandlerTypes, Replies
<1> QED  BY Zenon, <1>1, <1>2, <1>3, <1>4, <1>6, <1>7

\* A register changes without the proxy.
LEMMA DeviceChangeStep ==
    ASSUME IInv, NEW y \in Registers, DeviceChange(y)
    PROVE  IInv'
<1> USE DEF IInv, TypeOK, DeviceChange, cacheVars, coalesceVars, handlerVars, historyVars
<1>0. device' \in [Registers -> Nat] /\ \A x \in Registers : device[x] <= device'[x]
  BY DEF DeviceTypes
<1>1. /\ (CacheTypes /\ DeviceTypes /\ Floors /\ Entries)'
      /\ \A g \in 0 .. writeGeneration, s \in SlaveIDs :
            \A d : Between(floorAt[g], device, s, d) => Between(floorAt[g], device', s, d)
  BY Zenon, <1>0, DeviceGrows
<1>2. HandlerTypes' /\ Flights' /\ Stages'
  BY Zenon DEF HandlerTypes, Flights, Stages
<1>3. \A q \in Handlers : pc[q] # "idle" => req[q].slave \in SlaveIDs
  BY Zenon, RequestFields DEF HandlerTypes
<1>4. Fetches'
  <2>1. \A q \in Handlers : gen[q] \in 0 .. writeGeneration
    BY Zenon DEF HandlerTypes
  <2>2. \A q \in Handlers : pc[q] = "fetched" \/ cpc[q] \in HoldsResult => req[q].slave \in SlaveIDs
    BY Zenon, <1>3 DEF Stages, HoldsResult
  <2> QED  BY Zenon, <1>1, <2>1, <2>2 DEF Fetches
<1>5. Replies'
  BY Zenon, <1>1, <1>3 DEF HandlerTypes, Replies
<1> QED  BY Zenon, <1>1, <1>2, <1>4, <1>5

\* The cleanup only removes entries, and the clock only ages them.
LEMMA BackgroundStep ==
    ASSUME IInv, Background
    PROVE  IInv'
<1> USE DEF IInv, TypeOK, Background, coalesceVars, handlerVars, deviceVars, historyVars
<1>1. /\ DOMAIN entries' \subseteq DOMAIN entries
      /\ \A k \in DOMAIN entries' : entries'[k] = entries[k]
      /\ now' \in Nat
  BY DEF CleanupOnce, Tick, Restrict, CacheTypes
<1>2. CacheTypes' /\ Entries'
  BY Zenon, <1>1 DEF CacheTypes, Entries
<1>3. HandlerTypes' /\ DeviceTypes' /\ Flights' /\ Stages' /\ Floors' /\ Fetches' /\ Replies'
  BY Zenon DEF HandlerTypes, DeviceTypes, Flights, Stages, Floors, Fetches, Replies
<1> QED  BY Zenon, <1>2, <1>3

-----------------------------------------------------------------------------
(* The theorems. *)

\* The proxy starts with an empty cache and no request in progress.
LEMMA Initial ==
    Init => IInv
<1> SUFFICES ASSUME Init PROVE IInv
  OBVIOUS
<1> USE DEF Init, CacheInit, Co!CoInit
<1>1. TypeOK
  <2>1. CacheTypes
    BY Zenon DEF CacheTypes
  <2>2. writeGeneration = 0 /\ 0 .. 0 = {0}
    OBVIOUS
  <2>3. HandlerTypes
    BY Zenon, <2>2 DEF HandlerTypes
  <2>4. DeviceTypes
    BY <2>2 DEF DeviceTypes
  <2> QED  BY Zenon, <2>1, <2>3, <2>4 DEF TypeOK
<1>2. Flights /\ Stages /\ Floors /\ Entries
  <2>1. Flights
    BY Zenon DEF Flights
  <2>2. Stages /\ Entries
    BY Zenon DEF Stages, Entries
  <2>3. writeGeneration = 0 /\ 0 .. 0 = {0}
    OBVIOUS
  <2>4. Floors
    BY <2>3 DEF Floors
  <2> QED  BY Zenon, <2>1, <2>2, <2>4
<1>3. Fetches /\ Replies
  BY Zenon DEF Fetches, Replies, HoldsResult
<1> QED  BY Zenon, <1>1, <1>2, <1>3 DEF IInv

\* Every step of the proxy, of the device and of the background goroutine
\* preserves the invariant.
LEMMA NextPreserves ==
    IInv /\ [Next]_vars => IInv'
<1> SUFFICES ASSUME IInv, [Next]_vars PROVE IInv'
  OBVIOUS
<1>1. ASSUME NEW p \in Handlers, NEW r \in Requests[p], Receive(p, r) PROVE IInv'
  BY Zenon, <1>1, ReceiveStep
<1>2. ASSUME NEW p \in Handlers, ContextEnds(p) PROVE IInv'
  BY Zenon, <1>2, ContextEndsStep
<1>3. ASSUME NEW p \in Handlers, Step(p) PROVE IInv'
  <2>1. CASE RejectInvalid(p) \/ ReadHit(p) \/ WriteReadOnly(p) \/ Passthrough(p) \/ Reply(p)
    BY Zenon, <2>1, RejectInvalidStep, ReadHitStep, WriteReadOnlyStep, PassthroughStep, ReplyStep
  <2>2. CASE ReadMiss(p) \/ CoalesceStep(p) \/ ExecuteRead(p) \/ Fetched(p) \/ ReadReturns(p)
    BY Zenon, <2>2, ReadMissStep, CoalesceStepStep, ExecuteReadStep, FetchedStep, ReadReturnsStep
  <2>3. CASE WriteBegin(p) \/ ExecuteWrite(p) \/ WriteEnd(p)
    BY Zenon, <2>3, WriteBeginStep, ExecuteWriteStep, WriteEndStep
  <2> QED  BY Zenon, <1>3, <2>1, <2>2, <2>3 DEF Step
<1>4. ASSUME NEW x \in Registers, DeviceChange(x) PROVE IInv'
  BY Zenon, <1>4, DeviceChangeStep
<1>5. CASE Background
  BY Zenon, <1>5, BackgroundStep
<1>6. CASE UNCHANGED vars
  <2> USE <1>6 DEF vars, IInv, TypeOK, cacheVars, handlerVars, coalesceVars, deviceVars, historyVars
  <2>1. (TypeOK /\ Flights /\ Stages)'
    BY Zenon DEF CacheTypes, HandlerTypes, DeviceTypes, Flights, Stages
  <2>2. (Floors /\ Entries /\ Fetches /\ Replies)'
    BY Zenon DEF Floors, Entries, Fetches, Replies
  <2> QED  BY Zenon, <2>1, <2>2
<1> QED  BY Zenon, <1>1, <1>2, <1>3, <1>4, <1>5, <1>6 DEF Next

\* The inductive invariant holds in every reachable state of the proxy.
THEOREM IInvariant ==
    Spec => []IInv
BY Initial, NextPreserves, PTL DEF Spec

\* The handlers' variables keep their types: a handler beyond "idle" serves
\* a request its client sent, and no generation exceeds writeGeneration.
THEOREM TypeCorrect ==
    Spec => []TypeOK
<1>1. IInv => TypeOK
  BY Zenon DEF IInv
<1> QED  BY <1>1, IInvariant, PTL

\* No interleaving of reads and writes leaves in the cache a value older than
\* the last invalidation of its register: the comparison of generations
\* before SetRange and the two invalidations of handleWrite suffice.
THEOREM CacheCoherentHolds ==
    Spec => []CacheCoherent
<1>1. IInv => CacheCoherent
  <2> SUFFICES ASSUME IInv, NEW k \in DOMAIN entries
               PROVE  entries[k].data >= floorAt[writeGeneration][<<k[1], k[3]>>]
    BY Zenon DEF CacheCoherent
  <2>1. <<k[1], k[3]>> \in Registers /\ entries[k].data \in Nat
    BY Zenon DEF IInv, TypeOK, CacheTypes, Registers
  <2>2. floorAt[writeGeneration] \in [Registers -> Nat]
    BY DEF IInv, TypeOK, DeviceTypes
  <2> QED  BY Zenon, <2>1, <2>2 DEF IInv, Entries
<1> QED  BY <1>1, IInvariant, PTL

\* Every answer to a read, from the cache, a fetch, a coalesced fetch or the
\* stale fallback of handleRead, is at least as new as the last invalidation
\* before the request arrived, and never newer than the device.
THEOREM ReadsSeeWritesHolds ==
    Spec => []ReadsSeeWrites
<1>1. IInv => ReadsSeeWrites
  <2> SUFFICES ASSUME IInv, NEW p \in Handlers, pc[p] = "respond",
                      IsReadFunction(req[p].fc), resp[p].err = "none",
                      NEW x \in DOMAIN resp[p].data
               PROVE  resp[p].data[x] \in floorAt[arrived[p]][<<req[p].slave, x>>]
                                           .. device[<<req[p].slave, x>>]
    BY Zenon DEF ReadsSeeWrites
  <2>1. Between(floorAt[arrived[p]], device, req[p].slave, resp[p].data)
    BY Zenon DEF IInv, Replies
  <2>2. req[p].slave \in SlaveIDs
    BY Zenon, RequestFields DEF IInv, TypeOK, HandlerTypes
  <2>3. x \in Addrs /\ resp[p].data[x] \in Nat
    BY Zenon, <2>1 DEF Between
  <2>4. <<req[p].slave, x>> \in Registers
    BY Zenon, <2>2, <2>3 DEF Registers
  <2>5. floorAt[arrived[p]][<<req[p].slave, x>>] \in Nat /\ device[<<req[p].slave, x>>] \in Nat
    BY Zenon, <2>4 DEF IInv, TypeOK, HandlerTypes, DeviceTypes
  <2>6. /\ floorAt[arrived[p]][<<req[p].slave, x>>] <= resp[p].data[x]
        /\ resp[p].data[x] <= device[<<req[p].slave, x>>]
    BY Zenon, <2>1 DEF Between
  <2> DEFINE v  == resp[p].data[x]
             lo == floorAt[arrived[p]][<<req[p].slave, x>>]
             hi == device[<<req[p].slave, x>>]
  <2>7. v \in Nat /\ lo \in Nat /\ hi \in Nat /\ lo <= v /\ v <= hi
    BY Zenon, <2>3, <2>5, <2>6
  <2> HIDE DEF v, lo, hi
  <2>8. v \in lo .. hi
    BY <2>7
  <2> QED  BY Zenon, <2>8 DEF v, lo, hi
<1> QED  BY <1>1, IInvariant, PTL
=============================================================================
