--------------------------- MODULE ProxyCoalescing --------------------------
(***************************************************************************)
(* That the handlers of the proxy use the coalescer as module Coalesce     *)
(* says it is used, and that the read-only modes keep writes away from the *)
(* device and from the cache, for any number of handlers and requests.     *)
(*                                                                         *)
(* The keys of module Coalesce are finitely many generations and versions, *)
(* so that TLC can enumerate them.  That the handlers stay inside them is  *)
(* an accounting of the writes: a write that has been received still has   *)
(* two generations and one version to give, one that has begun one of      *)
(* each, one that is over one generation.                                  *)
(***************************************************************************)
EXTENDS ProxyProofs, FiniteSetTheorems

\* The writes that are received and not begun, that have begun, and that the device
\* has answered.
Waiting == {p \in Handlers : pc[p] = "handle" /\ IsWriteFunction(req[p].fc)}
Begun   == {p \in Handlers : pc[p] = "write"}
Ended   == {p \in Handlers : pc[p] = "written"}

\* The accounting: what has been used and what the writes still have to give stay
\* within the writes received.
Counts ==
    /\ IsFiniteSet(Waiting) /\ IsFiniteSet(Begun) /\ IsFiniteSet(Ended)
    /\ writes <= MaxWrites
    /\ Cardinality(Waiting) + Cardinality(Begun) + Cardinality(Ended) <= writes
    /\ writeGeneration + 2 * Cardinality(Waiting) + Cardinality(Begun) + Cardinality(Ended)
         <= 2 * writes
    /\ \A x \in Registers :
          device[x] + Cardinality(Waiting) + Cardinality(Begun) <= MaxChanges + writes

\* What a handler brings to the coalescer, and that only a proxy that may
\* write is writing.
Conduct ==
    /\ ctx \in [Handlers -> {"active", "done"}]
    /\ \A p \in Handlers :
          /\ pc[p] = "fetched" => got[p] \in Co!Outcomes(key[p])
          /\ pc[p] \in {"write", "written"} => readOnly = "false"

-----------------------------------------------------------------------------
(* The accounting of the writes. *)

\* The numbers are numbers.
LEMMA CountTypes ==
    ASSUME TypeOK, Counts
    PROVE  /\ Cardinality(Waiting) \in Nat /\ Cardinality(Begun) \in Nat
           /\ Cardinality(Ended) \in Nat
           /\ writes \in Nat /\ writeGeneration \in Nat /\ MaxWrites \in Nat /\ MaxChanges \in Nat
           /\ \A x \in Registers : device[x] \in Nat
<1>1. /\ Cardinality(Waiting) \in Nat /\ Cardinality(Begun) \in Nat
      /\ Cardinality(Ended) \in Nat
  BY Zenon, FS_CardinalityType DEF Counts
<1> QED  BY Zenon, <1>1, ProxyAssumption DEF TypeOK, HandlerTypes, DeviceTypes

\* Generations and versions are those that the keys and the fetches of module
\* Coalesce are made of.
LEMMA WithinBounds ==
    ASSUME TypeOK, Counts
    PROVE  /\ writeGeneration \in 0 .. 2 * MaxWrites
           /\ \A x \in Registers : device[x] \in Versions
<1> USE CountTypes
<1>1. writeGeneration \in 0 .. 2 * MaxWrites
  BY DEF Counts
<1>2. ASSUME NEW x \in Registers PROVE device[x] \in Versions
  <2>1. device[x] + Cardinality(Waiting) + Cardinality(Begun) <= MaxChanges + writes
    BY Zenon DEF Counts
  <2>2. writes <= MaxWrites /\ device[x] \in Nat
    BY Zenon DEF Counts
  <2> QED  BY <2>1, <2>2 DEF Versions
<1> QED  BY Zenon, <1>1, <1>2

\* One more.
LEMMA CountAdd ==
    ASSUME NEW S, IsFiniteSet(S), NEW x, x \notin S
    PROVE  IsFiniteSet(S \cup {x}) /\ Cardinality(S \cup {x}) = Cardinality(S) + 1
BY Zenon, FS_AddElement

\* One less.
LEMMA CountDrop ==
    ASSUME NEW S, IsFiniteSet(S), NEW x, x \in S
    PROVE  IsFiniteSet(S \ {x}) /\ Cardinality(S \ {x}) = Cardinality(S) - 1
BY Zenon, FS_RemoveElement

\* A step in which no handler with a write moves.
LEMMA CountsKept ==
    ASSUME Counts, Waiting' = Waiting, Begun' = Begun, Ended' = Ended,
           UNCHANGED <<writes, writeGeneration, device>>
    PROVE  Counts'
BY Zenon DEF Counts

\* A handler that has no write moves to a place that is not one of a write.
LEMMA OthersMove ==
    ASSUME TypeOK, Counts, UNCHANGED <<writes, writeGeneration, device>>,
           NEW p \in Handlers, NEW l, l \notin {"handle", "write", "written"},
           pc' = [pc EXCEPT ![p] = l], \A q \in Handlers \ {p} : req'[q] = req[q],
           pc[p] \notin {"write", "written"},
           pc[p] = "handle" => ~IsWriteFunction(req[p].fc)
    PROVE  Counts'
<1> USE DEF TypeOK, HandlerTypes
<1>1. Waiting' = Waiting
  BY Zenon DEF Waiting
<1>2. Begun' = Begun /\ Ended' = Ended
  BY Zenon DEF Begun, Ended
<1> QED  BY Zenon, <1>1, <1>2, CountsKept

\* A write that is not executed leaves.
LEMMA WriteLeaves ==
    ASSUME TypeOK, Counts, UNCHANGED <<writes, writeGeneration, device, req>>,
           NEW p \in Handlers, pc[p] = "handle",
           pc' = [pc EXCEPT ![p] = "respond"]
    PROVE  Counts'
<1> USE DEF TypeOK, HandlerTypes
<1>1. CASE IsWriteFunction(req[p].fc)
  <2>1. Waiting' = Waiting \ {p} /\ p \in Waiting
    BY Zenon, <1>1 DEF Waiting
  <2>2. Begun' = Begun /\ Ended' = Ended
    BY Zenon DEF Begun, Ended
  <2>3. IsFiniteSet(Waiting') /\ Cardinality(Waiting') = Cardinality(Waiting) - 1
    BY Zenon, <2>1, CountDrop DEF Counts
  <2>4. /\ Cardinality(Waiting) \in Nat /\ Cardinality(Waiting') \in Nat
        /\ Cardinality(Begun) \in Nat /\ Cardinality(Ended) \in Nat
    BY Zenon, <2>3, FS_CardinalityType DEF Counts
  <2>5. \A x \in Registers : device[x] \in Nat
    BY Zenon DEF DeviceTypes
  <2> QED  BY <2>2, <2>3, <2>4, <2>5, CountTypes DEF Counts
<1>2. CASE ~IsWriteFunction(req[p].fc)
  BY Zenon, <1>2, OthersMove
<1> QED  BY Zenon, <1>1, <1>2

\* A write is received, and counted.
LEMMA ReceiveCounts ==
    ASSUME TypeOK, Counts, NEW p \in Handlers, NEW r \in Requests[p], Receive(p, r)
    PROVE  Counts'
<1> USE DEF TypeOK, HandlerTypes
<1>1. Begun' = Begun /\ Ended' = Ended
  BY Zenon DEF Receive, Begun, Ended
<1>2. CASE IsWriteFunction(r.fc)
  <2>1. Waiting' = Waiting \cup {p} /\ p \notin Waiting
    BY Zenon, <1>2 DEF Receive, Waiting
  <2>2. IsFiniteSet(Waiting') /\ Cardinality(Waiting') = Cardinality(Waiting) + 1
    BY Zenon, <2>1, CountAdd DEF Counts
  <2>3. /\ writes' = writes + 1 /\ writes < MaxWrites
        /\ writeGeneration' = writeGeneration /\ device' = device
    BY Zenon, <1>2 DEF Receive
  <2> QED  BY <1>1, <2>2, <2>3, CountTypes DEF Counts
<1>3. CASE ~IsWriteFunction(r.fc)
  <2>1. Waiting' = Waiting
    BY Zenon, <1>3 DEF Receive, Waiting
  <2> QED  BY Zenon, <1>1, <1>3, <2>1, CountsKept DEF Receive
<1> QED  BY Zenon, <1>2, <1>3

\* A write begins: one generation is used.
LEMMA WriteBeginCounts ==
    ASSUME TypeOK, Counts, NEW p \in Handlers, WriteBegin(p)
    PROVE  Counts'
<1> USE DEF TypeOK, HandlerTypes
<1>1. Waiting' = Waiting \ {p} /\ p \in Waiting
  BY Zenon DEF WriteBegin, Handling, Waiting, IsWriteFunction
<1>2. Begun' = Begun \cup {p} /\ p \notin Begun
  BY Zenon DEF WriteBegin, Handling, Begun
<1>3. Ended' = Ended
  BY Zenon DEF WriteBegin, Handling, Ended
<1>4. /\ IsFiniteSet(Waiting') /\ Cardinality(Waiting') = Cardinality(Waiting) - 1
      /\ IsFiniteSet(Begun') /\ Cardinality(Begun') = Cardinality(Begun) + 1
  BY Zenon, <1>1, <1>2, CountAdd, CountDrop DEF Counts
<1>5. /\ writes' = writes /\ writeGeneration' = writeGeneration + 1 /\ device' = device
  BY Zenon DEF WriteBegin, NextGeneration, deviceVars
<1> QED  BY <1>3, <1>4, <1>5, CountTypes DEF Counts

\* It meets the device: its version is used.
LEMMA ExecuteWriteCounts ==
    ASSUME TypeOK, Counts, NEW p \in Handlers, ExecuteWrite(p)
    PROVE  Counts'
<1> USE DEF TypeOK, HandlerTypes
<1>1. Waiting' = Waiting
  BY Zenon DEF ExecuteWrite, Waiting
<1>2. Begun' = Begun \ {p} /\ p \in Begun
  BY Zenon DEF ExecuteWrite, Begun
<1>3. Ended' = Ended \cup {p} /\ p \notin Ended
  BY DEF ExecuteWrite, Ended
<1>4. /\ IsFiniteSet(Begun') /\ Cardinality(Begun') = Cardinality(Begun) - 1
      /\ IsFiniteSet(Ended') /\ Cardinality(Ended') = Cardinality(Ended) + 1
  BY Zenon, <1>2, <1>3, CountAdd, CountDrop DEF Counts
<1>5. writes' = writes /\ writeGeneration' = writeGeneration
  BY Zenon DEF ExecuteWrite
<1>6. \A x \in Registers : device'[x] \in Nat /\ device'[x] <= device[x] + 1
  BY CountTypes DEF ExecuteWrite
<1> HIDE DEF TypeOK, HandlerTypes
<1>7. \A x \in Registers :
        device'[x] + Cardinality(Waiting') + Cardinality(Begun') <= MaxChanges + writes'
  BY <1>1, <1>4, <1>5, <1>6, CountTypes DEF Counts
<1> QED  BY <1>1, <1>4, <1>5, <1>7, CountTypes DEF Counts

\* It is over: its second generation is used.
LEMMA WriteEndCounts ==
    ASSUME TypeOK, Counts, NEW p \in Handlers, WriteEnd(p)
    PROVE  Counts'
<1> USE DEF TypeOK, HandlerTypes
<1>1. Waiting' = Waiting /\ Begun' = Begun
  BY Zenon DEF WriteEnd, Returns, Waiting, Begun
<1>2. Ended' = Ended \ {p} /\ p \in Ended
  BY Zenon DEF WriteEnd, Returns, Ended
<1>3. IsFiniteSet(Ended') /\ Cardinality(Ended') = Cardinality(Ended) - 1
  BY Zenon, <1>2, CountDrop DEF Counts
<1>4. writes' = writes /\ writeGeneration' = writeGeneration + 1 /\ device' = device
  BY Zenon DEF WriteEnd, NextGeneration, deviceVars
<1> QED  BY <1>1, <1>3, <1>4, CountTypes DEF Counts

\* A register that changes by itself stays below MaxChanges.
LEMMA DeviceChangeCounts ==
    ASSUME TypeOK, Counts, NEW x \in Registers, DeviceChange(x)
    PROVE  Counts'
<1>1. Waiting' = Waiting /\ Begun' = Begun /\ Ended' = Ended
  BY Zenon DEF DeviceChange, handlerVars, Waiting, Begun, Ended
<1>2. /\ writes' = writes /\ writeGeneration' = writeGeneration
      /\ \A y \in Registers : device'[y] = IF y = x THEN device[x] + 1 ELSE device[y]
      /\ device[x] < MaxChanges
  BY Zenon DEF DeviceChange, TypeOK, DeviceTypes
<1> QED  BY <1>1, <1>2, CountTypes DEF Counts

\* Every step keeps the accounts.
LEMMA NextCounts ==
    ASSUME IInv, Counts, [Next]_vars
    PROVE  Counts'
<1> USE DEF IInv
<1>1. ASSUME UNCHANGED <<pc, req, writes, writeGeneration, device>>
      PROVE  Counts'
  BY Zenon, <1>1, CountsKept DEF Waiting, Begun, Ended
<1>2. CASE \E p \in Handlers : \E r \in Requests[p] : Receive(p, r)
  BY Zenon, <1>2, ReceiveCounts
<1>3. CASE \E p \in Handlers : ContextEnds(p) \/ CoalesceStep(p)
  BY Zenon, <1>1, <1>3 DEF ContextEnds, CoalesceStep, handlerVars, deviceVars
<1>4. ASSUME NEW p \in Handlers, RejectInvalid(p) \/ ReadHit(p) \/ WriteReadOnly(p)
                                   \/ Passthrough(p)
      PROVE  Counts'
  BY Zenon, <1>4, WriteLeaves DEF RejectInvalid, ReadHit, WriteReadOnly, Passthrough, Handling,
       Returns, deviceVars
<1>5. ASSUME NEW p \in Handlers,
             ReadMiss(p) \/ ExecuteRead(p) \/ Fetched(p) \/ ReadReturns(p) \/ Reply(p)
      PROVE  Counts'
  <2>1. /\ pc[p] \notin {"write", "written"}
        /\ pc[p] = "handle" => ~IsWriteFunction(req[p].fc)
    BY Zenon, <1>5, ReadsAreNotWrites DEF ReadMiss, ExecuteRead, Fetched, ReadReturns, Coalesced,
         Reply, Handling, IsWriteFunction
  <2>2. \E l \in {"coalesce", "fetched", "respond", "idle"} : pc' = [pc EXCEPT ![p] = l]
    BY Zenon, <1>5 DEF ReadMiss, ExecuteRead, Fetched, ReadReturns, Returns, Reply
  <2>3. /\ UNCHANGED <<writes, writeGeneration, device>>
        /\ \A q \in Handlers \ {p} : req'[q] = req[q]
    BY Zenon, <1>5 DEF ReadMiss, ExecuteRead, Fetched, ReadReturns, Reply, deviceVars, TypeOK,
         HandlerTypes
  <2> QED  BY Zenon, <2>1, <2>2, <2>3, OthersMove
<1>6. ASSUME NEW p \in Handlers, WriteBegin(p) \/ ExecuteWrite(p) \/ WriteEnd(p)
      PROVE  Counts'
  BY Zenon, <1>6, WriteBeginCounts, ExecuteWriteCounts, WriteEndCounts
<1>7. CASE \E x \in Registers : DeviceChange(x)
  BY Zenon, <1>7, DeviceChangeCounts
<1>8. CASE Background \/ UNCHANGED vars
  BY Zenon, <1>1, <1>8 DEF Background, vars, handlerVars, deviceVars
<1> QED  BY Zenon, <1>2, <1>3, <1>4, <1>5, <1>6, <1>7, <1>8 DEF Next, Step

-----------------------------------------------------------------------------
(* What the handlers bring to the coalescer. *)

\* Execute answers with what the device holds, or a prefix of it, or an error.
LEMMA ExecuteReadConduct ==
    ASSUME IInv, Counts, NEW p \in Handlers, ExecuteRead(p)
    PROVE  got'[p] \in Co!Outcomes(key[p])
<1>1. /\ req[p] \in Requests[p] /\ key[p] = RangeKey(gen[p], req[p])
  BY Zenon DEF IInv, TypeOK, HandlerTypes, Stages, ExecuteRead
<1>2. key[p].addr = req[p].addr /\ key[p].qty = req[p].qty
  BY <1>1 DEF RangeKey
<1>3. PICK o \in {Co!Ok(DeviceValues(req[p].slave, P)) : P \in Prefixes(req[p].addr, req[p].qty)}
                \cup {Co!Fail(e) : e \in Errors} : got'[p] = o
  BY Zenon DEF ExecuteRead, IInv, TypeOK, HandlerTypes
<1>4. ASSUME NEW P \in Prefixes(req[p].addr, req[p].qty)
      PROVE  DeviceValues(req[p].slave, P) \in FetchOf(key[p])
  <2>1. P \subseteq Addrs
    BY Zenon, <1>1, PrefixInAddrs, RequestFields
  <2>2. \A x \in P : <<req[p].slave, x>> \in Registers
    BY Zenon, <1>1, <2>1, RequestFields DEF Registers
  <2>3. DeviceValues(req[p].slave, P) \in [P -> Versions]
    BY Zenon, <2>2, WithinBounds DEF DeviceValues, IInv
  <2> QED  BY Zenon, <1>2, <2>3 DEF FetchOf
<1> QED  BY Zenon, <1>3, <1>4 DEF Co!Outcomes

\* The coalescer's own steps leave every key and context alone.
LEMMA CoStepQuiet ==
    ASSUME NEW p \in Handlers, Co!CoStep(p)
    PROVE  key' = key /\ ctx' = ctx
BY Zenon DEF Co!CoStep, Co!EnterCanceled, Co!Lead, Co!Follow, Co!Unregister, Co!CloseDone,
     Co!FollowerCanceled, Co!Share, Co!Retry

\* Every step keeps the conduct of the handlers.
LEMMA NextConduct ==
    ASSUME IInv, Counts, Conduct, [Next]_vars
    PROVE  Conduct'
<1> USE DEF IInv, TypeOK, HandlerTypes, Conduct
<1>1. ASSUME NEW p \in Handlers, NEW r \in Requests[p], Receive(p, r) PROVE Conduct'
  BY Zenon, <1>1 DEF Receive, Co!NewContext
<1>2. ASSUME NEW p \in Handlers, ContextEnds(p) PROVE Conduct'
  BY Zenon, <1>2 DEF ContextEnds, Co!ContextEnds, handlerVars
<1>3. ASSUME NEW p \in Handlers, UNCHANGED readOnly, CoalesceStep(p) PROVE Conduct'
  BY Zenon, <1>3, CoStepQuiet DEF CoalesceStep, handlerVars
<1>4. ASSUME NEW p \in Handlers, UNCHANGED readOnly,
             RejectInvalid(p) \/ ReadHit(p) \/ WriteReadOnly(p) \/ Passthrough(p) \/ Reply(p)
      PROVE  Conduct'
  BY <1>4 DEF RejectInvalid, ReadHit, WriteReadOnly, Passthrough, Reply, Returns, coalesceVars
<1>5. ASSUME NEW p \in Handlers, UNCHANGED readOnly,
             ReadMiss(p) \/ Fetched(p) \/ ReadReturns(p)
      PROVE  Conduct'
  <2>1. CASE ReadMiss(p)
    BY Zenon, <2>1, <1>5 DEF ReadMiss, Co!Call, Handling, Flights
  <2>2. CASE Fetched(p)
    BY Zenon, <2>2, <1>5 DEF Fetched, Co!FetchReturn
  <2>3. CASE ReadReturns(p)
    <3>1. pc' = [pc EXCEPT ![p] = "respond"] /\ got' = got /\ Co!Return(p)
      BY Zenon, <2>3 DEF ReadReturns, Returns
    <3>2. ctx' = ctx /\ \A q \in Handlers \ {p} : key'[q] = key[q]
      BY Zenon, <3>1 DEF Co!Return, Flights
    <3> QED  BY Zenon, <1>5, <3>1, <3>2
  <2> QED  BY Zenon, <1>5, <2>1, <2>2, <2>3
<1>6. ASSUME NEW p \in Handlers, UNCHANGED readOnly, ExecuteRead(p) PROVE Conduct'
  BY Zenon, <1>6, ExecuteReadConduct DEF ExecuteRead, coalesceVars
<1>7. ASSUME NEW p \in Handlers, UNCHANGED readOnly,
             WriteBegin(p) \/ ExecuteWrite(p) \/ WriteEnd(p)
      PROVE  Conduct'
  BY ZenonT(30), <1>7 DEF WriteBegin, ExecuteWrite, WriteEnd, Returns, coalesceVars, Handling
<1>8. CASE (\E x \in Registers : DeviceChange(x)) \/ Background \/ UNCHANGED vars
  BY Zenon, <1>8 DEF DeviceChange, Background, vars, handlerVars, coalesceVars
<1> QED  BY Zenon, <1>1, <1>2, <1>3, <1>4, <1>5, <1>6, <1>7, <1>8 DEF Next, Step

\* Counts and Conduct hold in every reachable state.
THEOREM Accounted == Spec => [](Counts /\ Conduct)
<1>1. Init => Counts /\ Conduct
  <2> SUFFICES ASSUME Init PROVE Counts /\ Conduct
    OBVIOUS
  <2>1. Waiting = {} /\ Begun = {} /\ Ended = {}
    BY Zenon DEF Init, Waiting, Begun, Ended
  <2>2. IsFiniteSet({}) /\ Cardinality({}) = 0
    BY Zenon, FS_EmptySet
  <2>3. Counts
    BY <2>1, <2>2, ProxyAssumption DEF Init, Counts
  <2>4. Conduct
    BY Zenon DEF Init, Conduct, Co!CoInit
  <2> QED  BY Zenon, <2>3, <2>4
<1>2. IInv /\ Counts /\ Conduct /\ [Next]_vars => (Counts /\ Conduct)'
  BY Zenon, NextCounts, NextConduct
<1> QED  BY <1>1, <1>2, IInvariant, PTL DEF Spec

-----------------------------------------------------------------------------
(* Every step of the proxy is a step of the coalescer or leaves it alone. *)

\* Each action of the proxy, and the action of module Coalesce that it takes.
LEMMA StepUsesCoalescer ==
    ASSUME IInv, Counts, Conduct, [Next]_vars
    PROVE  [Co!CoNext]_(Co!coVars)
<1> USE DEF Co!coVars
<1>1. ASSUME NEW p \in Handlers, NEW r \in Requests[p], Receive(p, r)
      PROVE  Co!NewContext(p)
  BY Zenon, <1>1 DEF Receive
<1>2. ASSUME NEW p \in Handlers, ContextEnds(p)
      PROVE  Co!ContextEnds(p)
  BY Zenon, <1>2 DEF ContextEnds
<1>3. ASSUME NEW p \in Handlers, CoalesceStep(p)
      PROVE  Co!CoStep(p)
  BY Zenon, <1>3 DEF CoalesceStep
<1>4. ASSUME NEW p \in Handlers, ReadMiss(p)
      PROVE  \E k \in CoalescingKeys : Co!Call(p, k)
  <2>1. /\ req[p] \in Requests[p] /\ IsReadFunction(req[p].fc)
        /\ Co!Call(p, RangeKey(writeGeneration, req[p]))
    BY Zenon, <1>4 DEF ReadMiss, Handling, IInv, TypeOK, HandlerTypes, IsReadFunction
  <2>2. RangeKey(writeGeneration, req[p]) \in CoalescingKeys
    BY <2>1, WithinBounds DEF IInv, RangeKey, CoalescingKeys
  <2> QED  BY Zenon, <2>1, <2>2
<1>5. ASSUME NEW p \in Handlers, Fetched(p)
      PROVE  Co!FetchReturns(p)
  <2>1. cpc[p] = "fetch" /\ Co!FetchReturn(p, got[p])
    BY Zenon, <1>5 DEF Fetched, Co!FetchReturn
  <2>2. got[p] \in Co!Outcomes(key[p])
    BY Zenon, <1>5 DEF Fetched, Conduct
  <2> QED  BY Zenon, <2>1, <2>2 DEF Co!FetchReturns
<1>6. ASSUME NEW p \in Handlers, ReadReturns(p)
      PROVE  Co!Return(p)
  BY Zenon, <1>6 DEF ReadReturns
<1>7. ASSUME NEW p \in Handlers, Reply(p)
      PROVE  Co!ContextEnds(p) \/ UNCHANGED Co!coVars
  <2>1. CASE ctx[p] = "active"
    BY Zenon, <1>7, <2>1 DEF Reply, Co!ContextEnds
  <2>2. CASE ctx[p] # "active"
    <3>1. ctx' = ctx
      BY Zenon, <1>7, <2>2 DEF Reply, Conduct
    <3> QED  BY Zenon, <1>7, <3>1 DEF Reply
  <2> QED  BY Zenon, <2>1, <2>2
<1>8. ASSUME NEW p \in Handlers,
             \/ RejectInvalid(p) \/ ReadHit(p) \/ ExecuteRead(p) \/ WriteReadOnly(p)
             \/ WriteBegin(p) \/ ExecuteWrite(p) \/ WriteEnd(p) \/ Passthrough(p)
      PROVE  UNCHANGED Co!coVars
  BY Zenon, <1>8 DEF RejectInvalid, ReadHit, ExecuteRead, WriteReadOnly, WriteBegin, ExecuteWrite,
       WriteEnd, Passthrough, coalesceVars
<1>9. CASE (\E x \in Registers : DeviceChange(x)) \/ Background \/ UNCHANGED vars
  BY Zenon, <1>9 DEF DeviceChange, Background, vars, coalesceVars
<1> HIDE DEF Co!coVars
<1> QED  BY Zenon, <1>1, <1>2, <1>3, <1>4, <1>5, <1>6, <1>7, <1>8, <1>9 DEF Next, Step, Co!CoNext

\* The handlers call the coalescer as module Coalesce says: one call at a time
\* each, with a key of their range and generation, a fetch that returns data of
\* that key or an error, and one return for each call.
THEOREM ProxyUsesCoalescer == Spec => UsesCoalescer
<1>1. Init => Co!CoInit
  BY Zenon DEF Init
<1>2. IInv /\ Counts /\ Conduct /\ [Next]_vars => [Co!CoNext]_(Co!coVars)
  BY Zenon, StepUsesCoalescer
<1> QED  BY <1>1, <1>2, IInvariant, Accounted, PTL DEF Spec, UsesCoalescer, Co!CoSpec

-----------------------------------------------------------------------------
(* What the coalescer promises, inside the proxy. *)

\* A leader is registered under its key until it has published.
LeadersRegistered ==
    \A p \in Handlers : cpc[p] \in {"fetch", "publish"} => /\ key[p] \in DOMAIN inflight
                                                           /\ inflight[key[p]] = p

\* Only a result to be returned is marked as shared, and a cancellation among them
\* is the handler's own.
SharedMarked ==
    /\ coalesced \in [Handlers -> BOOLEAN]
    /\ \A p \in Handlers : /\ coalesced[p] => cpc[p] = "return"
                           /\ coalesced[p] /\ res[p].err = "ctx" => ctx[p] = "done"

\* Data that a handler holds is data of its key.
DataOfOwnKey ==
    \A p \in Handlers :
        (cpc[p] \in HoldsResult /\ res[p].err = "none") => res[p].data \in FetchOf(key[p])

\* An outcome that is no failure is data of its key.
LEMMA OutcomeData ==
    ASSUME NEW k, NEW r \in Co!Outcomes(k), r.err = "none"
    PROVE  r.data \in FetchOf(k)
<1>1. ASSUME NEW e \in Errors PROVE r # Co!Fail(e)
  <2>1. Co!Fail(e).err = e /\ e # "none"
    BY Zenon, ProxyAssumption DEF Co!Fail
  <2> QED  BY Zenon, <2>1
<1>2. PICK d \in FetchOf(k) : r = Co!Ok(d)
  BY Zenon, <1>1 DEF Co!Outcomes
<1> QED  BY Zenon, <1>2 DEF Co!Ok

\* Every step of the coalescer keeps its leaders registered.
LEMMA StepRegisters ==
    ASSUME Flights, LeadersRegistered, [Co!CoNext]_(Co!coVars)
    PROVE  LeadersRegistered'
<1> USE DEF Flights, LeadersRegistered
<1>1. ASSUME NEW p \in Handlers, Co!NewContext(p)
      PROVE  LeadersRegistered'
  BY Zenon, <1>1 DEF Co!NewContext
<1>2. ASSUME NEW p \in Handlers, Co!ContextEnds(p)
      PROVE  LeadersRegistered'
  BY Zenon, <1>2 DEF Co!ContextEnds
<1>3. ASSUME NEW p \in Handlers, NEW k, Co!Call(p, k)
      PROVE  LeadersRegistered'
  BY Zenon, <1>3 DEF Co!Call
<1>4. ASSUME NEW p \in Handlers, Co!FetchReturns(p)
      PROVE  LeadersRegistered'
  BY <1>4 DEF Co!FetchReturns, Co!FetchReturn
<1>5. ASSUME NEW p \in Handlers, Co!Return(p)
      PROVE  LeadersRegistered'
  BY Zenon, <1>5 DEF Co!Return
<1>6. ASSUME NEW p \in Handlers, Co!CoStep(p)
      PROVE  LeadersRegistered'
  <2>1. CASE Co!EnterCanceled(p)
    BY Zenon, <2>1 DEF Co!EnterCanceled, Co!Fail
  <2>2. CASE Co!Lead(p)
    BY Zenon, <2>2 DEF Co!Lead
  <2>3. CASE Co!Follow(p)
    BY Zenon, <2>3 DEF Co!Follow
  <2>4. CASE Co!Unregister(p)
    BY <2>4 DEF Co!Unregister, Co!Restrict
  <2>5. CASE Co!CloseDone(p)
    BY Zenon, <2>5 DEF Co!CloseDone, Co!Followers
  <2>6. CASE Co!FollowerCanceled(p)
    BY Zenon, <2>6 DEF Co!FollowerCanceled, Co!Fail
  <2>7. CASE Co!Share(p)
    BY Zenon, <2>7 DEF Co!Share
  <2>8. CASE Co!Retry(p)
    BY Zenon, <2>8 DEF Co!Retry
  <2> QED  BY Zenon, <1>6, <2>1, <2>2, <2>3, <2>4, <2>5, <2>6, <2>7, <2>8 DEF Co!CoStep
<1>7. CASE UNCHANGED Co!coVars
  BY Zenon, <1>7 DEF Co!coVars
<1> HIDE DEF Flights, LeadersRegistered
<1> QED  BY Zenon, <1>1, <1>2, <1>3, <1>4, <1>5, <1>6, <1>7 DEF Co!CoNext

\* Every step marks what is shared, and only that.
LEMMA StepMarks ==
    ASSUME Flights, SharedMarked, [Co!CoNext]_(Co!coVars)
    PROVE  SharedMarked'
<1> USE DEF Flights, SharedMarked
<1>1. ASSUME NEW p \in Handlers, Co!NewContext(p)
      PROVE  SharedMarked'
  BY Zenon, <1>1 DEF Co!NewContext
<1>2. ASSUME NEW p \in Handlers, Co!ContextEnds(p)
      PROVE  SharedMarked'
  BY Zenon, <1>2 DEF Co!ContextEnds
<1>3. ASSUME NEW p \in Handlers, NEW k, Co!Call(p, k)
      PROVE  SharedMarked'
  BY Zenon, <1>3 DEF Co!Call
<1>4. ASSUME NEW p \in Handlers, Co!FetchReturns(p)
      PROVE  SharedMarked'
  BY <1>4 DEF Co!FetchReturns, Co!FetchReturn
<1>5. ASSUME NEW p \in Handlers, Co!Return(p)
      PROVE  SharedMarked'
  BY Zenon, <1>5 DEF Co!Return
<1>6. ASSUME NEW p \in Handlers, Co!CoStep(p)
      PROVE  SharedMarked'
  <2>1. CASE Co!EnterCanceled(p)
    BY Zenon, <2>1 DEF Co!EnterCanceled, Co!Fail
  <2>2. CASE Co!Lead(p)
    BY Zenon, <2>2 DEF Co!Lead
  <2>3. CASE Co!Follow(p)
    BY Zenon, <2>3 DEF Co!Follow
  <2>4. CASE Co!Unregister(p)
    BY Zenon, <2>4 DEF Co!Unregister, Co!Restrict
  <2>5. CASE Co!CloseDone(p)
    BY Zenon, <2>5 DEF Co!CloseDone, Co!Followers
  <2>6. CASE Co!FollowerCanceled(p)
    BY Zenon, <2>6 DEF Co!FollowerCanceled, Co!Fail
  <2>7. CASE Co!Share(p)
    BY Zenon, <2>7 DEF Co!Share
  <2>8. CASE Co!Retry(p)
    BY Zenon, <2>8 DEF Co!Retry
  <2> QED  BY Zenon, <1>6, <2>1, <2>2, <2>3, <2>4, <2>5, <2>6, <2>7, <2>8 DEF Co!CoStep
<1>7. CASE UNCHANGED Co!coVars
  BY Zenon, <1>7 DEF Co!coVars
<1> HIDE DEF Flights, SharedMarked
<1> QED  BY Zenon, <1>1, <1>2, <1>3, <1>4, <1>5, <1>6, <1>7 DEF Co!CoNext

\* Every step hands on data of the handler's own key.
LEMMA StepData ==
    ASSUME Flights, DataOfOwnKey, [Co!CoNext]_(Co!coVars)
    PROVE  DataOfOwnKey'
<1> USE DEF Flights, DataOfOwnKey, HoldsResult
<1>1. ASSUME NEW p \in Handlers, Co!NewContext(p)
      PROVE  DataOfOwnKey'
  BY Zenon, <1>1 DEF Co!NewContext
<1>2. ASSUME NEW p \in Handlers, Co!ContextEnds(p)
      PROVE  DataOfOwnKey'
  BY Zenon, <1>2 DEF Co!ContextEnds
<1>3. ASSUME NEW p \in Handlers, NEW k, Co!Call(p, k)
      PROVE  DataOfOwnKey'
  BY Zenon, <1>3 DEF Co!Call
<1>4. ASSUME NEW p \in Handlers, Co!FetchReturns(p)
      PROVE  DataOfOwnKey'
  <2>1. PICK r \in Co!Outcomes(key[p]) : Co!FetchReturn(p, r)
    BY Zenon, <1>4 DEF Co!FetchReturns
  <2>2. r.err = "none" => r.data \in FetchOf(key[p])
    BY Zenon, OutcomeData
  <2>3. /\ res'[p] = r \/ res'[p].err = "ctx"
        /\ \A q \in Handlers \ {p} : res'[q] = res[q] /\ cpc'[q] = cpc[q]
        /\ key' = key
    <3>1. DOMAIN r = {"err", "data"}
      BY DEF Co!Outcomes, Co!Ok, Co!Fail
    <3> QED  BY Zenon, <2>1, <3>1 DEF Co!FetchReturn
  <2> QED  BY ZenonT(30), <2>2, <2>3
<1>5. ASSUME NEW p \in Handlers, Co!Return(p)
      PROVE  DataOfOwnKey'
  BY Zenon, <1>5 DEF Co!Return
<1>6. ASSUME NEW p \in Handlers, Co!CoStep(p)
      PROVE  DataOfOwnKey'
  <2>1. CASE Co!EnterCanceled(p)
    BY ZenonT(30), <2>1 DEF Co!EnterCanceled, Co!Fail
  <2>2. CASE Co!Lead(p)
    BY Zenon, <2>2 DEF Co!Lead
  <2>3. CASE Co!Follow(p)
    BY Zenon, <2>3 DEF Co!Follow
  <2>4. CASE Co!Unregister(p)
    BY ZenonT(30), <2>4 DEF Co!Unregister, Co!Restrict
  <2>5. CASE Co!CloseDone(p)
    BY <2>5 DEF Co!CloseDone, Co!Followers
  <2>6. CASE Co!FollowerCanceled(p)
    BY Zenon, <2>6 DEF Co!FollowerCanceled, Co!Fail
  <2>7. CASE Co!Share(p)
    BY ZenonT(30), <2>7 DEF Co!Share
  <2>8. CASE Co!Retry(p)
    BY ZenonT(30), <2>8 DEF Co!Retry
  <2> QED  BY Zenon, <1>6, <2>1, <2>2, <2>3, <2>4, <2>5, <2>6, <2>7, <2>8 DEF Co!CoStep
<1>7. CASE UNCHANGED Co!coVars
  BY Zenon, <1>7 DEF Co!coVars
<1> HIDE DEF Flights, DataOfOwnKey
<1> QED  BY Zenon, <1>1, <1>2, <1>3, <1>4, <1>5, <1>6, <1>7 DEF Co!CoNext

\* Inside the proxy, one fetch at a time runs for each generation and range, a
\* waiting handler has a leader that will wake it, nobody is failed by another
\* client's cancellation, and whoever fetched it, a handler is given data of
\* its own range and generation.
THEOREM CoalescerKeepsItsPromises ==
    Spec => [](/\ Co!SingleFlight /\ Co!NoOrphanFollower
               /\ Co!OwnCancellationOnly /\ Co!ResultOfOwnKey)
<1> DEFINE Sharing == LeadersRegistered /\ SharedMarked /\ DataOfOwnKey
<1>1. Init => Sharing
  BY ZenonT(30) DEF Init, Co!CoInit, LeadersRegistered, SharedMarked, DataOfOwnKey, HoldsResult
<1>2. IInv /\ Counts /\ Conduct /\ Sharing /\ [Next]_vars => Sharing'
  BY Zenon, StepUsesCoalescer, StepRegisters, StepMarks, StepData DEF IInv
<1>3. IInv /\ Sharing => /\ Co!SingleFlight /\ Co!NoOrphanFollower
                         /\ Co!OwnCancellationOnly /\ Co!ResultOfOwnKey
  BY Zenon DEF IInv, Flights, LeadersRegistered, SharedMarked, DataOfOwnKey, HoldsResult,
       Co!SingleFlight, Co!NoOrphanFollower, Co!OwnCancellationOnly, Co!ResultOfOwnKey
<1> QED  BY <1>1, <1>2, <1>3, IInvariant, Accounted, PTL DEF Spec

-----------------------------------------------------------------------------
(* The read-only modes. *)

\* In a read-only mode no step of a handler changes the device or removes an entry.
LEMMA ReadOnlyStep ==
    ASSUME IInv, Conduct, [Next]_vars, readOnly # "false"
    PROVE  /\ device' # device => \E x \in Registers : DeviceChange(x)
           /\ \A k \in DOMAIN entries \ DOMAIN entries' : IsExpired(entries[k])
<1>1. ASSUME NEW p \in Handlers, NEW r \in Requests[p], Receive(p, r)
      PROVE  device' = device /\ entries' = entries
  BY Zenon, <1>1 DEF Receive, cacheVars
<1>2. ASSUME NEW p \in Handlers, ContextEnds(p)
      PROVE  device' = device /\ entries' = entries
  BY Zenon, <1>2 DEF ContextEnds, cacheVars, deviceVars
<1>3. ASSUME NEW p \in Handlers, Step(p)
      PROVE  device' = device /\ DOMAIN entries \subseteq DOMAIN entries'
  <2>1. ~WriteBegin(p) /\ ~ExecuteWrite(p) /\ ~WriteEnd(p)
    BY Zenon DEF WriteBegin, ExecuteWrite, WriteEnd, Conduct
  <2>2. CASE Fetched(p)
    BY Zenon, <2>2 DEF Fetched, SetRange, Stored, cacheVars, deviceVars
  <2>3. CASE ~Fetched(p)
    BY Zenon, <1>3, <2>1, <2>3 DEF Step, RejectInvalid, ReadHit, ReadMiss, CoalesceStep, ExecuteRead,
         ReadReturns, WriteReadOnly, Passthrough, Reply, cacheVars, deviceVars
  <2> QED  BY Zenon, <2>2, <2>3
<1>4. ASSUME NEW x \in Registers, DeviceChange(x)
      PROVE  entries' = entries
  BY Zenon, <1>4 DEF DeviceChange, cacheVars
<1>5. CASE Background
  <2>1. device' = device
    BY Zenon, <1>5 DEF Background, deviceVars
  <2>2. CASE CleanupOnce
    <3>1. DOMAIN entries' = {k \in DOMAIN entries : ~IsExpired(entries[k])}
      BY Zenon, <2>2 DEF CleanupOnce, Restrict
    <3> QED  BY Zenon, <2>1, <3>1
  <2>3. CASE Tick
    BY Zenon, <2>1, <2>3 DEF Tick
  <2> QED  BY Zenon, <1>5, <2>2, <2>3 DEF Background
<1>6. CASE UNCHANGED vars
  BY Zenon, <1>6 DEF vars, cacheVars, deviceVars
<1> QED  BY Zenon, <1>1, <1>2, <1>3, <1>4, <1>5, <1>6 DEF Next

\* A proxy in a read-only mode never sends a standard write to the device and
\* never invalidates the cache for one.
THEOREM ReadOnlyIsolatesHolds == Spec => ReadOnlyIsolates
<1>1. IInv /\ Conduct /\ [Next]_vars =>
        [readOnly # "false" =>
           /\ device' # device => \E x \in Registers : DeviceChange(x)
           /\ \A k \in DOMAIN entries \ DOMAIN entries' : IsExpired(entries[k])]_vars
  BY Zenon, ReadOnlyStep
<1> QED  BY <1>1, IInvariant, Accounted, PTL DEF Spec, ReadOnlyIsolates
=============================================================================
