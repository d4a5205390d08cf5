----------------------------- MODULE WireProofs -----------------------------
(***************************************************************************)
(* Proofs about the bytes on the wire.                                     *)
(*                                                                         *)
(* Module Frames, for every frame a client may send: all lengths,          *)
(* addresses, quantities, byte counts and words.  The invariant says what  *)
(* the stages of a request have established: it was parsed, it is valid,   *)
(* and a positive answer is the device's.                                  *)
(*                                                                         *)
(* Module Values, for every number of addresses and every memory of the    *)
(* device: a response taken apart and put together again, in whatever      *)
(* ranges, is the device's.  The invariant is the two properties; it rests *)
(* on the bits of a byte and on where a payload holds the value of an      *)
(* address.                                                                *)
(***************************************************************************)
EXTENDS Frames, Values, SequenceTheorems, TLAPS

FrameInv ==
    /\ frame \in Frames
    /\ stage \in {"parsed", "forwarded"} => HeaderOK(frame) /\ PduOK(frame)
    /\ stage = "forwarded" => ValidateRequest(Checked(req))
    /\ AnswersLikeTheDevice

-----------------------------------------------------------------------------
\* A number below 256 fits a byte.
LEMMA ByteId == ASSUME NEW n \in Nat, n < 256 PROVE Byte(n) = n
BY DEF Byte

\* A number below 65536 fits 16 bits.
LEMMA Uint16Id == ASSUME NEW n \in Nat, n < 65536 PROVE Uint16(n) = n
BY DEF Uint16

\* The bytes of q bits.
LEMMA BytesOfBits ==
    ASSUME NEW q \in Nat
    PROVE  /\ (q + 7) \div 8 \in Nat
           /\ 8 * ((q + 7) \div 8) >= q /\ 8 * ((q + 7) \div 8) <= q + 7
OBVIOUS

\* The function codes are different numbers.
LEMMA FunctionsDiffer ==
    /\ MultipleWrites \cap (ReadFunctions \cup SingleWrites) = {}
    /\ ReadFunctions \cap WriteFunctions = {}
BY DEF WriteFunctions, MultipleWrites, SingleWrites, ReadFunctions, FuncReadCoils,
       FuncReadDiscreteInputs, FuncReadHoldingRegisters, FuncReadInputRegisters,
       FuncWriteSingleCoil, FuncWriteSingleRegister, FuncWriteMultipleCoils,
       FuncWriteMultipleRegs

\* The fields of a frame.
LEMMA FrameFields ==
    ASSUME NEW f \in Frames
    PROVE  /\ f.length \in Nat /\ f.qty \in Nat /\ f.qty < 65536
           /\ f.byteCount \in Nat /\ f.byteCount < 256
BY FramesAssumption DEF Frames

\* A PDU that was read has at most 253 bytes.
LEMMA PduLimit ==
    ASSUME NEW f \in Frames, HeaderOK(f)
    PROVE  PduLen(f) \in Int /\ PduLen(f) <= 253
BY DEF HeaderOK

\* A multiple write whose PDU was accepted has its data inside the PDU: the sum
\* in a byte is the sum.
LEMMA DataInPdu ==
    ASSUME NEW f \in Frames, HeaderOK(f), PduOK(f), f.fc \in MultipleWrites
    PROVE  DataHigh(f) = 6 + f.byteCount /\ 6 + f.byteCount <= PduLen(f)
<1>1. 6 + f.byteCount <= PduLen(f)
  BY FunctionsDiffer, FrameFields, PduLimit DEF PduOK
<1>2. Byte(6 + f.byteCount) = 6 + f.byteCount
  BY <1>1, FrameFields, PduLimit, ByteId
<1>3. QED
  BY <1>1, <1>2, FunctionsDiffer DEF DataHigh

\* A frame has just arrived.
LEMMA FrameInit == Init => FrameInv
BY DEF Init, FrameInv, AnswersLikeTheDevice

\* Every step of the server and of the handler keeps the invariant.
LEMMA FrameStep == FrameInv /\ [Next]_vars => FrameInv'
<1> SUFFICES ASSUME FrameInv, [Next]_vars
             PROVE  FrameInv'
  OBVIOUS
<1>1. CASE ReadRequest
  BY <1>1 DEF ReadRequest, FrameInv, AnswersLikeTheDevice
<1>2. CASE RejectRequest \/ DenyWrite
  <2>1. resp'.exc \in {ExcIllegalFunction, ExcIllegalAddress, ExcIllegalValue}
    BY <1>2 DEF RejectRequest, DenyWrite, Answer, BuildExceptionResponse, RejectedWith, None
  <2>2. resp'.exc # 0 /\ stage' = "answered" /\ frame' = frame
    BY <1>2, <2>1 DEF RejectRequest, DenyWrite, Answer, ExcIllegalFunction, ExcIllegalAddress,
                      ExcIllegalValue
  <2>3. QED
    BY <2>2 DEF FrameInv, AnswersLikeTheDevice
<1>3. CASE IgnoreWrite
  <2>1. frame.fc \notin OpaqueFunctions
    BY <1>3, FramesAssumption DEF IgnoreWrite, req, Request
  <2>2. QED
    BY <1>3, <2>1 DEF IgnoreWrite, Answer, buildFakeWriteResponse, DeviceEcho, FrameInv,
                      AnswersLikeTheDevice, req, Request
<1>4. CASE Forward
  BY <1>4 DEF Forward, FrameInv, AnswersLikeTheDevice, req
<1>5. CASE WriteReturns
  <2>1. frame.fc \notin OpaqueFunctions
    BY <1>5, FramesAssumption DEF WriteReturns, req, Request
  <2>2. QED
    BY <1>5, <2>1 DEF WriteReturns, Answer, buildWriteResponse, FrameInv, AnswersLikeTheDevice,
                      DeviceEcho, req, Request
<1>6. CASE UNCHANGED vars
  BY <1>6 DEF vars, FrameInv, AnswersLikeTheDevice, req
<1>7. QED
  BY <1>1, <1>2, <1>3, <1>4, <1>5, <1>6 DEF Next

\* The invariant holds for every frame.
THEOREM FrameInvariant == Spec => []FrameInv
BY FrameInit, FrameStep, PTL DEF Spec

-----------------------------------------------------------------------------
\* parsePDU never slices outside the PDU, whatever the frame.
THEOREM NoSliceOutOfBounds == Spec => []SliceInBounds
<1>1. FrameInv => SliceInBounds
  <2> SUFFICES ASSUME FrameInv, stage = "parsed", frame.fc \in WriteFunctions
               PROVE  /\ DataLow(frame) <= DataHigh(frame) /\ DataHigh(frame) <= PduLen(frame)
                      /\ frame.fc \in MultipleWrites => req.data = frame.byteCount
    BY DEF SliceInBounds
  <2>1. CASE frame.fc \in MultipleWrites
    <3>1. DataHigh(frame) = 6 + frame.byteCount /\ 6 + frame.byteCount <= PduLen(frame)
      BY <2>1, DataInPdu DEF FrameInv
    <3>2. DataLow(frame) = 6 /\ frame.byteCount \in Nat
      BY <2>1, FunctionsDiffer, FrameFields DEF FrameInv, DataLow
    <3>3. QED
      BY <3>1, <3>2 DEF req, Request
  <2>2. CASE frame.fc \in SingleWrites
    BY <2>2, FunctionsDiffer DEF FrameInv, PduOK, DataLow, DataHigh
  <2>3. QED
    BY <2>1, <2>2 DEF WriteFunctions
<1>2. QED
  BY <1>1, FrameInvariant, PTL

\* A write is answered like the device would, forwarded or not, whatever it is.
THEOREM WritesAnsweredAlike == Spec => []AnswersLikeTheDevice
<1>1. FrameInv => AnswersLikeTheDevice
  BY DEF FrameInv
<1>2. QED
  BY <1>1, FrameInvariant, PTL

\* Whatever ValidateRequest lets through fits a PDU, and so does its answer.
THEOREM ValidRequestsFit == Spec => []ForwardedFits
<1>1. FrameInv => ForwardedFits
  <2> SUFFICES ASSUME FrameInv, stage = "forwarded"
               PROVE  /\ req.fc = FuncWriteMultipleCoils => 8 * req.data \in req.qty .. req.qty + 7
                      /\ req.fc = FuncWriteMultipleRegs => req.data = 2 * req.qty
                      /\ req.fc \in MultipleWrites => 6 + req.data <= 253
                      /\ req.fc \in ReadFunctions =>
                            /\ ReadByteCount(req) = Byte(ReadByteCount(req))
                            /\ 2 + ReadByteCount(req) <= 253
    BY DEF ForwardedFits
  <2>1. req.qty \in Nat
    BY FrameFields DEF FrameInv, req, Request
  <2>2. req.fc \in ReadFunctions \cup MultipleWrites =>
           req.qty >= 1 /\ req.qty <= QuantityLimit[req.fc]
    BY <2>1 DEF FrameInv, ValidateRequest, Checked
  <2>3. req.fc \in MultipleWrites => req.data = ExpectedData(req)
    BY DEF FrameInv, ValidateRequest, Checked, WellFormed
  <2>4. CASE req.fc = FuncWriteMultipleCoils
    <3>1. req.fc \in MultipleWrites /\ req.fc \notin ReadFunctions
      BY <2>4, FunctionsDiffer DEF MultipleWrites
    <3>2. req.qty <= 1968
      BY <2>2, <2>4, <3>1, LimitAssumption
    <3>3. req.data = (req.qty + 7) \div 8
      BY <2>1, <2>3, <2>4, <3>1, <3>2, Uint16Id DEF ExpectedData
    <3>4. req.fc # FuncWriteMultipleRegs
      BY <2>4 DEF FuncWriteMultipleCoils, FuncWriteMultipleRegs
    <3>5. QED
      BY <2>1, <3>1, <3>2, <3>3, <3>4, BytesOfBits
  <2>5. CASE req.fc = FuncWriteMultipleRegs
    <3>1. req.fc \in MultipleWrites /\ req.fc \notin ReadFunctions
      BY <2>5, FunctionsDiffer DEF MultipleWrites
    <3>2. req.qty <= 123 /\ req.fc # FuncWriteMultipleCoils
      BY <2>2, <2>5, <3>1, LimitAssumption DEF FuncWriteMultipleCoils, FuncWriteMultipleRegs
    <3>3. req.data = req.qty * 2
      BY <2>3, <3>1, <3>2 DEF ExpectedData
    <3>4. QED
      BY <2>1, <3>1, <3>2, <3>3
  <2>6. CASE req.fc \in {FuncReadCoils, FuncReadDiscreteInputs}
    <3>1. req.fc \in ReadFunctions /\ req.fc \notin MultipleWrites
      BY <2>6, FunctionsDiffer DEF ReadFunctions
    <3>2. req.qty <= 2000
      BY <2>2, <2>6, <3>1, LimitAssumption
    <3>3. ReadByteCount(req) = (req.qty + 7) \div 8
      BY <2>1, <2>6, <3>2, Uint16Id DEF ReadByteCount
    <3>4. ReadByteCount(req) \in Nat /\ ReadByteCount(req) <= 250
      BY <2>1, <3>2, <3>3, BytesOfBits
    <3>5. QED
      BY <3>1, <3>4, ByteId DEF MultipleWrites
  <2>7. CASE req.fc \in {FuncReadHoldingRegisters, FuncReadInputRegisters}
    <3>1. req.fc \in ReadFunctions /\ req.fc \notin MultipleWrites
      BY <2>7, FunctionsDiffer DEF ReadFunctions
    <3>2. req.qty <= 125
      BY <2>2, <2>7, <3>1, LimitAssumption
    <3>3. ReadByteCount(req) = Uint16(req.qty * 2)
      BY <2>7 DEF ReadByteCount, FuncReadCoils, FuncReadDiscreteInputs,
                  FuncReadHoldingRegisters, FuncReadInputRegisters
    <3>4. ReadByteCount(req) = req.qty * 2
      BY <2>1, <3>2, <3>3, Uint16Id
    <3>5. QED
      BY <2>1, <3>1, <3>2, <3>4, ByteId DEF MultipleWrites
  <2>8. CASE req.fc \notin ReadFunctions \cup MultipleWrites
    BY <2>8 DEF MultipleWrites
  <2>9. QED
    BY <2>4, <2>5, <2>6, <2>7, <2>8 DEF ReadFunctions, MultipleWrites
<1>2. QED
  BY <1>1, FrameInvariant, PTL

-----------------------------------------------------------------------------
(* The values in a response: bits and bytes. *)

\* The weights, one by one.
LEMMA Weights ==
    /\ Weight[0] = 1 /\ Weight[1] = 2 /\ Weight[2] = 4 /\ Weight[3] = 8
    /\ Weight[4] = 16 /\ Weight[5] = 32 /\ Weight[6] = 64 /\ Weight[7] = 128
BY DEF Weight

\* The bits of the byte of a set are the set.
LEMMA BitOfByte ==
    ASSUME NEW S
    PROVE  /\ ByteOf(S) \in 0 .. 255
           /\ \A i \in 0 .. 7 : Bit(ByteOf(S), i) = IF i \in S THEN 1 ELSE 0
<1> DEFINE B == [i \in 0 .. 7 |-> IF i \in S THEN 1 ELSE 0]
           n == ByteOf(S)
<1>1. PICK a \in {0, 1} : a = B[0]
  OBVIOUS
<1>2. PICK b \in {0, 1} : b = B[1]
  OBVIOUS
<1>3. PICK c \in {0, 1} : c = B[2]
  OBVIOUS
<1>4. PICK d \in {0, 1} : d = B[3]
  OBVIOUS
<1>5. PICK e \in {0, 1} : e = B[4]
  OBVIOUS
<1>6. PICK f \in {0, 1} : f = B[5]
  OBVIOUS
<1>7. PICK g \in {0, 1} : g = B[6]
  OBVIOUS
<1>8. PICK h \in {0, 1} : h = B[7]
  OBVIOUS
<1>9. n = a + 2 * b + 4 * c + 8 * d + 16 * e + 32 * f + 64 * g + 128 * h
  BY <1>1, <1>2, <1>3, <1>4, <1>5, <1>6, <1>7, <1>8, Weights DEF ByteOf
<1> HIDE DEF B, n
<1>10. /\ n \in 0 .. 255
       /\ (n \div 1) % 2 = a /\ (n \div 2) % 2 = b /\ (n \div 4) % 2 = c
       /\ (n \div 8) % 2 = d /\ (n \div 16) % 2 = e /\ (n \div 32) % 2 = f
       /\ (n \div 64) % 2 = g /\ (n \div 128) % 2 = h
  BY <1>9
<1>11. \A i \in 0 .. 7 : Bit(n, i) = B[i]
  <2> SUFFICES ASSUME NEW i \in 0 .. 7 PROVE Bit(n, i) = B[i]
    OBVIOUS
  <2>1. i = 0 \/ i = 1 \/ i = 2 \/ i = 3 \/ i = 4 \/ i = 5 \/ i = 6 \/ i = 7
    OBVIOUS
  <2> QED  BY <1>1, <1>2, <1>3, <1>4, <1>5, <1>6, <1>7, <1>8, <1>10, <2>1, Weights DEF Bit
<1> QED  BY <1>10, <1>11 DEF n, B

\* Coil k is bit k % 8 of byte k \div 8.
LEMMA CoilPlace ==
    ASSUME NEW k \in Nat, NEW q \in Nat
    PROVE  /\ k \div 8 \in Nat /\ k % 8 \in 0 .. 7 /\ k = 8 * (k \div 8) + (k % 8)
           /\ (q + 7) \div 8 \in Nat /\ q <= 8 * ((q + 7) \div 8)
           /\ k < 8 * ((q + 7) \div 8) => k \div 8 + 1 \in 1 .. (q + 7) \div 8
<1>1. k \div 8 \in Nat /\ k % 8 \in 0 .. 7 /\ k = 8 * (k \div 8) + (k % 8)
  OBVIOUS
<1>2. (q + 7) \div 8 \in Nat /\ q <= 8 * ((q + 7) \div 8)
  OBVIOUS
<1> QED  BY <1>1, <1>2

\* A range of the device.
Within(addr, qty) == addr \in Cells /\ qty \in 1 .. LastAddr + 1 /\ addr + qty <= LastAddr + 1

\* How the payload holds the device's value of the k-th address of its range.
Holds(payload, addr, k) ==
    device.mem[addr + k] = IF device.fc \in BitFunctions
                           THEN <<Bit(payload[k \div 8 + 1], k % 8)>>
                           ELSE <<payload[2 * k + 1], payload[2 * k + 2]>>

\* The value of an address of the device.
LEMMA CellValue ==
    ASSUME device \in Devices, NEW a \in Cells
    PROVE  IF device.fc \in BitFunctions THEN device.mem[a] \in {<<0>>, <<1>>}
           ELSE device.mem[a] \in (0 .. 255) \X (0 .. 255)
BY DevicesAssumption DEF Cells

\* The device's full payload of a range of coils holds them, whatever the padding.
LEMMA FullBits ==
    ASSUME device \in Devices, device.fc \in BitFunctions, NEW addr, NEW qty, NEW pad, Within(addr, qty)
    PROVE  /\ FullPayload(addr, qty, pad) \in [1 .. ByteCount(device.fc, qty) -> 0 .. 255]
           /\ ByteCount(device.fc, qty) \in Nat
           /\ \A k \in 0 .. qty - 1 : Holds(FullPayload(addr, qty, pad), addr, k)
<1> DEFINE Value(k) == IF k < qty THEN device.mem[addr + k] ELSE <<IF k % 8 \in pad THEN 1 ELSE 0>>
           Ones(j) == {b \in 0 .. 7 : Value(8 * (j - 1) + b) = <<1>>}
           n == ByteCount(device.fc, qty)
           p == FullPayload(addr, qty, pad)
<1>1. n \in Nat /\ n = (qty + 7) \div 8 /\ qty \in Nat /\ addr \in Nat /\ LastAddr \in Nat
  BY DevicesAssumption DEF ByteCount, Within, Cells
<1>2. p = [j \in 1 .. n |-> ByteOf(Ones(j))]
  BY DEF FullPayload
<1>3. p \in [1 .. n -> 0 .. 255]
  <2> HIDE DEF Ones, n, p
  <2> QED  BY <1>2, BitOfByte
<1>4. ASSUME NEW k \in 0 .. qty - 1
      PROVE  Holds(p, addr, k)
  <2> DEFINE j == k \div 8 + 1
             i == k % 8
  <2>1. k \in Nat /\ i \in 0 .. 7 /\ k = 8 * (j - 1) + i /\ j \in 1 .. n
    BY <1>1, CoilPlace
  <2>2. Value(k) = device.mem[addr + k] /\ addr + k \in Cells
    BY <1>1 DEF Within, Cells
  <2>3. i \in Ones(j) <=> device.mem[addr + k] = <<1>>
    <3> HIDE DEF Value, j, i
    <3>1. i \in Ones(j) <=> Value(k) = <<1>>
      BY <2>1
    <3> QED  BY <2>2, <3>1, Zenon
  <2>4. p[j] = ByteOf(Ones(j))
    BY <1>2, <2>1
  <2>5. device.mem[addr + k] \in {<<0>>, <<1>>}
    BY <2>2, CellValue
  <2>6. Bit(p[j], i) = IF i \in Ones(j) THEN 1 ELSE 0
    <3> HIDE DEF Ones, j, i, p
    <3> QED  BY <2>1, <2>4, BitOfByte
  <2>7. Bit(p[j], i) = IF device.mem[addr + k] = <<1>> THEN 1 ELSE 0
    <3> HIDE DEF Ones, j, i, p
    <3> QED  BY <2>6, <2>3
  <2>8. device.mem[addr + k] = <<Bit(p[j], i)>>
    <3> HIDE DEF j, i, p
    <3> QED  BY <2>7, <2>5
  <2> QED  BY <2>8 DEF Holds
<1> QED  BY <1>1, <1>3, <1>4

\* The device's full payload of a range of registers holds them.
LEMMA FullWords ==
    ASSUME device \in Devices, device.fc \notin BitFunctions, NEW addr, NEW qty, NEW pad, Within(addr, qty)
    PROVE  /\ FullPayload(addr, qty, pad) \in [1 .. ByteCount(device.fc, qty) -> 0 .. 255]
           /\ ByteCount(device.fc, qty) \in Nat
           /\ \A k \in 0 .. qty - 1 : Holds(FullPayload(addr, qty, pad), addr, k)
<1> DEFINE Value(k) == IF k < qty THEN device.mem[addr + k] ELSE <<IF k % 8 \in pad THEN 1 ELSE 0>>
           n == ByteCount(device.fc, qty)
           p == FullPayload(addr, qty, pad)
<1>1. n \in Nat /\ n = 2 * qty /\ qty \in Nat /\ addr \in Nat /\ LastAddr \in Nat
  BY DevicesAssumption DEF ByteCount, Within, Cells
<1>2. p = [j \in 1 .. n |-> Value((j - 1) \div 2)[((j - 1) % 2) + 1]]
  BY DEF FullPayload
<1>3. ASSUME NEW k \in 0 .. qty - 1
      PROVE  Value(k) = device.mem[addr + k] /\ device.mem[addr + k] \in (0 .. 255) \X (0 .. 255)
  <2>1. Value(k) = device.mem[addr + k] /\ addr + k \in Cells
    BY <1>1 DEF Within, Cells
  <2> QED  BY <2>1, CellValue
<1>4. p \in [1 .. n -> 0 .. 255]
  <2>1. ASSUME NEW j \in 1 .. n
        PROVE  Value((j - 1) \div 2)[((j - 1) % 2) + 1] \in 0 .. 255
    <3> DEFINE k == (j - 1) \div 2
               m == ((j - 1) % 2) + 1
    <3>1. k \in 0 .. qty - 1 /\ m \in {1, 2}
      BY <1>1
    <3> HIDE DEF Value, k, m
    <3>2. Value(k) \in (0 .. 255) \X (0 .. 255)
      BY <3>1, <1>3
    <3>3. Value(k)[m] \in 0 .. 255
      BY <3>1, <3>2
    <3> QED  BY <3>3 DEF k, m
  <2> HIDE DEF Value, n, p
  <2> QED  BY <1>2, <2>1
<1>5. ASSUME NEW k \in 0 .. qty - 1
      PROVE  Holds(p, addr, k)
  <2>1. 2 * k + 1 \in 1 .. n /\ 2 * k + 2 \in 1 .. n /\ ((2 * k + 1) - 1) \div 2 = k /\ ((2 * k + 2) - 1) \div 2 = k
        /\ (((2 * k + 1) - 1) % 2) + 1 = 1 /\ (((2 * k + 2) - 1) % 2) + 1 = 2
    BY <1>1
  <2>2. p[2 * k + 1] = Value(k)[1] /\ p[2 * k + 2] = Value(k)[2]
    <3> HIDE DEF Value, n, p
    <3> QED  BY <1>2, <2>1
  <2>3. device.mem[addr + k] = <<p[2 * k + 1], p[2 * k + 2]>>
    <3> HIDE DEF Value, n, p
    <3> QED  BY <1>3, <2>2
  <2> QED  BY <2>3 DEF Holds
<1> QED  BY <1>1, <1>4, <1>5

\* The device's full payload of any range holds the range's values.
LEMMA FullHolds ==
    ASSUME device \in Devices, NEW addr, NEW qty, NEW pad, Within(addr, qty)
    PROVE  /\ ByteCount(device.fc, qty) \in Nat
           /\ FullPayload(addr, qty, pad) \in Seq(0 .. 255)
           /\ Len(FullPayload(addr, qty, pad)) = ByteCount(device.fc, qty)
           /\ \A k \in 0 .. qty - 1 : Holds(FullPayload(addr, qty, pad), addr, k)
<1> DEFINE p == FullPayload(addr, qty, pad)
           n == ByteCount(device.fc, qty)
<1>1. n \in Nat /\ p \in [1 .. n -> 0 .. 255] /\ \A k \in 0 .. qty - 1 : Holds(p, addr, k)
  BY FullBits, FullWords
<1> HIDE DEF p, n
<1>2. p \in Seq(0 .. 255) /\ Len(p) = n
  BY <1>1
<1> QED  BY <1>1, <1>2 DEF p, n

\* The bytes of a value lie within the bytes of its range.
LEMMA BytesOf ==
    ASSUME NEW fc, NEW qty \in Nat, NEW k \in 0 .. qty - 1
    PROVE  IF fc \in BitFunctions THEN k \div 8 + 1 \in 1 .. ByteCount(fc, qty)
           ELSE 2 * k + 1 \in 1 .. ByteCount(fc, qty) /\ 2 * k + 2 \in 1 .. ByteCount(fc, qty)
BY DEF ByteCount

\* A payload that holds the range's values is taken apart into them.
LEMMA Decomposed ==
    ASSUME NEW addr, NEW qty \in Nat, NEW payload, Len(payload) >= ByteCount(device.fc, qty),
           Len(payload) \in Nat, ByteCount(device.fc, qty) \in Nat, addr \in Nat,
           \A k \in 0 .. qty - 1 : Holds(payload, addr, k)
    PROVE  decomposeResponse(device.fc, qty, payload) = [i \in 1 .. qty |-> device.mem[addr + i - 1]]
<1> DEFINE v == [i \in 1 .. qty |-> IF device.fc \in BitFunctions
                                    THEN <<Bit(payload[(i - 1) \div 8 + 1], (i - 1) % 8)>>
                                    ELSE <<payload[2 * i - 1], payload[2 * i]>>]
<1>1. decomposeResponse(device.fc, qty, payload) = v
  BY DEF decomposeResponse
<1>2. ASSUME NEW i \in 1 .. qty
      PROVE  v[i] = device.mem[addr + i - 1]
  <2>1. i - 1 \in 0 .. qty - 1 /\ 2 * (i - 1) + 1 = 2 * i - 1 /\ 2 * (i - 1) + 2 = 2 * i
        /\ addr + (i - 1) = addr + i - 1
    OBVIOUS
  <2>2. Holds(payload, addr, i - 1)
    BY <2>1
  <2>3. CASE device.fc \in BitFunctions
    BY <2>1, <2>2, <2>3 DEF Holds
  <2>4. CASE device.fc \notin BitFunctions
    BY <2>1, <2>2, <2>4 DEF Holds
  <2> QED  BY <2>3, <2>4
<1> QED  BY <1>1, <1>2

\* Whatever the device sends for a range, the values taken from it are the range's, or none.
LEMMA DecomposedPayloads ==
    ASSUME device \in Devices, NEW addr, NEW qty, Within(addr, qty), NEW payload \in Payloads(addr, qty)
    PROVE  decomposeResponse(device.fc, qty, payload)
              \in {<<>>, [i \in 1 .. qty |-> device.mem[addr + i - 1]]}
<1> DEFINE n == ByteCount(device.fc, qty)
<1>1. addr \in Nat /\ qty \in Nat /\ qty >= 1
  BY DevicesAssumption DEF Within, Cells
<1>2. n \in Nat /\ n >= 1
  BY <1>1, FullHolds DEF ByteCount
<1>3. ASSUME NEW pad \in Paddings, NEW m \in 0 .. n - 1,
             payload = SubSeq(FullPayload(addr, qty, pad), 1, m)
      PROVE  decomposeResponse(device.fc, qty, payload) = <<>>
  <2> DEFINE full == FullPayload(addr, qty, pad)
  <2>1. full \in Seq(0 .. 255) /\ Len(full) = n
    BY FullHolds
  <2> HIDE DEF full, n
  <2>2. Len(SubSeq(full, 1, m)) = m
    BY <1>2, <2>1
  <2> QED  BY <1>2, <1>3, <2>2 DEF decomposeResponse, n, full
<1>4. ASSUME NEW pad \in Paddings, NEW tail \in Tails,
             payload = FullPayload(addr, qty, pad) \o tail
      PROVE  decomposeResponse(device.fc, qty, payload) = [i \in 1 .. qty |-> device.mem[addr + i - 1]]
  <2> DEFINE full == FullPayload(addr, qty, pad)
             long == full \o tail
  <2>1. full \in Seq(0 .. 255) /\ Len(full) = n /\ \A k \in 0 .. qty - 1 : Holds(full, addr, k)
    BY FullHolds
  <2>2. tail \in Seq(0 .. 255)
    BY TailsAssumption
  <2>3. Len(long) \in Nat /\ Len(long) >= n /\ \A j \in 1 .. n : long[j] = full[j]
    <3> HIDE DEF full, n
    <3> QED  BY <1>2, <2>1, <2>2
  <2>4. ASSUME NEW k \in 0 .. qty - 1
        PROVE  Holds(long, addr, k)
    <3>1. Holds(full, addr, k)
      BY <2>1
    <3>2. IF device.fc \in BitFunctions THEN k \div 8 + 1 \in 1 .. n
          ELSE 2 * k + 1 \in 1 .. n /\ 2 * k + 2 \in 1 .. n
      BY <1>1, BytesOf
    <3> HIDE DEF full, n, long
    <3> QED  BY <2>3, <3>1, <3>2 DEF Holds
  <2>5. Len(payload) \in Nat /\ Len(payload) >= n /\ \A k \in 0 .. qty - 1 : Holds(payload, addr, k)
    <3> HIDE DEF n
    <3> QED  BY <1>4, <2>3, <2>4, Zenon
  <2> QED  BY <1>1, <1>2, <2>5, Decomposed, Zenon
<1> QED  BY <1>3, <1>4 DEF Payloads

\* The bits after the last coil are zero.
NoBitsAfter(p, qty) == \A k \in qty .. 8 * Len(p) - 1 : Bit(p[k \div 8 + 1], k % 8) = 0

\* The payload put together from values of the device: each value in its place, and
\* the bits after the last coil zero.
LEMMA AssembledBits ==
    ASSUME device \in Devices, device.fc \in BitFunctions, NEW addr, NEW qty, Within(addr, qty), NEW values,
           \A i \in 1 .. qty : values[i] = device.mem[addr + i - 1]
    PROVE  LET p == assembleResponse(device.fc, qty, values)
           IN  /\ Len(p) = ByteCount(device.fc, qty)
               /\ \A k \in 0 .. qty - 1 : device.mem[addr + k] = <<Bit(p[k \div 8 + 1], k % 8)>>
               /\ NoBitsAfter(p, qty)
<1> DEFINE Ones(j) == {b \in 0 .. 7 : 8 * (j - 1) + b < qty /\ values[8 * (j - 1) + b + 1][1] # 0}
           n == ByteCount(device.fc, qty)
           p == assembleResponse(device.fc, qty, values)
<1>1. n \in Nat /\ n = (qty + 7) \div 8 /\ qty \in Nat /\ addr \in Nat /\ LastAddr \in Nat
  BY DevicesAssumption DEF ByteCount, Within, Cells
<1>2. p = [j \in 1 .. n |-> ByteOf(Ones(j))]
  BY DEF assembleResponse
<1>3. Len(p) = n
  <2> HIDE DEF Ones, n, p
  <2> QED  BY <1>1, <1>2
<1>4. ASSUME NEW k \in Nat, k < 8 * n
      PROVE  Bit(p[k \div 8 + 1], k % 8) = IF k < qty /\ values[k + 1][1] # 0 THEN 1 ELSE 0
  <2> DEFINE j == k \div 8 + 1
             i == k % 8
  <2>1. i \in 0 .. 7 /\ k = 8 * (j - 1) + i /\ j \in 1 .. n
    BY <1>1, <1>4, CoilPlace
  <2>2. p[j] = ByteOf(Ones(j))
    <3> HIDE DEF Ones, n, p, j
    <3> QED  BY <1>2, <2>1
  <2>3. i \in Ones(j) <=> k < qty /\ values[k + 1][1] # 0
    <3> HIDE DEF i, j
    <3> QED  BY <2>1
  <2>4. Bit(p[j], i) = IF i \in Ones(j) THEN 1 ELSE 0
    <3> HIDE DEF Ones, j, i, p
    <3> QED  BY <2>1, <2>2, BitOfByte
  <2> QED  BY <2>3, <2>4
<1>5. ASSUME NEW k \in 0 .. qty - 1
      PROVE  device.mem[addr + k] = <<Bit(p[k \div 8 + 1], k % 8)>>
  <2>1. k \in Nat /\ k < 8 * n /\ k < qty /\ addr + k \in Cells /\ k + 1 \in 1 .. qty /\ addr + (k + 1) - 1 = addr + k
    BY <1>1, CoilPlace DEF Within, Cells
  <2>2. device.mem[addr + k] \in {<<0>>, <<1>>} /\ values[k + 1] = device.mem[addr + k]
    BY <2>1, CellValue
  <2>3. Bit(p[k \div 8 + 1], k % 8) = IF values[k + 1][1] # 0 THEN 1 ELSE 0
    BY <1>4, <2>1
  <2> HIDE DEF p
  <2> QED  BY <2>2, <2>3
<1>6. ASSUME NEW k \in qty .. 8 * n - 1
      PROVE  Bit(p[k \div 8 + 1], k % 8) = 0
  <2>1. k \in Nat /\ k < 8 * n /\ ~(k < qty)
    BY <1>1
  <2> QED  BY <1>4, <2>1
<1> QED  BY <1>3, <1>5, <1>6 DEF NoBitsAfter

\* Two bytes of a payload.
LEMMA TwoBytes ==
    ASSUME NEW S, NEW p \in Seq(S), NEW a \in 1 .. Len(p) - 1
    PROVE  SubSeq(p, a, a + 1) = <<p[a], p[a + 1]>>
<1> DEFINE s == SubSeq(p, a, a + 1)
<1>1. Len(p) \in Nat /\ a \in Int /\ a + 1 \in Int /\ a <= a + 1 /\ (a + 1) - a + 1 = 2
      /\ a + 1 - 1 = a /\ a + 2 - 1 = a + 1
  OBVIOUS
<1>2. \A i \in a .. a + 1 : p[i] \in S
  <2>1. \A i \in a .. a + 1 : i \in 1 .. Len(p)
    BY <1>1
  <2> QED  BY <2>1
<1>3. s \in Seq(S) /\ Len(s) = 2 /\ \A i \in 1 .. 2 : s[i] = p[a + i - 1]
  BY <1>1, <1>2, SubSeqProperties
<1> HIDE DEF s
<1>4. s[1] = p[a] /\ s[2] = p[a + 1] /\ s = <<s[1], s[2]>>
  BY <1>1, <1>3
<1> QED  BY <1>4 DEF s

\* The same of registers: two bytes each.
LEMMA AssembledWords ==
    ASSUME device \in Devices, device.fc \notin BitFunctions, NEW addr, NEW qty, Within(addr, qty), NEW values,
           \A i \in 1 .. qty : values[i] = device.mem[addr + i - 1]
    PROVE  LET p == assembleResponse(device.fc, qty, values)
           IN  /\ Len(p) = ByteCount(device.fc, qty)
               /\ \A k \in 0 .. qty - 1 : device.mem[addr + k] = SubSeq(p, 2 * k + 1, 2 * k + 2)
<1> DEFINE n == ByteCount(device.fc, qty)
           p == assembleResponse(device.fc, qty, values)
<1>1. n \in Nat /\ n = 2 * qty /\ qty \in Nat /\ addr \in Nat /\ LastAddr \in Nat
  BY DevicesAssumption DEF ByteCount, Within, Cells
<1>2. p = [j \in 1 .. n |-> values[(j + 1) \div 2][2 - (j % 2)]]
  BY DEF assembleResponse
<1>3. ASSUME NEW i \in 1 .. qty
      PROVE  values[i] = device.mem[addr + i - 1] /\ values[i] \in (0 .. 255) \X (0 .. 255)
  <2>1. addr + i - 1 \in Cells
    BY <1>1 DEF Within, Cells
  <2> QED  BY <2>1, CellValue
<1>4. p \in [1 .. n -> 0 .. 255]
  <2>1. ASSUME NEW j \in 1 .. n
        PROVE  values[(j + 1) \div 2][2 - (j % 2)] \in 0 .. 255
    <3> DEFINE i == (j + 1) \div 2
               m == 2 - (j % 2)
    <3>1. i \in 1 .. qty /\ m \in {1, 2}
      BY <1>1
    <3> HIDE DEF i, m
    <3>2. values[i] \in (0 .. 255) \X (0 .. 255)
      BY <3>1, <1>3
    <3>3. values[i][m] \in 0 .. 255
      BY <3>1, <3>2
    <3> QED  BY <3>3 DEF i, m
  <2> HIDE DEF n, p
  <2> QED  BY <1>2, <2>1
<1>5. p \in Seq(0 .. 255) /\ Len(p) = n
  <2> HIDE DEF n, p
  <2> QED  BY <1>1, <1>4
<1>6. ASSUME NEW k \in 0 .. qty - 1
      PROVE  device.mem[addr + k] = SubSeq(p, 2 * k + 1, 2 * k + 2)
  <2>1. 2 * k + 1 \in 1 .. n /\ 2 * k + 2 \in 1 .. n /\ k + 1 \in 1 .. qty /\ k \in Nat
        /\ addr + (k + 1) - 1 = addr + k
        /\ ((2 * k + 1) + 1) \div 2 = k + 1 /\ ((2 * k + 2) + 1) \div 2 = k + 1
        /\ 2 - ((2 * k + 1) % 2) = 1 /\ 2 - ((2 * k + 2) % 2) = 2
    BY <1>1
  <2>2. p[2 * k + 1] = values[k + 1][1] /\ p[2 * k + 2] = values[k + 1][2]
    <3> HIDE DEF n, p
    <3> QED  BY <1>2, <2>1
  <2>3. device.mem[addr + k] = <<p[2 * k + 1], p[2 * k + 2]>>
    <3>1. values[k + 1] = device.mem[addr + k] /\ values[k + 1] \in (0 .. 255) \X (0 .. 255)
      BY <1>3, <2>1
    <3> HIDE DEF n, p
    <3> QED  BY <3>1, <2>2
  <2>4. SubSeq(p, 2 * k + 1, 2 * k + 2) = <<p[2 * k + 1], p[2 * k + 2]>>
    <3> HIDE DEF n, p
    <3>1. (2 * k + 1) + 1 = 2 * k + 2 /\ 2 * k + 1 \in 1 .. Len(p) - 1
      BY <1>1, <1>5, <2>1
    <3> QED  BY <1>5, <3>1, TwoBytes
  <2> QED  BY <2>3, <2>4
<1> QED  BY <1>5, <1>6

\* What the proofs carry: the device is one of Devices, its values are cached and answered.
ValueInv == device \in Devices /\ CacheHoldsDevice /\ HitIsDeviceAnswer

\* A miss caches the device's values, or nothing.
LEMMA FetchStep ==
    ASSUME ValueInv, NEW addr, NEW qty, Within(addr, qty), Fetch(addr, qty)
    PROVE  ValueInv'
<1>1. device' = device /\ device \in Devices /\ answer' = NoAnswer
  BY DEF ValueInv, Fetch
<1>2. PICK payload \in Payloads(addr, qty) :
         LET values == decomposeResponse(device.fc, qty, payload)
         IN  cache' = [a \in Cells |-> IF a - addr + 1 \in DOMAIN values
                                       THEN values[a - addr + 1] ELSE cache[a]]
  BY DEF Fetch
<1> DEFINE values == decomposeResponse(device.fc, qty, payload)
           read == [i \in 1 .. qty |-> device.mem[addr + i - 1]]
<1>3. values = <<>> \/ values = read
  BY <1>1, DecomposedPayloads
<1>4. cache' = [a \in Cells |-> IF a - addr + 1 \in DOMAIN values
                                THEN values[a - addr + 1] ELSE cache[a]]
  BY <1>2
<1>5. ASSUME NEW a \in Cells
      PROVE  cache'[a] \in {<<>>, device.mem[a]}
  <2>1. cache[a] \in {<<>>, device.mem[a]}
    BY DEF ValueInv, CacheHoldsDevice
  <2> HIDE DEF values
  <2>2. CASE values = <<>>
    BY <1>4, <2>1, <2>2
  <2>3. CASE values = read
    <3>1. addr + (a - addr + 1) - 1 = a
      BY DevicesAssumption DEF Within, Cells
    <3>2. CASE a - addr + 1 \in 1 .. qty
      BY <1>4, <2>3, <3>1, <3>2
    <3>3. CASE a - addr + 1 \notin 1 .. qty
      BY <1>4, <2>1, <2>3, <3>3
    <3> QED  BY <3>2, <3>3
  <2> QED  BY <1>3, <2>2, <2>3
<1> QED  BY <1>1, <1>5 DEF ValueInv, CacheHoldsDevice, HitIsDeviceAnswer

\* A hit answers as the device would.
LEMMA HitStep ==
    ASSUME ValueInv, NEW addr, NEW qty, Within(addr, qty), Hit(addr, qty)
    PROVE  ValueInv'
<1> DEFINE values == [i \in 1 .. qty |-> cache[addr + i - 1]]
           p == assembleResponse(device.fc, qty, values)
<1>1. device' = device /\ cache' = cache /\ device \in Devices /\ CacheHoldsDevice
  BY DEF ValueInv, Hit
<1>2. answer' = [addr |-> addr, qty |-> qty, payload |-> p]
  BY DEF Hit
<1>3. \A i \in 1 .. qty : values[i] = device.mem[addr + i - 1]
  <2> TAKE i \in 1 .. qty
  <2>1. addr + i - 1 \in Cells /\ addr + i - 1 \in addr .. addr + qty - 1
    BY DevicesAssumption DEF Within, Cells
  <2>2. cache[addr + i - 1] # <<>> /\ cache[addr + i - 1] \in {<<>>, device.mem[addr + i - 1]}
    BY <1>1, <2>1 DEF Hit, Cached, CacheHoldsDevice
  <2> QED  BY <2>2
<1> HIDE DEF values
<1>4. CASE device.fc \in BitFunctions
  <2>1. /\ Len(p) = ByteCount(device.fc, qty)
        /\ \A k \in 0 .. qty - 1 : device.mem[addr + k] = <<Bit(p[k \div 8 + 1], k % 8)>>
        /\ NoBitsAfter(p, qty)
    BY <1>1, <1>3, <1>4, AssembledBits, Zenon
  <2> HIDE DEF p
  <2>2. HitIsDeviceAnswer'
    BY <1>1, <1>2, <1>4, <2>1 DEF HitIsDeviceAnswer, NoBitsAfter
  <2> QED  BY <1>1, <2>2 DEF ValueInv, CacheHoldsDevice
<1>5. CASE device.fc \notin BitFunctions
  <2>1. /\ Len(p) = ByteCount(device.fc, qty)
        /\ \A k \in 0 .. qty - 1 : device.mem[addr + k] = SubSeq(p, 2 * k + 1, 2 * k + 2)
    BY <1>1, <1>3, <1>5, AssembledWords
  <2> HIDE DEF p
  <2>2. HitIsDeviceAnswer'
    BY <1>1, <1>2, <1>5, <2>1 DEF HitIsDeviceAnswer
  <2> QED  BY <1>1, <2>2 DEF ValueInv, CacheHoldsDevice
<1> QED  BY <1>4, <1>5

\* The invariant of the cached bytes.
LEMMA ValuesInvariant == ValueSpec => []ValueInv
<1>1. ValueInit => ValueInv
  BY DEF ValueInit, ValueInv, CacheHoldsDevice, HitIsDeviceAnswer
<1>2. ValueInv /\ [ValueNext]_valueVars => ValueInv'
  <2> SUFFICES ASSUME ValueInv, [ValueNext]_valueVars
               PROVE  ValueInv'
    OBVIOUS
  <2>1. ASSUME NEW r \in Ranges, Fetch(r[1], r[2]) \/ Hit(r[1], r[2])
        PROVE  ValueInv'
    <3>1. Within(r[1], r[2])
      BY DEF Ranges, Within
    <3> QED  BY <2>1, <3>1, FetchStep, HitStep
  <2>2. CASE UNCHANGED valueVars
    BY <2>2 DEF valueVars, ValueInv, CacheHoldsDevice, HitIsDeviceAnswer
  <2> QED  BY <2>1, <2>2 DEF ValueNext
<1> QED  BY <1>1, <1>2, PTL DEF ValueSpec

\* However responses were cut off, padded or overlapped, the cache of a device that
\* holds still holds the device's values (decomposeResponse caches nothing from a
\* response that does not cover its range).
THEOREM CacheHoldsDeviceAlways == ValueSpec => []CacheHoldsDevice
BY ValuesInvariant, PTL DEF ValueInv

\* assembleResponse puts every response together as the device would send it.
THEOREM HitsAnswerLikeDevice == ValueSpec => []HitIsDeviceAnswer
BY ValuesInvariant, PTL DEF ValueInv
=============================================================================
