-------------------------------- MODULE Frames --------------------------------
(***************************************************************************)
(* Requests on the wire: readRequest and parsePDU (modbus/server.go), the  *)
(* checks of ValidateRequest that module Modbus abstracts to wellFormed    *)
(* (modbus/client.go), and the answer to a write (modbus/client.go when it *)
(* is forwarded, proxy.go when read-only mode swallows it).                *)
(*                                                                         *)
(* A frame is the fields of its header and PDU that are looked at; of the  *)
(* bytes of the write data only their number counts.  Machine integers     *)
(* keep their width.                                                       *)
(***************************************************************************)
EXTENDS Modbus, Exceptions

CONSTANTS
    Lengths,            \* the length fields, addresses, quantities, byte counts
    FrameAddrs,         \* and first data words that a frame is made of
    Quantities,
    ByteCounts,
    Words,
    OpaqueFunctions     \* function codes that are neither read nor write

ASSUME FramesAssumption ==
    /\ \A n \in Lengths \cup FrameAddrs \cup Quantities \cup Words : n \in Nat /\ n < 65536
    /\ \A n \in ByteCounts \cup OpaqueFunctions : n \in Nat /\ n < 256
    /\ OpaqueFunctions \cap (ReadFunctions \cup WriteFunctions) = {}

\* The limits of ValidateRequest.
ASSUME LimitAssumption ==
    /\ \A f \in {FuncReadCoils, FuncReadDiscreteInputs} : QuantityLimit[f] = 2000
    /\ \A f \in {FuncReadHoldingRegisters, FuncReadInputRegisters} : QuantityLimit[f] = 125
    /\ QuantityLimit[FuncWriteMultipleCoils] = 1968
    /\ QuantityLimit[FuncWriteMultipleRegs] = 123

VARIABLES
    stage,      \* where handleConn is with the request
    mode,       \* cfg.ReadOnly
    frame,
    resp        \* the answer: an exception, or the words of a write response

vars == <<stage, mode, frame, resp>>

Byte(n)   == n % 256
Uint16(n) == n % 65536

Frames == [fc : ReadFunctions \cup WriteFunctions \cup OpaqueFunctions, protocol : {0, 1},
           length : Lengths, addr : FrameAddrs, qty : Quantities, byteCount : ByteCounts,
           word : Words]

-----------------------------------------------------------------------------
(* readRequest and parsePDU. *)

PduLen(f) == f.length - 1

\* Defect: the limit of the whole frame is used for the PDU.
HeaderOKLong(f) == f.protocol = 0 /\ PduLen(f) \in 1 .. 260

HeaderOK(f) == f.protocol = 0 /\ PduLen(f) \in 1 .. 253

\* parsePDU accepts.
PduOK(f) ==
    PduLen(f) >= IF f.fc \in ReadFunctions \cup SingleWrites THEN 5
                 ELSE IF f.fc \in MultipleWrites THEN 6 + f.byteCount ELSE 1

\* The bounds of req.Data in the PDU: pdu[low : high], high computed in a byte.
DataLow(f)  == IF f.fc \in SingleWrites THEN 3 ELSE 6
DataHigh(f) == IF f.fc \in SingleWrites THEN 5 ELSE Byte(6 + f.byteCount)

\* The request of a frame; word is the first word of its data.
Request(f) ==
    [fc   |-> f.fc,
     addr |-> IF f.fc \in OpaqueFunctions THEN 0 ELSE f.addr,
     qty  |-> IF f.fc \in OpaqueFunctions THEN 0 ELSE IF f.fc \in SingleWrites THEN 1 ELSE f.qty,
     data |-> IF f.fc \in WriteFunctions THEN DataHigh(f) - DataLow(f) ELSE 0,
     word |-> f.word]

-----------------------------------------------------------------------------
(* ValidateRequest, for a request that parsePDU made. *)

\* Defect: a last, partly filled byte is not counted.
ExpectedDataTruncated(r) == IF r.fc = FuncWriteMultipleCoils THEN r.qty \div 8 ELSE r.qty * 2

ExpectedData(r) ==
    IF r.fc = FuncWriteMultipleCoils THEN Uint16(r.qty + 7) \div 8 ELSE r.qty * 2

WellFormed(r) ==
    /\ r.fc \in SingleWrites => r.data >= 2
    /\ r.fc = FuncWriteSingleCoil => r.word \in {0, 65280}
    /\ r.fc \in MultipleWrites => r.data = ExpectedData(r)

Checked(r) == [fc |-> r.fc, addr |-> r.addr, qty |-> r.qty, wellFormed |-> WellFormed(r)]

\* The address is checked last.
RejectedWith(r) ==
    IF ValidateRequest([Checked(r) EXCEPT !.addr = 0]) THEN ExcIllegalAddress ELSE ExcIllegalValue

-----------------------------------------------------------------------------
(* The answers. *)

None == [exc |-> 0, fc |-> 0, addr |-> 0, word |-> 0]

BuildExceptionResponse(fc, code) ==
    [None EXCEPT !.exc = code, !.fc = IF fc < 128 THEN fc + 128 ELSE fc]

\* Defect: a multiple write is answered with its data, like a single one.
buildFakeEchoes(r) == [exc |-> 0, fc |-> r.fc, addr |-> r.addr, word |-> r.word]

buildFakeWriteResponse(r) ==
    [exc |-> 0, fc |-> r.fc, addr |-> r.addr,
     word |-> IF r.fc \in SingleWrites THEN r.word ELSE r.qty]

buildWriteResponse(fc, addr, word) == [exc |-> 0, fc |-> fc, addr |-> addr, word |-> word]

\* External: the word a device answers a write with, the value it wrote or how
\* many it wrote.
DeviceEcho(r) == IF r.fc \in SingleWrites THEN r.word ELSE r.qty

\* The bytes of data in the answer that assembleResponse makes to a read.  The
\* answer of the device has as many when it is complete; buildReadResponse takes
\* over whatever it has.
ReadByteCount(r) ==
    IF r.fc \in {FuncReadCoils, FuncReadDiscreteInputs} THEN Uint16(r.qty + 7) \div 8
    ELSE Uint16(r.qty * 2)

-----------------------------------------------------------------------------
Init ==
    /\ stage = "reading" /\ resp = None
    /\ mode \in {"false", "true", "deny"}
    /\ frame \in Frames

req == Request(frame)

\* An error of readRequest closes the connection.
ReadRequest ==
    /\ stage = "reading"
    /\ stage' = IF HeaderOK(frame) /\ PduOK(frame) THEN "parsed" ELSE "closed"
    /\ UNCHANGED <<mode, frame, resp>>

\* HandleRequest up to the call of the client: what it answers by itself.
Answer(r) ==
    stage' = "answered" /\ resp' = r /\ UNCHANGED <<mode, frame>>

RejectRequest ==
    /\ stage = "parsed" /\ ~ValidateRequest(Checked(req))
    /\ Answer(BuildExceptionResponse(req.fc, RejectedWith(req)))

IgnoreWrite ==
    /\ stage = "parsed" /\ ValidateRequest(Checked(req))
    /\ req.fc \in WriteFunctions /\ mode = "true"
    /\ Answer(buildFakeWriteResponse(req))

DenyWrite ==
    /\ stage = "parsed" /\ ValidateRequest(Checked(req))
    /\ req.fc \in WriteFunctions /\ mode = "deny"
    /\ Answer(BuildExceptionResponse(req.fc, ExcIllegalFunction))

Forward ==
    /\ stage = "parsed" /\ ValidateRequest(Checked(req))
    /\ req.fc \in WriteFunctions => mode = "false"
    /\ stage' = "forwarded"
    /\ UNCHANGED <<mode, frame, resp>>

\* executeRequest of a write.
WriteReturns ==
    /\ stage = "forwarded" /\ req.fc \in WriteFunctions
    /\ Answer(buildWriteResponse(req.fc, req.addr, DeviceEcho(req)))

Next == ReadRequest \/ RejectRequest \/ IgnoreWrite \/ DenyWrite \/ Forward \/ WriteReturns

Spec == Init /\ [][Next]_vars

-----------------------------------------------------------------------------
\* parsePDU slices the data of a write inside the PDU it has read, and takes
\* byteCount bytes: 6+byteCount in a byte never wraps, because readRequest limits
\* the PDU to 253 bytes.
SliceInBounds ==
    stage = "parsed" /\ frame.fc \in WriteFunctions =>
        /\ DataLow(frame) <= DataHigh(frame) /\ DataHigh(frame) <= PduLen(frame)
        /\ frame.fc \in MultipleWrites => req.data = frame.byteCount

\* What ValidateRequest lets through can be sent and answered: the data of a
\* multiple write are the bytes its quantity takes, no fewer and no more, the
\* request fits a PDU, and the byte count of a complete answer to a read fits its
\* byte and the answer fits a PDU.
ForwardedFits ==
    stage = "forwarded" =>
        /\ req.fc = FuncWriteMultipleCoils => 8 * req.data \in req.qty .. req.qty + 7
        /\ req.fc = FuncWriteMultipleRegs => req.data = 2 * req.qty
        /\ req.fc \in MultipleWrites => 6 + req.data <= 253
        /\ req.fc \in ReadFunctions =>
              ReadByteCount(req) = Byte(ReadByteCount(req)) /\ 2 + ReadByteCount(req) <= 253

\* A client cannot tell from the answer whether its write was forwarded or
\* swallowed by read-only mode: a positive answer is always the device's.
AnswersLikeTheDevice ==
    stage = "answered" /\ resp.exc = 0 =>
        resp.fc = frame.fc /\ resp.addr = frame.addr /\ resp.word = DeviceEcho(req)

===============================================================================
