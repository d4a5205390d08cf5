------------------------------- MODULE Modbus -------------------------------
(***************************************************************************)
(* Requests as HandleRequest sees them: function codes (modbus/server.go)  *)
(* and local validation (modbus/client.go).  A request is the record       *)
(*   [slave, fc, addr, qty, wellFormed]                                    *)
(* where wellFormed abstracts the checks of its bytes: the length of the   *)
(* write data, the value of a coil, the PDU of an opaque request.          *)
(***************************************************************************)
EXTENDS Addresses

CONSTANT
    QuantityLimit   \* function code -> largest quantity: 2000 bits or 125
                    \* registers to read, 1968 bits or 123 registers to write

FuncReadCoils            == 1
FuncReadDiscreteInputs   == 2
FuncReadHoldingRegisters == 3
FuncReadInputRegisters   == 4
FuncWriteSingleCoil      == 5
FuncWriteSingleRegister  == 6
FuncWriteMultipleCoils   == 15
FuncWriteMultipleRegs    == 16

ReadFunctions == {FuncReadCoils, FuncReadDiscreteInputs,
                  FuncReadHoldingRegisters, FuncReadInputRegisters}

SingleWrites   == {FuncWriteSingleCoil, FuncWriteSingleRegister}
MultipleWrites == {FuncWriteMultipleCoils, FuncWriteMultipleRegs}
WriteFunctions == SingleWrites \cup MultipleWrites

IsReadFunction(fc)  == fc \in ReadFunctions
IsWriteFunction(fc) == fc \in WriteFunctions

\* parsePDU gives a single write the quantity 1 and leaves the address and
\* the quantity of an opaque request at zero.
Parsed(r) ==
    /\ r.fc \in SingleWrites => r.qty = 1
    /\ r.fc \notin ReadFunctions \cup WriteFunctions => r.addr = 0 /\ r.qty = 0

ValidateRequest(r) ==
    /\ r.wellFormed
    /\ r.fc \in ReadFunctions \cup MultipleWrites => r.qty \in 1 .. QuantityLimit[r.fc]
    /\ r.fc \in ReadFunctions \cup WriteFunctions => r.addr + r.qty <= AddrSpace
=============================================================================
