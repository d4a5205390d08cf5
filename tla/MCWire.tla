-------------------------------- MODULE MCWire --------------------------------
(***************************************************************************)
(* Model checking of one request on its way: the time it gets and what its *)
(* failures become (MCRequest), and the bytes on the wire.  Frames has the *)
(* code's own limits, and Values ten coils, so that ranges cross a byte,   *)
(* or ten registers with different bytes everywhere.  None shares state    *)
(* with another: a behaviour is one of a single module.                    *)
(***************************************************************************)
EXTENDS MCRequest, Frames, Values

VARIABLE layer      \* "request", "frames" or "values"

wireVars == <<layer, requestVars, vars, valueVars>>

MCLimit == [f \in ReadFunctions \cup MultipleWrites |->
               CASE f \in {FuncReadCoils, FuncReadDiscreteInputs} -> 2000
                 [] f \in {FuncReadHoldingRegisters, FuncReadInputRegisters} -> 125
                 [] f = FuncWriteMultipleCoils -> 1968
                 [] f = FuncWriteMultipleRegs  -> 123]

Coils(f, on) == [fc |-> f, mem |-> [a \in Cells |-> <<IF a \in on THEN 1 ELSE 0>>]]

MCDevices ==
    {Coils(FuncReadCoils, on) : on \in {{7, 8}, {0, 1, 3, 6, 9}}}
       \cup {Coils(FuncReadDiscreteInputs, Cells)}
       \cup {[fc |-> f, mem |-> [a \in Cells |-> <<2 * a + 1, 2 * a + 2>>]] :
                f \in {FuncReadHoldingRegisters, FuncReadInputRegisters}}

MCPaddings == {{}, 0 .. 7, {1, 2, 5}}
MCTails    == {<<>>, <<255>>, <<0, 1, 255>>}

FramesIdle  == stage = "none" /\ mode = "none" /\ frame = 0 /\ resp = None
ValuesIdle  == ValueInit /\ device = Coils(FuncReadCoils, {7, 8})
RequestIdle == RequestInit /\ part = "errors"

WireInit ==
    \/ layer = "request" /\ RequestInit /\ FramesIdle /\ ValuesIdle
    \/ layer = "frames" /\ RequestIdle /\ Init /\ ValuesIdle
    \/ layer = "values" /\ RequestIdle /\ FramesIdle /\ ValueInit

WireNext ==
    /\ UNCHANGED layer
    /\ \/ layer = "request" /\ RequestNext /\ UNCHANGED <<vars, valueVars>>
       \/ layer = "frames" /\ Next /\ UNCHANGED <<requestVars, valueVars>>
       \/ layer = "values" /\ ValueNext /\ UNCHANGED <<requestVars, vars>>

WireSpec == WireInit /\ [][WireNext]_wireVars
===============================================================================
