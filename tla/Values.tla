-------------------------------- MODULE Values --------------------------------
(***************************************************************************)
(* The bytes of read responses (internal/proxy/proxy.go): a response is    *)
(* taken apart into one cached value per register or coil, and a response  *)
(* to any cached range is put together again.  Of handleRead only what it  *)
(* does with the bytes is kept: values expire and are deleted in modules   *)
(* Cache and Proxy.                                                        *)
(*                                                                         *)
(* The device is external.  It holds still, and answers the requested      *)
(* range, with some padding after the last coil, cut off after any byte,   *)
(* or with more bytes after it.                                            *)
(***************************************************************************)
EXTENDS Modbus, Sequences

CONSTANTS
    Devices,        \* the devices tried: records [fc, mem], one value per address
    LastAddr,       \* the highest address of those devices
    Paddings,       \* sets of bits: the ones on after the last coil of a byte
    Tails,          \* what a device sends after the bytes that were asked for
    MaxFetches      \* how many responses of the device are cached

VARIABLES
    device,         \* external
    cache,          \* the values cached for device.fc; <<>> where there is none
    fetches,
    answer          \* the last response put together: its range and payload

valueVars == <<device, cache, fetches, answer>>

Cells == 0 .. LastAddr

BitFunctions == {FuncReadCoils, FuncReadDiscreteInputs}

\* A coil is a bit, a register two bytes.
ASSUME DevicesAssumption ==
    /\ LastAddr \in Nat
    /\ \A d \in Devices :
          /\ d.fc \in ReadFunctions
          /\ d.mem \in [Cells -> IF d.fc \in BitFunctions THEN {<<0>>, <<1>>}
                                 ELSE (0 .. 255) \X (0 .. 255)]

ASSUME TailsAssumption == \A tail \in Tails : tail \in Seq(0 .. 255)

\* 1 << i, for the bits of a byte.
Weight == [i \in 0 .. 7 |-> CASE i = 0 -> 1  [] i = 1 -> 2  [] i = 2 -> 4  [] i = 3 -> 8
                             [] i = 4 -> 16 [] i = 5 -> 32 [] i = 6 -> 64 [] i = 7 -> 128]

Bit(byte, i) == (byte \div Weight[i]) % 2

\* The byte with the bits of a set.
ByteOf(bits) ==
    LET At(i) == IF i \in bits THEN Weight[i] ELSE 0
    IN  At(0) + At(1) + At(2) + At(3) + At(4) + At(5) + At(6) + At(7)

ByteCount(fc, qty) == IF fc \in BitFunctions THEN (qty + 7) \div 8 ELSE 2 * qty

-----------------------------------------------------------------------------
\* Defect: what the response does not hold is taken to be zero.
decomposePadded(fc, qty, payload) ==
    LET At(j) == IF j <= Len(payload) THEN payload[j] ELSE 0
    IN  [i \in 1 .. qty |-> IF fc \in BitFunctions
                            THEN <<Bit(At((i - 1) \div 8 + 1), (i - 1) % 8)>>
                            ELSE <<At(2 * i - 1), At(2 * i)>>]

\* The values of a response, nil (here <<>>) when it is too short.
decomposeResponse(fc, qty, payload) ==
    IF Len(payload) < ByteCount(fc, qty) THEN <<>>
    ELSE [i \in 1 .. qty |-> IF fc \in BitFunctions
                             THEN <<Bit(payload[(i - 1) \div 8 + 1], (i - 1) % 8)>>
                             ELSE <<payload[2 * i - 1], payload[2 * i]>>]

\* Defect: the first coil is the highest bit.
assembleReversed(fc, qty, values) ==
    [j \in 1 .. ByteCount(fc, qty) |->
        IF fc \in BitFunctions
        THEN ByteOf({b \in 0 .. 7 : 8 * j - b <= qty /\ values[8 * j - b][1] # 0})
        ELSE values[(j + 1) \div 2][2 - (j % 2)]]

\* The payload with the given values.
assembleResponse(fc, qty, values) ==
    [j \in 1 .. ByteCount(fc, qty) |->
        IF fc \in BitFunctions
        THEN ByteOf({b \in 0 .. 7 : 8 * (j - 1) + b < qty /\ values[8 * (j - 1) + b + 1][1] # 0})
        ELSE values[(j + 1) \div 2][2 - (j % 2)]]

-----------------------------------------------------------------------------
\* External: the payloads a device may send for a range.
FullPayload(addr, qty, pad) ==
    LET Value(k) == IF k < qty THEN device.mem[addr + k] ELSE <<IF k % 8 \in pad THEN 1 ELSE 0>>
    IN  [j \in 1 .. ByteCount(device.fc, qty) |->
            IF device.fc \in BitFunctions
            THEN ByteOf({b \in 0 .. 7 : Value(8 * (j - 1) + b) = <<1>>})
            ELSE Value((j - 1) \div 2)[((j - 1) % 2) + 1]]

Payloads(addr, qty) ==
    {SubSeq(FullPayload(addr, qty, pad), 1, n) :
        pad \in Paddings, n \in 0 .. ByteCount(device.fc, qty) - 1}
    \cup {FullPayload(addr, qty, pad) \o tail : pad \in Paddings, tail \in Tails}

-----------------------------------------------------------------------------
NoAnswer == [addr |-> 0, qty |-> 0, payload |-> <<>>]

Ranges == {r \in Cells \X (1 .. LastAddr + 1) : r[1] + r[2] <= LastAddr + 1}

ValueInit ==
    /\ device \in Devices
    /\ cache = [a \in Cells |-> <<>>]
    /\ fetches = 0
    /\ answer = NoAnswer

Cached(addr, qty) == \A a \in addr .. addr + qty - 1 : cache[a] # <<>>

\* A miss: what the device sends is taken apart and cached.
Fetch(addr, qty) ==
    /\ ~Cached(addr, qty) /\ fetches < MaxFetches
    /\ \E payload \in Payloads(addr, qty) :
          LET values == decomposeResponse(device.fc, qty, payload)
          IN  cache' = [a \in Cells |-> IF a - addr + 1 \in DOMAIN values
                                        THEN values[a - addr + 1] ELSE cache[a]]
    /\ fetches' = fetches + 1 /\ answer' = NoAnswer
    /\ UNCHANGED device

\* A hit, or stale values after a failed fetch: the same bytes.
Hit(addr, qty) ==
    /\ Cached(addr, qty)
    /\ answer' = [addr |-> addr, qty |-> qty,
                  payload |-> assembleResponse(device.fc, qty,
                                               [i \in 1 .. qty |-> cache[addr + i - 1]])]
    /\ UNCHANGED <<device, cache, fetches>>

ValueNext == \E r \in Ranges : Fetch(r[1], r[2]) \/ Hit(r[1], r[2])

ValueSpec == ValueInit /\ [][ValueNext]_valueVars

-----------------------------------------------------------------------------
\* Every cached value is the device's, whatever range it was read in and however
\* the response was cut off or padded: decomposeResponse caches nothing from a
\* response that does not cover its range.
CacheHoldsDevice == \A a \in Cells : cache[a] \in {<<>>, device.mem[a]}

\* A response put together from values that were read in other ranges, at other
\* bit positions, is byte for byte what the device would send: the value of each
\* address in its place, and the bits after the last coil zero.
HitIsDeviceAnswer ==
    answer # NoAnswer =>
        /\ Len(answer.payload) = ByteCount(device.fc, answer.qty)
        /\ \A k \in 0 .. answer.qty - 1 :
              device.mem[answer.addr + k] =
                 IF device.fc \in BitFunctions
                 THEN <<Bit(answer.payload[k \div 8 + 1], k % 8)>>
                 ELSE SubSeq(answer.payload, 2 * k + 1, 2 * k + 2)
        /\ device.fc \in BitFunctions =>
              \A k \in answer.qty .. 8 * Len(answer.payload) - 1 :
                 Bit(answer.payload[k \div 8 + 1], k % 8) = 0

===============================================================================
