----------------------------- MODULE Addresses -----------------------------
(***************************************************************************)
(* The register addresses of a slave: uint16 in the code, so that          *)
(* startAddr+i wraps around at the end of the address space.               *)
(***************************************************************************)
EXTENDS Integers

CONSTANT AddrSpace      \* size of the address space, 65536 in the code

ASSUME AddressAssumption == AddrSpace \in Nat \ {0}

Addrs == 0 .. AddrSpace - 1

\* The addresses of q registers from a on.
RangeAddrs(a, q) == {(a + i) % AddrSpace : i \in 0 .. q - 1}
=============================================================================
