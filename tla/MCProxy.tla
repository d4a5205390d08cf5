------------------------------ MODULE MCProxy ------------------------------
(***************************************************************************)
(* Model checking of Proxy: one slave, two registers.                      *)
(***************************************************************************)
EXTENDS Proxy, TLC

CONSTANTS h1, h2, h3

Request(f, a, q) == [slave |-> 1, fc |-> f, addr |-> a, qty |-> q, wellFormed |-> TRUE]

MCTwo   == {h1, h2}
MCThree == {h1, h2, h3}

MCLimit == [f \in ReadFunctions \cup MultipleWrites |-> 2]

\* Two readers of one register and a writer.
MCTwoReaders == (h1 :> {Request(3, 0, 1)}) @@ (h2 :> {Request(3, 0, 1)})
                   @@ (h3 :> {Request(6, 0, 1)})

\* Reads of overlapping ranges through two function codes that see the same
\* registers; a write of both registers, an invalid and an opaque request.
MCRanges == (h1 :> {Request(3, 0, 2), Request(4, 1, 1)})
               @@ (h2 :> {Request(3, 0, 1), Request(16, 0, 2), Request(3, 1, 2), Request(65, 0, 0)})

\* Two clients that read and write one register.
MCReadWrite == [p \in MCTwo |-> {Request(3, 0, 1), Request(6, 0, 1)}]

MCReaderSymmetry == Permutations({h1, h2})
=============================================================================
