------------------------------- MODULE MCClient -------------------------------
(* Small instances of Client. *)
EXTENDS Client, TLC

CONSTANTS c1, c2, c3

MCTwo   == {c1, c2}
MCThree == {c1, c2, c3}

\* Two requests; and a request, the Connect of Run and a Close at any time.
MCReadWrite        == c1 :> "read" @@ c2 :> "write"
MCReadConnectClose == c1 :> "read" @@ c2 :> "connect" @@ c3 :> "close"
=============================================================================
