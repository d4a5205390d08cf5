------------------------------- MODULE Upstream -------------------------------
(***************************************************************************)
(* What a call of Client.Execute promises: the device receives a read at   *)
(* most twice and any other request at most once, and a call that returns  *)
(* an answer of the device, a result or an exception, has been received by *)
(* it.  A request may still be received after its call has failed.         *)
(***************************************************************************)
EXTENDS Naturals

CONSTANTS Calls, Limit          \* Limit[c]: how often the device may receive c

VARIABLES outcome, received

Outcomes == {"ok", "exception", "failed"}

Init ==
    /\ outcome = [c \in Calls |-> "pending"]
    /\ received = [c \in Calls |-> 0]

DeviceReceives(c) ==
    /\ received[c] < Limit[c]
    /\ received' = [received EXCEPT ![c] = @ + 1]
    /\ UNCHANGED outcome

Return(c, o) ==
    /\ outcome[c] = "pending"
    /\ o # "failed" => received[c] > 0
    /\ outcome' = [outcome EXCEPT ![c] = o]
    /\ UNCHANGED received

Next == \E c \in Calls : DeviceReceives(c) \/ \E o \in Outcomes : Return(c, o)

Spec == Init /\ [][Next]_<<outcome, received>>
=============================================================================
