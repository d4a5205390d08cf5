------------------------------ MODULE Exceptions ------------------------------
(***************************************************************************)
(* The exception codes of the protocol (internal/modbus/server.go).        *)
(***************************************************************************)
ExcIllegalFunction     == 1
ExcIllegalAddress      == 2
ExcIllegalValue        == 3
ExcServerFailure       == 4
ExcGatewayTargetFailed == 11
===============================================================================
