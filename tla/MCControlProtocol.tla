-------------------------- MODULE MCControlProtocol --------------------------
(* ControlProtocol with outbound and inbound requests that overlap.           *)
EXTENDS ControlProtocol
=============================================================================
