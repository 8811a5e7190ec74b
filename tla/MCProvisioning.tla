---------------------------- MODULE MCProvisioning ----------------------------
(* Provisioning on a small instance: one device of each kind, and a mapping *)
(* of which an update drops a config.                                      *)
EXTENDS Provisioning, TLC

CONSTANTS blind, switch, shutter

MCMapping == << <<"rssi", "relay">>, <<"rssi">> >>
MCPast == {
  [list |-> {blind},   former |-> {shutter}, taught |-> {}],
  [list |-> {shutter}, former |-> {},        taught |-> {switch}] }
MCAttempts == (blind :> 0) @@ (switch :> 2) @@ (shutter :> 0)
=============================================================================
