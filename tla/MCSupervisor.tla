---------------------------- MODULE MCSupervisor ----------------------------
(* Supervisor as TLC checks it: every variable is finite.                  *)
EXTENDS Supervisor
=============================================================================
