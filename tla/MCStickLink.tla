----------------------------- MODULE MCStickLink -----------------------------
(* StickLink on small instances.                                           *)
EXTENDS StickLink

AllCommands == Commands
=============================================================================
