---------------------------- MODULE MCRollingCode ----------------------------
(* RollingCode on small instances.                                         *)
EXTENDS RollingCode

(* Past a restart that lost codes, or past the roll-over of the outbound   *)
(* code, the properties claim nothing more: such states are checked but    *)
(* not explored further.                                                   *)
StillClaimed == lost = {} /\ rolled = {}
=============================================================================
