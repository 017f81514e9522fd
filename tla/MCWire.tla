-------------------------------- MODULE MCWire --------------------------------
(***************************************************************************)
(* Wire for TLC: a root manifest that is a member as well, and two other   *)
(* members.  Where it lists captrack as a dependency already, wire patches *)
(* and records it once, like a root that is no member.                     *)
(***************************************************************************)
EXTENDS Wire

CONSTANTS a, b

RootAndTwo == <<Root, a, b>>
=============================================================================
