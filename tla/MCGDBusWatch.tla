---------------------------- MODULE MCGDBusWatch ----------------------------
(* Instances of GDBusWatch for TLC. *)
EXTENDS GDBusWatch

CONSTANTS s1, s2, n1, n2
=============================================================================
