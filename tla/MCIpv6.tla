------------------------------- MODULE MCIpv6 -------------------------------
(* Instances of Ipv6 for TLC. *)
EXTENDS Ipv6
=============================================================================
