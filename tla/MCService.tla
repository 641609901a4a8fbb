----------------------------- MODULE MCService -----------------------------
(* Instances of Service for TLC.                                            *)
EXTENDS Service, TLC

CONSTANTS a, b

PathsSymmetry == Permutations({a, b})
=============================================================================
