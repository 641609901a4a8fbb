---------------------------- MODULE MCTechnology ----------------------------
(* Instances of Technology for TLC.  No technology is special, and runs for *)
(* safety use the symmetry.                                                 *)
EXTENDS Technology, TLC

CONSTANTS wifi, ethernet

PathsSymmetry == Permutations({wifi, ethernet})
=============================================================================
