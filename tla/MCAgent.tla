------------------------------ MODULE MCAgent ------------------------------
(* Instances of Agent for TLC.  Paths are interchangeable: only equality    *)
(* with the selected path is tested, so safety runs use their symmetry.     *)
EXTENDS Agent, TLC

CONSTANTS p1, p2

PathsSymmetry == Permutations({p1, p2})
=============================================================================
