----------------------------- MODULE MCManager -----------------------------
(* Instances of Manager for TLC.  Of the daemon's states one is shown as    *)
(* connected; the other, association, the user interface has no name for.   *)
EXTENDS Manager
=============================================================================
