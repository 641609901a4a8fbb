----------------------------- MODULE MCObjects -----------------------------
(* Instances of Objects for TLC: "/", an object below and one below that.   *)
EXTENDS Objects

ThreePaths == {<< >>, <<"a">>, <<"a", "b">>}
=============================================================================
