-------------------------- MODULE MCAttachedStream --------------------------
(* A window of seven bytes: every line fits with its delimiter into an      *)
(* empty window, the longest one fills all but one byte of it.              *)
EXTENDS AttachedStream

MCLine == {<<>>, <<"x">>, <<"y", "z", "x", "y">>}
=============================================================================
