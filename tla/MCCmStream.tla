----------------------------- MODULE MCCmStream -----------------------------
(* A window of six bytes: lines of 0, 1 and 3 bytes cross the wrap at every *)
(* offset, and a line of 5 bytes fits where its delimiter does not.         *)
EXTENDS CmStream

MCLine == {<<>>, <<"x">>, <<"x", "y", "z">>, <<"x", "x", "y", "y", "z">>}
=============================================================================
