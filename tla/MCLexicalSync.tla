--------------------------- MODULE MCLexicalSync ---------------------------
(* Two nodes, so that a call for one commits what a failed call for the    *)
(* other left staged.                                                      *)
EXTENDS LexicalSync

CONSTANTS n1, n2

MCNode == {n1, n2}
=============================================================================
