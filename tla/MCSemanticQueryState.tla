------------------------- MODULE MCSemanticQueryState -------------------------
(* Small instances of SemanticQueryState.                                  *)
EXTENDS SemanticQueryState, TLC

CONSTANTS s1, p1, p2, r1, off, on
=============================================================================
