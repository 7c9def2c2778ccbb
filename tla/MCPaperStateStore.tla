------------------------- MODULE MCPaperStateStore -------------------------
(* The store with a two-statement buffer, so that one save_portfolio call  *)
(* overflows it half way.                                                  *)
EXTENDS PaperStateStore
=============================================================================
