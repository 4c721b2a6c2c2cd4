--------------------------- MODULE MCStockLedger ---------------------------
(***************************************************************************)
(* A small instance of StockLedger; stock.cfg gives the constants their    *)
(* values.                                                                 *)
(***************************************************************************)
EXTENDS StockLedger
=============================================================================
