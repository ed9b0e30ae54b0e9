-------------------------------- MODULE MCPage --------------------------------
(* ReceiptPage with its tabs and samples as model values. *)
EXTENDS ReceiptPage, TLC
=============================================================================
