-------------------------------- MODULE MCTab --------------------------------
(* TabSession with its tabs as interchangeable model values. *)
EXTENDS TabSession, TLC

=============================================================================
