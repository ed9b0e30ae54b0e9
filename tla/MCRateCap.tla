------------------------------ MODULE MCRateCap ------------------------------
(* RateCap with its threads as interchangeable model values.                *)
EXTENDS RateCapHistory, TLC

ThreadSymmetry == Permutations(Workers)
=============================================================================
