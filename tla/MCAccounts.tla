----------------------------- MODULE MCAccounts -----------------------------
(* Two clients, one address typed in two ways, two accounts in a life.       *)
EXTENDS AccountsRequirements, TLC

CONSTANTS Ann, ANN, ann, good, short

MCFold == (Ann :> ann) @@ (ANN :> ann)

MCSymmetry == Permutations(Clients)
=============================================================================
