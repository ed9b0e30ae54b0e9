------------------------------- MODULE MCSync -------------------------------
(***************************************************************************)
(* Three requests: "a" and "b" ask different feeds for the same window, so *)
(* they share an idempotency key; "long" asks for a window with more pages *)
(* than the ceiling.                                                       *)
(***************************************************************************)
EXTENDS SyncRequirements, TLC

AllRequests == {"a", "b", "long"}
TwinRequests == {"a", "b"}

MCKeyOf == [r \in Requests |-> IF r = "long" THEN "kLong" ELSE "kShort"]
MCSourceOf == [r \in Requests |-> "feed-" \o r]
MCPageCount == [s \in {"feed-" \o r : r \in Requests} |->
                   CASE s = "feed-a" -> 2 [] s = "feed-b" -> 1 [] s = "feed-long" -> 3]

ThreadSymmetry == Permutations(Workers)
=============================================================================
