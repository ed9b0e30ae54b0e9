----------------------------- MODULE MCAllocation -----------------------------
(* Small books of obligations, cash from overdrawn to abundant, and samples  *)
(* of three to five scenarios.                                                *)
EXTENDS AllocationRequirements

MCItems == [amount : {1, 3, 4}, rate : {1, 2}, rigid : BOOLEAN]

MCCashLevels == {-1, 0, 1, 3, 4, 7}

MCBatches == {<<0, 8, 8>>, <<0, 4, 8, 8>>, <<4, 4, 8, 8>>, <<-4, 0, 4, 8>>, <<-4, 4, 4, 8, 8>>}
=============================================================================
