------------------------------- MODULE MCAudit -------------------------------
(* AuditChain with interchangeable threads and contents. *)
EXTENDS AuditChain, TLC

LogSymmetry == Permutations(Contents) \cup Permutations(Approvers)
=============================================================================
