----------------------------- MODULE MCPolicySpec -----------------------------
(* Three claimable days, every pair of limits up to 4. *)
EXTENDS PolicySpec

MCDays == 0..2
=============================================================================
