------------------------ MODULE MCSolanaBlockLoader ------------------------
(* SolanaBlockLoader on a short chain.                                     *)
EXTENDS SolanaBlockLoader

(* Failures anywhere. *)
AllPoints == PCs
=============================================================================
