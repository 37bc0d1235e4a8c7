------------------------ MODULE MCApprovalEndpoints ------------------------
(***************************************************************************)
(* Instances of the ways a decision comes in.                               *)
(***************************************************************************)
EXTENDS ApprovalEndpoints, TLC
=============================================================================
