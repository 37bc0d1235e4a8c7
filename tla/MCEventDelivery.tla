--------------------------- MODULE MCEventDelivery ---------------------------
(***************************************************************************)
(* Instances of event delivery: two jobs, one client.                       *)
(***************************************************************************)
EXTENDS EventDelivery
=============================================================================
