------------------------ MODULE MCSupplierFulfilment ------------------------
(***************************************************************************)
(* Instances of the supplier's side: two orders for the same stock.         *)
(***************************************************************************)
EXTENDS SupplierFulfilment
=============================================================================
