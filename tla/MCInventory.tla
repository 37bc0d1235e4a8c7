----------------------------- MODULE MCInventory -----------------------------
(***************************************************************************)
(* Instances of the stock: one product on the shelf, and two receipts that  *)
(* name one barcode under different SKUs, the second of them twice.         *)
(***************************************************************************)
EXTENDS Inventory, TLC
CONSTANTS r1, r2, cola, chips, soap, b1

MCLines ==
    r1 :> <<[sku |-> chips, barcode |-> b1, quantity |-> 1]>> @@
    r2 :> <<[sku |-> cola, barcode |-> b1, quantity |-> 1],
            [sku |-> soap, barcode |-> b1, quantity |-> 1]>>
=============================================================================
