------------------------- MODULE MCPurchaseWorkflow -------------------------
(***************************************************************************)
(* Instances of the workflow: one request, two suppliers, two handlers.     *)
(***************************************************************************)
EXTENDS PurchaseWorkflow, TLC

\* Handlers are interchangeable; so are suppliers of one kind (Catalog = {}).
SymmetryOneKind == Permutations(Handler) \cup Permutations(Supplier)
=============================================================================
