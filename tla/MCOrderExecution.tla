-------------------------- MODULE MCOrderExecution --------------------------
(***************************************************************************)
(* Two merchants, two rows that may share a proposal, two suppliers, one of  *)
(* them behind the catalog, two deciders and two executors, and a clock that *)
(* passes the deadline of either row.                                       *)
(***************************************************************************)
EXTENDS OrderExecution, TLC

MCSpendingLimit == [m \in Merchant |-> 2]

Symmetry == Permutations(Executor) \cup Permutations(ApprovalId) \cup Permutations(Proposal)
              \cup Permutations(Decider) \cup Permutations(Merchant)
=============================================================================
