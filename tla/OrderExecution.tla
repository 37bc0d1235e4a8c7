--------------------------- MODULE OrderExecution ---------------------------
(***************************************************************************)
(* OrderService.execute (application/services/order_service.py) as          *)
(* DatabaseTransactionExecutor runs it: one database transaction that       *)
(* looks for an existing order, locks and re-checks the approval, inserts   *)
(* the order under its unique constraints, calls the supplier, and only     *)
(* then commits.  Each await at which another session can act, or at which  *)
(* the transaction can be lost, separates two actions.  The approvals       *)
(* table, its locks and the clock are those of ApprovalService.             *)
(*                                                                         *)
(* The idempotency key "{request_id}:{revision}:execute" and the proposal   *)
(* id uuid5("{request_id}:{revision}") are both built from the same pair,   *)
(* so the proposal id stands for the key.                                   *)
(***************************************************************************)
EXTENDS ApprovalService

CONSTANTS
    Executor,       \* sessions that execute orders
    Catalog,        \* suppliers behind CatalogSupplierAdapter
    SpendingLimit   \* Merchant.spending_limit

ASSUME ExecutionAssumption ==
    /\ Executor \subseteq Session
    /\ Executor \cap Decider = {}
    /\ Catalog \subseteq Supplier
    /\ SpendingLimit \in [Merchant -> Nat]

VARIABLES
    orders,         \* committed orders, each with its transaction row
    exec,           \* open executions, a function on their sessions
    book,           \* external: the orders each supplier has accepted
    orderOutbox     \* committed OutboxEvent rows about orders

executionVars == <<orders, exec, book, orderOutbox>>
vars == <<approvalVars, executionVars>>

-----------------------------------------------------------------------------
OrderStatus == {"EXECUTING", "APPROVAL_PENDING", "CONFIRMED", "FAILED"}

TransactionStatus == {"PENDING", "SUCCEEDED", "FAILED"}

Order == [payload : Payload, approval_id : ApprovalId,
          status : OrderStatus, transaction : TransactionStatus]

OrderEvent == [event_type : {"APPROVAL_REQUIRED", "ORDER_EXECUTED", "ORDER_FAILED"},
               proposal_id : Proposal]

\* lookup:     no order was found for the key
\* authorized: the approval is locked and every check has passed
\* inserted:   order and transaction are flushed, not committed
\* placed:     the supplier has answered, or failed
Stage == {"lookup", "authorized", "inserted", "placed"}

Execution == [stage : Stage, approval_id : ApprovalId, merchant_id : Merchant,
              payload : Payload, status : OrderStatus,
              transaction : TransactionStatus]

total_amount(p) == p.quantity * p.unit_price

-----------------------------------------------------------------------------
\* by_idempotency_key: a plain read of the committed rows.
ByIdempotencyKey(m, k) ==
    {o \in orders : o.payload.merchant_id = m /\ o.payload.proposal_id = k}

\* The first read of execute.  If it finds an order the order is returned,
\* whatever its status, and nothing changes.
Lookup(s, a, m) ==
    /\ s \notin DOMAIN exec
    /\ a \in DOMAIN approvals
    /\ ByIdempotencyKey(m, approvals[a].payload.proposal_id) = {}
    /\ exec' = Extend(exec, s,
                 [stage |-> "lookup", approval_id |-> a, merchant_id |-> m,
                  payload |-> approvals[a].payload,
                  status |-> "EXECUTING", transaction |-> "PENDING"])
    /\ UNCHANGED <<approvalVars, orders, book, orderOutbox>>

\* Mutant of Authorize: the row is locked and its token checked, but not its
\* status.
AuthorizeAnyStatus(s, t) ==
    /\ s \in DOMAIN exec
    /\ exec[s].stage = "lookup"
    /\ LET a == exec[s].approval_id
           m == exec[s].merchant_id
       IN  /\ Free(Matching(a))
           /\ approvals[a].payload.merchant_id = m
           /\ Unexpired(a)
           /\ VerifyToken(a, t)
           /\ total_amount(approvals[a].payload) <= SpendingLimit[m]
           /\ held' = [held EXCEPT ![s] = Matching(a)]
    /\ exec' = [exec EXCEPT ![s].stage = "authorized"]
    /\ UNCHANGED <<now, approvals, tx, outbox, grants, orders, book, orderOutbox>>

\* Lock the approval, then owner, status, expiry, token and spending limit.
\* The stored hash is compared with the hash of the stored payload, which
\* are one value here.
Authorize(s, t) ==
    /\ s \in DOMAIN exec
    /\ exec[s].stage = "lookup"
    /\ LET a == exec[s].approval_id
           m == exec[s].merchant_id
       IN  /\ Free(Matching(a))
           /\ approvals[a].payload.merchant_id = m
           /\ approvals[a].status = "APPROVED"
           /\ Unexpired(a)
           /\ VerifyToken(a, t)
           /\ total_amount(approvals[a].payload) <= SpendingLimit[m]
           /\ held' = [held EXCEPT ![s] = Matching(a)]
    /\ exec' = [exec EXCEPT ![s].stage = "authorized"]
    /\ UNCHANGED <<now, approvals, tx, outbox, grants, orders, book, orderOutbox>>

\* The uncommitted rows of the other executions.
Inserted == {s \in DOMAIN exec : exec[s].stage \in {"inserted", "placed"}}

\* Mutant of InsertOrder: no unique constraint, only the first read.
InsertOrderNotUnique(s) ==
    /\ s \in DOMAIN exec
    /\ exec[s].stage = "authorized"
    /\ exec' = [exec EXCEPT ![s].stage = "inserted"]
    /\ UNCHANGED <<approvalVars, orders, book, orderOutbox>>

\* The flush of IdempotencyKey, Order, OrderItem and Transaction.  It waits
\* for an uncommitted row with the same unique key and fails on a committed
\* one.
InsertOrder(s) ==
    /\ s \in DOMAIN exec
    /\ exec[s].stage = "authorized"
    /\ \A r \in Inserted : exec[r].payload.proposal_id # exec[s].payload.proposal_id
    /\ \A o \in orders : o.payload.proposal_id # exec[s].payload.proposal_id
    /\ exec' = [exec EXCEPT ![s].stage = "inserted"]
    /\ UNCHANGED <<approvalVars, orders, book, orderOutbox>>

Answered(s, status, transaction) ==
    exec' = [exec EXCEPT ![s].stage = "placed", ![s].status = status,
                         ![s].transaction = transaction]

\* place_order of a supplier that confirms at once.  It recognises the
\* idempotency key, so a repeated call adds nothing.
Accept(p) ==
    book' = IF \E q \in book : /\ q.proposal_id = p.proposal_id
                               /\ q.supplier_id = p.supplier_id
            THEN book
            ELSE book \cup {p}

PlaceConfirmed(s) ==
    /\ s \in DOMAIN exec
    /\ exec[s].stage = "inserted"
    /\ exec[s].payload.supplier_id \notin Catalog
    /\ Accept(exec[s].payload)
    /\ Answered(s, "CONFIRMED", "SUCCEEDED")
    /\ UNCHANGED <<approvalVars, orders, orderOutbox>>

\* The catalog adapter answers APPROVAL_PENDING: the supplier decides later.
PlacePending(s) ==
    /\ s \in DOMAIN exec
    /\ exec[s].stage = "inserted"
    /\ exec[s].payload.supplier_id \in Catalog
    /\ Answered(s, "APPROVAL_PENDING", "PENDING")
    /\ UNCHANGED <<approvalVars, orders, book, orderOutbox>>

\* Mutant of PlaceFailed: the transaction row is not updated.
PlaceFailedTransactionPending(s) ==
    /\ s \in DOMAIN exec
    /\ exec[s].stage = "inserted"
    /\ UNCHANGED book
    /\ Answered(s, "FAILED", "PENDING")
    /\ UNCHANGED <<approvalVars, orders, orderOutbox>>

\* place_order raises: the supplier refused, or (RestSupplierAdapter) its
\* answer was lost on the last attempt after it had taken the order.
PlaceFailed(s) ==
    /\ s \in DOMAIN exec
    /\ exec[s].stage = "inserted"
    /\ \/ UNCHANGED book
       \/ exec[s].payload.supplier_id \notin Catalog /\ Accept(exec[s].payload)
    /\ Answered(s, "FAILED", "FAILED")
    /\ UNCHANGED <<approvalVars, orders, orderOutbox>>

\* Mutant of EventOf: the order's status is published as the event type.
EventOfStatus(status) == status

EventOf(status) == CASE status = "FAILED" -> "ORDER_FAILED"
                     [] status = "APPROVAL_PENDING" -> "APPROVAL_REQUIRED"
                     [] OTHER -> "ORDER_EXECUTED"

\* The end of "async with session.begin()".
CommitOrder(s) ==
    /\ s \in DOMAIN exec
    /\ exec[s].stage = "placed"
    /\ orders' = orders \cup
                   {[payload |-> exec[s].payload,
                     approval_id |-> exec[s].approval_id,
                     status |-> exec[s].status,
                     transaction |-> exec[s].transaction]}
    /\ orderOutbox' = orderOutbox \cup
                   {[event_type |-> EventOf(exec[s].status),
                     proposal_id |-> exec[s].payload.proposal_id]}
    /\ exec' = Without(exec, s)
    /\ held' = [held EXCEPT ![s] = {}]
    /\ UNCHANGED <<now, approvals, tx, outbox, grants, book>>

\* A failed check, a unique violation, a failed commit or a crash.
AbortOrder(s) ==
    /\ s \in DOMAIN exec
    /\ exec' = Without(exec, s)
    /\ held' = [held EXCEPT ![s] = {}]
    /\ UNCHANGED <<now, approvals, tx, outbox, grants, orders, book, orderOutbox>>

-----------------------------------------------------------------------------
Init ==
    /\ ApprovalInit
    /\ orders = {}
    /\ exec = [s \in {} |-> {}]
    /\ book = {}
    /\ orderOutbox = {}

ExecutionStep(s) ==
    \/ \E a \in ApprovalId, m \in Merchant : Lookup(s, a, m)
    \/ \E t \in ApprovalId : Authorize(s, t)
    \/ InsertOrder(s)
    \/ PlaceConfirmed(s)
    \/ PlacePending(s)
    \/ PlaceFailed(s)
    \/ CommitOrder(s)
    \/ AbortOrder(s)

Next ==
    \/ ApprovalNext /\ UNCHANGED executionVars
    \/ \E s \in Executor : ExecutionStep(s)

Spec == Init /\ [][Next]_vars

-----------------------------------------------------------------------------
(* Properties.                                                              *)

\* Rows of orders, running executions, the suppliers' book and the outbox
\* hold values of their columns' types.
ExecutionTypeOK ==
    /\ orders \subseteq Order
    /\ DOMAIN exec \subseteq Executor
    /\ exec \in [DOMAIN exec -> Execution]
    /\ book \subseteq Payload
    /\ orderOutbox \subseteq OrderEvent

\* Type correctness of approvals and executions together.
TypeOK == ApprovalTypeOK /\ ExecutionTypeOK

\* The supplier never holds an order whose exact terms some merchant has not
\* approved in time within the spending limit, whatever decisions,
\* executions, failures and clock ticks came between.
PlacedOnlyIfApproved ==
    \A p \in book :
       /\ \E a \in DOMAIN approvals :
             /\ approvals[a].payload = p
             /\ approvals[a].status = "APPROVED"
             /\ approvals[a].decided_at < approvals[a].expires_at
       /\ total_amount(p) <= SpendingLimit[p.merchant_id]

\* The unique constraints, not the first read, keep executions apart: two
\* sessions are never between insert and commit for one proposal, and none is
\* once an order for the proposal is committed, so the supplier is never
\* called concurrently, or again after a recorded outcome.
PlacementExclusive ==
    \A s \in Inserted :
       /\ \A r \in Inserted \ {s} :
             exec[r].payload.proposal_id # exec[s].payload.proposal_id
       /\ \A o \in orders : o.payload.proposal_id # exec[s].payload.proposal_id

\* No supplier takes two orders for one proposal, even if the first call's
\* transaction was lost and the execution repeated.
OneOrderPerSupplier ==
    \A p, q \in book :
       p.proposal_id = q.proposal_id /\ p.supplier_id = q.supplier_id => p = q

\* A proposal is placed once: not concurrently, not again after a recorded
\* outcome, and not again after a lost one.
PlacedOnce == PlacementExclusive /\ OneOrderPerSupplier

\* A committed order tells the truth: it carries the approved terms, its
\* transaction agrees with its status, EXECUTING is never visible, a
\* confirmation is backed by the supplier, and the outbox announced exactly
\* its outcome.
OrdersTellTheTruth ==
    \A o \in orders :
       /\ approvals[o.approval_id].payload = o.payload
       /\ approvals[o.approval_id].status = "APPROVED"
       /\ <<o.status, o.transaction>> \in
             {<<"CONFIRMED", "SUCCEEDED">>, <<"APPROVAL_PENDING", "PENDING">>,
              <<"FAILED", "FAILED">>}
       /\ o.status = "CONFIRMED" =>
             \E p \in book : /\ p.proposal_id = o.payload.proposal_id
                             /\ p.supplier_id = o.payload.supplier_id
       /\ {e \in orderOutbox : e.proposal_id = o.payload.proposal_id} =
             {[event_type |-> EventOf(o.status), proposal_id |-> o.payload.proposal_id]}

-----------------------------------------------------------------------------
(* What the buyer's side promises a merchant, and the mapping onto it.      *)

Verdict == [a \in ApprovalId |->
              IF a \notin DOMAIN approvals THEN "unasked"
              ELSE IF approvals[a].status = "PENDING" THEN "asked"
              ELSE IF approvals[a].status = "APPROVED" THEN "yes"
              ELSE "no"]

Bought == {a \in DOMAIN approvals : approvals[a].payload \in book}

Contract == INSTANCE PurchaseContract
              WITH Question <- ApprovalId, verdict <- Verdict, bought <- Bought

\* Seen through the mapping, every behaviour is one of PurchaseContract: each
\* question is answered at most once, and goods are bought one approved
\* question at a time.
ImplementsContract == Contract!Spec
=============================================================================
