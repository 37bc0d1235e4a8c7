-------------------------- MODULE PurchaseWorkflow --------------------------
(***************************************************************************)
(* The LangGraph purchase workflow (agents/graph.py, agents/nodes) as the   *)
(* API handlers drive it through WorkflowRuntime.start and resume, with the  *)
(* places at which it leaves a durable trace: the checkpoint after each      *)
(* node, the approval row, the order row, and the supplier's own book.       *)
(* Several handlers may drive one thread, each with the copy of the state   *)
(* it loaded; the process may restart, losing the handlers and the quotes   *)
(* the supplier adapters keep in memory.                                     *)
(*                                                                         *)
(* A database transaction is one step here; ApprovalService and             *)
(* OrderExecution show what happens inside it.                              *)
(***************************************************************************)
EXTENDS Naturals, Sequences, FiniteSets

CONSTANTS
    Request,        \* purchase requests; thread id purchase:{merchant}:{request}
    Supplier,
    Catalog,        \* suppliers that answer APPROVAL_PENDING
    Handler,        \* concurrent API handlers
    RowActions,     \* decisions that clients post without a request_id
    MaxApprovals,   \* bound on approval rows
    MaxRevision,    \* bound on proposal revisions
    MaxStarts,      \* bound on calls of start
    MaxRestarts     \* bound on process restarts

ASSUME WorkflowAssumption ==
    /\ Request # {}
    /\ Catalog \subseteq Supplier
    /\ RowActions \subseteq {"APPROVED", "REJECTED"}
    /\ {MaxApprovals, MaxRevision, MaxStarts, MaxRestarts} \subseteq Nat

VARIABLES
    thread,         \* the checkpointed state of each workflow thread
    handler,        \* what each API handler is doing
    approvals,      \* approval rows; the index is the approval id
    orders,         \* committed orders, by idempotency key
    book,           \* external: orders the suppliers have accepted
    quotes,         \* in memory: <<request, supplier>> of the adapters' quotes
    refusals,       \* history: <<key, supplier>> a supplier itself turned down
    lost,           \* history: keys whose transaction was lost after the
                    \* supplier had answered
    starts,
    restarts

vars == <<thread, handler, approvals, orders, book, quotes, refusals, lost, starts, restarts>>

-----------------------------------------------------------------------------
Node == {"START", "detect_need", "forecast_demand", "find_supplier", "negotiate",
         "risk_check", "create_proposal", "human_approval", "execute_order",
         "verify_result", "END"}

\* PurchaseWorkflowState, with the fields that steer the graph.  The chosen
\* supplier is a set of at most one; approval_id 0 means none yet.
WorkflowState ==
    [next : Node, proposal_revision : Nat, attempted : SUBSET Supplier,
     candidates : SUBSET Supplier, selected : SUBSET Supplier,
     approval_id : Nat,
     approval_status : {"NONE", "PENDING", "APPROVED", "MODIFIED", "REJECTED"},
     execution_status : {"NOT_STARTED", "SUCCEEDED", "FAILED",
                         "WAITING_SUPPLIER_APPROVAL", "VERIFIED"},
     start : Nat]   \* history: which call of start the values come from

\* idle:      no call in progress
\* snapshot:  resume has read the state and found the thread waiting
\* decided:   approval_authority.decide has committed, the graph has not moved
\* run:       ainvoke is about to execute the node "next"
\* requested: create_proposal has committed its approval row
\* placed:    the supplier has answered, the order is not committed
\* recorded:  the order is known, the node's result is not checkpointed
Stage == {"idle", "snapshot", "decided", "run", "requested", "placed", "recorded"}

Action == {"APPROVED", "MODIFIED", "REJECTED"}

Key == Request \X Nat

OrderRow == [supplier : Supplier, status : {"CONFIRMED", "APPROVAL_PENDING", "FAILED"}]

ApprovalRow == [request : Request, revision : Nat, supplier : Supplier,
                status : {"PENDING"} \cup Action, expired : BOOLEAN, start : Nat]

IdleState == [next |-> "START", proposal_revision |-> 1, attempted |-> {},
              candidates |-> {}, selected |-> {}, approval_id |-> 0,
              approval_status |-> "NONE", execution_status |-> "NOT_STARTED", start |-> 0]

Idle(r) == [stage |-> "idle", request |-> r, state |-> IdleState,
            approval_id |-> 0, action |-> "REJECTED", status |-> "FAILED"]

AnyRequest == CHOOSE r \in Request : TRUE

-----------------------------------------------------------------------------
(* Handlers.                                                                *)

At(h, node) == handler[h].stage = "run" /\ handler[h].state.next = node

\* A node returns: its updates are merged and checkpointed.
Checkpoint(h, state) ==
    /\ handler' = [handler EXCEPT ![h].stage = "run", ![h].state = state]
    /\ thread' = [thread EXCEPT ![handler[h].request] = state]

\* The run ends at END or at the interrupt; the call returns.
Return(h, state) ==
    /\ handler' = [handler EXCEPT ![h] = Idle(handler[h].request)]
    /\ thread' = [thread EXCEPT ![handler[h].request] = state]

\* An exception leaves the last checkpoint in place.
Raise(h) ==
    /\ handler' = [handler EXCEPT ![h] = Idle(handler[h].request)]
    /\ UNCHANGED thread

\* WorkflowRuntime.start: a new input on the thread; revision and attempted
\* suppliers are part of the input, the other values survive from earlier.
Start(h, r) ==
    /\ handler[h].stage = "idle"
    /\ starts < MaxStarts
    /\ LET state == [thread[r] EXCEPT !.next = "detect_need",
                       !.proposal_revision = 1, !.attempted = {},
                       !.start = starts + 1]
       IN  /\ handler' = [handler EXCEPT ![h] =
                            [Idle(r) EXCEPT !.stage = "run", !.state = state]]
           /\ thread' = [thread EXCEPT ![r] = state]
    /\ starts' = starts + 1
    /\ UNCHANGED <<approvals, orders, book, quotes, refusals, lost, restarts>>

\* WorkflowRuntime.resume up to the check of the snapshot.
Snapshot(h, r) ==
    /\ handler[h].stage = "idle"
    /\ thread[r].next = "human_approval"
    /\ handler' = [handler EXCEPT ![h] =
                     [Idle(r) EXCEPT !.stage = "snapshot",
                                     !.approval_id = thread[r].approval_id]]
    /\ UNCHANGED <<thread, approvals, orders, book, quotes, refusals, lost, starts, restarts>>

Decidable(a) == approvals[a].status = "PENDING" /\ ~approvals[a].expired

\* approval_authority.decide, a transaction that commits before the graph
\* is resumed.
Decide(h, action) ==
    /\ handler[h].stage = "snapshot"
    /\ Decidable(handler[h].approval_id)
    /\ action = "MODIFIED" =>
          thread[handler[h].request].proposal_revision < MaxRevision
    /\ approvals' = [approvals EXCEPT ![handler[h].approval_id].status = action]
    /\ handler' = [handler EXCEPT ![h].stage = "decided", ![h].action = action]
    /\ UNCHANGED <<thread, orders, book, quotes, refusals, lost, starts, restarts>>

\* decide raises Conflict or StaleApproval.
DecideRaises(h) ==
    /\ handler[h].stage = "snapshot"
    /\ ~Decidable(handler[h].approval_id)
    /\ Raise(h)
    /\ UNCHANGED <<approvals, orders, book, quotes, refusals, lost, starts, restarts>>

\* A modification without quantity or price is refused after the decision.
InvalidModification(h) ==
    /\ handler[h].stage = "decided"
    /\ handler[h].action = "MODIFIED"
    /\ Raise(h)
    /\ UNCHANGED <<approvals, orders, book, quotes, refusals, lost, starts, restarts>>

\* approval_gate with the resume value, from the state the thread has now.
HumanApproval(h) ==
    /\ handler[h].stage = "decided"
    /\ LET state == thread[handler[h].request]
           action == handler[h].action
       IN  /\ state.next = "human_approval"
           /\ \/ /\ action = "APPROVED"
                 /\ Checkpoint(h, [state EXCEPT !.next = "execute_order",
                                                !.approval_status = "APPROVED"])
              \/ /\ action = "MODIFIED"
                 /\ Checkpoint(h, [state EXCEPT !.next = "forecast_demand",
                                                !.approval_status = "MODIFIED",
                                                !.proposal_revision = @ + 1,
                                                !.attempted = {}])
              \/ /\ action = "REJECTED"
                 /\ Return(h, [state EXCEPT !.next = "END",
                                            !.approval_status = "REJECTED"])
    /\ UNCHANGED <<approvals, orders, book, quotes, refusals, lost, starts, restarts>>

\* Another handler has moved the thread on: there is nothing to resume.
NothingToResume(h) ==
    /\ handler[h].stage = "decided"
    /\ thread[handler[h].request].next # "human_approval"
    /\ Raise(h)
    /\ UNCHANGED <<approvals, orders, book, quotes, refusals, lost, starts, restarts>>

\* POST /approvals/{id}/approve or reject without a request_id: the row is
\* decided and the workflow is not resumed.
DecideRowOnly(a, action) ==
    /\ a \in DOMAIN approvals
    /\ Decidable(a)
    /\ approvals' = [approvals EXCEPT ![a].status = action]
    /\ UNCHANGED <<thread, handler, orders, book, quotes, refusals, lost, starts, restarts>>

-----------------------------------------------------------------------------
(* Nodes.                                                                   *)

DetectNeed(h) ==
    /\ At(h, "detect_need")
    /\ \/ Return(h, [handler[h].state EXCEPT !.next = "END"])
       \/ Checkpoint(h, [handler[h].state EXCEPT !.next = "forecast_demand"])
    /\ UNCHANGED <<approvals, orders, book, quotes, refusals, lost, starts, restarts>>

ForecastDemand(h) ==
    /\ At(h, "forecast_demand")
    /\ Checkpoint(h, [handler[h].state EXCEPT !.next = "find_supplier"])
    /\ UNCHANGED <<approvals, orders, book, quotes, refusals, lost, starts, restarts>>

\* Mutant of FindSupplier: the quotes of the last search replace the earlier ones.
FindSupplierLatestQuotes(h) ==
    /\ At(h, "find_supplier")
    /\ \E quoting \in SUBSET Supplier :
          LET usable == quoting \ handler[h].state.attempted
          IN  /\ quotes' = {handler[h].request} \X quoting
              /\ IF usable = {}
                 THEN Return(h, [handler[h].state EXCEPT !.next = "END",
                                                         !.candidates = {}])
                 ELSE Checkpoint(h, [handler[h].state EXCEPT !.next = "negotiate",
                                                             !.candidates = usable])
    /\ UNCHANGED <<approvals, orders, book, refusals, lost, starts, restarts>>

\* Any set of suppliers may quote; the attempted ones are dropped.
FindSupplier(h) ==
    /\ At(h, "find_supplier")
    /\ \E quoting \in SUBSET Supplier :
          LET usable == quoting \ handler[h].state.attempted
          IN  /\ quotes' = quotes \cup ({handler[h].request} \X quoting)
              /\ IF usable = {}
                 THEN Return(h, [handler[h].state EXCEPT !.next = "END",
                                                         !.candidates = {}])
                 ELSE Checkpoint(h, [handler[h].state EXCEPT !.next = "negotiate",
                                                             !.candidates = usable])
    /\ UNCHANGED <<approvals, orders, book, refusals, lost, starts, restarts>>

\* The first candidate whose offer is valid is selected, or none is.
Negotiate(h) ==
    /\ At(h, "negotiate")
    /\ \/ Return(h, [handler[h].state EXCEPT !.next = "END"])
       \/ \E s \in handler[h].state.candidates :
             Checkpoint(h, [handler[h].state EXCEPT !.next = "risk_check",
                                                    !.selected = {s}])
    /\ UNCHANGED <<approvals, orders, book, quotes, refusals, lost, starts, restarts>>

RiskCheck(h) ==
    /\ At(h, "risk_check")
    /\ \/ Return(h, [handler[h].state EXCEPT !.next = "END"])
       \/ Checkpoint(h, [handler[h].state EXCEPT !.next = "create_proposal"])
    /\ UNCHANGED <<approvals, orders, book, quotes, refusals, lost, starts, restarts>>

\* proposal_id is uuid5 of request and revision, whatever the supplier.
ProposalId(row) == <<row.request, row.revision>>

NewApproval(h, s) ==
    [request |-> handler[h].request, revision |-> handler[h].state.proposal_revision,
     supplier |-> s, status |-> "PENDING", expired |-> FALSE, start |-> handler[h].state.start]

\* approval_authority.request commits the row.
CreateProposal(h) ==
    /\ At(h, "create_proposal")
    /\ Len(approvals) < MaxApprovals
    /\ \E s \in handler[h].state.selected :
          approvals' = Append(approvals, NewApproval(h, s))
    /\ handler' = [handler EXCEPT ![h].stage = "requested",
                                  ![h].approval_id = Len(approvals) + 1]
    /\ UNCHANGED <<thread, orders, book, quotes, refusals, lost, starts, restarts>>

\* A row with the same proposal id and the same terms exists already.
ProposalExists(h) ==
    /\ At(h, "create_proposal")
    /\ \E s \in handler[h].state.selected, a \in DOMAIN approvals :
          /\ ProposalId(approvals[a]) = ProposalId(NewApproval(h, s))
          /\ approvals[a].supplier = s
    /\ Raise(h)
    /\ UNCHANGED <<approvals, orders, book, quotes, refusals, lost, starts, restarts>>

\* Mutant of Interrupt: approval_id is missing from the node's updates.
InterruptOldApproval(h) ==
    /\ handler[h].stage = "requested"
    /\ Return(h, [handler[h].state EXCEPT !.next = "human_approval",
                                          !.approval_status = "PENDING"])
    /\ UNCHANGED <<approvals, orders, book, quotes, refusals, lost, starts, restarts>>

\* The node returns and the graph stops at the interrupt of human_approval.
Interrupt(h) ==
    /\ handler[h].stage = "requested"
    /\ Return(h, [handler[h].state EXCEPT !.next = "human_approval",
                                          !.approval_status = "PENDING",
                                          !.approval_id = handler[h].approval_id])
    /\ UNCHANGED <<approvals, orders, book, quotes, refusals, lost, starts, restarts>>

\* A counter-offer or record_negotiation raises; in the second case the
\* approval row is committed and the thread does not know of it.
NodeRaises(h) ==
    /\ At(h, "negotiate") \/ handler[h].stage = "requested"
    /\ Raise(h)
    /\ UNCHANGED <<approvals, orders, book, quotes, refusals, lost, starts, restarts>>

-----------------------------------------------------------------------------
(* execute_order.                                                           *)

ExecuteKey(h) == <<handler[h].request, handler[h].state.proposal_revision>>

\* Mutant of FailedState: the supplier is not remembered as attempted.
FailedStateForgets(h) == [handler[h].state EXCEPT
                            !.next = "verify_result",
                            !.execution_status = "FAILED"]

FailedState(h) == [handler[h].state EXCEPT
                     !.next = "verify_result",
                     !.execution_status = "FAILED",
                     !.attempted = @ \cup handler[h].state.selected]

\* OrderService.execute finds an order for the key.
ExistingOrder(h) ==
    /\ At(h, "execute_order")
    /\ ExecuteKey(h) \in DOMAIN orders
    /\ handler' = [handler EXCEPT ![h].stage = "recorded",
                                  ![h].status = orders[ExecuteKey(h)].status]
    /\ UNCHANGED <<thread, approvals, orders, book, quotes, refusals, lost, starts, restarts>>

\* Mutant of Authorized: the graph's own routing is trusted.
AuthorizedByRouting(h) ==
    /\ handler[h].state.approval_id \in DOMAIN approvals
    /\ ~approvals[handler[h].state.approval_id].expired

Authorized(h) ==
    /\ handler[h].state.approval_id \in DOMAIN approvals
    /\ approvals[handler[h].state.approval_id].status = "APPROVED"
    /\ ~approvals[handler[h].state.approval_id].expired

\* A check of OrderService raises; the node turns it into a failed attempt.
NotAuthorized(h) ==
    /\ At(h, "execute_order")
    /\ ExecuteKey(h) \notin DOMAIN orders
    /\ ~Authorized(h)
    /\ Checkpoint(h, FailedState(h))
    /\ UNCHANGED <<approvals, orders, book, quotes, refusals, lost, starts, restarts>>

\* The supplier recognises an idempotency key it has served.
Accept(k, s, a) ==
    book' = IF \E e \in book : e.key = k /\ e.supplier = s
            THEN book
            ELSE book \cup {[key |-> k, supplier |-> s, approval_id |-> a]}

\* The supplier is called: an adapter without the quote raises, the catalog
\* defers to the supplier's own approval, another supplier refuses or confirms.
CallSupplier(h) ==
    \E s \in handler[h].state.selected, outcome \in OrderRow :
       LET r == handler[h].request
       IN  /\ outcome.supplier = s
           /\ \/ /\ outcome.status = "FAILED"
                 /\ UNCHANGED book
                 /\ \/ <<r, s>> \notin quotes /\ UNCHANGED refusals
                    \/ /\ <<r, s>> \in quotes
                       /\ s \notin Catalog
                       /\ refusals' = refusals \cup {<<ExecuteKey(h), s>>}
              \/ /\ <<r, s>> \in quotes
                 /\ s \in Catalog
                 /\ outcome.status = "APPROVAL_PENDING"
                 /\ UNCHANGED <<book, refusals>>
              \/ /\ <<r, s>> \in quotes
                 /\ s \notin Catalog
                 /\ outcome.status = "CONFIRMED"
                 /\ Accept(ExecuteKey(h), s, handler[h].state.approval_id)
                 /\ UNCHANGED refusals
           /\ handler' = [handler EXCEPT ![h].stage = "placed",
                                         ![h].status = outcome.status]

\* The order is flushed, waiting for an uncommitted one with the same key,
\* and the supplier called.
PlaceOrder(h) ==
    /\ At(h, "execute_order")
    /\ ExecuteKey(h) \notin DOMAIN orders
    /\ Authorized(h)
    /\ \A g \in Handler : handler[g].stage = "placed" => ExecuteKey(g) # ExecuteKey(h)
    /\ CallSupplier(h)
    /\ UNCHANGED <<thread, approvals, orders, quotes, lost, starts, restarts>>

CommitOrder(h) ==
    /\ handler[h].stage = "placed"
    /\ \E s \in handler[h].state.selected :
          orders' = [k \in DOMAIN orders \cup {ExecuteKey(h)} |->
                       IF k = ExecuteKey(h)
                       THEN [supplier |-> s, status |-> handler[h].status]
                       ELSE orders[k]]
    /\ handler' = [handler EXCEPT ![h].stage = "recorded"]
    /\ UNCHANGED <<thread, approvals, book, quotes, refusals, lost, starts, restarts>>

\* The transaction fails after the supplier has answered; the node reports a
\* failed attempt.
CommitFails(h) ==
    /\ handler[h].stage = "placed"
    /\ Checkpoint(h, FailedState(h))
    /\ lost' = lost \cup {ExecuteKey(h)}
    /\ UNCHANGED <<approvals, orders, book, quotes, refusals, starts, restarts>>

\* Mutant of ExecuteReturns: a failed order counts as done.
ExecuteReturnsSucceeded(h) ==
    /\ handler[h].stage = "recorded"
    /\ Checkpoint(h, [handler[h].state EXCEPT
                        !.next = "verify_result",
                        !.execution_status = IF handler[h].status = "APPROVAL_PENDING"
                                             THEN "WAITING_SUPPLIER_APPROVAL"
                                             ELSE "SUCCEEDED"])
    /\ UNCHANGED <<approvals, orders, book, quotes, refusals, lost, starts, restarts>>

ExecuteReturns(h) ==
    /\ handler[h].stage = "recorded"
    /\ \/ /\ handler[h].status = "FAILED"
          /\ Checkpoint(h, FailedState(h))
       \/ /\ handler[h].status = "APPROVAL_PENDING"
          /\ Checkpoint(h, [handler[h].state EXCEPT
                              !.next = "verify_result",
                              !.execution_status = "WAITING_SUPPLIER_APPROVAL"])
       \/ /\ handler[h].status = "CONFIRMED"
          /\ Checkpoint(h, [handler[h].state EXCEPT
                              !.next = "verify_result",
                              !.execution_status = "SUCCEEDED"])
    /\ UNCHANGED <<approvals, orders, book, quotes, refusals, lost, starts, restarts>>

\* Mutant of VerifyResult: recovery executes again, without asking anyone.
VerifyResultRetries(h) ==
    /\ At(h, "verify_result")
    /\ IF handler[h].state.execution_status = "FAILED"
       THEN Checkpoint(h, [handler[h].state EXCEPT !.next = "execute_order"])
       ELSE Return(h, [handler[h].state EXCEPT !.next = "END"])
    /\ UNCHANGED <<approvals, orders, book, quotes, refusals, lost, starts, restarts>>

\* Every confirmation of the registered adapters carries a supplier reference,
\* so the branch for a missing one is never taken.
VerifyResult(h) ==
    /\ At(h, "verify_result")
    /\ LET state == handler[h].state
       IN  \/ /\ state.execution_status = "FAILED"
              /\ Checkpoint(h, [state EXCEPT !.next = "find_supplier"])
           \/ /\ state.execution_status = "WAITING_SUPPLIER_APPROVAL"
              /\ Return(h, [state EXCEPT !.next = "END"])
           \/ /\ state.execution_status = "SUCCEEDED"
              /\ Return(h, [state EXCEPT !.next = "END",
                                         !.execution_status = "VERIFIED"])
    /\ UNCHANGED <<approvals, orders, book, quotes, refusals, lost, starts, restarts>>

-----------------------------------------------------------------------------
(* The environment.                                                         *)

\* The deadline of an approval passes.
Expire(a) ==
    /\ a \in DOMAIN approvals
    /\ ~approvals[a].expired
    /\ approvals' = [approvals EXCEPT ![a].expired = TRUE]
    /\ UNCHANGED <<thread, handler, orders, book, quotes, refusals, lost, starts, restarts>>

\* The process stops and comes back: checkpoints and rows survive, calls in
\* progress and the adapters' quotes do not.
Restart ==
    /\ restarts < MaxRestarts
    /\ restarts' = restarts + 1
    /\ handler' = [h \in Handler |-> Idle(AnyRequest)]
    /\ quotes' = {}
    /\ lost' = lost \cup {ExecuteKey(h) : h \in {g \in Handler : handler[g].stage = "placed"}}
    /\ UNCHANGED <<thread, approvals, orders, book, refusals, starts>>

-----------------------------------------------------------------------------
Init ==
    /\ thread = [r \in Request |-> IdleState]
    /\ handler = [h \in Handler |-> Idle(AnyRequest)]
    /\ approvals = <<>>
    /\ orders = [k \in {} |-> {}]
    /\ book = {}
    /\ quotes = {}
    /\ refusals = {}
    /\ lost = {}
    /\ starts = 0
    /\ restarts = 0

NodeStep(h) ==
    \/ DetectNeed(h) \/ ForecastDemand(h) \/ FindSupplier(h) \/ Negotiate(h)
    \/ RiskCheck(h) \/ CreateProposal(h) \/ ProposalExists(h) \/ Interrupt(h)
    \/ NodeRaises(h)
    \/ ExistingOrder(h) \/ NotAuthorized(h) \/ PlaceOrder(h) \/ CommitOrder(h)
    \/ CommitFails(h) \/ ExecuteReturns(h) \/ VerifyResult(h)

HandlerStep(h) ==
    \/ \E action \in Action : Decide(h, action)
    \/ DecideRaises(h) \/ InvalidModification(h)
    \/ HumanApproval(h) \/ NothingToResume(h)
    \/ NodeStep(h)

Next ==
    \/ \E h \in Handler, r \in Request : Start(h, r) \/ Snapshot(h, r)
    \/ \E h \in Handler : HandlerStep(h)
    \/ \E a \in DOMAIN approvals :
          \/ Expire(a)
          \/ \E action \in RowActions : DecideRowOnly(a, action)
    \/ Restart

Spec == Init /\ [][Next]_vars

\* A call in progress keeps running until it returns, raises, or is cut off
\* by a restart: asyncio schedules every ready coroutine.
FairSpec == Spec /\ \A h \in Handler : WF_vars(HandlerStep(h))

-----------------------------------------------------------------------------
(* Properties.                                                              *)

HandlerRecord == [stage : Stage, request : Request, state : WorkflowState,
                  approval_id : Nat, action : Action,
                  status : {"CONFIRMED", "APPROVAL_PENDING", "FAILED"}]

BookEntry == [key : Key, supplier : Supplier, approval_id : Nat]

\* The thread's checkpoint, the approval and order rows, the open calls and
\* the suppliers' books hold values of their types.
TypeOK ==
    /\ thread \in [Request -> WorkflowState]
    /\ handler \in [Handler -> HandlerRecord]
    /\ approvals \in Seq(ApprovalRow)
    /\ DOMAIN orders \subseteq Key
    /\ orders \in [DOMAIN orders -> OrderRow]
    /\ book \subseteq BookEntry
    /\ quotes \subseteq Request \X Supplier
    /\ refusals \subseteq Key \X Supplier
    /\ lost \subseteq Key
    /\ starts \in Nat /\ restarts \in Nat

\* A thread that waits for the merchant waits on a row of its own request and
\* revision, for the supplier it selected: the merchant is never shown one
\* purchase while the graph holds another, whichever handlers interleaved.
WaitsOnItsOwnApproval ==
    \A r \in Request :
       thread[r].next = "human_approval" =>
          /\ thread[r].approval_id \in DOMAIN approvals
          /\ LET row == approvals[thread[r].approval_id]
             IN  /\ row.request = r
                 /\ row.revision = thread[r].proposal_revision
                 /\ {row.supplier} = thread[r].selected

\* The checkpoints are well formed, and a waiting one points to its own row.
ThreadConsistent == TypeOK /\ WaitsOnItsOwnApproval

\* VERIFIED is only ever reported for a purchase that a supplier holds and
\* the database records as confirmed.
VerifiedMeansBought ==
    \A r \in Request :
       thread[r].execution_status = "VERIFIED" =>
          \E k \in DOMAIN orders :
             /\ k[1] = r
             /\ orders[k].status = "CONFIRMED"
             /\ \E e \in book : e.key = k /\ e.supplier = orders[k].supplier

\* Recovery makes progress: within one call of start and one revision no
\* supplier is put to the merchant twice.
RecoveryNeverRepeatsSupplier ==
    \A a, b \in DOMAIN approvals :
       /\ a # b
       /\ ProposalId(approvals[a]) = ProposalId(approvals[b])
       /\ approvals[a].start = approvals[b].start
       => approvals[a].supplier # approvals[b].supplier

\* Two suppliers hold orders for one proposal only if a transaction was lost
\* after the first had answered: recovery, restarts and concurrent handlers
\* alone never buy the same thing twice.
DoubleBuyOnlyAfterLostCommit ==
    \A e, f \in book : e.key = f.key /\ e # f => e.key \in lost

\* An execution is recorded as FAILED although no supplier turned it down only
\* after a restart, which loses the quotes the adapters keep in memory:
\* concurrent calls, recovery and modifications never lose one.
FailsUnrefusedOnlyAfterRestart ==
    \A k \in DOMAIN orders :
       orders[k].status = "FAILED" => <<k, orders[k].supplier>> \in refusals \/ restarts > 0

\* What goes wrong with an approved purchase needs a fault: buying twice a lost
\* commit, failing unrefused a restart.  No interleaving of calls is enough.
MishapsNeedAFault == DoubleBuyOnlyAfterLostCommit /\ FailsUnrefusedOnlyAfterRestart

\* Every call of start and resume comes to an end: the recovery loop of the
\* graph cannot spin inside one call.
CallsReturn ==
    \A h \in Handler : handler[h].stage # "idle" ~> handler[h].stage = "idle"

Verdict == [a \in 1..MaxApprovals |->
              IF a \notin DOMAIN approvals THEN "unasked"
              ELSE IF approvals[a].status = "PENDING" THEN "asked"
              ELSE IF approvals[a].status = "APPROVED" THEN "yes"
              ELSE "no"]

Bought == {e.approval_id : e \in book}

Contract == INSTANCE PurchaseContract
              WITH Question <- 1..MaxApprovals, verdict <- Verdict, bought <- Bought

\* The whole workflow, restarts and concurrent calls included, keeps the
\* promise of PurchaseContract: nothing is bought that was not approved, and
\* nothing is bought twice on one approval.
ImplementsContract == Contract!Spec

-----------------------------------------------------------------------------
(* What the documentation says of the workflow.                             *)

\* "Use postgres for restart-safe approval interrupts": a decision that has
\* been committed for the approval a thread waits on is being applied.
DecisionIsApplied ==
    \A r \in Request :
       thread[r].next = "human_approval" /\ approvals[thread[r].approval_id].status # "PENDING" =>
          \E h \in Handler : handler[h].stage = "decided" /\ handler[h].request = r
=============================================================================
