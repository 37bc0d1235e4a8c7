--------------------------- MODULE ApprovalService ---------------------------
(***************************************************************************)
(* The approvals table and the service that decides its rows               *)
(* (application/services/approval_service.py), as the handlers of several  *)
(* processes run it against PostgreSQL.  A decision is one database        *)
(* transaction: SELECT ... FOR UPDATE, the checks, the assignment, COMMIT.  *)
(* The lock and the checks are one step, because nothing is awaited        *)
(* between them; the commit is a later step, so that the clock, other      *)
(* sessions and a failure can come in between.  A handler that raises      *)
(* rolls its transaction back and leaves no trace, so a failed check is    *)
(* the absence of a step.                                                  *)
(***************************************************************************)
EXTENDS Naturals

CONSTANTS
    ApprovalId,   \* primary keys of approval rows (uuid4)
    Proposal,     \* proposal ids
    Merchant,     \* tenants; a principal acts for exactly one
    Supplier,     \* suppliers a proposal may name
    Quantity,     \* order quantities
    Price,        \* unit prices
    Session,      \* database sessions, one per handler in flight
    Decider,      \* the sessions that run approval decisions
    Ttl,          \* auth_approval_token_minutes
    MaxTime,      \* bound on the clock
    MaxRevision   \* bound on the revision number of a proposal

ASSUME ApprovalAssumption ==
    /\ Quantity \subseteq Nat \ {0}
    /\ Price \subseteq Nat \ {0}
    /\ Decider \subseteq Session
    /\ Ttl \in Nat \ {0}
    /\ MaxTime \in Nat
    /\ MaxRevision \in Nat \ {0}

VARIABLES
    now,          \* utc_now()
    approvals,    \* committed rows, a function on the ids that exist
    held,         \* row locks: the approval ids each session has locked
    tx,           \* open decision transactions, a function on their sessions
    outbox,       \* committed OutboxEvent rows about approvals
    grants        \* history: which token each committed decision presented

approvalVars == <<now, approvals, held, tx, outbox, grants>>

-----------------------------------------------------------------------------
(* Data.  The canonical payload carries the proposal and merchant ids, and  *)
(* its SHA-256 hash identifies it, so a payload stands for its own hash.    *)

Payload == [proposal_id : Proposal, merchant_id : Merchant,
            supplier_id : Supplier, quantity : Quantity, unit_price : Price]

ApprovalStatus == {"PENDING", "APPROVED", "MODIFIED", "REJECTED", "EXPIRED"}

Decided == {"APPROVED", "MODIFIED", "REJECTED"}

NotDecided == 0   \* decided_at of a row that is still PENDING

Approval == [payload : Payload, status : ApprovalStatus, expires_at : Nat,
             revision : Nat, decided_at : Nat, decided_by : SUBSET Merchant]

EventType == {"APPROVAL_REQUIRED", "NOTIFICATION_CREATED",
              "APPROVAL_GRANTED", "APPROVAL_REJECTED"}

Event == [event_type : EventType, aggregate_id : ApprovalId]

\* A transaction that has locked its rows and assigned its decision.  A token
\* is named by the row it was issued for; "tokens" holds the one presented,
\* "revised" the proposal that ApprovalService.modify adds, if any.
Decision == [approval_id : ApprovalId, status : Decided, decided_at : Nat,
             decided_by : Merchant, tokens : SUBSET ApprovalId,
             revised : SUBSET Payload]

Change == [proposal_id : Proposal, quantity : Quantity, max_unit_price : Price]

Extend(f, k, v) == [x \in DOMAIN f \cup {k} |-> IF x = k THEN v ELSE f[x]]

Without(f, k) == [x \in DOMAIN f \ {k} |-> f[x]]

-----------------------------------------------------------------------------
(* Queries and checks.                                                      *)

\* ApprovalRepository.get: an approval id or, for old deep links, a proposal
\* id, which several rows may share.
Matching(x) == {a \in DOMAIN approvals : \/ a = x
                                         \/ approvals[a].payload.proposal_id = x}

\* Mutant of Free: the row is read without FOR UPDATE.
FreeUnlocked(rows) == TRUE

\* SELECT ... FOR UPDATE waits while another session has locked a row it
\* would return.
Free(rows) == \A s \in Session : held[s] \cap rows = {}

PENDING(a) == approvals[a].status = "PENDING"

Unexpired(a) == now < approvals[a].expires_at

\* Mutant of VerifyOwnerAndState: the status check is missing.
VerifyOwnerAndStateAnyStatus(a, m) ==
    /\ approvals[a].payload.merchant_id = m
    /\ Unexpired(a)

\* _verify_owner_and_state.  On expiry the code assigns EXPIRED and raises in
\* the same transaction, so the assignment is rolled back.
VerifyOwnerAndState(a, m) ==
    /\ approvals[a].payload.merchant_id = m
    /\ PENDING(a)
    /\ Unexpired(a)

\* The claims create_approval_token signs for row a; the nonce is unique per
\* row, like the id.
Claims(a) == [sub         |-> approvals[a].payload.merchant_id,
              proposal_id |-> approvals[a].payload.proposal_id,
              approval_id |-> a,
              order_hash  |-> approvals[a].payload,
              exp         |-> approvals[a].expires_at]

\* Mutant of VerifyToken: the claims that identify the terms are not compared.
VerifyTokenProposalOnly(a, t) ==
    /\ t \in DOMAIN approvals
    /\ now < Claims(t).exp
    /\ Claims(t).sub = Claims(a).sub
    /\ Claims(t).proposal_id = Claims(a).proposal_id

\* verify_token: the signature and exp of the token, then every claim against
\* the locked row.
VerifyToken(a, t) ==
    /\ t \in DOMAIN approvals
    /\ now < Claims(t).exp
    /\ Claims(t) = Claims(a)

-----------------------------------------------------------------------------
(* Operations.                                                              *)

PendingRow(p, r, t) ==
    [payload |-> p, status |-> "PENDING", expires_at |-> t + Ttl,
     revision |-> r, decided_at |-> NotDecided, decided_by |-> {}]

\* UniqueConstraint("proposal_id", "order_hash").
NewPayload(p) == \A a \in DOMAIN approvals : approvals[a].payload # p

RequestEvents(a) ==
    {[event_type |-> e, aggregate_id |-> a] :
        e \in {"APPROVAL_REQUIRED", "NOTIFICATION_CREATED"}}

\* DatabaseApprovalAuthority.request -> ApprovalService.create, a transaction
\* of its own: the row, its outbox events and its notification.
Create(a, p, r) ==
    /\ a \notin DOMAIN approvals
    /\ NewPayload(p)
    /\ approvals' = Extend(approvals, a, PendingRow(p, r, now))
    /\ outbox' = outbox \cup RequestEvents(a)
    /\ UNCHANGED <<now, held, tx, grants>>

Lower(p, q) == IF p <= q THEN p ELSE q

\* The proposal that modify builds from row a: a fresh id, the new quantity
\* and at most the old price.
Revise(a, c) == [approvals[a].payload EXCEPT
                   !.proposal_id = c.proposal_id,
                   !.quantity = c.quantity,
                   !.unit_price = Lower(@, c.max_unit_price)]

\* What approve, reject, mark_modified and modify share: lock the rows the
\* identifier selects, take the first, check it, assign the decision.  The
\* set "tokens" holds the presented token, "changes" the requested revision.
Decide(s, x, m, tokens, status, changes) ==
    /\ s \notin DOMAIN tx
    /\ Free(Matching(x))
    /\ \E a \in Matching(x) :
          /\ VerifyOwnerAndState(a, m)
          /\ \A t \in tokens : VerifyToken(a, t)
          /\ tx' = Extend(tx, s, [approval_id |-> a, status |-> status,
                                  decided_at |-> now, decided_by |-> m,
                                  tokens |-> tokens,
                                  revised |-> {Revise(a, c) : c \in changes}])
    /\ held' = [held EXCEPT ![s] = Matching(x)]
    /\ UNCHANGED <<now, approvals, outbox, grants>>

Approve(s, x, m, t) == Decide(s, x, m, {t}, "APPROVED", {})

\* reject checks no token.
Reject(s, x, m) == Decide(s, x, m, {}, "REJECTED", {})

MarkModified(s, x, m, t) == Decide(s, x, m, {t}, "MODIFIED", {})

\* modify checks no token either; the revision is part of the transaction.
Modify(s, x, m, c) ==
    /\ \A a \in DOMAIN approvals : approvals[a].payload.proposal_id # c.proposal_id
    /\ Decide(s, x, m, {}, "MODIFIED", {c})

DecisionEvents(d) ==
    {[event_type |-> e, aggregate_id |-> d.approval_id] :
        e \in CASE d.status = "APPROVED" -> {"APPROVAL_GRANTED"}
                [] d.status = "REJECTED" -> {"APPROVAL_REJECTED"}
                [] OTHER -> {}}

DecidedRow(d) == [approvals[d.approval_id] EXCEPT
                    !.status = d.status,
                    !.decided_at = d.decided_at,
                    !.decided_by = {d.decided_by}]

\* Commit of a decision that adds no row.
CommitDecision(s) ==
    /\ s \in DOMAIN tx
    /\ tx[s].revised = {}
    /\ approvals' = [approvals EXCEPT ![tx[s].approval_id] = DecidedRow(tx[s])]
    /\ outbox' = outbox \cup DecisionEvents(tx[s])
    /\ grants' = grants \cup ({tx[s].approval_id} \X tx[s].tokens)
    /\ tx' = Without(tx, s)
    /\ held' = [held EXCEPT ![s] = {}]
    /\ UNCHANGED now

\* Commit of modify: the superseded row and its revision appear together.
CommitRevision(s, b) ==
    /\ s \in DOMAIN tx
    /\ b \notin DOMAIN approvals
    /\ \E p \in tx[s].revised :
          /\ NewPayload(p)
          /\ LET old == approvals[tx[s].approval_id]
             IN  approvals' =
                   Extend([approvals EXCEPT ![tx[s].approval_id] = DecidedRow(tx[s])],
                          b, PendingRow(p, old.revision + 1, tx[s].decided_at))
    /\ outbox' = outbox \cup RequestEvents(b)
    /\ tx' = Without(tx, s)
    /\ held' = [held EXCEPT ![s] = {}]
    /\ UNCHANGED <<now, grants>>

\* The connection or the process is lost before the commit.
Rollback(s) ==
    /\ s \in DOMAIN tx
    /\ tx' = Without(tx, s)
    /\ held' = [held EXCEPT ![s] = {}]
    /\ UNCHANGED <<now, approvals, outbox, grants>>

Tick ==
    /\ now < MaxTime
    /\ now' = now + 1
    /\ UNCHANGED <<approvals, held, tx, outbox, grants>>

-----------------------------------------------------------------------------
ApprovalInit ==
    /\ now = 1
    /\ approvals = [a \in {} |-> {}]
    /\ held = [s \in Session |-> {}]
    /\ tx = [s \in {} |-> {}]
    /\ outbox = {}
    /\ grants = {}

Identifier == ApprovalId \cup Proposal

DecisionStep(s) ==
    \/ \E x \in Identifier, m \in Merchant :
          \/ \E t \in DOMAIN approvals : \/ Approve(s, x, m, t)
                                         \/ MarkModified(s, x, m, t)
          \/ Reject(s, x, m)
          \/ \E c \in Change : Modify(s, x, m, c)
    \/ CommitDecision(s)
    \/ \E b \in ApprovalId : CommitRevision(s, b)
    \/ Rollback(s)

ApprovalNext ==
    \/ \E a \in ApprovalId, p \in Payload, r \in 1..MaxRevision : Create(a, p, r)
    \/ \E s \in Decider : DecisionStep(s)
    \/ Tick

ApprovalSpec == ApprovalInit /\ [][ApprovalNext]_approvalVars

-----------------------------------------------------------------------------
(* Properties.                                                              *)

\* Rows of the approvals table, open sessions and the outbox hold values of
\* their columns' types.
ApprovalTypeOK ==
    /\ now \in Nat
    /\ DOMAIN approvals \subseteq ApprovalId
    /\ approvals \in [DOMAIN approvals -> Approval]
    /\ held \in [Session -> SUBSET ApprovalId]
    /\ DOMAIN tx \subseteq Decider
    /\ tx \in [DOMAIN tx -> Decision]
    /\ outbox \subseteq Event
    /\ grants \subseteq ApprovalId \X ApprovalId

\* A decision is final: whatever the sessions that raced for it, once a row is
\* committed as APPROVED, MODIFIED or REJECTED no later commit changes any of
\* its columns, and no commit ever changes the terms of any row.
DecisionFinal ==
    [][\A a \in DOMAIN approvals :
          /\ a \in DOMAIN approvals'
          /\ approvals'[a].payload = approvals[a].payload
          /\ approvals'[a].expires_at = approvals[a].expires_at
          /\ approvals[a].status \in Decided => approvals'[a] = approvals[a]]_approvalVars

\* Every committed decision was taken by the tenant that owns the row, after
\* the row was locked and strictly before it expired, even when the commit
\* itself came after the deadline.
DecidedByOwnerInTime ==
    \A a \in DOMAIN approvals :
       approvals[a].status \in Decided =>
          /\ approvals[a].decided_at < approvals[a].expires_at
          /\ approvals[a].decided_by = {approvals[a].payload.merchant_id}

\* The terms that were approved are the terms the presented token was signed
\* for, also when the row was found through a proposal id that several rows
\* share; and a row is APPROVED only through such a token.
ApprovedAsShown ==
    /\ \A g \in grants : /\ g[1] \in DOMAIN approvals
                         /\ g[2] \in DOMAIN approvals
                         /\ approvals[g[1]].payload = approvals[g[2]].payload
    /\ \A a \in DOMAIN approvals :
          approvals[a].status = "APPROVED" => \E t \in ApprovalId : <<a, t>> \in grants

\* Decisions are taken rightly: by the owner, in time, on the terms shown.
DecidedRightly == DecidedByOwnerInTime /\ ApprovedAsShown

\* The events that leave the system agree with the table: a row announced as
\* granted is APPROVED, one announced as rejected is REJECTED (so never both),
\* every such row is announced, and no event names a row that does not exist.
OutboxAgreesWithRows ==
    \A a \in ApprovalId :
       /\ ([event_type |-> "APPROVAL_GRANTED", aggregate_id |-> a] \in outbox)
             <=> (a \in DOMAIN approvals /\ approvals[a].status = "APPROVED")
       /\ ([event_type |-> "APPROVAL_REJECTED", aggregate_id |-> a] \in outbox)
             <=> (a \in DOMAIN approvals /\ approvals[a].status = "REJECTED")
       /\ ([event_type |-> "APPROVAL_REQUIRED", aggregate_id |-> a] \in outbox)
             <=> a \in DOMAIN approvals
=============================================================================
