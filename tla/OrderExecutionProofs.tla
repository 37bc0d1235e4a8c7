------------------------ MODULE OrderExecutionProofs ------------------------
(***************************************************************************)
(* Proofs about ApprovalService and OrderExecution, for any number of rows, *)
(* tenants, sessions, executors and suppliers, any clock bound and any      *)
(* spending limits.  They are in one module because the execution's steps   *)
(* are steps of the approvals table too.                                    *)
(*                                                                         *)
(* The invariant of the approvals service: a row lock belongs to one        *)
(* session, and while a session's decision is open its row is locked, still *)
(* PENDING and all the checks the session made on it are still true.  The   *)
(* invariant of the execution adds what each open execution has             *)
(* established, that terms identify their row, and that orders and their    *)
(* events correspond one to one; it gives every safety property of the      *)
(* runs and the step simulation of PurchaseContract.                        *)
(***************************************************************************)
EXTENDS OrderExecution, TLAPS

-----------------------------------------------------------------------------
(* The approvals service.                                                   *)

\* Row locks are exclusive.
LockExclusion ==
    \A r, s \in Session : r # s => held[r] \cap held[s] = {}

\* Only rows that exist are locked.
LocksOnRows == \A s \in Session : held[s] \subseteq DOMAIN approvals

\* What an open decision has checked stays true until it ends.
DecisionStillValid ==
    \A s \in DOMAIN tx :
       LET d == tx[s]
           row == approvals[d.approval_id]
       IN  /\ d.approval_id \in held[s]
           /\ row.status = "PENDING"
           /\ d.decided_at < row.expires_at
           /\ d.decided_by = row.payload.merchant_id
           /\ d.status = "APPROVED" => d.tokens # {}
           /\ d.revised # {} => d.status = "MODIFIED"
           /\ \A t \in d.tokens : /\ t \in DOMAIN approvals
                                  /\ approvals[t].payload = row.payload

ApprovalInv ==
    /\ ApprovalTypeOK
    /\ LockExclusion
    /\ LocksOnRows
    /\ DecisionStillValid
    /\ DecidedByOwnerInTime
    /\ ApprovedAsShown
    /\ OutboxAgreesWithRows

-----------------------------------------------------------------------------
(* Rows and events.                                                         *)

\* A new row is a well-typed PENDING row with the given terms.
LEMMA PendingRowFacts ==
    ASSUME NEW p \in Payload, NEW r \in Nat, NEW t \in Nat
    PROVE  /\ PendingRow(p, r, t) \in Approval
           /\ PendingRow(p, r, t).status = "PENDING"
           /\ PendingRow(p, r, t).payload = p
  BY ApprovalAssumption DEF PendingRow, Approval, ApprovalStatus, NotDecided

\* Deciding a row changes its status and who decided it when, nothing else.
LEMMA DecidedRowFacts ==
    ASSUME NEW d \in Decision, approvals[d.approval_id] \in Approval
    PROVE  LET row == approvals[d.approval_id]
               new == DecidedRow(d)
           IN  /\ new \in Approval
               /\ new.payload = row.payload
               /\ new.expires_at = row.expires_at
               /\ new.revision = row.revision
               /\ new.status = d.status
               /\ new.decided_at = d.decided_at
               /\ new.decided_by = {d.decided_by}
  BY DEF DecidedRow, Decision, Approval, ApprovalStatus, Decided

\* The events of a request, and those of a decision, are about its own row.
LEMMA RequestEventFacts ==
    ASSUME NEW a, NEW b, NEW e
    PROVE  [event_type |-> e, aggregate_id |-> b] \in RequestEvents(a)
              <=> b = a /\ e \in {"APPROVAL_REQUIRED", "NOTIFICATION_CREATED"}
  BY DEF RequestEvents

LEMMA DecisionEventFacts ==
    ASSUME NEW d \in Decision, NEW b, NEW e
    PROVE  [event_type |-> e, aggregate_id |-> b] \in DecisionEvents(d)
              <=> /\ b = d.approval_id
                  /\ \/ e = "APPROVAL_GRANTED" /\ d.status = "APPROVED"
                     \/ e = "APPROVAL_REJECTED" /\ d.status = "REJECTED"
  BY DEF DecisionEvents, Decision, Decided

\* They are well typed.
LEMMA EventTypes ==
    /\ \A a \in ApprovalId : RequestEvents(a) \subseteq Event
    /\ \A d \in Decision : DecisionEvents(d) \subseteq Event
  BY DEF RequestEvents, DecisionEvents, Decision, Decided, Event, EventType

-----------------------------------------------------------------------------
(* One lemma per operation: it preserves the invariant.                     *)

\* Initially there are no rows, locks, decisions or events.
LEMMA InitInv == ApprovalInit => ApprovalInv
  BY DEF ApprovalInit, ApprovalInv, ApprovalTypeOK, LockExclusion, LocksOnRows,
         DecisionStillValid, DecidedByOwnerInTime, ApprovedAsShown,
         OutboxAgreesWithRows

\* A new PENDING row is nobody's: no lock, decision, grant or event names it.
LEMMA CreateInv ==
    ASSUME ApprovalInv, NEW a \in ApprovalId, NEW p \in Payload, NEW r \in Nat,
           Create(a, p, r)
    PROVE  ApprovalInv'
  <1> USE DEF ApprovalInv
  <1>1. /\ DOMAIN approvals' = DOMAIN approvals \cup {a}
        /\ approvals'[a] = PendingRow(p, r, now)
        /\ \A x \in DOMAIN approvals : approvals'[x] = approvals[x]
    BY DEF Create, Extend
  <1>2. /\ approvals'[a] \in Approval
        /\ approvals'[a].status = "PENDING"
        /\ approvals'[a].payload = p
    BY <1>1, PendingRowFacts DEF ApprovalTypeOK
  <1>3. ApprovalTypeOK'
    <2>1. approvals' \in [DOMAIN approvals' -> Approval]
      BY <1>1, <1>2 DEF ApprovalTypeOK, Create, Extend
    <2>2. QED
      BY <1>1, <2>1, EventTypes DEF ApprovalTypeOK, Create
  <1>4. LockExclusion' /\ LocksOnRows'
    BY <1>1 DEF LockExclusion, LocksOnRows, Create
  <1>5. DecisionStillValid'
    BY <1>1, ApprovalAssumption DEF DecisionStillValid, LocksOnRows, ApprovalTypeOK, Create
  <1>6. DecidedByOwnerInTime'
    BY <1>1, <1>2 DEF DecidedByOwnerInTime, Decided, Create
  <1>7. ApprovedAsShown'
    BY <1>1, <1>2 DEF ApprovedAsShown, Create
  <1>8. OutboxAgreesWithRows'
    <2>1. \A e, b : [event_type |-> e, aggregate_id |-> b] \in outbox'
                       <=> \/ [event_type |-> e, aggregate_id |-> b] \in outbox
                           \/ b = a /\ e \in {"APPROVAL_REQUIRED", "NOTIFICATION_CREATED"}
      BY RequestEventFacts DEF Create
    <2>2. QED
      BY <1>1, <1>2, <2>1 DEF OutboxAgreesWithRows, Create
  <1>9. QED
    BY <1>3, <1>4, <1>5, <1>6, <1>7, <1>8

\* Opening a decision takes the lock on rows nobody had locked, and records
\* exactly what it has just checked.
LEMMA DecideInv ==
    ASSUME ApprovalInv, NEW s \in Decider, NEW x, NEW m \in Merchant,
           NEW tokens \in SUBSET ApprovalId, NEW status \in Decided,
           NEW changes \in SUBSET Change,
           status = "APPROVED" => tokens # {},
           changes # {} => status = "MODIFIED",
           Decide(s, x, m, tokens, status, changes)
    PROVE  ApprovalInv'
  <1> USE DEF ApprovalInv
  <1>1. PICK a \in Matching(x) :
          /\ VerifyOwnerAndState(a, m)
          /\ \A t \in tokens : VerifyToken(a, t)
          /\ tx' = Extend(tx, s, [approval_id |-> a, status |-> status,
                                  decided_at |-> now, decided_by |-> m,
                                  tokens |-> tokens,
                                  revised |-> {Revise(a, c) : c \in changes}])
    BY DEF Decide
  <1> DEFINE d == [approval_id |-> a, status |-> status,
                   decided_at |-> now, decided_by |-> m, tokens |-> tokens,
                   revised |-> {Revise(a, c) : c \in changes}]
  <1>2. /\ UNCHANGED <<now, approvals, outbox, grants>>
        /\ held' = [held EXCEPT ![s] = Matching(x)]
        /\ s \in Session
        /\ s \notin DOMAIN tx
        /\ Free(Matching(x))
    BY ApprovalAssumption DEF Decide
  <1>3. a \in DOMAIN approvals /\ a \in ApprovalId /\ approvals[a] \in Approval
    BY DEF Matching, ApprovalTypeOK
  <1>4. \A c \in Change : Revise(a, c) \in Payload
    BY <1>3, ApprovalAssumption DEF Revise, Lower, Approval, Payload, Change
  <1>5. d \in Decision
    BY <1>3, <1>4 DEF Decision, ApprovalTypeOK
  <1>6. /\ DOMAIN tx' = DOMAIN tx \cup {s}
        /\ tx'[s] = d
        /\ \A r \in DOMAIN tx : tx'[r] = tx[r]
    BY <1>1, <1>2 DEF Extend
  <1>7. ApprovalTypeOK'
    <2>1. tx' \in [DOMAIN tx' -> Decision]
      BY <1>1, <1>5, <1>6 DEF ApprovalTypeOK, Extend
    <2>2. held' \in [Session -> SUBSET ApprovalId]
      BY <1>2 DEF ApprovalTypeOK, Matching
    <2>3. QED
      BY <1>2, <1>6, <2>1, <2>2 DEF ApprovalTypeOK
  <1>8. LockExclusion'
    BY <1>2 DEF LockExclusion, Free, ApprovalTypeOK
  <1>9. LocksOnRows'
    BY <1>2 DEF LocksOnRows, Matching, ApprovalTypeOK
  <1>10. DecisionStillValid'
    <2>1. /\ d.approval_id \in held'[s]
          /\ approvals[a].status = "PENDING"
          /\ now < approvals[a].expires_at
          /\ m = approvals[a].payload.merchant_id
      BY <1>1, <1>2 DEF VerifyOwnerAndState, PENDING, Unexpired, ApprovalTypeOK
    <2>2. \A t \in tokens : /\ t \in DOMAIN approvals
                            /\ approvals[t].payload = approvals[a].payload
      BY <1>1 DEF VerifyToken, Claims
    <2>3. \A r \in DOMAIN tx : held'[r] = held[r]
      BY <1>2, ApprovalAssumption DEF ApprovalTypeOK
    <2>4. QED
      BY <1>2, <1>6, <2>1, <2>2, <2>3 DEF DecisionStillValid
  <1>11. DecidedByOwnerInTime' /\ ApprovedAsShown' /\ OutboxAgreesWithRows'
    BY <1>2 DEF DecidedByOwnerInTime, ApprovedAsShown, OutboxAgreesWithRows
  <1>12. QED
    BY <1>7, <1>8, <1>9, <1>10, <1>11

\* A committed decision turns its own row, which was PENDING, and leaves every
\* row that another session is deciding alone.
LEMMA CommitDecisionInv ==
    ASSUME ApprovalInv, NEW s \in Decider, CommitDecision(s)
    PROVE  ApprovalInv'
  <1> USE DEF ApprovalInv
  <1> DEFINE d == tx[s]
             a == d.approval_id
  <1>1. /\ s \in DOMAIN tx
        /\ s \in Session
        /\ d \in Decision
        /\ a \in held[s]
        /\ a \in DOMAIN approvals
        /\ a \in ApprovalId
        /\ approvals[a] \in Approval
    BY ApprovalAssumption
       DEF CommitDecision, ApprovalTypeOK, DecisionStillValid, LocksOnRows
  <1>2. /\ DOMAIN approvals' = DOMAIN approvals
        /\ approvals'[a] = DecidedRow(d)
        /\ \A x \in DOMAIN approvals : x # a => approvals'[x] = approvals[x]
    BY <1>1 DEF CommitDecision, ApprovalTypeOK
  <1>3. /\ approvals'[a] \in Approval
        /\ approvals'[a].payload = approvals[a].payload
        /\ approvals'[a].expires_at = approvals[a].expires_at
        /\ approvals'[a].status = d.status
        /\ approvals'[a].decided_at = d.decided_at
        /\ approvals'[a].decided_by = {d.decided_by}
    BY <1>1, <1>2, DecidedRowFacts
  <1>4. \A x \in DOMAIN approvals : approvals'[x].payload = approvals[x].payload
    BY <1>2, <1>3
  <1>5. /\ DOMAIN tx' = DOMAIN tx \ {s}
        /\ \A r \in DOMAIN tx \ {s} : tx'[r] = tx[r]
        /\ held' = [held EXCEPT ![s] = {}]
        /\ now' = now
    BY DEF CommitDecision, Without
  <1>6. ApprovalTypeOK'
    <2>1. approvals' \in [DOMAIN approvals' -> Approval]
      BY <1>1, <1>2, <1>3 DEF CommitDecision, ApprovalTypeOK
    <2>2. tx' \in [DOMAIN tx' -> Decision]
      BY <1>5 DEF CommitDecision, Without, ApprovalTypeOK
    <2>3. held' \in [Session -> SUBSET ApprovalId]
      BY <1>5 DEF ApprovalTypeOK
    <2>4. outbox' \subseteq Event
      BY <1>1, EventTypes DEF CommitDecision, ApprovalTypeOK
    <2>5. grants' \subseteq ApprovalId \X ApprovalId
      BY <1>1 DEF CommitDecision, ApprovalTypeOK, Decision
    <2>6. QED
      BY <1>2, <1>5, <2>1, <2>2, <2>3, <2>4, <2>5 DEF ApprovalTypeOK
  <1>7. LockExclusion' /\ LocksOnRows'
    BY <1>1, <1>2, <1>5 DEF LockExclusion, LocksOnRows, ApprovalTypeOK
  <1>8. DecisionStillValid'
    <2>1. \A r \in DOMAIN tx \ {s} :
             /\ r \in Session
             /\ held'[r] = held[r]
             /\ tx[r].approval_id # a
             /\ tx[r].approval_id \in DOMAIN approvals
      BY <1>1, <1>5, ApprovalAssumption
         DEF ApprovalTypeOK, LockExclusion, LocksOnRows, DecisionStillValid
    <2>2. QED
      BY <1>2, <1>4, <1>5, <2>1 DEF DecisionStillValid
  <1>9. DecidedByOwnerInTime'
    BY <1>1, <1>2, <1>3 DEF DecidedByOwnerInTime, DecisionStillValid
  <1>10. ApprovedAsShown'
    <2>1. \A g \in grants' : /\ g[1] \in DOMAIN approvals
                             /\ g[2] \in DOMAIN approvals
                             /\ approvals[g[1]].payload = approvals[g[2]].payload
      BY <1>1 DEF CommitDecision, ApprovedAsShown, DecisionStillValid
    <2>2. d.status = "APPROVED" => \E t \in ApprovalId : <<a, t>> \in grants'
      BY <1>1 DEF CommitDecision, DecisionStillValid, Decision
    <2>3. grants \subseteq grants'
      BY DEF CommitDecision
    <2>4. \A g \in grants' : /\ g[1] \in DOMAIN approvals'
                             /\ g[2] \in DOMAIN approvals'
                             /\ approvals'[g[1]].payload = approvals'[g[2]].payload
      BY <1>2, <1>4, <2>1
    <2>5. \A x \in DOMAIN approvals' :
             approvals'[x].status = "APPROVED" => \E t \in ApprovalId : <<x, t>> \in grants'
      BY <1>2, <1>3, <2>2, <2>3 DEF ApprovedAsShown
    <2>6. QED
      BY <2>4, <2>5 DEF ApprovedAsShown
  <1>11. OutboxAgreesWithRows'
    <2>1. \A e, b : [event_type |-> e, aggregate_id |-> b] \in outbox'
                       <=> \/ [event_type |-> e, aggregate_id |-> b] \in outbox
                           \/ /\ b = a
                              /\ \/ e = "APPROVAL_GRANTED" /\ d.status = "APPROVED"
                                 \/ e = "APPROVAL_REJECTED" /\ d.status = "REJECTED"
      BY <1>1, DecisionEventFacts DEF CommitDecision
    <2>2. approvals[a].status = "PENDING" /\ d.status \in Decided
      BY <1>1 DEF DecisionStillValid, Decision
    <2>3. QED
      <3> SUFFICES ASSUME NEW c \in ApprovalId
                   PROVE  (OutboxAgreesWithRows!(c))'
        BY DEF OutboxAgreesWithRows
      <3>1. CASE c = a
        BY <1>1, <1>2, <1>3, <2>1, <2>2, <3>1 DEF OutboxAgreesWithRows, Decided
      <3>2. CASE c # a
        BY <1>2, <2>1, <3>2 DEF OutboxAgreesWithRows
      <3>3. QED
        BY <3>1, <3>2
  <1>12. QED
    BY <1>6, <1>7, <1>8, <1>9, <1>10, <1>11

\* A committed revision turns its own row to MODIFIED and adds a PENDING one.
LEMMA CommitRevisionInv ==
    ASSUME ApprovalInv, NEW s \in Decider, NEW b \in ApprovalId,
           CommitRevision(s, b)
    PROVE  ApprovalInv'
  <1> USE DEF ApprovalInv
  <1> DEFINE d == tx[s]
             a == d.approval_id
             old == approvals[a]
  <1>1. /\ s \in DOMAIN tx
        /\ s \in Session
        /\ d \in Decision
        /\ d.decided_at \in Nat
        /\ a \in held[s]
        /\ a \in DOMAIN approvals
        /\ a \in ApprovalId
        /\ old \in Approval
        /\ old.revision + 1 \in Nat
        /\ b \notin DOMAIN approvals
    BY ApprovalAssumption
       DEF CommitRevision, ApprovalTypeOK, DecisionStillValid, LocksOnRows,
           Decision, Approval
  <1>2. PICK p \in d.revised :
          approvals' = Extend([approvals EXCEPT ![a] = DecidedRow(d)], b,
                              PendingRow(p, old.revision + 1, d.decided_at))
    BY DEF CommitRevision
  <1>3. p \in Payload /\ d.status = "MODIFIED"
    BY <1>1, <1>2 DEF Decision, DecisionStillValid
  <1>4. /\ DOMAIN approvals' = DOMAIN approvals \cup {b}
        /\ approvals'[a] = DecidedRow(d)
        /\ approvals'[b] = PendingRow(p, old.revision + 1, d.decided_at)
        /\ \A x \in DOMAIN approvals : x # a => approvals'[x] = approvals[x]
    BY <1>1, <1>2 DEF Extend, ApprovalTypeOK
  <1>5. /\ approvals'[a] \in Approval
        /\ approvals'[a].payload = approvals[a].payload
        /\ approvals'[a].expires_at = approvals[a].expires_at
        /\ approvals'[a].status = "MODIFIED"
        /\ approvals'[a].decided_at = d.decided_at
        /\ approvals'[a].decided_by = {d.decided_by}
    BY <1>1, <1>3, <1>4, DecidedRowFacts
  <1>6. /\ approvals'[b] \in Approval
        /\ approvals'[b].status = "PENDING"
    BY <1>1, <1>3, <1>4, PendingRowFacts
  <1>7. \A x \in DOMAIN approvals : approvals'[x].payload = approvals[x].payload
    BY <1>4, <1>5
  <1>8. /\ DOMAIN tx' = DOMAIN tx \ {s}
        /\ \A r \in DOMAIN tx \ {s} : tx'[r] = tx[r]
        /\ held' = [held EXCEPT ![s] = {}]
        /\ UNCHANGED <<now, grants>>
    BY DEF CommitRevision, Without
  <1>9. ApprovalTypeOK'
    <2>1. approvals' \in [DOMAIN approvals' -> Approval]
      BY <1>1, <1>2, <1>4, <1>5, <1>6 DEF Extend, ApprovalTypeOK
    <2>2. tx' \in [DOMAIN tx' -> Decision]
      BY <1>8 DEF CommitRevision, Without, ApprovalTypeOK
    <2>3. held' \in [Session -> SUBSET ApprovalId]
      BY <1>8 DEF ApprovalTypeOK
    <2>4. outbox' \subseteq Event
      BY EventTypes DEF CommitRevision, ApprovalTypeOK
    <2>5. QED
      BY <1>4, <1>8, <2>1, <2>2, <2>3, <2>4 DEF ApprovalTypeOK
  <1>10. LockExclusion' /\ LocksOnRows'
    BY <1>1, <1>4, <1>8 DEF LockExclusion, LocksOnRows, ApprovalTypeOK
  <1>11. DecisionStillValid'
    <2>1. \A r \in DOMAIN tx \ {s} :
             /\ r \in Session
             /\ held'[r] = held[r]
             /\ tx[r].approval_id # a
             /\ tx[r].approval_id \in DOMAIN approvals
      BY <1>1, <1>8, ApprovalAssumption
         DEF ApprovalTypeOK, LockExclusion, LocksOnRows, DecisionStillValid
    <2>2. QED
      BY <1>4, <1>7, <1>8, <2>1 DEF DecisionStillValid
  <1>12. DecidedByOwnerInTime'
    BY <1>1, <1>4, <1>5, <1>6 DEF DecidedByOwnerInTime, DecisionStillValid, Decided
  <1>13. ApprovedAsShown'
    BY <1>4, <1>5, <1>6, <1>7, <1>8 DEF ApprovedAsShown
  <1>14. OutboxAgreesWithRows'
    <2>1. \A e, c : [event_type |-> e, aggregate_id |-> c] \in outbox'
                       <=> \/ [event_type |-> e, aggregate_id |-> c] \in outbox
                           \/ c = b /\ e \in {"APPROVAL_REQUIRED", "NOTIFICATION_CREATED"}
      BY RequestEventFacts DEF CommitRevision
    <2>2. approvals[a].status = "PENDING"
      BY <1>1 DEF DecisionStillValid
    <2>3. \A c \in ApprovalId : c \notin {a, b} =>
             (c \in DOMAIN approvals' <=> c \in DOMAIN approvals)
             /\ (c \in DOMAIN approvals => approvals'[c].status = approvals[c].status)
      BY <1>4
    <2>4. QED
      <3> SUFFICES ASSUME NEW c \in ApprovalId
                   PROVE  (OutboxAgreesWithRows!(c))'
        BY DEF OutboxAgreesWithRows
      <3>1. CASE c = a
        BY <1>1, <1>4, <1>5, <2>1, <2>2, <3>1 DEF OutboxAgreesWithRows
      <3>2. CASE c = b
        BY <1>1, <1>4, <1>6, <2>1, <3>2 DEF OutboxAgreesWithRows
      <3>3. CASE c \notin {a, b}
        BY <2>1, <2>3, <3>3 DEF OutboxAgreesWithRows
      <3>4. QED
        BY <3>1, <3>2, <3>3
  <1>15. QED
    BY <1>9, <1>10, <1>11, <1>12, <1>13, <1>14

\* A lost transaction gives up its locks and nothing else.
LEMMA RollbackInv ==
    ASSUME ApprovalInv, NEW s \in Decider, Rollback(s)
    PROVE  ApprovalInv'
  <1> USE DEF ApprovalInv
  <1>1. /\ DOMAIN tx' = DOMAIN tx \ {s}
        /\ \A r \in DOMAIN tx \ {s} : tx'[r] = tx[r]
        /\ held' = [held EXCEPT ![s] = {}]
        /\ UNCHANGED <<now, approvals, outbox, grants>>
    BY DEF Rollback, Without
  <1>2. ApprovalTypeOK'
    <2>1. tx' \in [DOMAIN tx' -> Decision]
      BY <1>1 DEF Rollback, Without, ApprovalTypeOK
    <2>2. held' \in [Session -> SUBSET ApprovalId]
      BY <1>1 DEF ApprovalTypeOK
    <2>3. QED
      BY <1>1, <2>1, <2>2 DEF ApprovalTypeOK
  <1>3. LockExclusion' /\ LocksOnRows'
    BY <1>1 DEF LockExclusion, LocksOnRows, ApprovalTypeOK
  <1>4. DecisionStillValid'
    BY <1>1, ApprovalAssumption DEF DecisionStillValid, ApprovalTypeOK
  <1>5. DecidedByOwnerInTime' /\ ApprovedAsShown' /\ OutboxAgreesWithRows'
    BY <1>1 DEF DecidedByOwnerInTime, ApprovedAsShown, OutboxAgreesWithRows
  <1>6. QED
    BY <1>2, <1>3, <1>4, <1>5

\* Time is in no part of the invariant but its own type: an open decision has
\* recorded when it was made.
LEMMA TickInv == ApprovalInv /\ Tick => ApprovalInv'
  <1> SUFFICES ASSUME ApprovalInv, Tick PROVE ApprovalInv'
    OBVIOUS
  <1>1. ApprovalTypeOK'
    BY DEF ApprovalInv, Tick, ApprovalTypeOK
  <1>2. UNCHANGED <<approvals, held, tx, outbox, grants>>
    BY DEF Tick
  <1>3. LockExclusion' /\ LocksOnRows'
    BY <1>2 DEF ApprovalInv, LockExclusion, LocksOnRows
  <1>4. DecisionStillValid'
    BY <1>2 DEF ApprovalInv, DecisionStillValid
  <1>5. DecidedByOwnerInTime' /\ ApprovedAsShown' /\ OutboxAgreesWithRows'
    BY <1>2 DEF ApprovalInv, DecidedByOwnerInTime, ApprovedAsShown, OutboxAgreesWithRows
  <1>6. QED
    BY <1>1, <1>3, <1>4, <1>5 DEF ApprovalInv

\* A step that changes none of the variables keeps the invariant.
LEMMA StutterInv == ApprovalInv /\ UNCHANGED approvalVars => ApprovalInv'
  <1> SUFFICES ASSUME ApprovalInv, UNCHANGED approvalVars PROVE ApprovalInv'
    OBVIOUS
  <1>1. ApprovalTypeOK'
    BY DEF ApprovalInv, approvalVars, ApprovalTypeOK
  <1>2. /\ LockExclusion' /\ LocksOnRows' /\ DecisionStillValid'
        /\ DecidedByOwnerInTime' /\ ApprovedAsShown'
    BY DEF ApprovalInv, approvalVars, LockExclusion, LocksOnRows, DecisionStillValid,
           DecidedByOwnerInTime, ApprovedAsShown
  <1>3. OutboxAgreesWithRows'
    BY DEF ApprovalInv, approvalVars, OutboxAgreesWithRows
  <1>4. QED
    BY <1>1, <1>2, <1>3 DEF ApprovalInv

\* Every step of a deciding session keeps the invariant.
LEMMA DecisionStepInv ==
    ASSUME ApprovalInv, NEW s \in Decider, DecisionStep(s)
    PROVE  ApprovalInv'
  <1>1. ASSUME NEW x \in Identifier, NEW m \in Merchant,
               NEW t \in DOMAIN approvals, Approve(s, x, m, t)
        PROVE  ApprovalInv'
    <2>1. {t} \in SUBSET ApprovalId
      BY DEF ApprovalInv, ApprovalTypeOK
    <2>2. QED
      BY <1>1, <2>1, DecideInv DEF Approve, Decided
  <1>2. ASSUME NEW x \in Identifier, NEW m \in Merchant,
               NEW t \in DOMAIN approvals, MarkModified(s, x, m, t)
        PROVE  ApprovalInv'
    <2>1. {t} \in SUBSET ApprovalId
      BY DEF ApprovalInv, ApprovalTypeOK
    <2>2. QED
      BY <1>2, <2>1, DecideInv DEF MarkModified, Decided
  <1>3. ASSUME NEW x \in Identifier, NEW m \in Merchant, Reject(s, x, m)
        PROVE  ApprovalInv'
    BY <1>3, DecideInv DEF Reject, Decided
  <1>4. ASSUME NEW x \in Identifier, NEW m \in Merchant, NEW c \in Change,
               Modify(s, x, m, c)
        PROVE  ApprovalInv'
    <2>1. {c} \in SUBSET Change /\ {} \in SUBSET ApprovalId
      OBVIOUS
    <2>2. Decide(s, x, m, {}, "MODIFIED", {c}) /\ "MODIFIED" \in Decided
      BY <1>4 DEF Modify, Decided
    <2>3. QED
      BY <2>1, <2>2, DecideInv
  <1>5. QED
    BY <1>1, <1>2, <1>3, <1>4, CommitDecisionInv, CommitRevisionInv, RollbackInv
       DEF DecisionStep

\* The invariant is inductive.
LEMMA NextInv == ApprovalInv /\ [ApprovalNext]_approvalVars => ApprovalInv'
  <1> SUFFICES ASSUME ApprovalInv, [ApprovalNext]_approvalVars
               PROVE  ApprovalInv'
    OBVIOUS
  <1>1. ASSUME NEW a \in ApprovalId, NEW p \in Payload, NEW r \in 1..MaxRevision,
               Create(a, p, r)
        PROVE  ApprovalInv'
    BY <1>1, CreateInv, ApprovalAssumption
  <1>2. ASSUME NEW s \in Decider, DecisionStep(s)
        PROVE  ApprovalInv'
    BY <1>2, DecisionStepInv
  <1>3. CASE Tick
    BY <1>3, TickInv
  <1>4. CASE UNCHANGED approvalVars
    BY <1>4, StutterInv
  <1>5. QED
    BY <1>1, <1>2, <1>3, <1>4 DEF ApprovalNext

\* What DecisionFinal says of one step.
RowsKept ==
    \A a \in DOMAIN approvals :
       /\ a \in DOMAIN approvals'
       /\ approvals'[a].payload = approvals[a].payload
       /\ approvals'[a].expires_at = approvals[a].expires_at
       /\ approvals[a].status \in Decided => approvals'[a] = approvals[a]

\* Only a commit touches an existing row, and that row is still PENDING.
LEMMA StepKeepsRows == ApprovalInv /\ ApprovalNext => RowsKept
  <1> SUFFICES ASSUME ApprovalInv, ApprovalNext PROVE RowsKept
    OBVIOUS
  <1>1. CASE UNCHANGED approvals
    BY <1>1 DEF RowsKept
  <1>2. ASSUME NEW a \in ApprovalId, NEW p \in Payload, NEW r \in 1..MaxRevision,
               Create(a, p, r)
        PROVE  RowsKept
    BY <1>2 DEF Create, Extend, RowsKept
  <1>3. ASSUME NEW s \in Decider, CommitDecision(s)
        PROVE  RowsKept
    <2>1. /\ tx[s] \in Decision
          /\ tx[s].approval_id \in DOMAIN approvals
          /\ approvals[tx[s].approval_id] \in Approval
          /\ approvals[tx[s].approval_id].status = "PENDING"
      BY <1>3, ApprovalAssumption
         DEF CommitDecision, ApprovalInv, ApprovalTypeOK, DecisionStillValid, LocksOnRows
    <2>2. QED
      BY <1>3, <2>1, DecidedRowFacts
         DEF CommitDecision, RowsKept, ApprovalInv, ApprovalTypeOK, Decided
  <1>4. ASSUME NEW s \in Decider, NEW b \in ApprovalId, CommitRevision(s, b)
        PROVE  RowsKept
    <2> DEFINE a == tx[s].approval_id
    <2>1. /\ tx[s] \in Decision
          /\ a \in DOMAIN approvals
          /\ approvals[a] \in Approval
          /\ approvals[a].status = "PENDING"
          /\ b \notin DOMAIN approvals
      BY <1>4, ApprovalAssumption
         DEF CommitRevision, ApprovalInv, ApprovalTypeOK, DecisionStillValid, LocksOnRows
    <2>2. /\ DOMAIN approvals \subseteq DOMAIN approvals'
          /\ approvals'[a] = DecidedRow(tx[s])
          /\ \A x \in DOMAIN approvals : x # a => approvals'[x] = approvals[x]
      BY <1>4, <2>1 DEF CommitRevision, Extend, ApprovalInv, ApprovalTypeOK
    <2>3. QED
      BY <2>1, <2>2, DecidedRowFacts DEF RowsKept, Decided
  <1>5. ASSUME NEW s \in Decider, Rollback(s)
        PROVE  RowsKept
    BY <1>5, <1>1 DEF Rollback
  <1>6. ASSUME NEW s \in Decider, NEW x, NEW m, NEW tokens, NEW status, NEW changes,
               Decide(s, x, m, tokens, status, changes)
        PROVE  RowsKept
    BY <1>6, <1>1 DEF Decide
  <1>7. CASE Tick
    BY <1>7, <1>1 DEF Tick
  <1>8. ASSUME NEW s \in Decider, DecisionStep(s)
        PROVE  RowsKept
    BY <1>3, <1>4, <1>5, <1>6, <1>8
       DEF DecisionStep, Approve, MarkModified, Reject, Modify
  <1>9. QED
    BY <1>2, <1>7, <1>8 DEF ApprovalNext

-----------------------------------------------------------------------------
(* The theorems.                                                            *)

\* The invariant holds in every reachable state.
THEOREM ApprovalInvariant == ApprovalSpec => []ApprovalInv
  BY InitInv, NextInv, PTL DEF ApprovalSpec

\* Every variable of the approvals service keeps its type.
THEOREM ApprovalTypeCorrect == ApprovalSpec => []ApprovalTypeOK
  <1>1. ApprovalInv => ApprovalTypeOK
    BY DEF ApprovalInv
  <1>2. QED
    BY <1>1, ApprovalInvariant, PTL

\* approve, reject, modify, mark_modified and verify_token: a row is decided by
\* its owner, before it expires, whatever happens between the check and the
\* commit; and what is approved is what the presented token was signed for,
\* however many rows share the proposal id.
THEOREM DecisionsTakenRightly == ApprovalSpec => []DecidedRightly
  <1>1. ApprovalInv => DecidedRightly
    BY DEF ApprovalInv, DecidedRightly
  <1>2. QED
    BY <1>1, ApprovalInvariant, PTL

\* The outbox rows of a decision commit with it and agree with the table.
THEOREM EventsAgreeWithTable == ApprovalSpec => []OutboxAgreesWithRows
  <1>1. ApprovalInv => OutboxAgreesWithRows
    BY DEF ApprovalInv
  <1>2. QED
    BY <1>1, ApprovalInvariant, PTL

\* FOR UPDATE and the status check: once a decision is committed no step
\* changes the row, and no step ever changes the terms of a row.
THEOREM DecisionsAreFinal == ApprovalSpec => DecisionFinal
  <1>1. ApprovalInv /\ [ApprovalNext]_approvalVars => [RowsKept]_approvalVars
    BY StepKeepsRows
  <1>2. ApprovalSpec => [][RowsKept]_approvalVars
    BY <1>1, ApprovalInvariant, PTL DEF ApprovalSpec
  <1>3. QED
    BY <1>2 DEF DecisionFinal, RowsKept

-----------------------------------------------------------------------------
(* The execution of approved orders.                                        *)

\* UniqueConstraint("proposal_id", "order_hash"): terms identify their row.
UniquePayloads ==
    \A a, b \in DOMAIN approvals : approvals[a].payload = approvals[b].payload => a = b

\* The supplier holds an order for the proposal of p.
InBook(p) == \E q \in book : /\ q.proposal_id = p.proposal_id
                             /\ q.supplier_id = p.supplier_id

Outcome == {<<"CONFIRMED", "SUCCEEDED">>, <<"APPROVAL_PENDING", "PENDING">>,
            <<"FAILED", "FAILED">>}

\* What an open execution has established by the stage it is in.
ExecutionChecked ==
    \A s \in DOMAIN exec :
       LET x == exec[s]
           a == x.approval_id
       IN  /\ a \in DOMAIN approvals
           /\ approvals[a].payload = x.payload
           /\ x.stage # "lookup" =>
                 /\ approvals[a].status = "APPROVED"
                 /\ total_amount(x.payload) <= SpendingLimit[x.payload.merchant_id]
           /\ x.stage = "placed" =>
                 /\ <<x.status, x.transaction>> \in Outcome
                 /\ x.status = "CONFIRMED" => InBook(x.payload)

\* Order.proposal_id is unique, orders point to rows, and every event about
\* an order has its order.
OrdersIndexed ==
    /\ \A o, p \in orders : o.payload.proposal_id = p.payload.proposal_id => o = p
    /\ \A o \in orders : o.approval_id \in DOMAIN approvals
    /\ \A e \in orderOutbox : \E o \in orders : o.payload.proposal_id = e.proposal_id

ExecutionInv ==
    /\ ExecutionTypeOK
    /\ UniquePayloads
    /\ ExecutionChecked
    /\ OrdersIndexed
    /\ PlacedOnlyIfApproved
    /\ PlacementExclusive
    /\ OneOrderPerSupplier
    /\ OrdersTellTheTruth

Inv == ApprovalInv /\ ExecutionInv

-----------------------------------------------------------------------------
(* Steps of the approvals service.                                          *)

\* There are no orders and no executions at first.
LEMMA ExecutionInitInv == Init => Inv
  <1> SUFFICES ASSUME Init PROVE Inv
    OBVIOUS
  <1>1. ApprovalInv
    BY InitInv DEF Init
  <1>2. ExecutionInv
    BY DEF Init, ApprovalInit, ExecutionInv, ExecutionTypeOK, UniquePayloads,
           ExecutionChecked, OrdersIndexed, PlacedOnlyIfApproved,
           PlacementExclusive, Inserted, OneOrderPerSupplier, OrdersTellTheTruth
  <1>3. QED
    BY <1>1, <1>2 DEF Inv

\* A step of the approvals service adds at most one row, with terms that no
\* row has.
LEMMA StepKeepsPayloadsUnique ==
    ASSUME ApprovalInv, UniquePayloads, ApprovalNext
    PROVE  UniquePayloads'
  <1>1. CASE UNCHANGED approvals
    BY <1>1 DEF UniquePayloads
  <1>2. ASSUME NEW a \in ApprovalId, NEW p \in Payload, NEW r \in 1..MaxRevision,
               Create(a, p, r)
        PROVE  UniquePayloads'
    <2>1. /\ DOMAIN approvals' = DOMAIN approvals \cup {a}
          /\ approvals'[a].payload = p
          /\ \A x \in DOMAIN approvals : approvals'[x] = approvals[x]
      BY <1>2 DEF Create, Extend, PendingRow
    <2>2. \A x \in DOMAIN approvals : approvals[x].payload # p
      BY <1>2 DEF Create, NewPayload
    <2>3. QED
      BY <2>1, <2>2 DEF UniquePayloads
  <1>3. ASSUME NEW s \in Decider, CommitDecision(s)
        PROVE  UniquePayloads'
    <2>1. DOMAIN approvals' = DOMAIN approvals
      BY <1>3 DEF CommitDecision
    <2>2. \A x \in DOMAIN approvals : approvals'[x].payload = approvals[x].payload
      BY <1>3, StepKeepsRows DEF RowsKept
    <2>3. QED
      BY <2>1, <2>2 DEF UniquePayloads
  <1>4. ASSUME NEW s \in Decider, NEW b \in ApprovalId, CommitRevision(s, b)
        PROVE  UniquePayloads'
    <2>1. PICK p \in tx[s].revised :
            /\ NewPayload(p)
            /\ approvals' = Extend([approvals EXCEPT ![tx[s].approval_id] = DecidedRow(tx[s])], b,
                                   PendingRow(p, approvals[tx[s].approval_id].revision + 1,
                                              tx[s].decided_at))
      BY <1>4 DEF CommitRevision
    <2>2. /\ DOMAIN approvals' = DOMAIN approvals \cup {b}
          /\ approvals'[b].payload = p
      BY <2>1 DEF Extend, PendingRow
    <2>3. \A x \in DOMAIN approvals : approvals'[x].payload = approvals[x].payload
      BY StepKeepsRows DEF RowsKept
    <2>4. \A x \in DOMAIN approvals : approvals[x].payload # p
      BY <2>1 DEF NewPayload
    <2>5. QED
      BY <2>2, <2>3, <2>4 DEF UniquePayloads
  <1>5. ASSUME NEW s \in Decider, DecisionStep(s)
        PROVE  UniquePayloads'
    BY <1>1, <1>3, <1>4, <1>5
       DEF DecisionStep, Approve, MarkModified, Reject, Modify, Decide, Rollback
  <1>6. QED
    BY <1>1, <1>2, <1>5 DEF ApprovalNext, Tick

\* Nothing an execution has checked is undone by a decision: rows keep their
\* terms, and an approved row stays as it is.
LEMMA ApprovalStepKeepsExecution ==
    ASSUME Inv, ApprovalNext, UNCHANGED executionVars
    PROVE  Inv'
  <1> USE DEF Inv, ExecutionInv
  <1>1. ApprovalInv'
    BY NextInv
  <1>2. RowsKept
    BY StepKeepsRows
  <1>3. \A a \in DOMAIN approvals :
           /\ a \in DOMAIN approvals'
           /\ approvals'[a].payload = approvals[a].payload
           /\ approvals[a].status = "APPROVED" => approvals'[a] = approvals[a]
    BY <1>2 DEF RowsKept, Decided
  <1>4. UNCHANGED <<orders, exec, book, orderOutbox>>
    BY DEF executionVars
  <1>5. ExecutionTypeOK'
    BY <1>4 DEF ExecutionTypeOK
  <1>6. UniquePayloads'
    BY StepKeepsPayloadsUnique
  <1>7. ExecutionChecked'
    BY <1>3, <1>4 DEF ExecutionChecked, InBook
  <1>8. OrdersIndexed'
    BY <1>3, <1>4 DEF OrdersIndexed
  <1>9. PlacedOnlyIfApproved'
    BY <1>3, <1>4 DEF PlacedOnlyIfApproved
  <1>10. PlacementExclusive' /\ OneOrderPerSupplier'
    BY <1>4 DEF PlacementExclusive, Inserted, OneOrderPerSupplier
  <1>11. OrdersTellTheTruth'
    BY <1>3, <1>4 DEF OrdersTellTheTruth, OrdersIndexed
  <1>12. QED
    BY <1>1, <1>5, <1>6, <1>7, <1>8, <1>9, <1>10, <1>11

-----------------------------------------------------------------------------
(* Steps of an execution.                                                   *)

\* An executing session may lock rows nobody has locked, or give its locks up.
LEMMA ExecutorLocksInv ==
    ASSUME ApprovalInv, NEW s \in Executor, NEW rows \in SUBSET DOMAIN approvals,
           \A r \in Session \ {s} : held[r] \cap rows = {},
           held' = [held EXCEPT ![s] = rows],
           UNCHANGED <<now, approvals, tx, outbox, grants>>
    PROVE  ApprovalInv'
  <1> USE DEF ApprovalInv
  <1>1. s \in Session /\ s \notin DOMAIN tx
    BY ExecutionAssumption DEF ApprovalTypeOK
  <1>2. ApprovalTypeOK'
    BY <1>1 DEF ApprovalTypeOK
  <1>3. LockExclusion' /\ LocksOnRows'
    BY <1>1 DEF LockExclusion, LocksOnRows, ApprovalTypeOK
  <1>4. DecisionStillValid'
    BY <1>1, ApprovalAssumption DEF DecisionStillValid, ApprovalTypeOK
  <1>5. DecidedByOwnerInTime' /\ ApprovedAsShown'
    BY DEF DecidedByOwnerInTime, ApprovedAsShown
  <1>6. OutboxAgreesWithRows'
    BY DEF OutboxAgreesWithRows
  <1>7. QED
    BY <1>2, <1>3, <1>4, <1>5, <1>6

\* The first read of execute only remembers which row it is about.
LEMMA LookupInv ==
    ASSUME Inv, NEW s \in Executor, NEW a \in ApprovalId, NEW m \in Merchant,
           Lookup(s, a, m)
    PROVE  Inv'
  <1> USE DEF Inv, ExecutionInv
  <1> DEFINE x == [stage |-> "lookup", approval_id |-> a, merchant_id |-> m,
                   payload |-> approvals[a].payload,
                   status |-> "EXECUTING", transaction |-> "PENDING"]
  <1>1. UNCHANGED <<approvalVars, orders, book, orderOutbox>>
    BY DEF Lookup
  <1>2. UNCHANGED approvals
    BY <1>1 DEF approvalVars
  <1>3. ApprovalInv'
    BY <1>1, StutterInv
  <1>4. /\ DOMAIN exec' = DOMAIN exec \cup {s}
        /\ exec'[s] = x
        /\ \A r \in DOMAIN exec : exec'[r] = exec[r]
    BY DEF Lookup, Extend
  <1>5. a \in DOMAIN approvals /\ approvals[a].payload \in Payload
    BY DEF Lookup, ApprovalInv, ApprovalTypeOK, Approval
  <1>6. ExecutionTypeOK'
    <2>1. x \in Execution
      BY <1>5 DEF Execution, Stage, OrderStatus, TransactionStatus
    <2>2. exec' \in [DOMAIN exec' -> Execution]
      BY <1>4, <2>1 DEF Lookup, Extend, ExecutionTypeOK
    <2>3. QED
      BY <1>1, <1>4, <2>2 DEF ExecutionTypeOK
  <1>7. ExecutionChecked'
    BY <1>1, <1>2, <1>4, <1>5 DEF ExecutionChecked, InBook
  <1>8. PlacementExclusive'
    <2>1. Inserted' = Inserted /\ s \notin Inserted
      BY <1>4 DEF Inserted, Lookup
    <2>2. QED
      BY <1>1, <1>4, <2>1 DEF PlacementExclusive, Inserted
  <1>9. /\ UniquePayloads' /\ OrdersIndexed' /\ PlacedOnlyIfApproved'
        /\ OneOrderPerSupplier' /\ OrdersTellTheTruth'
    BY <1>1, <1>2 DEF UniquePayloads, OrdersIndexed, PlacedOnlyIfApproved,
                      OneOrderPerSupplier, OrdersTellTheTruth
  <1>10. QED
    BY <1>3, <1>6, <1>7, <1>8, <1>9

\* The locked row passes every check of execute.
LEMMA AuthorizeInv ==
    ASSUME Inv, NEW s \in Executor, NEW t \in ApprovalId, Authorize(s, t)
    PROVE  Inv'
  <1> USE DEF Inv, ExecutionInv
  <1> DEFINE a == exec[s].approval_id
  <1>1. /\ s \in DOMAIN exec
        /\ exec[s].stage = "lookup"
        /\ UNCHANGED <<now, approvals, tx, outbox, grants, orders, book, orderOutbox>>
        /\ held' = [held EXCEPT ![s] = Matching(a)]
        /\ Free(Matching(a))
        /\ approvals[a].payload.merchant_id = exec[s].merchant_id
        /\ approvals[a].status = "APPROVED"
        /\ total_amount(approvals[a].payload) <= SpendingLimit[exec[s].merchant_id]
    BY DEF Authorize
  <1>2. ApprovalInv'
    BY <1>1, ExecutorLocksInv DEF Matching, Free
  <1>3. /\ DOMAIN exec' = DOMAIN exec
        /\ exec'[s] = [exec[s] EXCEPT !.stage = "authorized"]
        /\ \A r \in DOMAIN exec \ {s} : exec'[r] = exec[r]
    BY <1>1 DEF Authorize, ExecutionTypeOK
  <1>4. exec[s] \in Execution
    BY <1>1 DEF ExecutionTypeOK
  <1>5. /\ exec'[s] \in Execution
        /\ exec'[s].stage = "authorized"
        /\ exec'[s].approval_id = a
        /\ exec'[s].payload = exec[s].payload
    BY <1>3, <1>4 DEF Execution, Stage
  <1>6. ExecutionTypeOK'
    <2>1. exec' \in [DOMAIN exec' -> Execution]
      BY <1>3, <1>5 DEF Authorize, ExecutionTypeOK
    <2>2. QED
      BY <1>1, <1>3, <2>1 DEF ExecutionTypeOK
  <1>7. ExecutionChecked'
    <2>1. (ExecutionChecked!(s))'
      BY <1>1, <1>5 DEF ExecutionChecked
    <2>2. \A r \in DOMAIN exec \ {s} : (ExecutionChecked!(r))'
      BY <1>1, <1>3 DEF ExecutionChecked, InBook
    <2>3. QED
      BY <1>1, <1>3, <2>1, <2>2 DEF ExecutionChecked
  <1>8. PlacementExclusive'
    <2>1. Inserted' = Inserted /\ s \notin Inserted
      BY <1>1, <1>3, <1>5 DEF Inserted
    <2>2. QED
      BY <1>1, <1>3, <2>1 DEF PlacementExclusive, Inserted
  <1>9. /\ UniquePayloads' /\ OrdersIndexed' /\ PlacedOnlyIfApproved'
        /\ OneOrderPerSupplier' /\ OrdersTellTheTruth'
    BY <1>1 DEF UniquePayloads, OrdersIndexed, PlacedOnlyIfApproved,
                OneOrderPerSupplier, OrdersTellTheTruth
  <1>10. QED
    BY <1>2, <1>6, <1>7, <1>8, <1>9

\* The unique constraints admit the row only if it is the first.
LEMMA InsertOrderInv ==
    ASSUME Inv, NEW s \in Executor, InsertOrder(s)
    PROVE  Inv'
  <1> USE DEF Inv, ExecutionInv
  <1>1. /\ s \in DOMAIN exec
        /\ exec[s].stage = "authorized"
        /\ UNCHANGED <<approvalVars, orders, book, orderOutbox>>
    BY DEF InsertOrder
  <1>2. UNCHANGED approvals
    BY <1>1 DEF approvalVars
  <1>3. ApprovalInv'
    BY <1>1, StutterInv
  <1>4. /\ DOMAIN exec' = DOMAIN exec
        /\ exec'[s] = [exec[s] EXCEPT !.stage = "inserted"]
        /\ \A r \in DOMAIN exec \ {s} : exec'[r] = exec[r]
    BY <1>1 DEF InsertOrder, ExecutionTypeOK
  <1>5. exec[s] \in Execution
    BY <1>1 DEF ExecutionTypeOK
  <1>6. /\ exec'[s] \in Execution
        /\ exec'[s].stage = "inserted"
        /\ exec'[s].approval_id = exec[s].approval_id
        /\ exec'[s].payload = exec[s].payload
    BY <1>4, <1>5 DEF Execution, Stage
  <1>7. ExecutionTypeOK'
    <2>1. exec' \in [DOMAIN exec' -> Execution]
      BY <1>4, <1>6 DEF InsertOrder, ExecutionTypeOK
    <2>2. QED
      BY <1>1, <1>4, <2>1 DEF ExecutionTypeOK
  <1>8. ExecutionChecked'
    <2>1. (ExecutionChecked!(s))'
      BY <1>1, <1>2, <1>6 DEF ExecutionChecked
    <2>2. \A r \in DOMAIN exec \ {s} : (ExecutionChecked!(r))'
      BY <1>1, <1>2, <1>4 DEF ExecutionChecked, InBook
    <2>3. QED
      BY <1>1, <1>4, <2>1, <2>2 DEF ExecutionChecked
  <1>9. PlacementExclusive'
    <2>1. /\ Inserted' = Inserted \cup {s}
          /\ s \notin Inserted
          /\ \A r \in Inserted : exec'[r] = exec[r]
      BY <1>1, <1>4, <1>6 DEF Inserted
    <2>2. /\ \A r \in Inserted : exec[r].payload.proposal_id # exec[s].payload.proposal_id
          /\ \A o \in orders : o.payload.proposal_id # exec[s].payload.proposal_id
      BY DEF InsertOrder
    <2>3. QED
      BY <1>1, <1>6, <2>1, <2>2 DEF PlacementExclusive
  <1>10. /\ UniquePayloads' /\ OrdersIndexed' /\ PlacedOnlyIfApproved'
         /\ OneOrderPerSupplier' /\ OrdersTellTheTruth'
    BY <1>1, <1>2 DEF UniquePayloads, OrdersIndexed, PlacedOnlyIfApproved,
                      OneOrderPerSupplier, OrdersTellTheTruth
  <1>11. QED
    BY <1>3, <1>7, <1>8, <1>9, <1>10

\* The supplier's idempotency: it holds an order for p afterwards, and at most
\* one more than before.
LEMMA AcceptFacts ==
    ASSUME NEW p, Accept(p), OneOrderPerSupplier
    PROVE  /\ book \subseteq book'
           /\ book' \subseteq book \cup {p}
           /\ InBook(p)'
           /\ OneOrderPerSupplier'
  <1>1. CASE \E q \in book : /\ q.proposal_id = p.proposal_id
                             /\ q.supplier_id = p.supplier_id
    BY <1>1 DEF Accept, InBook, OneOrderPerSupplier
  <1>2. CASE ~ \E q \in book : /\ q.proposal_id = p.proposal_id
                               /\ q.supplier_id = p.supplier_id
    BY <1>2 DEF Accept, InBook, OneOrderPerSupplier
  <1>3. QED
    BY <1>1, <1>2

\* The supplier is called for approved terms within the limit, and its answer
\* is taken over into both rows.
LEMMA AnsweredInv ==
    ASSUME Inv, NEW s \in Executor, NEW status \in OrderStatus,
           NEW transaction \in TransactionStatus,
           s \in DOMAIN exec,
           exec[s].stage = "inserted",
           Answered(s, status, transaction),
           <<status, transaction>> \in Outcome,
           UNCHANGED book \/ Accept(exec[s].payload),
           status = "CONFIRMED" => Accept(exec[s].payload),
           UNCHANGED <<approvalVars, orders, orderOutbox>>
    PROVE  Inv'
  <1> USE DEF Inv, ExecutionInv
  <1>1. UNCHANGED approvals
    BY DEF approvalVars
  <1>2. ApprovalInv'
    BY StutterInv
  <1>3. exec[s] \in Execution /\ exec[s].payload \in Payload
    BY DEF ExecutionTypeOK, Execution
  <1> PICK p \in Payload : p = exec[s].payload
    BY <1>3
  <1>4. /\ book \subseteq book'
        /\ book' \subseteq book \cup {p}
        /\ status = "CONFIRMED" => InBook(p)'
        /\ OneOrderPerSupplier'
    <2>1. CASE Accept(p)
      BY <2>1, AcceptFacts
    <2>2. CASE UNCHANGED book /\ ~Accept(p)
      BY <2>2 DEF OneOrderPerSupplier
    <2>3. QED
      BY <2>1, <2>2
  <1>5. /\ DOMAIN exec' = DOMAIN exec
        /\ exec'[s] = [exec[s] EXCEPT !.stage = "placed", !.status = status,
                                      !.transaction = transaction]
        /\ \A r \in DOMAIN exec \ {s} : exec'[r] = exec[r]
    BY DEF Answered, ExecutionTypeOK
  <1>6. /\ exec'[s] \in Execution
        /\ exec'[s].stage = "placed"
        /\ exec'[s].approval_id = exec[s].approval_id
        /\ exec'[s].payload = p
        /\ exec'[s].status = status
        /\ exec'[s].transaction = transaction
    BY <1>3, <1>5 DEF Execution, Stage
  <1>7. ExecutionTypeOK'
    <2>1. exec' \in [DOMAIN exec' -> Execution]
      BY <1>5, <1>6 DEF Answered, ExecutionTypeOK
    <2>2. QED
      BY <1>3, <1>4, <1>5, <2>1 DEF ExecutionTypeOK
  <1>8. ExecutionChecked'
    <2>1. (ExecutionChecked!(s))'
      BY <1>1, <1>4, <1>6 DEF ExecutionChecked
    <2>2. \A q : InBook(q) => InBook(q)'
      BY <1>4 DEF InBook
    <2>3. \A r \in DOMAIN exec \ {s} : (ExecutionChecked!(r))'
      BY <1>1, <1>5, <2>2 DEF ExecutionChecked
    <2>4. QED
      BY <1>5, <2>1, <2>3 DEF ExecutionChecked
  <1>9. PlacementExclusive'
    <2>1. Inserted' = Inserted
      BY <1>5, <1>6 DEF Inserted
    <2>2. \A r \in Inserted : exec'[r].payload = exec[r].payload
      BY <1>5, <1>6 DEF Inserted
    <2>3. QED
      BY <2>1, <2>2 DEF PlacementExclusive
  <1>10. PlacedOnlyIfApproved'
    <2>1. /\ approvals[exec[s].approval_id].payload = p
          /\ exec[s].approval_id \in DOMAIN approvals
          /\ approvals[exec[s].approval_id].status = "APPROVED"
          /\ total_amount(p) <= SpendingLimit[p.merchant_id]
      BY DEF ExecutionChecked
    <2>2. approvals[exec[s].approval_id].decided_at < approvals[exec[s].approval_id].expires_at
      BY <2>1 DEF ApprovalInv, DecidedByOwnerInTime, Decided
    <2>3. QED
      BY <1>1, <1>4, <2>1, <2>2 DEF PlacedOnlyIfApproved
  <1>11. UniquePayloads' /\ OrdersIndexed'
    BY <1>1 DEF UniquePayloads, OrdersIndexed
  <1>12. OrdersTellTheTruth'
    BY <1>1, <1>4 DEF OrdersTellTheTruth
  <1>13. QED
    BY <1>2, <1>4, <1>7, <1>8, <1>9, <1>10, <1>11, <1>12

\* The three ways place_order ends.
LEMMA PlaceInv ==
    ASSUME Inv, NEW s \in Executor,
           PlaceConfirmed(s) \/ PlacePending(s) \/ PlaceFailed(s)
    PROVE  Inv'
  <1>1. CASE PlaceConfirmed(s)
    BY <1>1, AnsweredInv DEF PlaceConfirmed, OrderStatus, TransactionStatus, Outcome
  <1>2. CASE PlacePending(s)
    BY <1>2, AnsweredInv DEF PlacePending, OrderStatus, TransactionStatus, Outcome
  <1>3. CASE PlaceFailed(s)
    BY <1>3, AnsweredInv DEF PlaceFailed, OrderStatus, TransactionStatus, Outcome
  <1>4. QED
    BY <1>1, <1>2, <1>3

\* The commit publishes the order, its outcome and its event together.
LEMMA CommitOrderInv ==
    ASSUME Inv, NEW s \in Executor, CommitOrder(s)
    PROVE  Inv'
  <1> USE DEF Inv, ExecutionInv
  <1> PICK x : x = exec[s]
    OBVIOUS
  <1> DEFINE new == [payload |-> x.payload, approval_id |-> x.approval_id,
                     status |-> x.status, transaction |-> x.transaction]
             event == [event_type |-> EventOf(x.status),
                       proposal_id |-> x.payload.proposal_id]
  <1>1. /\ s \in DOMAIN exec
        /\ x.stage = "placed"
        /\ orders' = orders \cup {new}
        /\ orderOutbox' = orderOutbox \cup {event}
        /\ held' = [held EXCEPT ![s] = {}]
        /\ UNCHANGED <<now, approvals, tx, outbox, grants, book>>
    BY DEF CommitOrder
  <1>2. ApprovalInv'
    <2>1. {} \in SUBSET DOMAIN approvals /\ \A r \in Session \ {s} : held[r] \cap {} = {}
      OBVIOUS
    <2>2. QED
      BY <1>1, <2>1, ExecutorLocksInv
  <1>3. /\ DOMAIN exec' = DOMAIN exec \ {s}
        /\ \A r \in DOMAIN exec \ {s} : exec'[r] = exec[r]
    BY DEF CommitOrder, Without
  <1>4. x \in Execution /\ x.payload \in Payload
    BY <1>1 DEF ExecutionTypeOK, Execution
  <1>5. ExecutionTypeOK'
    <2>1. exec' \in [DOMAIN exec' -> Execution]
      BY <1>3 DEF CommitOrder, Without, ExecutionTypeOK
    <2>2. new \in Order
      BY <1>4 DEF Order, Execution
    <2>3. event \in OrderEvent
      BY <1>4 DEF OrderEvent, EventOf, Payload
    <2>4. QED
      BY <1>1, <1>3, <2>1, <2>2, <2>3 DEF ExecutionTypeOK
  <1>6. ExecutionChecked'
    BY <1>1, <1>3 DEF ExecutionChecked, InBook
  <1>7. /\ \A o \in orders : o.payload.proposal_id # x.payload.proposal_id
        /\ \A r \in Inserted \ {s} : exec[r].payload.proposal_id # x.payload.proposal_id
    BY <1>1 DEF PlacementExclusive, Inserted
  <1>8. PlacementExclusive'
    <2>1. /\ Inserted' = Inserted \ {s}
          /\ \A r \in Inserted \ {s} : exec'[r] = exec[r]
      BY <1>3 DEF Inserted
    <2>2. QED
      BY <1>1, <1>7, <2>1 DEF PlacementExclusive
  <1>9. /\ x.approval_id \in DOMAIN approvals
        /\ approvals[x.approval_id].payload = x.payload
        /\ approvals[x.approval_id].status = "APPROVED"
        /\ <<x.status, x.transaction>> \in Outcome
        /\ x.status = "CONFIRMED" => InBook(x.payload)
    BY <1>1 DEF ExecutionChecked
  <1>10. OrdersIndexed'
    <2>1. \A o, q \in orders' : o.payload.proposal_id = q.payload.proposal_id => o = q
      BY <1>1, <1>7 DEF OrdersIndexed
    <2>2. \A o \in orders' : o.approval_id \in DOMAIN approvals'
      BY <1>1, <1>9 DEF OrdersIndexed
    <2>3. \A e \in orderOutbox' : \E o \in orders' : o.payload.proposal_id = e.proposal_id
      <3>1. new \in orders' /\ new.payload.proposal_id = event.proposal_id
        BY <1>1
      <3>2. QED
        BY <1>1, <3>1 DEF OrdersIndexed
    <2>4. QED
      BY <2>1, <2>2, <2>3 DEF OrdersIndexed
  <1>11. OrdersTellTheTruth'
    <2>1. \A e \in orderOutbox : e.proposal_id # x.payload.proposal_id
      BY <1>7 DEF OrdersIndexed
    <2>2. {e \in orderOutbox' : e.proposal_id = x.payload.proposal_id} = {event}
      BY <1>1, <2>1
    <2>3. (OrdersTellTheTruth!(new))'
      BY <1>1, <1>9, <2>2 DEF OrdersTellTheTruth, Outcome, InBook
    <2>4. \A o \in orders :
             {e \in orderOutbox' : e.proposal_id = o.payload.proposal_id} =
             {e \in orderOutbox : e.proposal_id = o.payload.proposal_id}
      BY <1>1, <1>7
    <2>5. \A o \in orders : (OrdersTellTheTruth!(o))'
      BY <1>1, <2>4 DEF OrdersTellTheTruth
    <2>6. QED
      BY <1>1, <2>3, <2>5 DEF OrdersTellTheTruth
  <1>12. UniquePayloads' /\ PlacedOnlyIfApproved' /\ OneOrderPerSupplier'
    BY <1>1 DEF UniquePayloads, PlacedOnlyIfApproved, OneOrderPerSupplier
  <1>13. QED
    BY <1>2, <1>5, <1>6, <1>8, <1>10, <1>11, <1>12

\* A lost execution leaves only what the supplier may have taken.
LEMMA AbortOrderInv ==
    ASSUME Inv, NEW s \in Executor, AbortOrder(s)
    PROVE  Inv'
  <1> USE DEF Inv, ExecutionInv
  <1>1. /\ DOMAIN exec' = DOMAIN exec \ {s}
        /\ \A r \in DOMAIN exec \ {s} : exec'[r] = exec[r]
        /\ held' = [held EXCEPT ![s] = {}]
        /\ UNCHANGED <<now, approvals, tx, outbox, grants, orders, book, orderOutbox>>
    BY DEF AbortOrder, Without
  <1>2. ApprovalInv'
    <2>1. {} \in SUBSET DOMAIN approvals /\ \A r \in Session \ {s} : held[r] \cap {} = {}
      OBVIOUS
    <2>2. QED
      BY <1>1, <2>1, ExecutorLocksInv
  <1>3. ExecutionTypeOK'
    <2>1. exec' \in [DOMAIN exec' -> Execution]
      BY <1>1 DEF AbortOrder, Without, ExecutionTypeOK
    <2>2. QED
      BY <1>1, <2>1 DEF ExecutionTypeOK
  <1>4. ExecutionChecked'
    BY <1>1 DEF ExecutionChecked, InBook
  <1>5. PlacementExclusive'
    <2>1. /\ Inserted' = Inserted \ {s}
          /\ \A r \in Inserted \ {s} : exec'[r] = exec[r]
      BY <1>1 DEF Inserted
    <2>2. QED
      BY <1>1, <2>1 DEF PlacementExclusive
  <1>6. /\ UniquePayloads' /\ OrdersIndexed' /\ PlacedOnlyIfApproved'
        /\ OneOrderPerSupplier' /\ OrdersTellTheTruth'
    BY <1>1 DEF UniquePayloads, OrdersIndexed, PlacedOnlyIfApproved,
                OneOrderPerSupplier, OrdersTellTheTruth
  <1>7. QED
    BY <1>2, <1>3, <1>4, <1>5, <1>6

\* A step that changes nothing.
LEMMA ExecutionStutterInv == Inv /\ UNCHANGED vars => Inv'
  <1> SUFFICES ASSUME Inv, UNCHANGED vars PROVE Inv'
    OBVIOUS
  <1> USE DEF Inv, ExecutionInv
  <1>1. UNCHANGED approvalVars /\ UNCHANGED <<approvals, orders, exec, book, orderOutbox>>
    BY DEF vars, approvalVars, executionVars
  <1>2. ApprovalInv'
    BY <1>1, StutterInv
  <1>3. ExecutionTypeOK' /\ ExecutionChecked' /\ PlacementExclusive'
    BY <1>1 DEF ExecutionTypeOK, ExecutionChecked, InBook, PlacementExclusive, Inserted
  <1>4. /\ UniquePayloads' /\ OrdersIndexed' /\ PlacedOnlyIfApproved'
        /\ OneOrderPerSupplier' /\ OrdersTellTheTruth'
    BY <1>1 DEF UniquePayloads, OrdersIndexed, PlacedOnlyIfApproved,
                OneOrderPerSupplier, OrdersTellTheTruth
  <1>5. QED
    BY <1>2, <1>3, <1>4

\* The invariant is inductive.
LEMMA ExecutionNextInv == Inv /\ [Next]_vars => Inv'
  <1> SUFFICES ASSUME Inv, [Next]_vars PROVE Inv'
    OBVIOUS
  <1>1. CASE ApprovalNext /\ UNCHANGED executionVars
    BY <1>1, ApprovalStepKeepsExecution
  <1>2. ASSUME NEW s \in Executor, ExecutionStep(s)
        PROVE  Inv'
    BY <1>2, LookupInv, AuthorizeInv, InsertOrderInv, PlaceInv, CommitOrderInv,
       AbortOrderInv DEF ExecutionStep
  <1>3. CASE UNCHANGED vars
    BY <1>3, ExecutionStutterInv
  <1>4. QED
    BY <1>1, <1>2, <1>3 DEF Next

-----------------------------------------------------------------------------
(* The theorems.                                                            *)

\* The invariant holds in every reachable state.
THEOREM ExecutionInvariant == Spec => []Inv
  BY ExecutionInitInv, ExecutionNextInv, PTL DEF Spec

\* Every variable of approvals and executions keeps its type.
THEOREM ExecutionTypeCorrect == Spec => []TypeOK
  <1>1. Inv => TypeOK
    BY DEF Inv, ApprovalInv, ExecutionInv, TypeOK
  <1>2. QED
    BY <1>1, ExecutionInvariant, PTL

\* OrderService.execute: a supplier holds only orders whose exact terms were
\* approved in time and within the spending limit.
THEOREM NothingPlacedUnapproved == Spec => []PlacedOnlyIfApproved
  <1>1. Inv => PlacedOnlyIfApproved
    BY DEF Inv, ExecutionInv
  <1>2. QED
    BY <1>1, ExecutionInvariant, PTL

\* The unique constraints on orders and the idempotency key: the supplier is
\* never called concurrently for a proposal, nor after an outcome was
\* recorded, and takes no second order after a lost one.
THEOREM ProposalPlacedOnce == Spec => []PlacedOnce
  <1>1. Inv => PlacedOnce
    BY DEF Inv, ExecutionInv, PlacedOnce
  <1>2. QED
    BY <1>1, ExecutionInvariant, PTL

\* Order, transaction and event of a committed execution agree with each
\* other, with the approval and with the supplier.
THEOREM CommittedOrdersTellTheTruth == Spec => []OrdersTellTheTruth
  <1>1. Inv => OrdersTellTheTruth
    BY DEF Inv, ExecutionInv
  <1>2. QED
    BY <1>1, ExecutionInvariant, PTL

-----------------------------------------------------------------------------
(* The purchase contract.                                                   *)

\* Steps that leave rows and book alone are invisible.
LEMMA InvisibleStep ==
    ASSUME UNCHANGED <<approvals, book>>
    PROVE  UNCHANGED <<Verdict, Bought>>
  BY DEF Verdict, Bought

\* A new row asks a new question.
LEMMA CreateAsks ==
    ASSUME Inv, NEW a \in ApprovalId, NEW p \in Payload, NEW r \in Nat,
           Create(a, p, r), UNCHANGED book
    PROVE  Contract!Ask(a)
  <1>1. /\ a \notin DOMAIN approvals
        /\ DOMAIN approvals' = DOMAIN approvals \cup {a}
        /\ approvals'[a].status = "PENDING"
        /\ approvals'[a].payload = p
        /\ \A x \in DOMAIN approvals : approvals'[x] = approvals[x]
    BY DEF Create, Extend, PendingRow
  <1>2. p \notin book
    BY DEF Create, NewPayload, Inv, ExecutionInv, PlacedOnlyIfApproved
  <1>3. Bought' = Bought
    BY <1>1, <1>2 DEF Bought
  <1>4. Verdict[a] = "unasked"
    BY <1>1 DEF Verdict
  <1>5. Verdict' = [Verdict EXCEPT ![a] = "asked"]
    BY <1>1 DEF Verdict
  <1>6. QED
    BY <1>3, <1>4, <1>5 DEF Contract!Ask

\* A committed decision answers an open question.
LEMMA CommitReplies ==
    ASSUME Inv, NEW s \in Decider, CommitDecision(s), UNCHANGED book
    PROVE  \E q \in ApprovalId, answer \in {"yes", "no"} : Contract!Reply(q, answer)
  <1> PICK d : d = tx[s]
    OBVIOUS
  <1> DEFINE a == d.approval_id
             answer == IF d.status = "APPROVED" THEN "yes" ELSE "no"
  <1>1. /\ d \in Decision
        /\ a \in DOMAIN approvals
        /\ a \in ApprovalId
        /\ approvals[a] \in Approval
        /\ approvals[a].status = "PENDING"
    BY ApprovalAssumption
       DEF CommitDecision, Inv, ApprovalInv, ApprovalTypeOK, DecisionStillValid, LocksOnRows
  <1>2. /\ DOMAIN approvals' = DOMAIN approvals
        /\ approvals'[a] = DecidedRow(d)
        /\ \A x \in DOMAIN approvals : x # a => approvals'[x] = approvals[x]
    BY <1>1 DEF CommitDecision, Inv, ApprovalInv, ApprovalTypeOK
  <1>3. approvals'[a].status = d.status /\ approvals'[a].payload = approvals[a].payload
    BY <1>1, <1>2, DecidedRowFacts
  <1>4. d.status # "PENDING"
    BY <1>1 DEF Decision, Decided
  <1>5. Bought' = Bought
    BY <1>2, <1>3 DEF Bought
  <1>6. Verdict[a] = "asked"
    BY <1>1 DEF Verdict
  <1>7. Verdict' = [Verdict EXCEPT ![a] = answer]
    BY <1>1, <1>2, <1>3, <1>4 DEF Verdict
  <1>8. QED
    BY <1>1, <1>5, <1>6, <1>7 DEF Contract!Reply

\* A committed revision replaces one question by another.
LEMMA CommitReplaces ==
    ASSUME Inv, NEW s \in Decider, NEW b \in ApprovalId, CommitRevision(s, b),
           UNCHANGED book
    PROVE  \E q \in ApprovalId : Contract!Replace(q, b)
  <1> PICK d : d = tx[s]
    OBVIOUS
  <1> DEFINE a == d.approval_id
  <1>1. /\ d \in Decision
        /\ a \in DOMAIN approvals
        /\ a \in ApprovalId
        /\ approvals[a] \in Approval
        /\ approvals[a].status = "PENDING"
        /\ b \notin DOMAIN approvals
    BY ApprovalAssumption
       DEF CommitRevision, Inv, ApprovalInv, ApprovalTypeOK, DecisionStillValid, LocksOnRows
  <1>2. PICK p \in d.revised :
          /\ NewPayload(p)
          /\ approvals' = Extend([approvals EXCEPT ![a] = DecidedRow(d)], b,
                                 PendingRow(p, approvals[a].revision + 1, d.decided_at))
    BY DEF CommitRevision
  <1>3. /\ DOMAIN approvals' = DOMAIN approvals \cup {b}
        /\ approvals'[a] = DecidedRow(d)
        /\ approvals'[b].status = "PENDING"
        /\ approvals'[b].payload = p
        /\ \A x \in DOMAIN approvals : x # a => approvals'[x] = approvals[x]
    BY <1>1, <1>2 DEF Extend, PendingRow, Inv, ApprovalInv, ApprovalTypeOK
  <1>4. approvals'[a].status = d.status /\ approvals'[a].payload = approvals[a].payload
    BY <1>1, <1>3, DecidedRowFacts
  <1>5. d.status = "MODIFIED"
    BY <1>2 DEF CommitRevision, Inv, ApprovalInv, DecisionStillValid
  <1>6. p \notin book
    BY <1>2 DEF NewPayload, Inv, ExecutionInv, PlacedOnlyIfApproved
  <1>7. Bought' = Bought
    BY <1>1, <1>3, <1>4, <1>6 DEF Bought
  <1>8. Verdict[a] = "asked" /\ Verdict[b] = "unasked"
    BY <1>1 DEF Verdict
  <1>9. Verdict' = [Verdict EXCEPT ![a] = "no", ![b] = "asked"]
    BY <1>1, <1>3, <1>4, <1>5 DEF Verdict
  <1>10. QED
    BY <1>1, <1>7, <1>8, <1>9 DEF Contract!Replace

\* An accepted order buys one approved question, or one bought before.
LEMMA AcceptBuys ==
    ASSUME Inv, NEW s \in Executor, s \in DOMAIN exec, exec[s].stage = "inserted",
           Accept(exec[s].payload), UNCHANGED approvals
    PROVE  \/ \E q \in ApprovalId : Contract!Buy(q)
           \/ UNCHANGED <<Verdict, Bought>>
  <1> PICK p : p = exec[s].payload
    OBVIOUS
  <1> PICK a : a = exec[s].approval_id
    OBVIOUS
  <1>1. /\ a \in DOMAIN approvals
        /\ a \in ApprovalId
        /\ approvals[a].payload = p
        /\ approvals[a].status = "APPROVED"
    BY DEF Inv, ApprovalInv, ApprovalTypeOK, ExecutionInv, ExecutionChecked
  <1>2. book' = book \/ book' = book \cup {p}
    BY DEF Accept
  <1>3. UNCHANGED Verdict
    BY DEF Verdict
  <1>4. CASE book' = book \/ p \in book
    <2>1. book' = book
      BY <1>2, <1>4
    <2>2. QED
      BY <2>1, InvisibleStep
  <1>5. CASE book' = book \cup {p} /\ p \notin book
    <2>1. \A x \in DOMAIN approvals : approvals[x].payload = p => x = a
      BY <1>1 DEF Inv, ExecutionInv, UniquePayloads
    <2>2. Bought' = Bought \cup {a} /\ a \notin Bought
      BY <1>1, <1>5, <2>1 DEF Bought
    <2>3. Verdict[a] = "yes"
      BY <1>1 DEF Verdict
    <2>4. QED
      BY <1>1, <1>3, <2>2, <2>3 DEF Contract!Buy
  <1>6. QED
    BY <1>2, <1>4, <1>5

\* Every step is a step of the contract, or invisible to it.
LEMMA StepSimulation ==
    Inv /\ [Next]_vars => [Contract!Next]_<<Verdict, Bought>>
  <1> SUFFICES ASSUME Inv, [Next]_vars
               PROVE  Contract!Next \/ UNCHANGED <<Verdict, Bought>>
    OBVIOUS
  <1>1. CASE ApprovalNext /\ UNCHANGED executionVars
    <2>1. UNCHANGED book
      BY <1>1 DEF executionVars
    <2>2. ASSUME NEW a \in ApprovalId, NEW p \in Payload, NEW r \in 1..MaxRevision,
                 Create(a, p, r)
          PROVE  Contract!Next
      <3>1. Contract!Ask(a)
        BY <2>1, <2>2, CreateAsks, ApprovalAssumption
      <3>2. QED
        BY <3>1 DEF Contract!Next
    <2>3. ASSUME NEW s \in Decider, CommitDecision(s)
          PROVE  Contract!Next
      BY <2>1, <2>3, CommitReplies DEF Contract!Next
    <2>4. ASSUME NEW s \in Decider, NEW b \in ApprovalId, CommitRevision(s, b)
          PROVE  Contract!Next
      BY <2>1, <2>4, CommitReplaces DEF Contract!Next
    <2>5. CASE UNCHANGED approvals
      BY <2>1, <2>5, InvisibleStep
    <2>6. QED
      BY <1>1, <2>2, <2>3, <2>4, <2>5
         DEF ApprovalNext, DecisionStep, Approve, MarkModified, Reject, Modify,
             Decide, Rollback, Tick
  <1>2. ASSUME NEW s \in Executor, ExecutionStep(s)
        PROVE  Contract!Next \/ UNCHANGED <<Verdict, Bought>>
    <2>1. UNCHANGED approvals
      BY <1>2 DEF ExecutionStep, approvalVars, Lookup, Authorize, InsertOrder,
                  PlaceConfirmed, PlacePending, PlaceFailed, CommitOrder, AbortOrder
    <2>2. \/ UNCHANGED book
          \/ /\ s \in DOMAIN exec /\ exec[s].stage = "inserted"
             /\ Accept(exec[s].payload)
      BY <1>2 DEF ExecutionStep, Lookup, Authorize, InsertOrder,
                  PlaceConfirmed, PlacePending, PlaceFailed, CommitOrder, AbortOrder
    <2>3. QED
      BY <2>1, <2>2, InvisibleStep, AcceptBuys DEF Contract!Next
  <1>3. CASE UNCHANGED vars
    BY <1>3, InvisibleStep DEF vars, approvalVars, executionVars
  <1>4. QED
    BY <1>1, <1>2, <1>3 DEF Next

\* Approvals, executions, locks, failures and the supplier's book together
\* implement PurchaseContract: one answer per question, and goods bought only
\* on a yes, once.
THEOREM ExecutionImplementsContract == Spec => ImplementsContract
  <1>1. Init => Contract!Init
    BY DEF Init, ApprovalInit, Contract!Init, Verdict, Bought
  <1>2. QED
    BY <1>1, StepSimulation, ExecutionInvariant, PTL
       DEF Spec, ImplementsContract, Contract!Spec
=============================================================================
