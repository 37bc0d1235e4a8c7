----------------------- MODULE PurchaseWorkflowProofs -----------------------
(***************************************************************************)
(* Proofs about PurchaseWorkflow, for any requests, suppliers and API       *)
(* handlers, any number of restarts and any bounds.                         *)
(*                                                                         *)
(* A run of the graph is carried by one place at a time: the handler that   *)
(* executes its nodes, or the checkpoint that waits for the merchant        *)
(* (OneCarrier).  What the carrier has already tried, asked and placed      *)
(* (CallSound, WaitSound) is what the tables say of it (BookSound,          *)
(* OrdersSound, RowsSound), and every stored state keeps to what has been   *)
(* bought and quoted (StateSound).                                          *)
(***************************************************************************)
EXTENDS PurchaseWorkflow, SequenceTheorems, TLAPS

\* Stages in which a handler carries a state of the graph.
Carrying == {"run", "requested", "placed", "recorded"}

Searching == {"detect_need", "forecast_demand", "find_supplier", "negotiate",
              "risk_check", "create_proposal"}

\* A purchase of request r that the database confirms and a supplier holds.
Held(r) ==
    \E k \in DOMAIN orders :
       /\ k[1] = r
       /\ orders[k].status = "CONFIRMED"
       /\ \E e \in book : e.key = k /\ e.supplier = orders[k].supplier

\* Row a puts the purchase that st has selected to the merchant.
RowMatches(r, st, a) ==
    /\ a \in DOMAIN approvals
    /\ approvals[a].request = r
    /\ approvals[a].revision = st.proposal_revision
    /\ {approvals[a].supplier} = st.selected

\* The rows this run has asked for: none of a later revision, and those of
\* the current one only for suppliers in tried.
AskedOnly(r, st, tried) ==
    \A a \in DOMAIN approvals :
       approvals[a].request = r /\ approvals[a].start = st.start =>
          /\ approvals[a].revision <= st.proposal_revision
          /\ approvals[a].revision = st.proposal_revision => approvals[a].supplier \in tried

\* Holds of every stored state, whether a call is working on it or not.
StateSound(r, st) ==
    /\ st.start <= starts
    /\ st.execution_status \in {"SUCCEEDED", "VERIFIED"} => Held(r)
    /\ restarts = 0 => \A s \in st.candidates \cup st.selected : <<r, s>> \in quotes

StatesSound ==
    /\ \A r \in Request : StateSound(r, thread[r])
    /\ \A h \in Handler : StateSound(handler[h].request, handler[h].state)

WaitSound(r) ==
    thread[r].next = "human_approval" =>
       /\ RowMatches(r, thread[r], thread[r].approval_id)
       /\ AskedOnly(r, thread[r], thread[r].attempted \cup thread[r].selected)

\* A handler of request r between two nodes.
RunSound(r, st) ==
    /\ st.next \in Searching \cup {"execute_order", "verify_result"}
    /\ st.next \in Searching => AskedOnly(r, st, st.attempted)
    /\ st.next = "negotiate" => st.candidates \cap st.attempted = {}
    /\ st.next \in {"risk_check", "create_proposal"} =>
          st.selected \cap st.attempted = {} /\ \E s \in Supplier : st.selected = {s}
    /\ st.next = "execute_order" =>
          /\ RowMatches(r, st, st.approval_id)
          /\ AskedOnly(r, st, st.attempted \cup st.selected)
    /\ st.next = "verify_result" /\ st.execution_status = "FAILED" =>
          AskedOnly(r, st, st.attempted)

\* A handler inside create_proposal, after the row is committed.
RequestedSound(h) ==
    /\ RowMatches(handler[h].request, handler[h].state, handler[h].approval_id)
    /\ AskedOnly(handler[h].request, handler[h].state,
                 handler[h].state.attempted \cup handler[h].state.selected)

\* A handler inside execute_order, after the supplier has answered.
PlacedSound(h) ==
    /\ RowMatches(handler[h].request, handler[h].state, handler[h].state.approval_id)
    /\ AskedOnly(handler[h].request, handler[h].state,
                 handler[h].state.attempted \cup handler[h].state.selected)
    /\ ExecuteKey(h) \notin DOMAIN orders
    /\ handler[h].status = "CONFIRMED" =>
          \A s \in handler[h].state.selected :
             \E e \in book : e.key = ExecuteKey(h) /\ e.supplier = s
    /\ handler[h].status = "FAILED" =>
          \A s \in handler[h].state.selected :
             <<ExecuteKey(h), s>> \in refusals \/ restarts > 0

\* A handler inside execute_order, once the order is known.
RecordedSound(h) ==
    /\ AskedOnly(handler[h].request, handler[h].state,
                 handler[h].state.attempted \cup handler[h].state.selected)
    /\ handler[h].status = "CONFIRMED" => Held(handler[h].request)

CallSound(h) ==
    /\ handler[h].stage = "snapshot" => handler[h].approval_id \in DOMAIN approvals
    /\ handler[h].stage = "run" => RunSound(handler[h].request, handler[h].state)
    /\ handler[h].stage = "requested" => RequestedSound(h)
    /\ handler[h].stage = "placed" => PlacedSound(h)
    /\ handler[h].stage = "recorded" => RecordedSound(h)

\* Handlers and waiting checkpoints carry different runs, and two open
\* transactions of OrderService have different keys.
OneCarrier ==
    /\ \A g, h \in Handler :
          g # h /\ handler[g].stage \in Carrying /\ handler[h].stage \in Carrying =>
             handler[g].state.start # handler[h].state.start
    /\ \A h \in Handler, r \in Request :
          handler[h].stage \in Carrying /\ thread[r].next = "human_approval" =>
             handler[h].state.start # thread[r].start
    /\ \A q, r \in Request :
          q # r /\ thread[q].next = "human_approval" /\ thread[r].next = "human_approval" =>
             thread[q].start # thread[r].start

OneTransaction ==
    \A g, h \in Handler :
       g # h /\ handler[g].stage = "placed" /\ handler[h].stage = "placed" =>
          ExecuteKey(g) # ExecuteKey(h)

\* What a supplier holds was asked for in a row, and is recorded, lost, or
\* about to be recorded.
BookSound ==
    \A e \in book :
       /\ e.approval_id \in DOMAIN approvals
       /\ e.key = ProposalId(approvals[e.approval_id])
       /\ e.supplier = approvals[e.approval_id].supplier
       /\ \/ e.key \in DOMAIN orders
          \/ e.key \in lost
          \/ \E h \in Handler : handler[h].stage = "placed" /\ ExecuteKey(h) = e.key

OrdersSound ==
    \A k \in DOMAIN orders :
       orders[k].status = "CONFIRMED" =>
          \E e \in book : e.key = k /\ e.supplier = orders[k].supplier

RowsSound ==
    /\ Len(approvals) <= MaxApprovals
    /\ \A a \in DOMAIN approvals : approvals[a].start <= starts

CallsSound == \A h \in Handler : CallSound(h)

WaitsSound == \A r \in Request : WaitSound(r)

WorkflowInv ==
    /\ TypeOK
    /\ StatesSound
    /\ WaitsSound
    /\ CallsSound
    /\ OneCarrier
    /\ OneTransaction
    /\ BookSound
    /\ OrdersSound
    /\ RowsSound
    /\ RecoveryNeverRepeatsSupplier
    /\ MishapsNeedAFault

-----------------------------------------------------------------------------
(* Types, and what no step undoes.                                          *)

\* The types of what a handler carries.
LEMMA HandlerTypes ==
    ASSUME TypeOK, NEW h \in Handler
    PROVE  /\ handler \in [Handler -> HandlerRecord]
           /\ handler[h] \in HandlerRecord
           /\ handler[h].stage \in Stage
           /\ handler[h].request \in Request
           /\ handler[h].state \in WorkflowState
           /\ handler[h].approval_id \in Nat
           /\ handler[h].action \in Action
           /\ handler[h].status \in {"CONFIRMED", "APPROVAL_PENDING", "FAILED"}
           /\ ExecuteKey(h) \in Key
           /\ handler[h].state.start \in Nat
           /\ handler[h].state.proposal_revision \in Nat
           /\ handler[h].state.selected \subseteq Supplier
  <1>1. handler[h] \in HandlerRecord
    BY DEF TypeOK
  <1>2. handler[h].state \in WorkflowState /\ handler[h].request \in Request
    BY <1>1 DEF HandlerRecord
  <1>3. handler[h].state.start \in Nat /\ handler[h].state.proposal_revision \in Nat
        /\ handler[h].state.selected \subseteq Supplier
    BY <1>2 DEF WorkflowState
  <1>4. ExecuteKey(h) \in Key
    BY <1>2, <1>3 DEF ExecuteKey, Key
  <1>5. QED
    BY <1>1, <1>2, <1>3, <1>4 DEF HandlerRecord, TypeOK

\* The types of a thread's checkpoint.
LEMMA ThreadTypes ==
    ASSUME TypeOK, NEW r \in Request
    PROVE  /\ thread[r] \in WorkflowState
           /\ thread[r].start \in Nat
           /\ thread[r].proposal_revision \in Nat
           /\ thread[r].approval_id \in Nat
           /\ thread[r].selected \subseteq Supplier
           /\ thread[r].attempted \subseteq Supplier
           /\ thread[r].candidates \subseteq Supplier
  <1>1. thread[r] \in WorkflowState
    BY DEF TypeOK
  <1>2. QED
    BY <1>1 DEF WorkflowState

\* The types of an approval row.
LEMMA RowTypes ==
    ASSUME TypeOK, NEW a \in DOMAIN approvals
    PROVE  /\ approvals[a] \in ApprovalRow
           /\ approvals[a].request \in Request
           /\ approvals[a].revision \in Nat
           /\ approvals[a].supplier \in Supplier
           /\ approvals[a].start \in Nat
           /\ Len(approvals) \in Nat
           /\ DOMAIN approvals = 1..Len(approvals)
  <1>1. approvals \in Seq(ApprovalRow)
    BY DEF TypeOK
  <1>2. Len(approvals) \in Nat /\ DOMAIN approvals = 1..Len(approvals)
        /\ approvals[a] \in ApprovalRow
    BY <1>1, LenProperties, ElementOfSeq
  <1>3. QED
    BY <1>2 DEF ApprovalRow

\* The state an idle handler shows is a state of the graph that carries nothing.
LEMMA IdleTypes ==
    /\ IdleState \in WorkflowState
    /\ IdleState.next = "START" /\ IdleState.start = 0
    /\ IdleState.candidates = {} /\ IdleState.selected = {}
    /\ IdleState.execution_status = "NOT_STARTED"
    /\ AnyRequest \in Request
    /\ \A r \in Request :
          /\ Idle(r) \in HandlerRecord
          /\ Idle(r).stage = "idle" /\ Idle(r).request = r /\ Idle(r).state = IdleState
  <1>1. IdleState \in WorkflowState
    BY DEF IdleState, WorkflowState, Node
  <1>2. AnyRequest \in Request
    BY WorkflowAssumption DEF AnyRequest
  <1>3. \A r \in Request : Idle(r) \in HandlerRecord
    BY <1>1 DEF Idle, HandlerRecord, Stage, Action
  <1>4. QED
    BY <1>1, <1>2, <1>3 DEF Idle, IdleState

\* Rows keep what they ask, orders and what the suppliers hold stay, and a
\* quote is lost only by a restart.
Grows ==
    /\ DOMAIN approvals \subseteq DOMAIN approvals'
    /\ \A a \in DOMAIN approvals :
          /\ approvals'[a].request = approvals[a].request
          /\ approvals'[a].revision = approvals[a].revision
          /\ approvals'[a].supplier = approvals[a].supplier
          /\ approvals'[a].start = approvals[a].start
    /\ DOMAIN orders \subseteq DOMAIN orders'
    /\ \A k \in DOMAIN orders : orders'[k] = orders[k]
    /\ book \subseteq book'
    /\ refusals \subseteq refusals'
    /\ lost \subseteq lost'
    /\ restarts <= restarts'
    /\ restarts' = 0 => quotes \subseteq quotes'
    /\ starts <= starts'

\* No row was added for run n.
NoNewRow(n) == \A a \in DOMAIN approvals' : approvals'[a].start = n => a \in DOMAIN approvals

\* A purchase that is held stays held.
LEMMA HeldStays ==
    ASSUME Grows, NEW r, Held(r)
    PROVE  Held(r)'
  <1>1. PICK k \in DOMAIN orders :
           /\ k[1] = r
           /\ orders[k].status = "CONFIRMED"
           /\ \E e \in book : e.key = k /\ e.supplier = orders[k].supplier
    BY DEF Held
  <1>2. k \in DOMAIN orders' /\ orders'[k] = orders[k] /\ book \subseteq book'
    BY DEF Grows
  <1>3. QED
    BY <1>1, <1>2 DEF Held

\* A checkpoint that is not written keeps its place in the invariant.
LEMMA ThreadKept ==
    ASSUME TypeOK, TypeOK', Grows, NEW r \in Request, thread'[r] = thread[r],
           StateSound(r, thread[r])
    PROVE  StateSound(r, thread[r])'
  <1>1. starts \in Nat /\ starts' \in Nat /\ restarts \in Nat /\ restarts' \in Nat
        /\ thread[r].start \in Nat
    BY ThreadTypes DEF TypeOK
  <1>2. (thread[r].start <= starts)'
    BY <1>1 DEF StateSound, Grows
  <1>3. thread[r].execution_status \in {"SUCCEEDED", "VERIFIED"} => Held(r)'
    BY HeldStays DEF StateSound
  <1>4. restarts' = 0 =>
           \A s \in thread[r].candidates \cup thread[r].selected : <<r, s>> \in quotes'
    <2>1. restarts' = 0 => restarts = 0
      BY <1>1 DEF Grows
    <2>2. QED
      BY <2>1 DEF StateSound, Grows
  <1>5. QED
    BY <1>2, <1>3, <1>4 DEF StateSound

\* So does a handler that takes no step.
LEMMA HandlerKept ==
    ASSUME TypeOK, TypeOK', Grows, NEW h \in Handler, handler'[h] = handler[h],
           StateSound(handler[h].request, handler[h].state)
    PROVE  StateSound(handler[h].request, handler[h].state)'
  <1>1. starts \in Nat /\ starts' \in Nat /\ restarts \in Nat /\ restarts' \in Nat
        /\ handler[h].state.start \in Nat
    BY HandlerTypes DEF TypeOK
  <1>2. (handler[h].state.start <= starts)'
    BY <1>1 DEF StateSound, Grows
  <1>3. handler[h].state.execution_status \in {"SUCCEEDED", "VERIFIED"} => Held(handler[h].request)'
    <2> DEFINE r == handler[h].request
    <2>1. handler'[h].request = r
      OBVIOUS
    <2> HIDE DEF r
    <2>2. Held(r) => \E k \in DOMAIN orders' :
             /\ k[1] = r
             /\ orders'[k].status = "CONFIRMED"
             /\ \E e \in book' : e.key = k /\ e.supplier = orders'[k].supplier
      BY DEF Held, Grows
    <2>3. QED
      BY <2>1, <2>2 DEF StateSound, Held, r
  <1>4. restarts' = 0 =>
           \A s \in handler[h].state.candidates \cup handler[h].state.selected :
              <<handler[h].request, s>> \in quotes'
    <2>1. restarts' = 0 => restarts = 0
      BY <1>1 DEF Grows
    <2>2. QED
      BY <2>1 DEF StateSound, Grows
  <1>5. QED
    BY <1>2, <1>3, <1>4 DEF StateSound

\* A waiting checkpoint that is not written waits on the same row.
LEMMA WaitKept ==
    ASSUME TypeOK, Grows, NEW r \in Request, thread'[r] = thread[r], WaitSound(r),
           thread[r].next = "human_approval" => NoNewRow(thread[r].start)
    PROVE  WaitSound(r)'
  <1> SUFFICES ASSUME thread'[r].next = "human_approval"
               PROVE  /\ RowMatches(r, thread[r], thread[r].approval_id)'
                      /\ AskedOnly(r, thread[r], thread[r].attempted \cup thread[r].selected)'
    BY DEF WaitSound
  <1>1. /\ RowMatches(r, thread[r], thread[r].approval_id)
        /\ AskedOnly(r, thread[r], thread[r].attempted \cup thread[r].selected)
        /\ NoNewRow(thread[r].start)
    BY DEF WaitSound
  <1>2. RowMatches(r, thread[r], thread[r].approval_id)'
    BY <1>1 DEF RowMatches, Grows
  <1>3. AskedOnly(r, thread[r], thread[r].attempted \cup thread[r].selected)'
    BY <1>1 DEF AskedOnly, Grows, NoNewRow
  <1>4. QED
    BY <1>2, <1>3

\* A handler that takes no step is still right about what it has tried,
\* asked for and placed.
LEMMA CallKept ==
    ASSUME TypeOK, TypeOK', Grows, NEW h \in Handler, handler'[h] = handler[h], CallSound(h),
           handler[h].stage \in Carrying => NoNewRow(handler[h].state.start),
           handler[h].stage = "placed" => ExecuteKey(h) \notin DOMAIN orders'
    PROVE  CallSound(h)'
  <1> DEFINE c == handler[h]
             st == handler[h].state
  <1>0. handler'[h] = c /\ restarts \in Nat /\ restarts' \in Nat
    BY DEF TypeOK
  <1>1. ASSUME NEW a, RowMatches(c.request, st, a)
        PROVE  /\ a \in DOMAIN approvals' /\ approvals'[a].request = c.request
               /\ approvals'[a].revision = st.proposal_revision
               /\ {approvals'[a].supplier} = st.selected
    BY <1>1 DEF RowMatches, Grows
  <1>2. ASSUME c.stage \in Carrying
        PROVE  \A a \in DOMAIN approvals' : approvals'[a].start = st.start =>
                  /\ a \in DOMAIN approvals
                  /\ approvals'[a].request = approvals[a].request
                  /\ approvals'[a].revision = approvals[a].revision
                  /\ approvals'[a].supplier = approvals[a].supplier
                  /\ approvals'[a].start = approvals[a].start
    BY <1>2 DEF Grows, NoNewRow
  <1>3. Held(c.request) => \E k \in DOMAIN orders' :
           /\ k[1] = c.request
           /\ orders'[k].status = "CONFIRMED"
           /\ \E e \in book' : e.key = k /\ e.supplier = orders'[k].supplier
    BY DEF Held, Grows
  <1>4. (handler[h].stage = "snapshot" => handler[h].approval_id \in DOMAIN approvals)'
    BY <1>0 DEF CallSound, Grows
  <1>5. (handler[h].stage = "run" => RunSound(handler[h].request, handler[h].state))'
    <2> SUFFICES ASSUME c.stage = "run"
                 PROVE  RunSound(handler[h].request, handler[h].state)'
      BY <1>0
    <2>1. RunSound(c.request, st) /\ c.stage \in Carrying
      BY DEF CallSound, Carrying
    <2>2. QED
      BY <1>0, <1>1, <1>2, <2>1 DEF RunSound, RowMatches, AskedOnly
  <1>6. (handler[h].stage = "requested" => RequestedSound(h))'
    <2> SUFFICES ASSUME c.stage = "requested"
                 PROVE  RequestedSound(h)'
      BY <1>0
    <2>1. RequestedSound(h) /\ c.stage \in Carrying
      BY DEF CallSound, Carrying
    <2>2. QED
      BY <1>0, <1>1, <1>2, <2>1 DEF RequestedSound, RowMatches, AskedOnly
  <1>7. (handler[h].stage = "placed" => PlacedSound(h))'
    <2> SUFFICES ASSUME c.stage = "placed"
                 PROVE  PlacedSound(h)'
      BY <1>0
    <2>1. PlacedSound(h) /\ c.stage \in Carrying /\ ExecuteKey(h)' = ExecuteKey(h)
      BY <1>0 DEF CallSound, Carrying, ExecuteKey
    <2>2. (RowMatches(handler[h].request, handler[h].state, handler[h].state.approval_id))'
      BY <1>0, <1>1, <2>1 DEF PlacedSound, RowMatches
    <2>3. AskedOnly(handler[h].request, handler[h].state,
                    handler[h].state.attempted \cup handler[h].state.selected)'
      BY <1>0, <1>2, <2>1 DEF PlacedSound, AskedOnly
    <2>4. \A s \in st.selected : c.status = "CONFIRMED" =>
             \E e \in book' : e.key = ExecuteKey(h) /\ e.supplier = s
      BY <2>1 DEF PlacedSound, Grows
    <2>5. \A s \in st.selected : c.status = "FAILED" =>
             <<ExecuteKey(h), s>> \in refusals' \/ restarts' > 0
      BY <1>0, <2>1 DEF PlacedSound, Grows
    <2>6. QED
      BY <1>0, <2>1, <2>2, <2>3, <2>4, <2>5 DEF PlacedSound
  <1>8. (handler[h].stage = "recorded" => RecordedSound(h))'
    <2> SUFFICES ASSUME c.stage = "recorded"
                 PROVE  RecordedSound(h)'
      BY <1>0
    <2>1. RecordedSound(h) /\ c.stage \in Carrying
      BY DEF CallSound, Carrying
    <2>2. QED
      BY <1>0, <1>2, <1>3, <2>1 DEF RecordedSound, AskedOnly, Held
  <1>9. QED
    BY <1>4, <1>5, <1>6, <1>7, <1>8 DEF CallSound

-----------------------------------------------------------------------------
(* Steps of one handler.                                                    *)

\* How the run that handler h carries changes hands when h takes a step on the
\* thread of request q: h keeps it or lets it go, begins a new one, takes up
\* the one that waits at q, or leaves it waiting at q.
Handover(h, q) ==
    \/ /\ handler'[h].stage \in Carrying =>
             handler[h].stage \in Carrying /\ handler'[h].state.start = handler[h].state.start
       /\ thread'[q].next = "human_approval" => thread'[q] = thread[q]
    \/ /\ handler'[h].state.start > starts
       /\ thread'[q].next # "human_approval"
    \/ /\ thread[q].next = "human_approval"
       /\ handler'[h].state.start = thread[q].start
       /\ thread'[q].next # "human_approval"
    \/ /\ handler[h].stage \in Carrying
       /\ handler'[h].stage \notin Carrying
       /\ thread'[q].start = handler[h].state.start

\* A step of h on the thread of q leaves the others alone.
StepOf(h, q) ==
    /\ \A g \in Handler \ {h} : handler'[g] = handler[g]
    /\ \A r \in Request \ {q} : thread'[r] = thread[r]

\* However the run changes hands, it stays in one place.
LEMMA CarrierStep ==
    ASSUME WorkflowInv, TypeOK', NEW h \in Handler, NEW q \in Request,
           StepOf(h, q), Handover(h, q)
    PROVE  OneCarrier'
  <1> USE DEF Carrying
  <1>1. /\ \A g \in Handler : handler[g].state.start <= starts /\ handler[g].state.start \in Nat
        /\ \A r \in Request : thread[r].start <= starts /\ thread[r].start \in Nat
        /\ starts \in Nat
        /\ handler'[h].state.start \in Nat
    <2>1. \A g \in Handler : handler[g].state.start \in Nat
      BY HandlerTypes DEF WorkflowInv
    <2>2. \A r \in Request : thread[r].start \in Nat
      BY ThreadTypes DEF WorkflowInv
    <2>3. handler'[h].state.start \in Nat
      BY DEF TypeOK, HandlerRecord, WorkflowState
    <2>4. QED
      BY <2>1, <2>2, <2>3 DEF WorkflowInv, TypeOK, StatesSound, StateSound
  <1>2. OneCarrier
    BY DEF WorkflowInv
  <1>3. ASSUME NEW f \in Handler, NEW g \in Handler, f # g,
               handler'[f].stage \in Carrying, handler'[g].stage \in Carrying
        PROVE  handler'[f].state.start # handler'[g].state.start
    BY <1>1, <1>2, <1>3 DEF OneCarrier, Handover, StepOf
  <1>4. ASSUME NEW g \in Handler, NEW r \in Request,
               handler'[g].stage \in Carrying, thread'[r].next = "human_approval"
        PROVE  handler'[g].state.start # thread'[r].start
    BY <1>1, <1>2, <1>4 DEF OneCarrier, Handover, StepOf
  <1>5. ASSUME NEW p \in Request, NEW r \in Request, p # r,
               thread'[p].next = "human_approval", thread'[r].next = "human_approval"
        PROVE  thread'[p].start # thread'[r].start
    BY <1>1, <1>2, <1>5 DEF OneCarrier, Handover, StepOf
  <1>6. QED
    BY <1>3, <1>4, <1>5 DEF OneCarrier

\* When h is right about itself after its step, so is everyone.  The rows and
\* orders that h adds belong to its own run.
LEMMA HandlerStepSound ==
    ASSUME WorkflowInv, TypeOK', Grows, NEW h \in Handler, NEW q \in Request, StepOf(h, q),
           StateSound(q, thread[q])', StateSound(handler[h].request, handler[h].state)',
           WaitSound(q)', CallSound(h)',
           \A a \in DOMAIN approvals' : a \in DOMAIN approvals \/
              (handler[h].stage \in Carrying /\ approvals'[a].start = handler[h].state.start),
           \A k \in DOMAIN orders' : k \in DOMAIN orders \/
              (handler[h].stage = "placed" /\ k = ExecuteKey(h))
    PROVE  StatesSound' /\ WaitsSound' /\ CallsSound'
  <1>0. TypeOK /\ StatesSound /\ WaitsSound /\ CallsSound /\ OneCarrier /\ OneTransaction
    BY DEF WorkflowInv
  <1>1. ASSUME NEW r \in Request PROVE StateSound(r, thread[r])' /\ WaitSound(r)'
    <2>1. CASE r = q
      BY <2>1
    <2>2. CASE r # q
      <3>1. thread'[r] = thread[r] /\ StateSound(r, thread[r]) /\ WaitSound(r)
        BY <1>0, <2>2 DEF StepOf, StatesSound, WaitsSound
      <3>2. thread[r].next = "human_approval" => NoNewRow(thread[r].start)
        BY <1>0 DEF OneCarrier, NoNewRow
      <3>3. QED
        BY <1>0, <3>1, <3>2, ThreadKept, WaitKept
    <2>3. QED
      BY <2>1, <2>2
  <1>2. ASSUME NEW g \in Handler
        PROVE  StateSound(handler[g].request, handler[g].state)' /\ CallSound(g)'
    <2>1. CASE g = h
      BY <2>1
    <2>2. CASE g # h
      <3>1. /\ handler'[g] = handler[g] /\ CallSound(g)
            /\ StateSound(handler[g].request, handler[g].state)
        BY <1>0, <2>2 DEF StepOf, StatesSound, CallsSound
      <3>2. handler[g].stage \in Carrying => NoNewRow(handler[g].state.start)
        BY <1>0, <2>2 DEF OneCarrier, NoNewRow
      <3>3. handler[g].stage = "placed" => ExecuteKey(g) \notin DOMAIN orders'
        BY <1>0, <2>2, <3>1 DEF OneTransaction, CallSound, PlacedSound
      <3>4. QED
        BY <1>0, <3>1, <3>2, <3>3, HandlerKept, CallKept
    <2>3. QED
      BY <2>1, <2>2
  <1>3. QED
    BY <1>1, <1>2 DEF StatesSound, WaitsSound, CallsSound

\* The tables a step of the graph mostly leaves alone.
QuietTables ==
    /\ UNCHANGED <<approvals, orders, book, refusals, restarts>>
    /\ starts' \in Nat /\ starts <= starts'
    /\ quotes \subseteq quotes' /\ quotes' \subseteq Request \X Supplier
    /\ lost \subseteq lost' /\ lost' \subseteq Key

\* A step that writes no row, no order and no book.
LEMMA QuietStepInv ==
    ASSUME WorkflowInv, NEW h \in Handler, NEW q \in Request,
           StepOf(h, q), Handover(h, q), QuietTables,
           handler' \in [Handler -> HandlerRecord], thread' \in [Request -> WorkflowState],
           StateSound(q, thread[q])', StateSound(handler[h].request, handler[h].state)',
           WaitSound(q)', CallSound(h)',
           handler'[h].stage # "placed",
           handler[h].stage = "placed" => ExecuteKey(h) \in lost'
    PROVE  WorkflowInv'
  <1>0. /\ TypeOK /\ OneTransaction /\ BookSound /\ OrdersSound /\ RowsSound
        /\ RecoveryNeverRepeatsSupplier /\ MishapsNeedAFault
    BY DEF WorkflowInv
  <1>1. TypeOK'
    BY <1>0 DEF TypeOK, QuietTables
  <1>2. Grows
    BY <1>0 DEF Grows, QuietTables, TypeOK
  <1>3. StatesSound' /\ WaitsSound' /\ CallsSound'
    BY <1>1, <1>2, HandlerStepSound DEF QuietTables
  <1>4. OneCarrier'
    BY <1>1, CarrierStep
  <1>5. \A g \in Handler : handler'[g].stage = "placed" =>
           g # h /\ handler'[g] = handler[g] /\ ExecuteKey(g)' = ExecuteKey(g)
    BY DEF StepOf, ExecuteKey
  <1>6. OneTransaction'
    BY <1>0, <1>5 DEF OneTransaction
  <1>7. BookSound'
    <2> SUFFICES ASSUME NEW e \in book
                 PROVE  /\ e.approval_id \in DOMAIN approvals
                        /\ e.key = ProposalId(approvals[e.approval_id])
                        /\ e.supplier = approvals[e.approval_id].supplier
                        /\ \/ e.key \in DOMAIN orders
                           \/ e.key \in lost'
                           \/ \E g \in Handler : handler'[g].stage = "placed" /\ ExecuteKey(g)' = e.key
      BY DEF BookSound, QuietTables, ProposalId
    <2>1. /\ e.approval_id \in DOMAIN approvals
          /\ e.key = ProposalId(approvals[e.approval_id])
          /\ e.supplier = approvals[e.approval_id].supplier
          /\ \/ e.key \in DOMAIN orders
             \/ e.key \in lost
             \/ \E g \in Handler : handler[g].stage = "placed" /\ ExecuteKey(g) = e.key
      BY <1>0 DEF BookSound
    <2>2. ASSUME NEW g \in Handler, handler[g].stage = "placed", ExecuteKey(g) = e.key
          PROVE  e.key \in lost' \/ (handler'[g].stage = "placed" /\ ExecuteKey(g)' = e.key)
      BY <2>2 DEF StepOf, ExecuteKey
    <2>3. QED
      BY <2>1, <2>2 DEF QuietTables
  <1>8. OrdersSound'
    BY <1>0 DEF OrdersSound, QuietTables
  <1>9. RowsSound'
    <2>1. \A a \in DOMAIN approvals : approvals[a].start \in Nat
      BY <1>0, RowTypes
    <2>2. QED
      BY <1>0, <2>1 DEF RowsSound, QuietTables, TypeOK
  <1>10. RecoveryNeverRepeatsSupplier'
    BY <1>0 DEF RecoveryNeverRepeatsSupplier, QuietTables, ProposalId
  <1>11. MishapsNeedAFault'
    BY <1>0 DEF MishapsNeedAFault, DoubleBuyOnlyAfterLostCommit, FailsUnrefusedOnlyAfterRestart, QuietTables
  <1>12. QED
    BY <1>1, <1>3, <1>4, <1>6, <1>7, <1>8, <1>9, <1>10, <1>11 DEF WorkflowInv

\* A node returns st: the handler goes on with it and the checkpoint holds it.
LEMMA CheckpointInv ==
    ASSUME WorkflowInv, NEW h \in Handler, NEW STATE st, st \in WorkflowState,
           Checkpoint(h, st), QuietTables,
           \/ handler[h].stage \in Carrying /\ st.start = handler[h].state.start
           \/ /\ thread[handler[h].request].next = "human_approval"
              /\ st.start = thread[handler[h].request].start,
           RunSound(handler[h].request, st),
           st.execution_status \in {"SUCCEEDED", "VERIFIED"} => Held(handler[h].request),
           restarts = 0 => \A s \in st.candidates \cup st.selected :
                              <<handler[h].request, s>> \in quotes',
           handler[h].stage = "placed" => ExecuteKey(h) \in lost'
    PROVE  WorkflowInv'
  <1>0. PICK r \in Request : r = handler[h].request
    BY HandlerTypes DEF WorkflowInv
  <1>1. /\ TypeOK /\ handler[h] \in HandlerRecord
        /\ handler \in [Handler -> HandlerRecord] /\ thread \in [Request -> WorkflowState]
    BY HandlerTypes DEF WorkflowInv, TypeOK
  <1>2. /\ handler'[h].stage = "run" /\ handler'[h].state = st /\ handler'[h].request = r
        /\ \A g \in Handler \ {h} : handler'[g] = handler[g]
        /\ handler' \in [Handler -> HandlerRecord]
    BY <1>0, <1>1 DEF Checkpoint, HandlerRecord, Stage
  <1>3. /\ thread' \in [Request -> WorkflowState]
        /\ thread'[r] = st
        /\ \A p \in Request \ {r} : thread'[p] = thread[p]
    BY <1>0, <1>1 DEF Checkpoint
  <1>4. st.start <= starts'
    <2>1. st.start <= starts
      BY <1>0, <1>1 DEF WorkflowInv, StatesSound, StateSound
    <2>2. QED
      BY <1>1, <2>1 DEF QuietTables, TypeOK, WorkflowState
  <1>5. StateSound(r, thread[r])' /\ StateSound(handler[h].request, handler[h].state)'
    BY <1>0, <1>2, <1>3, <1>4 DEF StateSound, Held, QuietTables
  <1>6. st.next # "human_approval"
    BY DEF RunSound, Searching
  <1>7. CallSound(h)'
    BY <1>0, <1>2 DEF CallSound, RunSound, RowMatches, AskedOnly, QuietTables
  <1>8. WaitSound(r)'
    BY <1>3, <1>6 DEF WaitSound
  <1>9. StepOf(h, r) /\ Handover(h, r)
    BY <1>0, <1>2, <1>3, <1>6 DEF StepOf, Handover
  <1>10. QED
    BY <1>2, <1>3, <1>5, <1>7, <1>8, <1>9, QuietStepInv

\* The handler becomes idle; the run it carried is over.
LEMMA IdleSound ==
    ASSUME TypeOK', NEW h \in Handler, NEW r \in Request, handler'[h] = Idle(r)
    PROVE  CallSound(h)' /\ StateSound(handler[h].request, handler[h].state)'
  BY IdleTypes DEF CallSound, StateSound, TypeOK

\* The call returns st: the checkpoint holds it, or waits with it.
LEMMA ReturnInv ==
    ASSUME WorkflowInv, NEW h \in Handler, NEW STATE st, st \in WorkflowState,
           Return(h, st), QuietTables,
           \/ handler[h].stage \in Carrying /\ st.start = handler[h].state.start
           \/ st.next = "END" /\ st.start = thread[handler[h].request].start,
           \/ st.next = "END"
           \/ /\ RowMatches(handler[h].request, st, st.approval_id)
              /\ AskedOnly(handler[h].request, st, st.attempted \cup st.selected),
           st.execution_status \in {"SUCCEEDED", "VERIFIED"} => Held(handler[h].request),
           restarts = 0 => \A s \in st.candidates \cup st.selected :
                              <<handler[h].request, s>> \in quotes',
           handler[h].stage # "placed"
    PROVE  WorkflowInv'
  <1>0. PICK r \in Request : r = handler[h].request
    BY HandlerTypes DEF WorkflowInv
  <1>1. /\ TypeOK
        /\ handler \in [Handler -> HandlerRecord] /\ thread \in [Request -> WorkflowState]
    BY DEF WorkflowInv, TypeOK
  <1>2. /\ handler'[h] = Idle(r)
        /\ \A g \in Handler \ {h} : handler'[g] = handler[g]
        /\ handler' \in [Handler -> HandlerRecord]
    BY <1>0, <1>1, IdleTypes DEF Return
  <1>3. /\ thread' \in [Request -> WorkflowState]
        /\ thread'[r] = st
        /\ \A p \in Request \ {r} : thread'[p] = thread[p]
    BY <1>0, <1>1 DEF Return
  <1>4. st.start <= starts'
    <2>1. st.start <= starts
      BY <1>0, <1>1 DEF WorkflowInv, StatesSound, StateSound
    <2>2. QED
      BY <1>1, <2>1 DEF QuietTables, TypeOK, WorkflowState
  <1>5. StateSound(r, thread[r])'
    BY <1>0, <1>3, <1>4 DEF StateSound, Held, QuietTables
  <1>6. TypeOK'
    BY <1>1, <1>2, <1>3 DEF TypeOK, QuietTables
  <1>7. CallSound(h)' /\ StateSound(handler[h].request, handler[h].state)'
    BY <1>2, <1>6, IdleSound
  <1>8. WaitSound(r)'
    BY <1>0, <1>3 DEF WaitSound, RowMatches, AskedOnly, QuietTables
  <1>9. StepOf(h, r) /\ Handover(h, r)
    <2>1. handler'[h].stage = "idle" /\ handler'[h].stage \notin Carrying
      BY <1>2, IdleTypes DEF Carrying
    <2>2. QED
      BY <1>0, <1>2, <1>3, <2>1 DEF StepOf, Handover
  <1>10. handler'[h].stage # "placed"
    BY <1>2, IdleTypes
  <1>11. QED
    BY <1>2, <1>3, <1>5, <1>7, <1>8, <1>9, <1>10, QuietStepInv

\* The call raises: the checkpoint stays as it is.
LEMMA RaiseInv ==
    ASSUME WorkflowInv, NEW h \in Handler, Raise(h), QuietTables, handler[h].stage # "placed"
    PROVE  WorkflowInv'
  <1>0. PICK r \in Request : r = handler[h].request
    BY HandlerTypes DEF WorkflowInv
  <1>1. /\ TypeOK
        /\ handler \in [Handler -> HandlerRecord] /\ thread \in [Request -> WorkflowState]
    BY DEF WorkflowInv, TypeOK
  <1>2. /\ handler'[h] = Idle(r) /\ thread' = thread
        /\ \A g \in Handler \ {h} : handler'[g] = handler[g]
        /\ handler' \in [Handler -> HandlerRecord]
    BY <1>0, <1>1, IdleTypes DEF Raise
  <1>3. TypeOK' /\ Grows
    BY <1>1, <1>2 DEF TypeOK, QuietTables, Grows
  <1>4. CallSound(h)' /\ StateSound(handler[h].request, handler[h].state)'
    BY <1>2, <1>3, IdleSound
  <1>5. StateSound(r, thread[r])' /\ WaitSound(r)'
    <2>1. StateSound(r, thread[r]) /\ WaitSound(r) /\ NoNewRow(thread[r].start)
      BY DEF WorkflowInv, StatesSound, WaitsSound, NoNewRow, QuietTables
    <2>2. QED
      BY <1>1, <1>2, <1>3, <2>1, ThreadKept, WaitKept
  <1>6. handler'[h].stage = "idle" /\ handler'[h].stage \notin Carrying
    BY <1>2, IdleTypes DEF Carrying
  <1>7. StepOf(h, r) /\ Handover(h, r)
    BY <1>2, <1>6 DEF StepOf, Handover
  <1>8. QED
    BY <1>1, <1>2, <1>4, <1>5, <1>6, <1>7, QuietStepInv

-----------------------------------------------------------------------------
(* The nodes of the graph.                                                  *)

\* Most actions write no table at all.
LEMMA NoTables ==
    ASSUME WorkflowInv, UNCHANGED <<approvals, orders, book, quotes, refusals, lost, starts, restarts>>
    PROVE  QuietTables
  BY DEF WorkflowInv, TypeOK, QuietTables

\* What the invariant says of a handler that carries a state.
LEMMA CarryFacts ==
    ASSUME WorkflowInv, NEW h \in Handler
    PROVE  /\ TypeOK
           /\ handler[h].request \in Request
           /\ handler[h].state \in WorkflowState
           /\ StateSound(handler[h].request, handler[h].state)
           /\ handler[h].stage = "run" =>
                 /\ handler[h].stage \in Carrying
                 /\ RunSound(handler[h].request, handler[h].state)
           /\ handler[h].stage = "requested" => handler[h].stage \in Carrying /\ RequestedSound(h)
           /\ handler[h].stage = "placed" => handler[h].stage \in Carrying /\ PlacedSound(h)
           /\ handler[h].stage = "recorded" => handler[h].stage \in Carrying /\ RecordedSound(h)
  BY HandlerTypes DEF WorkflowInv, StatesSound, CallsSound, CallSound, Carrying

\* A search node hands the state on, changing no more than where to go next.
LEMMA MoveOn ==
    ASSUME WorkflowInv, NEW h \in Handler, NEW from \in Node, NEW to \in Node,
           At(h, from), QuietTables,
           RunSound(handler[h].request, [handler[h].state EXCEPT !.next = to]),
           Checkpoint(h, [handler[h].state EXCEPT !.next = to])
    PROVE  WorkflowInv'
  <1> DEFINE st == [handler[h].state EXCEPT !.next = to]
  <1>1. /\ handler[h].state \in WorkflowState /\ handler[h].stage \in Carrying
        /\ handler[h].stage # "placed"
        /\ StateSound(handler[h].request, handler[h].state)
    BY CarryFacts DEF At
  <1>2. /\ st \in WorkflowState /\ st.start = handler[h].state.start
        /\ st.execution_status = handler[h].state.execution_status
        /\ st.candidates = handler[h].state.candidates
        /\ st.selected = handler[h].state.selected
    BY <1>1 DEF WorkflowState
  <1>3. Checkpoint(h, st) /\ RunSound(handler[h].request, st)
    OBVIOUS
  <1> HIDE DEF st
  <1>4. QED
    BY <1>1, <1>2, <1>3, CheckpointInv DEF StateSound, QuietTables

\* A node ends the run.
LEMMA EndRun ==
    ASSUME WorkflowInv, NEW h \in Handler, handler[h].stage = "run", QuietTables,
           Return(h, [handler[h].state EXCEPT !.next = "END"])
    PROVE  WorkflowInv'
  <1> DEFINE st == [handler[h].state EXCEPT !.next = "END"]
  <1>1. /\ handler[h].state \in WorkflowState /\ handler[h].stage \in Carrying
        /\ StateSound(handler[h].request, handler[h].state)
    BY CarryFacts
  <1>2. /\ st \in WorkflowState /\ st.start = handler[h].state.start /\ st.next = "END"
        /\ st.execution_status = handler[h].state.execution_status
        /\ st.candidates = handler[h].state.candidates
        /\ st.selected = handler[h].state.selected
    BY <1>1 DEF WorkflowState, Node
  <1>3. Return(h, st)
    OBVIOUS
  <1> HIDE DEF st
  <1>4. QED
    BY <1>1, <1>2, <1>3, ReturnInv DEF StateSound, QuietTables

\* detect_need, forecast_demand and risk_check.
LEMMA PlainNodesInv ==
    ASSUME WorkflowInv, NEW h \in Handler, DetectNeed(h) \/ ForecastDemand(h) \/ RiskCheck(h)
    PROVE  WorkflowInv'
  <1>1. QuietTables
    BY NoTables DEF DetectNeed, ForecastDemand, RiskCheck
  <1>2. handler[h].stage = "run" /\ RunSound(handler[h].request, handler[h].state)
        /\ handler[h].state \in WorkflowState
    BY CarryFacts DEF DetectNeed, ForecastDemand, RiskCheck, At
  <1>3. ASSUME NEW from \in {"detect_need", "forecast_demand", "risk_check"}, NEW to \in Node,
               At(h, from),
               <<from, to>> \in {<<"detect_need", "forecast_demand">>,
                                 <<"forecast_demand", "find_supplier">>,
                                 <<"risk_check", "create_proposal">>}
        PROVE  RunSound(handler[h].request, [handler[h].state EXCEPT !.next = to])
    <2> DEFINE st == [handler[h].state EXCEPT !.next = to]
    <2>1. /\ st.next = to /\ st.start = handler[h].state.start
          /\ st.proposal_revision = handler[h].state.proposal_revision
          /\ st.attempted = handler[h].state.attempted
          /\ st.candidates = handler[h].state.candidates
          /\ st.selected = handler[h].state.selected
      BY <1>2 DEF WorkflowState
    <2> HIDE DEF st
    <2>2. RunSound(handler[h].request, st)
      BY <1>2, <1>3, <2>1 DEF RunSound, AskedOnly, Searching, At
    <2>3. QED
      BY <2>2 DEF st
  <1>4. \/ Return(h, [handler[h].state EXCEPT !.next = "END"])
        \/ /\ At(h, "detect_need")
           /\ Checkpoint(h, [handler[h].state EXCEPT !.next = "forecast_demand"])
        \/ /\ At(h, "forecast_demand")
           /\ Checkpoint(h, [handler[h].state EXCEPT !.next = "find_supplier"])
        \/ /\ At(h, "risk_check")
           /\ Checkpoint(h, [handler[h].state EXCEPT !.next = "create_proposal"])
    BY DEF DetectNeed, ForecastDemand, RiskCheck
  <1>5. QED
    BY <1>1, <1>2, <1>3, <1>4, MoveOn, EndRun DEF Node

\* find_supplier.
LEMMA FindSupplierInv ==
    ASSUME WorkflowInv, NEW h \in Handler, FindSupplier(h)
    PROVE  WorkflowInv'
  <1>1. PICK quoting \in SUBSET Supplier :
           LET usable == quoting \ handler[h].state.attempted
           IN  /\ quotes' = quotes \cup ({handler[h].request} \X quoting)
               /\ IF usable = {}
                  THEN Return(h, [handler[h].state EXCEPT !.next = "END", !.candidates = {}])
                  ELSE Checkpoint(h, [handler[h].state EXCEPT !.next = "negotiate",
                                                              !.candidates = usable])
    BY DEF FindSupplier
  <1> DEFINE usable == quoting \ handler[h].state.attempted
             done == [handler[h].state EXCEPT !.next = "END", !.candidates = {}]
             found == [handler[h].state EXCEPT !.next = "negotiate", !.candidates = usable]
  <1>2. /\ handler[h].state \in WorkflowState /\ handler[h].request \in Request /\ TypeOK
        /\ handler[h].stage = "run" /\ handler[h].stage \in Carrying
        /\ handler[h].state.next = "find_supplier"
        /\ StateSound(handler[h].request, handler[h].state)
        /\ RunSound(handler[h].request, handler[h].state)
    BY CarryFacts DEF FindSupplier, At
  <1>3. QuietTables
    BY <1>1, <1>2 DEF FindSupplier, QuietTables, TypeOK
  <1>4. /\ done \in WorkflowState /\ done.start = handler[h].state.start /\ done.next = "END"
        /\ done.execution_status = handler[h].state.execution_status
        /\ done.candidates = {} /\ done.selected = handler[h].state.selected
    BY <1>2 DEF WorkflowState, Node
  <1>5. usable \subseteq Supplier
    OBVIOUS
  <1>6. /\ found \in WorkflowState /\ found.start = handler[h].state.start /\ found.next = "negotiate"
        /\ found.execution_status = handler[h].state.execution_status
        /\ found.proposal_revision = handler[h].state.proposal_revision
        /\ found.attempted = handler[h].state.attempted
        /\ found.candidates = usable /\ found.selected = handler[h].state.selected
    BY <1>2, <1>5 DEF WorkflowState, Node
  <1>7. Return(h, done) \/ Checkpoint(h, found)
    BY <1>1
  <1>8. \A s \in usable : <<handler[h].request, s>> \in quotes'
    BY <1>1
  <1>9. usable \cap handler[h].state.attempted = {}
    OBVIOUS
  <1> HIDE DEF done, found, usable
  <1>10. RunSound(handler[h].request, found)
    BY <1>2, <1>6, <1>9 DEF RunSound, AskedOnly, Searching
  <1>11. restarts = 0 => \A s \in handler[h].state.selected : <<handler[h].request, s>> \in quotes'
    BY <1>2, <1>3 DEF StateSound, QuietTables
  <1>12. CASE Return(h, done)
    BY <1>2, <1>3, <1>4, <1>11, <1>12, ReturnInv DEF StateSound
  <1>13. CASE Checkpoint(h, found)
    BY <1>2, <1>3, <1>6, <1>8, <1>10, <1>11, <1>13, CheckpointInv DEF StateSound
  <1>14. QED
    BY <1>7, <1>12, <1>13

\* negotiate.
LEMMA NegotiateInv ==
    ASSUME WorkflowInv, NEW h \in Handler, Negotiate(h)
    PROVE  WorkflowInv'
  <1>1. /\ handler[h].state \in WorkflowState /\ handler[h].request \in Request /\ TypeOK
        /\ handler[h].stage = "run" /\ handler[h].stage \in Carrying
        /\ handler[h].state.next = "negotiate"
        /\ StateSound(handler[h].request, handler[h].state)
        /\ RunSound(handler[h].request, handler[h].state)
    BY CarryFacts DEF Negotiate, At
  <1>2. QuietTables
    BY NoTables DEF Negotiate
  <1>3. ASSUME NEW s \in handler[h].state.candidates,
               Checkpoint(h, [handler[h].state EXCEPT !.next = "risk_check", !.selected = {s}])
        PROVE  WorkflowInv'
    <2> DEFINE st == [handler[h].state EXCEPT !.next = "risk_check", !.selected = {s}]
    <2>1. s \in Supplier
      BY <1>1 DEF WorkflowState
    <2>2. /\ st \in WorkflowState /\ st.start = handler[h].state.start /\ st.next = "risk_check"
          /\ st.execution_status = handler[h].state.execution_status
          /\ st.proposal_revision = handler[h].state.proposal_revision
          /\ st.attempted = handler[h].state.attempted
          /\ st.candidates = handler[h].state.candidates /\ st.selected = {s}
      BY <1>1, <2>1 DEF WorkflowState, Node
    <2>3. Checkpoint(h, st)
      BY <1>3
    <2> HIDE DEF st
    <2>4. RunSound(handler[h].request, st)
      BY <1>1, <2>1, <2>2 DEF RunSound, AskedOnly, Searching
    <2>5. restarts = 0 => \A x \in st.candidates \cup st.selected : <<handler[h].request, x>> \in quotes'
      BY <1>1, <1>2, <2>2 DEF StateSound, QuietTables
    <2>6. QED
      BY <1>1, <1>2, <2>2, <2>3, <2>4, <2>5, CheckpointInv DEF StateSound
  <1>4. QED
    BY <1>1, <1>2, <1>3, EndRun DEF Negotiate

\* A counter-offer, a repeated proposal or a refused decision raises.
LEMMA RaisesInv ==
    ASSUME WorkflowInv, NEW h \in Handler,
           \/ ProposalExists(h) \/ NodeRaises(h) \/ DecideRaises(h)
           \/ InvalidModification(h) \/ NothingToResume(h)
    PROVE  WorkflowInv'
  <1>1. QuietTables
    BY NoTables DEF ProposalExists, NodeRaises, DecideRaises, InvalidModification, NothingToResume
  <1>2. Raise(h) /\ handler[h].stage # "placed"
    BY DEF ProposalExists, NodeRaises, DecideRaises, InvalidModification, NothingToResume, At
  <1>3. QED
    BY <1>1, <1>2, RaiseInv

\* create_proposal returns and the graph waits for the merchant.
LEMMA InterruptInv ==
    ASSUME WorkflowInv, NEW h \in Handler, Interrupt(h)
    PROVE  WorkflowInv'
  <1> DEFINE st == [handler[h].state EXCEPT !.next = "human_approval",
                                            !.approval_status = "PENDING",
                                            !.approval_id = handler[h].approval_id]
  <1>1. /\ handler[h].state \in WorkflowState /\ handler[h].stage \in Carrying
        /\ handler[h].stage # "placed" /\ RequestedSound(h)
        /\ StateSound(handler[h].request, handler[h].state)
        /\ handler[h].approval_id \in Nat
    BY CarryFacts, HandlerTypes DEF Interrupt
  <1>2. QuietTables
    BY NoTables DEF Interrupt
  <1>3. /\ st \in WorkflowState /\ st.start = handler[h].state.start
        /\ st.execution_status = handler[h].state.execution_status
        /\ st.proposal_revision = handler[h].state.proposal_revision
        /\ st.attempted = handler[h].state.attempted
        /\ st.candidates = handler[h].state.candidates
        /\ st.selected = handler[h].state.selected
        /\ st.approval_id = handler[h].approval_id
    BY <1>1 DEF WorkflowState, Node
  <1>4. Return(h, st)
    BY DEF Interrupt
  <1> HIDE DEF st
  <1>5. /\ RowMatches(handler[h].request, st, st.approval_id)
        /\ AskedOnly(handler[h].request, st, st.attempted \cup st.selected)
    BY <1>1, <1>3 DEF RequestedSound, RowMatches, AskedOnly
  <1>6. QED
    BY <1>1, <1>2, <1>3, <1>4, <1>5, ReturnInv DEF StateSound, QuietTables

\* A failed attempt is remembered, whatever has been asked for it.
LEMMA FailedAttempt ==
    ASSUME WorkflowInv, NEW h \in Handler, handler[h].stage \in Carrying, QuietTables,
           AskedOnly(handler[h].request, handler[h].state,
                     handler[h].state.attempted \cup handler[h].state.selected),
           handler[h].stage = "placed" => ExecuteKey(h) \in lost',
           Checkpoint(h, FailedState(h))
    PROVE  WorkflowInv'
  <1> DEFINE st == FailedState(h)
  <1>1. /\ handler[h].state \in WorkflowState
        /\ StateSound(handler[h].request, handler[h].state)
    BY CarryFacts
  <1>2. /\ st \in WorkflowState /\ st.start = handler[h].state.start
        /\ st.next = "verify_result"
        /\ st.execution_status = "FAILED"
        /\ st.proposal_revision = handler[h].state.proposal_revision
        /\ st.attempted = handler[h].state.attempted \cup handler[h].state.selected
        /\ st.candidates = handler[h].state.candidates
        /\ st.selected = handler[h].state.selected
    BY <1>1 DEF WorkflowState, Node, FailedState
  <1> HIDE DEF st
  <1>3. RunSound(handler[h].request, st)
    BY <1>2 DEF RunSound, AskedOnly, Searching
  <1>4. Checkpoint(h, st)
    BY DEF st
  <1>5. QED
    BY <1>1, <1>2, <1>3, <1>4, CheckpointInv DEF StateSound, QuietTables

\* execute_order finds no authority, or its transaction is lost.
LEMMA FailuresInv ==
    ASSUME WorkflowInv, NEW h \in Handler, NotAuthorized(h) \/ CommitFails(h)
    PROVE  WorkflowInv'
  <1>1. CASE NotAuthorized(h)
    <2>1. QuietTables
      BY <1>1, NoTables DEF NotAuthorized
    <2>2. /\ handler[h].stage = "run" /\ handler[h].state.next = "execute_order"
          /\ Checkpoint(h, FailedState(h))
      BY <1>1 DEF NotAuthorized, At
    <2>3. QED
      BY <2>1, <2>2, CarryFacts, FailedAttempt DEF RunSound
  <1>2. CASE CommitFails(h)
    <2>1. ExecuteKey(h) \in Key /\ TypeOK
      BY HandlerTypes DEF WorkflowInv
    <2>2. QuietTables /\ ExecuteKey(h) \in lost'
      BY <1>2, <2>1 DEF CommitFails, QuietTables, TypeOK
    <2>3. handler[h].stage = "placed" /\ Checkpoint(h, FailedState(h))
      BY <1>2 DEF CommitFails
    <2>4. QED
      BY <2>2, <2>3, CarryFacts, FailedAttempt DEF PlacedSound
  <1>3. QED
    BY <1>1, <1>2

\* execute_order returns what the order says.
LEMMA ExecuteReturnsInv ==
    ASSUME WorkflowInv, NEW h \in Handler, ExecuteReturns(h)
    PROVE  WorkflowInv'
  <1>1. QuietTables
    BY NoTables DEF ExecuteReturns
  <1>2. /\ handler[h].stage = "recorded" /\ handler[h].stage \in Carrying
        /\ handler[h].state \in WorkflowState
        /\ StateSound(handler[h].request, handler[h].state)
        /\ RecordedSound(h)
    BY CarryFacts DEF ExecuteReturns
  <1>3. CASE Checkpoint(h, FailedState(h))
    BY <1>1, <1>2, <1>3, FailedAttempt DEF RecordedSound
  <1>4. ASSUME NEW status \in {"WAITING_SUPPLIER_APPROVAL", "SUCCEEDED"},
               status = "SUCCEEDED" => Held(handler[h].request),
               Checkpoint(h, [handler[h].state EXCEPT !.next = "verify_result",
                                                      !.execution_status = status])
        PROVE  WorkflowInv'
    <2> DEFINE st == [handler[h].state EXCEPT !.next = "verify_result",
                                              !.execution_status = status]
    <2>1. /\ st \in WorkflowState /\ st.start = handler[h].state.start
          /\ st.next = "verify_result" /\ st.execution_status = status
          /\ st.candidates = handler[h].state.candidates
          /\ st.selected = handler[h].state.selected
      BY <1>2 DEF WorkflowState, Node
    <2>2. Checkpoint(h, st)
      BY <1>4
    <2> HIDE DEF st
    <2>3. RunSound(handler[h].request, st)
      BY <2>1 DEF RunSound, Searching
    <2>4. QED
      BY <1>1, <1>2, <1>4, <2>1, <2>2, <2>3, CheckpointInv DEF StateSound, QuietTables
  <1>5. QED
    BY <1>2, <1>3, <1>4 DEF ExecuteReturns, RecordedSound

\* verify_result recovers from a failure or reports the outcome.
LEMMA VerifyResultInv ==
    ASSUME WorkflowInv, NEW h \in Handler, VerifyResult(h)
    PROVE  WorkflowInv'
  <1>1. QuietTables
    BY NoTables DEF VerifyResult
  <1>2. /\ handler[h].stage = "run" /\ handler[h].stage \in Carrying
        /\ handler[h].state.next = "verify_result"
        /\ handler[h].state \in WorkflowState
        /\ StateSound(handler[h].request, handler[h].state)
        /\ RunSound(handler[h].request, handler[h].state)
    BY CarryFacts DEF VerifyResult, At
  <1>3. CASE /\ handler[h].state.execution_status = "FAILED"
             /\ Checkpoint(h, [handler[h].state EXCEPT !.next = "find_supplier"])
    <2> DEFINE st == [handler[h].state EXCEPT !.next = "find_supplier"]
    <2>1. /\ st.next = "find_supplier" /\ st.start = handler[h].state.start
          /\ st.proposal_revision = handler[h].state.proposal_revision
          /\ st.attempted = handler[h].state.attempted
      BY <1>2 DEF WorkflowState
    <2> HIDE DEF st
    <2>2. RunSound(handler[h].request, st)
      BY <1>2, <1>3, <2>1 DEF RunSound, AskedOnly, Searching
    <2>3. At(h, "verify_result") /\ "verify_result" \in Node /\ "find_supplier" \in Node
      BY <1>2 DEF At, Node
    <2>4. QED
      BY <1>1, <1>3, <2>2, <2>3, MoveOn DEF st
  <1>4. CASE Return(h, [handler[h].state EXCEPT !.next = "END"])
    BY <1>1, <1>2, <1>4, EndRun
  <1>5. CASE /\ handler[h].state.execution_status = "SUCCEEDED"
             /\ Return(h, [handler[h].state EXCEPT !.next = "END",
                                                   !.execution_status = "VERIFIED"])
    <2> DEFINE st == [handler[h].state EXCEPT !.next = "END", !.execution_status = "VERIFIED"]
    <2>1. /\ st \in WorkflowState /\ st.start = handler[h].state.start /\ st.next = "END"
          /\ st.candidates = handler[h].state.candidates
          /\ st.selected = handler[h].state.selected
      BY <1>2 DEF WorkflowState, Node
    <2>2. Return(h, st) /\ Held(handler[h].request)
      BY <1>2, <1>5 DEF StateSound
    <2> HIDE DEF st
    <2>3. QED
      BY <1>1, <1>2, <2>1, <2>2, ReturnInv DEF StateSound, QuietTables
  <1>6. QED
    BY <1>3, <1>4, <1>5 DEF VerifyResult

\* The merchant's decision reaches the graph, in the state the thread has now.
LEMMA HumanApprovalInv ==
    ASSUME WorkflowInv, NEW h \in Handler, HumanApproval(h)
    PROVE  WorkflowInv'
  <1>1. QuietTables
    BY NoTables DEF HumanApproval
  <1>2. PICK r \in Request : r = handler[h].request
    BY CarryFacts
  <1>3. /\ thread[r] \in WorkflowState /\ thread[r].next = "human_approval"
        /\ handler[h].stage = "decided"
        /\ StateSound(r, thread[r])
        /\ RowMatches(r, thread[r], thread[r].approval_id)
        /\ AskedOnly(r, thread[r], thread[r].attempted \cup thread[r].selected)
        /\ TypeOK
    BY <1>2, ThreadTypes DEF HumanApproval, WorkflowInv, StatesSound, WaitsSound, WaitSound
  <1> DEFINE yes == [thread[r] EXCEPT !.next = "execute_order", !.approval_status = "APPROVED"]
             no == [thread[r] EXCEPT !.next = "END", !.approval_status = "REJECTED"]
             other == [thread[r] EXCEPT !.next = "forecast_demand", !.approval_status = "MODIFIED",
                                        !.proposal_revision = @ + 1, !.attempted = {}]
  <1>4. Checkpoint(h, yes) \/ Checkpoint(h, other) \/ Return(h, no)
    BY <1>2 DEF HumanApproval
  <1>5. /\ yes \in WorkflowState /\ yes.start = thread[r].start /\ yes.next = "execute_order"
        /\ yes.execution_status = thread[r].execution_status
        /\ yes.proposal_revision = thread[r].proposal_revision
        /\ yes.attempted = thread[r].attempted
        /\ yes.candidates = thread[r].candidates
        /\ yes.selected = thread[r].selected
        /\ yes.approval_id = thread[r].approval_id
    BY <1>3 DEF WorkflowState, Node
  <1>6. /\ no \in WorkflowState /\ no.start = thread[r].start /\ no.next = "END"
        /\ no.execution_status = thread[r].execution_status
        /\ no.candidates = thread[r].candidates
        /\ no.selected = thread[r].selected
    BY <1>3 DEF WorkflowState, Node
  <1>7. /\ other \in WorkflowState /\ other.start = thread[r].start
        /\ other.next = "forecast_demand"
        /\ other.execution_status = thread[r].execution_status
        /\ other.proposal_revision = thread[r].proposal_revision + 1
        /\ other.attempted = {}
        /\ other.candidates = thread[r].candidates
        /\ other.selected = thread[r].selected
    <2>1. thread[r].proposal_revision \in Nat
      BY <1>3 DEF WorkflowState
    <2>2. PICK n \in Nat : n = thread[r].proposal_revision + 1
      BY <2>1
    <2>3. other = [thread[r] EXCEPT !.next = "forecast_demand", !.approval_status = "MODIFIED",
                                    !.proposal_revision = n, !.attempted = {}]
      BY <2>2
    <2> HIDE DEF other
    <2>4. QED
      BY <1>3, <2>2, <2>3 DEF WorkflowState, Node
  <1> HIDE DEF yes, no, other
  <1>8. CASE Checkpoint(h, yes)
    <2>1. RunSound(r, yes)
      BY <1>3, <1>5 DEF RunSound, RowMatches, AskedOnly, Searching
    <2>2. QED
      BY <1>1, <1>2, <1>3, <1>5, <1>8, <2>1, CheckpointInv DEF StateSound, QuietTables
  <1>9. CASE Checkpoint(h, other)
    <2>1. thread[r].proposal_revision \in Nat
      BY <1>3 DEF WorkflowState
    <2>2. \A a \in DOMAIN approvals : approvals[a].revision \in Nat
      BY <1>3, RowTypes
    <2>3. AskedOnly(r, other, {})
      BY <1>3, <1>7, <2>1, <2>2 DEF AskedOnly
    <2>4. RunSound(r, other)
      BY <1>7, <2>3 DEF RunSound, Searching
    <2>5. QED
      BY <1>1, <1>2, <1>3, <1>7, <1>9, <2>4, CheckpointInv DEF StateSound, QuietTables
  <1>10. CASE Return(h, no)
    BY <1>1, <1>2, <1>3, <1>6, <1>10, ReturnInv DEF StateSound, QuietTables
  <1>11. QED
    BY <1>4, <1>8, <1>9, <1>10

\* WorkflowRuntime.start begins a run that nobody carries yet.
LEMMA StartInv ==
    ASSUME WorkflowInv, NEW h \in Handler, NEW r \in Request, Start(h, r)
    PROVE  WorkflowInv'
  <1> DEFINE st == [thread[r] EXCEPT !.next = "detect_need", !.proposal_revision = 1,
                                     !.attempted = {}, !.start = starts + 1]
  <1>1. /\ TypeOK /\ thread[r] \in WorkflowState /\ starts \in Nat
        /\ handler \in [Handler -> HandlerRecord] /\ thread \in [Request -> WorkflowState]
        /\ StateSound(r, thread[r])
        /\ handler[h].stage = "idle"
    BY ThreadTypes DEF WorkflowInv, TypeOK, StatesSound, Start
  <1>2. PICK n \in Nat : n = starts + 1
    BY <1>1
  <1>3. /\ st \in WorkflowState /\ st.next = "detect_need" /\ st.start = n
        /\ st.proposal_revision = 1 /\ st.attempted = {}
        /\ st.candidates = thread[r].candidates /\ st.selected = thread[r].selected
        /\ st.execution_status = thread[r].execution_status
    <2>1. st = [thread[r] EXCEPT !.next = "detect_need", !.proposal_revision = 1,
                                 !.attempted = {}, !.start = n]
      BY <1>2
    <2> HIDE DEF st
    <2>2. QED
      BY <1>1, <2>1 DEF WorkflowState, Node
  <1>4. /\ handler' = [handler EXCEPT ![h] = [Idle(r) EXCEPT !.stage = "run", !.state = st]]
        /\ thread' = [thread EXCEPT ![r] = st]
        /\ starts' = n
        /\ UNCHANGED <<approvals, orders, book, quotes, refusals, lost, restarts>>
    BY <1>2 DEF Start
  <1> HIDE DEF st
  <1>5. /\ handler'[h].stage = "run" /\ handler'[h].state = st /\ handler'[h].request = r
        /\ \A g \in Handler \ {h} : handler'[g] = handler[g]
        /\ handler' \in [Handler -> HandlerRecord]
    <2>1. Idle(r) \in HandlerRecord /\ Idle(r).request = r
      BY IdleTypes
    <2>2. [Idle(r) EXCEPT !.stage = "run", !.state = st] \in HandlerRecord
      BY <1>3, <2>1 DEF HandlerRecord, Stage
    <2>3. QED
      BY <1>1, <1>4, <2>1, <2>2 DEF HandlerRecord
  <1>6. /\ thread'[r] = st
        /\ \A p \in Request \ {r} : thread'[p] = thread[p]
        /\ thread' \in [Request -> WorkflowState]
    BY <1>1, <1>3, <1>4
  <1>7. QuietTables
    BY <1>1, <1>2, <1>4 DEF QuietTables, TypeOK
  <1>8. StateSound(r, thread[r])' /\ StateSound(handler[h].request, handler[h].state)'
    BY <1>1, <1>3, <1>4, <1>5, <1>6 DEF StateSound, Held
  <1>9. \A a \in DOMAIN approvals' : approvals'[a].start # st.start
    <2>1. \A a \in DOMAIN approvals : approvals[a].start \in Nat /\ approvals[a].start <= starts
      BY <1>1, RowTypes DEF WorkflowInv, RowsSound
    <2>2. QED
      BY <1>1, <1>2, <1>3, <1>4, <2>1
  <1>10. CallSound(h)'
    BY <1>3, <1>5, <1>9 DEF CallSound, RunSound, AskedOnly, Searching
  <1>11. WaitSound(r)'
    BY <1>3, <1>6 DEF WaitSound
  <1>12. Handover(h, r) /\ StepOf(h, r)
    BY <1>1, <1>2, <1>3, <1>5, <1>6 DEF Handover, StepOf
  <1>13. QED
    BY <1>1, <1>5, <1>6, <1>7, <1>8, <1>10, <1>11, <1>12, QuietStepInv

\* resume reads the thread, and execute_order finds an order: neither writes
\* more than the handler's own variables.
LEMMA ReadsInv ==
    ASSUME WorkflowInv, NEW h \in Handler,
           (\E r \in Request : Snapshot(h, r)) \/ ExistingOrder(h)
    PROVE  WorkflowInv'
  <1>1. /\ TypeOK /\ handler \in [Handler -> HandlerRecord]
        /\ thread \in [Request -> WorkflowState]
        /\ handler[h] \in HandlerRecord
    BY HandlerTypes DEF WorkflowInv, TypeOK
  <1>2. QuietTables /\ thread' = thread
    <2>1. UNCHANGED <<thread, approvals, orders, book, quotes, refusals, lost, starts, restarts>>
      BY DEF Snapshot, ExistingOrder
    <2>2. QED
      BY <2>1, NoTables
  <1>3. /\ handler' \in [Handler -> HandlerRecord]
        /\ \A g \in Handler \ {h} : handler'[g] = handler[g]
        /\ handler'[h].stage \in {"snapshot", "recorded"}
        /\ handler[h].stage # "placed"
        /\ handler'[h].stage = "recorded" =>
              handler[h].stage \in Carrying /\ handler'[h].state.start = handler[h].state.start
        /\ CallSound(h)'
        /\ StateSound(handler[h].request, handler[h].state)'
    <2>1. CASE \E r \in Request : Snapshot(h, r)
      <3>1. PICK r \in Request : Snapshot(h, r)
        BY <2>1
      <3>2. PICK a \in DOMAIN approvals : a = thread[r].approval_id
        BY <3>1 DEF Snapshot, WorkflowInv, WaitsSound, WaitSound, RowMatches
      <3>3. a \in Nat /\ handler[h].stage = "idle"
        BY <1>1, <3>1, <3>2, ThreadTypes DEF Snapshot
      <3>4. /\ handler'[h].stage = "snapshot" /\ handler'[h].approval_id = a
            /\ handler'[h].state = IdleState /\ handler'[h].request = r
            /\ handler' \in [Handler -> HandlerRecord]
            /\ \A g \in Handler \ {h} : handler'[g] = handler[g]
        <4>1. handler' = [handler EXCEPT ![h] = [Idle(r) EXCEPT !.stage = "snapshot",
                                                                !.approval_id = a]]
          BY <3>1, <3>2 DEF Snapshot
        <4>2. PICK x \in HandlerRecord :
                 /\ x = [Idle(r) EXCEPT !.stage = "snapshot", !.approval_id = a]
                 /\ x.stage = "snapshot" /\ x.approval_id = a
                 /\ x.state = IdleState /\ x.request = r
          <5>1. /\ Idle(r) \in HandlerRecord
                /\ Idle(r).request = r /\ Idle(r).state = IdleState
            BY IdleTypes
          <5>2. [Idle(r) EXCEPT !.stage = "snapshot", !.approval_id = a] \in HandlerRecord
            BY <3>3, <5>1 DEF HandlerRecord, Stage
          <5>3. QED
            BY <5>1, <5>2 DEF HandlerRecord
        <4>3. QED
          BY <1>1, <4>1, <4>2
      <3>5. CallSound(h)'
        BY <1>2, <3>2, <3>4 DEF CallSound, QuietTables
      <3>6. StateSound(handler[h].request, handler[h].state)'
        BY <1>2, <3>4, IdleTypes DEF StateSound, QuietTables
      <3>7. QED
        BY <3>3, <3>4, <3>5, <3>6
    <2>2. CASE ExistingOrder(h)
      <3>1. /\ handler[h].stage = "run" /\ handler[h].stage \in Carrying
            /\ handler[h].state.next = "execute_order"
            /\ RunSound(handler[h].request, handler[h].state)
            /\ StateSound(handler[h].request, handler[h].state)
        BY <2>2, CarryFacts DEF ExistingOrder, At
      <3>2. PICK k \in DOMAIN orders : k = ExecuteKey(h)
        BY <2>2 DEF ExistingOrder
      <3>3. orders[k].status \in {"CONFIRMED", "APPROVAL_PENDING", "FAILED"}
        <4>1. orders[k] \in OrderRow
          BY <1>1 DEF TypeOK
        <4>2. QED
          BY <4>1 DEF OrderRow
      <3>4. /\ handler'[h].stage = "recorded" /\ handler'[h].status = orders[k].status
            /\ handler'[h].state = handler[h].state /\ handler'[h].request = handler[h].request
            /\ handler' \in [Handler -> HandlerRecord]
            /\ \A g \in Handler \ {h} : handler'[g] = handler[g]
        BY <1>1, <2>2, <3>2, <3>3 DEF ExistingOrder, HandlerRecord, Stage
      <3>5. orders[k].status = "CONFIRMED" => Held(handler[h].request)
        <4>1. k[1] = handler[h].request
          BY <3>2 DEF ExecuteKey
        <4>2. QED
          BY <4>1 DEF Held, WorkflowInv, OrdersSound
      <3>6. CallSound(h)'
        BY <1>2, <3>1, <3>4, <3>5 DEF CallSound, RecordedSound, RunSound, AskedOnly, Held, QuietTables
      <3>7. StateSound(handler[h].request, handler[h].state)'
        <4>1. UNCHANGED <<orders, book, quotes, starts, restarts>>
          BY <2>2 DEF ExistingOrder
        <4>2. QED
          BY <3>1, <3>4, <4>1 DEF StateSound, Held
      <3>8. QED
        BY <3>1, <3>4, <3>6, <3>7
    <2>3. QED
      BY <2>1, <2>2
  <1>4. PICK r \in Request : r = handler[h].request
    BY HandlerTypes DEF WorkflowInv
  <1>5. TypeOK' /\ Grows
    BY <1>1, <1>2, <1>3 DEF TypeOK, QuietTables, Grows
  <1>6. StateSound(r, thread[r])' /\ WaitSound(r)'
    <2>1. StateSound(r, thread[r]) /\ WaitSound(r) /\ NoNewRow(thread[r].start)
      BY <1>2 DEF WorkflowInv, StatesSound, WaitsSound, NoNewRow, QuietTables
    <2>2. QED
      BY <1>1, <1>2, <1>5, <2>1, ThreadKept, WaitKept
  <1>7. StepOf(h, r) /\ Handover(h, r)
    BY <1>2, <1>3 DEF StepOf, Handover, Carrying
  <1>8. QED
    BY <1>1, <1>2, <1>3, <1>6, <1>7, QuietStepInv

-----------------------------------------------------------------------------
(* Rows, orders and books.                                                  *)

\* A row is answered or its deadline passes: what it asks stays.
LEMMA RowTouchedInv ==
    ASSUME WorkflowInv, TypeOK', Grows, DOMAIN approvals' = DOMAIN approvals,
           Len(approvals') = Len(approvals),
           UNCHANGED <<thread, orders, book, quotes, refusals, lost, starts, restarts>>,
           \A g \in Handler :
              \/ handler'[g] = handler[g]
              \/ /\ handler'[g].stage = "decided" /\ handler[g].stage = "snapshot"
                 /\ handler'[g].state = handler[g].state
                 /\ handler'[g].request = handler[g].request
    PROVE  WorkflowInv'
  <1>0. /\ TypeOK /\ StatesSound /\ WaitsSound /\ CallsSound /\ OneCarrier /\ OneTransaction
        /\ BookSound /\ OrdersSound /\ RowsSound
        /\ RecoveryNeverRepeatsSupplier /\ MishapsNeedAFault
    BY DEF WorkflowInv
  <1>1. \A n : NoNewRow(n)
    BY DEF NoNewRow
  <1>2. StatesSound' /\ CallsSound'
    <2>1. ASSUME NEW r \in Request PROVE StateSound(r, thread[r])'
      BY <1>0, ThreadKept DEF StatesSound
    <2>2. ASSUME NEW g \in Handler
          PROVE  StateSound(handler[g].request, handler[g].state)' /\ CallSound(g)'
      <3>1. CallSound(g) /\ StateSound(handler[g].request, handler[g].state)
        BY <1>0 DEF CallsSound, StatesSound
      <3>2. CASE handler'[g] = handler[g]
        <4>1. handler[g].stage = "placed" => ExecuteKey(g) \notin DOMAIN orders'
          BY <3>1 DEF CallSound, PlacedSound
        <4>2. QED
          BY <1>0, <1>1, <3>1, <3>2, <4>1, HandlerKept, CallKept
      <3>3. CASE handler'[g] # handler[g]
        BY <3>1, <3>3 DEF StateSound, Held, CallSound
      <3>4. QED
        BY <3>2, <3>3
    <2>3. QED
      BY <2>1, <2>2 DEF StatesSound, CallsSound
  <1>3. WaitsSound'
    BY <1>0, <1>1, WaitKept DEF WaitsSound
  <1>4. OneCarrier' /\ OneTransaction'
    BY <1>0 DEF OneCarrier, OneTransaction, Carrying, ExecuteKey
  <1>5. BookSound'
    <2> SUFFICES ASSUME NEW e \in book
                 PROVE  (/\ e.approval_id \in DOMAIN approvals
                         /\ e.key = ProposalId(approvals[e.approval_id])
                         /\ e.supplier = approvals[e.approval_id].supplier
                         /\ \/ e.key \in DOMAIN orders
                            \/ e.key \in lost
                            \/ \E h \in Handler : handler[h].stage = "placed" /\ ExecuteKey(h) = e.key)'
      BY DEF BookSound
    <2>1. \A h \in Handler : handler[h].stage = "placed" =>
             handler'[h].stage = "placed" /\ ExecuteKey(h)' = ExecuteKey(h)
      BY DEF ExecuteKey
    <2>2. QED
      BY <1>0, <2>1 DEF BookSound, ProposalId, Grows
  <1>6. OrdersSound' /\ RowsSound'
    BY <1>0 DEF OrdersSound, RowsSound, Grows
  <1>7. RecoveryNeverRepeatsSupplier'
    BY <1>0 DEF RecoveryNeverRepeatsSupplier, ProposalId, Grows
  <1>8. MishapsNeedAFault'
    BY <1>0 DEF MishapsNeedAFault, DoubleBuyOnlyAfterLostCommit, FailsUnrefusedOnlyAfterRestart
  <1>9. QED
    BY <1>2, <1>3, <1>4, <1>5, <1>6, <1>7, <1>8 DEF WorkflowInv

\* A row that is answered keeps its type and what it asks.
LEMMA RowChange ==
    ASSUME TypeOK, NEW a \in DOMAIN approvals, NEW action \in Action,
           \/ approvals' = [approvals EXCEPT ![a].status = action]
           \/ approvals' = [approvals EXCEPT ![a].expired = TRUE]
    PROVE  /\ approvals' \in Seq(ApprovalRow)
           /\ DOMAIN approvals' = DOMAIN approvals
           /\ Len(approvals') = Len(approvals)
           /\ \A b \in DOMAIN approvals :
                 /\ approvals'[b].request = approvals[b].request
                 /\ approvals'[b].revision = approvals[b].revision
                 /\ approvals'[b].supplier = approvals[b].supplier
                 /\ approvals'[b].start = approvals[b].start
           /\ \A b \in DOMAIN approvals \ {a} : approvals'[b] = approvals[b]
           /\ \/ approvals'[a].status = action
              \/ approvals'[a].status = approvals[a].status
  <1>1. PICK row \in ApprovalRow :
           /\ approvals' = [approvals EXCEPT ![a] = row]
           /\ row.request = approvals[a].request /\ row.revision = approvals[a].revision
           /\ row.supplier = approvals[a].supplier /\ row.start = approvals[a].start
           /\ row.status \in {action, approvals[a].status}
    <2>1. approvals[a] \in ApprovalRow
      BY RowTypes
    <2>2. CASE approvals' = [approvals EXCEPT ![a].status = action]
      <3>1. [approvals[a] EXCEPT !.status = action] \in ApprovalRow
        BY <2>1 DEF ApprovalRow
      <3>2. QED
        BY <2>1, <2>2, <3>1 DEF ApprovalRow
    <2>3. CASE approvals' = [approvals EXCEPT ![a].expired = TRUE]
      <3>1. [approvals[a] EXCEPT !.expired = TRUE] \in ApprovalRow
        BY <2>1 DEF ApprovalRow
      <3>2. QED
        BY <2>1, <2>3, <3>1 DEF ApprovalRow
    <2>4. QED
      BY <2>2, <2>3
  <1>2. approvals \in Seq(ApprovalRow)
    BY DEF TypeOK
  <1>3. /\ approvals' \in Seq(ApprovalRow) /\ Len(approvals') = Len(approvals)
        /\ DOMAIN approvals' = DOMAIN approvals
    BY <1>1, <1>2, LenProperties, ExceptSeq
  <1>4. approvals'[a] = row /\ \A b \in DOMAIN approvals \ {a} : approvals'[b] = approvals[b]
    BY <1>1
  <1>5. QED
    BY <1>1, <1>3, <1>4

\* Decisions on rows, with and without the workflow, and deadlines.
LEMMA RowsInv ==
    ASSUME WorkflowInv,
           \/ \E h \in Handler, action \in Action : Decide(h, action)
           \/ \E a \in DOMAIN approvals, action \in RowActions : DecideRowOnly(a, action)
           \/ \E a \in DOMAIN approvals : Expire(a)
    PROVE  WorkflowInv'
  <1>0. TypeOK /\ RowActions \subseteq Action
    BY WorkflowAssumption DEF WorkflowInv, Action
  <1>1. PICK a \in DOMAIN approvals, action \in Action :
           \/ approvals' = [approvals EXCEPT ![a].status = action]
           \/ approvals' = [approvals EXCEPT ![a].expired = TRUE]
    <2>1. ASSUME NEW h \in Handler, NEW action \in Action, Decide(h, action)
          PROVE  /\ handler[h].approval_id \in DOMAIN approvals
                 /\ approvals' = [approvals EXCEPT ![handler[h].approval_id].status = action]
      BY <2>1 DEF Decide, WorkflowInv, CallsSound, CallSound
    <2>2. "REJECTED" \in Action
      BY DEF Action
    <2>3. QED
      <3>1. CASE \E h \in Handler, action \in Action : Decide(h, action)
        <4>1. PICK h \in Handler, action \in Action : Decide(h, action)
          BY <3>1
        <4>2. PICK a \in DOMAIN approvals : a = handler[h].approval_id
          BY <2>1, <4>1
        <4>3. approvals' = [approvals EXCEPT ![a].status = action]
          BY <2>1, <4>1, <4>2
        <4>4. QED
          BY <4>3
      <3>2. CASE \E a \in DOMAIN approvals, action \in RowActions : DecideRowOnly(a, action)
        BY <1>0, <3>2 DEF DecideRowOnly
      <3>3. CASE \E a \in DOMAIN approvals : Expire(a)
        BY <2>2, <3>3 DEF Expire
      <3>4. QED
        BY <3>1, <3>2, <3>3
  <1>2. /\ approvals' \in Seq(ApprovalRow)
        /\ DOMAIN approvals' = DOMAIN approvals /\ Len(approvals') = Len(approvals)
        /\ \A b \in DOMAIN approvals :
              /\ approvals'[b].request = approvals[b].request
              /\ approvals'[b].revision = approvals[b].revision
              /\ approvals'[b].supplier = approvals[b].supplier
              /\ approvals'[b].start = approvals[b].start
    BY <1>0, <1>1, RowChange
  <1>3. UNCHANGED <<thread, orders, book, quotes, refusals, lost, starts, restarts>>
    BY DEF Decide, DecideRowOnly, Expire
  <1>4. /\ handler' \in [Handler -> HandlerRecord]
        /\ \A g \in Handler :
              \/ handler'[g] = handler[g]
              \/ /\ handler'[g].stage = "decided" /\ handler[g].stage = "snapshot"
                 /\ handler'[g].state = handler[g].state
                 /\ handler'[g].request = handler[g].request
    <2>1. handler \in [Handler -> HandlerRecord]
      BY <1>0 DEF TypeOK
    <2>2. ASSUME NEW h \in Handler, NEW act \in Action, Decide(h, act)
          PROVE  /\ handler' \in [Handler -> HandlerRecord]
                 /\ \A g \in Handler \ {h} : handler'[g] = handler[g]
                 /\ handler'[h].stage = "decided" /\ handler[h].stage = "snapshot"
                 /\ handler'[h].state = handler[h].state
                 /\ handler'[h].request = handler[h].request
      <3>1. handler[h] \in HandlerRecord
        BY <2>1
      <3>2. QED
        BY <2>1, <2>2, <3>1 DEF Decide, HandlerRecord, Stage
    <2>3. QED
      BY <2>1, <2>2 DEF DecideRowOnly, Expire
  <1>5. TypeOK'
    BY <1>0, <1>2, <1>3, <1>4 DEF TypeOK
  <1>6. Grows
    BY <1>0, <1>2, <1>3 DEF Grows, TypeOK
  <1>7. QED
    BY <1>2, <1>3, <1>4, <1>5, <1>6, RowTouchedInv

\* A handler writes a table and changes its own stage, not the run it carries.
LEMMA OwnStepSound ==
    ASSUME WorkflowInv, TypeOK', Grows, NEW h \in Handler,
           \A g \in Handler \ {h} : handler'[g] = handler[g], thread' = thread,
           handler[h].stage \in Carrying, handler'[h].stage \in Carrying,
           handler'[h].state = handler[h].state, handler'[h].request = handler[h].request,
           CallSound(h)',
           \A a \in DOMAIN approvals' :
              a \in DOMAIN approvals \/ approvals'[a].start = handler[h].state.start,
           \A k \in DOMAIN orders' :
              k \in DOMAIN orders \/ (handler[h].stage = "placed" /\ k = ExecuteKey(h))
    PROVE  StatesSound' /\ WaitsSound' /\ CallsSound' /\ OneCarrier'
  <1>1. PICK q \in Request : q = handler[h].request
    BY CarryFacts
  <1>2. StepOf(h, q) /\ Handover(h, q)
    BY DEF StepOf, Handover
  <1>3. StateSound(q, thread[q])' /\ WaitSound(q)'
    <2>1. StateSound(q, thread[q]) /\ WaitSound(q) /\ TypeOK
      BY DEF WorkflowInv, StatesSound, WaitsSound
    <2>2. thread[q].next = "human_approval" => NoNewRow(thread[q].start)
      BY DEF WorkflowInv, OneCarrier, NoNewRow
    <2>3. QED
      BY <2>1, <2>2, ThreadKept, WaitKept
  <1>4. StateSound(handler[h].request, handler[h].state)'
    <2>1. StateSound(q, handler[h].state) /\ TypeOK
      BY <1>1, CarryFacts
    <2>2. /\ starts \in Nat /\ starts' \in Nat /\ restarts \in Nat /\ restarts' \in Nat
          /\ handler[h].state.start \in Nat
      BY <2>1, HandlerTypes DEF TypeOK
    <2>3. handler[h].state.start <= starts'
      BY <2>1, <2>2 DEF StateSound, Grows
    <2>4. handler[h].state.execution_status \in {"SUCCEEDED", "VERIFIED"} => Held(q)'
      BY <2>1, HeldStays DEF StateSound
    <2>5. restarts' = 0 =>
             \A s \in handler[h].state.candidates \cup handler[h].state.selected :
                <<q, s>> \in quotes'
      <3>1. restarts' = 0 => restarts = 0
        BY <2>2 DEF Grows
      <3>2. QED
        BY <2>1, <3>1 DEF StateSound, Grows
    <2>6. handler'[h].request = q
      BY <1>1
    <2>7. QED
      BY <2>3, <2>4, <2>5, <2>6 DEF StateSound, Held
  <1>5. QED
    BY <1>2, <1>3, <1>4, HandlerStepSound, CarrierStep

\* create_proposal commits a row for a supplier that has not been asked before.
LEMMA CreateProposalInv ==
    ASSUME WorkflowInv, NEW h \in Handler, CreateProposal(h)
    PROVE  WorkflowInv'
  <1> DEFINE st == handler[h].state
  <1>1. PICK s \in handler[h].state.selected : approvals' = Append(approvals, NewApproval(h, s))
    BY DEF CreateProposal
  <1>2. /\ handler[h].stage = "run" /\ handler[h].stage \in Carrying
        /\ st.next = "create_proposal" /\ st \in WorkflowState
        /\ handler[h].request \in Request /\ TypeOK
        /\ StateSound(handler[h].request, st)
        /\ RunSound(handler[h].request, st)
    BY CarryFacts DEF CreateProposal, At
  <1>3. /\ s \in Supplier /\ {s} = st.selected /\ s \notin st.attempted
        /\ AskedOnly(handler[h].request, st, st.attempted)
    BY <1>1, <1>2 DEF WorkflowState, RunSound, Searching
  <1>4. PICK row \in ApprovalRow :
           /\ row = NewApproval(h, s)
           /\ row.request = handler[h].request /\ row.revision = st.proposal_revision
           /\ row.supplier = s /\ row.start = st.start
    <2>1. st.proposal_revision \in Nat /\ st.start \in Nat
      BY <1>2 DEF WorkflowState
    <2>2. NewApproval(h, s) \in ApprovalRow
      BY <1>2, <1>3, <2>1 DEF NewApproval, ApprovalRow
    <2>3. QED
      BY <2>2 DEF NewApproval
  <1>5. /\ approvals \in Seq(ApprovalRow) /\ Len(approvals) \in Nat
        /\ DOMAIN approvals = 1..Len(approvals)
    BY <1>2, LenProperties DEF TypeOK
  <1>6. PICK n \in Nat : n = Len(approvals) + 1
    BY <1>5
  <1>7. /\ approvals' \in Seq(ApprovalRow) /\ Len(approvals') = n
        /\ approvals'[n] = row
        /\ \A a \in DOMAIN approvals : approvals'[a] = approvals[a]
    BY <1>1, <1>4, <1>5, <1>6, AppendProperties
  <1>8. DOMAIN approvals' = DOMAIN approvals \cup {n} /\ n \notin DOMAIN approvals
    <2>1. DOMAIN approvals' = 1..n
      BY <1>7, LenProperties
    <2>2. QED
      BY <1>5, <1>6, <2>1
  <1>9. /\ handler'[h].stage = "requested" /\ handler'[h].approval_id = n
        /\ handler'[h].state = st /\ handler'[h].request = handler[h].request
        /\ handler' \in [Handler -> HandlerRecord]
        /\ \A g \in Handler \ {h} : handler'[g] = handler[g]
    <2>1. handler \in [Handler -> HandlerRecord] /\ handler[h] \in HandlerRecord
      BY <1>2, HandlerTypes
    <2>2. handler' = [handler EXCEPT ![h].stage = "requested", ![h].approval_id = n]
      BY <1>6 DEF CreateProposal
    <2>3. QED
      BY <2>1, <2>2 DEF HandlerRecord, Stage
  <1>10. UNCHANGED <<thread, orders, book, quotes, refusals, lost, starts, restarts>>
    BY DEF CreateProposal
  <1>11. TypeOK'
    BY <1>2, <1>7, <1>9, <1>10 DEF TypeOK
  <1>12. Grows
    BY <1>2, <1>7, <1>8, <1>10 DEF Grows, TypeOK
  <1> HIDE DEF st
  <1>13. CallSound(h)'
    <2>1. RowMatches(handler[h].request, handler[h].state, handler[h].approval_id)'
      BY <1>3, <1>4, <1>7, <1>8, <1>9 DEF RowMatches
    <2>2. AskedOnly(handler[h].request, handler[h].state,
                    handler[h].state.attempted \cup handler[h].state.selected)'
      <3>1. ASSUME NEW a \in DOMAIN approvals',
                   approvals'[a].request = handler[h].request, approvals'[a].start = st.start
            PROVE  /\ approvals'[a].revision <= st.proposal_revision
                   /\ approvals'[a].revision = st.proposal_revision =>
                         approvals'[a].supplier \in st.attempted \cup st.selected
        <4>1. CASE a = n
          <5>1. st.proposal_revision \in Nat
            BY <1>2 DEF WorkflowState
          <5>2. QED
            BY <1>3, <1>4, <1>7, <4>1, <5>1
        <4>2. CASE a # n
          BY <1>3, <1>7, <1>8, <3>1, <4>2 DEF AskedOnly
        <4>3. QED
          BY <4>1, <4>2
      <3>2. QED
        BY <1>9, <3>1 DEF AskedOnly
    <2>3. QED
      BY <1>9, <2>1, <2>2 DEF CallSound, RequestedSound
  <1>14. StatesSound' /\ WaitsSound' /\ CallsSound' /\ OneCarrier'
    <2>1. handler'[h].stage \in Carrying
      BY <1>9 DEF Carrying
    <2>2. handler'[h].state = handler[h].state
      BY <1>9 DEF st
    <2>3. \A a \in DOMAIN approvals' :
             a \in DOMAIN approvals \/ approvals'[a].start = handler[h].state.start
      BY <1>4, <1>7, <1>8 DEF st
    <2>4. QED
      BY <1>2, <1>9, <1>10, <1>11, <1>12, <1>13, <2>1, <2>2, <2>3, OwnStepSound
  <1>15. \A g \in Handler : /\ handler'[g].stage = "placed" <=> handler[g].stage = "placed"
                            /\ ExecuteKey(g)' = ExecuteKey(g)
    BY <1>2, <1>9 DEF ExecuteKey, st
  <1>16. OneTransaction'
    BY <1>15 DEF WorkflowInv, OneTransaction
  <1>17. BookSound'
    BY <1>7, <1>8, <1>10, <1>15 DEF WorkflowInv, BookSound, ProposalId
  <1>18. OrdersSound' /\ MishapsNeedAFault'
    BY <1>10 DEF WorkflowInv, OrdersSound, MishapsNeedAFault, DoubleBuyOnlyAfterLostCommit,
                 FailsUnrefusedOnlyAfterRestart
  <1>19. RowsSound'
    <2>1. n <= MaxApprovals
      BY <1>5, <1>6, WorkflowAssumption DEF CreateProposal
    <2>2. row.start <= starts
      BY <1>2, <1>4 DEF StateSound
    <2>3. QED
      BY <1>7, <1>8, <1>10, <2>1, <2>2 DEF WorkflowInv, RowsSound
  <1>20. RecoveryNeverRepeatsSupplier'
    <2>1. \A a \in DOMAIN approvals :
             /\ approvals[a].request = row.request
             /\ approvals[a].revision = row.revision
             /\ approvals[a].start = row.start
             => approvals[a].supplier # row.supplier
      BY <1>3, <1>4 DEF AskedOnly
    <2>2. QED
      BY <1>7, <1>8, <2>1 DEF WorkflowInv, RecoveryNeverRepeatsSupplier, ProposalId
  <1>21. QED
    BY <1>11, <1>14, <1>16, <1>17, <1>18, <1>19, <1>20 DEF WorkflowInv

\* What a call of the supplier writes, and what was known before it.
LEMMA PlaceOrderFacts ==
    ASSUME WorkflowInv, NEW h \in Handler, PlaceOrder(h)
    PROVE  \E s \in Supplier, e \in BookEntry :
              /\ handler[h].state.selected = {s}
              /\ e = [key |-> ExecuteKey(h), supplier |-> s,
                      approval_id |-> handler[h].state.approval_id]
              /\ book' = book \/ (book' = book \cup {e} /\ handler'[h].status = "CONFIRMED")
              /\ handler'[h].status = "CONFIRMED" =>
                    \E f \in book' : f.key = ExecuteKey(h) /\ f.supplier = s
              /\ handler'[h].status = "FAILED" => <<ExecuteKey(h), s>> \in refusals' \/ restarts > 0
              /\ refusals \subseteq refusals' /\ refusals' \subseteq Key \X Supplier
              /\ handler'[h].stage = "placed"
              /\ handler'[h].state = handler[h].state /\ handler'[h].request = handler[h].request
              /\ handler' \in [Handler -> HandlerRecord]
              /\ \A g \in Handler \ {h} : handler'[g] = handler[g]
              /\ (\E f \in book : f.key = ExecuteKey(h) /\ f.supplier = s) => book' = book
  <1>1. PICK s \in handler[h].state.selected, outcome \in OrderRow :
           LET r == handler[h].request
           IN  /\ outcome.supplier = s
               /\ \/ /\ outcome.status = "FAILED"
                     /\ UNCHANGED book
                     /\ \/ <<r, s>> \notin quotes /\ UNCHANGED refusals
                        \/ /\ <<r, s>> \in quotes
                           /\ s \notin Catalog
                           /\ refusals' = refusals \cup {<<ExecuteKey(h), s>>}
                  \/ /\ <<r, s>> \in quotes
                     /\ s \in Catalog
                     /\ outcome.status = "APPROVAL_PENDING"
                     /\ UNCHANGED <<book, refusals>>
                  \/ /\ <<r, s>> \in quotes
                     /\ s \notin Catalog
                     /\ outcome.status = "CONFIRMED"
                     /\ Accept(ExecuteKey(h), s, handler[h].state.approval_id)
                     /\ UNCHANGED refusals
               /\ handler' = [handler EXCEPT ![h].stage = "placed", ![h].status = outcome.status]
    BY DEF PlaceOrder, CallSupplier
  <1>2. /\ handler[h].stage = "run" /\ handler[h].state.next = "execute_order"
        /\ handler[h].state \in WorkflowState /\ handler[h].request \in Request /\ TypeOK
        /\ StateSound(handler[h].request, handler[h].state)
        /\ RowMatches(handler[h].request, handler[h].state, handler[h].state.approval_id)
    BY CarryFacts DEF PlaceOrder, At, RunSound
  <1>3. /\ s \in Supplier /\ handler[h].state.selected = {s}
        /\ handler[h].state.approval_id \in Nat /\ ExecuteKey(h) \in Key
    BY <1>1, <1>2, HandlerTypes DEF WorkflowState, RowMatches
  <1>4. PICK e \in BookEntry :
           /\ e = [key |-> ExecuteKey(h), supplier |-> s, approval_id |-> handler[h].state.approval_id]
           /\ e.key = ExecuteKey(h) /\ e.supplier = s
    <2>1. [key |-> ExecuteKey(h), supplier |-> s, approval_id |-> handler[h].state.approval_id]
             \in BookEntry
      BY <1>3 DEF BookEntry
    <2>2. QED
      BY <2>1
  <1>5. /\ handler'[h].stage = "placed" /\ handler'[h].status = outcome.status
        /\ handler'[h].state = handler[h].state /\ handler'[h].request = handler[h].request
        /\ handler' \in [Handler -> HandlerRecord]
        /\ \A g \in Handler \ {h} : handler'[g] = handler[g]
    <2>1. handler \in [Handler -> HandlerRecord] /\ handler[h] \in HandlerRecord
      BY <1>2, HandlerTypes
    <2>2. outcome.status \in {"CONFIRMED", "APPROVAL_PENDING", "FAILED"}
      BY DEF OrderRow
    <2>3. handler' = [handler EXCEPT ![h].stage = "placed", ![h].status = outcome.status]
      BY <1>1
    <2>4. QED
      BY <2>1, <2>2, <2>3 DEF HandlerRecord, Stage
  <1>6. /\ book' = book \/ (book' = book \cup {e} /\ outcome.status = "CONFIRMED")
        /\ outcome.status = "CONFIRMED" =>
              \E f \in book' : f.key = ExecuteKey(h) /\ f.supplier = s
        /\ (\E f \in book : f.key = ExecuteKey(h) /\ f.supplier = s) => book' = book
    BY <1>1, <1>4 DEF Accept
  <1>7. outcome.status = "FAILED" => <<ExecuteKey(h), s>> \in refusals' \/ restarts > 0
    <2>1. restarts \in Nat
      BY <1>2 DEF TypeOK
    <2>2. restarts = 0 => <<handler[h].request, s>> \in quotes
      BY <1>2, <1>3 DEF StateSound
    <2>3. QED
      BY <1>1, <2>1, <2>2
  <1>8. refusals \subseteq refusals' /\ refusals' \subseteq Key \X Supplier
    <2>1. refusals \subseteq Key \X Supplier
      BY <1>2 DEF TypeOK
    <2>2. QED
      BY <1>1, <1>3, <2>1
  <1>9. QED
    BY <1>3, <1>4, <1>5, <1>6, <1>7, <1>8

\* execute_order calls the supplier.
LEMMA PlaceOrderInv ==
    ASSUME WorkflowInv, NEW h \in Handler, PlaceOrder(h)
    PROVE  WorkflowInv'
  <1>1. PICK s \in Supplier, e \in BookEntry :
              /\ handler[h].state.selected = {s}
              /\ e = [key |-> ExecuteKey(h), supplier |-> s,
                      approval_id |-> handler[h].state.approval_id]
              /\ book' = book \/ (book' = book \cup {e} /\ handler'[h].status = "CONFIRMED")
              /\ handler'[h].status = "CONFIRMED" =>
                    \E f \in book' : f.key = ExecuteKey(h) /\ f.supplier = s
              /\ handler'[h].status = "FAILED" => <<ExecuteKey(h), s>> \in refusals' \/ restarts > 0
              /\ refusals \subseteq refusals' /\ refusals' \subseteq Key \X Supplier
              /\ handler'[h].stage = "placed"
              /\ handler'[h].state = handler[h].state /\ handler'[h].request = handler[h].request
              /\ handler' \in [Handler -> HandlerRecord]
              /\ \A g \in Handler \ {h} : handler'[g] = handler[g]
    BY PlaceOrderFacts
  <1>2. /\ UNCHANGED <<thread, approvals, orders, quotes, lost, starts, restarts>>
        /\ ExecuteKey(h) \notin DOMAIN orders
        /\ \A g \in Handler : handler[g].stage = "placed" => ExecuteKey(g) # ExecuteKey(h)
    BY DEF PlaceOrder
  <1>3. /\ handler[h].stage = "run" /\ handler[h].stage \in Carrying
        /\ RowMatches(handler[h].request, handler[h].state, handler[h].state.approval_id)
        /\ AskedOnly(handler[h].request, handler[h].state,
                     handler[h].state.attempted \cup handler[h].state.selected)
        /\ TypeOK
    BY CarryFacts DEF PlaceOrder, At, RunSound
  <1>4. TypeOK' /\ Grows
    BY <1>1, <1>2, <1>3 DEF TypeOK, Grows
  <1>5. \A g \in Handler : ExecuteKey(g)' = ExecuteKey(g)
    BY <1>1 DEF ExecuteKey
  <1>6. CallSound(h)'
    <2>1. RowMatches(handler[h].request, handler[h].state, handler[h].state.approval_id)'
      BY <1>1, <1>2, <1>3 DEF RowMatches
    <2>2. AskedOnly(handler[h].request, handler[h].state,
                    handler[h].state.attempted \cup handler[h].state.selected)'
      BY <1>1, <1>2, <1>3 DEF AskedOnly
    <2>3. QED
      BY <1>1, <1>2, <1>5, <2>1, <2>2 DEF CallSound, PlacedSound
  <1>7. StatesSound' /\ WaitsSound' /\ CallsSound' /\ OneCarrier'
    <2>1. handler'[h].stage \in Carrying
      BY <1>1 DEF Carrying
    <2>2. QED
      BY <1>1, <1>2, <1>3, <1>4, <1>6, <2>1, OwnStepSound
  <1>8. OneTransaction'
    BY <1>1, <1>2, <1>5 DEF WorkflowInv, OneTransaction
  <1>9. e.key = ExecuteKey(h) /\ e.supplier = s /\ e.approval_id = handler[h].state.approval_id
    BY <1>1
  <1>10. BookSound'
    <2>1. ASSUME NEW f \in book
          PROVE  (/\ f.approval_id \in DOMAIN approvals
                  /\ f.key = ProposalId(approvals[f.approval_id])
                  /\ f.supplier = approvals[f.approval_id].supplier
                  /\ \/ f.key \in DOMAIN orders
                     \/ f.key \in lost
                     \/ \E g \in Handler : handler[g].stage = "placed" /\ ExecuteKey(g) = f.key)'
      <3>1. \A g \in Handler : handler[g].stage = "placed" => handler'[g].stage = "placed"
        BY <1>1
      <3>2. QED
        BY <1>2, <1>5, <3>1 DEF WorkflowInv, BookSound, ProposalId
    <2>2. /\ e.approval_id \in DOMAIN approvals'
          /\ e.key = ProposalId(approvals[e.approval_id])'
          /\ e.supplier = approvals'[e.approval_id].supplier
          /\ \E g \in Handler : handler'[g].stage = "placed" /\ ExecuteKey(g)' = e.key
      BY <1>1, <1>2, <1>3, <1>5, <1>9 DEF RowMatches, ProposalId, ExecuteKey
    <2>3. QED
      BY <1>1, <2>1, <2>2 DEF BookSound
  <1>11. OrdersSound' /\ RowsSound' /\ RecoveryNeverRepeatsSupplier'
    BY <1>1, <1>2 DEF WorkflowInv, OrdersSound, RowsSound, RecoveryNeverRepeatsSupplier, ProposalId
  <1>12. DoubleBuyOnlyAfterLostCommit'
    <2>1. \A f \in book : f.key = ExecuteKey(h) => f.key \in lost
      BY <1>2 DEF WorkflowInv, BookSound
    <2>2. QED
      BY <1>1, <1>2, <1>9, <2>1 DEF WorkflowInv, MishapsNeedAFault, DoubleBuyOnlyAfterLostCommit
  <1>13. FailsUnrefusedOnlyAfterRestart'
    BY <1>1, <1>2 DEF WorkflowInv, MishapsNeedAFault, FailsUnrefusedOnlyAfterRestart
  <1>14. QED
    BY <1>4, <1>7, <1>8, <1>10, <1>11, <1>12, <1>13 DEF WorkflowInv, MishapsNeedAFault

\* The order that the supplier has answered is committed.
LEMMA CommitOrderInv ==
    ASSUME WorkflowInv, NEW h \in Handler, CommitOrder(h)
    PROVE  WorkflowInv'
  <1>1. PICK k \in Key : k = ExecuteKey(h)
    BY HandlerTypes DEF WorkflowInv
  <1>2. PICK s \in handler[h].state.selected :
           orders' = [j \in DOMAIN orders \cup {k} |->
                        IF j = k THEN [supplier |-> s, status |-> handler[h].status] ELSE orders[j]]
    BY <1>1 DEF CommitOrder
  <1>3. /\ handler[h].stage = "placed" /\ handler[h].stage \in Carrying /\ PlacedSound(h)
        /\ handler[h].state \in WorkflowState /\ TypeOK /\ s \in Supplier
        /\ handler[h].status \in {"CONFIRMED", "APPROVAL_PENDING", "FAILED"}
    BY CarryFacts, HandlerTypes DEF CommitOrder
  <1>4. PICK row \in OrderRow :
           row = [supplier |-> s, status |-> handler[h].status]
           /\ row.supplier = s /\ row.status = handler[h].status
    <2>1. [supplier |-> s, status |-> handler[h].status] \in OrderRow
      BY <1>3 DEF OrderRow
    <2>2. QED
      BY <2>1
  <1>5. /\ DOMAIN orders' = DOMAIN orders \cup {k} /\ orders'[k] = row
        /\ k \notin DOMAIN orders
        /\ \A j \in DOMAIN orders : orders'[j] = orders[j]
        /\ orders' \in [DOMAIN orders' -> OrderRow]
    <2>1. k \notin DOMAIN orders
      BY <1>1, <1>3 DEF PlacedSound
    <2>2. orders \in [DOMAIN orders -> OrderRow]
      BY <1>3 DEF TypeOK
    <2>3. QED
      BY <1>2, <1>4, <2>1, <2>2
  <1>6. /\ handler'[h].stage = "recorded" /\ handler'[h].status = handler[h].status
        /\ handler'[h].state = handler[h].state /\ handler'[h].request = handler[h].request
        /\ handler' \in [Handler -> HandlerRecord]
        /\ \A g \in Handler \ {h} : handler'[g] = handler[g]
    <2>1. handler \in [Handler -> HandlerRecord] /\ handler[h] \in HandlerRecord
      BY <1>3, HandlerTypes
    <2>2. handler' = [handler EXCEPT ![h].stage = "recorded"]
      BY DEF CommitOrder
    <2>3. QED
      BY <2>1, <2>2 DEF HandlerRecord, Stage
  <1>7. UNCHANGED <<thread, approvals, book, quotes, refusals, lost, starts, restarts>>
    BY DEF CommitOrder
  <1>8. TypeOK' /\ Grows
    BY <1>1, <1>3, <1>5, <1>6, <1>7 DEF TypeOK, Grows
  <1>9. \A g \in Handler : ExecuteKey(g)' = ExecuteKey(g)
    BY <1>6 DEF ExecuteKey
  <1>10. /\ handler[h].status = "CONFIRMED" => \E e \in book : e.key = k /\ e.supplier = s
         /\ handler[h].status = "FAILED" => <<k, s>> \in refusals \/ restarts > 0
    BY <1>1, <1>2, <1>3 DEF PlacedSound
  <1>11. CallSound(h)'
    <2>1. AskedOnly(handler[h].request, handler[h].state,
                    handler[h].state.attempted \cup handler[h].state.selected)'
      BY <1>3, <1>6, <1>7 DEF AskedOnly, PlacedSound
    <2>2. k[1] = handler[h].request
      BY <1>1 DEF ExecuteKey
    <2>3. handler[h].status = "CONFIRMED" => Held(handler[h].request)'
      BY <1>4, <1>5, <1>6, <1>7, <1>10, <2>2 DEF Held
    <2>4. QED
      BY <1>6, <2>1, <2>3 DEF CallSound, RecordedSound
  <1>12. StatesSound' /\ WaitsSound' /\ CallsSound' /\ OneCarrier'
    <2>1. handler'[h].stage \in Carrying
      BY <1>6 DEF Carrying
    <2>2. \A j \in DOMAIN orders' :
             j \in DOMAIN orders \/ (handler[h].stage = "placed" /\ j = ExecuteKey(h))
      BY <1>1, <1>3, <1>5
    <2>3. QED
      BY <1>3, <1>6, <1>7, <1>8, <1>11, <2>1, <2>2, OwnStepSound
  <1>13. OneTransaction'
    BY <1>6, <1>9 DEF WorkflowInv, OneTransaction
  <1>14. BookSound'
    <2>1. \A g \in Handler : handler[g].stage = "placed" =>
             handler'[g].stage = "placed" \/ ExecuteKey(g) \in DOMAIN orders'
      BY <1>1, <1>5, <1>6
    <2>2. QED
      BY <1>5, <1>7, <1>9, <2>1 DEF WorkflowInv, BookSound, ProposalId
  <1>15. OrdersSound'
    BY <1>4, <1>5, <1>7, <1>10 DEF WorkflowInv, OrdersSound
  <1>16. RowsSound' /\ RecoveryNeverRepeatsSupplier' /\ DoubleBuyOnlyAfterLostCommit'
    BY <1>7 DEF WorkflowInv, RowsSound, RecoveryNeverRepeatsSupplier, ProposalId,
                MishapsNeedAFault, DoubleBuyOnlyAfterLostCommit
  <1>17. FailsUnrefusedOnlyAfterRestart'
    BY <1>4, <1>5, <1>7, <1>10 DEF WorkflowInv, MishapsNeedAFault, FailsUnrefusedOnlyAfterRestart
  <1>18. QED
    BY <1>8, <1>12, <1>13, <1>14, <1>15, <1>16, <1>17 DEF WorkflowInv, MishapsNeedAFault

\* A restart drops the calls and the quotes; open transactions are lost.
LEMMA RestartInv ==
    ASSUME WorkflowInv, Restart
    PROVE  WorkflowInv'
  <1>1. /\ TypeOK /\ StatesSound /\ WaitsSound /\ OneCarrier
    BY DEF WorkflowInv
  <1>2. PICK p \in Request : p = AnyRequest
    BY IdleTypes
  <1>3. /\ \A g \in Handler : handler'[g] = Idle(p) /\ handler'[g].stage = "idle"
        /\ handler' \in [Handler -> HandlerRecord]
    BY <1>2, IdleTypes DEF Restart
  <1>4. /\ UNCHANGED <<thread, approvals, orders, book, refusals, starts>>
        /\ quotes' = {} /\ restarts' = restarts + 1
        /\ lost \subseteq lost'
        /\ \A g \in Handler : handler[g].stage = "placed" => ExecuteKey(g) \in lost'
        /\ lost' \subseteq Key
    <2>1. \A g \in Handler : ExecuteKey(g) \in Key
      BY <1>1, HandlerTypes
    <2>2. QED
      BY <1>1, <2>1 DEF Restart, TypeOK
  <1>5. TypeOK' /\ Grows
    BY <1>1, <1>3, <1>4 DEF TypeOK, Grows
  <1>6. \A n : NoNewRow(n)
    BY <1>4 DEF NoNewRow
  <1>7. StatesSound' /\ CallsSound' /\ WaitsSound'
    <2>1. ASSUME NEW r \in Request PROVE StateSound(r, thread[r])' /\ WaitSound(r)'
      BY <1>1, <1>4, <1>5, <1>6, ThreadKept, WaitKept DEF StatesSound, WaitsSound
    <2>2. ASSUME NEW g \in Handler
          PROVE  StateSound(handler[g].request, handler[g].state)' /\ CallSound(g)'
      BY <1>3, <1>5, IdleSound
    <2>3. QED
      BY <2>1, <2>2 DEF StatesSound, CallsSound, WaitsSound
  <1>8. OneCarrier' /\ OneTransaction'
    BY <1>1, <1>3, <1>4 DEF OneCarrier, OneTransaction, Carrying
  <1>9. BookSound'
    BY <1>4 DEF WorkflowInv, BookSound, ProposalId
  <1>10. OrdersSound' /\ RowsSound' /\ RecoveryNeverRepeatsSupplier'
    BY <1>4 DEF WorkflowInv, OrdersSound, RowsSound, RecoveryNeverRepeatsSupplier, ProposalId
  <1>11. MishapsNeedAFault'
    <2>1. restarts \in Nat
      BY <1>1 DEF TypeOK
    <2>2. QED
      BY <1>4, <2>1 DEF WorkflowInv, MishapsNeedAFault, DoubleBuyOnlyAfterLostCommit,
                        FailsUnrefusedOnlyAfterRestart
  <1>12. QED
    BY <1>5, <1>7, <1>8, <1>9, <1>10, <1>11 DEF WorkflowInv

-----------------------------------------------------------------------------
(* The theorems.                                                            *)

\* Nothing has been started, asked or bought.
LEMMA WorkflowInit == Init => WorkflowInv
  <1> SUFFICES ASSUME Init PROVE WorkflowInv
    OBVIOUS
  <1>1. PICK p \in Request : p = AnyRequest
    BY IdleTypes
  <1>2. /\ \A r \in Request : thread[r] = IdleState
        /\ \A h \in Handler : handler[h] = Idle(p) /\ handler[h].stage = "idle"
                              /\ handler[h].state = IdleState
        /\ thread \in [Request -> WorkflowState] /\ handler \in [Handler -> HandlerRecord]
    BY <1>1, IdleTypes DEF Init
  <1>3. /\ approvals = <<>> /\ DOMAIN approvals = {} /\ Len(approvals) = 0
        /\ approvals \in Seq(ApprovalRow)
        /\ DOMAIN orders = {} /\ orders \in [DOMAIN orders -> OrderRow]
        /\ book = {} /\ quotes = {} /\ refusals = {} /\ lost = {} /\ starts = 0 /\ restarts = 0
    BY DEF Init
  <1>4. TypeOK
    BY <1>2, <1>3 DEF TypeOK
  <1>5. StatesSound
    BY <1>2, <1>3, IdleTypes DEF StatesSound, StateSound
  <1>6. WaitsSound /\ CallsSound
    BY <1>2, IdleTypes DEF WaitsSound, WaitSound, CallsSound, CallSound
  <1>7. OneCarrier /\ OneTransaction
    BY <1>2, IdleTypes DEF OneCarrier, OneTransaction, Carrying
  <1>8. BookSound /\ OrdersSound /\ RowsSound /\ RecoveryNeverRepeatsSupplier /\ MishapsNeedAFault
    BY <1>3, WorkflowAssumption
       DEF BookSound, OrdersSound, RowsSound, RecoveryNeverRepeatsSupplier, MishapsNeedAFault,
           DoubleBuyOnlyAfterLostCommit, FailsUnrefusedOnlyAfterRestart
  <1>9. QED
    BY <1>4, <1>5, <1>6, <1>7, <1>8 DEF WorkflowInv

\* A step in which nothing changes.
LEMMA StutterInv ==
    ASSUME WorkflowInv, UNCHANGED vars
    PROVE  WorkflowInv'
  <1>1. /\ TypeOK' /\ Grows
        /\ DOMAIN approvals' = DOMAIN approvals /\ Len(approvals') = Len(approvals)
    BY DEF WorkflowInv, TypeOK, Grows, vars
  <1>2. QED
    BY <1>1, RowTouchedInv DEF vars

\* Every step of the workflow, whoever takes it, keeps the invariant.
LEMMA WorkflowStep == WorkflowInv /\ [Next]_vars => WorkflowInv'
  <1> SUFFICES ASSUME WorkflowInv, [Next]_vars PROVE WorkflowInv'
    OBVIOUS
  <1>1. ASSUME NEW h \in Handler, NEW r \in Request, Start(h, r) \/ Snapshot(h, r)
        PROVE  WorkflowInv'
    BY <1>1, StartInv, ReadsInv
  <1>2. ASSUME NEW h \in Handler, HandlerStep(h)
        PROVE  WorkflowInv'
    <2>1. CASE \E action \in Action : Decide(h, action)
      BY <2>1, RowsInv
    <2>2. CASE DecideRaises(h) \/ InvalidModification(h) \/ NothingToResume(h)
      BY <2>2, RaisesInv
    <2>3. CASE HumanApproval(h)
      BY <2>3, HumanApprovalInv
    <2>4. CASE NodeStep(h)
      BY <2>4, PlainNodesInv, FindSupplierInv, NegotiateInv, CreateProposalInv, RaisesInv,
         InterruptInv, ReadsInv, FailuresInv, PlaceOrderInv, CommitOrderInv,
         ExecuteReturnsInv, VerifyResultInv
      DEF NodeStep
    <2>5. QED
      BY <1>2, <2>1, <2>2, <2>3, <2>4 DEF HandlerStep
  <1>3. ASSUME NEW a \in DOMAIN approvals,
               Expire(a) \/ \E action \in RowActions : DecideRowOnly(a, action)
        PROVE  WorkflowInv'
    BY <1>3, RowsInv
  <1>4. CASE Restart
    BY <1>4, RestartInv
  <1>5. CASE UNCHANGED vars
    BY <1>5, StutterInv
  <1>6. QED
    BY <1>1, <1>2, <1>3, <1>4, <1>5 DEF Next

\* The invariant holds of every behaviour of the workflow.
THEOREM WorkflowInvariant == Spec => []WorkflowInv
  BY WorkflowInit, WorkflowStep, PTL DEF Spec

\* The checkpoints are well formed, and a thread that waits for the merchant
\* waits on the row of its own request, revision and supplier, whichever
\* handlers interleaved and whenever the process restarted.
THEOREM ThreadsAreConsistent == Spec => []ThreadConsistent
  <1>1. WorkflowInv => ThreadConsistent
    BY DEF WorkflowInv, ThreadConsistent, WaitsOnItsOwnApproval, WaitsSound, WaitSound, RowMatches
  <1>2. QED
    BY <1>1, WorkflowInvariant, PTL

\* A purchase reported as VERIFIED is confirmed in the database and held by a
\* supplier.
THEOREM VerifiedPurchasesAreBought == Spec => []VerifiedMeansBought
  <1>1. WorkflowInv => VerifiedMeansBought
    BY DEF WorkflowInv, VerifiedMeansBought, StatesSound, StateSound, Held
  <1>2. QED
    BY <1>1, WorkflowInvariant, PTL

\* Recovery never puts a supplier to the merchant twice within one call of
\* start and one revision.
THEOREM RecoveryMovesOn == Spec => []RecoveryNeverRepeatsSupplier
  <1>1. WorkflowInv => RecoveryNeverRepeatsSupplier
    BY DEF WorkflowInv
  <1>2. QED
    BY <1>1, WorkflowInvariant, PTL

\* Buying twice needs a lost commit, and failing unrefused needs a restart.
THEOREM FaultsAloneCauseMishaps == Spec => []MishapsNeedAFault
  <1>1. WorkflowInv => MishapsNeedAFault
    BY DEF WorkflowInv
  <1>2. QED
    BY <1>1, WorkflowInvariant, PTL

-----------------------------------------------------------------------------
(* The workflow implements PurchaseContract.                                *)

\* The answer to question a, as PurchaseContract sees it.
LEMMA VerdictOf ==
    ASSUME NEW a \in 1..MaxApprovals
    PROVE  Verdict[a] = IF a \notin DOMAIN approvals THEN "unasked"
                        ELSE IF approvals[a].status = "PENDING" THEN "asked"
                        ELSE IF approvals[a].status = "APPROVED" THEN "yes"
                        ELSE "no"
  BY DEF Verdict

\* The rows that exist are questions.
LEMMA RowsAreQuestions ==
    ASSUME WorkflowInv
    PROVE  /\ DOMAIN approvals = 1..Len(approvals) /\ Len(approvals) \in Nat
           /\ DOMAIN approvals \subseteq 1..MaxApprovals
           /\ MaxApprovals \in Nat
  <1>1. approvals \in Seq(ApprovalRow) /\ Len(approvals) <= MaxApprovals /\ MaxApprovals \in Nat
    BY WorkflowAssumption DEF WorkflowInv, TypeOK, RowsSound
  <1>2. QED
    BY <1>1, LenProperties

\* A row answered is a question answered.
LEMMA DecisionReplies ==
    ASSUME WorkflowInv, UNCHANGED book, NEW a \in DOMAIN approvals, NEW action \in Action,
           approvals[a].status = "PENDING",
           approvals' = [approvals EXCEPT ![a].status = action]
    PROVE  \E q \in 1..MaxApprovals, answer \in {"yes", "no"} : Contract!Reply(q, answer)
  <1> DEFINE answer == IF action = "APPROVED" THEN "yes" ELSE "no"
  <1>1. TypeOK /\ DOMAIN approvals \subseteq 1..MaxApprovals
    BY RowsAreQuestions DEF WorkflowInv
  <1>2. /\ DOMAIN approvals' = DOMAIN approvals
        /\ \A b \in DOMAIN approvals \ {a} : approvals'[b] = approvals[b]
        /\ approvals'[a].status = action
    <2>1. approvals[a] \in ApprovalRow
      BY <1>1, RowTypes
    <2>2. QED
      BY <2>1 DEF ApprovalRow
  <1>3. action # "PENDING"
    BY DEF Action
  <1>4. Verdict[a] = "asked"
    BY <1>1, VerdictOf
  <1>5. Verdict' = [Verdict EXCEPT ![a] = answer]
    BY <1>1, <1>2, <1>3 DEF Verdict
  <1>6. UNCHANGED Bought
    BY DEF Bought
  <1>7. answer \in {"yes", "no"} /\ a \in 1..MaxApprovals
    BY <1>1
  <1> HIDE DEF answer
  <1>8. Contract!Reply(a, answer)
    BY <1>4, <1>5, <1>6 DEF Contract!Reply
  <1>9. QED
    BY <1>7, <1>8

\* A new row is a question asked.
LEMMA ProposalAsks ==
    ASSUME WorkflowInv, NEW h \in Handler, CreateProposal(h)
    PROVE  \E q \in 1..MaxApprovals : Contract!Ask(q)
  <1>1. PICK s \in handler[h].state.selected : approvals' = Append(approvals, NewApproval(h, s))
    BY DEF CreateProposal
  <1>2. /\ approvals \in Seq(ApprovalRow) /\ TypeOK
        /\ DOMAIN approvals = 1..Len(approvals) /\ Len(approvals) \in Nat
        /\ DOMAIN approvals \subseteq 1..MaxApprovals /\ MaxApprovals \in Nat
        /\ Len(approvals) < MaxApprovals
    BY RowsAreQuestions DEF WorkflowInv, TypeOK, CreateProposal
  <1>3. PICK n \in 1..MaxApprovals : n = Len(approvals) + 1
    BY <1>2
  <1>4. NewApproval(h, s) \in ApprovalRow /\ NewApproval(h, s).status = "PENDING"
    <2>1. /\ handler[h].request \in Request /\ handler[h].state.proposal_revision \in Nat
          /\ handler[h].state.start \in Nat /\ s \in Supplier
      BY <1>1, <1>2, HandlerTypes
    <2>2. QED
      BY <2>1 DEF NewApproval, ApprovalRow
  <1>5. /\ DOMAIN approvals' = DOMAIN approvals \cup {n} /\ n \notin DOMAIN approvals
        /\ approvals'[n].status = "PENDING"
        /\ \A b \in DOMAIN approvals : approvals'[b] = approvals[b]
    <2>1. /\ approvals' \in Seq(ApprovalRow) /\ Len(approvals') = n
          /\ approvals'[n] = NewApproval(h, s)
          /\ \A b \in 1..Len(approvals) : approvals'[b] = approvals[b]
      BY <1>1, <1>2, <1>3, <1>4, AppendProperties
    <2>2. DOMAIN approvals' = 1..n
      BY <2>1, LenProperties
    <2>3. QED
      BY <1>2, <1>3, <1>4, <2>1, <2>2
  <1>6. Verdict[n] = "unasked"
    BY <1>5, VerdictOf
  <1>7. Verdict' = [Verdict EXCEPT ![n] = "asked"]
    BY <1>2, <1>5 DEF Verdict
  <1>8. UNCHANGED Bought
    BY DEF Bought, CreateProposal
  <1>9. Contract!Ask(n)
    BY <1>6, <1>7, <1>8 DEF Contract!Ask
  <1>10. QED
    BY <1>9

\* A supplier accepts an order: the question was answered yes, and nothing
\* was bought on it before.
LEMMA PlacementBuys ==
    ASSUME WorkflowInv, NEW h \in Handler, PlaceOrder(h)
    PROVE  \/ \E q \in 1..MaxApprovals : Contract!Buy(q)
           \/ UNCHANGED <<Verdict, Bought>>
  <1>1. PICK s \in Supplier, e \in BookEntry :
              /\ handler[h].state.selected = {s}
              /\ e = [key |-> ExecuteKey(h), supplier |-> s,
                      approval_id |-> handler[h].state.approval_id]
              /\ book' = book \/ book' = book \cup {e}
              /\ (\E f \in book : f.key = ExecuteKey(h) /\ f.supplier = s) => book' = book
    BY PlaceOrderFacts
  <1>2. UNCHANGED Verdict
    BY DEF PlaceOrder, Verdict
  <1>3. CASE book' = book
    BY <1>2, <1>3 DEF Bought
  <1>4. CASE book' # book
    <2>1. PICK a \in 1..MaxApprovals : a = handler[h].state.approval_id
      BY RowsAreQuestions DEF PlaceOrder, Authorized
    <2>2. Verdict[a] = "yes"
      BY <2>1, VerdictOf DEF PlaceOrder, Authorized
    <2>3. RowMatches(handler[h].request, handler[h].state, a)
      BY <2>1, CarryFacts DEF PlaceOrder, At, RunSound
    <2>4. a \notin Bought
      <3> SUFFICES ASSUME NEW f \in book, f.approval_id = a PROVE FALSE
        BY DEF Bought
      <3>1. f.key = ProposalId(approvals[a]) /\ f.supplier = approvals[a].supplier
        BY DEF WorkflowInv, BookSound
      <3>2. f.key = ExecuteKey(h) /\ f.supplier = s
        BY <1>1, <2>3, <3>1 DEF RowMatches, ProposalId, ExecuteKey
      <3>3. QED
        BY <1>1, <1>4, <3>2
    <2>5. Bought' = Bought \cup {a}
      <3>1. book' = book \cup {e} /\ e.approval_id = a
        BY <1>1, <1>4, <2>1
      <3>2. QED
        BY <3>1 DEF Bought
    <2>6. Contract!Buy(a)
      BY <1>2, <2>2, <2>4, <2>5 DEF Contract!Buy
    <2>7. QED
      BY <2>6
  <1>5. QED
    BY <1>3, <1>4

\* A step that leaves the books alone and the rows' answers too is invisible.
LEMMA InvisibleStep ==
    ASSUME UNCHANGED <<approvals, book>>
    PROVE  UNCHANGED <<Verdict, Bought>>
  BY DEF Verdict, Bought

\* A deadline that passes is invisible to the contract.
LEMMA ExpireInvisible ==
    ASSUME WorkflowInv, NEW a \in DOMAIN approvals, Expire(a)
    PROVE  UNCHANGED <<Verdict, Bought>>
  <1>1. approvals[a] \in ApprovalRow
    BY RowTypes DEF WorkflowInv
  <1>2. /\ DOMAIN approvals' = DOMAIN approvals
        /\ \A b \in DOMAIN approvals : approvals'[b].status = approvals[b].status
    BY <1>1 DEF Expire, ApprovalRow
  <1>3. UNCHANGED Verdict
    BY <1>2 DEF Verdict
  <1>4. UNCHANGED Bought
    BY DEF Expire, Bought
  <1>5. QED
    BY <1>3, <1>4

\* Every step is a step of the contract, or invisible to it.
LEMMA WorkflowSimulation ==
    WorkflowInv /\ [Next]_vars => [Contract!Next]_<<Verdict, Bought>>
  <1> SUFFICES ASSUME WorkflowInv, [Next]_vars
               PROVE  Contract!Next \/ UNCHANGED <<Verdict, Bought>>
    OBVIOUS
  <1>1. ASSUME NEW h \in Handler, NEW r \in Request, Start(h, r) \/ Snapshot(h, r)
        PROVE  UNCHANGED <<Verdict, Bought>>
    BY <1>1, InvisibleStep DEF Start, Snapshot
  <1>2. ASSUME NEW h \in Handler, HandlerStep(h)
        PROVE  Contract!Next \/ UNCHANGED <<Verdict, Bought>>
    <2>1. ASSUME NEW action \in Action, Decide(h, action)
          PROVE  Contract!Next
      <3>1. PICK a \in DOMAIN approvals : a = handler[h].approval_id
        BY <2>1 DEF Decide, WorkflowInv, CallsSound, CallSound
      <3>2. /\ approvals' = [approvals EXCEPT ![a].status = action]
            /\ approvals[a].status = "PENDING" /\ UNCHANGED book
        BY <2>1, <3>1 DEF Decide, Decidable
      <3>3. QED
        BY <3>2, DecisionReplies DEF Contract!Next
    <2>2. CASE DecideRaises(h) \/ InvalidModification(h) \/ NothingToResume(h) \/ HumanApproval(h)
      BY <2>2, InvisibleStep DEF DecideRaises, InvalidModification, NothingToResume, HumanApproval
    <2>3. CASE CreateProposal(h)
      BY <2>3, ProposalAsks DEF Contract!Next
    <2>4. CASE PlaceOrder(h)
      BY <2>4, PlacementBuys DEF Contract!Next
    <2>5. CASE \/ DetectNeed(h) \/ ForecastDemand(h) \/ FindSupplier(h) \/ Negotiate(h)
               \/ RiskCheck(h) \/ ProposalExists(h) \/ Interrupt(h) \/ NodeRaises(h)
               \/ ExistingOrder(h) \/ NotAuthorized(h) \/ CommitOrder(h)
               \/ CommitFails(h) \/ ExecuteReturns(h) \/ VerifyResult(h)
      BY <2>5, InvisibleStep
         DEF DetectNeed, ForecastDemand, FindSupplier, Negotiate, RiskCheck, ProposalExists,
             Interrupt, NodeRaises, ExistingOrder, NotAuthorized, CommitOrder, CommitFails,
             ExecuteReturns, VerifyResult
    <2>6. QED
      BY <1>2, <2>1, <2>2, <2>3, <2>4, <2>5 DEF HandlerStep, NodeStep
  <1>3. ASSUME NEW a \in DOMAIN approvals, NEW action \in RowActions, DecideRowOnly(a, action)
        PROVE  Contract!Next
    <2>1. action \in Action
      BY WorkflowAssumption DEF Action
    <2>2. QED
      BY <1>3, <2>1, DecisionReplies DEF DecideRowOnly, Decidable, Contract!Next
  <1>4. ASSUME NEW a \in DOMAIN approvals, Expire(a)
        PROVE  UNCHANGED <<Verdict, Bought>>
    BY <1>4, ExpireInvisible
  <1>5. CASE Restart \/ UNCHANGED vars
    BY <1>5, InvisibleStep DEF Restart, vars
  <1>6. QED
    BY <1>1, <1>2, <1>3, <1>4, <1>5 DEF Next

\* The whole workflow, with its recovery loop, concurrent calls and restarts,
\* implements PurchaseContract: nothing is bought without a yes, and nothing
\* twice on one approval.
THEOREM WorkflowImplementsContract == Spec => ImplementsContract
  <1>1. Init => Contract!Init
    BY DEF Init, Contract!Init, Verdict, Bought
  <1>2. QED
    BY <1>1, WorkflowInvariant, WorkflowSimulation, PTL
       DEF Spec, ImplementsContract, Contract!Spec
=============================================================================
