-------------------------- MODULE SupplierFulfilment --------------------------
(***************************************************************************)
(* The supplier's side of an order (api/v1/suppliers.py): the human gate    *)
(* that settles or declines an incoming order against catalog stock, and    *)
(* the catalog form that sets the stock.  A request is one database         *)
(* transaction that locks its rows one at a time, so requests interleave    *)
(* between locks.                                                           *)
(*                                                                         *)
(* The stock query of a decision joins supplier_products with products and  *)
(* says FOR UPDATE without OF: PostgreSQL locks both rows, in the order of  *)
(* the FROM clause.  The catalog form locks the same two rows in the        *)
(* opposite order, so the two can wait for each other; PostgreSQL then      *)
(* cancels one of them.                                                     *)
(***************************************************************************)
EXTENDS Naturals, Sequences, FiniteSets

CONSTANTS
    OrderId,
    Sku,
    Session,     \* database sessions, one per request in flight
    MaxStock,    \* bound on the stock a supplier may enter
    MaxUpserts   \* bound on the submissions of the catalog form

ASSUME FulfilmentAssumption == MaxStock \in Nat /\ MaxUpserts \in Nat

VARIABLES
    orders,      \* committed catalog orders, a function on the ids that exist
    stock,       \* available_quantity, a function on the SKUs in the catalog
    held,        \* row locks of each session
    request,     \* requests in flight, a function on their sessions
    announced,   \* OutboxEvent rows of each order, oldest first
    entered,     \* history: the stock last entered for each SKU
    sold,        \* history: what was confirmed of each SKU since then
    upserts

vars == <<orders, stock, held, request, announced, entered, sold, upserts>>

-----------------------------------------------------------------------------
\* An order that OrderService.execute inserts has exactly one item.
Order == [sku : Sku, quantity : 1..MaxStock,
          status : {"APPROVAL_PENDING", "CONFIRMED", "CANCELLED"},
          transaction : {"PENDING", "SUCCEEDED", "FAILED"}]

Row == ({"orders"} \X OrderId) \cup ({"products", "supplier_products"} \X Sku)

\* ordered:  the order row is locked and found APPROVAL_PENDING
\* catalog:  a decision has locked the catalog row, the product row is next
\* reserved: both are locked, available_quantity is read and sufficient
\* product:  the catalog form has locked the product row
\* item:     and the catalog row
Decision == [stage : {"ordered", "catalog", "reserved"}, order : OrderId,
             sku : Sku, approved : BOOLEAN, available : Nat]

Upsert == [stage : {"product", "item"}, sku : Sku, available : Nat]

InFlight(s, stages) == s \in DOMAIN request /\ request[s].stage \in stages

\* A row that no open transaction has locked.
Free(row) == \A s \in Session : row \notin held[s]

\* Mutant of Lock: the stock is read without FOR UPDATE.
LockOrdersOnly(s, row) ==
    IF row[1] = "orders"
    THEN Free(row) /\ held' = [held EXCEPT ![s] = @ \cup {row}]
    ELSE UNCHANGED held

Lock(s, row) ==
    /\ Free(row)
    /\ held' = [held EXCEPT ![s] = @ \cup {row}]

\* The end of a transaction, committed or not.
End(s) ==
    /\ request' = [t \in DOMAIN request \ {s} |-> request[t]]
    /\ held' = [held EXCEPT ![s] = {}]

Begin(s, r) == request' = [t \in DOMAIN request \cup {s} |->
                             IF t = s THEN r ELSE request[t]]

-----------------------------------------------------------------------------
(* Incoming orders.                                                         *)

\* OrderService.execute commits an order that CatalogSupplierAdapter left at
\* APPROVAL_PENDING.
Arrive(o, k, q) ==
    /\ o \notin DOMAIN orders
    /\ orders' = [p \in DOMAIN orders \cup {o} |->
                    IF p = o THEN [sku |-> k, quantity |-> q,
                                   status |-> "APPROVAL_PENDING",
                                   transaction |-> "PENDING"]
                             ELSE orders[p]]
    /\ announced' = [announced EXCEPT ![o] = Append(@, "APPROVAL_REQUIRED")]
    /\ UNCHANGED <<stock, held, request, entered, sold, upserts>>

\* decide_supplier_order up to the status check.  An order that is settled
\* already is returned as it is, or raises Conflict: no step.
BeginDecision(s, o, approved) ==
    /\ s \notin DOMAIN request
    /\ o \in DOMAIN orders
    /\ orders[o].status = "APPROVAL_PENDING"
    /\ Lock(s, <<"orders", o>>)
    /\ Begin(s, [stage |-> "ordered", order |-> o, sku |-> orders[o].sku,
                 approved |-> approved, available |-> 0])
    /\ UNCHANGED <<orders, stock, announced, entered, sold, upserts>>

\* An item that is in the catalog: its supplier_products row is locked first.
LockCatalog(s) ==
    /\ InFlight(s, {"ordered"})
    /\ request[s].approved
    /\ request[s].sku \in DOMAIN stock
    /\ Lock(s, <<"supplier_products", request[s].sku>>)
    /\ request' = [request EXCEPT ![s].stage = "catalog"]
    /\ UNCHANGED <<orders, stock, announced, entered, sold, upserts>>

\* Then the products row; the query returns and the stock is sufficient.
Reserve(s) ==
    /\ InFlight(s, {"catalog"})
    /\ Lock(s, <<"products", request[s].sku>>)
    /\ stock[request[s].sku] >= orders[request[s].order].quantity
    /\ request' = [request EXCEPT ![s].stage = "reserved",
                                  ![s].available = stock[request[s].sku]]
    /\ UNCHANGED <<orders, stock, announced, entered, sold, upserts>>

\* Mutant of Insufficient: a SKU that is not in the catalog is not handled.
InsufficientListedOnly(s) ==
    /\ InFlight(s, {"catalog"})
    /\ Free(<<"products", request[s].sku>>)
    /\ stock[request[s].sku] < orders[request[s].order].quantity
    /\ End(s)
    /\ UNCHANGED <<orders, stock, announced, entered, sold, upserts>>

\* The item is not in the catalog, or there is too little: Conflict, and the
\* transaction is rolled back.
Insufficient(s) ==
    /\ \/ /\ InFlight(s, {"ordered"})
          /\ request[s].approved
          /\ request[s].sku \notin DOMAIN stock
       \/ /\ InFlight(s, {"catalog"})
          /\ Free(<<"products", request[s].sku>>)
          /\ stock[request[s].sku] < orders[request[s].order].quantity
    /\ End(s)
    /\ UNCHANGED <<orders, stock, announced, entered, sold, upserts>>

\* The commit of an approval: stock as it was read less the quantity, order,
\* transaction and outbox row.
Confirm(s) ==
    /\ InFlight(s, {"reserved"})
    /\ LET o == request[s].order
           k == request[s].sku
       IN  /\ stock' = [stock EXCEPT ![k] = request[s].available - orders[o].quantity]
           /\ sold' = [sold EXCEPT ![k] = @ + orders[o].quantity]
           /\ orders' = [orders EXCEPT ![o].status = "CONFIRMED",
                                       ![o].transaction = "SUCCEEDED"]
           /\ announced' = [announced EXCEPT ![o] = Append(@, "ORDER_EXECUTED")]
    /\ End(s)
    /\ UNCHANGED <<entered, upserts>>

\* The commit of a refusal.
Cancel(s) ==
    /\ InFlight(s, {"ordered"})
    /\ ~request[s].approved
    /\ LET o == request[s].order
       IN  /\ orders' = [orders EXCEPT ![o].status = "CANCELLED",
                                       ![o].transaction = "FAILED"]
           /\ announced' = [announced EXCEPT ![o] = Append(@, "ORDER_FAILED")]
    /\ End(s)
    /\ UNCHANGED <<stock, entered, sold, upserts>>

-----------------------------------------------------------------------------
(* The catalog form.                                                        *)

\* upsert_supplier_product: the product row is locked, or inserted, which
\* waits for the same lock.
BeginUpsert(s, k, n) ==
    /\ s \notin DOMAIN request
    /\ upserts < MaxUpserts
    /\ upserts' = upserts + 1
    /\ Lock(s, <<"products", k>>)
    /\ Begin(s, [stage |-> "product", sku |-> k, available |-> n])
    /\ UNCHANGED <<orders, stock, announced, entered, sold>>

LockItem(s) ==
    /\ InFlight(s, {"product"})
    /\ Lock(s, <<"supplier_products", request[s].sku>>)
    /\ request' = [request EXCEPT ![s].stage = "item"]
    /\ UNCHANGED <<orders, stock, announced, entered, sold, upserts>>

\* available_quantity is overwritten, not added to.
CommitUpsert(s) ==
    /\ InFlight(s, {"item"})
    /\ LET k == request[s].sku
       IN  /\ stock' = [j \in DOMAIN stock \cup {k} |->
                          IF j = k THEN request[s].available ELSE stock[j]]
           /\ entered' = [entered EXCEPT ![k] = request[s].available]
           /\ sold' = [sold EXCEPT ![k] = 0]
    /\ End(s)
    /\ UNCHANGED <<orders, announced, upserts>>

-----------------------------------------------------------------------------
(* The environment.                                                         *)

\* The row a session waits for before it can go on.
Needs(s) == CASE InFlight(s, {"catalog"}) -> {<<"products", request[s].sku>>}
              [] InFlight(s, {"product"}) -> {<<"supplier_products", request[s].sku>>}
              [] InFlight(s, {"ordered"}) /\ request[s].approved ->
                     {<<"supplier_products", request[s].sku>>}
              [] OTHER -> {}

\* Two requests wait for each other: PostgreSQL cancels one of them.
CancelDeadlocked(s) ==
    /\ \E t \in Session \ {s} : /\ Needs(s) \cap held[t] # {}
                                /\ Needs(t) \cap held[s] # {}
    /\ End(s)
    /\ UNCHANGED <<orders, stock, announced, entered, sold, upserts>>

\* The connection or the process is lost before the commit.
Disconnect(s) ==
    /\ s \in DOMAIN request
    /\ End(s)
    /\ UNCHANGED <<orders, stock, announced, entered, sold, upserts>>

-----------------------------------------------------------------------------
Init ==
    /\ orders = [o \in {} |-> {}]
    /\ stock = [k \in {} |-> 0]
    /\ held = [s \in Session |-> {}]
    /\ request = [s \in {} |-> {}]
    /\ announced = [o \in OrderId |-> <<>>]
    /\ entered = [k \in Sku |-> 0]
    /\ sold = [k \in Sku |-> 0]
    /\ upserts = 0

RequestStep(s) ==
    \/ LockCatalog(s) \/ Reserve(s) \/ Insufficient(s) \/ Confirm(s) \/ Cancel(s)
    \/ LockItem(s) \/ CommitUpsert(s)
    \/ CancelDeadlocked(s)

Next ==
    \/ \E o \in OrderId, k \in Sku, q \in 1..MaxStock : Arrive(o, k, q)
    \/ \E s \in Session :
          \/ \E o \in OrderId, approved \in BOOLEAN : BeginDecision(s, o, approved)
          \/ \E k \in Sku, n \in 0..MaxStock : BeginUpsert(s, k, n)
          \/ RequestStep(s)
          \/ Disconnect(s)

Spec == Init /\ [][Next]_vars

\* PostgreSQL grants a free lock to a session that keeps waiting for it while
\* others come and go (strong fairness), and cancels one side of a deadlock.
FairSpec == Spec /\ \A s \in Session : SF_vars(RequestStep(s))

-----------------------------------------------------------------------------
(* Properties.                                                              *)

\* Stock is a natural number: no order is ever confirmed beyond it.
TypeOK ==
    /\ DOMAIN orders \subseteq OrderId
    /\ orders \in [DOMAIN orders -> Order]
    /\ DOMAIN stock \subseteq Sku
    /\ stock \in [DOMAIN stock -> 0..MaxStock]
    /\ held \in [Session -> SUBSET Row]
    /\ DOMAIN request \subseteq Session
    /\ request \in [DOMAIN request -> Decision \cup Upsert]
    /\ announced \in [OrderId -> Seq({"APPROVAL_REQUIRED", "ORDER_EXECUTED",
                                      "ORDER_FAILED"})]
    /\ entered \in [Sku -> 0..MaxStock]
    /\ sold \in [Sku -> Nat]
    /\ upserts \in Nat

\* No unit is sold twice or lost: what is available and what was confirmed
\* since the supplier last entered the stock add up to what was entered, also
\* when decisions and the form run at the same time.
StockAccountedFor ==
    \A k \in DOMAIN stock : stock[k] + sold[k] = entered[k]

\* Order, transaction and outbox tell one story: the buyer is told of the
\* settlement exactly once, and it is the settlement that is recorded.
SettlementAgrees ==
    \A o \in DOMAIN orders :
       <<orders[o].status, orders[o].transaction, announced[o]>> \in
          {<<"APPROVAL_PENDING", "PENDING", <<"APPROVAL_REQUIRED">>>>,
           <<"CONFIRMED", "SUCCEEDED", <<"APPROVAL_REQUIRED", "ORDER_EXECUTED">>>>,
           <<"CANCELLED", "FAILED", <<"APPROVAL_REQUIRED", "ORDER_FAILED">>>>}

\* Whatever decisions and forms run at the same time, stock adds up and never
\* goes below zero, and every order is settled at most once, with one
\* announcement that agrees.
FulfilmentConsistent == TypeOK /\ StockAccountedFor /\ SettlementAgrees

\* Every request comes to an end although decisions and the catalog form take
\* the same two row locks in opposite orders.
RequestsEnd ==
    \A s \in Session : s \in DOMAIN request ~> s \notin DOMAIN request
=============================================================================
