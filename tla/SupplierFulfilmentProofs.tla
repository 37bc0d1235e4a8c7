---------------------- MODULE SupplierFulfilmentProofs ----------------------
(***************************************************************************)
(* Proofs about SupplierFulfilment, for any number of orders, SKUs and      *)
(* sessions and any bounds.                                                 *)
(*                                                                         *)
(* FulfilmentConsistent is not inductive: a commit writes the stock its     *)
(* transaction has read, and settles an order it has found pending.  Both   *)
(* are still so at the commit because the transaction has held the two rows *)
(* ever since, and no other can have held them.                             *)
(***************************************************************************)
EXTENDS SupplierFulfilment, SequenceTheorems, TLAPS

\* No row is locked by two sessions.
LockExclusion == \A s, t \in Session : s # t => held[s] \cap held[t] = {}

Deciding == {"ordered", "catalog", "reserved"}

\* What a request in flight holds, and what it may rely on as long as it does.
Sound(s) ==
    s \in DOMAIN request =>
       /\ request[s].stage \in Deciding =>
             /\ <<"orders", request[s].order>> \in held[s]
             /\ request[s].order \in DOMAIN orders
             /\ orders[request[s].order].status = "APPROVAL_PENDING"
       /\ request[s].stage \in {"catalog", "reserved", "item"} =>
             <<"supplier_products", request[s].sku>> \in held[s]
       /\ request[s].stage \in {"catalog", "reserved"} =>
             request[s].sku \in DOMAIN stock
       /\ request[s].stage = "reserved" =>
             /\ request[s].available = stock[request[s].sku]
             /\ request[s].available >= orders[request[s].order].quantity
       /\ request[s].stage \in {"product", "item"} =>
             request[s].available \in 0..MaxStock

RequestsSound == \A s \in Session : Sound(s)

\* Nothing is announced of an order before it arrives.
NothingEarly == \A o \in OrderId \ DOMAIN orders : announced[o] = <<>>

FulfilmentInv ==
    /\ FulfilmentConsistent
    /\ LockExclusion
    /\ RequestsSound
    /\ NothingEarly

-----------------------------------------------------------------------------
(* Locks and transactions.                                                  *)

Told == {"APPROVAL_REQUIRED", "ORDER_EXECUTED", "ORDER_FAILED"}

\* A request in a stage of a decision is a decision, in any other a form.
LEMMA Stages ==
    ASSUME FulfilmentInv, NEW s \in DOMAIN request
    PROVE  /\ s \in Session
           /\ request[s].stage \in Deciding => request[s] \in Decision
           /\ request[s].stage \notin Deciding => request[s] \in Upsert
           /\ request[s].sku \in Sku
  <1>1. s \in Session /\ request[s] \in Decision \cup Upsert
    BY DEF FulfilmentInv, FulfilmentConsistent, TypeOK
  <1>2. QED
    BY <1>1 DEF Decision, Upsert, Deciding

\* A lock is given only on a row that is free, and none is taken away.
LEMMA LockFacts ==
    ASSUME FulfilmentInv, NEW s \in Session, NEW row \in Row, Lock(s, row)
    PROVE  /\ held' \in [Session -> SUBSET Row]
           /\ row \in held'[s]
           /\ \A t \in Session : held[t] \subseteq held'[t]
           /\ LockExclusion'
  <1>1. held \in [Session -> SUBSET Row]
    BY DEF FulfilmentInv, FulfilmentConsistent, TypeOK
  <1>2. /\ \A t \in Session : row \notin held[t]
        /\ held' = [held EXCEPT ![s] = held[s] \cup {row}]
    BY DEF Lock, Free
  <1>3. held' \in [Session -> SUBSET Row] /\ held'[s] = held[s] \cup {row}
    BY <1>1, <1>2
  <1>4. \A t \in Session \ {s} : held'[t] = held[t]
    BY <1>1, <1>2
  <1>5. LockExclusion'
    BY <1>2, <1>3, <1>4 DEF FulfilmentInv, LockExclusion
  <1>6. QED
    BY <1>3, <1>4, <1>5

\* The end of a transaction leaves the others and their locks as they are.
LEMMA EndFacts ==
    ASSUME FulfilmentInv, NEW s \in Session, End(s)
    PROVE  /\ held' \in [Session -> SUBSET Row]
           /\ DOMAIN request' = DOMAIN request \ {s}
           /\ request' \in [DOMAIN request' -> Decision \cup Upsert]
           /\ \A t \in DOMAIN request' : /\ t \in DOMAIN request /\ t # s
                                         /\ request'[t] = request[t]
                                         /\ held'[t] = held[t]
           /\ LockExclusion'
  <1>1. /\ held \in [Session -> SUBSET Row]
        /\ DOMAIN request \subseteq Session
        /\ request \in [DOMAIN request -> Decision \cup Upsert]
    BY DEF FulfilmentInv, FulfilmentConsistent, TypeOK
  <1>2. /\ request' = [t \in DOMAIN request \ {s} |-> request[t]]
        /\ held' = [held EXCEPT ![s] = {}]
    BY DEF End
  <1>3. held' \in [Session -> SUBSET Row] /\ held'[s] = {}
    BY <1>1, <1>2
  <1>4. \A t \in Session \ {s} : held'[t] = held[t]
    BY <1>1, <1>2
  <1>5. LockExclusion'
    BY <1>3, <1>4 DEF FulfilmentInv, LockExclusion
  <1>6. /\ DOMAIN request' = DOMAIN request \ {s}
        /\ \A t \in DOMAIN request' : request'[t] = request[t]
    BY <1>2
  <1>7. request' \in [DOMAIN request' -> Decision \cup Upsert]
    BY <1>1, <1>2
  <1>8. QED
    BY <1>1, <1>3, <1>4, <1>5, <1>6, <1>7

\* A request that starts joins those in flight.
LEMMA BeginFacts ==
    ASSUME FulfilmentInv, NEW s \in Session, NEW r \in Decision \cup Upsert, Begin(s, r)
    PROVE  /\ DOMAIN request' = DOMAIN request \cup {s}
           /\ request' \in [DOMAIN request' -> Decision \cup Upsert]
           /\ request'[s] = r
           /\ \A t \in DOMAIN request \ {s} : request'[t] = request[t]
  <1>1. request \in [DOMAIN request -> Decision \cup Upsert]
    BY DEF FulfilmentInv, FulfilmentConsistent, TypeOK
  <1>2. request' = [t \in DOMAIN request \cup {s} |-> IF t = s THEN r ELSE request[t]]
    BY DEF Begin
  <1>3. QED
    BY <1>1, <1>2

\* A request keeps what it relies on when its locks stay and neither its order
\* nor its stock is touched.
LEMMA SoundKept ==
    ASSUME FulfilmentInv, NEW t \in DOMAIN request, t \in DOMAIN request',
           request'[t] = request[t], held[t] \subseteq held'[t],
           request[t].stage \in Deciding =>
              /\ request[t].order \in DOMAIN orders'
              /\ orders'[request[t].order] = orders[request[t].order],
           request[t].stage \in {"catalog", "reserved"} =>
              /\ request[t].sku \in DOMAIN stock'
              /\ stock'[request[t].sku] = stock[request[t].sku]
    PROVE  Sound(t)'
  <1>1. t \in Session /\ Sound(t)
    BY Stages DEF FulfilmentInv, RequestsSound
  <1>2. QED
    BY <1>1 DEF Sound, Deciding

\* The end of a transaction that changes neither orders nor stock.
LEMMA RollbackInv ==
    ASSUME FulfilmentInv, NEW s \in Session, End(s),
           UNCHANGED <<orders, stock, announced, entered, sold, upserts>>
    PROVE  FulfilmentInv'
  <1>1. TypeOK'
    BY EndFacts DEF FulfilmentInv, FulfilmentConsistent, TypeOK
  <1>2. StockAccountedFor' /\ SettlementAgrees' /\ NothingEarly'
    BY DEF FulfilmentInv, FulfilmentConsistent, StockAccountedFor, SettlementAgrees, NothingEarly
  <1>3. RequestsSound'
    <2> SUFFICES ASSUME NEW t \in Session, t \in DOMAIN request' PROVE Sound(t)'
      BY DEF RequestsSound, Sound
    <2>1. t \in DOMAIN request /\ request'[t] = request[t] /\ held'[t] = held[t]
      BY EndFacts
    <2>2. Sound(t)
      BY DEF FulfilmentInv, RequestsSound
    <2>3. QED
      BY <2>1, <2>2 DEF Sound
  <1>4. QED
    BY <1>1, <1>2, <1>3, EndFacts DEF FulfilmentInv, FulfilmentConsistent

-----------------------------------------------------------------------------
(* One lemma for each step.                                                 *)

\* Initially there is nothing.
LEMMA InitInv == Init => FulfilmentInv
  <1> SUFFICES ASSUME Init PROVE FulfilmentInv
    OBVIOUS
  <1>1. /\ DOMAIN orders = {} /\ DOMAIN stock = {} /\ DOMAIN request = {}
        /\ announced = [o \in OrderId |-> <<>>]
    BY DEF Init
  <1>2. orders \in [{} -> Order] /\ stock \in [{} -> 0..MaxStock]
        /\ request \in [{} -> Decision \cup Upsert]
    BY DEF Init
  <1>3. announced \in [OrderId -> Seq(Told)]
    BY <1>1, EmptySeq
  <1>4. TypeOK
    BY <1>1, <1>2, <1>3, FulfilmentAssumption DEF Init, TypeOK, Told
  <1>5. StockAccountedFor /\ SettlementAgrees /\ NothingEarly
    BY <1>1 DEF StockAccountedFor, SettlementAgrees, NothingEarly
  <1>6. LockExclusion
    BY DEF Init, LockExclusion
  <1>7. RequestsSound
    BY <1>1 DEF RequestsSound, Sound
  <1>8. QED
    BY <1>4, <1>5, <1>6, <1>7 DEF FulfilmentInv, FulfilmentConsistent

\* An order arrives pending, and the supplier is asked once.
LEMMA ArriveInv ==
    ASSUME FulfilmentInv, NEW o \in OrderId, NEW k \in Sku, NEW q \in 1..MaxStock,
           Arrive(o, k, q)
    PROVE  FulfilmentInv'
  <1> DEFINE new == [sku |-> k, quantity |-> q, status |-> "APPROVAL_PENDING",
                     transaction |-> "PENDING"]
  <1>1. /\ o \notin DOMAIN orders
        /\ orders' = [p \in DOMAIN orders \cup {o} |-> IF p = o THEN new ELSE orders[p]]
        /\ announced' = [announced EXCEPT ![o] = Append(announced[o], "APPROVAL_REQUIRED")]
        /\ UNCHANGED <<stock, held, request, entered, sold, upserts>>
    BY DEF Arrive
  <1>2. TypeOK
    BY DEF FulfilmentInv, FulfilmentConsistent
  <1>3. /\ DOMAIN orders' = DOMAIN orders \cup {o} /\ orders'[o] = new
        /\ \A p \in DOMAIN orders : orders'[p] = orders[p]
    BY <1>1
  <1>4. new \in Order
    BY DEF Order
  <1> HIDE DEF new
  <1>5. announced[o] = <<>> /\ Append(announced[o], "APPROVAL_REQUIRED") = <<"APPROVAL_REQUIRED">>
    <2>1. announced[o] = <<>>
      BY <1>1 DEF FulfilmentInv, NothingEarly
    <2>2. Append(<<>>, "APPROVAL_REQUIRED") = <<"APPROVAL_REQUIRED">>
      OBVIOUS
    <2>3. QED
      BY <2>1, <2>2
  <1>6. /\ announced' \in [OrderId -> Seq(Told)]
        /\ announced'[o] = <<"APPROVAL_REQUIRED">>
        /\ \A p \in OrderId \ {o} : announced'[p] = announced[p]
    <2>1. <<"APPROVAL_REQUIRED">> \in Seq(Told)
      BY DEF Told
    <2>2. announced \in [OrderId -> Seq(Told)]
      BY <1>2 DEF TypeOK, Told
    <2>3. QED
      BY <1>1, <1>5, <2>1, <2>2
  <1>7. TypeOK'
    <2>1. orders' \in [DOMAIN orders' -> Order]
      BY <1>1, <1>2, <1>4 DEF TypeOK
    <2>2. QED
      BY <1>1, <1>2, <1>3, <1>6, <2>1 DEF TypeOK, Told
  <1>8. SettlementAgrees'
    <2> SUFFICES ASSUME NEW p \in DOMAIN orders'
                 PROVE  <<orders'[p].status, orders'[p].transaction, announced'[p]>> \in
          {<<"APPROVAL_PENDING", "PENDING", <<"APPROVAL_REQUIRED">>>>,
           <<"CONFIRMED", "SUCCEEDED", <<"APPROVAL_REQUIRED", "ORDER_EXECUTED">>>>,
           <<"CANCELLED", "FAILED", <<"APPROVAL_REQUIRED", "ORDER_FAILED">>>>}
      BY DEF SettlementAgrees
    <2>1. CASE p = o
      BY <1>3, <1>6, <2>1 DEF new
    <2>2. CASE p # o
      <3>1. p \in DOMAIN orders /\ p \in OrderId
        BY <1>2, <1>3, <2>2 DEF TypeOK
      <3>2. orders'[p] = orders[p] /\ announced'[p] = announced[p]
        BY <1>3, <1>6, <2>2, <3>1
      <3>3. QED
        BY <3>1, <3>2 DEF FulfilmentInv, FulfilmentConsistent, SettlementAgrees
    <2>3. QED
      BY <2>1, <2>2
  <1>9. StockAccountedFor' /\ NothingEarly' /\ LockExclusion'
    BY <1>1, <1>3, <1>6 DEF FulfilmentInv, FulfilmentConsistent, StockAccountedFor,
       NothingEarly, LockExclusion
  <1>10. RequestsSound'
    <2> SUFFICES ASSUME NEW t \in Session, t \in DOMAIN request' PROVE Sound(t)'
      BY DEF RequestsSound, Sound
    <2>1. Sound(t) /\ t \in DOMAIN request
      BY <1>1 DEF FulfilmentInv, RequestsSound
    <2>2. /\ request[t].stage \in Deciding => request[t].order \in DOMAIN orders
          /\ request[t].stage \in {"catalog", "reserved"} => request[t].sku \in DOMAIN stock
      BY <2>1 DEF Sound
    <2>3. QED
      BY <1>1, <1>3, <2>1, <2>2, SoundKept
  <1>11. QED
    BY <1>7, <1>8, <1>9, <1>10 DEF FulfilmentInv, FulfilmentConsistent

\* A request starts, or goes on, and locks a row: what the others rely on is
\* as it was.
LEMMA StepInv ==
    ASSUME FulfilmentInv, NEW s \in Session, NEW row \in Row, Lock(s, row),
           UNCHANGED <<orders, stock, announced, entered, sold>>, upserts' \in Nat,
           DOMAIN request' = DOMAIN request \cup {s},
           request' \in [DOMAIN request' -> Decision \cup Upsert],
           \A t \in DOMAIN request \ {s} : request'[t] = request[t],
           Sound(s)'
    PROVE  FulfilmentInv'
  <1>1. TypeOK'
    BY LockFacts DEF FulfilmentInv, FulfilmentConsistent, TypeOK
  <1>2. StockAccountedFor' /\ SettlementAgrees' /\ NothingEarly'
    BY DEF FulfilmentInv, FulfilmentConsistent, StockAccountedFor, SettlementAgrees, NothingEarly
  <1>3. RequestsSound'
    <2> SUFFICES ASSUME NEW t \in Session, t \in DOMAIN request', t # s PROVE Sound(t)'
      BY DEF RequestsSound, Sound
    <2>1. t \in DOMAIN request /\ request'[t] = request[t] /\ held[t] \subseteq held'[t]
      BY LockFacts
    <2>2. Sound(t)
      BY DEF FulfilmentInv, RequestsSound
    <2>3. QED
      BY <2>1, <2>2, SoundKept DEF Sound
  <1>4. QED
    BY <1>1, <1>2, <1>3, LockFacts DEF FulfilmentInv, FulfilmentConsistent

\* decide_supplier_order finds its order pending under the lock.
LEMMA BeginDecisionInv ==
    ASSUME FulfilmentInv, NEW s \in Session, NEW o \in OrderId, NEW a \in BOOLEAN,
           BeginDecision(s, o, a)
    PROVE  FulfilmentInv'
  <1> DEFINE r == [stage |-> "ordered", order |-> o, sku |-> orders[o].sku,
                   approved |-> a, available |-> 0]
  <1>1. /\ s \notin DOMAIN request /\ o \in DOMAIN orders
        /\ orders[o].status = "APPROVAL_PENDING"
        /\ Lock(s, <<"orders", o>>) /\ Begin(s, r)
        /\ UNCHANGED <<orders, stock, announced, entered, sold, upserts>>
    BY DEF BeginDecision
  <1>2. TypeOK
    BY DEF FulfilmentInv, FulfilmentConsistent
  <1>3. r \in Decision \cup Upsert
    <2>1. orders[o].sku \in Sku
      BY <1>1, <1>2 DEF TypeOK, Order
    <2>2. QED
      BY <2>1 DEF Decision
  <1>4. r.stage = "ordered" /\ r.order = o
    OBVIOUS
  <1> HIDE DEF r
  <1>5. <<"orders", o>> \in Row
    BY DEF Row
  <1>6. s \in DOMAIN request' /\ request'[s] = r
    BY <1>1, <1>3, BeginFacts
  <1>7. Sound(s)'
    BY <1>1, <1>4, <1>5, <1>6, LockFacts DEF Sound, Deciding
  <1>8. upserts' \in Nat
    BY <1>1, <1>2 DEF TypeOK
  <1>9. /\ DOMAIN request' = DOMAIN request \cup {s}
        /\ request' \in [DOMAIN request' -> Decision \cup Upsert]
        /\ \A t \in DOMAIN request \ {s} : request'[t] = request[t]
    BY <1>1, <1>3, BeginFacts
  <1>10. QED
    BY <1>1, <1>5, <1>7, <1>8, <1>9, StepInv

\* upsert_supplier_product locks the product.
LEMMA BeginUpsertInv ==
    ASSUME FulfilmentInv, NEW s \in Session, NEW k \in Sku, NEW n \in 0..MaxStock,
           BeginUpsert(s, k, n)
    PROVE  FulfilmentInv'
  <1> DEFINE r == [stage |-> "product", sku |-> k, available |-> n]
  <1>1. /\ Lock(s, <<"products", k>>) /\ Begin(s, r) /\ upserts' = upserts + 1
        /\ UNCHANGED <<orders, stock, announced, entered, sold>>
    BY DEF BeginUpsert
  <1>2. r \in Decision \cup Upsert
    BY DEF Upsert
  <1>3. r.stage = "product" /\ r.available = n
    OBVIOUS
  <1> HIDE DEF r
  <1>4. <<"products", k>> \in Row
    BY DEF Row
  <1>5. request'[s] = r
    BY <1>1, <1>2, BeginFacts
  <1>6. Sound(s)'
    BY <1>3, <1>5 DEF Sound, Deciding
  <1>7. upserts' \in Nat
    BY <1>1 DEF FulfilmentInv, FulfilmentConsistent, TypeOK
  <1>8. /\ DOMAIN request' = DOMAIN request \cup {s}
        /\ request' \in [DOMAIN request' -> Decision \cup Upsert]
        /\ \A t \in DOMAIN request \ {s} : request'[t] = request[t]
    BY <1>1, <1>2, BeginFacts
  <1>9. QED
    BY <1>1, <1>4, <1>6, <1>7, <1>8, StepInv

\* A decision goes on to the catalog row of an item that is in the catalog.
LEMMA LockCatalogInv ==
    ASSUME FulfilmentInv, NEW s \in Session, LockCatalog(s)
    PROVE  FulfilmentInv'
  <1> DEFINE row == <<"supplier_products", request[s].sku>>
  <1>1. /\ s \in DOMAIN request /\ request[s].stage = "ordered"
        /\ request[s].sku \in DOMAIN stock
        /\ Lock(s, row)
        /\ request' = [request EXCEPT ![s].stage = "catalog"]
        /\ UNCHANGED <<orders, stock, announced, entered, sold, upserts>>
    BY DEF LockCatalog, InFlight
  <1>2. /\ request \in [DOMAIN request -> Decision \cup Upsert] /\ upserts \in Nat
    BY DEF FulfilmentInv, FulfilmentConsistent, TypeOK
  <1>3. request[s] \in Decision /\ request[s].sku \in Sku /\ Sound(s)
    BY <1>1, Stages DEF Deciding, FulfilmentInv, RequestsSound
  <1>4. row \in Row
    BY <1>3 DEF Row
  <1> DEFINE r == [request[s] EXCEPT !.stage = "catalog"]
  <1>5. /\ r \in Decision /\ r.stage = "catalog"
        /\ r.order = request[s].order /\ r.sku = request[s].sku
    BY <1>3 DEF Decision
  <1>6. request' = [request EXCEPT ![s] = r]
    BY <1>1
  <1> HIDE DEF r
  <1>7. /\ request'[s] = r /\ DOMAIN request' = DOMAIN request \cup {s}
        /\ request' \in [DOMAIN request' -> Decision \cup Upsert]
        /\ \A t \in DOMAIN request \ {s} : request'[t] = request[t]
    BY <1>1, <1>2, <1>5, <1>6
  <1>8. row \in held'[s] /\ held[s] \subseteq held'[s]
    BY <1>1, <1>4, LockFacts
  <1>9. Sound(s)'
    BY <1>1, <1>3, <1>5, <1>7, <1>8 DEF Sound, Deciding
  <1>10. QED
    BY <1>1, <1>2, <1>4, <1>7, <1>9, StepInv

\* The stock it reads under both locks is the stock.
LEMMA ReserveInv ==
    ASSUME FulfilmentInv, NEW s \in Session, Reserve(s)
    PROVE  FulfilmentInv'
  <1> DEFINE row == <<"products", request[s].sku>>
  <1> DEFINE n == stock[request[s].sku]
  <1>1. /\ s \in DOMAIN request /\ request[s].stage = "catalog"
        /\ Lock(s, row)
        /\ n >= orders[request[s].order].quantity
        /\ request' = [request EXCEPT ![s].stage = "reserved", ![s].available = n]
        /\ UNCHANGED <<orders, stock, announced, entered, sold, upserts>>
    BY DEF Reserve, InFlight
  <1>2. /\ request \in [DOMAIN request -> Decision \cup Upsert] /\ upserts \in Nat
        /\ stock \in [DOMAIN stock -> 0..MaxStock]
    BY DEF FulfilmentInv, FulfilmentConsistent, TypeOK
  <1>3. request[s] \in Decision /\ request[s].sku \in Sku /\ Sound(s)
    BY <1>1, Stages DEF Deciding, FulfilmentInv, RequestsSound
  <1>4. row \in Row /\ n \in Nat
    <2>1. request[s].sku \in DOMAIN stock
      BY <1>1, <1>3 DEF Sound
    <2>2. QED
      BY <1>2, <1>3, <2>1, FulfilmentAssumption DEF Row
  <1> DEFINE r == [request[s] EXCEPT !.stage = "reserved", !.available = n]
  <1>5. /\ r \in Decision /\ r.stage = "reserved" /\ r.available = n
        /\ r.order = request[s].order /\ r.sku = request[s].sku
    BY <1>3, <1>4 DEF Decision
  <1>6. request' = [request EXCEPT ![s] = r]
    BY <1>1
  <1> HIDE DEF r
  <1>7. /\ request'[s] = r /\ DOMAIN request' = DOMAIN request \cup {s}
        /\ request' \in [DOMAIN request' -> Decision \cup Upsert]
        /\ \A t \in DOMAIN request \ {s} : request'[t] = request[t]
    BY <1>1, <1>2, <1>5, <1>6
  <1>8. held[s] \subseteq held'[s]
    BY <1>1, <1>4, LockFacts
  <1>9. Sound(s)'
    BY <1>1, <1>3, <1>5, <1>7, <1>8 DEF Sound, Deciding
  <1>10. QED
    BY <1>1, <1>2, <1>4, <1>7, <1>9, StepInv

\* The form goes on to the catalog row.
LEMMA LockItemInv ==
    ASSUME FulfilmentInv, NEW s \in Session, LockItem(s)
    PROVE  FulfilmentInv'
  <1> DEFINE row == <<"supplier_products", request[s].sku>>
  <1>1. /\ s \in DOMAIN request /\ request[s].stage = "product"
        /\ Lock(s, row)
        /\ request' = [request EXCEPT ![s].stage = "item"]
        /\ UNCHANGED <<orders, stock, announced, entered, sold, upserts>>
    BY DEF LockItem, InFlight
  <1>2. /\ request \in [DOMAIN request -> Decision \cup Upsert] /\ upserts \in Nat
    BY DEF FulfilmentInv, FulfilmentConsistent, TypeOK
  <1>3. request[s] \in Upsert /\ request[s].sku \in Sku /\ Sound(s)
    BY <1>1, Stages DEF Deciding, FulfilmentInv, RequestsSound
  <1>4. row \in Row
    BY <1>3 DEF Row
  <1> DEFINE r == [request[s] EXCEPT !.stage = "item"]
  <1>5. /\ r \in Upsert /\ r.stage = "item"
        /\ r.available = request[s].available /\ r.sku = request[s].sku
    BY <1>3 DEF Upsert
  <1>6. request' = [request EXCEPT ![s] = r]
    BY <1>1
  <1> HIDE DEF r
  <1>7. /\ request'[s] = r /\ DOMAIN request' = DOMAIN request \cup {s}
        /\ request' \in [DOMAIN request' -> Decision \cup Upsert]
        /\ \A t \in DOMAIN request \ {s} : request'[t] = request[t]
    BY <1>1, <1>2, <1>5, <1>6
  <1>8. row \in held'[s]
    BY <1>1, <1>4, LockFacts
  <1>9. Sound(s)'
    BY <1>1, <1>3, <1>5, <1>7, <1>8 DEF Sound, Deciding
  <1>10. QED
    BY <1>1, <1>2, <1>4, <1>7, <1>9, StepInv

\* Refusals for lack of stock, deadlocks and lost connections roll back.
LEMMA GiveUpInv ==
    ASSUME FulfilmentInv, NEW s \in Session,
           Insufficient(s) \/ CancelDeadlocked(s) \/ Disconnect(s)
    PROVE  FulfilmentInv'
  BY RollbackInv DEF Insufficient, CancelDeadlocked, Disconnect

\* No other request decides the order of a decision, or works on its stock.
LEMMA NobodyElse ==
    ASSUME FulfilmentInv, NEW s \in DOMAIN request, NEW t \in DOMAIN request, t # s
    PROVE  /\ request[s].stage \in Deciding /\ request[t].stage \in Deciding
                 => request[t].order # request[s].order
           /\ /\ request[s].stage \in {"catalog", "reserved", "item"}
              /\ request[t].stage \in {"catalog", "reserved", "item"}
              => request[t].sku # request[s].sku
  <1>1. s \in Session /\ t \in Session /\ Sound(s) /\ Sound(t)
    BY Stages DEF FulfilmentInv, RequestsSound
  <1>2. held[s] \cap held[t] = {}
    BY <1>1 DEF FulfilmentInv, LockExclusion
  <1>3. QED
    BY <1>1, <1>2 DEF Sound

\* A second announcement follows the first.
LEMMA SecondAppended == \A a, b : Append(<<a>>, b) = <<a, b>>
  <1> SUFFICES ASSUME NEW a, NEW b PROVE Append(<<a>>, b) = <<a, b>>
    OBVIOUS
  <1>1. <<a>> \in Seq({a, b}) /\ <<a, b>> \in Seq({a, b}) /\ Len(<<a>>) = 1 /\ Len(<<a, b>>) = 2
    OBVIOUS
  <1> DEFINE one == <<a>>  two == <<a, b>>
  <1>2. one[1] = a /\ two[1] = a /\ two[2] = b
    OBVIOUS
  <1> HIDE DEF one, two
  <1>3. /\ Append(one, b) \in Seq({a, b})
        /\ Len(Append(one, b)) = 2
        /\ Append(one, b)[1] = a /\ Append(one, b)[2] = b
    <2>1. one \in Seq({a, b}) /\ Len(one) = 1
      BY <1>1 DEF one
    <2>2. /\ Append(one, b) \in Seq({a, b}) /\ Len(Append(one, b)) = Len(one) + 1
          /\ \A i \in 1 .. Len(one) : Append(one, b)[i] = one[i]
          /\ Append(one, b)[Len(one) + 1] = b
      <3> DEFINE S == {a, b}
      <3>1. one \in Seq(S) /\ b \in S
        BY <2>1
      <3> HIDE DEF S
      <3>2. /\ Append(one, b) \in Seq(S) /\ Len(Append(one, b)) = Len(one) + 1
            /\ \A i \in 1 .. Len(one) : Append(one, b)[i] = one[i]
            /\ Append(one, b)[Len(one) + 1] = b
        BY <3>1, AppendProperties
      <3>3. QED
        BY <3>2 DEF S
    <2>3. QED
      BY <1>2, <2>1, <2>2
  <1>4. Append(one, b) = two
    <2>1. two \in Seq({a, b}) /\ Len(two) = 2
      BY <1>1 DEF two
    <2>2. QED
      BY <1>2, <1>3, <2>1, SeqEqual
  <1>5. QED
    BY <1>4 DEF one, two

\* What is announced of an order that is still pending.
LEMMA PendingFacts ==
    ASSUME FulfilmentInv, NEW o \in DOMAIN orders, orders[o].status = "APPROVAL_PENDING"
    PROVE  /\ o \in OrderId
           /\ announced[o] = <<"APPROVAL_REQUIRED">>
           /\ orders[o] \in Order
           /\ Append(announced[o], "ORDER_EXECUTED") = <<"APPROVAL_REQUIRED", "ORDER_EXECUTED">>
           /\ Append(announced[o], "ORDER_FAILED") = <<"APPROVAL_REQUIRED", "ORDER_FAILED">>
  <1>1. o \in OrderId /\ orders[o] \in Order
    BY DEF FulfilmentInv, FulfilmentConsistent, TypeOK
  <1>2. announced[o] = <<"APPROVAL_REQUIRED">>
    <2>1. <<orders[o].status, orders[o].transaction, announced[o]>> \in
          {<<"APPROVAL_PENDING", "PENDING", <<"APPROVAL_REQUIRED">>>>,
           <<"CONFIRMED", "SUCCEEDED", <<"APPROVAL_REQUIRED", "ORDER_EXECUTED">>>>,
           <<"CANCELLED", "FAILED", <<"APPROVAL_REQUIRED", "ORDER_FAILED">>>>}
      BY DEF FulfilmentInv, FulfilmentConsistent, SettlementAgrees
    <2>2. QED
      BY <2>1
  <1>3. /\ Append(<<"APPROVAL_REQUIRED">>, "ORDER_EXECUTED")
             = <<"APPROVAL_REQUIRED", "ORDER_EXECUTED">>
        /\ Append(<<"APPROVAL_REQUIRED">>, "ORDER_FAILED")
             = <<"APPROVAL_REQUIRED", "ORDER_FAILED">>
    BY SecondAppended
  <1>4. QED
    BY <1>1, <1>2, <1>3

\* A pending order is settled, and its settlement announced.
LEMMA SettleFacts ==
    ASSUME FulfilmentInv, NEW o \in DOMAIN orders, orders[o].status = "APPROVAL_PENDING",
           NEW status, NEW transaction, NEW event,
           \/ status = "CONFIRMED" /\ transaction = "SUCCEEDED" /\ event = "ORDER_EXECUTED"
           \/ status = "CANCELLED" /\ transaction = "FAILED" /\ event = "ORDER_FAILED",
           orders' = [orders EXCEPT ![o].status = status, ![o].transaction = transaction],
           announced' = [announced EXCEPT ![o] = Append(announced[o], event)]
    PROVE  /\ DOMAIN orders' = DOMAIN orders
           /\ orders' \in [DOMAIN orders' -> Order]
           /\ announced' \in [OrderId -> Seq(Told)]
           /\ \A p \in DOMAIN orders \ {o} : orders'[p] = orders[p]
           /\ SettlementAgrees' /\ NothingEarly'
  <1>1. /\ DOMAIN orders \subseteq OrderId /\ orders \in [DOMAIN orders -> Order]
        /\ announced \in [OrderId -> Seq(Told)]
    BY DEF FulfilmentInv, FulfilmentConsistent, TypeOK, Told
  <1> DEFINE new == [orders[o] EXCEPT !.status = status, !.transaction = transaction]
  <1> DEFINE told == Append(announced[o], event)
  <1>2. new \in Order /\ new.status = status /\ new.transaction = transaction
    BY PendingFacts DEF Order
  <1>3. orders' = [orders EXCEPT ![o] = new]
    OBVIOUS
  <1> HIDE DEF new
  <1>4. /\ DOMAIN orders' = DOMAIN orders /\ orders'[o] = new
        /\ orders' \in [DOMAIN orders' -> Order]
        /\ \A p \in DOMAIN orders \ {o} : orders'[p] = orders[p]
    BY <1>1, <1>2, <1>3
  <1>5. /\ told \in Seq(Told)
        /\ <<status, transaction, told>> \in
          {<<"CONFIRMED", "SUCCEEDED", <<"APPROVAL_REQUIRED", "ORDER_EXECUTED">>>>,
           <<"CANCELLED", "FAILED", <<"APPROVAL_REQUIRED", "ORDER_FAILED">>>>}
    <2>1. <<"APPROVAL_REQUIRED", "ORDER_EXECUTED">> \in Seq(Told)
      BY DEF Told
    <2>2. <<"APPROVAL_REQUIRED", "ORDER_FAILED">> \in Seq(Told)
      BY DEF Told
    <2>3. QED
      BY <2>1, <2>2, PendingFacts
  <1>6. announced' = [announced EXCEPT ![o] = told]
    OBVIOUS
  <1> HIDE DEF told
  <1>7. /\ announced' \in [OrderId -> Seq(Told)] /\ announced'[o] = told
        /\ \A p \in OrderId \ {o} : announced'[p] = announced[p]
    BY <1>1, <1>5, <1>6
  <1>8. SettlementAgrees'
    <2> SUFFICES ASSUME NEW p \in DOMAIN orders
                 PROVE  <<orders'[p].status, orders'[p].transaction, announced'[p]>> \in
          {<<"APPROVAL_PENDING", "PENDING", <<"APPROVAL_REQUIRED">>>>,
           <<"CONFIRMED", "SUCCEEDED", <<"APPROVAL_REQUIRED", "ORDER_EXECUTED">>>>,
           <<"CANCELLED", "FAILED", <<"APPROVAL_REQUIRED", "ORDER_FAILED">>>>}
      BY <1>4 DEF SettlementAgrees
    <2>1. CASE p = o
      BY <1>2, <1>4, <1>5, <1>7, <2>1
    <2>2. CASE p # o
      <3>1. orders'[p] = orders[p] /\ announced'[p] = announced[p]
        BY <1>1, <1>4, <1>7, <2>2
      <3>2. QED
        BY <3>1 DEF FulfilmentInv, FulfilmentConsistent, SettlementAgrees
    <2>3. QED
      BY <2>1, <2>2
  <1>9. NothingEarly'
    BY <1>1, <1>4, <1>7 DEF FulfilmentInv, NothingEarly
  <1>10. QED
    BY <1>4, <1>7, <1>8, <1>9

\* An approval writes the stock it has read less the quantity, which is the
\* stock of now, and enough.
LEMMA ConfirmInv ==
    ASSUME FulfilmentInv, NEW s \in Session, Confirm(s)
    PROVE  FulfilmentInv'
  <1> DEFINE o == request[s].order  k == request[s].sku
             q == orders[o].quantity  n == request[s].available
  <1>1. /\ s \in DOMAIN request /\ request[s].stage = "reserved"
        /\ stock' = [stock EXCEPT ![k] = n - q]
        /\ sold' = [sold EXCEPT ![k] = sold[k] + q]
        /\ orders' = [orders EXCEPT ![o].status = "CONFIRMED", ![o].transaction = "SUCCEEDED"]
        /\ announced' = [announced EXCEPT ![o] = Append(announced[o], "ORDER_EXECUTED")]
        /\ End(s) /\ UNCHANGED <<entered, upserts>>
    BY DEF Confirm, InFlight
  <1>2. Sound(s) /\ TypeOK
    BY DEF FulfilmentInv, FulfilmentConsistent, RequestsSound
  <1>3. /\ o \in DOMAIN orders /\ orders[o].status = "APPROVAL_PENDING"
        /\ k \in DOMAIN stock /\ n = stock[k] /\ n >= q
    BY <1>1, <1>2 DEF Sound, Deciding
  <1>4. /\ stock[k] \in 0..MaxStock /\ sold[k] \in Nat /\ k \in Sku /\ q \in 1..MaxStock
    BY <1>2, <1>3 DEF TypeOK, Order
  <1>5. /\ DOMAIN orders' = DOMAIN orders
        /\ orders' \in [DOMAIN orders' -> Order]
        /\ announced' \in [OrderId -> Seq(Told)]
        /\ \A p \in DOMAIN orders \ {o} : orders'[p] = orders[p]
        /\ SettlementAgrees' /\ NothingEarly'
    BY <1>1, <1>3, SettleFacts
  <1> HIDE DEF o, k, q, n
  <1>6. n - q \in 0..MaxStock /\ sold[k] + q \in Nat
    BY <1>3, <1>4, FulfilmentAssumption
  <1>7. /\ DOMAIN stock' = DOMAIN stock /\ stock' \in [DOMAIN stock -> 0..MaxStock]
        /\ stock'[k] = n - q /\ \A j \in DOMAIN stock \ {k} : stock'[j] = stock[j]
    BY <1>1, <1>2, <1>3, <1>6 DEF TypeOK
  <1>8. /\ sold' \in [Sku -> Nat] /\ sold'[k] = sold[k] + q
        /\ \A j \in Sku \ {k} : sold'[j] = sold[j]
    BY <1>1, <1>2, <1>4, <1>6 DEF TypeOK
  <1>9. TypeOK'
    BY <1>1, <1>2, <1>5, <1>7, <1>8, EndFacts DEF TypeOK, Told
  <1>10. StockAccountedFor'
    <2> SUFFICES ASSUME NEW j \in DOMAIN stock PROVE stock'[j] + sold'[j] = entered[j]
      BY <1>1, <1>7 DEF StockAccountedFor
    <2>1. stock[j] + sold[j] = entered[j] /\ j \in Sku
      BY <1>2 DEF FulfilmentInv, FulfilmentConsistent, StockAccountedFor, TypeOK
    <2>2. CASE j = k
      BY <1>3, <1>4, <1>7, <1>8, <2>1, <2>2
    <2>3. CASE j # k
      BY <1>7, <1>8, <2>1, <2>3
    <2>4. QED
      BY <2>2, <2>3
  <1>11. RequestsSound'
    <2> SUFFICES ASSUME NEW t \in Session, t \in DOMAIN request' PROVE Sound(t)'
      BY DEF RequestsSound, Sound
    <2>1. t \in DOMAIN request /\ t # s /\ request'[t] = request[t] /\ held'[t] = held[t]
      BY <1>1, EndFacts
    <2>2. Sound(t)
      BY DEF FulfilmentInv, RequestsSound
    <2>3. /\ request[t].stage \in Deciding => request[t].order \in DOMAIN orders \ {o}
          /\ request[t].stage \in {"catalog", "reserved"} => request[t].sku \in DOMAIN stock \ {k}
      BY <1>1, <2>1, <2>2, NobodyElse DEF Sound, Deciding, o, k
    <2>4. QED
      BY <1>5, <1>7, <2>1, <2>3, SoundKept
  <1>12. QED
    BY <1>1, <1>5, <1>9, <1>10, <1>11, EndFacts DEF FulfilmentInv, FulfilmentConsistent

\* A refusal settles the order and leaves the stock.
LEMMA CancelInv ==
    ASSUME FulfilmentInv, NEW s \in Session, Cancel(s)
    PROVE  FulfilmentInv'
  <1> DEFINE o == request[s].order
  <1>1. /\ s \in DOMAIN request /\ request[s].stage = "ordered"
        /\ orders' = [orders EXCEPT ![o].status = "CANCELLED", ![o].transaction = "FAILED"]
        /\ announced' = [announced EXCEPT ![o] = Append(announced[o], "ORDER_FAILED")]
        /\ End(s) /\ UNCHANGED <<stock, entered, sold, upserts>>
    BY DEF Cancel, InFlight
  <1>2. Sound(s) /\ TypeOK
    BY DEF FulfilmentInv, FulfilmentConsistent, RequestsSound
  <1>3. o \in DOMAIN orders /\ orders[o].status = "APPROVAL_PENDING"
    BY <1>1, <1>2 DEF Sound, Deciding
  <1>4. /\ DOMAIN orders' = DOMAIN orders
        /\ orders' \in [DOMAIN orders' -> Order]
        /\ announced' \in [OrderId -> Seq(Told)]
        /\ \A p \in DOMAIN orders \ {o} : orders'[p] = orders[p]
        /\ SettlementAgrees' /\ NothingEarly'
    BY <1>1, <1>3, SettleFacts
  <1> HIDE DEF o
  <1>5. TypeOK'
    BY <1>1, <1>2, <1>4, EndFacts DEF TypeOK, Told
  <1>6. StockAccountedFor'
    BY <1>1 DEF FulfilmentInv, FulfilmentConsistent, StockAccountedFor
  <1>7. RequestsSound'
    <2> SUFFICES ASSUME NEW t \in Session, t \in DOMAIN request' PROVE Sound(t)'
      BY DEF RequestsSound, Sound
    <2>1. t \in DOMAIN request /\ t # s /\ request'[t] = request[t] /\ held'[t] = held[t]
      BY <1>1, EndFacts
    <2>2. Sound(t)
      BY DEF FulfilmentInv, RequestsSound
    <2>3. /\ request[t].stage \in Deciding => request[t].order \in DOMAIN orders \ {o}
          /\ request[t].stage \in {"catalog", "reserved"} => request[t].sku \in DOMAIN stock
      BY <1>1, <2>1, <2>2, NobodyElse DEF Sound, Deciding, o
    <2>4. QED
      BY <1>1, <1>4, <2>1, <2>3, SoundKept
  <1>8. QED
    BY <1>1, <1>4, <1>5, <1>6, <1>7, EndFacts DEF FulfilmentInv, FulfilmentConsistent

\* The form overwrites the stock of a SKU nobody else has locked.
LEMMA CommitUpsertInv ==
    ASSUME FulfilmentInv, NEW s \in Session, CommitUpsert(s)
    PROVE  FulfilmentInv'
  <1> DEFINE k == request[s].sku  n == request[s].available
  <1>1. /\ s \in DOMAIN request /\ request[s].stage = "item"
        /\ stock' = [j \in DOMAIN stock \cup {k} |-> IF j = k THEN n ELSE stock[j]]
        /\ entered' = [entered EXCEPT ![k] = n]
        /\ sold' = [sold EXCEPT ![k] = 0]
        /\ End(s) /\ UNCHANGED <<orders, announced, upserts>>
    BY DEF CommitUpsert, InFlight
  <1>2. Sound(s) /\ TypeOK /\ k \in Sku
    BY <1>1, Stages DEF FulfilmentInv, FulfilmentConsistent, RequestsSound
  <1>3. n \in 0..MaxStock
    BY <1>1, <1>2 DEF Sound
  <1> HIDE DEF k, n
  <1>4. /\ DOMAIN stock' = DOMAIN stock \cup {k} /\ stock' \in [DOMAIN stock' -> 0..MaxStock]
        /\ stock'[k] = n /\ \A j \in DOMAIN stock \ {k} : stock'[j] = stock[j]
    BY <1>1, <1>2, <1>3 DEF TypeOK
  <1>5. /\ sold' \in [Sku -> Nat] /\ sold'[k] = 0 /\ \A j \in Sku \ {k} : sold'[j] = sold[j]
        /\ entered' \in [Sku -> 0..MaxStock] /\ entered'[k] = n
        /\ \A j \in Sku \ {k} : entered'[j] = entered[j]
    BY <1>1, <1>2, <1>3 DEF TypeOK
  <1>6. TypeOK'
    BY <1>1, <1>2, <1>4, <1>5, EndFacts DEF TypeOK
  <1>7. StockAccountedFor'
    <2> SUFFICES ASSUME NEW j \in DOMAIN stock' PROVE stock'[j] + sold'[j] = entered'[j]
      BY DEF StockAccountedFor
    <2>1. CASE j = k
      BY <1>3, <1>4, <1>5, <2>1
    <2>2. CASE j # k
      <3>1. j \in DOMAIN stock /\ j \in Sku
        BY <1>2, <1>4, <2>2 DEF TypeOK
      <3>2. stock[j] + sold[j] = entered[j]
        BY <3>1 DEF FulfilmentInv, FulfilmentConsistent, StockAccountedFor
      <3>3. QED
        BY <1>4, <1>5, <2>2, <3>1, <3>2
    <2>3. QED
      BY <2>1, <2>2
  <1>8. SettlementAgrees' /\ NothingEarly'
    BY <1>1 DEF FulfilmentInv, FulfilmentConsistent, SettlementAgrees, NothingEarly
  <1>9. RequestsSound'
    <2> SUFFICES ASSUME NEW t \in Session, t \in DOMAIN request' PROVE Sound(t)'
      BY DEF RequestsSound, Sound
    <2>1. t \in DOMAIN request /\ t # s /\ request'[t] = request[t] /\ held'[t] = held[t]
      BY <1>1, EndFacts
    <2>2. Sound(t)
      BY DEF FulfilmentInv, RequestsSound
    <2>3. /\ request[t].stage \in Deciding => request[t].order \in DOMAIN orders
          /\ request[t].stage \in {"catalog", "reserved"} => request[t].sku \in DOMAIN stock \ {k}
      BY <1>1, <2>1, <2>2, NobodyElse DEF Sound, Deciding, k
    <2>4. QED
      BY <1>1, <1>4, <2>1, <2>3, SoundKept
  <1>10. QED
    BY <1>1, <1>6, <1>7, <1>8, <1>9, EndFacts DEF FulfilmentInv, FulfilmentConsistent

\* A step that changes nothing.
LEMMA StutterInv == ASSUME FulfilmentInv, UNCHANGED vars PROVE FulfilmentInv'
  <1> USE DEF vars, FulfilmentInv, FulfilmentConsistent
  <1>1. TypeOK'
    BY DEF TypeOK
  <1>2. StockAccountedFor' /\ SettlementAgrees' /\ LockExclusion' /\ NothingEarly'
    BY DEF StockAccountedFor, SettlementAgrees, LockExclusion, NothingEarly
  <1>3. RequestsSound'
    BY DEF RequestsSound, Sound
  <1>4. QED
    BY <1>1, <1>2, <1>3

-----------------------------------------------------------------------------
\* Every request in flight holds the rows it relies on, whatever the others do.
THEOREM FulfilmentInvariant == Spec => []FulfilmentInv
  <1>1. FulfilmentInv /\ [Next]_vars => FulfilmentInv'
    <2> SUFFICES ASSUME FulfilmentInv, [Next]_vars PROVE FulfilmentInv'
      OBVIOUS
    <2>1. ASSUME NEW s \in Session, RequestStep(s) \/ Disconnect(s) PROVE FulfilmentInv'
      BY <2>1, LockCatalogInv, ReserveInv, GiveUpInv, ConfirmInv, CancelInv, LockItemInv,
         CommitUpsertInv DEF RequestStep
    <2>2. QED
      BY <2>1, ArriveInv, BeginDecisionInv, BeginUpsertInv, StutterInv DEF Next
  <1>2. QED
    BY <1>1, InitInv, PTL DEF Spec

\* Concurrent decisions and the catalog form never oversell, lose a unit, or
\* settle an order twice (decide_supplier_order, upsert_supplier_product).
THEOREM SuppliersNeverOversell == Spec => []FulfilmentConsistent
  <1>1. FulfilmentInv => FulfilmentConsistent
    BY DEF FulfilmentInv
  <1>2. QED
    BY <1>1, FulfilmentInvariant, PTL
=============================================================================
