------------------------------ MODULE Inventory ------------------------------
(***************************************************************************)
(* The merchant's stock and what refills it: inventory events, confirmed    *)
(* receipts (application/services/inventory_service.py,                     *)
(* infrastructure/db/repositories/inventory.py, api/v1/inventory.py) and    *)
(* the scan that starts a purchase for every product that runs low          *)
(* (api/v1/agents.py).                                                      *)
(*                                                                         *)
(* A request is a transaction, which takes its locks one after the other    *)
(* and holds them until it commits; a confirmation books a receipt line by  *)
(* line.  Receipts are what the user confirms after reading them from a     *)
(* photograph; reading one changes nothing.                                 *)
(***************************************************************************)
EXTENDS Integers, Sequences, FiniteSets

CONSTANTS
    Session,       \* database sessions, one per request in flight
    Sku, Barcode,  \* normalised identifiers
    Receipt,       \* receipts and manual batches, each with its idempotency key
    Lines,         \* what each receipt says, line by line
    EventKey,      \* idempotency keys of single inventory events
    Stocked,       \* products the store already has, with nothing on hand
    ReorderPoint,
    MaxStock, MaxProposals, MaxScans   \* bounds of the model

NoBarcode == "none"
Line == [sku : Sku, barcode : Barcode \cup {NoBarcode}, quantity : Nat \ {0}]

ASSUME InventoryAssumption ==
    /\ DOMAIN Lines = Receipt /\ \A r \in Receipt : Lines[r] \in Seq(Line)
    /\ NoBarcode \notin Barcode /\ Stocked \subseteq Sku
    /\ Receipt \cap EventKey = {}
    /\ {ReorderPoint, MaxStock, MaxProposals, MaxScans} \subseteq Nat

VARIABLES
    products,   \* barcode of each product, by SKU
    stock,      \* inventory.quantity_on_hand, by SKU
    ledger,     \* inventory_events
    alerts,     \* keys of the events that left a notification
    answers,    \* receipts whose answer is kept for replays
    sales,      \* products with a demand history
    proposals,  \* approvals that scans asked for, in the order of creation
    cards,      \* channel_messages: the cards sent for proposals
    scans,      \* how many scans began
    tx,         \* what each request has read, locked and staged
    phantom,    \* history: a product appeared behind a confirmation's back
    crowded     \* history: a scan looked at one of several pending rows, or
                \* another scan ran

inventoryVars == <<products, stock, ledger, alerts, answers, sales, proposals, cards, scans,
                   tx, phantom, crowded>>
stockVars == <<products, stock, ledger, alerts, answers, phantom>>
scanVars == <<sales, proposals, cards, scans, crowded>>

Idle == [pc |-> "idle"]
Event(key, line, sku, delta, after) ==
    [key |-> <<key, line>>, sku |-> sku, delta |-> delta, after |-> after]

\* f with the entries of g, or one more, added or replaced
Overlay(f, g) == [x \in DOMAIN f \cup DOMAIN g |-> IF x \in DOMAIN g THEN g[x] ELSE f[x]]
Put(f, k, v) == [x \in DOMAIN f \cup {k} |-> IF x = k THEN v ELSE f[x]]

-----------------------------------------------------------------------------
(* Row locks.                                                               *)

LockedProducts(w) == IF tx[w].pc = "booking" THEN tx[w].rows \cup tx[w].created ELSE {}
LockedStock(w) ==
    CASE tx[w].pc = "booking" -> DOMAIN tx[w].stock
      [] tx[w].pc = "event" -> {tx[w].event.sku}
      [] OTHER -> {}

ProductsFree(w, skus) == \A v \in Session \ {w} : LockedProducts(v) \cap skus = {}

\* Mutant of StockFree: apply_event reads without FOR UPDATE.
StockFreeUnlocked(w, skus) == TRUE

StockFree(w, skus) == \A v \in Session \ {w} : LockedStock(v) \cap skus = {}

-----------------------------------------------------------------------------
(* POST /inventory/events                                                   *)

\* record_event up to the commit; the event's key is unique.
ReadEvent(w, sku, delta, key) ==
    /\ tx[w] = Idle
    /\ sku \in DOMAIN stock /\ StockFree(w, {sku})
    /\ stock[sku] + delta \in 0..MaxStock
    /\ \A e \in ledger : e.key # <<key, 0>>
    /\ \A v \in Session : tx[v].pc = "event" => tx[v].event.key # <<key, 0>>
    /\ tx' = [tx EXCEPT ![w] = [pc |-> "event",
                 event |-> Event(key, 0, sku, delta, stock[sku] + delta)]]
    /\ UNCHANGED <<stockVars, scanVars>>

Low(quantity) == quantity <= ReorderPoint

CommitEvent(w) ==
    /\ tx[w].pc = "event"
    /\ LET e == tx[w].event IN
       /\ stock' = [stock EXCEPT ![e.sku] = e.after]
       /\ ledger' = ledger \cup {e}
       /\ alerts' = alerts \cup (IF Low(e.after) THEN {e.key} ELSE {})
    /\ tx' = [tx EXCEPT ![w] = Idle]
    /\ UNCHANGED <<products, answers, phantom, scanVars>>

-----------------------------------------------------------------------------
(* POST /inventory/scan-receipt/confirm and /inventory/manual               *)

\* Mutant of Begin: the row of the key is not flushed before the work.
BeginUnreserved(w, r) ==
    /\ tx[w] = Idle /\ r \notin answers
    /\ tx' = [tx EXCEPT ![w] = [pc |-> "reserved", receipt |-> r]]
    /\ UNCHANGED <<stockVars, scanVars>>

\* _begin_confirmation: no row for the key yet.  The new row is flushed, so a
\* second request waits for the first and then fails; one that comes after
\* the commit gets the kept answer.
Begin(w, r) ==
    /\ tx[w] = Idle /\ r \notin answers
    /\ \A v \in Session : tx[v].pc \in {"reserved", "listed", "booking"} => tx[v].receipt # r
    /\ tx' = [tx EXCEPT ![w] = [pc |-> "reserved", receipt |-> r]]
    /\ UNCHANGED <<stockVars, scanVars>>

\* merchant_products with FOR UPDATE starts: the rows it will return are those
\* that are committed now.
ListProducts(w) ==
    /\ tx[w].pc = "reserved"
    /\ tx' = [tx EXCEPT ![w] = [pc |-> "listed", receipt |-> tx[w].receipt,
                                rows |-> DOMAIN products]]
    /\ UNCHANGED <<stockVars, scanVars>>

\* The locks are granted: the listed rows are read as they are now, but rows
\* inserted since the listing are not among them.  The indexes by SKU and by
\* barcode are made of them.
LockProducts(w) ==
    /\ tx[w].pc = "listed" /\ ProductsFree(w, tx[w].rows)
    /\ tx' = [tx EXCEPT ![w] =
                 [pc |-> "booking", receipt |-> tx[w].receipt, rows |-> tx[w].rows, line |-> 1,
                  created |-> {}, index |-> [s \in tx[w].rows |-> products[s]],
                  barcodes |-> <<>>, stock |-> <<>>, events |-> {}]]
    /\ UNCHANGED <<stockVars, scanVars>>

BySku(index, line) == {line.sku} \cap DOMAIN index

\* Mutant of ByBarcode: products are matched by SKU only.
ByBarcodeNever(index, line) == {}

ByBarcode(index, line) ==
    {s \in DOMAIN index : line.barcode # NoBarcode /\ index[s] = line.barcode}

Matches(index, line) == BySku(index, line) \cup ByBarcode(index, line)

\* At most one product fits the line.
Identifies(index, line) == \A s, u \in Matches(index, line) : s = u

\* The product of a line: the one that fits, or a new one.
ProductOf(index, line) ==
    IF Matches(index, line) = {} THEN line.sku ELSE CHOOSE s \in Matches(index, line) : TRUE

\* The insert waits for another one of the SKU, and fails if that commits.
Insertable(w, s) ==
    s \notin DOMAIN products /\ \A v \in Session \ {w} : s \notin LockedProducts(v)

OnHand(t, s) ==
    IF s \in DOMAIN t.stock THEN t.stock[s] ELSE IF s \in DOMAIN stock THEN stock[s] ELSE 0

\* The barcode a product has after the line; a line without one keeps it.
BarcodeAfter(t, s, line) ==
    IF line.barcode # NoBarcode THEN line.barcode
    ELSE IF s \in DOMAIN t.barcodes THEN t.barcodes[s]
    ELSE IF s \in DOMAIN t.index THEN t.index[s] ELSE NoBarcode

\* One line of the receipt: a new product enters the indexes, a known one is
\* updated and stays in them as it was.
BookLine(w) ==
    LET t == tx[w]
        line == Lines[t.receipt][t.line]
        s == ProductOf(t.index, line)
        after == OnHand(t, s) + line.quantity
    IN  /\ t.pc = "booking" /\ t.line <= Len(Lines[t.receipt])
        /\ Identifies(t.index, line)
        /\ s \in DOMAIN t.index \/ Insertable(w, s)
        /\ StockFree(w, {s}) /\ after <= MaxStock
        /\ tx' = [tx EXCEPT ![w] =
                     [t EXCEPT !.line = t.line + 1,
                               !.created = t.created \cup ({s} \ DOMAIN t.index),
                               !.index = IF s \in DOMAIN t.index THEN t.index
                                         ELSE Put(t.index, s, line.barcode),
                               !.barcodes = Put(t.barcodes, s, BarcodeAfter(t, s, line)),
                               !.stock = Put(t.stock, s, after),
                               !.events = t.events \cup
                                 {Event(t.receipt, t.line, s, line.quantity, after)}]]
        /\ UNCHANGED <<stockVars, scanVars>>

\* Products, stock, events, alerts and the kept answer in one commit.
CommitReceipt(w) ==
    /\ tx[w].pc = "booking" /\ tx[w].line > Len(Lines[tx[w].receipt])
    /\ products' = Overlay(products, tx[w].barcodes)
    /\ stock' = Overlay(stock, tx[w].stock)
    /\ ledger' = ledger \cup tx[w].events
    /\ alerts' = alerts \cup {e.key : e \in {f \in tx[w].events : Low(f.after)}}
    /\ answers' = answers \cup {tx[w].receipt}
    /\ phantom' = (phantom \/ ~(DOMAIN products \subseteq tx[w].rows))
    /\ tx' = [tx EXCEPT ![w] = Idle]
    /\ UNCHANGED scanVars

\* A line that fits two products, a violated constraint, a deadlock, or a
\* crash: the request is rolled back.
Abort(w) ==
    /\ tx[w].pc \in {"event", "reserved", "listed", "booking"}
    /\ tx' = [tx EXCEPT ![w] = Idle]
    /\ UNCHANGED <<stockVars, scanVars>>

-----------------------------------------------------------------------------
(* POST /agents/detect-low-stock                                            *)

Pending == {p \in DOMAIN proposals : proposals[p].status = "PENDING"}

\* The rows at or below their reorder point are read once.
Scan(w) ==
    /\ tx[w] = Idle /\ scans < MaxScans
    /\ scans' = scans + 1
    /\ tx' = [tx EXCEPT ![w] = [pc |-> "scan", cards |-> {}, seeded |-> {},
                                todo |-> {s \in DOMAIN stock : Low(stock[s])}]]
    /\ UNCHANGED <<stockVars, sales, proposals, cards, crowded>>

\* Mutant of Covered: the check is skipped.
CoveredNever(s, looked) == FALSE

\* The row that was looked at is a pending proposal for this SKU.
Covered(s, looked) == looked # {} /\ \A p \in looked : proposals[p].sku = s

\* One pending row, whichever the query returns first.
Looked == IF Pending = {} THEN {{}} ELSE {{p} : p \in Pending}

\* A product whose looked-at row does not cover it gets five made-up sales if
\* it has none, a workflow, and a card.  The card wants an approval_id, which
\* the proposal does not have: its row says FAILED.
ScanNext(w, s) ==
    /\ tx[w].pc = "scan" /\ s \in tx[w].todo
    /\ \E looked \in Looked :
          \/ /\ Covered(s, looked)
             /\ tx' = [tx EXCEPT ![w].todo = @ \ {s}]
             /\ UNCHANGED <<proposals, crowded>>
          \/ /\ ~Covered(s, looked) /\ Len(proposals) < MaxProposals
             /\ proposals' = Append(proposals, [sku |-> s, status |-> "PENDING"])
             /\ tx' = [tx EXCEPT ![w].todo = @ \ {s}, ![w].seeded = @ \cup ({s} \ sales),
                                 ![w].cards = @ \cup {[proposal |-> Len(proposals'),
                                                       status |-> "FAILED"]}]
             /\ crowded' = (crowded \/ Cardinality(Pending) > 1
                                    \/ \E v \in Session \ {w} : tx[v].pc = "scan")
    /\ UNCHANGED <<stockVars, sales, cards, scans>>

\* The workflow raises, or ends without a proposal: the loop goes on.
ScanFails(w, s) ==
    /\ tx[w].pc = "scan" /\ s \in tx[w].todo
    /\ \E looked \in Looked : ~Covered(s, looked)
    /\ tx' = [tx EXCEPT ![w].todo = @ \ {s}, ![w].seeded = @ \cup ({s} \ sales)]
    /\ UNCHANGED <<stockVars, scanVars>>

\* The sales and the cards are committed after all workflows.
CommitScan(w) ==
    /\ tx[w].pc = "scan" /\ tx[w].todo = {}
    /\ sales' = sales \cup tx[w].seeded
    /\ cards' = cards \cup tx[w].cards
    /\ tx' = [tx EXCEPT ![w] = Idle]
    /\ UNCHANGED <<stockVars, proposals, scans, crowded>>

\* The request dies: the proposals stay, the sales and the cards do not.
AbortScan(w) ==
    /\ tx[w].pc = "scan"
    /\ tx' = [tx EXCEPT ![w] = Idle]
    /\ UNCHANGED <<stockVars, scanVars>>

\* The merchant decides a proposal (ApprovalEndpoints).
DecideProposal(p) ==
    /\ p \in Pending
    /\ proposals' = [proposals EXCEPT ![p].status = "DECIDED"]
    /\ UNCHANGED <<stockVars, sales, cards, scans, crowded, tx>>

-----------------------------------------------------------------------------
InventoryInit ==
    /\ products = [s \in Stocked |-> NoBarcode] /\ stock = [s \in Stocked |-> 0]
    /\ ledger = {} /\ alerts = {} /\ answers = {}
    /\ sales = {} /\ proposals = <<>> /\ cards = {} /\ scans = 0
    /\ tx = [w \in Session |-> Idle]
    /\ phantom = FALSE /\ crowded = FALSE

InventoryNext ==
    \/ \E w \in Session :
        \/ \E s \in Sku, delta \in {-1, 1}, key \in EventKey : ReadEvent(w, s, delta, key)
        \/ CommitEvent(w)
        \/ \E r \in Receipt : Begin(w, r)
        \/ ListProducts(w) \/ LockProducts(w) \/ BookLine(w) \/ CommitReceipt(w) \/ Abort(w)
        \/ Scan(w) \/ CommitScan(w) \/ AbortScan(w)
        \/ \E s \in Sku : ScanNext(w, s) \/ ScanFails(w, s)
    \/ \E p \in DOMAIN proposals : DecideProposal(p)

InventorySpec == InventoryInit /\ [][InventoryNext]_inventoryVars

-----------------------------------------------------------------------------
(* Properties.                                                              *)

\* Products, stock, ledger, answers and proposals refer to each other as the
\* tables do, and no stock is negative.
InventoryTypeOK ==
    /\ DOMAIN stock \subseteq DOMAIN products /\ DOMAIN products \subseteq Sku
    /\ \A s \in DOMAIN products : products[s] \in Barcode \cup {NoBarcode}
    /\ \A s \in DOMAIN stock : stock[s] \in 0..MaxStock
    /\ answers \subseteq Receipt /\ alerts \subseteq {e.key : e \in ledger}
    /\ proposals \in Seq([sku : Sku, status : {"PENDING", "DECIDED"}])
    /\ \A c \in cards : c.proposal \in DOMAIN proposals
    /\ sales \subseteq Sku

\* The units that events brought in and took out, one by one.
Received(events) == UNION {{e} \X (1..e.delta) : e \in events}
Removed(events) == UNION {{e} \X (1..(-e.delta)) : e \in events}
Total(events) == Cardinality(Received(events)) - Cardinality(Removed(events))

\* The stock of every product is what its recorded events add up to, with
\* receipts, manual batches and single events coming in at the same time.
StockMatchesLedger ==
    \A s \in DOMAIN stock : stock[s] = Total({e \in ledger : e.sku = s})

\* The stock is never negative and always what the ledger says.
StockConsistent == InventoryTypeOK /\ StockMatchesLedger

\* The events of a receipt
EventsOf(r) == {e \in ledger : e.key[1] = r}

\* A receipt is booked completely or not at all, and once: whatever is retried
\* or sent twice at the same moment, its lines are in the ledger exactly when
\* its answer is kept for replays.
ReceiptBookedOnce ==
    \A r \in Receipt :
        Cardinality(EventsOf(r)) = IF r \in answers THEN Len(Lines[r]) ELSE 0

Names(r, s, barcode) ==
    \E i \in DOMAIN Lines[r] : Lines[r][i].sku = s /\ Lines[r][i].barcode = barcode

\* Two products share a barcode, after which no receipt with that barcode can
\* be confirmed any more, only if a product was inserted between a
\* confirmation's listing of the products and its commit, or if one receipt
\* gave both of them the barcode: the index by barcode does not learn of the
\* barcode a known product gets (inventory_service.py, confirm_receipt).
SharedBarcodeExplained ==
    \A s, u \in DOMAIN products :
        products[s] = products[u] /\ products[s] # NoBarcode /\ s # u =>
            phantom \/ \E r \in answers : Names(r, s, products[s]) /\ Names(r, u, products[s])

\* A second proposal for a product is asked for while one is open only if the
\* scan could not tell: it looked at one of several pending rows, or another
\* scan ran.
DuplicateOnlyIfCrowded ==
    \A p, q \in Pending : proposals[p].sku = proposals[q].sku /\ p # q => crowded
=============================================================================
