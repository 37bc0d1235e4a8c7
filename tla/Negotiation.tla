----------------------------- MODULE Negotiation -----------------------------
(***************************************************************************)
(* Negotiating with a supplier agent over signed envelopes: the nodes       *)
(* find_supplier and negotiate (agents/nodes), the adapter that exchanges   *)
(* the envelopes and its supplier agent                                     *)
(* (integrations/suppliers/mock_supplier.py), the recorders of messages and *)
(* negotiations (application/services/activity_service.py), POST            *)
(* /negotiations/start, and the envelopes a registered agent sends by       *)
(* itself (api/v1/a2a.py, a2a/service.py).                                  *)
(*                                                                         *)
(* All requests are of one merchant, for one SKU and made on one day, so a  *)
(* quote is identified by the quantity alone.  The agent's quotes and       *)
(* answers live in memory and are lost by a restart; the workflow of a      *)
(* request is a chain of awaits, and requests interleave at each.  The      *)
(* catalog supplier exchanges no envelopes and is left to PurchaseWorkflow. *)
(* Prices are in hundredths.                                                *)
(***************************************************************************)
EXTENDS Integers, Sequences, FiniteSets

CONSTANTS
    Request,       \* purchase requests: workflow_request_id
    Remote,        \* envelopes an agent sends without being asked
    Quantity,      \* quantities a merchant may ask for
    Target,        \* target prices of requests
    Limit,         \* limits a merchant may set when modifying a proposal
    FirstLimit,    \* the limit a request starts with
    Price, Stock,  \* the supplier's catalog entry
    MaxRevisions, MaxModified, MaxCrashes,   \* bounds of the model
    MaxBusy        \* another: requests made once an agent sends on its own

None == "none"
\* The idempotency key of an exchange, which is also the conversation it
\* starts; the answer's key is the same one marked as inbound.
Key(kind, r, n) == [kind |-> kind, req |-> r, n |-> n]
KeySet == [kind : {"quote", "counter", "order"}, req : Request,
           n : {0} \cup Quantity \cup 1..MaxRevisions]

ASSUME NegotiationAssumption ==
    /\ Quantity \cup Target \cup Limit \cup {FirstLimit, Price, MaxRevisions} \subseteq Nat \ {0}
    /\ {Stock, MaxModified, MaxCrashes, MaxBusy} \subseteq Nat
    /\ \A t \in Target : t <= FirstLimit
    /\ Request \cap {None, "error"} = {}
    /\ Remote \cap KeySet = {}    \* an agent makes its own keys

VARIABLES
    flow,        \* the workflow of each request
    quotes,      \* _quotes: the price of each quote, by quantity
    results,     \* _message_results: the agent's answers, by idempotency key
    fresh,       \* the keys whose answer is not five minutes old
    quoteCorr,   \* _quote_correlations: the conversation of each quote
    rows,        \* a2a_messages
    negotiations,\* negotiations, in the order of creation
    answer,      \* what POST /negotiations/start answered
    remote,      \* the envelopes agents have sent
    delivery,    \* two deliveries of each: a message may be sent again
    crashes

vars == <<flow, quotes, results, fresh, quoteCorr, rows, negotiations, answer, remote,
          delivery, crashes>>
memory == <<quotes, results, fresh, quoteCorr>>
inbox == <<remote, delivery>>

NoKey == Key(None, None, 0)
NoQuote == [qty |-> 0, price |-> 0]
NoReply == [intent |-> None, quote |-> NoQuote, corr |-> NoKey]

Put(f, k, v) == [x \in DOMAIN f \cup {k} |-> IF x = k THEN v ELSE f[x]]

Idle == [pc |-> "idle", qty |-> 0, target |-> 0, max |-> 0, rev |-> 1,
         key |-> NoKey, conv |-> NoKey, reply |-> NoReply, quote |-> NoQuote,
         chosen |-> NoQuote, corr |-> NoKey, agreed |-> FALSE, attempted |-> FALSE]

Init ==
    /\ flow = [r \in Request |-> Idle]
    /\ quotes = <<>> /\ results = <<>> /\ fresh = {} /\ quoteCorr = <<>>
    /\ rows = {} /\ negotiations = <<>> /\ answer = [r \in Request |-> None]
    /\ remote = <<>> /\ delivery = [e \in Remote \X (1..2) |-> "idle"]
    /\ crashes = 0

----------------------------------------------------------------------------
(* Recording.                                                               *)

NegotiationOf(corr) ==
    LET own == {i \in DOMAIN negotiations : negotiations[i].corr = corr}
    IN  IF own = {} THEN None ELSE negotiations[CHOOSE i \in own : TRUE].req

Keys == {row.key : row \in rows}
Row(key, dir, corr, merchant, negotiation) ==
    [key |-> <<key, dir>>, corr |-> corr, merchant |-> merchant, neg |-> negotiation]

\* Mutant of Record: one row for a conversation.
RecordOncePerConversation(key, dir, corr) ==
    IF \E row \in rows : row.corr = corr THEN rows
    ELSE rows \cup {Row(key, dir, corr, TRUE, NegotiationOf(corr))}

\* DatabaseA2ARecorder.record: an idempotency key that is already there is
\* left alone
Record(key, dir, corr) ==
    IF <<key, dir>> \in Keys THEN rows
    ELSE rows \cup {Row(key, dir, corr, TRUE, NegotiationOf(corr))}

----------------------------------------------------------------------------
(* The requests.                                                            *)

Exchange(f, key, conv) == [f EXCEPT !.pc = "sending", !.key = key, !.conv = conv]

\* find_supplier asks for a quote; the payload refuses a target above the limit
AskForQuote(f, r) ==
    LET key == Key("quote", r, f.qty)
    IN  IF f.target > f.max THEN [f EXCEPT !.pc = "raised"] ELSE Exchange(f, key, key)

Busy == Cardinality({r \in Request : flow[r].pc # "idle"})

Start(r) ==
    /\ flow[r].pc = "idle"
    /\ remote = <<>> \/ Busy < MaxBusy
    /\ \E q \in Quantity, t \in Target :
         flow' = [flow EXCEPT ![r] =
                    AskForQuote([Idle EXCEPT !.qty = q, !.target = t, !.max = FirstLimit], r)]
    /\ UNCHANGED <<memory, rows, negotiations, answer, inbox, crashes>>

\* Mutant of Send: the envelope is not recorded before it is sent.
SendUnrecorded(r) ==
    /\ flow[r].pc = "sending"
    /\ flow' = [flow EXCEPT ![r].pc = "asking"]
    /\ UNCHANGED <<memory, rows, negotiations, answer, inbox, crashes>>

\* The outgoing envelope is recorded before it is sent.
Send(r) ==
    /\ flow[r].pc = "sending"
    /\ rows' = Record(flow[r].key, "out", flow[r].conv)
    /\ flow' = [flow EXCEPT ![r].pc = "asking"]
    /\ UNCHANGED <<memory, negotiations, answer, inbox, crashes>>

----------------------------------------------------------------------------
(* The supplier agent.                                                      *)

QuoteId(qty) == qty

Floor(price) == (price * 94) \div 100

\* midpoint between the quote and the target, never above the limit
CounterPrice(price, f) ==
    LET midpoint == (price + f.target) \div 2
    IN  IF midpoint < f.max THEN midpoint ELSE f.max

Reply(intent, qty, price, f) == [intent |-> intent, quote |-> [qty |-> qty, price |-> price],
                                 corr |-> f.conv]

\* handle_envelope: the price of each quote afterwards, and the answer
HandleQuote(f) ==
    LET id == QuoteId(f.qty)
    IN  [quotes |-> Put(quotes, id, Price), reply |-> Reply("QUOTE", id, Price, f)]

HandleCounter(f) ==
    LET id == f.quote.qty
        offer == CounterPrice(f.quote.price, f)
    IN  IF offer < Floor(quotes[id]) \/ f.qty > Stock
        THEN [quotes |-> quotes, reply |-> Reply("OFFER_REJECTED", id, 0, f)]
        ELSE [quotes |-> Put(quotes, id, offer), reply |-> Reply("QUOTE", id, offer, f)]

HandleOrder(f) == [quotes |-> quotes, reply |-> Reply("ORDER_CONFIRMATION", f.chosen.qty, 0, f)]

Handle(f) ==
    CASE f.key.kind = "quote" -> HandleQuote(f)
      [] f.key.kind = "counter" -> HandleCounter(f)
      [] f.key.kind = "order" -> HandleOrder(f)

\* what the agent refuses to handle: SupplierUnavailableError
Unavailable(f) ==
    /\ f.key \notin DOMAIN results
    /\ CASE f.key.kind = "quote" -> f.qty > Stock
         [] f.key.kind = "counter" -> f.quote.qty \notin DOMAIN quotes
         [] f.key.kind = "order" -> f.chosen.qty \notin DOMAIN quotes \/ f.qty > Stock

\* A new key is handled and its answer kept.
Ask(r) ==
    LET f == flow[r]
    IN  /\ f.pc = "asking" /\ ~Unavailable(f) /\ f.key \notin DOMAIN results
        /\ quotes' = Handle(f).quotes
        /\ results' = Put(results, f.key, Handle(f).reply)
        /\ fresh' = fresh \cup {f.key}
        /\ flow' = [flow EXCEPT ![r].pc = "keeping", ![r].reply = Handle(f).reply]
        /\ UNCHANGED <<quoteCorr, rows, negotiations, answer, inbox, crashes>>

\* A key that was handled gets its first answer again; the buyer's check of
\* the envelope refuses it once it has expired.
AskAgain(r) ==
    LET f == flow[r]
    IN  /\ f.pc = "asking" /\ f.key \in DOMAIN results
        /\ flow' = [flow EXCEPT ![r] =
                      IF f.key \in fresh
                      THEN [f EXCEPT !.pc = "keeping", !.reply = results[f.key]]
                      ELSE [f EXCEPT !.pc = "raised"]]
        /\ UNCHANGED <<memory, rows, negotiations, answer, inbox, crashes>>

\* collect_quotes goes on without this supplier, negotiate raises, and a
\* failed order is saved.
AskFails(r) ==
    LET f == flow[r]
    IN  /\ f.pc = "asking" /\ Unavailable(f)
        /\ flow' = [flow EXCEPT ![r].pc =
                      CASE f.key.kind = "quote" -> "failed"
                        [] f.key.kind = "counter" -> "raised"
                        [] f.key.kind = "order" -> "keeping",
                                ![r].reply = NoReply]
        /\ UNCHANGED <<memory, rows, negotiations, answer, inbox, crashes>>

----------------------------------------------------------------------------
(* What the buyer does with the answer.                                     *)

Answered(f) == [f EXCEPT !.key = NoKey, !.conv = NoKey, !.reply = NoReply]

\* The quote's answer is recorded and the conversation noted; a supplier
\* that was tried before is dropped.
KeepQuote(r) ==
    LET f == flow[r]
    IN  /\ f.pc = "keeping" /\ f.key.kind = "quote"
        /\ rows' = Record(f.key, "in", f.reply.corr)
        /\ quoteCorr' = Put(quoteCorr, f.reply.quote.qty, f.reply.corr)
        /\ flow' = [flow EXCEPT ![r] =
                      IF f.attempted THEN [Answered(f) EXCEPT !.pc = "failed"]
                      ELSE [Answered(f) EXCEPT !.pc = "quoted", !.quote = f.reply.quote]]
        /\ UNCHANGED <<quotes, results, fresh, negotiations, answer, inbox, crashes>>

\* The offer negotiate settles on, or the failure to; the last agreed offer
\* stays in the workflow's state.
Settled(f, quote) ==
    [Answered(f) EXCEPT !.pc = "recording", !.agreed = TRUE, !.chosen = quote,
                        !.quote = NoQuote, !.corr = quoteCorr[quote.qty]]
Unsettled(f) == [Answered(f) EXCEPT !.pc = "recording", !.agreed = FALSE, !.quote = NoQuote]

\* Mutant of Valid: an answer of the agent is taken unchecked.
ValidOnce(f, quote) == TRUE

Valid(f, quote) == f.qty <= Stock /\ quote.price <= f.max

\* A quote at or below the target is taken; any other is countered, under a
\* key that names the request but not the revision.
Negotiate(r) ==
    LET f == flow[r]
        id == f.quote.qty
    IN  /\ f.pc = "quoted"
        /\ flow' = [flow EXCEPT ![r] =
                      IF f.quote.price <= f.target THEN Settled(f, f.quote)
                      ELSE Exchange(f, Key("counter", r, 0), quoteCorr[id])]
        /\ UNCHANGED <<memory, rows, negotiations, answer, inbox, crashes>>

KeepCounter(r) ==
    LET f == flow[r]
    IN  /\ f.pc = "keeping" /\ f.key.kind = "counter"
        /\ rows' = Record(f.key, "in", f.reply.corr)
        /\ flow' = [flow EXCEPT ![r] =
                      IF f.reply.intent = "QUOTE" /\ Valid(f, f.reply.quote)
                      THEN Settled(f, f.reply.quote) ELSE Unsettled(f)]
        /\ UNCHANGED <<memory, negotiations, answer, inbox, crashes>>

----------------------------------------------------------------------------
(* record_negotiation.                                                      *)

RowOf(r) == {i \in DOMAIN negotiations : negotiations[i].req = r}

\* Mutant of Link: every message of the merchant is filed under the negotiation.
LinkAll(r, corr) == {IF row.merchant THEN [row EXCEPT !.neg = r] ELSE row : row \in rows}

Link(r, corr) ==
    {IF row.merchant /\ row.corr = corr THEN [row EXCEPT !.neg = r] ELSE row : row \in rows}

Recorded(r, f) ==
    /\ negotiations' = IF RowOf(r) = {}
                       THEN Append(negotiations, [req |-> r, corr |-> f.corr, status |-> "ACCEPTED",
                                                  quote |-> f.chosen])
                       ELSE [i \in DOMAIN negotiations |->
                               IF i \in RowOf(r) THEN [negotiations[i] EXCEPT !.quote = f.chosen]
                               ELSE negotiations[i]]
    /\ rows' = Link(r, f.corr)

Conflict(r, corr) == RowOf(r) = {} /\ NegotiationOf(corr) # None   \* correlation_id is unique

\* Mutant of RecordNegotiation: a workflow without a supplier is recorded too.
RecordEvenFailed(r) ==
    LET f == flow[r]
    IN  /\ f.pc = "recording"
        /\ Recorded(r, f)
        /\ flow' = [flow EXCEPT ![r].pc = IF f.agreed THEN "proposing" ELSE "failed"]
        /\ UNCHANGED <<memory, answer, inbox, crashes>>

\* A workflow that never chose a supplier leaves no row; one that chose
\* before is recorded as accepted whether or not it agreed this time.
RecordNegotiation(r) ==
    LET f == flow[r]
        after == IF f.agreed THEN "proposing" ELSE "failed"
    IN  /\ f.pc = "recording"
        /\ \/ /\ f.chosen = NoQuote
              /\ flow' = [flow EXCEPT ![r].pc = after]
              /\ UNCHANGED <<rows, negotiations>>
           \/ /\ f.chosen # NoQuote /\ ~Conflict(r, f.corr)
              /\ flow' = [flow EXCEPT ![r].pc = after]
              /\ Recorded(r, f)
           \/ /\ f.chosen # NoQuote /\ Conflict(r, f.corr)
              /\ flow' = [flow EXCEPT ![r].pc = "conflict"]
              /\ UNCHANGED <<rows, negotiations>>
        /\ UNCHANGED <<memory, answer, inbox, crashes>>

\* The risk check refuses the offer, or the proposal is recorded with the
\* negotiation and waits for the merchant.
Propose(r) ==
    /\ flow[r].pc = "proposing"
    /\ \/ /\ flow' = [flow EXCEPT ![r].pc = "failed"]
          /\ UNCHANGED <<rows, negotiations>>
       \/ /\ flow' = [flow EXCEPT ![r].pc = "approval"]
          /\ Recorded(r, flow[r])
    /\ UNCHANGED <<memory, answer, inbox, crashes>>

\* POST /negotiations/start answers with the request's negotiation, or with
\* the latest one for the SKU when it names no supplier, or with an error.
Answer(r) ==
    /\ flow[r].pc \notin {"idle", "sending", "asking", "keeping", "quoted", "recording",
                          "proposing", "raised", "conflict", "lost"}
    /\ answer[r] = None /\ flow[r].rev = 1
    /\ \/ RowOf(r) # {} /\ answer' = [answer EXCEPT ![r] = r]
       \/ /\ RowOf(r) = {} /\ negotiations # <<>>
          /\ answer' = [answer EXCEPT ![r] = negotiations[Len(negotiations)].req]
       \/ RowOf(r) = {} /\ answer' = [answer EXCEPT ![r] = "error"]
    /\ UNCHANGED <<flow, memory, rows, negotiations, inbox, crashes>>

----------------------------------------------------------------------------
(* The merchant's decision, and the order.                                  *)

Approve(r) ==
    LET f == flow[r]
        key == Key("order", r, f.rev)
        conv == IF f.chosen.qty \in DOMAIN quoteCorr THEN quoteCorr[f.chosen.qty] ELSE key
    IN  /\ f.pc = "approval"
        /\ flow' = [flow EXCEPT ![r] = [Exchange(f, key, conv) EXCEPT !.pc = "asking"]]
        /\ UNCHANGED <<memory, rows, negotiations, answer, inbox, crashes>>

Reject(r) ==
    /\ flow[r].pc = "approval"
    /\ flow' = [flow EXCEPT ![r].pc = "rejected"]
    /\ UNCHANGED <<memory, rows, negotiations, answer, inbox, crashes>>

Modify(r) ==
    LET f == flow[r]
    IN  /\ f.pc = "approval" /\ f.rev < MaxRevisions
        /\ Cardinality({s \in Request \ {r} : flow[s].rev > 1}) < MaxModified
        /\ \E q \in Quantity, m \in Limit :
             flow' = [flow EXCEPT ![r] = AskForQuote([f EXCEPT !.qty = q, !.max = m,
                                                     !.rev = f.rev + 1, !.attempted = FALSE], r)]
        /\ UNCHANGED <<memory, rows, negotiations, answer, inbox, crashes>>

\* The transaction of the order saves the envelopes the adapter held back; a
\* failed order, or a lost commit, sends the workflow to other suppliers.
SaveOrder(r) ==
    LET f == flow[r]
        recovering == AskForQuote([f EXCEPT !.attempted = TRUE], r)
        sent == Row(f.key, "out", f.conv, TRUE, NegotiationOf(f.conv))
        back == Row(f.key, "in", f.conv, TRUE, NegotiationOf(f.conv))
    IN  /\ f.pc = "keeping" /\ f.key.kind = "order"
        /\ \/ /\ f.reply # NoReply
              /\ rows' = rows \cup {sent, back}
              /\ flow' = [flow EXCEPT ![r] = [Answered(f) EXCEPT !.pc = "done"]]
           \/ /\ f.reply = NoReply
              /\ rows' = rows \cup {sent}
              /\ flow' = [flow EXCEPT ![r] = recovering]
           \/ /\ UNCHANGED rows
              /\ flow' = [flow EXCEPT ![r] = recovering]
        /\ UNCHANGED <<memory, negotiations, answer, inbox, crashes>>

----------------------------------------------------------------------------
(* Envelopes an agent sends by itself.                                      *)

\* An agent knows the conversations of the envelopes it was sent.
RemoteSend(m) ==
    /\ m \notin DOMAIN remote /\ Busy <= MaxBusy
    /\ \E k \in DOMAIN results, via \in {"http", "socket"} :
         remote' = Put(remote, m, [corr |-> results[k].corr, via |-> via])
    /\ UNCHANGED <<flow, memory, rows, negotiations, answer, delivery, crashes>>

Seen(m) == <<m, "in">> \in Keys

\* receive: the nonce and the key are looked up without a lock
Receive(m, d) ==
    /\ m \in DOMAIN remote /\ delivery[<<m, d>>] = "idle"
    /\ delivery' = [delivery EXCEPT ![<<m, d>>] = IF Seen(m) THEN "refused" ELSE "checked"]
    /\ UNCHANGED <<flow, memory, rows, negotiations, answer, remote, crashes>>

\* The insert fails if the other delivery was stored meanwhile.  Over HTTP the
\* merchant is taken from the conversation; the socket leaves it out.
Store(m, d) ==
    LET corr == remote[m].corr
        known == \E row \in rows : row.corr = corr /\ row.merchant
    IN  /\ delivery[<<m, d>>] = "checked"
        /\ \/ /\ Seen(m) /\ UNCHANGED rows
              /\ delivery' = [delivery EXCEPT ![<<m, d>>] = "refused"]
           \/ /\ ~Seen(m)
              /\ rows' = rows \cup {Row(m, "in", corr, remote[m].via = "http" /\ known, None)}
              /\ delivery' = [delivery EXCEPT ![<<m, d>>] = "stored"]
        /\ UNCHANGED <<flow, memory, negotiations, answer, remote, crashes>>

----------------------------------------------------------------------------

Over == {"idle", "approval", "failed", "raised", "conflict", "rejected", "done", "lost"}

\* Five minutes pass: every answer kept so far has expired.
Age ==
    /\ fresh # {} /\ fresh' = {}
    /\ UNCHANGED <<flow, quotes, results, quoteCorr, rows, negotiations, answer, inbox, crashes>>

\* The process restarts.  Workflows waiting for the merchant have a
\* checkpoint; those that were running are not taken up again.
Crash ==
    /\ crashes < MaxCrashes
    /\ crashes' = crashes + 1
    /\ flow' = [r \in Request |-> IF flow[r].pc \in Over THEN flow[r]
                                  ELSE [flow[r] EXCEPT !.pc = "lost"]]
    /\ quotes' = <<>> /\ results' = <<>> /\ fresh' = {} /\ quoteCorr' = <<>>
    /\ delivery' = [e \in Remote \X (1..2) |->
                      IF delivery[e] = "checked" THEN "idle" ELSE delivery[e]]
    /\ UNCHANGED <<rows, negotiations, answer, remote>>

Step(r) ==
    \/ Send(r) \/ Ask(r) \/ AskAgain(r) \/ AskFails(r)
    \/ KeepQuote(r) \/ Negotiate(r) \/ KeepCounter(r)
    \/ RecordNegotiation(r) \/ Propose(r) \/ SaveOrder(r)

Next ==
    \/ \E r \in Request : Start(r) \/ Step(r) \/ Answer(r) \/ Approve(r) \/ Reject(r) \/ Modify(r)
    \/ \E m \in Remote : RemoteSend(m) \/ \E d \in 1..2 : Receive(m, d) \/ Store(m, d)
    \/ Age \/ Crash

Spec == Init /\ [][Next]_vars

----------------------------------------------------------------------------
(* Properties.                                                              *)

Prices == 0..Price
Quoted == [qty : {0} \cup Quantity, price : Prices]

\* The workflows' state, the agent's memory and the tables have the shapes
\* the code gives them; no offer exceeds the catalog price.
TypeOK ==
    /\ \A r \in Request :
         LET f == flow[r]
         IN  /\ f.pc \in Over \cup {"sending", "asking", "keeping", "quoted", "recording", "proposing"}
             /\ f.quote \in Quoted /\ f.chosen \in Quoted /\ f.rev \in 1..MaxRevisions
             /\ f.pc # "idle" => f.qty \in Quantity /\ f.target \in Target
             /\ f.pc \in {"sending", "asking", "keeping"} => f.key \in KeySet /\ f.conv \in KeySet
             /\ answer[r] \in Request \cup {None, "error"}
    /\ DOMAIN quotes \subseteq Quantity /\ DOMAIN quoteCorr \subseteq Quantity
    /\ DOMAIN results \subseteq KeySet /\ fresh \subseteq DOMAIN results
    /\ \A row \in rows : row.corr \in KeySet /\ row.neg \in Request \cup {None}
    /\ \A key \in Keys : Cardinality({row \in rows : row.key = key}) = 1
    /\ DOMAIN remote \subseteq Remote
    /\ delivery \in [Remote \X (1..2) -> {"idle", "checked", "stored", "refused"}]

\* What is proposed to the merchant is within the limits of the request as it
\* stands, although the agent's answer may be one it gave to an earlier
\* revision with other limits (negotiate.py validates every answer again).
AgreedWithinLimits ==
    \A r \in Request : flow[r].pc \in {"proposing", "approval"} =>
        flow[r].chosen.price <= flow[r].max /\ flow[r].qty <= Stock

Asked(r, q) == <<Key("quote", r, q), "out">> \in Keys
Share(r, s) == \E q \in Quantity : Asked(r, q) /\ Asked(s, q)

\* A message of one request is filed under the negotiation of another only if
\* the two asked for the same quantity: their quotes have one id, and the
\* adapter remembers one conversation for it (mock_supplier.py,
\* _quote_correlations).
ForeignLinkOnlyIfShared ==
    \A row \in rows : row.neg # None /\ row.key[1] \notin Remote =>
        row.neg = row.key[1].req \/ Share(row.neg, row.key[1].req)

\* A workflow dies of the unique conversation of a negotiation only if
\* another request asked for the same quantity.
ConflictOnlyIfShared ==
    \A r \in Request : flow[r].pc = "conflict" => \E s \in Request \ {r} : Share(r, s)

\* The agent sells below 94 % of its price only if another request had
\* already brought the shared quote down.
BelowFloorOnlyIfShared ==
    \A r \in Request :
        flow[r].chosen # NoQuote /\ flow[r].chosen.price < (Price * 94) \div 100 =>
            \E s \in Request \ {r} : Share(r, s) /\ <<Key("counter", s, 0), "out">> \in Keys

\* Two requests get in each other's way (a message filed under the other, a
\* violated constraint, a price below the floor) only through a quote they
\* share by asking for one quantity.
MixUpsNeedSharedQuote ==
    ForeignLinkOnlyIfShared /\ ConflictOnlyIfShared /\ BelowFloorOnlyIfShared

\* A negotiation that failed is on record as accepted only if the workflow
\* had agreed before: on an earlier revision, or before its order failed.
FailedRecordedOnlyAfterAgreement ==
    \A r \in Request : flow[r].pc = "failed" /\ RowOf(r) # {} =>
        flow[r].agreed \/ flow[r].rev > 1

\* The start call shows the negotiation of another request only when its own
\* reached no agreement.
AnswerIsOwnIfAgreed ==
    \A r \in Request : answer[r] \in Request \ {r} => ~flow[r].agreed

\* What is recorded and answered of a negotiation misleads only where it
\* reached no agreement.
RecordsTruthful == TypeOK /\ FailedRecordedOnlyAfterAgreement /\ AnswerIsOwnIfAgreed

\* When the merchant is asked, and when the order is done, every envelope
\* exchanged for it is in the log in both directions, restarts and repeated
\* keys notwithstanding.
TrailComplete ==
    \A r \in Request : \A dir \in {"out", "in"} :
        /\ flow[r].pc = "approval" => <<Key("quote", r, flow[r].qty), dir>> \in Keys
        /\ flow[r].pc = "approval" /\ flow[r].chosen.price > flow[r].target =>
             <<Key("counter", r, 0), dir>> \in Keys
        /\ flow[r].pc = "done" => <<Key("order", r, flow[r].rev), dir>> \in Keys

\* What an agent sends over HTTP is shown to the merchant of its conversation,
\* however early it comes: the envelope that opened the conversation was
\* recorded before it was sent.  Only an order that lost its conversation in
\* a restart opens one that is recorded afterwards.
RemoteAttributed ==
    \A row \in rows : row.key[1] \in DOMAIN remote /\ remote[row.key[1]].via = "http" =>
        row.merchant \/ row.corr.kind = "order"

\* Of two deliveries of one envelope at most one is accepted, also when both
\* passed the checks before either was stored.
RemoteStoredOnce ==
    \A m \in Remote : Cardinality({d \in 1..2 : delivery[<<m, d>>] = "stored"}) <= 1

\* An envelope from outside is stored once and reaches its merchant.
RemoteHandled == RemoteAttributed /\ RemoteStoredOnce
=============================================================================
