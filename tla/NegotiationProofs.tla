-------------------------- MODULE NegotiationProofs --------------------------
(***************************************************************************)
(* Proofs about Negotiation, for any requests, quantities, prices and       *)
(* limits, and any number of revisions, restarts and envelopes from         *)
(* outside.                                                                 *)
(*                                                                         *)
(* Two requests that ask for one quantity share a quote, a conversation and *)
(* the agent's memory of both.  The invariant says where each conversation  *)
(* comes from: it was opened by a quote request that is in the log, for a   *)
(* quantity that the request using it asked for too (Opened).  Everything   *)
(* kept, answered, recorded and sent from outside carries such a            *)
(* conversation, so whatever two requests do to each other is traced to a   *)
(* shared quote.  The log only grows, which keeps these facts.              *)
(***************************************************************************)
EXTENDS Negotiation, SequenceTheorems, FiniteSetTheorems, TLAPS

Exchanging == {"sending", "asking", "keeping"}
Stages == Over \cup Exchanging \cup {"quoted", "recording", "proposing"}
AnyKey == KeySet \cup {NoKey}
Replies == [intent : {None, "QUOTE", "OFFER_REJECTED", "ORDER_CONFIRMATION"},
            quote : Quoted, corr : AnyKey]
Flow == [pc : Stages, qty : {0} \cup Quantity, target : {0} \cup Target,
         max : {0, FirstLimit} \cup Limit, rev : 1..MaxRevisions,
         key : AnyKey, conv : AnyKey, reply : Replies, quote : Quoted,
         chosen : Quoted, corr : AnyKey, agreed : BOOLEAN, attempted : BOOLEAN]

CounterSent(r) == <<Key("counter", r, 0), "out">> \in Keys

\* The conversation c was opened by a request for a quote that r shares.
Opened(c, r) ==
    \E s \in Request, q \in Quantity : /\ c = Key("quote", s, q)
                                       /\ Asked(s, q) /\ Asked(r, q)

\* Another request may have brought down a quote of r.
Undercut(r) == \E s \in Request \ {r} : Share(r, s) /\ CounterSent(s)

Recd(r) == RowOf(r) # {}

\* An answer the agent gives to the key k, now or from its memory.
ReplySound(k, reply) ==
    /\ reply \in Replies
    /\ k.kind = "quote" =>
         /\ k.n \in Quantity /\ k.n <= Stock /\ Asked(k.req, k.n)
         /\ reply = [intent |-> "QUOTE", quote |-> [qty |-> k.n, price |-> Price], corr |-> k]
    /\ k.kind = "counter" =>
         /\ reply.quote.qty \in DOMAIN quoteCorr /\ Asked(k.req, reply.quote.qty)
         /\ Opened(reply.corr, k.req) /\ CounterSent(k.req)
         /\ reply.intent = "QUOTE" /\ reply.quote.price < Floor(Price) => Undercut(k.req)
    /\ k.kind = "order" => /\ reply.corr \in KeySet
                           /\ reply.corr.kind = "order" \/ Opened(reply.corr, k.req)

\* The quote that r negotiates about is its own and was just given.
QuoteInHand(f, r) ==
    /\ f.quote = [qty |-> f.qty, price |-> Price]
    /\ f.qty \in DOMAIN quoteCorr /\ f.qty <= Stock /\ f.target <= f.max
    /\ \A dir \in {"out", "in"} : <<Key("quote", r, f.qty), dir>> \in Keys
    /\ ~f.attempted /\ (f.rev = 1 => f.chosen = NoQuote)

Quoting(f, r) ==
    /\ f.key = Key("quote", r, f.qty) /\ f.conv = f.key /\ f.target <= f.max
    /\ f.pc # "sending" => Asked(r, f.qty)
    /\ f.rev = 1 /\ ~f.attempted => f.chosen = NoQuote
    /\ f.pc = "keeping" => ReplySound(f.key, f.reply)

Countering(f, r) ==
    /\ f.key = Key("counter", r, 0) /\ Opened(f.conv, r)
    /\ QuoteInHand(f, r) /\ f.target < Price
    /\ f.pc # "sending" => CounterSent(r)
    /\ f.pc = "keeping" => ReplySound(f.key, f.reply)

Ordering(f, r) ==
    /\ f.key = Key("order", r, f.rev) /\ (f.conv = f.key \/ Opened(f.conv, r))
    /\ f.pc # "sending" /\ f.agreed /\ ~f.attempted
    /\ f.pc = "keeping" => f.reply = NoReply \/ ReplySound(f.key, f.reply)

\* The offer settled on is within the limits and the log has how it came about.
OfferSound(f, r) ==
    /\ f.chosen.price <= f.max /\ f.qty <= Stock /\ ~f.attempted
    /\ \A dir \in {"out", "in"} :
         /\ <<Key("quote", r, f.qty), dir>> \in Keys
         /\ f.chosen.price > f.target => <<Key("counter", r, 0), dir>> \in Keys

\* What the workflow f of request r has established by the stage it is in.
FlowSound(f, r) ==
    /\ f \in Flow
    /\ f.pc = "idle" => f = Idle
    /\ f.pc # "idle" => f.qty \in Quantity /\ f.target \in Target
    /\ f.pc \in Exchanging => Quoting(f, r) \/ Countering(f, r) \/ Ordering(f, r)
    /\ f.pc = "quoted" => QuoteInHand(f, r)
    /\ f.pc \in {"proposing", "approval"} \/ (f.pc = "recording" /\ f.agreed) => OfferSound(f, r)
    /\ f.pc \in {"proposing", "approval", "rejected", "done"} => f.agreed
    /\ f.agreed => f.chosen # NoQuote /\ (Recd(r) \/ f.pc \in {"recording", "conflict", "lost"})
    /\ f.chosen # NoQuote => /\ Opened(f.corr, r) /\ Asked(r, f.chosen.qty)
                             /\ f.rev = 1 => f.agreed
                             /\ f.chosen.price < Floor(Price) => Undercut(r)
    /\ f.pc = "conflict" => \E s \in Request \ {r} : Share(r, s)
    /\ f.pc = "done" => \A dir \in {"out", "in"} : <<Key("order", r, f.rev), dir>> \in Keys

FlowsSound == flow \in [Request -> Flow] /\ \A r \in Request : FlowSound(flow[r], r)

\* The agent's memory: a quote below the catalog price was countered by a
\* request that asked for it.
MemorySound ==
    /\ DOMAIN quotes \subseteq Quantity /\ DOMAIN quoteCorr \subseteq Quantity
    /\ DOMAIN results \subseteq KeySet /\ fresh \subseteq DOMAIN results
    /\ \A q \in DOMAIN quotes :
         /\ quotes[q] \in Prices
         /\ quotes[q] # Price =>
              \E s \in Request : Key("counter", s, 0) \in DOMAIN results /\ Asked(s, q)
    /\ \A q \in DOMAIN quoteCorr :
         \E s \in Request : quoteCorr[q] = Key("quote", s, q) /\ Asked(s, q)
    /\ \A k \in DOMAIN results : ReplySound(k, results[k])

RowSet == [key : (KeySet \cup Remote) \X {"out", "in"}, corr : KeySet, merchant : BOOLEAN,
           neg : Request \cup {None}]

\* A message's conversation and negotiation belong to its request or to one
\* that shares its quote.
OwnRowSound(row) ==
    LET k == row.key[1]
    IN  /\ Opened(row.corr, k.req) \/ (row.corr = k /\ k.kind = "order")
        /\ row.neg # None => row.neg = k.req \/ Share(row.neg, k.req)
        /\ k.kind = "quote" /\ row.key[2] = "out" => row.corr = k /\ row.merchant

RemoteRowSound(row) ==
    LET m == row.key[1]
    IN  m \in DOMAIN remote /\ (remote[m].via = "http" => row.merchant \/ row.corr.kind = "order")

RowsSound ==
    /\ rows \subseteq RowSet
    /\ \A a, b \in rows : a.key = b.key => a = b
    /\ \A row \in rows : row.key[1] \in KeySet => OwnRowSound(row)
    /\ \A row \in rows : row.key[1] \in Remote => RemoteRowSound(row)

\* The order of a revision is in the log only once its attempt is over.
Attempted(k) == \/ k.n < flow[k.req].rev
                \/ /\ k.n = flow[k.req].rev
                   /\ (flow[k.req].pc = "done" \/ flow[k.req].attempted)
OrderRowsSound ==
    \A key \in Keys : key[1] \in KeySet /\ key[1].kind = "order" => Attempted(key[1])

NegotiationSet == [req : Request, corr : KeySet, status : {"ACCEPTED"}, quote : Quoted]
NegotiationsSound ==
    /\ negotiations \in Seq(NegotiationSet)
    /\ \A i \in DOMAIN negotiations :
         /\ Opened(negotiations[i].corr, negotiations[i].req)
         /\ flow[negotiations[i].req].chosen # NoQuote

AnswersSound ==
    /\ answer \in [Request -> Request \cup {None, "error"}]
    /\ \A r \in Request : answer[r] \in Request \ {r} => flow[r].pc = "failed" /\ ~flow[r].agreed

\* An agent answers in a conversation that is in the log, unless an order
\* opened it.
RemoteSound ==
    /\ DOMAIN remote \subseteq Remote
    /\ \A m \in DOMAIN remote :
         /\ remote[m] \in [corr : KeySet, via : {"http", "socket"}]
         /\ remote[m].corr.kind = "order" \/ \E r \in Request : Opened(remote[m].corr, r)

DeliverySound ==
    /\ delivery \in [Remote \X (1..2) -> {"idle", "checked", "stored", "refused"}]
    /\ \A m \in Remote, d \in 1..2 :
         /\ delivery[<<m, d>>] # "idle" => m \in DOMAIN remote
         /\ delivery[<<m, d>>] = "stored" => Seen(m)
    /\ \A m \in Remote : delivery[<<m, 1>>] = "stored" => delivery[<<m, 2>>] # "stored"

NegotiationInv ==
    /\ FlowsSound
    /\ MemorySound
    /\ RowsSound
    /\ OrderRowsSound
    /\ NegotiationsSound
    /\ AnswersSound
    /\ RemoteSound
    /\ DeliverySound

-----------------------------------------------------------------------------
(* Constants, keys and conversations.                                       *)

\* The constants and the initial values have their types.
LEMMA ConstantFacts ==
    /\ Quantity \subseteq Nat \ {0} /\ Target \subseteq Nat \ {0} /\ Limit \subseteq Nat \ {0}
    /\ FirstLimit \in Nat \ {0} /\ Price \in Nat \ {0} /\ MaxRevisions \in Nat \ {0}
    /\ Stock \in Nat /\ \A t \in Target : t <= FirstLimit
    /\ None \notin Request /\ "error" \notin Request
    /\ Remote \cap KeySet = {}
  BY NegotiationAssumption

\* Keys name their kind, their request and their number.
LEMMA KeyFacts ==
    /\ \A k, r, n : /\ Key(k, r, n).kind = k /\ Key(k, r, n).req = r /\ Key(k, r, n).n = n
    /\ \A r \in Request, q \in Quantity : Key("quote", r, q) \in KeySet
    /\ \A r \in Request : Key("counter", r, 0) \in KeySet
    /\ \A r \in Request, n \in 1..MaxRevisions : Key("order", r, n) \in KeySet
    /\ \A k \in KeySet : /\ k.kind \in {"quote", "counter", "order"} /\ k.req \in Request
                         /\ k = Key(k.kind, k.req, k.n)
    /\ NoKey \notin KeySet
  BY DEF Key, KeySet, NoKey, None

\* The number of a key is a quantity, a revision or zero.
LEMMA KeyNumber == \A k \in KeySet : k.n \in Nat
  <1>1. {0} \cup Quantity \cup 1..MaxRevisions \subseteq Nat
    BY ConstantFacts
  <1> QED BY <1>1 DEF KeySet

\* Every negotiation on record is a row of its table.
LEMMA NegotiationTyped ==
    ASSUME negotiations \in Seq(NegotiationSet), NEW i \in DOMAIN negotiations
    PROVE  /\ i \in 1..Len(negotiations) /\ negotiations[i] \in NegotiationSet
           /\ negotiations[i].req \in Request /\ negotiations[i].corr \in KeySet
  <1>1. i \in 1..Len(negotiations)
    BY LenProperties
  <1>2. negotiations[i] \in NegotiationSet
    BY <1>1, ElementOfSeq
  <1> QED BY <1>1, <1>2 DEF NegotiationSet

\* The numbers of a workflow are natural numbers.
LEMMA FlowNumbers ==
    ASSUME NEW f \in Flow
    PROVE  /\ f.qty \in Nat /\ f.target \in Nat /\ f.max \in Nat /\ f.rev \in Nat
           /\ f.quote.price \in Nat /\ f.chosen.price \in Nat
  <1>1. /\ {0} \cup Quantity \subseteq Nat /\ {0} \cup Target \subseteq Nat
        /\ {0, FirstLimit} \cup Limit \subseteq Nat /\ 1..MaxRevisions \subseteq Nat
        /\ Prices \subseteq Nat
    BY ConstantFacts DEF Prices
  <1>2. /\ f.qty \in {0} \cup Quantity /\ f.target \in {0} \cup Target
        /\ f.max \in {0, FirstLimit} \cup Limit /\ f.rev \in 1..MaxRevisions
        /\ f.quote \in Quoted /\ f.chosen \in Quoted
    BY DEF Flow
  <1>3. f.quote.price \in Prices /\ f.chosen.price \in Prices
    BY <1>2 DEF Quoted
  <1> QED BY <1>1, <1>2, <1>3

\* The empty values are of their types.
LEMMA InitialValues ==
    NoQuote \in Quoted /\ NoReply \in Replies /\ Idle \in Flow /\ NoReply.intent = None
  <1>1. NoQuote \in Quoted
    BY ConstantFacts DEF NoQuote, Quoted, Prices
  <1>2. NoReply \in Replies
    BY <1>1 DEF NoReply, Replies, AnyKey
  <1>3. Idle \in Flow
    BY <1>1, <1>2, ConstantFacts DEF Idle, Flow, Stages, Over, AnyKey
  <1> QED BY <1>1, <1>2, <1>3 DEF NoReply

\* Two requests with one conversation share its quote.
LEMMA SharedConversation ==
    ASSUME NEW c, NEW a \in Request, NEW b \in Request, Opened(c, a), Opened(c, b)
    PROVE  Share(a, b)
  <1>1. PICK s \in Request, q \in Quantity : c = Key("quote", s, q) /\ Asked(a, q)
    BY DEF Opened
  <1>2. PICK t \in Request, p \in Quantity : c = Key("quote", t, p) /\ Asked(b, p)
    BY DEF Opened
  <1>3. q = p
    BY <1>1, <1>2, KeyFacts
  <1> QED BY <1>1, <1>2, <1>3 DEF Share

\* A conversation has the key of a quote.
LEMMA OpenedFacts ==
    ASSUME NEW c, NEW r, Opened(c, r)
    PROVE  c \in KeySet /\ c.kind = "quote" /\ <<c, "out">> \in Keys
  BY KeyFacts DEF Opened, Asked

\* What the log shows stays in it.
LEMMA LogGrows ==
    ASSUME Keys \subseteq Keys'
    PROVE  /\ \A r, q : Asked(r, q) => Asked(r, q)'
           /\ \A r : CounterSent(r) => CounterSent(r)'
           /\ \A c, r : Opened(c, r) => Opened(c, r)'
           /\ \A r, s : Share(r, s) => Share(r, s)'
           /\ \A r : Undercut(r) => Undercut(r)'
  <1>1. \A r, q : Asked(r, q) => Asked(r, q)'
    BY DEF Asked
  <1>2. \A r : CounterSent(r) => CounterSent(r)'
    BY DEF CounterSent
  <1>3. \A c, r : Opened(c, r) => Opened(c, r)'
    BY <1>1 DEF Opened
  <1>4. \A r, s : Share(r, s) => Share(r, s)'
    BY <1>1 DEF Share
  <1>5. \A r : Undercut(r) => Undercut(r)'
    BY <1>2, <1>4 DEF Undercut
  <1> QED BY <1>1, <1>2, <1>3, <1>4, <1>5

\* An answer stays sound while the log and the remembered conversations grow.
LEMMA ReplyKept ==
    ASSUME NEW k, NEW reply, ReplySound(k, reply),
           Keys \subseteq Keys', DOMAIN quoteCorr \subseteq DOMAIN quoteCorr'
    PROVE  ReplySound(k, reply)'
  <1>1. k.kind = "quote" => Asked(k.req, k.n)'
    BY LogGrows DEF ReplySound
  <1>2. k.kind = "counter" =>
         /\ (reply.quote.qty \in DOMAIN quoteCorr)' /\ Asked(k.req, reply.quote.qty)'
         /\ Opened(reply.corr, k.req)' /\ CounterSent(k.req)'
    BY LogGrows DEF ReplySound
  <1>3. k.kind = "counter" =>
         (reply.intent = "QUOTE" /\ reply.quote.price < Floor(Price) => Undercut(k.req)')
    BY LogGrows DEF ReplySound
  <1>4. k.kind = "order" => reply.corr \in KeySet /\ (reply.corr.kind = "order" \/ Opened(reply.corr, k.req)')
    BY LogGrows DEF ReplySound
  <1> QED BY <1>1, <1>2, <1>3, <1>4 DEF ReplySound

\* So does what a workflow has established, as long as its negotiation
\* stays on record.
LEMMA FlowKept ==
    ASSUME NEW f, NEW r, FlowSound(f, r), Keys \subseteq Keys',
           DOMAIN quoteCorr \subseteq DOMAIN quoteCorr' \/ f.pc \in Over,
           Recd(r) => Recd(r)'
    PROVE  FlowSound(f, r)'
  <1>1. f.pc \in Exchanging /\ Quoting(f, r) => Quoting(f, r)'
    BY LogGrows, ReplyKept DEF Quoting, Exchanging, Over
  <1>2. f.pc \notin Over => (QuoteInHand(f, r) => QuoteInHand(f, r)')
    BY DEF QuoteInHand
  <1>3. f.pc \in Exchanging /\ Countering(f, r) => Countering(f, r)'
    BY <1>2, LogGrows, ReplyKept DEF Countering, Exchanging, Over
  <1>4. f.pc \in Exchanging /\ Ordering(f, r) => Ordering(f, r)'
    BY LogGrows, ReplyKept DEF Ordering, Exchanging, Over
  <1>5. f.pc \in Exchanging => (Quoting(f, r) \/ Countering(f, r) \/ Ordering(f, r))'
    BY <1>1, <1>3, <1>4 DEF FlowSound
  <1>6. f.pc = "quoted" => QuoteInHand(f, r)'
    BY <1>2 DEF FlowSound, Over
  <1>7. OfferSound(f, r) => OfferSound(f, r)'
    BY DEF OfferSound
  <1>8. f.chosen # NoQuote => /\ Opened(f.corr, r)' /\ Asked(r, f.chosen.qty)'
                              /\ f.rev = 1 => f.agreed
                              /\ f.chosen.price < Floor(Price) => Undercut(r)'
    BY LogGrows DEF FlowSound
  <1>9. f.pc = "conflict" => \E s \in Request \ {r} : Share(r, s)'
    BY LogGrows DEF FlowSound
  <1>10. f.pc = "done" => \A dir \in {"out", "in"} : (<<Key("order", r, f.rev), dir>> \in Keys)'
    BY DEF FlowSound
  <1>11. f.agreed => f.chosen # NoQuote /\ (Recd(r)' \/ f.pc \in {"recording", "conflict", "lost"})
    BY DEF FlowSound
  <1>12. f \in Flow /\ (f.pc = "idle" => f = Idle) /\ (f.pc # "idle" => f.qty \in Quantity /\ f.target \in Target)
    BY DEF FlowSound
  <1>13. f.pc \in {"proposing", "approval"} \/ (f.pc = "recording" /\ f.agreed) => OfferSound(f, r)'
    BY <1>7 DEF FlowSound
  <1>14. f.pc \in {"proposing", "approval", "rejected", "done"} => f.agreed
    BY DEF FlowSound
  <1> QED BY <1>5, <1>6, <1>8, <1>9, <1>10, <1>11, <1>12, <1>13, <1>14 DEF FlowSound

\* There are no workflows, quotes and messages at first.
LEMMA NegotiationInit == Init => NegotiationInv
  <1> SUFFICES ASSUME Init PROVE NegotiationInv
    OBVIOUS
  <1>1. ASSUME NEW r \in Request PROVE flow[r] = Idle /\ FlowSound(flow[r], r)
    <2>1. flow[r] = Idle
      BY DEF Init
    <2>2. Idle.pc = "idle" /\ Idle.chosen = NoQuote /\ Idle.agreed = FALSE
      BY DEF Idle
    <2> QED BY <2>1, <2>2, InitialValues DEF FlowSound, Exchanging
  <1>2. FlowsSound
    BY <1>1, InitialValues DEF FlowsSound, Init
  <1>3. MemorySound
    BY DEF MemorySound, Init
  <1>4. RowsSound /\ OrderRowsSound
    BY DEF RowsSound, OrderRowsSound, Init, Keys
  <1>5. NegotiationsSound
    BY DEF NegotiationsSound, Init
  <1>6. AnswersSound
    BY ConstantFacts DEF AnswersSound, Init
  <1>7. RemoteSound
    BY DEF RemoteSound, Init
  <1>8. DeliverySound
    BY DEF DeliverySound, Init
  <1> QED BY <1>2, <1>3, <1>4, <1>5, <1>6, <1>7, <1>8 DEF NegotiationInv

-----------------------------------------------------------------------------
(* A step of one request.                                                   *)

\* A workflow that is not over moves on without forgetting an agreement or an
\* attempt to order.
Moves(r, g) ==
    /\ flow[r].pc \notin {"failed", "done"}
    /\ flow[r].chosen # NoQuote => g.chosen # NoQuote
    /\ \/ g.rev > flow[r].rev
       \/ g.rev = flow[r].rev /\ (flow[r].attempted => g.attempted)

\* The other workflows keep what they have established.
LEMMA MoveKeepsFlows ==
    ASSUME FlowsSound, NEW r \in Request, NEW g, FlowSound(g, r)',
           flow' = [flow EXCEPT ![r] = g], Keys \subseteq Keys',
           DOMAIN quoteCorr \subseteq DOMAIN quoteCorr',
           \A s \in Request : Recd(s) => Recd(s)'
    PROVE  FlowsSound'
  <1>1. g \in Flow
    BY DEF FlowSound
  <1>2. flow' \in [Request -> Flow] /\ flow'[r] = g
        /\ \A s \in Request \ {r} : flow'[s] = flow[s]
    BY <1>1 DEF FlowsSound
  <1>3. ASSUME NEW s \in Request PROVE FlowSound(flow[s], s)'
    <2>1. CASE s = r
      BY <2>1, <1>2
    <2>2. CASE s # r
      <3>1. PICK f : f = flow[s]
        OBVIOUS
      <3>2. FlowSound(f, s)
        BY <3>1 DEF FlowsSound
      <3>3. FlowSound(f, s)'
        BY <3>2, FlowKept
      <3>4. (f = flow[s])'
        BY <3>1, <1>2, <2>2
      <3> QED BY <3>3, <3>4
    <2> QED BY <2>1, <2>2
  <1> QED BY <1>2, <1>3 DEF FlowsSound

\* The tables that speak of workflows stay true of the one that moved.
LEMMA MoveKeepsRest ==
    ASSUME FlowsSound, NEW r \in Request, NEW g, g \in Flow,
           flow' = [flow EXCEPT ![r] = g], Moves(r, g)
    PROVE  /\ \A k \in KeySet : Attempted(k) => Attempted(k)'
           /\ \A s \in Request : flow[s].chosen # NoQuote => flow'[s].chosen # NoQuote
           /\ AnswersSound /\ UNCHANGED answer => AnswersSound'
  <1>1. flow'[r] = g /\ \A s \in Request \ {r} : flow'[s] = flow[s]
    BY DEF FlowsSound
  <1>2. ASSUME NEW k \in KeySet, Attempted(k) PROVE Attempted(k)'
    <2>1. CASE k.req # r
      BY <2>1, <1>1, <1>2, KeyFacts DEF Attempted
    <2>2. CASE k.req = r
      <3>1. k.n \in Int
        BY KeyNumber
      <3>2. flow[r].rev \in Int /\ g.rev \in Int
        BY ConstantFacts DEF FlowsSound, Flow
      <3> QED BY <2>2, <3>1, <3>2, <1>1, <1>2 DEF Attempted, Moves
    <2> QED BY <2>1, <2>2
  <1>3. \A s \in Request : flow[s].chosen # NoQuote => flow'[s].chosen # NoQuote
    BY <1>1 DEF Moves
  <1>4. ASSUME AnswersSound, UNCHANGED answer PROVE AnswersSound'
    BY <1>1, <1>4 DEF AnswersSound, Moves
  <1> QED BY <1>2, <1>3, <1>4

\* A growing log leaves the agent's memory sound.
LEMMA MemoryKept ==
    ASSUME MemorySound, UNCHANGED memory, Keys \subseteq Keys'
    PROVE  MemorySound'
  <1>1. \A k \in DOMAIN results : ReplySound(k, results[k])'
    <2> TAKE k \in DOMAIN results
    <2>1. PICK reply : reply = results[k]
      OBVIOUS
    <2>2. ReplySound(k, reply)'
      BY <2>1, ReplyKept DEF MemorySound, memory
    <2> QED BY <2>1, <2>2 DEF memory
  <1>2. \A r, q : Asked(r, q) => Asked(r, q)'
    BY LogGrows
  <1>3. UNCHANGED <<quotes, results, fresh, quoteCorr>>
    BY DEF memory
  <1>4. \A q \in DOMAIN quotes : quotes[q] # Price =>
              \E s \in Request : Key("counter", s, 0) \in DOMAIN results /\ Asked(s, q)'
    BY <1>2 DEF MemorySound
  <1>5. \A q \in DOMAIN quoteCorr : \E s \in Request : quoteCorr[q] = Key("quote", s, q) /\ Asked(s, q)'
    BY <1>2 DEF MemorySound
  <1> QED BY <1>1, <1>3, <1>4, <1>5 DEF MemorySound

\* It also leaves the envelopes from outside in their conversations.
LEMMA RemoteKept ==
    ASSUME RemoteSound, DeliverySound, UNCHANGED inbox, Keys \subseteq Keys'
    PROVE  RemoteSound' /\ DeliverySound'
  <1>1. UNCHANGED <<remote, delivery>>
    BY DEF inbox
  <1>2. \A c, r : Opened(c, r) => Opened(c, r)'
    BY LogGrows
  <1>3. \A m : Seen(m) => Seen(m)'
    BY DEF Seen
  <1>4. RemoteSound'
    <2>1. \A m \in DOMAIN remote :
            remote[m].corr.kind = "order" \/ \E r \in Request : Opened(remote[m].corr, r)
      BY DEF RemoteSound
    <2>2. \A m \in DOMAIN remote :
            remote[m].corr.kind = "order" \/ \E r \in Request : Opened(remote[m].corr, r)'
      <3> TAKE m \in DOMAIN remote
      <3>1. PICK c : c = remote[m].corr
        OBVIOUS
      <3>2. c.kind = "order" \/ \E r \in Request : Opened(c, r)'
        BY <3>1, <2>1, <1>2
      <3>3. (c = remote[m].corr)'
        BY <3>1, <1>1
      <3> QED BY <3>1, <3>2, <3>3
    <2> QED BY <2>2, <1>1 DEF RemoteSound
  <1>5. DeliverySound'
    BY <1>1, <1>3 DEF DeliverySound
  <1> QED BY <1>4, <1>5

\* Unchanged tables stay sound.
LEMMA RowsUnchanged ==
    ASSUME RowsSound, UNCHANGED <<rows, remote>>
    PROVE  RowsSound' /\ Keys' = Keys
  <1>1. Keys' = Keys
    BY DEF Keys
  <1>2. \A r, q : Asked(r, q) <=> Asked(r, q)'
    BY <1>1 DEF Asked
  <1>3. \A row \in rows : OwnRowSound(row) => OwnRowSound(row)'
    BY <1>1, LogGrows DEF OwnRowSound
  <1>4. \A row \in rows : RemoteRowSound(row) => RemoteRowSound(row)'
    BY DEF RemoteRowSound
  <1> QED BY <1>1, <1>3, <1>4 DEF RowsSound

\* So do unchanged negotiations, when the log grows and no chosen offer is
\* forgotten.
LEMMA NegotiationsUnchanged ==
    ASSUME NegotiationsSound, UNCHANGED negotiations, Keys \subseteq Keys',
           \A s \in Request : flow[s].chosen # NoQuote => flow'[s].chosen # NoQuote
    PROVE  NegotiationsSound' /\ \A s : Recd(s) <=> Recd(s)'
  <1>1. \A s : Recd(s) <=> Recd(s)'
    BY DEF Recd, RowOf
  <1>2. ASSUME NEW i \in DOMAIN negotiations
        PROVE  Opened(negotiations[i].corr, negotiations[i].req)'
               /\ flow'[negotiations[i].req].chosen # NoQuote
    <2>1. PICK c, s : c = negotiations[i].corr /\ s = negotiations[i].req
      OBVIOUS
    <2>2. Opened(c, s)'
      BY <2>1, LogGrows DEF NegotiationsSound
    <2>3. negotiations[i] \in NegotiationSet
      BY NegotiationTyped DEF NegotiationsSound
    <2>5. s \in Request
      BY <2>1, <2>3 DEF NegotiationSet
    <2>4. flow[s].chosen # NoQuote
      BY <2>1 DEF NegotiationsSound
    <2> QED BY <2>1, <2>2, <2>4, <2>5
  <1> QED BY <1>1, <1>2 DEF NegotiationsSound

\* A request that only moves its workflow keeps the invariant.
LEMMA QuietStep ==
    ASSUME NegotiationInv, NEW r \in Request, NEW g, Moves(r, g),
           FlowSound(g, r) \/ FlowSound(g, r)',
           flow' = [flow EXCEPT ![r] = g],
           UNCHANGED <<memory, rows, negotiations, answer, inbox>>
    PROVE  NegotiationInv'
  <1> USE DEF NegotiationInv
  <1>1. RowsSound' /\ Keys' = Keys
    BY RowsUnchanged DEF inbox
  <1>2. g \in Flow
    BY DEF FlowSound
  <1>3. /\ \A k \in KeySet : Attempted(k) => Attempted(k)'
        /\ \A s \in Request : flow[s].chosen # NoQuote => flow'[s].chosen # NoQuote
        /\ AnswersSound'
    BY <1>2, MoveKeepsRest
  <1>4. NegotiationsSound' /\ \A s : Recd(s) <=> Recd(s)'
    BY <1>1, <1>3, NegotiationsUnchanged
  <1>5. DOMAIN quoteCorr' = DOMAIN quoteCorr
    BY DEF memory
  <1>6. FlowSound(g, r)'
    BY <1>1, <1>4, <1>5, FlowKept
  <1>7. FlowsSound'
    BY <1>1, <1>4, <1>5, <1>6, MoveKeepsFlows
  <1>8. MemorySound'
    BY <1>1, MemoryKept
  <1>9. OrderRowsSound'
    BY <1>1, <1>3 DEF OrderRowsSound
  <1>10. RemoteSound' /\ DeliverySound'
    BY <1>1, RemoteKept
  <1> QED BY <1>1, <1>3, <1>4, <1>7, <1>8, <1>9, <1>10

-----------------------------------------------------------------------------
(* Steps that move a workflow only.                                         *)

\* The exchange that asks for a quote is well begun, in the first round, after
\* a modification and in the recovery from a failed order.
LEMMA AskForQuoteSound ==
    ASSUME NEW f \in Flow, NEW r \in Request, f.qty \in Quantity, f.target \in Target,
           f.agreed => f.chosen # NoQuote /\ Recd(r),
           f.chosen # NoQuote => /\ Opened(f.corr, r) /\ Asked(r, f.chosen.qty)
                                 /\ f.rev = 1 => f.agreed
                                 /\ f.chosen.price < Floor(Price) => Undercut(r),
           f.rev = 1 /\ ~f.attempted => f.chosen = NoQuote
    PROVE  /\ FlowSound(AskForQuote(f, r), r)
           /\ AskForQuote(f, r).rev = f.rev /\ AskForQuote(f, r).chosen = f.chosen
           /\ AskForQuote(f, r).attempted = f.attempted
  <1> DEFINE key == Key("quote", r, f.qty)
  <1>k. key \in KeySet
    BY KeyFacts
  <1>1. CASE f.target > f.max
    <2> DEFINE g == [f EXCEPT !.pc = "raised"]
    <2>1. AskForQuote(f, r) = g
      BY <1>1 DEF AskForQuote
    <2>2. /\ g \in Flow /\ g.pc = "raised" /\ g.qty = f.qty /\ g.target = f.target
          /\ g.agreed = f.agreed /\ g.chosen = f.chosen /\ g.corr = f.corr /\ g.rev = f.rev
          /\ g.attempted = f.attempted
      BY DEF Flow, Stages, Over
    <2> HIDE DEF g
    <2>3. FlowSound(g, r)
      BY <2>2 DEF FlowSound, Exchanging
    <2> QED BY <2>1, <2>2, <2>3
  <1>2. CASE ~(f.target > f.max)
    <2> DEFINE g == [f EXCEPT !.pc = "sending", !.key = key, !.conv = key]
    <2>1. AskForQuote(f, r) = g
      BY <1>2 DEF AskForQuote, Exchange
    <2> HIDE DEF key
    <2>2. /\ g \in Flow /\ g.pc = "sending" /\ g.qty = f.qty /\ g.target = f.target
          /\ g.agreed = f.agreed /\ g.chosen = f.chosen /\ g.corr = f.corr /\ g.rev = f.rev
          /\ g.attempted = f.attempted /\ g.key = key /\ g.conv = key /\ g.max = f.max
      BY <1>k DEF Flow, Stages, Exchanging, AnyKey
    <2> HIDE DEF g
    <2>3. f.target \in Nat /\ f.max \in Nat
      BY FlowNumbers
    <2>4. Quoting(g, r)
      BY <1>2, <2>2, <2>3 DEF Quoting, key
    <2>5. FlowSound(g, r)
      BY <2>2, <2>4 DEF FlowSound
    <2> QED BY <2>1, <2>2, <2>5
  <1> QED BY <1>1, <1>2

\* A new request asks for its first quote.
LEMMA StartInv ==
    ASSUME NegotiationInv, NEW r \in Request, Start(r)
    PROVE  NegotiationInv'
  <1>1. PICK q \in Quantity, t \in Target :
          flow' = [flow EXCEPT ![r] =
                     AskForQuote([Idle EXCEPT !.qty = q, !.target = t, !.max = FirstLimit], r)]
    BY DEF Start
  <1> DEFINE f == [Idle EXCEPT !.qty = q, !.target = t, !.max = FirstLimit]
  <1>2. /\ f \in Flow /\ f.qty = q /\ f.target = t /\ f.agreed = FALSE /\ f.chosen = NoQuote
        /\ f.rev = 1
    BY InitialValues DEF Idle, Flow
  <1>3. flow[r] = Idle
    BY DEF NegotiationInv, FlowsSound, FlowSound, Start
  <1>4. flow[r].pc = "idle" /\ flow[r].chosen = NoQuote /\ flow[r].attempted = FALSE /\ flow[r].rev = 1
    BY <1>3 DEF Idle
  <1> HIDE DEF f
  <1>5. PICK g : g = AskForQuote(f, r)
    OBVIOUS
  <1>6. FlowSound(g, r) /\ g.rev = f.rev
    BY <1>2, <1>5, AskForQuoteSound
  <1>7. Moves(r, g)
    BY <1>2, <1>4, <1>6 DEF Moves
  <1>8. flow' = [flow EXCEPT ![r] = g]
    BY <1>1, <1>5 DEF f
  <1> QED BY <1>6, <1>7, <1>8, QuietStep DEF Start

\* What a waiting workflow is, with the parts of its soundness.
LEMMA FlowFacts ==
    ASSUME FlowsSound, NEW r \in Request
    PROVE  /\ flow[r] \in Flow /\ FlowSound(flow[r], r)
           /\ flow[r].pc # "idle" => flow[r].qty \in Quantity /\ flow[r].target \in Target
  BY DEF FlowsSound, FlowSound

\* The agent remembers its answer, or refuses to repeat one that expired.
LEMMA AskAgainInv ==
    ASSUME NegotiationInv, NEW r \in Request, AskAgain(r)
    PROVE  NegotiationInv'
  <1>1. PICK f : f = flow[r]
    OBVIOUS
  <1>2. f.pc = "asking" /\ f.key \in DOMAIN results /\ f \in Flow /\ FlowSound(f, r)
    BY <1>1, FlowFacts DEF AskAgain, NegotiationInv
  <1>3. PICK g : g = IF f.key \in fresh THEN [f EXCEPT !.pc = "keeping", !.reply = results[f.key]]
                     ELSE [f EXCEPT !.pc = "raised"]
    OBVIOUS
  <1>4. flow' = [flow EXCEPT ![r] = g]
    BY <1>1, <1>3 DEF AskAgain
  <1>5. ReplySound(f.key, results[f.key])
    BY <1>2 DEF NegotiationInv, MemorySound
  <1>6. PICK reply : reply = results[f.key]
    OBVIOUS
  <1>7. reply \in Replies /\ ReplySound(f.key, reply)
    BY <1>5, <1>6 DEF ReplySound
  <1>8. FlowSound(g, r) /\ g.rev = f.rev /\ g.chosen = f.chosen /\ g.attempted = f.attempted
    <2>1. CASE g = [f EXCEPT !.pc = "raised"]
      <3>1. /\ g \in Flow /\ g.pc = "raised" /\ g.qty = f.qty /\ g.target = f.target
            /\ g.agreed = f.agreed /\ g.chosen = f.chosen /\ g.corr = f.corr /\ g.rev = f.rev
            /\ g.attempted = f.attempted
        BY <2>1, <1>2 DEF Flow, Stages, Over
      <3> QED BY <3>1, <1>2 DEF FlowSound, Exchanging
    <2>2. CASE g = [f EXCEPT !.pc = "keeping", !.reply = reply]
      <3>1. /\ g \in Flow /\ g.pc = "keeping" /\ g.reply = reply /\ g.qty = f.qty
            /\ g.target = f.target /\ g.max = f.max /\ g.key = f.key /\ g.conv = f.conv
            /\ g.quote = f.quote /\ g.agreed = f.agreed /\ g.chosen = f.chosen
            /\ g.corr = f.corr /\ g.rev = f.rev /\ g.attempted = f.attempted
        BY <2>2, <1>2, <1>7 DEF Flow, Stages, Exchanging
      <3>2. Quoting(f, r) => Quoting(g, r)
        BY <3>1, <1>2, <1>7 DEF Quoting
      <3>3. Countering(f, r) => Countering(g, r)
        BY <3>1, <1>2, <1>7 DEF Countering, QuoteInHand
      <3>4. Ordering(f, r) => Ordering(g, r)
        BY <3>1, <1>2, <1>7 DEF Ordering
      <3> QED BY <3>1, <3>2, <3>3, <3>4, <1>2 DEF FlowSound, Exchanging
    <2> QED BY <2>1, <2>2, <1>3, <1>6
  <1>9. Moves(r, g)
    BY <1>1, <1>2, <1>8 DEF Moves
  <1> QED BY <1>4, <1>8, <1>9, QuietStep DEF AskAgain

\* The agent refuses.
LEMMA AskFailsInv ==
    ASSUME NegotiationInv, NEW r \in Request, AskFails(r)
    PROVE  NegotiationInv'
  <1>1. PICK f : f = flow[r]
    OBVIOUS
  <1>2. f.pc = "asking" /\ f \in Flow /\ FlowSound(f, r)
    BY <1>1, FlowFacts DEF AskFails, NegotiationInv
  <1>3. PICK pc : pc = CASE f.key.kind = "quote" -> "failed"
                         [] f.key.kind = "counter" -> "raised"
                         [] f.key.kind = "order" -> "keeping"
    OBVIOUS
  <1>4. PICK g : g = [f EXCEPT !.pc = pc, !.reply = NoReply]
    OBVIOUS
  <1>5. flow' = [flow EXCEPT ![r] = g]
    <2>1. flow' = [flow EXCEPT ![r].pc = pc, ![r].reply = NoReply]
      BY <1>1, <1>3 DEF AskFails
    <2>2. flow \in [Request -> Flow]
      BY DEF NegotiationInv, FlowsSound
    <2> QED BY <1>1, <1>4, <2>1, <2>2
  <1>6. Quoting(f, r) \/ Countering(f, r) \/ Ordering(f, r)
    BY <1>2 DEF FlowSound, Exchanging
  <1>7. /\ Quoting(f, r) => f.key.kind = "quote"
        /\ Countering(f, r) => f.key.kind = "counter"
        /\ Ordering(f, r) => f.key.kind = "order"
    BY KeyFacts DEF Quoting, Countering, Ordering
  <1>8. \/ Quoting(f, r) /\ pc = "failed"
        \/ Countering(f, r) /\ pc = "raised"
        \/ Ordering(f, r) /\ pc = "keeping"
    BY <1>3, <1>6, <1>7
  <1>9. /\ g \in Flow /\ g.pc = pc /\ g.reply = NoReply /\ g.qty = f.qty
        /\ g.target = f.target /\ g.max = f.max /\ g.key = f.key /\ g.conv = f.conv
        /\ g.agreed = f.agreed /\ g.chosen = f.chosen
        /\ g.corr = f.corr /\ g.rev = f.rev /\ g.attempted = f.attempted
    BY <1>2, <1>4, <1>8, InitialValues DEF Flow, Stages, Exchanging, Over
  <1>10. pc = "keeping" => Ordering(g, r)
    BY <1>8, <1>9 DEF Ordering
  <1>11. FlowSound(g, r)
    BY <1>2, <1>8, <1>9, <1>10 DEF FlowSound, Exchanging
  <1>12. Moves(r, g)
    BY <1>1, <1>2, <1>9 DEF Moves
  <1> QED BY <1>5, <1>11, <1>12, QuietStep DEF AskFails

\* The workflow that has settled on a quote in the conversation c.
SettledOn(f, quote, c) ==
    [Answered(f) EXCEPT !.pc = "recording", !.agreed = TRUE, !.chosen = quote,
                        !.quote = NoQuote, !.corr = c]

\* A quote within the limits, in a conversation of r, with its trail in the log.
OfferFits(f, r, quote, c) ==
    /\ f \in Flow /\ quote \in Quoted /\ c \in KeySet
    /\ f.qty \in Quantity /\ f.target \in Target /\ quote.qty \in Quantity
    /\ Opened(c, r) /\ Asked(r, quote.qty)
    /\ quote.price <= f.max /\ f.qty <= Stock /\ ~f.attempted
    /\ \A dir \in {"out", "in"} :
         /\ <<Key("quote", r, f.qty), dir>> \in Keys
         /\ quote.price > f.target => <<Key("counter", r, 0), dir>> \in Keys
    /\ quote.price < Floor(Price) => Undercut(r)

\* A fitting offer is settled on.
LEMMA SettledSound ==
    ASSUME NEW f, NEW r \in Request, NEW quote, NEW c, OfferFits(f, r, quote, c)'
    PROVE  /\ FlowSound(SettledOn(f, quote, c), r)'
           /\ SettledOn(f, quote, c).rev = f.rev
           /\ SettledOn(f, quote, c).attempted = f.attempted
           /\ SettledOn(f, quote, c).chosen # NoQuote
  <1> DEFINE g == SettledOn(f, quote, c)
  <1>1. /\ g \in Flow /\ g.pc = "recording" /\ g.qty = f.qty /\ g.target = f.target
        /\ g.max = f.max /\ g.agreed = TRUE /\ g.chosen = quote
        /\ g.corr = c /\ g.rev = f.rev /\ g.attempted = f.attempted
    BY InitialValues DEF Flow, Stages, Answered, AnyKey, SettledOn, OfferFits
  <1> HIDE DEF g
  <1>2. g.chosen # NoQuote
    BY <1>1, ConstantFacts DEF NoQuote, OfferFits
  <1>3. OfferSound(g, r)'
    BY <1>1 DEF OfferSound, OfferFits
  <1>4. FlowSound(g, r)'
    BY <1>1, <1>2, <1>3 DEF FlowSound, Exchanging, OfferFits
  <1> QED BY <1>1, <1>2, <1>4 DEF g

\* The conversation of a quote that was asked for.
LEMMA QuoteConversation ==
    ASSUME MemorySound, NEW r \in Request, NEW q \in DOMAIN quoteCorr, Asked(r, q)
    PROVE  q \in Quantity /\ quoteCorr[q] \in KeySet /\ Opened(quoteCorr[q], r)
  <1>1. q \in Quantity
    BY DEF MemorySound
  <1>2. PICK s \in Request : quoteCorr[q] = Key("quote", s, q) /\ Asked(s, q)
    BY DEF MemorySound
  <1> QED BY <1>1, <1>2, KeyFacts DEF Opened

\* The floor is not above the price.
LEMMA FloorFacts == \A p \in Nat : Floor(p) \in Nat /\ Floor(p) <= p
  BY DEF Floor

\* A quote at or below the target is taken, any other countered.
LEMMA NegotiateInv ==
    ASSUME NegotiationInv, NEW r \in Request, Negotiate(r)
    PROVE  NegotiationInv'
  <1>1. PICK f : f = flow[r]
    OBVIOUS
  <1>2. f.pc = "quoted" /\ f \in Flow /\ FlowSound(f, r)
    BY <1>1, FlowFacts DEF Negotiate, NegotiationInv
  <1>3. QuoteInHand(f, r) /\ f.qty \in Quantity /\ f.target \in Target
    BY <1>2 DEF FlowSound
  <1>4. f.quote.qty = f.qty /\ f.quote.price = Price /\ f.quote \in Quoted /\ Asked(r, f.qty)
    BY <1>2, <1>3 DEF QuoteInHand, Flow, Asked
  <1>5. PICK c : c = quoteCorr[f.qty]
    OBVIOUS
  <1>6. c \in KeySet /\ Opened(c, r)
    BY <1>3, <1>4, <1>5, QuoteConversation DEF QuoteInHand, NegotiationInv
  <1>7. UNCHANGED <<memory, rows, negotiations, answer, inbox>>
    BY DEF Negotiate
  <1>8. Keys' = Keys
    BY <1>7 DEF Keys
  <1>9. CASE f.quote.price <= f.target
    <2>1. PICK quote, g : quote = f.quote /\ g = SettledOn(f, quote, c)
      OBVIOUS
    <2>2. flow' = [flow EXCEPT ![r] = g]
      BY <1>1, <1>4, <1>5, <1>9, <2>1 DEF Negotiate, Settled, SettledOn
    <2>3. Price <= f.max /\ f.qty <= Stock /\ ~f.attempted /\ Price <= f.target
      BY <1>2, <1>3, <1>4, <1>9, FlowNumbers, ConstantFacts DEF QuoteInHand
    <2>4. ~(Price < Floor(Price)) /\ ~(Price > f.target)
      BY <2>3, <1>2, FloorFacts, FlowNumbers, ConstantFacts
    <2>5. \A dir \in {"out", "in"} : (<<Key("quote", r, f.qty), dir>> \in Keys)'
      BY <1>3, <1>8 DEF QuoteInHand
    <2>6. Opened(c, r)' /\ Asked(r, f.quote.qty)'
      BY <1>4, <1>6, <1>8, LogGrows
    <2>7. OfferFits(f, r, quote, c)'
      BY <1>2, <1>3, <1>4, <1>6, <2>1, <2>3, <2>4, <2>5, <2>6 DEF OfferFits
    <2>9. FlowSound(g, r)' /\ g.rev = f.rev /\ g.attempted = f.attempted /\ g.chosen # NoQuote
      BY <2>1, <2>7, SettledSound
    <2>8. Moves(r, g)
      BY <1>1, <1>2, <2>9 DEF Moves
    <2> QED BY <1>7, <2>2, <2>9, <2>8, QuietStep
  <1>10. CASE ~(f.quote.price <= f.target)
    <2> DEFINE key == Key("counter", r, 0)
    <2>1. PICK g : g = [f EXCEPT !.pc = "sending", !.key = key, !.conv = c]
      OBVIOUS
    <2>2. flow' = [flow EXCEPT ![r] = g]
      BY <1>1, <1>4, <1>5, <1>10, <2>1 DEF Negotiate, Exchange
    <2>3. key \in KeySet
      BY KeyFacts
    <2> HIDE DEF key
    <2>4. /\ g \in Flow /\ g.pc = "sending" /\ g.qty = f.qty /\ g.target = f.target
          /\ g.max = f.max /\ g.agreed = f.agreed /\ g.chosen = f.chosen /\ g.quote = f.quote
          /\ g.corr = f.corr /\ g.rev = f.rev /\ g.attempted = f.attempted
          /\ g.key = key /\ g.conv = c
      BY <1>2, <1>6, <2>1, <2>3 DEF Flow, Stages, Exchanging, AnyKey
    <2>5. f.target < Price
      BY <1>2, <1>4, <1>10, FlowNumbers, ConstantFacts
    <2>6. QuoteInHand(g, r)
      BY <1>3, <2>4 DEF QuoteInHand
    <2>7. Countering(g, r)
      BY <1>6, <2>4, <2>5, <2>6 DEF Countering, key
    <2>8. FlowSound(g, r)
      BY <1>2, <2>4, <2>7 DEF FlowSound
    <2>9. Moves(r, g)
      BY <1>1, <1>2, <2>4 DEF Moves
    <2> QED BY <1>7, <2>2, <2>8, <2>9, QuietStep
  <1> QED BY <1>9, <1>10

\* The merchant approves: the order goes out in the quote's conversation, if
\* that is still known.
LEMMA ApproveInv ==
    ASSUME NegotiationInv, NEW r \in Request, Approve(r)
    PROVE  NegotiationInv'
  <1>1. PICK f : f = flow[r]
    OBVIOUS
  <1>2. f.pc = "approval" /\ f \in Flow /\ FlowSound(f, r)
    BY <1>1, FlowFacts DEF Approve, NegotiationInv
  <1> DEFINE key == Key("order", r, f.rev)
  <1>3. PICK c : c = IF f.chosen.qty \in DOMAIN quoteCorr THEN quoteCorr[f.chosen.qty] ELSE key
    OBVIOUS
  <1>4. key \in KeySet
    BY <1>2, KeyFacts DEF Flow
  <1>5. f.chosen # NoQuote /\ f.agreed /\ ~f.attempted
    BY <1>2 DEF FlowSound, OfferSound
  <1>6. c \in KeySet /\ (c = key \/ Opened(c, r))
    BY <1>2, <1>3, <1>4, <1>5, QuoteConversation DEF FlowSound, NegotiationInv
  <1>7. PICK g : g = [f EXCEPT !.pc = "asking", !.key = key, !.conv = c]
    OBVIOUS
  <1>8. flow' = [flow EXCEPT ![r] = g]
    <2>1. flow' = [flow EXCEPT ![r] = [Exchange(f, key, c) EXCEPT !.pc = "asking"]]
      BY <1>1, <1>3 DEF Approve
    <2>2. [Exchange(f, key, c) EXCEPT !.pc = "asking"] = g
      BY <1>2, <1>7 DEF Exchange, Flow
    <2> QED BY <2>1, <2>2
  <1> HIDE DEF key
  <1>9. /\ g \in Flow /\ g.pc = "asking" /\ g.qty = f.qty /\ g.target = f.target
        /\ g.agreed = f.agreed /\ g.chosen = f.chosen /\ g.corr = f.corr /\ g.rev = f.rev
        /\ g.attempted = f.attempted /\ g.key = key /\ g.conv = c
    BY <1>2, <1>4, <1>6, <1>7 DEF Flow, Stages, Exchanging, AnyKey
  <1>10. Ordering(g, r)
    BY <1>5, <1>6, <1>9 DEF Ordering, key
  <1>11. FlowSound(g, r)
    BY <1>2, <1>9, <1>10 DEF FlowSound
  <1>12. Moves(r, g)
    BY <1>1, <1>2, <1>9 DEF Moves
  <1> QED BY <1>8, <1>11, <1>12, QuietStep DEF Approve

\* The merchant rejects.
LEMMA RejectInv ==
    ASSUME NegotiationInv, NEW r \in Request, Reject(r)
    PROVE  NegotiationInv'
  <1>1. PICK f : f = flow[r]
    OBVIOUS
  <1>2. f.pc = "approval" /\ f \in Flow /\ FlowSound(f, r)
    BY <1>1, FlowFacts DEF Reject, NegotiationInv
  <1>3. PICK g : g = [f EXCEPT !.pc = "rejected"]
    OBVIOUS
  <1>4. flow' = [flow EXCEPT ![r] = g]
    BY <1>1, <1>3 DEF Reject
  <1>5. /\ g \in Flow /\ g.pc = "rejected" /\ g.qty = f.qty /\ g.target = f.target
        /\ g.agreed = f.agreed /\ g.chosen = f.chosen /\ g.corr = f.corr /\ g.rev = f.rev
        /\ g.attempted = f.attempted
    BY <1>2, <1>3 DEF Flow, Stages, Over
  <1>6. FlowSound(g, r)
    BY <1>2, <1>5 DEF FlowSound, Exchanging
  <1>7. Moves(r, g)
    BY <1>1, <1>2, <1>5 DEF Moves
  <1> QED BY <1>4, <1>6, <1>7, QuietStep DEF Reject

\* The merchant asks for another quantity and another limit.
LEMMA ModifyInv ==
    ASSUME NegotiationInv, NEW r \in Request, Modify(r)
    PROVE  NegotiationInv'
  <1>1. PICK f : f = flow[r]
    OBVIOUS
  <1>2. f.pc = "approval" /\ f \in Flow /\ FlowSound(f, r) /\ f.rev < MaxRevisions
    BY <1>1, FlowFacts DEF Modify, NegotiationInv
  <1>3. PICK n : n = f.rev + 1
    OBVIOUS
  <1>4. n \in 1..MaxRevisions /\ n > f.rev /\ n # 1
    BY <1>2, <1>3, FlowNumbers, ConstantFacts DEF Flow
  <1>5. PICK q \in Quantity, m \in Limit :
          flow' = [flow EXCEPT ![r] = AskForQuote([f EXCEPT !.qty = q, !.max = m,
                                                  !.rev = f.rev + 1, !.attempted = FALSE], r)]
    BY <1>1 DEF Modify
  <1> DEFINE h == [f EXCEPT !.qty = q, !.max = m, !.rev = n, !.attempted = FALSE]
  <1>6. /\ h \in Flow /\ h.qty = q /\ h.target = f.target /\ h.agreed = f.agreed
        /\ h.chosen = f.chosen /\ h.corr = f.corr /\ h.rev = n /\ h.attempted = FALSE
    BY <1>2, <1>4 DEF Flow
  <1>7. flow' = [flow EXCEPT ![r] = AskForQuote(h, r)]
    BY <1>3, <1>5
  <1> HIDE DEF h
  <1>8. PICK g : g = AskForQuote(h, r)
    OBVIOUS
  <1>9. FlowSound(g, r) /\ g.rev = h.rev /\ g.chosen = h.chosen
    BY <1>2, <1>4, <1>6, <1>8, AskForQuoteSound DEF FlowSound
  <1>10. Moves(r, g)
    BY <1>1, <1>2, <1>4, <1>6, <1>9 DEF Moves
  <1> QED BY <1>7, <1>8, <1>9, <1>10, QuietStep DEF Modify

-----------------------------------------------------------------------------
(* The log.                                                                 *)

\* A request moves while the tables around it stay sound.
LEMMA LoudStep ==
    ASSUME NegotiationInv, NEW r \in Request, NEW g, Moves(r, g), FlowSound(g, r)',
           flow' = [flow EXCEPT ![r] = g], UNCHANGED <<answer, inbox>>,
           RowsSound', MemorySound', NegotiationsSound', Keys \subseteq Keys',
           DOMAIN quoteCorr \subseteq DOMAIN quoteCorr',
           \A s \in Request : Recd(s) => Recd(s)',
           \A key \in Keys' : \/ key \in Keys
                              \/ key[1] \in KeySet /\ (key[1].kind = "order" => Attempted(key[1])')
    PROVE  NegotiationInv'
  <1> USE DEF NegotiationInv
  <1>1. g \in Flow
    BY DEF FlowSound
  <1>2. /\ \A k \in KeySet : Attempted(k) => Attempted(k)'
        /\ AnswersSound'
    BY <1>1, MoveKeepsRest
  <1>3. FlowsSound'
    BY MoveKeepsFlows
  <1>4. OrderRowsSound'
    BY <1>2 DEF OrderRowsSound
  <1>5. RemoteSound' /\ DeliverySound'
    BY RemoteKept
  <1> QED BY <1>2, <1>3, <1>4, <1>5

\* A request moves and one message that is not an order is recorded.
LEMMA RecordStep ==
    ASSUME NegotiationInv, NEW r \in Request, NEW g, Moves(r, g), FlowSound(g, r)',
           flow' = [flow EXCEPT ![r] = g], UNCHANGED <<answer, inbox>>,
           RowsSound', MemorySound', NegotiationsSound',
           DOMAIN quoteCorr \subseteq DOMAIN quoteCorr',
           \A s : Recd(s) <=> Recd(s)',
           NEW k \in KeySet, NEW dir, k.kind # "order", Keys' = Keys \cup {<<k, dir>>}
    PROVE  NegotiationInv'
  <1>1. Keys \subseteq Keys'
    OBVIOUS
  <1>2. \A key \in Keys' : \/ key \in Keys
                           \/ key[1] \in KeySet /\ (key[1].kind = "order" => Attempted(key[1])')
    <2> TAKE key \in Keys'
    <2>1. key \in Keys \/ key = <<k, dir>>
      OBVIOUS
    <2>2. key = <<k, dir>> => key[1] \in KeySet /\ key[1].kind # "order"
      OBVIOUS
    <2> QED BY <2>1, <2>2
  <1>3. \A s \in Request : Recd(s) => Recd(s)'
    OBVIOUS
  <1> QED BY <1>1, <1>2, <1>3, LoudStep

\* A row of the log has its key in the log.
LEMMA RowKeyFacts ==
    ASSUME rows \subseteq RowSet, NEW row \in rows
    PROVE  row.key \in Keys /\ row.key[1] \in KeySet \cup Remote /\ row.key[2] \in {"out", "in"}
  BY DEF Keys, RowSet

\* What a growing log says of its old rows.
LEMMA OldRowKept ==
    ASSUME RowsSound, NEW row \in rows, Keys \subseteq Keys', UNCHANGED remote
    PROVE  /\ row.key[1] \in KeySet => OwnRowSound(row)'
           /\ row.key[1] \in Remote => RemoteRowSound(row)'
  <1>1. row.key[1] \in KeySet => OwnRowSound(row)
    BY DEF RowsSound
  <1>2. OwnRowSound(row) => OwnRowSound(row)'
    BY LogGrows DEF OwnRowSound
  <1>3. row.key[1] \in Remote => RemoteRowSound(row)
    BY DEF RowsSound
  <1>4. RemoteRowSound(row) => RemoteRowSound(row)'
    BY DEF RemoteRowSound
  <1> QED BY <1>1, <1>2, <1>3, <1>4

\* Rows with new keys are added.
LEMMA AddRows ==
    ASSUME RowsSound, UNCHANGED remote, NEW S, rows' = rows \cup S, S \subseteq RowSet,
           \A row \in S : row.key \notin Keys,
           \A a, b \in S : a.key = b.key => a = b,
           \A row \in S : row.key[1] \in KeySet => OwnRowSound(row)',
           \A row \in S : row.key[1] \in Remote => RemoteRowSound(row)'
    PROVE  RowsSound' /\ Keys' = Keys \cup {row.key : row \in S}
  <1>1. Keys' = Keys \cup {row.key : row \in S}
    BY DEF Keys
  <1>2. \A row \in rows' : row.key[1] \in KeySet => OwnRowSound(row)'
    <2> TAKE row \in rows'
    <2> QED BY <1>1, OldRowKept
  <1>3. \A row \in rows' : row.key[1] \in Remote => RemoteRowSound(row)'
    <2> TAKE row \in rows'
    <2> QED BY <1>1, OldRowKept
  <1>4. rows' \subseteq RowSet
    BY DEF RowsSound
  <1>5. \A row \in rows : row.key \in Keys
    BY DEF Keys
  <1>6. \A a, b \in rows' : a.key = b.key => a = b
    <2> SUFFICES ASSUME NEW a \in rows', NEW b \in rows', a.key = b.key PROVE a = b
      OBVIOUS
    <2>1. CASE a \in rows /\ b \in rows
      BY <2>1 DEF RowsSound
    <2>2. CASE a \in S /\ b \in S
      BY <2>2
    <2>3. CASE a \in S /\ b \in rows
      BY <2>3, <1>5
    <2>4. CASE a \in rows /\ b \in S
      BY <2>4, <1>5
    <2> QED BY <2>1, <2>2, <2>3, <2>4
  <1> QED BY <1>1, <1>2, <1>3, <1>4, <1>6 DEF RowsSound

\* The negotiation a conversation is filed under shares it.
LEMMA NegotiationOfFacts ==
    ASSUME NegotiationsSound, NEW c
    PROVE  /\ NegotiationOf(c) \in Request \cup {None}
           /\ NegotiationOf(c) # None =>
                \E i \in DOMAIN negotiations : /\ negotiations[i].corr = c
                                               /\ negotiations[i].req = NegotiationOf(c)
                                               /\ Opened(c, NegotiationOf(c))
  <1> DEFINE own == {i \in DOMAIN negotiations : negotiations[i].corr = c}
  <1>1. CASE own = {}
    BY <1>1 DEF NegotiationOf
  <1>2. CASE own # {}
    <2>1. PICK i : i = CHOOSE j \in own : TRUE
      OBVIOUS
    <2>2. i \in own
      BY <1>2, <2>1
    <2>3. NegotiationOf(c) = negotiations[i].req
      BY <1>2, <2>1 DEF NegotiationOf
    <2>4. negotiations[i].req \in Request
      BY <2>2, NegotiationTyped DEF NegotiationsSound
    <2>5. Opened(negotiations[i].corr, negotiations[i].req)
      BY <2>2 DEF NegotiationsSound
    <2> QED BY <2>2, <2>3, <2>4, <2>5
  <1> QED BY <1>1, <1>2

\* A new row of a request is filed in its conversation.
LEMMA NewRowSound ==
    ASSUME NegotiationsSound, NEW k \in KeySet, NEW dir \in {"out", "in"}, NEW c \in KeySet,
           Keys \subseteq Keys',
           Opened(c, k.req)' \/ (c = k /\ k.kind = "order"),
           k.kind = "quote" /\ dir = "out" => c = k,
           NEW n, n = NegotiationOf(c)
    PROVE  Row(k, dir, c, TRUE, n) \in RowSet /\ OwnRowSound(Row(k, dir, c, TRUE, n))'
  <1> DEFINE row == Row(k, dir, c, TRUE, n)
  <1>2. n \in Request \cup {None} /\ (n # None => Opened(c, n))
    BY NegotiationOfFacts
  <1>3. /\ row \in RowSet /\ row.key = <<k, dir>> /\ row.key[1] = k /\ row.key[2] = dir
        /\ row.corr = c /\ row.merchant = TRUE /\ row.neg = n
    BY <1>2 DEF Row, RowSet
  <1> HIDE DEF row
  <1>4. n # None => n = k.req \/ Share(n, k.req)'
    <2> SUFFICES ASSUME n # None PROVE Share(n, k.req)'
      OBVIOUS
    <2>1. Opened(c, n)
      BY <1>2
    <2>2. c.kind = "quote"
      BY <2>1, OpenedFacts
    <2>3. Opened(c, k.req)' /\ Opened(c, n)'
      BY <2>1, <2>2, LogGrows
    <2>4. PICK s \in Request, q \in Quantity : c = Key("quote", s, q) /\ Asked(k.req, q)'
      BY <2>3 DEF Opened
    <2>5. PICK t \in Request, p \in Quantity : c = Key("quote", t, p) /\ Asked(n, p)'
      BY <2>3 DEF Opened
    <2>6. q = p
      BY <2>4, <2>5, KeyFacts
    <2> QED BY <2>4, <2>5, <2>6 DEF Share
  <1>5. OwnRowSound(row)'
    BY <1>3, <1>4 DEF OwnRowSound
  <1> QED BY <1>3, <1>5 DEF row

\* record adds a row unless its key is there.
LEMMA RecordRows ==
    ASSUME RowsSound, NegotiationsSound, UNCHANGED remote,
           NEW k \in KeySet, NEW dir \in {"out", "in"}, NEW c \in KeySet,
           rows' = Record(k, dir, c), Opened(c, k.req)' \/ (c = k /\ k.kind = "order"),
           k.kind = "quote" /\ dir = "out" => c = k
    PROVE  RowsSound' /\ Keys' = Keys \cup {<<k, dir>>}
  <1>1. CASE <<k, dir>> \in Keys
    BY <1>1, RowsUnchanged DEF Record
  <1>2. CASE <<k, dir>> \notin Keys
    <2>n. PICK n : n = NegotiationOf(c)
      OBVIOUS
    <2>1. PICK row : row = Row(k, dir, c, TRUE, n)
      OBVIOUS
    <2>2. rows' = rows \cup {row}
      BY <1>2, <2>n, <2>1 DEF Record
    <2>3. Keys \subseteq Keys'
      BY <2>2 DEF Keys
    <2>4. row \in RowSet /\ row.key = <<k, dir>> /\ row.key[1] = k /\ OwnRowSound(row)'
      <3>1. Row(k, dir, c, TRUE, n) \in RowSet /\ OwnRowSound(Row(k, dir, c, TRUE, n))'
        BY <2>3, <2>n, NewRowSound
      <3>2. row.key = <<k, dir>> /\ row.key[1] = k
        BY <2>1 DEF Row
      <3> QED BY <3>1, <3>2, <2>1
    <2>5. k \notin Remote
      BY ConstantFacts
    <2>6. PICK S : S = {row}
      OBVIOUS
    <2>7. /\ rows' = rows \cup S /\ S \subseteq RowSet /\ \A x \in S : x.key \notin Keys
          /\ \A a, b \in S : a.key = b.key => a = b
          /\ \A x \in S : x.key[1] \in KeySet => OwnRowSound(x)'
          /\ \A x \in S : x.key[1] \in Remote => RemoteRowSound(x)'
          /\ {x.key : x \in S} = {<<k, dir>>}
      BY <1>2, <2>2, <2>4, <2>5, <2>6
    <2>8. RowsSound' /\ Keys' = Keys \cup {x.key : x \in S}
      BY <2>7, AddRows
    <2> QED BY <2>7, <2>8
  <1> QED BY <1>1, <1>2

\* record enters the key.
LEMMA RecordKeys ==
    ASSUME NEW k, NEW dir, NEW c, rows' = Record(k, dir, c)
    PROVE  Keys' = Keys \cup {<<k, dir>>}
  <1>1. CASE <<k, dir>> \in Keys
    BY <1>1 DEF Record, Keys
  <1>2. CASE <<k, dir>> \notin Keys
    <2>1. PICK row : row = Row(k, dir, c, TRUE, NegotiationOf(c))
      OBVIOUS
    <2>2. rows' = rows \cup {row}
      BY <1>2, <2>1 DEF Record
    <2>3. row.key = <<k, dir>>
      BY <2>1 DEF Row
    <2>4. Keys' = {x.key : x \in rows'}
      BY DEF Keys
    <2>5. {x.key : x \in rows'} = {x.key : x \in rows} \cup {row.key}
      BY <2>2
    <2> QED BY <2>3, <2>4, <2>5 DEF Keys
  <1> QED BY <1>1, <1>2

\* The kinds of an exchange.
LEMMA ExchangeFacts ==
    ASSUME NEW f, NEW r \in Request, FlowSound(f, r), f.pc \in Exchanging
    PROVE  /\ f.qty \in Quantity /\ f.target \in Target /\ f \in Flow
           /\ Quoting(f, r) \/ Countering(f, r) \/ Ordering(f, r)
           /\ Quoting(f, r) <=> f.key.kind = "quote"
           /\ Countering(f, r) <=> f.key.kind = "counter"
           /\ Ordering(f, r) <=> f.key.kind = "order"
           /\ f.key \in KeySet /\ f.key.req = r /\ f.conv \in KeySet
  <1>1. f.qty \in Quantity /\ f.target \in Target /\ f \in Flow
    BY DEF FlowSound, Exchanging
  <1>2. Quoting(f, r) \/ Countering(f, r) \/ Ordering(f, r)
    BY DEF FlowSound
  <1>o. Opened(f.conv, r) => f.conv \in KeySet
    BY OpenedFacts
  <1>k. /\ Key("quote", r, f.qty) \in KeySet /\ Key("counter", r, 0) \in KeySet
        /\ f.rev \in 1..MaxRevisions /\ Key("order", r, f.rev) \in KeySet
    BY <1>1, KeyFacts DEF Flow
  <1>3. Quoting(f, r) => f.key.kind = "quote" /\ f.key.req = r /\ f.key \in KeySet /\ f.conv \in KeySet
    BY <1>k, KeyFacts DEF Quoting
  <1>5. Countering(f, r) => f.key.kind = "counter" /\ f.key.req = r /\ f.key \in KeySet /\ f.conv \in KeySet
    BY <1>o, <1>k, KeyFacts DEF Countering
  <1>4. Ordering(f, r) => f.key.kind = "order" /\ f.key.req = r /\ f.key \in KeySet /\ f.conv \in KeySet
    BY <1>o, <1>k, KeyFacts DEF Ordering
  <1> QED BY <1>1, <1>2, <1>3, <1>4, <1>5

\* The envelope is recorded and then sent.
LEMMA SendInv ==
    ASSUME NegotiationInv, NEW r \in Request, Send(r)
    PROVE  NegotiationInv'
  <1> USE DEF NegotiationInv
  <1>1. PICK f : f = flow[r]
    OBVIOUS
  <1>2. f.pc = "sending" /\ f \in Flow /\ FlowSound(f, r) /\ f.pc \in Exchanging
    BY <1>1, FlowFacts DEF Send, Exchanging
  <1>3. PICK g : g = [f EXCEPT !.pc = "asking"]
    OBVIOUS
  <1>4. flow' = [flow EXCEPT ![r] = g] /\ rows' = Record(f.key, "out", f.conv)
    BY <1>1, <1>3 DEF Send
  <1>5. Keys' = Keys \cup {<<f.key, "out">>}
    BY <1>4, RecordKeys
  <1>6. /\ f.qty \in Quantity /\ f.key \in KeySet /\ f.conv \in KeySet /\ f.key.req = r
        /\ Quoting(f, r) \/ Countering(f, r)
        /\ f.key.kind # "order"
    BY <1>2, ExchangeFacts DEF Ordering
  <1>7. UNCHANGED <<memory, negotiations, answer, inbox>>
    BY DEF Send
  <1>8. Opened(f.conv, r)' /\ (f.key.kind = "quote" => f.conv = f.key)
    <2>1. CASE Quoting(f, r)
      <3>1. f.conv = Key("quote", r, f.qty) /\ f.key = f.conv
        BY <2>1 DEF Quoting
      <3>2. Asked(r, f.qty)'
        BY <3>1, <1>5 DEF Asked
      <3> QED BY <1>6, <3>1, <3>2 DEF Opened
    <2>2. CASE Countering(f, r)
      <3>1. Opened(f.conv, r) /\ f.key.kind = "counter"
        BY <2>2, KeyFacts DEF Countering
      <3> QED BY <3>1, <1>5, LogGrows
    <2> QED BY <1>6, <2>1, <2>2
  <1>9. RowsSound'
    BY <1>4, <1>6, <1>7, <1>8, RecordRows DEF inbox
  <1>10. /\ g \in Flow /\ g.pc = "asking" /\ g.qty = f.qty /\ g.target = f.target
         /\ g.max = f.max /\ g.agreed = f.agreed /\ g.chosen = f.chosen /\ g.quote = f.quote
         /\ g.corr = f.corr /\ g.rev = f.rev /\ g.attempted = f.attempted
         /\ g.key = f.key /\ g.conv = f.conv
    BY <1>2, <1>3 DEF Flow, Stages, Exchanging
  <1>11. Moves(r, g)
    BY <1>1, <1>2, <1>10 DEF Moves
  <1>12. NegotiationsSound' /\ \A s : Recd(s) <=> Recd(s)'
    <2>1. \A s \in Request : flow[s].chosen # NoQuote => flow'[s].chosen # NoQuote
      BY <1>4, <1>10, <1>11, MoveKeepsRest
    <2> QED BY <2>1, <1>5, <1>7, NegotiationsUnchanged
  <1>13. DOMAIN quoteCorr' = DOMAIN quoteCorr
    BY <1>7 DEF memory
  <1>14. FlowSound(f, r)'
    BY <1>2, <1>5, <1>12, <1>13, FlowKept
  <1>15. Quoting(f, r) => Quoting(g, r)'
    BY <1>2, <1>5, <1>10 DEF Quoting, Asked
  <1>16. Countering(f, r) => Countering(g, r)'
    <2> SUFFICES ASSUME Countering(f, r) PROVE Countering(g, r)'
      OBVIOUS
    <2>1. QuoteInHand(g, r)'
      BY <1>5, <1>10, <1>13 DEF QuoteInHand, Countering
    <2>2. CounterSent(r)'
      BY <1>5 DEF Countering, CounterSent
    <2> QED BY <1>8, <1>10, <2>1, <2>2 DEF Countering
  <1>17. FlowSound(g, r)'
    BY <1>2, <1>6, <1>10, <1>14, <1>15, <1>16 DEF FlowSound
  <1>18. MemorySound'
    BY <1>5, <1>7, MemoryKept
  <1> QED BY <1>4, <1>5, <1>6, <1>7, <1>9, <1>11, <1>12, <1>13, <1>17, <1>18, RecordStep

\* The quote's answer is recorded, and its conversation kept.
LEMMA KeepQuoteInv ==
    ASSUME NegotiationInv, NEW r \in Request, KeepQuote(r)
    PROVE  NegotiationInv'
  <1> USE DEF NegotiationInv
  <1>1. PICK f : f = flow[r]
    OBVIOUS
  <1>2. f.pc = "keeping" /\ f \in Flow /\ FlowSound(f, r) /\ f.pc \in Exchanging /\ f.key.kind = "quote"
    BY <1>1, FlowFacts DEF KeepQuote, Exchanging
  <1>3. f.qty \in Quantity /\ f.target \in Target /\ f.key \in KeySet /\ Quoting(f, r) /\ f.key.req = r
    BY <1>2, ExchangeFacts
  <1>4. /\ f.key = Key("quote", r, f.qty) /\ Asked(r, f.qty) /\ ReplySound(f.key, f.reply)
        /\ f.target <= f.max
    BY <1>2, <1>3 DEF Quoting
  <1>5. /\ f.qty <= Stock /\ f.reply.corr = f.key
        /\ f.reply.quote = [qty |-> f.qty, price |-> Price] /\ f.reply.quote.qty = f.qty
    BY <1>2, <1>4, KeyFacts DEF ReplySound
  <1>6. Opened(f.key, r)
    BY <1>3, <1>4 DEF Opened
  <1>7. /\ rows' = Record(f.key, "in", f.key) /\ quoteCorr' = Put(quoteCorr, f.qty, f.key)
        /\ UNCHANGED <<quotes, results, fresh, negotiations, answer, inbox>>
    BY <1>1, <1>5 DEF KeepQuote
  <1>8. Keys' = Keys \cup {<<f.key, "in">>}
    BY <1>7, RecordKeys
  <1>9. Opened(f.key, r)' /\ Asked(r, f.qty)'
    BY <1>4, <1>6, <1>8, LogGrows
  <1>10. RowsSound'
    BY <1>3, <1>7, <1>9, RecordRows DEF inbox
  <1>11. DOMAIN quoteCorr' = DOMAIN quoteCorr \cup {f.qty} /\ quoteCorr'[f.qty] = f.key
         /\ \A q \in DOMAIN quoteCorr : q # f.qty => quoteCorr'[q] = quoteCorr[q]
    BY <1>7 DEF Put
  <1>12. MemorySound'
    <2>1. \A k \in DOMAIN results : ReplySound(k, results[k])'
      <3> TAKE k \in DOMAIN results
      <3>1. PICK reply : reply = results[k]
        OBVIOUS
      <3>2. ReplySound(k, reply)'
        BY <3>1, <1>8, <1>11, ReplyKept DEF MemorySound
      <3> QED BY <3>1, <3>2, <1>7
    <2>2. \A s, q : Asked(s, q) => Asked(s, q)'
      BY <1>8, LogGrows
    <2>3. \A q \in DOMAIN quotes : quotes[q] # Price =>
              \E s \in Request : Key("counter", s, 0) \in DOMAIN results /\ Asked(s, q)'
      BY <2>2 DEF MemorySound
    <2>4. \A q \in DOMAIN quoteCorr' : \E s \in Request : quoteCorr'[q] = Key("quote", s, q) /\ Asked(s, q)'
      BY <2>2, <1>4, <1>9, <1>11 DEF MemorySound
    <2>5. DOMAIN quoteCorr' \subseteq Quantity
      BY <1>3, <1>11 DEF MemorySound
    <2> QED BY <2>1, <2>3, <2>4, <2>5, <1>7 DEF MemorySound
  <1>13. PICK g : g = IF f.attempted THEN [Answered(f) EXCEPT !.pc = "failed"]
                      ELSE [Answered(f) EXCEPT !.pc = "quoted", !.quote = f.reply.quote]
    OBVIOUS
  <1>14. flow' = [flow EXCEPT ![r] = g]
    BY <1>1, <1>13 DEF KeepQuote
  <1>15. f.reply.quote \in Quoted
    BY <1>2 DEF Flow, Replies
  <1>16. /\ g \in Flow /\ g.qty = f.qty /\ g.target = f.target
         /\ g.max = f.max /\ g.agreed = f.agreed /\ g.chosen = f.chosen
         /\ g.corr = f.corr /\ g.rev = f.rev /\ g.attempted = f.attempted
         /\ \/ f.attempted /\ g.pc = "failed"
            \/ ~f.attempted /\ g.pc = "quoted" /\ g.quote = f.reply.quote
    <2>1. CASE f.attempted
      <3>1. Answered(f) \in Flow
        BY <1>2, InitialValues DEF Flow, Answered, AnyKey
      <3>2. g = [Answered(f) EXCEPT !.pc = "failed"]
        BY <1>13, <2>1
      <3>3. g \in Flow
        BY <3>1, <3>2 DEF Flow, Stages, Over
      <3>4. /\ g.pc = "failed" /\ g.qty = f.qty /\ g.target = f.target
            /\ g.max = f.max /\ g.agreed = f.agreed /\ g.chosen = f.chosen
            /\ g.corr = f.corr /\ g.rev = f.rev /\ g.attempted = f.attempted
        BY <1>2, <3>2 DEF Flow, Answered
      <3> QED BY <2>1, <3>3, <3>4
    <2>2. CASE ~f.attempted
      BY <1>2, <1>13, <1>15, <2>2, InitialValues DEF Flow, Stages, Answered, AnyKey
    <2> QED BY <2>1, <2>2
  <1>17. Moves(r, g)
    BY <1>1, <1>2, <1>16 DEF Moves
  <1>18. NegotiationsSound' /\ \A s : Recd(s) <=> Recd(s)'
    <2>1. \A s \in Request : flow[s].chosen # NoQuote => flow'[s].chosen # NoQuote
      BY <1>14, <1>16, <1>17, MoveKeepsRest
    <2> QED BY <2>1, <1>7, <1>8, NegotiationsUnchanged
  <1>19. FlowSound(f, r)'
    BY <1>2, <1>8, <1>11, <1>18, FlowKept
  <1>20. g.pc = "quoted" => QuoteInHand(g, r)'
    BY <1>2, <1>3, <1>4, <1>5, <1>8, <1>11, <1>16 DEF QuoteInHand, Quoting, Asked
  <1>21. FlowSound(g, r)'
    BY <1>2, <1>16, <1>19, <1>20 DEF FlowSound, Exchanging
  <1>22. f.key.kind # "order"
    BY <1>2
  <1> QED BY <1>3, <1>7, <1>8, <1>10, <1>11, <1>12, <1>14, <1>17, <1>18, <1>21, <1>22, RecordStep

-----------------------------------------------------------------------------
(* The agent.                                                               *)

\* A counter-offer is below the catalog price.
LEMMA CounterPriceFacts ==
    ASSUME NEW f \in Flow, f.target < Price
    PROVE  CounterPrice(Price, f) \in Prices
  <1>1. f.target \in Nat /\ f.max \in Nat /\ Price \in Nat
    BY FlowNumbers, ConstantFacts
  <1>2. PICK m : m = (Price + f.target) \div 2
    OBVIOUS
  <1>3. m \in Nat /\ m <= Price
    BY <1>1, <1>2
  <1>4. CounterPrice(Price, f) = IF m < f.max THEN m ELSE f.max
    BY <1>2 DEF CounterPrice
  <1>5. CASE m < f.max
    BY <1>1, <1>3, <1>4, <1>5 DEF Prices
  <1>6. CASE ~(m < f.max)
    BY <1>1, <1>3, <1>4, <1>6 DEF Prices
  <1> QED BY <1>5, <1>6

\* What the agent answers and remembers after handling a new key of r.
Handled(f, r, h) ==
    /\ ReplySound(f.key, h.reply)
    /\ DOMAIN h.quotes \subseteq Quantity
    /\ \A q \in DOMAIN h.quotes :
         /\ h.quotes[q] \in Prices
         /\ h.quotes[q] # Price => \/ q \in DOMAIN quotes /\ h.quotes[q] = quotes[q]
                                   \/ f.key = Key("counter", r, 0) /\ Asked(r, q)

\* A request for a quote gets the catalog price, whatever was agreed on it.
LEMMA HandleQuoteSound ==
    ASSUME MemorySound, NEW f, NEW r \in Request, f \in Flow, f.pc = "asking", Quoting(f, r),
           f.qty \in Quantity, f.qty <= Stock
    PROVE  Handled(f, r, HandleQuote(f))
  <1> DEFINE h == HandleQuote(f)
             reply == [intent |-> "QUOTE", quote |-> [qty |-> f.qty, price |-> Price], corr |-> f.conv]
  <1>1. h.quotes = Put(quotes, f.qty, Price) /\ h.reply = reply
    BY DEF HandleQuote, QuoteId, Reply
  <1>2. f.key = Key("quote", r, f.qty) /\ f.conv = f.key /\ Asked(r, f.qty) /\ f.key \in KeySet
    BY KeyFacts DEF Quoting
  <1>3. f.key.kind = "quote" /\ f.key.n = f.qty /\ f.key.req = r
    BY <1>2, KeyFacts
  <1>4. reply \in Replies
    BY <1>2, ConstantFacts DEF Replies, Quoted, Prices, AnyKey
  <1>5. ReplySound(f.key, h.reply)
    BY <1>1, <1>2, <1>3, <1>4 DEF ReplySound
  <1>6. DOMAIN h.quotes = DOMAIN quotes \cup {f.qty}
    BY <1>1 DEF Put
  <1>7. \A q \in DOMAIN h.quotes : h.quotes[q] = Price \/ (q \in DOMAIN quotes /\ h.quotes[q] = quotes[q])
    BY <1>1 DEF Put
  <1>8. Price \in Prices
    BY ConstantFacts DEF Prices
  <1> HIDE DEF h
  <1> QED BY <1>5, <1>6, <1>7, <1>8 DEF Handled, MemorySound, h

\* A counter-offer is taken down to the floor of the quote as it stands.
LEMMA HandleCounterSound ==
    ASSUME MemorySound, NEW f, NEW r \in Request, f \in Flow, f.pc = "asking", Countering(f, r),
           f.qty \in Quantity, f.qty \in DOMAIN quotes, f.key \notin DOMAIN results
    PROVE  Handled(f, r, HandleCounter(f))
  <1> DEFINE h == HandleCounter(f)
  <1>1. /\ f.key = Key("counter", r, 0) /\ f.conv \in KeySet /\ Opened(f.conv, r) /\ CounterSent(r)
        /\ f.quote.qty = f.qty /\ f.quote.price = Price /\ f.qty \in DOMAIN quoteCorr
        /\ f.target < Price
    <2>1. /\ f.key = Key("counter", r, 0) /\ Opened(f.conv, r) /\ CounterSent(r)
          /\ QuoteInHand(f, r) /\ f.target < Price
      BY DEF Countering
    <2>2. f.conv \in KeySet
      BY <2>1, OpenedFacts
    <2>3. f.quote.qty = f.qty /\ f.quote.price = Price /\ f.qty \in DOMAIN quoteCorr
      BY <2>1 DEF QuoteInHand
    <2> QED BY <2>1, <2>2, <2>3
  <1>2. Asked(r, f.qty)
    BY DEF Countering, QuoteInHand, Asked
  <1>3. f.key.kind = "counter" /\ f.key.req = r
    BY <1>1, KeyFacts
  <1>4. PICK offer : offer = CounterPrice(Price, f)
    OBVIOUS
  <1>5. offer \in Prices
    BY <1>1, <1>4, CounterPriceFacts
  <1>6. CASE offer < Floor(quotes[f.qty]) \/ f.qty > Stock
    <2> DEFINE reply == [intent |-> "OFFER_REJECTED", quote |-> [qty |-> f.qty, price |-> 0], corr |-> f.conv]
    <2>1. h.quotes = quotes /\ h.reply = reply
      BY <1>1, <1>4, <1>6 DEF HandleCounter, Reply
    <2>2. reply \in Replies /\ reply.quote.qty = f.qty /\ reply.corr = f.conv
          /\ reply.intent = "OFFER_REJECTED"
      BY <1>1, ConstantFacts DEF Replies, Quoted, Prices, AnyKey
    <2> HIDE DEF reply
    <2>3. ReplySound(f.key, reply)
      BY <1>1, <1>2, <1>3, <2>2 DEF ReplySound
    <2> HIDE DEF h
    <2> QED BY <2>1, <2>3 DEF Handled, MemorySound, h
  <1>7. CASE ~(offer < Floor(quotes[f.qty]) \/ f.qty > Stock)
    <2> DEFINE reply == [intent |-> "QUOTE", quote |-> [qty |-> f.qty, price |-> offer], corr |-> f.conv]
    <2>1. h.quotes = Put(quotes, f.qty, offer) /\ h.reply = reply
      BY <1>1, <1>4, <1>7 DEF HandleCounter, Reply
    <2>2. reply \in Replies /\ reply.quote.qty = f.qty /\ reply.corr = f.conv
          /\ reply.quote.price = offer
      BY <1>1, <1>5 DEF Replies, Quoted, AnyKey
    <2> HIDE DEF reply
    <2>3. offer < Floor(Price) => Undercut(r)
      <3> SUFFICES ASSUME offer < Floor(Price) PROVE Undercut(r)
        OBVIOUS
      <3>1. quotes[f.qty] # Price
        BY <1>7
      <3>2. PICK s \in Request : Key("counter", s, 0) \in DOMAIN results /\ Asked(s, f.qty)
        BY <3>1 DEF MemorySound
      <3>3. s # r
        BY <3>2, <1>1
      <3>4. ReplySound(Key("counter", s, 0), results[Key("counter", s, 0)])
        BY <3>2 DEF MemorySound
      <3>5. CounterSent(s)
        BY <3>4, KeyFacts DEF ReplySound
      <3> QED BY <1>2, <3>2, <3>3, <3>5 DEF Undercut, Share
    <2>4. ReplySound(f.key, reply)
      BY <1>1, <1>2, <1>3, <2>2, <2>3 DEF ReplySound
    <2>5. DOMAIN h.quotes = DOMAIN quotes \cup {f.qty}
      BY <2>1 DEF Put
    <2>6. \A q \in DOMAIN h.quotes :
             (q = f.qty /\ h.quotes[q] = offer) \/ (q \in DOMAIN quotes /\ h.quotes[q] = quotes[q])
      BY <2>1 DEF Put
    <2>7. h.reply = reply
      BY <2>1
    <2> HIDE DEF h
    <2> QED BY <1>1, <1>2, <1>5, <2>4, <2>5, <2>6, <2>7 DEF Handled, MemorySound, h
  <1> QED BY <1>6, <1>7

\* An order is confirmed in its own conversation.
LEMMA HandleOrderSound ==
    ASSUME MemorySound, NEW f, NEW r \in Request, f \in Flow, f.pc = "asking", Ordering(f, r),
           f.conv \in KeySet
    PROVE  Handled(f, r, HandleOrder(f))
  <1> DEFINE h == HandleOrder(f)
             reply == [intent |-> "ORDER_CONFIRMATION", quote |-> [qty |-> f.chosen.qty, price |-> 0],
                       corr |-> f.conv]
  <1>1. h.quotes = quotes /\ h.reply = reply
    BY DEF HandleOrder, Reply
  <1>2. f.chosen \in Quoted
    BY DEF Flow
  <1>3. reply \in Replies /\ reply.corr = f.conv
    BY <1>2, ConstantFacts DEF Replies, Quoted, Prices, AnyKey
  <1> HIDE DEF reply
  <1>4. f.key.kind = "order" /\ f.key.req = r
    BY KeyFacts DEF Ordering
  <1>5. f.conv.kind = "order" \/ Opened(f.conv, r)
    BY <1>4 DEF Ordering
  <1>6. ReplySound(f.key, reply)
    BY <1>3, <1>4, <1>5 DEF ReplySound
  <1> HIDE DEF h
  <1> QED BY <1>1, <1>6 DEF Handled, MemorySound, h

\* A key the agent has not seen is handled and its answer kept.
LEMMA AskInv ==
    ASSUME NegotiationInv, NEW r \in Request, Ask(r)
    PROVE  NegotiationInv'
  <1> USE DEF NegotiationInv
  <1>1. PICK f : f = flow[r]
    OBVIOUS
  <1>2. f.pc = "asking" /\ f \in Flow /\ FlowSound(f, r) /\ f.pc \in Exchanging
        /\ f.key \notin DOMAIN results /\ ~Unavailable(f)
    BY <1>1, FlowFacts DEF Ask, Exchanging
  <1>3. PICK h : h = Handle(f)
    OBVIOUS
  <1>4. /\ quotes' = h.quotes /\ results' = Put(results, f.key, h.reply)
        /\ fresh' = fresh \cup {f.key}
        /\ flow' = [flow EXCEPT ![r].pc = "keeping", ![r].reply = h.reply]
        /\ UNCHANGED <<quoteCorr, rows, negotiations, answer, inbox>>
    BY <1>1, <1>3 DEF Ask
  <1>5. /\ f.qty \in Quantity /\ f.key \in KeySet /\ f.conv \in KeySet
        /\ Quoting(f, r) \/ Countering(f, r) \/ Ordering(f, r)
        /\ Quoting(f, r) => f.key.kind = "quote"
        /\ Countering(f, r) => f.key.kind = "counter"
        /\ Ordering(f, r) => f.key.kind = "order"
    BY <1>2, ExchangeFacts
  <1>6. Handled(f, r, h)
    <2>1. CASE Quoting(f, r)
      <3>1. f.qty <= Stock
        <4>1. ~(f.qty > Stock)
          BY <1>2, <1>5, <2>1 DEF Unavailable
        <4> QED BY <4>1, <1>2, FlowNumbers, ConstantFacts
      <3>2. h = HandleQuote(f)
        BY <1>3, <1>5, <2>1 DEF Handle
      <3> QED BY <1>2, <1>5, <2>1, <3>1, <3>2, HandleQuoteSound
    <2>2. CASE Countering(f, r)
      <3>1. f.quote.qty = f.qty
        BY <2>2 DEF Countering, QuoteInHand
      <3>2. f.qty \in DOMAIN quotes
        BY <1>2, <1>5, <2>2, <3>1 DEF Unavailable
      <3>3. h = HandleCounter(f)
        BY <1>3, <1>5, <2>2 DEF Handle
      <3> QED BY <1>2, <1>5, <2>2, <3>2, <3>3, HandleCounterSound
    <2>3. CASE Ordering(f, r)
      <3>1. h = HandleOrder(f)
        BY <1>3, <1>5, <2>3 DEF Handle
      <3> QED BY <1>2, <1>5, <2>3, <3>1, HandleOrderSound
    <2> QED BY <1>5, <2>1, <2>2, <2>3
  <1>7. RowsSound' /\ Keys' = Keys
    BY <1>4, RowsUnchanged DEF inbox
  <1>8. h.reply \in Replies /\ ReplySound(f.key, h.reply)
    BY <1>6 DEF Handled, ReplySound
  <1>9. PICK g : g = [f EXCEPT !.pc = "keeping", !.reply = h.reply]
    OBVIOUS
  <1>10. flow' = [flow EXCEPT ![r] = g]
    BY <1>1, <1>4, <1>9 DEF FlowsSound
  <1>11. /\ g \in Flow /\ g.pc = "keeping" /\ g.reply = h.reply /\ g.qty = f.qty
         /\ g.target = f.target /\ g.max = f.max /\ g.key = f.key /\ g.conv = f.conv
         /\ g.quote = f.quote /\ g.agreed = f.agreed /\ g.chosen = f.chosen
         /\ g.corr = f.corr /\ g.rev = f.rev /\ g.attempted = f.attempted
    BY <1>2, <1>8, <1>9 DEF Flow, Stages, Exchanging
  <1>12. FlowSound(g, r)
    <2>1. Quoting(f, r) => Quoting(g, r)
      BY <1>2, <1>8, <1>11 DEF Quoting
    <2>2. Countering(f, r) => Countering(g, r)
      BY <1>2, <1>8, <1>11 DEF Countering, QuoteInHand
    <2>3. Ordering(f, r) => Ordering(g, r)
      BY <1>2, <1>8, <1>11 DEF Ordering
    <2> QED BY <1>2, <1>5, <1>11, <2>1, <2>2, <2>3 DEF FlowSound
  <1>13. Moves(r, g)
    BY <1>1, <1>2, <1>11 DEF Moves
  <1>14. NegotiationsSound' /\ \A s : Recd(s) <=> Recd(s)'
    <2>1. \A s \in Request : flow[s].chosen # NoQuote => flow'[s].chosen # NoQuote
      BY <1>10, <1>11, <1>13, MoveKeepsRest
    <2> QED BY <2>1, <1>4, <1>7, NegotiationsUnchanged
  <1>15. FlowSound(g, r)'
    BY <1>4, <1>7, <1>12, <1>14, FlowKept
  <1>16. MemorySound'
    <2>1. \A s, q : Asked(s, q) => Asked(s, q)'
      BY <1>7, LogGrows
    <2>2. DOMAIN results' = DOMAIN results \cup {f.key} /\ results'[f.key] = h.reply
          /\ \A k \in DOMAIN results : k # f.key => results'[k] = results[k]
      BY <1>4 DEF Put
    <2>3. \A k \in DOMAIN results' : ReplySound(k, results[k])'
      <3> TAKE k \in DOMAIN results'
      <3>1. PICK reply : reply = results'[k]
        OBVIOUS
      <3>2. ReplySound(k, reply)
        BY <1>2, <1>8, <2>2, <3>1 DEF MemorySound
      <3>3. ReplySound(k, reply)'
        BY <1>4, <1>7, <3>2, ReplyKept
      <3> QED BY <3>1, <3>3
    <2>4. \A q \in DOMAIN quotes' :
            /\ quotes'[q] \in Prices
            /\ quotes'[q] # Price =>
                 \E s \in Request : Key("counter", s, 0) \in DOMAIN results' /\ Asked(s, q)'
      <3> TAKE q \in DOMAIN quotes'
      <3>1. quotes'[q] \in Prices
        BY <1>4, <1>6 DEF Handled
      <3>2. quotes'[q] # Price => \/ q \in DOMAIN quotes /\ quotes'[q] = quotes[q]
                                  \/ f.key = Key("counter", r, 0) /\ Asked(r, q)
        BY <1>4, <1>6 DEF Handled
      <3>3. CASE quotes'[q] # Price /\ q \in DOMAIN quotes /\ quotes'[q] = quotes[q]
        BY <2>1, <2>2, <3>1, <3>3 DEF MemorySound
      <3>4. CASE f.key = Key("counter", r, 0) /\ Asked(r, q)
        BY <2>1, <2>2, <3>1, <3>4
      <3> QED BY <3>1, <3>2, <3>3, <3>4
    <2>5. \A q \in DOMAIN quoteCorr : \E s \in Request : quoteCorr[q] = Key("quote", s, q) /\ Asked(s, q)'
      BY <2>1 DEF MemorySound
    <2>6. DOMAIN quotes' \subseteq Quantity /\ DOMAIN results' \subseteq KeySet /\ fresh' \subseteq DOMAIN results'
      BY <1>4, <1>5, <1>6, <2>2 DEF Handled, MemorySound
    <2> QED BY <1>4, <2>3, <2>4, <2>5, <2>6 DEF MemorySound
  <1>17. OrderRowsSound'
    BY <1>7, <1>10, <1>11, <1>13, MoveKeepsRest DEF OrderRowsSound
  <1>18. FlowsSound'
    BY <1>4, <1>7, <1>10, <1>14, <1>15, MoveKeepsFlows
  <1>19. AnswersSound'
    BY <1>4, <1>10, <1>11, <1>13, MoveKeepsRest
  <1>20. RemoteSound' /\ DeliverySound'
    BY <1>4, <1>7, RemoteKept
  <1> QED BY <1>7, <1>14, <1>16, <1>17, <1>18, <1>19, <1>20

-----------------------------------------------------------------------------
(* The outcome of a negotiation.                                            *)

\* The answer to a counter-offer is recorded and checked again.
LEMMA KeepCounterInv ==
    ASSUME NegotiationInv, NEW r \in Request, KeepCounter(r)
    PROVE  NegotiationInv'
  <1> USE DEF NegotiationInv
  <1>1. PICK f : f = flow[r]
    OBVIOUS
  <1>2. f.pc = "keeping" /\ f \in Flow /\ FlowSound(f, r) /\ f.pc \in Exchanging /\ f.key.kind = "counter"
    BY <1>1, FlowFacts DEF KeepCounter, Exchanging
  <1>3. f.qty \in Quantity /\ f.target \in Target /\ f.key \in KeySet /\ Countering(f, r) /\ f.key.req = r
    BY <1>2, ExchangeFacts
  <1>4. /\ f.key = Key("counter", r, 0) /\ CounterSent(r) /\ ReplySound(f.key, f.reply)
        /\ QuoteInHand(f, r)
    BY <1>2, <1>3 DEF Countering
  <1>5. PICK reply : reply = f.reply
    OBVIOUS
  <1>6. /\ reply \in Replies /\ reply.quote.qty \in DOMAIN quoteCorr /\ Asked(r, reply.quote.qty)
        /\ Opened(reply.corr, r)
        /\ reply.intent = "QUOTE" /\ reply.quote.price < Floor(Price) => Undercut(r)
    BY <1>2, <1>3, <1>4, <1>5 DEF ReplySound
  <1>7. reply.corr \in KeySet
    BY <1>6, OpenedFacts
  <1>8. /\ rows' = Record(f.key, "in", reply.corr)
        /\ UNCHANGED <<memory, negotiations, answer, inbox>>
    BY <1>1, <1>5 DEF KeepCounter
  <1>9. Keys' = Keys \cup {<<f.key, "in">>}
    BY <1>8, RecordKeys
  <1>10. Opened(reply.corr, r)' /\ Asked(r, reply.quote.qty)'
    BY <1>6, <1>9, LogGrows
  <1>11. RowsSound'
    BY <1>2, <1>3, <1>7, <1>8, <1>10, RecordRows DEF inbox
  <1>12. MemorySound'
    BY <1>8, <1>9, MemoryKept
  <1>13. PICK c : c = quoteCorr[reply.quote.qty]
    OBVIOUS
  <1>14. c \in KeySet /\ Opened(c, r) /\ reply.quote.qty \in Quantity
    BY <1>6, <1>13, QuoteConversation
  <1>15. \E g : /\ flow' = [flow EXCEPT ![r] = g] /\ FlowSound(g, r)' /\ g.rev = f.rev
                /\ g.attempted = f.attempted /\ (f.chosen # NoQuote => g.chosen # NoQuote)
    <2>1. CASE reply.intent = "QUOTE" /\ Valid(f, reply.quote)
      <3>1. PICK g : g = SettledOn(f, reply.quote, c)
        OBVIOUS
      <3>2. flow' = [flow EXCEPT ![r] = g]
        BY <1>1, <1>5, <1>13, <2>1, <3>1 DEF KeepCounter, Settled, SettledOn
      <3>3. reply.quote \in Quoted /\ reply.quote.price <= f.max /\ f.qty <= Stock /\ ~f.attempted
        BY <1>4, <1>6, <2>1 DEF Valid, Replies, QuoteInHand
      <3>4. \A dir \in {"out", "in"} : /\ (<<Key("quote", r, f.qty), dir>> \in Keys)'
                                       /\ (<<Key("counter", r, 0), dir>> \in Keys)'
        BY <1>4, <1>9 DEF QuoteInHand, CounterSent
      <3>5. Opened(c, r)' /\ (reply.quote.price < Floor(Price) => Undercut(r)')
        BY <1>6, <1>9, <1>14, <2>1, LogGrows
      <3>6. PICK quote : quote = reply.quote
        OBVIOUS
      <3>7. OfferFits(f, r, quote, c)'
        BY <1>2, <1>3, <1>10, <1>14, <3>3, <3>4, <3>5, <3>6 DEF OfferFits
      <3>8. FlowSound(g, r)' /\ g.rev = f.rev /\ g.attempted = f.attempted /\ g.chosen # NoQuote
        BY <3>1, <3>6, <3>7, SettledSound
      <3> QED BY <3>2, <3>8
    <2>2. CASE ~(reply.intent = "QUOTE" /\ Valid(f, reply.quote))
      <3>1. PICK g : g = Unsettled(f)
        OBVIOUS
      <3>2. flow' = [flow EXCEPT ![r] = g]
        BY <1>1, <1>5, <2>2, <3>1 DEF KeepCounter
      <3>3. /\ g \in Flow /\ g.pc = "recording" /\ g.qty = f.qty /\ g.target = f.target
            /\ g.agreed = FALSE /\ g.chosen = f.chosen
            /\ g.corr = f.corr /\ g.rev = f.rev /\ g.attempted = f.attempted
        BY <1>2, <3>1, InitialValues DEF Flow, Stages, Answered, AnyKey, Unsettled
      <3>4. f.rev = 1 => f.chosen = NoQuote
        BY <1>4 DEF QuoteInHand
      <3>5. FlowSound(g, r)
        BY <1>2, <1>3, <3>3, <3>4 DEF FlowSound, Exchanging
      <3>6. Recd(r) => Recd(r)'
        BY <1>8 DEF Recd, RowOf
      <3>7. FlowSound(g, r)'
        BY <1>8, <1>9, <3>5, <3>6, FlowKept DEF memory
      <3> QED BY <3>2, <3>3, <3>7
    <2> QED BY <2>1, <2>2
  <1>16. PICK g : /\ flow' = [flow EXCEPT ![r] = g] /\ FlowSound(g, r)' /\ g.rev = f.rev
                  /\ g.attempted = f.attempted /\ (f.chosen # NoQuote => g.chosen # NoQuote)
    BY <1>15
  <1>17. Moves(r, g) /\ g \in Flow
    BY <1>1, <1>2, <1>16 DEF Moves, FlowSound
  <1>18. NegotiationsSound' /\ \A s : Recd(s) <=> Recd(s)'
    <2>1. \A s \in Request : flow[s].chosen # NoQuote => flow'[s].chosen # NoQuote
      BY <1>16, <1>17, MoveKeepsRest
    <2> QED BY <2>1, <1>8, <1>9, NegotiationsUnchanged
  <1>19. f.key.kind # "order" /\ DOMAIN quoteCorr' = DOMAIN quoteCorr
    BY <1>2, <1>8 DEF memory
  <1> QED BY <1>3, <1>8, <1>9, <1>11, <1>12, <1>16, <1>17, <1>18, <1>19, RecordStep

\* The messages of a conversation are filed under the negotiation that has it.
LEMMA LinkRows ==
    ASSUME RowsSound, NEW r \in Request, NEW c, Opened(c, r), rows' = Link(r, c), UNCHANGED remote
    PROVE  RowsSound' /\ Keys' = Keys
  <1> DEFINE L(row) == IF row.merchant /\ row.corr = c THEN [row EXCEPT !.neg = r] ELSE row
  <1>1. rows' = {L(row) : row \in rows}
    BY DEF Link
  <1>2. ASSUME NEW row \in rows
        PROVE  /\ L(row) \in RowSet /\ L(row).key = row.key /\ L(row).corr = row.corr
               /\ L(row).merchant = row.merchant
               /\ L(row).neg = IF row.merchant /\ row.corr = c THEN r ELSE row.neg
    <2>1. row \in RowSet
      BY DEF RowsSound
    <2> QED BY <2>1 DEF RowSet
  <1> HIDE DEF L
  <1>3. Keys' = Keys
    <2>1. \A row \in rows : row.key = L(row).key
      BY <1>2
    <2> QED BY <1>1, <2>1 DEF Keys
  <1>4. rows' \subseteq RowSet
    BY <1>1, <1>2
  <1>5. \A a, b \in rows' : a.key = b.key => a = b
    <2> SUFFICES ASSUME NEW a \in rows', NEW b \in rows', a.key = b.key PROVE a = b
      OBVIOUS
    <2>1. PICK x \in rows : a = L(x)
      BY <1>1
    <2>2. PICK y \in rows : b = L(y)
      BY <1>1
    <2>3. x.key = y.key
      BY <1>2, <2>1, <2>2
    <2>4. x = y
      BY <2>3 DEF RowsSound
    <2> QED BY <2>1, <2>2, <2>4
  <1>6. \A a \in rows' : a.key[1] \in KeySet => OwnRowSound(a)'
    <2> SUFFICES ASSUME NEW a \in rows', a.key[1] \in KeySet PROVE OwnRowSound(a)'
      OBVIOUS
    <2>1. PICK x \in rows : a = L(x)
      BY <1>1
    <2>2. /\ a.key = x.key /\ a.corr = x.corr /\ a.merchant = x.merchant
          /\ a.neg = IF x.merchant /\ x.corr = c THEN r ELSE x.neg
      BY <1>2, <2>1
    <2>3. PICK k : k = x.key[1]
      OBVIOUS
    <2>4. OwnRowSound(x) /\ k \in KeySet /\ k.req \in Request
      BY <2>2, <2>3, KeyFacts DEF RowsSound
    <2>5. CASE x.merchant /\ x.corr = c
      <3>1. (c = k /\ k.kind = "order") \/ Opened(c, k.req)
        BY <2>3, <2>4, <2>5 DEF OwnRowSound
      <3>2. Opened(c, k.req)
        BY <3>1, OpenedFacts
      <3>3. Share(r, k.req)
        BY <2>4, <3>2, SharedConversation
      <3>4. OwnRowSound(a)
        BY <2>2, <2>3, <2>4, <2>5, <3>3 DEF OwnRowSound
      <3> QED BY <1>3, <3>4, LogGrows DEF OwnRowSound
    <2>6. CASE ~(x.merchant /\ x.corr = c)
      <3>1. OwnRowSound(a)
        BY <2>2, <2>3, <2>4, <2>6 DEF OwnRowSound
      <3> QED BY <1>3, <3>1, LogGrows DEF OwnRowSound
    <2> QED BY <2>5, <2>6
  <1>7. \A a \in rows' : a.key[1] \in Remote => RemoteRowSound(a)'
    <2> SUFFICES ASSUME NEW a \in rows', a.key[1] \in Remote PROVE RemoteRowSound(a)'
      OBVIOUS
    <2>1. PICK x \in rows : a = L(x)
      BY <1>1
    <2>2. a.key = x.key /\ a.corr = x.corr /\ a.merchant = x.merchant
      BY <1>2, <2>1
    <2>3. RemoteRowSound(x)
      BY <2>2 DEF RowsSound
    <2> QED BY <2>2, <2>3 DEF RemoteRowSound
  <1> QED BY <1>3, <1>4, <1>5, <1>6, <1>7 DEF RowsSound

\* The negotiation of a request is inserted or brought up to date.
LEMMA RecordedSound ==
    ASSUME NegotiationInv, NEW r \in Request, NEW f \in Flow, Opened(f.corr, r), Recorded(r, f),
           UNCHANGED remote, flow'[r].chosen # NoQuote,
           \A s \in Request : flow[s].chosen # NoQuote => flow'[s].chosen # NoQuote
    PROVE  /\ RowsSound' /\ Keys' = Keys /\ NegotiationsSound' /\ Recd(r)'
           /\ \A s \in Request : Recd(s) => Recd(s)'
  <1> USE DEF NegotiationInv
  <1>1. RowsSound' /\ Keys' = Keys
    BY LinkRows DEF Recorded
  <1>2. \A c, s : Opened(c, s) => Opened(c, s)'
    BY <1>1, LogGrows
  <1>3. f.corr \in KeySet /\ f.chosen \in Quoted
    BY OpenedFacts DEF Flow
  <1>4. negotiations \in Seq(NegotiationSet)
    BY DEF NegotiationsSound
  <1>o. \A i \in DOMAIN negotiations : /\ Opened(negotiations[i].corr, negotiations[i].req)
                                       /\ flow[negotiations[i].req].chosen # NoQuote
    BY DEF NegotiationsSound
  <1>5. CASE RowOf(r) = {}
    <2>1. PICK n : n = [req |-> r, corr |-> f.corr, status |-> "ACCEPTED", quote |-> f.chosen]
      OBVIOUS
    <2>2. n \in NegotiationSet /\ n.req = r /\ n.corr = f.corr
      BY <1>3, <2>1 DEF NegotiationSet
    <2>3. negotiations' = Append(negotiations, n)
      BY <1>5, <2>1 DEF Recorded
    <2>4. /\ negotiations' \in Seq(NegotiationSet) /\ Len(negotiations') = Len(negotiations) + 1
          /\ negotiations'[Len(negotiations) + 1] = n
          /\ \A i \in 1..Len(negotiations) : negotiations'[i] = negotiations[i]
      BY <1>4, <2>2, <2>3, AppendProperties
    <2>5. /\ DOMAIN negotiations = 1..Len(negotiations) /\ Len(negotiations) \in Nat
          /\ DOMAIN negotiations' = 1..(Len(negotiations) + 1)
      BY <1>4, <2>4, LenProperties
    <2>6. Recd(r)'
      BY <2>2, <2>4, <2>5 DEF Recd, RowOf
    <2>7. \A s \in Request : Recd(s) => Recd(s)'
      BY <2>4, <2>5 DEF Recd, RowOf
    <2>8. ASSUME NEW i \in DOMAIN negotiations'
          PROVE  Opened(negotiations[i].corr, negotiations[i].req)' /\ flow'[negotiations'[i].req].chosen # NoQuote
      <3>1. PICK m : m = negotiations'[i]
        OBVIOUS
      <3>2. Opened(m.corr, m.req) /\ flow'[m.req].chosen # NoQuote
        <4>1. CASE i \in DOMAIN negotiations
          <5>1. m = negotiations[i]
            BY <2>4, <2>5, <3>1, <4>1
          <5>2. m.req \in Request
            BY <1>4, <4>1, <5>1, NegotiationTyped
          <5> QED BY <1>o, <4>1, <5>1, <5>2
        <4>2. CASE i = Len(negotiations) + 1
          BY <2>2, <2>4, <3>1, <4>2
        <4> QED BY <2>5, <4>1, <4>2
      <3>3. Opened(m.corr, m.req)'
        BY <3>2, <1>2
      <3> QED BY <3>1, <3>2, <3>3
    <2> QED BY <1>1, <2>4, <2>6, <2>7, <2>8 DEF NegotiationsSound
  <1>6. CASE RowOf(r) # {}
    <2> DEFINE U(i) == IF i \in RowOf(r) THEN [negotiations[i] EXCEPT !.quote = f.chosen]
                       ELSE negotiations[i]
    <2>1. negotiations' = [i \in DOMAIN negotiations |-> U(i)]
      BY <1>6 DEF Recorded
    <2>2. ASSUME NEW i \in DOMAIN negotiations
          PROVE  /\ U(i) \in NegotiationSet /\ U(i).req = negotiations[i].req
                 /\ U(i).corr = negotiations[i].corr
      <3>1. negotiations[i] \in NegotiationSet
        BY <1>4, NegotiationTyped
      <3> QED BY <3>1, <1>3 DEF NegotiationSet
    <2> HIDE DEF U
    <2>3. DOMAIN negotiations = 1..Len(negotiations) /\ Len(negotiations) \in Nat
      BY <1>4, LenProperties
    <2>4. negotiations' \in Seq(NegotiationSet) /\ DOMAIN negotiations' = DOMAIN negotiations
      BY <2>1, <2>2, <2>3
    <2>5. \A i \in DOMAIN negotiations : /\ negotiations'[i].req = negotiations[i].req
                                         /\ negotiations'[i].corr = negotiations[i].corr
      BY <2>1, <2>2
    <2>6. \A s : Recd(s) => Recd(s)'
      BY <2>4, <2>5 DEF Recd, RowOf
    <2>7. Recd(r)
      BY <1>6 DEF Recd
    <2>8. ASSUME NEW i \in DOMAIN negotiations'
          PROVE  Opened(negotiations[i].corr, negotiations[i].req)' /\ flow'[negotiations'[i].req].chosen # NoQuote
      <3>1. PICK m : m = negotiations[i]
        OBVIOUS
      <3>2. m.req \in Request /\ Opened(m.corr, m.req) /\ flow'[m.req].chosen # NoQuote
        BY <1>4, <1>o, <2>4, <3>1, NegotiationTyped
      <3>3. Opened(m.corr, m.req)'
        BY <3>2, <1>2
      <3>4. negotiations'[i].req = m.req /\ negotiations'[i].corr = m.corr
        BY <2>4, <2>5, <3>1
      <3> QED BY <3>2, <3>3, <3>4
    <2> QED BY <1>1, <2>4, <2>6, <2>7, <2>8 DEF NegotiationsSound
  <1> QED BY <1>5, <1>6

\* A workflow that changes its stage only.
LEMMA StageFacts ==
    ASSUME NEW f \in Flow, NEW pc \in Stages, NEW g, g = [f EXCEPT !.pc = pc]
    PROVE  /\ g \in Flow /\ g.pc = pc /\ g.qty = f.qty /\ g.target = f.target /\ g.max = f.max
           /\ g.agreed = f.agreed /\ g.chosen = f.chosen /\ g.corr = f.corr /\ g.rev = f.rev
           /\ g.attempted = f.attempted /\ g.key = f.key /\ g.conv = f.conv
  BY DEF Flow

\* The stages that follow a negotiation.
LEMMA StageNames == {"failed", "proposing", "approval", "conflict"} \subseteq Stages
  BY DEF Stages, Over

\* A workflow records its negotiation and moves on.
LEMMA RecordedStep ==
    ASSUME NegotiationInv, NEW r \in Request, NEW f, f = flow[r], Recorded(r, f),
           NEW pc \in {"failed", "proposing", "approval"}, NEW g, g = [f EXCEPT !.pc = pc],
           flow' = [flow EXCEPT ![r] = g], UNCHANGED <<memory, answer, inbox>>,
           f.pc \in {"recording", "proposing"}, f.chosen # NoQuote,
           pc = "failed" \/ f.agreed
    PROVE  NegotiationInv'
  <1> USE DEF NegotiationInv
  <1>1. f \in Flow /\ FlowSound(f, r)
    BY FlowFacts
  <1>2. /\ g \in Flow /\ g.pc = pc /\ g.qty = f.qty /\ g.target = f.target /\ g.max = f.max
        /\ g.agreed = f.agreed /\ g.chosen = f.chosen /\ g.corr = f.corr /\ g.rev = f.rev
        /\ g.attempted = f.attempted
    BY <1>1, StageFacts, StageNames
  <1>3. Moves(r, g)
    BY <1>2 DEF Moves
  <1>4. \A s \in Request : flow[s].chosen # NoQuote => flow'[s].chosen # NoQuote
    BY <1>2, <1>3, MoveKeepsRest
  <1>5. flow'[r].chosen # NoQuote
    BY <1>4
  <1>6. Opened(f.corr, r)
    BY <1>1 DEF FlowSound
  <1>7. /\ RowsSound' /\ Keys' = Keys /\ NegotiationsSound' /\ Recd(r)'
        /\ \A s \in Request : Recd(s) => Recd(s)'
    BY <1>1, <1>4, <1>5, <1>6, RecordedSound DEF inbox
  <1>8. FlowSound(f, r)'
    BY <1>1, <1>7, FlowKept DEF memory
  <1>9. g.pc # "failed" => OfferSound(g, r)'
    <2>1. f.agreed => OfferSound(f, r)'
      BY <1>8 DEF FlowSound
    <2> QED BY <1>2, <2>1 DEF OfferSound
  <1>10. FlowSound(g, r)'
    BY <1>2, <1>7, <1>8, <1>9 DEF FlowSound, Exchanging
  <1>11. MemorySound'
    BY <1>7, MemoryKept
  <1>12. DOMAIN quoteCorr' = DOMAIN quoteCorr
    BY DEF memory
  <1> QED BY <1>3, <1>7, <1>10, <1>11, <1>12, LoudStep

\* record_negotiation: the offer is recorded, or there is none, or another
\* request has the conversation.
LEMMA RecordNegotiationInv ==
    ASSUME NegotiationInv, NEW r \in Request, RecordNegotiation(r)
    PROVE  NegotiationInv'
  <1> USE DEF NegotiationInv
  <1>1. PICK f : f = flow[r]
    OBVIOUS
  <1>2. f.pc = "recording" /\ f \in Flow /\ FlowSound(f, r)
    BY <1>1, FlowFacts DEF RecordNegotiation
  <1>3. PICK after : after = IF f.agreed THEN "proposing" ELSE "failed"
    OBVIOUS
  <1>4. UNCHANGED <<memory, answer, inbox>>
    BY DEF RecordNegotiation
  <1>5. CASE f.chosen = NoQuote /\ flow' = [flow EXCEPT ![r].pc = after] /\ UNCHANGED <<rows, negotiations>>
    <2>1. ~f.agreed /\ after = "failed"
      BY <1>2, <1>3, <1>5 DEF FlowSound
    <2>2. PICK g : g = [f EXCEPT !.pc = "failed"]
      OBVIOUS
    <2>3. flow' = [flow EXCEPT ![r] = g]
      BY <1>1, <1>5, <2>1, <2>2
    <2>4. /\ g \in Flow /\ g.pc = "failed" /\ g.qty = f.qty /\ g.target = f.target
          /\ g.agreed = f.agreed /\ g.chosen = f.chosen /\ g.corr = f.corr /\ g.rev = f.rev
          /\ g.attempted = f.attempted
      BY <1>2, <2>2, StageFacts, StageNames
    <2>5. FlowSound(g, r)
      BY <1>2, <1>5, <2>1, <2>4 DEF FlowSound, Exchanging
    <2>6. Moves(r, g)
      BY <1>1, <1>2, <2>4 DEF Moves
    <2> QED BY <1>4, <1>5, <2>3, <2>5, <2>6, QuietStep
  <1>6. CASE f.chosen # NoQuote /\ flow' = [flow EXCEPT ![r].pc = after] /\ Recorded(r, f)
    <2>1. PICK g : g = [f EXCEPT !.pc = after]
      OBVIOUS
    <2>2. flow' = [flow EXCEPT ![r] = g]
      BY <1>1, <1>6, <2>1
    <2>3. after \in {"failed", "proposing", "approval"} /\ (after = "failed" \/ f.agreed)
      BY <1>3
    <2>4. Recorded(r, f) /\ f.pc \in {"recording", "proposing"} /\ f.chosen # NoQuote
      BY <1>2, <1>6
    <2> HIDE DEF NegotiationInv
    <2> QED BY <1>1, <1>4, <2>1, <2>2, <2>3, <2>4, RecordedStep
  <1>7. CASE /\ f.chosen # NoQuote /\ Conflict(r, f.corr)
             /\ flow' = [flow EXCEPT ![r].pc = "conflict"] /\ UNCHANGED <<rows, negotiations>>
    <2>1. PICK g : g = [f EXCEPT !.pc = "conflict"]
      OBVIOUS
    <2>2. flow' = [flow EXCEPT ![r] = g]
      BY <1>1, <1>7, <2>1
    <2>3. /\ g \in Flow /\ g.pc = "conflict" /\ g.qty = f.qty /\ g.target = f.target
          /\ g.agreed = f.agreed /\ g.chosen = f.chosen /\ g.corr = f.corr /\ g.rev = f.rev
          /\ g.attempted = f.attempted
      BY <1>2, <2>1, StageFacts, StageNames
    <2>4. \E s \in Request \ {r} : Share(r, s)
      <3>1. Opened(f.corr, r)
        BY <1>2, <1>7 DEF FlowSound
      <3>2. RowOf(r) = {} /\ NegotiationOf(f.corr) # None
        BY <1>7 DEF Conflict
      <3>3. PICK i \in DOMAIN negotiations : /\ negotiations[i].req = NegotiationOf(f.corr)
                                             /\ Opened(f.corr, NegotiationOf(f.corr))
        BY <3>2, NegotiationOfFacts
      <3>4. PICK s : s = negotiations[i].req
        OBVIOUS
      <3>5. s \in Request /\ Opened(f.corr, s)
        BY <3>3, <3>4, NegotiationTyped DEF NegotiationsSound
      <3>6. s # r
        BY <3>2, <3>4 DEF RowOf
      <3> QED BY <3>1, <3>5, <3>6, SharedConversation
    <2>5. FlowSound(g, r)
      BY <1>2, <2>3, <2>4 DEF FlowSound, Exchanging
    <2>6. Moves(r, g)
      BY <1>1, <1>2, <2>3 DEF Moves
    <2> QED BY <1>4, <1>7, <2>2, <2>5, <2>6, QuietStep
  <1> QED BY <1>1, <1>3, <1>5, <1>6, <1>7 DEF RecordNegotiation

\* The offer is refused by the risk check, or put to the merchant.
LEMMA ProposeInv ==
    ASSUME NegotiationInv, NEW r \in Request, Propose(r)
    PROVE  NegotiationInv'
  <1> USE DEF NegotiationInv
  <1>1. PICK f : f = flow[r]
    OBVIOUS
  <1>2. f.pc = "proposing" /\ f \in Flow /\ FlowSound(f, r)
    BY <1>1, FlowFacts DEF Propose
  <1>3. f.agreed /\ f.chosen # NoQuote
    BY <1>2 DEF FlowSound
  <1>4. UNCHANGED <<memory, answer, inbox>>
    BY DEF Propose
  <1>5. CASE flow' = [flow EXCEPT ![r].pc = "failed"] /\ UNCHANGED <<rows, negotiations>>
    <2>1. PICK g : g = [f EXCEPT !.pc = "failed"]
      OBVIOUS
    <2>2. flow' = [flow EXCEPT ![r] = g]
      BY <1>1, <1>5, <2>1
    <2>3. /\ g \in Flow /\ g.pc = "failed" /\ g.qty = f.qty /\ g.target = f.target
          /\ g.agreed = f.agreed /\ g.chosen = f.chosen /\ g.corr = f.corr /\ g.rev = f.rev
          /\ g.attempted = f.attempted
      BY <1>2, <2>1, StageFacts, StageNames
    <2>4. FlowSound(g, r)
      BY <1>2, <2>3 DEF FlowSound, Exchanging
    <2>5. Moves(r, g)
      BY <1>1, <1>2, <2>3 DEF Moves
    <2> QED BY <1>4, <1>5, <2>2, <2>4, <2>5, QuietStep
  <1>6. CASE flow' = [flow EXCEPT ![r].pc = "approval"] /\ Recorded(r, flow[r])
    <2>1. PICK g : g = [f EXCEPT !.pc = "approval"]
      OBVIOUS
    <2>2. flow' = [flow EXCEPT ![r] = g] /\ Recorded(r, f)
      BY <1>1, <1>6, <2>1
    <2> QED BY <1>1, <1>2, <1>3, <1>4, <2>1, <2>2, RecordedStep
  <1> QED BY <1>5, <1>6 DEF Propose

\* The log entries of an order are new.
LEMMA OrderKeysNew ==
    ASSUME FlowsSound, OrderRowsSound, NEW r \in Request, NEW f, f = flow[r], f.pc = "keeping", Ordering(f, r),
           NEW dir
    PROVE  <<f.key, dir>> \notin Keys
  <1>1. f.key = Key("order", r, f.rev) /\ ~f.attempted /\ f.rev \in Nat /\ f \in Flow
    BY FlowNumbers, FlowFacts DEF Ordering
  <1>2. f.key.kind = "order" /\ f.key.req = r /\ f.key.n = f.rev
    BY <1>1, KeyFacts
  <1>3. f.key \in KeySet
    BY <1>1, KeyFacts DEF Flow
  <1>4. ~Attempted(f.key)
    BY <1>1, <1>2 DEF Attempted
  <1> SUFFICES ASSUME <<f.key, dir>> \in Keys PROVE FALSE
    OBVIOUS
  <1>5. PICK key \in Keys : key = <<f.key, dir>>
    OBVIOUS
  <1>6. key[1] = f.key
    BY <1>5
  <1>7. Attempted(key[1])
    BY <1>2, <1>3, <1>6 DEF OrderRowsSound
  <1> QED BY <1>4, <1>6, <1>7

\* The transaction of the order saves what was exchanged, or is lost.
LEMMA SaveOrderInv ==
    ASSUME NegotiationInv, NEW r \in Request, SaveOrder(r)
    PROVE  NegotiationInv'
  <1> USE DEF NegotiationInv
  <1>1. PICK f : f = flow[r]
    OBVIOUS
  <1>2. f.pc = "keeping" /\ f \in Flow /\ FlowSound(f, r) /\ f.pc \in Exchanging /\ f.key.kind = "order"
    BY <1>1, FlowFacts DEF SaveOrder, Exchanging
  <1>3. /\ f.qty \in Quantity /\ f.target \in Target /\ f.key \in KeySet /\ f.conv \in KeySet
        /\ Ordering(f, r) /\ f.key.req = r
    BY <1>2, ExchangeFacts
  <1>4. /\ f.key = Key("order", r, f.rev) /\ f.agreed /\ ~f.attempted
        /\ f.conv = f.key \/ Opened(f.conv, r)
    BY <1>3 DEF Ordering
  <1>5. \A dir : <<f.key, dir>> \notin Keys
    BY <1>1, <1>2, <1>3, OrderKeysNew
  <1>6. UNCHANGED <<memory, negotiations, answer, inbox>>
    BY DEF SaveOrder
  <1>n. PICK n : n = NegotiationOf(f.conv)
    OBVIOUS
  <1>7. PICK sent, back : sent = Row(f.key, "out", f.conv, TRUE, n) /\ back = Row(f.key, "in", f.conv, TRUE, n)
    OBVIOUS
  <1>8. sent.key = <<f.key, "out">> /\ back.key = <<f.key, "in">>
    BY <1>7 DEF Row
  <1>a. PICK h : h = [f EXCEPT !.attempted = TRUE]
    OBVIOUS
  <1>9. PICK recovering : recovering = AskForQuote(h, r)
    OBVIOUS
  <1>10. /\ FlowSound(recovering, r) /\ recovering.attempted = TRUE
         /\ recovering.rev = f.rev /\ recovering.chosen = f.chosen
    <2>1. /\ h \in Flow /\ h.qty = f.qty /\ h.target = f.target /\ h.agreed = f.agreed
          /\ h.chosen = f.chosen /\ h.corr = f.corr /\ h.rev = f.rev /\ h.attempted = TRUE
      BY <1>2, <1>a DEF Flow
    <2>2. f.agreed => f.chosen # NoQuote /\ Recd(r)
      BY <1>2 DEF FlowSound
    <2>3. f.chosen # NoQuote => /\ Opened(f.corr, r) /\ Asked(r, f.chosen.qty)
                                /\ f.rev = 1 => f.agreed
                                /\ f.chosen.price < Floor(Price) => Undercut(r)
      BY <1>2 DEF FlowSound
    <2>4. /\ h.qty \in Quantity /\ h.target \in Target
          /\ h.agreed => h.chosen # NoQuote /\ Recd(r)
          /\ h.chosen # NoQuote => /\ Opened(h.corr, r) /\ Asked(r, h.chosen.qty)
                                   /\ h.rev = 1 => h.agreed
                                   /\ h.chosen.price < Floor(Price) => Undercut(r)
          /\ h.rev = 1 /\ ~h.attempted => h.chosen = NoQuote
      BY <1>3, <2>1, <2>2, <2>3
    <2>5. /\ FlowSound(AskForQuote(h, r), r) /\ AskForQuote(h, r).rev = h.rev
          /\ AskForQuote(h, r).chosen = h.chosen /\ AskForQuote(h, r).attempted = h.attempted
      BY <2>1, <2>4, AskForQuoteSound
    <2> QED BY <1>9, <2>1, <2>5
  <1>11. PICK done : done = [Answered(f) EXCEPT !.pc = "done"]
    OBVIOUS
  <1>12. /\ done \in Flow /\ done.pc = "done" /\ done.qty = f.qty /\ done.target = f.target
         /\ done.agreed = f.agreed /\ done.chosen = f.chosen /\ done.corr = f.corr
         /\ done.rev = f.rev /\ done.attempted = f.attempted
    BY <1>2, <1>11, InitialValues DEF Flow, Stages, Over, Answered, AnyKey
  <1>13. Moves(r, recovering) /\ Moves(r, done)
    BY <1>1, <1>2, <1>10, <1>12 DEF Moves
  <1>14. ASSUME NEW S \in {{sent}, {sent, back}}, rows' = rows \cup S
         PROVE  /\ RowsSound' /\ Keys' = Keys \cup {row.key : row \in S} /\ MemorySound'
    <2>1. Keys \subseteq Keys'
      BY <1>14 DEF Keys
    <2>2. Opened(f.conv, f.key.req)' \/ (f.conv = f.key /\ f.key.kind = "order")
      BY <1>2, <1>3, <1>4, <2>1, LogGrows
    <2>3. sent \in RowSet /\ back \in RowSet /\ OwnRowSound(sent)' /\ OwnRowSound(back)'
      <3>1. ~(f.key.kind = "quote")
        BY <1>2
      <3>2. Row(f.key, "out", f.conv, TRUE, n) \in RowSet /\ OwnRowSound(Row(f.key, "out", f.conv, TRUE, n))'
        BY <1>3, <1>n, <2>1, <2>2, <3>1, NewRowSound
      <3>3. Row(f.key, "in", f.conv, TRUE, n) \in RowSet /\ OwnRowSound(Row(f.key, "in", f.conv, TRUE, n))'
        BY <1>3, <1>n, <2>1, <2>2, <3>1, NewRowSound
      <3> QED BY <1>7, <3>2, <3>3
    <2>4. \A row \in S : row = sent \/ row = back
      OBVIOUS
    <2>5. \A row \in S : row.key \notin Keys /\ row.key[1] = f.key
      BY <1>5, <1>8, <2>4
    <2>6. f.key \notin Remote
      BY <1>3, ConstantFacts
    <2>7. S \subseteq RowSet /\ \A row \in S : OwnRowSound(row)'
      BY <2>3, <2>4
    <2>8. \A a, b \in S : a.key = b.key => a = b
      BY <1>8, <2>4
    <2>9. \A row \in S : row.key[1] \in Remote => RemoteRowSound(row)'
      BY <2>5, <2>6
    <2>10. RowsSound' /\ Keys' = Keys \cup {row.key : row \in S}
      BY <1>6, <1>14, <2>5, <2>7, <2>8, <2>9, AddRows DEF inbox
    <2> QED BY <1>6, <2>1, <2>10, MemoryKept
  <1>15. ASSUME NEW g \in Flow, NEW S \in {{sent}, {sent, back}}, rows' = rows \cup S, Moves(r, g),
                flow' = [flow EXCEPT ![r] = g], FlowSound(g, r)', g.rev = f.rev,
                g.pc = "done" \/ g.attempted
         PROVE  NegotiationInv'
    <2>1. RowsSound' /\ Keys' = Keys \cup {row.key : row \in S} /\ MemorySound'
      BY <1>14, <1>15
    <2>2. NegotiationsSound' /\ \A s : Recd(s) <=> Recd(s)'
      <3>1. \A s \in Request : flow[s].chosen # NoQuote => flow'[s].chosen # NoQuote
        BY <1>15, MoveKeepsRest
      <3> QED BY <3>1, <2>1, <1>6, NegotiationsUnchanged
    <2>3. flow'[r] = g
      BY <1>15 DEF FlowsSound
    <2>4. f.key.n = f.rev
      BY <1>4, KeyFacts
    <2>5. Attempted(f.key)'
      BY <1>3, <1>15, <2>3, <2>4 DEF Attempted
    <2>6. \A key \in Keys' : \/ key \in Keys
                             \/ key[1] \in KeySet /\ (key[1].kind = "order" => Attempted(key[1])')
      <3> TAKE key \in Keys'
      <3>1. \A row \in S : row.key[1] = f.key
        BY <1>8
      <3>2. key \in Keys \/ key[1] = f.key
        BY <2>1, <3>1
      <3> QED BY <1>3, <2>5, <3>2
    <2>7. DOMAIN quoteCorr' = DOMAIN quoteCorr
      BY <1>6 DEF memory
    <2>8. Keys \subseteq Keys' /\ \A s \in Request : Recd(s) => Recd(s)'
      BY <2>1, <2>2
    <2> QED BY <1>6, <1>15, <2>1, <2>2, <2>6, <2>7, <2>8, LoudStep
  <1>16. CASE rows' = rows \cup {sent, back} /\ flow' = [flow EXCEPT ![r] = done]
    <2>1. RowsSound' /\ Keys' = Keys \cup {row.key : row \in {sent, back}}
      BY <1>14, <1>16
    <2>2. \A dir \in {"out", "in"} : <<f.key, dir>> \in Keys'
      BY <1>8, <2>1
    <2>3. Recd(r) => Recd(r)'
      BY <1>6 DEF Recd, RowOf
    <2>4. FlowSound(f, r)'
      BY <1>2, <1>6, <2>1, <2>3, FlowKept DEF memory
    <2>5. FlowSound(done, r)'
      BY <1>2, <1>3, <1>4, <1>12, <2>2, <2>4 DEF FlowSound, Exchanging
    <2> QED BY <1>12, <1>13, <1>15, <1>16, <2>5
  <1>17. CASE rows' = rows \cup {sent} /\ flow' = [flow EXCEPT ![r] = recovering]
    <2>1. RowsSound' /\ Keys' = Keys \cup {row.key : row \in {sent}}
      BY <1>14, <1>17
    <2>2. Recd(r) => Recd(r)'
      BY <1>6 DEF Recd, RowOf
    <2>3. FlowSound(recovering, r)' /\ recovering \in Flow
      BY <1>6, <1>10, <2>1, <2>2, FlowKept DEF memory, FlowSound
    <2> QED BY <1>10, <1>13, <1>15, <1>17, <2>3
  <1>18. CASE UNCHANGED rows /\ flow' = [flow EXCEPT ![r] = recovering]
    BY <1>6, <1>10, <1>13, <1>18, QuietStep
  <1> QED BY <1>1, <1>n, <1>7, <1>a, <1>9, <1>11, <1>16, <1>17, <1>18 DEF SaveOrder

-----------------------------------------------------------------------------
(* Answers, envelopes from outside and restarts.                            *)

\* Steps that leave the workflows, the log and the negotiations alone.
LEMMA WorkflowsUnchanged ==
    ASSUME NegotiationInv, UNCHANGED <<flow, rows, negotiations>>,
           UNCHANGED quoteCorr
    PROVE  /\ FlowsSound' /\ OrderRowsSound' /\ NegotiationsSound' /\ Keys' = Keys
           /\ UNCHANGED answer => AnswersSound'
           /\ UNCHANGED remote => RowsSound'
  <1> USE DEF NegotiationInv
  <1>1. Keys' = Keys
    BY DEF Keys
  <1>2. NegotiationsSound' /\ \A s : Recd(s) <=> Recd(s)'
    BY <1>1, NegotiationsUnchanged
  <1>3. ASSUME NEW r \in Request PROVE FlowSound(flow[r], r)'
    <2>1. PICK f : f = flow[r]
      OBVIOUS
    <2>2. FlowSound(f, r)'
      BY <1>1, <1>2, <2>1, FlowFacts, FlowKept
    <2>3. (f = flow[r])'
      BY <2>1
    <2> QED BY <2>2, <2>3
  <1>4. FlowsSound'
    BY <1>3 DEF FlowsSound
  <1>5. OrderRowsSound'
    BY <1>1 DEF OrderRowsSound, Attempted
  <1>6. UNCHANGED answer => AnswersSound'
    BY DEF AnswersSound
  <1>7. UNCHANGED remote => RowsSound'
    BY RowsUnchanged
  <1> QED BY <1>1, <1>2, <1>4, <1>5, <1>6, <1>7

\* The start call answers with another request's negotiation only when its
\* own failed without an agreement.
LEMMA AnswerInv ==
    ASSUME NegotiationInv, NEW r \in Request, Answer(r)
    PROVE  NegotiationInv'
  <1> USE DEF NegotiationInv
  <1>1. UNCHANGED <<flow, memory, rows, negotiations, inbox>>
    BY DEF Answer
  <1>2. FlowsSound' /\ OrderRowsSound' /\ NegotiationsSound' /\ Keys' = Keys /\ RowsSound'
    BY <1>1, WorkflowsUnchanged DEF memory, inbox
  <1>3. MemorySound' /\ RemoteSound' /\ DeliverySound'
    BY <1>1, <1>2, MemoryKept, RemoteKept
  <1>4. PICK v : answer' = [answer EXCEPT ![r] = v] /\ v \in Request \cup {None, "error"}
                 /\ (v \in Request \ {r} => RowOf(r) = {})
    <2>1. CASE RowOf(r) # {} /\ answer' = [answer EXCEPT ![r] = r]
      BY <2>1
    <2>2. CASE /\ RowOf(r) = {} /\ negotiations # <<>>
               /\ answer' = [answer EXCEPT ![r] = negotiations[Len(negotiations)].req]
      <3>1. negotiations \in Seq(NegotiationSet)
        BY DEF NegotiationsSound
      <3>2. Len(negotiations) \in DOMAIN negotiations
        BY <2>2, <3>1, EmptySeq, LenProperties
      <3>3. negotiations[Len(negotiations)].req \in Request
        BY <3>1, <3>2, NegotiationTyped
      <3> QED BY <2>2, <3>3
    <2>3. CASE RowOf(r) = {} /\ answer' = [answer EXCEPT ![r] = "error"]
      BY <2>3, ConstantFacts
    <2> QED BY <2>1, <2>2, <2>3 DEF Answer
  <1>5. v \in Request \ {r} => flow[r].pc = "failed" /\ ~flow[r].agreed
    <2> SUFFICES ASSUME v \in Request \ {r} PROVE flow[r].pc = "failed" /\ ~flow[r].agreed
      OBVIOUS
    <2>1. FlowSound(flow[r], r) /\ flow[r] \in Flow
      BY FlowFacts
    <2>2. flow[r].pc \in {"approval", "failed", "rejected", "done"}
      BY <2>1 DEF Answer, Flow, Stages, Over, Exchanging
    <2>3. ~Recd(r)
      BY <1>4 DEF Recd
    <2>4. ~flow[r].agreed
      BY <2>1, <2>2, <2>3 DEF FlowSound
    <2> QED BY <2>1, <2>2, <2>4 DEF FlowSound
  <1>6. AnswersSound'
    BY <1>1, <1>4, <1>5 DEF AnswersSound
  <1> QED BY <1>2, <1>3, <1>6

\* An agent takes up a conversation it was sent.
LEMMA RemoteSendInv ==
    ASSUME NegotiationInv, NEW m \in Remote, RemoteSend(m)
    PROVE  NegotiationInv'
  <1> USE DEF NegotiationInv
  <1>1. UNCHANGED <<flow, memory, rows, negotiations, answer, delivery>> /\ m \notin DOMAIN remote
    BY DEF RemoteSend
  <1>2. /\ FlowsSound' /\ OrderRowsSound' /\ NegotiationsSound' /\ Keys' = Keys
        /\ AnswersSound'
    BY <1>1, WorkflowsUnchanged DEF memory
  <1>3. MemorySound'
    BY <1>1, <1>2, MemoryKept
  <1>4. PICK k \in DOMAIN results, via \in {"http", "socket"} :
          remote' = Put(remote, m, [corr |-> results[k].corr, via |-> via])
    BY DEF RemoteSend
  <1>5. PICK c : c = results[k].corr
    OBVIOUS
  <1>6. k \in KeySet /\ ReplySound(k, results[k])
    BY DEF MemorySound
  <1>7. c \in KeySet /\ (c.kind = "order" \/ Opened(c, k.req)) /\ k.req \in Request
    <2>1. k.req \in Request /\ k.kind \in {"quote", "counter", "order"} /\ k = Key(k.kind, k.req, k.n)
      BY <1>6, KeyFacts
    <2>2. CASE k.kind = "quote"
      <3>1. c = k /\ k.n \in Quantity /\ Asked(k.req, k.n)
        BY <1>5, <1>6, <2>2 DEF ReplySound
      <3> QED BY <1>6, <2>1, <2>2, <3>1 DEF Opened
    <2>3. CASE k.kind = "counter"
      <3>1. Opened(c, k.req)
        BY <1>5, <1>6, <2>3 DEF ReplySound
      <3> QED BY <2>1, <3>1, OpenedFacts
    <2>4. CASE k.kind = "order"
      BY <1>5, <1>6, <2>1, <2>4 DEF ReplySound
    <2> QED BY <2>1, <2>2, <2>3, <2>4
  <1>8. PICK e : e = [corr |-> c, via |-> via]
    OBVIOUS
  <1>9. e \in [corr : KeySet, via : {"http", "socket"}] /\ e.corr = c
    BY <1>7, <1>8
  <1>10. /\ DOMAIN remote' = DOMAIN remote \cup {m} /\ remote'[m] = e
         /\ \A x \in DOMAIN remote : remote'[x] = remote[x]
    BY <1>1, <1>4, <1>5, <1>8 DEF Put
  <1>11. \A x, s : Opened(x, s) => Opened(x, s)'
    BY <1>2, LogGrows
  <1>12. RemoteSound'
    <2>1. ASSUME NEW x \in DOMAIN remote'
          PROVE  /\ remote'[x] \in [corr : KeySet, via : {"http", "socket"}]
                 /\ remote'[x].corr.kind = "order" \/ \E s \in Request : Opened(remote[x].corr, s)'
      <3>1. PICK y : y = remote'[x]
        OBVIOUS
      <3>2. /\ y \in [corr : KeySet, via : {"http", "socket"}]
            /\ y.corr.kind = "order" \/ \E s \in Request : Opened(y.corr, s)
        BY <1>7, <1>9, <1>10, <3>1 DEF RemoteSound
      <3>3. y.corr.kind = "order" \/ \E s \in Request : Opened(y.corr, s)'
        BY <3>2, <1>11
      <3> QED BY <3>1, <3>2, <3>3
    <2> QED BY <1>10, <2>1 DEF RemoteSound
  <1>13. DeliverySound'
    BY <1>1, <1>2, <1>10 DEF DeliverySound, Seen
  <1>14. RowsSound'
    <2>1. \A row \in rows : OwnRowSound(row) => OwnRowSound(row)'
      BY <1>2, LogGrows DEF OwnRowSound
    <2>2. \A row \in rows : row.key[1] \in Remote => RemoteRowSound(row)'
      BY <1>10 DEF RowsSound, RemoteRowSound
    <2> QED BY <1>1, <2>1, <2>2 DEF RowsSound
  <1> QED BY <1>2, <1>3, <1>12, <1>13, <1>14

\* A delivery is checked.
LEMMA ReceiveInv ==
    ASSUME NegotiationInv, NEW m \in Remote, NEW d \in 1..2, Receive(m, d)
    PROVE  NegotiationInv'
  <1> USE DEF NegotiationInv
  <1>1. UNCHANGED <<flow, memory, rows, negotiations, answer, remote>>
    BY DEF Receive
  <1>2. /\ FlowsSound' /\ OrderRowsSound' /\ NegotiationsSound' /\ Keys' = Keys
        /\ AnswersSound' /\ RowsSound'
    BY <1>1, WorkflowsUnchanged DEF memory
  <1>3. MemorySound'
    BY <1>1, <1>2, MemoryKept
  <1>4. RemoteSound'
    <2>1. \A x, s : Opened(x, s) => Opened(x, s)'
      BY <1>2, LogGrows
    <2> QED BY <1>1, <2>1 DEF RemoteSound
  <1>5. PICK v \in {"refused", "checked"} : delivery' = [delivery EXCEPT ![<<m, d>>] = v]
    BY DEF Receive
  <1>6. DeliverySound'
    <2>1. m \in DOMAIN remote
      BY DEF Receive
    <2> QED BY <1>1, <1>2, <1>5, <2>1 DEF DeliverySound, Seen
  <1> QED BY <1>2, <1>3, <1>4, <1>6

\* The first delivery to be stored wins, and is shown to its merchant.
LEMMA StoreInv ==
    ASSUME NegotiationInv, NEW m \in Remote, NEW d \in 1..2, Store(m, d)
    PROVE  NegotiationInv'
  <1> USE DEF NegotiationInv
  <1>1. UNCHANGED <<flow, memory, negotiations, answer, remote>> /\ delivery[<<m, d>>] = "checked"
    BY DEF Store
  <1>2. m \in DOMAIN remote
    BY <1>1 DEF DeliverySound
  <1>3. CASE UNCHANGED rows /\ delivery' = [delivery EXCEPT ![<<m, d>>] = "refused"]
    <2>1. /\ FlowsSound' /\ OrderRowsSound' /\ NegotiationsSound' /\ Keys' = Keys
          /\ AnswersSound' /\ RowsSound'
      BY <1>1, <1>3, WorkflowsUnchanged DEF memory
    <2>2. MemorySound'
      BY <1>1, <2>1, MemoryKept
    <2>3. RemoteSound'
      <3>1. \A x, s : Opened(x, s) => Opened(x, s)'
        BY <2>1, LogGrows
      <3> QED BY <1>1, <3>1 DEF RemoteSound
    <2>4. DeliverySound'
      BY <1>1, <1>2, <1>3, <2>1 DEF DeliverySound, Seen
    <2> QED BY <2>1, <2>2, <2>3, <2>4
  <1>4. CASE /\ ~Seen(m) /\ delivery' = [delivery EXCEPT ![<<m, d>>] = "stored"]
             /\ rows' = rows \cup {Row(m, "in", remote[m].corr,
                    remote[m].via = "http" /\ \E row \in rows : row.corr = remote[m].corr /\ row.merchant, None)}
    <2>1. PICK c : c = remote[m].corr
      OBVIOUS
    <2>2. PICK known \in BOOLEAN :
            known <=> (remote[m].via = "http" /\ \E row \in rows : row.corr = c /\ row.merchant)
      OBVIOUS
    <2>3. PICK new : new = Row(m, "in", c, known, None)
      OBVIOUS
    <2>4. c \in KeySet /\ (c.kind = "order" \/ \E s \in Request : Opened(c, s))
      BY <1>2, <2>1 DEF RemoteSound
    <2>5. /\ new \in RowSet /\ new.key = <<m, "in">> /\ new.key[1] = m /\ new.corr = c
          /\ new.merchant = known
      BY <2>3, <2>4 DEF Row, RowSet
    <2>6. rows' = rows \cup {new}
      <3>1. known = (remote[m].via = "http" /\ \E row \in rows : row.corr = c /\ row.merchant)
        BY <2>2
      <3> QED BY <1>4, <2>1, <2>3, <3>1
    <2>7. remote[m].via = "http" => known \/ c.kind = "order"
      <3> SUFFICES ASSUME remote[m].via = "http", c.kind # "order" PROVE known
        OBVIOUS
      <3>1. <<c, "out">> \in Keys /\ c.kind = "quote"
        BY <2>4, OpenedFacts
      <3>2. PICK row \in rows : row.key = <<c, "out">>
        BY <3>1 DEF Keys
      <3>3. row.key[1] = c /\ row.key[2] = "out"
        BY <3>2
      <3>4. OwnRowSound(row)
        BY <2>4, <3>3 DEF RowsSound
      <3>5. row.corr = c /\ row.merchant
        BY <3>1, <3>3, <3>4 DEF OwnRowSound
      <3> QED BY <2>2, <3>5
    <2>8. RemoteRowSound(new)'
      BY <1>1, <1>2, <2>5, <2>7 DEF RemoteRowSound
    <2>9. m \notin KeySet /\ new.key \notin Keys
      BY <1>4, <2>5, ConstantFacts DEF Seen
    <2>10. PICK S : S = {new}
      OBVIOUS
    <2>11. /\ rows' = rows \cup S /\ S \subseteq RowSet /\ \A row \in S : row.key \notin Keys
           /\ \A a, b \in S : a.key = b.key => a = b
           /\ \A row \in S : row.key[1] \in KeySet => OwnRowSound(row)'
           /\ \A row \in S : row.key[1] \in Remote => RemoteRowSound(row)'
           /\ {row.key : row \in S} = {<<m, "in">>}
      BY <2>5, <2>6, <2>8, <2>9, <2>10
    <2>12. RowsSound' /\ Keys' = Keys \cup {<<m, "in">>}
      BY <1>1, <2>11, AddRows
    <2>13. MemorySound'
      BY <1>1, <2>12, MemoryKept
    <2>14. NegotiationsSound' /\ \A s : Recd(s) <=> Recd(s)'
      BY <1>1, <2>12, NegotiationsUnchanged
    <2>15. FlowsSound'
      <3>1. ASSUME NEW r \in Request PROVE FlowSound(flow[r], r)'
        <4>1. PICK f : f = flow[r]
          OBVIOUS
        <4>2. FlowSound(f, r)'
          BY <1>1, <2>12, <2>14, <4>1, FlowFacts, FlowKept DEF memory
        <4>3. (f = flow[r])'
          BY <1>1, <4>1
        <4> QED BY <4>2, <4>3
      <3> QED BY <1>1, <3>1 DEF FlowsSound
    <2>16. OrderRowsSound'
      <3>1. \A key \in Keys' : key \in Keys \/ key[1] = m
        BY <2>12
      <3> QED BY <1>1, <2>9, <3>1 DEF OrderRowsSound, Attempted
    <2>17. AnswersSound'
      BY <1>1 DEF AnswersSound
    <2>18. RemoteSound'
      <3>1. \A x, s : Opened(x, s) => Opened(x, s)'
        BY <2>12, LogGrows
      <3> QED BY <1>1, <3>1 DEF RemoteSound
    <2>19. DeliverySound'
      <3>1. delivery[<<m, 1>>] # "stored" /\ delivery[<<m, 2>>] # "stored"
        BY <1>4 DEF DeliverySound
      <3>2. Seen(m)' /\ \A x : Seen(x) => Seen(x)'
        BY <2>12 DEF Seen
      <3>3. /\ delivery' \in [Remote \X (1..2) -> {"idle", "checked", "stored", "refused"}]
            /\ delivery'[<<m, d>>] = "stored"
            /\ \A x \in Remote, e \in 1..2 : <<x, e>> # <<m, d>> => delivery'[<<x, e>>] = delivery[<<x, e>>]
        BY <1>4 DEF DeliverySound
      <3>4. \A x \in Remote, e \in 1..2 :
              /\ delivery'[<<x, e>>] # "idle" => x \in DOMAIN remote
              /\ delivery'[<<x, e>>] = "stored" => Seen(x)'
        <4> TAKE x \in Remote, e \in 1..2
        <4>1. CASE <<x, e>> = <<m, d>>
          BY <1>2, <3>2, <4>1
        <4>2. CASE <<x, e>> # <<m, d>>
          BY <3>2, <3>3, <4>2 DEF DeliverySound
        <4> QED BY <4>1, <4>2
      <3>5. \A x \in Remote : delivery'[<<x, 1>>] = "stored" => delivery'[<<x, 2>>] # "stored"
        <4> TAKE x \in Remote
        <4>1. CASE x = m
          <5>1. CASE d = 1
            BY <3>1, <3>3, <4>1, <5>1
          <5>2. CASE d = 2
            BY <3>1, <3>3, <4>1, <5>2
          <5> QED BY <5>1, <5>2
        <4>2. CASE x # m
          BY <3>3, <4>2 DEF DeliverySound
        <4> QED BY <4>1, <4>2
      <3> QED BY <1>1, <3>3, <3>4, <3>5 DEF DeliverySound
    <2> QED BY <2>12, <2>13, <2>14, <2>15, <2>16, <2>17, <2>18, <2>19
  <1> QED BY <1>3, <1>4 DEF Store

\* Answers expire.
LEMMA AgeInv ==
    ASSUME NegotiationInv, Age
    PROVE  NegotiationInv'
  <1> USE DEF NegotiationInv
  <1>1. UNCHANGED <<flow, quotes, results, quoteCorr, rows, negotiations, answer, inbox>> /\ fresh' = {}
    BY DEF Age
  <1>2. /\ FlowsSound' /\ OrderRowsSound' /\ NegotiationsSound' /\ Keys' = Keys
        /\ AnswersSound' /\ RowsSound'
    BY <1>1, WorkflowsUnchanged DEF inbox
  <1>3. RemoteSound' /\ DeliverySound'
    BY <1>1, <1>2, RemoteKept
  <1>4. MemorySound'
    <2>1. \A k \in DOMAIN results : ReplySound(k, results[k])'
      <3> TAKE k \in DOMAIN results
      <3>1. PICK reply : reply = results[k]
        OBVIOUS
      <3>2. ReplySound(k, reply)'
        BY <1>1, <1>2, <3>1, ReplyKept DEF MemorySound
      <3> QED BY <1>1, <3>1, <3>2
    <2>2. \A s, q : Asked(s, q) => Asked(s, q)'
      BY <1>2, LogGrows
    <2> QED BY <1>1, <2>1, <2>2 DEF MemorySound
  <1> QED BY <1>2, <1>3, <1>4

\* The process restarts: the agent forgets, and what was running is lost.
LEMMA CrashInv ==
    ASSUME NegotiationInv, Crash
    PROVE  NegotiationInv'
  <1> USE DEF NegotiationInv
  <1>1. UNCHANGED <<rows, negotiations, answer, remote>>
    BY DEF Crash
  <1>2. RowsSound' /\ Keys' = Keys
    BY <1>1, RowsUnchanged
  <1>3. ASSUME NEW r \in Request
        PROVE  /\ flow'[r] \in Flow /\ flow'[r].chosen = flow[r].chosen /\ flow'[r].rev = flow[r].rev
               /\ flow'[r].attempted = flow[r].attempted /\ flow'[r].agreed = flow[r].agreed
               /\ flow[r].pc \in Over => flow'[r] = flow[r]
               /\ FlowSound(flow[r], r)'
    <2>1. PICK f : f = flow[r]
      OBVIOUS
    <2>2. f \in Flow /\ FlowSound(f, r)
      BY <2>1, FlowFacts
    <2>3. PICK g : g = IF f.pc \in Over THEN f ELSE [f EXCEPT !.pc = "lost"]
      OBVIOUS
    <2>4. flow'[r] = g
      BY <2>1, <2>3 DEF Crash
    <2>5. /\ g \in Flow /\ g.pc \in Over /\ g.qty = f.qty /\ g.target = f.target
          /\ g.agreed = f.agreed /\ g.chosen = f.chosen /\ g.corr = f.corr /\ g.rev = f.rev
          /\ g.attempted = f.attempted /\ (f.pc \in Over => g = f)
          /\ (f.pc \notin Over => g.pc = "lost")
      <3>1. CASE f.pc \in Over
        BY <2>2, <2>3, <3>1
      <3>2. CASE f.pc \notin Over
        BY <2>2, <2>3, <3>2 DEF Flow, Stages, Over
      <3> QED BY <3>1, <3>2
    <2>6. FlowSound(g, r)
      <3>1. CASE f.pc \in Over
        BY <2>2, <2>5, <3>1
      <3>2. CASE f.pc \notin Over
        BY <2>2, <2>5, <3>2 DEF FlowSound, Exchanging, Over
      <3> QED BY <3>1, <3>2
    <2>7. Recd(r) => Recd(r)'
      BY <1>1 DEF Recd, RowOf
    <2>8. FlowSound(g, r)'
      BY <1>2, <2>5, <2>6, <2>7, FlowKept
    <2>9. (g = flow[r])'
      BY <2>4
    <2> QED BY <2>1, <2>4, <2>5, <2>8, <2>9
  <1>4. FlowsSound'
    <2>1. flow' \in [Request -> Flow]
      BY <1>3 DEF Crash
    <2> QED BY <1>3, <2>1 DEF FlowsSound
  <1>5. MemorySound'
    BY DEF Crash, MemorySound
  <1>6. OrderRowsSound'
    <2>1. \A k \in KeySet : Attempted(k) => Attempted(k)'
      <3> SUFFICES ASSUME NEW k \in KeySet, Attempted(k) PROVE Attempted(k)'
        OBVIOUS
      <3>1. k.req \in Request
        BY KeyFacts
      <3> QED BY <1>3, <3>1 DEF Attempted, Over
    <2> QED BY <1>2, <2>1 DEF OrderRowsSound
  <1>7. NegotiationsSound'
    <2>1. \A s \in Request : flow[s].chosen # NoQuote => flow'[s].chosen # NoQuote
      BY <1>3
    <2> QED BY <1>1, <1>2, <2>1, NegotiationsUnchanged
  <1>8. AnswersSound'
    BY <1>1, <1>3 DEF AnswersSound, Over
  <1>9. RemoteSound'
    <2>1. \A x, s : Opened(x, s) => Opened(x, s)'
      BY <1>2, LogGrows
    <2> QED BY <1>1, <2>1 DEF RemoteSound
  <1>10. DeliverySound'
    BY <1>1, <1>2 DEF Crash, DeliverySound, Seen
  <1> QED BY <1>2, <1>4, <1>5, <1>6, <1>7, <1>8, <1>9, <1>10

\* A step that changes nothing.
LEMMA StutterInv ==
    ASSUME NegotiationInv, UNCHANGED vars
    PROVE  NegotiationInv'
  <1> USE DEF NegotiationInv
  <1>1. /\ UNCHANGED <<flow, rows, negotiations>> /\ UNCHANGED quoteCorr
        /\ UNCHANGED <<quotes, results, fresh, answer, remote, delivery>>
    BY DEF vars
  <1>2. /\ FlowsSound' /\ OrderRowsSound' /\ NegotiationsSound' /\ Keys' = Keys
        /\ AnswersSound' /\ RowsSound'
    BY <1>1, WorkflowsUnchanged
  <1>3. MemorySound'
    <2>1. \A k \in DOMAIN results : ReplySound(k, results[k])'
      <3> TAKE k \in DOMAIN results
      <3>1. PICK reply : reply = results[k]
        OBVIOUS
      <3>2. ReplySound(k, reply)'
        BY <1>1, <1>2, <3>1, ReplyKept DEF MemorySound
      <3> QED BY <1>1, <3>1, <3>2
    <2>2. \A s, q : Asked(s, q) => Asked(s, q)'
      BY <1>2, LogGrows
    <2> QED BY <1>1, <2>1, <2>2 DEF MemorySound
  <1>4. RemoteSound'
    <2>1. \A x, s : Opened(x, s) => Opened(x, s)'
      BY <1>2, LogGrows
    <2> QED BY <1>1, <2>1 DEF RemoteSound
  <1>5. DeliverySound'
    BY <1>1, <1>2 DEF DeliverySound, Seen
  <1> QED BY <1>2, <1>3, <1>4, <1>5

\* A node of the workflow.
LEMMA StepInv ==
    ASSUME NegotiationInv, NEW r \in Request, Step(r)
    PROVE  NegotiationInv'
  <1>1. CASE Send(r) \/ Ask(r) \/ AskAgain(r) \/ AskFails(r)
    BY <1>1, SendInv, AskInv, AskAgainInv, AskFailsInv
  <1>2. CASE KeepQuote(r) \/ Negotiate(r) \/ KeepCounter(r)
    BY <1>2, KeepQuoteInv, NegotiateInv, KeepCounterInv
  <1>3. CASE RecordNegotiation(r) \/ Propose(r) \/ SaveOrder(r)
    BY <1>3, RecordNegotiationInv, ProposeInv, SaveOrderInv
  <1> QED BY <1>1, <1>2, <1>3 DEF Step

\* Every step keeps the invariant.
LEMMA NegotiationNext == NegotiationInv /\ [Next]_vars => NegotiationInv'
  <1> SUFFICES ASSUME NegotiationInv, [Next]_vars PROVE NegotiationInv'
    OBVIOUS
  <1>1. ASSUME NEW r \in Request,
               Start(r) \/ Step(r) \/ Answer(r) \/ Approve(r) \/ Reject(r) \/ Modify(r)
        PROVE  NegotiationInv'
    BY <1>1, StartInv, StepInv, AnswerInv, ApproveInv, RejectInv, ModifyInv
  <1>2. ASSUME NEW m \in Remote, RemoteSend(m) PROVE NegotiationInv'
    BY <1>2, RemoteSendInv
  <1>3. ASSUME NEW m \in Remote, NEW d \in 1..2, Receive(m, d) \/ Store(m, d)
        PROVE  NegotiationInv'
    BY <1>3, ReceiveInv, StoreInv
  <1>4. CASE Age
    BY <1>4, AgeInv
  <1>5. CASE Crash
    BY <1>5, CrashInv
  <1>6. CASE UNCHANGED vars
    BY <1>6, StutterInv
  <1> QED BY <1>1, <1>2, <1>3, <1>4, <1>5, <1>6 DEF Next

\* Every conversation in use was opened by a quote request that is in the log,
\* and for a quantity its user asked for too; what was agreed, recorded and
\* answered is traced through it.
THEOREM NegotiationInvariant == Spec => []NegotiationInv
  <1>1. QED
    BY NegotiationInit, NegotiationNext, PTL DEF Spec

-----------------------------------------------------------------------------
(* The properties.                                                          *)

\* The merchant is only shown an offer within the limits of the request as it
\* stands, whichever revision the agent's answer was given to.
THEOREM OffersWithinLimits == Spec => []AgreedWithinLimits
  <1>1. NegotiationInv => AgreedWithinLimits
    BY DEF NegotiationInv, FlowsSound, FlowSound, OfferSound, AgreedWithinLimits
  <1>2. QED
    BY <1>1, NegotiationInvariant, PTL

\* A message filed under another request's negotiation, a violated constraint
\* and a price below the agent's floor all need a quote that two requests
\* share.
THEOREM MixUpsAreTraced == Spec => []MixUpsNeedSharedQuote
  <1>1. NegotiationInv => ForeignLinkOnlyIfShared
    <2> SUFFICES ASSUME NegotiationInv, NEW row \in rows, row.neg # None, row.key[1] \notin Remote
                 PROVE  row.neg = row.key[1].req \/ Share(row.neg, row.key[1].req)
      BY DEF ForeignLinkOnlyIfShared
    <2>1. row.key[1] \in KeySet
      BY DEF NegotiationInv, RowsSound, RowSet
    <2> QED BY <2>1 DEF NegotiationInv, RowsSound, OwnRowSound
  <1>2. NegotiationInv => ConflictOnlyIfShared
    BY DEF NegotiationInv, FlowsSound, FlowSound, ConflictOnlyIfShared
  <1>3. NegotiationInv => BelowFloorOnlyIfShared
    <2> SUFFICES ASSUME NegotiationInv, NEW r \in Request, flow[r].chosen # NoQuote,
                        flow[r].chosen.price < (Price * 94) \div 100
                 PROVE  Undercut(r)
      BY DEF BelowFloorOnlyIfShared, Undercut, CounterSent
    <2>1. flow[r].chosen.price < Floor(Price)
      BY DEF Floor
    <2> QED BY <2>1 DEF NegotiationInv, FlowsSound, FlowSound
  <1>4. QED
    BY <1>1, <1>2, <1>3, NegotiationInvariant, PTL DEF MixUpsNeedSharedQuote

\* The state is typed and a key has one row.
LEMMA NegotiationTypes == NegotiationInv => TypeOK
  <1> SUFFICES ASSUME NegotiationInv PROVE TypeOK
    OBVIOUS
  <1> USE DEF NegotiationInv
  <1>1. ASSUME NEW r \in Request
        PROVE  /\ flow[r].pc \in Over \cup {"sending", "asking", "keeping", "quoted", "recording",
                                            "proposing"}
               /\ flow[r].quote \in Quoted /\ flow[r].chosen \in Quoted
               /\ flow[r].rev \in 1..MaxRevisions
               /\ flow[r].pc # "idle" => flow[r].qty \in Quantity /\ flow[r].target \in Target
               /\ flow[r].pc \in {"sending", "asking", "keeping"} =>
                    flow[r].key \in KeySet /\ flow[r].conv \in KeySet
               /\ answer[r] \in Request \cup {None, "error"}
    <2>1. PICK f : f = flow[r]
      OBVIOUS
    <2>2. f \in Flow /\ FlowSound(f, r)
      BY <2>1, FlowFacts
    <2>3. /\ f.pc \in Over \cup {"sending", "asking", "keeping", "quoted", "recording", "proposing"}
          /\ f.quote \in Quoted /\ f.chosen \in Quoted /\ f.rev \in 1..MaxRevisions
      BY <2>2 DEF Flow, Stages, Exchanging
    <2>4. f.pc # "idle" => f.qty \in Quantity /\ f.target \in Target
      BY <2>2 DEF FlowSound
    <2>5. ASSUME f.pc \in {"sending", "asking", "keeping"}
          PROVE  f.key \in KeySet /\ f.conv \in KeySet
      <3>1. f.qty \in Quantity
        BY <2>4, <2>5
      <3>2. Quoting(f, r) \/ Countering(f, r) \/ Ordering(f, r)
        BY <2>2, <2>5 DEF FlowSound, Exchanging
      <3>3. CASE Quoting(f, r)
        BY <3>1, <3>3, KeyFacts DEF Quoting
      <3>4. CASE Countering(f, r)
        BY <3>4, KeyFacts, OpenedFacts DEF Countering
      <3>5. CASE Ordering(f, r)
        <4>1. f.key = Key("order", r, f.rev) /\ (f.conv = f.key \/ Opened(f.conv, r))
          BY <3>5 DEF Ordering
        <4>2. f.key \in KeySet
          BY <2>3, <4>1, KeyFacts
        <4> QED BY <4>1, <4>2, OpenedFacts
      <3> QED BY <3>2, <3>3, <3>4, <3>5
    <2>6. answer[r] \in Request \cup {None, "error"}
      BY DEF AnswersSound
    <2> QED BY <2>1, <2>3, <2>4, <2>5, <2>6
  <1>2. ASSUME NEW key \in Keys PROVE Cardinality({row \in rows : row.key = key}) = 1
    <2>1. PICK row \in rows : row.key = key
      BY DEF Keys
    <2>2. {other \in rows : other.key = key} = {row}
      BY <2>1 DEF RowsSound
    <2>3. Cardinality({row}) = 1
      BY FS_Singleton
    <2> QED BY <2>2, <2>3
  <1>3. \A row \in rows : row.corr \in KeySet /\ row.neg \in Request \cup {None}
    BY DEF RowsSound, RowSet
  <1>4. /\ DOMAIN quotes \subseteq Quantity /\ DOMAIN quoteCorr \subseteq Quantity
        /\ DOMAIN results \subseteq KeySet /\ fresh \subseteq DOMAIN results
    BY DEF MemorySound
  <1>5. DOMAIN remote \subseteq Remote
    BY DEF RemoteSound
  <1>6. delivery \in [Remote \X (1..2) -> {"idle", "checked", "stored", "refused"}]
    BY DEF DeliverySound
  <1> QED BY <1>1, <1>2, <1>3, <1>4, <1>5, <1>6 DEF TypeOK

\* No offer exceeds the catalog price, no key has two rows, and what is
\* recorded or answered of a negotiation misleads only where it reached no
\* agreement.
THEOREM RecordsAreTruthful == Spec => []RecordsTruthful
  <1>1. NegotiationInv => FailedRecordedOnlyAfterAgreement
    <2> SUFFICES ASSUME NegotiationInv, NEW r \in Request, RowOf(r) # {}
                 PROVE  flow[r].agreed \/ flow[r].rev > 1
      BY DEF FailedRecordedOnlyAfterAgreement
    <2>1. flow[r].chosen # NoQuote
      BY DEF NegotiationInv, NegotiationsSound, RowOf
    <2>2. flow[r].rev = 1 => flow[r].agreed
      BY <2>1 DEF NegotiationInv, FlowsSound, FlowSound
    <2>3. flow[r].rev \in 1..MaxRevisions
      BY DEF NegotiationInv, FlowsSound, Flow
    <2> QED BY <2>2, <2>3, ConstantFacts
  <1>2. NegotiationInv => AnswerIsOwnIfAgreed
    BY DEF NegotiationInv, AnswersSound, AnswerIsOwnIfAgreed
  <1>3. QED
    BY <1>1, <1>2, NegotiationTypes, NegotiationInvariant, PTL DEF RecordsTruthful

\* When the merchant is asked, and when the order is done, the log has every
\* envelope of it in both directions.
THEOREM TrailIsComplete == Spec => []TrailComplete
  <1>1. NegotiationInv => TrailComplete
    <2> SUFFICES ASSUME NegotiationInv, NEW r \in Request, NEW dir \in {"out", "in"}
                 PROVE  /\ flow[r].pc = "approval" => <<Key("quote", r, flow[r].qty), dir>> \in Keys
                        /\ flow[r].pc = "approval" /\ flow[r].chosen.price > flow[r].target =>
                             <<Key("counter", r, 0), dir>> \in Keys
                        /\ flow[r].pc = "done" => <<Key("order", r, flow[r].rev), dir>> \in Keys
      BY DEF TrailComplete
    <2>1. FlowSound(flow[r], r)
      BY DEF NegotiationInv, FlowsSound
    <2>2. flow[r].pc = "approval" => OfferSound(flow[r], r)
      BY <2>1 DEF FlowSound
    <2>3. flow[r].pc = "done" => <<Key("order", r, flow[r].rev), dir>> \in Keys
      BY <2>1 DEF FlowSound
    <2> QED BY <2>2, <2>3 DEF OfferSound
  <1>2. QED
    BY <1>1, NegotiationInvariant, PTL

\* An envelope from outside is stored once, also when two deliveries of it
\* race, and the merchant of its conversation is found.
THEOREM RemoteEnvelopesAreHandled == Spec => []RemoteHandled
  <1>1. NegotiationInv => RemoteAttributed
    <2> SUFFICES ASSUME NegotiationInv, NEW row \in rows, row.key[1] \in DOMAIN remote,
                        remote[row.key[1]].via = "http"
                 PROVE  row.merchant \/ row.corr.kind = "order"
      BY DEF RemoteAttributed
    <2>1. row.key[1] \in Remote
      BY DEF NegotiationInv, RemoteSound
    <2> QED BY <2>1 DEF NegotiationInv, RowsSound, RemoteRowSound
  <1>2. NegotiationInv => RemoteStoredOnce
    <2> SUFFICES ASSUME NegotiationInv, NEW m \in Remote
                 PROVE  Cardinality({d \in 1..2 : delivery[<<m, d>>] = "stored"}) <= 1
      BY DEF RemoteStoredOnce
    <2>1. PICK A : A = {d \in 1..2 : delivery[<<m, d>>] = "stored"}
      OBVIOUS
    <2>2. A = {} \/ A = {1} \/ A = {2}
      <3>1. 1..2 = {1, 2}
        OBVIOUS
      <3>2. ~(1 \in A /\ 2 \in A)
        BY <2>1 DEF NegotiationInv, DeliverySound
      <3> QED BY <2>1, <3>1, <3>2
    <2>3. Cardinality({}) = 0
      BY FS_EmptySet
    <2>4. Cardinality({1}) = 1 /\ Cardinality({2}) = 1
      BY FS_Singleton
    <2>5. Cardinality(A) \in {0, 1}
      BY <2>2, <2>3, <2>4
    <2>6. Cardinality(A) <= 1
      BY <2>5
    <2> QED BY <2>1, <2>6
  <1>3. QED
    BY <1>1, <1>2, NegotiationInvariant, PTL DEF RemoteHandled
=============================================================================
