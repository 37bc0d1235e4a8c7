---------------------- MODULE ApprovalEndpointsProofs ----------------------
(***************************************************************************)
(* Proofs about ApprovalEndpoints, for any number of concurrent requests,   *)
(* idempotency keys, chat updates, proposals and crashes.                   *)
(*                                                                         *)
(* A handler commits the decision, the graph's steps and the stored answer  *)
(* in different sessions.  What ties them together is what the request      *)
(* remembers in between: the approval it has decided still shows its        *)
(* action and its caller when the answer is stored.                         *)
(***************************************************************************)
EXTENDS ApprovalEndpoints, SequenceTheorems, TLAPS

Caller == [via : {"rest"}, key : Key] \cup [via : {"chat"}, update : Update]

Message == {NoUpdate, [kind |-> "command"]} \cup
           [kind : {"button"}, approval : Nat, button : Button]

\* The history and what was sent have the shapes the handlers rely on.
HistorySound ==
    /\ decidedBy \in Seq(Caller \cup {Nobody}) /\ Len(decidedBy) = Len(approvals)
    /\ sent \in [Update -> Message]
    /\ acted \in [Update -> Nat]
    /\ crashes \in Nat

\* What a request remembers is true: of an approval it has decided, the action
\* and the caller.
Sound(w) ==
    /\ tx[w].pc \in {"idle", "checked", "decided", "resumed", "started", "received"}
    /\ tx[w].pc \in {"checked", "decided", "resumed"} =>
          /\ tx[w].approval \in DOMAIN approvals
          /\ tx[w].action \in Decision
          /\ tx[w].caller \in Caller
    /\ tx[w].pc \in {"decided", "resumed"} =>
          /\ approvals[tx[w].approval] = tx[w].action
          /\ decidedBy[tx[w].approval] = tx[w].caller
    /\ tx[w].pc = "checked" => DOMAIN tx[w] = {"pc", "approval", "action", "caller"}
    /\ tx[w].pc = "received" => tx[w].update \in Update

RequestsSound == DOMAIN tx = Worker /\ \A w \in Worker : Sound(w)

\* An update that was acted upon has its row, which stops every other delivery.
ActedIsKept ==
    \A u \in Update : acted[u] <= 1 /\ (acted[u] = 1 => messages[u] # "none")

EndpointsInv ==
    /\ AnswersMatchDecisions
    /\ HistorySound
    /\ RequestsSound
    /\ ActedIsKept
    /\ RunIsRecorded

-----------------------------------------------------------------------------
(* Steps of one request that leave the tables of decisions alone.           *)

\* A step of one request leaves what the others remember.
LEMMA TxChange ==
    ASSUME RequestsSound, NEW w \in Worker, NEW r, tx' = [tx EXCEPT ![w] = r]
    PROVE  /\ DOMAIN tx' = Worker /\ tx'[w] = r
           /\ \A v \in Worker \ {w} : tx'[v] = tx[v]
  BY DEF RequestsSound

\* A caller is known by its channel.
LEMMA CallerFacts ==
    /\ \A c \in Caller : /\ c.via \in {"rest", "chat"}
                         /\ c.via = "rest" => c.key \in Key /\ c = [via |-> "rest", key |-> c.key]
                         /\ c.via = "chat" => c.update \in Update
    /\ Nobody.via = "nobody"
  BY DEF Caller, Nobody

\* The types of the tables, one by one.
LEMMA Tables ==
    ASSUME EndpointsInv
    PROVE  /\ TypeOK /\ HistorySound
           /\ approvals \in Seq(Status) /\ Len(approvals) \in Nat
           /\ DOMAIN approvals = 1..Len(approvals)
           /\ decidedBy \in Seq(Caller \cup {Nobody})
           /\ DOMAIN decidedBy = 1..Len(approvals)
  <1>1. TypeOK /\ HistorySound
    BY DEF EndpointsInv, AnswersMatchDecisions
  <1>2. approvals \in Seq(Status) /\ decidedBy \in Seq(Caller \cup {Nobody})
        /\ Len(decidedBy) = Len(approvals)
    BY <1>1 DEF TypeOK, HistorySound
  <1>3. QED
    BY <1>1, <1>2, LenProperties

\* A request ends, or begins, without touching decisions, answers and run:
\* no decision is left without its answer, and no thread without its run.
LEMMA TxInv ==
    ASSUME EndpointsInv, NEW w \in Worker, NEW r, tx' = [tx EXCEPT ![w] = r],
           UNCHANGED <<thread, approvals, run, keys, decidedBy>>,
           crashes' \in Nat, crashes' >= crashes,
           TypeOK', HistorySound', ActedIsKept', Sound(w)',
           tx[w].pc = "started" => crashes' > 0,
           tx[w].pc \in {"decided", "resumed"} =>
              crashes' > 0 \/ decidedBy[tx[w].approval].via # "rest"
    PROVE  EndpointsInv'
  <1> USE DEF EndpointsInv
  <1>1. /\ DOMAIN tx' = Worker /\ tx'[w] = r
        /\ \A v \in Worker \ {w} : tx'[v] = tx[v]
    BY TxChange
  <1>2. crashes \in Nat
    BY DEF HistorySound
  <1>3. RequestsSound'
    BY <1>1 DEF RequestsSound, Sound
  <1>4. AnswersAgree'
    BY DEF AnswersMatchDecisions, AnswersAgree
  <1>5. DecisionIsAnswered'
    <2> SUFFICES ASSUME NEW a \in DOMAIN approvals, decidedBy[a].via = "rest",
                        Scope(a, approvals[a], decidedBy[a].key) \notin keys, ~(crashes' > 0)
                 PROVE  Busy(a)'
      BY DEF DecisionIsAnswered, Scope
    <2>1. Busy(a)
      BY <1>2 DEF AnswersMatchDecisions, DecisionIsAnswered
    <2>2. PICK v \in Worker : tx[v].pc \in {"decided", "resumed"} /\ tx[v].approval = a
      BY <2>1 DEF Busy
    <2>3. v # w
      BY <2>2
    <2>4. QED
      BY <1>1, <2>2, <2>3 DEF Busy
  <1>6. RunIsRecorded'
    BY <1>1, <1>2 DEF RunIsRecorded
  <1>7. QED
    BY <1>3, <1>4, <1>5, <1>6 DEF AnswersMatchDecisions

\* The same when the chat is not involved either.
LEMMA PlainTxInv ==
    ASSUME EndpointsInv, NEW w \in Worker, NEW r, tx' = [tx EXCEPT ![w] = r],
           UNCHANGED <<thread, approvals, run, keys, decidedBy, chatVars>>,
           crashes' \in Nat, crashes' >= crashes,
           Sound(w)',
           tx[w].pc = "started" => crashes' > 0,
           tx[w].pc \in {"decided", "resumed"} => crashes' > 0
    PROVE  EndpointsInv'
  <1>1. TypeOK'
    BY DEF EndpointsInv, AnswersMatchDecisions, TypeOK, chatVars
  <1>2. HistorySound' /\ ActedIsKept'
    BY DEF EndpointsInv, HistorySound, ActedIsKept, chatVars
  <1>3. QED
    BY <1>1, <1>2, TxInv

\* An idle request remembers nothing.
LEMMA IdleSound == ASSUME NEW w \in Worker, tx'[w] = Idle PROVE Sound(w)'
  BY DEF Sound, Idle

\* A request that found the thread waiting remembers an approval that exists.
LEMMA CheckedSound ==
    ASSUME EndpointsInv, NEW w \in Worker, NEW a, NEW action \in Decision,
           NEW caller \in Caller, Snapshot(w, a, action, caller), UNCHANGED approvals
    PROVE  /\ Sound(w)'
           /\ tx' = [tx EXCEPT ![w] = [pc |-> "checked", approval |-> a, action |-> action,
                                       caller |-> caller]]
  <1> DEFINE r == [pc |-> "checked", approval |-> a, action |-> action, caller |-> caller]
  <1>1. Waiting(a) /\ tx' = [tx EXCEPT ![w] = r]
    BY DEF Snapshot
  <1>2. a \in DOMAIN approvals
    <2>1. thread = [phase |-> "waiting", approval |-> a]
      BY <1>1 DEF Waiting
    <2>2. thread \in [phase : {"waiting"}, approval : 1..Len(approvals)] \cup
             [phase : {"ended"}, outcome : {"NO_PROPOSAL", "VERIFIED", "FAILED", "REJECTED"}]
      BY Tables DEF TypeOK
    <2>3. thread.phase = "waiting" /\ thread.approval = a
      BY <2>1
    <2>4. thread \in [phase : {"waiting"}, approval : 1..Len(approvals)]
      BY <2>2, <2>3
    <2>5. QED
      BY <2>3, <2>4, Tables
  <1>3. /\ r.pc = "checked" /\ r.approval = a /\ r.action = action /\ r.caller = caller
        /\ DOMAIN r = {"pc", "approval", "action", "caller"}
    OBVIOUS
  <1> HIDE DEF r
  <1>4. tx'[w] = r
    BY <1>1, TxChange DEF EndpointsInv
  <1>5. Sound(w)'
    BY <1>2, <1>3, <1>4 DEF Sound
  <1>6. QED
    BY <1>1, <1>5 DEF r

\* The row was decided by another request.
LEMMA DecideRaisesInv ==
    ASSUME EndpointsInv, NEW w \in Worker, DecideRaises(w)
    PROVE  EndpointsInv'
  <1>1. /\ tx[w].pc = "checked" /\ tx' = [tx EXCEPT ![w] = Idle]
        /\ UNCHANGED <<thread, approvals, run, keys, chatVars, crashes, decidedBy>>
    BY DEF DecideRaises
  <1>2. tx'[w] = Idle /\ crashes \in Nat
    BY <1>1, TxChange DEF EndpointsInv, HistorySound
  <1>3. crashes' \in Nat /\ crashes' >= crashes
    BY <1>1, <1>2
  <1>4. QED
    BY <1>1, <1>2, <1>3, IdleSound, PlainTxInv

\* A crash may leave a decision without its answer, and says so.
LEMMA CrashInv ==
    ASSUME EndpointsInv, NEW w \in Worker, Crash(w)
    PROVE  EndpointsInv'
  <1>1. /\ crashes' = crashes + 1 /\ tx' = [tx EXCEPT ![w] = Idle]
        /\ UNCHANGED <<thread, approvals, run, keys, chatVars, decidedBy>>
    BY DEF Crash
  <1>2. tx'[w] = Idle /\ crashes \in Nat
    BY <1>1, TxChange DEF EndpointsInv, HistorySound
  <1>3. crashes' \in Nat /\ crashes' >= crashes /\ crashes' > 0
    BY <1>1, <1>2
  <1>4. QED
    BY <1>1, <1>2, <1>3, IdleSound, PlainTxInv

\* A REST request passes the snapshot.
LEMMA RestResumeInv ==
    ASSUME EndpointsInv, NEW w \in Worker, NEW a, NEW action \in Decision, NEW key \in Key,
           RestResume(w, a, action, key)
    PROVE  EndpointsInv'
  <1> DEFINE c == [via |-> "rest", key |-> key]
  <1> DEFINE r == [pc |-> "checked", approval |-> a, action |-> action, caller |-> c]
  <1>1. /\ tx[w] = Idle /\ Snapshot(w, a, action, c)
        /\ UNCHANGED <<thread, approvals, run, keys, chatVars, crashes, decidedBy>>
    BY DEF RestResume
  <1>2. c \in Caller
    BY DEF Caller
  <1> HIDE DEF c
  <1>3. Sound(w)' /\ tx' = [tx EXCEPT ![w] = r]
    BY <1>1, <1>2, CheckedSound
  <1>4. tx[w].pc = "idle" /\ crashes \in Nat
    BY <1>1 DEF Idle, EndpointsInv, HistorySound
  <1> HIDE DEF r
  <1>5. crashes' \in Nat /\ crashes' >= crashes
    BY <1>1, <1>4
  <1>6. QED
    BY <1>1, <1>3, <1>4, <1>5, PlainTxInv

-----------------------------------------------------------------------------
(* Chat updates.                                                            *)

\* A step of the chat that changes no request: the tables are as they were.
LEMMA ChatInv ==
    ASSUME EndpointsInv, UNCHANGED <<thread, approvals, run, keys, tx, crashes, decidedBy>>,
           TypeOK', HistorySound', ActedIsKept'
    PROVE  EndpointsInv'
  <1>1. AnswersAgree' /\ DecisionIsAnswered'
    BY DEF EndpointsInv, AnswersMatchDecisions, AnswersAgree, DecisionIsAnswered, Busy, Scope
  <1>2. RequestsSound' /\ RunIsRecorded'
    BY DEF EndpointsInv, RequestsSound, Sound, RunIsRecorded
  <1>3. QED
    BY <1>1, <1>2 DEF EndpointsInv, AnswersMatchDecisions

\* The merchant sends something new.
LEMMA SendInv ==
    ASSUME EndpointsInv, NEW u \in Update, Send(u)
    PROVE  EndpointsInv'
  <1>1. /\ unacked' = unacked \cup {u}
        /\ UNCHANGED <<thread, approvals, run, keys, messages, chat, poller, tx, crashes, acted,
                       decidedBy>>
    BY DEF Send
  <1>2. PICK m \in Message : m # NoUpdate /\ sent' = [sent EXCEPT ![u] = m]
    <2>1. CASE sent' = [sent EXCEPT ![u] = [kind |-> "command"]]
      <3>1. [kind |-> "command"] \in Message /\ [kind |-> "command"].kind = "command"
        BY DEF Message
      <3>2. NoUpdate.kind = "none"
        BY DEF NoUpdate
      <3>3. QED
        BY <2>1, <3>1, <3>2
    <2>2. ASSUME NEW a \in DOMAIN approvals, NEW b \in Button,
                 sent' = [sent EXCEPT ![u] = [kind |-> "button", approval |-> a, button |-> b]]
          PROVE  \E m \in Message : m # NoUpdate /\ sent' = [sent EXCEPT ![u] = m]
      <3> DEFINE m == [kind |-> "button", approval |-> a, button |-> b]
      <3>1. a \in Nat
        BY Tables
      <3>2. m \in Message /\ m.kind = "button"
        BY <3>1 DEF Message
      <3>3. NoUpdate.kind = "none"
        BY DEF NoUpdate
      <3>4. QED
        BY <2>2, <3>2, <3>3
    <2>3. QED
      BY <2>1, <2>2 DEF Send
  <1>3. sent \in [Update -> Message]
    BY Tables DEF HistorySound
  <1>4. /\ sent' \in [Update -> Message] /\ sent'[u] # NoUpdate
        /\ \A v \in Update \ {u} : sent'[v] = sent[v]
    BY <1>2, <1>3
  <1>5. TypeOK'
    BY <1>1, <1>4, Tables DEF TypeOK
  <1>6. HistorySound' /\ ActedIsKept'
    BY <1>1, <1>4 DEF EndpointsInv, HistorySound, ActedIsKept
  <1>7. QED
    BY <1>1, <1>5, <1>6, ChatInv

\* A delivery that comes again, and the poller's loop, change no decision.
LEMMA IdleChatInv ==
    ASSUME EndpointsInv, Poll \/ \E u \in Update : ReceiveDuplicate(u)
    PROVE  EndpointsInv'
  <1>1. /\ unacked' \subseteq unacked /\ poller' \in {"off", "calling", "sleeping"}
        /\ UNCHANGED <<thread, approvals, run, keys, messages, sent, chat, tx, crashes, acted,
                       decidedBy>>
    BY Tables DEF Poll, ReceiveDuplicate, TypeOK
  <1>2. TypeOK'
    BY <1>1, Tables DEF TypeOK
  <1>3. HistorySound' /\ ActedIsKept'
    BY <1>1 DEF EndpointsInv, HistorySound, ActedIsKept
  <1>4. QED
    BY <1>1, <1>2, <1>3, ChatInv

\* The row of an update is inserted once, and only then is it acted upon.
LEMMA ReceiveInv ==
    ASSUME EndpointsInv, NEW w \in Worker, NEW u \in Update, Receive(w, u)
    PROVE  EndpointsInv'
  <1> DEFINE r == [pc |-> "received", update |-> u]
  <1>1. /\ tx[w] = Idle /\ messages[u] = "none"
        /\ messages' = [messages EXCEPT ![u] = "RECEIVED"]
        /\ acted' = [acted EXCEPT ![u] = acted[u] + 1]
        /\ tx' = [tx EXCEPT ![w] = r]
        /\ UNCHANGED <<thread, approvals, run, keys, sent, unacked, chat, poller, crashes,
                       decidedBy>>
    BY DEF Receive
  <1>2. r.pc = "received" /\ r.update = u
    OBVIOUS
  <1> HIDE DEF r
  <1>3. acted[u] = 0 /\ acted \in [Update -> Nat] /\ crashes \in Nat
    BY <1>1 DEF EndpointsInv, ActedIsKept, HistorySound
  <1>4. messages \in [Update -> {"none", "RECEIVED", "NEEDS_MODIFICATION_DETAILS"}]
    BY Tables DEF TypeOK
  <1>5. /\ messages' \in [Update -> {"none", "RECEIVED", "NEEDS_MODIFICATION_DETAILS"}]
        /\ messages'[u] = "RECEIVED"
        /\ \A v \in Update \ {u} : messages'[v] = messages[v]
    BY <1>1, <1>4
  <1>6. /\ acted' \in [Update -> Nat] /\ acted'[u] = 1
        /\ \A v \in Update \ {u} : acted'[v] = acted[v]
    BY <1>1, <1>3
  <1>7. TypeOK'
    BY <1>1, <1>5, Tables DEF TypeOK
  <1>8. HistorySound'
    BY <1>1, <1>6 DEF EndpointsInv, HistorySound
  <1>9. ActedIsKept'
    BY <1>5, <1>6 DEF EndpointsInv, ActedIsKept
  <1>10. Sound(w)'
    <2>1. tx'[w] = r
      BY <1>1, TxChange DEF EndpointsInv
    <2>2. QED
      BY <1>2, <2>1 DEF Sound
  <1>11. tx[w].pc = "idle" /\ crashes' \in Nat /\ crashes' >= crashes
    BY <1>1, <1>3 DEF Idle
  <1>12. QED
    BY <1>1, <1>7, <1>8, <1>9, <1>10, <1>11, TxInv

\* A MODIFY button or a command is answered without the workflow.
LEMMA HandleSimpleInv ==
    ASSUME EndpointsInv, NEW w \in Worker, HandleSimple(w)
    PROVE  EndpointsInv'
  <1> DEFINE u == tx[w].update
  <1>1. /\ tx[w].pc = "received"
        /\ messages' = [messages EXCEPT ![u] = IF sent[u].kind = "command" THEN messages[u]
                                               ELSE "NEEDS_MODIFICATION_DETAILS"]
        /\ unacked' \subseteq unacked /\ chat' \in {TRUE, chat}
        /\ tx' = [tx EXCEPT ![w] = Idle]
        /\ UNCHANGED <<thread, approvals, run, keys, sent, poller, crashes, acted, decidedBy>>
    BY DEF HandleSimple
  <1>2. u \in Update
    BY <1>1 DEF EndpointsInv, RequestsSound, Sound
  <1> HIDE DEF u
  <1>3. messages \in [Update -> {"none", "RECEIVED", "NEEDS_MODIFICATION_DETAILS"}]
    BY Tables DEF TypeOK
  <1>4. /\ messages' \in [Update -> {"none", "RECEIVED", "NEEDS_MODIFICATION_DETAILS"}]
        /\ messages'[u] \in {messages[u], "NEEDS_MODIFICATION_DETAILS"}
        /\ \A v \in Update \ {u} : messages'[v] = messages[v]
    BY <1>1, <1>2, <1>3
  <1>5. TypeOK'
    BY <1>1, <1>4, Tables DEF TypeOK
  <1>6. HistorySound' /\ ActedIsKept'
    BY <1>1, <1>4 DEF EndpointsInv, HistorySound, ActedIsKept
  <1>7. tx'[w] = Idle
    BY <1>1, TxChange DEF EndpointsInv
  <1>8. crashes' \in Nat /\ crashes' >= crashes
    BY <1>1 DEF EndpointsInv, HistorySound
  <1>9. QED
    BY <1>1, <1>5, <1>6, <1>7, <1>8, IdleSound, TxInv

\* Any other button is taken to the workflow, or refused by it.
LEMMA HandleButtonInv ==
    ASSUME EndpointsInv, NEW w \in Worker, HandleButton(w) \/ HandleRaises(w)
    PROVE  EndpointsInv'
  <1>1. /\ tx[w].pc = "received" /\ Deciding(tx[w].update) /\ chat' = TRUE
        /\ UNCHANGED <<thread, approvals, run, keys, messages, sent, unacked, poller, crashes,
                       acted, decidedBy>>
    BY DEF HandleButton, HandleRaises
  <1>2. TypeOK'
    BY <1>1, Tables DEF TypeOK
  <1>3. HistorySound' /\ ActedIsKept' /\ crashes' \in Nat /\ crashes' >= crashes
    BY <1>1 DEF EndpointsInv, HistorySound, ActedIsKept
  <1>4. PICK r : Sound(w)' /\ tx' = [tx EXCEPT ![w] = r]
    <2>1. CASE HandleRaises(w)
      <3>1. tx' = [tx EXCEPT ![w] = Idle]
        BY <2>1 DEF HandleRaises
      <3>2. QED
        BY <3>1, IdleSound, TxChange DEF EndpointsInv
    <2>2. CASE HandleButton(w)
      <3> DEFINE u == tx[w].update  c == [via |-> "chat", update |-> u]
      <3>1. u \in Update
        BY <1>1 DEF EndpointsInv, RequestsSound, Sound
      <3>2. c \in Caller
        BY <3>1 DEF Caller
      <3>3. DecisionOf[sent[u].button] \in Decision
        <4>1. sent[u] \in Message /\ sent[u].kind = "button" /\ sent[u].button # "MODIFY"
          BY <1>1, <3>1, Tables DEF HistorySound, Deciding
        <4>2. sent[u].button \in Button
          BY <4>1 DEF Message, NoUpdate
        <4>3. QED
          BY <4>1, <4>2 DEF Button, DecisionOf, Decision
      <3>4. Snapshot(w, sent[u].approval, DecisionOf[sent[u].button], c)
        BY <2>2 DEF HandleButton
      <3> HIDE DEF u, c
      <3>5. QED
        BY <1>1, <3>2, <3>3, <3>4, CheckedSound
    <2>3. QED
      BY <2>1, <2>2
  <1>5. QED
    BY <1>1, <1>2, <1>3, <1>4, TxInv

\* The answer to a chat belongs to a decision that no REST request took.
LEMMA ChatAnswerInv ==
    ASSUME EndpointsInv, NEW w \in Worker, ChatAnswer(w)
    PROVE  EndpointsInv'
  <1>1. /\ tx[w].pc = "resumed" /\ tx[w].caller.via = "chat"
        /\ unacked' \subseteq unacked /\ tx' = [tx EXCEPT ![w] = Idle]
        /\ UNCHANGED <<thread, approvals, run, keys, messages, sent, chat, poller, crashes,
                       acted, decidedBy>>
    BY DEF ChatAnswer
  <1>2. TypeOK'
    BY <1>1, Tables DEF TypeOK
  <1>3. HistorySound' /\ ActedIsKept' /\ crashes' \in Nat /\ crashes' >= crashes
    BY <1>1 DEF EndpointsInv, HistorySound, ActedIsKept
  <1>4. decidedBy[tx[w].approval].via # "rest"
    BY <1>1 DEF EndpointsInv, RequestsSound, Sound
  <1>5. tx'[w] = Idle
    BY <1>1, TxChange DEF EndpointsInv
  <1>6. QED
    BY <1>1, <1>2, <1>3, <1>4, <1>5, IdleSound, TxInv

-----------------------------------------------------------------------------
(* Decisions.                                                               *)

\* A pending approval belongs to no stored answer and to no request that has
\* decided it.  Deciding it leaves all other rows.
LEMMA DecideFacts ==
    ASSUME EndpointsInv, NEW a \in DOMAIN approvals, approvals[a] = "PENDING",
           NEW action \in Decision, NEW caller \in Caller,
           approvals' = [approvals EXCEPT ![a] = action],
           decidedBy' = [decidedBy EXCEPT ![a] = caller]
    PROVE  /\ approvals' \in Seq(Status) /\ Len(approvals') = Len(approvals)
           /\ DOMAIN approvals' = DOMAIN approvals /\ approvals'[a] = action
           /\ \A b \in DOMAIN approvals \ {a} : approvals'[b] = approvals[b]
           /\ decidedBy' \in Seq(Caller \cup {Nobody}) /\ Len(decidedBy') = Len(decidedBy)
           /\ DOMAIN decidedBy' = DOMAIN decidedBy /\ decidedBy'[a] = caller
           /\ \A b \in DOMAIN approvals \ {a} : decidedBy'[b] = decidedBy[b]
           /\ \A s \in keys : s.approval \in DOMAIN approvals \ {a}
           /\ \A w \in Worker : tx[w].pc \in {"decided", "resumed"} =>
                                   tx[w].approval \in DOMAIN approvals \ {a}
  <1>1. /\ approvals \in Seq(Status) /\ Len(approvals) \in Nat
        /\ decidedBy \in Seq(Caller \cup {Nobody}) /\ Len(decidedBy) = Len(approvals)
        /\ DOMAIN approvals = 1..Len(approvals) /\ DOMAIN decidedBy = 1..Len(approvals)
    BY Tables DEF HistorySound
  <1>2. action \in Status /\ action # "PENDING"
    BY DEF Status, Decision
  <1>3. approvals' \in Seq(Status) /\ Len(approvals') = Len(approvals)
    BY <1>1, <1>2, ExceptSeq
  <1>4. decidedBy' \in Seq(Caller \cup {Nobody}) /\ Len(decidedBy') = Len(decidedBy)
    <2>1. caller \in Caller \cup {Nobody}
      OBVIOUS
    <2>2. QED
      BY <1>1, <2>1, ExceptSeq
  <1>5. /\ DOMAIN approvals' = DOMAIN approvals /\ approvals'[a] = action
        /\ \A b \in DOMAIN approvals \ {a} : approvals'[b] = approvals[b]
    OBVIOUS
  <1>6. /\ DOMAIN decidedBy' = DOMAIN decidedBy /\ decidedBy'[a] = caller
        /\ \A b \in DOMAIN approvals \ {a} : decidedBy'[b] = decidedBy[b]
    BY <1>1
  <1>7. ASSUME NEW s \in keys PROVE s.approval \in DOMAIN approvals \ {a}
    <2>1. s.approval \in DOMAIN approvals /\ s.action \in Decision
      BY Tables DEF TypeOK
    <2>2. approvals[s.approval] = s.action
      BY DEF EndpointsInv, AnswersMatchDecisions, AnswersAgree
    <2>3. QED
      BY <2>1, <2>2 DEF Decision
  <1>8. ASSUME NEW w \in Worker, tx[w].pc \in {"decided", "resumed"}
        PROVE  tx[w].approval \in DOMAIN approvals \ {a}
    <2>1. /\ tx[w].approval \in DOMAIN approvals /\ tx[w].action \in Decision
          /\ approvals[tx[w].approval] = tx[w].action
      BY <1>8 DEF EndpointsInv, RequestsSound, Sound
    <2>2. QED
      BY <2>1 DEF Decision
  <1>9. QED
    BY <1>3, <1>4, <1>5, <1>6, <1>7, <1>8

\* approval_authority.decide: the request now remembers what it has decided.
LEMMA DecideInv ==
    ASSUME EndpointsInv, NEW w \in Worker, Decide(w)
    PROVE  EndpointsInv'
  <1> DEFINE a == tx[w].approval  action == tx[w].action  c == tx[w].caller
             r == [tx[w] EXCEPT !.pc = "decided"]
  <1>1. /\ tx[w].pc = "checked" /\ approvals[a] = "PENDING"
        /\ approvals' = [approvals EXCEPT ![a] = action]
        /\ decidedBy' = [decidedBy EXCEPT ![a] = c]
        /\ tx' = [tx EXCEPT ![w] = r]
        /\ UNCHANGED <<thread, run, keys, chatVars, crashes>>
    BY DEF Decide, Decidable
  <1>2. a \in DOMAIN approvals /\ action \in Decision /\ c \in Caller
    BY <1>1 DEF EndpointsInv, RequestsSound, Sound
  <1>3. /\ approvals' \in Seq(Status) /\ Len(approvals') = Len(approvals)
        /\ DOMAIN approvals' = DOMAIN approvals /\ approvals'[a] = action
        /\ \A b \in DOMAIN approvals \ {a} : approvals'[b] = approvals[b]
        /\ decidedBy' \in Seq(Caller \cup {Nobody}) /\ Len(decidedBy') = Len(decidedBy)
        /\ DOMAIN decidedBy' = DOMAIN decidedBy /\ decidedBy'[a] = c
        /\ \A b \in DOMAIN approvals \ {a} : decidedBy'[b] = decidedBy[b]
        /\ \A s \in keys : s.approval \in DOMAIN approvals \ {a}
        /\ \A v \in Worker : tx[v].pc \in {"decided", "resumed"} =>
                                tx[v].approval \in DOMAIN approvals \ {a}
    BY <1>1, <1>2, DecideFacts
  <1>4. /\ DOMAIN tx' = Worker /\ tx'[w] = r
        /\ \A v \in Worker \ {w} : tx'[v] = tx[v]
    BY <1>1, TxChange DEF EndpointsInv
  <1>5. r.pc = "decided" /\ r.approval = a /\ r.action = action /\ r.caller = c
    <2>1. DOMAIN tx[w] = {"pc", "approval", "action", "caller"}
      BY <1>1 DEF EndpointsInv, RequestsSound, Sound
    <2>2. QED
      BY <2>1
  <1> HIDE DEF a, action, c, r
  <1>6. TypeOK'
    BY <1>1, <1>3, Tables DEF TypeOK, chatVars
  <1>7. HistorySound' /\ ActedIsKept'
    BY <1>1, <1>3 DEF EndpointsInv, HistorySound, ActedIsKept, chatVars
  <1>8. RequestsSound'
    <2>1. Sound(w)'
      BY <1>2, <1>3, <1>4, <1>5 DEF Sound
    <2>2. ASSUME NEW v \in Worker \ {w} PROVE Sound(v)'
      BY <1>3, <1>4 DEF EndpointsInv, RequestsSound, Sound
    <2>3. QED
      BY <1>4, <2>1, <2>2 DEF RequestsSound
  <1>9. AnswersAgree'
    <2>1. keys' = keys /\ AnswersAgree
      BY <1>1 DEF EndpointsInv, AnswersMatchDecisions
    <2>2. \A s \in keys : /\ approvals'[s.approval] = approvals[s.approval]
                         /\ decidedBy'[s.approval] = decidedBy[s.approval]
      BY <1>3
    <2>3. QED
      BY <2>1, <2>2 DEF AnswersAgree
  <1>10. DecisionIsAnswered'
    <2> SUFFICES ASSUME NEW b \in DOMAIN approvals, decidedBy'[b].via = "rest",
                        Scope(b, approvals'[b], decidedBy'[b].key) \notin keys, ~(crashes > 0)
                 PROVE  Busy(b)'
      BY <1>1, <1>3 DEF DecisionIsAnswered, Scope
    <2>1. CASE b = a
      BY <1>4, <1>5, <2>1 DEF Busy
    <2>2. CASE b # a
      <3>1. Busy(b)
        BY <1>3, <2>2 DEF EndpointsInv, AnswersMatchDecisions, DecisionIsAnswered
      <3>2. PICK v \in Worker : tx[v].pc \in {"decided", "resumed"} /\ tx[v].approval = b
        BY <3>1 DEF Busy
      <3>3. v # w
        BY <1>1, <3>2
      <3>4. QED
        BY <1>4, <3>2, <3>3 DEF Busy
    <2>3. QED
      BY <2>1, <2>2
  <1>11. RunIsRecorded'
    <2> SUFFICES ASSUME thread.phase = "waiting", run = "absent", ~(crashes > 0)
                 PROVE  \E v \in Worker : tx'[v].pc = "started"
      BY <1>1 DEF RunIsRecorded
    <2>1. PICK v \in Worker : tx[v].pc = "started"
      BY DEF EndpointsInv, RunIsRecorded
    <2>2. QED
      BY <1>1, <1>4, <2>1
  <1>12. QED
    BY <1>6, <1>7, <1>8, <1>9, <1>10, <1>11 DEF EndpointsInv, AnswersMatchDecisions

\* The keys of one approval that agree with its decision are one key.
LEMMA OneAnswer ==
    ASSUME NEW K, K \subseteq [approval : DOMAIN approvals, action : Decision, key : Key],
           \A s \in K : /\ approvals[s.approval] = s.action
                        /\ decidedBy[s.approval] = [via |-> "rest", key |-> s.key]
    PROVE  \A s, t \in K : t.approval = s.approval => t = s
  <1> SUFFICES ASSUME NEW s \in K, NEW t \in K, t.approval = s.approval PROVE t = s
    OBVIOUS
  <1>1. t.action = s.action
    OBVIOUS
  <1>2. [via |-> "rest", key |-> t.key] = [via |-> "rest", key |-> s.key]
    OBVIOUS
  <1>3. t.key = s.key
    BY <1>2
  <1>4. /\ s \in [approval : DOMAIN approvals, action : Decision, key : Key]
        /\ t \in [approval : DOMAIN approvals, action : Decision, key : Key]
    OBVIOUS
  <1>5. QED
    BY <1>1, <1>3, <1>4

\* A direct decision and its answer are one commit.
LEMMA RestDirectInv ==
    ASSUME EndpointsInv, NEW a \in DOMAIN approvals, NEW action \in Decision, NEW key \in Key,
           RestDirect(a, action, key)
    PROVE  EndpointsInv'
  <1> DEFINE c == [via |-> "rest", key |-> key]  k == Scope(a, action, key)
  <1>1. /\ approvals[a] = "PENDING"
        /\ approvals' = [approvals EXCEPT ![a] = action]
        /\ decidedBy' = [decidedBy EXCEPT ![a] = c]
        /\ keys' = keys \cup {k}
        /\ UNCHANGED <<thread, run, chatVars, tx, crashes>>
    BY DEF RestDirect, Decidable
  <1>2. /\ c \in Caller /\ c.via = "rest" /\ c.key = key
        /\ k \in [approval : DOMAIN approvals, action : Decision, key : Key]
        /\ k.approval = a /\ k.action = action /\ k.key = key
    BY DEF Caller, Scope
  <1>3. /\ approvals' \in Seq(Status) /\ Len(approvals') = Len(approvals)
        /\ DOMAIN approvals' = DOMAIN approvals /\ approvals'[a] = action
        /\ \A b \in DOMAIN approvals \ {a} : approvals'[b] = approvals[b]
        /\ decidedBy' \in Seq(Caller \cup {Nobody}) /\ Len(decidedBy') = Len(decidedBy)
        /\ DOMAIN decidedBy' = DOMAIN decidedBy /\ decidedBy'[a] = c
        /\ \A b \in DOMAIN approvals \ {a} : decidedBy'[b] = decidedBy[b]
        /\ \A s \in keys : s.approval \in DOMAIN approvals \ {a}
        /\ \A v \in Worker : tx[v].pc \in {"decided", "resumed"} =>
                                tx[v].approval \in DOMAIN approvals \ {a}
    BY <1>1, <1>2, DecideFacts
  <1>4. TypeOK'
    <2>1. keys' \subseteq [approval : DOMAIN approvals', action : Decision, key : Key]
      BY <1>1, <1>2, <1>3, Tables DEF TypeOK
    <2>2. QED
      BY <1>1, <1>3, <2>1, Tables DEF TypeOK, chatVars
  <1>5. AnswersAgree'
    <2>1. ASSUME NEW s \in keys'
          PROVE  /\ approvals'[s.approval] = s.action
                 /\ decidedBy'[s.approval] = [via |-> "rest", key |-> s.key]
      <3>1. CASE s \in keys
        BY <1>3, <3>1 DEF EndpointsInv, AnswersMatchDecisions, AnswersAgree
      <3>2. CASE s = k
        BY <1>2, <1>3, <3>2
      <3>3. QED
        BY <1>1, <3>1, <3>2
    <2>2. ASSUME NEW s \in keys', NEW t \in keys', t.approval = s.approval PROVE t = s
      <3>1. CASE s \in keys /\ t \in keys
        BY <2>2, <3>1 DEF EndpointsInv, AnswersMatchDecisions, AnswersAgree
      <3>2. QED
        BY <1>1, <1>2, <1>3, <2>2, <3>1
    <2>3. QED
      BY <2>1, <2>2 DEF AnswersAgree
  <1> HIDE DEF c
  <1>6. HistorySound' /\ ActedIsKept'
    BY <1>1, <1>3 DEF EndpointsInv, HistorySound, ActedIsKept, chatVars
  <1>7. RequestsSound'
    BY <1>1, <1>3 DEF EndpointsInv, RequestsSound, Sound
  <1>8. DecisionIsAnswered'
    <2> SUFFICES ASSUME NEW b \in DOMAIN approvals, decidedBy'[b].via = "rest",
                        Scope(b, approvals'[b], decidedBy'[b].key) \notin keys', ~(crashes > 0)
                 PROVE  Busy(b)'
      BY <1>1, <1>3 DEF DecisionIsAnswered, Scope
    <2>1. b # a
      BY <1>1, <1>2, <1>3
    <2>2. Busy(b)
      BY <1>1, <1>3, <2>1 DEF EndpointsInv, AnswersMatchDecisions, DecisionIsAnswered
    <2>3. QED
      BY <1>1, <2>2 DEF Busy
  <1>9. RunIsRecorded'
    BY <1>1 DEF EndpointsInv, RunIsRecorded
  <1>10. QED
    BY <1>4, <1>5, <1>6, <1>7, <1>8, <1>9 DEF EndpointsInv, AnswersMatchDecisions

\* update_agent_run and the stored answer: the request remembers the decision
\* as it stands in the table.
LEMMA RestAnswerInv ==
    ASSUME EndpointsInv, NEW w \in Worker, RestAnswer(w)
    PROVE  EndpointsInv'
  <1> DEFINE a == tx[w].approval  action == tx[w].action  c == tx[w].caller
             k == Scope(a, action, c.key)
  <1>1. /\ tx[w].pc = "resumed" /\ c.via = "rest"
        /\ run' = IF run = "absent" THEN run ELSE RunStatus(tx[w].state)
        /\ keys' = keys \cup {k}
        /\ tx' = [tx EXCEPT ![w] = Idle]
        /\ UNCHANGED <<thread, approvals, chatVars, crashes, decidedBy>>
    BY DEF RestAnswer
  <1>2. /\ a \in DOMAIN approvals /\ action \in Decision /\ c \in Caller
        /\ approvals[a] = action /\ decidedBy[a] = c
    BY <1>1 DEF EndpointsInv, RequestsSound, Sound
  <1>3. c.key \in Key /\ c = [via |-> "rest", key |-> c.key]
    BY <1>1, <1>2, CallerFacts
  <1>4. /\ k \in [approval : DOMAIN approvals, action : Decision, key : Key]
        /\ k.approval = a /\ k.action = action /\ k.key = c.key
    BY <1>2, <1>3 DEF Scope
  <1>5. /\ DOMAIN tx' = Worker /\ tx'[w] = Idle
        /\ \A v \in Worker \ {w} : tx'[v] = tx[v]
    BY <1>1, TxChange DEF EndpointsInv
  <1>6. run' \in {"absent", "WAITING_APPROVAL", "COMPLETED", "FAILED"}
        /\ (run' = "absent" => run = "absent")
    <2>1. RunStatus(tx[w].state) \in {"WAITING_APPROVAL", "COMPLETED", "FAILED"}
      BY DEF RunStatus
    <2>2. run \in {"absent", "WAITING_APPROVAL", "COMPLETED", "FAILED"}
      BY Tables DEF TypeOK
    <2>3. QED
      BY <1>1, <2>1, <2>2
  <1> HIDE DEF a, action, c, k
  <1>7. TypeOK'
    <2>1. keys' \subseteq [approval : DOMAIN approvals, action : Decision, key : Key]
      BY <1>1, <1>4, Tables DEF TypeOK
    <2>2. QED
      BY <1>1, <1>6, <2>1, Tables DEF TypeOK, chatVars
  <1>8. HistorySound' /\ ActedIsKept'
    BY <1>1 DEF EndpointsInv, HistorySound, ActedIsKept, chatVars
  <1>9. RequestsSound'
    <2>1. Sound(w)'
      BY <1>5, IdleSound
    <2>2. ASSUME NEW v \in Worker \ {w} PROVE Sound(v)'
      BY <1>1, <1>5 DEF EndpointsInv, RequestsSound, Sound
    <2>3. QED
      BY <1>5, <2>1, <2>2 DEF RequestsSound
  <1>10. AnswersAgree'
    <2>1. \A s \in keys' : /\ approvals[s.approval] = s.action
                           /\ decidedBy[s.approval] = [via |-> "rest", key |-> s.key]
      <3>1. \A s \in keys : /\ approvals[s.approval] = s.action
                            /\ decidedBy[s.approval] = [via |-> "rest", key |-> s.key]
        BY DEF EndpointsInv, AnswersMatchDecisions, AnswersAgree
      <3>2. approvals[k.approval] = k.action /\ decidedBy[k.approval] = [via |-> "rest", key |-> k.key]
        BY <1>2, <1>3, <1>4
      <3>3. QED
        BY <1>1, <3>1, <3>2
    <2>2. keys' \subseteq [approval : DOMAIN approvals, action : Decision, key : Key]
      BY <1>1, <1>4, Tables DEF TypeOK
    <2>3. \A s, t \in keys' : t.approval = s.approval => t = s
      BY <2>1, <2>2, OneAnswer
    <2>4. QED
      BY <1>1, <2>1, <2>3 DEF AnswersAgree
  <1>11. DecisionIsAnswered'
    <2> SUFFICES ASSUME NEW b \in DOMAIN approvals, decidedBy[b].via = "rest",
                        Scope(b, approvals[b], decidedBy[b].key) \notin keys', ~(crashes > 0)
                 PROVE  Busy(b)'
      BY <1>1 DEF DecisionIsAnswered, Scope
    <2>1. b # a
      BY <1>1, <1>2 DEF k
    <2>2. Busy(b)
      BY <1>1 DEF EndpointsInv, AnswersMatchDecisions, DecisionIsAnswered
    <2>3. PICK v \in Worker : tx[v].pc \in {"decided", "resumed"} /\ tx[v].approval = b
      BY <2>2 DEF Busy
    <2>4. v # w
      BY <2>1, <2>3 DEF a
    <2>5. QED
      BY <1>5, <2>3, <2>4 DEF Busy
  <1>12. RunIsRecorded'
    <2> SUFFICES ASSUME thread.phase = "waiting", run = "absent", ~(crashes > 0)
                 PROVE  \E v \in Worker : tx'[v].pc = "started"
      BY <1>1, <1>6 DEF RunIsRecorded
    <2>1. PICK v \in Worker : tx[v].pc = "started"
      BY DEF EndpointsInv, RunIsRecorded
    <2>2. QED
      BY <1>1, <1>5, <2>1
  <1>13. QED
    BY <1>7, <1>8, <1>9, <1>10, <1>11, <1>12 DEF EndpointsInv, AnswersMatchDecisions

\* The row of the run is there from now on.
LEMMA InsertRunInv ==
    ASSUME EndpointsInv, NEW w \in Worker, InsertRun(w)
    PROVE  EndpointsInv'
  <1>1. /\ tx[w].pc = "started" /\ tx' = [tx EXCEPT ![w] = Idle]
        /\ run' = IF run # "absent" THEN run
                  ELSE IF tx[w].state.phase = "waiting" THEN "WAITING_APPROVAL" ELSE "COMPLETED"
        /\ UNCHANGED <<thread, approvals, keys, chatVars, crashes, decidedBy>>
    BY DEF InsertRun
  <1>2. /\ DOMAIN tx' = Worker /\ tx'[w] = Idle
        /\ \A v \in Worker \ {w} : tx'[v] = tx[v]
    BY <1>1, TxChange DEF EndpointsInv
  <1>3. run' \in {"WAITING_APPROVAL", "COMPLETED", "FAILED"}
    BY <1>1, Tables DEF TypeOK
  <1>4. TypeOK'
    BY <1>1, <1>3, Tables DEF TypeOK, chatVars
  <1>5. HistorySound' /\ ActedIsKept' /\ AnswersAgree' /\ RunIsRecorded'
    BY <1>1, <1>3 DEF EndpointsInv, HistorySound, ActedIsKept, chatVars,
       AnswersMatchDecisions, AnswersAgree, RunIsRecorded
  <1>6. RequestsSound'
    <2>1. Sound(w)'
      BY <1>2, IdleSound
    <2>2. ASSUME NEW v \in Worker \ {w} PROVE Sound(v)'
      BY <1>1, <1>2 DEF EndpointsInv, RequestsSound, Sound
    <2>3. QED
      BY <1>2, <2>1, <2>2 DEF RequestsSound
  <1>7. DecisionIsAnswered'
    <2> SUFFICES ASSUME NEW b \in DOMAIN approvals, Busy(b) PROVE Busy(b)'
      BY <1>1 DEF EndpointsInv, AnswersMatchDecisions, DecisionIsAnswered, Scope
    <2>1. PICK v \in Worker : tx[v].pc \in {"decided", "resumed"} /\ tx[v].approval = b
      BY DEF Busy
    <2>2. QED
      BY <1>1, <1>2, <2>1 DEF Busy
  <1>8. QED
    BY <1>4, <1>5, <1>6, <1>7 DEF EndpointsInv, AnswersMatchDecisions

-----------------------------------------------------------------------------
(* The graph runs on, and may propose again.                                *)

Outcome == [phase : {"ended"}, outcome : {"NO_PROPOSAL", "VERIFIED", "FAILED", "REJECTED"}]

NewProposal == [phase |-> "waiting", approval |-> Len(approvals) + 1]

\* The thread ends, stays as it is, or waits on a proposal with a new row that
\* nobody has decided.
LEMMA ProposeFacts ==
    ASSUME EndpointsInv, NEW next, Propose(next),
           next \in Outcome \/ (next = NewProposal /\ Len(approvals) < MaxApprovals)
    PROVE  /\ next \in [phase : {"waiting"}, approval : 1..Len(approvals')] \cup Outcome
           /\ approvals' \in Seq(Status) /\ Len(approvals') <= MaxApprovals
           /\ decidedBy' \in Seq(Caller \cup {Nobody}) /\ Len(decidedBy') = Len(approvals')
           /\ DOMAIN approvals \subseteq DOMAIN approvals' /\ DOMAIN decidedBy' = DOMAIN approvals'
           /\ \A a \in DOMAIN approvals : /\ approvals'[a] = approvals[a]
                                          /\ decidedBy'[a] = decidedBy[a]
           /\ \A a \in DOMAIN approvals' \ DOMAIN approvals : decidedBy'[a] = Nobody
  <1>1. /\ approvals \in Seq(Status) /\ Len(approvals) \in Nat
        /\ decidedBy \in Seq(Caller \cup {Nobody}) /\ Len(decidedBy) = Len(approvals)
        /\ DOMAIN approvals = 1..Len(approvals) /\ DOMAIN decidedBy = 1..Len(approvals)
        /\ Len(approvals) <= MaxApprovals
    BY Tables DEF HistorySound, TypeOK
  <1>2. CASE next \in Outcome
    <2>1. next.phase # "waiting"
      BY <1>2 DEF Outcome
    <2>2. UNCHANGED <<approvals, decidedBy>>
      BY <2>1 DEF Propose
    <2>3. QED
      BY <1>1, <1>2, <2>2
  <1>3. CASE next = NewProposal /\ Len(approvals) < MaxApprovals
    <2>1. next.phase = "waiting" /\ next.approval = Len(approvals) + 1
      BY <1>3 DEF NewProposal
    <2>2. approvals' = Append(approvals, "PENDING") /\ decidedBy' = Append(decidedBy, Nobody)
      BY <1>1, <2>1 DEF Propose
    <2>3. /\ approvals' \in Seq(Status) /\ Len(approvals') = Len(approvals) + 1
          /\ \A i \in 1..Len(approvals) : approvals'[i] = approvals[i]
      <3>1. "PENDING" \in Status
        BY DEF Status
      <3>2. QED
        BY <1>1, <2>2, <3>1, AppendProperties
    <2>4. /\ decidedBy' \in Seq(Caller \cup {Nobody}) /\ Len(decidedBy') = Len(decidedBy) + 1
          /\ \A i \in 1..Len(decidedBy) : decidedBy'[i] = decidedBy[i]
          /\ decidedBy'[Len(decidedBy) + 1] = Nobody
      <3>1. Nobody \in Caller \cup {Nobody}
        OBVIOUS
      <3>2. QED
        BY <1>1, <2>2, <3>1, AppendProperties
    <2>5. DOMAIN approvals' = 1..Len(approvals) + 1 /\ DOMAIN decidedBy' = 1..Len(approvals) + 1
      BY <1>1, <2>3, <2>4, LenProperties
    <2>6. next \in [phase : {"waiting"}, approval : 1..Len(approvals')]
      BY <1>1, <1>3, <2>3 DEF NewProposal
    <2>7. Len(approvals') <= MaxApprovals
      BY <1>1, <1>3, <2>3, EndpointsAssumption
    <2>8. \A a \in DOMAIN approvals' \ DOMAIN approvals : a = Len(decidedBy) + 1
      BY <1>1, <2>5
    <2>9. QED
      BY <1>1, <2>3, <2>4, <2>5, <2>6, <2>7, <2>8
  <1>4. QED
    BY <1>2, <1>3

\* A request that has run the graph, and what it remembers.
LEMMA ProposeInv ==
    ASSUME EndpointsInv, NEW w \in Worker, NEW next, thread' = next, Propose(next),
           next \in Outcome \/ (next = NewProposal /\ Len(approvals) < MaxApprovals),
           NEW r, tx' = [tx EXCEPT ![w] = r],
           UNCHANGED <<run, keys, chatVars, crashes>>,
           tx[w].pc \in {"idle", "decided"}, r.pc \in {"resumed", "started"},
           r.pc = "resumed" => /\ tx[w].pc = "decided"
                               /\ (thread.phase = next.phase \/ next \in Outcome)
                               /\ r.approval = tx[w].approval
                               /\ r.action = tx[w].action /\ r.caller = tx[w].caller,
           r.pc = "started" => tx[w].pc = "idle"
    PROVE  EndpointsInv'
  <1>1. /\ next \in [phase : {"waiting"}, approval : 1..Len(approvals')] \cup Outcome
        /\ approvals' \in Seq(Status) /\ Len(approvals') <= MaxApprovals
        /\ decidedBy' \in Seq(Caller \cup {Nobody}) /\ Len(decidedBy') = Len(approvals')
        /\ DOMAIN approvals \subseteq DOMAIN approvals' /\ DOMAIN decidedBy' = DOMAIN approvals'
        /\ \A a \in DOMAIN approvals : /\ approvals'[a] = approvals[a]
                                       /\ decidedBy'[a] = decidedBy[a]
        /\ \A a \in DOMAIN approvals' \ DOMAIN approvals : decidedBy'[a] = Nobody
    BY ProposeFacts
  <1>2. /\ DOMAIN tx' = Worker /\ tx'[w] = r
        /\ \A v \in Worker \ {w} : tx'[v] = tx[v]
    BY TxChange DEF EndpointsInv
  <1>3. keys \subseteq [approval : DOMAIN approvals, action : Decision, key : Key]
    BY Tables DEF TypeOK
  <1>4. TypeOK'
    <2>1. keys' \subseteq [approval : DOMAIN approvals', action : Decision, key : Key]
      BY <1>1, <1>3
    <2>2. QED
      BY <1>1, <2>1, Tables DEF TypeOK, chatVars, Outcome
  <1>5. HistorySound' /\ ActedIsKept'
    BY <1>1 DEF EndpointsInv, HistorySound, ActedIsKept, chatVars
  <1>6. RequestsSound'
    <2>1. Sound(w) /\ \A v \in Worker : Sound(v)
      BY DEF EndpointsInv, RequestsSound
    <2>2. Sound(w)'
      BY <1>1, <1>2, <2>1 DEF Sound
    <2>3. ASSUME NEW v \in Worker \ {w} PROVE Sound(v)'
      BY <1>1, <1>2, <2>1 DEF Sound
    <2>4. QED
      BY <1>2, <2>2, <2>3 DEF RequestsSound
  <1>7. AnswersAgree'
    BY <1>1, <1>3 DEF EndpointsInv, AnswersMatchDecisions, AnswersAgree
  <1>8. DecisionIsAnswered'
    <2> SUFFICES ASSUME NEW b \in DOMAIN approvals', decidedBy'[b].via = "rest",
                        Scope(b, approvals'[b], decidedBy'[b].key) \notin keys, ~(crashes > 0)
                 PROVE  Busy(b)'
      BY DEF DecisionIsAnswered, Scope
    <2>1. b \in DOMAIN approvals
      BY <1>1, CallerFacts
    <2>2. Busy(b)
      BY <1>1, <2>1 DEF EndpointsInv, AnswersMatchDecisions, DecisionIsAnswered
    <2>3. PICK v \in Worker : tx[v].pc \in {"decided", "resumed"} /\ tx[v].approval = b
      BY <2>2 DEF Busy
    <2>4. CASE v = w
      BY <1>2, <2>3, <2>4 DEF Busy
    <2>5. CASE v # w
      BY <1>2, <2>3, <2>5 DEF Busy
    <2>6. QED
      BY <2>4, <2>5
  <1>9. RunIsRecorded'
    <2> SUFFICES ASSUME next.phase = "waiting", run = "absent", ~(crashes > 0)
                 PROVE  \E v \in Worker : tx'[v].pc = "started"
      BY DEF RunIsRecorded
    <2>1. CASE r.pc = "started"
      BY <1>2, <2>1
    <2>2. CASE r.pc = "resumed"
      <3>1. thread.phase = "waiting"
        BY <2>2 DEF Outcome
      <3>2. PICK v \in Worker : tx[v].pc = "started"
        BY <3>1 DEF EndpointsInv, RunIsRecorded
      <3>3. QED
        BY <1>2, <3>2
    <2>3. QED
      BY <2>1, <2>2
  <1>10. QED
    BY <1>4, <1>5, <1>6, <1>7, <1>8, <1>9 DEF EndpointsInv, AnswersMatchDecisions

\* start_run
LEMMA StartRunInv ==
    ASSUME EndpointsInv, NEW w \in Worker, StartRun(w)
    PROVE  EndpointsInv'
  <1>1. PICK next \in {NewProposal, Ended("NO_PROPOSAL")} :
           /\ thread' = next /\ Propose(next)
           /\ tx' = [tx EXCEPT ![w] = [pc |-> "started", state |-> next]]
    BY DEF StartRun, NewProposal
  <1>2. /\ tx[w] = Idle /\ Len(approvals) < MaxApprovals
        /\ UNCHANGED <<run, keys, chatVars, crashes>>
    BY DEF StartRun
  <1>3. next \in Outcome \/ (next = NewProposal /\ Len(approvals) < MaxApprovals)
    BY <1>1, <1>2 DEF Outcome, Ended
  <1> DEFINE r == [pc |-> "started", state |-> next]
  <1>4. r.pc = "started" /\ tx[w].pc = "idle"
    BY <1>2 DEF Idle
  <1>5. tx' = [tx EXCEPT ![w] = r]
    BY <1>1
  <1> HIDE DEF r
  <1>6. QED
    BY <1>1, <1>2, <1>3, <1>4, <1>5, ProposeInv

\* The graph takes the decision and runs until it ends or waits again.
LEMMA ContinueInv ==
    ASSUME EndpointsInv, NEW w \in Worker, Continue(w)
    PROVE  EndpointsInv'
  <1>1. PICK next \in Results(tx[w].approval, tx[w].action) :
          /\ thread' = next /\ Propose(next)
          /\ tx' = [tx EXCEPT ![w] = [pc |-> "resumed", approval |-> tx[w].approval,
                        action |-> tx[w].action, caller |-> tx[w].caller, state |-> next]]
    BY DEF Continue
  <1>2. tx[w].pc = "decided" /\ UNCHANGED <<run, keys, chatVars, crashes>>
    BY DEF Continue
  <1>3. tx[w].action \in Decision
    BY <1>2 DEF EndpointsInv, RequestsSound, Sound
  <1>4. thread \in [phase : {"waiting"}, approval : 1..Len(approvals)] \cup Outcome
    BY Tables DEF TypeOK, Outcome
  <1>5. /\ next \in Outcome \/ (next = NewProposal /\ Len(approvals) < MaxApprovals)
        /\ thread.phase = next.phase \/ next \in Outcome
    <2>1. CASE thread.phase = "ended"
      <3>1. next = thread
        BY <1>1, <2>1 DEF Results
      <3>2. thread \in Outcome
        BY <1>4, <2>1
      <3>3. QED
        BY <3>1, <3>2
    <2>2. CASE thread.phase = "waiting" /\ tx[w].action = "REJECTED"
      <3>1. next = Ended("REJECTED")
        BY <1>1, <2>2 DEF Results
      <3>2. QED
        BY <3>1 DEF Outcome, Ended
    <2>3. CASE thread.phase = "waiting" /\ tx[w].action = "APPROVED"
      <3>1. next \in {Ended("FAILED"), Ended("VERIFIED")}
        BY <1>1, <2>3 DEF Results
      <3>2. QED
        BY <3>1 DEF Outcome, Ended
    <2>4. CASE thread.phase = "waiting" /\ tx[w].action = "MODIFIED"
      <3>1. next = Ended("FAILED") \/ (next = NewProposal /\ Len(approvals) < MaxApprovals)
        BY <1>1, <2>4 DEF Results, NewProposal
      <3>2. NewProposal.phase = "waiting" /\ Ended("FAILED") \in Outcome
        BY DEF NewProposal, Ended, Outcome
      <3>3. QED
        BY <2>4, <3>1, <3>2
    <2>5. thread.phase \in {"waiting", "ended"}
      BY <1>4 DEF Outcome
    <2>6. QED
      BY <1>3, <2>1, <2>2, <2>3, <2>4, <2>5 DEF Decision
  <1> DEFINE r == [pc |-> "resumed", approval |-> tx[w].approval, action |-> tx[w].action,
                   caller |-> tx[w].caller, state |-> next]
  <1>6. /\ r.pc = "resumed" /\ r.approval = tx[w].approval /\ r.action = tx[w].action
        /\ r.caller = tx[w].caller
    OBVIOUS
  <1>7. tx' = [tx EXCEPT ![w] = r]
    BY <1>1
  <1> HIDE DEF r
  <1>8. thread' = next /\ Propose(next)
    BY <1>1
  <1>9. r.pc \in {"resumed", "started"} /\ tx[w].pc \in {"idle", "decided"}
        /\ (r.pc = "started" => tx[w].pc = "idle")
    BY <1>2, <1>6
  <1>10. QED
    BY <1>2, <1>5, <1>6, <1>7, <1>8, <1>9, ProposeInv

-----------------------------------------------------------------------------
\* Initially no request is in flight and no approval exists.
LEMMA InitInv == Init => EndpointsInv
  <1> SUFFICES ASSUME Init PROVE EndpointsInv
    OBVIOUS
  <1>1. /\ approvals = <<>> /\ decidedBy = <<>> /\ DOMAIN approvals = {} /\ DOMAIN decidedBy = {}
        /\ keys = {} /\ Len(approvals) = 0 /\ Len(decidedBy) = 0
        /\ approvals \in Seq(Status) /\ decidedBy \in Seq(Caller \cup {Nobody})
    BY EmptySeq DEF Init
  <1>2. thread \in Outcome /\ thread.phase = "ended"
    BY DEF Init, Ended, Outcome
  <1>3. TypeOK
    <2>1. Len(approvals) <= MaxApprovals
      BY <1>1, EndpointsAssumption
    <2>2. messages \in [Update -> {"none", "RECEIVED", "NEEDS_MODIFICATION_DETAILS"}]
          /\ unacked = {} /\ chat \in BOOLEAN /\ poller \in {"off", "calling", "sleeping"}
          /\ run = "absent"
      BY DEF Init
    <2>3. QED
      BY <1>1, <1>2, <2>1, <2>2 DEF TypeOK, Outcome
  <1>4. HistorySound
    BY <1>1 DEF Init, HistorySound, Message
  <1>5. RequestsSound
    BY DEF Init, RequestsSound, Sound, Idle
  <1>6. ActedIsKept /\ AnswersAgree /\ DecisionIsAnswered /\ RunIsRecorded
    BY <1>1, <1>2 DEF Init, ActedIsKept, AnswersAgree, DecisionIsAnswered, RunIsRecorded
  <1>7. QED
    BY <1>3, <1>4, <1>5, <1>6 DEF EndpointsInv, AnswersMatchDecisions

\* A step that changes nothing.
LEMMA StutterInv == ASSUME EndpointsInv, UNCHANGED vars PROVE EndpointsInv'
  <1>1. TypeOK' /\ HistorySound' /\ ActedIsKept'
    BY DEF vars, chatVars, EndpointsInv, AnswersMatchDecisions, TypeOK, HistorySound, ActedIsKept
  <1>2. QED
    BY <1>1, ChatInv DEF vars

\* What a request remembers between its commits stays true, whatever the other
\* requests, deliveries and crashes do.
THEOREM EndpointsInvariant == Spec => []EndpointsInv
  <1>1. EndpointsInv /\ [Next]_vars => EndpointsInv'
    <2> SUFFICES ASSUME EndpointsInv, [Next]_vars PROVE EndpointsInv'
      OBVIOUS
    <2>1. ASSUME NEW w \in Worker, Work(w) PROVE EndpointsInv'
      BY <2>1, DecideInv, DecideRaisesInv, ContinueInv, RestAnswerInv, InsertRunInv,
         HandleSimpleInv, HandleButtonInv, ChatAnswerInv DEF Work
    <2>2. ASSUME NEW u \in Update, Deliver(u) PROVE EndpointsInv'
      BY <2>2, IdleChatInv, ReceiveInv DEF Deliver
    <2>3. QED
      BY <2>1, <2>2, StartRunInv, CrashInv, RestResumeInv, RestDirectInv, SendInv, IdleChatInv,
         StutterInv DEF Next
  <1>2. QED
    BY <1>1, InitInv, PTL DEF Spec

\* The answers kept for replays are those of the decisions that were taken, and
\* only a crash loses one (_idempotency_begin, decide, _idempotency_commit).
THEOREM AnswersAreHonest == Spec => []AnswersMatchDecisions
  <1>1. EndpointsInv => AnswersMatchDecisions
    BY DEF EndpointsInv
  <1>2. QED
    BY <1>1, EndpointsInvariant, PTL

\* However often a chat update is delivered, it is acted upon at most once.
THEOREM UpdatesActOnce == Spec => []UpdateActsOnce
  <1>1. EndpointsInv => UpdateActsOnce
    BY DEF EndpointsInv, ActedIsKept, UpdateActsOnce
  <1>2. QED
    BY <1>1, EndpointsInvariant, PTL

\* A waiting thread has the row of its run, or start_run is about to insert it,
\* or a request died.
THEOREM RunsAreRecorded == Spec => []RunIsRecorded
  <1>1. EndpointsInv => RunIsRecorded
    BY DEF EndpointsInv
  <1>2. QED
    BY <1>1, EndpointsInvariant, PTL
=============================================================================
