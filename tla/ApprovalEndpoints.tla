-------------------------- MODULE ApprovalEndpoints --------------------------
(***************************************************************************)
(* The ways a merchant's decision reaches the workflow of one purchase      *)
(* request: the REST endpoints with their idempotency keys                  *)
(* (api/v1/approvals.py), buttons of the Telegram bot by webhook or by long *)
(* polling (api/v1/telegram.py, main.py), WhatsApp replies                  *)
(* (api/v1/whatsapp.py), and the endpoint that starts the run               *)
(* (api/v1/agents.py).                                                      *)
(*                                                                         *)
(* The graph itself is PurchaseWorkflow; here it is a thread that waits on  *)
(* one approval.  What a handler commits in sessions of its own is a step   *)
(* of its own, so that a crash or another request can come in between.  A   *)
(* request that is refused before it changes anything is not a step.        *)
(***************************************************************************)
EXTENDS Naturals, Sequences, FiniteSets

CONSTANTS
    Worker,         \* requests that run at the same time
    Key,            \* idempotency keys the clients use
    Update,         \* chat updates
    MaxApprovals,   \* bound: proposals of the request, restarts included
    MaxCrashes      \* bound: requests that die half way

ASSUME EndpointsAssumption ==
    MaxApprovals \in Nat \ {0} /\ MaxCrashes \in Nat

VARIABLES
    thread,      \* the checkpoint: what the graph of this request waits for
    approvals,   \* status of the request's approvals, in the order of creation
    run,         \* agent_runs.status, or "absent"
    keys,        \* idempotency_keys: the answers that were committed
    messages,    \* channel_messages: the status of each update received
    sent,        \* updates: what the merchant tapped or wrote
    unacked,     \* updates the provider delivers until it gets a 200
    chat,        \* merchants.settings holds the chat
    poller,      \* run_telegram_poller, or "off" when a webhook is set
    tx,          \* what each request is doing
    crashes,     \* requests that died half way
    acted,       \* history: how often an update was acted upon
    decidedBy    \* history: who decided each approval

vars == <<thread, approvals, run, keys, messages, sent, unacked, chat, poller, tx,
          crashes, acted, decidedBy>>
chatVars == <<messages, sent, unacked, chat, poller, acted>>

Decision == {"APPROVED", "REJECTED", "MODIFIED"}
Status == Decision \cup {"PENDING"}
Idle == [pc |-> "idle"]
NoUpdate == [kind |-> "none"]
Nobody == [via |-> "nobody"]
Button == {"APPROVE", "REJECT", "MODIFY"}
DecisionOf == [b \in {"APPROVE", "REJECT"} |-> IF b = "APPROVE" THEN "APPROVED" ELSE "REJECTED"]

\* An idempotency key is scoped by the approval and the action.
Scope(a, action, key) == [approval |-> a, action |-> action, key |-> key]

Waiting(a) == thread = [phase |-> "waiting", approval |-> a]
Ended(outcome) == [phase |-> "ended", outcome |-> outcome]

-----------------------------------------------------------------------------
(* runtime.resume, for every channel.                                       *)

\* The snapshot says that the thread waits on the expected approval.
Snapshot(w, a, action, caller) ==
    /\ Waiting(a)
    /\ tx' = [tx EXCEPT ![w] = [pc |-> "checked", approval |-> a, action |-> action,
                                caller |-> caller]]

\* Mutant of Decidable: the status of the row is not checked under the lock.
DecidableAnyway(a) == TRUE

\* _verify_owner_and_state
Decidable(a) == approvals[a] = "PENDING"

\* approval_authority.decide commits in a session of its own.
Decide(w) ==
    /\ tx[w].pc = "checked" /\ Decidable(tx[w].approval)
    /\ approvals' = [approvals EXCEPT ![tx[w].approval] = tx[w].action]
    /\ decidedBy' = [decidedBy EXCEPT ![tx[w].approval] = tx[w].caller]
    /\ tx' = [tx EXCEPT ![w].pc = "decided"]
    /\ UNCHANGED <<thread, run, keys, chatVars, crashes>>

\* The row is not pending any more: decide raises, the request is rolled back.
DecideRaises(w) ==
    /\ tx[w].pc = "checked" /\ ~Decidable(tx[w].approval)
    /\ tx' = [tx EXCEPT ![w] = Idle]
    /\ UNCHANGED <<thread, approvals, run, keys, chatVars, crashes, decidedBy>>

\* The graph takes the decision and runs until it ends or waits again.  A
\* thread that was started anew meanwhile holds an approval nobody decided:
\* its order is refused.  On a thread that has ended there is nothing to do.
Results(a, action) ==
    CASE thread.phase = "ended" -> {thread}
      [] thread.phase = "waiting" /\ action = "REJECTED" -> {Ended("REJECTED")}
      [] thread.phase = "waiting" /\ action = "APPROVED" ->
            {Ended("FAILED")} \cup (IF Waiting(a) THEN {Ended("VERIFIED")} ELSE {})
      [] thread.phase = "waiting" /\ action = "MODIFIED" ->
            {Ended("FAILED")} \cup
            (IF Len(approvals) < MaxApprovals
             THEN {[phase |-> "waiting", approval |-> Len(approvals) + 1]} ELSE {})

\* A new revision has a row of its own.
Propose(next) ==
    IF next.phase = "waiting" /\ next.approval > Len(approvals)
    THEN /\ approvals' = Append(approvals, "PENDING")
         /\ decidedBy' = Append(decidedBy, Nobody)
    ELSE UNCHANGED <<approvals, decidedBy>>

Continue(w) ==
    /\ tx[w].pc = "decided"
    /\ \E next \in Results(tx[w].approval, tx[w].action) :
          /\ thread' = next /\ Propose(next)
          /\ tx' = [tx EXCEPT ![w] = [pc |-> "resumed", approval |-> tx[w].approval,
                        action |-> tx[w].action, caller |-> tx[w].caller, state |-> next]]
    /\ UNCHANGED <<run, keys, chatVars, crashes>>

-----------------------------------------------------------------------------
(* REST endpoints.                                                          *)

\* update_agent_run
RunStatus(state) ==
    CASE state.phase = "waiting" -> "WAITING_APPROVAL"
      [] state.phase = "ended" /\ state.outcome \in {"VERIFIED", "REJECTED"} -> "COMPLETED"
      [] OTHER -> "FAILED"

\* _idempotency_begin finds no row.  The row it adds is not flushed, so the
\* requests that come before the commit find none either; a stored answer is
\* returned as it is, and another body under the same key is refused.
FirstUse(scope) == scope \notin keys

\* approve, modify and reject with a request_id, up to the resume
RestResume(w, a, action, key) ==
    /\ tx[w] = Idle
    /\ FirstUse(Scope(a, action, key))
    /\ Snapshot(w, a, action, [via |-> "rest", key |-> key])
    /\ UNCHANGED <<thread, approvals, run, keys, chatVars, crashes, decidedBy>>

\* The run's row, if it is there, and the answer for replays in one commit,
\* after everything the graph committed.
RestAnswer(w) ==
    /\ tx[w].pc = "resumed" /\ tx[w].caller.via = "rest"
    /\ run' = IF run = "absent" THEN run ELSE RunStatus(tx[w].state)
    /\ keys' = keys \cup {Scope(tx[w].approval, tx[w].action, tx[w].caller.key)}
    /\ tx' = [tx EXCEPT ![w] = Idle]
    /\ UNCHANGED <<thread, approvals, chatVars, crashes, decidedBy>>

\* approve and reject without a request_id: the row and the answer are
\* committed together, the workflow hears nothing.
RestDirect(a, action, key) ==
    /\ action \in {"APPROVED", "REJECTED"}
    /\ FirstUse(Scope(a, action, key))
    /\ Decidable(a)
    /\ approvals' = [approvals EXCEPT ![a] = action]
    /\ decidedBy' = [decidedBy EXCEPT ![a] = [via |-> "rest", key |-> key]]
    /\ keys' = keys \cup {Scope(a, action, key)}
    /\ UNCHANGED <<thread, run, chatVars, tx, crashes>>

\* start_run: runtime.start runs the graph from its entry, also when the
\* request was started before; it waits on a new proposal or ends without one.
StartRun(w) ==
    /\ tx[w] = Idle /\ Len(approvals) < MaxApprovals
    /\ \E next \in {[phase |-> "waiting", approval |-> Len(approvals) + 1],
                    Ended("NO_PROPOSAL")} :
          /\ thread' = next /\ Propose(next)
          /\ tx' = [tx EXCEPT ![w] = [pc |-> "started", state |-> next]]
    /\ UNCHANGED <<run, keys, chatVars, crashes>>

\* Mutant of InsertRun: only a run that is over is recorded.
InsertRunOver(w) ==
    /\ tx[w].pc = "started"
    /\ run' = IF run # "absent" \/ tx[w].state.phase = "waiting" THEN run ELSE "COMPLETED"
    /\ tx' = [tx EXCEPT ![w] = Idle]
    /\ UNCHANGED <<thread, approvals, keys, chatVars, crashes, decidedBy>>

\* The row of the run is inserted after the graph has committed; request_id is
\* unique, so the second start of a request fails here.
InsertRun(w) ==
    /\ tx[w].pc = "started"
    /\ run' = IF run # "absent" THEN run
              ELSE IF tx[w].state.phase = "waiting" THEN "WAITING_APPROVAL" ELSE "COMPLETED"
    /\ tx' = [tx EXCEPT ![w] = Idle]
    /\ UNCHANGED <<thread, approvals, keys, chatVars, crashes, decidedBy>>

-----------------------------------------------------------------------------
(* Chat updates.                                                            *)

\* The merchant taps a button of a card, or writes to the bot.
Send(u) ==
    /\ sent[u] = NoUpdate
    /\ \/ \E a \in DOMAIN approvals, b \in Button :
             sent' = [sent EXCEPT ![u] = [kind |-> "button", approval |-> a, button |-> b]]
       \/ sent' = [sent EXCEPT ![u] = [kind |-> "command"]]
    /\ unacked' = unacked \cup {u}
    /\ UNCHANGED <<thread, approvals, run, keys, messages, chat, poller, tx, crashes, acted,
                   decidedBy>>

\* Mutant of Receive: a redelivered update is handled again.
ReceiveAgain(w, u) ==
    /\ tx[w] = Idle /\ u \in unacked /\ poller = "off"
    /\ messages' = [messages EXCEPT ![u] = "RECEIVED"]
    /\ acted' = [acted EXCEPT ![u] = @ + 1]
    /\ tx' = [tx EXCEPT ![w] = [pc |-> "received", update |-> u]]
    /\ UNCHANGED <<thread, approvals, run, keys, sent, unacked, chat, poller, crashes, decidedBy>>

\* The webhook: the message's row is committed first, and its uniqueness tells
\* an update that was received before.
Receive(w, u) ==
    /\ tx[w] = Idle /\ u \in unacked /\ poller = "off"
    /\ messages[u] = "none"
    /\ messages' = [messages EXCEPT ![u] = "RECEIVED"]
    /\ acted' = [acted EXCEPT ![u] = @ + 1]
    /\ tx' = [tx EXCEPT ![w] = [pc |-> "received", update |-> u]]
    /\ UNCHANGED <<thread, approvals, run, keys, sent, unacked, chat, poller, crashes, decidedBy>>

\* The insert fails, the handler answers 200 and does nothing else.
ReceiveDuplicate(u) ==
    /\ u \in unacked /\ poller = "off" /\ messages[u] # "none"
    /\ unacked' = unacked \ {u}
    /\ UNCHANGED <<thread, approvals, run, keys, messages, sent, chat, poller, tx, crashes,
                   acted, decidedBy>>

\* run_telegram_poller: get_updates has no parameter named timeout, so the
\* call raises; the loop logs that, sleeps and calls again.
Poll ==
    /\ \/ poller = "calling" /\ poller' = "sleeping"
       \/ poller = "sleeping" /\ poller' = "calling"
    /\ UNCHANGED <<thread, approvals, run, keys, messages, sent, unacked, chat, tx, crashes,
                   acted, decidedBy>>

\* Mutant of Deciding: only APPROVE is passed on.
DecidingApprove(u) == sent[u].kind = "button" /\ sent[u].button = "APPROVE"

Deciding(u) == sent[u].kind = "button" /\ sent[u].button # "MODIFY"

\* A MODIFY button keeps the chat with the merchant, and its message waits for
\* details; the command /connect keeps the chat, and the other commands only answer.
HandleSimple(w) ==
    /\ tx[w].pc = "received"
    /\ LET u == tx[w].update IN
       /\ ~Deciding(u)
       /\ messages' = [messages EXCEPT ![u] = IF sent[u].kind = "command" THEN @
                                              ELSE "NEEDS_MODIFICATION_DETAILS"]
       /\ unacked' = unacked \ {u}
    /\ chat' \in {TRUE} \cup (IF sent[tx[w].update].kind = "command" THEN {chat} ELSE {})
    /\ tx' = [tx EXCEPT ![w] = Idle]
    /\ UNCHANGED <<thread, approvals, run, keys, sent, poller, crashes, acted, decidedBy>>

\* Any other button resumes the workflow with a token signed on the spot.
HandleButton(w) ==
    /\ tx[w].pc = "received"
    /\ LET u == tx[w].update IN
       /\ Deciding(u)
       /\ Snapshot(w, sent[u].approval, DecisionOf[sent[u].button],
                   [via |-> "chat", update |-> u])
    /\ chat' = TRUE
    /\ UNCHANGED <<thread, approvals, run, keys, messages, sent, unacked, poller, crashes,
                   acted, decidedBy>>

\* The thread does not wait on this approval: resume raises, the provider gets
\* a 500 and delivers the update again.
HandleRaises(w) ==
    /\ tx[w].pc = "received"
    /\ LET u == tx[w].update IN
       Deciding(u) /\ ~Waiting(sent[u].approval)
    /\ chat' = TRUE
    /\ tx' = [tx EXCEPT ![w] = Idle]
    /\ UNCHANGED <<thread, approvals, run, keys, messages, sent, unacked, poller, crashes,
                   acted, decidedBy>>

\* The card is edited and the update answered; the run's row is not touched.
ChatAnswer(w) ==
    /\ tx[w].pc = "resumed" /\ tx[w].caller.via = "chat"
    /\ unacked' = unacked \ {tx[w].caller.update}
    /\ tx' = [tx EXCEPT ![w] = Idle]
    /\ UNCHANGED <<thread, approvals, run, keys, messages, sent, chat, poller, crashes, acted,
                   decidedBy>>

-----------------------------------------------------------------------------
\* A request dies, or a node of the graph raises, between two commits.
Crash(w) ==
    /\ tx[w] # Idle /\ crashes < MaxCrashes
    /\ crashes' = crashes + 1
    /\ tx' = [tx EXCEPT ![w] = Idle]
    /\ UNCHANGED <<thread, approvals, run, keys, chatVars, decidedBy>>

Init ==
    /\ thread = Ended("NO_PROPOSAL") /\ approvals = <<>> /\ run = "absent" /\ keys = {}
    /\ messages = [u \in Update |-> "none"] /\ sent = [u \in Update |-> NoUpdate]
    /\ unacked = {} /\ chat = FALSE /\ poller \in {"off", "calling"}
    /\ tx = [w \in Worker |-> Idle] /\ crashes = 0
    /\ acted = [u \in Update |-> 0] /\ decidedBy = <<>>

Work(w) ==
    \/ Decide(w) \/ DecideRaises(w) \/ Continue(w) \/ RestAnswer(w) \/ InsertRun(w)
    \/ HandleSimple(w) \/ HandleButton(w) \/ HandleRaises(w) \/ ChatAnswer(w)

Deliver(u) == ReceiveDuplicate(u) \/ \E w \in Worker : Receive(w, u)

Next ==
    \/ \E w \in Worker : Work(w) \/ StartRun(w) \/ Crash(w)
    \/ \E w \in Worker, a \in DOMAIN approvals, action \in Decision, key \in Key :
          RestResume(w, a, action, key)
    \/ \E a \in DOMAIN approvals, action \in Decision, key \in Key : RestDirect(a, action, key)
    \/ \E u \in Update : Send(u) \/ Deliver(u)
    \/ Poll

\* A request that was begun goes on, the provider delivers until it is
\* answered, and the poller's loop never ends.
Fairness ==
    /\ \A w \in Worker : WF_vars(Work(w))
    /\ \A u \in Update : SF_vars(Deliver(u))
    /\ WF_vars(Poll)

Spec == Init /\ [][Next]_vars
FairSpec == Spec /\ Fairness

-----------------------------------------------------------------------------
(* Properties.                                                              *)

\* Thread, rows, keys and updates have the shapes the code gives them; a thread
\* waits on an approval that exists.
TypeOK ==
    /\ thread \in [phase : {"waiting"}, approval : 1..Len(approvals)] \cup
                  [phase : {"ended"}, outcome : {"NO_PROPOSAL", "VERIFIED", "FAILED", "REJECTED"}]
    /\ approvals \in Seq(Status) /\ Len(approvals) <= MaxApprovals
    /\ run \in {"absent", "WAITING_APPROVAL", "COMPLETED", "FAILED"}
    /\ keys \subseteq [approval : DOMAIN approvals, action : Decision, key : Key]
    /\ messages \in [Update -> {"none", "RECEIVED", "NEEDS_MODIFICATION_DETAILS"}]
    /\ unacked \subseteq {u \in Update : sent[u] # NoUpdate} /\ chat \in BOOLEAN
    /\ poller \in {"off", "calling", "sleeping"}
    /\ DOMAIN decidedBy = DOMAIN approvals

\* A stored answer tells the truth, whatever raced with the request: the
\* approval was decided that way, and no other key, action or channel holds
\* an answer for it.
AnswersAgree ==
    \A s \in keys :
        /\ approvals[s.approval] = s.action
        /\ decidedBy[s.approval] = [via |-> "rest", key |-> s.key]
        /\ \A t \in keys : t.approval = s.approval => t = s

Busy(a) == \E w \in Worker : tx[w].pc \in {"decided", "resumed"} /\ tx[w].approval = a

\* A decision taken by REST gets its answer stored for replays, although the
\* two are separate commits; only a crash between them loses it.
DecisionIsAnswered ==
    \A a \in DOMAIN approvals :
        decidedBy[a].via = "rest" =>
            Scope(a, approvals[a], decidedBy[a].key) \in keys \/ Busy(a) \/ crashes > 0

\* The answers kept for replays are those of the decisions that were taken: no
\* false one, and none missing but for a crash.
AnswersMatchDecisions == TypeOK /\ AnswersAgree /\ DecisionIsAnswered

\* An update delivered again, at the same time or after a failure, is acted
\* upon at most once.
UpdateActsOnce == \A u \in Update : acted[u] <= 1

\* The run of a waiting thread has its row, although the row is inserted after
\* the graph has committed the proposal; only a crash leaves a proposal that
\* belongs to no run.
RunIsRecorded ==
    thread.phase = "waiting" /\ run = "absent" =>
        crashes > 0 \/ \E w \in Worker : tx[w].pc = "started"

\* A button that the bot receives while the thread waits on its approval gets
\* that approval decided, unless the request dies: the row that stops
\* duplicates is committed first and never stops the first delivery.
ButtonTakesEffect ==
    \A u \in Update, a \in 1..MaxApprovals :
        (/\ poller = "off" /\ u \in unacked /\ messages[u] = "none"
         /\ sent[u].kind = "button" /\ sent[u].approval = a
         /\ sent[u].button \in {"APPROVE", "REJECT"})
        ~> (~Waiting(a) \/ approvals[a] # "PENDING" \/ crashes > 0)

\* "Long-polls getUpdates from Telegram when webhook URL is not publicly
\* configured": what the merchant sends to the bot is received.
UpdatesAreReceived ==
    \A u \in Update : (sent[u] # NoUpdate) ~> (messages[u] # "none")
=============================================================================
