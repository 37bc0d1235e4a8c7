----------------------------- MODULE VoiceStream -----------------------------
(***************************************************************************)
(* The voice assistant: a session a merchant opens, the web sockets that    *)
(* stream it (api/v1/voice.py), the pipeline from speech to action to       *)
(* speech (channels/voice/pipeline.py, agent.py, session.py) and the        *)
(* adapter of the speech provider (channels/voice/sarvam.py).               *)
(*                                                                         *)
(* A connection is served by three tasks: the receive loop, which queues    *)
(* the microphone's frames; the sender, which passes them to the provider;  *)
(* and the producer, which waits for transcripts, acts and speaks.  The     *)
(* session is shared by all connections made to it.  The provider and the   *)
(* client may stop at any time and owe no answer.                           *)
(***************************************************************************)
EXTENDS Integers, Sequences, FiniteSets

CONSTANTS
    Conn,        \* connections made to the session
    Said,        \* utterances, each the set of kinds of words heard in it
    QueueSize,   \* frames the audio queue holds
    Elsewhere,   \* what the merchant may decide on another channel
    MaxInterrupts   \* a bound of the model

ASSUME VoiceAssumption ==
    /\ QueueSize \in Nat \ {0}
    /\ MaxInterrupts \in Nat /\ Elsewhere \subseteq {"APPROVED", "MODIFIED", "REJECTED"}
    /\ Said \subseteq SUBSET {"approve", "reject", "modify", "quantity"}

VARIABLES
    session,     \* the flags of the VoiceSession in memory
    proposal,    \* the proposal the session was opened for, or "none"
    client,      \* each connection's client: "gone" once it has left or finished,
                 \* or its socket was closed
    loop,        \* the receive loop of each connection
    queue,       \* its audio queue
    sender,      \* the task that passes the queue to the provider
    heard,       \* whether the provider has heard what it has not transcribed
    producer,    \* the task that acts and speaks
    interrupts, cuts,   \* how many there were
    barged       \* history: connections whose reply somebody spoke into

vars == <<session, proposal, client, loop, queue, sender, heard, producer,
          interrupts, cuts, barged>>
counts == <<interrupts, cuts>>

Silent == [pc |-> "off", intent |-> "none"]
Decisions == [approve |-> "APPROVED", modify |-> "MODIFIED", reject |-> "REJECTED"]

Init ==
    /\ session = [closed |-> FALSE, interrupted |-> FALSE, speaking |-> FALSE]
    /\ proposal \in {"none", "PENDING"}
    /\ client = [c \in Conn |-> "absent"] /\ loop = [c \in Conn |-> "off"]
    /\ queue = [c \in Conn |-> <<>>] /\ sender = [c \in Conn |-> "off"]
    /\ heard = [c \in Conn |-> FALSE] /\ producer = [c \in Conn |-> Silent]
    /\ interrupts = 0 /\ cuts = 0 /\ barged = {}

InReply(c) == producer[c].pc \in {"acting", "speaking"}
Replying == {c \in Conn : InReply(c)}

----------------------------------------------------------------------------
(* The receive loop.                                                        *)

\* A session that was closed is taken up again with its flags cleared.
Open(c) ==
    /\ client[c] = "absent"
    /\ client' = [client EXCEPT ![c] = "open"]
    /\ loop' = [loop EXCEPT ![c] = "receiving"]
    /\ producer' = [producer EXCEPT ![c].pc = "connecting"]
    /\ session' = IF session.closed
                  THEN [closed |-> FALSE, interrupted |-> FALSE, speaking |-> FALSE] ELSE session
    /\ barged' = IF session.closed THEN barged \cup Replying ELSE barged
    /\ UNCHANGED <<proposal, queue, sender, heard, counts>>

\* Where the loop is after a message: it looks for a producer that is done
\* before it receives the next one.
After(c) == IF producer[c].pc = "done" THEN "waiting" ELSE "receiving"

\* A full queue drops its oldest frame.
Enqueued(q) == IF Len(q) < QueueSize THEN Append(q, "frame") ELSE Append(Tail(q), "frame")

\* A frame of the microphone is dropped while the assistant speaks.
Hear(c) ==
    /\ loop[c] = "receiving" /\ client[c] = "open" /\ ~session.speaking
    /\ queue' = [queue EXCEPT ![c] = Enqueued(@)]
    /\ loop' = [loop EXCEPT ![c] = After(c)]
    /\ UNCHANGED <<session, proposal, client, sender, heard, producer, counts, barged>>

Interrupt(c) ==
    /\ loop[c] = "receiving" /\ client[c] = "open" /\ interrupts < MaxInterrupts
    /\ session' = [session EXCEPT !.interrupted = TRUE, !.speaking = FALSE]
    /\ loop' = [loop EXCEPT ![c] = After(c)]
    /\ interrupts' = interrupts + 1
    /\ barged' = barged \cup Replying
    /\ UNCHANGED <<proposal, client, queue, sender, heard, producer, cuts>>

\* The client says it has finished or goes away, or its socket was closed: the
\* end of the audio is put into the queue, waiting for room if it is full.
WithEnd(q) == IF Len(q) < QueueSize THEN Append(q, "end") ELSE q

Finish(c) ==
    /\ loop[c] = "receiving"
    /\ queue' = [queue EXCEPT ![c] = WithEnd(@)]
    /\ loop' = [loop EXCEPT ![c] = IF Len(queue[c]) < QueueSize THEN "waiting" ELSE "putting"]
    /\ client' = [client EXCEPT ![c] = "gone"]
    /\ UNCHANGED <<session, proposal, sender, heard, producer, counts, barged>>

PutEnd(c) ==
    /\ loop[c] = "putting" /\ Len(queue[c]) < QueueSize
    /\ queue' = [queue EXCEPT ![c] = WithEnd(@)]
    /\ loop' = [loop EXCEPT ![c] = "waiting"]
    /\ UNCHANGED <<session, proposal, client, sender, heard, producer, counts, barged>>

\* A ping or a dropped frame after which the producer is found done, or a
\* control message that cannot be read: the end is put if there is room.
BreakOff(c) ==
    /\ loop[c] = "receiving" /\ client[c] = "open"
    /\ queue' = [queue EXCEPT ![c] = WithEnd(@)]
    /\ loop' = [loop EXCEPT ![c] = "waiting"]
    /\ client' = [client EXCEPT ![c] = "gone"]
    /\ UNCHANGED <<session, proposal, sender, heard, producer, counts, barged>>

\* What the end of a producer leaves: its helper tasks are cancelled, the
\* speaking flag is cleared if it was in a reply.
Stopped(c) ==
    /\ producer' = [producer EXCEPT ![c] = [Silent EXCEPT !.pc = "done"]]
    /\ sender' = [sender EXCEPT ![c] = "off"]
    /\ heard' = [heard EXCEPT ![c] = FALSE]
    /\ session' = [session EXCEPT !.speaking = @ /\ ~InReply(c)]
    /\ barged' = IF InReply(c) THEN (barged \cup Replying) \ {c} ELSE barged

\* A decision that is cut short has been committed, or not.
CutShort(c) ==
    \/ UNCHANGED proposal
    \/ /\ producer[c].pc = "acting" /\ producer[c].intent \in DOMAIN Decisions
       /\ proposal = "PENDING"
       /\ proposal' = Decisions[producer[c].intent]

\* Mutant of Close: the producer is awaited for ever.
CloseWhenDone(c) ==
    /\ loop[c] = "waiting" /\ producer[c].pc = "done"
    /\ loop' = [loop EXCEPT ![c] = "done"]
    /\ queue' = [queue EXCEPT ![c] = <<>>]
    /\ UNCHANGED <<session, proposal, client, sender, heard, producer, counts, barged>>

\* The loop has waited: the producer is done, or is cancelled after five
\* seconds, in the middle of a decision or not.
Close(c) ==
    /\ loop[c] = "waiting"
    /\ loop' = [loop EXCEPT ![c] = "done"]
    /\ queue' = [queue EXCEPT ![c] = <<>>]
    /\ \/ /\ producer[c].pc = "done"
          /\ UNCHANGED <<session, proposal, sender, heard, producer, barged>>
       \/ /\ producer[c].pc # "done"
          /\ Stopped(c)
          /\ CutShort(c)
    /\ UNCHANGED <<client, counts>>

----------------------------------------------------------------------------
(* The provider's adapter, and the provider.                                *)

Connect(c) ==
    /\ producer[c].pc = "connecting"
    /\ producer' = [producer EXCEPT ![c].pc = "listening"]
    /\ sender' = [sender EXCEPT ![c] = "running"]
    /\ UNCHANGED <<session, proposal, client, loop, queue, heard, counts, barged>>

\* send_audio: frames go to the provider until the end of the audio
SendAudio(c) ==
    /\ sender[c] = "running" /\ queue[c] # <<>>
    /\ queue' = [queue EXCEPT ![c] = Tail(@)]
    /\ sender' = [sender EXCEPT ![c] = IF Head(queue[c]) = "end" THEN "done" ELSE @]
    /\ heard' = [heard EXCEPT ![c] = @ \/ Head(queue[c]) # "end"]
    /\ UNCHANGED <<session, proposal, client, loop, producer, counts, barged>>

\* External: the provider closes its socket, and the sender stops.
ProviderCloses(c) ==
    /\ sender[c] = "running"
    /\ sender' = [sender EXCEPT ![c] = "done"]
    /\ UNCHANGED <<session, proposal, client, loop, queue, heard, producer, counts, barged>>

----------------------------------------------------------------------------
(* The producer: VoicePipeline.run.                                         *)

\* extract_voice_intent looks for its kinds of words in a fixed order and the
\* first kind found wins, so "confirm mat karo" (do not confirm) approves; a
\* change needs a number.
Explicit(said) ==
    IF "approve" \in said THEN {"approve"}
    ELSE IF "reject" \in said THEN {"reject"}
    ELSE IF {"modify", "quantity"} \subseteq said THEN {"modify"}
    ELSE {}

\* The other intents, from ordering to small talk, decide nothing: they differ
\* in the wording of the answer only.
IntentOf(said) ==
    IF Explicit(said) = {} THEN "chat" ELSE CHOOSE i \in Explicit(said) : TRUE

Goes(c, p) == producer' = [producer EXCEPT ![c] = p]

\* The provider transcribes what it heard; from here the assistant counts as speaking.
StartReply(c) ==
    /\ producer[c].pc = "listening" /\ heard[c]
    /\ heard' = [heard EXCEPT ![c] = FALSE]
    /\ \E said \in Said :
         Goes(c, [Silent EXCEPT !.pc = "acting", !.intent = IntentOf(said)])
    /\ session' = [session EXCEPT !.speaking = TRUE]
    /\ barged' = barged \ {c}
    /\ UNCHANGED <<proposal, client, loop, queue, sender, counts>>

Speak(c, intent) ==
    Goes(c, [pc |-> "speaking", intent |-> intent])

\* Mutant of Decide: the reply does not depend on the outcome.
DecideRegardless(c) ==
    LET intent == producer[c].intent
    IN  /\ producer[c].pc = "acting" /\ intent \in DOMAIN Decisions /\ proposal # "none"
        /\ proposal' = IF proposal = "PENDING" THEN Decisions[intent] ELSE proposal
        /\ Speak(c, intent)
        /\ UNCHANGED <<session, client, loop, queue, sender, heard, counts, barged>>

\* The decision is applied through the workflow before it is spoken; a
\* proposal that was decided or replaced meanwhile makes it raise.
Decide(c) ==
    LET intent == producer[c].intent
    IN  /\ producer[c].pc = "acting" /\ intent \in DOMAIN Decisions /\ proposal = "PENDING"
        /\ proposal' = Decisions[intent]
        /\ Speak(c, intent)
        /\ UNCHANGED <<session, client, loop, queue, sender, heard, counts, barged>>

\* Without a proposal the reply says so; anything else is answered by the
\* language model or, when that fails or is late, by a fixed text.
Chat(c) ==
    /\ producer[c].pc = "acting"
    /\ producer[c].intent = "chat" \/ proposal = "none"
    /\ Speak(c, "chat")
    /\ UNCHANGED <<session, proposal, client, loop, queue, sender, heard, counts, barged>>

\* The reply is over: the speaking flag is cleared whoever set it.
EndReply(c, s) ==
    /\ session' = [s EXCEPT !.speaking = FALSE]
    /\ barged' = (barged \cup Replying) \ {c}

\* Mutant of Cut: the interrupt stays set.
CutKeepingFlag(c) ==
    /\ producer[c].pc = "speaking" /\ session.interrupted
    /\ Goes(c, [Silent EXCEPT !.pc = "listening"])
    /\ EndReply(c, session)
    /\ cuts' = cuts + 1
    /\ UNCHANGED <<proposal, client, loop, queue, sender, heard, interrupts>>

\* A part of the speech arrives after an interrupt, and the reply is cut; a
\* part without one is sent and changes nothing here.
Cut(c) ==
    /\ producer[c].pc = "speaking" /\ session.interrupted
    /\ Goes(c, [Silent EXCEPT !.pc = "listening"])
    /\ EndReply(c, [session EXCEPT !.interrupted = FALSE])
    /\ cuts' = cuts + 1
    /\ UNCHANGED <<proposal, client, loop, queue, sender, heard, interrupts>>

\* The speech ends, complete or not.  When the provider's socket fails the whole
\* text is asked for again over HTTP, which changes nothing here; when both
\* fail the producer raises (Fail).
SpeechEnds(c) ==
    /\ producer[c].pc = "speaking"
    /\ Goes(c, [Silent EXCEPT !.pc = "listening"])
    /\ EndReply(c, session)
    /\ UNCHANGED <<proposal, client, loop, queue, sender, heard, counts>>

\* The provider ends the transcription: the session is closed.
EndSession(c) ==
    /\ producer[c].pc = "listening"
    /\ producer' = [producer EXCEPT ![c] = [Silent EXCEPT !.pc = "done"]]
    /\ sender' = [sender EXCEPT ![c] = "off"]
    /\ heard' = [heard EXCEPT ![c] = FALSE]
    /\ session' = [session EXCEPT !.closed = TRUE]
    /\ UNCHANGED <<proposal, client, loop, queue, counts, barged>>

\* What makes the producer give up: the provider refuses the connection or
\* reports an error, a decision raises (taken elsewhere first, expired,
\* database down), both ways of speaking fail.  The client is told and the socket closed.
Raises(c) ==
    LET p == producer[c]
    IN  \/ p.pc = "connecting"
        \/ p.pc = "listening"
        \/ p.pc = "acting" /\ p.intent \in DOMAIN Decisions /\ proposal # "none"
        \/ p.pc = "speaking"

Fail(c) ==
    /\ Raises(c)
    /\ Stopped(c)
    /\ CutShort(c)
    /\ client' = [client EXCEPT ![c] = "gone"]
    /\ UNCHANGED <<loop, queue, counts>>

\* Sending to a client that is gone may raise, which ends the producer
\* quietly.
SendToGone(c) ==
    /\ client[c] = "gone"
    /\ producer[c].pc \in {"listening", "speaking"}
    /\ Stopped(c)
    /\ UNCHANGED <<proposal, client, loop, queue, counts>>

----------------------------------------------------------------------------

\* The merchant decides on another channel.
DecideElsewhere ==
    /\ proposal = "PENDING"
    /\ proposal' \in Elsewhere
    /\ UNCHANGED <<session, client, loop, queue, sender, heard, producer, counts, barged>>

Loop(c) == Hear(c) \/ Interrupt(c) \/ Finish(c) \/ PutEnd(c) \/ BreakOff(c) \/ Close(c)

Produce(c) ==
    \/ Connect(c) \/ SendAudio(c) \/ ProviderCloses(c) \/ StartReply(c) \/ Decide(c) \/ Chat(c)
    \/ Cut(c) \/ SpeechEnds(c) \/ EndSession(c) \/ Fail(c) \/ SendToGone(c)

Next == DecideElsewhere \/ \E c \in Conn : Open(c) \/ Loop(c) \/ Produce(c)

Spec == Init /\ [][Next]_vars

\* The event loop runs the server's own tasks: it delivers a disconnect, goes
\* on when the queue has room, cancels after five seconds, and an attempt to
\* connect succeeds or times out.  Nothing is assumed of the client, of the
\* provider once connected, or of the workflow.
Fairness(c) ==
    /\ WF_vars(client[c] = "gone" /\ Finish(c)) /\ WF_vars(PutEnd(c)) /\ WF_vars(Close(c))
    /\ WF_vars(SendAudio(c))
    /\ WF_vars(Connect(c) \/ (producer[c].pc = "connecting" /\ Fail(c)))
FairSpec == Spec /\ \A c \in Conn : Fairness(c)

----------------------------------------------------------------------------
(* Properties.                                                              *)

\* The flags, queues and tasks have the values the code gives them; the
\* queue never outgrows its size although it is filled without waiting.
TypeOK ==
    /\ session \in [closed : BOOLEAN, interrupted : BOOLEAN, speaking : BOOLEAN]
    /\ proposal \in {"none", "PENDING", "APPROVED", "MODIFIED", "REJECTED"}
    /\ client \in [Conn -> {"absent", "open", "gone"}]
    /\ loop \in [Conn -> {"off", "receiving", "putting", "waiting", "done"}]
    /\ sender \in [Conn -> {"off", "running", "done"}]
    /\ \A c \in Conn :
         /\ queue[c] \in Seq({"frame", "end"}) /\ Len(queue[c]) <= QueueSize
         /\ producer[c].pc \in {"off", "connecting", "listening", "acting", "speaking", "done"}
    /\ barged \subseteq Conn

\* The assistant tells the merchant that a proposal was approved, modified or
\* rejected only while that is what became of it, whichever channel or
\* connection decided first (agent.py awaits the workflow before it replies).
SpokenDecisionHolds ==
    \A c \in Conn : producer[c].pc = "speaking" /\ producer[c].intent \in DOMAIN Decisions =>
        proposal = Decisions[producer[c].intent]

\* One interrupt cuts at most one reply, on all connections together: a reply
\* that nobody interrupted is not cut twice by an old flag.
CutsNeedInterrupts == cuts + (IF session.interrupted THEN 1 ELSE 0) <= interrupts

\* While a reply is prepared or spoken the microphone is ignored, unless the
\* merchant interrupted or another connection of the session ended a reply or
\* took the session up again: the flag is shared and cleared by anyone.
DeafUnlessBarged == \A c \in Conn : InReply(c) /\ ~session.speaking => c \in barged

\* The flags that all connections share mislead in these ways only: one
\* interrupt cuts one reply, and a reply hears itself only after somebody
\* cleared its flag.
FlagsAccounted == TypeOK /\ CutsNeedInterrupts /\ DeafUnlessBarged

\* The receive loop waits for room in a queue that nobody empties any more.
Stuck(c) ==
    /\ loop[c] = "putting" /\ Len(queue[c]) = QueueSize
    /\ sender[c] # "running" /\ producer[c].pc # "connecting"

\* Once a client is gone its handler ends, also when the provider never
\* answers again, or is stuck on a full queue.
HandlerEnds == \A c \in Conn : client[c] = "gone" ~> loop[c] = "done" \/ Stuck(c)
=============================================================================
