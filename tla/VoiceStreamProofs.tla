-------------------------- MODULE VoiceStreamProofs --------------------------
(***************************************************************************)
(* Proofs about VoiceStream, for any number of connections to the session,  *)
(* any utterances, any size of the audio queue and any decisions elsewhere. *)
(*                                                                         *)
(* Both properties become inductive once the tasks have their types: the    *)
(* intent a producer carries is what its reply will be about, and a         *)
(* proposal leaves PENDING once and for all.                                *)
(***************************************************************************)
EXTENDS VoiceStream, SequenceTheorems, TLAPS

Task == [pc : {"off", "connecting", "listening", "acting", "speaking", "done"},
         intent : {"none", "chat", "approve", "modify", "reject"}]

\* Producers and queues of all connections, and the two counters.
TasksTyped ==
    /\ producer \in [Conn -> Task]
    /\ queue \in [Conn -> Seq({"frame", "end"})]
    /\ interrupts \in Nat /\ cuts \in Nat

VoiceInv == FlagsAccounted /\ SpokenDecisionHolds /\ TasksTyped

-----------------------------------------------------------------------------
(* Decisions, flags and queues.                                             *)

\* Each deciding intent has one decision, and none of them is PENDING.
LEMMA DecisionsFacts ==
    /\ DOMAIN Decisions = {"approve", "modify", "reject"}
    /\ \A i \in DOMAIN Decisions : Decisions[i] \in {"APPROVED", "MODIFIED", "REJECTED"}
  BY DEF Decisions

\* extract_voice_intent returns a deciding intent or none of them.
LEMMA IntentFacts ==
    ASSUME NEW said
    PROVE  IntentOf(said) \in {"chat", "approve", "modify", "reject"}
  <1>1. CASE Explicit(said) = {}
    BY <1>1 DEF IntentOf
  <1>2. CASE Explicit(said) # {}
    <2>1. IntentOf(said) \in Explicit(said)
      BY <1>2 DEF IntentOf
    <2>2. Explicit(said) \subseteq {"approve", "modify", "reject"}
      BY DEF Explicit
    <2>3. QED
      BY <2>1, <2>2
  <1>3. QED
    BY <1>1, <1>2

\* The audio queue never outgrows its size, whoever fills it.
LEMMA QueueFacts ==
    ASSUME NEW q \in Seq({"frame", "end"}), Len(q) <= QueueSize
    PROVE  /\ Enqueued(q) \in Seq({"frame", "end"}) /\ Len(Enqueued(q)) <= QueueSize
           /\ WithEnd(q) \in Seq({"frame", "end"}) /\ Len(WithEnd(q)) <= QueueSize
           /\ q # <<>> => Tail(q) \in Seq({"frame", "end"}) /\ Len(Tail(q)) <= QueueSize
           /\ <<>> \in Seq({"frame", "end"}) /\ Len(<<>>) <= QueueSize
  <1> DEFINE T == {"frame", "end"}
  <1>1. QueueSize \in Nat /\ QueueSize > 0 /\ Len(q) \in Nat /\ "frame" \in T /\ "end" \in T
    BY VoiceAssumption, LenProperties
  <1> HIDE DEF T
  <1>2. <<>> \in Seq(T) /\ Len(<<>>) <= QueueSize
    BY <1>1, EmptySeq
  <1>3. q \in Seq(T)
    BY DEF T
  <1>4. \A x \in T : \A p \in Seq(T) : Append(p, x) \in Seq(T) /\ Len(Append(p, x)) = Len(p) + 1
    BY AppendProperties
  <1>5. ASSUME q # <<>> PROVE Tail(q) \in Seq(T) /\ Len(Tail(q)) = Len(q) - 1
    BY <1>3, <1>5, HeadTailProperties
  <1>6. Enqueued(q) \in Seq(T) /\ Len(Enqueued(q)) <= QueueSize
    <2>1. CASE Len(q) < QueueSize
      BY <1>1, <1>3, <1>4, <2>1 DEF Enqueued
    <2>2. CASE ~(Len(q) < QueueSize)
      <3>1. q # <<>>
        BY <1>1, <2>2, EmptySeq
      <3>2. Append(Tail(q), "frame") \in Seq(T) /\ Len(Append(Tail(q), "frame")) = Len(q) - 1 + 1
        BY <1>1, <1>4, <1>5, <3>1
      <3>3. QED
        BY <1>1, <2>2, <3>2 DEF Enqueued
    <2>3. QED
      BY <2>1, <2>2
  <1>7. WithEnd(q) \in Seq(T) /\ Len(WithEnd(q)) <= QueueSize
    BY <1>1, <1>3, <1>4 DEF WithEnd
  <1>8. q # <<>> => Tail(q) \in Seq(T) /\ Len(Tail(q)) <= QueueSize
    BY <1>1, <1>5
  <1>9. QED
    BY <1>2, <1>6, <1>7, <1>8 DEF T

\* What changes when one producer moves on.
LEMMA ProducerChange ==
    ASSUME VoiceInv, NEW c \in Conn, NEW p \in Task, producer' = [producer EXCEPT ![c] = p]
    PROVE  /\ producer' \in [Conn -> Task] /\ producer'[c] = p
           /\ \A d \in Conn \ {c} : producer'[d] = producer[d]
  BY DEF VoiceInv, TasksTyped

\* The session's flags.
Flags == [closed : BOOLEAN, interrupted : BOOLEAN, speaking : BOOLEAN]

\* A reply that is spoken of a decision stays true when the proposal is decided
\* only while it is PENDING, and the producer that moves on tells the truth.
LEMMA SpokenKept ==
    ASSUME VoiceInv, NEW c \in Conn, NEW p \in Task, producer' = [producer EXCEPT ![c] = p],
           proposal' = proposal \/ proposal = "PENDING",
           p.pc = "speaking" /\ p.intent \in DOMAIN Decisions => proposal' = Decisions[p.intent]
    PROVE  SpokenDecisionHolds'
  <1> SUFFICES ASSUME NEW d \in Conn, producer'[d].pc = "speaking",
                      producer'[d].intent \in DOMAIN Decisions
               PROVE  proposal' = Decisions[producer'[d].intent]
    BY DEF SpokenDecisionHolds
  <1>1. CASE d = c
    BY <1>1, ProducerChange
  <1>2. CASE d # c
    <2>1. producer'[d] = producer[d]
      BY <1>2, ProducerChange
    <2>2. proposal = Decisions[producer[d].intent]
      BY <2>1 DEF VoiceInv, SpokenDecisionHolds
    <2>3. proposal # "PENDING"
      BY <2>1, <2>2, DecisionsFacts
    <2>4. QED
      BY <2>1, <2>2, <2>3
  <1>3. QED
    BY <1>1, <1>2

\* A reply becomes audible to itself only by a step that counts it as barged.
LEMMA DeafKept ==
    ASSUME VoiceInv, NEW c \in Conn, NEW p \in Task, producer' = [producer EXCEPT ![c] = p],
           \A d \in Conn \ {c} : d \in barged => d \in barged',
           session'.speaking \/ ~session.speaking \/ \A d \in Replying \ {c} : d \in barged',
           p.pc \in {"acting", "speaking"} =>
              session'.speaking \/ (InReply(c) /\ ~session.speaking /\ (c \in barged => c \in barged'))
    PROVE  DeafUnlessBarged'
  <1> SUFFICES ASSUME NEW d \in Conn, producer'[d].pc \in {"acting", "speaking"},
                      ~session'.speaking
               PROVE  d \in barged'
    BY DEF DeafUnlessBarged, InReply
  <1>1. \A e \in Conn : InReply(e) /\ ~session.speaking => e \in barged
    BY DEF VoiceInv, FlagsAccounted, DeafUnlessBarged
  <1>2. CASE d = c
    BY <1>1, <1>2, ProducerChange
  <1>3. CASE d # c
    <2>1. InReply(d)
      BY <1>3, ProducerChange DEF InReply
    <2>2. QED
      BY <1>1, <1>3, <2>1 DEF Replying
  <1>4. QED
    BY <1>2, <1>3

\* A step of sockets and queues: flags, proposal and producers stay.
LEMMA SocketStep ==
    ASSUME VoiceInv, UNCHANGED <<session, proposal, producer, counts, barged>>,
           client' \in [Conn -> {"absent", "open", "gone"}],
           loop' \in [Conn -> {"off", "receiving", "putting", "waiting", "done"}],
           sender' \in [Conn -> {"off", "running", "done"}],
           queue' \in [Conn -> Seq({"frame", "end"})],
           \A c \in Conn : Len(queue'[c]) <= QueueSize
    PROVE  VoiceInv'
  <1>1. TypeOK'
    BY DEF VoiceInv, FlagsAccounted, TypeOK
  <1>2. CutsNeedInterrupts' /\ DeafUnlessBarged' /\ SpokenDecisionHolds' /\ TasksTyped'
    BY DEF VoiceInv, FlagsAccounted, CutsNeedInterrupts, DeafUnlessBarged, InReply,
       SpokenDecisionHolds, TasksTyped, counts
  <1>3. QED
    BY <1>1, <1>2 DEF VoiceInv, FlagsAccounted

\* The tables of the connections, one by one.
LEMMA Tables ==
    ASSUME VoiceInv
    PROVE  /\ client \in [Conn -> {"absent", "open", "gone"}]
           /\ loop \in [Conn -> {"off", "receiving", "putting", "waiting", "done"}]
           /\ sender \in [Conn -> {"off", "running", "done"}]
           /\ queue \in [Conn -> Seq({"frame", "end"})]
           /\ \A c \in Conn : Len(queue[c]) <= QueueSize
           /\ producer \in [Conn -> Task]
           /\ session \in Flags
           /\ barged \subseteq Conn
           /\ proposal \in {"none", "PENDING", "APPROVED", "MODIFIED", "REJECTED"}
           /\ interrupts \in Nat /\ cuts \in Nat
  BY DEF VoiceInv, FlagsAccounted, TypeOK, TasksTyped, Flags

\* One queue is replaced by what Enqueued, WithEnd or Tail makes of it.
LEMMA QueueChange ==
    ASSUME VoiceInv, NEW c \in Conn,
           NEW q \in {queue[c], Enqueued(queue[c]), WithEnd(queue[c]), <<>>} \cup
                     {Tail(p) : p \in {queue[c]} \ {<<>>}},
           queue' = [queue EXCEPT ![c] = q]
    PROVE  /\ queue' \in [Conn -> Seq({"frame", "end"})]
           /\ \A d \in Conn : Len(queue'[d]) <= QueueSize
  <1>1. queue[c] \in Seq({"frame", "end"}) /\ Len(queue[c]) <= QueueSize
    BY Tables
  <1>2. q \in Seq({"frame", "end"}) /\ Len(q) <= QueueSize
    BY <1>1, QueueFacts
  <1>3. QED
    BY <1>2, Tables

-----------------------------------------------------------------------------
(* The receive loop.                                                        *)

\* Hearing, finishing and breaking off only fill the queue.
LEMMA LoopInv ==
    ASSUME VoiceInv, NEW c \in Conn, Hear(c) \/ Finish(c) \/ PutEnd(c) \/ BreakOff(c)
    PROVE  VoiceInv'
  <1>1. /\ UNCHANGED <<session, proposal, sender, producer, counts, barged>>
        /\ \/ queue' = [queue EXCEPT ![c] = Enqueued(queue[c])]
           \/ queue' = [queue EXCEPT ![c] = WithEnd(queue[c])]
        /\ client' = client \/ client' = [client EXCEPT ![c] = "gone"]
        /\ \E l \in {"receiving", "putting", "waiting"} : loop' = [loop EXCEPT ![c] = l]
    BY DEF Hear, Finish, PutEnd, BreakOff, After
  <1>2. /\ queue' \in [Conn -> Seq({"frame", "end"})]
        /\ \A d \in Conn : Len(queue'[d]) <= QueueSize
    BY <1>1, QueueChange
  <1>3. /\ client' \in [Conn -> {"absent", "open", "gone"}]
        /\ loop' \in [Conn -> {"off", "receiving", "putting", "waiting", "done"}]
        /\ sender' \in [Conn -> {"off", "running", "done"}]
    BY <1>1, Tables
  <1>4. QED
    BY <1>1, <1>2, <1>3, SocketStep

\* The sender empties the queue until the end of the audio.
LEMMA SenderInv ==
    ASSUME VoiceInv, NEW c \in Conn, SendAudio(c) \/ ProviderCloses(c)
    PROVE  VoiceInv'
  <1>1. /\ UNCHANGED <<session, proposal, client, loop, producer, counts, barged>>
        /\ \/ queue[c] # <<>> /\ queue' = [queue EXCEPT ![c] = Tail(queue[c])]
           \/ queue' = queue
        /\ sender[c] = "running"
        /\ \E l \in {"running", "done"} : sender' = [sender EXCEPT ![c] = l]
    BY DEF SendAudio, ProviderCloses
  <1>2. /\ queue' \in [Conn -> Seq({"frame", "end"})]
        /\ \A d \in Conn : Len(queue'[d]) <= QueueSize
    BY <1>1, QueueChange, Tables
  <1>3. /\ client' \in [Conn -> {"absent", "open", "gone"}]
        /\ loop' \in [Conn -> {"off", "receiving", "putting", "waiting", "done"}]
        /\ sender' \in [Conn -> {"off", "running", "done"}]
    BY <1>1, Tables
  <1>4. QED
    BY <1>1, <1>2, <1>3, SocketStep

\* A decision on another channel makes no spoken decision false.
LEMMA ElsewhereInv ==
    ASSUME VoiceInv, DecideElsewhere
    PROVE  VoiceInv'
  <1>1. /\ proposal = "PENDING" /\ proposal' \in {"APPROVED", "MODIFIED", "REJECTED"}
        /\ UNCHANGED <<session, client, loop, queue, sender, heard, producer, counts, barged>>
    BY VoiceAssumption DEF DecideElsewhere
  <1>2. SpokenDecisionHolds'
    BY <1>1, DecisionsFacts DEF VoiceInv, SpokenDecisionHolds
  <1>3. TypeOK'
    BY <1>1 DEF VoiceInv, FlagsAccounted, TypeOK
  <1>4. CutsNeedInterrupts' /\ DeafUnlessBarged' /\ TasksTyped'
    BY <1>1 DEF VoiceInv, FlagsAccounted, CutsNeedInterrupts, DeafUnlessBarged, InReply,
       TasksTyped, counts
  <1>5. QED
    BY <1>2, <1>3, <1>4 DEF VoiceInv, FlagsAccounted

\* An interrupt is counted, and every reply it reaches is barged.
LEMMA InterruptInv ==
    ASSUME VoiceInv, NEW c \in Conn, Interrupt(c)
    PROVE  VoiceInv'
  <1>1. /\ session' = [session EXCEPT !.interrupted = TRUE, !.speaking = FALSE]
        /\ \E l \in {"receiving", "waiting"} : loop' = [loop EXCEPT ![c] = l]
        /\ interrupts' = interrupts + 1
        /\ barged' = barged \cup Replying
        /\ UNCHANGED <<proposal, client, queue, sender, heard, producer, cuts>>
    BY DEF Interrupt, After
  <1>2. session' \in Flags
    BY <1>1, Tables DEF Flags
  <1>3. TypeOK'
    BY <1>1, <1>2, Tables DEF TypeOK, Flags, Task, Replying
  <1>4. cuts <= interrupts
    BY Tables DEF VoiceInv, FlagsAccounted, CutsNeedInterrupts
  <1>5. CutsNeedInterrupts'
    BY <1>1, <1>4, Tables DEF CutsNeedInterrupts
  <1>6. DeafUnlessBarged'
    BY <1>1 DEF DeafUnlessBarged, InReply, Replying
  <1>7. SpokenDecisionHolds' /\ TasksTyped'
    BY <1>1 DEF VoiceInv, SpokenDecisionHolds, TasksTyped
  <1>8. QED
    BY <1>3, <1>5, <1>6, <1>7 DEF VoiceInv, FlagsAccounted

-----------------------------------------------------------------------------
(* The producer.                                                            *)

\* A step of one producer that keeps the types and tells the truth.
LEMMA ProducerStep ==
    ASSUME VoiceInv, NEW c \in Conn, NEW p \in Task, producer' = [producer EXCEPT ![c] = p],
           SpokenDecisionHolds', DeafUnlessBarged', CutsNeedInterrupts',
           session' \in Flags, barged' \subseteq Conn,
           proposal' \in {"none", "PENDING", "APPROVED", "MODIFIED", "REJECTED"},
           client' \in [Conn -> {"absent", "open", "gone"}],
           loop' \in [Conn -> {"off", "receiving", "putting", "waiting", "done"}],
           sender' \in [Conn -> {"off", "running", "done"}],
           queue' \in [Conn -> Seq({"frame", "end"})],
           \A d \in Conn : Len(queue'[d]) <= QueueSize,
           interrupts' \in Nat, cuts' \in Nat
    PROVE  VoiceInv'
  <1>1. producer' \in [Conn -> Task]
    BY ProducerChange
  <1>2. TypeOK'
    BY <1>1 DEF TypeOK, Flags, Task
  <1>3. QED
    BY <1>1, <1>2 DEF VoiceInv, FlagsAccounted, TasksTyped

\* The counters and the interrupt flag when neither changes.
LEMMA CountsKept ==
    ASSUME VoiceInv, UNCHANGED counts, session'.interrupted => session.interrupted
    PROVE  CutsNeedInterrupts' /\ interrupts' \in Nat /\ cuts' \in Nat
  <1>1. interrupts' = interrupts /\ cuts' = cuts /\ interrupts \in Nat /\ cuts \in Nat
    BY Tables DEF counts
  <1>2. CASE session.interrupted
    <2>1. cuts + 1 <= interrupts
      BY <1>2 DEF VoiceInv, FlagsAccounted, CutsNeedInterrupts
    <2>2. QED
      BY <1>1, <2>1 DEF CutsNeedInterrupts
  <1>3. CASE ~session.interrupted
    <2>1. cuts + 0 <= interrupts /\ ~session'.interrupted
      BY <1>3 DEF VoiceInv, FlagsAccounted, CutsNeedInterrupts
    <2>2. QED
      BY <1>1, <2>1 DEF CutsNeedInterrupts
  <1>4. QED
    BY <1>2, <1>3

\* A connection that takes up a closed session clears its flags.
LEMMA OpenInv ==
    ASSUME VoiceInv, NEW c \in Conn, Open(c)
    PROVE  VoiceInv'
  <1> DEFINE p == [producer[c] EXCEPT !.pc = "connecting"]
  <1> DEFINE fresh == [closed |-> FALSE, interrupted |-> FALSE, speaking |-> FALSE]
  <1>1. /\ client' = [client EXCEPT ![c] = "open"]
        /\ loop' = [loop EXCEPT ![c] = "receiving"]
        /\ producer' = [producer EXCEPT ![c] = p]
        /\ session' = IF session.closed THEN fresh ELSE session
        /\ barged' = IF session.closed THEN barged \cup Replying ELSE barged
        /\ UNCHANGED <<proposal, queue, sender, heard, counts>>
    BY DEF Open
  <1>2. p \in Task /\ p.pc = "connecting"
    BY Tables DEF Task
  <1>3. fresh \in Flags /\ ~fresh.interrupted
    BY DEF Flags
  <1> HIDE DEF p, fresh
  <1>4. session' \in Flags /\ (session'.interrupted => session.interrupted)
    BY <1>1, <1>3, Tables
  <1>5. SpokenDecisionHolds'
    BY <1>1, <1>2, SpokenKept
  <1>6. DeafUnlessBarged'
    BY <1>1, <1>2, DeafKept
  <1>7. CutsNeedInterrupts' /\ interrupts' \in Nat /\ cuts' \in Nat
    BY <1>1, <1>4, CountsKept
  <1>8. /\ barged' \subseteq Conn
        /\ proposal' \in {"none", "PENDING", "APPROVED", "MODIFIED", "REJECTED"}
        /\ client' \in [Conn -> {"absent", "open", "gone"}]
        /\ loop' \in [Conn -> {"off", "receiving", "putting", "waiting", "done"}]
        /\ sender' \in [Conn -> {"off", "running", "done"}]
        /\ queue' \in [Conn -> Seq({"frame", "end"})]
        /\ \A d \in Conn : Len(queue'[d]) <= QueueSize
    BY <1>1, Tables DEF Replying
  <1>9. QED
    BY <1>1, <1>2, <1>4, <1>5, <1>6, <1>7, <1>8, ProducerStep

\* What a step that touches neither sockets, queues nor counters leaves.
LEMMA SocketsKept ==
    ASSUME VoiceInv, UNCHANGED <<client, loop, queue>>
    PROVE  /\ client' \in [Conn -> {"absent", "open", "gone"}]
           /\ loop' \in [Conn -> {"off", "receiving", "putting", "waiting", "done"}]
           /\ queue' \in [Conn -> Seq({"frame", "end"})]
           /\ \A d \in Conn : Len(queue'[d]) <= QueueSize
  BY Tables

\* Connecting, and the end of the transcription, concern no reply.
LEMMA ListenInv ==
    ASSUME VoiceInv, NEW c \in Conn, Connect(c) \/ EndSession(c)
    PROVE  VoiceInv'
  <1>1. PICK p \in Task :
           /\ producer' = [producer EXCEPT ![c] = p] /\ p.pc \in {"listening", "done"}
    <2>1. CASE Connect(c)
      <3> DEFINE p == [producer[c] EXCEPT !.pc = "listening"]
      <3>1. p \in Task /\ p.pc = "listening"
        BY Tables DEF Task
      <3>2. producer' = [producer EXCEPT ![c] = p]
        BY <2>1 DEF Connect
      <3>3. QED
        BY <3>1, <3>2
    <2>2. CASE EndSession(c)
      <3> DEFINE p == [Silent EXCEPT !.pc = "done"]
      <3>1. p \in Task /\ p.pc = "done"
        BY DEF Task, Silent
      <3>2. producer' = [producer EXCEPT ![c] = p]
        BY <2>2 DEF EndSession
      <3>3. QED
        BY <3>1, <3>2
    <2>3. QED
      BY <2>1, <2>2
  <1>2. /\ session' = session \/ session' = [session EXCEPT !.closed = TRUE]
        /\ \E l \in {"running", "off"} : sender' = [sender EXCEPT ![c] = l]
        /\ UNCHANGED <<proposal, client, loop, queue, counts, barged>>
    BY DEF Connect, EndSession
  <1>3. /\ session' \in Flags /\ session'.interrupted = session.interrupted
        /\ session'.speaking = session.speaking
    BY <1>2, Tables DEF Flags
  <1>4. SpokenDecisionHolds'
    BY <1>1, <1>2, SpokenKept
  <1>5. DeafUnlessBarged'
    BY <1>1, <1>2, <1>3, DeafKept
  <1>6. CutsNeedInterrupts' /\ interrupts' \in Nat /\ cuts' \in Nat
    BY <1>2, <1>3, CountsKept
  <1>7. /\ sender' \in [Conn -> {"off", "running", "done"}] /\ barged' \subseteq Conn
        /\ proposal' \in {"none", "PENDING", "APPROVED", "MODIFIED", "REJECTED"}
    BY <1>2, Tables
  <1>8. QED
    BY <1>1, <1>2, <1>3, <1>4, <1>5, <1>6, <1>7, SocketsKept, ProducerStep

\* From the transcript on the assistant counts as speaking.
LEMMA StartReplyInv ==
    ASSUME VoiceInv, NEW c \in Conn, StartReply(c)
    PROVE  VoiceInv'
  <1>1. PICK said \in Said :
           producer' = [producer EXCEPT ![c] = [Silent EXCEPT !.pc = "acting",
                                                               !.intent = IntentOf(said)]]
    BY DEF StartReply, Goes
  <1> DEFINE p == [Silent EXCEPT !.pc = "acting", !.intent = IntentOf(said)]
  <1>2. p \in Task /\ p.pc = "acting"
    BY IntentFacts DEF Task, Silent
  <1>3. producer' = [producer EXCEPT ![c] = p]
    BY <1>1
  <1> HIDE DEF p
  <1>4. /\ session' = [session EXCEPT !.speaking = TRUE]
        /\ barged' = barged \ {c}
        /\ UNCHANGED <<proposal, client, loop, queue, sender, counts>>
    BY DEF StartReply
  <1>5. session' \in Flags /\ session'.interrupted = session.interrupted /\ session'.speaking
    BY <1>4, Tables DEF Flags
  <1>6. SpokenDecisionHolds'
    BY <1>2, <1>3, <1>4, SpokenKept
  <1>7. DeafUnlessBarged'
    BY <1>2, <1>3, <1>4, <1>5, DeafKept
  <1>8. CutsNeedInterrupts' /\ interrupts' \in Nat /\ cuts' \in Nat
    BY <1>4, <1>5, CountsKept
  <1>9. /\ sender' \in [Conn -> {"off", "running", "done"}] /\ barged' \subseteq Conn
        /\ proposal' \in {"none", "PENDING", "APPROVED", "MODIFIED", "REJECTED"}
    BY <1>4, Tables
  <1>10. QED
    BY <1>2, <1>3, <1>4, <1>5, <1>6, <1>7, <1>8, <1>9, SocketsKept, ProducerStep

\* The reply is about the decision that was just applied, or about none.
LEMMA ActInv ==
    ASSUME VoiceInv, NEW c \in Conn, Decide(c) \/ Chat(c)
    PROVE  VoiceInv'
  <1>1. /\ producer[c].pc = "acting"
        /\ UNCHANGED <<session, client, loop, queue, sender, counts, barged>>
    BY DEF Decide, Chat
  <1>2. PICK i \in {"chat", "approve", "modify", "reject"} :
           /\ producer' = [producer EXCEPT ![c] = [pc |-> "speaking", intent |-> i]]
           /\ i \in DOMAIN Decisions => proposal' = Decisions[i]
           /\ proposal' = proposal \/ proposal = "PENDING"
           /\ proposal' \in {"none", "PENDING", "APPROVED", "MODIFIED", "REJECTED"}
    <2>1. CASE Decide(c)
      <3>1. /\ producer[c].intent \in DOMAIN Decisions /\ proposal = "PENDING"
            /\ proposal' = Decisions[producer[c].intent]
            /\ producer' = [producer EXCEPT ![c] = [pc |-> "speaking",
                                                     intent |-> producer[c].intent]]
        BY <2>1 DEF Decide, Speak, Goes
      <3>2. QED
        BY <3>1, DecisionsFacts
    <2>2. CASE Chat(c)
      <3>1. /\ proposal' = proposal
            /\ producer' = [producer EXCEPT ![c] = [pc |-> "speaking", intent |-> "chat"]]
        BY <2>2 DEF Chat, Speak, Goes
      <3>2. QED
        BY <3>1, DecisionsFacts, Tables
    <2>3. QED
      BY <2>1, <2>2
  <1> DEFINE p == [pc |-> "speaking", intent |-> i]
  <1>3. p \in Task /\ p.pc = "speaking" /\ p.intent = i
    BY DEF Task
  <1>4. producer' = [producer EXCEPT ![c] = p]
    BY <1>2
  <1> HIDE DEF p
  <1>5. SpokenDecisionHolds'
    BY <1>2, <1>3, <1>4, SpokenKept
  <1>6. DeafUnlessBarged'
    BY <1>1, <1>3, <1>4, DeafKept DEF InReply
  <1>7. CutsNeedInterrupts' /\ interrupts' \in Nat /\ cuts' \in Nat
    BY <1>1, CountsKept
  <1>8. /\ sender' \in [Conn -> {"off", "running", "done"}] /\ barged' \subseteq Conn
        /\ session' \in Flags
    BY <1>1, Tables
  <1>9. QED
    BY <1>1, <1>2, <1>3, <1>4, <1>5, <1>6, <1>7, <1>8, SocketsKept, ProducerStep

\* A reply that ends clears the flag of all others, and a cut uses up the
\* interrupt.
LEMMA ReplyOverInv ==
    ASSUME VoiceInv, NEW c \in Conn, Cut(c) \/ SpeechEnds(c)
    PROVE  VoiceInv'
  <1> DEFINE p == [Silent EXCEPT !.pc = "listening"]
  <1>1. /\ producer' = [producer EXCEPT ![c] = p]
        /\ barged' = (barged \cup Replying) \ {c}
        /\ UNCHANGED <<proposal, client, loop, queue, sender>>
    BY DEF Cut, SpeechEnds, Goes, EndReply
  <1>2. p \in Task /\ p.pc = "listening"
    BY DEF Task, Silent
  <1> HIDE DEF p
  <1>3. /\ session' \in Flags /\ ~session'.speaking
        /\ CutsNeedInterrupts' /\ interrupts' \in Nat /\ cuts' \in Nat
    <2>1. CASE SpeechEnds(c)
      <3>1. session' = [session EXCEPT !.speaking = FALSE] /\ UNCHANGED counts
        BY <2>1 DEF SpeechEnds, EndReply
      <3>2. /\ session' \in Flags /\ ~session'.speaking
            /\ session'.interrupted = session.interrupted
        BY <3>1, Tables DEF Flags
      <3>3. QED
        BY <3>1, <3>2, CountsKept
    <2>2. CASE Cut(c)
      <3>1. /\ session' = [[session EXCEPT !.interrupted = FALSE] EXCEPT !.speaking = FALSE]
            /\ session.interrupted /\ cuts' = cuts + 1 /\ interrupts' = interrupts
        BY <2>2 DEF Cut, EndReply
      <3>2. session' \in Flags /\ ~session'.speaking /\ ~session'.interrupted
        BY <3>1, Tables DEF Flags
      <3>3. cuts + 1 <= interrupts
        BY <3>1 DEF VoiceInv, FlagsAccounted, CutsNeedInterrupts
      <3>4. QED
        BY <3>1, <3>2, <3>3, Tables DEF CutsNeedInterrupts
    <2>3. QED
      BY <2>1, <2>2
  <1>4. SpokenDecisionHolds'
    BY <1>1, <1>2, SpokenKept
  <1>5. DeafUnlessBarged'
    BY <1>1, <1>2, <1>3, DeafKept
  <1>6. /\ sender' \in [Conn -> {"off", "running", "done"}] /\ barged' \subseteq Conn
        /\ proposal' \in {"none", "PENDING", "APPROVED", "MODIFIED", "REJECTED"}
    BY <1>1, Tables DEF Replying
  <1>7. QED
    BY <1>1, <1>2, <1>3, <1>4, <1>5, <1>6, SocketsKept, ProducerStep

\* A producer that is stopped, wherever it was, is as one that ended its reply;
\* a decision it was at is committed or not, and is not spoken.
LEMMA StoppedInv ==
    ASSUME VoiceInv, NEW c \in Conn, Stopped(c), UNCHANGED proposal \/ CutShort(c),
           client' \in [Conn -> {"absent", "open", "gone"}],
           loop' \in [Conn -> {"off", "receiving", "putting", "waiting", "done"}],
           queue' \in [Conn -> Seq({"frame", "end"})],
           \A d \in Conn : Len(queue'[d]) <= QueueSize,
           UNCHANGED counts
    PROVE  VoiceInv'
  <1> DEFINE p == [Silent EXCEPT !.pc = "done"]
  <1>1. /\ producer' = [producer EXCEPT ![c] = p]
        /\ sender' = [sender EXCEPT ![c] = "off"]
        /\ session' = [session EXCEPT !.speaking = session.speaking /\ ~InReply(c)]
        /\ barged' = IF InReply(c) THEN (barged \cup Replying) \ {c} ELSE barged
    BY DEF Stopped
  <1>2. p \in Task /\ p.pc = "done"
    BY DEF Task, Silent
  <1> HIDE DEF p
  <1>3. InReply(c) \in BOOLEAN
    BY DEF InReply
  <1>4. /\ session' \in Flags /\ session'.interrupted = session.interrupted
        /\ session'.speaking = (session.speaking /\ ~InReply(c))
    BY <1>1, <1>3, Tables DEF Flags
  <1>5. /\ proposal' = proposal \/ proposal = "PENDING"
        /\ proposal' \in {"none", "PENDING", "APPROVED", "MODIFIED", "REJECTED"}
    <2>1. CASE UNCHANGED proposal
      BY <2>1, Tables
    <2>2. CASE ~UNCHANGED proposal
      BY <2>2, DecisionsFacts DEF CutShort
    <2>3. QED
      BY <2>1, <2>2
  <1>6. SpokenDecisionHolds'
    BY <1>1, <1>2, <1>5, SpokenKept
  <1>7. DeafUnlessBarged'
    <2>1. \A d \in Conn \ {c} : d \in barged => d \in barged'
      BY <1>1
    <2>2. session'.speaking \/ ~session.speaking \/ \A d \in Replying \ {c} : d \in barged'
      BY <1>1, <1>4
    <2>3. QED
      BY <1>1, <1>2, <2>1, <2>2, DeafKept
  <1>8. CutsNeedInterrupts' /\ interrupts' \in Nat /\ cuts' \in Nat
    BY <1>4, CountsKept
  <1>9. sender' \in [Conn -> {"off", "running", "done"}] /\ barged' \subseteq Conn
    BY <1>1, Tables DEF Replying
  <1>10. QED
    BY <1>1, <1>2, <1>4, <1>5, <1>6, <1>7, <1>8, <1>9, ProducerStep

\* The handler closes, the producer fails, or its client is gone.
LEMMA GiveUpInv ==
    ASSUME VoiceInv, NEW c \in Conn, Close(c) \/ Fail(c) \/ SendToGone(c)
    PROVE  VoiceInv'
  <1>1. CASE Close(c)
    <2>1. /\ loop' = [loop EXCEPT ![c] = "done"] /\ queue' = [queue EXCEPT ![c] = <<>>]
          /\ UNCHANGED <<client, counts>>
      BY <1>1 DEF Close
    <2>2. /\ queue' \in [Conn -> Seq({"frame", "end"})]
          /\ \A d \in Conn : Len(queue'[d]) <= QueueSize
      BY <2>1, QueueChange
    <2>3. /\ loop' \in [Conn -> {"off", "receiving", "putting", "waiting", "done"}]
          /\ client' \in [Conn -> {"absent", "open", "gone"}]
      BY <2>1, Tables
    <2>4. CASE UNCHANGED <<session, proposal, sender, heard, producer, barged>>
      BY <2>1, <2>2, <2>3, <2>4, SocketStep, Tables
    <2>5. CASE Stopped(c) /\ CutShort(c)
      BY <2>1, <2>2, <2>3, <2>5, StoppedInv
    <2>6. QED
      BY <1>1, <2>4, <2>5 DEF Close
  <1>2. CASE Fail(c)
    <2>1. /\ Stopped(c) /\ CutShort(c) /\ client' = [client EXCEPT ![c] = "gone"]
          /\ UNCHANGED <<loop, queue, counts>>
      BY <1>2 DEF Fail
    <2>2. QED
      BY <2>1, StoppedInv, Tables
  <1>3. CASE SendToGone(c)
    <2>1. Stopped(c) /\ UNCHANGED <<proposal, client, loop, queue, counts>>
      BY <1>3 DEF SendToGone
    <2>2. QED
      BY <2>1, StoppedInv, Tables
  <1>4. QED
    BY <1>1, <1>2, <1>3

-----------------------------------------------------------------------------
\* Initially no connection is made.
LEMMA InitInv == Init => VoiceInv
  <1> SUFFICES ASSUME Init PROVE VoiceInv
    OBVIOUS
  <1>1. session \in Flags /\ ~session.interrupted /\ ~session.speaking
    BY DEF Init, Flags
  <1>2. Silent \in Task /\ Silent.pc = "off"
    BY DEF Silent, Task
  <1>3. <<>> \in Seq({"frame", "end"}) /\ Len(<<>>) <= QueueSize
    BY EmptySeq, VoiceAssumption
  <1>4. \A c \in Conn : producer[c] = Silent /\ queue[c] = <<>>
    BY DEF Init
  <1>5. TasksTyped
    BY <1>2, <1>3 DEF Init, TasksTyped
  <1>6. TypeOK
    BY <1>1, <1>2, <1>3, <1>4 DEF Init, TypeOK, Flags
  <1>7. CutsNeedInterrupts
    BY <1>1 DEF Init, CutsNeedInterrupts
  <1>8. DeafUnlessBarged /\ SpokenDecisionHolds
    BY <1>2, <1>4 DEF DeafUnlessBarged, SpokenDecisionHolds, InReply
  <1>9. QED
    BY <1>5, <1>6, <1>7, <1>8 DEF VoiceInv, FlagsAccounted

\* The tasks of all connections keep flags, proposal and replies in agreement.
THEOREM VoiceInvariant == Spec => []VoiceInv
  <1>1. VoiceInv /\ [Next]_vars => VoiceInv'
    <2> SUFFICES ASSUME VoiceInv, [Next]_vars PROVE VoiceInv'
      OBVIOUS
    <2>1. CASE UNCHANGED vars
      BY <2>1, SocketStep, Tables DEF vars, counts
    <2>2. ASSUME NEW c \in Conn, Open(c) \/ Loop(c) \/ Produce(c) PROVE VoiceInv'
      BY <2>2, OpenInv, LoopInv, SenderInv, InterruptInv, ListenInv, StartReplyInv, ActInv,
         ReplyOverInv, GiveUpInv DEF Loop, Produce
    <2>3. QED
      BY <2>1, <2>2, ElsewhereInv DEF Next
  <1>2. QED
    BY <1>1, InitInv, PTL DEF Spec

\* The assistant never claims a decision that was not taken (VoiceAgent awaits
\* the workflow before it replies, and another channel may decide first).
THEOREM VoiceTellsTheTruth == Spec => []SpokenDecisionHolds
  <1>1. VoiceInv => SpokenDecisionHolds
    BY DEF VoiceInv
  <1>2. QED
    BY <1>1, VoiceInvariant, PTL

\* The flags that all connections share mislead only as FlagsAccounted says.
THEOREM SharedFlagsAccounted == Spec => []FlagsAccounted
  <1>1. VoiceInv => FlagsAccounted
    BY DEF VoiceInv
  <1>2. QED
    BY <1>1, VoiceInvariant, PTL
=============================================================================
