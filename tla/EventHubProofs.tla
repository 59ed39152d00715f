--------------------------- MODULE EventHubProofs ----------------------------
(***************************************************************************)
(* Theorems about EventHub, for any number of publishers, connections and  *)
(* writes and any size of the buffers.                                     *)
(***************************************************************************)
EXTENDS EventHub, SequenceTheorems, TLAPS

Publishers == [pc : {"publish", "sending"}, kind : Kinds, left : SUBSET Streams, ver : Nat]
Handlers == [pc : {"subscribe", "read", "write", "select", "leave"},
             kind : Kinds, read : Nat, sent : Nat]

\* The fields of a goroutine and of a handler that are at work.
LEMMA Fields ==
    ASSUME TypeOK
    PROVE  /\ \A w \in Writers : writer[w] = Resting \/ writer[w] \in Publishers
           /\ \A s \in Streams : \/ stream[s] = NotMade \/ stream[s] = Over
                                 \/ stream[s] \in Handlers
BY DEF TypeOK, Publishers, Handlers

LEMMA AtWork ==
    ASSUME TypeOK
    PROVE  /\ \A w \in Writers : writer[w].pc \in {"publish", "sending"} => writer[w] \in Publishers
           /\ \A s \in Streams : stream[s].pc \notin {"new", "over"} => stream[s] \in Handlers
BY Fields DEF Resting, NotMade, Over

(* Type correctness.                                                       *)

LEMMA TypeInit == Init => TypeOK
<1> SUFFICES ASSUME Init PROVE TypeOK
  OBVIOUS
<1>1. chan \in [Streams -> Seq(Kinds)] /\ \A s \in Streams : Len(chan[s]) <= Cap
  BY HubAssumption DEF Init
<1>2. page \in [conn : Streams \cup {Offline}, polling : BOOLEAN, shown : Nat,
                poll : {"idle", "apply"}, read : Nat]
  BY DEF Init, Offline, Nothing
<1> QED  BY <1>1, <1>2 DEF TypeOK, Init, Nothing

LEMMA TypeStep == TypeOK /\ [Next]_vars => TypeOK'
<1> SUFFICES ASSUME TypeOK, [Next]_vars PROVE TypeOK'
  OBVIOUS
<1> USE DEF TypeOK
<1>1. ASSUME NEW w \in Writers, NEW k \in Kinds \cup {"silent"}, Write(w, k)
      PROVE  TypeOK'
  <2>1. writer' \in [Writers -> {Resting} \cup Publishers]
    BY <1>1 DEF Write, Publishers, Kinds
  <2> QED  BY <1>1, <2>1 DEF Write, Publishers
<1>2. ASSUME NEW w \in Writers, PublishStep(w)
      PROVE  TypeOK'
  <2>1. CASE PublishBegins(w)
    <3>1. writer[w] \in Publishers
      BY <2>1, AtWork DEF PublishBegins
    <3>2. writer' \in [Writers -> {Resting} \cup Publishers]
      BY <2>1, <3>1 DEF PublishBegins, Publishers
    <3> QED  BY <2>1, <3>2 DEF PublishBegins, Publishers
  <2>2. ASSUME NEW s \in Streams, Send(w, s)
        PROVE  TypeOK'
    <3>1. writer[w] \in Publishers
      BY <2>2, AtWork DEF Send, Sending
    <3>2. writer' \in [Writers -> {Resting} \cup Publishers]
      BY <2>2, <3>1 DEF Send, Publishers
    <3>3. Append(chan[s], writer[w].kind) \in Seq(Kinds)
          /\ Len(Append(chan[s], writer[w].kind)) = Len(chan[s]) + 1
      BY <3>1, AppendProperties DEF Publishers
    <3>4. Len(chan[s]) < Cap => Len(chan[s]) + 1 <= Cap
      BY HubAssumption, LenProperties
    <3>5. chan' \in [Streams -> Seq(Kinds)] /\ \A r \in Streams : Len(chan'[r]) <= Cap
      BY <2>2, <3>3, <3>4 DEF Send
    <3> QED  BY <2>2, <3>2, <3>5 DEF Send, Publishers
  <2>3. CASE PublishEnds(w)
    <3>1. writer[w] \in Publishers
      BY <2>3, AtWork DEF PublishEnds, Sending
    <3> QED  BY <2>3, <3>1 DEF PublishEnds, Publishers
  <2> QED  BY <1>2, <2>1, <2>2, <2>3 DEF PublishStep
<1>3. ASSUME NEW s \in Streams, StreamStep(s)
      PROVE  TypeOK'
  <2>1. CASE Connect(s)
    BY <2>1 DEF Connect, Kinds, Nothing
  <2>2. CASE Subscribe(s)
    <3>1. stream[s] \in Handlers
      BY <2>2, AtWork DEF Subscribe, At
    <3> QED  BY <2>2, <3>1 DEF Subscribe, GoTo, Handlers
  <2>3. CASE ReadTables(s)
    <3>1. stream[s] \in Handlers
      BY <2>3, AtWork DEF ReadTables, At
    <3> QED  BY <2>3, <3>1 DEF ReadTables, Handlers
  <2>4. CASE WriteSSE(s)
    <3>1. stream[s] \in Handlers
      BY <2>4, AtWork DEF WriteSSE, At
    <3> QED  BY <2>4, <3>1 DEF WriteSSE, Handlers, Nothing
  <2>5. CASE Unsubscribe(s)
    <3>1. <<>> \in Seq(Kinds) /\ Len(<<>>) <= Cap
      BY HubAssumption
    <3> QED  BY <2>5, <3>1 DEF Unsubscribe
  <2> QED  BY <1>3, <2>1, <2>2, <2>3, <2>4, <2>5 DEF StreamStep
<1>4. ASSUME NEW s \in Streams, TakeEvent(s)
      PROVE  TypeOK'
  <2>1. stream[s] \in Handlers
    BY <1>4, AtWork DEF TakeEvent, At
  <2>2. chan[s] \in Seq(Kinds) /\ chan[s] # <<>>
    BY <1>4 DEF TakeEvent
  <2>3. Head(chan[s]) \in Kinds /\ Tail(chan[s]) \in Seq(Kinds)
        /\ Len(Tail(chan[s])) = Len(chan[s]) - 1 /\ Len(chan[s]) \in Nat
    BY <2>2, HeadTailProperties, LenProperties
  <2>4. [stream[s] EXCEPT !.pc = "read", !.kind = Head(chan[s])] \in Handlers
    BY <2>1, <2>3 DEF Handlers
  <2>5. stream' \in [Streams -> {NotMade, Over} \cup Handlers]
    BY <1>4, <2>4 DEF TakeEvent, Handlers
  <2>6. Len(chan[s]) <= Cap /\ Len(Tail(chan[s])) <= Cap
    BY <2>3, HubAssumption
  <2>7. chan' \in [Streams -> Seq(Kinds)] /\ \A r \in Streams : Len(chan'[r]) <= Cap
    BY <1>4, <2>3, <2>6 DEF TakeEvent
  <2> QED  BY <1>4, <2>5, <2>7 DEF TakeEvent, Handlers
<1>5. ASSUME NEW s \in Streams, Tick(s) \/ ContextDone(s)
      PROVE  TypeOK'
  <2>1. stream[s] \in Handlers
    BY <1>5, AtWork DEF Tick, ContextDone, At
  <2>2. [stream[s] EXCEPT !.pc = "read", !.kind = "heard"] \in Handlers
        /\ [stream[s] EXCEPT !.pc = "leave"] \in Handlers
    BY <2>1 DEF Handlers, Kinds
  <2>3. stream' \in [Streams -> {NotMade, Over} \cup Handlers]
    BY <1>5, <2>2 DEF Tick, ContextDone, GoTo, Handlers
  <2> QED  BY <1>5, <2>3 DEF Tick, ContextDone, Handlers
<1>6. CASE Disconnect
  BY <1>6 DEF Disconnect
<1>8. CASE Poll
  <2>1. page' \in [conn : Streams \cup {Offline}, polling : BOOLEAN, shown : Nat,
                   poll : {"idle", "apply"}, read : Nat]
    BY <1>8 DEF Poll, Nothing
  <2> QED  BY <1>8, <2>1 DEF Poll
<1>7. CASE UNCHANGED vars
  BY <1>7 DEF vars
<1> QED  BY <1>1, <1>2, <1>3, <1>4, <1>5, <1>6, <1>7, <1>8 DEF Next

\* Rows have their types, channels their bound.
THEOREM HubTypeCorrect == Spec => []TypeOK
<1> QED  BY TypeInit, TypeStep, PTL DEF Spec

-----------------------------------------------------------------------------
(* The hub under its lock.                                                 *)

\* A subscriber is a handler between Subscribe and Unsubscribe, its channel is
\* open, and whoever publishes has nobody but subscribers before it.
OpenSubscribers ==
    \A s \in subs : s \notin closed /\ stream[s].pc \in {"read", "write", "select", "leave"}
ClosedOver == \A s \in closed : At(s, "over")
SendsToSubscribers == \A w \in Writers : Sending(w) => writer[w].left \subseteq subs
HubInv == TypeOK /\ OpenSubscribers /\ ClosedOver /\ SendsToSubscribers

\* A step that leaves the hub alone and moves one handler on, or none.
LEMMA HubUntouched ==
    ASSUME HubInv, UNCHANGED <<subs, closed, writer>>,
           NEW s \in Streams, ~At(s, "over"),
           \A r \in Streams : r # s => stream'[r] = stream[r],
           s \in subs => stream'[s].pc \in {"read", "write", "select", "leave"}
    PROVE  OpenSubscribers' /\ ClosedOver' /\ SendsToSubscribers'
<1>1. s \notin closed
  BY DEF HubInv, ClosedOver
<1> QED  BY <1>1 DEF HubInv, TypeOK, OpenSubscribers, ClosedOver, SendsToSubscribers, At, Sending

LEMMA HubStep == HubInv /\ [Next]_vars => HubInv'
<1> SUFFICES ASSUME HubInv, [Next]_vars
             PROVE  OpenSubscribers' /\ ClosedOver' /\ SendsToSubscribers'
  BY TypeStep DEF HubInv
<1>0. TypeOK /\ OpenSubscribers /\ ClosedOver /\ SendsToSubscribers
  BY DEF HubInv
<1>1. ASSUME NEW w \in Writers, NEW k \in Kinds \cup {"silent"}, Write(w, k)
      PROVE  OpenSubscribers' /\ ClosedOver' /\ SendsToSubscribers'
  <2>1. SendsToSubscribers'
    BY <1>0, <1>1 DEF TypeOK, Write, SendsToSubscribers, Sending, Resting
  <2> QED  BY <1>0, <1>1, <2>1 DEF Write, OpenSubscribers, ClosedOver, At
<1>2. ASSUME NEW w \in Writers, PublishStep(w)
      PROVE  OpenSubscribers' /\ ClosedOver' /\ SendsToSubscribers'
  <2>1. UNCHANGED <<subs, closed, stream>>
    BY <1>2 DEF PublishStep, PublishBegins, Send, PublishEnds
  <2>2. SendsToSubscribers'
    <3>1. CASE PublishBegins(w)
      BY <1>0, <3>1 DEF TypeOK, PublishBegins, SendsToSubscribers, Sending
    <3>2. ASSUME NEW s \in Streams, Send(w, s)
          PROVE  SendsToSubscribers'
      BY <1>0, <3>2 DEF TypeOK, Send, SendsToSubscribers, Sending
    <3>3. CASE PublishEnds(w)
      BY <1>0, <3>3 DEF TypeOK, PublishEnds, SendsToSubscribers, Sending, Resting
    <3> QED  BY <1>2, <3>1, <3>2, <3>3 DEF PublishStep
  <2> QED  BY <1>0, <2>1, <2>2 DEF OpenSubscribers, ClosedOver, At
<1>3. ASSUME NEW s \in Streams, Subscribe(s)
      PROVE  OpenSubscribers' /\ ClosedOver' /\ SendsToSubscribers'
  <2>1. stream[s] \in Handlers
    BY <1>0, <1>3, AtWork DEF Subscribe, At
  <2>2. stream' = [stream EXCEPT ![s] = [stream[s] EXCEPT !.pc = "read"]]
    BY <1>0, <1>3, <2>1 DEF Subscribe, GoTo, TypeOK, Handlers
  <2>3. stream'[s].pc = "read" /\ s \notin closed
    BY <1>0, <1>3, <2>1, <2>2 DEF Subscribe, At, ClosedOver, TypeOK, Handlers
  <2> QED  BY <1>0, <1>3, <2>2, <2>3 DEF Subscribe, ReadLocked, Sending, TypeOK,
             OpenSubscribers, ClosedOver, SendsToSubscribers, At
<1>4. ASSUME NEW s \in Streams, Unsubscribe(s)
      PROVE  OpenSubscribers' /\ ClosedOver' /\ SendsToSubscribers'
  BY <1>0, <1>4 DEF Unsubscribe, ReadLocked, Sending, TypeOK, Over,
       OpenSubscribers, ClosedOver, SendsToSubscribers, At
<1>5. ASSUME NEW s \in Streams, Connect(s)
      PROVE  OpenSubscribers' /\ ClosedOver' /\ SendsToSubscribers'
  <2>1. s \notin subs
    BY <1>0, <1>5 DEF Connect, At, OpenSubscribers
  <2> QED  BY <1>0, <1>5, <2>1, HubUntouched DEF Connect, At, TypeOK, HubInv
<1>6. ASSUME NEW s \in Streams, ReadTables(s) \/ WriteSSE(s) \/ TakeEvent(s) \/ Tick(s) \/ ContextDone(s)
      PROVE  OpenSubscribers' /\ ClosedOver' /\ SendsToSubscribers'
  <2>1. stream[s] \in Handlers /\ ~At(s, "over")
    BY <1>0, <1>6, AtWork DEF ReadTables, WriteSSE, TakeEvent, Tick, ContextDone, At
  <2>2. stream'[s].pc \in {"read", "write", "select", "leave"}
    BY <1>0, <1>6, <2>1 DEF ReadTables, WriteSSE, TakeEvent, Tick, ContextDone, GoTo, TypeOK, Handlers
  <2>3. \A r \in Streams : r # s => stream'[r] = stream[r]
    BY <1>0, <1>6 DEF ReadTables, WriteSSE, TakeEvent, Tick, ContextDone, GoTo, TypeOK
  <2>4. UNCHANGED <<subs, closed, writer>>
    BY <1>6 DEF ReadTables, WriteSSE, TakeEvent, Tick, ContextDone
  <2> QED  BY <2>1, <2>2, <2>3, <2>4, HubUntouched
<1>7. CASE Disconnect \/ Poll \/ UNCHANGED vars
  <2>1. UNCHANGED <<subs, closed, writer, stream>>
    BY <1>7 DEF Disconnect, Poll, vars
  <2> QED  BY <1>0, <2>1 DEF OpenSubscribers, ClosedOver, SendsToSubscribers, At, Sending
<1> QED  BY <1>1, <1>2, <1>3, <1>4, <1>5, <1>6, <1>7 DEF Next, StreamStep

LEMMA HubInit == Init => HubInv
<1> SUFFICES ASSUME Init PROVE OpenSubscribers /\ ClosedOver /\ SendsToSubscribers
  BY TypeInit DEF HubInv
<1> QED  BY DEF Init, OpenSubscribers, ClosedOver, SendsToSubscribers, Sending, Resting

\* Publish never sends to a channel that Unsubscribe has closed, whatever
\* connections come and go: the daemon does not panic.
THEOREM HubNeverSendsOnClosed == Spec => []NeverSendsOnClosed
<1>1. HubInv => NeverSendsOnClosed
  BY DEF HubInv, OpenSubscribers, SendsToSubscribers, NeverSendsOnClosed
<1> QED  BY HubInit, HubStep, <1>1, PTL DEF Spec

-----------------------------------------------------------------------------
(* What is dropped is made up for.                                         *)

\* Version v will be, or has been, in a snapshot of the handler: it has still
\* to read, it has an event waiting, or what it read is new enough.
Covers(s, v) ==
    \/ chan[s] # <<>> \/ stream[s].pc \in {"read", "leave"}
    \/ stream[s].pc = "write" /\ stream[s].read >= v
    \/ stream[s].pc = "select" /\ stream[s].sent >= v

Versions == announced <= db /\ \A w \in Writers : writer[w] # Resting => writer[w].ver <= db
AnnouncedCovered == \A s \in subs : Covers(s, announced)
SentCovered ==
    \A w \in Writers : Sending(w) =>
        \A s \in subs \ writer[w].left : Covers(s, writer[w].ver)
MissInv == HubInv /\ Versions /\ AnnouncedCovered /\ SentCovered

\* A step of one handler that covers all there is leaves both parts intact.
LEMMA HandlerCovers ==
    ASSUME MissInv, TypeOK', UNCHANGED <<db, announced, writer>>,
           NEW s \in Streams, subs' \subseteq subs \cup {s},
           \A r \in Streams : r # s => stream'[r] = stream[r] /\ chan'[r] = chan[r],
           s \in subs' => \/ Covers(s, db)'
                          \/ s \in subs /\ \A v \in Nat : v <= db /\ Covers(s, v) => Covers(s, v)'
    PROVE  Versions' /\ AnnouncedCovered' /\ SentCovered'
<1>1. Versions'
  BY DEF MissInv, Versions
<1>2. \A w \in Writers : writer[w] # Resting => writer[w].ver \in Nat /\ writer[w].ver <= db
  BY Fields DEF MissInv, HubInv, Versions, Publishers
<1>3. announced \in Nat /\ db \in Nat /\ announced <= db
  BY DEF MissInv, HubInv, TypeOK, Versions
<1>4. subs \subseteq Streams /\ subs' \subseteq Streams
  BY DEF MissInv, HubInv, TypeOK
<1>5. \A r \in subs', v \in Nat : r # s /\ Covers(r, v) => Covers(r, v)'
  BY <1>4 DEF Covers
<1>6. ASSUME NEW v \in Nat, v <= db, Covers(s, db)'
      PROVE  Covers(s, v)'
  <2>1. stream'[s].pc \in {"write", "select"} => stream'[s] \in Handlers
    BY DEF TypeOK, Handlers, NotMade, Over
  <2> QED  BY <1>3, <1>6, <2>1 DEF Covers, Handlers
<1>7. AnnouncedCovered'
  BY <1>3, <1>4, <1>5, <1>6 DEF MissInv, AnnouncedCovered
<1>8. SentCovered'
  <2> SUFFICES ASSUME NEW w \in Writers, Sending(w)', NEW r \in subs' \ writer'[w].left
               PROVE  Covers(r, writer[w].ver)'
    BY DEF SentCovered
  <2>1. Sending(w) /\ writer[w].ver \in Nat /\ writer[w].ver <= db
    BY <1>2 DEF Sending, Resting
  <2> QED  BY <1>4, <1>5, <1>6, <2>1 DEF MissInv, SentCovered
<1> QED  BY <1>1, <1>7, <1>8

LEMMA MissStep == MissInv /\ [Next]_vars => MissInv'
<1> SUFFICES ASSUME MissInv, [Next]_vars
             PROVE  Versions' /\ AnnouncedCovered' /\ SentCovered'
  BY HubStep DEF MissInv
<1>0. /\ HubInv /\ TypeOK /\ TypeOK' /\ OpenSubscribers /\ SendsToSubscribers
      /\ Versions /\ AnnouncedCovered /\ SentCovered
  BY TypeStep DEF MissInv, HubInv
<1>t. db \in Nat /\ announced \in Nat /\ subs \subseteq Streams
  BY <1>0 DEF TypeOK
<1>1. ASSUME NEW w \in Writers, NEW k \in Kinds \cup {"silent"}, Write(w, k)
      PROVE  Versions' /\ AnnouncedCovered' /\ SentCovered'
  <2>1. Versions'
    BY <1>0, <1>1, <1>t, Fields DEF Write, Versions, TypeOK, Publishers
  <2>2. SentCovered'
    BY <1>0, <1>1 DEF Write, SentCovered, Sending, TypeOK, Covers, Resting
  <2> QED  BY <1>0, <1>1, <2>1, <2>2 DEF Write, AnnouncedCovered, Covers
<1>2. ASSUME NEW w \in Writers, PublishBegins(w)
      PROVE  Versions' /\ AnnouncedCovered' /\ SentCovered'
  <2>1. writer[w] \in Publishers
    BY <1>0, <1>2, AtWork DEF PublishBegins
  <2>2. /\ writer'[w].ver = writer[w].ver /\ writer'[w].left = subs /\ writer[w] # Resting
        /\ \A v \in Writers : v # w => writer'[v] = writer[v]
    BY <1>0, <1>2, <2>1 DEF PublishBegins, TypeOK, Publishers, Resting
  <2>3. Versions'
    BY <1>0, <1>2, <2>2 DEF PublishBegins, Versions
  <2>4. SentCovered'
    BY <1>0, <1>2, <2>2 DEF PublishBegins, SentCovered, Sending, Covers
  <2> QED  BY <1>0, <1>2, <2>3, <2>4 DEF PublishBegins, AnnouncedCovered, Covers
<1>3. ASSUME NEW w \in Writers, NEW s \in Streams, Send(w, s)
      PROVE  Versions' /\ AnnouncedCovered' /\ SentCovered'
  <2>1. writer[w] \in Publishers
    BY <1>0, <1>3, AtWork DEF Send, Sending
  <2>2. /\ writer'[w].ver = writer[w].ver /\ writer'[w].left = writer[w].left \ {s}
        /\ writer[w] # Resting /\ Sending(w)
        /\ \A v \in Writers : v # w => writer'[v] = writer[v]
    BY <1>0, <1>3, <2>1 DEF Send, TypeOK, Publishers, Resting, Sending
  <2>3. chan[s] \in Seq(Kinds) /\ writer[w].kind \in Kinds
    BY <1>0, <2>1 DEF TypeOK, Publishers
  <2>4. chan'[s] # <<>>
    <3>1. CASE Len(chan[s]) < Cap
      <4>1. Append(chan[s], writer[w].kind) # <<>>
        BY <2>3, AppendProperties
      <4> QED  BY <1>0, <1>3, <3>1, <4>1 DEF Send, TypeOK
    <3>2. CASE ~(Len(chan[s]) < Cap)
      <4>1. Len(chan[s]) # 0
        BY <2>3, <3>2, HubAssumption, LenProperties
      <4>2. chan[s] # <<>>
        BY <2>3, <4>1, EmptySeq
      <4> QED  BY <1>3, <3>2, <4>2 DEF Send
    <3> QED  BY <3>1, <3>2
  <2>5. \A r \in Streams : r # s => chan'[r] = chan[r]
    BY <1>0, <1>3 DEF Send, TypeOK
  <2>6. \A r \in subs, v \in Nat : (Covers(r, v) => Covers(r, v)') /\ Covers(s, v)'
    BY <1>3, <1>t, <2>4, <2>5 DEF Send, Covers
  <2>7. Versions'
    BY <1>0, <1>3, <2>2 DEF Send, Versions
  <2>8. AnnouncedCovered'
    BY <1>0, <1>3, <1>t, <2>6 DEF Send, AnnouncedCovered
  <2>9. SentCovered'
    <3> SUFFICES ASSUME NEW v \in Writers, Sending(v)', NEW r \in subs' \ writer'[v].left
                 PROVE  Covers(r, writer[v].ver)'
      BY DEF SentCovered
    <3>1. writer'[v].ver = writer[v].ver /\ Sending(v)
      BY <2>2 DEF Sending
    <3>2. writer[v].ver \in Nat /\ r \in subs
      BY <1>0, <1>3, <3>1, AtWork DEF Send, Sending, Publishers
    <3>3. r = s \/ r \notin writer[v].left
      BY <2>2
    <3>4. Covers(r, writer[v].ver) \/ r = s
      BY <1>0, <3>1, <3>2, <3>3 DEF SentCovered
    <3> QED  BY <1>3, <1>t, <2>4, <2>5, <3>1, <3>2, <3>4 DEF Send, Covers
  <2> QED  BY <2>7, <2>8, <2>9
<1>4. ASSUME NEW w \in Writers, PublishEnds(w)
      PROVE  Versions' /\ AnnouncedCovered' /\ SentCovered'
  <2>1. writer[w] \in Publishers /\ writer[w] # Resting
    BY <1>0, <1>4, AtWork DEF PublishEnds, Sending, Resting
  <2>2. writer[w].ver \in Nat /\ writer[w].ver <= db
    BY <1>0, <2>1 DEF Publishers, Versions
  <2>3. \A s \in subs : Covers(s, announced) /\ Covers(s, writer[w].ver)
    BY <1>0, <1>4 DEF PublishEnds, AnnouncedCovered, SentCovered
  <2>4. \A v \in Writers : writer'[v] = Resting \/ (v # w /\ writer'[v] = writer[v])
    BY <1>0, <1>4 DEF PublishEnds, TypeOK
  <2>5. Versions'
    BY <1>0, <1>4, <2>2, <2>4 DEF PublishEnds, Versions
  <2>6. AnnouncedCovered'
    BY <1>4, <2>3 DEF PublishEnds, AnnouncedCovered, Covers
  <2>7. SentCovered'
    BY <1>0, <1>4, <2>4 DEF PublishEnds, SentCovered, Sending, Resting, Covers
  <2> QED  BY <2>5, <2>6, <2>7
<1>5. ASSUME NEW s \in Streams, Connect(s) \/ Subscribe(s) \/ ReadTables(s) \/ Unsubscribe(s)
                                \/ TakeEvent(s) \/ Tick(s) \/ ContextDone(s)
      PROVE  Versions' /\ AnnouncedCovered' /\ SentCovered'
  <2>1. /\ UNCHANGED <<db, announced, writer>> /\ subs' \subseteq subs \cup {s}
        /\ \A r \in Streams : r # s => stream'[r] = stream[r] /\ chan'[r] = chan[r]
    BY <1>0, <1>5 DEF Connect, Subscribe, ReadTables, Unsubscribe, TakeEvent, Tick, ContextDone,
         GoTo, TypeOK
  <2>2. stream[s].pc \notin {"new", "over"} => stream[s] \in Handlers
    BY <1>0, AtWork
  <2>3. s \in subs' => Covers(s, db)'
    BY <1>0, <1>5, <1>t, <2>2 DEF Connect, Subscribe, ReadTables, Unsubscribe, TakeEvent, Tick,
         ContextDone, GoTo, At, TypeOK, Covers, OpenSubscribers, Handlers
  <2> QED  BY <1>0, <2>1, <2>3, HandlerCovers DEF MissInv
<1>6. ASSUME NEW s \in Streams, WriteSSE(s)
      PROVE  Versions' /\ AnnouncedCovered' /\ SentCovered'
  <2>1. /\ UNCHANGED <<db, announced, writer>> /\ subs' \subseteq subs \cup {s} /\ subs' = subs
        /\ \A r \in Streams : r # s => stream'[r] = stream[r] /\ chan'[r] = chan[r]
    BY <1>0, <1>6 DEF WriteSSE, TypeOK
  <2>2. stream[s] \in Handlers
    BY <1>0, <1>6, AtWork DEF WriteSSE, At
  <2>3. stream'[s].pc = "select" /\ stream'[s].sent = stream[s].read
    BY <1>0, <1>6, <2>2 DEF WriteSSE, TypeOK, Handlers
  <2>4. \A v \in Nat : Covers(s, v) => Covers(s, v)'
    BY <1>6, <2>3 DEF WriteSSE, At, Covers
  <2> QED  BY <1>0, <2>1, <2>4, HandlerCovers DEF MissInv
<1>7. CASE Disconnect \/ Poll \/ UNCHANGED vars
  BY <1>0, <1>7 DEF Disconnect, Poll, vars, Versions, AnnouncedCovered, SentCovered, Covers, Sending
<1> QED  BY <1>1, <1>2, <1>3, <1>4, <1>5, <1>6, <1>7 DEF Next, PublishStep, StreamStep

LEMMA MissInit == Init => MissInv
<1> SUFFICES ASSUME Init PROVE Versions /\ AnnouncedCovered /\ SentCovered
  BY HubInit DEF MissInv
<1> QED  BY DEF Init, Nothing, Versions, AnnouncedCovered, SentCovered, Sending, Resting

\* However small the buffers and however many events were dropped, a handler
\* at rest has sent a snapshot as new as all that was announced.
THEOREM HubNothingMissed == Spec => []NothingMissed
<1>1. MissInv => NothingMissed
  BY DEF MissInv, AnnouncedCovered, Covers, NothingMissed, At
<1> QED  BY MissInit, MissStep, <1>1, PTL DEF Spec
=============================================================================
