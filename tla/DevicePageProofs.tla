--------------------------- MODULE DevicePageProofs --------------------------
(***************************************************************************)
(* Theorems about DevicePage, for any number of devices, picture sizes,    *)
(* requests, inputs and streams.                                           *)
(***************************************************************************)
EXTENDS DevicePage, FiniteSetTheorems, TLAPS

(* Type correctness.                                                       *)

LEMMA IdleIsNotWorking == Idle \notin Working
BY DEF Idle, Working, Pcs

\* A request that is somewhere has its fields.
LEMMA AtWork ==
    ASSUME TypeOK, NEW r \in Requests, NEW pc \in Pcs, At(r, pc)
    PROVE  req[r] \in Working /\ req[r] # Idle
BY IdleIsNotWorking DEF TypeOK, At, Idle, Pcs

\* One request goes on to another place, or its answer is out.
LEMMA GoesOn ==
    ASSUME TypeOK, NEW r \in Requests, req[r] \in Working, NEW pc \in Pcs,
           GoTo(r, pc) \/ Answer(r)
    PROVE  req' \in [Requests -> {Idle} \cup Working]
BY DEF TypeOK, GoTo, Answer, Working

LEMMA TypeInit == Init => TypeOK
<1> SUFFICES ASSUME Init PROVE TypeOK
  OBVIOUS
<1>1. Cardinality(Requests) \in Nat
  BY PageAssumption, FS_CardinalityType
<1> QED  BY <1>1, PageAssumption DEF Init, TypeOK, Pictures

\* The requests that are counted in s.streams.
Counted == {r \in Requests : req[r].pc \in {"grab", "frame", "refuse", "leave"}}
Counts == streams = Cardinality(Counted)

LEMMA TypeStep == TypeOK /\ [Next]_vars /\ Counts' => TypeOK'
<1> SUFFICES ASSUME TypeOK, [Next]_vars, Counts'
             PROVE  TypeOK'
  OBVIOUS
<1>0. streams' \in 0 .. Cardinality(Requests)
  <2> SUFFICES Counts' => streams' \in 0 .. Cardinality(Requests)
    OBVIOUS
  <2>1. Counted' \subseteq Requests
    BY DEF Counted
  <2>2. IsFiniteSet(Counted') /\ Cardinality(Counted') <= Cardinality(Requests)
    BY <2>1, PageAssumption, FS_Subset
  <2>3. Cardinality(Counted') \in Nat /\ Cardinality(Requests) \in Nat
    BY <2>2, PageAssumption, FS_CardinalityType
  <2> QED  BY <2>2, <2>3 DEF Counts
<1> USE DEF wall, ui, adb
<1>1. ASSUME NEW r \in Requests, NEW kind \in Kinds, NEW d \in Devices, NEW z \in Sizes,
             Arrive(r, kind, d, z)
      PROVE  TypeOK'
  <2>1. req' \in [Requests -> {Idle} \cup Working]
    BY <1>1 DEF TypeOK, Arrive, Working, Kinds, Pcs
  <2>2. load' \in [kinds : Mixes, inputs : 0 .. MaxInputs, requests : 0 .. MaxRequests,
                   upsets : 0 .. MaxUpsets]
    <3>1. load.inputs \in 0 .. MaxInputs /\ load.requests \in 0 .. MaxRequests
      BY DEF TypeOK
    <3>2. CASE r \in Agents
      BY <1>1, <3>2 DEF TypeOK, Arrive
    <3>3. CASE r \notin Agents
      <4>1. load.requests + 1 \in 0 .. MaxRequests
        BY <1>1, <3>1, <3>3, PageAssumption DEF Arrive
      <4>2. kind = "input" => load.inputs + 1 \in 0 .. MaxInputs
        BY <1>1, <3>1, <3>3, PageAssumption DEF Arrive
      <4> QED  BY <1>1, <3>1, <3>3, <4>1, <4>2 DEF TypeOK, Arrive
    <3> QED  BY <3>2, <3>3
  <2>3. dumped' \subseteq Agents
    BY <1>1 DEF TypeOK, Arrive
  <2> QED  BY <1>0, <1>1, <2>1, <2>2, <2>3 DEF TypeOK, Arrive
<1>2. ASSUME NEW r \in Requests, FindEntry(r)
      PROVE  TypeOK'
  <2>1. req[r] \in Working
    BY <1>2, AtWork DEF FindEntry, Pcs, At
  <2>2. req' \in [Requests -> {Idle} \cup Working]
    BY <1>2, <2>1, GoesOn DEF FindEntry, Pcs
  <2> QED  BY <1>0, <1>2, <2>1, <2>2 DEF TypeOK, FindEntry, Working
<1>3. ASSUME NEW r \in Requests, AnswerShot(r)
      PROVE  TypeOK'
  <2>1. req[r] \in Working
    BY <1>3, AtWork DEF AnswerShot, Pcs, At
  <2>2. req' \in [Requests -> {Idle} \cup Working]
    BY <1>3, <2>1, GoesOn DEF AnswerShot, Pcs
  <2> QED  BY <1>0, <1>3, <2>1, <2>2 DEF TypeOK, AnswerShot, Working
<1>4. ASSUME NEW r \in Requests, InjectScrcpy(r)
      PROVE  TypeOK'
  <2>1. req[r] \in Working
    BY <1>4, AtWork DEF InjectScrcpy, Pcs, At
  <2>2. req' \in [Requests -> {Idle} \cup Working]
    BY <1>4, <2>1, GoesOn DEF InjectScrcpy, Pcs, Pictures
  <2> QED  BY <1>0, <1>4, <2>1, <2>2 DEF TypeOK, InjectScrcpy, Working, Pictures
<1>5. ASSUME NEW r \in Requests, AnswerInput(r)
      PROVE  TypeOK'
  <2>1. req[r] \in Working
    BY <1>5, AtWork DEF AnswerInput, Pcs, At
  <2>2. req' \in [Requests -> {Idle} \cup Working]
    BY <1>5, <2>1, GoesOn DEF AnswerInput, Pcs
  <2> QED  BY <1>0, <1>5, <2>1, <2>2 DEF TypeOK, AnswerInput, Working
<1>6. ASSUME NEW r \in Requests, EnterStream(r)
      PROVE  TypeOK'
  <2>1. req[r] \in Working
    BY <1>6, AtWork DEF EnterStream, Pcs, At
  <2>2. req' \in [Requests -> {Idle} \cup Working]
    BY <1>6, <2>1, GoesOn DEF EnterStream, Pcs
  <2> QED  BY <1>0, <1>6, <2>1, <2>2 DEF TypeOK, EnterStream, Working
<1>7. ASSUME NEW r \in Requests, Frame(r)
      PROVE  TypeOK'
  <2>1. req[r] \in Working
    BY <1>7, AtWork DEF Frame, Pcs, At
  <2>2. req' \in [Requests -> {Idle} \cup Working]
    BY <1>7, <2>1, GoesOn DEF Frame, Pcs
  <2> QED  BY <1>0, <1>7, <2>1, <2>2 DEF TypeOK, Frame, Working
<1>8. ASSUME NEW r \in Requests, StreamOver(r)
      PROVE  TypeOK'
  <2>1. req[r] \in Working
    BY <1>8, AtWork DEF StreamOver, Pcs, At
  <2>2. req' \in [Requests -> {Idle} \cup Working]
    BY <1>8, <2>1, GoesOn DEF StreamOver, Pcs
  <2> QED  BY <1>0, <1>8, <2>1, <2>2 DEF TypeOK, StreamOver, Working
<1>9. ASSUME NEW r \in Requests, GetSession(r)
      PROVE  TypeOK'
  <2>1. req[r] \in Working
    BY <1>9, AtWork DEF GetSession, Pcs, At
  <2>2. req' \in [Requests -> {Idle} \cup Working]
    BY <1>9, <2>1, GoesOn DEF GetSession, Pcs
  <2> QED  BY <1>0, <1>9, <2>1, <2>2 DEF TypeOK, GetSession, Working
<1>10. ASSUME NEW r \in Requests, Forward(r)
      PROVE  TypeOK'
  <2>1. req[r] \in Working
    BY <1>10, AtWork DEF Forward, Pcs, At
  <2>2. req' \in [Requests -> {Idle} \cup Working]
    BY <1>10, <2>1, GoesOn DEF Forward, Pcs, GiveUp
  <2> QED  BY <1>0, <1>10, <2>1, <2>2 DEF TypeOK, Forward, Working, GiveUp
<1>11. ASSUME NEW r \in Requests, Ping(r)
      PROVE  TypeOK'
  <2>1. req[r] \in Working
    BY <1>11, AtWork DEF Ping, Pcs, At
  <2>2. req' \in [Requests -> {Idle} \cup Working]
    BY <1>11, <2>1, GoesOn DEF Ping, Pcs, Pool
  <2> QED  BY <1>0, <1>11, <2>1, <2>2 DEF TypeOK, Ping, Working, Pool
<1>12. ASSUME NEW r \in Requests, Launch(r)
      PROVE  TypeOK'
  <2>1. req[r] \in Working
    BY <1>12, AtWork DEF Launch, Pcs, At
  <2>2. req' \in [Requests -> {Idle} \cup Working]
    BY <1>12, <2>1, GoesOn DEF Launch, Pcs, GiveUp
  <2> QED  BY <1>0, <1>12, <2>1, <2>2 DEF TypeOK, Launch, Working, GiveUp
<1>13. ASSUME NEW r \in Requests, WaitReady(r)
      PROVE  TypeOK'
  <2>1. req[r] \in Working
    BY <1>13, AtWork DEF WaitReady, Pcs, At
  <2>2. req' \in [Requests -> {Idle} \cup Working]
    BY <1>13, <2>1, GoesOn DEF WaitReady, Pcs, GiveUp, Pool
  <2> QED  BY <1>0, <1>13, <2>1, <2>2 DEF TypeOK, WaitReady, Working, GiveUp, Pool
<1>14. ASSUME NEW r \in Requests, Dump(r)
      PROVE  TypeOK'
  <2>1. req[r] \in Working
    BY <1>14, AtWork DEF Dump, Pcs, At
  <2>2. req' \in [Requests -> {Idle} \cup Working]
    BY <1>14, <2>1, GoesOn DEF Dump, Pcs
  <2> QED  BY <1>0, <1>14, <2>1, <2>2 DEF TypeOK, Dump, Working
<1>15. ASSUME NEW r \in Requests, Drop(r)
      PROVE  TypeOK'
  <2>1. req[r] \in Working
    BY <1>15, AtWork DEF Drop, Pcs, At
  <2>2. req' \in [Requests -> {Idle} \cup Working]
    BY <1>15, <2>1, GoesOn DEF Drop, Pcs
  <2> QED  BY <1>0, <1>15, <2>1, <2>2 DEF TypeOK, Drop, Working
<1>16. ASSUME NEW r \in Requests, Close(r)
      PROVE  TypeOK'
  <2>1. req[r] \in Working
    BY <1>16, AtWork DEF Close, Pcs, At
  <2>2. req' \in [Requests -> {Idle} \cup Working]
    BY <1>16, <2>1, GoesOn DEF Close, Pcs
  <2> QED  BY <1>0, <1>16, <2>1, <2>2 DEF TypeOK, Close, Working
<1>17. ASSUME NEW r \in Requests, Store(r)
      PROVE  TypeOK'
  <2>1. req[r] \in Working
    BY <1>17, AtWork DEF Store, Pcs, At
  <2>2. req' \in [Requests -> {Idle} \cup Working]
    BY <1>17, <2>1, GoesOn DEF Store, Pcs
  <2> QED  BY <1>0, <1>17, <2>1, <2>2 DEF TypeOK, Store, Working
<1>18. ASSUME NEW r \in Requests, LeaveStream(r)
      PROVE  TypeOK'
  <2>1. req[r] \in Working
    BY <1>18, AtWork DEF LeaveStream, Pcs, At
  <2>2. req' \in [Requests -> {Idle} \cup Working]
    BY <1>18, <2>1, GoesOn DEF LeaveStream, Pcs
  <2> QED  BY <1>0, <1>18, <2>1, <2>2 DEF TypeOK, LeaveStream, Working
<1>19. ASSUME NEW r \in Requests, LockEntry(r)
      PROVE  TypeOK'
  <2>1. req[r] \in Working
    BY <1>19, AtWork DEF LockEntry, Pcs, At
  <2>2. EntryOf(r) \in Entries
    BY <2>1 DEF EntryOf, Entries, Working
  <2>3. req' \in [Requests -> {Idle} \cup Working]
    BY <1>19, <2>1, <2>2 DEF TypeOK, LockEntry, GoTo, Working, Pcs
  <2> QED  BY <1>0, <1>19, <2>2, <2>3 DEF TypeOK, LockEntry
<1>20. ASSUME NEW r \in Requests, LockCapture(r, "queue", "capture") \/ LockCapture(r, "grab", "frame")
      PROVE  TypeOK'
  <2>1. req[r] \in Working
    BY <1>20, AtWork DEF LockCapture, Pcs, At
  <2>2. req' \in [Requests -> {Idle} \cup Working]
    BY <1>20, <2>1, GoesOn DEF LockCapture, Pcs
  <2> QED  BY <1>0, <1>20, <2>2 DEF TypeOK, LockCapture
<1>21. ASSUME NEW r \in Requests, Capture(r)
      PROVE  TypeOK'
  <2>1. req[r] \in Working
    BY <1>21, AtWork DEF Capture, Pcs, At
  <2>2. screen[req[r].dev] \in Pictures
    BY <2>1 DEF TypeOK, Working
  <2>3. req' \in [Requests -> {Idle} \cup Working]
    <3>1. CASE Answer(r)
      BY <2>1, <3>1, GoesOn DEF Pcs
    <3>2. CASE req' = [req EXCEPT ![r].pc = "store", ![r].got = screen[req[r].dev]]
      BY <2>1, <2>2, <3>2 DEF TypeOK, Working, Pcs
    <3> QED  BY <1>21, <3>1, <3>2 DEF Capture
  <2> QED  BY <1>0, <1>21, <2>3 DEF TypeOK, Capture
<1>22. ASSUME NEW r \in Requests, InjectADB(r)
      PROVE  TypeOK'
  <2>1. req[r] \in Working
    BY <1>22, AtWork DEF InjectADB, Pcs, At
  <2>2. screen[req[r].dev] + 1 \in Pictures
    BY <2>1 DEF TypeOK, Working, Pictures
  <2>3. req' \in [Requests -> {Idle} \cup Working]
    <3>1. CASE Answer(r)
      BY <2>1, <3>1, GoesOn DEF Pcs
    <3>2. CASE req' = [req EXCEPT ![r].pc = "purge", ![r].got = screen[req[r].dev] + 1]
      BY <2>1, <2>2, <3>2 DEF TypeOK, Working, Pcs
    <3> QED  BY <1>22, <3>1, <3>2 DEF InjectADB
  <2> QED  BY <1>0, <1>22, <2>2, <2>3 DEF TypeOK, InjectADB
<1>23. ASSUME NEW r \in Requests, Purge(r)
      PROVE  TypeOK'
  <2>1. req[r] \in Working
    BY <1>23, AtWork DEF Purge, Pcs, At
  <2>2. {req[r].dev} \X Sizes \subseteq Entries
    BY <2>1 DEF Working, Entries
  <2>3. req' \in [Requests -> {Idle} \cup Working]
    BY <1>23, <2>1, <2>2 DEF TypeOK, Purge, Working, Pcs
  <2> QED  BY <1>0, <1>23, <2>3 DEF TypeOK, Purge
<1>24. ASSUME NEW r \in Requests, NEW e \in Entries, EmptyEntry(r, e)
      PROVE  TypeOK'
  <2>1. req[r] \in Working
    BY <1>24, AtWork DEF EmptyEntry, Pcs, At
  <2>2. req' \in [Requests -> {Idle} \cup Working]
    BY <1>24, <2>1 DEF TypeOK, EmptyEntry, Working
  <2> QED  BY <1>0, <1>24, <2>2 DEF TypeOK, EmptyEntry
<1>25. ASSUME NEW e \in Entries, Expire(e)
      PROVE  TypeOK'
  BY <1>0, <1>25 DEF TypeOK, Expire
<1>26. ASSUME NEW d \in Devices, ActLate(d) \/ AgentUp(d) \/ Rebuild(d) \/ Reconnect(d)
      PROVE  TypeOK'
  <2>1. CASE ActLate(d)
    BY <1>0, <2>1 DEF TypeOK, ActLate, Pictures
  <2>2. CASE AgentUp(d)
    BY <1>0, <2>2 DEF TypeOK, AgentUp
  <2>3. CASE Rebuild(d)
    BY <1>0, <2>3, PageAssumption DEF TypeOK, Rebuild
  <2>4. CASE Reconnect(d)
    BY <1>0, <2>4 DEF TypeOK, Reconnect
  <2> QED  BY <1>26, <2>1, <2>2, <2>3, <2>4
<1>27. ASSUME NEW r \in Requests, Hang(r) \/ Revive(r)
      PROVE  TypeOK'
  BY <1>0, <1>27, PageAssumption DEF TypeOK, Hang, Revive
<1>28. CASE UNCHANGED vars
  BY <1>0, <1>28 DEF TypeOK, vars
<1> QED  BY <1>1, <1>2, <1>3, <1>4, <1>5, <1>6, <1>7, <1>8, <1>9, <1>10, <1>11, <1>12,
           <1>13, <1>14, <1>15, <1>16, <1>17, <1>18, <1>19, <1>20, <1>21, <1>22, <1>23,
           <1>24, <1>25, <1>26, <1>27, <1>28 DEF Next, LockStep, OwnStep

-----------------------------------------------------------------------------
(* The cap on streams.                                                     *)

Streaming == {"grab", "frame"}
CountedPcs == {"grab", "frame", "refuse", "leave"}
Admitted == {r \in Requests : req[r].pc \in Streaming}
StreamInv == TypeOK /\ Counts /\ StreamCap

\* Request r alone makes a step, and it is none of a stream.
Aside(r) ==
    /\ \A q \in Requests \ {r} : req'[q] = req[q]
    /\ req[r].pc \notin CountedPcs /\ req'[r].pc \notin CountedPcs
    /\ UNCHANGED streams

LEMMA AsideStep ==
    ASSUME StreamInv, NEW r \in Requests, Aside(r)
    PROVE  Counts' /\ StreamCap'
<1>1. Counted' = Counted
  BY DEF Counted, Aside, CountedPcs
<1>2. {q \in Requests : req'[q].pc \in Streaming} = Admitted
  BY DEF Admitted, Aside, CountedPcs, Streaming
<1> QED  BY <1>1, <1>2 DEF StreamInv, Counts, StreamCap, Aside, Admitted, Streaming

LEMMA StillStep ==
    ASSUME StreamInv, UNCHANGED <<req, streams>>
    PROVE  Counts' /\ StreamCap'
BY DEF StreamInv, Counts, Counted, StreamCap

LEMMA CountedIsFinite ==
    ASSUME TypeOK
    PROVE  /\ IsFiniteSet(Counted) /\ Cardinality(Counted) \in Nat
           /\ IsFiniteSet(Admitted) /\ Cardinality(Admitted) \in Nat
           /\ Cardinality(Admitted) <= Cardinality(Counted)
<1>1. Counted \subseteq Requests /\ Admitted \subseteq Counted
  BY DEF Counted, Admitted, Streaming
<1>2. IsFiniteSet(Counted)
  BY <1>1, PageAssumption, FS_Subset
<1>3. IsFiniteSet(Admitted) /\ Cardinality(Admitted) <= Cardinality(Counted)
  BY <1>1, <1>2, FS_Subset
<1> QED  BY <1>2, <1>3, FS_CardinalityType

LEMMA EnterStep ==
    ASSUME StreamInv, NEW r \in Requests, EnterStream(r)
    PROVE  Counts' /\ StreamCap'
<1> DEFINE pc == IF streams' > MaxStreams THEN "refuse" ELSE "grab"
<1>1. req[r] \in Working /\ TypeOK
  BY AtWork DEF StreamInv, EnterStream, At, Pcs
<1>2. req'[r].pc = pc /\ req[r].pc = "enter" /\ \A q \in Requests \ {r} : req'[q] = req[q]
  BY <1>1 DEF EnterStream, At, GoTo, TypeOK, Working
<1>3. Counted' = Counted \cup {r} /\ r \notin Counted
  BY <1>2 DEF Counted
<1>4. Cardinality(Counted') = Cardinality(Counted) + 1 /\ Cardinality(Counted) \in Nat
  BY <1>1, <1>3, CountedIsFinite, FS_AddElement
<1>5. Counts'
  BY <1>4 DEF StreamInv, Counts, EnterStream
<1>6. CASE pc = "refuse"
  <2>1. {q \in Requests : req'[q].pc \in Streaming} = Admitted
    BY <1>2, <1>6 DEF Admitted, Streaming
  <2> QED  BY <1>5, <2>1 DEF StreamInv, StreamCap, Admitted, Streaming
<1>7. CASE pc = "grab"
  <2>1. ~(streams' > MaxStreams)
    BY <1>7
  <2>2. {q \in Requests : req'[q].pc \in Streaming} \subseteq Counted'
    BY DEF Counted, Streaming
  <2>3. IsFiniteSet(Counted')
    BY <1>1, <1>3, CountedIsFinite, FS_AddElement
  <2>4. LET A == {q \in Requests : req'[q].pc \in Streaming} IN
        Cardinality(A) <= Cardinality(Counted') /\ Cardinality(A) \in Nat
    BY <2>2, <2>3, FS_Subset, FS_CardinalityType
  <2>5. Cardinality(Counted') = streams' /\ streams' \in Nat
    BY <1>4, <1>5 DEF Counts
  <2>6. streams' <= MaxStreams
    BY <2>1, <2>5, PageAssumption
  <2> QED  BY <1>5, <2>4, <2>5, <2>6, PageAssumption DEF StreamCap, Streaming
<1> QED  BY <1>6, <1>7

LEMMA LeaveStep ==
    ASSUME StreamInv, NEW r \in Requests, LeaveStream(r)
    PROVE  Counts' /\ StreamCap'
<1>1. req[r] \in Working /\ TypeOK
  BY AtWork DEF StreamInv, LeaveStream, At, Pcs
<1>2. /\ req'[r].pc = "idle" /\ req[r].pc \in {"leave", "refuse"}
      /\ \A q \in Requests \ {r} : req'[q] = req[q]
  BY <1>1 DEF LeaveStream, At, Answer, TypeOK, Idle
<1>3. Counted' = Counted \ {r} /\ r \in Counted
  BY <1>2 DEF Counted
<1>4. Cardinality(Counted') = Cardinality(Counted) - 1 /\ Cardinality(Counted) \in Nat
  BY <1>1, <1>3, CountedIsFinite, FS_RemoveElement
<1>5. {q \in Requests : req'[q].pc \in Streaming} = Admitted
  BY <1>2 DEF Admitted, Streaming
<1> QED  BY <1>4, <1>5 DEF StreamInv, Counts, LeaveStream, StreamCap, Admitted, Streaming

\* A stream goes on, or its browser is gone.
LEMMA FrameStep ==
    ASSUME StreamInv, NEW r \in Requests,
           LockCapture(r, "grab", "frame") \/ Frame(r) \/ StreamOver(r)
    PROVE  Counts' /\ StreamCap'
<1> DEFINE A == {q \in Requests : req'[q].pc \in Streaming}
<1>1. req[r] \in Working /\ TypeOK
  BY AtWork DEF StreamInv, LockCapture, Frame, StreamOver, At, Pcs
<1>2. /\ req'[r].pc \in {"grab", "frame", "leave"} /\ req[r].pc \in {"grab", "frame"}
      /\ \A q \in Requests \ {r} : req'[q] = req[q]
      /\ UNCHANGED streams
  BY <1>1 DEF LockCapture, Frame, StreamOver, At, GoTo, TypeOK, Working
<1>3. Counted' = Counted
  BY <1>2 DEF Counted
<1>4. A \subseteq Admitted
  BY <1>2 DEF Admitted, Streaming
<1>5. Cardinality(A) <= Cardinality(Admitted) /\ Cardinality(A) \in Nat
  BY <1>1, <1>4, CountedIsFinite, FS_Subset, FS_CardinalityType
<1>6. Cardinality(Admitted) <= MaxStreams /\ Cardinality(Admitted) \in Nat
  BY <1>1, CountedIsFinite DEF StreamInv, StreamCap, Admitted, Streaming
<1>7. Cardinality(A) <= MaxStreams
  BY <1>5, <1>6, PageAssumption
<1> QED  BY <1>2, <1>3, <1>7 DEF StreamInv, Counts, StreamCap, Streaming

\* Every other step of a request is aside of the streams.
LEMMA OthersAside ==
    ASSUME TypeOK, NEW r \in Requests,
           \/ FindEntry(r) \/ LockEntry(r) \/ LockCapture(r, "queue", "capture")
           \/ Purge(r) \/ (\E e \in Entries : EmptyEntry(r, e)) \/ GetSession(r) \/ Drop(r)
           \/ Capture(r) \/ Store(r) \/ AnswerShot(r)
           \/ InjectADB(r) \/ InjectScrcpy(r) \/ AnswerInput(r)
           \/ Forward(r) \/ Ping(r) \/ Launch(r) \/ WaitReady(r) \/ Dump(r) \/ Close(r)
    PROVE  Aside(r)
<1> USE DEF Aside, CountedPcs, At, GoTo, Answer, Idle, TypeOK, Working, wall, ui
<1>1. CASE FindEntry(r) \/ LockEntry(r) \/ LockCapture(r, "queue", "capture") \/ Purge(r)
  BY <1>1, AtWork DEF FindEntry, LockEntry, LockCapture, Purge, Pcs
<1>2. ASSUME NEW e \in Entries, EmptyEntry(r, e)
      PROVE  Aside(r)
  BY <1>2, AtWork DEF EmptyEntry, Pcs
<1>3. CASE Capture(r) \/ Store(r) \/ AnswerShot(r)
  BY <1>3, AtWork DEF Capture, Store, AnswerShot, Pcs
<1>4. CASE InjectADB(r) \/ InjectScrcpy(r) \/ AnswerInput(r)
  BY <1>4, AtWork DEF InjectADB, InjectScrcpy, AnswerInput, Pcs
<1>5. CASE GetSession(r) \/ Drop(r) \/ Dump(r) \/ Close(r)
  BY <1>5, AtWork DEF GetSession, Drop, Dump, Close, Pcs
<1>6. CASE Forward(r) \/ Ping(r) \/ Launch(r) \/ WaitReady(r)
  BY <1>6, AtWork DEF Forward, Ping, Launch, WaitReady, GiveUp, Pool, Pcs
<1> QED  BY <1>1, <1>2, <1>3, <1>4, <1>5, <1>6

LEMMA StreamStep == StreamInv /\ [Next]_vars => StreamInv'
<1> SUFFICES ASSUME StreamInv, [Next]_vars
             PROVE  Counts' /\ StreamCap'
  BY TypeStep DEF StreamInv
<1>0. TypeOK
  BY DEF StreamInv
<1>1. ASSUME NEW r \in Requests, NEW kind \in Kinds, NEW d \in Devices, NEW z \in Sizes,
             Arrive(r, kind, d, z)
      PROVE  Counts' /\ StreamCap'
  <2>1. Aside(r)
    BY <1>0, <1>1 DEF Arrive, Aside, CountedPcs, TypeOK, Idle, Kinds
  <2> QED  BY <2>1, AsideStep
<1>2. ASSUME NEW r \in Requests,
             LockStep(r) \/ OwnStep(r) \/ AnswerShot(r) \/ StreamOver(r)
      PROVE  Counts' /\ StreamCap'
  BY <1>0, <1>2, OthersAside, AsideStep, EnterStep, LeaveStep, FrameStep DEF LockStep, OwnStep
<1>3. ASSUME NEW e \in Entries, Expire(e)
      PROVE  Counts' /\ StreamCap'
  BY <1>3, StillStep DEF Expire
<1>4. ASSUME NEW d \in Devices, ActLate(d) \/ AgentUp(d) \/ Rebuild(d) \/ Reconnect(d)
      PROVE  Counts' /\ StreamCap'
  BY <1>4, StillStep DEF ActLate, AgentUp, Rebuild, Reconnect, wall
<1>5. ASSUME NEW r \in Requests, Hang(r) \/ Revive(r)
      PROVE  Counts' /\ StreamCap'
  BY <1>5, StillStep DEF Hang, Revive
<1>6. CASE UNCHANGED vars
  BY <1>6, StillStep DEF vars
<1> QED  BY <1>1, <1>2, <1>3, <1>4, <1>5, <1>6 DEF Next

LEMMA StreamInit == Init => StreamInv
<1> SUFFICES ASSUME Init PROVE Counts /\ StreamCap
  BY TypeInit DEF StreamInv
<1>1. Counted = {} /\ Admitted = {}
  BY DEF Init, Counted, Admitted, Streaming, Idle
<1>2. Cardinality({}) = 0
  BY FS_EmptySet
<1> QED  BY <1>1, <1>2, PageAssumption DEF Init, Counts, StreamCap, Admitted, Streaming

LEMMA StreamHolds == Spec => []StreamInv
<1> QED  BY StreamInit, StreamStep, PTL DEF Spec

\* Requests, locks and pictures have their types, and s.streams never runs
\* below zero or over the requests there are.
THEOREM PageTypeCorrect == Spec => []TypeOK
<1>1. StreamInv => TypeOK
  BY DEF StreamInv
<1> QED  BY <1>1, StreamHolds, PTL

\* The cap of handleStream holds, although a request that is turned away is
\* counted until it has taken itself off.
THEOREM StreamCapHolds == Spec => []StreamCap
<1>1. StreamInv => StreamCap
  BY DEF StreamInv
<1> QED  BY <1>1, StreamHolds, PTL

-----------------------------------------------------------------------------
(* Fresh screenshots.                                                      *)

\* e.mu is held from the miss until the picture is in the cache.
Capturing == {"queue", "capture", "store"}
Holders == \A r \in Requests : req[r].pc \in Capturing => emu[EntryOf(r)] = r

\* The picture request r is about to put into entry e.
Stores(r, e) == At(r, "store") /\ EntryOf(r) = e

\* An input that is through with adb and not answered yet, and the entries of
\* its device that were emptied since.
Inputs == {"inject", "purge", "empty"}
Effect(i) == At(i, "empty") /\ req[i].got # Empty
Purged(i, e) == Effect(i) /\ e[1] = req[i].dev /\ e \notin req[i].left

\* No request and no picture is ahead of the device.
Seen ==
    /\ \A d \in Devices : shown[d] <= screen[d]
    /\ \A r \in Requests : req[r] # Idle => req[r].floor <= shown[req[r].dev]
    /\ \A i \in Requests : req[i].pc \in Inputs /\ req[i].got # Empty =>
           req[i].got <= screen[req[i].dev]

\* Pictures in the cache, or on their way into it, are as new as the inputs
\* that were answered, and as those that have emptied their entry.
FreshCache ==
    \A e \in Entries : items[e] # Empty =>
        /\ shown[e[1]] <= items[e]
        /\ \A i \in Requests : Purged(i, e) => req[i].got <= items[e]
FreshStores ==
    \A r \in Requests : At(r, "store") =>
        /\ req[r].got # Empty
        /\ shown[req[r].dev] <= req[r].got
        /\ \A i \in Requests : Purged(i, EntryOf(r)) => req[i].got <= req[r].got
FreshAnswers ==
    \A r \in Requests : At(r, "answer") => req[r].got # Empty /\ req[r].floor <= req[r].got

FreshInv == TypeOK /\ Holders /\ Seen /\ FreshCache /\ FreshStores /\ FreshAnswers
Fresh == Holders /\ Seen /\ FreshCache /\ FreshStores /\ FreshAnswers

LEMMA FreshInit == Init => Fresh
BY PageAssumption DEF Init, Fresh, Holders, Seen, FreshCache, FreshStores, FreshAnswers,
   Purged, Effect, At, Idle, Capturing, Inputs

\* A request moves between places where no picture is held and no input is
\* under way, and nothing else changes that matters here.
Elsewhere == Pcs \ (Capturing \cup Inputs \cup {"answer"})
LEMMA ElsewhereStep ==
    ASSUME FreshInv, TypeOK', NEW r \in Requests,
           \A q \in Requests \ {r} : req'[q] = req[q],
           req'[r] # Idle => /\ req'[r].pc \in Elsewhere
                             /\ req'[r].floor <= shown[req'[r].dev],
           req[r].pc \notin Capturing,
           UNCHANGED <<screen, shown, items, emu>>
    PROVE  Fresh'
<1> USE DEF FreshInv
<1>1. req'[r].pc \notin Capturing \cup Inputs \cup {"answer"}
  BY DEF Elsewhere, Idle, Capturing, Inputs
<1>2. Holders'
  BY <1>1 DEF Holders, EntryOf
<1>3. Seen'
  BY <1>1 DEF Seen
<1>4. ~Effect(r)'
  BY <1>1 DEF Effect, At, Inputs
<1>5. \A i \in Requests, e \in Entries : Purged(i, e)' => Purged(i, e) /\ i # r
  BY <1>4 DEF Purged, Effect, At
<1>6. FreshCache'
  BY <1>5 DEF FreshCache
<1>7. \A q \in Requests : At(q, "store")' => q # r
  BY <1>1 DEF At, Capturing
<1>8. \A q \in Requests : q # r /\ At(q, "store") => EntryOf(q) \in Entries
  BY DEF TypeOK, At, Idle, Working, EntryOf, Entries
<1>9. FreshStores'
  BY <1>5, <1>7, <1>8 DEF FreshStores, EntryOf, At
<1>10. FreshAnswers'
  BY <1>1 DEF FreshAnswers, At
<1> QED  BY <1>2, <1>3, <1>6, <1>9, <1>10 DEF Fresh

\* The request of an entry is where it was, and no input is further.
LEMMA PurgedKept ==
    ASSUME FreshInv, NEW r \in Requests,
           \A q \in Requests \ {r} : req'[q] = req[q],
           req'[r].pc # "empty"
    PROVE  \A i \in Requests, e \in Entries : Purged(i, e)' => Purged(i, e) /\ i # r
BY DEF Purged, Effect, At

\* A request that is no input comes to a place before the store.
LEMMA LockMoves ==
    ASSUME FreshInv, NEW r \in Requests,
           \A q \in Requests \ {r} : req'[q] = req[q],
           req'[r].pc \in {"answer", "queue", "capture"},
           req'[r].floor = req[r].floor /\ req'[r].dev = req[r].dev, req[r] # Idle,
           UNCHANGED <<screen, shown, items>>, Holders', FreshAnswers'
    PROVE  Fresh'
<1> USE DEF FreshInv
<1>1. Seen'
  BY DEF Seen, Inputs
<1>2. \A i \in Requests, e \in Entries : Purged(i, e)' => Purged(i, e) /\ i # r
  BY PurgedKept
<1>3. FreshCache'
  BY <1>2 DEF FreshCache
<1>4. \A q \in Requests : At(q, "store") => EntryOf(q) \in Entries
  BY DEF TypeOK, At, Idle, Working, EntryOf, Entries
<1>5. FreshStores'
  BY <1>2, <1>4 DEF FreshStores, EntryOf, At
<1> QED  BY <1>1, <1>3, <1>5 DEF Fresh

LEMMA InputArrives ==
    ASSUME FreshInv, TypeOK', NEW r \in Requests, NEW d \in Devices, NEW z \in Sizes,
           Arrive(r, "input", d, z)
    PROVE  Fresh'
<1> USE DEF FreshInv
<1>1. /\ \A q \in Requests \ {r} : req'[q] = req[q]
      /\ req'[r].pc = "inject" /\ req'[r].got = Empty
      /\ req'[r].floor = shown[d] /\ req'[r].dev = d
      /\ UNCHANGED <<screen, shown, items, emu>>
  BY DEF Arrive, TypeOK, wall
<1>2. Holders' /\ FreshAnswers'
  BY <1>1 DEF Holders, FreshAnswers, EntryOf, Capturing, At
<1>3. shown[d] \in Nat
  BY DEF TypeOK, Pictures
<1>4. Seen'
  BY <1>1, <1>3 DEF Seen
<1>5. \A i \in Requests, e \in Entries : Purged(i, e)' => Purged(i, e) /\ i # r
  BY <1>1, PurgedKept
<1>6. FreshCache'
  BY <1>1, <1>5 DEF FreshCache
<1>7. \A q \in Requests : At(q, "store") => EntryOf(q) \in Entries
  BY DEF TypeOK, At, Idle, Working, EntryOf, Entries
<1>8. FreshStores'
  BY <1>1, <1>5, <1>7 DEF FreshStores, EntryOf, At
<1> QED  BY <1>2, <1>4, <1>6, <1>8 DEF Fresh

LEMMA LockEntryStep ==
    ASSUME FreshInv, TypeOK', NEW r \in Requests, LockEntry(r)
    PROVE  Fresh'
<1> USE DEF FreshInv
<1>1. req[r] \in Working /\ EntryOf(r) \in Entries /\ EntryOf(r)[1] = req[r].dev /\ req[r] # Idle
  BY AtWork DEF LockEntry, Pcs, EntryOf, Entries, Working
<1>2. \A q \in Requests \ {r} : req'[q] = req[q]
  BY <1>1 DEF LockEntry, GoTo, TypeOK
<1>3. /\ req'[r].pc \in {"answer", "queue"} /\ req[r].pc = "lock"
      /\ req'[r].floor = req[r].floor /\ req'[r].dev = req[r].dev /\ req'[r].size = req[r].size
      /\ UNCHANGED <<screen, shown, items>>
  BY <1>1 DEF LockEntry, GoTo, At, TypeOK, Working
<1>4. CASE items[EntryOf(r)] # Empty
  <2>1. req'[r].pc = "answer" /\ req'[r].got = items[EntryOf(r)] /\ UNCHANGED emu
    BY <1>1, <1>4 DEF LockEntry, TypeOK, Working
  <2>2. req[r].floor <= shown[req[r].dev] /\ shown[req[r].dev] <= items[EntryOf(r)]
    BY <1>1, <1>4 DEF Seen, FreshCache
  <2>3. req[r].floor \in Nat /\ shown[req[r].dev] \in Nat /\ items[EntryOf(r)] \in Nat
    BY <1>1, <1>4 DEF TypeOK, Working, Pictures
  <2>4. FreshAnswers'
    BY <1>2, <1>3, <1>4, <2>1, <2>2, <2>3 DEF FreshAnswers, At
  <2>5. Holders'
    BY <1>2, <2>1 DEF Holders, Capturing, EntryOf
  <2> QED  BY <1>1, <1>2, <1>3, <2>1, <2>4, <2>5, LockMoves
<1>5. CASE items[EntryOf(r)] = Empty
  <2>1. req'[r].pc = "queue" /\ emu[EntryOf(r)] = Free /\ emu' = [emu EXCEPT ![EntryOf(r)] = r]
    BY <1>1, <1>5 DEF LockEntry, GoTo, TypeOK, Working
  <2>2. \A q \in Requests : req[q].pc \in Capturing => EntryOf(q) # EntryOf(r)
    BY <2>1, PageAssumption DEF Holders
  <2>3. Holders'
    <3> SUFFICES ASSUME NEW q \in Requests, req'[q].pc \in Capturing
                 PROVE  emu'[EntryOf(q)'] = q
      BY DEF Holders
    <3>1. CASE q = r
      BY <1>1, <1>3, <2>1, <3>1 DEF EntryOf, TypeOK
    <3>2. CASE q # r
      <4>1. req'[q] = req[q] /\ EntryOf(q)' = EntryOf(q) /\ emu[EntryOf(q)] = q
        BY <1>2, <3>2 DEF EntryOf, Holders
      <4>2. EntryOf(q) # EntryOf(r)
        BY <2>2, <4>1
      <4> QED  BY <1>1, <2>1, <4>1, <4>2 DEF TypeOK
    <3> QED  BY <3>1, <3>2
  <2>4. FreshAnswers'
    BY <1>2, <2>1 DEF FreshAnswers, At
  <2> QED  BY <1>1, <1>2, <1>3, <2>1, <2>3, <2>4, LockMoves
<1> QED  BY <1>4, <1>5

LEMMA LockCaptureStep ==
    ASSUME FreshInv, NEW r \in Requests, LockCapture(r, "queue", "capture")
    PROVE  Fresh'
<1>1. req[r] \in Working /\ req[r] # Idle /\ TypeOK
  BY AtWork DEF FreshInv, LockCapture, Pcs
<1>2. /\ \A q \in Requests \ {r} : req'[q] = req[q]
      /\ req'[r].pc = "capture" /\ req[r].pc = "queue"
      /\ req'[r].floor = req[r].floor /\ req'[r].dev = req[r].dev /\ req'[r].size = req[r].size
      /\ UNCHANGED <<screen, shown, items, emu>>
  BY <1>1 DEF LockCapture, GoTo, At, TypeOK, Working, wall
<1>3. Holders'
  BY <1>2 DEF FreshInv, Holders, Capturing, EntryOf
<1>4. FreshAnswers'
  BY <1>2 DEF FreshInv, FreshAnswers, At
<1> QED  BY <1>1, <1>2, <1>3, <1>4, LockMoves

LEMMA CaptureStep ==
    ASSUME FreshInv, NEW r \in Requests, Capture(r)
    PROVE  Fresh'
<1> USE DEF FreshInv
<1>1. req[r] \in Working /\ EntryOf(r) \in Entries /\ EntryOf(r)[1] = req[r].dev
  BY AtWork DEF Capture, Pcs, EntryOf, Entries, Working
<1>2. /\ \A q \in Requests \ {r} : req'[q] = req[q]
      /\ req[r].pc = "capture" /\ UNCHANGED <<screen, shown, items>>
      /\ req'[r] = Idle \/ req'[r].pc = "store"
  BY <1>1 DEF Capture, At, Answer, TypeOK, Working
<1>3. \A i \in Requests, e \in Entries : Purged(i, e)' => Purged(i, e) /\ i # r
  BY <1>2, PurgedKept DEF Idle
<1>4. FreshCache'
  BY <1>2, <1>3 DEF FreshCache
<1>5. \A q \in Requests : At(q, "store") => EntryOf(q) \in Entries
  BY DEF TypeOK, At, Idle, Working, EntryOf, Entries
<1>6. FreshAnswers'
  BY <1>2 DEF FreshAnswers, At, Idle
<1>7. CASE UNCHANGED emu /\ req' = [req EXCEPT ![r].pc = "store", ![r].got = screen[req[r].dev]]
  <2>1. /\ req'[r].pc = "store" /\ req'[r].got = screen[req[r].dev] /\ UNCHANGED emu
        /\ req'[r].floor = req[r].floor /\ req'[r].dev = req[r].dev /\ req'[r].size = req[r].size
    BY <1>1, <1>7 DEF TypeOK, Working
  <2>2. Holders'
    BY <1>2, <2>1 DEF Holders, EntryOf, Capturing
  <2>3. Seen'
    BY <1>2, <2>1 DEF Seen, Inputs, Idle
  <2>4. screen[req[r].dev] \in Nat
    BY <1>1 DEF TypeOK, Working, Pictures
  <2>5. \A i \in Requests : Purged(i, EntryOf(r)) => req[i].got <= screen[req[r].dev]
    BY <1>1 DEF Purged, Effect, Seen, At, Inputs
  <2>6. shown[req[r].dev] <= screen[req[r].dev]
    BY <1>1 DEF Seen, Working
  <2>7. EntryOf(r)' = EntryOf(r) /\ \A q \in Requests : q # r => EntryOf(q)' = EntryOf(q)
    BY <1>2, <2>1 DEF EntryOf
  <2>8. FreshStores'
    <3> SUFFICES ASSUME NEW q \in Requests, At(q, "store")'
                 PROVE  /\ req'[q].got # Empty /\ shown[req'[q].dev] <= req'[q].got
                        /\ \A i \in Requests : Purged(i, EntryOf(q))' => req'[i].got <= req'[q].got
      BY <1>2 DEF FreshStores
    <3>1. CASE q = r
      BY <1>1, <1>2, <1>3, <2>1, <2>4, <2>5, <2>6, <2>7, <3>1, PageAssumption DEF Purged
    <3>2. CASE q # r
      <4>1. req'[q] = req[q] /\ At(q, "store") /\ EntryOf(q) \in Entries
        BY <1>2, <1>5, <3>2 DEF At
      <4>2. \A i \in Requests : Purged(i, EntryOf(q))' => Purged(i, EntryOf(q)) /\ i # r
        BY <1>3, <2>7, <3>2, <4>1 DEF Purged
      <4> QED  BY <1>2, <4>1, <4>2 DEF FreshStores
    <3> QED  BY <3>1, <3>2
  <2> QED  BY <1>4, <1>6, <2>2, <2>3, <2>8 DEF Fresh
<1>8. CASE Answer(r) /\ emu' = [emu EXCEPT ![EntryOf(r)] = Free]
  <2>1. req'[r] = Idle
    BY <1>1, <1>8 DEF Answer, TypeOK
  <2>2. Holders'
    BY <1>1, <1>2, <1>8, <2>1 DEF Holders, EntryOf, Capturing, Idle, TypeOK, Entries
  <2>3. Seen'
    BY <1>2, <2>1 DEF Seen, Inputs, Idle
  <2>4. FreshStores'
    BY <1>2, <1>3, <1>5, <2>1 DEF FreshStores, At, Idle, EntryOf
  <2> QED  BY <1>4, <1>6, <2>2, <2>3, <2>4 DEF Fresh
<1> QED  BY <1>7, <1>8 DEF Capture

LEMMA StoreStep ==
    ASSUME FreshInv, NEW r \in Requests, Store(r)
    PROVE  Fresh'
<1> USE DEF FreshInv
<1>1. req[r] \in Working /\ EntryOf(r) \in Entries /\ EntryOf(r)[1] = req[r].dev /\ req[r] # Idle
  BY AtWork DEF Store, Pcs, EntryOf, Entries, Working
<1>2. /\ \A q \in Requests \ {r} : req'[q] = req[q]
      /\ req[r].pc = "store" /\ req'[r].pc = "answer" /\ UNCHANGED <<screen, shown>>
      /\ req'[r].floor = req[r].floor /\ req'[r].dev = req[r].dev /\ req'[r].got = req[r].got
      /\ items' = [items EXCEPT ![EntryOf(r)] = req[r].got]
      /\ emu' = [emu EXCEPT ![EntryOf(r)] = Free]
  BY <1>1 DEF Store, At, GoTo, TypeOK, Working
<1>3. \A i \in Requests, e \in Entries : Purged(i, e)' => Purged(i, e) /\ i # r
  BY <1>2, PurgedKept
<1>4. \A q \in Requests : At(q, "store") => EntryOf(q) \in Entries
  BY DEF TypeOK, At, Idle, Working, EntryOf, Entries
<1>5. \A q \in Requests \ {r} : req[q].pc \in Capturing => EntryOf(q) # EntryOf(r)
  BY <1>2 DEF Holders, Capturing
<1>6. Holders'
  BY <1>2, <1>5 DEF Holders, EntryOf, Capturing, TypeOK
<1>7. Seen'
  BY <1>1, <1>2 DEF Seen, Inputs
<1>8. /\ req[r].got # Empty /\ shown[req[r].dev] <= req[r].got
      /\ \A i \in Requests : Purged(i, EntryOf(r)) => req[i].got <= req[r].got
  BY <1>2 DEF FreshStores, At
<1>9. FreshCache'
  BY <1>1, <1>2, <1>3, <1>8 DEF FreshCache, TypeOK
<1>10. FreshStores'
  BY <1>2, <1>3, <1>4 DEF FreshStores, At, EntryOf
<1>11. req[r].floor <= shown[req[r].dev]
  BY <1>1 DEF Seen
<1>12. req[r].floor \in Nat /\ shown[req[r].dev] \in Nat /\ req[r].got \in Nat
  BY <1>1, <1>8 DEF TypeOK, Working, Pictures
<1>13. FreshAnswers'
  BY <1>2, <1>8, <1>11, <1>12 DEF FreshAnswers, At
<1> QED  BY <1>6, <1>7, <1>9, <1>10, <1>13 DEF Fresh

\* An input goes on, and has not emptied more entries than before.
LEMMA InputMoves ==
    ASSUME FreshInv, NEW r \in Requests,
           \A q \in Requests \ {r} : req'[q] = req[q],
           req[r].pc \in Inputs, req'[r] = Idle \/ req'[r].pc \in Inputs,
           \A i \in Requests, e \in Entries :
               Purged(i, e)' => Purged(i, e) /\ req'[i].got = req[i].got,
           Seen', UNCHANGED <<shown, items, emu>>
    PROVE  Fresh'
<1> USE DEF FreshInv
<1>1. req'[r].pc \notin Capturing \cup {"answer"} /\ req[r].pc \notin Capturing \cup {"answer"}
  BY DEF Inputs, Capturing, Idle
<1>2. Holders' /\ FreshAnswers'
  BY <1>1 DEF Holders, FreshAnswers, EntryOf, At
<1>3. FreshCache'
  BY DEF FreshCache
<1>4. \A q \in Requests : At(q, "store") => EntryOf(q) \in Entries
  BY DEF TypeOK, At, Idle, Working, EntryOf, Entries
<1>5. \A q \in Requests : At(q, "store")' => q # r /\ At(q, "store") /\ EntryOf(q)' = EntryOf(q)
  BY <1>1 DEF At, Capturing, EntryOf
<1>6. FreshStores'
  BY <1>4, <1>5 DEF FreshStores
<1> QED  BY <1>2, <1>3, <1>6 DEF Fresh

LEMMA InjectStep ==
    ASSUME FreshInv, NEW r \in Requests, InjectADB(r) \/ InjectScrcpy(r)
    PROVE  Fresh'
<1>1. req[r] \in Working /\ req[r] # Idle /\ TypeOK /\ Seen
  BY AtWork DEF FreshInv, InjectADB, InjectScrcpy, Pcs
<1>2. /\ \A q \in Requests \ {r} : req'[q] = req[q]
      /\ req[r].pc = "inject" /\ UNCHANGED <<shown, items, emu>>
      /\ req'[r] = Idle \/ req'[r].pc = "purge"
  BY <1>1 DEF InjectADB, InjectScrcpy, At, GoTo, Answer, TypeOK, Working
<1>3. \A i \in Requests, e \in Entries :
          Purged(i, e)' => Purged(i, e) /\ req'[i].got = req[i].got
  BY <1>2, PurgedKept DEF Idle
<1>4. Seen'
  <2>1. CASE InjectScrcpy(r)
    <3>1. /\ req'[r].floor = req[r].floor /\ req'[r].dev = req[r].dev /\ req'[r].got = req[r].got
          /\ UNCHANGED screen
      BY <1>1, <2>1 DEF InjectScrcpy, GoTo, TypeOK, Working
    <3> QED  BY <1>1, <1>2, <3>1 DEF Seen, Inputs
  <2>2. CASE Answer(r) /\ UNCHANGED screen
    <3>1. req'[r] = Idle
      BY <1>1, <2>2 DEF Answer, TypeOK
    <3> QED  BY <1>1, <1>2, <2>2, <3>1 DEF Seen, Inputs, Idle
  <2>3. CASE InjectADB(r) /\ screen' = [screen EXCEPT ![req[r].dev] = @ + 1]
    <3>1. \/ req'[r] = Idle
          \/ /\ req'[r].floor = req[r].floor /\ req'[r].dev = req[r].dev
             /\ req'[r].got = screen[req[r].dev] + 1
      <4>1. CASE Answer(r)
        BY <1>1, <4>1 DEF Answer, TypeOK
      <4>2. CASE UNCHANGED screen
        BY <1>1, <2>3, <4>2 DEF TypeOK, Working, Pictures
      <4>3. CASE req' = [req EXCEPT ![r].pc = "purge", ![r].got = screen[req[r].dev] + 1]
        BY <1>1, <4>3 DEF TypeOK, Working
      <4> QED  BY <2>3, <4>1, <4>2, <4>3 DEF InjectADB
    <3>2. \A d \in Devices : screen[d] \in Nat /\ screen'[d] \in Nat /\ screen[d] <= screen'[d]
      BY <1>1, <2>3 DEF TypeOK, Working, Pictures
    <3>3. \A d \in Devices : shown[d] \in Nat
      BY <1>1 DEF TypeOK, Pictures
    <3>4. \A d \in Devices : shown'[d] <= screen'[d]
      BY <1>1, <1>2, <3>2, <3>3 DEF Seen
    <3>5. \A q \in Requests : req'[q] # Idle => req'[q].floor <= shown'[req'[q].dev]
      BY <1>1, <1>2, <3>1 DEF Seen
    <3>6. \A i \in Requests : i # r /\ req[i].pc \in Inputs /\ req[i].got # Empty =>
              req[i].got <= screen'[req[i].dev]
      <4> SUFFICES ASSUME NEW i \in Requests, i # r, req[i].pc \in Inputs, req[i].got # Empty
                   PROVE  req[i].got <= screen'[req[i].dev]
        OBVIOUS
      <4>1. req[i] \in Working
        BY <1>1 DEF TypeOK, Idle, Inputs
      <4>2. req[i].got \in Nat /\ req[i].dev \in Devices
        BY <4>1 DEF Working, Pictures
      <4>3. req[i].got <= screen[req[i].dev]
        BY <1>1 DEF Seen
      <4> QED  BY <3>2, <4>2, <4>3
    <3>7. req'[r] # Idle => req'[r].got <= screen'[req'[r].dev]
      BY <1>1, <2>3, <3>1, <3>2 DEF TypeOK, Working
    <3> QED  BY <1>2, <3>4, <3>5, <3>6, <3>7 DEF Seen, Inputs, Idle
  <2> QED  BY <2>1, <2>2, <2>3 DEF InjectADB
<1> QED  BY <1>2, <1>3, <1>4, InputMoves DEF Inputs

LEMMA PurgeStep ==
    ASSUME FreshInv, NEW r \in Requests, Purge(r)
    PROVE  Fresh'
<1>1. req[r] \in Working /\ req[r] # Idle /\ TypeOK /\ Seen
  BY AtWork DEF FreshInv, Purge, Pcs
<1>2. /\ \A q \in Requests \ {r} : req'[q] = req[q]
      /\ req[r].pc = "purge" /\ UNCHANGED <<screen, shown, items, emu>>
      /\ req'[r].pc = "empty" /\ req'[r].left = {req[r].dev} \X Sizes
      /\ req'[r].floor = req[r].floor /\ req'[r].dev = req[r].dev /\ req'[r].got = req[r].got
  BY <1>1 DEF Purge, At, TypeOK, Working
<1>3. \A e \in Entries : e[1] = req[r].dev => e \in req'[r].left
  BY <1>2 DEF Entries
<1>4. \A i \in Requests, e \in Entries :
          Purged(i, e)' => Purged(i, e) /\ req'[i].got = req[i].got
  BY <1>2, <1>3 DEF Purged, Effect, At
<1>5. Seen'
  BY <1>1, <1>2 DEF Seen, Inputs
<1> QED  BY <1>2, <1>4, <1>5, InputMoves DEF Inputs

\* No capture is under way for an entry whose lock is free.
LEMMA EmptyStep ==
    ASSUME FreshInv, NEW r \in Requests, NEW e \in Entries, EmptyEntry(r, e)
    PROVE  Fresh'
<1> USE DEF FreshInv
<1>1. req[r] \in Working /\ req[r] # Idle
  BY AtWork DEF EmptyEntry, Pcs
<1>2. /\ \A q \in Requests \ {r} : req'[q] = req[q]
      /\ req[r].pc = "empty" /\ req'[r].pc = "empty" /\ req'[r].left = req[r].left \ {e}
      /\ req'[r].floor = req[r].floor /\ req'[r].dev = req[r].dev /\ req'[r].got = req[r].got
      /\ UNCHANGED <<screen, shown, emu>> /\ items' = [items EXCEPT ![e] = Empty]
  BY <1>1 DEF EmptyEntry, At, TypeOK, Working
<1>3. \A i \in Requests, f \in Entries :
          Purged(i, f)' => (f = e \/ Purged(i, f)) /\ req'[i].got = req[i].got
  BY <1>2 DEF Purged, Effect, At
<1>4. \A q \in Requests : At(q, "store") => EntryOf(q) \in Entries /\ EntryOf(q) # e
  BY PageAssumption DEF EmptyEntry, Holders, Capturing, TypeOK, At, Idle, Working, EntryOf, Entries
<1>5. Holders' /\ FreshAnswers'
  BY <1>2 DEF Holders, FreshAnswers, EntryOf, At, Capturing
<1>6. Seen'
  BY <1>1, <1>2 DEF Seen
<1>7. FreshCache'
  BY <1>2, <1>3 DEF FreshCache, TypeOK
<1>8. \A q \in Requests : At(q, "store")' => q # r /\ At(q, "store") /\ EntryOf(q)' = EntryOf(q)
  BY <1>2 DEF At, EntryOf
<1>9. FreshStores'
  BY <1>2, <1>3, <1>4, <1>8 DEF FreshStores
<1> QED  BY <1>5, <1>6, <1>7, <1>9 DEF Fresh

\* When the answer of an input goes out, every entry of its device is as new
\* as the input, and so is every picture on its way into one.
LEMMA AnswerInputStep ==
    ASSUME FreshInv, NEW r \in Requests, AnswerInput(r)
    PROVE  Fresh'
<1> USE DEF FreshInv
<1> DEFINE d == req[r].dev
           g == req[r].got
<1>1. req[r] \in Working /\ req[r] # Idle /\ d \in Devices
  BY AtWork DEF AnswerInput, Pcs, Working
<1>2. /\ \A q \in Requests \ {r} : req'[q] = req[q]
      /\ req[r].pc = "empty" /\ req[r].left = {} /\ req'[r] = Idle
      /\ UNCHANGED <<screen, items, emu>>
      /\ \A x \in Devices : x # d => shown'[x] = shown[x]
      /\ shown'[d] = IF g # Empty /\ g > shown[d] THEN g ELSE shown[d]
  BY <1>1 DEF AnswerInput, At, Answer, TypeOK
<1>3. /\ \A x \in Devices : shown[x] \in Nat /\ screen[x] \in Nat
      /\ g # Empty => g \in Nat /\ g <= screen[d]
  BY <1>1, <1>2 DEF TypeOK, Working, Pictures, Seen, Inputs
<1>4. \A x \in Devices : shown[x] <= shown'[x] /\ shown'[x] \in Nat /\ shown'[x] <= screen[x]
  BY <1>1, <1>2, <1>3 DEF Seen
<1>5. \A i \in Requests, e \in Entries : Purged(i, e)' => Purged(i, e) /\ i # r
  BY <1>2, PurgedKept DEF Idle
<1>6. \A e \in Entries : e[1] = d /\ g # Empty => Purged(r, e)
  BY <1>2 DEF Purged, Effect, At
<1>7. Holders' /\ FreshAnswers'
  BY <1>2 DEF Holders, FreshAnswers, EntryOf, At, Capturing, Idle
<1>8. Seen'
  <2>1. \A q \in Requests : q # r /\ req[q] # Idle => req[q].floor <= shown'[req[q].dev]
    <3> SUFFICES ASSUME NEW q \in Requests, q # r, req[q] # Idle
                 PROVE  req[q].floor <= shown'[req[q].dev]
      OBVIOUS
    <3>1. req[q].floor \in Nat /\ req[q].dev \in Devices
      BY DEF TypeOK, Working, Pictures
    <3>2. req[q].floor <= shown[req[q].dev]
      BY DEF Seen
    <3> QED  BY <1>3, <1>4, <3>1, <3>2
  <2> QED  BY <1>2, <1>4, <2>1 DEF Seen, Inputs, Idle
<1>9. FreshCache'
  <2> SUFFICES ASSUME NEW e \in Entries, items[e] # Empty
               PROVE  /\ shown'[e[1]] <= items[e]
                      /\ \A i \in Requests : Purged(i, e)' => req'[i].got <= items[e]
    BY <1>2 DEF FreshCache
  <2>1. items[e] \in Nat /\ e[1] \in Devices
    BY DEF TypeOK, Pictures, Entries
  <2>2. shown[e[1]] <= items[e] /\ (e[1] = d /\ g # Empty => g <= items[e])
    BY <1>6 DEF FreshCache
  <2>3. shown'[e[1]] <= items[e]
    BY <1>1, <1>2, <2>1, <2>2
  <2> QED  BY <1>2, <1>5, <2>3 DEF FreshCache
<1>10. FreshStores'
  <2> SUFFICES ASSUME NEW q \in Requests, At(q, "store")'
               PROVE  /\ req'[q].got # Empty /\ shown'[req'[q].dev] <= req'[q].got
                      /\ \A i \in Requests : Purged(i, EntryOf(q))' => req'[i].got <= req'[q].got
    BY DEF FreshStores
  <2>1. q # r /\ req'[q] = req[q] /\ At(q, "store")
    BY <1>2 DEF At, Idle
  <2>2. req[q] \in Working /\ EntryOf(q) \in Entries /\ EntryOf(q)[1] = req[q].dev
    BY <2>1, AtWork DEF Pcs, EntryOf, Entries, Working
  <2>3. /\ req[q].got # Empty /\ shown[req[q].dev] <= req[q].got
        /\ \A i \in Requests : Purged(i, EntryOf(q)) => req[i].got <= req[q].got
    BY <2>1 DEF FreshStores
  <2>4. req[q].got \in Nat /\ req[q].dev \in Devices
    BY <2>2, <2>3 DEF Working, Pictures
  <2>5. req[q].dev = d /\ g # Empty => g <= req[q].got
    BY <1>6, <2>2, <2>3
  <2>6. shown'[req[q].dev] <= req[q].got
    BY <1>2, <2>3, <2>4, <2>5
  <2>7. EntryOf(q)' = EntryOf(q)
    BY <2>1 DEF EntryOf
  <2>8. \A i \in Requests : Purged(i, EntryOf(q))' => Purged(i, EntryOf(q)) /\ i # r
    BY <1>5, <2>2, <2>7 DEF Purged
  <2> QED  BY <1>2, <2>1, <2>3, <2>6, <2>8
<1> QED  BY <1>7, <1>8, <1>9, <1>10 DEF Fresh

LEMMA ExpireStep ==
    ASSUME FreshInv, NEW e \in Entries, Expire(e)
    PROVE  Fresh'
BY DEF FreshInv, Expire, Fresh, Holders, Seen, FreshCache, FreshStores, FreshAnswers,
   Purged, Effect, At, EntryOf, TypeOK

LEMMA ActLateStep ==
    ASSUME FreshInv, NEW d \in Devices, ActLate(d)
    PROVE  Fresh'
<1> USE DEF FreshInv
<1>1. UNCHANGED <<shown, items, emu, req>> /\ screen' = [screen EXCEPT ![d] = @ + 1]
  BY DEF ActLate
<1>2. Holders' /\ FreshCache' /\ FreshStores' /\ FreshAnswers'
  BY <1>1 DEF Holders, FreshCache, FreshStores, FreshAnswers, Purged, Effect, At, EntryOf
<1>3. \A x \in Devices : /\ screen[x] \in Nat /\ shown[x] \in Nat
                         /\ screen'[x] \in Nat /\ screen[x] <= screen'[x]
  BY <1>1 DEF TypeOK, Pictures
<1>4. \A i \in Requests : req[i].pc \in Inputs /\ req[i].got # Empty =>
          req[i].dev \in Devices /\ req[i].got \in Nat /\ req[i].got <= screen[req[i].dev]
  BY DEF Seen, TypeOK, Working, Idle, Inputs, Pictures
<1>5. Seen'
  BY <1>1, <1>3, <1>4 DEF Seen
<1> QED  BY <1>2, <1>5 DEF Fresh

\* Nothing of the wall moves.
LEMMA WallKept ==
    ASSUME FreshInv, UNCHANGED <<screen, shown, items, emu, req>>
    PROVE  Fresh'
BY DEF FreshInv, Fresh, Holders, Seen, FreshCache, FreshStores, FreshAnswers,
   Purged, Effect, At, EntryOf

\* Streams and dumps share no picture with screenshots.
LEMMA OtherKinds ==
    ASSUME FreshInv, TypeOK', NEW r \in Requests,
           \/ FindEntry(r) \/ AnswerShot(r)
           \/ LockCapture(r, "grab", "frame") \/ EnterStream(r) \/ Frame(r) \/ LeaveStream(r)
           \/ StreamOver(r)
           \/ GetSession(r) \/ Forward(r) \/ Ping(r) \/ Launch(r) \/ WaitReady(r)
           \/ Dump(r) \/ Drop(r) \/ Close(r)
    PROVE  Fresh'
<1>1. TypeOK /\ Seen
  BY DEF FreshInv
<1>2. \E pc \in {"entry", "answer", "grab", "enter", "frame", "leave", "refuse", "session",
                 "forward", "ping", "launch", "wait", "dump", "drop", "close"} : At(r, pc)
  BY DEF FindEntry, AnswerShot, LockCapture, EnterStream, Frame, LeaveStream, StreamOver,
     GetSession, Forward, Ping, Launch, WaitReady, Dump, Drop, Close
<1>3. req[r] \in Working /\ req[r] # Idle /\ req[r].pc \notin Capturing
  BY <1>1, <1>2, AtWork DEF At, Pcs, Capturing
<1>4. \E pc \in Elsewhere : GoTo(r, pc) \/ Answer(r)
  <2> USE DEF Elsewhere, Pcs, Capturing, Inputs
  <2>1. CASE FindEntry(r) \/ AnswerShot(r) \/ StreamOver(r) \/ Frame(r) \/ LeaveStream(r)
             \/ LockCapture(r, "grab", "frame") \/ EnterStream(r)
    BY <2>1 DEF FindEntry, AnswerShot, StreamOver, Frame, LeaveStream, LockCapture, EnterStream
  <2>2. CASE GetSession(r) \/ Forward(r) \/ Ping(r) \/ Launch(r) \/ WaitReady(r)
    BY <2>2 DEF GetSession, Forward, Ping, Launch, WaitReady, GiveUp, Pool
  <2>3. CASE Dump(r) \/ Drop(r) \/ Close(r)
    BY <2>3 DEF Dump, Drop, Close
  <2> QED  BY <2>1, <2>2, <2>3
<1>5. UNCHANGED <<screen, shown, items, emu>>
  BY DEF FindEntry, AnswerShot, LockCapture, EnterStream, Frame, LeaveStream, StreamOver,
     GetSession, Forward, Ping, Launch, WaitReady, Dump, Drop, Close, wall
<1>6. PICK pc \in Elsewhere : GoTo(r, pc) \/ Answer(r)
  BY <1>4
<1>7. \A q \in Requests \ {r} : req'[q] = req[q]
  BY <1>1, <1>6 DEF GoTo, Answer, TypeOK
<1>8. req'[r] # Idle => /\ req'[r].pc \in Elsewhere
                        /\ req'[r].floor <= shown[req'[r].dev]
  BY <1>1, <1>3, <1>6 DEF GoTo, Answer, TypeOK, Working, Seen
<1> QED  BY <1>3, <1>5, <1>7, <1>8, ElsewhereStep

LEMMA ArriveStep ==
    ASSUME FreshInv, TypeOK', NEW r \in Requests, NEW kind \in Kinds, NEW d \in Devices,
           NEW z \in Sizes, Arrive(r, kind, d, z)
    PROVE  Fresh'
<1>1. CASE kind = "input"
  BY <1>1, InputArrives
<1>2. CASE kind # "input"
  <2>1. TypeOK /\ shown[d] \in Nat
    BY DEF FreshInv, TypeOK, Pictures
  <2>2. /\ \A q \in Requests \ {r} : req'[q] = req[q]
        /\ req'[r].pc \in Elsewhere /\ req'[r].floor = shown[d] /\ req'[r].dev = d
        /\ req[r] = Idle /\ UNCHANGED <<screen, shown, items, emu>>
    BY <1>2, <2>1 DEF Arrive, TypeOK, Kinds, Elsewhere, Pcs, Capturing, Inputs, wall
  <2>3. req[r].pc \notin Capturing
    BY <2>2 DEF Idle, Capturing
  <2> QED  BY <2>1, <2>2, <2>3, ElsewhereStep
<1> QED  BY <1>1, <1>2

LEMMA FreshStep == FreshInv /\ TypeOK' /\ [Next]_vars => Fresh'
<1> SUFFICES ASSUME FreshInv, TypeOK', [Next]_vars
             PROVE  Fresh'
  OBVIOUS
<1>1. ASSUME NEW r \in Requests, NEW kind \in Kinds, NEW d \in Devices, NEW z \in Sizes,
             Arrive(r, kind, d, z)
      PROVE  Fresh'
  BY <1>1, ArriveStep
<1>2. ASSUME NEW r \in Requests,
             LockStep(r) \/ OwnStep(r) \/ AnswerShot(r) \/ StreamOver(r)
      PROVE  Fresh'
  BY <1>2, OtherKinds, LockEntryStep, LockCaptureStep, CaptureStep, StoreStep, InjectStep,
     PurgeStep, EmptyStep, AnswerInputStep DEF LockStep, OwnStep
<1>3. ASSUME NEW e \in Entries, Expire(e)
      PROVE  Fresh'
  BY <1>3, ExpireStep
<1>4. ASSUME NEW d \in Devices, ActLate(d) \/ AgentUp(d) \/ Rebuild(d) \/ Reconnect(d)
      PROVE  Fresh'
  BY <1>4, ActLateStep, WallKept DEF AgentUp, Rebuild, Reconnect, wall
<1>5. ASSUME NEW r \in Requests, Hang(r) \/ Revive(r)
      PROVE  Fresh'
  BY <1>5, WallKept DEF Hang, Revive, wall
<1>6. CASE UNCHANGED vars
  BY <1>6, WallKept DEF vars, wall
<1> QED  BY <1>1, <1>2, <1>3, <1>4, <1>5, <1>6 DEF Next

\* No screenshot is older than the last input answered before it was asked for.
THEOREM FreshAfterInputHolds == Spec => []FreshAfterInput
<1>1. Init => FreshInv
  BY TypeInit, FreshInit DEF FreshInv, Fresh
<1>2. FreshInv /\ TypeOK' /\ [Next]_vars => FreshInv'
  BY FreshStep DEF FreshInv, Fresh
<1>3. FreshInv => FreshAfterInput
  BY DEF FreshInv, FreshAnswers, FreshAfterInput
<1> QED  BY <1>1, <1>2, <1>3, PageTypeCorrect, PTL DEF Spec
=============================================================================
