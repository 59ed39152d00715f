------------------------ MODULE ScrcpySessionsProofs ------------------------
(* Safety of the live sessions, for any number of sessions and devices.    *)
EXTENDS ScrcpySessions, Integers, TLAPS

-----------------------------------------------------------------------------
(* The inductive invariant of the table.                                   *)

\* While the handler itself closes its session it waits for that.
HandlerCloses ==
    \A g \in Sessions :
        ses[g].close \in {"killing", "removing"} /\ ses[g].by = "handler"
            => ses[g].pc \in {"closing", "dead"}

\* CloseAll has counted the exit that is to come.
ExitsBounded == stopping => exits < MaxExits

TableInv == TypeOK /\ TableNamesTheOwner /\ HandlerCloses /\ ExitsBounded

LEMMA NobodyIsNoSession == Nobody \notin Sessions
BY SessionsAssumption DEF Nobody, Sessions

LEMMA PortInRange == \A n \in Nat : PortOf(n) \in LocalPorts
BY SessionsAssumption DEF PortOf, LocalPorts

\* A session that has done anything is a handler.
LEMMA UsedIsHandler ==
    ASSUME TypeOK, NEW g \in Sessions, ses[g].pc # "unused" \/ ses[g].close # "open"
    PROVE  ses[g] \in Handlers /\ ses[g] # Unused
BY DEF TypeOK, Unused

\* The fields of a handler.
LEMMA HandlerFields ==
    ASSUME NEW r \in Handlers
    PROVE  /\ r.dev \in Devices /\ r.port \in LocalPorts
           /\ r.cancelled \in BOOLEAN /\ r.video \in Sessions \cup {Nobody}
           /\ r.pc \in {"push", "forward", "launch", "connect", "handshake", "register", "stream",
                        "closing", "release", "over", "dead"}
           /\ r.close \in {"open", "killing", "removing", "closed"} /\ r.stuck \in BOOLEAN
           /\ r.by \in {"nobody", "handler", "input"}
BY DEF Handlers

\* What else happens to a session that waits for its peers.
Ends(g) == StreamEnds(g) \/ InputFails(g) \/ Stall(g) \/ Unstall(g)

\* The two ways in which most steps change a handler keep its type.
LEMMA GoToTyped ==
    ASSUME TypeOK, NEW g \in Sessions, ses[g] \in Handlers,
           NEW pc \in {"push", "forward", "launch", "connect", "handshake", "register", "stream",
                       "closing", "release", "over", "dead"},
           GoTo(g, pc)
    PROVE  ses' \in [Sessions -> Handlers \cup {Unused}]
<1>1. [ses[g] EXCEPT !.pc = pc] \in Handlers
  BY DEF Handlers
<1> QED  BY <1>1 DEF GoTo, TypeOK

LEMMA StartCloseTyped ==
    ASSUME TypeOK, NEW g \in Sessions, ses[g] \in Handlers,
           NEW pc \in {"closing", "stream"}, NEW who \in {"handler", "input"},
           StartClose(g, pc, who)
    PROVE  ses' \in [Sessions -> Handlers \cup {Unused}]
<1>1. [ses[g] EXCEPT !.pc = pc, !.close = "killing", !.by = who] \in Handlers
  BY DEF Handlers
<1> QED  BY <1>1 DEF StartClose, TypeOK

LEMMA StuckTyped ==
    ASSUME TypeOK, NEW g \in Sessions, ses[g] \in Handlers, NEW b \in BOOLEAN,
           ses' = [ses EXCEPT ![g].stuck = b]
    PROVE  ses' \in [Sessions -> Handlers \cup {Unused}]
<1>1. [ses[g] EXCEPT !.stuck = b] \in Handlers
  BY DEF Handlers
<1> QED  BY <1>1 DEF TypeOK

LEMMA CancelledTyped ==
    ASSUME NEW r \in Handlers
    PROVE  [r EXCEPT !.cancelled = TRUE] \in Handlers
BY DEF Handlers

-----------------------------------------------------------------------------
(* Types.                                                                  *)

LEMMA InitInv == Init => TableInv
<1> SUFFICES ASSUME Init PROVE TableInv
  OBVIOUS
<1>1. 0 \in 0 .. MaxExits
  BY SessionsAssumption
<1>2. stopping \in BOOLEAN /\ ~stopping
  BY DEF Init
<1>3. TypeOK
  BY <1>1, <1>2 DEF Init, TypeOK
<1>4. TableNamesTheOwner /\ HandlerCloses
  BY DEF Init, TableNamesTheOwner, HandlerCloses, Running, Unused
<1> QED  BY <1>2, <1>3, <1>4 DEF TableInv, ExitsBounded

LEMMA AcquireTyped ==
    ASSUME TableInv, NEW g \in Sessions, NEW d \in Devices, NEW capped \in BOOLEAN,
           Acquire(g, d, capped)
    PROVE  TypeOK'
<1> DEFINE r == [pc |-> "push", dev |-> d, port |-> PortOf(count + 1),
                 cancelled |-> FALSE, close |-> "open", by |-> "nobody",
                 video |-> Nobody, stuck |-> FALSE]
<1>1. r \in Handlers
  BY PortInRange DEF Handlers, TableInv, TypeOK
<1>2. \A h \in Sessions : h = live[d] => [ses[h] EXCEPT !.cancelled = TRUE] \in Handlers
  <2> SUFFICES ASSUME NEW h \in Sessions, h = live[d]
               PROVE  [ses[h] EXCEPT !.cancelled = TRUE] \in Handlers
    OBVIOUS
  <2>1. Running(h)
    BY NobodyIsNoSession DEF TableInv, TableNamesTheOwner
  <2> QED  BY <2>1, UsedIsHandler, CancelledTyped DEF TableInv, Running
<1>3. ses' \in [Sessions -> Handlers \cup {Unused}]
  BY <1>1, <1>2 DEF Acquire, TableInv, TypeOK
<1>4. /\ live' = [live EXCEPT ![d] = g] /\ ctrl' = [ctrl EXCEPT ![d] = Nobody]
      /\ count' = count + 1
      /\ UNCHANGED <<servers, tunnel, stopping, exits>>
  BY DEF Acquire, world
<1> QED  BY <1>3, <1>4 DEF TableInv, TypeOK

LEMMA HandlerTyped ==
    ASSUME TypeOK, NEW g \in Sessions, SessionStep(g) \/ Ends(g)
    PROVE  TypeOK'
<1>1. ses[g] \in Handlers
  BY UsedIsHandler
     DEF SessionStep, Ends, StreamEnds, InputFails, KillAndPush, Forward, Launch, Connect,
         ConnectFails, Handshake, Stall, Unstall, Register, StreamStops, CloseRemove, Release, At
<1>2. ses[g].port \in LocalPorts /\ ses[g].dev \in Devices
  BY <1>1, HandlerFields
<1>3. CASE KillAndPush(g)
  <2>1. ses' \in [Sessions -> Handlers \cup {Unused}]
    BY <1>1, <1>3, GoToTyped DEF KillAndPush
  <2> QED  BY <1>3, <2>1 DEF KillAndPush, Killed, TypeOK, table
<1>4. CASE Forward(g)
  <2>1. ses' \in [Sessions -> Handlers \cup {Unused}]
    BY <1>1, <1>4, GoToTyped DEF Forward
  <2> QED  BY <1>2, <1>4, <2>1 DEF Forward, TypeOK, table
<1>5. CASE Launch(g)
  <2>1. ses' \in [Sessions -> Handlers \cup {Unused}]
    BY <1>1, <1>5, GoToTyped, StartCloseTyped DEF Launch
  <2> QED  BY <1>5, <2>1 DEF Launch, TypeOK, table
<1>6. CASE Connect(g)
  <2>1. tunnel[ses[g].port] \in Sessions
    BY <1>6 DEF Connect, TypeOK
  <2>2. [ses[g] EXCEPT !.pc = "handshake", !.video = tunnel[ses[g].port]] \in Handlers
    BY <1>1, <2>1 DEF Handlers
  <2>3. ses' \in [Sessions -> Handlers \cup {Unused}]
    BY <1>6, <2>2 DEF Connect, TypeOK
  <2> QED  BY <1>6, <2>3 DEF Connect, TypeOK, table, world
<1>7. CASE ConnectFails(g)
  <2>1. ses' \in [Sessions -> Handlers \cup {Unused}]
    BY <1>1, <1>7, StartCloseTyped DEF ConnectFails
  <2> QED  BY <1>7, <2>1 DEF ConnectFails, TypeOK, table, world
<1>8. CASE Register(g)
  <2>1. ses' \in [Sessions -> Handlers \cup {Unused}]
    BY <1>1, <1>8, GoToTyped DEF Register
  <2> QED  BY <1>2, <1>8, <2>1 DEF Register, TypeOK, world
<1>9. CASE StreamStops(g) \/ StreamEnds(g)
  <2>1. ses' \in [Sessions -> Handlers \cup {Unused}]
    BY <1>1, <1>9, GoToTyped, StartCloseTyped DEF StreamStops, StreamEnds, EndStream
  <2> QED  BY <1>9, <2>1 DEF StreamStops, StreamEnds, EndStream, TypeOK, table, world
<1>10. CASE InputFails(g)
  <2>1. ses' \in [Sessions -> Handlers \cup {Unused}]
    BY <1>1, <1>10, StartCloseTyped DEF InputFails
  <2> QED  BY <1>10, <2>1 DEF InputFails, TypeOK, table, world
<1>11. CASE CloseRemove(g)
  <2>1. [ses[g] EXCEPT !.close = "closed",
                       !.pc = IF ses[g].by = "handler" THEN "release" ELSE @] \in Handlers
    BY <1>1 DEF Handlers
  <2>2. ses' \in [Sessions -> Handlers \cup {Unused}]
    BY <1>11, <2>1 DEF CloseRemove, TypeOK
  <2> QED  BY <1>2, <1>11, <2>2 DEF CloseRemove, TypeOK, table
<1>12. CASE Release(g)
  <2>1. ses' \in [Sessions -> Handlers \cup {Unused}]
    BY <1>1, <1>12, GoToTyped DEF Release
  <2> QED  BY <1>2, <1>12, <2>1 DEF Release, TypeOK, world
<1>13. CASE Handshake(g)
  <2>1. ses' \in [Sessions -> Handlers \cup {Unused}]
    BY <1>1, <1>13, GoToTyped, StartCloseTyped DEF Handshake
  <2> QED  BY <1>13, <2>1 DEF Handshake, TypeOK, table, world
<1>14. CASE Stall(g) \/ Unstall(g)
  <2>1. ses' \in [Sessions -> Handlers \cup {Unused}]
    BY <1>1, <1>14, StuckTyped DEF Stall, Unstall
  <2> QED  BY <1>14, <2>1 DEF Stall, Unstall, TypeOK, table, world
<1> QED
  BY <1>3, <1>4, <1>5, <1>6, <1>7, <1>8, <1>9, <1>10, <1>11, <1>12, <1>13, <1>14
     DEF SessionStep, Ends

LEMMA WorldTyped ==
    ASSUME TableInv,
           (\E g \in Sessions : CloseKill(g) \/ ServerDies(g)) \/ CloseAll \/ Exit
    PROVE  TypeOK'
<1> USE DEF TableInv
<1>1. ASSUME NEW g \in Sessions, CloseKill(g) PROVE TypeOK'
  <2>1. ses[g] \in Handlers
    BY <1>1, UsedIsHandler DEF CloseKill
  <2>2. [ses[g] EXCEPT !.close = "removing"] \in Handlers
    BY <2>1 DEF Handlers
  <2> QED  BY <1>1, <2>2 DEF CloseKill, Killed, TypeOK, table
<1>2. ASSUME NEW g \in Sessions, ServerDies(g) PROVE TypeOK'
  BY <1>2 DEF ServerDies, TypeOK, table
<1>3. CASE CloseAll
  <2>1. ASSUME NEW g \in Sessions, NEW d \in Devices, live[d] = g
        PROVE  [ses[g] EXCEPT !.cancelled = TRUE] \in Handlers
    <3>1. Running(g)
      BY <2>1, NobodyIsNoSession DEF TableNamesTheOwner
    <3> QED  BY <3>1, UsedIsHandler, CancelledTyped DEF Running
  <2>2. ses' \in [Sessions -> Handlers \cup {Unused}]
    BY <1>3, <2>1 DEF CloseAll, TypeOK
  <2> QED  BY <1>3, <2>2 DEF CloseAll, TypeOK, table, world
<1>4. CASE Exit
  <2>1. ASSUME NEW g \in Sessions, Running(g) \/ At(g, "over")
        PROVE  [ses[g] EXCEPT !.pc = "dead", !.video = Nobody] \in Handlers
    <3>1. ses[g] \in Handlers
      BY <2>1, UsedIsHandler DEF Running, At
    <3> QED  BY <3>1 DEF Handlers
  <2>2. ses' \in [Sessions -> Handlers \cup {Unused}]
    BY <1>4, <2>1 DEF Exit, TypeOK
  <2>3. exits' \in 0 .. MaxExits
    <3>1. stopping /\ exits' = exits + 1
      BY <1>4 DEF Exit
    <3>2. exits < MaxExits
      BY <3>1 DEF ExitsBounded
    <3> QED  BY <3>1, <3>2, SessionsAssumption DEF TypeOK
  <2> QED  BY <1>4, <2>2, <2>3 DEF Exit, TypeOK, world
<1> QED  BY <1>1, <1>2, <1>3, <1>4

-----------------------------------------------------------------------------
(* The table.                                                              *)

LEMMA AcquireOwner ==
    ASSUME TableInv, NEW g \in Sessions, NEW d \in Devices, NEW capped \in BOOLEAN,
           Acquire(g, d, capped)
    PROVE  TableNamesTheOwner' /\ HandlerCloses'
<1>1. /\ ses[g] = Unused /\ live' = [live EXCEPT ![d] = g]
      /\ ses' = [h \in Sessions |->
                   IF h = g
                   THEN [pc |-> "push", dev |-> d, port |-> PortOf(count + 1),
                         cancelled |-> FALSE, close |-> "open", by |-> "nobody",
                         video |-> Nobody, stuck |-> FALSE]
                   ELSE IF h = live[d] THEN [ses[h] EXCEPT !.cancelled = TRUE]
                   ELSE ses[h]]
  BY DEF Acquire
<1>2. /\ ses'[g].pc = "push" /\ ses'[g].dev = d /\ ses'[g].close = "open"
      /\ live'[d] = g /\ \A e \in Devices \ {d} : live'[e] = live[e]
  BY <1>1 DEF TableInv, TypeOK
<1>3. \A h \in Sessions \ {g} :
          /\ ses'[h].pc = ses[h].pc /\ ses'[h].close = ses[h].close
          /\ ses[h] # Unused => ses'[h].dev = ses[h].dev /\ ses'[h].by = ses[h].by
          /\ h # live[d] => ses'[h] = ses[h]
          /\ h = live[d] => ses'[h].cancelled
  <2> SUFFICES ASSUME NEW h \in Sessions \ {g}
               PROVE  /\ ses'[h].pc = ses[h].pc /\ ses'[h].close = ses[h].close
                      /\ ses[h] # Unused => /\ ses'[h].dev = ses[h].dev
                                            /\ ses'[h].by = ses[h].by
                      /\ h # live[d] => ses'[h] = ses[h]
                      /\ h = live[d] => ses'[h].cancelled
    OBVIOUS
  <2>1. CASE h # live[d]
    BY <1>1, <2>1
  <2>2. CASE h = live[d]
    <3>1. Running(h)
      BY <2>2, NobodyIsNoSession DEF TableInv, TableNamesTheOwner
    <3>2. ses[h] \in Handlers
      BY <3>1, UsedIsHandler DEF TableInv, Running
    <3>3. ses'[h] = [ses[h] EXCEPT !.cancelled = TRUE]
      BY <1>1, <2>2
    <3> QED  BY <2>2, <3>2, <3>3 DEF Handlers
  <2> QED  BY <2>1, <2>2
<1>4. \A h \in Sessions : Running(h) => ses[h] # Unused /\ h # g
  BY <1>1 DEF Running, Unused
<1>5. HandlerCloses'
  <2> SUFFICES ASSUME NEW h \in Sessions,
                      ses'[h].close \in {"killing", "removing"}, ses'[h].by = "handler"
               PROVE  ses'[h].pc \in {"closing", "dead"}
    BY DEF HandlerCloses
  <2>1. h # g
    BY <1>2
  <2>2. ses[h] # Unused
    BY <1>3, <2>1 DEF Unused
  <2> QED  BY <1>3, <2>1, <2>2 DEF TableInv, HandlerCloses
<1>6. \A h \in Sessions : Running(h)' /\ ~ses'[h].cancelled => live'[ses'[h].dev] = h
  <2> SUFFICES ASSUME NEW h \in Sessions \ {g}, Running(h)', ~ses'[h].cancelled
               PROVE  live'[ses'[h].dev] = h
    BY <1>2
  <2>1. h # live[d] /\ ses'[h] = ses[h] /\ Running(h)
    BY <1>3 DEF Running
  <2>2. live[ses[h].dev] = h
    BY <2>1 DEF TableInv, TableNamesTheOwner
  <2>3. ses[h].dev \in Devices
    BY <2>1, UsedIsHandler, HandlerFields DEF TableInv, Running
  <2> QED  BY <1>2, <2>1, <2>2, <2>3
<1>7. \A e \in Devices :
         live'[e] # Nobody => /\ ses'[live'[e]].pc \notin {"unused", "over", "dead"}
                              /\ ses'[live'[e]].dev = e
  <2> SUFFICES ASSUME NEW e \in Devices \ {d}, live'[e] # Nobody
               PROVE  /\ ses'[live'[e]].pc \notin {"unused", "over", "dead"}
                      /\ ses'[live'[e]].dev = e
    BY <1>2
  <2>1. live'[e] = live[e] /\ live[e] \in Sessions
    BY <1>2 DEF TableInv, TypeOK
  <2>2. Running(live[e]) /\ ses[live[e]].dev = e
    BY <2>1 DEF TableInv, TableNamesTheOwner
  <2> QED  BY <1>3, <1>4, <2>1, <2>2 DEF Running
<1> QED  BY <1>5, <1>6, <1>7 DEF TableNamesTheOwner, Running

\* A step of one session that neither starts nor ends it leaves the table right.
LEMMA OwnStepKeepsOwner ==
    ASSUME TypeOK, TableNamesTheOwner, NEW g \in Sessions, UNCHANGED live,
           \A h \in Sessions \ {g} : ses'[h] = ses[h],
           ses'[g].dev = ses[g].dev, ses'[g].cancelled = ses[g].cancelled,
           Running(g)' <=> Running(g)
    PROVE  TableNamesTheOwner'
<1>1. \A h \in Sessions : /\ Running(h)' <=> Running(h)
                          /\ ses'[h].dev = ses[h].dev
                          /\ ses'[h].cancelled = ses[h].cancelled
  BY DEF Running
<1>2. \A d \in Devices : live[d] \in Sessions \cup {Nobody}
  BY DEF TypeOK
<1> QED  BY <1>1, <1>2 DEF TableNamesTheOwner, Running

LEMMA OwnStepKeepsCloses ==
    ASSUME HandlerCloses, NEW g \in Sessions,
           \A h \in Sessions \ {g} : ses'[h] = ses[h],
           ses'[g].close \in {"killing", "removing"} /\ ses'[g].by = "handler"
               => ses'[g].pc \in {"closing", "dead"}
    PROVE  HandlerCloses'
BY DEF HandlerCloses

\* The steps of a handler or a close that leave the session running, or not.
LEMMA HandlerOwner ==
    ASSUME TableInv, NEW g \in Sessions,
           SessionStep(g) \/ Ends(g) \/ CloseKill(g),
           ~Release(g)
    PROVE  TableNamesTheOwner' /\ HandlerCloses'
<1> USE DEF TableInv
<1>1. ses[g] \in Handlers
  BY UsedIsHandler
     DEF SessionStep, Ends, StreamEnds, InputFails, KillAndPush, Forward, Launch, Connect,
         ConnectFails, Handshake, Stall, Unstall, Register, StreamStops, CloseRemove, CloseKill, At
<1>2. /\ ses \in [Sessions -> Handlers \cup {Unused}] /\ DOMAIN ses = Sessions
      /\ \A h \in Sessions \ {g}, r \in Handlers : [ses EXCEPT ![g] = r][h] = ses[h]
  BY DEF TypeOK
<1>3. ASSUME NEW pc \in {"forward", "launch", "connect", "register", "stream", "release"},
             GoTo(g, pc),
             ses[g].pc \in {"push", "forward", "launch", "connect", "handshake",
                            "register", "stream"}
      PROVE  /\ \A h \in Sessions \ {g} : ses'[h] = ses[h]
             /\ ses'[g].dev = ses[g].dev /\ ses'[g].cancelled = ses[g].cancelled
             /\ Running(g)' <=> Running(g)
             /\ HandlerCloses'
  <2>1. /\ \A h \in Sessions \ {g} : ses'[h] = ses[h]
        /\ ses'[g] = [ses[g] EXCEPT !.pc = pc]
    BY <1>2, <1>3 DEF GoTo
  <2>2. /\ ses'[g].dev = ses[g].dev /\ ses'[g].cancelled = ses[g].cancelled
        /\ ses'[g].close = ses[g].close /\ ses'[g].by = ses[g].by /\ ses'[g].pc = pc
    BY <1>1, <2>1 DEF Handlers
  <2>3. ~(ses[g].close \in {"killing", "removing"} /\ ses[g].by = "handler")
    BY <1>3 DEF HandlerCloses
  <2>4. HandlerCloses'
    BY <2>1, <2>2, <2>3, OwnStepKeepsCloses
  <2> QED  BY <1>3, <2>1, <2>2, <2>4 DEF Running
<1>4. ASSUME NEW pc, NEW who, StartClose(g, pc, who),
             <<pc, who>> \in {<<"closing", "handler">>, <<"stream", "input">>},
             Running(g)
      PROVE  /\ \A h \in Sessions \ {g} : ses'[h] = ses[h]
             /\ ses'[g].dev = ses[g].dev /\ ses'[g].cancelled = ses[g].cancelled
             /\ Running(g)' <=> Running(g)
             /\ HandlerCloses'
  <2>1. /\ \A h \in Sessions \ {g} : ses'[h] = ses[h]
        /\ ses'[g] = [ses[g] EXCEPT !.pc = pc, !.close = "killing", !.by = who]
    BY <1>2, <1>4 DEF StartClose
  <2>2. /\ ses'[g].dev = ses[g].dev /\ ses'[g].cancelled = ses[g].cancelled
        /\ ses'[g].by = who /\ ses'[g].pc = pc
    BY <1>1, <2>1 DEF Handlers
  <2> QED  BY <1>4, <2>1, <2>2 DEF HandlerCloses, Running
<1>5. ASSUME UNCHANGED live, \A h \in Sessions \ {g} : ses'[h] = ses[h],
             ses'[g].dev = ses[g].dev, ses'[g].cancelled = ses[g].cancelled,
             Running(g)' <=> Running(g)
      PROVE  TableNamesTheOwner'
  BY <1>5, OwnStepKeepsOwner
<1>6. CASE KillAndPush(g)
  BY <1>3, <1>5, <1>6 DEF KillAndPush, At, table
<1>7. CASE Forward(g)
  BY <1>3, <1>5, <1>7 DEF Forward, At, table
<1>8. CASE Launch(g)
  BY <1>3, <1>4, <1>5, <1>8 DEF Launch, At, table, Running
<1>9. CASE Connect(g)
  <2>1. /\ \A h \in Sessions \ {g} : ses'[h] = ses[h]
        /\ ses'[g] = [ses[g] EXCEPT !.pc = "handshake", !.video = tunnel[ses[g].port]]
        /\ UNCHANGED live /\ ses[g].pc = "connect"
    BY <1>2, <1>9 DEF Connect, At, table
  <2>2. /\ ses'[g].dev = ses[g].dev /\ ses'[g].cancelled = ses[g].cancelled
        /\ ses'[g].close = ses[g].close /\ ses'[g].by = ses[g].by /\ ses'[g].pc = "handshake"
    BY <1>1, <2>1 DEF Handlers
  <2>3. ~(ses[g].close \in {"killing", "removing"} /\ ses[g].by = "handler")
    BY <2>1 DEF HandlerCloses
  <2>4. HandlerCloses'
    BY <2>1, <2>2, <2>3, OwnStepKeepsCloses
  <2> QED  BY <1>5, <2>1, <2>2, <2>4 DEF Running
<1>10. CASE ConnectFails(g)
  BY <1>4, <1>5, <1>10 DEF ConnectFails, At, table, Running
<1>11. CASE Register(g)
  BY <1>3, <1>5, <1>11 DEF Register, At
<1>12. CASE StreamStops(g) \/ StreamEnds(g)
  BY <1>3, <1>4, <1>5, <1>12 DEF StreamStops, StreamEnds, EndStream, At, table, Running
<1>13. CASE InputFails(g)
  BY <1>4, <1>5, <1>13 DEF InputFails, At, table, Running
<1>14. CASE CloseRemove(g)
  <2>1. /\ \A h \in Sessions \ {g} : ses'[h] = ses[h]
        /\ ses'[g] = [ses[g] EXCEPT !.close = "closed",
                                    !.pc = IF ses[g].by = "handler" THEN "release" ELSE @]
        /\ UNCHANGED live /\ ses[g].pc # "dead" /\ ses[g].close = "removing"
    BY <1>2, <1>14 DEF CloseRemove, At, table
  <2>2. /\ ses'[g].dev = ses[g].dev /\ ses'[g].cancelled = ses[g].cancelled
        /\ ses'[g].close = "closed" /\ ses'[g].by = ses[g].by
        /\ ses'[g].pc = IF ses[g].by = "handler" THEN "release" ELSE ses[g].pc
    BY <1>1, <2>1 DEF Handlers
  <2>3. Running(g)' <=> Running(g)
    BY <2>1, <2>2 DEF HandlerCloses, Running
  <2> QED  BY <1>5, <2>1, <2>2, <2>3 DEF HandlerCloses
<1>15. CASE CloseKill(g)
  <2>1. /\ \A h \in Sessions \ {g} : ses'[h] = ses[h]
        /\ ses'[g] = [ses[g] EXCEPT !.close = "removing"]
        /\ UNCHANGED live /\ ses[g].close = "killing"
    BY <1>2, <1>15 DEF CloseKill, table
  <2>2. /\ ses'[g].dev = ses[g].dev /\ ses'[g].cancelled = ses[g].cancelled
        /\ ses'[g].close = "removing" /\ ses'[g].by = ses[g].by /\ ses'[g].pc = ses[g].pc
    BY <1>1, <2>1 DEF Handlers
  <2> QED  BY <1>5, <2>1, <2>2 DEF HandlerCloses, Running
<1>16. CASE Handshake(g)
  BY <1>3, <1>4, <1>5, <1>16 DEF Handshake, At, table, Running
<1>17. CASE Stall(g) \/ Unstall(g)
  <2>1. /\ \A h \in Sessions \ {g} : ses'[h] = ses[h]
        /\ \E b \in BOOLEAN : ses'[g] = [ses[g] EXCEPT !.stuck = b]
        /\ UNCHANGED live
    BY <1>2, <1>17 DEF Stall, Unstall, table
  <2>2. /\ ses'[g].dev = ses[g].dev /\ ses'[g].cancelled = ses[g].cancelled
        /\ ses'[g].close = ses[g].close /\ ses'[g].by = ses[g].by /\ ses'[g].pc = ses[g].pc
    BY <1>1, <2>1 DEF Handlers
  <2> QED  BY <1>5, <2>1, <2>2 DEF HandlerCloses, Running
<1> QED
  BY <1>6, <1>7, <1>8, <1>9, <1>10, <1>11, <1>12, <1>13, <1>14, <1>15, <1>16, <1>17
     DEF SessionStep, Ends

LEMMA ReleaseOwner ==
    ASSUME TableInv, NEW g \in Sessions, Release(g)
    PROVE  TableNamesTheOwner' /\ HandlerCloses'
<1> USE DEF TableInv
<1>1. ses[g] \in Handlers /\ ses[g].pc = "release"
  BY UsedIsHandler DEF Release, At
<1>2. /\ \A h \in Sessions \ {g} : ses'[h] = ses[h]
      /\ ses'[g] = [ses[g] EXCEPT !.pc = "over"]
  BY DEF Release, GoTo, TypeOK
<1>3. /\ ses'[g].dev = ses[g].dev /\ ses'[g].cancelled = ses[g].cancelled
      /\ ses'[g].close = ses[g].close /\ ses'[g].by = ses[g].by /\ ses'[g].pc = "over"
  BY <1>1, <1>2 DEF Handlers
<1>4. /\ ses[g].dev \in Devices
      /\ \A d \in Devices \ {ses[g].dev} : live'[d] = live[d]
      /\ live'[ses[g].dev] = IF live[ses[g].dev] = g THEN Nobody ELSE live[ses[g].dev]
  BY <1>1, HandlerFields DEF Release, TypeOK
<1>5. \A d \in Devices : live[d] \in Sessions \cup {Nobody}
  BY DEF TypeOK
<1>6. TableNamesTheOwner'
  <2>1. \A h \in Sessions :
           Running(h)' /\ ~ses'[h].cancelled => live'[ses'[h].dev] = h
    <3> SUFFICES ASSUME NEW h \in Sessions \ {g}, Running(h)', ~ses'[h].cancelled
                 PROVE  live'[ses'[h].dev] = h
      BY <1>3 DEF Running
    <3>1. ses'[h] = ses[h] /\ Running(h)
      BY <1>2 DEF Running
    <3>2. live[ses[h].dev] = h /\ ses[h].dev \in Devices
      BY <3>1, UsedIsHandler, HandlerFields DEF TableNamesTheOwner, Running
    <3> QED  BY <1>4, <3>1, <3>2
  <2>2. \A d \in Devices :
           live'[d] # Nobody => /\ ses'[live'[d]].pc \notin {"unused", "over", "dead"}
                                /\ ses'[live'[d]].dev = d
    <3> SUFFICES ASSUME NEW d \in Devices, live'[d] # Nobody
                 PROVE  /\ ses'[live'[d]].pc \notin {"unused", "over", "dead"}
                        /\ ses'[live'[d]].dev = d
      OBVIOUS
    <3>1. live'[d] = live[d] /\ live[d] \in Sessions
      BY <1>4, <1>5
    <3>2. Running(live[d]) /\ ses[live[d]].dev = d
      BY <3>1 DEF TableNamesTheOwner
    <3>3. live[d] # g
      BY <1>4, <3>1, <3>2
    <3> QED  BY <1>2, <3>1, <3>2, <3>3 DEF Running
  <2> QED  BY <2>1, <2>2 DEF TableNamesTheOwner, Running
<1>7. HandlerCloses'
  <2>1. ~(ses[g].close \in {"killing", "removing"} /\ ses[g].by = "handler")
    BY <1>1 DEF HandlerCloses
  <2> QED  BY <1>2, <1>3, <2>1, OwnStepKeepsCloses
<1> QED  BY <1>6, <1>7

LEMMA ShutdownOwner ==
    ASSUME TableInv, CloseAll \/ Exit
    PROVE  TableNamesTheOwner' /\ HandlerCloses'
<1> USE DEF TableInv
<1>1. CASE CloseAll
  <2>1. /\ UNCHANGED live
        /\ \A h \in Sessions :
              ses'[h] = IF \E d \in Devices : live[d] = h
                        THEN [ses[h] EXCEPT !.cancelled = TRUE] ELSE ses[h]
    BY <1>1 DEF CloseAll, table
  <2>2. ASSUME NEW h \in Sessions
        PROVE  /\ ses'[h].pc = ses[h].pc /\ ses'[h].close = ses[h].close
               /\ ses[h] # Unused => ses'[h].dev = ses[h].dev /\ ses'[h].by = ses[h].by
               /\ ~ses'[h].cancelled => ses'[h] = ses[h]
    <3>1. CASE \E d \in Devices : live[d] = h
      <4>1. Running(h)
        BY <3>1, NobodyIsNoSession DEF TableNamesTheOwner
      <4>2. ses[h] \in Handlers
        BY <4>1, UsedIsHandler DEF Running
      <4>3. ses'[h] = [ses[h] EXCEPT !.cancelled = TRUE]
        BY <2>1, <3>1
      <4> QED  BY <4>2, <4>3 DEF Handlers
    <3>2. CASE ~\E d \in Devices : live[d] = h
      BY <2>1, <3>2
    <3> QED  BY <3>1, <3>2
  <2>3. \A h \in Sessions : Running(h) => ses[h] # Unused
    BY DEF Running, Unused
  <2>4. \A d \in Devices : live[d] \in Sessions \cup {Nobody}
    BY DEF TypeOK
  <2>5. TableNamesTheOwner'
    BY <2>1, <2>2, <2>3, <2>4 DEF TableNamesTheOwner, Running
  <2>6. HandlerCloses'
    <3> SUFFICES ASSUME NEW h \in Sessions,
                        ses'[h].close \in {"killing", "removing"}, ses'[h].by = "handler"
                 PROVE  ses'[h].pc \in {"closing", "dead"}
      BY DEF HandlerCloses
    <3>1. ses[h] # Unused
      BY <2>2 DEF Unused
    <3> QED  BY <2>2, <3>1 DEF HandlerCloses
  <2> QED  BY <2>5, <2>6
<1>2. CASE Exit
  <2>1. /\ \A d \in Devices : live'[d] = Nobody
        /\ \A h \in Sessions :
              ses'[h] = IF \/ Running(h)
                           \/ At(h, "over") /\ ses[h].close \in {"killing", "removing"}
                        THEN [ses[h] EXCEPT !.pc = "dead", !.video = Nobody] ELSE ses[h]
    BY <1>2 DEF Exit
  <2>2. ASSUME NEW h \in Sessions
        PROVE  ses'[h].pc = "dead" \/ (ses'[h] = ses[h] /\ ~Running(h))
    <3>1. CASE Running(h) \/ (At(h, "over") /\ ses[h].close \in {"killing", "removing"})
      <4>1. ses[h] \in Handlers
        BY <3>1, UsedIsHandler DEF Running, At
      <4>2. ses'[h] = [ses[h] EXCEPT !.pc = "dead", !.video = Nobody]
        BY <2>1, <3>1
      <4> QED  BY <4>1, <4>2 DEF Handlers
    <3> QED  BY <2>1, <3>1
  <2>3. TableNamesTheOwner'
    BY <2>1, <2>2 DEF TableNamesTheOwner, Running
  <2>4. HandlerCloses'
    BY <2>2 DEF HandlerCloses
  <2> QED  BY <2>3, <2>4
<1> QED  BY <1>1, <1>2

LEMMA TableStep == TableInv /\ [Next]_vars => TableInv'
<1> SUFFICES ASSUME TableInv, [Next]_vars PROVE TableInv'
  OBVIOUS
<1>1. ExitsBounded'
  <2>1. (UNCHANGED <<stopping, exits>>) \/ CloseAll \/ Exit
    BY DEF Next, vars, SessionStep, Acquire, KillAndPush, Forward, Launch, Connect,
           ConnectFails, Handshake, Stall, Unstall, Register,
           StreamStops, StreamEnds, EndStream, InputFails,
           CloseKill, CloseRemove, Release, ServerDies
  <2>2. CASE UNCHANGED <<stopping, exits>>
    BY <2>2 DEF TableInv, ExitsBounded
  <2>3. CASE CloseAll
    BY <2>3 DEF CloseAll, ExitsBounded
  <2>4. CASE Exit
    BY <2>4 DEF Exit, ExitsBounded
  <2> QED  BY <2>1, <2>2, <2>3, <2>4
<1>2. ASSUME NEW g \in Sessions, NEW d \in Devices, NEW capped \in BOOLEAN,
             Acquire(g, d, capped)
      PROVE  TypeOK' /\ TableNamesTheOwner' /\ HandlerCloses'
  BY <1>2, AcquireTyped, AcquireOwner
<1>3. ASSUME NEW g \in Sessions,
             SessionStep(g) \/ Ends(g) \/ CloseKill(g)
      PROVE  TypeOK' /\ TableNamesTheOwner' /\ HandlerCloses'
  <2>1. TypeOK'
    BY <1>3, HandlerTyped, WorldTyped DEF TableInv
  <2> QED  BY <1>3, <2>1, HandlerOwner, ReleaseOwner
<1>4. ASSUME NEW g \in Sessions, ServerDies(g)
      PROVE  TypeOK' /\ TableNamesTheOwner' /\ HandlerCloses'
  <2>1. UNCHANGED <<live, ses>>
    BY <1>4 DEF ServerDies, table
  <2>2. TableNamesTheOwner' /\ HandlerCloses'
    BY <2>1 DEF TableInv, TableNamesTheOwner, HandlerCloses, Running
  <2> QED  BY <1>4, <2>2, WorldTyped
<1>5. CASE CloseAll \/ Exit
  <2>1. TypeOK'
    BY <1>5, WorldTyped
  <2>2. TableNamesTheOwner' /\ HandlerCloses'
    BY <1>5, ShutdownOwner
  <2> QED  BY <1>1, <2>1, <2>2 DEF TableInv
<1>6. CASE UNCHANGED vars
  <2>1. UNCHANGED <<live, ctrl, count, ses, servers, tunnel, stopping, exits>>
    BY <1>6 DEF vars, table, world
  <2>2. TypeOK'
    BY <2>1 DEF TableInv, TypeOK
  <2>3. TableNamesTheOwner' /\ HandlerCloses'
    BY <2>1 DEF TableInv, TableNamesTheOwner, HandlerCloses, Running
  <2> QED  BY <1>1, <2>2, <2>3 DEF TableInv
<1> QED  BY <1>1, <1>2, <1>3, <1>4, <1>5, <1>6 DEF Next, Ends, TableInv

LEMMA TableHolds == Spec => []TableInv
BY InitInv, TableStep, PTL DEF Spec

\* Every handler, entry of the table, server and tunnel has its type.
THEOREM TypeCorrect == Spec => []TypeOK
BY TableHolds, PTL DEF TableInv

\* The clean-up of an earlier generation never touches the entry of a later
\* one, however many sessions overlap (acquire, release).
THEOREM OwnerHolds == Spec => []TableNamesTheOwner
BY TableHolds, PTL DEF TableInv

-----------------------------------------------------------------------------
(* Input.                                                                  *)

LEMMA InputStep ==
    ASSUME TypeOK, InputReachesTheOwner, [Next]_vars
    PROVE  InputReachesTheOwner'
<1>1. ASSUME NEW g \in Sessions, NEW d \in Devices, NEW capped \in BOOLEAN,
             Acquire(g, d, capped)
      PROVE  InputReachesTheOwner'
  <2>1. live' = [live EXCEPT ![d] = g] /\ ctrl' = [ctrl EXCEPT ![d] = Nobody]
    BY <1>1 DEF Acquire
  <2> QED  BY <2>1 DEF TypeOK, InputReachesTheOwner
<1>2. ASSUME NEW g \in Sessions, Register(g) PROVE InputReachesTheOwner'
  <2>1. /\ UNCHANGED live
        /\ ctrl' = IF live[ses[g].dev] = g THEN [ctrl EXCEPT ![ses[g].dev] = g] ELSE ctrl
    BY <1>2 DEF Register
  <2> QED  BY <2>1 DEF TypeOK, InputReachesTheOwner
<1>3. ASSUME NEW g \in Sessions, Release(g) PROVE InputReachesTheOwner'
  <2>1. \/ UNCHANGED <<live, ctrl>>
        \/ /\ live' = [live EXCEPT ![ses[g].dev] = Nobody]
           /\ ctrl' = [ctrl EXCEPT ![ses[g].dev] = Nobody]
    BY <1>3 DEF Release
  <2> QED  BY <2>1 DEF TypeOK, InputReachesTheOwner
<1>4. CASE Exit
  BY <1>4 DEF Exit, InputReachesTheOwner
<1>5. CASE UNCHANGED <<live, ctrl>>
  BY <1>5 DEF InputReachesTheOwner
<1> QED
  BY <1>1, <1>2, <1>3, <1>4, <1>5
     DEF Next, vars, table, SessionStep, KillAndPush, Forward, Launch, Connect,
         ConnectFails, Handshake, Stall, Unstall,
         StreamStops, StreamEnds, EndStream, InputFails, CloseKill,
         CloseRemove, ServerDies, CloseAll

\* Input that goes through the table reaches the session that owns the
\* device, however many sessions overlap (setController, controller).
THEOREM InputHolds == Spec => []InputReachesTheOwner
<1>1. Init => InputReachesTheOwner
  BY DEF Init, InputReachesTheOwner
<1> QED  BY <1>1, InputStep, TypeCorrect, PTL DEF Spec

\* Table and inputs of a device both belong to the session that owns it, for
\* any number of devices and of sessions that take each other over.
THEOREM OwnerServedHolds == Spec => []OwnerServed
<1>1. TableNamesTheOwner /\ InputReachesTheOwner => OwnerServed
  BY DEF OwnerServed
<1> QED  BY <1>1, OwnerHolds, InputHolds, PTL

-----------------------------------------------------------------------------
(* Servers on the devices, as long as a pkill does its work.               *)

Busy == {"forward", "launch", "connect", "handshake", "register", "stream"}

\* Nobody closes a session before it streams, unless its start fails.
EarlyOpen ==
    \A g \in Sessions :
        ses[g].pc \in {"push", "forward", "launch", "connect", "handshake", "register"}
            => ses[g].close = "open"

\* A server belongs to a session whose close has not reached it.
ServersAccounted ==
    \A g \in servers :
        /\ ses[g] # Unused /\ ses[g].close \in {"open", "killing"}
        /\ ses[g].close = "open" =>
               ses[g].pc \in {"connect", "handshake", "register", "stream", "dead"}

\* From its pkill on, the owner of a device has it to itself.
EncoderMine ==
    \A g \in Sessions, h \in servers :
        ses[g].pc \in Busy /\ ~ses[g].cancelled /\ ses[h].dev = ses[g].dev => h = g

ServerInv == EarlyOpen /\ ServersAccounted /\ EncoderMine

\* What a step of a session does to its step, its close and the servers.
Effect(g) ==
    LET from == ses[g].pc    to == ses'[g].pc
    IN  \/ /\ from = "push" /\ ses'[g].close = ses[g].close /\ servers' \subseteq servers
           /\ \/ to = "forward" /\ servers' = servers \ ServersBeside(g)
              \/ to = "release"
        \/ /\ <<from, to>> \in {<<"forward", "launch">>, <<"forward", "release">>,
                                <<"connect", "handshake">>, <<"handshake", "register">>,
                                <<"register", "stream">>, <<"release", "over">>,
                                <<"handshake", "handshake">>, <<"stream", "stream">>}
           /\ ses'[g].close = ses[g].close /\ servers' = servers
        \/ /\ from = "launch" /\ to = "connect" /\ ~ses[g].cancelled
           /\ ses'[g].close = ses[g].close /\ servers' = servers \cup {g}
        \/ /\ from \in {"launch", "connect", "handshake", "stream"} /\ servers' = servers
           /\ to = "closing" \/ (to = "stream" /\ from = "stream")
           /\ ses[g].close = "open" \/ from # "stream"
           /\ ses'[g].close = "killing"
        \/ /\ from = "stream" /\ to = "release" /\ ses[g].close # "open"
           /\ ses'[g].close = ses[g].close /\ servers' = servers
        \/ /\ ses[g].close = "removing" /\ ses'[g].close = "closed"
           /\ to \in {from, "release"} /\ servers' = servers
        \/ /\ ses[g].close = "killing" /\ ses'[g].close = "removing"
           /\ to = from /\ servers' = servers \ {g}

LEMMA HandlerEffect ==
    ASSUME TypeOK, "kill" \notin Faults, NEW g \in Sessions,
           SessionStep(g) \/ Ends(g) \/ CloseKill(g)
    PROVE  /\ ses[g] # Unused /\ \A h \in Sessions \ {g} : ses'[h] = ses[h]
           /\ ses'[g] # Unused /\ ses'[g].dev = ses[g].dev
           /\ ses'[g].cancelled = ses[g].cancelled
           /\ Effect(g)
<1>1. ses[g] \in Handlers /\ ses[g] # Unused
  BY UsedIsHandler
     DEF SessionStep, Ends, StreamEnds, InputFails, KillAndPush, Forward, Launch, Connect,
         ConnectFails, Handshake, Stall, Unstall, Register,
         StreamStops, CloseRemove, CloseKill, Release, At
<1> DEFINE Same(r) == /\ r # Unused /\ r.dev = ses[g].dev /\ r.cancelled = ses[g].cancelled
           Rest == \A h \in Sessions \ {g} : ses'[h] = ses[h]
<1>2. ASSUME NEW pc, GoTo(g, pc), pc # "unused"
      PROVE  Rest /\ Same(ses'[g]) /\ ses'[g].pc = pc /\ ses'[g].close = ses[g].close
  <2>1. Rest /\ ses'[g] = [ses[g] EXCEPT !.pc = pc]
    BY <1>2 DEF GoTo, TypeOK
  <2> QED  BY <1>1, <1>2, <2>1 DEF Handlers, Unused
<1>3. ASSUME NEW pc, NEW who, StartClose(g, pc, who), pc # "unused"
      PROVE  Rest /\ Same(ses'[g]) /\ ses'[g].pc = pc /\ ses'[g].close = "killing"
  <2>1. Rest /\ ses'[g] = [ses[g] EXCEPT !.pc = pc, !.close = "killing", !.by = who]
    BY <1>3 DEF StartClose, TypeOK
  <2> QED  BY <1>1, <1>3, <2>1 DEF Handlers, Unused
<1>4. \A some : Killed(some) = {servers \ some}
  BY DEF Killed
<1>5. CASE KillAndPush(g)
  <2>1. ServersBeside(g) \subseteq servers
    BY DEF ServersBeside
  <2> QED  BY <1>1, <1>2, <1>4, <1>5, <2>1 DEF KillAndPush, At, Effect
<1>6. CASE Forward(g)
  BY <1>1, <1>2, <1>6 DEF Forward, At, Effect
<1>7. CASE Launch(g)
  BY <1>1, <1>2, <1>3, <1>7 DEF Launch, At, Effect
<1>8. CASE Connect(g)
  <2>1. /\ Rest /\ servers' = servers /\ ses[g].pc = "connect"
        /\ ses'[g] = [ses[g] EXCEPT !.pc = "handshake", !.video = tunnel[ses[g].port]]
    BY <1>8 DEF Connect, At, TypeOK, world
  <2>2. Same(ses'[g]) /\ ses'[g].pc = "handshake" /\ ses'[g].close = ses[g].close
    BY <1>1, <2>1 DEF Handlers, Unused
  <2> QED  BY <1>1, <2>1, <2>2 DEF Effect
<1>9. CASE ConnectFails(g)
  BY <1>1, <1>3, <1>9 DEF ConnectFails, At, Effect, world
<1>10. CASE Register(g)
  BY <1>1, <1>2, <1>10 DEF Register, At, Effect, world
<1>11. CASE StreamStops(g) \/ StreamEnds(g)
  BY <1>1, <1>2, <1>3, <1>11 DEF StreamStops, StreamEnds, EndStream, At, Effect, world
<1>12. CASE InputFails(g)
  BY <1>1, <1>3, <1>12 DEF InputFails, At, Effect, world
<1>13. CASE Release(g)
  BY <1>1, <1>2, <1>13 DEF Release, At, Effect, world
<1>14. CASE CloseRemove(g)
  <2>1. /\ Rest /\ servers' = servers /\ ses[g].close = "removing"
        /\ ses'[g] = [ses[g] EXCEPT !.close = "closed",
                                    !.pc = IF ses[g].by = "handler" THEN "release" ELSE @]
    BY <1>14 DEF CloseRemove, At, TypeOK, world
  <2>2. Same(ses'[g]) /\ ses'[g].close = "closed" /\ ses'[g].pc \in {ses[g].pc, "release"}
    BY <1>1, <2>1 DEF Handlers, Unused
  <2> QED  BY <1>1, <2>1, <2>2 DEF Effect
<1>15. CASE CloseKill(g)
  <2>1. /\ Rest /\ servers' = servers \ {g} /\ ses[g].close = "killing"
        /\ ses'[g] = [ses[g] EXCEPT !.close = "removing"]
    BY <1>4, <1>15 DEF CloseKill, At, TypeOK
  <2>2. Same(ses'[g]) /\ ses'[g].close = "removing" /\ ses'[g].pc = ses[g].pc
    BY <1>1, <2>1 DEF Handlers, Unused
  <2> QED  BY <1>1, <2>1, <2>2 DEF Effect
<1>16. CASE Handshake(g)
  BY <1>1, <1>2, <1>3, <1>16 DEF Handshake, At, Effect, world
<1>17. CASE Stall(g) \/ Unstall(g)
  <2>1. /\ Rest /\ servers' = servers /\ ses[g].pc \in {"handshake", "stream"}
        /\ \E b \in BOOLEAN : ses'[g] = [ses[g] EXCEPT !.stuck = b]
    BY <1>17 DEF Stall, Unstall, At, TypeOK, world
  <2>2. Same(ses'[g]) /\ ses'[g].close = ses[g].close /\ ses'[g].pc = ses[g].pc
    BY <1>1, <2>1 DEF Handlers, Unused
  <2> QED  BY <1>1, <2>1, <2>2 DEF Effect
<1> QED
  BY <1>5, <1>6, <1>7, <1>8, <1>9, <1>10, <1>11, <1>12, <1>13, <1>14, <1>15, <1>16, <1>17
     DEF SessionStep, Ends

LEMMA HandlerServers ==
    ASSUME TableInv, ServerInv, "kill" \notin Faults, NEW g \in Sessions,
           SessionStep(g) \/ Ends(g) \/ CloseKill(g)
    PROVE  ServerInv'
<1> USE DEF ServerInv
<1>1. /\ ses[g] # Unused /\ \A h \in Sessions \ {g} : ses'[h] = ses[h]
      /\ ses'[g] # Unused /\ ses'[g].dev = ses[g].dev
      /\ ses'[g].cancelled = ses[g].cancelled
      /\ Effect(g)
  BY HandlerEffect DEF TableInv
<1>2. servers \subseteq Sessions /\ servers' \subseteq servers \cup {g}
  BY <1>1 DEF TableInv, TypeOK, Effect
<1>3. EarlyOpen'
  BY <1>1 DEF EarlyOpen, Effect
<1>4. ServersAccounted'
  <2> SUFFICES ASSUME NEW h \in servers'
               PROVE  /\ ses'[h] # Unused /\ ses'[h].close \in {"open", "killing"}
                      /\ ses'[h].close = "open" =>
                             ses'[h].pc \in {"connect", "handshake", "register",
                                             "stream", "dead"}
    BY DEF ServersAccounted
  <2>1. CASE h # g
    BY <1>1, <1>2, <2>1 DEF ServersAccounted
  <2>2. CASE h = g
    BY <1>1, <2>2 DEF ServersAccounted, EarlyOpen, Effect
  <2> QED  BY <2>1, <2>2
<1>5. EncoderMine'
  <2> SUFFICES ASSUME NEW k \in Sessions, NEW h \in servers', ses'[k].pc \in Busy,
                      ~ses'[k].cancelled, ses'[h].dev = ses'[k].dev, h # k
               PROVE  FALSE
    BY DEF EncoderMine
  <2>1. ses[h].dev = ses[k].dev /\ ~ses[k].cancelled
    BY <1>1, <1>2
  <2>2. ses[k].pc \in Busy \cup {"push"}
    BY <1>1 DEF Effect, Busy
  <2>3. CASE h \in servers
    <3>1. ses[k].pc = "push"
      BY <2>1, <2>2, <2>3 DEF EncoderMine
    <3>2. k = g /\ servers' = servers \ ServersBeside(g)
      BY <1>1, <3>1 DEF Effect, Busy
    <3> QED  BY <2>1, <2>3, <3>2 DEF ServersBeside
  <2>4. CASE h \notin servers
    <3>1. h = g /\ ses[g].pc = "launch" /\ ~ses[g].cancelled
      BY <1>1, <2>4 DEF Effect
    <3>2. live[ses[g].dev] = g /\ live[ses[k].dev] = k
      BY <2>1, <2>2, <3>1 DEF TableInv, TableNamesTheOwner, Running, Busy
    <3> QED  BY <2>1, <3>1, <3>2
  <2> QED  BY <2>3, <2>4
<1> QED  BY <1>3, <1>4, <1>5

\* Steps that start, cancel or end sessions without touching a device.
LEMMA OtherServers ==
    ASSUME ServerInv, servers \subseteq Sessions, servers' \subseteq servers,
           \A g \in Sessions :
               \/ ses'[g] = ses[g]
               \/ ses[g] = Unused /\ ses'[g].pc = "push" /\ ses'[g].close = "open"
               \/ /\ ses'[g].pc \in {ses[g].pc, "dead"} /\ ses'[g].close = ses[g].close
                  /\ ses'[g] # Unused /\ ses'[g].dev = ses[g].dev
                  /\ ses[g].cancelled => ses'[g].cancelled
    PROVE  ServerInv'
<1> USE DEF ServerInv
<1>1. EarlyOpen'
  BY DEF EarlyOpen
<1>2. ServersAccounted'
  BY DEF ServersAccounted
<1>3. EncoderMine'
  <2> SUFFICES ASSUME NEW k \in Sessions, NEW h \in servers', ses'[k].pc \in Busy,
                      ~ses'[k].cancelled, ses'[h].dev = ses'[k].dev
               PROVE  h = k
    BY DEF EncoderMine
  <2>1. ses[k].pc \in Busy /\ ~ses[k].cancelled /\ ses'[k].dev = ses[k].dev
    BY DEF Busy
  <2>2. ses'[h].dev = ses[h].dev
    BY DEF ServersAccounted
  <2> QED  BY <2>1, <2>2 DEF EncoderMine
<1> QED  BY <1>1, <1>2, <1>3

LEMMA ServerStep ==
    ASSUME "kill" \notin Faults
    PROVE  TableInv /\ ServerInv /\ [Next]_vars => ServerInv'
<1> SUFFICES ASSUME TableInv, ServerInv, [Next]_vars PROVE ServerInv'
  OBVIOUS
<1>1. servers \subseteq Sessions
  BY DEF TableInv, TypeOK
<1>2. ASSUME NEW h \in Sessions, Running(h) \/ At(h, "over"),
             NEW r, r \in {[ses[h] EXCEPT !.cancelled = TRUE],
                           [ses[h] EXCEPT !.pc = "dead", !.video = Nobody]}
      PROVE  /\ r.pc \in {ses[h].pc, "dead"} /\ r.close = ses[h].close
             /\ r # Unused /\ r.dev = ses[h].dev
             /\ ses[h].cancelled => r.cancelled
  <2>1. ses[h] \in Handlers /\ ses[h].pc # "unused"
    BY <1>2, UsedIsHandler DEF TableInv, Running, At
  <2> QED  BY <1>2, <2>1 DEF Handlers, Unused
<1>3. \A d \in Devices, h \in Sessions : live[d] = h => Running(h)
  BY NobodyIsNoSession DEF TableInv, TableNamesTheOwner
<1>4. ASSUME NEW g \in Sessions, NEW d \in Devices, NEW capped \in BOOLEAN,
             Acquire(g, d, capped)
      PROVE  ServerInv'
  <2>1. servers' = servers /\ ses[g] = Unused
    BY <1>4 DEF Acquire, world
  <2>2. \A h \in Sessions :
          \/ h = g /\ ses'[h].pc = "push" /\ ses'[h].close = "open"
          \/ h = live[d] /\ ses'[h] = [ses[h] EXCEPT !.cancelled = TRUE]
          \/ ses'[h] = ses[h]
    BY <1>4 DEF Acquire
  <2> QED  BY <1>1, <1>2, <1>3, <2>1, <2>2, OtherServers
<1>5. ASSUME NEW g \in Sessions,
             SessionStep(g) \/ Ends(g) \/ CloseKill(g)
      PROVE  ServerInv'
  BY <1>5, HandlerServers
<1>6. ASSUME NEW g \in Sessions, ServerDies(g) PROVE ServerInv'
  BY <1>1, <1>6, OtherServers DEF ServerDies
<1>7. CASE CloseAll
  <2>1. servers' = servers
    BY <1>7 DEF CloseAll, world
  <2>2. \A h \in Sessions :
          \/ /\ \E d \in Devices : live[d] = h
             /\ ses'[h] = [ses[h] EXCEPT !.cancelled = TRUE]
          \/ ses'[h] = ses[h]
    BY <1>7 DEF CloseAll
  <2> QED  BY <1>1, <1>2, <1>3, <2>1, <2>2, OtherServers
<1>8. CASE Exit
  <2>1. servers' = servers
    BY <1>8 DEF Exit, world
  <2>2. \A h \in Sessions :
          \/ /\ Running(h) \/ At(h, "over")
             /\ ses'[h] = [ses[h] EXCEPT !.pc = "dead", !.video = Nobody]
          \/ ses'[h] = ses[h]
    BY <1>8 DEF Exit
  <2> QED  BY <1>1, <1>2, <2>1, <2>2, OtherServers
<1>9. CASE UNCHANGED vars
  BY <1>1, <1>9, OtherServers DEF vars, world
<1> QED  BY <1>4, <1>5, <1>6, <1>7, <1>8, <1>9 DEF Next, Ends

LEMMA ServersHold == ASSUME "kill" \notin Faults PROVE Spec => []ServerInv
<1>1. Init => ServerInv
  BY DEF Init, ServerInv, EarlyOpen, ServersAccounted, EncoderMine, Unused
<1> QED  BY <1>1, ServerStep, TableHolds, PTL DEF Spec

\* A session that streams has the encoder of its device to itself, after any
\* takeovers and any exits of the daemon, as long as pkill does its work.
THEOREM SoleServerHolds == ASSUME "kill" \notin Faults PROVE Spec => []SoleServer
<1>1. TypeOK /\ ServerInv => SoleServer
  BY DEF TypeOK, ServerInv, EncoderMine, SoleServer, ServersBeside, At, Busy
<1> QED  BY <1>1, ServersHold, TypeCorrect, PTL

\* A session that is over has left no server on its device, cancelled half
\* way or not, as long as pkill does its work.
THEOREM NothingLeftHolds == ASSUME "kill" \notin Faults PROVE Spec => []NothingLeft
<1>1. ServerInv => NothingLeft
  BY DEF ServerInv, ServersAccounted, NothingLeft, At
<1> QED  BY <1>1, ServersHold, PTL

-----------------------------------------------------------------------------
(* Pictures.  Ports come round after Ports generations; a session needs its *)
(* port from its forward until it is connected.                            *)

Starting(g) == ses[g].pc \in {"forward", "launch", "connect"}

\* No session is still starting when the Ports-th session after it starts.
StartsAreClose ==
    \A g, h \in Sessions : Starting(g) /\ Starting(h) => h < g + Ports

\* The daemon that runs counts its sessions from b on.
NumberedFrom(b) ==
    /\ \A g \in Sessions : ses[g] # Unused <=> g <= b + count
    /\ \A g \in Sessions : Running(g) => g > b /\ ses[g].port = PortOf(g - b)
Numbered == \E b \in Nat : NumberedFrom(b)

\* A tunnel that is waited for leads to who waits, or nowhere any more.
OwnTunnel ==
    \A g \in Sessions :
        ses[g].pc \in {"launch", "connect"} => tunnel[ses[g].port] \in {g, Nobody}
OwnVideo ==
    \A g \in Sessions :
        ses[g].pc \in {"handshake", "register", "stream"} => ses[g].video = g

PictureInv == Numbered /\ OwnTunnel /\ OwnVideo

\* Numbers less than a modulus apart have different remainders.
LEMMA RemaindersDiffer ==
    ASSUME NEW P \in Nat \ {0}, NEW a \in Nat, NEW b \in Nat, a < b, b < a + P
    PROVE  a % P # b % P
<1> SUFFICES ASSUME a % P = b % P PROVE FALSE
  OBVIOUS
<1>1. /\ a = P * (a \div P) + (a % P) /\ a \div P \in Int
      /\ b = P * (b \div P) + (b % P) /\ b \div P \in Int
  OBVIOUS
<1>2. PICK q \in Int : b - a = P * q
  <2>1. b - a = P * ((b \div P) - (a \div P))
    BY <1>1
  <2>2. (b \div P) - (a \div P) \in Int
    BY <1>1
  <2> QED  BY <2>1, <2>2
<1>3. \A p, r \in Nat : p * r >= 0
  OBVIOUS
<1>4. q >= 1
  BY <1>2
<1>5. P * q = P * (q - 1) + P
  OBVIOUS
<1>6. P * (q - 1) >= 0
  BY <1>3, <1>4
<1> QED  BY <1>2, <1>5, <1>6

LEMMA PortsDiffer ==
    ASSUME TypeOK, Numbered, StartsAreClose, NEW g \in Sessions, NEW h \in Sessions,
           Starting(g), Starting(h), g # h
    PROVE  ses[g].port # ses[h].port
<1>1. PICK b \in Nat : NumberedFrom(b)
  BY DEF Numbered
<1>2. Running(g) /\ Running(h)
  BY DEF Starting, Running
<1>3. /\ g > b /\ ses[g].port = (g - b) % Ports
      /\ h > b /\ ses[h].port = (h - b) % Ports
  BY <1>1, <1>2 DEF NumberedFrom, PortOf
<1>4. h < g + Ports /\ g < h + Ports
  BY DEF StartsAreClose
<1>5. Ports \in Nat \ {0} /\ g \in Nat /\ h \in Nat
  BY SessionsAssumption DEF Sessions
<1>6. ASSUME NEW m \in Nat, NEW n \in Nat, m > b, n > m, n < m + Ports
      PROVE  (m - b) % Ports # (n - b) % Ports
  <2>1. m - b \in Nat /\ n - b \in Nat /\ m - b < n - b /\ n - b < (m - b) + Ports
    BY <1>5, <1>6
  <2> QED  BY <1>5, <2>1, RemaindersDiffer
<1>7. g < h \/ h < g
  BY <1>5
<1> QED  BY <1>3, <1>4, <1>5, <1>6, <1>7

\* What a step of g does to the tunnels, ...
TunnelEffect(g) ==
    \A p \in LocalPorts :
        \/ tunnel'[p] \in {tunnel[p], Nobody}
        \/ tunnel'[p] = g /\ p = ses[g].port /\ ses[g].pc = "forward"

\* ... and how it comes to wait for one, and to a picture.
PictureEffect(g) ==
    /\ ses'[g].pc \in {"launch", "connect"} =>
           \/ ses[g].pc \in {"launch", "connect"}
           \/ ses[g].pc = "forward" /\ tunnel'[ses[g].port] = g
    /\ ses'[g].pc \in {"handshake", "register", "stream"} =>
           \/ /\ ses[g].pc \in {"handshake", "register", "stream"}
              /\ ses'[g].video = ses[g].video
           \/ /\ ses[g].pc = "connect"
              /\ ses'[g].video = tunnel[ses[g].port] /\ tunnel[ses[g].port] \in Sessions

LEMMA HandlerPicture ==
    ASSUME TypeOK, HandlerCloses, NEW g \in Sessions,
           SessionStep(g) \/ Ends(g) \/ CloseKill(g)
    PROVE  /\ count' = count /\ \A h \in Sessions \ {g} : ses'[h] = ses[h]
           /\ ses[g] # Unused /\ ses'[g] # Unused
           /\ ses'[g].port = ses[g].port /\ (Running(g)' => Running(g))
           /\ TunnelEffect(g) /\ PictureEffect(g)
<1> DEFINE Rest == /\ count' = count /\ ses[g] # Unused
                   /\ \A h \in Sessions \ {g} : ses'[h] = ses[h]
           Kept(r) == r # Unused /\ r.port = ses[g].port /\ r.video = ses[g].video
<1>1. ses[g] \in Handlers /\ ses[g] # Unused
  BY UsedIsHandler
     DEF SessionStep, Ends, StreamEnds, InputFails, KillAndPush, Forward, Launch, Connect,
         ConnectFails, Handshake, Stall, Unstall, Register,
         StreamStops, CloseRemove, Release, CloseKill, At
<1>2. ASSUME NEW pc, GoTo(g, pc)
      PROVE  /\ \A h \in Sessions \ {g} : ses'[h] = ses[h]
             /\ Kept(ses'[g]) /\ ses'[g].pc = pc
  BY <1>1, <1>2 DEF GoTo, TypeOK, Handlers, Unused
<1>3. ASSUME NEW pc, NEW who, StartClose(g, pc, who)
      PROVE  /\ \A h \in Sessions \ {g} : ses'[h] = ses[h]
             /\ Kept(ses'[g]) /\ ses'[g].pc = pc
  BY <1>1, <1>3 DEF StartClose, TypeOK, Handlers, Unused
<1>4. UNCHANGED tunnel => TunnelEffect(g)
  BY DEF TunnelEffect
<1>5. ses[g].port \in LocalPorts
  BY <1>1 DEF Handlers
<1>6. CASE KillAndPush(g)
  BY <1>1, <1>2, <1>4, <1>6 DEF KillAndPush, At, PictureEffect, Running, table
<1>7. CASE Forward(g)
  <2>1. TunnelEffect(g)
    BY <1>5, <1>7 DEF Forward, At, TunnelEffect, TypeOK
  <2>2. ses'[g].pc = "launch" => tunnel'[ses[g].port] = g
    BY <1>2, <1>5, <1>7 DEF Forward, At, TypeOK
  <2>3. ses'[g].pc \in {"launch", "release"} /\ ses[g].pc = "forward"
    BY <1>2, <1>7 DEF Forward, At
  <2> QED  BY <1>1, <1>2, <1>7, <2>1, <2>2, <2>3 DEF Forward, PictureEffect, Running, table
<1>8. CASE Launch(g)
  BY <1>1, <1>2, <1>3, <1>4, <1>8 DEF Launch, At, PictureEffect, Running, table
<1>9. CASE Connect(g)
  <2>1. /\ Rest /\ UNCHANGED tunnel /\ ses[g].pc = "connect"
        /\ ses'[g] = [ses[g] EXCEPT !.pc = "handshake", !.video = tunnel[ses[g].port]]
        /\ tunnel[ses[g].port] \in Sessions
    BY <1>1, <1>9 DEF Connect, At, TypeOK, table, world
  <2>2. /\ ses'[g] # Unused /\ ses'[g].port = ses[g].port /\ ses'[g].pc = "handshake"
        /\ ses'[g].video = tunnel[ses[g].port]
    BY <1>1, <2>1 DEF Handlers, Unused
  <2> QED  BY <1>1, <1>4, <2>1, <2>2 DEF PictureEffect, Running
<1>10. CASE ConnectFails(g)
  BY <1>1, <1>3, <1>4, <1>10 DEF ConnectFails, At, PictureEffect, Running, table, world
<1>11. CASE Register(g)
  BY <1>1, <1>2, <1>4, <1>11 DEF Register, At, PictureEffect, Running, world
<1>12. CASE StreamStops(g) \/ StreamEnds(g)
  BY <1>1, <1>2, <1>3, <1>4, <1>12
     DEF StreamStops, StreamEnds, EndStream, At, PictureEffect, Running, table, world
<1>13. CASE InputFails(g)
  BY <1>1, <1>3, <1>4, <1>13 DEF InputFails, At, PictureEffect, Running, table, world
<1>14. CASE Release(g)
  BY <1>1, <1>2, <1>4, <1>14 DEF Release, At, PictureEffect, Running, world
<1>15. CASE CloseRemove(g)
  <2>1. /\ Rest /\ tunnel' = [tunnel EXCEPT ![ses[g].port] = Nobody]
        /\ ses'[g] = [ses[g] EXCEPT !.close = "closed",
                                    !.pc = IF ses[g].by = "handler" THEN "release" ELSE @]
        /\ Running(g) \/ At(g, "over")
    BY <1>1, <1>15 DEF CloseRemove, At, TypeOK, table, Running, Handlers, Unused
  <2>2. /\ Kept(ses'[g]) /\ ses'[g].pc \in {ses[g].pc, "release"}
        /\ ses[g].by # "handler" => ses'[g].pc = ses[g].pc
    BY <1>1, <2>1 DEF Handlers, Unused
  <2>3. TunnelEffect(g)
    BY <2>1 DEF TunnelEffect, TypeOK
  <2>4. Running(g)' => Running(g)
    BY <1>15, <2>1, <2>2 DEF Running, CloseRemove, At, HandlerCloses
  <2> QED  BY <1>1, <2>1, <2>2, <2>3, <2>4 DEF PictureEffect
<1>16. CASE CloseKill(g)
  <2>1. /\ Rest /\ UNCHANGED tunnel /\ ses'[g] = [ses[g] EXCEPT !.close = "removing"]
    BY <1>1, <1>16 DEF CloseKill, TypeOK, table
  <2>2. Kept(ses'[g]) /\ ses'[g].pc = ses[g].pc
    BY <1>1, <2>1 DEF Handlers, Unused
  <2> QED  BY <1>1, <1>4, <2>1, <2>2 DEF PictureEffect, Running
<1>17. CASE Handshake(g)
  BY <1>1, <1>2, <1>3, <1>4, <1>17
     DEF Handshake, At, PictureEffect, Running, table, world
<1>18. CASE Stall(g) \/ Unstall(g)
  <2>1. /\ Rest /\ UNCHANGED tunnel /\ ses[g].pc \in {"handshake", "stream"}
        /\ \E b \in BOOLEAN : ses'[g] = [ses[g] EXCEPT !.stuck = b]
    BY <1>1, <1>18 DEF Stall, Unstall, At, TypeOK, table, world
  <2>2. Kept(ses'[g]) /\ ses'[g].pc = ses[g].pc
    BY <1>1, <2>1 DEF Handlers, Unused
  <2> QED  BY <1>1, <1>4, <2>1, <2>2 DEF PictureEffect, Running
<1> QED
  BY <1>6, <1>7, <1>8, <1>9, <1>10, <1>11, <1>12, <1>13, <1>14, <1>15, <1>16, <1>17, <1>18
     DEF SessionStep, Ends

LEMMA HandlerKeepsPicture ==
    ASSUME TableInv, PictureInv, StartsAreClose, NEW g \in Sessions,
           SessionStep(g) \/ Ends(g) \/ CloseKill(g)
    PROVE  PictureInv'
<1> USE DEF PictureInv
<1>1. /\ count' = count /\ \A h \in Sessions \ {g} : ses'[h] = ses[h]
      /\ ses[g] # Unused /\ ses'[g] # Unused
      /\ ses'[g].port = ses[g].port /\ (Running(g)' => Running(g))
      /\ TunnelEffect(g) /\ PictureEffect(g)
  BY HandlerPicture DEF TableInv
<1>2. Numbered'
  <2>1. PICK b \in Nat : NumberedFrom(b)
    BY DEF Numbered
  <2>2. NumberedFrom(b)'
    BY <1>1, <2>1 DEF NumberedFrom, Running
  <2> QED  BY <2>2 DEF Numbered
<1>3. \A h \in Sessions : ses[h] # Unused => ses[h].port \in LocalPorts
  BY DEF TableInv, TypeOK, Handlers
<1>4. OwnTunnel'
  <2> SUFFICES ASSUME NEW h \in Sessions, ses'[h].pc \in {"launch", "connect"}
               PROVE  tunnel'[ses'[h].port] \in {h, Nobody}
    BY DEF OwnTunnel
  <2>1. CASE h = g
    BY <1>1, <1>3, <2>1 DEF PictureEffect, TunnelEffect, OwnTunnel
  <2>2. CASE h # g
    <3>1. ses'[h] = ses[h] /\ Starting(h) /\ ses[h].port \in LocalPorts
      BY <1>1, <1>3, <2>2 DEF Starting, Unused
    <3>2. ses[g].pc = "forward" => ses[g].port # ses[h].port
      BY <2>2, <3>1, PortsDiffer DEF Starting, TableInv
    <3> QED  BY <1>1, <3>1, <3>2 DEF TunnelEffect, OwnTunnel
  <2> QED  BY <2>1, <2>2
<1>5. OwnVideo'
  <2> SUFFICES ASSUME NEW h \in Sessions,
                      ses'[h].pc \in {"handshake", "register", "stream"}
               PROVE  ses'[h].video = h
    BY DEF OwnVideo
  <2>1. CASE h = g
    BY <1>1, <2>1, NobodyIsNoSession DEF PictureEffect, OwnTunnel, OwnVideo
  <2>2. CASE h # g
    BY <1>1, <2>2 DEF OwnVideo
  <2> QED  BY <2>1, <2>2
<1> QED  BY <1>2, <1>4, <1>5

\* Steps that start, cancel or end sessions, and touch no tunnel.
LEMMA OthersKeepPicture ==
    ASSUME OwnTunnel, OwnVideo, UNCHANGED tunnel,
           \A g \in Sessions :
               \/ ses'[g].pc \in {"push", "dead"}
               \/ /\ ses'[g].pc = ses[g].pc
                  /\ ses[g].pc # "unused" =>
                         ses'[g].port = ses[g].port /\ ses'[g].video = ses[g].video
    PROVE  OwnTunnel' /\ OwnVideo'
BY DEF OwnTunnel, OwnVideo

LEMMA AcquireNumbers ==
    ASSUME TableInv, Numbered, NEW g \in Sessions, NEW d \in Devices, NEW capped \in BOOLEAN,
           Acquire(g, d, capped)
    PROVE  Numbered'
<1>1. PICK b \in Nat : NumberedFrom(b)
  BY DEF Numbered
<1>2. /\ ses[g] = Unused /\ \A h \in Sessions : h < g => ses[h] # Unused
      /\ count' = count + 1 /\ count \in Nat /\ g \in Nat /\ Sessions \subseteq Nat
  BY DEF Acquire, TableInv, TypeOK, Sessions
<1>3. g = b + count + 1
  <2>1. ~(g <= b + count)
    BY <1>1, <1>2 DEF NumberedFrom
  <2>2. b + count + 1 < g => b + count + 1 \in Sessions
    BY <1>2, SessionsAssumption DEF Sessions
  <2>3. b + count + 1 < g => b + count + 1 <= b + count
    BY <1>1, <1>2, <2>2 DEF NumberedFrom
  <2> QED  BY <1>2, <2>1, <2>3
<1>4. /\ ses'[g].pc = "push" /\ ses'[g].port = PortOf(count + 1) /\ ses'[g] # Unused
      /\ \A h \in Sessions \ {g} : \/ h = live[d] /\ ses'[h] = [ses[h] EXCEPT !.cancelled = TRUE]
                                   \/ ses'[h] = ses[h]
  BY DEF Acquire, Unused
<1>5. \A h \in Sessions : live[d] = h => ses[h] \in Handlers
  BY UsedIsHandler DEF TableInv, TableNamesTheOwner, Running, Sessions, Nobody
<1>6. \A h \in Sessions \ {g} :
          /\ ses'[h] # Unused <=> ses[h] # Unused
          /\ Running(h)' <=> Running(h)
          /\ Running(h) => ses'[h].port = ses[h].port
  <2> SUFFICES ASSUME NEW h \in Sessions \ {g}, h = live[d],
                      ses'[h] = [ses[h] EXCEPT !.cancelled = TRUE]
               PROVE  /\ ses'[h] # Unused <=> ses[h] # Unused
                      /\ Running(h)' <=> Running(h)
                      /\ Running(h) => ses'[h].port = ses[h].port
    BY <1>4 DEF Running
  <2>1. /\ ses[h] # Unused /\ ses'[h] # Unused
        /\ ses'[h].pc = ses[h].pc /\ ses'[h].port = ses[h].port
    BY <1>5 DEF Handlers, Unused
  <2> QED  BY <2>1 DEF Running
<1>7. NumberedFrom(b)'
  <2>1. \A h \in Sessions : ses'[h] # Unused <=> h <= b + count'
    BY <1>1, <1>2, <1>3, <1>4, <1>6 DEF NumberedFrom
  <2>2. \A h \in Sessions \ {g} : Running(h)' => h > b /\ ses'[h].port = PortOf(h - b)
    BY <1>1, <1>6 DEF NumberedFrom
  <2>3. g > b /\ g - b = count + 1
    BY <1>2, <1>3
  <2> QED  BY <1>4, <2>1, <2>2, <2>3 DEF NumberedFrom
<1> QED  BY <1>7 DEF Numbered

LEMMA PictureStep ==
    TableInv /\ PictureInv /\ StartsAreClose /\ [Next]_vars => PictureInv'
<1> SUFFICES ASSUME TableInv, PictureInv, StartsAreClose, [Next]_vars PROVE PictureInv'
  OBVIOUS
<1> USE DEF PictureInv
<1>1. ASSUME NEW h \in Sessions, Running(h) \/ At(h, "over"),
             NEW r, r = [ses[h] EXCEPT !.cancelled = TRUE]
      PROVE  /\ r.pc = ses[h].pc /\ r.port = ses[h].port /\ r.video = ses[h].video
             /\ r # Unused /\ ses[h] # Unused
  <2>1. ses[h] \in Handlers /\ ses[h].pc # "unused"
    BY <1>1, UsedIsHandler DEF TableInv, Running, At
  <2> QED  BY <1>1, <2>1 DEF Handlers, Unused
<1>2. \A d \in Devices, h \in Sessions : live[d] = h => Running(h)
  BY NobodyIsNoSession DEF TableInv, TableNamesTheOwner
<1>3. ASSUME NEW g \in Sessions, NEW d \in Devices, NEW capped \in BOOLEAN,
             Acquire(g, d, capped)
      PROVE  PictureInv'
  <2>1. \A h \in Sessions :
          \/ h = g /\ ses'[h].pc = "push"
          \/ h = live[d] /\ ses'[h] = [ses[h] EXCEPT !.cancelled = TRUE]
          \/ ses'[h] = ses[h]
    BY <1>3 DEF Acquire
  <2>2. OwnTunnel' /\ OwnVideo'
    BY <1>1, <1>2, <1>3, <2>1, OthersKeepPicture DEF Acquire, world
  <2> QED  BY <1>3, <2>2, AcquireNumbers
<1>4. ASSUME NEW g \in Sessions,
             SessionStep(g) \/ Ends(g) \/ CloseKill(g)
      PROVE  PictureInv'
  BY <1>4, HandlerKeepsPicture
<1>5. ASSUME NEW g \in Sessions, ServerDies(g) PROVE PictureInv'
  BY <1>5 DEF ServerDies, table, Numbered, NumberedFrom, Running, OwnTunnel, OwnVideo
<1>6. CASE CloseAll
  <2>1. \A h \in Sessions :
          \/ /\ \E d \in Devices : live[d] = h
             /\ ses'[h] = [ses[h] EXCEPT !.cancelled = TRUE]
          \/ ses'[h] = ses[h]
    BY <1>6 DEF CloseAll
  <2>2. OwnTunnel' /\ OwnVideo'
    BY <1>1, <1>2, <1>6, <2>1, OthersKeepPicture DEF CloseAll, world
  <2>3. PICK b \in Nat : NumberedFrom(b)
    BY DEF Numbered
  <2>4. NumberedFrom(b)'
    <3>1. count' = count
      BY <1>6 DEF CloseAll, table
    <3>2. \A h \in Sessions :
            /\ ses'[h] # Unused <=> ses[h] # Unused
            /\ Running(h)' <=> Running(h)
            /\ Running(h) => ses'[h].port = ses[h].port
      BY <1>1, <1>2, <2>1 DEF Running
    <3> QED  BY <2>3, <3>1, <3>2 DEF NumberedFrom
  <2> QED  BY <2>2, <2>4 DEF Numbered
<1>7. CASE Exit
  <2>1. \A h \in Sessions :
          \/ /\ Running(h) \/ At(h, "over")
             /\ ses'[h] = [ses[h] EXCEPT !.pc = "dead", !.video = Nobody]
          \/ ~Running(h) /\ ses'[h] = ses[h]
    BY <1>7 DEF Exit
  <2>2. \A h \in Sessions :
          /\ ~Running(h)'
          /\ ses'[h].pc = "dead" \/ ses'[h] = ses[h]
          /\ ses'[h] # Unused <=> ses[h] # Unused
    <3> SUFFICES ASSUME NEW h \in Sessions, Running(h) \/ At(h, "over"),
                        ses'[h] = [ses[h] EXCEPT !.pc = "dead", !.video = Nobody]
                 PROVE  ses'[h].pc = "dead" /\ ses'[h] # Unused /\ ses[h] # Unused
      BY <2>1 DEF Running
    <3>1. ses[h] \in Handlers
      BY UsedIsHandler DEF TableInv, Running, At
    <3>2. ses[h].pc # "unused" /\ ses'[h].pc = "dead"
      BY <3>1 DEF Handlers
    <3>3. Unused.pc = "unused"
      BY DEF Unused
    <3> QED  BY <3>2, <3>3
  <2>3. OwnTunnel' /\ OwnVideo'
    BY <1>7, <2>2, OthersKeepPicture DEF Exit, world
  <2>4. PICK b \in Nat : NumberedFrom(b)
    BY DEF Numbered
  <2>5. count' = 0 /\ count \in Nat
    BY <1>7 DEF Exit, TableInv, TypeOK
  <2>6. b + count \in Nat /\ (b + count) + 0 = b + count
    BY <2>5
  <2>7. \A h \in Sessions : ses'[h] # Unused <=> h <= (b + count) + count'
    BY <2>2, <2>4, <2>5, <2>6 DEF NumberedFrom
  <2>8. PICK n \in Nat : n = b + count
    BY <2>6
  <2>9. NumberedFrom(n)'
    BY <2>2, <2>7, <2>8 DEF NumberedFrom
  <2> QED  BY <2>3, <2>9 DEF Numbered
<1>8. CASE UNCHANGED vars
  BY <1>8 DEF vars, table, world, Numbered, NumberedFrom, Running, OwnTunnel, OwnVideo
<1> QED  BY <1>3, <1>4, <1>5, <1>6, <1>7, <1>8 DEF Next, Ends

\* A session shows its own device, whatever starts, takeovers, failures and
\* exits overlap, as long as no session is still starting when the one that
\* gets the same port does.
THEOREM OwnPictureHolds == Spec /\ []StartsAreClose => []OwnPicture
<1>1. Init => PictureInv
  <2> SUFFICES ASSUME Init PROVE PictureInv
    OBVIOUS
  <2>1. \A g \in Sessions : g >= 1 /\ g \in Nat
    BY DEF Sessions
  <2>2. NumberedFrom(0)
    BY <2>1 DEF Init, NumberedFrom, Running, Unused
  <2>3. OwnTunnel /\ OwnVideo
    BY DEF Init, OwnTunnel, OwnVideo, Unused
  <2> QED  BY <2>2, <2>3 DEF PictureInv, Numbered
<1>2. PictureInv => OwnPicture
  BY DEF PictureInv, OwnVideo, OwnPicture, At
<1> QED  BY <1>1, <1>2, PictureStep, TableHolds, PTL DEF Spec

\* Up to as many sessions as there are ports show their own devices.
THEOREM OwnPictureOfFew ==
    ASSUME MaxSessions <= Ports
    PROVE  Spec => []OwnPicture
<1>1. StartsAreClose
  BY SessionsAssumption DEF StartsAreClose, Sessions
<1>2. TypeOK => StartsAreClose
  BY <1>1
<1> QED  BY <1>2, TypeCorrect, OwnPictureHolds, PTL
=============================================================================
