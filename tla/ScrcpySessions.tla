--------------------------- MODULE ScrcpySessions ---------------------------
(***************************************************************************)
(* The live sessions of the device wall: the table of sessions             *)
(* (internal/api/h264.go), the handlers that run them (h264.go, ws.go) and *)
(* the scrcpy client they start and close (internal/scrcpy/scrcpy.go).     *)
(*                                                                         *)
(* A session is its generation.  Its handler is cut at every adb command,  *)
(* because a later connection may take the device over in between: it      *)
(* cancels the earlier session and goes on without waiting for it.         *)
(***************************************************************************)
EXTENDS Naturals, FiniteSets

CONSTANTS
    Devices,
    Ports,         \* how many local ports the tunnels rotate over (64)
    MaxDevices,    \* wsMaxDevices
    Faults,        \* which adb commands may fail, and "die"
    MaxSessions,   \* bound: connections that ever come in
    MaxExits       \* bound: stops and starts of the daemon

ASSUME SessionsAssumption ==
    /\ Ports \in Nat \ {0} /\ MaxDevices \in Nat \ {0}
    /\ MaxSessions \in Nat /\ MaxExits \in Nat
    /\ Faults \subseteq {"kill", "push", "forward", "launch", "connect", "die"}

VARIABLES
    live,      \* h.live: the generation in the table for each device
    ctrl,      \* the controller of that entry, by the session it belongs to
    count,     \* h.next: sessions of this run of the daemon
    ses,       \* the sessions, with the local variables of their handlers
    servers,   \* sessions whose scrcpy server runs on its device
    tunnel,    \* adb forward: local port -> session whose socket it leads to
    stopping,  \* CloseAll has run, the process is about to exit
    exits

table == <<live, ctrl, count>>
world == <<servers, tunnel>>
vars == <<table, ses, world, stopping, exits>>

-----------------------------------------------------------------------------
(* State.                                                                  *)

Sessions == 1 .. MaxSessions
Nobody == 0
LocalPorts == 0 .. Ports - 1

\* pc: the next step of the handler.  close: how far Session.Close has come;
\* by: who called it, the handler or a controller whose write failed.
\* cancelled: its context.  video: whose server its sockets are connected to.
\* stuck: it waits in a call that neither a deadline nor its context ends.
Handlers ==
    [pc : {"push", "forward", "launch", "connect", "handshake", "register", "stream",
           "closing", "release", "over", "dead"},
     dev : Devices, port : LocalPorts, cancelled : BOOLEAN,
     close : {"open", "killing", "removing", "closed"},
     by : {"nobody", "handler", "input"},
     video : Sessions \cup {Nobody}, stuck : BOOLEAN]
Unused == [pc |-> "unused", cancelled |-> FALSE, close |-> "open", video |-> Nobody,
           stuck |-> FALSE]

TypeOK ==
    /\ live \in [Devices -> Sessions \cup {Nobody}]
    /\ ctrl \in [Devices -> Sessions \cup {Nobody}]
    /\ count \in Nat
    /\ ses \in [Sessions -> Handlers \cup {Unused}]
    /\ servers \subseteq Sessions
    /\ tunnel \in [LocalPorts -> Sessions \cup {Nobody}]
    /\ stopping \in BOOLEAN
    /\ exits \in 0 .. MaxExits

Init ==
    /\ live = [d \in Devices |-> Nobody]
    /\ ctrl = [d \in Devices |-> Nobody]
    /\ count = 0
    /\ ses = [g \in Sessions |-> Unused]
    /\ servers = {}
    /\ tunnel = [p \in LocalPorts |-> Nobody]
    /\ stopping = FALSE
    /\ exits = 0

-----------------------------------------------------------------------------
(* Helpers.                                                                *)

At(g, pc) == ses[g].pc = pc
Running(g) == ses[g].pc \notin {"unused", "over", "dead"}
GoTo(g, pc) == ses' = [ses EXCEPT ![g].pc = pc]

\* The servers on the device of g; pkill does not look whose they are.
ServersBeside(g) == {h \in servers : ses[h].dev = ses[g].dev}

\* What is left after a pkill of some servers, which may fail.
Killed(some) == {servers \ some} \cup (IF "kill" \in Faults THEN {servers} ELSE {})

\* Session.Close starts: a compare-and-swap lets one caller in.
StartClose(g, pc, who) ==
    ses' = [ses EXCEPT ![g].pc = pc, ![g].close = "killing", ![g].by = who]

\* Mutant: every session gets the same port.
PortOf_Fixed(n) == 0

\* Mutant: the rotation never comes round.
PortOf_NoWrap(n) == n

\* Ports rotate with the generation.
PortOf(n) == n % Ports

-----------------------------------------------------------------------------
(* h264Sessions.                                                           *)

\* acquireCapped: a session on a device that has none counts against the
\* cap (the multipart endpoint passes no cap); one on a device that has one
\* takes it over.
Acquire(g, d, capped) ==
    /\ ses[g] = Unused /\ \A h \in Sessions : h < g => ses[h] # Unused
    /\ capped /\ live[d] = Nobody =>
           Cardinality({e \in Devices : live[e] # Nobody}) < MaxDevices
    /\ count' = count + 1
    /\ ses' = [h \in Sessions |->
                 IF h = g
                 THEN [pc |-> "push", dev |-> d, port |-> PortOf(count + 1),
                       cancelled |-> FALSE, close |-> "open", by |-> "nobody",
                       video |-> Nobody, stuck |-> FALSE]
                 ELSE IF h = live[d] THEN [ses[h] EXCEPT !.cancelled = TRUE]
                 ELSE ses[h]]
    /\ live' = [live EXCEPT ![d] = g]
    /\ ctrl' = [ctrl EXCEPT ![d] = Nobody]
    /\ UNCHANGED <<world, stopping, exits>>

\* Mutant: the later session is not told apart from the one it replaces.
Register_AnyGen(g) ==
    /\ At(g, "register")
    /\ ctrl' = [ctrl EXCEPT ![ses[g].dev] = g]
    /\ GoTo(g, "stream")
    /\ UNCHANGED <<live, count, world, stopping, exits>>

\* setController: only into the entry of its own generation.
Register(g) ==
    /\ At(g, "register")
    /\ ctrl' = IF live[ses[g].dev] = g THEN [ctrl EXCEPT ![ses[g].dev] = g] ELSE ctrl
    /\ GoTo(g, "stream")
    /\ UNCHANGED <<live, count, world, stopping, exits>>

\* release, the last of the handler's deferred calls.
Release(g) ==
    /\ At(g, "release")
    /\ IF live[ses[g].dev] = g
       THEN /\ live' = [live EXCEPT ![ses[g].dev] = Nobody]
            /\ ctrl' = [ctrl EXCEPT ![ses[g].dev] = Nobody]
       ELSE UNCHANGED <<live, ctrl>>
    /\ GoTo(g, "over")
    /\ UNCHANGED <<count, world, stopping, exits>>

-----------------------------------------------------------------------------
(* scrcpy.Start.  A command under a cancelled context is not run at all.   *)

\* pkill of whatever server is left on the device, its result ignored, and
\* the push of the jar.  A failed push returns without Close: there is
\* nothing to close yet.
KillAndPush(g) ==
    /\ At(g, "push")
    /\ \/ /\ ~ses[g].cancelled
          /\ servers' \in Killed(ServersBeside(g))
          /\ \/ GoTo(g, "forward")
             \/ "push" \in Faults /\ GoTo(g, "release")
       \/ ses[g].cancelled /\ GoTo(g, "release") /\ UNCHANGED servers
    /\ UNCHANGED <<table, tunnel, stopping, exits>>

\* forward --remove, then forward.  A failed command may have done its work.
Forward(g) ==
    /\ At(g, "forward")
    /\ \/ /\ ~ses[g].cancelled
          /\ tunnel' = [tunnel EXCEPT ![ses[g].port] = g]
          /\ GoTo(g, "launch")
       \/ /\ ses[g].cancelled \/ "forward" \in Faults
          /\ \/ UNCHANGED tunnel
             \/ \E h \in {g, Nobody} : tunnel' = [tunnel EXCEPT ![ses[g].port] = h]
          /\ GoTo(g, "release")
    /\ UNCHANGED <<table, servers, stopping, exits>>

\* Mutant: the server is started without the context of the session.
Launch_NoContext(g) ==
    /\ At(g, "launch")
    /\ servers' = servers \cup {g}
    /\ GoTo(g, "connect")
    /\ UNCHANGED <<table, tunnel, stopping, exits>>

\* cmd.Start: from here on a failure closes the session.
Launch(g) ==
    /\ At(g, "launch")
    /\ \/ ~ses[g].cancelled /\ servers' = servers \cup {g} /\ GoTo(g, "connect")
       \/ /\ ses[g].cancelled \/ "launch" \in Faults
          /\ StartClose(g, "closing", "handler") /\ UNCHANGED servers
    /\ UNCHANGED <<table, tunnel, stopping, exits>>

\* connect: through the tunnel to a server nobody is connected to.  A
\* cancellation may come too late to be seen here.
Connect(g) ==
    /\ At(g, "connect")
    /\ LET h == tunnel[ses[g].port]
       IN  /\ h \in servers /\ \A k \in Sessions : ses[k].video # h
           /\ ses' = [ses EXCEPT ![g].pc = "handshake", ![g].video = h]
    /\ UNCHANGED <<table, world, stopping, exits>>

\* Cancelled, or nothing answers for 15 s.
ConnectFails(g) ==
    /\ At(g, "connect")
    /\ \/ ses[g].cancelled \/ "connect" \in Faults
       \/ tunnel[ses[g].port] \notin servers
       \/ \E k \in Sessions : ses[k].video = tunnel[ses[g].port]
    /\ StartClose(g, "closing", "handler")
    /\ UNCHANGED <<table, world, stopping, exits>>

\* handshake looks at no context: it ends with the header, or with the socket.
Handshake(g) ==
    /\ At(g, "handshake") /\ ~ses[g].stuck
    /\ \/ ses[g].video \in servers /\ GoTo(g, "register")
       \/ /\ ses[g].video \notin servers \/ "connect" \in Faults
          /\ StartClose(g, "closing", "handler")
    /\ UNCHANGED <<table, world, stopping, exits>>

-----------------------------------------------------------------------------
(* The stream loops and Session.Close.                                     *)

\* Session.Alive.  The adb process that carries the server is not waited for
\* before Close, and until then signal 0 reaches it, dead or not.
Alive(g) == ses[g].close = "open"

\* The loop ends and the deferred Close runs; if the controller has closed
\* the session already, Close returns at once.
EndStream(g) ==
    /\ IF ses[g].close = "open" THEN StartClose(g, "closing", "handler")
                                ELSE GoTo(g, "release")
    /\ UNCHANGED <<table, world, stopping, exits>>

\* Mutant: the loop does not look at the context.
StreamStops_NoContext(g) ==
    At(g, "stream") /\ ~ses[g].stuck /\ ~Alive(g) /\ EndStream(g)

\* What the loop sees at the latest when its read times out.
StreamStops(g) ==
    /\ At(g, "stream") /\ ~ses[g].stuck
    /\ ses[g].cancelled \/ ~Alive(g)
    /\ EndStream(g)

\* The browser leaves, or takes frames or answers pings too slowly; or the
\* socket reports an error, which that of a dead server need not do.
StreamEnds(g) == At(g, "stream") /\ ~ses[g].stuck /\ EndStream(g)

\* Controller.write fails, at a server that is dead or stalls for 3 s: the
\* writer closes the session.
InputFails(g) ==
    /\ At(g, "stream")
    /\ ses[g].close = "open"
    /\ StartClose(g, "stream", "input")
    /\ UNCHANGED <<table, world, stopping, exits>>

\* Mutant: Close uses the context of the session.
CloseKill_SessionContext(g) ==
    /\ ses[g].close = "killing" /\ ~At(g, "dead")
    /\ servers' = IF ses[g].cancelled THEN servers ELSE servers \ {g}
    /\ ses' = [ses EXCEPT ![g].close = "removing"]
    /\ UNCHANGED <<table, tunnel, stopping, exits>>

\* Close: pkill of the one server with this scid, in a context of its own.
CloseKill(g) ==
    /\ ses[g].close = "killing" /\ ~At(g, "dead")
    /\ servers' \in Killed({g})
    /\ ses' = [ses EXCEPT ![g].close = "removing"]
    /\ UNCHANGED <<table, tunnel, stopping, exits>>

\* Close: forward --remove of the port, whoever the tunnel leads to by now.
CloseRemove(g) ==
    /\ ses[g].close = "removing" /\ ~At(g, "dead")
    /\ tunnel' = [tunnel EXCEPT ![ses[g].port] = Nobody]
    /\ ses' = [ses EXCEPT ![g].close = "closed",
                          ![g].pc = IF ses[g].by = "handler" THEN "release" ELSE @]
    /\ UNCHANGED <<table, servers, stopping, exits>>

-----------------------------------------------------------------------------
(* The world.                                                              *)

\* A server exits by itself, or with its container.
ServerDies(g) ==
    /\ "die" \in Faults /\ g \in servers
    /\ servers' = servers \ {g}
    /\ UNCHANGED <<table, ses, tunnel, stopping, exits>>

\* A server that does not send its header, or an adb tunnel that keeps silent
\* about its end; a browser that stops reading a multipart stream, whose writes
\* have no deadline; an input that waits in invalidate for a screenshot.
Stall(g) ==
    /\ At(g, "handshake") \/ At(g, "stream")
    /\ ~ses[g].stuck
    /\ ses' = [ses EXCEPT ![g].stuck = TRUE]
    /\ UNCHANGED <<table, world, stopping, exits>>

\* Whoever is waited for goes on, or goes away.
Unstall(g) ==
    /\ At(g, "handshake") \/ At(g, "stream")
    /\ ses[g].stuck
    /\ ses' = [ses EXCEPT ![g].stuck = FALSE]
    /\ UNCHANGED <<table, world, stopping, exits>>

\* CloseAll, on the signal to stop.
CloseAll ==
    /\ ~stopping /\ exits < MaxExits
    /\ stopping' = TRUE
    /\ ses' = [g \in Sessions |->
                 IF \E d \in Devices : live[d] = g
                 THEN [ses[g] EXCEPT !.cancelled = TRUE] ELSE ses[g]]
    /\ UNCHANGED <<table, world, exits>>

\* Shutdown makes ListenAndServe return, and main with it: the process ends
\* whatever the handlers are doing.  The next one starts with an empty table.
Exit ==
    /\ stopping
    /\ stopping' = FALSE
    /\ exits' = exits + 1
    /\ live' = [d \in Devices |-> Nobody]
    /\ ctrl' = [d \in Devices |-> Nobody]
    /\ count' = 0
    /\ ses' = [g \in Sessions |->
                 IF Running(g) \/ (At(g, "over") /\ ses[g].close \in {"killing", "removing"})
                 THEN [ses[g] EXCEPT !.pc = "dead", !.video = Nobody] ELSE ses[g]]
    /\ UNCHANGED world

\* What a handler, and a close under way, do by themselves.
SessionStep(g) ==
    \/ KillAndPush(g) \/ Forward(g) \/ Launch(g)
    \/ Connect(g) \/ ConnectFails(g) \/ Handshake(g) \/ Register(g) \/ StreamStops(g)
    \/ CloseRemove(g) \/ Release(g)

Next ==
    \/ \E g \in Sessions, d \in Devices, capped \in BOOLEAN : Acquire(g, d, capped)
    \/ \E g \in Sessions :
           \/ SessionStep(g) \/ CloseKill(g)
           \/ StreamEnds(g) \/ InputFails(g) \/ ServerDies(g)
           \/ Stall(g) \/ Unstall(g)
    \/ CloseAll \/ Exit

Spec == Init /\ [][Next]_vars

\* adb commands return: those of Start end with their context, those of Close
\* after 8 s.  The reads of a stream time out every 5 s, and a session that is
\* not stuck comes to its next one.  Browsers, people and sockets owe nothing,
\* nor does what a session is stuck at, nor the signal to stop.
Fairness ==
    /\ \A g \in Sessions : WF_vars(SessionStep(g)) /\ WF_vars(CloseKill(g))
    /\ WF_vars(Exit)

FairSpec == Spec /\ Fairness

-----------------------------------------------------------------------------
(* Properties.                                                             *)

\* A session that was not taken over is the one in the table, and what is in
\* the table is a running session of that device: the clean-up of an earlier
\* generation never touches the entry of a later one.
TableNamesTheOwner ==
    /\ \A g \in Sessions :
           Running(g) /\ ~ses[g].cancelled => live[ses[g].dev] = g
    /\ \A d \in Devices :
           live[d] # Nobody => Running(live[d]) /\ ses[live[d]].dev = d

\* Input that goes through the table reaches the session that owns the
\* device: never that of an earlier generation, or of one that is gone.
InputReachesTheOwner == \A d \in Devices : ctrl[d] \in {Nobody, live[d]}

\* What the daemon believes of a device is true at any moment of any overlap:
\* the table names its session, and the way of its inputs leads there.
OwnerServed == TableNamesTheOwner /\ InputReachesTheOwner

\* The server of a session that streams has the encoder of its device to
\* itself, after any takeover and any exit of the daemon.
SoleServer ==
    \A g \in Sessions :
        At(g, "stream") /\ ~ses[g].cancelled => ServersBeside(g) \subseteq {g}

\* A session shows its own device: tunnels of sessions that overlap are not
\* mixed up.
OwnPicture ==
    \A g \in Sessions : At(g, "stream") => ses[g].video = g

\* A session that is over has left no server on its device, also when it was
\* cancelled half way, or closed by a failed input.
NothingLeft ==
    \A g \in Sessions :
        At(g, "over") /\ ses[g].close \in {"open", "closed"} => g \notin servers

\* A session that is taken over comes to its end, unless it is stuck for ever:
\* wherever in its start, its stream or its close the takeover finds it.
TakenOverEnds ==
    \A g \in Sessions :
        <>[](~ses[g].stuck) => (ses[g].cancelled ~> ses[g].pc \in {"over", "dead"})

-----------------------------------------------------------------------------
(* What the code does not keep: see "Deviations" in the README.            *)

\* A session whose server is gone comes to its end, though its socket says
\* nothing, unless it is stuck for ever.
DeadServerNoticed ==
    \A g \in Sessions :
        <>[](~ses[g].stuck) =>
            (At(g, "stream") /\ ses[g].video \notin servers ~> ~At(g, "stream"))

\* A takeover ends the earlier session, whatever its browser and its server do.
TakeoverSuffices ==
    \A g \in Sessions : ses[g].cancelled ~> ses[g].pc \in {"over", "dead"}

\* The daemon exits when its sessions have cleaned up their devices.
CleanExit == [][Exit => servers = {}]_vars
=============================================================================
