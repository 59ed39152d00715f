------------------------------ MODULE DevicePage -----------------------------
(***************************************************************************)
(* The handlers a device page calls one request at a time: screenshots     *)
(* with their cache, inputs, MJPEG streams (internal/api/wall.go) and UI   *)
(* dumps with their pooled sessions (internal/api/ui.go, internal/uiagent),*)
(* over the adb client they share (internal/adb) and the devices behind it.*)
(*                                                                         *)
(* A request is cut at every lock it waits for and at every adb command,   *)
(* because the requests of other tabs and agents run in between.           *)
(***************************************************************************)
EXTENDS Naturals, FiniteSets

CONSTANTS
    Devices,
    Sizes,         \* widths and qualities asked for: one cache entry each
    Requests,      \* requests in progress at a time
    Agents,        \* those of them that ask for UI dumps again and again
    MaxStreams,    \* maxStreams (4)
    MaxInputs,     \* bounds: inputs, requests that do not repeat themselves,
    MaxRequests,
    MaxUpsets,     \* rebuilds of devices and adb commands that hang, and
    Mixes,         \* kinds of request that meet: those that share no lock need not
    Free,          \* a lock nobody holds
    Empty          \* no picture

ASSUME PageAssumption ==
    /\ IsFiniteSet(Requests) /\ Agents \subseteq Requests
    /\ Free \notin Requests /\ Empty \notin Nat
    /\ MaxStreams \in Nat \ {0}
    /\ MaxInputs \in Nat /\ MaxRequests \in Nat /\ MaxUpsets \in Nat

VARIABLES
    screen,      \* what each device shows: the inputs it has taken
    late,        \* inputs a scrcpy server has still to act on
    items,       \* the cache: the picture of each entry, if it has one
    cmu, emu,    \* c.mu, and e.mu of every entry: who holds them
    cap,         \* the capture lock of each device
    streams,     \* s.streams
    live,        \* u.live: devices with a session
    umu,         \* u.mu
    tunnel,      \* adb forward: devices whose port leads to them
    agent,       \* the uiagent on each device
    online,      \* devices adb is connected to
    hung,        \* requests whose screencap or input gets no answer of the device
    req,         \* the requests
    shown,       \* history: the inputs each device had taken at the last answer
    dumped,      \* history: agents whose last dump worked
    load         \* the kinds asked for; inputs, requests and upsets so far

wall == <<screen, late, items, cmu, emu, shown>>
ui == <<live, umu, tunnel, agent, dumped>>
adb == <<online, hung>>
vars == <<wall, cap, streams, ui, adb, req, load>>

-----------------------------------------------------------------------------
(* State.                                                                  *)

Entries == Devices \X Sizes
Pictures == Nat
Kinds == {"shot", "input", "stream", "dump"}

\* floor: the inputs answered before the request came.  got: the picture it
\* holds, or the one its input led to.  left: entries still to be emptied.
Idle == [pc |-> "idle"]
Pcs == {"entry", "lock", "queue", "capture", "store", "answer",
        "inject", "purge", "empty",
        "enter", "refuse", "grab", "frame", "leave",
        "session", "forward", "ping", "launch", "wait", "dump", "drop", "close"}
Working == [kind : Kinds, dev : Devices, size : Sizes, pc : Pcs, floor : Pictures,
            got : Pictures \cup {Empty}, left : SUBSET Entries]

TypeOK ==
    /\ screen \in [Devices -> Pictures] /\ late \in [Devices -> Pictures]
    /\ shown \in [Devices -> Pictures]
    /\ items \in [Entries -> Pictures \cup {Empty}]
    /\ cmu \in Requests \cup {Free} /\ umu \in Requests \cup {Free}
    /\ emu \in [Entries -> Requests \cup {Free}] /\ cap \in [Devices -> Requests \cup {Free}]
    /\ streams \in 0 .. Cardinality(Requests)
    /\ live \subseteq Devices /\ tunnel \subseteq Devices /\ online \subseteq Devices
    /\ hung \subseteq Requests
    /\ agent \in [Devices -> {"none", "starting", "up"}]
    /\ dumped \subseteq Agents
    /\ req \in [Requests -> {Idle} \cup Working]
    /\ load \in [kinds : Mixes, inputs : 0 .. MaxInputs, requests : 0 .. MaxRequests,
                 upsets : 0 .. MaxUpsets]

Init ==
    /\ screen = [d \in Devices |-> 0] /\ late = [d \in Devices |-> 0]
    /\ shown = [d \in Devices |-> 0]
    /\ items = [e \in Entries |-> Empty]
    /\ cmu = Free /\ umu = Free
    /\ emu = [e \in Entries |-> Free] /\ cap = [d \in Devices |-> Free]
    /\ streams = 0
    /\ live = {} /\ tunnel = {} /\ online = Devices /\ hung = {}
    /\ agent = [d \in Devices |-> "none"]
    /\ req = [r \in Requests |-> Idle]
    /\ dumped = {}
    /\ load \in [kinds : Mixes, inputs : {0}, requests : {0}, upsets : {0}]

-----------------------------------------------------------------------------
(* Helpers.                                                                *)

At(r, pc) == req[r].pc = pc
GoTo(r, pc) == req' = [req EXCEPT ![r].pc = pc]
Answer(r) == req' = [req EXCEPT ![r] = Idle]
EntryOf(r) == <<req[r].dev, req[r].size>>
Online(r) == req[r].dev \in online

\* A request comes in.  Agents only ask for dumps.
Arrive(r, kind, d, size) ==
    /\ req[r] = Idle /\ kind \in load.kinds
    /\ IF r \in Agents
       THEN kind = "dump" /\ dumped' = dumped \ {r} /\ UNCHANGED load
       ELSE /\ load.requests < MaxRequests
            /\ kind = "input" => load.inputs < MaxInputs
            /\ load' = [load EXCEPT !.requests = @ + 1,
                                      !.inputs = IF kind = "input" THEN @ + 1 ELSE @]
            /\ UNCHANGED dumped
    /\ req' = [req EXCEPT ![r] =
                 [kind |-> kind, dev |-> d, size |-> size, floor |-> shown[d],
                  got |-> Empty, left |-> {},
                  pc |-> CASE kind = "shot" -> "entry"  [] kind = "input" -> "inject"
                           [] kind = "stream" -> "enter" [] kind = "dump" -> "session"]]
    /\ UNCHANGED <<wall, cap, streams, live, umu, tunnel, agent, adb>>

-----------------------------------------------------------------------------
(* shotCache.get and adb.Client.runCapture.                                *)

\* c.entry: c.mu is held for a moment only.
FindEntry(r) ==
    /\ At(r, "entry") /\ cmu = Free
    /\ GoTo(r, "lock")
    /\ UNCHANGED <<wall, cap, streams, ui, adb, load>>

\* e.mu: a picture that is young enough is the answer, else it is held for
\* the whole capture.
LockEntry(r) ==
    LET e == EntryOf(r) IN
    /\ At(r, "lock") /\ emu[e] = Free
    /\ IF items[e] # Empty
       THEN req' = [req EXCEPT ![r].pc = "answer", ![r].got = items[e]] /\ UNCHANGED emu
       ELSE GoTo(r, "queue") /\ emu' = [emu EXCEPT ![e] = r]
    /\ UNCHANGED <<screen, late, items, cmu, shown, cap, streams, ui, adb, load>>

\* capLockFor: one capture per device.
LockCapture(r, from, to) ==
    /\ At(r, from) /\ cap[req[r].dev] = Free
    /\ cap' = [cap EXCEPT ![req[r].dev] = r]
    /\ GoTo(r, to)
    /\ UNCHANGED <<wall, streams, ui, adb, load>>

\* screencap returns, and decoding goes on under e.mu alone, or it fails.
Capture(r) ==
    /\ At(r, "capture") /\ r \notin hung
    /\ cap' = [cap EXCEPT ![req[r].dev] = Free]
    /\ \/ /\ Online(r)
          /\ req' = [req EXCEPT ![r].pc = "store", ![r].got = screen[req[r].dev]]
          /\ UNCHANGED emu
       \/ Answer(r) /\ emu' = [emu EXCEPT ![EntryOf(r)] = Free]
    /\ UNCHANGED <<screen, late, items, cmu, shown, streams, ui, adb, load>>

\* Mutant: the picture is put into the cache under the lock of the cache.
Store_CacheLock(r) ==
    /\ At(r, "store") /\ cmu = Free
    /\ items' = [items EXCEPT ![EntryOf(r)] = req[r].got]
    /\ emu' = [emu EXCEPT ![EntryOf(r)] = Free]
    /\ GoTo(r, "answer")
    /\ UNCHANGED <<screen, late, cmu, shown, cap, streams, ui, adb, load>>

Store(r) ==
    /\ At(r, "store")
    /\ items' = [items EXCEPT ![EntryOf(r)] = req[r].got]
    /\ emu' = [emu EXCEPT ![EntryOf(r)] = Free]
    /\ GoTo(r, "answer")
    /\ UNCHANGED <<screen, late, cmu, shown, cap, streams, ui, adb, load>>

AnswerShot(r) ==
    /\ At(r, "answer")
    /\ Answer(r)
    /\ UNCHANGED <<wall, cap, streams, ui, adb, load>>

\* A picture is older than the ttl of the next request.
Expire(e) ==
    /\ items[e] # Empty /\ emu[e] = Free
    /\ items' = [items EXCEPT ![e] = Empty]
    /\ UNCHANGED <<screen, late, cmu, emu, shown, cap, streams, ui, adb, req, load>>

-----------------------------------------------------------------------------
(* handleInput and invalidate.                                             *)

\* adb shell input returns when the device has taken the input, or fails,
\* before the device took it or after.
InjectADB(r) ==
    LET d == req[r].dev IN
    /\ At(r, "inject") /\ r \notin hung
    /\ \/ /\ Online(r)
          /\ screen' = [screen EXCEPT ![d] = @ + 1]
          /\ req' = [req EXCEPT ![r].pc = "purge", ![r].got = screen[d] + 1]
       \/ Online(r) /\ screen' = [screen EXCEPT ![d] = @ + 1] /\ Answer(r)
       \/ UNCHANGED screen /\ Answer(r)
    /\ UNCHANGED <<late, items, cmu, emu, shown, cap, streams, ui, adb, load>>

\* With a live session, a write to its control socket: the device acts later.
InjectScrcpy(r) ==
    /\ At(r, "inject") /\ Online(r) /\ r \notin hung
    /\ late' = [late EXCEPT ![req[r].dev] = @ + 1]
    /\ GoTo(r, "purge")
    /\ UNCHANGED <<screen, items, cmu, emu, shown, cap, streams, ui, adb, load>>

ActLate(d) ==
    /\ late[d] > 0
    /\ late' = [late EXCEPT ![d] = @ - 1]
    /\ screen' = [screen EXCEPT ![d] = @ + 1]
    /\ UNCHANGED <<items, cmu, emu, shown, cap, streams, ui, adb, req, load>>

\* invalidate: c.mu is held until the last entry of the device is emptied.
Purge(r) ==
    /\ At(r, "purge") /\ cmu = Free
    /\ cmu' = r
    /\ req' = [req EXCEPT ![r].pc = "empty", ![r].left = {req[r].dev} \X Sizes]
    /\ UNCHANGED <<screen, late, items, emu, shown, cap, streams, ui, adb, load>>

\* Mutant: the entry is emptied while a capture for it is under way.
EmptyEntry_NoLock(r, e) ==
    /\ At(r, "empty") /\ e \in req[r].left
    /\ items' = [items EXCEPT ![e] = Empty]
    /\ req' = [req EXCEPT ![r].left = @ \ {e}]
    /\ UNCHANGED <<screen, late, cmu, emu, shown, cap, streams, ui, adb, load>>

\* e.mu of one entry after the other: a capture under way is waited for.
EmptyEntry(r, e) ==
    /\ At(r, "empty") /\ e \in req[r].left
    /\ emu[e] = Free
    /\ items' = [items EXCEPT ![e] = Empty]
    /\ req' = [req EXCEPT ![r].left = @ \ {e}]
    /\ UNCHANGED <<screen, late, cmu, emu, shown, cap, streams, ui, adb, load>>

AnswerInput(r) ==
    LET d == req[r].dev IN
    /\ At(r, "empty") /\ req[r].left = {}
    /\ cmu' = Free
    /\ shown' = IF req[r].got # Empty /\ req[r].got > shown[d]
                THEN [shown EXCEPT ![d] = req[r].got] ELSE shown
    /\ Answer(r)
    /\ UNCHANGED <<screen, late, items, emu, cap, streams, ui, adb, load>>

-----------------------------------------------------------------------------
(* handleStream.                                                           *)

\* Mutant: the counter is read first and added to later.
EnterStream_CheckFirst(r) ==
    /\ \/ /\ At(r, "enter")
          /\ IF streams < MaxStreams THEN GoTo(r, "leave") ELSE Answer(r)
          /\ UNCHANGED streams
       \/ At(r, "leave") /\ streams' = streams + 1 /\ GoTo(r, "grab")
    /\ UNCHANGED <<wall, cap, ui, adb, load>>

\* Add(1) returns the new count; a refused request takes itself off again.
EnterStream(r) ==
    /\ At(r, "enter")
    /\ streams' = streams + 1
    /\ GoTo(r, IF streams' > MaxStreams THEN "refuse" ELSE "grab")
    /\ UNCHANGED <<wall, cap, ui, adb, load>>

\* One frame; a capture that fails is tried again a second later.
Frame(r) ==
    /\ At(r, "frame") /\ r \notin hung
    /\ cap' = [cap EXCEPT ![req[r].dev] = Free]
    /\ GoTo(r, "grab")
    /\ UNCHANGED <<wall, streams, ui, adb, load>>

\* The browser is gone.
StreamOver(r) ==
    /\ At(r, "grab")
    /\ GoTo(r, "leave")
    /\ UNCHANGED <<wall, cap, streams, ui, adb, load>>

\* Mutant: a refused request is taken off by the deferred call as well.
LeaveStream_Twice(r) ==
    /\ At(r, "leave") \/ At(r, "refuse")
    /\ streams' = streams - (IF At(r, "refuse") THEN 2 ELSE 1)
    /\ Answer(r)
    /\ UNCHANGED <<wall, cap, ui, adb, load>>

LeaveStream(r) ==
    /\ At(r, "leave") \/ At(r, "refuse")
    /\ streams' = streams - 1
    /\ Answer(r)
    /\ UNCHANGED <<wall, cap, ui, adb, load>>

-----------------------------------------------------------------------------
(* handleUIDump, uiSessions and uiagent.Start.                             *)

\* uiSessions.get: u.mu is held while a session is started, for any device.
GetSession(r) ==
    /\ At(r, "session") /\ umu = Free
    /\ IF req[r].dev \in live THEN GoTo(r, "dump") /\ UNCHANGED umu
                              ELSE GoTo(r, "forward") /\ umu' = r
    /\ UNCHANGED <<wall, cap, streams, live, tunnel, agent, dumped, adb, load>>

\* The start fails: the error is the answer.
GiveUp(r) == Answer(r) /\ umu' = Free
Ready(r) == req[r].dev \in tunnel /\ agent[req[r].dev] = "up"
Pool(r) == GoTo(r, "dump") /\ umu' = Free /\ live' = live \cup {req[r].dev}

\* forward --remove, its error ignored, and forward.
Forward(r) ==
    /\ At(r, "forward")
    /\ IF Online(r)
       THEN GoTo(r, "ping") /\ tunnel' = tunnel \cup {req[r].dev} /\ UNCHANGED umu
       ELSE GiveUp(r) /\ tunnel' \in {tunnel, tunnel \ {req[r].dev}}
    /\ UNCHANGED <<wall, cap, streams, live, agent, dumped, adb, load>>

\* An agent that answers is used again.
Ping(r) ==
    /\ At(r, "ping")
    /\ IF Ready(r) THEN Pool(r) ELSE GoTo(r, "launch") /\ UNCHANGED <<umu, live>>
    /\ UNCHANGED <<wall, cap, streams, tunnel, agent, dumped, adb, load>>

\* pkill of whatever is there, push, and an agent detached from its shell.
Launch(r) ==
    /\ At(r, "launch")
    /\ IF Online(r)
       THEN GoTo(r, "wait") /\ agent' = [agent EXCEPT ![req[r].dev] = "starting"] /\ UNCHANGED umu
       ELSE GiveUp(r) /\ UNCHANGED agent
    /\ UNCHANGED <<wall, cap, streams, live, tunnel, dumped, adb, load>>

\* waitReady: a PING that is answered, or 15 s, by which time an agent that
\* was started is up (it takes one or two), unless its container is gone.
WaitReady(r) ==
    /\ At(r, "wait") /\ agent[req[r].dev] # "starting"
    /\ IF Ready(r) THEN Pool(r) ELSE GiveUp(r) /\ UNCHANGED live
    /\ UNCHANGED <<wall, cap, streams, tunnel, agent, dumped, adb, load>>

Dump(r) ==
    /\ At(r, "dump")
    /\ IF Ready(r)
       THEN Answer(r) /\ dumped' = dumped \cup ({r} \cap Agents)
       ELSE GoTo(r, "drop") /\ UNCHANGED dumped
    /\ UNCHANGED <<wall, cap, streams, live, umu, tunnel, agent, adb, load>>

\* Mutant: a session is kept after a dump that failed.
Drop_Kept(r) ==
    /\ At(r, "drop") /\ umu = Free
    /\ Answer(r)
    /\ UNCHANGED <<wall, cap, streams, ui, adb, load>>

\* drop: the session the device has by now is taken out of the table, ...
Drop(r) ==
    /\ At(r, "drop") /\ umu = Free
    /\ live' = live \ {req[r].dev}
    /\ IF req[r].dev \in live THEN GoTo(r, "close") ELSE Answer(r)
    /\ UNCHANGED <<wall, cap, streams, umu, tunnel, agent, dumped, adb, load>>

\* ... and its forward removed when u.mu is free again.
Close(r) ==
    /\ At(r, "close")
    /\ tunnel' = tunnel \ {req[r].dev}
    /\ Answer(r)
    /\ UNCHANGED <<wall, cap, streams, live, umu, agent, dumped, adb, load>>

-----------------------------------------------------------------------------
(* The devices.                                                            *)

AgentUp(d) ==
    /\ agent[d] = "starting"
    /\ agent' = [agent EXCEPT ![d] = "up"]
    /\ UNCHANGED <<wall, cap, streams, live, umu, tunnel, dumped, adb, req, load>>

\* A new container: no agent, a stale adb connection, and perhaps the old
\* forward.  Nobody tells the sessions.
Rebuild(d) ==
    /\ load.upsets < MaxUpsets
    /\ load' = [load EXCEPT !.upsets = @ + 1]
    /\ agent' = [agent EXCEPT ![d] = "none"]
    /\ online' = online \ {d}
    /\ tunnel' \in {tunnel, tunnel \ {d}}
    /\ UNCHANGED <<wall, cap, streams, live, umu, dumped, hung, req>>

\* adb.Client.Alive: a probe that fails connects again.
Reconnect(d) ==
    /\ d \notin online
    /\ online' = online \cup {d}
    /\ UNCHANGED <<wall, cap, streams, ui, hung, req, load>>

\* A screencap or an input that the device does not answer: execRunner has
\* the context of the request and no time limit.
Hang(r) ==
    /\ req[r].pc \in {"capture", "frame", "inject"} /\ r \notin hung
    /\ load.upsets < MaxUpsets
    /\ load' = [load EXCEPT !.upsets = @ + 1]
    /\ hung' = hung \cup {r}
    /\ UNCHANGED <<wall, cap, streams, ui, online, req>>

\* The device answers after all, its container goes, or the client does, and
\* its context kills the command.
Revive(r) ==
    /\ r \in hung
    /\ hung' = hung \ {r}
    /\ UNCHANGED <<wall, cap, streams, ui, online, req, load>>

-----------------------------------------------------------------------------

\* Steps that wait for a lock, and the others.  The answer of a screenshot
\* waits for its client: the server gives a write no time limit.
LockStep(r) ==
    \/ FindEntry(r) \/ LockEntry(r)
    \/ LockCapture(r, "queue", "capture") \/ LockCapture(r, "grab", "frame")
    \/ Purge(r) \/ (\E e \in Entries : EmptyEntry(r, e))
    \/ GetSession(r) \/ Drop(r)
OwnStep(r) ==
    \/ Capture(r) \/ Store(r)
    \/ InjectADB(r) \/ InjectScrcpy(r) \/ AnswerInput(r)
    \/ EnterStream(r) \/ Frame(r) \/ LeaveStream(r)
    \/ Forward(r) \/ Ping(r) \/ Launch(r) \/ WaitReady(r) \/ Dump(r) \/ Close(r)
Asks(a) == \E d \in Devices, z \in Sizes : Arrive(a, "dump", d, z)

Next ==
    \/ \E r \in Requests :
           \/ \E k \in Kinds, d \in Devices, z \in Sizes : Arrive(r, k, d, z)
           \/ LockStep(r) \/ OwnStep(r) \/ AnswerShot(r) \/ StreamOver(r)
           \/ Hang(r) \/ Revive(r)
    \/ \E e \in Entries : Expire(e)
    \/ \E d \in Devices : ActLate(d) \/ AgentUp(d) \/ Rebuild(d) \/ Reconnect(d)

Spec == Init /\ [][Next]_vars

\* An adb command that does not hang returns, a dump has a time limit, and a
\* mutex of Go lets nobody starve.  The agents ask again, the health checker
\* connects to a device that is back.  Nothing ends a hang.
Fairness ==
    /\ \A r \in Requests : SF_vars(LockStep(r)) /\ WF_vars(OwnStep(r))
    /\ \A a \in Agents : WF_vars(Asks(a))
    /\ \A d \in Devices : WF_vars(AgentUp(d)) /\ WF_vars(Reconnect(d))

FairSpec == Spec /\ Fairness

-----------------------------------------------------------------------------
(* Properties.                                                             *)

\* Once an input through adb has been answered, no screenshot asked for
\* afterwards shows the device as it was before, whatever captures, for
\* whatever sizes, were under way when the input came.
FreshAfterInput ==
    \A r \in Requests : At(r, "answer") => req[r].got >= req[r].floor

\* No more streams than the node can stand, though browsers open and close
\* them at the same moment.
StreamCap == Cardinality({r \in Requests : req[r].pc \in {"grab", "frame"}}) <= MaxStreams

\* No two requests wait for each other, with the locks of the cache, its
\* entries, the captures and the sessions taken in the order the handlers take
\* them, and a command that hung leaves no lock behind: while no adb command
\* hangs for ever, every request comes to its answer.
EveryRequestAnswered ==
    <>[](hung = {}) =>
        \A r \in Requests : req[r] # Idle /\ req[r].kind # "stream" ~>
                            req[r] = Idle \/ At(r, "answer")

\* An agent that keeps asking gets its dump again, after rebuilds, and after
\* other requests have removed the forward of a newer session than theirs.
DumpsRecover == \A a \in Agents : "dump" \in load.kinds => []<>(a \in dumped)

-----------------------------------------------------------------------------
(* What the code does not keep: see "Deviations" in the README.            *)

\* A screenshot of one device does not wait for the capture of another.
NoQueueAcrossDevices ==
    \A r, i \in Requests :
        At(r, "entry") /\ cmu = i /\ req[i].dev # req[r].dev =>
            \A e \in req[i].left : emu[e] = Free

\* The request of one client does not wait for ever when another's hangs.
AnsweredDespiteHangs ==
    \A r \in Requests :
        req[r] # Idle /\ req[r].kind # "stream" ~>
        req[r] = Idle \/ At(r, "answer") \/ r \in hung
=============================================================================
