------------------------------- MODULE EventHub ------------------------------
(***************************************************************************)
(* How the device wall learns what has changed: the hub that broadcasts    *)
(* events, the handler that turns each of them into a fresh snapshot       *)
(* (internal/api/events.go, wallSnapshot in wall.go), the goroutines that  *)
(* write the database and then announce it, and the page, which listens to *)
(* some kinds of events and polls while its stream is down (wall.html).    *)
(*                                                                         *)
(* The database is its version.  A snapshot reads the devices, then the    *)
(* leases, then the health of the node: it is as old as its first read.    *)
(***************************************************************************)
EXTENDS Naturals, Sequences

CONSTANTS
    Writers,       \* goroutines that write the database at a time
    Cap,           \* the buffer of a subscriber (16)
    MaxStreams,    \* bounds: connections the page ever makes
    MaxWrites      \* and writes of the database

ASSUME HubAssumption == Cap \in Nat \ {0} /\ MaxStreams \in Nat /\ MaxWrites \in Nat

VARIABLES
    db,          \* version of the database
    announced,   \* history: the version whose announcement is complete
    writer,      \* goroutines between their write and the end of Publish
    subs,        \* h.subs
    chan,        \* the channel of each handler
    closed,      \* channels that are closed
    stream,      \* the handlers
    page         \* the wall in the browser

vars == <<db, announced, writer, subs, chan, closed, stream, page>>

-----------------------------------------------------------------------------
(* State.                                                                  *)

Streams == 1 .. MaxStreams
Offline == 0

\* How a write is announced.  heard: claim, release, human, reap.  unheard:
\* device, egress, camera, identity, location, which the wall has no listener
\* for.  Renewals, health rounds and rebuilds are silent.
Kinds == {"heard", "unheard"}

\* left: the subscribers Publish has still to send to; it holds the read lock
\* from the first to the last.
Resting == [pc |-> "rest"]

\* kind: of the event the next snapshot goes out with.
NotMade == [pc |-> "new"]
Over == [pc |-> "over"]

TypeOK ==
    /\ db \in Nat /\ announced \in Nat
    /\ writer \in [Writers ->
           {Resting} \cup [pc : {"publish", "sending"}, kind : Kinds,
                           left : SUBSET Streams, ver : Nat]]
    /\ subs \subseteq Streams /\ closed \subseteq Streams
    /\ chan \in [Streams -> Seq(Kinds)] /\ \A s \in Streams : Len(chan[s]) <= Cap
    /\ stream \in [Streams ->
           {NotMade, Over} \cup [pc : {"subscribe", "read", "write", "select", "leave"},
                                 kind : Kinds, read : Nat, sent : Nat]]
    /\ page \in [conn : Streams \cup {Offline}, polling : BOOLEAN, shown : Nat,
                 poll : {"idle", "apply"}, read : Nat]

Nothing == 0

Init ==
    /\ db = 1
    /\ announced = Nothing
    /\ writer = [w \in Writers |-> Resting]
    /\ subs = {} /\ closed = {}
    /\ chan = [s \in Streams |-> <<>>]
    /\ stream = [s \in Streams |-> NotMade]
    /\ page = [conn |-> Offline, polling |-> FALSE, shown |-> Nothing,
               poll |-> "idle", read |-> Nothing]

-----------------------------------------------------------------------------
(* Publish.                                                                *)

Sending(w) == writer[w].pc = "sending"
ReadLocked == \E w \in Writers : Sending(w)

\* A handler, the watchdog or a rebuild writes.
Write(w, kind) ==
    /\ writer[w] = Resting
    /\ db <= MaxWrites
    /\ db' = db + 1
    /\ writer' = IF kind = "silent" THEN writer
                 ELSE [writer EXCEPT ![w] = [pc |-> "publish", kind |-> kind,
                                             left |-> {}, ver |-> db']]
    /\ UNCHANGED <<announced, subs, chan, closed, stream, page>>

\* RLock.
PublishBegins(w) ==
    /\ writer[w].pc = "publish"
    /\ writer' = [writer EXCEPT ![w].pc = "sending", ![w].left = subs]
    /\ UNCHANGED <<db, announced, subs, chan, closed, stream, page>>

\* Mutant: the channel has no buffer, a handler that is busy misses the event.
Send_Unbuffered(w, s) ==
    /\ Sending(w) /\ s \in writer[w].left
    /\ chan' = IF stream[s].pc = "select" /\ chan[s] = <<>>
               THEN [chan EXCEPT ![s] = <<writer[w].kind>>] ELSE chan
    /\ writer' = [writer EXCEPT ![w].left = @ \ {s}]
    /\ UNCHANGED <<db, announced, subs, closed, stream, page>>

\* Mutant: what a slow subscriber has not read queues up without a bound.
Send_NoBound(w, s) ==
    /\ Sending(w) /\ s \in writer[w].left
    /\ chan' = [chan EXCEPT ![s] = Append(@, writer[w].kind)]
    /\ writer' = [writer EXCEPT ![w].left = @ \ {s}]
    /\ UNCHANGED <<db, announced, subs, closed, stream, page>>

\* A send that never blocks: what does not fit into the buffer is dropped.
Send(w, s) ==
    /\ Sending(w) /\ s \in writer[w].left
    /\ chan' = IF Len(chan[s]) < Cap
               THEN [chan EXCEPT ![s] = Append(@, writer[w].kind)] ELSE chan
    /\ writer' = [writer EXCEPT ![w].left = @ \ {s}]
    /\ UNCHANGED <<db, announced, subs, closed, stream, page>>

PublishEnds(w) ==
    /\ Sending(w) /\ writer[w].left = {}
    /\ announced' = IF writer[w].ver > announced THEN writer[w].ver ELSE announced
    /\ writer' = [writer EXCEPT ![w] = Resting]
    /\ UNCHANGED <<db, subs, chan, closed, stream, page>>

-----------------------------------------------------------------------------
(* handleEvents.                                                           *)

At(s, pc) == stream[s].pc = pc
GoTo(s, pc) == stream' = [stream EXCEPT ![s].pc = pc]

\* The browser opens its EventSource, or opens it again after an error.
Connect(s) ==
    /\ page.conn = Offline
    /\ At(s, "new") /\ \A r \in Streams : r < s => ~At(r, "new")
    /\ stream' = [stream EXCEPT ![s] = [pc |-> "subscribe", kind |-> "heard",
                                        read |-> Nothing, sent |-> Nothing]]
    /\ page' = [page EXCEPT !.conn = s]
    /\ UNCHANGED <<db, announced, writer, subs, chan, closed>>

\* Subscribe takes the write lock; the first snapshot comes after it.
Subscribe(s) ==
    /\ At(s, "subscribe") /\ ~ReadLocked
    /\ subs' = subs \cup {s}
    /\ GoTo(s, "read")
    /\ UNCHANGED <<db, announced, writer, chan, closed, page>>

\* wallSnapshot.
ReadTables(s) ==
    /\ At(s, "read")
    /\ stream' = [stream EXCEPT ![s].pc = "write", ![s].read = db]
    /\ UNCHANGED <<db, announced, writer, subs, chan, closed, page>>

\* writeSSE does not look at errors.  The page applies what it listens to;
\* the first thing that arrives ends its polling.
WriteSSE(s) ==
    /\ At(s, "write")
    /\ stream' = [stream EXCEPT ![s].pc = "select",
                                   ![s].sent = stream[s].read, ![s].read = Nothing]
    /\ page' = IF page.conn # s THEN page
               ELSE [page EXCEPT !.polling = FALSE,
                        !.shown = IF stream[s].kind = "heard" THEN stream[s].read ELSE @]
    /\ UNCHANGED <<db, announced, writer, subs, chan, closed>>

TakeEvent(s) ==
    /\ At(s, "select") /\ chan[s] # <<>>
    /\ chan' = [chan EXCEPT ![s] = Tail(@)]
    /\ stream' = [stream EXCEPT ![s].pc = "read", ![s].kind = Head(chan[s])]
    /\ UNCHANGED <<db, announced, writer, subs, closed, page>>

\* Mutant: the heartbeat carries no data.
Tick_Empty(s) == At(s, "select") /\ UNCHANGED vars

\* Every 3 s, whether or not there was an event.
Tick(s) ==
    /\ At(s, "select")
    /\ stream' = [stream EXCEPT ![s].pc = "read", ![s].kind = "heard"]
    /\ UNCHANGED <<db, announced, writer, subs, chan, closed, page>>

\* Mutant: the handler waits for an error of its writes instead.
ContextDone_Never(s) == FALSE /\ UNCHANGED vars

ContextDone(s) ==
    /\ At(s, "select") /\ page.conn # s
    /\ GoTo(s, "leave")
    /\ UNCHANGED <<db, announced, writer, subs, chan, closed, page>>

\* Mutant: the channel is closed without the write lock.
Unsubscribe_NoLock(s) ==
    /\ At(s, "leave")
    /\ subs' = subs \ {s} /\ closed' = closed \cup {s}
    /\ chan' = [chan EXCEPT ![s] = <<>>]
    /\ stream' = [stream EXCEPT ![s] = Over]
    /\ UNCHANGED <<db, announced, writer, page>>

\* The deferred Unsubscribe.
Unsubscribe(s) ==
    /\ At(s, "leave") /\ ~ReadLocked
    /\ subs' = subs \ {s} /\ closed' = closed \cup {s}
    /\ chan' = [chan EXCEPT ![s] = <<>>]
    /\ stream' = [stream EXCEPT ![s] = Over]
    /\ UNCHANGED <<db, announced, writer, page>>

-----------------------------------------------------------------------------
(* The page.                                                               *)

\* onerror: the connection is lost, polling starts.
Disconnect ==
    /\ page.conn # Offline /\ page.conn < MaxStreams
    /\ page' = [page EXCEPT !.conn = Offline, !.polling = TRUE]
    /\ UNCHANGED <<db, announced, writer, subs, chan, closed, stream>>

\* fallbackPoll, handleWallData: the same snapshot, applied when it arrives,
\* be it after the stream is back.
Poll ==
    /\ page' = IF page.poll = "idle"
               THEN [page EXCEPT !.poll = "apply", !.read = db]
               ELSE [page EXCEPT !.poll = "idle", !.shown = page.read, !.read = Nothing]
    /\ page.poll = "idle" => page.polling
    /\ UNCHANGED <<db, announced, writer, subs, chan, closed, stream>>

-----------------------------------------------------------------------------

PublishStep(w) == PublishBegins(w) \/ (\E s \in Streams : Send(w, s)) \/ PublishEnds(w)
StreamStep(s) ==
    \/ Connect(s) \/ Subscribe(s) \/ ReadTables(s) \/ WriteSSE(s)
    \/ Unsubscribe(s)

Next ==
    \/ \E w \in Writers : (\E k \in Kinds \cup {"silent"} : Write(w, k)) \/ PublishStep(w)
    \/ \E s \in Streams : StreamStep(s) \/ TakeEvent(s) \/ Tick(s) \/ ContextDone(s)
    \/ Disconnect \/ Poll

Spec == Init /\ [][Next]_vars

\* Nothing in Publish blocks, reads of the database return, the ticker ticks,
\* the browser takes what it is sent and connects again.  The select chooses
\* at random among its ready cases: one that is ready again and again is taken.
Fairness ==
    /\ \A w \in Writers : WF_vars(PublishStep(w))
    /\ \A s \in Streams : WF_vars(StreamStep(s)) /\ WF_vars(Tick(s)) /\ SF_vars(ContextDone(s))
    /\ WF_vars(Poll)

FairSpec == Spec /\ Fairness

-----------------------------------------------------------------------------
(* Properties.                                                             *)

\* A send to a closed channel would take the daemon down: whoever publishes
\* meets only channels that are open, though pages come and go meanwhile.
NeverSendsOnClosed ==
    \A w \in Writers : Sending(w) => writer[w].left \cap closed = {}

\* Dropping events loses nothing: a handler that waits with an empty channel
\* has sent a snapshot at least as new as everything that was announced.
NothingMissed ==
    \A s \in subs :
        At(s, "select") /\ chan[s] = <<>> => stream[s].sent >= announced

\* A page that is gone leaves no handler and no subscription behind.
GoneStreamsEnd ==
    \A s \in Streams : ~At(s, "new") /\ page.conn # s ~> At(s, "over") /\ s \notin subs

\* Whatever is written, announced or not, heard by the page or not, dropped
\* or overtaken by a poll: the wall comes to show it and stays with it.
PageCatchesUp == <>[](page.shown = db)
=============================================================================
