---------------------------- MODULE DeviceSettings ---------------------------
(***************************************************************************)
(* One device on its node: its container, the sidecars that carry its      *)
(* settings (relay and tun for egress, a feed for the camera), the base    *)
(* directory all devices start from, and everybody who touches them: the   *)
(* settings handlers of the HTTP server, the rebuild that replays what is  *)
(* stored, and the start-up goroutine with Reconcile and MakeGolden.       *)
(*                                                                         *)
(* One action is one docker command, or one statement of the store.  The   *)
(* settings of different devices share nothing but the base, so one device *)
(* is enough.  Nothing but the state column keeps two goroutines from      *)
(* rebuilding it at a time, and across a restart, or with the health       *)
(* checker beside the start-up, it does not: rebuilds may overlap here.    *)
(***************************************************************************)
EXTENDS Naturals, FiniteSets

CONSTANTS
    Clients,       \* settings requests that may be in progress at a time
    Rivals,        \* rebuilds that may begin while another one is under way
    Proxies,       \* upstream proxies, camera sources and mock locations
    Sources,
    Places,
    Images,        \* redroid images a configuration may name
    Reasons,       \* why a rebuild starts: "reset", "health", "identity"
    Faults,        \* commands that may fail
    Restarts,      \* <<egress before, egress after>> a restart may configure
    MaxRequests,   \* bounds: settings requests, and restarts of the daemon
    MaxRestarts

ASSUME SettingsAssumption ==
    /\ Images # {} /\ "none" \notin Images
    /\ "job" \notin Clients \cup Rivals /\ Clients \cap Rivals = {}
    /\ MaxRequests \in Nat /\ MaxRestarts \in Nat
    /\ Reasons \subseteq {"reset", "health", "identity"}
    /\ Faults \subseteq {"rm", "run", "exec", "boot", "exit", "list", "golden"}
    /\ Restarts \subseteq BOOLEAN \X BOOLEAN

VARIABLES
    row,        \* devices: the state and the settings columns of the device
    device,     \* container droidpool-<id>
    tun,        \* container droidpool-tun-<id>: the netns and the adb port
    relay,      \* container droidpool-egress-<id>: its upstream
    feed,       \* container droidpool-cam-<id>: its source
    stray,      \* a foreign container holds the port of the device
    base,       \* the directory devices mount as /data-base
    golden,     \* the image of container droidpool-golden
    act,        \* requests and rebuilds in progress
    boot,       \* the start-up goroutine
    cfg,        \* the configuration this daemon was started with
    disturbed,  \* history: what the last change of was not clean
    spent       \* requests and restarts so far

sidecars == <<tun, relay, feed>>
vars == <<row, device, sidecars, stray, base, golden, act, boot, cfg, disturbed, spent>>

-----------------------------------------------------------------------------
(* State.                                                                  *)

Unset == "unset"    \* an empty column: direct, no camera, node default
None == "none"      \* no such container, no such file
Settings == {"egress", "camera", "location"}
Choices(k) == {Unset} \cup (CASE k = "egress" -> Proxies
                              [] k = "camera" -> Sources
                              [] k = "location" -> Places)
Columns == {c \in [Settings -> UNION {Choices(k) : k \in Settings}] :
               \A k \in Settings : c[k] \in Choices(k)}

States == {"ready", "leased", "resetting", "creating", "broken"}
Serving == {"ready", "leased"}

\* net: its own port, the netns of the tun, or that of a tun that is gone.
\* hal: the camera HAL has found its video node.
Containers == [run : {None, "booting", "up"}, net : {None, "own", "tun", "lost"},
               hal : BOOLEAN, location : Choices("location")]
NoDevice == [run |-> None, net |-> None, hal |-> FALSE, location |-> Unset]

\* by: the image that filled the base, or "mixed"; done: all settings are in
\* it; beside: history, a golden container ran on beside the wipe.
EmptyBase == [by |-> None, done |-> FALSE, stamp |-> None, beside |-> FALSE]

\* A request, or a rebuild: the next command, the settings it holds, those it
\* has still to put in force, and what it overlapped with; only rebuilds take
\* the network away.  A rebuild that finds no other one is Job.
Job == "job"
Rebuilders == {Job} \cup Rivals
Processes == Clients \cup Rebuilders
Everything == Settings \cup {"network"}
Idle == [pc |-> "idle"]
Tasks == [pc : {"remove", "sidecars", "create", "relayrm", "relayrun", "tun", "device", "boot",
                "routes", "read", "apply", "feedrun", "rescan", "store"},
          kind : Settings \cup Reasons \cup {"boot", "create"},
          want : Columns, todo : SUBSET Settings, met : SUBSET Everything]
Busy(p) == act[p] # Idle
Rebuilding == \E j \in Rebuilders : Busy(j)
Active(k) == {c \in Clients : Busy(c) /\ act[c].kind = k}

TypeOK ==
    /\ row \in [state : States, set : Columns]
    /\ device \in Containers
    /\ tun \in {None, "up", "routed"}
    /\ relay \in Choices("egress") \cup {None}
    /\ feed \in Choices("camera")
    /\ stray \in BOOLEAN
    /\ base \in [by : Images \cup {None, "mixed"}, done : BOOLEAN,
                stamp : Images \cup {None}, beside : BOOLEAN]
    /\ golden \in Images \cup {None}
    /\ act \in [Processes -> {Idle} \cup Tasks]
    /\ \A c \in Clients : Busy(c) => act[c].kind \in Settings
    /\ boot \in {"reconcile", "stamp?", "wipe", "run", "set", "stamp", "stop",
                 "rows", "ensure", "done"}
    /\ cfg \in [egress : BOOLEAN, image : Images]
    /\ disturbed \subseteq Everything
    /\ spent \in [requests : 0 .. MaxRequests, restarts : 0 .. MaxRestarts]

\* A first start on a fresh node, or on one that ran something else before.
Init ==
    /\ row = [state |-> "broken", set |-> [k \in Settings |-> Unset]]
    /\ device = NoDevice
    /\ tun = None /\ relay = None /\ feed = Unset
    /\ stray \in BOOLEAN
    /\ base = EmptyBase /\ golden = None
    /\ act = [p \in Processes |-> Idle]
    /\ boot = "reconcile"
    /\ cfg \in [egress : BOOLEAN, image : Images]
    /\ disturbed = {}
    /\ spent = [requests |-> 0, restarts |-> 0]

-----------------------------------------------------------------------------
(* Helpers.                                                                *)

\* The host port of the device, published by its tun or by the device.
PortTaken == stray \/ tun # None \/ (device.run # None /\ device.net = "own")

Advance(p, pc) == act' = [act EXCEPT ![p].pc = pc]

\* The settings a process has left are put in force in this order.
Turn(p) ==
    IF "egress" \in act[p].todo THEN "egress"
    ELSE IF "camera" \in act[p].todo THEN "camera" ELSE "location"
Applies(p, k) == act[p].pc = "apply" /\ act[p].todo # {} /\ Turn(p) = k
Applied(p, k) == act' = [act EXCEPT ![p].pc = "apply", ![p].todo = @ \ {k}]

\* A process starts; it and those it overlaps with remember what both may
\* change.
OnlyStores(p) == act[p].pc = "store" /\ act[p].todo = {}
Touched(p) == IF p \in Rebuilders THEN Everything ELSE IF OnlyStores(p) THEN {} ELSE {act[p].kind}
Begin(p, pc, kind, want, todo, mine) ==
    act' = [q \in Processes |->
              IF q = p
              THEN [pc |-> pc, kind |-> kind, want |-> want, todo |-> todo,
                    met |-> mine \cap UNION {Touched(r) : r \in {x \in Processes : Busy(x)}}]
              ELSE IF Busy(q) THEN [act[q] EXCEPT !.met = @ \cup (mine \cap Touched(q))]
              ELSE Idle]

\* An error: of a rebuild, only logged; of a request, its answer.
GiveUp(p) ==
    IF p \in Rebuilders
    THEN act' = [act EXCEPT ![p].pc = "apply", ![p].todo = {}, ![p].met = @ \cup Settings]
         /\ UNCHANGED disturbed
    ELSE act' = [act EXCEPT ![p] = Idle] /\ disturbed' = disturbed \cup {act[p].kind}

-----------------------------------------------------------------------------
(* Remove and Create, the containers of a device.                          *)

\* Nobody waits for another rebuild; two at a time leave everything in doubt.
RebuildOf(j, kind, pc) ==
    /\ ~Busy(j) /\ (j # Job => Rebuilding)
    /\ Begin(j, pc, kind, row.set, {}, Everything)
    /\ disturbed' = IF Rebuilding THEN Everything ELSE disturbed

\* A lease ends, the health checker gives the device up, or its identity
\* changes; a leased device whose identity changes stays leased.
StartRebuild(j, kind) ==
    /\ kind \in Reasons
    /\ row.state \in (IF kind = "reset" THEN {"leased"} ELSE Serving)
    /\ row' = [row EXCEPT !.state =
                 CASE kind = "reset" -> "resetting"
                   [] kind = "health" -> "broken"
                   [] kind = "identity" -> IF @ = "ready" THEN "resetting" ELSE @]
    /\ RebuildOf(j, kind, "remove")
    /\ UNCHANGED <<device, sidecars, stray, base, golden, boot, cfg, spent>>

Claim ==
    /\ row.state = "ready"
    /\ row' = [row EXCEPT !.state = "leased"]
    /\ UNCHANGED <<device, sidecars, stray, base, golden, act, boot, cfg, disturbed, spent>>

\* rm -f of the device; its error is only logged.
RemoveDevice(j) ==
    /\ act[j].pc = "remove"
    /\ \/ device' = NoDevice
       \/ "rm" \in Faults /\ UNCHANGED device
    /\ Advance(j, "sidecars")
    /\ UNCHANGED <<row, sidecars, stray, base, golden, boot, cfg, disturbed, spent>>

\* Taking the tun away takes the network from whoever joined it.
Unplugged == IF device.net = "tun" THEN [device EXCEPT !.net = "lost"] ELSE device

\* removeEgress and removeCamFeed; then WipeData, which is PoolManager's.
RemoveSidecars(j) ==
    /\ act[j].pc = "sidecars"
    /\ tun' = None /\ relay' = None /\ feed' = Unset
    /\ device' = Unplugged
    /\ Advance(j, "create")
    /\ UNCHANGED <<row, stray, base, golden, boot, cfg, disturbed, spent>>

\* Mutant: Create trusts Remove to have been called.
CreateBegins_KeepsOld(j) ==
    /\ act[j].pc = "create"
    /\ Advance(j, IF cfg.egress THEN "relayrm" ELSE "device")
    /\ UNCHANGED <<row, device, sidecars, stray, base, golden, boot, cfg, disturbed, spent>>

\* Create: rm -f again, then the sidecars of the egress, or none.
CreateBegins(j) ==
    /\ act[j].pc = "create"
    /\ \/ device' = NoDevice
       \/ "rm" \in Faults /\ UNCHANGED device
    /\ Advance(j, IF cfg.egress THEN "relayrm" ELSE "device")
    /\ UNCHANGED <<row, sidecars, stray, base, golden, boot, cfg, disturbed, spent>>

\* startTun: rm -f, then run; the relay before it is StartRelay below.
StartTun(j) ==
    /\ act[j].pc = "tun"
    /\ ~stray /\ ~(device.run # None /\ device.net = "own")
    /\ tun' = "up" /\ device' = Unplugged
    /\ Advance(j, "device")
    /\ UNCHANGED <<row, relay, feed, stray, base, golden, boot, cfg, disturbed, spent>>

\* docker run of the device: into the netns of its tun, or on its own port.
RunDevice(j) ==
    /\ act[j].pc = "device"
    /\ device.run = None
    /\ IF cfg.egress THEN tun # None ELSE ~PortTaken
    /\ device' = [NoDevice EXCEPT !.run = "booting",
                                  !.net = IF cfg.egress THEN "tun" ELSE "own"]
    /\ Advance(j, "boot")
    /\ UNCHANGED <<row, sidecars, stray, base, golden, boot, cfg, disturbed, spent>>

WaitBoot(j) ==
    /\ act[j].pc = "boot"
    /\ device.run \in {"booting", "up"}
    /\ device' = [device EXCEPT !.run = "up"]
    /\ Advance(j, "routes")
    /\ UNCHANGED <<row, sidecars, stray, base, golden, boot, cfg, disturbed, spent>>

\* A name or a port is taken, a command fails, or Android does not boot.
Collides(j) ==
    \/ act[j].pc = "relayrun" /\ act[j].todo = {} /\ relay # None
    \/ act[j].pc = "tun" /\ (stray \/ (device.run # None /\ device.net = "own"))
    \/ act[j].pc = "device" /\ (device.run # None
                                  \/ IF cfg.egress THEN tun = None ELSE PortTaken)
CreateFails(j) ==
    /\ \/ Collides(j)
       \/ /\ "run" \in Faults /\ act[j].pc \in {"create", "relayrun", "tun", "device"}
          /\ act[j].todo = {}
       \/ act[j].pc = "boot" /\ ("boot" \in Faults \/ device.run = None)
    /\ row' = [row EXCEPT !.state = "broken"]
    /\ act' = [act EXCEPT ![j] = Idle]
    /\ tun' = IF act[j].pc = "tun" THEN None ELSE tun
    /\ device' = IF act[j].pc = "tun" THEN Unplugged ELSE device
    /\ UNCHANGED <<relay, feed, stray, base, golden, boot, cfg, disturbed, spent>>

-----------------------------------------------------------------------------
(* The settings, one docker command at a time, for whoever applies them.   *)

\* FinishEgress: the rules of the netns.
FinishEgress(j) ==
    /\ act[j].pc = "routes"
    /\ \/ /\ cfg.egress => tun # None
          /\ tun' = IF cfg.egress THEN "routed" ELSE tun
          /\ Advance(j, "read") /\ UNCHANGED disturbed
       \/ cfg.egress /\ ("exec" \in Faults \/ tun = None) /\ GiveUp(j) /\ UNCHANGED tun
    /\ UNCHANGED <<row, device, relay, feed, stray, base, golden, boot, cfg, spent>>

\* Mutant: the settings are those read when the rebuild began.
ReadRow_AtStart(j) ==
    /\ act[j].pc = "read"
    /\ act' = [act EXCEPT ![j].pc = "apply",
                          ![j].todo = {k \in Settings : act[j].want[k] # Unset}]
    /\ UNCHANGED <<row, device, sidecars, stray, base, golden, boot, cfg, disturbed, spent>>

\* applyDeviceSettings reads the row and replays what is set.
ReadRow(j) ==
    /\ act[j].pc = "read"
    /\ act' = [act EXCEPT ![j].pc = "apply", ![j].want = row.set,
                          ![j].todo = {k \in Settings : row.set[k] # Unset}]
    /\ UNCHANGED <<row, device, sidecars, stray, base, golden, boot, cfg, disturbed, spent>>

\* startRelay: rm -f, then run.  Create starts a relay without an upstream.
RelayRemoved(p) ==
    /\ act[p].pc = "relayrm" \/ Applies(p, "egress")
    /\ relay' = None /\ Advance(p, "relayrun")
    /\ UNCHANGED <<row, device, tun, feed, stray, base, golden, boot, cfg, disturbed, spent>>

RelayRun(p) ==
    /\ act[p].pc = "relayrun" /\ relay = None
    /\ IF "egress" \in act[p].todo
       THEN relay' = act[p].want["egress"] /\ Applied(p, "egress")
       ELSE relay' = Unset /\ Advance(p, "tun")
    /\ UNCHANGED <<row, device, tun, feed, stray, base, golden, boot, cfg, disturbed, spent>>

\* Node.SetCamera: rm -f; without a source that is all.
FeedRemoved(p) ==
    /\ Applies(p, "camera")
    /\ feed' = Unset
    /\ IF act[p].want["camera"] = Unset THEN Applied(p, "camera") ELSE Advance(p, "feedrun")
    /\ UNCHANGED <<row, device, tun, relay, stray, base, golden, boot, cfg, disturbed, spent>>

FeedRun(p) ==
    /\ act[p].pc = "feedrun" /\ feed = Unset
    /\ feed' = act[p].want["camera"] /\ Advance(p, "rescan")
    /\ UNCHANGED <<row, device, tun, relay, stray, base, golden, boot, cfg, disturbed, spent>>

\* rescanCamera, after the feed has settled: the HAL looks at its node again.
RescanCamera(p) ==
    /\ act[p].pc = "rescan" /\ device.run # None
    /\ device' = [device EXCEPT !.hal = (feed # Unset)]
    /\ Applied(p, "camera")
    /\ UNCHANGED <<row, sidecars, stray, base, golden, boot, cfg, disturbed, spent>>

\* Node.SetLocation, in the running Android.
SetLocation(p) ==
    /\ Applies(p, "location") /\ device.run = "up"
    /\ device' = [device EXCEPT !.location = act[p].want["location"]]
    /\ Applied(p, "location")
    /\ UNCHANGED <<row, sidecars, stray, base, golden, boot, cfg, disturbed, spent>>

\* A name is taken, the device is not there, or a command fails.
SettingFails(p) ==
    /\ \/ /\ act[p].pc = "relayrun" /\ "egress" \in act[p].todo
          /\ (relay # None \/ "run" \in Faults)
       \/ act[p].pc = "feedrun" /\ (feed # Unset \/ "run" \in Faults)
       \/ act[p].pc = "rescan" /\ (device.run = None \/ "exec" \in Faults)
       \/ Applies(p, "location") /\ (device.run # "up" \/ "exec" \in Faults)
    /\ GiveUp(p)
    /\ UNCHANGED <<row, device, sidecars, stray, base, golden, boot, cfg, spent>>

\* Whatever became of the settings, the device is put into service.  A device
\* that createOne made keeps a feed nobody stored: it did not call Remove.
DeviceReady(j) ==
    /\ act[j].pc = "apply" /\ act[j].todo = {}
    /\ row' = [row EXCEPT !.state = IF act[j].kind = "identity" /\ @ # "resetting"
                                    THEN @ ELSE "ready"]
    /\ disturbed' = act[j].met \cup
         (IF act[j].kind = "create" /\ act[j].want["camera"] = Unset
          THEN disturbed \cap {"camera"} ELSE {})
    /\ act' = [act EXCEPT ![j] = Idle]
    /\ UNCHANGED <<device, sidecars, stray, base, golden, boot, cfg, spent>>

-----------------------------------------------------------------------------
(* The settings handlers.                                                  *)

\* A request that passed validation; the row is read before anything is done.
Arrives(c, k, v, pc, todo) ==
    /\ ~Busy(c) /\ spent.requests < MaxRequests
    /\ Begin(c, pc, k, [row.set EXCEPT ![k] = v], todo, todo)
    /\ spent' = [spent EXCEPT !.requests = @ + 1]
    /\ UNCHANGED <<row, device, sidecars, stray, base, golden, boot, cfg, disturbed>>

RequestArrives(c, k, v) == k # "location" /\ Arrives(c, k, v, "apply", {k})

\* A location is set at once only on a device that was in service when the row
\* was read.
LocationArrives(c, v) ==
    Arrives(c, "location", v, "store", IF row.state \in Serving THEN {"location"} ELSE {})

\* Manager.SetLocation stores first.  A location that is only stored is for
\* the next rebuild to replay; stored after ReadRow, nobody replays it.  (With
\* rebuilds that overlap, it counts as disturbed in any case.)
RowRead == Busy(Job) /\ (act[Job].todo # {} \/ act[Job].pc = "apply")
StoreLocation(c) ==
    LET late == OnlyStores(c) /\ (RowRead \/ (~Busy(Job) /\ row.state \in Serving)) IN
    /\ act[c].pc = "store"
    /\ row' = [row EXCEPT !.set["location"] = act[c].want["location"]]
    /\ act' = [q \in Processes |->
                 IF q = c THEN IF act[c].todo = {} THEN Idle ELSE [act[c] EXCEPT !.pc = "apply"]
                 ELSE IF late /\ Busy(q)
                      THEN [act[q] EXCEPT !.met = @ \cup (Touched(q) \cap {"location"})]
                 ELSE act[q]]
    /\ disturbed' = IF late THEN disturbed \cup {"location"} ELSE disturbed
    /\ UNCHANGED <<device, sidecars, stray, base, golden, boot, cfg, spent>>

\* Mutant: a setting that is cleared is stored as the word none.
RequestEnds_Word(c) ==
    /\ act[c].pc = "apply" /\ act[c].todo = {}
    /\ act[c].want[act[c].kind] = Unset
    /\ row' = [row EXCEPT !.set[act[c].kind] = None]
    /\ act' = [act EXCEPT ![c] = Idle]
    /\ UNCHANGED <<device, sidecars, stray, base, golden, boot, cfg, disturbed, spent>>

\* Manager.SetEgress and SetCamera store what has been put in force.  A new
\* relay does not make up for a tun that is gone, or for the rules of a
\* FinishEgress that failed.
RequestEnds(c) ==
    /\ act[c].pc = "apply" /\ act[c].todo = {}
    /\ row' = IF act[c].kind = "location" THEN row
              ELSE [row EXCEPT !.set[act[c].kind] = act[c].want[act[c].kind]]
    /\ disturbed' = IF act[c].met # {} THEN disturbed \cup {act[c].kind}
                    ELSE IF act[c].kind = "egress" /\ device.net = "tun" /\ tun # "routed"
                    THEN disturbed
                    ELSE disturbed \ {act[c].kind}
    /\ act' = [act EXCEPT ![c] = Idle]
    /\ UNCHANGED <<device, sidecars, stray, base, golden, boot, cfg, spent>>

-----------------------------------------------------------------------------
(* The start-up goroutine: Reconcile, MakeGolden, ReconcileStore, Ensure.  *)

\* Mutant: sidecars are taken by their prefix for containers without a device.
BootReconcile_Sidecars ==
    /\ boot = "reconcile" /\ boot' = "stamp?"
    /\ stray' = FALSE /\ tun' = None /\ relay' = None /\ feed' = Unset
    /\ device' = Unplugged
    /\ UNCHANGED <<row, base, golden, act, cfg, disturbed, spent>>

\* Node.Reconcile keeps the devices of the pool and their sidecars, and
\* droidpool-golden; what else holds a port of the pool goes.
BootReconcile ==
    /\ boot = "reconcile" /\ boot' = "stamp?"
    /\ stray' = FALSE \/ ("list" \in Faults /\ UNCHANGED stray)
    /\ UNCHANGED <<row, device, sidecars, base, golden, act, cfg, disturbed, spent>>

\* MakeGolden: a base that this image made is kept.
GoldenCheck ==
    /\ boot = "stamp?"
    /\ \/ boot' = IF base.by # None /\ base.stamp = cfg.image THEN "rows" ELSE "wipe"
       \/ "golden" \in Faults /\ boot' = "wipe"
    /\ UNCHANGED <<row, device, sidecars, stray, base, golden, act, cfg, disturbed, spent>>

\* The wipe comes before the rm -f of a golden container that a crash left
\* running: it may go on writing, into what has just been wiped.
GoldenWipe ==
    /\ boot = "wipe" /\ boot' = "run"
    /\ \/ base' = EmptyBase
       \/ golden # None /\ base' = [EmptyBase EXCEPT !.by = golden, !.beside = TRUE]
    /\ UNCHANGED <<row, device, sidecars, stray, golden, act, cfg, disturbed, spent>>

\* rm -f droidpool-golden, then run it on the bare directory.
GoldenRun ==
    /\ boot = "run" /\ boot' = "set"
    /\ golden' = cfg.image
    /\ base' = [base EXCEPT !.by = IF @ \in {None, cfg.image} THEN cfg.image ELSE "mixed"]
    /\ UNCHANGED <<row, device, sidecars, stray, act, cfg, disturbed, spent>>

\* Mutant: the stamp is written when Android is up, before the settings.
GoldenSet_StampFirst ==
    /\ boot = "set"
    /\ IF base.stamp = None
       THEN base' = [base EXCEPT !.stamp = cfg.image] /\ UNCHANGED boot
       ELSE base' = [base EXCEPT !.done = TRUE] /\ boot' = "stop"
    /\ UNCHANGED <<row, device, sidecars, stray, golden, act, cfg, disturbed, spent>>

\* Android is up and the system settings are made.
GoldenSet ==
    /\ boot = "set" /\ boot' = "stamp"
    /\ base' = [base EXCEPT !.done = TRUE]
    /\ UNCHANGED <<row, device, sidecars, stray, golden, act, cfg, disturbed, spent>>

GoldenStamp ==
    /\ boot = "stamp" /\ boot' = "stop"
    /\ base' = [base EXCEPT !.stamp = cfg.image]
    /\ UNCHANGED <<row, device, sidecars, stray, golden, act, cfg, disturbed, spent>>

\* stop, and the deferred rm -f.
GoldenStop ==
    /\ boot = "stop" /\ boot' = "rows"
    /\ golden' = None
    /\ UNCHANGED <<row, device, sidecars, stray, base, act, cfg, disturbed, spent>>

\* An error ends MakeGolden; once the container was started it is removed.
GoldenFails ==
    /\ boot \in {"wipe", "run", "set", "stamp", "stop"} /\ "golden" \in Faults
    /\ boot' = "rows"
    /\ golden' = IF boot = "wipe" THEN golden ELSE None
    /\ UNCHANGED <<row, device, sidecars, stray, base, act, cfg, disturbed, spent>>

\* RunningSet and ReconcileStore; with fault "list" they are skipped.  A reset
\* that a release of this run has under way is taken for one left over.
BootRows ==
    /\ boot = "rows" /\ boot' = "ensure"
    /\ \/ "list" \in Faults /\ UNCHANGED <<row, act, disturbed>>
       \/ /\ row.state \in Serving /\ device.run = None
          /\ row' = [row EXCEPT !.state = "broken"] /\ UNCHANGED <<act, disturbed>>
       \/ /\ row.state \in {"resetting", "creating"} /\ UNCHANGED row
          /\ \E j \in Rebuilders : RebuildOf(j, "boot", "remove")
       \/ /\ row.state = "broken" \/ (row.state \in Serving /\ device.run # None)
          /\ UNCHANGED <<row, act, disturbed>>
    /\ UNCHANGED <<device, sidecars, stray, base, golden, cfg, spent>>

\* Ensure, once ReconcileStore has returned from its own Reset, and createOne,
\* which does not call Remove.
BootEnsure ==
    /\ boot = "ensure" /\ boot' = "done"
    /\ \A j \in Rebuilders : Busy(j) => act[j].kind # "boot"
    /\ IF row.state = "broken"
       THEN /\ row' = [row EXCEPT !.state = "creating"]
            /\ \E j \in Rebuilders : RebuildOf(j, "create", "create")
       ELSE UNCHANGED <<row, act, disturbed>>
    /\ UNCHANGED <<device, sidecars, stray, base, golden, cfg, spent>>

-----------------------------------------------------------------------------
(* The container and the daemon.                                           *)

DeviceExits ==
    /\ "exit" \in Faults /\ device.run = "up"
    /\ device' = NoDevice
    /\ UNCHANGED <<row, sidecars, stray, base, golden, act, boot, cfg, disturbed, spent>>

\* The daemon is gone in whatever it was doing, and is started again.
Restart ==
    /\ spent.restarts < MaxRestarts
    /\ spent' = [spent EXCEPT !.restarts = @ + 1]
    /\ act' = [p \in Processes |-> Idle] /\ boot' = "reconcile"
    /\ \E e \in BOOLEAN, i \in Images :
          <<cfg.egress, e>> \in Restarts /\ cfg' = [egress |-> e, image |-> i]
    /\ disturbed' = disturbed \cup {k \in Settings : Active(k) # {}}
    /\ UNCHANGED <<row, device, sidecars, stray, base, golden>>

RebuildStep(j) ==
    \/ RemoveDevice(j) \/ RemoveSidecars(j) \/ CreateBegins(j) \/ StartTun(j)
    \/ RunDevice(j) \/ WaitBoot(j) \/ CreateFails(j) \/ FinishEgress(j)
    \/ ReadRow(j) \/ DeviceReady(j)
SettingStep(p) ==
    \/ RelayRemoved(p) \/ RelayRun(p) \/ FeedRemoved(p) \/ FeedRun(p)
    \/ RescanCamera(p) \/ SetLocation(p) \/ SettingFails(p)
RequestStep(c) ==
    \/ \E k \in Settings : \E v \in Choices(k) : RequestArrives(c, k, v)
    \/ \E v \in Choices("location") : LocationArrives(c, v)
    \/ StoreLocation(c) \/ RequestEnds(c)
GoldenStep ==
    GoldenCheck \/ GoldenWipe \/ GoldenRun \/ GoldenSet \/ GoldenStamp \/ GoldenStop
    \/ GoldenFails

Next ==
    \/ \E j \in Rebuilders, r \in Reasons : StartRebuild(j, r)
    \/ Claim
    \/ \E j \in Rebuilders : RebuildStep(j)
    \/ \E p \in Processes : SettingStep(p)
    \/ \E c \in Clients : RequestStep(c)
    \/ BootReconcile \/ GoldenStep \/ BootRows \/ BootEnsure
    \/ DeviceExits
    \/ Restart

Spec == Init /\ [][Next]_vars

-----------------------------------------------------------------------------
(* Properties.                                                             *)

\* What is stored for a setting is what the running containers do.
InForce(k) ==
    CASE k = "egress" -> device.net = "tun" =>
                            tun = "routed" /\ relay = row.set["egress"]
      [] k = "camera" -> /\ feed = row.set["camera"]
                         /\ feed # Unset => device.hal
      [] k = "location" -> device.location = row.set["location"]

InService == row.state \in Serving /\ ~Rebuilding /\ boot = "done" /\ device.run = "up"

\* A rebuild throws away what a device was set to, and the next one may be
\* after a crash, a failed request or a half-done rebuild: a device in service
\* is set to what the database says, for every setting whose last change
\* neither failed nor overlapped another.
SettingsInForce ==
    InService => \A k \in Settings \ disturbed : Active(k) = {} => InForce(k)

\* The tun owns the network namespace of a device, and a device that has lost
\* it is healthy to everybody who looks through docker exec: a device in
\* service is never left in one that is gone, by a settings request, a restart
\* of the daemon, or its clean-up of containers it does not know.  It may be
\* by two rebuilds that overlap (NetworkStaysAnyway below), and then the next
\* rebuild that runs alone, whatever the others left, brings it back.
NetworkStays ==
    InService /\ "network" \notin disturbed =>
        device.net # "lost" /\ (device.net = "tun" => tun # None)

\* What an earlier start, rebuild or request left behind (a name, the port of
\* the device) does not make the next rebuild fail: one that collides has a
\* settings request, or another rebuild, running beside it.
NoCollision ==
    [][\A j \in Rebuilders :
          Collides(j) /\ row'.state = "broken" /\ row.state # "broken"
              => act[j].met # {}]_vars

\* What a start takes for a finished base is one: wherever the daemon died in
\* MakeGolden, a base that bears a stamp has all its settings, and nothing in
\* it is of another image than the stamp says, unless a golden container that
\* the crash left running wrote on beside the wipe (TakenBaseIsPure below).
TakenBaseIsComplete ==
    base.stamp # None => base.done /\ (base.by = base.stamp \/ base.beside)

-----------------------------------------------------------------------------
(* What the code does not keep: see "Deviations" in the README.            *)

\* The network of a device survives every rebuild that ends well: the rm -f of
\* one startTun takes away the tun that the device of another has joined.
NetworkStaysAnyway ==
    InService => device.net # "lost" /\ (device.net = "tun" => tun # None)

\* "When the image changes it must be wiped: what is left of the old /data
\* would mix with the new image": a finished base is of one image.
TakenBaseIsPure == base.stamp # None => base.by # "mixed"

\* "Then the golden base, then fill the pool": no device is started on a
\* base that a golden container is still writing.
BaseAtRest ==
    [][device.run = None /\ device'.run # None => golden = None]_vars
=============================================================================
