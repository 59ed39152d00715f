------------------------- MODULE DeviceSettingsProofs ------------------------
(***************************************************************************)
(* Theorems about DeviceSettings, for any number of clients, proxies,      *)
(* camera sources, locations and images, of requests and of restarts.      *)
(***************************************************************************)
EXTENDS DeviceSettings, TLAPS

(* Columns and tasks.                                                      *)

LEMMA WhoIsWho ==
    /\ Job \in Rebuilders /\ Rebuilders \subseteq Processes /\ Clients \subseteq Processes
    /\ \A j \in Rebuilders : j \notin Clients
    /\ \A p \in Processes : p \in Clients \/ p \in Rebuilders
    /\ \A r \in Rivals : r # Job /\ r \in Rebuilders
BY SettingsAssumption DEF Processes, Rebuilders, Job

LEMMA ColumnsRead ==
    ASSUME NEW c \in Columns, NEW k \in Settings
    PROVE  c[k] \in Choices(k)
BY DEF Columns

LEMMA ColumnsWrite ==
    ASSUME NEW c \in Columns, NEW k \in Settings, NEW v \in Choices(k)
    PROVE  [c EXCEPT ![k] = v] \in Columns
BY DEF Columns

LEMMA UnsetIsAChoice == \A k \in Settings : Unset \in Choices(k)
BY DEF Choices, Settings

LEMMA NothingSet == [k \in Settings |-> Unset] \in Columns
BY UnsetIsAChoice DEF Columns

TaskPcs == {"remove", "sidecars", "create", "relayrm", "relayrun", "tun", "device", "boot",
            "routes", "read", "apply", "feedrun", "rescan", "store"}
ActOK == /\ act \in [Processes -> {Idle} \cup Tasks]
         /\ \A c \in Clients : Busy(c) => act[c].kind \in Settings

\* A process that is somewhere has its fields.
LEMMA AtTask ==
    ASSUME ActOK, NEW p \in Processes, act[p].pc \in TaskPcs
    PROVE  act[p] \in Tasks
BY DEF ActOK, Idle, TaskPcs

LEMMA AdvanceTyped ==
    ASSUME ActOK, NEW p \in Processes, act[p].pc \in TaskPcs, NEW pc \in TaskPcs, Advance(p, pc)
    PROVE  ActOK'
<1>1. act[p] \in Tasks
  BY AtTask
<1> QED  BY <1>1 DEF ActOK, Advance, Tasks, TaskPcs, Busy, Idle

LEMMA AppliedTyped ==
    ASSUME ActOK, NEW p \in Processes, act[p].pc \in TaskPcs, NEW k, Applied(p, k)
    PROVE  ActOK'
<1>1. act[p] \in Tasks
  BY AtTask
<1>2. [act[p] EXCEPT !.pc = "apply", !.todo = act[p].todo \ {k}] \in Tasks
  BY <1>1 DEF Tasks
<1>3. act' = [act EXCEPT ![p] = [act[p] EXCEPT !.pc = "apply", !.todo = act[p].todo \ {k}]]
  BY <1>1 DEF Applied, ActOK, Tasks
<1> QED  BY <1>1, <1>2, <1>3 DEF ActOK, Tasks, Busy, Idle

\* A task that ends; of a rebuild, only the settings are given up.
LEMMA GiveUpTyped ==
    ASSUME ActOK, disturbed \subseteq Everything, NEW p \in Processes,
           act[p].pc \in TaskPcs, GiveUp(p)
    PROVE  ActOK' /\ disturbed' \subseteq Everything
<1>1. act[p] \in Tasks
  BY AtTask
<1>2. CASE p \in Rebuilders
  <2> DEFINE t == [act[p] EXCEPT !.pc = "apply", !.todo = {}, !.met = @ \cup Settings]
  <2>1. t \in Tasks
    BY <1>1, <1>2 DEF Tasks, Everything
  <2>2. act' = [act EXCEPT ![p] = t] /\ UNCHANGED disturbed
    BY <1>1, <1>2 DEF GiveUp, ActOK, Tasks
  <2>3. p \notin Clients
    BY <1>2, WhoIsWho
  <2> HIDE DEF t
  <2> QED  BY <1>2, <2>1, <2>2, <2>3 DEF ActOK, Busy
<1>3. CASE p \notin Rebuilders
  BY <1>1, <1>3, WhoIsWho DEF ActOK, GiveUp, Tasks, Busy, Idle, TaskPcs, Everything
<1> QED  BY <1>2, <1>3

LEMMA IdleTyped ==
    ASSUME ActOK, NEW p \in Processes, act' = [act EXCEPT ![p] = Idle]
    PROVE  ActOK'
BY DEF ActOK, Busy

LEMMA BeginTyped ==
    ASSUME ActOK, NEW p \in Processes, NEW pc \in TaskPcs,
           NEW kind \in Settings \cup Reasons \cup {"boot", "create"},
           p \in Clients => kind \in Settings,
           NEW want \in Columns, NEW todo \in SUBSET Settings, NEW mine \in SUBSET Everything,
           Begin(p, pc, kind, want, todo, mine)
    PROVE  ActOK'
<1> DEFINE met == mine \cap UNION {Touched(r) : r \in {x \in Processes : Busy(x)}}
           new == [pc |-> pc, kind |-> kind, want |-> want, todo |-> todo, met |-> met]
           old(q) == [act[q] EXCEPT !.met = @ \cup (mine \cap Touched(q))]
<1>1. act' = [q \in Processes |-> IF q = p THEN new ELSE IF Busy(q) THEN old(q) ELSE Idle]
  BY DEF Begin
<1>2. met \subseteq Everything
  OBVIOUS
<1>3. new \in Tasks
  BY <1>2 DEF Tasks, TaskPcs
<1>4. \A q \in Processes : Busy(q) => act[q] \in Tasks
  BY DEF ActOK, Busy
<1>5. \A q \in Processes : Busy(q) => old(q) \in Tasks /\ old(q).kind = act[q].kind
  BY <1>4 DEF Tasks
<1> HIDE DEF new, old
<1>6. new.kind = kind
  BY DEF new
<1> QED  BY <1>1, <1>3, <1>5, <1>6 DEF ActOK, Busy, Processes

(* Type correctness.                                                       *)

LEMMA TypeInit == Init => TypeOK
BY NothingSet, UnsetIsAChoice, SettingsAssumption
   DEF Init, TypeOK, States, Containers, NoDevice, EmptyBase, Busy, Settings, Unset, None, Processes,
       Everything

LEMMA RebuildTyped ==
    ASSUME TypeOK, NEW j \in Rebuilders, NEW kind \in Reasons \cup {"boot", "create"},
           NEW pc \in TaskPcs, RebuildOf(j, kind, pc)
    PROVE  ActOK' /\ disturbed' \subseteq Everything
<1>1. ActOK /\ row.set \in Columns /\ disturbed \subseteq Everything
  BY DEF TypeOK, ActOK
<1>2. j \in Processes /\ j \notin Clients
  BY WhoIsWho
<1>3. Begin(j, pc, kind, row.set, {}, Everything)
  BY DEF RebuildOf
<1>4. ActOK'
  BY <1>1, <1>2, <1>3, BeginTyped
<1> QED  BY <1>1, <1>4 DEF RebuildOf

\* The steps of a rebuild up to the boot of the device.
LEMMA TypeCreate ==
    ASSUME TypeOK, NEW j \in Rebuilders,
           \/ RemoveDevice(j) \/ RemoveSidecars(j) \/ CreateBegins(j) \/ StartTun(j)
           \/ RunDevice(j) \/ WaitBoot(j) \/ CreateFails(j)
    PROVE  TypeOK'
<1> USE DEF sidecars, Containers
<1>1. ActOK /\ j \in Processes
  BY WhoIsWho DEF TypeOK, ActOK
<1>2. Unplugged \in Containers
  BY DEF TypeOK, Unplugged
<1>3. NoDevice \in Containers
  BY UnsetIsAChoice DEF NoDevice, Settings
<1>4. Unset \in Choices("camera")
  BY UnsetIsAChoice DEF Settings
<1>5. CASE RemoveDevice(j)
  <2>1. ActOK'
    BY <1>1, <1>5, AdvanceTyped DEF RemoveDevice, TaskPcs
  <2> QED  BY <1>3, <1>5, <2>1 DEF TypeOK, ActOK, RemoveDevice
<1>6. CASE RemoveSidecars(j)
  <2>1. ActOK'
    BY <1>1, <1>6, AdvanceTyped DEF RemoveSidecars, TaskPcs
  <2> QED  BY <1>2, <1>4, <1>6, <2>1 DEF TypeOK, ActOK, RemoveSidecars
<1>7. CASE CreateBegins(j)
  <2>1. ActOK'
    BY <1>1, <1>7, AdvanceTyped DEF CreateBegins, TaskPcs
  <2> QED  BY <1>3, <1>7, <2>1 DEF TypeOK, ActOK, CreateBegins
<1>8. CASE StartTun(j)
  <2>1. ActOK'
    BY <1>1, <1>8, AdvanceTyped DEF StartTun, TaskPcs
  <2> QED  BY <1>2, <1>8, <2>1 DEF TypeOK, ActOK, StartTun
<1>9. CASE RunDevice(j)
  <2>1. ActOK'
    BY <1>1, <1>9, AdvanceTyped DEF RunDevice, TaskPcs
  <2>2. device' \in Containers
    BY <1>3, <1>9 DEF RunDevice, NoDevice
  <2> QED  BY <1>9, <2>1, <2>2 DEF TypeOK, ActOK, RunDevice
<1>10. CASE WaitBoot(j)
  <2>1. ActOK'
    BY <1>1, <1>10, AdvanceTyped DEF WaitBoot, TaskPcs
  <2> QED  BY <1>10, <2>1 DEF TypeOK, ActOK, WaitBoot
<1>11. CASE CreateFails(j)
  <2>1. ActOK'
    BY <1>1, <1>11, IdleTyped DEF CreateFails
  <2> QED  BY <1>2, <1>11, <2>1 DEF TypeOK, ActOK, CreateFails, States
<1> QED  BY <1>5, <1>6, <1>7, <1>8, <1>9, <1>10, <1>11

\* The end of a rebuild.
LEMMA TypeFinish ==
    ASSUME TypeOK, NEW j \in Rebuilders, FinishEgress(j) \/ ReadRow(j) \/ DeviceReady(j)
    PROVE  TypeOK'
<1> USE DEF sidecars
<1>1. ActOK /\ j \in Processes /\ j \notin Clients /\ disturbed \subseteq Everything
  BY WhoIsWho DEF TypeOK, ActOK
<1>2. CASE FinishEgress(j)
  <2>1. ActOK' /\ disturbed' \subseteq Everything
    BY <1>1, <1>2, AdvanceTyped, GiveUpTyped DEF FinishEgress, TaskPcs
  <2> QED  BY <1>2, <2>1 DEF TypeOK, ActOK, FinishEgress
<1>3. CASE ReadRow(j)
  <2> DEFINE t == [act[j] EXCEPT !.pc = "apply", !.want = row.set,
                                   !.todo = {k \in Settings : row.set[k] # Unset}]
  <2>1. act[j] \in Tasks
    BY <1>1, <1>3, AtTask DEF ReadRow, TaskPcs
  <2>2. t \in Tasks
    BY <2>1 DEF TypeOK, Tasks
  <2>3. act' = [act EXCEPT ![j] = t]
    BY <1>1, <1>3, <2>1 DEF ReadRow, ActOK, Tasks
  <2> HIDE DEF t
  <2>4. ActOK'
    BY <1>1, <2>2, <2>3 DEF ActOK, Busy
  <2>5. UNCHANGED <<row, device, sidecars, stray, base, golden, boot, cfg, disturbed, spent>>
    BY <1>3 DEF ReadRow
  <2> QED  BY <2>4, <2>5 DEF TypeOK, ActOK
<1>4. CASE DeviceReady(j)
  <2>1. ActOK'
    BY <1>1, <1>4, IdleTyped DEF DeviceReady
  <2>2. act[j] \in Tasks
    BY <1>1, <1>4, AtTask DEF DeviceReady, TaskPcs
  <2>3. disturbed' \subseteq Everything
    BY <1>1, <1>4, <2>2 DEF DeviceReady, Tasks
  <2>4. row' \in [state : States, set : Columns]
    BY <1>4 DEF TypeOK, DeviceReady, States
  <2> QED  BY <1>4, <2>1, <2>3, <2>4 DEF TypeOK, ActOK, DeviceReady
<1> QED  BY <1>2, <1>3, <1>4

\* A setting is put in force, by a rebuild or by a request.
LEMMA TypeSetting ==
    ASSUME TypeOK, NEW p \in Processes, SettingStep(p)
    PROVE  TypeOK'
<1> USE DEF sidecars, Containers
<1>1. ActOK /\ disturbed \subseteq Everything
  BY DEF TypeOK, ActOK
<1>2. act[p].pc \in TaskPcs /\ act[p] \in Tasks
  BY <1>1, AtTask DEF SettingStep, RelayRemoved, RelayRun, FeedRemoved, FeedRun, RescanCamera,
     SetLocation, SettingFails, Applies, TaskPcs
<1>3. \A k \in Settings : act[p].want[k] \in Choices(k)
  BY <1>2, ColumnsRead DEF Tasks
<1>4. CASE RelayRemoved(p)
  <2>1. ActOK'
    BY <1>1, <1>2, <1>4, AdvanceTyped DEF RelayRemoved, TaskPcs
  <2> QED  BY <1>4, <2>1 DEF TypeOK, ActOK, RelayRemoved
<1>5. CASE RelayRun(p)
  <2>1. ActOK'
    BY <1>1, <1>2, <1>5, AdvanceTyped, AppliedTyped DEF RelayRun, TaskPcs
  <2>2. relay' \in Choices("egress")
    BY <1>3, <1>5, UnsetIsAChoice DEF RelayRun, Settings
  <2> QED  BY <1>5, <2>1, <2>2 DEF TypeOK, ActOK, RelayRun
<1>6. CASE FeedRemoved(p)
  <2>1. ActOK'
    BY <1>1, <1>2, <1>6, AdvanceTyped, AppliedTyped DEF FeedRemoved, TaskPcs
  <2> QED  BY <1>6, <2>1, UnsetIsAChoice DEF TypeOK, ActOK, FeedRemoved, Settings
<1>7. CASE FeedRun(p)
  <2>1. ActOK'
    BY <1>1, <1>2, <1>7, AdvanceTyped DEF FeedRun, TaskPcs
  <2> QED  BY <1>3, <1>7, <2>1 DEF TypeOK, ActOK, FeedRun, Settings
<1>8. CASE RescanCamera(p)
  <2>1. ActOK'
    BY <1>1, <1>2, <1>8, AppliedTyped DEF RescanCamera
  <2>2. (feed # Unset) \in BOOLEAN
    OBVIOUS
  <2>3. \A b \in BOOLEAN : [device EXCEPT !.hal = b] \in Containers
    BY DEF TypeOK
  <2>4. device' \in Containers
    BY <1>8, <2>2, <2>3, Zenon DEF RescanCamera
  <2>5. UNCHANGED <<row, sidecars, stray, base, golden, boot, cfg, disturbed, spent>>
    BY <1>8 DEF RescanCamera
  <2> QED  BY <2>1, <2>4, <2>5 DEF TypeOK, ActOK
<1>9. CASE SetLocation(p)
  <2>1. ActOK'
    BY <1>1, <1>2, <1>9, AppliedTyped DEF SetLocation
  <2>2. act[p].want["location"] \in Choices("location")
    BY <1>3 DEF Settings
  <2> QED  BY <1>9, <2>1, <2>2 DEF TypeOK, ActOK, SetLocation
<1>10. CASE SettingFails(p)
  <2>1. ActOK' /\ disturbed' \subseteq Everything
    BY <1>1, <1>2, <1>10, GiveUpTyped DEF SettingFails
  <2> QED  BY <1>10, <2>1 DEF TypeOK, ActOK, SettingFails
<1> QED  BY <1>4, <1>5, <1>6, <1>7, <1>8, <1>9, <1>10 DEF SettingStep

\* The settings handlers.
LEMMA TypeRequest ==
    ASSUME TypeOK, NEW c \in Clients, RequestStep(c)
    PROVE  TypeOK'
<1> USE DEF sidecars
<1>1. ActOK /\ disturbed \subseteq Everything /\ c \in Processes
  BY WhoIsWho DEF TypeOK, ActOK
<1>2. row.set \in Columns
  BY DEF TypeOK
<1>3. ASSUME NEW k \in Settings, NEW v \in Choices(k), NEW pc \in TaskPcs,
             NEW todo \in SUBSET Settings, Arrives(c, k, v, pc, todo)
      PROVE  TypeOK'
  <2>1. [row.set EXCEPT ![k] = v] \in Columns
    BY <1>2, ColumnsWrite
  <2>2. ActOK'
    <3>1. todo \in SUBSET Everything
      BY DEF Everything
    <3> QED  BY <1>1, <1>3, <2>1, <3>1, BeginTyped DEF Arrives
  <2>3. spent' \in [requests : 0 .. MaxRequests, restarts : 0 .. MaxRestarts]
    BY <1>3, SettingsAssumption DEF TypeOK, Arrives
  <2> QED  BY <1>3, <2>2, <2>3 DEF TypeOK, ActOK, Arrives
<1>4. ASSUME NEW k \in Settings, NEW v \in Choices(k), RequestArrives(c, k, v)
      PROVE  TypeOK'
  BY <1>4, <1>3 DEF RequestArrives, TaskPcs
<1>5. ASSUME NEW v \in Choices("location"), LocationArrives(c, v)
      PROVE  TypeOK'
  <2> DEFINE todo == IF row.state \in Serving THEN {"location"} ELSE {}
  <2>1. "location" \in Settings /\ todo \in SUBSET Settings
    BY DEF Settings
  <2>2. Arrives(c, "location", v, "store", todo)
    BY <1>5 DEF LocationArrives
  <2> QED  BY <1>3, <2>1, <2>2 DEF TaskPcs
<1>6. CASE StoreLocation(c)
  <2>1. act[c] \in Tasks
    BY <1>1, <1>6, AtTask DEF StoreLocation, TaskPcs
  <2>2. "location" \in Settings
    BY DEF Settings
  <2>3. act[c].want["location"] \in Choices("location")
    BY <2>1, <2>2, ColumnsRead DEF Tasks
  <2>4. [row.set EXCEPT !["location"] = act[c].want["location"]] \in Columns
    BY <1>2, <2>2, <2>3, ColumnsWrite
  <2>5. row' \in [state : States, set : Columns]
    BY <1>6, <2>4 DEF TypeOK, StoreLocation
  <2>6. ActOK'
    <3> DEFINE t == [act[c] EXCEPT !.pc = "apply"]
               m(q) == [act[q] EXCEPT !.met = @ \cup (Touched(q) \cap {"location"})]
    <3>1. /\ act' \in [Processes -> {act'[q] : q \in Processes}]
          /\ act'[c] \in {Idle, t}
          /\ \A q \in Processes \ {c} : act'[q] = act[q] \/ (Busy(q) /\ act'[q] = m(q))
      BY <1>1, <1>6 DEF StoreLocation
    <3>2. t \in Tasks /\ t.kind = act[c].kind
      BY <2>1 DEF Tasks
    <3>3. \A q \in Processes : Busy(q) => m(q) \in Tasks /\ m(q).kind = act[q].kind
      <4> SUFFICES ASSUME NEW q \in Processes, Busy(q)
                   PROVE  m(q) \in Tasks /\ m(q).kind = act[q].kind
        OBVIOUS
      <4>1. act[q] \in Tasks
        BY <1>1 DEF ActOK, Busy
      <4> QED  BY <2>2, <4>1 DEF Tasks, Everything
    <3>4. Busy(c)
      BY <1>6 DEF StoreLocation, Busy, Idle
    <3> HIDE DEF t, m
    <3>5. \A q \in Processes : act'[q] \in {Idle} \cup Tasks
      BY <1>1, <3>1, <3>2, <3>3 DEF ActOK
    <3>6. \A q \in Clients : act'[q] # Idle => act'[q].kind \in Settings
      BY <1>1, <3>1, <3>2, <3>3, <3>4 DEF ActOK, Busy, Processes
    <3> QED  BY <3>1, <3>5, <3>6 DEF ActOK, Busy
  <2>7. disturbed' \subseteq Everything
    BY <1>1, <1>6, <2>2 DEF StoreLocation, Everything
  <2>8. UNCHANGED <<device, sidecars, stray, base, golden, boot, cfg, spent>>
    BY <1>6 DEF StoreLocation
  <2> QED  BY <2>5, <2>6, <2>7, <2>8 DEF TypeOK, ActOK
<1>7. CASE RequestEnds(c)
  <2>1. act[c] \in Tasks /\ Busy(c)
    BY <1>1, <1>7, AtTask DEF RequestEnds, TaskPcs, Busy, Idle
  <2>2. act[c].kind \in Settings
    BY <1>1, <2>1 DEF ActOK
  <2>3. act[c].want[act[c].kind] \in Choices(act[c].kind)
    BY <2>1, <2>2, ColumnsRead DEF Tasks
  <2>4. [row.set EXCEPT ![act[c].kind] = act[c].want[act[c].kind]] \in Columns
    BY <1>2, <2>2, <2>3, ColumnsWrite
  <2>5. row' \in [state : States, set : Columns]
    BY <1>7, <2>4 DEF TypeOK, RequestEnds
  <2>6. ActOK'
    BY <1>1, <1>7, IdleTyped DEF RequestEnds
  <2>7. disturbed' \subseteq Everything
    BY <1>1, <1>7, <2>2 DEF RequestEnds, Everything
  <2> QED  BY <1>7, <2>5, <2>6, <2>7 DEF TypeOK, ActOK, RequestEnds
<1> QED  BY <1>4, <1>5, <1>6, <1>7 DEF RequestStep

\* The start-up goroutine.
LEMMA TypeBoot ==
    ASSUME TypeOK, BootReconcile \/ GoldenStep \/ BootRows \/ BootEnsure
    PROVE  TypeOK'
<1> USE DEF sidecars
<1>1. cfg.image \in Images
  BY DEF TypeOK
<1>2. CASE BootReconcile
  <2>1. /\ stray' = FALSE \/ stray' = stray
        /\ boot' = "stamp?"
        /\ UNCHANGED <<row, device, sidecars, base, golden, act, cfg, disturbed, spent>>
    BY <1>2, Zenon DEF BootReconcile
  <2>2. stray' \in BOOLEAN
    BY <2>1, Zenon DEF TypeOK
  <2> QED  BY <2>1, <2>2 DEF TypeOK, Busy
<1>3. CASE GoldenCheck \/ GoldenStop \/ GoldenFails
  <2>1. /\ golden' = golden \/ golden' = None
        /\ boot' = "rows" \/ boot' = "wipe"
        /\ UNCHANGED <<row, device, sidecars, stray, base, act, cfg, disturbed, spent>>
    BY <1>3 DEF GoldenCheck, GoldenStop, GoldenFails
  <2> QED  BY <2>1 DEF TypeOK, Busy
<1>4. CASE GoldenWipe
  <2>1. base' \in [by : Images \cup {None, "mixed"}, done : BOOLEAN,
                 stamp : Images \cup {None}, beside : BOOLEAN]
    <3>1. CASE base' = EmptyBase
      BY <3>1 DEF EmptyBase
    <3>2. CASE base' = [EmptyBase EXCEPT !.by = golden, !.beside = TRUE]
      BY <3>2 DEF EmptyBase, TypeOK
    <3> QED  BY <1>4, <3>1, <3>2 DEF GoldenWipe
  <2> QED  BY <1>4, <2>1 DEF TypeOK, GoldenWipe, Busy
<1>5. CASE GoldenRun
  <2>1. base' \in [by : Images \cup {None, "mixed"}, done : BOOLEAN,
                 stamp : Images \cup {None}, beside : BOOLEAN]
    BY <1>1, <1>5 DEF TypeOK, GoldenRun, Busy
  <2> QED  BY <1>1, <1>5, <2>1 DEF TypeOK, GoldenRun, Busy
<1>6. CASE GoldenSet \/ GoldenStamp
  BY <1>1, <1>6 DEF TypeOK, GoldenSet, GoldenStamp, Busy
<1>7. CASE BootRows
  <2>1. ActOK' /\ disturbed' \subseteq Everything
    <3>1. CASE UNCHANGED <<act, disturbed>>
      BY <3>1 DEF TypeOK, ActOK, Busy
    <3>2. CASE \E j \in Rebuilders, kind \in {"boot", "create"}, pc \in TaskPcs :
                  RebuildOf(j, kind, pc)
      BY <3>2, RebuildTyped
    <3> QED  BY <1>7, <3>1, <3>2 DEF BootRows, TaskPcs
  <2>2. row' \in [state : States, set : Columns]
    BY <1>7 DEF TypeOK, BootRows, States
  <2>3. boot' = "ensure" /\ UNCHANGED <<device, sidecars, stray, base, golden, cfg, spent>>
    BY <1>7 DEF BootRows
  <2> QED  BY <2>1, <2>2, <2>3 DEF TypeOK, ActOK
<1>8. CASE BootEnsure
  <2>1. ActOK' /\ disturbed' \subseteq Everything
    <3>1. CASE UNCHANGED <<act, disturbed>>
      BY <3>1 DEF TypeOK, ActOK, Busy
    <3>2. CASE \E j \in Rebuilders, kind \in {"boot", "create"}, pc \in TaskPcs :
                  RebuildOf(j, kind, pc)
      BY <3>2, RebuildTyped
    <3> QED  BY <1>8, <3>1, <3>2 DEF BootEnsure, TaskPcs
  <2>2. row' \in [state : States, set : Columns]
    BY <1>8 DEF TypeOK, BootEnsure, States
  <2>3. boot' = "done" /\ UNCHANGED <<device, sidecars, stray, base, golden, cfg, spent>>
    BY <1>8 DEF BootEnsure
  <2> QED  BY <2>1, <2>2, <2>3 DEF TypeOK, ActOK
<1> QED  BY <1>2, <1>3, <1>4, <1>5, <1>6, <1>7, <1>8 DEF GoldenStep

LEMMA TypeStep == TypeOK /\ [Next]_vars => TypeOK'
<1> SUFFICES ASSUME TypeOK, [Next]_vars
             PROVE  TypeOK'
  OBVIOUS
<1> USE DEF sidecars, Containers
<1>1. ASSUME NEW j \in Rebuilders, NEW r \in Reasons, StartRebuild(j, r)
      PROVE  TypeOK'
  <2>1. ActOK' /\ disturbed' \subseteq Everything
    BY <1>1, RebuildTyped DEF StartRebuild, TaskPcs
  <2>2. row' \in [state : States, set : Columns]
    BY <1>1, SettingsAssumption DEF TypeOK, StartRebuild, States
  <2>3. UNCHANGED <<device, sidecars, stray, base, golden, boot, cfg, spent>>
    BY <1>1 DEF StartRebuild
  <2> QED  BY <2>1, <2>2, <2>3 DEF TypeOK, ActOK
<1>2. CASE Claim
  BY <1>2 DEF TypeOK, Claim, States, Busy
<1>3. CASE DeviceExits
  <2>1. NoDevice \in Containers
    BY UnsetIsAChoice DEF NoDevice, Settings
  <2> QED  BY <1>3, <2>1 DEF TypeOK, DeviceExits, Busy
<1>4. CASE Restart
  <2>1. ActOK'
    BY <1>4 DEF Restart, ActOK, Busy, Processes
  <2>2. spent' \in [requests : 0 .. MaxRequests, restarts : 0 .. MaxRestarts]
    BY <1>4, SettingsAssumption DEF TypeOK, Restart
  <2>3. disturbed' \subseteq Everything
    BY <1>4 DEF TypeOK, Restart, Everything
  <2> QED  BY <1>4, <2>1, <2>2, <2>3 DEF TypeOK, ActOK, Restart
<1>5. CASE UNCHANGED vars
  BY <1>5 DEF TypeOK, vars, Busy
<1> QED  BY <1>1, <1>2, <1>3, <1>4, <1>5, TypeCreate, TypeFinish, TypeSetting, TypeRequest, TypeBoot
         DEF Next, RebuildStep

\* Columns, containers and requests have their types.
THEOREM SettingsTypeCorrect == Spec => []TypeOK
<1> QED  BY TypeInit, TypeStep, PTL DEF Spec

-----------------------------------------------------------------------------
(* The base.  Nothing but MakeGolden writes it, and a golden container that *)
(* it has not removed yet.                                                 *)

BaseInv ==
    /\ base.stamp # None => base.done /\ (base.by = base.stamp \/ base.beside)
    /\ boot = "run" => base.stamp = None /\ (base.by = None \/ base.beside)
    /\ boot \in {"set", "stamp"} =>
           base.stamp = None /\ (base.by = cfg.image \/ base.beside)
    /\ boot = "stamp" => base.done

LEMMA BaseStep ==
    ASSUME TypeOK, BaseInv, [Next]_vars
    PROVE  BaseInv'
<1> USE DEF sidecars
<1>1. CASE UNCHANGED <<base, cfg, boot>>
  BY <1>1 DEF BaseInv
<1>2. CASE base' = base /\ boot' \notin {"run", "set", "stamp"}
  BY <1>2 DEF BaseInv
<1>3. CASE GoldenWipe
  <2>1. boot' = "run" /\ base'.stamp = None /\ (base'.by = None \/ base'.beside = TRUE)
    <3>1. CASE base' = EmptyBase
      BY <1>3, <3>1 DEF GoldenWipe, EmptyBase
    <3>2. CASE base' = [EmptyBase EXCEPT !.by = golden, !.beside = TRUE]
      <4>1. base' = [by |-> golden, done |-> FALSE, stamp |-> None, beside |-> TRUE]
        BY <3>2 DEF EmptyBase
      <4> QED  BY <1>3, <4>1 DEF GoldenWipe
    <3> QED  BY <1>3, <3>1, <3>2 DEF GoldenWipe
  <2>2. boot' \notin {"set", "stamp"} /\ boot' # "stamp"
    BY <2>1
  <2> QED  BY <2>1, <2>2 DEF BaseInv
<1>4. CASE GoldenRun
  <2>1. /\ boot' = "set" /\ cfg' = cfg /\ base'.stamp = base.stamp
        /\ base'.beside = base.beside /\ (base.by = None => base'.by = cfg.image)
    BY <1>4 DEF GoldenRun, TypeOK
  <2>2. base.stamp = None /\ (base.by = None \/ base.beside)
    BY <1>4 DEF GoldenRun, BaseInv
  <2> QED  BY <2>1, <2>2 DEF BaseInv
<1>5. CASE GoldenSet
  <2>1. base' = [base EXCEPT !.done = TRUE] /\ boot' = "stamp" /\ boot = "set" /\ cfg' = cfg
    BY <1>5 DEF GoldenSet
  <2>2. /\ base'.by = base.by /\ base'.stamp = base.stamp /\ base'.done = TRUE
        /\ base'.beside = base.beside
    BY <2>1 DEF TypeOK
  <2> QED  BY <2>1, <2>2 DEF BaseInv
<1>6. CASE GoldenStamp
  <2>1. base' = [base EXCEPT !.stamp = cfg.image] /\ boot' = "stop" /\ boot = "stamp"
    BY <1>6 DEF GoldenStamp
  <2>2. /\ base'.by = base.by /\ base'.stamp = cfg.image /\ base'.done = base.done
        /\ base'.beside = base.beside
    BY <2>1 DEF TypeOK
  <2> QED  BY <2>1, <2>2 DEF BaseInv
<1>7. CASE \/ BootReconcile \/ GoldenCheck \/ GoldenStop \/ GoldenFails
           \/ BootRows \/ BootEnsure \/ Restart
  BY <1>2, <1>7 DEF BootReconcile, GoldenCheck, GoldenStop, GoldenFails, BootRows, BootEnsure,
     Restart
<1>8. ASSUME NEW p \in Processes, SettingStep(p)
      PROVE  BaseInv'
  BY <1>1, <1>8 DEF SettingStep, RelayRemoved, RelayRun, FeedRemoved, FeedRun, RescanCamera,
     SetLocation, SettingFails
<1>9. ASSUME NEW c \in Clients, RequestStep(c)
      PROVE  BaseInv'
  BY <1>1, <1>9 DEF RequestStep, RequestArrives, LocationArrives, Arrives, StoreLocation, RequestEnds
<1>10. ASSUME NEW j \in Rebuilders, RebuildStep(j)
       PROVE  BaseInv'
  BY <1>1, <1>10 DEF RebuildStep, RemoveDevice, RemoveSidecars, CreateBegins, StartTun, RunDevice,
     WaitBoot, CreateFails, FinishEgress, ReadRow, DeviceReady
<1>11. ASSUME NEW j \in Rebuilders, NEW r \in Reasons, StartRebuild(j, r)
       PROVE  BaseInv'
  BY <1>1, <1>11 DEF StartRebuild
<1>12. CASE Claim \/ DeviceExits \/ UNCHANGED vars
  BY <1>1, <1>12 DEF Claim, DeviceExits, vars
<1> QED  BY <1>3, <1>4, <1>5, <1>6, <1>7, <1>8, <1>9, <1>10, <1>11, <1>12 DEF Next, GoldenStep

\* Wherever the daemon died in MakeGolden, whatever image it is started with
\* next, and while the container of the dead start goes on writing: a base
\* with a stamp is whole, and of that image unless the wipe was written into.
THEOREM TakenBaseHolds == Spec => []TakenBaseIsComplete
<1>1. Init => BaseInv
  BY DEF Init, BaseInv, EmptyBase
<1>2. TypeOK /\ BaseInv /\ [Next]_vars => BaseInv'
  BY BaseStep
<1>3. BaseInv => TakenBaseIsComplete
  BY DEF BaseInv, TakenBaseIsComplete
<1> QED  BY <1>1, <1>2, <1>3, SettingsTypeCorrect, PTL DEF Spec

-----------------------------------------------------------------------------
(* What the steps do to who is doing what.                                 *)

\* A process that a step of another leaves where it is; it may have met it.
Kept(q) ==
    \/ act[q] = Idle /\ act'[q] = Idle
    \/ /\ Busy(q) /\ act'[q] \in Tasks
       /\ act'[q].pc = act[q].pc /\ act'[q].kind = act[q].kind
       /\ act'[q].want = act[q].want /\ act'[q].todo = act[q].todo
       /\ act[q].met \subseteq act'[q].met

\* The process that takes the step moves on, with what it wants.
Moves(p, pc, todo) ==
    /\ Busy(p) /\ act'[p] \in Tasks
    /\ act'[p].pc = pc /\ act'[p].todo = todo
    /\ act'[p].kind = act[p].kind /\ act'[p].want = act[p].want /\ act'[p].met = act[p].met
Others(p) == \A q \in Processes \ {p} : act'[q] = act[q]

LEMMA TaskIsBusy ==
    ASSUME ActOK, NEW p \in Processes
    PROVE  /\ act[p].pc \in TaskPcs => Busy(p)
           /\ Busy(p) => act[p] \in Tasks /\ act[p].pc \in TaskPcs
BY DEF ActOK, Busy, Idle, Tasks, TaskPcs

LEMMA TasksAreBusy == \A t \in Tasks : t # Idle /\ t.pc # "idle"
BY DEF Tasks, Idle

LEMMA AdvanceMoves ==
    ASSUME ActOK, NEW p \in Processes, act[p].pc \in TaskPcs, NEW pc \in TaskPcs, Advance(p, pc)
    PROVE  Moves(p, pc, act[p].todo) /\ Others(p)
<1>1. act[p] \in Tasks /\ Busy(p)
  BY TaskIsBusy
<1>2. act' = [act EXCEPT ![p] = [act[p] EXCEPT !.pc = pc]]
  BY <1>1 DEF Advance, ActOK, Tasks
<1>3. [act[p] EXCEPT !.pc = pc] \in Tasks
  BY <1>1 DEF Tasks, TaskPcs
<1> QED  BY <1>1, <1>2, <1>3 DEF ActOK, Moves, Others, Tasks

LEMMA AppliedMoves ==
    ASSUME ActOK, NEW p \in Processes, act[p].pc \in TaskPcs, NEW k, Applied(p, k)
    PROVE  Moves(p, "apply", act[p].todo \ {k}) /\ Others(p)
<1>1. act[p] \in Tasks /\ Busy(p)
  BY TaskIsBusy
<1>2. [act[p] EXCEPT !.pc = "apply", !.todo = act[p].todo \ {k}] \in Tasks
  BY <1>1 DEF Tasks
<1>3. act' = [act EXCEPT ![p] = [act[p] EXCEPT !.pc = "apply", !.todo = act[p].todo \ {k}]]
  BY <1>1 DEF Applied, ActOK, Tasks
<1> QED  BY <1>1, <1>2, <1>3 DEF ActOK, Moves, Others, Tasks

LEMMA OthersKept ==
    ASSUME ActOK, NEW p, Others(p)
    PROVE  \A q \in Processes \ {p} : Kept(q)
<1>1. \A q \in Processes : act[q] = Idle \/ (Busy(q) /\ act[q] \in Tasks)
  BY DEF ActOK, Busy
<1> QED  BY <1>1 DEF Others, Kept

\* A process whose task only meets another one more.
LEMMA MeetsIsKept ==
    ASSUME ActOK, NEW q \in Processes, Busy(q), NEW more \in SUBSET Everything,
           act'[q] = [act[q] EXCEPT !.met = @ \cup more]
    PROVE  Kept(q) /\ act'[q].met = act[q].met \cup more
<1>1. act[q] \in Tasks
  BY TaskIsBusy
<1>2. act[q].met \cup more \in SUBSET Everything
  BY <1>1 DEF Tasks
<1>3. act'[q] = [act[q] EXCEPT !.met = act[q].met \cup more]
  OBVIOUS
<1> QED  BY <1>1, <1>2, <1>3 DEF Tasks, Kept

LEMMA BeginStarts ==
    ASSUME ActOK, NEW p \in Processes, ~Busy(p), NEW pc \in TaskPcs,
           NEW kind \in Settings \cup Reasons \cup {"boot", "create"},
           NEW want \in Columns, NEW todo \in SUBSET Settings, NEW mine \in SUBSET Everything,
           Begin(p, pc, kind, want, todo, mine)
    PROVE  /\ act'[p] \in Tasks /\ act'[p].pc = pc /\ act'[p].kind = kind
           /\ act'[p].want = want /\ act'[p].todo = todo
           /\ \A q \in Processes \ {p} :
                  /\ Kept(q)
                  /\ Busy(q) => mine \cap Touched(q) \subseteq act'[p].met
                                /\ act'[q].met = act[q].met \cup (mine \cap Touched(q))
<1> DEFINE met == mine \cap UNION {Touched(r) : r \in {x \in Processes : Busy(x)}}
           new == [pc |-> pc, kind |-> kind, want |-> want, todo |-> todo, met |-> met]
<1>1. /\ act'[p] = new
      /\ \A q \in Processes \ {p} :
             act'[q] = IF Busy(q) THEN [act[q] EXCEPT !.met = @ \cup (mine \cap Touched(q))]
                       ELSE Idle
  BY DEF Begin
<1>2. met \subseteq Everything
  OBVIOUS
<1>3. new \in Tasks
  BY <1>2 DEF Tasks, TaskPcs
<1>4. ASSUME NEW q \in Processes \ {p}
      PROVE  /\ Kept(q)
             /\ Busy(q) => mine \cap Touched(q) \subseteq met
                           /\ act'[q].met = act[q].met \cup (mine \cap Touched(q))
  <2>1. CASE Busy(q)
    <3>1. mine \cap Touched(q) \in SUBSET Everything
      OBVIOUS
    <3>2. act'[q] = [act[q] EXCEPT !.met = @ \cup (mine \cap Touched(q))]
      BY <1>1, <2>1
    <3>3. Kept(q) /\ act'[q].met = act[q].met \cup (mine \cap Touched(q))
      BY <2>1, <3>1, <3>2, MeetsIsKept
    <3> QED  BY <2>1, <3>3
  <2>2. CASE ~Busy(q)
    BY <1>1, <2>2 DEF Busy, Kept
  <2> QED  BY <2>1, <2>2
<1> QED  BY <1>1, <1>3, <1>4

LEMMA KeptStays ==
    ASSUME NEW q, Kept(q)
    PROVE  /\ Busy(q)' <=> Busy(q)
           /\ act'[q].pc = act[q].pc
           /\ Busy(q) => Touched(q)' = Touched(q) /\ (OnlyStores(q)' <=> OnlyStores(q))
BY TasksAreBusy DEF Kept, Busy, Touched, OnlyStores

\* An error: a rebuild is through with its settings, a request is answered.
LEMMA GiveUpMoves ==
    ASSUME ActOK, NEW p \in Processes, act[p].pc \in TaskPcs, GiveUp(p)
    PROVE  /\ Others(p)
           /\ p \notin Rebuilders => act'[p] = Idle /\ disturbed' = disturbed \cup {act[p].kind}
           /\ p \in Rebuilders =>
                  /\ Busy(p) /\ act'[p] \in Tasks
                  /\ act'[p].pc = "apply" /\ act'[p].todo = {}
                  /\ act'[p].kind = act[p].kind /\ act'[p].want = act[p].want
                  /\ act'[p].met = act[p].met \cup Settings /\ disturbed' = disturbed
<1>1. act[p] \in Tasks /\ Busy(p)
  BY TaskIsBusy
<1>2. CASE p \in Rebuilders
  <2> DEFINE t == [act[p] EXCEPT !.pc = "apply", !.todo = {}, !.met = @ \cup Settings]
  <2>1. t \in Tasks /\ t.pc = "apply" /\ t.todo = {} /\ t.met = act[p].met \cup Settings
        /\ t.kind = act[p].kind /\ t.want = act[p].want
    BY <1>1, <1>2 DEF Tasks, Everything
  <2>2. act' = [act EXCEPT ![p] = t] /\ disturbed' = disturbed
    BY <1>1, <1>2 DEF GiveUp, ActOK, Tasks
  <2> HIDE DEF t
  <2> QED  BY <1>1, <1>2, <2>1, <2>2 DEF ActOK, Others
<1>3. CASE p \notin Rebuilders
  BY <1>3 DEF ActOK, GiveUp, Others
<1> QED  BY <1>2, <1>3

\* A request that arrives has done nothing yet.
Arrived(c) ==
    /\ ~Busy(c) /\ act'[c] \in Tasks /\ act'[c].kind \in Settings
    /\ act'[c].pc = (IF act'[c].kind = "location" THEN "store" ELSE "apply")
    /\ \/ act'[c].todo = {act'[c].kind}
       \/ act'[c].kind = "location" /\ act'[c].todo = {}
    /\ \A q \in Processes \ {c} : Busy(q) =>
           /\ act'[c].todo \cap Touched(q) \subseteq act'[c].met
           /\ act'[q].met = act[q].met \cup (act'[c].todo \cap Touched(q))
    /\ UNCHANGED <<row, disturbed>>

\* Late: a location that no rebuild will replay.
Late(c) == OnlyStores(c) /\ (RowRead \/ (~Busy(Job) /\ row.state \in Serving))
Stored(c) ==
    /\ act[c].pc = "store" /\ act[c] \in Tasks
    /\ IF act[c].todo = {} THEN act'[c] = Idle ELSE Moves(c, "apply", act[c].todo)
    /\ row' = [row EXCEPT !.set["location"] = act[c].want["location"]]
    /\ \A q \in Processes \ {c} : Busy(q) =>
           act'[q].met = IF Late(c) THEN act[q].met \cup (Touched(q) \cap {"location"})
                         ELSE act[q].met
    /\ disturbed' = IF Late(c) THEN disturbed \cup {"location"} ELSE disturbed

LEMMA ArrivesMoves ==
    ASSUME TypeOK, NEW c \in Clients, NEW k \in Settings, NEW v \in Choices(k), NEW todo,
           \/ k # "location" /\ todo = {k} /\ Arrives(c, k, v, "apply", todo)
           \/ k = "location" /\ todo \in {{}, {k}} /\ Arrives(c, k, v, "store", todo)
    PROVE  Arrived(c) /\ \A q \in Processes \ {c} : Kept(q)
<1>1. ActOK /\ c \in Processes /\ row.set \in Columns
  BY WhoIsWho DEF TypeOK, ActOK
<1>2. [row.set EXCEPT ![k] = v] \in Columns
  BY <1>1, ColumnsWrite
<1>3. todo \in SUBSET Settings /\ todo \in SUBSET Everything
  BY DEF Everything
<1> DEFINE pc == IF k = "location" THEN "store" ELSE "apply"
<1>4. pc \in TaskPcs /\ Arrives(c, k, v, pc, todo)
  BY DEF TaskPcs
<1> HIDE DEF pc
<1> DEFINE want == [row.set EXCEPT ![k] = v]
<1>5. ~Busy(c) /\ Begin(c, pc, k, want, todo, todo) /\ UNCHANGED <<row, disturbed>>
  BY <1>4 DEF Arrives
<1>7. want \in Columns /\ k \in Settings \cup Reasons \cup {"boot", "create"} /\ pc \in TaskPcs
  BY <1>2, <1>4
<1> HIDE DEF want
<1>6. /\ act'[c] \in Tasks /\ act'[c].pc = pc /\ act'[c].kind = k /\ act'[c].todo = todo
      /\ \A q \in Processes \ {c} :
             /\ Kept(q)
             /\ Busy(q) => todo \cap Touched(q) \subseteq act'[c].met
                           /\ act'[q].met = act[q].met \cup (todo \cap Touched(q))
  BY <1>1, <1>3, <1>5, <1>7, BeginStarts
<1> QED  BY <1>5, <1>6 DEF Arrived, pc

LEMMA StoreMoves ==
    ASSUME TypeOK, NEW c \in Clients, StoreLocation(c)
    PROVE  Stored(c) /\ \A q \in Processes \ {c} : Kept(q)
<1>1. ActOK /\ c \in Processes
  BY WhoIsWho DEF TypeOK, ActOK
<1>2. act[c].pc = "store" /\ act[c] \in Tasks /\ Busy(c)
  BY <1>1, TaskIsBusy DEF StoreLocation, TaskPcs
<1>3. \/ act[c].todo = {} /\ act'[c] = Idle
      \/ act[c].todo # {} /\ act'[c] = [act[c] EXCEPT !.pc = "apply"]
  BY <1>1 DEF StoreLocation
<1>4. act[c].todo # {} => Moves(c, "apply", act[c].todo)
  BY <1>2, <1>3 DEF Moves, Tasks
<1>5. /\ row' = [row EXCEPT !.set["location"] = act[c].want["location"]]
      /\ disturbed' = IF Late(c) THEN disturbed \cup {"location"} ELSE disturbed
  BY DEF StoreLocation, Late
<1>6. ASSUME NEW q \in Processes \ {c}
      PROVE  /\ Kept(q)
             /\ Busy(q) =>
                    act'[q].met = IF Late(c) THEN act[q].met \cup (Touched(q) \cap {"location"})
                                  ELSE act[q].met
  <2>1. \/ ~(Late(c) /\ Busy(q)) /\ act'[q] = act[q]
        \/ /\ Late(c) /\ Busy(q)
           /\ act'[q] = [act[q] EXCEPT !.met = @ \cup (Touched(q) \cap {"location"})]
    BY DEF StoreLocation, Late
  <2>2. CASE act'[q] = act[q]
    <3>1. Kept(q)
      BY <1>1, <2>2 DEF Kept, ActOK, Busy
    <3> QED  BY <2>1, <3>1, <2>2, MeetsIsKept, <1>1 DEF Settings, Everything
  <2>3. CASE /\ Late(c) /\ Busy(q)
             /\ act'[q] = [act[q] EXCEPT !.met = @ \cup (Touched(q) \cap {"location"})]
    <3>1. Touched(q) \cap {"location"} \in SUBSET Everything
      BY DEF Everything, Settings
    <3> QED  BY <1>1, <2>3, <3>1, MeetsIsKept
  <2> QED  BY <2>1, <2>2, <2>3
<1> QED  BY <1>2, <1>3, <1>4, <1>5, <1>6 DEF Stored

LEMMA RequestMoves ==
    ASSUME TypeOK, NEW c \in Clients, RequestStep(c)
    PROVE  /\ ActOK /\ c \in Processes /\ c \notin Rebuilders
           /\ UNCHANGED <<device, tun, relay, feed, cfg>> /\ row'.state = row.state
           /\ \A q \in Processes \ {c} : Kept(q)
           /\ \/ Arrived(c)
              \/ Stored(c)
              \/ RequestEnds(c) /\ act[c] \in Tasks /\ act'[c] = Idle /\ Others(c)
<1> USE DEF sidecars
<1>1. ActOK /\ c \in Processes /\ c \notin Rebuilders
  BY WhoIsWho DEF TypeOK, ActOK
<1>2. UNCHANGED <<device, tun, relay, feed, cfg>> /\ row'.state = row.state
  BY DEF RequestStep, RequestArrives, LocationArrives, Arrives, StoreLocation, RequestEnds, TypeOK
<1>3. ASSUME NEW k \in Settings, NEW v \in Choices(k), RequestArrives(c, k, v)
      PROVE  Arrived(c) /\ \A q \in Processes \ {c} : Kept(q)
  BY <1>3, ArrivesMoves DEF RequestArrives
<1>4. ASSUME NEW v \in Choices("location"), LocationArrives(c, v)
      PROVE  Arrived(c) /\ \A q \in Processes \ {c} : Kept(q)
  <2>1. "location" \in Settings
    BY DEF Settings
  <2> DEFINE todo == IF row.state \in Serving THEN {"location"} ELSE {}
  <2>2. todo \in {{}, {"location"}} /\ Arrives(c, "location", v, "store", todo)
    BY <1>4 DEF LocationArrives
  <2> HIDE DEF todo
  <2> QED  BY <2>1, <2>2, ArrivesMoves
<1>5. CASE RequestEnds(c)
  <2>1. act[c] \in Tasks
    BY <1>1, <1>5, TaskIsBusy DEF RequestEnds, TaskPcs
  <2>2. act'[c] = Idle /\ Others(c)
    BY <1>1, <1>5 DEF RequestEnds, ActOK, Others
  <2> QED  BY <1>1, <1>2, <1>5, <2>1, <2>2, OthersKept
<1> QED  BY <1>1, <1>2, <1>3, <1>4, <1>5, StoreMoves DEF RequestStep

\* The step of a process that applies settings, or of a rebuild: it moves on,
\* gives up or ends, and everybody else stays where they are.
LEMMA SettingStays ==
    ASSUME TypeOK, NEW p \in Processes, SettingStep(p)
    PROVE  /\ ActOK /\ Busy(p) /\ act[p].pc # "store" /\ Others(p)
           /\ disturbed \subseteq disturbed' /\ disturbed' \subseteq disturbed \cup Settings
           /\ \/ act'[p] = Idle
              \/ /\ Busy(p)' /\ act'[p].pc # "store" /\ act'[p].kind = act[p].kind
                 /\ act'[p].met \in {act[p].met, act[p].met \cup Settings}
<1> USE DEF sidecars
<1>1. ActOK
  BY DEF TypeOK, ActOK
<1>2. act[p].pc \in {"relayrm", "relayrun", "apply", "feedrun", "rescan"}
  BY DEF SettingStep, RelayRemoved, RelayRun, FeedRemoved, FeedRun, RescanCamera,
     SetLocation, SettingFails, Applies
<1>3. Busy(p) /\ act[p].pc \in TaskPcs
  BY <1>1, <1>2, TaskIsBusy DEF TaskPcs
<1>4. \A pc \in {"relayrun", "feedrun", "rescan", "tun"} : pc \in TaskPcs
  BY DEF TaskPcs
<1>5. CASE GiveUp(p)
  <2>1. p \notin Rebuilders => p \in Clients /\ act[p].kind \in Settings
    BY <1>3, WhoIsWho DEF TypeOK
  <2> QED  BY <1>1, <1>2, <1>3, <1>5, <2>1, GiveUpMoves, TasksAreBusy DEF Busy
<1>6. CASE (\E k : Applied(p, k)) /\ UNCHANGED disturbed
  <2>1. PICK k : Applied(p, k)
    BY <1>6
  <2>2. Moves(p, "apply", act[p].todo \ {k}) /\ Others(p)
    BY <1>1, <1>3, <2>1, AppliedMoves
  <2> QED  BY <1>1, <1>2, <1>3, <1>6, <2>2, TasksAreBusy DEF Moves, Busy
<1>7. CASE (\E pc \in {"relayrun", "feedrun", "rescan", "tun"} : Advance(p, pc))
           /\ UNCHANGED disturbed
  <2>1. PICK pc \in {"relayrun", "feedrun", "rescan", "tun"} : Advance(p, pc)
    BY <1>7
  <2>2. Moves(p, pc, act[p].todo) /\ Others(p)
    BY <1>1, <1>3, <1>4, <2>1, AdvanceMoves
  <2> QED  BY <1>1, <1>2, <1>3, <1>7, <2>1, <2>2, TasksAreBusy DEF Moves, Busy
<1> QED  BY <1>5, <1>6, <1>7 DEF SettingStep, RelayRemoved, RelayRun, FeedRemoved, FeedRun,
            RescanCamera, SetLocation, SettingFails

LEMMA RebuildStays ==
    ASSUME TypeOK, NEW j \in Rebuilders, RebuildStep(j)
    PROVE  /\ ActOK /\ Busy(j) /\ Others(j)
           /\ \/ /\ act'[j] = Idle
                 /\ disturbed' = disturbed \/ (DeviceReady(j) /\ act[j].met \subseteq disturbed')
              \/ /\ Busy(j)' /\ act'[j].met \in {act[j].met, act[j].met \cup Settings}
                 /\ disturbed' = disturbed
<1> USE DEF sidecars
<1>1. ActOK /\ j \in Processes
  BY WhoIsWho DEF TypeOK, ActOK
<1>2. act[j].pc \in TaskPcs
  BY DEF RebuildStep, RemoveDevice, RemoveSidecars, CreateBegins, StartTun, RunDevice, WaitBoot,
     CreateFails, Collides, FinishEgress, ReadRow, DeviceReady, TaskPcs
<1>3. Busy(j) /\ act[j] \in Tasks
  BY <1>1, <1>2, TaskIsBusy
<1>4. CASE GiveUp(j)
  BY <1>1, <1>2, <1>3, <1>4, GiveUpMoves, TasksAreBusy DEF Busy
<1>5. CASE (\E pc \in TaskPcs : Advance(j, pc)) /\ UNCHANGED disturbed
  <2>1. PICK pc \in TaskPcs : Advance(j, pc)
    BY <1>5
  <2>2. Moves(j, pc, act[j].todo) /\ Others(j)
    BY <1>1, <1>2, <2>1, AdvanceMoves
  <2> QED  BY <1>1, <1>3, <1>5, <2>2, TasksAreBusy DEF Moves, Busy
<1>6. CASE CreateFails(j) \/ DeviceReady(j)
  <2>1. act' = [act EXCEPT ![j] = Idle]
    BY <1>6 DEF CreateFails, DeviceReady
  <2>2. act'[j] = Idle /\ Others(j)
    BY <1>1, <2>1 DEF ActOK, Others
  <2> QED  BY <1>1, <1>3, <1>6, <2>2 DEF CreateFails, DeviceReady
<1>7. CASE ReadRow(j)
  <2> DEFINE t == [act[j] EXCEPT !.pc = "apply", !.want = row.set,
                                 !.todo = {k \in Settings : row.set[k] # Unset}]
  <2>1. t \in Tasks /\ t.met = act[j].met
    BY <1>3 DEF TypeOK, Tasks
  <2>2. act' = [act EXCEPT ![j] = t]
    BY <1>1, <1>3, <1>7 DEF ReadRow, ActOK, Tasks
  <2> HIDE DEF t
  <2>3. act'[j] = t /\ Others(j)
    BY <1>1, <2>2 DEF ActOK, Others
  <2> QED  BY <1>1, <1>3, <1>7, <2>1, <2>3, TasksAreBusy DEF ReadRow, Busy
<1>8. CASE RemoveDevice(j) \/ RemoveSidecars(j) \/ CreateBegins(j) \/ StartTun(j) \/ RunDevice(j)
           \/ WaitBoot(j)
  <2>1. \A pc \in {"sidecars", "create", "relayrm", "device", "boot", "routes"} : pc \in TaskPcs
    BY DEF TaskPcs
  <2>2. UNCHANGED disturbed
    BY <1>8 DEF RemoveDevice, RemoveSidecars, CreateBegins, StartTun, RunDevice, WaitBoot
  <2>3. \E pc \in {"sidecars", "create", "relayrm", "device", "boot", "routes"} : Advance(j, pc)
    BY <1>8 DEF RemoveDevice, RemoveSidecars, CreateBegins, StartTun, RunDevice, WaitBoot
  <2> QED  BY <1>5, <2>1, <2>2, <2>3
<1>9. CASE FinishEgress(j)
  <2>1. "read" \in TaskPcs
    BY DEF TaskPcs
  <2> QED  BY <1>4, <1>5, <1>9, <2>1 DEF FinishEgress
<1> QED  BY <1>6, <1>7, <1>8, <1>9 DEF RebuildStep

-----------------------------------------------------------------------------
(* Who runs beside whom.                                                   *)

\* Where processes are, and what they have left to do.
ClientShape(t) ==
    /\ t.pc \in {"apply", "relayrun", "feedrun", "rescan", "store"}
    /\ t.todo \subseteq {t.kind}
    /\ t.pc = "relayrun" => t.todo = {"egress"}
    /\ t.pc \in {"feedrun", "rescan"} => t.todo = {"camera"}
    /\ t.pc = "store" => t.kind = "location"
JobShape(t) ==
    /\ t.pc # "store" /\ t.kind \notin Settings
    /\ t.pc \notin {"apply", "relayrun", "feedrun", "rescan"} => t.todo = {}
    /\ t.pc \in {"feedrun", "rescan"} => "camera" \in t.todo
    /\ t.pc = "relayrun" => t.todo = {} \/ "egress" \in t.todo
    /\ \A k \in t.todo : t.want[k] # Unset
Shapes ==
    /\ \A c \in Clients : Busy(c) => ClientShape(act[c])
    /\ \A j \in Rebuilders : Busy(j) => JobShape(act[j])

\* Who changes the same setting at a time knows of it.
Overlaps ==
    \A p, q \in Processes :
        p # q /\ Busy(p) /\ Busy(q) => Touched(p) \cap Touched(q) \subseteq act[p].met

\* A rebuild that overlaps another one leaves everything in doubt.
Crowds ==
    \A j \in Rebuilders : Busy(j) =>
        /\ j # Job => "network" \in act[j].met
        /\ "network" \in act[j].met =>
               Everything \subseteq act[j].met /\ Everything \subseteq disturbed

\* No rebuild under way overlaps another one: there is at most Job.
Solo == \A j \in Rebuilders : Busy(j) => "network" \notin act[j].met

\* The steps of nobody in particular, and the begin of a rebuild.
Elsewhere ==
    /\ UNCHANGED <<act, tun, relay, feed, cfg, disturbed>> /\ device' \in {device, NoDevice}
    /\ row'.set = row.set /\ (row'.state \in Serving => row.state \in Serving)
Starting(j, kind, pc) ==
    /\ RebuildOf(j, kind, pc) /\ (pc = "create" => kind = "create")
    /\ UNCHANGED <<device, tun, relay, feed, cfg>>
    /\ row'.set = row.set /\ (kind # "identity" => row'.state \notin Serving)

LEMMA NextSplit ==
    ASSUME TypeOK, [Next]_vars
    PROVE  \/ Elsewhere
           \/ \E j \in Rebuilders, kind \in Reasons \cup {"boot", "create"},
                 pc \in {"remove", "create"} : Starting(j, kind, pc)
           \/ Restart
           \/ \E j \in Rebuilders : RebuildStep(j)
           \/ \E p \in Processes : SettingStep(p)
           \/ \E c \in Clients : RequestStep(c)
<1> USE DEF sidecars
<1>1. ASSUME NEW j \in Rebuilders, NEW r \in Reasons, StartRebuild(j, r)
      PROVE  Starting(j, r, "remove")
  BY <1>1, SettingsAssumption DEF StartRebuild, Starting, Serving, TypeOK
<1>2. CASE Claim \/ DeviceExits
  BY <1>2 DEF Claim, DeviceExits, Elsewhere, TypeOK, Serving
<1>3. CASE BootReconcile \/ GoldenStep \/ UNCHANGED vars
  BY <1>3 DEF BootReconcile, GoldenStep, GoldenCheck, GoldenWipe, GoldenRun, GoldenSet,
     GoldenStamp, GoldenStop, GoldenFails, vars, Elsewhere
<1>4. CASE BootRows
  <2>1. CASE UNCHANGED <<act, disturbed>>
    BY <1>4, <2>1 DEF BootRows, Elsewhere, TypeOK, Serving
  <2>2. CASE \E j \in Rebuilders : RebuildOf(j, "boot", "remove") /\ UNCHANGED row
                                   /\ row.state \in {"resetting", "creating"}
    BY <1>4, <2>2 DEF BootRows, Starting, TypeOK, Serving
  <2> QED  BY <1>4, <2>1, <2>2 DEF BootRows
<1>5. CASE BootEnsure
  <2>1. CASE UNCHANGED <<row, act, disturbed>>
    BY <1>5, <2>1 DEF BootEnsure, Elsewhere
  <2>2. CASE row' = [row EXCEPT !.state = "creating"]
             /\ \E j \in Rebuilders : RebuildOf(j, "create", "create")
    BY <1>5, <2>2 DEF BootEnsure, Starting, TypeOK, Serving
  <2> QED  BY <1>5, <2>1, <2>2 DEF BootEnsure
<1> QED  BY <1>1, <1>2, <1>3, <1>4, <1>5 DEF Next

\* Shapes and Overlaps speak of one process, or of it and another one: only
\* the process that takes the step has to be looked at.
LEMMA ShapesAfter ==
    ASSUME Shapes, NEW p \in Processes, \A q \in Processes \ {p} : Kept(q),
           Busy(p)' => IF p \in Rebuilders THEN JobShape(act'[p]) ELSE ClientShape(act'[p])
    PROVE  Shapes'
<1>1. ASSUME NEW q \in Processes \ {p}, Busy(q)'
      PROVE  /\ Busy(q) /\ act'[q].pc = act[q].pc /\ act'[q].kind = act[q].kind
             /\ act'[q].todo = act[q].todo /\ act'[q].want = act[q].want
  BY <1>1, KeptStays DEF Kept, Busy
<1>2. ASSUME NEW c \in Clients, Busy(c)'
      PROVE  ClientShape(act'[c])
  <2>1. c \in Processes /\ c \notin Rebuilders
    BY WhoIsWho
  <2>2. CASE c = p
    BY <1>2, <2>1, <2>2
  <2>3. CASE c # p
    <3>1. Busy(c) => ClientShape(act[c])
      BY DEF Shapes
    <3> QED  BY <1>1, <1>2, <2>1, <2>3, <3>1 DEF ClientShape
  <2> QED  BY <2>2, <2>3
<1>3. ASSUME NEW j \in Rebuilders, Busy(j)'
      PROVE  JobShape(act'[j])
  <2>1. j \in Processes
    BY WhoIsWho
  <2>2. CASE j = p
    BY <1>3, <2>2
  <2>3. CASE j # p
    <3>1. Busy(j) => JobShape(act[j])
      BY DEF Shapes
    <3> QED  BY <1>1, <1>3, <2>1, <2>3, <3>1 DEF JobShape
  <2> QED  BY <2>2, <2>3
<1> QED  BY <1>2, <1>3 DEF Shapes

LEMMA OverlapsAfter ==
    ASSUME Overlaps, NEW p \in Processes, \A q \in Processes \ {p} : Kept(q),
           Busy(p)' =>
               \/ Busy(p) /\ Touched(p)' \subseteq Touched(p) /\ act[p].met \subseteq act'[p].met
               \/ \A q \in Processes \ {p} : Busy(q) =>
                      /\ Touched(p)' \cap Touched(q) \subseteq act'[p].met
                      /\ Touched(p)' \cap Touched(q) \subseteq act'[q].met
    PROVE  Overlaps'
<1> SUFFICES ASSUME NEW q \in Processes, NEW r \in Processes, q # r, Busy(q)', Busy(r)'
             PROVE  Touched(q)' \cap Touched(r)' \subseteq act'[q].met
  BY DEF Overlaps
<1>1. \A x \in Processes \ {p} : Busy(x)' =>
          Busy(x) /\ Touched(x)' = Touched(x) /\ act[x].met \subseteq act'[x].met
  BY KeptStays DEF Kept, Busy
<1>2. CASE q # p /\ r # p
  BY <1>1, <1>2 DEF Overlaps
<1>3. CASE q = p
  BY <1>1, <1>3 DEF Overlaps
<1>4. CASE r = p
  BY <1>1, <1>4 DEF Overlaps
<1> QED  BY <1>2, <1>3, <1>4

\* A process that moves on touches what it touched.
LEMMA MovesTouches ==
    ASSUME NEW p, NEW pc, NEW todo, Moves(p, pc, todo), ~OnlyStores(p), pc # "store" \/ todo # {}
    PROVE  /\ Busy(p)' /\ ~OnlyStores(p)'
           /\ Busy(p) /\ Touched(p)' \subseteq Touched(p) /\ act[p].met \subseteq act'[p].met
BY TasksAreBusy DEF Moves, Touched, OnlyStores, Busy

\* Where a process is that puts a setting in force.
LEMMA SettingAt ==
    ASSUME TypeOK, NEW p \in Processes, SettingStep(p)
    PROVE  /\ ActOK /\ Busy(p) /\ ~OnlyStores(p) /\ act[p] \in Tasks /\ act[p].pc \in TaskPcs
           /\ act[p].pc \in {"relayrm", "relayrun", "apply", "feedrun", "rescan"}
           /\ UNCHANGED <<row, tun, stray, base, golden, boot, cfg, spent>>
<1> USE DEF sidecars
<1>1. ActOK
  BY DEF TypeOK, ActOK
<1>2. act[p].pc \in {"relayrm", "relayrun", "apply", "feedrun", "rescan"}
  BY DEF SettingStep, RelayRemoved, RelayRun, FeedRemoved, FeedRun, RescanCamera,
     SetLocation, SettingFails, Applies
<1>3. act[p] \in Tasks /\ act[p].pc \in TaskPcs /\ Busy(p)
  BY <1>1, <1>2, TaskIsBusy DEF TaskPcs
<1>4. UNCHANGED <<row, tun, stray, base, golden, boot, cfg, spent>>
  BY DEF SettingStep, RelayRemoved, RelayRun, FeedRemoved, FeedRun, RescanCamera,
     SetLocation, SettingFails
<1> QED  BY <1>1, <1>2, <1>3, <1>4 DEF OnlyStores

\* A setting in turn is one that is left.
LEMMA TurnIsLeft ==
    ASSUME NEW p \in Processes, act[p].todo \subseteq Settings, NEW k, Applies(p, k)
    PROVE  k \in act[p].todo /\ act[p].pc = "apply"
BY DEF Applies, Turn, Settings

\* The step of a process that applies settings: it moves on, or it gives up.
LEMMA SettingMoves ==
    ASSUME TypeOK, Shapes, NEW p \in Processes, SettingStep(p)
    PROVE  /\ Others(p)
           /\ \/ /\ RelayRemoved(p) /\ Moves(p, "relayrun", act[p].todo)
                 /\ "egress" \in act[p].todo \/ (p \in Rebuilders /\ act[p].todo = {})
              \/ /\ RelayRun(p) /\ "egress" \in act[p].todo
                 /\ Moves(p, "apply", act[p].todo \ {"egress"})
              \/ RelayRun(p) /\ p \in Rebuilders /\ act[p].todo = {} /\ Moves(p, "tun", {})
              \/ /\ FeedRemoved(p) /\ act[p].want["camera"] = Unset /\ "camera" \in act[p].todo
                 /\ p \notin Rebuilders /\ Moves(p, "apply", act[p].todo \ {"camera"})
              \/ /\ FeedRemoved(p) /\ act[p].want["camera"] # Unset /\ "camera" \in act[p].todo
                 /\ Moves(p, "feedrun", act[p].todo)
              \/ FeedRun(p) /\ "camera" \in act[p].todo /\ Moves(p, "rescan", act[p].todo)
              \/ /\ RescanCamera(p) /\ "camera" \in act[p].todo
                 /\ Moves(p, "apply", act[p].todo \ {"camera"})
              \/ /\ SetLocation(p) /\ "location" \in act[p].todo
                 /\ Moves(p, "apply", act[p].todo \ {"location"})
              \/ /\ SettingFails(p) /\ GiveUp(p)
                 /\ act[p].todo # {} /\ UNCHANGED <<device, relay, feed>>
<1> USE DEF sidecars
<1>1. ActOK /\ Busy(p) /\ act[p] \in Tasks /\ act[p].pc \in TaskPcs
  BY SettingAt
<1>2. act[p].todo \subseteq Settings
  BY <1>1 DEF Tasks
<1>3. /\ p \notin Rebuilders => ClientShape(act[p])
      /\ p \in Rebuilders => JobShape(act[p])
  BY <1>1, WhoIsWho DEF Shapes
<1>4. CASE RelayRemoved(p)
  <2>1. Moves(p, "relayrun", act[p].todo) /\ Others(p)
    BY <1>1, <1>4, AdvanceMoves DEF RelayRemoved, TaskPcs
  <2>2. act[p].pc = "relayrm" \/ "egress" \in act[p].todo
    BY <1>2, <1>4, TurnIsLeft DEF RelayRemoved
  <2>3. act[p].pc = "relayrm" => p \in Rebuilders /\ act[p].todo = {}
    BY <1>3 DEF ClientShape, JobShape
  <2> QED  BY <1>4, <2>1, <2>2, <2>3
<1>5. CASE RelayRun(p)
  <2>1. CASE "egress" \in act[p].todo
    <3>1. Moves(p, "apply", act[p].todo \ {"egress"}) /\ Others(p)
      BY <1>1, <1>5, <2>1, AppliedMoves DEF RelayRun
    <3> QED  BY <1>5, <2>1, <3>1
  <2>2. CASE "egress" \notin act[p].todo
    <3>1. Moves(p, "tun", act[p].todo) /\ Others(p)
      BY <1>1, <1>5, <2>2, AdvanceMoves DEF RelayRun, TaskPcs
    <3>2. p \in Rebuilders /\ act[p].todo = {}
      BY <1>3, <1>5, <2>2 DEF RelayRun, ClientShape, JobShape
    <3> QED  BY <1>5, <3>1, <3>2
  <2> QED  BY <2>1, <2>2
<1>6. CASE FeedRemoved(p)
  <2>1. "camera" \in act[p].todo
    BY <1>2, <1>6, TurnIsLeft DEF FeedRemoved
  <2>2. CASE act[p].want["camera"] = Unset
    <3>1. Moves(p, "apply", act[p].todo \ {"camera"}) /\ Others(p)
      BY <1>1, <1>6, <2>2, AppliedMoves DEF FeedRemoved
    <3>2. p \notin Rebuilders
      BY <1>3, <2>1, <2>2 DEF JobShape
    <3> QED  BY <1>6, <2>1, <2>2, <3>1, <3>2
  <2>3. CASE act[p].want["camera"] # Unset
    <3>1. Moves(p, "feedrun", act[p].todo) /\ Others(p)
      BY <1>1, <1>6, <2>3, AdvanceMoves DEF FeedRemoved, TaskPcs
    <3> QED  BY <1>6, <2>1, <2>3, <3>1
  <2> QED  BY <2>2, <2>3
<1>7. CASE FeedRun(p)
  <2>1. Moves(p, "rescan", act[p].todo) /\ Others(p)
    BY <1>1, <1>7, AdvanceMoves DEF FeedRun, TaskPcs
  <2>2. "camera" \in act[p].todo
    BY <1>3, <1>7 DEF FeedRun, ClientShape, JobShape
  <2> QED  BY <1>7, <2>1, <2>2
<1>8. CASE RescanCamera(p)
  <2>1. Moves(p, "apply", act[p].todo \ {"camera"}) /\ Others(p)
    BY <1>1, <1>8, AppliedMoves DEF RescanCamera
  <2>2. "camera" \in act[p].todo
    BY <1>3, <1>8 DEF RescanCamera, ClientShape, JobShape
  <2> QED  BY <1>8, <2>1, <2>2
<1>9. CASE SetLocation(p)
  <2>1. Moves(p, "apply", act[p].todo \ {"location"}) /\ Others(p)
    BY <1>1, <1>9, AppliedMoves DEF SetLocation
  <2>2. "location" \in act[p].todo
    BY <1>2, <1>9, TurnIsLeft DEF SetLocation
  <2> QED  BY <1>9, <2>1, <2>2
<1>10. CASE SettingFails(p)
  <2>1. GiveUp(p) /\ Others(p) /\ UNCHANGED <<device, relay, feed>>
    BY <1>1, <1>10, GiveUpMoves DEF SettingFails
  <2>2. act[p].todo # {}
    <3>1. act[p].pc \in {"feedrun", "rescan"} => "camera" \in act[p].todo
      BY <1>3 DEF ClientShape, JobShape
    <3> QED  BY <1>2, <1>10, <3>1, TurnIsLeft DEF SettingFails
  <2> QED  BY <1>10, <2>1, <2>2
<1> QED  BY <1>4, <1>5, <1>6, <1>7, <1>8, <1>9, <1>10 DEF SettingStep

LEMMA SettingShapes ==
    ASSUME TypeOK, Shapes, Overlaps, NEW p \in Processes, SettingStep(p)
    PROVE  Shapes' /\ Overlaps'
<1>1. ActOK /\ Busy(p) /\ ~OnlyStores(p) /\ act[p] \in Tasks
  BY SettingAt
<1>2. Others(p)
  BY SettingMoves
<1>3. \A q \in Processes \ {p} : Kept(q)
  BY <1>1, <1>2, OthersKept
<1>4. CASE SettingFails(p) /\ GiveUp(p)
  <2>1. CASE p \in Rebuilders
    <3>1. /\ act'[p] \in Tasks /\ act'[p].pc = "apply" /\ act'[p].todo = {}
          /\ act'[p].kind = act[p].kind /\ act[p].met \subseteq act'[p].met
      BY <1>1, <1>4, <2>1, SettingAt, GiveUpMoves
    <3>2. JobShape(act'[p])
      BY <1>1, <2>1, <3>1 DEF Shapes, JobShape
    <3>3. Touched(p)' \subseteq Touched(p) /\ act[p].met \subseteq act'[p].met
      BY <2>1, <3>1 DEF Touched
    <3>4. Shapes'
      BY <1>3, <2>1, <3>2, ShapesAfter
    <3> QED  BY <1>1, <1>3, <3>3, <3>4, OverlapsAfter
  <2>2. CASE p \notin Rebuilders
    <3>1. ~Busy(p)'
      BY <1>1, <1>4, <2>2, SettingAt, GiveUpMoves DEF Busy
    <3>2. Shapes'
      BY <1>3, <3>1, ShapesAfter
    <3> QED  BY <1>3, <3>1, <3>2, OverlapsAfter
  <2> QED  BY <2>1, <2>2
<1>5. ASSUME NEW pc, NEW todo, Moves(p, pc, todo), pc # "store",
             p \in Rebuilders => JobShape(act'[p]), p \notin Rebuilders => ClientShape(act'[p])
      PROVE  Shapes' /\ Overlaps'
  <2>1. Shapes'
    BY <1>3, <1>5, ShapesAfter
  <2>2. Busy(p) /\ Touched(p)' \subseteq Touched(p) /\ act[p].met \subseteq act'[p].met
    BY <1>1, <1>5, MovesTouches
  <2> QED  BY <1>3, <2>1, <2>2, OverlapsAfter
<1>6. CASE p \in Rebuilders
  <2>1. JobShape(act[p])
    BY <1>1, <1>6 DEF Shapes
  <2>2. \A pc, todo :
            /\ Moves(p, pc, todo) /\ pc \in {"apply", "relayrun", "feedrun", "rescan", "tun"}
            /\ todo \subseteq act[p].todo
            /\ pc \in {"feedrun", "rescan"} => "camera" \in todo
            /\ pc = "relayrun" => todo = {} \/ "egress" \in todo
            /\ pc = "tun" => todo = {}
            => JobShape(act'[p])
    BY <2>1 DEF JobShape, Moves
  <2> QED  BY <1>4, <1>5, <1>6, <2>2, SettingMoves
<1>7. CASE p \notin Rebuilders
  <2>1. ClientShape(act[p])
    BY <1>1, <1>7, WhoIsWho DEF Shapes
  <2>2. \A pc, todo :
            /\ Moves(p, pc, todo) /\ pc \in {"apply", "relayrun", "feedrun", "rescan"}
            /\ todo \subseteq act[p].todo
            /\ pc \in {"feedrun", "rescan"} => "camera" \in todo
            /\ pc = "relayrun" => "egress" \in todo
            => ClientShape(act'[p])
    BY <2>1 DEF ClientShape, Moves
  <2> QED  BY <1>4, <1>5, <1>7, <2>2, SettingMoves
<1> QED  BY <1>6, <1>7

\* The steps of a rebuild before its settings, and its last one.
LEMMA RebuildMoves ==
    ASSUME TypeOK, Shapes, NEW j \in Rebuilders, RebuildStep(j)
    PROVE  /\ ActOK /\ Busy(j) /\ act[j] \in Tasks /\ act[j].todo = {} /\ Others(j)
           /\ \/ RemoveDevice(j) /\ Moves(j, "sidecars", {})
              \/ RemoveSidecars(j) /\ Moves(j, "create", {})
              \/ CreateBegins(j) /\ Moves(j, IF cfg.egress THEN "relayrm" ELSE "device", {})
              \/ StartTun(j) /\ Moves(j, "device", {})
              \/ RunDevice(j) /\ Moves(j, "boot", {})
              \/ WaitBoot(j) /\ Moves(j, "routes", {})
              \/ CreateFails(j) /\ act'[j] = Idle
              \/ /\ FinishEgress(j) /\ Moves(j, "read", {}) /\ UNCHANGED disturbed
                 /\ cfg.egress => tun # None /\ tun' = "routed"
                 /\ ~cfg.egress => tun' = tun
              \/ FinishEgress(j) /\ GiveUp(j) /\ tun' = tun
              \/ /\ ReadRow(j) /\ act'[j] \in Tasks /\ act'[j].pc = "apply"
                 /\ act'[j].want = row.set
                 /\ act'[j].todo = {k \in Settings : row.set[k] # Unset}
                 /\ act'[j].kind = act[j].kind /\ act'[j].met = act[j].met
              \/ DeviceReady(j) /\ act'[j] = Idle
<1> USE DEF sidecars
<1>1. ActOK /\ j \in Processes
  BY WhoIsWho DEF TypeOK, ActOK
<1>2. /\ act[j].pc \in TaskPcs
      /\ act[j].pc \in {"apply", "relayrun", "feedrun", "rescan"} => act[j].todo = {}
  BY DEF RebuildStep, RemoveDevice, RemoveSidecars, CreateBegins, StartTun, RunDevice, WaitBoot,
     CreateFails, Collides, FinishEgress, ReadRow, DeviceReady, TaskPcs
<1>3. Busy(j) /\ act[j] \in Tasks
  BY <1>1, <1>2, TaskIsBusy
<1>4. act[j].todo = {}
  BY <1>2, <1>3 DEF Shapes, JobShape
<1>5. \A pc \in TaskPcs : Advance(j, pc) => Moves(j, pc, {}) /\ Others(j)
  BY <1>1, <1>2, <1>4, AdvanceMoves
<1>6. act' = [act EXCEPT ![j] = Idle] => act'[j] = Idle /\ Others(j)
  BY <1>1 DEF ActOK, Others
<1>7. CASE RemoveDevice(j) \/ RemoveSidecars(j) \/ StartTun(j) \/ RunDevice(j) \/ WaitBoot(j)
  BY <1>3, <1>4, <1>1, <1>5, <1>7
     DEF RemoveDevice, RemoveSidecars, StartTun, RunDevice, WaitBoot, TaskPcs
<1>8. CASE CreateBegins(j)
  <2>1. (IF cfg.egress THEN "relayrm" ELSE "device") \in TaskPcs
    BY DEF TaskPcs
  <2>2. Advance(j, IF cfg.egress THEN "relayrm" ELSE "device")
    BY <1>8 DEF CreateBegins
  <2> HIDE DEF TaskPcs
  <2> QED  BY <1>1, <1>3, <1>4, <1>5, <1>8, <2>1, <2>2, Zenon
<1>9. CASE CreateFails(j) \/ DeviceReady(j)
  BY <1>1, <1>3, <1>4, <1>6, <1>9 DEF CreateFails, DeviceReady
<1>10. CASE FinishEgress(j)
  <2>1. CASE GiveUp(j) /\ tun' = tun
    BY <1>1, <1>2, <1>3, <1>4, <1>10, <2>1, GiveUpMoves
  <2>2. CASE Advance(j, "read") /\ (cfg.egress => tun # None)
             /\ tun' = (IF cfg.egress THEN "routed" ELSE tun) /\ UNCHANGED disturbed
    BY <1>1, <1>3, <1>4, <1>5, <1>10, <2>2 DEF TaskPcs
  <2> QED  BY <1>10, <2>1, <2>2 DEF FinishEgress
<1>11. CASE ReadRow(j)
  <2> DEFINE t == [act[j] EXCEPT !.pc = "apply", !.want = row.set,
                                   !.todo = {k \in Settings : row.set[k] # Unset}]
  <2>1. /\ t \in Tasks /\ t.pc = "apply" /\ t.want = row.set
        /\ t.todo = {k \in Settings : row.set[k] # Unset}
        /\ t.kind = act[j].kind /\ t.met = act[j].met
    BY <1>3 DEF TypeOK, Tasks
  <2>2. act' = [act EXCEPT ![j] = t]
    BY <1>1, <1>3, <1>11 DEF ReadRow, ActOK, Tasks
  <2> HIDE DEF t
  <2>3. act'[j] = t /\ Others(j)
    BY <1>1, <2>2 DEF ActOK, Others
  <2> QED  BY <1>1, <1>3, <1>4, <1>11, <2>1, <2>3
<1> QED  BY <1>7, <1>8, <1>9, <1>10, <1>11 DEF RebuildStep

LEMMA RebuildShapes ==
    ASSUME TypeOK, Shapes, Overlaps, NEW j \in Rebuilders, RebuildStep(j)
    PROVE  Shapes' /\ Overlaps'
<1>1. ActOK /\ Busy(j) /\ act[j] \in Tasks /\ act[j].todo = {} /\ Others(j)
      /\ j \in Processes
  BY RebuildMoves, WhoIsWho
<1>2. \A q \in Processes \ {j} : Kept(q)
  BY <1>1, OthersKept
<1>3. JobShape(act[j])
  BY <1>1 DEF Shapes
<1>4. Touched(j)' \subseteq Touched(j)
  BY DEF Touched
<1>5. CASE act'[j] = Idle
  <2>1. ~Busy(j)'
    BY <1>5 DEF Busy
  <2> QED  BY <1>1, <1>2, <2>1, ShapesAfter, OverlapsAfter
<1>6. ASSUME JobShape(act'[j]), act[j].met \subseteq act'[j].met
      PROVE  Shapes' /\ Overlaps'
  <2>1. Shapes'
    BY <1>1, <1>2, <1>6, ShapesAfter
  <2> QED  BY <1>1, <1>2, <1>4, <1>6, <2>1, OverlapsAfter
<1>7. ASSUME NEW pc, Moves(j, pc, {}), pc \notin {"store", "feedrun", "rescan"}
      PROVE  Shapes' /\ Overlaps'
  BY <1>3, <1>6, <1>7 DEF Moves, JobShape
<1>8. CASE FinishEgress(j) /\ GiveUp(j)
  <2>1. /\ act'[j].pc = "apply" /\ act'[j].todo = {} /\ act'[j].kind = act[j].kind
        /\ act[j].met \subseteq act'[j].met
    BY <1>1, <1>8, GiveUpMoves DEF FinishEgress, TaskPcs
  <2> QED  BY <1>3, <1>6, <2>1 DEF JobShape
<1>9. CASE /\ act'[j].pc = "apply"
           /\ act'[j].want = row.set
           /\ act'[j].todo = {k \in Settings : row.set[k] # Unset}
           /\ act'[j].kind = act[j].kind /\ act'[j].met = act[j].met
  BY <1>3, <1>6, <1>9 DEF JobShape
<1> QED  BY <1>5, <1>7, <1>8, <1>9, RebuildMoves

LEMMA RequestShapes ==
    ASSUME TypeOK, Shapes, Overlaps, NEW c \in Clients, RequestStep(c)
    PROVE  Shapes' /\ Overlaps'
<1>1. /\ ActOK /\ c \in Processes /\ c \notin Rebuilders
      /\ \A q \in Processes \ {c} : Kept(q)
  BY RequestMoves
<1>3. CASE Arrived(c)
  <2>1. ClientShape(act'[c])
    BY <1>3 DEF Arrived, ClientShape
  <2>2. Touched(c)' \subseteq act'[c].todo
    BY <1>1, <1>3 DEF Touched, Arrived, OnlyStores
  <2>3. \A q \in Processes \ {c} : Busy(q) =>
            /\ Touched(c)' \cap Touched(q) \subseteq act'[c].met
            /\ Touched(c)' \cap Touched(q) \subseteq act'[q].met
    BY <1>3, <2>2 DEF Arrived
  <2>4. Shapes'
    BY <1>1, <2>1, ShapesAfter
  <2> QED  BY <1>1, <2>3, <2>4, OverlapsAfter
<1>4. CASE act'[c] = Idle
  <2>1. ~Busy(c)'
    BY <1>4 DEF Busy
  <2>2. Shapes'
    BY <1>1, <2>1, ShapesAfter
  <2> QED  BY <1>1, <2>1, <2>2, OverlapsAfter
<1>5. CASE Stored(c) /\ act[c].todo # {}
  <2>1. Moves(c, "apply", act[c].todo) /\ Busy(c)
    BY <1>5 DEF Stored, Moves
  <2>2. ClientShape(act[c])
    BY <2>1 DEF Shapes
  <2>3. ClientShape(act'[c])
    BY <2>1, <2>2 DEF Moves, ClientShape
  <2>4. Shapes'
    BY <1>1, <2>3, ShapesAfter
  <2>5. Busy(c) /\ Touched(c)' \subseteq Touched(c) /\ act[c].met \subseteq act'[c].met
    BY <1>5, <2>1, MovesTouches DEF OnlyStores
  <2> QED  BY <1>1, <2>4, <2>5, OverlapsAfter
<1> QED  BY <1>3, <1>4, <1>5, RequestMoves DEF Stored

\* A rebuild begins: all that run have met it.  Beside another rebuild it
\* leaves everything in doubt; else it is Job.
LEMMA RebuildBegins ==
    ASSUME TypeOK, NEW j \in Rebuilders, NEW kind \in Reasons \cup {"boot", "create"},
           NEW pc \in {"remove", "create"}, RebuildOf(j, kind, pc)
    PROVE  /\ ~Busy(j) /\ act'[j] \in Tasks /\ act'[j].pc = pc /\ act'[j].kind = kind
           /\ act'[j].todo = {}
           /\ \A q \in Processes \ {j} :
                  /\ Kept(q)
                  /\ Busy(q) => Touched(q) \subseteq act'[j].met /\ Touched(q) \subseteq act'[q].met
           /\ Rebuilding => disturbed' = Everything
           /\ ~Rebuilding => j = Job /\ disturbed' = disturbed /\ "network" \notin act'[j].met
<1>1. ActOK /\ j \in Processes /\ row.set \in Columns
  BY WhoIsWho DEF TypeOK, ActOK
<1>2. pc \in TaskPcs
  BY DEF TaskPcs
<1>3. ~Busy(j) /\ Begin(j, pc, kind, row.set, {}, Everything)
  BY DEF RebuildOf
<1>4. /\ act'[j] \in Tasks /\ act'[j].pc = pc /\ act'[j].kind = kind
      /\ act'[j].todo = {}
      /\ \A q \in Processes \ {j} :
             /\ Kept(q)
             /\ Busy(q) => Everything \cap Touched(q) \subseteq act'[j].met
                           /\ act'[q].met = act[q].met \cup (Everything \cap Touched(q))
  BY <1>1, <1>2, <1>3, BeginStarts
<1>5. \A q \in Processes : Busy(q) => Touched(q) \subseteq Everything
  BY WhoIsWho DEF Touched, TypeOK, Everything
<1>6. ASSUME ~Rebuilding
      PROVE  "network" \notin act'[j].met
  <2>1. act'[j].met = Everything \cap UNION {Touched(r) : r \in {x \in Processes : Busy(x)}}
    BY <1>1, <1>3 DEF Begin
  <2>2. \A r \in Processes : Busy(r) => r \in Clients
    BY <1>6, WhoIsWho DEF Rebuilding
  <2>3. \A r \in Processes : Busy(r) => "network" \notin Touched(r)
    BY <2>2, WhoIsWho DEF Touched, TypeOK, Settings
  <2> QED  BY <2>1, <2>3
<1> QED  BY <1>3, <1>4, <1>5, <1>6 DEF RebuildOf

LEMMA StartShapes ==
    ASSUME TypeOK, Shapes, Overlaps, NEW j \in Rebuilders,
           NEW kind \in Reasons \cup {"boot", "create"}, NEW pc \in {"remove", "create"},
           RebuildOf(j, kind, pc)
    PROVE  Shapes' /\ Overlaps'
<1>1. kind \notin Settings /\ j \in Processes
  BY SettingsAssumption, WhoIsWho DEF Settings
<1>2. /\ act'[j] \in Tasks /\ act'[j].pc = pc /\ act'[j].kind = kind
      /\ act'[j].todo = {}
      /\ \A q \in Processes \ {j} :
             /\ Kept(q)
             /\ Busy(q) => Touched(q) \subseteq act'[j].met /\ Touched(q) \subseteq act'[q].met
  BY RebuildBegins
<1>3. JobShape(act'[j])
  BY <1>1, <1>2 DEF JobShape
<1>4. Shapes'
  BY <1>1, <1>2, <1>3, ShapesAfter
<1> QED  BY <1>1, <1>2, <1>4, OverlapsAfter

LEMMA ShapesStep ==
    ASSUME TypeOK, Shapes, Overlaps, [Next]_vars
    PROVE  Shapes' /\ Overlaps'
<1>1. CASE UNCHANGED act
  BY <1>1 DEF Shapes, Overlaps, Busy, Touched, OnlyStores
<1>2. CASE Restart
  <2>1. \A q \in Processes : act'[q] = Idle
    BY <1>2 DEF Restart
  <2> QED  BY <2>1, WhoIsWho DEF Shapes, Overlaps, Busy
<1> QED  BY <1>1, <1>2, NextSplit, StartShapes, RebuildShapes, SettingShapes, RequestShapes
         DEF Elsewhere, Starting

\* While rebuilds overlap, everything is in doubt, whoever comes to an end.
LEMMA CrowdDisturbs ==
    ASSUME TypeOK, Shapes, Overlaps, Crowds, ~Solo, [Next]_vars
    PROVE  Everything \subseteq disturbed'
<1>1. PICK j \in Rebuilders : Busy(j) /\ "network" \in act[j].met
  BY DEF Solo
<1>2. Everything \subseteq disturbed /\ Rebuilding /\ j \in Processes
  BY <1>1, WhoIsWho DEF Crowds, Rebuilding
<1>3. CASE Elsewhere \/ Restart
  BY <1>2, <1>3 DEF Elsewhere, Restart
<1>4. ASSUME NEW i \in Rebuilders, NEW kind \in Reasons \cup {"boot", "create"},
             NEW pc \in {"remove", "create"}, Starting(i, kind, pc)
      PROVE  Everything \subseteq disturbed'
  BY <1>2, <1>4 DEF Starting, RebuildOf
<1>5. ASSUME NEW p \in Processes, SettingStep(p)
      PROVE  Everything \subseteq disturbed'
  BY <1>2, <1>5, SettingStays
<1>6. ASSUME NEW i \in Rebuilders, RebuildStep(i)
      PROVE  Everything \subseteq disturbed'
  <2>1. Busy(i) /\ i \in Processes
    BY <1>6, RebuildStays, WhoIsWho
  <2>2. Everything \subseteq act[i].met
    <3>1. i # j => Touched(i) \cap Touched(j) \subseteq act[i].met
      BY <1>1, <1>2, <2>1 DEF Overlaps
    <3> QED  BY <1>1, <3>1 DEF Touched, Crowds
  <2> QED  BY <1>2, <1>6, <2>2, RebuildStays
<1>7. ASSUME NEW c \in Clients, RequestStep(c)
      PROVE  Everything \subseteq disturbed'
  <2>1. CASE Arrived(c) \/ Stored(c)
    BY <1>2, <2>1 DEF Arrived, Stored
  <2>2. CASE RequestEnds(c) /\ act[c] \in Tasks
    <3>1. Busy(c) /\ c \in Processes /\ c \notin Rebuilders /\ act[c].kind \in Settings
      BY <2>2, TasksAreBusy, WhoIsWho DEF Busy, TypeOK
    <3>2. Touched(c) = {act[c].kind} /\ Touched(j) = Everything /\ act[c].kind \in Everything
      BY <2>2, <3>1 DEF Touched, OnlyStores, RequestEnds, Everything
    <3>3. Touched(c) \cap Touched(j) \subseteq act[c].met
      BY <1>1, <1>2, <3>1 DEF Overlaps
    <3>4. act[c].met # {}
      BY <3>2, <3>3
    <3> QED  BY <1>2, <2>2, <3>4 DEF RequestEnds
  <2> QED  BY <1>7, <2>1, <2>2, RequestMoves
<1> QED  BY <1>3, <1>4, <1>5, <1>6, <1>7, NextSplit

\* A rebuild under way remembers what it met; only a rebuild that begins
\* beside it makes it meet a rebuild.
LEMMA RebuildsKeepMet ==
    ASSUME TypeOK, [Next]_vars, NEW q \in Rebuilders, Busy(q)',
           ~ \E j \in Rebuilders, kind \in Reasons \cup {"boot", "create"},
                pc \in {"remove", "create"} : Starting(j, kind, pc)
    PROVE  /\ Busy(q) /\ act[q].met \subseteq act'[q].met
           /\ act'[q].met \subseteq act[q].met \cup Settings
<1>1. q \in Processes /\ q \notin Clients /\ ActOK
  BY WhoIsWho DEF TypeOK, ActOK
<1>2. CASE Elsewhere
  BY <1>2 DEF Elsewhere, Busy
<1>3. CASE Restart
  BY <1>1, <1>3 DEF Restart, Busy
<1>4. ASSUME NEW j \in Rebuilders, RebuildStep(j)
      PROVE  /\ Busy(q) /\ act[q].met \subseteq act'[q].met
             /\ act'[q].met \subseteq act[q].met \cup Settings
  BY <1>1, <1>4, RebuildStays DEF Others, Busy
<1>5. ASSUME NEW p \in Processes, SettingStep(p)
      PROVE  /\ Busy(q) /\ act[q].met \subseteq act'[q].met
             /\ act'[q].met \subseteq act[q].met \cup Settings
  BY <1>1, <1>5, SettingStays DEF Others, Busy
<1>6. ASSUME NEW c \in Clients, RequestStep(c)
      PROVE  /\ Busy(q) /\ act[q].met \subseteq act'[q].met
             /\ act'[q].met \subseteq act[q].met \cup Settings
  <2>1. q # c /\ Kept(q) /\ Busy(q)
    BY <1>1, <1>6, RequestMoves, KeptStays
  <2>2. CASE Arrived(c)
    BY <1>1, <2>1, <2>2 DEF Arrived
  <2>3. CASE Stored(c)
    BY <1>1, <2>1, <2>3 DEF Stored, Settings
  <2>4. CASE Others(c)
    BY <1>1, <2>1, <2>4 DEF Others
  <2> QED  BY <1>6, <2>1, <2>2, <2>3, <2>4, RequestMoves
<1> QED  BY <1>2, <1>3, <1>4, <1>5, <1>6, NextSplit

LEMMA CrowdsStep ==
    ASSUME TypeOK, Shapes, Overlaps, Crowds, [Next]_vars
    PROVE  Crowds'
<1> SUFFICES ASSUME NEW q \in Rebuilders, Busy(q)'
             PROVE  /\ q # Job => "network" \in act'[q].met
                    /\ "network" \in act'[q].met =>
                           Everything \subseteq act'[q].met /\ Everything \subseteq disturbed'
  BY DEF Crowds
<1>1. "network" \notin Settings /\ q \in Processes /\ "network" \in Everything
  BY WhoIsWho DEF Settings, Everything
<1>2. ASSUME NEW j \in Rebuilders, NEW kind \in Reasons \cup {"boot", "create"},
             NEW pc \in {"remove", "create"}, Starting(j, kind, pc)
      PROVE  /\ q # Job => "network" \in act'[q].met
             /\ "network" \in act'[q].met =>
                    Everything \subseteq act'[q].met /\ Everything \subseteq disturbed'
  <2>1. RebuildOf(j, kind, pc)
    BY <1>2 DEF Starting
  <2>2. CASE Rebuilding
    <3>1. PICK r \in Rebuilders : Busy(r)
      BY <2>2 DEF Rebuilding
    <3>2. Touched(q) = Everything /\ Touched(r) = Everything /\ r \in Processes /\ r # j
      BY <2>1, <3>1, WhoIsWho, RebuildBegins DEF Touched
    <3>3. Everything \subseteq act'[j].met /\ disturbed' = Everything
      BY <2>1, <2>2, <3>1, <3>2, RebuildBegins
    <3>4. q # j => Busy(q) /\ Everything \subseteq act'[q].met
      BY <1>1, <2>1, <3>2, RebuildBegins, KeptStays
    <3> QED  BY <1>1, <3>3, <3>4
  <2>3. CASE ~Rebuilding
    <3>1. q = j
      BY <1>1, <2>1, <2>3, RebuildBegins, KeptStays DEF Rebuilding
    <3> QED  BY <2>1, <2>3, <3>1, RebuildBegins
  <2> QED  BY <2>2, <2>3
<1>3. CASE ~ \E j \in Rebuilders, kind \in Reasons \cup {"boot", "create"},
                pc \in {"remove", "create"} : Starting(j, kind, pc)
  <2>1. /\ Busy(q) /\ act[q].met \subseteq act'[q].met
        /\ "network" \in act'[q].met <=> "network" \in act[q].met
    BY <1>1, <1>3, RebuildsKeepMet
  <2>2. "network" \in act[q].met => Everything \subseteq disturbed'
    BY <2>1, CrowdDisturbs DEF Solo
  <2> QED  BY <2>1, <2>2 DEF Crowds
<1> QED  BY <1>2, <1>3

\* Where rebuilds overlap, before the step or after it, nothing is promised.
LEMMA CrowdStep ==
    ASSUME TypeOK, Shapes, Overlaps, Crowds, [Next]_vars, ~(Solo /\ Solo')
    PROVE  /\ Everything \subseteq disturbed'
           /\ Busy(Job)' => Everything \subseteq act'[Job].met
<1>1. Crowds' /\ Overlaps' /\ Job \in Rebuilders /\ "network" \in Everything
      /\ Rebuilders \subseteq Processes
  BY CrowdsStep, ShapesStep, WhoIsWho DEF Everything
<1>2. CASE ~Solo'
  <2>1. PICK j \in Rebuilders : Busy(j)' /\ "network" \in act'[j].met
    BY <1>2 DEF Solo
  <2>2. Everything \subseteq disturbed'
    BY <1>1, <2>1 DEF Crowds
  <2>3. Busy(Job)' => "network" \in act'[Job].met
    <3>1. Touched(j)' = Everything /\ Touched(Job)' = Everything
      BY <1>1 DEF Touched
    <3>2. Busy(Job)' /\ Job # j => Touched(Job)' \cap Touched(j)' \subseteq act'[Job].met
      BY <1>1, <2>1 DEF Overlaps
    <3> QED  BY <1>1, <2>1, <3>1, <3>2
  <2> QED  BY <1>1, <2>2, <2>3 DEF Crowds
<1>3. CASE ~Solo /\ Solo'
  <2>1. PICK j \in Rebuilders : Busy(j) /\ "network" \in act[j].met
    BY <1>3 DEF Solo
  <2>2. ASSUME Busy(Job)'
        PROVE  FALSE
    <3>1. "network" \notin act'[Job].met
      BY <1>1, <1>3, <2>2 DEF Solo
    <3>2. CASE Busy(Job)
      <4>1. Touched(j) = Everything /\ Touched(Job) = Everything
        BY <1>1 DEF Touched
      <4>2. Job # j => Touched(Job) \cap Touched(j) \subseteq act[Job].met
        BY <1>1, <2>1, <3>2 DEF Overlaps
      <4>3. "network" \in act[Job].met
        BY <1>1, <2>1, <4>1, <4>2
      <4>4. act[Job].met \subseteq act'[Job].met
        <5>1. ASSUME NEW i \in Rebuilders, NEW kind \in Reasons \cup {"boot", "create"},
                     NEW pc \in {"remove", "create"}, Starting(i, kind, pc)
              PROVE  act[Job].met \subseteq act'[Job].met
          <6>1. Job # i /\ Kept(Job)
            BY <1>1, <3>2, <5>1, RebuildBegins DEF Starting
          <6> QED  BY <3>2, <6>1 DEF Kept, Busy
        <5> QED  BY <1>1, <2>2, <5>1, RebuildsKeepMet
      <4> QED  BY <3>1, <4>3, <4>4
    <3>3. CASE ~Busy(Job)
      <4>1. PICK i \in Rebuilders, kind \in Reasons \cup {"boot", "create"},
                 pc \in {"remove", "create"} : Starting(i, kind, pc)
        BY <1>1, <2>2, <3>3, RebuildsKeepMet
      <4>2. RebuildOf(i, kind, pc)
        BY <4>1 DEF Starting
      <4>3. i = Job
        BY <1>1, <2>2, <3>3, <4>2, RebuildBegins, KeptStays
      <4>4. Touched(j) \subseteq act'[Job].met /\ Touched(j) = Everything
        BY <1>1, <2>1, <3>3, <4>2, <4>3, RebuildBegins DEF Touched
      <4> QED  BY <1>1, <3>1, <4>4
    <3> QED  BY <3>2, <3>3
  <2> QED  BY <1>3, <2>2, CrowdDisturbs
<1> QED  BY <1>2, <1>3

\* Where none do, a rebuild is Job, and it began alone.
LEMMA CalmStep ==
    ASSUME TypeOK, Crowds, Solo, Solo'
    PROVE  /\ \A j \in Rebuilders : Busy(j) => j = Job
           /\ \A j \in Rebuilders, kind \in Reasons \cup {"boot", "create"},
                 pc \in {"remove", "create"} :
                     RebuildOf(j, kind, pc) => j = Job /\ ~Rebuilding /\ disturbed' = disturbed
<1>1. \A j \in Rebuilders : Busy(j) => j = Job
  BY DEF Crowds, Solo
<1>2. ASSUME NEW j \in Rebuilders, NEW kind \in Reasons \cup {"boot", "create"},
             NEW pc \in {"remove", "create"}, RebuildOf(j, kind, pc)
      PROVE  j = Job /\ ~Rebuilding /\ disturbed' = disturbed
  <2>1. ~Rebuilding
    <3> SUFFICES ASSUME NEW r \in Rebuilders, Busy(r)
                 PROVE  FALSE
      BY DEF Rebuilding
    <3>1. r \in Processes \ {j} /\ Touched(r) = Everything /\ Busy(j)' /\ "network" \in Everything
      BY <1>2, RebuildBegins, WhoIsWho, TasksAreBusy DEF Touched, Busy, Everything
    <3>2. "network" \in act'[j].met
      BY <1>2, <3>1, RebuildBegins
    <3> QED  BY <3>1, <3>2 DEF Solo
  <2> QED  BY <1>2, <2>1, RebuildBegins
<1> QED  BY <1>1, <1>2

\* The beginning of it all.
LEMMA BesideInit == Init => Shapes /\ Overlaps /\ Crowds
<1>1. Init => \A p \in Processes : ~Busy(p)
  BY DEF Init, Busy
<1> QED  BY <1>1, WhoIsWho DEF Shapes, Overlaps, Crowds

\* Who runs beside whom, in one invariant.
Beside == Shapes /\ Overlaps /\ Crowds

LEMMA BesideStep == TypeOK /\ Beside /\ [Next]_vars => Beside'
BY ShapesStep, CrowdsStep DEF Beside

\* What a step may be where no rebuilds overlap.
LEMMA CalmSplit ==
    ASSUME TypeOK, Beside, Solo, Solo', [Next]_vars
    PROVE  \/ Elsewhere
           \/ /\ ~Rebuilding /\ UNCHANGED disturbed
              /\ \E kind \in Reasons \cup {"boot", "create"}, pc \in {"remove", "create"} :
                     Starting(Job, kind, pc)
           \/ Restart
           \/ RebuildStep(Job)
           \/ SettingStep(Job)
           \/ \E c \in Clients : SettingStep(c) \/ RequestStep(c)
<1>1. Crowds
  BY DEF Beside
<1>2. ASSUME NEW j \in Rebuilders, NEW kind \in Reasons \cup {"boot", "create"},
             NEW pc \in {"remove", "create"}, Starting(j, kind, pc)
      PROVE  j = Job /\ ~Rebuilding /\ UNCHANGED disturbed
  BY <1>1, <1>2, CalmStep DEF Starting
<1>3. ASSUME NEW j \in Rebuilders, RebuildStep(j)
      PROVE  j = Job
  BY <1>1, <1>3, CalmStep, RebuildStays
<1>4. ASSUME NEW p \in Processes, SettingStep(p)
      PROVE  p \in Clients \cup {Job}
  BY <1>1, <1>4, CalmStep, SettingStays, WhoIsWho
<1> QED  BY <1>2, <1>3, <1>4, NextSplit

-----------------------------------------------------------------------------
(* The network of a device, when docker rm does what it says.              *)

\* A rebuild that no other one runs beside; it is taking a device away, has
\* not run it again yet, or has.
Quiet == Busy(Job) /\ "network" \notin act[Job].met
Between ==
    \/ act[Job].pc \in {"sidecars", "relayrm", "tun", "device"}
    \/ act[Job].pc = "relayrun" /\ "egress" \notin act[Job].todo
Connected ==
    \/ act[Job].pc \in {"boot", "routes", "read", "apply", "feedrun", "rescan"}
    \/ act[Job].pc = "relayrun" /\ "egress" \in act[Job].todo

NetSound == device.net # "lost" /\ (device.net = "tun" => tun # None)
NetInv ==
    /\ Quiet /\ Between => device = NoDevice
    /\ Quiet /\ Connected => NetSound
    /\ "network" \notin disturbed => NetSound

\* Nothing is done to the network, and the rebuild is where it was, or further
\* in its settings.
LEMMA NetKept ==
    ASSUME NetInv, UNCHANGED tun,
           device' = NoDevice \/ device' = device \/ (device # NoDevice /\ device'.net = device.net),
           Quiet' => Quiet /\ (Between' => Between) /\ (Connected' => Connected),
           "network" \notin disturbed' => "network" \notin disturbed
    PROVE  NetInv'
<1>1. NoDevice.net = None /\ None # "lost" /\ None # "tun"
  BY DEF NoDevice, None
<1>2. NetSound => NetSound'
  BY <1>1 DEF NetSound
<1>3. Quiet' /\ Between' => device' = NoDevice
  BY DEF NetInv
<1>4. Quiet' /\ Connected' => NetSound'
  BY <1>2 DEF NetInv
<1> QED  BY <1>2, <1>3, <1>4 DEF NetInv

LEMMA JobIsThere == Job \in Rebuilders /\ Job \in Processes /\ Job \notin Clients
BY WhoIsWho

\* A process keeps its rebuild's place.
LEMMA NetPlaceKept ==
    ASSUME Kept(Job)
    PROVE  Quiet' => Quiet /\ (Between' => Between) /\ (Connected' => Connected)
<1>1. CASE act'[Job] = Idle
  BY <1>1 DEF Quiet, Busy
<1>2. CASE /\ Busy(Job) /\ act'[Job].pc = act[Job].pc /\ act'[Job].todo = act[Job].todo
           /\ act[Job].met \subseteq act'[Job].met
  BY <1>2 DEF Quiet, Between, Connected
<1> QED  BY <1>1, <1>2 DEF Kept

LEMMA NetRebuildStep ==
    ASSUME TypeOK, Beside, Solo, NetInv, RebuildStep(Job), "rm" \notin Faults
    PROVE  NetInv'
<1> DEFINE j1 == act'[Job]
<1> USE DEF sidecars
<1>1. Shapes /\ Quiet /\ Job \in Rebuilders
  BY RebuildStays, JobIsThere DEF Beside, Solo, Quiet
<1>2. /\ NoDevice.net = None /\ NoDevice.run = None /\ None # "lost" /\ None # "tun"
      /\ "network" \notin Settings
  BY DEF NoDevice, None, Settings
\* Steps that leave the device without a container.
<1>3. ASSUME device' = NoDevice, NEW pc, Moves(Job, pc, {}),
             pc \notin {"boot", "routes", "read", "apply", "feedrun", "rescan"}
      PROVE  NetInv'
  BY <1>2, <1>3 DEF NetInv, NetSound, Connected, Moves
\* Steps that leave the network as it is.
<1>4. ASSUME device' = device \/ device'.net = device.net, tun # None => tun' # None,
             ~Between', Connected, "network" \notin disturbed' => "network" \notin disturbed
      PROVE  NetInv'
  BY <1>1, <1>4 DEF NetInv, NetSound
<1>5. CASE RemoveDevice(Job) /\ Moves(Job, "sidecars", {})
  BY <1>3, <1>5 DEF RemoveDevice
<1>6. CASE RemoveSidecars(Job) /\ Moves(Job, "create", {})
  <2>1. device = NoDevice
    BY <1>1, <1>6 DEF RemoveSidecars, NetInv, Between
  <2>2. device' = NoDevice
    BY <1>2, <1>6, <2>1 DEF RemoveSidecars, Unplugged, None
  <2> QED  BY <1>3, <1>6, <2>2
<1>7. CASE CreateBegins(Job) /\ Moves(Job, IF cfg.egress THEN "relayrm" ELSE "device", {})
  BY <1>3, <1>7 DEF CreateBegins
<1>8. CASE StartTun(Job) /\ Moves(Job, "device", {})
  <2>1. device = NoDevice
    BY <1>1, <1>8 DEF StartTun, NetInv, Between
  <2>2. device' = NoDevice
    BY <1>2, <1>8, <2>1 DEF StartTun, Unplugged, None
  <2> QED  BY <1>3, <1>8, <2>2
<1>9. CASE RunDevice(Job) /\ Moves(Job, "boot", {})
  <2>1. device'.net = (IF cfg.egress THEN "tun" ELSE "own") /\ tun' = tun
    BY <1>9 DEF RunDevice, NoDevice
  <2>2. cfg.egress => tun # None
    BY <1>9 DEF RunDevice
  <2>3. NetSound' /\ ~Between'
    BY <1>9, <2>1, <2>2 DEF NetSound, Between, Moves
  <2> QED  BY <2>3 DEF NetInv
<1>10. CASE WaitBoot(Job) /\ Moves(Job, "routes", {})
  <2>1. device'.net = device.net /\ UNCHANGED <<tun, disturbed>>
    BY <1>10 DEF WaitBoot, TypeOK, Containers
  <2>2. ~Between' /\ Connected
    BY <1>10 DEF WaitBoot, Between, Moves, Connected
  <2> QED  BY <1>4, <2>1, <2>2
<1>11. CASE CreateFails(Job) /\ act'[Job] = Idle
  <2>1. ~Busy(Job)' /\ UNCHANGED disturbed
    BY <1>11 DEF CreateFails, Busy
  <2>2. act[Job].pc = "tun" => device' = NoDevice
    BY <1>1, <1>2, <1>11 DEF CreateFails, NetInv, Between, Unplugged, None
  <2>3. act[Job].pc # "tun" => device' = device /\ tun' = tun
    BY <1>11 DEF CreateFails
  <2>4. NetSound => NetSound'
    BY <1>2, <2>2, <2>3 DEF NetSound
  <2> QED  BY <2>1, <2>4 DEF NetInv, Quiet
<1>12. CASE FinishEgress(Job)
  <2>1. act[Job].pc = "routes" /\ device' = device /\ (tun # None => tun' # None)
    BY <1>12 DEF FinishEgress, None
  <2>2. UNCHANGED disturbed /\ ~Between'
    <3>1. CASE GiveUp(Job)
      <4>1. ActOK /\ act[Job].pc \in TaskPcs
        BY <1>1, <2>1, RebuildStays DEF TaskPcs
      <4> QED  BY <1>1, <3>1, <4>1, JobIsThere, GiveUpMoves DEF Between
    <3>2. CASE Advance(Job, "read") /\ UNCHANGED disturbed
      <4>1. ActOK /\ act[Job].pc \in TaskPcs /\ "read" \in TaskPcs
        BY <1>1, <2>1, RebuildStays DEF TaskPcs
      <4> QED  BY <3>2, <4>1, JobIsThere, AdvanceMoves DEF Between, Moves
    <3> QED  BY <1>12, <3>1, <3>2 DEF FinishEgress
  <2>3. Connected
    BY <2>1 DEF Connected
  <2> QED  BY <1>4, <2>1, <2>2, <2>3
<1>13. CASE ReadRow(Job) /\ act'[Job].pc = "apply"
  <2>1. UNCHANGED <<device, tun, disturbed>> /\ ~Between' /\ Connected
    BY <1>13 DEF ReadRow, Between, Connected
  <2> QED  BY <1>4, <2>1
<1>14. CASE DeviceReady(Job) /\ act'[Job] = Idle
  <2>1. UNCHANGED <<device, tun>> /\ Connected /\ ~Busy(Job)'
    BY <1>14 DEF DeviceReady, Connected, Busy
  <2>2. NetSound'
    BY <1>1, <2>1 DEF NetInv, NetSound
  <2> QED  BY <2>1, <2>2 DEF NetInv, Quiet
<1> QED  BY <1>1, <1>5, <1>6, <1>7, <1>8, <1>9, <1>10, <1>11, <1>12, <1>13, <1>14, RebuildMoves

\* No setting takes a device or its tun away.
LEMMA NetSettingStep ==
    ASSUME TypeOK, Shapes, NetInv, NEW p \in Clients \cup {Job}, SettingStep(p)
    PROVE  NetInv'
<1>1. p \in Processes /\ ActOK
  BY JobIsThere, WhoIsWho, SettingAt
<1>2. UNCHANGED tun /\ "network" \notin Settings
  BY <1>1, SettingAt DEF Settings
<1>3. device' = device \/ (device # NoDevice /\ device'.net = device.net)
  BY DEF SettingStep, RelayRemoved, RelayRun, FeedRemoved, FeedRun, RescanCamera,
     SetLocation, SettingFails, TypeOK, Containers, None, NoDevice, sidecars
<1>4. "network" \notin disturbed' => "network" \notin disturbed
  BY <1>1, SettingStays
<1>5. Quiet' => Quiet /\ (Between' => Between) /\ (Connected' => Connected)
  <2>1. CASE p # Job
    BY <1>1, <2>1, JobIsThere, SettingMoves, OthersKept, NetPlaceKept
  <2>2. CASE p = Job
    <3>1. /\ JobShape(act[Job]) /\ Busy(Job)
          /\ act[Job].met \subseteq act'[Job].met \/ act'[Job] = Idle
      <4>1. Busy(Job) /\ Job \in Rebuilders
        BY <1>1, <2>2, SettingAt, JobIsThere
      <4>2. act[Job].met \subseteq act'[Job].met \/ act'[Job] = Idle
        BY <1>1, <2>2, SettingStays
      <4> QED  BY <4>1, <4>2 DEF Shapes
    <3>2. Quiet' => Quiet
      BY <2>2, <1>1, SettingAt, <3>1 DEF Quiet, Busy
    <3>3. CASE RelayRemoved(Job) /\ Moves(Job, "relayrun", act[Job].todo)
      <4>1. act[Job].pc = "relayrm" \/ (act[Job].pc = "apply" /\ "egress" \in act[Job].todo)
        BY <3>3 DEF RelayRemoved, Applies, Turn
      <4>3. act[Job].pc = "relayrm" => act[Job].todo = {}
        BY <3>1 DEF JobShape
      <4> QED  BY <3>2, <3>3, <4>1, <4>3 DEF Moves, Between, Connected, Quiet
    <3>4. CASE RelayRun(Job) /\ "egress" \notin act[Job].todo /\ Moves(Job, "tun", {})
      BY <3>2, <3>4 DEF RelayRun, Moves, Between, Connected
    <3>5. CASE RelayRun(Job) /\ "egress" \in act[Job].todo /\ act'[Job].pc = "apply"
      BY <3>2, <3>5 DEF RelayRun, Between, Connected
    <3>6. CASE /\ FeedRemoved(Job) \/ FeedRun(Job) \/ RescanCamera(Job) \/ SetLocation(Job)
               /\ act'[Job].pc \in {"apply", "feedrun", "rescan"}
      BY <3>2, <3>6 DEF FeedRemoved, FeedRun, RescanCamera, SetLocation, Applies, Between, Connected
    <3>7. CASE SettingFails(Job) /\ GiveUp(Job) /\ act[Job].todo # {}
      <4>1. act'[Job].pc = "apply"
        BY <1>1, <2>2, <3>7, SettingAt, JobIsThere, GiveUpMoves
      <4>2. Connected
        BY <3>7 DEF SettingFails, Applies, Connected
      <4> QED  BY <3>2, <4>1, <4>2 DEF Between
    <3> QED  BY <1>1, <2>2, <3>3, <3>4, <3>5, <3>6, <3>7, SettingMoves DEF Moves
  <2> QED  BY <2>1, <2>2
<1> QED  BY <1>2, <1>3, <1>4, <1>5, NetKept

LEMMA NetStep ==
    ASSUME TypeOK, Beside, NetInv, [Next]_vars, "rm" \notin Faults
    PROVE  NetInv'
<1>1. Shapes /\ Overlaps /\ Crowds
  BY DEF Beside
\* Rebuilds that overlap: nothing is promised until one has run alone.
<1>2. CASE ~(Solo /\ Solo')
  <2>1. Everything \subseteq disturbed' /\ (Busy(Job)' => Everything \subseteq act'[Job].met)
    BY <1>1, <1>2, CrowdStep
  <2> QED  BY <2>1 DEF NetInv, Quiet, Everything
<1>3. CASE Elsewhere
  BY <1>3, NetKept DEF Elsewhere, Quiet, Between, Connected, Busy
<1>4. CASE Restart
  <2>1. ~Quiet' /\ UNCHANGED <<tun, device>> /\ disturbed \subseteq disturbed'
    BY <1>4, JobIsThere DEF Restart, Quiet, Busy, sidecars
  <2> QED  BY <2>1, NetKept
<1>5. ASSUME NEW kind \in Reasons \cup {"boot", "create"}, NEW pc \in {"remove", "create"},
             Starting(Job, kind, pc), UNCHANGED disturbed
      PROVE  NetInv'
  <2>1. act'[Job].pc = pc /\ UNCHANGED <<tun, device>>
    BY <1>5, JobIsThere, RebuildBegins DEF Starting
  <2>2. ~Between' /\ ~Connected'
    BY <2>1 DEF Between, Connected
  <2> QED  BY <1>5, <2>1, <2>2 DEF NetInv, NetSound
<1>6. ASSUME NEW c \in Clients, RequestStep(c)
      PROVE  NetInv'
  <2>1. UNCHANGED <<tun, device>> /\ Kept(Job)
    BY <1>6, JobIsThere, RequestMoves
  <2>2. "network" \notin disturbed' => "network" \notin disturbed
    <3>1. c \in Processes /\ (RequestEnds(c) => act[c].kind # "network")
      <4>1. RequestEnds(c) => Busy(c)
        BY DEF RequestEnds, Busy, Idle
      <4> QED  BY <4>1, WhoIsWho DEF TypeOK, Settings
    <3> QED  BY <1>6, <3>1, RequestMoves DEF Arrived, Stored, RequestEnds
  <2> QED  BY <2>1, <2>2, NetPlaceKept, NetKept
<1> QED  BY <1>1, <1>2, <1>3, <1>4, <1>5, <1>6, CalmSplit, NetRebuildStep, NetSettingStep

\* No device in service is left without a network: not by the sidecars a
\* rebuild takes away or fails to start, not by a restart in between, and
\* after rebuilds that overlapped only until one has run alone.
THEOREM NetworkStaysHolds ==
    ASSUME "rm" \notin Faults
    PROVE  Spec => []NetworkStays
<1>1. Init => NetInv /\ Beside
  <2>1. Init => ~Quiet /\ NetSound
    BY JobIsThere DEF Init, Quiet, Busy, NetSound, NoDevice, None
  <2> QED  BY <2>1, BesideInit DEF NetInv, Beside
<1>2. TypeOK /\ Beside /\ NetInv /\ [Next]_vars => Beside' /\ NetInv'
  BY BesideStep, NetStep
<1>3. NetInv => NetworkStays
  BY DEF NetInv, NetSound, NetworkStays
<1> QED  BY <1>1, <1>2, <1>3, SettingsTypeCorrect, PTL DEF Spec

-----------------------------------------------------------------------------
(* Names and ports that are taken, when the list of containers can be read *)
(* at the start and egress is not switched off between two starts.         *)

\* The port of the device: strangers are cleared before anything is rebuilt,
\* and there is a tun only where egress is configured.
Joining(j) ==
    \/ act[j].pc \in {"relayrm", "tun"}
    \/ act[j].pc = "relayrun" /\ "egress" \notin act[j].todo
TunsWanted ==
    /\ ~cfg.egress => tun = None
    /\ \A j \in Rebuilders : Busy(j) /\ Joining(j) => cfg.egress
PortInv ==
    /\ stray => boot = "reconcile" /\ row.state = "broken" /\ ~Rebuilding
    /\ TunsWanted
    /\ Quiet /\ act[Job].pc = "device" /\ cfg.egress => tun # None

\* The name of the relay: who may take it has met the rebuild.
NameInv ==
    Quiet /\ act[Job].pc = "relayrun" /\ act[Job].todo = {} /\ relay # None => act[Job].met # {}

\* Strangers on the port of the device.
LEMMA StraysStep ==
    ASSUME TypeOK, Beside, [Next]_vars, "list" \notin Faults,
           stray => boot = "reconcile" /\ row.state = "broken" /\ ~Rebuilding
    PROVE  stray' => boot' = "reconcile" /\ row'.state = "broken" /\ ~Rebuilding'
<1> USE DEF sidecars
<1>1. CASE ~stray'
  BY <1>1
<1>2. CASE UNCHANGED <<boot, act>> /\ row'.state = row.state /\ (stray' => stray)
  BY <1>2 DEF Rebuilding, Busy
<1>3. ASSUME stray, NEW j \in Rebuilders, NEW kind \in Reasons, StartRebuild(j, kind)
      PROVE  FALSE
  BY <1>3 DEF StartRebuild, Serving
<1>4. ASSUME NEW j \in Rebuilders, RebuildStep(j)
      PROVE  ~stray'
  <2>1. Rebuilding
    BY <1>4, RebuildStays DEF Rebuilding
  <2>2. stray' = stray
    BY <1>4 DEF RebuildStep, RemoveDevice, RemoveSidecars, CreateBegins, StartTun, RunDevice,
       WaitBoot, CreateFails, FinishEgress, ReadRow, DeviceReady
  <2> QED  BY <2>1, <2>2
<1>5. ASSUME stray', NEW p \in Processes, SettingStep(p)
      PROVE  boot' = "reconcile" /\ row'.state = "broken" /\ ~Rebuilding'
  <2>1. UNCHANGED <<row, stray, boot>> /\ Busy(p) /\ Others(p)
    BY <1>5, SettingAt, SettingStays
  <2>2. p \notin Rebuilders
    BY <1>5, <2>1 DEF Rebuilding
  <2>3. \A j \in Rebuilders : j \in Processes \ {p} /\ ~Busy(j)
    BY <1>5, <2>1, <2>2, WhoIsWho DEF Rebuilding
  <2>4. \A j \in Rebuilders : ~Busy(j)'
    BY <2>1, <2>3 DEF Others, Busy
  <2> QED  BY <1>5, <2>1, <2>4 DEF Rebuilding
<1>6. ASSUME stray', NEW c \in Clients, RequestStep(c)
      PROVE  boot' = "reconcile" /\ row'.state = "broken" /\ ~Rebuilding'
  <2>1. row'.state = row.state /\ \A j \in Rebuilders : Kept(j)
    BY <1>6, RequestMoves, WhoIsWho
  <2>2. UNCHANGED <<stray, boot>>
    BY <1>6 DEF RequestStep, RequestArrives, LocationArrives, Arrives, StoreLocation, RequestEnds
  <2>3. \A j \in Rebuilders : Busy(j)' => Busy(j)
    BY <2>1, KeptStays
  <2> QED  BY <1>6, <2>1, <2>2, <2>3 DEF Rebuilding
<1>7. CASE BootReconcile \/ GoldenStep \/ BootRows \/ BootEnsure
  BY <1>7 DEF BootReconcile, GoldenStep, GoldenCheck, GoldenWipe, GoldenRun, GoldenSet,
     GoldenStamp, GoldenStop, GoldenFails, BootRows, BootEnsure
<1>8. CASE Claim
  BY <1>8 DEF Claim, TypeOK
<1>9. CASE DeviceExits \/ UNCHANGED vars
  BY <1>2, <1>9 DEF DeviceExits, vars
<1>10. CASE Restart
  <2>1. ~Rebuilding'
    BY <1>10, WhoIsWho DEF Restart, Rebuilding, Busy
  <2> QED  BY <1>10, <2>1 DEF Restart
<1>11. ASSUME NEW j \in Rebuilders, NEW kind \in Reasons, StartRebuild(j, kind)
       PROVE  ~stray'
  BY <1>3, <1>11 DEF StartRebuild
<1> QED  BY <1>4, <1>5, <1>6, <1>7, <1>8, <1>9, <1>10, <1>11 DEF Next

\* There is a tun only where egress is configured.
LEMMA JoiningStep ==
    ASSUME TypeOK, Beside, [Next]_vars, <<TRUE, FALSE>> \notin Restarts,
           TunsWanted
    PROVE  TunsWanted'
<1> USE DEF sidecars
<1>0. Shapes
  BY DEF Beside
<1>1. ASSUME NEW p \in Processes, \A q \in Processes \ {p} : Kept(q), UNCHANGED cfg,
             ~cfg.egress => tun' \in {tun, None},
             p \in Rebuilders => ~Busy(p)' \/ ~Joining(p)' \/ (Busy(p) /\ Joining(p)) \/ cfg.egress
      PROVE  TunsWanted'
  <2>1. ASSUME NEW j \in Rebuilders, j # p, Busy(j)', Joining(j)'
        PROVE  cfg'.egress
    <3>1. Kept(j)
      BY <1>1, <2>1, WhoIsWho
    <3>2. Busy(j) /\ Joining(j)
      BY <2>1, <3>1, KeptStays DEF Kept, Joining, Busy
    <3> QED  BY <1>1, <3>2 DEF TunsWanted
  <2> QED  BY <1>1, <2>1 DEF TunsWanted
<1>2. CASE Elsewhere
  BY <1>2 DEF Elsewhere, Busy, Joining, TunsWanted
<1>3. CASE Restart
  <2>1. \A j \in Rebuilders : ~Busy(j)'
    BY <1>3, WhoIsWho DEF Restart, Busy
  <2>2. ~cfg'.egress => ~cfg.egress
    <3>1. cfg.egress \in BOOLEAN
      BY DEF TypeOK
    <3>2. PICK e \in BOOLEAN : <<cfg.egress, e>> \in Restarts /\ cfg'.egress = e
      BY <1>3 DEF Restart
    <3>3. CASE cfg.egress = TRUE
      <4>1. e # FALSE
        BY <3>2, <3>3
      <4> QED  BY <3>2, <4>1
    <3> QED  BY <3>1, <3>3
  <2> QED  BY <1>3, <2>1, <2>2 DEF Restart, TunsWanted
<1>4. ASSUME NEW j \in Rebuilders, NEW kind \in Reasons \cup {"boot", "create"},
             NEW pc \in {"remove", "create"}, Starting(j, kind, pc)
      PROVE  TunsWanted'
  <2>1. j \in Processes /\ act'[j].pc = pc /\ \A q \in Processes \ {j} : Kept(q)
    BY <1>4, RebuildBegins, WhoIsWho DEF Starting
  <2>2. ~Joining(j)'
    BY <1>4, <2>1 DEF Joining
  <2>3. UNCHANGED cfg /\ tun' \in {tun, None}
    BY <1>4 DEF Starting
  <2> QED  BY <1>1, <2>1, <2>2, <2>3
<1>5. ASSUME NEW c \in Clients, RequestStep(c)
      PROVE  TunsWanted'
  BY <1>1, <1>5, RequestMoves
<1>6. ASSUME NEW p \in Processes, SettingStep(p)
      PROVE  TunsWanted'
  <2>1. ActOK /\ Busy(p) /\ act[p].pc \in TaskPcs /\ UNCHANGED <<tun, cfg>>
    BY <1>6, SettingAt
  <2>2. Others(p) /\ \A q \in Processes \ {p} : Kept(q)
    BY <1>0, <1>6, <2>1, SettingMoves, OthersKept
  <2>3. p \in Rebuilders => ~Busy(p)' \/ ~Joining(p)' \/ Joining(p)
    <3>1. CASE RelayRemoved(p) /\ Moves(p, "relayrun", act[p].todo)
      BY <3>1 DEF RelayRemoved, Applies, Turn, Moves, Joining
    <3>2. CASE RelayRun(p) /\ "egress" \notin act[p].todo
      BY <3>2 DEF RelayRun, Joining
    <3>3. CASE act'[p].pc \in {"apply", "feedrun", "rescan"}
      BY <3>3 DEF Joining
    <3>4. CASE SettingFails(p) /\ GiveUp(p)
      BY <2>1, <3>3, <3>4, GiveUpMoves DEF Busy
    <3> QED  BY <1>0, <1>6, <3>1, <3>2, <3>3, <3>4, SettingMoves DEF Moves
  <2> QED  BY <1>1, <2>1, <2>2, <2>3
<1>7. ASSUME NEW j \in Rebuilders, RebuildStep(j)
      PROVE  TunsWanted'
  <2>1. ActOK /\ Busy(j) /\ Others(j) /\ j \in Processes
    BY <1>7, RebuildStays, WhoIsWho
  <2>2. \A q \in Processes \ {j} : Kept(q)
    BY <2>1, OthersKept
  <2>3. UNCHANGED cfg
    BY <1>7 DEF RebuildStep, RemoveDevice, RemoveSidecars, CreateBegins, StartTun, RunDevice,
       WaitBoot, CreateFails, FinishEgress, ReadRow, DeviceReady
  <2>4. CASE /\ CreateBegins(j)
             /\ Moves(j, IF cfg.egress THEN "relayrm" ELSE "device", {})
    <3>1. Joining(j)' => cfg.egress
      BY <2>4 DEF Moves, Joining
    <3> QED  BY <1>1, <2>1, <2>2, <2>3, <2>4, <3>1 DEF CreateBegins
  <2>5. CASE StartTun(j)
    <3>1. cfg.egress
      BY <2>1, <2>5 DEF StartTun, Joining, TunsWanted
    <3> QED  BY <1>1, <2>1, <2>2, <2>3, <3>1
  <2>6. CASE /\ RemoveDevice(j) \/ RemoveSidecars(j) \/ RunDevice(j) \/ WaitBoot(j)
             /\ \E pc \in {"sidecars", "create", "boot", "routes"} : Moves(j, pc, {})
    <3>1. ~Joining(j)'
      BY <2>6 DEF Moves, Joining
    <3>2. tun' \in {tun, None}
      BY <2>6 DEF RemoveDevice, RemoveSidecars, RunDevice, WaitBoot
    <3> QED  BY <1>1, <2>1, <2>2, <2>3, <3>1, <3>2
  <2>7. CASE (CreateFails(j) \/ DeviceReady(j)) /\ act'[j] = Idle
    <3>1. ~Busy(j)' /\ tun' \in {tun, None}
      BY <2>7 DEF CreateFails, DeviceReady, Busy
    <3> QED  BY <1>1, <2>1, <2>2, <2>3, <3>1
  <2>8. CASE FinishEgress(j) /\ (GiveUp(j) \/ Moves(j, "read", {}))
    <3>1. act[j].pc \in TaskPcs
      BY <2>8 DEF FinishEgress, TaskPcs
    <3>2. act'[j].pc \in {"read", "apply"}
      BY <2>1, <2>8, <3>1, GiveUpMoves DEF Moves
    <3>3. ~Joining(j)' /\ (~cfg.egress => tun' = tun)
      BY <2>8, <3>2 DEF FinishEgress, Joining
    <3> QED  BY <1>1, <2>1, <2>2, <2>3, <3>3
  <2>9. CASE ReadRow(j) /\ act'[j].pc = "apply"
    BY <1>1, <2>1, <2>2, <2>3, <2>9 DEF ReadRow, Joining
  <2> QED  BY <1>0, <1>7, <2>4, <2>5, <2>6, <2>7, <2>8, <2>9, RebuildMoves
<1> QED  BY <1>2, <1>3, <1>4, <1>5, <1>6, <1>7, NextSplit

LEMMA PortStep ==
    ASSUME TypeOK, Beside, PortInv, [Next]_vars,
           "list" \notin Faults, <<TRUE, FALSE>> \notin Restarts
    PROVE  PortInv'
<1> USE DEF sidecars
<1>1. Shapes /\ Overlaps /\ Crowds
  BY DEF Beside
<1>2. /\ stray' => boot' = "reconcile" /\ row'.state = "broken" /\ ~Rebuilding'
      /\ TunsWanted'
  BY StraysStep, JoiningStep DEF PortInv
<1> SUFFICES Quiet' /\ act'[Job].pc = "device" /\ cfg'.egress => tun' # None
  BY <1>2 DEF PortInv
<1>3. CASE ~(Solo /\ Solo')
  <2>1. Busy(Job)' => Everything \subseteq act'[Job].met
    BY <1>1, <1>3, CrowdStep
  <2> QED  BY <2>1 DEF Quiet, Everything
<1>4. CASE Elsewhere
  BY <1>4 DEF Elsewhere, PortInv, Quiet, Busy
<1>5. CASE Restart
  BY <1>5, JobIsThere DEF Restart, Quiet, Busy
<1>6. ASSUME NEW kind \in Reasons \cup {"boot", "create"}, NEW pc \in {"remove", "create"},
             Starting(Job, kind, pc)
      PROVE  act'[Job].pc # "device"
  BY <1>6, JobIsThere, RebuildBegins DEF Starting
<1>7. ASSUME Kept(Job), UNCHANGED <<tun, cfg>>
      PROVE  Quiet' /\ act'[Job].pc = "device" /\ cfg'.egress => tun' # None
  <2>1. Quiet' => Quiet /\ act'[Job].pc = act[Job].pc
    BY <1>7, NetPlaceKept, KeptStays
  <2> QED  BY <1>7, <2>1 DEF PortInv
<1>8. ASSUME NEW c \in Clients, SettingStep(c) \/ RequestStep(c)
      PROVE  Quiet' /\ act'[Job].pc = "device" /\ cfg'.egress => tun' # None
  <2>1. UNCHANGED <<tun, cfg>> /\ c \in Processes
    BY <1>8, WhoIsWho, SettingAt, RequestMoves
  <2>2. CASE RequestStep(c)
    BY <1>7, <2>1, <2>2, JobIsThere, RequestMoves
  <2>3. CASE SettingStep(c)
    BY <1>1, <1>7, <2>1, <2>3, JobIsThere, SettingMoves, SettingAt, OthersKept
  <2> QED  BY <1>8, <2>2, <2>3
<1>9. CASE SettingStep(Job)
  <2>1. act'[Job] = Idle \/ act'[Job].pc # "device"
    <3>1. CASE SettingFails(Job) /\ GiveUp(Job)
      BY <1>9, <3>1, JobIsThere, SettingAt, GiveUpMoves
    <3> QED  BY <1>1, <1>9, <3>1, JobIsThere, SettingMoves DEF Moves
  <2> QED  BY <2>1 DEF Quiet, Busy
<1>10. CASE RebuildStep(Job)
  <2>1. CASE CreateBegins(Job) /\ Moves(Job, IF cfg.egress THEN "relayrm" ELSE "device", {})
    BY <2>1 DEF CreateBegins, Moves
  <2>2. CASE StartTun(Job)
    BY <2>2 DEF StartTun, None
  <2>3. CASE act'[Job] = Idle
    BY <2>3 DEF Quiet, Busy
  <2>4. CASE FinishEgress(Job) /\ GiveUp(Job)
    <3>1. ActOK /\ act[Job].pc \in TaskPcs
      BY <1>10, <2>4, JobIsThere, RebuildStays DEF FinishEgress, TaskPcs
    <3> QED  BY <2>4, <3>1, JobIsThere, GiveUpMoves
  <2> QED  BY <1>1, <1>10, <2>1, <2>2, <2>3, <2>4, JobIsThere, RebuildMoves DEF Moves
<1> QED  BY <1>1, <1>3, <1>4, <1>5, <1>6, <1>7, <1>8, <1>9, <1>10, CalmSplit

LEMMA NameStep ==
    ASSUME TypeOK, Beside, NameInv, [Next]_vars
    PROVE  NameInv'
<1> USE DEF sidecars
<1>1. Shapes /\ Overlaps /\ Crowds
  BY DEF Beside
<1>2. CASE ~(Solo /\ Solo')
  <2>1. Busy(Job)' => Everything \subseteq act'[Job].met
    BY <1>1, <1>2, CrowdStep
  <2> QED  BY <2>1 DEF NameInv, Quiet, Everything
<1>3. CASE Elsewhere
  BY <1>3 DEF Elsewhere, NameInv, Quiet, Busy
<1>4. CASE Restart
  BY <1>4, JobIsThere DEF Restart, NameInv, Quiet, Busy
<1>5. ASSUME NEW kind \in Reasons \cup {"boot", "create"}, NEW pc \in {"remove", "create"},
             Starting(Job, kind, pc)
      PROVE  act'[Job].pc # "relayrun"
  BY <1>5, JobIsThere, RebuildBegins DEF Starting
\* What the job has met, it keeps.
<1>6. ASSUME Kept(Job), relay' = relay \/ relay' = None
      PROVE  NameInv'
  <2>1. CASE act'[Job] = Idle
    BY <2>1 DEF NameInv, Quiet, Busy
  <2>2. CASE /\ Busy(Job) /\ act'[Job].pc = act[Job].pc /\ act'[Job].todo = act[Job].todo
             /\ act[Job].met \subseteq act'[Job].met
    BY <1>6, <2>2 DEF NameInv, Quiet
  <2> QED  BY <1>6, <2>1, <2>2 DEF Kept
<1>7. ASSUME NEW c \in Clients, RequestStep(c)
      PROVE  NameInv'
  <2>1. Kept(Job) /\ relay' = relay
    BY <1>7, JobIsThere, RequestMoves
  <2> QED  BY <1>6, <2>1
<1>8. ASSUME NEW c \in Clients, SettingStep(c)
      PROVE  NameInv'
  <2>1. c \in Processes /\ c \notin Rebuilders
    BY WhoIsWho
  <2>2. Busy(c) /\ Kept(Job) /\ Others(c)
    BY <1>1, <1>8, <2>1, JobIsThere, SettingMoves, SettingAt, OthersKept
  <2>3. CASE RelayRun(c)
    <3>1. "egress" \in act[c].todo /\ act[c].todo \subseteq {act[c].kind}
      BY <1>1, <1>8, <2>1, <2>2, <2>3, JobIsThere, SettingMoves DEF RelayRun, Shapes, ClientShape
    <3>2. Touched(c) = {"egress"}
      BY <2>1, <3>1 DEF Touched, OnlyStores
    <3>3. Busy(Job) => "egress" \in act[Job].met
      <4>1. Touched(Job) = Everything /\ "egress" \in Everything
        BY JobIsThere DEF Touched, Everything, Settings
      <4>2. Busy(Job) => Touched(Job) \cap Touched(c) \subseteq act[Job].met
        BY <1>1, <2>1, <2>2, JobIsThere DEF Overlaps
      <4> QED  BY <3>2, <4>1, <4>2
    <3>4. act'[Job] = act[Job]
      BY <2>1, <2>2, JobIsThere DEF Others
    <3> QED  BY <3>3, <3>4 DEF NameInv, Quiet, Busy
  <2>4. CASE ~RelayRun(c)
    <3>1. relay' = relay \/ relay' = None
      BY <1>8, <2>4 DEF SettingStep, RelayRemoved, FeedRemoved, FeedRun, RescanCamera,
         SetLocation, SettingFails
    <3> QED  BY <1>6, <2>2, <3>1
  <2> QED  BY <2>3, <2>4
<1>9. CASE SettingStep(Job)
  <2>1. CASE RelayRemoved(Job)
    BY <2>1 DEF RelayRemoved, NameInv
  <2>2. CASE SettingFails(Job) /\ GiveUp(Job)
    <3>1. act'[Job].pc = "apply"
      BY <1>9, <2>2, JobIsThere, SettingAt, GiveUpMoves
    <3> QED  BY <3>1 DEF NameInv
  <2>3. CASE act'[Job].pc \in {"apply", "tun", "feedrun", "rescan"}
    BY <2>3 DEF NameInv
  <2> QED  BY <1>1, <1>9, <2>1, <2>2, <2>3, JobIsThere, SettingMoves DEF Moves
<1>10. CASE RebuildStep(Job)
  <2>1. CASE act'[Job].pc # "relayrun" \/ act'[Job] = Idle
    BY <2>1 DEF NameInv, Quiet, Busy
  <2>2. CASE FinishEgress(Job) /\ GiveUp(Job)
    <3>1. ActOK /\ act[Job].pc \in TaskPcs
      BY <1>10, <2>2, JobIsThere, RebuildStays DEF FinishEgress, TaskPcs
    <3> QED  BY <2>1, <2>2, <3>1, JobIsThere, GiveUpMoves
  <2> QED  BY <1>1, <1>10, <2>1, <2>2, JobIsThere, RebuildMoves DEF Moves
<1>11. ASSUME act'[Job].pc # "relayrun"
       PROVE  NameInv'
  BY <1>11 DEF NameInv
<1> QED  BY <1>1, <1>2, <1>3, <1>4, <1>5, <1>7, <1>8, <1>9, <1>10, <1>11, CalmSplit

\* A name or a port that is taken makes a rebuild fail only while a settings
\* request or another rebuild runs beside it, whatever crashed before: the
\* strangers are cleared before anything is built, Remove takes the sidecars,
\* and Create clears the names it uses.
THEOREM NoCollisionHolds ==
    ASSUME "rm" \notin Faults, "list" \notin Faults, <<TRUE, FALSE>> \notin Restarts
    PROVE  Spec => NoCollision
<1> DEFINE Inv == Beside /\ NetInv /\ PortInv /\ NameInv
<1>1. Init => Inv
  <2>1. Init => ~Quiet /\ NetSound /\ ~Rebuilding /\ \A j \in Rebuilders : ~Busy(j)
    BY WhoIsWho, JobIsThere DEF Init, Quiet, Rebuilding, Busy, NetSound, NoDevice, None
  <2> QED  BY <2>1, BesideInit DEF Init, Beside, NetInv, PortInv, TunsWanted, NameInv, None
<1>2. TypeOK /\ Inv /\ [Next]_vars => Inv'
  BY BesideStep, NetStep, PortStep, NameStep
<1>3. TypeOK /\ Inv => \A j \in Rebuilders : Collides(j) => act[j].met # {}
  <2> SUFFICES ASSUME TypeOK, Inv, NEW j \in Rebuilders, Collides(j)
               PROVE  act[j].met # {}
    OBVIOUS
  <2>1. Busy(j)
    BY DEF Collides, Busy, Idle
  <2>2. CASE j # Job \/ "network" \in act[j].met
    BY <2>1, <2>2 DEF Beside, Crowds
  <2>3. CASE j = Job /\ "network" \notin act[Job].met
    <3>1. Quiet /\ ~stray
      BY <2>1, <2>3 DEF Quiet, PortInv, Rebuilding
    <3>2. act[Job].pc \in {"tun", "device"} => device = NoDevice
      BY <3>1 DEF NetInv, Between
    <3> QED  BY <2>3, <3>1, <3>2 DEF NameInv, PortInv, TunsWanted, Collides, PortTaken, NoDevice, None
  <2> QED  BY <2>2, <2>3
<1>4. TypeOK /\ Inv
        => [\A j \in Rebuilders :
               Collides(j) /\ row'.state = "broken" /\ row.state # "broken" => act[j].met # {}]_vars
  BY <1>3
<1> QED  BY <1>1, <1>2, <1>4, SettingsTypeCorrect, PTL DEF Spec, NoCollision

-----------------------------------------------------------------------------
(* Settings in force.  While the device is rebuilt nobody is served by it; *)
(* from the row it read on, the rebuild accounts for every setting it did  *)
(* not share with a request, and a request that met nobody for its own.    *)

InPhase(pcs) == act[Job].pc \in pcs /\ act[Job].todo = {}
Creating == InPhase({"create", "relayrm", "relayrun", "tun", "device", "boot", "routes", "read"})
Fresh == InPhase({"boot", "routes", "read"})
Ran == InPhase({"boot", "routes", "read"}) \/ RowRead

\* What a request that met nobody has done so far.
Done(p) == act[p].pc = "apply" /\ act[p].todo = {}
HalReady == feed # Unset => device.hal \/ device.run = None
RequestAccounts(c) ==
    /\ act[c].kind = "egress" /\ Done(c) => relay = act[c].want["egress"]
    /\ act[c].kind = "camera" =>
           /\ act[c].pc = "rescan" => feed = act[c].want["camera"]
           /\ Done(c) => feed = act[c].want["camera"] /\ HalReady
    /\ act[c].kind = "location" /\ act[c].pc = "apply"
           /\ row.state \in Serving /\ device.run = "up" =>
           /\ row.set["location"] = act[c].want["location"]
           /\ Done(c) => device.location = act[c].want["location"]

\* What a rebuild that no other one runs beside has done for the settings it met nobody at.
Alone(k) == k \notin act[Job].met
NetAccounts ==
    /\ "network" \notin disturbed /\ device.net = "tun" => tun # None
    /\ Quiet /\ Ran => NetSound /\ (device.net = "tun" => cfg.egress)
    /\ Quiet /\ (act[Job].pc = "read" \/ RowRead) /\ device.net = "tun"
           => tun = "routed" \/ Settings \subseteq act[Job].met
EgressAccounts ==
    Alone("egress") =>
        /\ cfg.egress /\ InPhase({"tun", "device", "boot", "routes", "read"}) => relay = Unset
        /\ RowRead /\ "egress" \notin act[Job].todo /\ device.net = "tun"
               => relay = act[Job].want["egress"]
CameraAccounts ==
    Alone("camera") =>
        /\ act[Job].kind # "create" /\ Creating => feed = Unset
        /\ RowRead =>
               /\ act[Job].pc = "rescan" => feed = act[Job].want["camera"]
               /\ act[Job].want["camera"] = Unset /\ act[Job].kind # "create" => feed = Unset
               /\ act[Job].want["camera"] # Unset /\ "camera" \notin act[Job].todo
                      => feed = act[Job].want["camera"] /\ HalReady
LocationAccounts ==
    Alone("location") =>
        /\ Fresh => device.location = Unset
        /\ RowRead /\ "location" \notin act[Job].todo /\ device.run = "up"
               => device.location = act[Job].want["location"]
WantAccounts == RowRead => \A k \in Settings : Alone(k) => act[Job].want[k] = row.set[k]
JobAccounts ==
    Busy(Job) => EgressAccounts /\ CameraAccounts /\ LocationAccounts /\ WantAccounts

\* A feed that runs is the one that is stored, whatever the device is doing,
\* and a rebuild that shared the camera has a request to tell of it.
FeedStored ==
    /\ "camera" \notin disturbed /\ Active("camera") = {} => feed \in {Unset, row.set["camera"]}
    /\ Busy(Job) /\ ~Done(Job) /\ "camera" \in act[Job].met /\ Active("camera") = {}
           => "camera" \in disturbed

Served ==
    row.state \in Serving =>
        /\ "network" \notin disturbed => device.net # "lost"
        /\ device.run = "up" =>
               /\ device.net = "tun" /\ "egress" \notin disturbed => tun = "routed"
               /\ \A k \in Settings \ disturbed : Active(k) = {} => InForce(k)

-----------------------------------------------------------------------------
(* A request that has met nobody: what it touches, nobody else touches.    *)

RequestsAccount == \A c \in Clients : Busy(c) /\ act[c].met = {} => RequestAccounts(c)

LEMMA AloneRequest ==
    ASSUME Overlaps, NEW c \in Clients, Busy(c), act[c].met = {}, ~OnlyStores(c),
           NEW q \in Processes \ {c}, Busy(q), TypeOK
    PROVE  q \notin Rebuilders /\ (act[q].kind # act[c].kind \/ OnlyStores(q))
<1>1. Touched(c) \cap Touched(q) = {}
  BY WhoIsWho DEF Overlaps
<1>2. Touched(c) = {act[c].kind} /\ act[c].kind \in Settings
  BY WhoIsWho DEF Touched, TypeOK
<1> QED  BY <1>1, <1>2 DEF Touched, Everything

LEMMA StoringOwesNothing ==
    ASSUME NEW c, OnlyStores(c)
    PROVE  RequestAccounts(c)
BY DEF OnlyStores, RequestAccounts, Done

LEMMA RequestFrame ==
    ASSUME NEW c, RequestAccounts(c), Busy(c), Kept(c),
           act[c].kind = "egress" => relay' = relay,
           act[c].kind = "camera" =>
               feed' = feed /\ (device'.run = None \/ (device'.hal = device.hal
                                    /\ (device.run = None => device'.run = None))),
           act[c].kind = "location" /\ row'.state \in Serving /\ device'.run = "up" =>
               /\ row.state \in Serving /\ row'.set["location"] = row.set["location"]
               /\ device.run = "up" /\ device'.location = device.location
    PROVE  RequestAccounts(c)'
BY DEF RequestAccounts, Kept, Busy, Done, HalReady

\* The settings another request may change are not those of this one.
LEMMA SettingDoes ==
    ASSUME TypeOK, Shapes, NEW p \in Clients, SettingStep(p)
    PROVE  /\ act[p].todo = {act[p].kind}
           /\ act[p].kind # "egress" => relay' = relay
           /\ act[p].kind # "camera" => feed' = feed /\ device'.hal = device.hal
           /\ act[p].kind # "location" => device'.location = device.location
           /\ device'.run = device.run /\ device'.net = device.net
           /\ \/ disturbed' = disturbed \cup {act[p].kind} /\ act'[p] = Idle
              \/ /\ disturbed' = disturbed /\ Busy(p)' /\ act'[p].kind = act[p].kind
                 /\ act'[p].met = act[p].met
<1> USE DEF sidecars
<1>1. /\ p \notin Rebuilders /\ p \in Processes /\ ActOK
      /\ Busy(p) /\ act[p] \in Tasks /\ act[p].pc \in TaskPcs
  BY SettingAt, WhoIsWho, JobIsThere
<1>2. act[p].todo \subseteq {act[p].kind}
  BY <1>1 DEF Shapes, ClientShape
<1>3. \A pc, todo : Moves(p, pc, todo)
          => Busy(p)' /\ act'[p].kind = act[p].kind /\ act'[p].met = act[p].met
  BY TasksAreBusy DEF Moves, Busy
<1>4. CASE /\ RelayRemoved(p) \/ RelayRun(p)
           /\ "egress" \in act[p].todo /\ \E pc, todo : Moves(p, pc, todo)
  <2>1. UNCHANGED <<feed, device, disturbed>>
    BY <1>4 DEF RelayRemoved, RelayRun
  <2> QED  BY <1>2, <1>3, <1>4, <2>1
<1>5. CASE /\ FeedRemoved(p) \/ FeedRun(p) \/ RescanCamera(p)
           /\ "camera" \in act[p].todo /\ \E pc, todo : Moves(p, pc, todo)
  <2>1. UNCHANGED <<relay, disturbed>>
    BY <1>5 DEF FeedRemoved, FeedRun, RescanCamera
  <2>2. device' = device \/ device' = [device EXCEPT !.hal = (feed # Unset)]
    BY <1>5 DEF FeedRemoved, FeedRun, RescanCamera
  <2>3. /\ device'.run = device.run /\ device'.net = device.net
        /\ device'.location = device.location
    BY <2>2 DEF TypeOK, Containers
  <2> QED  BY <1>2, <1>3, <1>5, <2>1, <2>3
<1>6. CASE SetLocation(p) /\ "location" \in act[p].todo /\ \E pc, todo : Moves(p, pc, todo)
  <2>1. UNCHANGED <<relay, feed, disturbed>>
    BY <1>6 DEF SetLocation
  <2>2. device'.run = device.run /\ device'.net = device.net /\ device'.hal = device.hal
    BY <1>6 DEF SetLocation, TypeOK, Containers
  <2> QED  BY <1>2, <1>3, <1>6, <2>1, <2>2
<1>7. CASE GiveUp(p) /\ act[p].todo # {} /\ UNCHANGED <<device, relay, feed>>
  BY <1>1, <1>2, <1>7, GiveUpMoves
<1> QED  BY <1>1, <1>4, <1>5, <1>6, <1>7, SettingMoves

LEMMA RequestsAfterSetting ==
    ASSUME TypeOK, Shapes, Overlaps, RequestsAccount, NEW p \in Clients, SettingStep(p)
    PROVE  RequestsAccount'
<1> USE DEF sidecars
<1> SUFFICES ASSUME NEW c \in Clients, Busy(c)', act'[c].met = {}
             PROVE  RequestAccounts(c)'
  BY DEF RequestsAccount
<1>1. /\ ActOK /\ Busy(p) /\ act[p] \in Tasks /\ ~OnlyStores(p) /\ row' = row
      /\ p \notin Rebuilders /\ p \in Processes /\ c \in Processes
      /\ act[p].kind \in Settings /\ \A q \in Processes \ {p} : Kept(q)
  BY SettingAt, SettingMoves, OthersKept, WhoIsWho, JobIsThere DEF TypeOK
<1>2. CASE c # p
  <2>1. Kept(c) /\ Busy(c) /\ act[c].met = {}
    BY <1>1, <1>2, KeptStays DEF Kept, Busy
  <2>2. CASE OnlyStores(c)
    BY <2>1, <2>2, KeptStays, StoringOwesNothing DEF OnlyStores, RequestAccounts, Done
  <2>3. CASE ~OnlyStores(c)
    <3>1. act[p].kind # act[c].kind
      BY <1>1, <1>2, <2>1, <2>3, AloneRequest
    <3>2. RequestAccounts(c)
      BY <2>1 DEF RequestsAccount
    <3> QED  BY <1>1, <2>1, <3>1, <3>2, RequestFrame, SettingDoes
  <2> QED  BY <2>2, <2>3
<1>3. CASE c = p
  <2>1. act'[p].kind = act[p].kind /\ act[p].met = {} /\ Busy(p)'
    BY <1>3, SettingDoes DEF Busy
  <2>2. RequestAccounts(p)
    BY <1>1, <2>1 DEF RequestsAccount
  <2>3. act[p].todo = {act[p].kind}
    BY SettingDoes
  <2>4. CASE RelayRemoved(p) /\ Moves(p, "relayrun", act[p].todo) /\ "egress" \in act[p].todo
    BY <1>3, <2>3, <2>4 DEF Moves, RequestAccounts, Done
  <2>5. CASE RelayRun(p) /\ "egress" \in act[p].todo /\ Moves(p, "apply", act[p].todo \ {"egress"})
    <3>1. relay' = act[p].want["egress"]
      BY <2>5 DEF RelayRun
    <3> QED  BY <1>3, <2>3, <2>5, <3>1 DEF Moves, RequestAccounts, Done
  <2>6. CASE /\ FeedRemoved(p) /\ act[p].want["camera"] = Unset /\ "camera" \in act[p].todo
             /\ Moves(p, "apply", act[p].todo \ {"camera"})
    <3>1. feed' = Unset
      BY <2>6 DEF FeedRemoved
    <3> QED  BY <1>3, <2>3, <2>6, <3>1 DEF Moves, RequestAccounts, Done, HalReady
  <2>7. CASE FeedRemoved(p) /\ "camera" \in act[p].todo /\ Moves(p, "feedrun", act[p].todo)
    BY <1>3, <2>3, <2>7 DEF Moves, RequestAccounts, Done
  <2>8. CASE FeedRun(p) /\ "camera" \in act[p].todo /\ Moves(p, "rescan", act[p].todo)
    <3>1. feed' = act[p].want["camera"]
      BY <2>8 DEF FeedRun
    <3> QED  BY <1>3, <2>3, <2>8, <3>1 DEF Moves, RequestAccounts, Done
  <2>9. CASE /\ RescanCamera(p) /\ "camera" \in act[p].todo
             /\ Moves(p, "apply", act[p].todo \ {"camera"})
    <3>1. act[p].kind = "camera" /\ feed' = feed /\ act[p].pc = "rescan"
      BY <2>3, <2>9 DEF RescanCamera
    <3>2. feed = act[p].want["camera"]
      BY <2>2, <3>1 DEF RequestAccounts
    <3>3. device'.hal = (feed # Unset)
      BY <2>9 DEF RescanCamera, TypeOK, Containers
    <3> QED  BY <1>3, <2>3, <2>9, <3>1, <3>2, <3>3 DEF Moves, RequestAccounts, Done, HalReady
  <2>10. CASE /\ SetLocation(p) /\ "location" \in act[p].todo
              /\ Moves(p, "apply", act[p].todo \ {"location"})
    <3>1. act[p].kind = "location" /\ act[p].pc = "apply" /\ device.run = "up"
      BY <2>3, <2>10 DEF SetLocation, Applies
    <3>2. row.state \in Serving => row.set["location"] = act[p].want["location"]
      BY <2>2, <3>1 DEF RequestAccounts
    <3>3. device'.location = act[p].want["location"]
      BY <2>10 DEF SetLocation, TypeOK, Containers
    <3> QED  BY <1>1, <1>3, <2>10, <3>1, <3>2, <3>3 DEF Moves, RequestAccounts, Done
  <2>11. ~GiveUp(p)
    <3>1. act[p].pc \in TaskPcs /\ (GiveUp(p) => act'[p] = Idle)
      BY <1>1, SettingAt, GiveUpMoves
    <3> QED  BY <2>1, <3>1 DEF Busy
  <2> QED  BY <1>1, <2>4, <2>5, <2>6, <2>7, <2>8, <2>9, <2>10, <2>11, SettingMoves
<1> QED  BY <1>2, <1>3

\* Nothing but the task of the client is stored, and only at its end.
LEMMA EndsStores ==
    ASSUME TypeOK, NEW c \in Clients, RequestEnds(c)
    PROVE  /\ Done(c) /\ Busy(c) /\ act[c].kind \in Settings /\ ~OnlyStores(c)
           /\ row' \in [state : States, set : Columns] /\ row'.state = row.state
           /\ \A k \in Settings : row'.set[k] = IF k = act[c].kind /\ k # "location"
                                                THEN act[c].want[k] ELSE row.set[k]
<1>1. Busy(c) /\ act[c].kind \in Settings /\ Done(c) /\ ~OnlyStores(c)
  BY DEF RequestEnds, Busy, Idle, TypeOK, Done, OnlyStores
<1>2. row' \in [state : States, set : Columns]
  BY TypeRequest DEF RequestStep, TypeOK
<1>3. row'.state = row.state
  BY DEF RequestEnds, TypeOK
<1>4. row.set \in Columns
  BY DEF TypeOK
<1>5. \A k \in Settings : row'.set[k] = IF k = act[c].kind /\ k # "location"
                                        THEN act[c].want[k] ELSE row.set[k]
  BY <1>1, <1>4 DEF RequestEnds, TypeOK, Columns
<1> QED  BY <1>1, <1>2, <1>3, <1>5

LEMMA StoreStores ==
    ASSUME TypeOK, NEW c \in Clients, Stored(c), Shapes
    PROVE  /\ Busy(c) /\ act[c].kind = "location" /\ row'.state = row.state
           /\ row'.set["location"] = act[c].want["location"]
           /\ \A k \in Settings : k # "location" => row'.set[k] = row.set[k]
<1>1. Busy(c) /\ act[c].kind = "location"
  BY TasksAreBusy DEF Stored, Shapes, ClientShape, Busy
<1>2. row.set \in Columns
  BY DEF TypeOK
<1>3. row' = [row EXCEPT !.set["location"] = act[c].want["location"]]
  BY DEF Stored
<1> QED  BY <1>1, <1>2, <1>3 DEF TypeOK, Columns, Settings

LEMMA RequestsAfterRequest ==
    ASSUME TypeOK, Shapes, Overlaps, RequestsAccount, NEW p \in Clients, RequestStep(p)
    PROVE  RequestsAccount'
<1> SUFFICES ASSUME NEW c \in Clients, Busy(c)', act'[c].met = {}
             PROVE  RequestAccounts(c)'
  BY DEF RequestsAccount
<1>1. /\ ActOK /\ p \in Processes /\ p # Job /\ c \in Processes
      /\ UNCHANGED <<device, tun, relay, feed, cfg>> /\ row'.state = row.state
      /\ \A q \in Processes \ {p} : Kept(q)
  BY RequestMoves, WhoIsWho, JobIsThere
<1>2. CASE c # p
  <2>1. Kept(c) /\ Busy(c) /\ act[c].met = {}
    BY <1>1, <1>2, KeptStays DEF Kept, Busy
  <2>2. CASE OnlyStores(c)
    BY <2>1, <2>2, KeptStays, StoringOwesNothing DEF OnlyStores, RequestAccounts, Done
  <2>3. CASE ~OnlyStores(c)
    <3>1. RequestAccounts(c)
      BY <2>1 DEF RequestsAccount
    <3>2. act[c].kind = "location" /\ row'.state \in Serving
              => row'.set["location"] = row.set["location"]
      <4>1. CASE Arrived(p)
        BY <4>1 DEF Arrived
      <4>2. CASE Stored(p)
        <5> SUFFICES ASSUME act[c].kind = "location", row'.state \in Serving
                     PROVE  FALSE
          OBVIOUS
        <5>1. Busy(p) /\ act[p].kind = "location"
          BY <4>2, StoreStores
        <5>2. OnlyStores(p)
          BY <1>1, <1>2, <2>1, <2>3, <5>1, AloneRequest
        <5>3. ~Busy(Job)
          BY <2>1, <2>3, AloneRequest, WhoIsWho, JobIsThere
        <5>4. Late(p)
          BY <1>1, <5>2, <5>3 DEF Late
        <5>5. "location" \in Touched(c)
          BY <2>3, WhoIsWho, JobIsThere DEF Touched
        <5>6. act'[c].met = act[c].met \cup (Touched(c) \cap {"location"})
          BY <1>1, <1>2, <2>1, <4>2, <5>4 DEF Stored
        <5> QED  BY <5>5, <5>6
      <4>3. CASE RequestEnds(p)
        BY <4>3, EndsStores DEF Settings
      <4> QED  BY <4>1, <4>2, <4>3, RequestMoves
    <3> QED  BY <1>1, <2>1, <3>1, <3>2, RequestFrame
  <2> QED  BY <2>2, <2>3
<1>3. CASE c = p
  <2>1. CASE Arrived(p)
    BY <1>3, <2>1 DEF Arrived, RequestAccounts, Done
  <2>2. CASE Stored(p) /\ act[p].todo # {}
    <3>1. Moves(p, "apply", act[p].todo) /\ row'.set["location"] = act[p].want["location"]
          /\ act[p].kind = "location"
      BY <2>2, StoreStores DEF Stored
    <3> QED  BY <1>3, <2>2, <3>1 DEF Moves, RequestAccounts, Done
  <2>3. CASE act'[p] = Idle
    BY <1>3, <2>3 DEF Busy
  <2> QED  BY <2>1, <2>2, <2>3, RequestMoves DEF Stored
<1> QED  BY <1>2, <1>3

\* A rebuild meets every request that has more to do than to store.
LEMMA RequestsAfterRebuild ==
    ASSUME TypeOK, Overlaps, RequestsAccount, NEW j \in Rebuilders,
           \A q \in Processes \ {j} : Kept(q),
           Busy(j) \/ \A q \in Processes \ {j} : Busy(q) => Touched(q) \subseteq act'[q].met
    PROVE  RequestsAccount'
<1> SUFFICES ASSUME NEW c \in Clients, Busy(c)', act'[c].met = {}
             PROVE  RequestAccounts(c)'
  BY DEF RequestsAccount
<1>1. Kept(c) /\ Busy(c) /\ act[c].met = {} /\ c \in Processes \ {j} /\ c \notin Rebuilders
  BY KeptStays, WhoIsWho DEF Kept, Busy
<1>2. OnlyStores(c)
  <2>1. CASE Busy(j)
    BY <1>1, <2>1, AloneRequest, WhoIsWho
  <2>2. CASE Touched(c) \subseteq act'[c].met
    BY <1>1, <2>2 DEF Touched
  <2> QED  BY <1>1, <2>1, <2>2
<1> QED  BY <1>1, <1>2, KeptStays DEF OnlyStores, RequestAccounts, Done

LEMMA RequestsStep ==
    ASSUME TypeOK, Shapes, Overlaps, RequestsAccount, [Next]_vars
    PROVE  RequestsAccount'
<1>1. ActOK
  BY DEF TypeOK, ActOK
<1>2. CASE Elsewhere
  <2> SUFFICES ASSUME NEW c \in Clients, Busy(c)', act'[c].met = {}
               PROVE  RequestAccounts(c)'
    BY DEF RequestsAccount
  <2>1. Busy(c) /\ RequestAccounts(c)
    BY <1>2 DEF Elsewhere, RequestsAccount, Busy
  <2>2. None # "up" /\ (device' = device \/ device'.run = None)
    BY <1>2 DEF Elsewhere, NoDevice, None
  <2> QED  BY <1>2, <2>1, <2>2 DEF Elsewhere, RequestAccounts, Done, HalReady
<1>3. ASSUME NEW j \in Rebuilders, NEW kind \in Reasons \cup {"boot", "create"},
             NEW pc \in {"remove", "create"}, Starting(j, kind, pc)
      PROVE  RequestsAccount'
  <2>1. RebuildOf(j, kind, pc)
    BY <1>3 DEF Starting
  <2> QED  BY <1>3, <2>1, RebuildBegins, RequestsAfterRebuild
<1>4. CASE Restart
  BY <1>4, WhoIsWho DEF Restart, RequestsAccount, Busy
<1>5. ASSUME NEW j \in Rebuilders, RebuildStep(j)
      PROVE  RequestsAccount'
  BY <1>1, <1>5, RebuildMoves, OthersKept, RequestsAfterRebuild
<1>6. ASSUME NEW p \in Processes, SettingStep(p)
      PROVE  RequestsAccount'
  <2>1. CASE p \in Rebuilders
    BY <1>1, <1>6, <2>1, SettingAt, SettingMoves, OthersKept, RequestsAfterRebuild
  <2>2. CASE p \in Clients
    BY <1>6, <2>2, RequestsAfterSetting
  <2> QED  BY <2>1, <2>2, WhoIsWho
<1> QED  BY <1>2, <1>3, <1>4, <1>5, <1>6, NextSplit, RequestsAfterRequest

-----------------------------------------------------------------------------
(* The rebuild: its network, and the settings it met nobody at.            *)

LEMMA JobStays ==
    ASSUME TypeOK, Kept(Job)
    PROVE  /\ Busy(Job)' <=> Busy(Job)
           /\ \A pcs : InPhase(pcs)' <=> InPhase(pcs)
           /\ Creating' <=> Creating
           /\ Fresh' <=> Fresh
           /\ RowRead' <=> RowRead
           /\ Ran' <=> Ran
           /\ Done(Job)' <=> Done(Job)
           /\ act'[Job].pc = act[Job].pc
           /\ Busy(Job) => /\ act'[Job].kind = act[Job].kind /\ act'[Job].want = act[Job].want
                           /\ act'[Job].todo = act[Job].todo
                           /\ \A k : Alone(k)' => Alone(k)
                           /\ Settings \subseteq act[Job].met => Settings \subseteq act'[Job].met
           /\ Quiet' => Quiet
<1>1. Busy(Job)' <=> Busy(Job)
  BY KeptStays
<1>2. act'[Job].pc = act[Job].pc /\ act'[Job].todo = act[Job].todo
  BY DEF Kept
<1>3. ASSUME Busy(Job)
      PROVE  /\ act'[Job].kind = act[Job].kind /\ act'[Job].want = act[Job].want
             /\ \A k : Alone(k)' => Alone(k)
             /\ act[Job].met \subseteq act'[Job].met
  <2>1. act'[Job] \in Tasks /\ act[Job].met \subseteq act'[Job].met
    BY <1>3 DEF Kept, Busy
  <2> QED  BY <1>3, <2>1 DEF Kept, Busy, Alone, Tasks
<1>4. \A pcs : InPhase(pcs)' <=> InPhase(pcs)
  BY <1>2 DEF InPhase
<1>5. RowRead' <=> RowRead
  BY <1>1, <1>2 DEF RowRead
<1>6. Quiet' => Quiet
  BY <1>1, <1>3 DEF Quiet
<1> QED  BY <1>1, <1>2, <1>3, <1>4, <1>5, <1>6 DEF Creating, Fresh, Ran, Done, InPhase

LEMMA JobAccountsFrame ==
    ASSUME TypeOK, Kept(Job), JobAccounts,
           device'.net \in {device.net, None}, cfg' = cfg,
           Busy(Job) /\ Alone("egress")' => relay' = relay,
           Busy(Job) /\ Alone("camera")' => feed' = feed /\ (HalReady => HalReady'),
           Busy(Job) /\ Alone("location")' =>
               \/ device'.location = device.location /\ (device'.run = "up" => device.run = "up")
               \/ device'.location = Unset /\ device'.run # "up",
           RowRead => \A k \in Settings : Alone(k)' => row'.set[k] = row.set[k]
    PROVE  JobAccounts'
<1> SUFFICES ASSUME Busy(Job)'
             PROVE  /\ EgressAccounts' /\ CameraAccounts' /\ LocationAccounts' /\ WantAccounts'
  BY DEF JobAccounts
<1>1. /\ Busy(Job) /\ EgressAccounts /\ CameraAccounts /\ LocationAccounts /\ WantAccounts
      /\ \A pcs : InPhase(pcs)' <=> InPhase(pcs)
      /\ Creating' <=> Creating
      /\ Fresh' <=> Fresh
      /\ RowRead' <=> RowRead
      /\ act'[Job].pc = act[Job].pc
      /\ act'[Job].kind = act[Job].kind /\ act'[Job].want = act[Job].want
      /\ act'[Job].todo = act[Job].todo
      /\ \A k : Alone(k)' => Alone(k)
  BY JobStays DEF JobAccounts
<1>2. EgressAccounts'
  BY <1>1 DEF EgressAccounts, None
<1>3. CameraAccounts'
  BY <1>1 DEF CameraAccounts
<1>4. LocationAccounts'
  BY <1>1 DEF LocationAccounts
<1>5. WantAccounts'
  BY <1>1 DEF WantAccounts
<1> QED  BY <1>2, <1>3, <1>4, <1>5

LEMMA NetAccountsFrame ==
    ASSUME TypeOK, Kept(Job), NetAccounts,
           device'.net \in {device.net, None}, tun' = tun, cfg' = cfg,
           "network" \notin disturbed' => "network" \notin disturbed
    PROVE  NetAccounts'
<1>1. Busy(Job) => (Settings \subseteq act[Job].met => Settings \subseteq act'[Job].met)
  BY JobStays
<1>2. /\ (Ran' <=> Ran) /\ (RowRead' <=> RowRead) /\ act'[Job].pc = act[Job].pc
      /\ Quiet' => Quiet /\ Busy(Job)
  BY JobStays DEF Quiet
<1>3. NetSound => NetSound'
  BY DEF NetSound, None
<1> QED  BY <1>1, <1>2, <1>3 DEF NetAccounts, None

\* A client beside a rebuild that is alone at a setting leaves it alone.
LEMMA AloneRebuild ==
    ASSUME TypeOK, Overlaps, Busy(Job), NEW p \in Clients, Busy(p), NEW k \in Settings, Alone(k)
    PROVE  act[p].kind # k \/ OnlyStores(p)
<1>1. Touched(Job) \cap Touched(p) \subseteq act[Job].met
  BY WhoIsWho, JobIsThere DEF Overlaps
<1> QED  BY <1>1, WhoIsWho, JobIsThere DEF Touched, Alone, Everything

LEMMA JobAfterClientSetting ==
    ASSUME TypeOK, Shapes, Overlaps, NetAccounts, JobAccounts, NEW p \in Clients, SettingStep(p)
    PROVE  NetAccounts' /\ JobAccounts'
<1>1. /\ ActOK /\ Busy(p) /\ p \in Processes /\ ~OnlyStores(p)
      /\ UNCHANGED <<row, tun, cfg>> /\ Kept(Job)
  BY SettingAt, SettingMoves, OthersKept, WhoIsWho, JobIsThere
<1>2. /\ act[p].kind # "egress" => relay' = relay
      /\ act[p].kind # "camera" => feed' = feed /\ device'.hal = device.hal
      /\ act[p].kind # "location" => device'.location = device.location
      /\ device'.run = device.run /\ device'.net = device.net
      /\ "network" \notin disturbed' => "network" \notin disturbed
  BY <1>1, SettingDoes, SettingStays DEF Settings
<1>3. Busy(Job) => \A k \in Settings : Alone(k)' => act[p].kind # k
  BY <1>1, JobStays, AloneRebuild
<1>4. NetAccounts'
  BY <1>1, <1>2, NetAccountsFrame
<1>5. JobAccounts'
  BY <1>1, <1>2, <1>3, JobAccountsFrame DEF Settings, HalReady
<1> QED  BY <1>4, <1>5

\* No request is about the network.
LEMMA NetworkIsNoRequest ==
    ASSUME TypeOK, NEW c \in Clients, RequestStep(c)
    PROVE  "network" \in disturbed' <=> "network" \in disturbed
<1>1. c \in Processes /\ (RequestEnds(c) => act[c].kind # "network")
  <2>1. RequestEnds(c) => Busy(c)
    BY DEF RequestEnds, Busy, Idle
  <2> QED  BY <2>1, WhoIsWho DEF TypeOK, Settings
<1> QED  BY <1>1, RequestMoves DEF Arrived, Stored, RequestEnds

LEMMA JobAfterClientRequest ==
    ASSUME TypeOK, Shapes, Overlaps, NetAccounts, JobAccounts, NEW p \in Clients, RequestStep(p)
    PROVE  NetAccounts' /\ JobAccounts'
<1>1. /\ ActOK /\ p \in Processes /\ p # Job
      /\ UNCHANGED <<device, tun, relay, feed, cfg>> /\ Kept(Job)
  BY RequestMoves, WhoIsWho, JobIsThere
<1>2. ASSUME RowRead, NEW k \in Settings, Alone(k)'
      PROVE  row'.set[k] = row.set[k]
  <2>1. Busy(Job) /\ Alone(k)
    BY <1>1, <1>2, JobStays DEF RowRead
  <2>2. CASE Arrived(p)
    BY <2>2 DEF Arrived
  <2>3. CASE Stored(p)
    <3> SUFFICES ASSUME k = "location"
                 PROVE  FALSE
      BY <2>3, StoreStores
    <3>1. OnlyStores(p)
      BY <2>1, <2>3, AloneRebuild, StoreStores
    <3>2. act'[Job].met = act[Job].met \cup (Touched(Job) \cap {"location"})
      BY <1>1, <1>2, <2>1, <2>3, <3>1, WhoIsWho, JobIsThere DEF Stored, Late
    <3> QED  BY <1>2, <3>2, JobIsThere DEF Touched, Everything, Settings, Alone
  <2>4. CASE RequestEnds(p)
    BY <2>1, <2>4, EndsStores, AloneRebuild
  <2> QED  BY <2>2, <2>3, <2>4, RequestMoves
<1>3. NetAccounts'
  <2>1. "network" \notin disturbed' => "network" \notin disturbed
    BY <1>1, NetworkIsNoRequest
  <2> QED  BY <1>1, <2>1, NetAccountsFrame
<1>4. JobAccounts'
  BY <1>1, <1>2, JobAccountsFrame DEF HalReady
<1> QED  BY <1>3, <1>4

\* Up to the boot of the device: what each command of Create leaves behind.
LEMMA JobAfterRebuild ==
    ASSUME TypeOK, Shapes, Overlaps, NetAccounts, JobAccounts, RebuildStep(Job), Solo
    PROVE  NetAccounts' /\ JobAccounts'
<1> USE DEF sidecars
<1>1. /\ ActOK /\ Busy(Job) /\ act[Job] \in Tasks /\ act[Job].todo = {} /\ Others(Job)
      /\ JobShape(act[Job]) /\ Quiet
      /\ EgressAccounts /\ CameraAccounts /\ LocationAccounts /\ WantAccounts
  BY RebuildMoves, JobIsThere DEF Shapes, JobAccounts, Solo, Quiet
<1>2. /\ NoDevice.net = None /\ NoDevice.run = None /\ NoDevice.location = Unset
      /\ None \notin {"tun", "lost", "up"}
  BY DEF NoDevice, None
<1>3. /\ Unplugged.run = device.run /\ Unplugged.location = device.location
      /\ Unplugged.net # "tun"
  BY DEF Unplugged, TypeOK, Containers
\* A step to a place before the device runs: only that it is in no tun that is gone.
<1>4. ASSUME NEW pc, Moves(Job, pc, {}), pc \in {"sidecars", "create", "relayrm", "device"},
             "network" \notin disturbed /\ device'.net = "tun" => tun' # None,
             UNCHANGED <<cfg, disturbed>>,
             pc # "sidecars" /\ act[Job].kind # "create" /\ Alone("camera") => feed' = Unset,
             pc = "device" /\ cfg.egress /\ Alone("egress") => relay' = Unset
      PROVE  NetAccounts' /\ JobAccounts'
  <2>1. /\ act'[Job].pc = pc /\ act'[Job].todo = {} /\ act'[Job].kind = act[Job].kind
        /\ act'[Job].met = act[Job].met
    BY <1>4 DEF Moves
  <2>2. ~RowRead' /\ ~Ran' /\ ~Fresh'
    BY <1>4, <2>1 DEF RowRead, Ran, Fresh, InPhase
  <2>3. NetAccounts'
    BY <1>4, <2>1, <2>2 DEF NetAccounts
  <2>4. EgressAccounts' /\ CameraAccounts' /\ LocationAccounts' /\ WantAccounts'
    BY <1>4, <2>1, <2>2 DEF EgressAccounts, CameraAccounts, LocationAccounts, WantAccounts,
       Alone, InPhase, Creating
  <2> QED  BY <2>3, <2>4 DEF JobAccounts
<1>5. CASE RemoveDevice(Job) /\ Moves(Job, "sidecars", {})
  <2>1. "network" \notin disturbed /\ device'.net = "tun" => tun' # None
    BY <1>2, <1>5 DEF RemoveDevice, NetAccounts
  <2>2. UNCHANGED <<cfg, disturbed>>
    BY <1>5 DEF RemoveDevice
  <2> QED  BY <1>4, <1>5, <2>1, <2>2
<1>6. CASE RemoveSidecars(Job) /\ Moves(Job, "create", {})
  <2>1. device'.net # "tun" /\ feed' = Unset /\ UNCHANGED <<cfg, disturbed>>
    BY <1>3, <1>6 DEF RemoveSidecars
  <2> QED  BY <1>4, <1>6, <2>1
<1>7. CASE CreateBegins(Job) /\ Moves(Job, IF cfg.egress THEN "relayrm" ELSE "device", {})
  <2>1. "network" \notin disturbed /\ device'.net = "tun" => tun' # None
    BY <1>2, <1>7 DEF CreateBegins, NetAccounts
  <2>2. UNCHANGED <<cfg, disturbed>> /\ feed' = feed /\ Creating
    BY <1>1, <1>7 DEF CreateBegins, Creating, InPhase
  <2>3. act[Job].kind # "create" /\ Alone("camera") => feed' = Unset
    BY <1>1, <2>2 DEF CameraAccounts
  <2> QED  BY <1>4, <1>7, <2>1, <2>2, <2>3
<1>8. CASE StartTun(Job) /\ Moves(Job, "device", {})
  <2>1. device'.net # "tun" /\ UNCHANGED <<feed, relay, cfg, disturbed>> /\ act[Job].pc = "tun"
    BY <1>3, <1>8 DEF StartTun
  <2>2. InPhase({"tun", "device", "boot", "routes", "read"}) /\ Creating
    BY <1>1, <2>1 DEF InPhase, Creating
  <2>3. /\ act[Job].kind # "create" /\ Alone("camera") => feed' = Unset
        /\ cfg.egress /\ Alone("egress") => relay' = Unset
    BY <1>1, <2>1, <2>2 DEF CameraAccounts, EgressAccounts
  <2> QED  BY <1>4, <1>8, <2>1, <2>3
\* From the run of the device to the reading of the row.
<1>9. ASSUME NEW pc, Moves(Job, pc, {}), pc \in {"boot", "routes", "read"},
             act[Job].pc \in {"device", "boot", "routes"}, UNCHANGED <<relay, feed, cfg>>,
             device'.net # "lost", device'.net = "tun" => cfg.egress /\ tun' # None,
             pc = "read" /\ device'.net = "tun" => tun' = "routed",
             Alone("location") => device'.location = Unset
      PROVE  NetAccounts' /\ JobAccounts'
  <2>1. /\ act'[Job].pc = pc /\ act'[Job].todo = {} /\ act'[Job].kind = act[Job].kind
        /\ act'[Job].met = act[Job].met
    BY <1>9 DEF Moves
  <2>2. ~RowRead'
    BY <1>9, <2>1 DEF RowRead
  <2>3. InPhase({"tun", "device", "boot", "routes", "read"}) /\ Creating
    BY <1>1, <1>9 DEF InPhase, Creating
  <2>4. NetAccounts'
    BY <1>9, <2>1, <2>2 DEF NetAccounts, NetSound
  <2>5. EgressAccounts'
    BY <1>1, <1>9, <2>1, <2>2, <2>3 DEF EgressAccounts, Alone
  <2>6. CameraAccounts'
    BY <1>1, <1>9, <2>1, <2>2, <2>3 DEF CameraAccounts, Alone
  <2>7. LocationAccounts' /\ WantAccounts'
    BY <1>9, <2>1, <2>2 DEF LocationAccounts, WantAccounts, Alone
  <2> QED  BY <2>4, <2>5, <2>6, <2>7 DEF JobAccounts
<1>10. CASE RunDevice(Job) /\ Moves(Job, "boot", {})
  <2>1. /\ device'.net = (IF cfg.egress THEN "tun" ELSE "own") /\ device'.location = Unset
        /\ cfg.egress => tun # None
        /\ UNCHANGED <<relay, feed, cfg, tun>> /\ act[Job].pc = "device"
    BY <1>10 DEF RunDevice, NoDevice
  <2> QED  BY <1>9, <1>10, <2>1
<1>11. CASE WaitBoot(Job) /\ Moves(Job, "routes", {})
  <2>1. /\ device'.net = device.net /\ device'.location = device.location
        /\ UNCHANGED <<relay, feed, cfg, tun>> /\ act[Job].pc = "boot"
    BY <1>11 DEF WaitBoot, TypeOK, Containers
  <2>2. Ran /\ Fresh
    BY <1>1, <2>1 DEF Ran, Fresh, InPhase
  <2> QED  BY <1>1, <1>9, <1>11, <2>1, <2>2 DEF NetAccounts, NetSound, LocationAccounts
<1>12. CASE CreateFails(Job) /\ act'[Job] = Idle
  <2>1. ~Busy(Job)' /\ act'[Job].pc = "idle" /\ UNCHANGED disturbed
    BY <1>12 DEF CreateFails, Busy, Idle
  <2>2. ~Ran' /\ ~RowRead'
    BY <2>1 DEF Ran, RowRead, InPhase
  <2>3. "network" \notin disturbed /\ device'.net = "tun" => tun' # None
    BY <1>3, <1>12 DEF CreateFails, NetAccounts
  <2> QED  BY <2>1, <2>2, <2>3 DEF NetAccounts, JobAccounts, Quiet
<1>13. CASE /\ FinishEgress(Job) /\ Moves(Job, "read", {})
            /\ cfg.egress => tun # None /\ tun' = "routed"
            /\ ~cfg.egress => tun' = tun
  <2>1. UNCHANGED <<device, relay, feed, cfg>> /\ act[Job].pc = "routes"
    BY <1>13 DEF FinishEgress
  <2>2. Ran /\ Fresh
    BY <1>1, <2>1 DEF Ran, Fresh, InPhase
  <2>3. /\ device'.net # "lost" /\ (device'.net = "tun" => cfg.egress /\ tun' = "routed")
        /\ Alone("location") => device'.location = Unset
    BY <1>1, <1>13, <2>1, <2>2 DEF NetAccounts, NetSound, LocationAccounts
  <2> QED  BY <1>2, <1>9, <1>13, <2>1, <2>3 DEF None
<1>14. CASE FinishEgress(Job) /\ GiveUp(Job) /\ tun' = tun
  <2>1. /\ Busy(Job)' /\ act'[Job].pc = "apply" /\ act'[Job].todo = {}
        /\ Settings \subseteq act'[Job].met /\ UNCHANGED disturbed
        /\ ("network" \in act'[Job].met => "network" \in act[Job].met)
    BY <1>1, <1>14, GiveUpMoves, WhoIsWho, JobIsThere, TasksAreBusy
       DEF FinishEgress, TaskPcs, Busy, Settings
  <2>2. UNCHANGED <<device, relay, feed, cfg>> /\ Ran
    BY <1>1, <1>14 DEF FinishEgress, Ran, InPhase
  <2>3. ~Alone("egress")' /\ ~Alone("camera")' /\ ~Alone("location")'
        /\ \A k \in Settings : ~Alone(k)'
    BY <2>1 DEF Alone, Settings
  <2>4. NetAccounts'
    BY <1>1, <1>14, <2>1, <2>2 DEF NetAccounts, NetSound
  <2> QED
    BY <2>3, <2>4
       DEF JobAccounts, EgressAccounts, CameraAccounts, LocationAccounts, WantAccounts
<1>15. CASE /\ ReadRow(Job) /\ act'[Job] \in Tasks /\ act'[Job].pc = "apply"
            /\ act'[Job].want = row.set
            /\ act'[Job].todo = {k \in Settings : row.set[k] # Unset}
            /\ act'[Job].kind = act[Job].kind /\ act'[Job].met = act[Job].met
  <2>1. UNCHANGED <<row, device, tun, relay, feed, cfg, disturbed>> /\ act[Job].pc = "read"
    BY <1>15 DEF ReadRow
  <2>2. /\ Ran /\ Fresh /\ Creating /\ ~RowRead /\ RowRead'
        /\ InPhase({"tun", "device", "boot", "routes", "read"})
    BY <1>1, <1>15, <2>1, TasksAreBusy DEF Ran, Fresh, Creating, InPhase, RowRead, Busy
  <2>3. \A k \in {"egress", "camera", "location"} :
            (k \notin act'[Job].todo <=> row.set[k] = Unset) /\ (Alone(k)' <=> Alone(k))
    BY <1>15 DEF Settings, Alone
  <2>4. ~Creating' /\ ~Fresh' /\ ~InPhase({"tun", "device", "boot", "routes", "read"})'
    BY <1>15 DEF InPhase, Creating, Fresh
  <2>5. NetAccounts'
    BY <1>1, <1>15, <2>1, <2>2 DEF NetAccounts, NetSound
  <2>6. EgressAccounts'
    <3>1. device.net = "tun" => cfg.egress
      BY <1>1, <2>2 DEF NetAccounts
    <3> QED  BY <1>1, <1>15, <2>1, <2>2, <2>3, <2>4, <3>1 DEF EgressAccounts
  <2>7. CameraAccounts'
    BY <1>1, <1>15, <2>1, <2>2, <2>3, <2>4 DEF CameraAccounts
  <2>8. LocationAccounts' /\ WantAccounts'
    BY <1>1, <1>15, <2>1, <2>2, <2>3, <2>4 DEF LocationAccounts, WantAccounts, Settings
  <2> QED  BY <2>5, <2>6, <2>7, <2>8 DEF JobAccounts
<1>16. CASE DeviceReady(Job) /\ act'[Job] = Idle
  <2>1. ~Busy(Job)' /\ act'[Job].pc = "idle" /\ UNCHANGED <<device, tun>>
    BY <1>16 DEF Busy, Idle, DeviceReady
  <2>2. ~Ran' /\ ~RowRead'
    BY <2>1 DEF Ran, RowRead, InPhase
  <2>3. Ran
    BY <1>1, <1>16, TasksAreBusy DEF DeviceReady, Ran, RowRead, Busy
  <2>4. NetSound'
    BY <1>1, <2>1, <2>3 DEF NetAccounts, NetSound
  <2> QED  BY <2>1, <2>2, <2>4 DEF NetAccounts, NetSound, JobAccounts, Quiet
<1> QED  BY <1>5, <1>6, <1>7, <1>8, <1>10, <1>11, <1>12, <1>13, <1>14, <1>15, <1>16,
            JobIsThere, RebuildMoves

\* The settings the rebuild replays, one after the other.
LEMMA JobAfterReplay ==
    ASSUME TypeOK, Shapes, Overlaps, NetAccounts, JobAccounts, SettingStep(Job), Solo
    PROVE  NetAccounts' /\ JobAccounts'
<1> USE DEF sidecars
<1>1. /\ ActOK /\ Busy(Job) /\ act[Job] \in Tasks /\ act[Job].pc \in TaskPcs
      /\ UNCHANGED <<row, tun, cfg>> /\ JobShape(act[Job]) /\ Job \in Processes /\ Quiet
      /\ EgressAccounts /\ CameraAccounts /\ LocationAccounts /\ WantAccounts
  BY SettingAt, JobIsThere DEF Shapes, JobAccounts, Solo, Quiet
<1>2. act[Job].todo \subseteq Settings
  BY <1>1 DEF Tasks
\* A step of the replay: RowRead, before and after.
<1>3. ASSUME NEW pc, NEW todo, Moves(Job, pc, todo), act[Job].todo # {}, todo # {} \/ pc = "apply"
      PROVE  /\ act'[Job].pc = pc /\ act'[Job].todo = todo /\ act'[Job].kind = act[Job].kind
             /\ act'[Job].want = act[Job].want /\ act'[Job].met = act[Job].met
             /\ RowRead /\ RowRead' /\ Ran
             /\ \A k : Alone(k)' <=> Alone(k)
  BY <1>1, <1>3, TasksAreBusy DEF Moves, RowRead, Alone, Busy, Ran
<1>4. ASSUME NEW pc, NEW todo, Moves(Job, pc, todo), act[Job].todo # {}, todo # {} \/ pc = "apply",
             device'.net = device.net, UNCHANGED disturbed
      PROVE  NetAccounts' /\ WantAccounts'
  <2>1. NetAccounts'
    BY <1>1, <1>3, <1>4 DEF NetAccounts, NetSound
  <2> QED  BY <1>1, <1>3, <1>4, <2>1 DEF WantAccounts
<1>5. ASSUME NEW pc, NEW todo, Moves(Job, pc, todo), act[Job].todo # {}, todo # {} \/ pc = "apply",
             pc \in {"apply", "relayrun", "feedrun", "rescan"}
      PROVE  ~Creating' /\ ~Fresh' /\ ~InPhase({"tun", "device", "boot", "routes", "read"})'
  BY <1>3, <1>5 DEF Creating, Fresh, InPhase
<1>6. CASE RelayRemoved(Job) /\ Moves(Job, "relayrun", act[Job].todo) /\ "egress" \in act[Job].todo
  <2>1. UNCHANGED <<device, feed, disturbed>>
    BY <1>6 DEF RelayRemoved
  <2>2. act[Job].pc = "apply"
    BY <1>1, <1>6 DEF RelayRemoved, Applies, JobShape
  <2>3. EgressAccounts'
    BY <1>3, <1>5, <1>6 DEF EgressAccounts
  <2>4. CameraAccounts' /\ LocationAccounts'
    BY <1>1, <1>3, <1>5, <1>6, <2>1 DEF CameraAccounts, LocationAccounts, HalReady
  <2> QED  BY <1>4, <1>6, <2>1, <2>3, <2>4 DEF JobAccounts
<1>7. CASE RelayRemoved(Job) /\ Moves(Job, "relayrun", act[Job].todo) /\ act[Job].todo = {}
  <2>1. UNCHANGED <<device, feed, disturbed>> /\ act[Job].pc = "relayrm"
    BY <1>7 DEF RelayRemoved, Applies
  <2>2. /\ act'[Job].pc = "relayrun" /\ act'[Job].todo = {} /\ act'[Job].kind = act[Job].kind
        /\ act'[Job].met = act[Job].met
    BY <1>7 DEF Moves
  <2>3. ~RowRead' /\ ~Ran' /\ ~Fresh' /\ Creating
    BY <1>7, <2>1, <2>2 DEF RowRead, Ran, Fresh, Creating, InPhase
  <2>4. NetAccounts'
    BY <1>1, <2>1, <2>2, <2>3 DEF NetAccounts
  <2>5. EgressAccounts' /\ CameraAccounts' /\ LocationAccounts' /\ WantAccounts'
    BY <1>1, <2>1, <2>2, <2>3 DEF EgressAccounts, CameraAccounts, LocationAccounts, WantAccounts,
       Alone, InPhase
  <2> QED  BY <2>4, <2>5 DEF JobAccounts
<1>8. CASE RelayRun(Job) /\ act[Job].todo = {} /\ Moves(Job, "tun", {})
  <2>1. UNCHANGED <<device, feed, disturbed>> /\ act[Job].pc = "relayrun" /\ relay' = Unset
    BY <1>8 DEF RelayRun
  <2>2. /\ act'[Job].pc = "tun" /\ act'[Job].todo = {} /\ act'[Job].kind = act[Job].kind
        /\ act'[Job].met = act[Job].met
    BY <1>8 DEF Moves
  <2>3. ~RowRead' /\ ~Ran' /\ ~Fresh' /\ Creating
    BY <1>8, <2>1, <2>2 DEF RowRead, Ran, Fresh, Creating, InPhase
  <2>4. NetAccounts'
    BY <1>1, <2>1, <2>2, <2>3 DEF NetAccounts
  <2>5. EgressAccounts' /\ CameraAccounts' /\ LocationAccounts' /\ WantAccounts'
    BY <1>1, <2>1, <2>2, <2>3 DEF EgressAccounts, CameraAccounts, LocationAccounts, WantAccounts,
       Alone
  <2> QED  BY <2>4, <2>5 DEF JobAccounts
<1>9. CASE /\ RelayRun(Job) /\ "egress" \in act[Job].todo
           /\ Moves(Job, "apply", act[Job].todo \ {"egress"})
  <2>1. /\ UNCHANGED <<device, feed, disturbed>>
        /\ relay' = act[Job].want["egress"] /\ act[Job].pc = "relayrun"
    BY <1>9 DEF RelayRun
  <2>2. EgressAccounts'
    BY <1>3, <1>5, <1>9, <2>1 DEF EgressAccounts
  <2>3. CameraAccounts' /\ LocationAccounts'
    BY <1>1, <1>3, <1>5, <1>9, <2>1 DEF CameraAccounts, LocationAccounts, HalReady
  <2> QED  BY <1>4, <1>9, <2>1, <2>2, <2>3 DEF JobAccounts
<1>10. CASE /\ FeedRemoved(Job) /\ act[Job].want["camera"] # Unset /\ "camera" \in act[Job].todo
            /\ Moves(Job, "feedrun", act[Job].todo)
  <2>1. UNCHANGED <<device, relay, disturbed>> /\ act[Job].pc = "apply"
    BY <1>10 DEF FeedRemoved, Applies
  <2>2. EgressAccounts' /\ LocationAccounts'
    BY <1>1, <1>3, <1>5, <1>10, <2>1 DEF EgressAccounts, LocationAccounts
  <2>3. CameraAccounts'
    BY <1>3, <1>5, <1>10 DEF CameraAccounts
  <2> QED  BY <1>4, <1>10, <2>1, <2>2, <2>3 DEF JobAccounts
<1>11. CASE FeedRun(Job) /\ "camera" \in act[Job].todo /\ Moves(Job, "rescan", act[Job].todo)
  <2>1. /\ UNCHANGED <<device, relay, disturbed>>
        /\ feed' = act[Job].want["camera"] /\ act[Job].pc = "feedrun"
    BY <1>11 DEF FeedRun
  <2>2. EgressAccounts' /\ LocationAccounts'
    BY <1>1, <1>3, <1>5, <1>11, <2>1 DEF EgressAccounts, LocationAccounts
  <2>3. act[Job].want["camera"] # Unset
    BY <1>1, <1>11 DEF JobShape
  <2>4. CameraAccounts'
    BY <1>3, <1>5, <1>11, <2>1, <2>3 DEF CameraAccounts
  <2> QED  BY <1>4, <1>11, <2>1, <2>2, <2>4 DEF JobAccounts
<1>12. CASE /\ RescanCamera(Job) /\ "camera" \in act[Job].todo
            /\ Moves(Job, "apply", act[Job].todo \ {"camera"})
  <2>1. /\ UNCHANGED <<feed, relay, disturbed>> /\ act[Job].pc = "rescan"
        /\ device'.hal = (feed # Unset) /\ device'.net = device.net /\ device'.run = device.run
        /\ device'.location = device.location
    BY <1>12 DEF RescanCamera, TypeOK, Containers
  <2>2. EgressAccounts' /\ LocationAccounts'
    BY <1>1, <1>3, <1>5, <1>12, <2>1 DEF EgressAccounts, LocationAccounts
  <2>3. Alone("camera") => feed = act[Job].want["camera"]
    BY <1>1, <1>3, <1>12, <2>1 DEF CameraAccounts
  <2>4. act[Job].want["camera"] # Unset
    BY <1>1, <1>12 DEF JobShape
  <2>5. CameraAccounts'
    BY <1>3, <1>5, <1>12, <2>1, <2>3, <2>4 DEF CameraAccounts, HalReady
  <2> QED  BY <1>4, <1>12, <2>1, <2>2, <2>5 DEF JobAccounts
<1>13. CASE /\ SetLocation(Job) /\ "location" \in act[Job].todo
            /\ Moves(Job, "apply", act[Job].todo \ {"location"})
  <2>1. /\ UNCHANGED <<feed, relay, disturbed>> /\ act[Job].pc = "apply"
        /\ device'.location = act[Job].want["location"] /\ device'.net = device.net
        /\ device'.run = device.run /\ device'.hal = device.hal
    BY <1>13 DEF SetLocation, Applies, TypeOK, Containers
  <2>2. EgressAccounts' /\ LocationAccounts'
    BY <1>1, <1>3, <1>5, <1>13, <2>1 DEF EgressAccounts, LocationAccounts
  <2>3. CameraAccounts'
    BY <1>1, <1>3, <1>5, <1>13, <2>1 DEF CameraAccounts, HalReady
  <2> QED  BY <1>4, <1>13, <2>1, <2>2, <2>3 DEF JobAccounts
<1>14. CASE GiveUp(Job) /\ act[Job].todo # {} /\ UNCHANGED <<device, relay, feed>>
  <2>1. /\ Busy(Job)' /\ act'[Job].pc = "apply" /\ act'[Job].todo = {}
        /\ Settings \subseteq act'[Job].met /\ UNCHANGED disturbed
        /\ ("network" \in act'[Job].met => "network" \in act[Job].met)
    BY <1>1, <1>14, JobIsThere, GiveUpMoves, TasksAreBusy DEF Busy, Settings
  <2>2. Ran
    BY <1>1, <1>14 DEF Ran, RowRead
  <2>3. ~Alone("egress")' /\ ~Alone("camera")' /\ ~Alone("location")'
        /\ \A k \in Settings : ~Alone(k)'
    BY <2>1 DEF Alone, Settings
  <2>4. NetAccounts'
    BY <1>1, <1>14, <2>1, <2>2 DEF NetAccounts, NetSound, Quiet
  <2> QED
    BY <2>3, <2>4
       DEF JobAccounts, EgressAccounts, CameraAccounts, LocationAccounts, WantAccounts
<1> QED  BY <1>1, <1>6, <1>7, <1>8, <1>9, <1>10, <1>11, <1>12, <1>13, <1>14, JobIsThere, SettingMoves

\* A rebuild that begins has done nothing yet.
LEMMA JobAfterStart ==
    ASSUME TypeOK, NetAccounts, NEW kind \in Reasons \cup {"boot", "create"},
           NEW pc \in {"remove", "create"}, Starting(Job, kind, pc), UNCHANGED disturbed
    PROVE  NetAccounts' /\ JobAccounts'
<1>1. /\ act'[Job].pc = pc /\ act'[Job].kind = kind /\ act'[Job].todo = {}
      /\ UNCHANGED <<device, tun, relay, feed, cfg>> /\ (pc = "create" => kind = "create")
  BY JobIsThere, RebuildBegins DEF Starting
<1>2. ~RowRead' /\ ~Ran' /\ ~Fresh' /\ ~InPhase({"tun", "device", "boot", "routes", "read"})'
      /\ (Creating' => kind = "create")
  BY <1>1 DEF RowRead, Ran, Fresh, Creating, InPhase
<1>3. NetAccounts'
  BY <1>1, <1>2 DEF NetAccounts
<1> QED  BY <1>1, <1>2, <1>3
            DEF JobAccounts, EgressAccounts, CameraAccounts, LocationAccounts, WantAccounts

\* Where rebuilds overlap, Job has met everything and accounts for nothing.
LEMMA JobCrowded ==
    ASSUME Everything \subseteq disturbed', Busy(Job)' => Everything \subseteq act'[Job].met
    PROVE  NetAccounts' /\ JobAccounts'
<1>1. ~Quiet' /\ "network" \in disturbed'
  BY DEF Quiet, Everything
<1>2. Busy(Job)' => \A k \in Settings : ~Alone(k)'
  BY DEF Alone, Everything
<1>3. {"egress", "camera", "location"} \subseteq Settings
  BY DEF Settings
<1> QED  BY <1>1, <1>2, <1>3 DEF NetAccounts, JobAccounts, EgressAccounts, CameraAccounts,
            LocationAccounts, WantAccounts

LEMMA JobStep ==
    ASSUME TypeOK, Beside, NetAccounts, JobAccounts, [Next]_vars
    PROVE  NetAccounts' /\ JobAccounts'
<1> USE DEF sidecars
<1>1. ActOK /\ Shapes /\ Overlaps /\ Crowds
  BY DEF TypeOK, ActOK, Beside
<1>2. CASE ~(Solo /\ Solo')
  BY <1>1, <1>2, CrowdStep, JobCrowded
<1>3. CASE Elsewhere
  <2>1. Kept(Job)
    BY <1>1, <1>3, JobIsThere DEF Elsewhere, Kept, ActOK, Busy
  <2>2. /\ device'.net \in {device.net, None}
        /\ HalReady => HalReady'
        /\ \/ device'.location = device.location /\ (device'.run = "up" => device.run = "up")
           \/ device'.location = Unset /\ device'.run # "up"
    BY <1>3 DEF Elsewhere, NoDevice, HalReady, None
  <2> QED  BY <1>3, <2>1, <2>2, NetAccountsFrame, JobAccountsFrame DEF Elsewhere
<1>4. CASE Restart
  <2>1. /\ ~Busy(Job)' /\ act'[Job].pc = "idle" /\ UNCHANGED <<device, tun>>
        /\ disturbed \subseteq disturbed'
    BY <1>1, <1>4, JobIsThere DEF Restart, Busy, Idle
  <2>2. ~Ran' /\ ~RowRead'
    BY <2>1 DEF Ran, RowRead, InPhase
  <2> QED  BY <2>1, <2>2 DEF NetAccounts, JobAccounts
<1> QED  BY <1>1, <1>2, <1>3, <1>4, CalmSplit, JobAfterStart, JobAfterRebuild, JobAfterReplay,
            JobAfterClientSetting, JobAfterClientRequest

-----------------------------------------------------------------------------
(* The feed, and a device in service.                                      *)

\* A device that is rebuilt is not served: not so for a new identity, which
\* leaves a device leased.
NotServed == Quiet => row.state \notin Serving

ForceInv ==
    /\ Beside /\ RequestsAccount /\ NetAccounts /\ JobAccounts
    /\ FeedStored /\ NotServed /\ Served

LEMMA ActiveKept ==
    ASSUME \A c \in Clients : Kept(c), NEW k
    PROVE  Active(k)' = Active(k)
BY KeptStays DEF Active, Kept, Busy

LEMMA ActiveBeside ==
    ASSUME NEW p \in Clients, \A c \in Clients \ {p} : Kept(c), NEW k,
           Busy(p) => act[p].kind # k, Busy(p)' => act'[p].kind # k
    PROVE  Active(k)' = Active(k)
<1>1. \A c \in Clients : (Busy(c)' /\ act'[c].kind = k) <=> (Busy(c) /\ act[c].kind = k)
  BY KeptStays DEF Kept, Busy
<1> QED  BY <1>1 DEF Active

LEMMA ActiveWith ==
    ASSUME NEW p \in Clients, Busy(p)
    PROVE  Active(act[p].kind) # {}
BY DEF Active

LEMMA ActiveAfter ==
    ASSUME NEW p \in Clients, Busy(p)', NEW k, act'[p].kind = k
    PROVE  Active(k)' # {}
BY DEF Active

\* What a device in service depends on, setting by setting.
LEMMA InForceFrame ==
    ASSUME NEW k \in Settings, InForce(k), device'.run = device.run,
           k = "egress" => UNCHANGED <<tun, relay>> /\ device'.net = device.net,
           k = "camera" => feed' = feed /\ device'.hal = device.hal,
           k = "location" => device'.location = device.location,
           row'.set[k] = row.set[k]
    PROVE  InForce(k)'
BY DEF InForce, Settings

LEMMA ServiceAfterSetting ==
    ASSUME TypeOK, Shapes, Overlaps, FeedStored, Served, NEW p \in Clients, SettingStep(p)
    PROVE  FeedStored' /\ Served'
<1>0. PICK kind : kind = act[p].kind
  OBVIOUS
<1>1. /\ ActOK /\ Busy(p) /\ p \in Processes /\ p # Job /\ act[p] \in Tasks
      /\ UNCHANGED <<row, tun, cfg>> /\ act'[Job] = act[Job] /\ kind \in Settings
      /\ \A c \in Clients \ {p} : Kept(c)
  <2>1. /\ ActOK /\ Busy(p) /\ p \in Processes /\ p # Job /\ act[p] \in Tasks
        /\ UNCHANGED <<row, tun, cfg>>
    BY SettingAt, WhoIsWho, JobIsThere
  <2>2. Others(p) /\ \A c \in Processes \ {p} : Kept(c)
    BY <2>1, SettingMoves, OthersKept
  <2> QED  BY <1>0, <2>1, <2>2, WhoIsWho, JobIsThere DEF ActOK, Others
<1>2. /\ kind # "egress" => relay' = relay
      /\ kind # "camera" => feed' = feed /\ device'.hal = device.hal
      /\ kind # "location" => device'.location = device.location
      /\ device'.run = device.run /\ device'.net = device.net
      /\ disturbed \subseteq disturbed' /\ disturbed' \subseteq disturbed \cup {kind}
      /\ kind \in disturbed' \/ (Busy(p)' /\ act'[p].kind = kind)
  BY <1>0, SettingDoes
<1>3. Busy(p)' => act'[p].kind = kind
  BY <1>0, SettingDoes DEF Busy
<1>4. \A k \in Settings \ {kind} : Active(k)' = Active(k)
  BY <1>0, <1>1, <1>3, ActiveBeside
<1>5. kind \in disturbed' \/ Active(kind)' # {}
  BY <1>2, ActiveAfter
<1>6. FeedStored'
  <2>1. CASE kind = "camera"
    BY <1>5, <2>1 DEF FeedStored
  <2>2. CASE kind # "camera"
    <3>1. /\ Active("camera")' = Active("camera")
          /\ "camera" \in disturbed' <=> "camera" \in disturbed
      BY <1>2, <1>4, <2>2 DEF Settings
    <3> QED  BY <1>1, <1>2, <2>2, <3>1 DEF FeedStored, Busy, Done
  <2> QED  BY <2>1, <2>2
<1>7. Served'
  <2> SUFFICES ASSUME row'.state \in Serving
               PROVE  /\ "network" \notin disturbed' => device'.net # "lost"
                      /\ device'.run = "up" =>
                            /\ device'.net = "tun" /\ "egress" \notin disturbed' => tun' = "routed"
                            /\ \A k \in Settings \ disturbed' : Active(k)' = {} => InForce(k)'
    BY DEF Served
  <2>1. "network" \notin disturbed' => device'.net # "lost"
    BY <1>1, <1>2 DEF Served
  <2>2. ASSUME device'.run = "up", NEW k \in Settings \ disturbed', Active(k)' = {}
        PROVE  InForce(k)'
    <3>1. k # kind
      BY <1>5, <2>2
    <3>2. k \notin disturbed /\ Active(k) = {}
      BY <1>2, <1>4, <2>2, <3>1
    <3>3. InForce(k)
      BY <1>1, <1>2, <2>2, <3>2 DEF Served
    <3> QED  BY <1>1, <1>2, <3>1, <3>3, InForceFrame
  <2> QED  BY <1>1, <1>2, <2>1, <2>2 DEF Served
<1> QED  BY <1>6, <1>7

\* A request that ends alone has put in force what it stores.
LEMMA ServiceAfterRequest ==
    ASSUME TypeOK, Shapes, Overlaps, RequestsAccount, FeedStored, NotServed, Served, Solo,
           NEW p \in Clients, RequestStep(p)
    PROVE  FeedStored' /\ Served'
<1>1. /\ ActOK /\ p \in Processes /\ p # Job
      /\ UNCHANGED <<device, tun, relay, feed, cfg>> /\ row'.state = row.state
      /\ Kept(Job) /\ \A c \in Clients \ {p} : Kept(c)
  BY RequestMoves, WhoIsWho, JobIsThere
<1>2. /\ Busy(Job)' <=> Busy(Job)
      /\ Done(Job)' <=> Done(Job)
  BY <1>1, JobStays
\* For the settings this request is not about, nothing changes.
<1>3. ASSUME NEW kind \in Settings, Busy(p) => act[p].kind = kind, Busy(p)' => act'[p].kind = kind,
             \A k \in Settings \ {kind} : row'.set[k] = row.set[k],
             \A k \in Settings \ {kind} : k \in disturbed' <=> k \in disturbed,
             Busy(Job) => \A k \in Settings \ {kind} : k \in act'[Job].met => k \in act[Job].met,
             kind \notin disturbed' /\ Active(kind)' = {} =>
                 /\ kind = "camera" => ~Busy(Job) /\ feed = row'.set["camera"]
                 /\ row.state \in Serving /\ device.run = "up" => InForce(kind)',
             row.state \in Serving /\ device.run = "up" /\ device.net = "tun"
                 /\ "egress" \notin disturbed' => tun = "routed"
      PROVE  FeedStored' /\ Served'
  <2>1. \A k \in Settings \ {kind} : Active(k)' = Active(k)
    BY <1>1, <1>3, ActiveBeside
  <2>2. FeedStored'
    <3>1. CASE kind = "camera"
      BY <1>1, <1>2, <1>3, <3>1 DEF FeedStored
    <3>2. CASE kind # "camera"
      <4>1. /\ Active("camera")' = Active("camera")
            /\ "camera" \in disturbed' <=> "camera" \in disturbed
            /\ row'.set["camera"] = row.set["camera"]
            /\ Busy(Job) => ("camera" \in act'[Job].met => "camera" \in act[Job].met)
        BY <1>3, <2>1, <3>2 DEF Settings
      <4> QED  BY <1>1, <1>2, <4>1 DEF FeedStored
    <3> QED  BY <3>1, <3>2
  <2>3. Served'
    <3> SUFFICES ASSUME row'.state \in Serving
                 PROVE  /\ "network" \notin disturbed' => device'.net # "lost"
                        /\ device'.run = "up" =>
                              /\ device'.net = "tun" /\ "egress" \notin disturbed' => tun' = "routed"
                              /\ \A k \in Settings \ disturbed' : Active(k)' = {} => InForce(k)'
      BY DEF Served
    <3>1. ASSUME device'.run = "up", NEW k \in Settings \ disturbed', Active(k)' = {}
          PROVE  InForce(k)'
      <4>1. CASE k = kind
        BY <1>1, <1>3, <3>1, <4>1
      <4>2. CASE k # kind
        <5>1. InForce(k)
          BY <1>1, <1>3, <2>1, <3>1, <4>2 DEF Served
        <5> QED  BY <1>1, <1>3, <4>2, <5>1, InForceFrame
      <4> QED  BY <4>1, <4>2
    <3>2. "network" \notin disturbed' => "network" \notin disturbed
      BY NetworkIsNoRequest
    <3> QED  BY <1>1, <1>3, <3>1, <3>2 DEF Served
  <2> QED  BY <2>2, <2>3
\* A rebuild of a device in service has not begun.
<1>4. row.state \in Serving => ~Busy(Job)
  BY JobIsThere DEF NotServed, Solo, Quiet
<1>5. row.state \in Serving /\ device.run = "up" /\ device.net = "tun"
          /\ "egress" \notin disturbed => tun = "routed"
  BY DEF Served
<1>6. CASE Arrived(p)
  <2>1. PICK kind : kind = act'[p].kind
    OBVIOUS
  <2>2. Busy(p)' /\ ~Busy(p) /\ UNCHANGED <<row, disturbed>> /\ kind \in Settings
    BY <1>6, <2>1, TasksAreBusy DEF Arrived, Busy
  <2>3. Active(kind)' # {}
    BY <2>1, <2>2, ActiveAfter
  <2>4. Busy(Job) => \A k \in Settings \ {kind} : k \in act'[Job].met => k \in act[Job].met
    BY <1>1, <1>6, <2>1, WhoIsWho, JobIsThere DEF Arrived
  <2> HIDE DEF Settings
  <2> QED  BY <1>3, <1>5, <2>1, <2>2, <2>3, <2>4
<1>7. CASE Stored(p)
  <2>1. /\ Busy(p) /\ act[p].kind = "location" /\ row'.set["location"] = act[p].want["location"]
        /\ \A k \in Settings : k # "location" => row'.set[k] = row.set[k]
        /\ "location" \in Settings
    BY <1>7, StoreStores DEF Settings
  <2>2. /\ \A k \in Settings \ {"location"} : k \in disturbed' <=> k \in disturbed
        /\ "egress" \in disturbed' <=> "egress" \in disturbed
    BY <1>7 DEF Stored
  <2>3. Busy(p)' => act'[p].kind = "location"
    BY <1>7, <2>1 DEF Stored, Busy, Moves
  <2>4. ASSUME Busy(Job), NEW k \in Settings \ {"location"}, k \in act'[Job].met
        PROVE  k \in act[Job].met
    BY <1>1, <1>7, <2>4, WhoIsWho, JobIsThere DEF Stored
  <2>5. "location" \notin disturbed' /\ Active("location")' = {} /\ row.state \in Serving => FALSE
    <3>1. act[p].todo # {} => Active("location")' # {}
      BY <1>7, <2>3, TasksAreBusy, ActiveAfter DEF Stored, Moves, Busy
    <3>2. act[p].todo = {} /\ row.state \in Serving => Late(p)
      BY <1>4, <1>7 DEF Late, Stored, OnlyStores
    <3> QED  BY <1>7, <3>1, <3>2 DEF Stored
  <2> QED  BY <1>3, <1>5, <2>1, <2>2, <2>3, <2>4, <2>5
<1>8. CASE RequestEnds(p) /\ act'[p] = Idle /\ Others(p)
  <2>1. PICK kind : kind = act[p].kind
    OBVIOUS
  <2>2. /\ Done(p) /\ Busy(p) /\ kind \in Settings /\ ~OnlyStores(p) /\ ~Busy(p)'
        /\ \A k \in Settings : row'.set[k] = IF k = kind /\ k # "location"
                                             THEN act[p].want[k] ELSE row.set[k]
    BY <1>8, <2>1, EndsStores DEF Busy
  <2>3. disturbed' = IF act[p].met # {} THEN disturbed \cup {kind}
                     ELSE IF kind = "egress" /\ device.net = "tun" /\ tun # "routed"
                     THEN disturbed
                     ELSE disturbed \ {kind}
    BY <1>8, <2>1 DEF RequestEnds
  <2>4. act'[Job] = act[Job]
    BY <1>1, <1>8, WhoIsWho, JobIsThere DEF Others
  <2>6. row.state \in Serving /\ device.run = "up" /\ device.net = "tun"
            /\ "egress" \notin disturbed' => tun = "routed"
    BY <1>5, <2>3
  <2>7. ASSUME kind \notin disturbed'
        PROVE  /\ kind = "camera" => ~Busy(Job) /\ feed = row'.set["camera"]
               /\ row.state \in Serving /\ device.run = "up" => InForce(kind)'
    <3>1. act[p].met = {}
      BY <2>3, <2>7
    <3>2. RequestAccounts(p) /\ ~Busy(Job)
      BY <1>1, <2>2, <3>1, AloneRequest, WhoIsWho, JobIsThere DEF RequestsAccount
    <3>3. CASE kind = "egress"
      <4>1. relay' = row'.set["egress"]
        BY <1>1, <2>1, <2>2, <3>2, <3>3 DEF RequestAccounts
      <4> QED  BY <1>1, <2>6, <2>7, <3>3, <4>1 DEF InForce
    <3>4. CASE kind = "camera"
      <4>1. feed = row'.set["camera"] /\ HalReady
        BY <2>1, <2>2, <3>2, <3>4 DEF RequestAccounts
      <4> QED  BY <1>1, <3>2, <3>4, <4>1 DEF InForce, HalReady, None
    <3>5. CASE kind = "location"
      <4>1. row.state \in Serving /\ device.run = "up" => device.location = row'.set["location"]
        BY <2>1, <2>2, <3>2, <3>5 DEF RequestAccounts, Done
      <4> QED  BY <1>1, <3>5, <4>1 DEF InForce
    <3> QED  BY <2>2, <3>3, <3>4, <3>5 DEF Settings
  <2>8. \A k \in Settings \ {kind} : k \in disturbed' <=> k \in disturbed
    BY <2>3
  <2> QED  BY <1>3, <2>1, <2>2, <2>4, <2>6, <2>7, <2>8
<1> QED  BY <1>6, <1>7, <1>8, RequestMoves

\* A rebuild is what brings a device into service.
LEMMA ServiceAfterReady ==
    ASSUME TypeOK, Shapes, NetAccounts, JobAccounts, FeedStored, DeviceReady(Job), Solo
    PROVE  FeedStored' /\ Served'
<1> USE DEF sidecars
<1>1. /\ ActOK /\ Busy(Job) /\ act[Job] \in Tasks /\ Others(Job)
      /\ EgressAccounts /\ CameraAccounts /\ LocationAccounts /\ WantAccounts /\ Quiet
  BY JobIsThere, RebuildMoves DEF RebuildStep, JobAccounts, Solo, Quiet
<1>2. /\ act[Job].pc = "apply" /\ act[Job].todo = {} /\ act'[Job] = Idle
      /\ UNCHANGED <<device, tun, relay, feed>> /\ row'.set = row.set
  BY <1>1, WhoIsWho, JobIsThere DEF DeviceReady, ActOK, TypeOK
<1>3. disturbed' = act[Job].met \cup
         (IF act[Job].kind = "create" /\ act[Job].want["camera"] = Unset
          THEN disturbed \cap {"camera"} ELSE {})
  BY DEF DeviceReady
<1>4. RowRead /\ Ran /\ ~Busy(Job)'
  BY <1>1, <1>2 DEF RowRead, Ran, Busy
<1>5. \A k : Active(k)' = Active(k)
  BY <1>1, OthersKept, ActiveKept, WhoIsWho, JobIsThere
\* The feed of a device that was created is one that is stored, or none.
<1>6. "camera" \notin disturbed' /\ Active("camera") = {} => feed = row.set["camera"]
  <2> SUFFICES ASSUME "camera" \notin disturbed', Active("camera") = {}
               PROVE  feed = row.set["camera"]
    OBVIOUS
  <2>1. Alone("camera") /\ act[Job].want["camera"] = row.set["camera"]
    BY <1>1, <1>3, <1>4 DEF WantAccounts, Alone, Settings
  <2>2. CASE act[Job].kind = "create" /\ act[Job].want["camera"] = Unset
    BY <1>3, <2>1, <2>2 DEF FeedStored
  <2>3. CASE ~(act[Job].kind = "create" /\ act[Job].want["camera"] = Unset)
    BY <1>1, <1>2, <1>4, <2>1, <2>3 DEF CameraAccounts
  <2> QED  BY <2>2, <2>3
<1>7. FeedStored'
  BY <1>2, <1>4, <1>5, <1>6 DEF FeedStored
<1>8. device.run = "up" /\ device.net = "tun" /\ "egress" \notin disturbed' => tun = "routed"
  <2>1. "egress" \notin disturbed' => ~(Settings \subseteq act[Job].met)
    BY <1>3 DEF Settings
  <2> QED  BY <1>1, <1>4, <2>1 DEF NetAccounts
<1>9. ASSUME device.run = "up", NEW k \in Settings \ disturbed', Active(k) = {}
      PROVE  InForce(k)'
  <2>1. Alone(k) /\ act[Job].want[k] = row.set[k]
    BY <1>1, <1>3, <1>4, <1>9 DEF WantAccounts, Alone
  <2>2. CASE k = "egress"
    BY <1>1, <1>2, <1>4, <1>8, <1>9, <2>1, <2>2 DEF EgressAccounts, InForce
  <2>3. CASE k = "camera"
    <3>1. feed # Unset => device.hal
      BY <1>1, <1>2, <1>4, <1>6, <1>9, <2>1, <2>3 DEF CameraAccounts, HalReady, None
    <3> QED  BY <1>2, <1>6, <1>9, <2>3, <3>1 DEF InForce
  <2>4. CASE k = "location"
    BY <1>1, <1>2, <1>4, <1>9, <2>1, <2>4 DEF LocationAccounts, InForce
  <2> QED  BY <1>9, <2>2, <2>3, <2>4 DEF Settings
<1>10. Served'
  BY <1>1, <1>2, <1>4, <1>5, <1>8, <1>9 DEF Served, NetAccounts, NetSound
<1> QED  BY <1>7, <1>10

\* Before that, a rebuild serves nobody, and runs no feed but the stored one.
LEMMA ServiceAfterJob ==
    ASSUME TypeOK, Shapes, JobAccounts, FeedStored, NotServed, Solo,
           SettingStep(Job) \/ (RebuildStep(Job) /\ ~DeviceReady(Job))
    PROVE  FeedStored' /\ NotServed' /\ Served'
<1> USE DEF sidecars
<1>1. /\ ActOK /\ Busy(Job) /\ act[Job] \in Tasks /\ Others(Job) /\ JobShape(act[Job])
      /\ row.state \notin Serving /\ CameraAccounts /\ WantAccounts
  BY SettingAt, SettingMoves, RebuildMoves, JobIsThere
     DEF Shapes, JobAccounts, NotServed, Solo, Quiet
<1>2. row'.set = row.set /\ row'.state \notin Serving /\ disturbed' = disturbed
  <2>1. CASE SettingStep(Job)
    <3>1. row' = row
      BY <2>1, SettingAt, WhoIsWho, JobIsThere
    <3>2. disturbed' = disturbed
      BY <2>1, JobIsThere DEF SettingStep, RelayRemoved, RelayRun, FeedRemoved, FeedRun, RescanCamera,
         SetLocation, SettingFails, GiveUp
    <3> QED  BY <1>1, <3>1, <3>2
  <2>2. CASE RebuildStep(Job) /\ ~DeviceReady(Job)
    <3>1. CASE CreateFails(Job)
      BY <3>1 DEF CreateFails, TypeOK, Serving
    <3>2. CASE ~CreateFails(Job)
      BY <1>1, <2>2, <3>2, JobIsThere DEF RebuildStep, RemoveDevice, RemoveSidecars, CreateBegins, StartTun,
         RunDevice, WaitBoot, FinishEgress, ReadRow, GiveUp
    <3> QED  BY <3>1, <3>2
  <2> QED  BY <2>1, <2>2
<1>3. \A k : Active(k)' = Active(k)
  BY <1>1, OthersKept, ActiveKept, WhoIsWho, JobIsThere
<1>4. \/ act'[Job] = Idle \/ Done(Job)'
      \/ Busy(Job)' /\ act'[Job].met = act[Job].met /\ ~Done(Job)
  <2>1. CASE SettingStep(Job)
    <3>1. CASE SettingFails(Job) /\ GiveUp(Job)
      BY <2>1, <3>1, SettingAt, GiveUpMoves, WhoIsWho, JobIsThere DEF Done
    <3>2. CASE \E pc, todo : Moves(Job, pc, todo)
      <4>1. ~Done(Job)
        <5>1. \A k \in Settings : Applies(Job, k) => act[Job].todo # {}
          BY DEF Applies
        <5> QED  BY <2>1, <5>1 DEF Done, SettingStep, RelayRemoved, RelayRun, FeedRemoved, FeedRun,
                 RescanCamera, SetLocation, SettingFails, Settings
      <4> QED  BY <3>2, <4>1, TasksAreBusy DEF Moves, Busy
    <3> QED  BY <2>1, <3>1, <3>2, SettingMoves, WhoIsWho, JobIsThere
  <2>2. CASE RebuildStep(Job) /\ ~DeviceReady(Job)
    <3>1. CASE FinishEgress(Job) /\ GiveUp(Job)
      BY <1>1, <3>1, GiveUpMoves, WhoIsWho, JobIsThere DEF FinishEgress, TaskPcs, Done
    <3>2. act[Job].pc = "apply" => FALSE
      BY <2>2 DEF RebuildStep, RemoveDevice, RemoveSidecars, CreateBegins, StartTun, RunDevice,
         WaitBoot, CreateFails, Collides, FinishEgress, ReadRow
    <3> QED  BY <2>2, <3>1, <3>2, JobIsThere, RebuildMoves, TasksAreBusy DEF Moves, Busy, Done
  <2> QED  BY <1>1, <2>1, <2>2
<1>5. \/ feed' \in {feed, Unset}
      \/ FeedRun(Job) /\ feed' = act[Job].want["camera"] /\ RowRead /\ ~Done(Job)
  <2>1. CASE FeedRun(Job)
    BY <1>1, <2>1 DEF FeedRun, JobShape, RowRead, Done
  <2>2. CASE ~FeedRun(Job)
    BY <2>2 DEF SettingStep, RelayRemoved, RelayRun, FeedRemoved, RescanCamera, SetLocation,
       SettingFails, RebuildStep, RemoveDevice, RemoveSidecars, CreateBegins, StartTun, RunDevice,
       WaitBoot, CreateFails, FinishEgress, ReadRow
  <2> QED  BY <2>1, <2>2
<1>6. "camera" \notin disturbed' /\ Active("camera")' = {} => feed' \in {Unset, row'.set["camera"]}
  <2> SUFFICES ASSUME "camera" \notin disturbed, Active("camera") = {}, feed' \notin {feed, Unset}
               PROVE  feed' = row.set["camera"]
    BY <1>2, <1>3 DEF FeedStored
  <2>1. Alone("camera")
    BY <1>1, <1>5 DEF FeedStored, Alone
  <2> QED  BY <1>1, <1>5, <2>1 DEF WantAccounts, Settings
<1>7. FeedStored'
  BY <1>1, <1>2, <1>3, <1>4, <1>6 DEF FeedStored, Busy
<1> QED  BY <1>2, <1>7 DEF NotServed, Served

\* A rebuild that begins shares the camera with a request that is there.
LEMMA ServiceAfterStart ==
    ASSUME TypeOK, FeedStored, NEW kind \in Reasons \cup {"boot", "create"},
           NEW pc \in {"remove", "create"}, Starting(Job, kind, pc), ~Rebuilding,
           UNCHANGED disturbed, "identity" \notin Reasons
    PROVE  FeedStored' /\ NotServed' /\ Served'
<1>1. /\ RebuildOf(Job, kind, pc) /\ UNCHANGED feed
      /\ row'.set = row.set /\ row'.state \notin Serving
  BY DEF Starting
<1>2. ~Busy(Job) /\ \A q \in Processes \ {Job} : Kept(q)
  BY <1>1, JobIsThere, RebuildBegins
<1>3. \A k : Active(k)' = Active(k)
  BY <1>2, ActiveKept, WhoIsWho, JobIsThere
<1>4. "camera" \in act'[Job].met => Active("camera") # {}
  <2>1. act'[Job].met = Everything \cap UNION {Touched(r) : r \in {x \in Processes : Busy(x)}}
    BY <1>1, JobIsThere DEF RebuildOf, Begin
  <2> SUFFICES ASSUME NEW r \in Processes, Busy(r), "camera" \in Touched(r)
               PROVE  Active("camera") # {}
    BY <2>1
  <2>2. r \in Clients /\ act[r].kind = "camera"
    BY WhoIsWho DEF Touched, Rebuilding
  <2> QED  BY <2>2, ActiveWith
<1> QED  BY <1>1, <1>2, <1>3, <1>4 DEF FeedStored, NotServed, Served

LEMMA ServiceStep ==
    ASSUME TypeOK, ForceInv, [Next]_vars, "identity" \notin Reasons
    PROVE  FeedStored' /\ NotServed' /\ Served'
<1> USE DEF sidecars
<1>1. /\ Shapes /\ Overlaps /\ Crowds /\ Beside /\ RequestsAccount /\ NetAccounts /\ JobAccounts
      /\ FeedStored /\ NotServed /\ Served
  BY DEF ForceInv, Beside
<1>2. CASE ~(Solo /\ Solo')
  <2>1. Everything \subseteq disturbed' /\ (Busy(Job)' => Everything \subseteq act'[Job].met)
    BY <1>1, <1>2, CrowdStep
  <2>2. Settings \subseteq disturbed' /\ "network" \in disturbed' /\ ~Quiet'
        /\ "camera" \in disturbed' /\ "egress" \in disturbed'
    BY <2>1 DEF Quiet, Everything, Settings
  <2> QED  BY <2>2 DEF FeedStored, NotServed, Served
<1>3. CASE Elsewhere
  <2>1. NoDevice.run # "up" /\ NoDevice.net # "lost"
    BY DEF NoDevice, None
  <2>2. /\ \A k : Active(k)' = Active(k)
        /\ Quiet' <=> Quiet
    BY <1>3 DEF Elsewhere, Active, Quiet, Busy
  <2>3. FeedStored'
    BY <1>1, <1>3, <2>2 DEF Elsewhere, FeedStored, Busy, Done
  <2>4. device' = device => \A k \in Settings : InForce(k) => InForce(k)'
    BY <1>3, <2>1 DEF Elsewhere, InForce
  <2>5. Served'
    BY <1>1, <1>3, <2>1, <2>2, <2>4 DEF Elsewhere, Served
  <2>6. NotServed'
    BY <1>1, <1>3, <2>2 DEF Elsewhere, NotServed
  <2> QED  BY <2>3, <2>5, <2>6
<1>4. CASE Restart
  <2>1. /\ UNCHANGED <<row, device, tun, relay, feed>> /\ \A q \in Processes : act'[q] = Idle
        /\ disturbed' = disturbed \cup {k \in Settings : Active(k) # {}}
    BY <1>4 DEF Restart
  <2>2. FeedStored'
    BY <1>1, <2>1, JobIsThere DEF FeedStored, Busy, Settings
  <2>3. \A k \in Settings : InForce(k) => InForce(k)'
    BY <2>1 DEF InForce
  <2>4. NotServed'
    BY <2>1, JobIsThere DEF NotServed, Quiet, Busy
  <2> QED  BY <1>1, <2>1, <2>2, <2>3, <2>4 DEF Served
<1>5. ASSUME Solo, NEW c \in Clients, SettingStep(c) \/ RequestStep(c)
      PROVE  FeedStored' /\ NotServed' /\ Served'
  <2>1. row'.state = row.state /\ Kept(Job)
    <3>1. CASE SettingStep(c)
      BY <3>1, SettingAt, SettingMoves, OthersKept, WhoIsWho, JobIsThere, <1>1
    <3>2. CASE RequestStep(c)
      BY <3>2, RequestMoves, JobIsThere
    <3> QED  BY <1>5, <3>1, <3>2
  <2>2. NotServed'
    BY <1>1, <2>1, JobStays DEF NotServed
  <2> QED  BY <1>1, <1>5, <2>2, ServiceAfterSetting, ServiceAfterRequest
<1>6. ASSUME Solo, DeviceReady(Job)
      PROVE  FeedStored' /\ NotServed' /\ Served'
  <2>1. ~Quiet'
    BY <1>6, <1>1, JobIsThere, RebuildMoves DEF RebuildStep, Quiet, Busy, DeviceReady, ActOK
  <2> QED  BY <1>1, <1>6, <2>1, ServiceAfterReady DEF NotServed
<1> QED  BY <1>1, <1>2, <1>3, <1>4, <1>5, <1>6, CalmSplit, ServiceAfterStart, ServiceAfterJob

LEMMA ForceInit == Init => ForceInv
<1> SUFFICES ASSUME Init
             PROVE  ForceInv
  OBVIOUS
<1>1. \A p \in Processes : act[p] = Idle /\ act[p].pc = "idle" /\ ~Busy(p)
  BY DEF Init, Idle, Busy
<1>2. ~Ran /\ ~RowRead /\ ~Quiet /\ ~Busy(Job)
  BY <1>1, JobIsThere DEF Ran, RowRead, InPhase, Quiet
<1>3. /\ row.state \notin Serving /\ device.net = None /\ feed = Unset
  BY DEF Init, Serving, NoDevice
<1>4. None # "tun"
  BY DEF None
<1>5. RequestsAccount
  BY <1>1, WhoIsWho DEF RequestsAccount
<1> QED  BY <1>2, <1>3, <1>4, <1>5, BesideInit
            DEF ForceInv, Beside, NetAccounts, JobAccounts, FeedStored, NotServed, Served

LEMMA ForceStep ==
    ASSUME TypeOK, ForceInv, [Next]_vars, "identity" \notin Reasons
    PROVE  ForceInv'
<1>1. Beside /\ Shapes /\ Overlaps /\ RequestsAccount /\ NetAccounts /\ JobAccounts
  BY DEF ForceInv, Beside
<1>2. Beside' /\ RequestsAccount' /\ NetAccounts' /\ JobAccounts'
  BY <1>1, BesideStep, RequestsStep, JobStep
<1>3. FeedStored' /\ NotServed' /\ Served'
  BY ServiceStep
<1> QED  BY <1>2, <1>3 DEF ForceInv

\* Through rebuilds, failed requests, crashes of the daemon and devices that
\* exit, whatever commands fail: a device in service does what the database
\* says, for every setting whose last change was clean.  A rebuild for a new
\* identity, which leaves a device leased, is not covered.
THEOREM SettingsInForceHolds ==
    ASSUME "identity" \notin Reasons
    PROVE  Spec => []SettingsInForce
<1>1. TypeOK /\ ForceInv /\ [Next]_vars => ForceInv'
  BY ForceStep
<1>2. ForceInv => SettingsInForce
  BY DEF ForceInv, Served, SettingsInForce, InService
<1> QED  BY <1>1, <1>2, ForceInit, SettingsTypeCorrect, PTL DEF Spec

\* The same argument keeps the network of a device, even when docker rm fails.
THEOREM NetworkStaysThroughFaults ==
    ASSUME "identity" \notin Reasons
    PROVE  Spec => []NetworkStays
<1>1. TypeOK /\ ForceInv /\ [Next]_vars => ForceInv'
  BY ForceStep
<1>2. ForceInv => NetworkStays
  BY DEF ForceInv, Served, NetAccounts, NetworkStays, InService
<1> QED  BY <1>1, <1>2, ForceInit, SettingsTypeCorrect, PTL DEF Spec
=============================================================================
