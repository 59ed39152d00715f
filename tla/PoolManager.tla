----------------------------- MODULE PoolManager -----------------------------
(***************************************************************************)
(* The goroutines of droidpoold that rebuild devices, over the tables of   *)
(* LeaseTable and the containers of the node: the reset an API release     *)
(* starts, the reaper's reset, the health checker with its resets, the     *)
(* identity handler, and the start-up goroutine that reconciles the store  *)
(* with the node and fills the pool.  No lock orders them: each reads the  *)
(* row of a device, works on the node for tens of seconds, and writes      *)
(* state and health_fails back with UpsertDevice, whatever they became.    *)
(*                                                                         *)
(* Times are left to LeaseStore: here the reaper may take any lease.       *)
(***************************************************************************)
EXTENDS LeaseTable, FiniteSets

CONSTANTS
    Identities,   \* hardware identities a request may set
    Threshold,    \* HealthFailThreshold
    Actors,       \* which of "reaper", "health", "identity" run
    Faults,       \* which node operations may fail
    MaxCrashes    \* bound: crashes of the daemon

NodeFaults == {"remove", "wipe", "create", "boot", "probe", "hang", "exit", "list"}

ASSUME ManagerAssumption ==
    /\ Identities # {} /\ Threshold \in Nat \ {0} /\ MaxCrashes \in Nat
    /\ Actors \subseteq {"reaper", "health", "identity"}
    /\ Faults \subseteq NodeFaults

VARIABLES
    fails,     \* devices.health_fails
    ident,     \* devices.identity, NoIdentity when not set
    cont,      \* the container of each device on the node
    data,      \* the leases whose files are in the device's data directory
    job,       \* the rebuilds in progress, by the goroutine that runs them
    health,    \* the rows the current health round has still to probe
    boot,      \* the start-up goroutine
    crashes

rows == <<lease, state, fails, ident>>
node == <<cont, data>>
vars == <<rows, node, job, health, boot, crashes>>

-----------------------------------------------------------------------------
(* State.                                                                  *)

NoIdentity == "default"
AnyIdentity == Identities \cup {NoIdentity}

\* "none": not running; "dead": running, but adb does not answer.
Containers == [run : {"none", "booting", "up", "dead"}, ident : AnyIdentity]

\* Who can run a rebuild.  An API release starts one goroutine of its own;
\* bound: the health checker has at most one reset in flight per device.
Workers == ({"api"} \X LeaseIds) \cup ({"health"} \X Devices)
           \cup {<<"reaper", 0>>, <<"identity", 0>>, <<"startup", 0>>}
Reaper == <<"reaper", 0>>
IdentityHandler == <<"identity", 0>>
StartUp == <<"startup", 0>>

\* pc names the next call of rebuild, createOne or SetIdentity; ident, fails
\* and cur are fields of the Device value the goroutine holds.
NoJob == [pc |-> "idle"]
Jobs == {NoJob} \cup
        [pc : {"check", "mark", "remove", "wipe", "create", "boot", "finish", "write"},
         kind : {"reset", "create", "identity"},
         dev : Devices, ident : AnyIdentity, fails : 0 .. Threshold,
         cur : DeviceStates \cup {NoRow}]

Busy(w) == job[w] # NoJob
RebuildsOf(d) == {w \in Workers : Busy(w) /\ job[w].dev = d}

Rows == [status : {"active", "released"}, key : Keys, dev : Devices]

TypeOK ==
    /\ lease \in [LeaseIds -> Rows \cup {Unissued}]
    /\ state \in [Devices -> DeviceStates \cup {NoRow}]
    /\ fails \in [Devices -> 0 .. Threshold]
    /\ ident \in [Devices -> AnyIdentity]
    /\ cont \in [Devices -> Containers]
    /\ data \in [Devices -> SUBSET LeaseIds]
    /\ job \in [Workers -> Jobs]
    /\ DOMAIN health \subseteq Devices
    /\ \A d \in DOMAIN health : health[d] \in [state : {"ready", "leased"},
                                               fails : 0 .. Threshold]
    /\ boot.pc \in {"list", "reconcile", "ensure", "done"}
    /\ boot.run \subseteq Devices /\ boot.todo \subseteq Devices
    /\ DOMAIN boot.snap \subseteq Devices
    /\ \A d \in DOMAIN boot.snap : boot.snap[d] \in [state : DeviceStates,
                                                     fails : 0 .. Threshold]
    /\ crashes \in 0 .. MaxCrashes

Nothing == [d \in {} |-> NoRow]
Booting == [pc |-> "list", run |-> {}, snap |-> Nothing, todo |-> {}]

Init ==
    /\ lease = [l \in LeaseIds |-> Unissued]
    /\ state = [d \in Devices |-> NoRow]
    /\ fails = [d \in Devices |-> 0]
    /\ ident = [d \in Devices |-> NoIdentity]
    /\ cont = [d \in Devices |-> [run |-> "none", ident |-> NoIdentity]]
    /\ data = [d \in Devices |-> {}]
    /\ job = [w \in Workers |-> NoJob]
    /\ health = Nothing
    /\ boot = Booting
    /\ crashes = 0

-----------------------------------------------------------------------------
(* Helpers.                                                                *)

\* Store.UpsertDevice on an existing row: state and health_fails are
\* overwritten, the identity column is not.
Upsert(d, s, n) ==
    /\ state' = [state EXCEPT ![d] = s]
    /\ fails' = [fails EXCEPT ![d] = n]

\* One of the statements of a rebuild has returned.
Advance(w, pc) == job' = [job EXCEPT ![w].pc = pc]
End(w) == job' = [job EXCEPT ![w] = NoJob]

\* The container lost, or stopped.
Gone == [run |-> "none", ident |-> NoIdentity]

\* Manager.Reset has read the row of d and enters rebuild.
ResetOf(d) == [pc |-> "remove", kind |-> "reset", dev |-> d, ident |-> ident[d],
               fails |-> fails[d], cur |-> NoRow]
StartReset(w, d) == ~Busy(w) /\ job' = [job EXCEPT ![w] = ResetOf(d)]

Without(f, d) == [e \in DOMAIN f \ {d} |-> f[e]]
FirstOf(S, d) == d \in S /\ \A e \in S : d <= e

-----------------------------------------------------------------------------
(* rebuild and createOne, one node operation at a time.                    *)

\* Remove: the container goes; an error is only logged.
Remove(w) ==
    /\ job[w].pc = "remove"
    /\ \/ cont' = [cont EXCEPT ![job[w].dev] = Gone]
       \/ "remove" \in Faults /\ UNCHANGED cont
    /\ Advance(w, "wipe")
    /\ UNCHANGED <<rows, data, health, boot, crashes>>

\* Mutant: an error of WipeData is only logged, like one of Remove.
Wipe_ErrorIgnored(w) ==
    /\ job[w].pc = "wipe"
    /\ \/ data' = [data EXCEPT ![job[w].dev] = {}]
       \/ "wipe" \in Faults /\ UNCHANGED data
    /\ Advance(w, "create")
    /\ UNCHANGED <<rows, cont, health, boot, crashes>>

\* WipeData, the step that makes a reset a reset.
Wipe(w) ==
    /\ job[w].pc = "wipe"
    /\ data' = [data EXCEPT ![job[w].dev] = {}]
    /\ Advance(w, "create")
    /\ UNCHANGED <<rows, cont, health, boot, crashes>>

\* Create: remove any container of that name, run a new one.
Create(w) ==
    /\ job[w].pc = "create"
    /\ cont' = [cont EXCEPT ![job[w].dev] = [run |-> "booting", ident |-> job[w].ident]]
    /\ Advance(w, "boot")
    /\ UNCHANGED <<rows, data, health, boot, crashes>>

\* WaitBoot sees the container of the device booted, whoever started it.
WaitBoot(w) ==
    /\ job[w].pc = "boot"
    /\ cont[job[w].dev].run \in {"booting", "up"}
    /\ cont' = [cont EXCEPT ![job[w].dev].run = "up"]
    /\ Advance(w, "finish")
    /\ UNCHANGED <<rows, data, health, boot, crashes>>

\* Mutant: a failed rebuild is left for the next start-up to create.
Fail_Creating(w) ==
    /\ job[w].pc \in {"create", "boot"}
    /\ {"create", "boot"} \cap Faults # {}
    /\ Upsert(job[w].dev, "creating", job[w].fails)
    /\ End(w)
    /\ UNCHANGED <<lease, ident, node, health, boot, crashes>>

\* WipeData, Create or WaitBoot returns an error: the device is broken.
Fail(w) ==
    /\ LET d == job[w].dev IN
       /\ \/ /\ job[w].pc = "wipe" /\ "wipe" \in Faults
             /\ UNCHANGED cont
          \/ /\ job[w].pc = "create" /\ "create" \in Faults
             /\ cont' = [cont EXCEPT ![d] = Gone]
          \/ /\ job[w].pc = "boot"
             /\ "boot" \in Faults \/ cont[d].run \notin {"booting", "up"}
             /\ UNCHANGED cont
       /\ Upsert(d, "broken", job[w].fails)
    /\ End(w)
    /\ UNCHANGED <<lease, ident, data, health, boot, crashes>>

\* Reset and createOne: the device goes back to the pool.
Finish(w) ==
    /\ job[w].pc = "finish" /\ job[w].kind # "identity"
    /\ Upsert(job[w].dev, "ready", 0)
    /\ End(w)
    /\ UNCHANGED <<lease, ident, node, health, boot, crashes>>

Rebuild(w) == Remove(w) \/ Wipe(w) \/ Create(w) \/ WaitBoot(w) \/ Fail(w) \/ Finish(w)

-----------------------------------------------------------------------------
(* SetIdentity.                                                            *)

\* The new identity is stored; a device that is ready or leased is rebuilt,
\* one that is ready is first taken out of the pool.
SetIdentity(d, i) ==
    /\ ~Busy(IdentityHandler)
    /\ state[d] # NoRow
    /\ i # ident[d]
    /\ ident' = [ident EXCEPT ![d] = i]
    /\ IF state[d] \in {"ready", "leased"}
       THEN job' = [job EXCEPT ![IdentityHandler] =
                      [pc |-> (IF state[d] = "ready" THEN "check" ELSE "remove"),
                       kind |-> "identity", dev |-> d, ident |-> i,
                       fails |-> fails[d], cur |-> NoRow]]
       ELSE UNCHANGED job
    /\ UNCHANGED <<lease, state, fails, node, health, boot, crashes>>

\* SetDeviceState: read the state and check the transition ...
CheckState(w) ==
    /\ job[w].pc = "check"
    /\ IF <<state[job[w].dev], "resetting">> \in ValidTransitions
       THEN Advance(w, "mark")
       ELSE End(w)
    /\ UNCHANGED <<rows, node, health, boot, crashes>>

\* ... then write, in a statement of its own.
MarkResetting(w) ==
    /\ job[w].pc = "mark"
    /\ state' = [state EXCEPT ![job[w].dev] = "resetting"]
    /\ Advance(w, "remove")
    /\ UNCHANGED <<lease, fails, ident, node, health, boot, crashes>>

\* After the rebuild: read the row again ...
ReadAgain(w) ==
    /\ job[w].pc = "finish" /\ job[w].kind = "identity"
    /\ job' = [job EXCEPT ![w].pc = "write", ![w].cur = state[job[w].dev]]
    /\ UNCHANGED <<rows, node, health, boot, crashes>>

\* ... and write it back, ready if it was resetting.
WriteBack(w) ==
    /\ job[w].pc = "write"
    /\ LET s == job[w].cur
       IN  Upsert(job[w].dev, IF s = "resetting" THEN "ready" ELSE s, 0)
    /\ End(w)
    /\ UNCHANGED <<lease, ident, node, health, boot, crashes>>

IdentityStep ==
    \/ \E d \in Devices, i \in AnyIdentity : SetIdentity(d, i)
    \/ CheckState(IdentityHandler) \/ MarkResetting(IdentityHandler)
    \/ ReadAgain(IdentityHandler) \/ WriteBack(IdentityHandler)

-----------------------------------------------------------------------------
(* Leases.                                                                 *)

Claim(l, k) ==
    /\ LeaseOf(k) = {}
    /\ \E d \in Devices :
           FirstFree(d) /\ GrantLease(l, [status |-> "active", key |-> k, dev |-> d])
    /\ UNCHANGED <<fails, ident, node, job, health, boot, crashes>>

\* handleRelease: the reset runs in a goroutine of its own.
Release(l) ==
    /\ CloseLease(l)
    /\ StartReset(<<"api", l>>, lease[l].dev)
    /\ UNCHANGED <<fails, ident, node, health, boot, crashes>>

\* ReapOnce: the reaper itself runs the reset, one lease after the other.
Reap(l) ==
    /\ CloseLease(l)
    /\ StartReset(Reaper, lease[l].dev)
    /\ UNCHANGED <<fails, ident, node, health, boot, crashes>>

\* The holder of a lease installs something on its device.
AgentWrites(l) ==
    /\ Active(l)
    /\ cont[lease[l].dev].run = "up"
    /\ data' = [data EXCEPT ![lease[l].dev] = @ \cup {l}]
    /\ UNCHANGED <<rows, cont, job, health, boot, crashes>>

-----------------------------------------------------------------------------
(* HealthChecker.CheckOnce: one read of all rows, then probe after probe,  *)
(* each followed by a write of the row as it was read.                     *)

CheckStart ==
    /\ DOMAIN health = {}
    /\ health' = [d \in {e \in Devices : state[e] \in {"ready", "leased"}} |->
                    [state |-> state[d], fails |-> fails[d]]]
    /\ UNCHANGED <<rows, node, job, boot, crashes>>

ProbeAlive(d) ==
    /\ FirstOf(DOMAIN health, d)
    /\ cont[d].run = "up"
    /\ Upsert(d, health[d].state, 0)
    /\ health' = Without(health, d)
    /\ UNCHANGED <<lease, ident, node, job, boot, crashes>>

ProbeFailed(d) ==
    /\ FirstOf(DOMAIN health, d)
    /\ cont[d].run # "up" \/ "probe" \in Faults
    /\ LET n == health[d].fails + 1 IN
       IF n < Threshold
       THEN Upsert(d, health[d].state, n) /\ UNCHANGED job
       ELSE /\ Upsert(d, "broken", n)
            /\ ~Busy(<<"health", d>>)
            /\ job' = [job EXCEPT ![<<"health", d>>] =
                         [ResetOf(d) EXCEPT !.fails = n]]
    /\ health' = Without(health, d)
    /\ UNCHANGED <<lease, ident, node, boot, crashes>>

HealthStep == CheckStart \/ \E d \in Devices : ProbeAlive(d) \/ ProbeFailed(d)

-----------------------------------------------------------------------------
(* The start-up goroutine: RunningSet, ReconcileStore, Ensure.             *)

\* The running containers, then the rows, as ReconcileStore reads them.
BootList ==
    /\ boot.pc = "list"
    /\ boot' = [pc |-> "reconcile",
                run |-> {d \in Devices : cont[d].run # "none"},
                snap |-> [d \in {e \in Devices : state[e] # NoRow} |->
                            [state |-> state[d], fails |-> fails[d]]],
                todo |-> Devices]
    /\ UNCHANGED <<rows, node, job, health, crashes>>

\* RunningSet fails: no reconciliation.
BootListFailed ==
    /\ boot.pc = "list" /\ "list" \in Faults
    /\ boot' = [boot EXCEPT !.pc = "ensure", !.todo = Devices]
    /\ UNCHANGED <<rows, node, job, health, crashes>>

\* Mutant: only creating devices are rebuilt, resetting ones are left alone.
BootReconcile_CreatingOnly(d) ==
    /\ boot.pc = "reconcile" /\ ~Busy(StartUp)
    /\ FirstOf(DOMAIN boot.snap, d)
    /\ IF boot.snap[d].state = "creating"
       THEN StartReset(StartUp, d)
       ELSE UNCHANGED job
    /\ boot' = [boot EXCEPT !.snap = Without(@, d)]
    /\ UNCHANGED <<rows, node, health, crashes>>

\* Mutant: the row is written back as it was read when nothing is wrong.
BootReconcile_WriteAll(d) ==
    /\ boot.pc = "reconcile" /\ ~Busy(StartUp)
    /\ FirstOf(DOMAIN boot.snap, d)
    /\ boot.snap[d].state \in {"ready", "leased"} /\ d \in boot.run
    /\ Upsert(d, boot.snap[d].state, boot.snap[d].fails)
    /\ boot' = [boot EXCEPT !.snap = Without(@, d)]
    /\ UNCHANGED <<lease, ident, node, job, health, crashes>>

\* One row of the snapshot: a container that is not there makes its device
\* broken, an intermediate state is reset, anything else is left alone.
BootReconcile(d) ==
    /\ boot.pc = "reconcile" /\ ~Busy(StartUp)
    /\ FirstOf(DOMAIN boot.snap, d)
    /\ LET seen == boot.snap[d] IN
       \/ /\ seen.state \in {"ready", "leased"} /\ d \notin boot.run
          /\ Upsert(d, "broken", seen.fails)
          /\ UNCHANGED job
       \/ /\ seen.state \in {"resetting", "creating"}
          /\ StartReset(StartUp, d)
          /\ UNCHANGED <<state, fails>>
       \/ /\ seen.state = "broken" \/ (seen.state \in {"ready", "leased"} /\ d \in boot.run)
          /\ UNCHANGED <<state, fails, job>>
    /\ boot' = [boot EXCEPT !.snap = Without(@, d)]
    /\ UNCHANGED <<lease, ident, node, health, crashes>>

BootReconciled ==
    /\ boot.pc = "reconcile" /\ ~Busy(StartUp)
    /\ DOMAIN boot.snap = {}
    /\ boot' = [boot EXCEPT !.pc = "ensure", !.run = {}]
    /\ UNCHANGED <<rows, node, job, health, crashes>>

\* Ensure: createOne for a device that has no row or is broken.
BootEnsure(d) ==
    /\ boot.pc = "ensure" /\ ~Busy(StartUp)
    /\ FirstOf(boot.todo, d)
    /\ IF state[d] \in {NoRow, "broken"}
       THEN /\ Upsert(d, "creating", 0)
            /\ job' = [job EXCEPT ![StartUp] =
                         [pc |-> "create", kind |-> "create", dev |-> d,
                          ident |-> ident[d], fails |-> 0, cur |-> NoRow]]
       ELSE UNCHANGED <<state, fails, job>>
    /\ boot' = [boot EXCEPT !.todo = @ \ {d},
                            !.pc = IF boot.todo = {d} THEN "done" ELSE @]
    /\ UNCHANGED <<lease, ident, node, health, crashes>>

BootStep == \/ BootList \/ BootListFailed \/ BootReconciled
            \/ \E d \in Devices : BootReconcile(d) \/ BootEnsure(d)

-----------------------------------------------------------------------------
(* The node and the process.                                               *)

\* Android hangs, or the container exits.
ContainerLost(d) ==
    /\ cont[d].run = "up"
    /\ \/ "hang" \in Faults /\ cont' = [cont EXCEPT ![d].run = "dead"]
       \/ "exit" \in Faults /\ cont' = [cont EXCEPT ![d] = Gone]
    /\ UNCHANGED <<rows, data, job, health, boot, crashes>>

\* The daemon dies and is started again: every goroutine is gone, the
\* tables, the containers and their data stay.
Crash ==
    /\ crashes < MaxCrashes
    /\ crashes' = crashes + 1
    /\ job' = [w \in Workers |-> NoJob]
    /\ health' = Nothing
    /\ boot' = Booting
    /\ UNCHANGED <<rows, node>>

Next ==
    \/ \E l \in LeaseIds, k \in Keys : Claim(l, k)
    \/ \E l \in LeaseIds : Release(l) \/ AgentWrites(l)
    \/ "reaper" \in Actors /\ \E l \in LeaseIds : Reap(l)
    \/ "identity" \in Actors /\ IdentityStep
    \/ "health" \in Actors /\ HealthStep
    \/ BootStep
    \/ \E w \in Workers : Rebuild(w)
    \/ \E d \in Devices : ContainerLost(d)
    \/ Crash

Spec == Init /\ [][Next]_vars

\* Goroutines that have something to do go on; crashes are bounded, agents
\* and faults owe nothing.  Node calls return (they all run under a timeout,
\* but for the reaper's and the start-up goroutine's: see LeaseStore).
Fairness ==
    /\ \A w \in Workers : WF_vars(Rebuild(w))
    /\ WF_vars(CheckState(IdentityHandler) \/ MarkResetting(IdentityHandler)
               \/ ReadAgain(IdentityHandler) \/ WriteBack(IdentityHandler))
    /\ WF_vars(BootStep)
    /\ WF_vars("health" \in Actors /\ HealthStep)

FairSpec == Spec /\ Fairness

-----------------------------------------------------------------------------
(* Properties.                                                             *)

\* No worktree on two devices, no device for two worktrees, with every actor
\* and every fault: see LeaseStore.
Exclusive == OneLeasePerKey /\ OneLeasePerDevice

\* The lease table of the whole daemon implements the abstract allocator.
ImplementsAllocator == Alloc!Spec

\* The device of a lease holds no files of an earlier lease.
CleanHandover ==
    \A l \in LeaseIds : Active(l) => data[lease[l].dev] \subseteq {l}

\* One goroutine at a time rebuilds a device, and none while it is leased:
\* a reset wipes only what nobody uses.
ExclusiveRebuild ==
    /\ \A d \in Devices : Cardinality(RebuildsOf(d)) <= 1
    /\ \A l \in LeaseIds : Active(l) => RebuildsOf(lease[l].dev) = {}

\* The two tables tell the same story: a device is in state leased exactly
\* while an active lease is on it.
TablesAgree == \A d \in Devices : state[d] = "leased" <=> LeaseOn(d) # {}

\* devices.state moves only along validTransitions, whoever writes it; a new
\* row starts at creating.
LegalTransitions ==
    [][\A d \in Devices :
          state'[d] # state[d] =>
              <<state[d], state'[d]>> \in ValidTransitions \cup {<<NoRow, "creating">>}]_vars

\* Every device comes back into service, across crashes.
PoolRecovers ==
    \A d \in Devices :
        state[d] \notin {"ready", "leased"} ~> state[d] \in {"ready", "leased"}

\* A device in state leased is held by someone: no restart, no rebuild and no
\* reconciliation leaves behind a device that is leased out to nobody.
LeasedMeansHeld == \A d \in Devices : state[d] = "leased" => LeaseOn(d) # {}

\* A device that nobody holds does not stay in state leased, where no claim
\* and no reset would ever look at it.
GivenBackReturns ==
    \A d \in Devices :
        state[d] = "leased" /\ LeaseOn(d) = {} ~> state[d] # "leased" \/ LeaseOn(d) # {}

-----------------------------------------------------------------------------
(* What the code does not keep: see "Deviations" in the README.            *)

\* A device somebody holds is never back in state ready: no rebuild ends by
\* writing ready over the lease that was granted while it ran.
HeldNotReady == \A d \in Devices : LeaseOn(d) # {} => state[d] # "ready"

\* A device in service runs with the identity stored for it.
IdentityInForce ==
    \A d \in Devices :
        /\ state[d] \in {"ready", "leased"}
        /\ RebuildsOf(d) = {}
        /\ cont[d].run = "up"
        => cont[d].ident = ident[d]
=============================================================================
