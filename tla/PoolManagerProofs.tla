------------------------- MODULE PoolManagerProofs ---------------------------
(***************************************************************************)
(* Theorems about PoolManager, on a pool of any size.  Each says which     *)
(* goroutines, which faults of the node and which crashes it allows.       *)
(***************************************************************************)
EXTENDS PoolManager, LeaseTableProofs, FiniteSetTheorems

\* The lease table as the daemon sees it; nothing else is needed below.
LeasesTyped == lease \in [LeaseIds -> Rows \cup {Unissued}]

\* A row that is not Unissued is a full row.
LEMMA FullRow ==
    ASSUME LeasesTyped, NEW l \in LeaseIds, Active(l)
    PROVE  lease[l] \in Rows
BY DEF LeasesTyped, Active, Unissued

\* CloseLease, said without the state of the device.
LEMMA ClosingStep ==
    ASSUME LeasesTyped, NEW l \in LeaseIds, CloseLease(l)
    PROVE  LeasesTyped' /\ Closes(l)
<1>1. lease[l] \in Rows
  BY FullRow DEF CloseLease
<1>2. /\ [lease[l] EXCEPT !.status = "released"] \in Rows
      /\ [lease[l] EXCEPT !.status = "released"].status = "released"
  BY <1>1 DEF Rows
<1> QED  BY <1>2 DEF CloseLease, Closes, LeasesTyped

\* No rebuild, health check, identity change, reconciliation, fault or crash
\* touches the lease table: only claims, releases and the reaper do.
LEMMA StepKinds == LeasesTyped /\ [Next]_vars => LeasesTyped' /\ TableStep
<1> SUFFICES ASSUME LeasesTyped, [Next]_vars PROVE LeasesTyped' /\ TableStep
  OBVIOUS
<1>1. UNCHANGED lease => LeasesTyped' /\ TableStep
  BY DEF LeasesTyped, TableStep, SameBindings
<1>2. ASSUME NEW l \in LeaseIds, NEW k \in Keys, Claim(l, k) PROVE LeasesTyped' /\ TableStep
  <2>1. PICK d \in Devices :
           FirstFree(d) /\ GrantLease(l, [status |-> "active", key |-> k, dev |-> d])
    BY <1>2 DEF Claim
  <2> DEFINE row == [status |-> "active", key |-> k, dev |-> d]
  <2>2. row \in Rows /\ row.status = "active" /\ row.key = k /\ row.dev = d
    BY DEF Rows
  <2>3. LeaseOf(k) = {} /\ LeaseOn(d) = {} /\ GrantLease(l, row)
    BY <1>2, <2>1 DEF Claim, FirstFree, FreeDevices
  <2>4. TableStep
    BY <2>2, <2>3 DEF TableStep
  <2>5. LeasesTyped'
    BY <2>2, <2>3 DEF GrantLease, LeasesTyped
  <2> QED  BY <2>4, <2>5
<1>3. ASSUME NEW l \in LeaseIds, Release(l) \/ Reap(l) PROVE LeasesTyped' /\ TableStep
  BY <1>3, ClosingStep DEF Release, Reap, TableStep
<1>4. ASSUME NEW l \in LeaseIds, AgentWrites(l) PROVE LeasesTyped' /\ TableStep
  BY <1>1, <1>4 DEF AgentWrites, rows
<1>5. CASE IdentityStep
  BY <1>1, <1>5 DEF IdentityStep, SetIdentity, CheckState, MarkResetting, ReadAgain,
                    WriteBack, rows
<1>6. CASE HealthStep
  BY <1>1, <1>6 DEF HealthStep, CheckStart, ProbeAlive, ProbeFailed, rows
<1>7. CASE BootStep
  BY <1>1, <1>7 DEF BootStep, BootList, BootListFailed, BootReconciled, BootReconcile,
                    BootEnsure, rows
<1>8. ASSUME NEW w \in Workers, Rebuild(w) PROVE LeasesTyped' /\ TableStep
  BY <1>1, <1>8 DEF Rebuild, Remove, Wipe, Create, WaitBoot, Fail, Finish, rows
<1>9. CASE (\E d \in Devices : ContainerLost(d)) \/ Crash \/ UNCHANGED vars
  BY <1>1, <1>9 DEF ContainerLost, Crash, vars, rows
<1> QED  BY <1>2, <1>3, <1>4, <1>5, <1>6, <1>7, <1>8, <1>9 DEF Next

\* The lease table keeps its type.
LEMMA LeasesTypedAlways == Spec => []LeasesTyped
<1>1. Init => LeasesTyped
  BY DEF Init, LeasesTyped
<1> QED  BY <1>1, StepKinds, PTL DEF Spec

\* A typed lease table is a table.
LEMMA TypedTable == LeasesTyped => Table
BY DEF LeasesTyped, Table

\* However stale the rows that the health checker, the identity handler and
\* the rebuilds write back, no worktree gets two devices and no device goes
\* to two worktrees, before and after any number of crashes.
THEOREM ExclusiveHolds == Spec => []Exclusive
<1>1. Init => Exclusive
  BY DEF Init, Exclusive, OneLeasePerKey, OneLeasePerDevice, Active, Unissued
<1>2. LeasesTyped /\ Exclusive /\ [Next]_vars => Exclusive'
  BY StepKinds, TypedTable, TableStepKeepsIndexes DEF Exclusive
<1> QED  BY <1>1, <1>2, LeasesTypedAlways, PTL DEF Spec

\* The whole daemon implements the abstract allocator.
THEOREM RefinesAllocator == Spec => ImplementsAllocator
<1>1. Init => Alloc!Init
  BY DEF Init, Alloc!Init, HeldBindings, SpentIds, Active, Unissued
<1>2. LeasesTyped /\ [Next]_vars => [Alloc!Next]_<<HeldBindings, SpentIds>>
  BY StepKinds, TypedTable, TableStepRefines
<1> QED  BY <1>1, <1>2, LeasesTypedAlways, PTL
         DEF Spec, ImplementsAllocator, Alloc!Spec, Alloc!vars

-----------------------------------------------------------------------------
(* Devices leased out to nobody.  The health checker and the identity      *)
(* handler write back rows they read earlier and can bring one about; the  *)
(* rest of the daemon cannot.                                              *)

StateTyped == DOMAIN state = Devices
HeldInv == LeasesTyped /\ StateTyped /\ LeasedMeansHeld

\* No device becomes leased.
OnlyGivesUp ==
    /\ DOMAIN state' = DOMAIN state
    /\ \A d \in Devices : state'[d] # state[d] => state'[d] # "leased"

LEMMA UpsertGivesUp ==
    ASSUME StateTyped, NEW d, NEW s, NEW n, s # "leased", Upsert(d, s, n)
    PROVE  OnlyGivesUp
BY DEF StateTyped, Upsert, OnlyGivesUp

LEMMA GivingUpKeepsHeld ==
    ASSUME HeldInv, OnlyGivesUp, UNCHANGED lease
    PROVE  StateTyped' /\ LeasedMeansHeld'
BY DEF HeldInv, OnlyGivesUp, StateTyped, LeasedMeansHeld, LeaseOn, Active

\* A claim makes leased the one device that its new lease holds.
LEMMA ClaimKeepsHeld ==
    ASSUME HeldInv, NEW l \in LeaseIds, NEW k \in Keys, Claim(l, k)
    PROVE  StateTyped' /\ LeasedMeansHeld'
<1>1. PICK d \in Devices : GrantLease(l, [status |-> "active", key |-> k, dev |-> d])
  BY DEF Claim
<1>2. /\ lease[l] = Unissued /\ state' = [state EXCEPT ![d] = "leased"]
      /\ lease' = [lease EXCEPT ![l] = [status |-> "active", key |-> k, dev |-> d]]
  BY <1>1 DEF GrantLease
<1>3. /\ lease'[l].status = "active" /\ lease'[l].dev = d
      /\ \A m \in LeaseIds \ {l} : lease'[m] = lease[m]
      /\ \A e \in Devices \ {d} : state'[e] = state[e]
  BY <1>2 DEF HeldInv, LeasesTyped, StateTyped
<1>4. \A e \in Devices : LeaseOn(e) \subseteq LeaseIds \ {l}
  BY <1>2 DEF LeaseOn, Active, Unissued
<1>5. LeaseOn(d)' # {}
  BY <1>3 DEF LeaseOn, Active
<1>6. ASSUME NEW e \in Devices \ {d}, LeaseOn(e) # {} PROVE LeaseOn(e)' # {}
  BY <1>3, <1>4, <1>6 DEF LeaseOn, Active
<1>7. LeasedMeansHeld'
  BY <1>3, <1>5, <1>6 DEF LeasedMeansHeld, HeldInv
<1> QED  BY <1>2, <1>7 DEF HeldInv, StateTyped

\* A lease that is closed takes its own device out of state leased.
LEMMA CloseKeepsHeld ==
    ASSUME HeldInv, NEW l \in LeaseIds, CloseLease(l)
    PROVE  StateTyped' /\ LeasedMeansHeld'
<1>1. /\ lease[l] \in Rows
      /\ lease' = [lease EXCEPT ![l].status = "released"]
      /\ state' = [state EXCEPT ![lease[l].dev] = "resetting"]
  BY FullRow DEF HeldInv, CloseLease
<1>2. lease[l].dev \in Devices
  BY <1>1 DEF Rows
<1>3. /\ \A m \in LeaseIds \ {l} : lease'[m] = lease[m]
      /\ state'[lease[l].dev] = "resetting"
      /\ \A e \in Devices \ {lease[l].dev} : state'[e] = state[e]
  BY <1>1, <1>2 DEF HeldInv, LeasesTyped, StateTyped
<1>4. ASSUME NEW e \in Devices \ {lease[l].dev}, LeaseOn(e) # {} PROVE LeaseOn(e)' # {}
  BY <1>3, <1>4 DEF LeaseOn, Active
<1>5. LeasedMeansHeld'
  BY <1>3, <1>4 DEF LeasedMeansHeld, HeldInv
<1> QED  BY <1>1, <1>5 DEF HeldInv, StateTyped

LEMMA HeldStep ==
    ASSUME Actors \subseteq {"reaper"}
    PROVE  HeldInv /\ [Next]_vars => HeldInv'
<1> SUFFICES ASSUME HeldInv, [Next]_vars PROVE StateTyped' /\ LeasedMeansHeld'
  BY StepKinds DEF HeldInv
<1>1. StateTyped
  BY DEF HeldInv
<1>2. UNCHANGED state => OnlyGivesUp
  BY <1>1 DEF OnlyGivesUp
<1>3. ASSUME OnlyGivesUp, UNCHANGED lease PROVE StateTyped' /\ LeasedMeansHeld'
  BY <1>3, GivingUpKeepsHeld
<1>4. ASSUME NEW l \in LeaseIds, NEW k \in Keys, Claim(l, k)
      PROVE  StateTyped' /\ LeasedMeansHeld'
  BY <1>4, ClaimKeepsHeld
<1>5. ASSUME NEW l \in LeaseIds, Release(l) \/ Reap(l)
      PROVE  StateTyped' /\ LeasedMeansHeld'
  BY <1>5, CloseKeepsHeld DEF Release, Reap
<1>6. ASSUME NEW l \in LeaseIds, AgentWrites(l) PROVE StateTyped' /\ LeasedMeansHeld'
  BY <1>2, <1>3, <1>6 DEF AgentWrites, rows
<1>7. CASE BootStep
  <2>1. CASE BootList \/ BootListFailed \/ BootReconciled
    BY <1>2, <1>3, <2>1 DEF BootList, BootListFailed, BootReconciled, rows
  <2>2. ASSUME NEW d \in Devices, BootReconcile(d) PROVE StateTyped' /\ LeasedMeansHeld'
    <3>1. UNCHANGED lease /\ (UNCHANGED state \/ Upsert(d, "broken", boot.snap[d].fails))
      BY <2>2 DEF BootReconcile
    <3> QED  BY <1>1, <1>2, <1>3, <3>1, UpsertGivesUp
  <2>3. ASSUME NEW d \in Devices, BootEnsure(d) PROVE StateTyped' /\ LeasedMeansHeld'
    <3>1. UNCHANGED lease /\ (UNCHANGED state \/ Upsert(d, "creating", 0))
      BY <2>3 DEF BootEnsure
    <3> QED  BY <1>1, <1>2, <1>3, <3>1, UpsertGivesUp
  <2> QED  BY <1>7, <2>1, <2>2, <2>3 DEF BootStep
<1>8. ASSUME NEW w \in Workers, Rebuild(w) PROVE StateTyped' /\ LeasedMeansHeld'
  <2>1. CASE Remove(w) \/ Wipe(w) \/ Create(w) \/ WaitBoot(w)
    BY <1>2, <1>3, <2>1 DEF Remove, Wipe, Create, WaitBoot, rows
  <2>2. CASE Fail(w)
    <3>1. UNCHANGED lease /\ Upsert(job[w].dev, "broken", job[w].fails)
      BY <2>2 DEF Fail
    <3> QED  BY <1>1, <1>3, <3>1, UpsertGivesUp
  <2>3. CASE Finish(w)
    <3>1. UNCHANGED lease /\ Upsert(job[w].dev, "ready", 0)
      BY <2>3 DEF Finish
    <3> QED  BY <1>1, <1>3, <3>1, UpsertGivesUp
  <2> QED  BY <1>8, <2>1, <2>2, <2>3 DEF Rebuild
<1>9. CASE (\E d \in Devices : ContainerLost(d)) \/ Crash \/ UNCHANGED vars
  BY <1>2, <1>3, <1>9 DEF ContainerLost, Crash, vars, rows
<1>10. "identity" \notin Actors /\ "health" \notin Actors
  OBVIOUS
<1> QED  BY <1>4, <1>5, <1>6, <1>7, <1>8, <1>9, <1>10 DEF Next

\* Without the health checker and the identity handler, no rebuild, failed
\* node call, lost container, crash or start-up reconciliation beside running
\* requests leaves a device leased out to nobody.
THEOREM LeasedMeansHeldHolds ==
    ASSUME Actors \subseteq {"reaper"}
    PROVE  Spec => []LeasedMeansHeld
<1>1. Init => HeldInv
  BY DEF Init, HeldInv, LeasesTyped, StateTyped, LeasedMeansHeld, NoRow
<1>2. HeldInv /\ [Next]_vars => HeldInv'
  BY HeldStep
<1>3. HeldInv => LeasedMeansHeld
  BY DEF HeldInv
<1> QED  BY <1>1, <1>2, <1>3, PTL DEF Spec

-----------------------------------------------------------------------------
(* Type correctness, with every actor and fault.  A device in service is   *)
(* below the threshold of failed probes: that is what bounds the counter.  *)

BootShape == boot = [pc |-> boot.pc, run |-> boot.run, snap |-> boot.snap, todo |-> boot.todo]
BelowThreshold ==
    /\ \A d \in Devices : state[d] \in {"ready", "leased"} => fails[d] < Threshold
    /\ \A d \in DOMAIN health : health[d].fails < Threshold
TypeInv == TypeOK /\ BootShape /\ BelowThreshold

\* The parts of the invariant that a group of steps may disturb.
TablesOK ==
    /\ lease \in [LeaseIds -> Rows \cup {Unissued}]
    /\ state \in [Devices -> DeviceStates \cup {NoRow}]
    /\ fails \in [Devices -> 0 .. Threshold]
    /\ ident \in [Devices -> AnyIdentity]
    /\ \A d \in Devices : state[d] \in {"ready", "leased"} => fails[d] < Threshold
NodeOK ==
    /\ cont \in [Devices -> Containers]
    /\ data \in [Devices -> SUBSET LeaseIds]
JobsOK == job \in [Workers -> Jobs]
HealthOK ==
    /\ DOMAIN health \subseteq Devices
    /\ \A d \in DOMAIN health :
           health[d] \in [state : {"ready", "leased"}, fails : 0 .. Threshold]
           /\ health[d].fails < Threshold
BootOK ==
    /\ BootShape
    /\ boot.pc \in {"list", "reconcile", "ensure", "done"}
    /\ boot.run \subseteq Devices /\ boot.todo \subseteq Devices
    /\ DOMAIN boot.snap \subseteq Devices
    /\ \A d \in DOMAIN boot.snap : boot.snap[d] \in [state : DeviceStates, fails : 0 .. Threshold]

LEMMA TypeParts ==
    TypeInv <=> TablesOK /\ NodeOK /\ JobsOK /\ HealthOK /\ BootOK /\ crashes \in 0 .. MaxCrashes
BY DEF TypeInv, TypeOK, BelowThreshold, TablesOK, NodeOK, JobsOK, HealthOK, BootOK

LEMMA TypeJoins ==
    TablesOK' /\ NodeOK' /\ JobsOK' /\ HealthOK' /\ BootOK' /\ crashes' \in 0 .. MaxCrashes
        => TypeInv'
BY DEF TypeInv, TypeOK, BelowThreshold, TablesOK, NodeOK, JobsOK, HealthOK, BootOK

\* A goroutine that is at a call holds a whole Device value.
LEMMA AtJob ==
    ASSUME JobsOK, NEW w \in Workers, job[w].pc # "idle"
    PROVE  /\ job[w] \in Jobs \ {NoJob} /\ job[w].dev \in Devices
           /\ job[w].ident \in AnyIdentity /\ job[w].fails \in 0 .. Threshold
           /\ job[w].cur \in DeviceStates \cup {NoRow}
           /\ job[w].kind \in {"reset", "create", "identity"}
BY DEF JobsOK, Jobs, NoJob

LEMMA JobAdvanced ==
    ASSUME JobsOK, NEW w \in Workers, job[w].pc # "idle",
           NEW pc \in {"check", "mark", "remove", "wipe", "create", "boot", "finish", "write"},
           Advance(w, pc)
    PROVE  JobsOK'
<1> DEFINE Full == [pc : {"check", "mark", "remove", "wipe", "create", "boot", "finish", "write"},
                    kind : {"reset", "create", "identity"},
                    dev : Devices, ident : AnyIdentity, fails : 0 .. Threshold,
                    cur : DeviceStates \cup {NoRow}]
<1>1. job[w] \in Full
  BY DEF JobsOK, Jobs, NoJob
<1>2. [job[w] EXCEPT !.pc = pc] \in Full
  BY <1>1
<1>3. Full \subseteq Jobs
  BY DEF Jobs
<1> HIDE DEF Full
<1>4. job' = [job EXCEPT ![w] = [job[w] EXCEPT !.pc = pc]]
  BY DEF Advance
<1> QED  BY <1>2, <1>3, <1>4 DEF JobsOK

LEMMA JobEnded ==
    ASSUME JobsOK, NEW w \in Workers, End(w)
    PROVE  JobsOK'
BY DEF JobsOK, End, Jobs

LEMMA ResetTyped ==
    ASSUME TablesOK, NEW d \in Devices
    PROVE  ResetOf(d) \in Jobs
BY DEF TablesOK, ResetOf, Jobs

LEMMA ResetStarted ==
    ASSUME TablesOK, JobsOK, NEW w \in Workers, NEW d \in Devices, StartReset(w, d)
    PROVE  JobsOK'
BY ResetTyped DEF JobsOK, StartReset

\* A row that is written whole.
LEMMA RowWritten ==
    ASSUME TablesOK, NEW d \in Devices, NEW s \in DeviceStates \cup {NoRow},
           NEW n \in 0 .. Threshold, s \in {"ready", "leased"} => n < Threshold,
           Upsert(d, s, n), UNCHANGED <<lease, ident>>
    PROVE  TablesOK'
BY DEF TablesOK, Upsert

LEMMA TypeRebuild ==
    ASSUME TypeInv, NEW w \in Workers, Rebuild(w)
    PROVE  TypeInv'
<1> USE DEF rows, node
<1>1. TablesOK /\ NodeOK /\ JobsOK /\ HealthOK /\ BootOK /\ crashes \in 0 .. MaxCrashes
  BY TypeParts
<1>2. job[w].pc # "idle"
  BY DEF Rebuild, Remove, Wipe, Create, WaitBoot, Fail, Finish
<1>3. /\ job[w].dev \in Devices /\ job[w].ident \in AnyIdentity /\ job[w].fails \in 0 .. Threshold
      /\ UNCHANGED <<lease, ident, health, boot, crashes>>
  BY <1>1, <1>2, AtJob DEF Rebuild, Remove, Wipe, Create, WaitBoot, Fail, Finish
<1>4. JobsOK'
  BY <1>1, <1>2, JobAdvanced, JobEnded
     DEF Rebuild, Remove, Wipe, Create, WaitBoot, Fail, Finish
<1>5. NodeOK'
  BY <1>1, <1>3 DEF NodeOK, Containers, Gone, AnyIdentity, Rebuild, Remove, Wipe, Create,
                    WaitBoot, Fail, Finish
<1>6. TablesOK'
  <2>1. CASE UNCHANGED <<state, fails>>
    BY <1>1, <1>3, <2>1 DEF TablesOK
  <2>2. CASE Fail(w)
    BY <1>1, <1>3, <2>2, RowWritten DEF Fail, DeviceStates
  <2>3. CASE Finish(w)
    BY <1>1, <1>3, <2>3, RowWritten, ManagerAssumption DEF Finish, DeviceStates
  <2> QED  BY <2>1, <2>2, <2>3 DEF Rebuild, Remove, Wipe, Create, WaitBoot
<1>7. HealthOK' /\ BootOK' /\ crashes' \in 0 .. MaxCrashes
  BY <1>1, <1>3 DEF HealthOK, BootOK, BootShape
<1> QED  BY <1>4, <1>5, <1>6, <1>7, TypeJoins

LEMMA TypeIdentity ==
    ASSUME TypeInv, IdentityStep
    PROVE  TypeInv'
<1> USE DEF rows, node
<1>1. TablesOK /\ NodeOK /\ JobsOK /\ HealthOK /\ BootOK /\ crashes \in 0 .. MaxCrashes
  BY TypeParts
<1>2. UNCHANGED <<lease, cont, data, health, boot, crashes>>
  BY DEF IdentityStep, SetIdentity, CheckState, MarkResetting, ReadAgain, WriteBack
<1>3. NodeOK' /\ HealthOK' /\ BootOK' /\ crashes' \in 0 .. MaxCrashes
  BY <1>1, <1>2 DEF NodeOK, HealthOK, BootOK, BootShape
<1> DEFINE w == IdentityHandler
<1>4. w \in Workers
  BY DEF Workers, IdentityHandler
<1> HIDE DEF w
<1>5. ASSUME NEW d \in Devices, NEW i \in AnyIdentity, SetIdentity(d, i)
      PROVE  TablesOK' /\ JobsOK'
  <2>1. TablesOK'
    BY <1>1, <1>5 DEF SetIdentity, TablesOK
  <2>2. ASSUME NEW pc \in {"check", "remove"}
        PROVE  [pc |-> pc, kind |-> "identity", dev |-> d, ident |-> i,
                fails |-> fails[d], cur |-> NoRow] \in Jobs
    BY <1>1 DEF TablesOK, Jobs
  <2>3. JobsOK'
    BY <1>1, <1>4, <1>5, <2>2 DEF SetIdentity, JobsOK, w
  <2> QED  BY <2>1, <2>3
<1>6. CASE CheckState(w)
  <2>1. JobsOK'
    BY <1>1, <1>4, <1>6, JobAdvanced, JobEnded DEF CheckState
  <2> QED  BY <1>1, <1>3, <1>6, <2>1, TypeJoins DEF CheckState, TablesOK
<1>7. CASE MarkResetting(w)
  <2>1. JobsOK'
    BY <1>1, <1>4, <1>7, JobAdvanced DEF MarkResetting
  <2>2. job[w].dev \in Devices
    BY <1>1, <1>4, <1>7, AtJob DEF MarkResetting
  <2>3. TablesOK'
    BY <1>1, <1>7, <2>2 DEF MarkResetting, TablesOK, DeviceStates
  <2> QED  BY <1>3, <2>1, <2>3, TypeJoins
<1>8. CASE ReadAgain(w)
  <2>1. TablesOK'
    BY <1>1, <1>8 DEF ReadAgain, TablesOK
  <2>2. job[w].pc # "idle"
    BY <1>8 DEF ReadAgain
  <2>3. state[job[w].dev] \in DeviceStates \cup {NoRow}
    BY <1>1, <1>4, <2>2, AtJob DEF TablesOK
  <2>4. JobsOK'
    <3> DEFINE s == state[job[w].dev]
               Full == [pc : {"check", "mark", "remove", "wipe", "create", "boot", "finish", "write"},
                        kind : {"reset", "create", "identity"},
                        dev : Devices, ident : AnyIdentity, fails : 0 .. Threshold,
                        cur : DeviceStates \cup {NoRow}]
    <3>1. job[w] \in Full
      BY <1>1, <1>4, <2>2 DEF JobsOK, Jobs, NoJob
    <3>2. job' = [job EXCEPT ![w] = [job[w] EXCEPT !.pc = "write", !.cur = s]]
      BY <1>8 DEF ReadAgain
    <3> HIDE DEF s
    <3>3. [job[w] EXCEPT !.pc = "write", !.cur = s] \in Full
      BY <2>3, <3>1 DEF s
    <3>4. Full \subseteq Jobs
      BY DEF Jobs
    <3> HIDE DEF Full
    <3> QED  BY <1>1, <3>2, <3>3, <3>4 DEF JobsOK
  <2> QED  BY <1>3, <2>1, <2>4, TypeJoins
<1>9. CASE WriteBack(w)
  <2>1. JobsOK'
    BY <1>1, <1>4, <1>9, JobEnded DEF WriteBack
  <2>2. job[w].pc # "idle"
    BY <1>9 DEF WriteBack
  <2>3. job[w].dev \in Devices /\ job[w].cur \in DeviceStates \cup {NoRow}
    BY <1>1, <1>4, <2>2, AtJob
  <2>4. TablesOK'
    BY <1>1, <1>9, <2>3, RowWritten, ManagerAssumption DEF WriteBack, DeviceStates
  <2> QED  BY <1>3, <2>1, <2>4, TypeJoins
<1> QED  BY <1>3, <1>5, <1>6, <1>7, <1>8, <1>9, TypeJoins DEF IdentityStep, w

LEMMA TypeLeases ==
    ASSUME TypeInv, NEW l \in LeaseIds,
           (\E k \in Keys : Claim(l, k)) \/ Release(l) \/ Reap(l) \/ AgentWrites(l)
    PROVE  TypeInv'
<1> USE DEF rows, node
<1>1. TablesOK /\ NodeOK /\ JobsOK /\ HealthOK /\ BootOK /\ crashes \in 0 .. MaxCrashes
  BY TypeParts
<1>2. UNCHANGED <<fails, ident, cont, health, boot, crashes>>
  BY DEF Claim, Release, Reap, AgentWrites
<1>3. HealthOK' /\ BootOK' /\ crashes' \in 0 .. MaxCrashes
  BY <1>1, <1>2 DEF HealthOK, BootOK, BootShape
<1>4. ASSUME NEW k \in Keys, Claim(l, k)
      PROVE  TypeInv'
  <2>1. PICK d \in Devices :
           FirstFree(d) /\ GrantLease(l, [status |-> "active", key |-> k, dev |-> d])
    BY <1>4 DEF Claim
  <2>2. [status |-> "active", key |-> k, dev |-> d] \in Rows
    BY DEF Rows
  <2>3. state[d] = "ready"
    BY <2>1 DEF FirstFree, FreeDevices
  <2>4. TablesOK'
    BY <1>1, <1>2, <2>1, <2>2, <2>3 DEF TablesOK, GrantLease, DeviceStates
  <2>5. NodeOK' /\ JobsOK'
    BY <1>1, <1>4 DEF Claim, NodeOK, JobsOK
  <2> QED  BY <1>3, <2>4, <2>5, TypeJoins
<1>5. ASSUME NEW w \in Workers, CloseLease(l), StartReset(w, lease[l].dev), UNCHANGED data
      PROVE  TypeInv'
  <2>1. lease[l] \in Rows /\ lease[l].dev \in Devices
    BY <1>1, <1>5 DEF CloseLease, TablesOK, Active, Unissued, Rows
  <2>2. [lease[l] EXCEPT !.status = "released"] \in Rows
    BY <2>1 DEF Rows
  <2>3. lease' = [lease EXCEPT ![l] = [lease[l] EXCEPT !.status = "released"]]
    BY <1>5 DEF CloseLease
  <2>4. TablesOK'
    BY <1>1, <1>2, <1>5, <2>1, <2>2, <2>3 DEF TablesOK, CloseLease, DeviceStates
  <2>5. NodeOK' /\ JobsOK'
    BY <1>1, <1>2, <1>5, <2>1, ResetStarted DEF NodeOK
  <2> QED  BY <1>3, <2>4, <2>5, TypeJoins
<1>6. CASE AgentWrites(l)
  <2>1. TablesOK' /\ JobsOK'
    BY <1>1, <1>6 DEF AgentWrites, TablesOK, JobsOK
  <2>2. NodeOK'
    BY <1>1, <1>6 DEF AgentWrites, NodeOK
  <2> QED  BY <1>3, <2>1, <2>2, TypeJoins
<1>7. <<"api", l>> \in Workers /\ Reaper \in Workers
  BY DEF Workers, Reaper
<1> QED  BY <1>4, <1>5, <1>6, <1>7 DEF Release, Reap

LEMMA TypeHealth ==
    ASSUME TypeInv, HealthStep
    PROVE  TypeInv'
<1> USE DEF rows, node
<1>1. TablesOK /\ NodeOK /\ JobsOK /\ HealthOK /\ BootOK /\ crashes \in 0 .. MaxCrashes
  BY TypeParts
<1>2. UNCHANGED <<lease, ident, cont, data, boot, crashes>>
  BY DEF HealthStep, CheckStart, ProbeAlive, ProbeFailed
<1>3. NodeOK' /\ BootOK' /\ crashes' \in 0 .. MaxCrashes
  BY <1>1, <1>2 DEF NodeOK, BootOK, BootShape
<1>4. CASE CheckStart
  <2>1. TablesOK' /\ JobsOK'
    BY <1>1, <1>4 DEF CheckStart, TablesOK, JobsOK
  <2>2. HealthOK'
    BY <1>1, <1>4 DEF CheckStart, HealthOK, TablesOK
  <2> QED  BY <1>3, <2>1, <2>2, TypeJoins
<1>5. ASSUME NEW d \in Devices, ProbeAlive(d) \/ ProbeFailed(d)
      PROVE  TypeInv'
  <2>1. /\ d \in DOMAIN health /\ health' = Without(health, d)
        /\ health[d].state \in {"ready", "leased"} /\ health[d].fails \in 0 .. Threshold
        /\ health[d].fails < Threshold
    BY <1>1, <1>5 DEF ProbeAlive, ProbeFailed, FirstOf, HealthOK
  <2>2. HealthOK'
    BY <1>1, <2>1 DEF HealthOK, Without
  <2>3. CASE ProbeAlive(d)
    <3>1. TablesOK'
      BY <1>1, <1>2, <2>1, <2>3, RowWritten, ManagerAssumption DEF ProbeAlive, DeviceStates
    <3>2. JobsOK'
      BY <1>1, <2>3 DEF ProbeAlive, JobsOK
    <3> QED  BY <1>3, <2>2, <3>1, <3>2, TypeJoins
  <2>4. CASE ProbeFailed(d)
    <3>1. PICK n \in 0 .. Threshold : n = health[d].fails + 1
      BY <2>1, ManagerAssumption
    <3>2. CASE n < Threshold
      <4>1. Upsert(d, health[d].state, n) /\ UNCHANGED job
        BY <2>4, <3>1, <3>2 DEF ProbeFailed
      <4> QED  BY <1>1, <1>2, <1>3, <2>1, <2>2, <3>2, <4>1, RowWritten, TypeJoins
               DEF JobsOK, DeviceStates
    <3>3. CASE ~(n < Threshold)
      <4>1. /\ Upsert(d, "broken", n)
            /\ job' = [job EXCEPT ![<<"health", d>>] = [ResetOf(d) EXCEPT !.fails = n]]
        BY <2>4, <3>1, <3>3 DEF ProbeFailed
      <4>2. TablesOK'
        BY <1>1, <1>2, <4>1, RowWritten DEF DeviceStates
      <4>3. [ResetOf(d) EXCEPT !.fails = n] \in Jobs
        BY <1>1 DEF ResetOf, Jobs, TablesOK
      <4>4. JobsOK'
        BY <1>1, <4>1, <4>3 DEF JobsOK
      <4> QED  BY <1>3, <2>2, <4>2, <4>4, TypeJoins
    <3> QED  BY <3>2, <3>3
  <2> QED  BY <1>5, <2>3, <2>4
<1> QED  BY <1>4, <1>5 DEF HealthStep

LEMMA TypeBoot ==
    ASSUME TypeInv, BootStep
    PROVE  TypeInv'
<1> USE DEF rows, node
<1>1. TablesOK /\ NodeOK /\ JobsOK /\ HealthOK /\ BootOK /\ crashes \in 0 .. MaxCrashes
  BY TypeParts
<1>2. UNCHANGED <<lease, ident, cont, data, health, crashes>>
  BY DEF BootStep, BootList, BootListFailed, BootReconciled, BootReconcile, BootEnsure
<1>3. NodeOK' /\ HealthOK' /\ crashes' \in 0 .. MaxCrashes
  BY <1>1, <1>2 DEF NodeOK, HealthOK
<1>4. StartUp \in Workers
  BY DEF Workers, StartUp
<1>5. CASE BootList \/ BootListFailed \/ BootReconciled
  <2>1. TablesOK' /\ JobsOK'
    BY <1>1, <1>5 DEF BootList, BootListFailed, BootReconciled, TablesOK, JobsOK
  <2>2. CASE BootList
    BY <1>1, <1>3, <2>1, <2>2, TypeJoins DEF BootList, BootOK, BootShape, TablesOK
  <2>3. CASE BootListFailed \/ BootReconciled
    BY <1>1, <1>3, <2>1, <2>3, TypeJoins DEF BootListFailed, BootReconciled, BootOK, BootShape
  <2> QED  BY <1>5, <2>2, <2>3
<1>6. ASSUME NEW d \in Devices, BootReconcile(d)
      PROVE  TypeInv'
  <2>1. /\ d \in DOMAIN boot.snap /\ boot' = [boot EXCEPT !.snap = Without(boot.snap, d)]
        /\ boot.snap[d].fails \in 0 .. Threshold
    BY <1>1, <1>6 DEF BootReconcile, FirstOf, BootOK
  <2>2. BootOK'
    BY <1>1, <2>1 DEF BootOK, BootShape, Without
  <2>3. /\ UNCHANGED <<state, fails>> \/ Upsert(d, "broken", boot.snap[d].fails)
        /\ UNCHANGED job \/ StartReset(StartUp, d)
    BY <1>6 DEF BootReconcile
  <2>4. TablesOK'
    <3>1. CASE UNCHANGED <<state, fails>>
      BY <1>1, <1>2, <3>1 DEF TablesOK
    <3> QED  BY <1>1, <1>2, <2>1, <2>3, <3>1, RowWritten DEF DeviceStates
  <2>5. JobsOK'
    BY <1>1, <1>4, <2>3, ResetStarted DEF JobsOK
  <2> QED  BY <1>3, <2>2, <2>4, <2>5, TypeJoins
<1>7. ASSUME NEW d \in Devices, BootEnsure(d)
      PROVE  TypeInv'
  <2>1. BootOK'
    BY <1>1, <1>7 DEF BootEnsure, BootOK, BootShape
  <2>2. CASE UNCHANGED <<state, fails, job>>
    BY <1>1, <1>2, <1>3, <2>1, <2>2, TypeJoins DEF TablesOK, JobsOK
  <2>3. ASSUME Upsert(d, "creating", 0),
               job' = [job EXCEPT ![StartUp] =
                         [pc |-> "create", kind |-> "create", dev |-> d,
                          ident |-> ident[d], fails |-> 0, cur |-> NoRow]]
        PROVE  TypeInv'
    <3>1. TablesOK'
      BY <1>1, <1>2, <2>3, RowWritten, ManagerAssumption DEF DeviceStates
    <3>2. [pc |-> "create", kind |-> "create", dev |-> d,
           ident |-> ident[d], fails |-> 0, cur |-> NoRow] \in Jobs
      BY <1>1, ManagerAssumption DEF TablesOK, Jobs
    <3>3. JobsOK'
      BY <1>1, <2>3, <3>2 DEF JobsOK
    <3> QED  BY <1>3, <2>1, <3>1, <3>3, TypeJoins
  <2> QED  BY <1>7, <2>2, <2>3 DEF BootEnsure
<1> QED  BY <1>5, <1>6, <1>7 DEF BootStep

LEMMA TypeStep == TypeInv /\ [Next]_vars => TypeInv'
<1> SUFFICES ASSUME TypeInv, [Next]_vars PROVE TypeInv'
  OBVIOUS
<1> USE DEF rows, node
<1>1. TablesOK /\ NodeOK /\ JobsOK /\ HealthOK /\ BootOK /\ crashes \in 0 .. MaxCrashes
  BY TypeParts
<1>2. ASSUME NEW d \in Devices, ContainerLost(d)
      PROVE  TypeInv'
  <2>1. NodeOK'
    BY <1>1, <1>2 DEF ContainerLost, NodeOK, Containers, Gone, AnyIdentity
  <2>2. TablesOK' /\ JobsOK' /\ HealthOK' /\ BootOK' /\ crashes' \in 0 .. MaxCrashes
    BY <1>1, <1>2 DEF ContainerLost, TablesOK, JobsOK, HealthOK, BootOK, BootShape
  <2> QED  BY <2>1, <2>2, TypeJoins
<1>3. CASE Crash
  <2>1. TablesOK' /\ NodeOK'
    BY <1>1, <1>3 DEF Crash, TablesOK, NodeOK
  <2>2. JobsOK'
    BY <1>3 DEF Crash, JobsOK, Jobs
  <2>3. HealthOK' /\ BootOK'
    BY <1>3 DEF Crash, HealthOK, BootOK, BootShape, Booting, Nothing
  <2>4. crashes' \in 0 .. MaxCrashes
    BY <1>1, <1>3, ManagerAssumption DEF Crash
  <2> QED  BY <2>1, <2>2, <2>3, <2>4, TypeJoins
<1>4. CASE UNCHANGED vars
  BY <1>1, <1>4, TypeJoins DEF vars, TablesOK, NodeOK, JobsOK, HealthOK, BootOK, BootShape
<1> QED  BY <1>2, <1>3, <1>4, TypeLeases, TypeIdentity, TypeHealth, TypeBoot, TypeRebuild DEF Next

LEMMA TypeInit == Init => TypeInv
<1> SUFFICES ASSUME Init PROVE TypeInv
  OBVIOUS
<1>1. TablesOK /\ NodeOK /\ JobsOK
  BY ManagerAssumption
     DEF Init, TablesOK, NodeOK, JobsOK, Containers, AnyIdentity, Jobs, NoRow
<1>2. HealthOK /\ BootOK /\ crashes \in 0 .. MaxCrashes
  BY ManagerAssumption DEF Init, HealthOK, BootOK, BootShape, Booting, Nothing
<1> QED  BY <1>1, <1>2, TypeParts

LEMMA TypedAlways == Spec => []TypeInv
<1> QED  BY TypeInit, TypeStep, PTL DEF Spec

\* The tables, the node and every goroutine keep their types, with every actor
\* and fault: the counter of failed probes never passes the threshold, because
\* whoever puts a device into service writes a counter below it.
THEOREM ManagerTypeCorrect == Spec => []TypeOK
<1>1. TypeInv => TypeOK
  BY DEF TypeInv
<1> QED  BY <1>1, TypedAlways, PTL

-----------------------------------------------------------------------------
(* A daemon that does not crash, with its watchdog, its API releases and   *)
(* its start-up goroutine, and every fault of the node.  The state column  *)
(* is the lock: who rebuilds a device has it in creating or resetting.     *)

SameDaemon == Actors \subseteq {"reaper"} /\ MaxCrashes = 0

\* The state of a device says whether, and which way, it is being rebuilt.
StateIsLock(w) ==
    \/ /\ job[w].kind = "reset" /\ state[job[w].dev] = "resetting"
       /\ job[w].pc \in {"remove", "wipe", "create", "boot", "finish"}
    \/ /\ job[w].kind = "create" /\ state[job[w].dev] = "creating"
       /\ job[w].pc \in {"create", "boot", "finish"}
OneRebuilder ==
    /\ \A w \in Workers : Busy(w) => StateIsLock(w)
    /\ \A v, w \in Workers : Busy(v) /\ Busy(w) /\ job[v].dev = job[w].dev => v = w

\* There is nothing to reconcile, and Ensure makes every device once.
FirstStart ==
    /\ DOMAIN boot.snap = {}
    /\ boot.pc = "list" => \A d \in Devices : state[d] = NoRow
    /\ boot.pc # "list" => \A d \in Devices : state[d] = NoRow <=> d \in boot.todo

\* Where a rebuild has wiped, or nobody has written, there are no files.
Wiped ==
    /\ \A d \in Devices : state[d] \in {NoRow, "creating", "ready"} => data[d] = {}
    /\ \A w \in Workers :
           Busy(w) /\ job[w].pc \in {"create", "boot", "finish"} => data[job[w].dev] = {}

CoreInv == TypeInv /\ Exclusive /\ OneRebuilder /\ FirstStart /\ Wiped
           /\ TablesAgree /\ CleanHandover

\* A legal step of the state of one device.
Legal == \A d \in Devices :
             state'[d] # state[d] =>
                 <<state[d], state'[d]>> \in ValidTransitions \cup {<<NoRow, "creating">>}

\* What a claim changes in the tables.
LEMMA ClaimTables ==
    ASSUME TypeInv, NEW l \in LeaseIds, NEW k \in Keys, Claim(l, k)
    PROVE  \E d \in Devices :
              /\ state[d] = "ready" /\ LeaseOn(d) = {}
              /\ state'[d] = "leased" /\ LeaseOn(d)' = {l}
              /\ \A e \in Devices \ {d} : state'[e] = state[e] /\ LeaseOn(e)' = LeaseOn(e)
              /\ lease'[l].dev = d
              /\ \A m \in LeaseIds \ {l} : Active(m)' = Active(m) /\ lease'[m] = lease[m]
<1>1. PICK d \in Devices :
         FirstFree(d) /\ GrantLease(l, [status |-> "active", key |-> k, dev |-> d])
  BY DEF Claim
<1>2. state[d] = "ready" /\ LeaseOn(d) = {}
  BY <1>1 DEF FirstFree, FreeDevices
<1>3. /\ lease[l] = Unissued
      /\ lease' = [lease EXCEPT ![l] = [status |-> "active", key |-> k, dev |-> d]]
      /\ state' = [state EXCEPT ![d] = "leased"]
  BY <1>1 DEF GrantLease
<1>4. /\ lease'[l] = [status |-> "active", key |-> k, dev |-> d]
      /\ \A m \in LeaseIds \ {l} : lease'[m] = lease[m]
      /\ state'[d] = "leased" /\ \A e \in Devices \ {d} : state'[e] = state[e]
  BY <1>3 DEF TypeInv, TypeOK
<1>5. ~Active(l)
  BY <1>3 DEF Active, Unissued
<1>6. LeaseOn(d)' = {l} /\ \A e \in Devices \ {d} : LeaseOn(e)' = LeaseOn(e)
  BY <1>2, <1>4, <1>5 DEF LeaseOn, Active
<1>7. \A m \in LeaseIds \ {l} : Active(m)' = Active(m)
  BY <1>4 DEF Active
<1> QED  BY <1>2, <1>4, <1>6, <1>7

\* What the end of a lease changes in the tables.
LEMMA CloseTables ==
    ASSUME TypeInv, Exclusive, NEW l \in LeaseIds, CloseLease(l)
    PROVE  \E d \in Devices :
              /\ d = lease[l].dev /\ l \in LeaseOn(d)
              /\ state'[d] = "resetting" /\ LeaseOn(d)' = {}
              /\ \A e \in Devices \ {d} : state'[e] = state[e] /\ LeaseOn(e)' = LeaseOn(e)
              /\ ~Active(l)'
              /\ \A m \in LeaseIds \ {l} : Active(m)' = Active(m) /\ lease'[m] = lease[m]
<1>1. Active(l) /\ lease[l] \in Rows
  BY FullRow DEF CloseLease, TypeInv, TypeOK, LeasesTyped
<1>2. PICK d \in Devices : d = lease[l].dev
  BY <1>1 DEF Rows
<1>3. /\ lease' = [lease EXCEPT ![l] = [lease[l] EXCEPT !.status = "released"]]
      /\ state' = [state EXCEPT ![d] = "resetting"]
  BY <1>2 DEF CloseLease
<1>4. /\ lease'[l].status = "released" /\ \A m \in LeaseIds \ {l} : lease'[m] = lease[m]
      /\ state'[d] = "resetting" /\ \A e \in Devices \ {d} : state'[e] = state[e]
  BY <1>1, <1>3 DEF TypeInv, TypeOK, Rows
<1>5. ~Active(l)' /\ \A m \in LeaseIds \ {l} : Active(m)' = Active(m)
  BY <1>4 DEF Active
<1>6. \A m \in LeaseIds : Active(m) /\ lease[m].dev = d => m = l
  BY <1>1, <1>2 DEF Exclusive, OneLeasePerDevice
<1>7. LeaseOn(d)' = {}
  BY <1>4, <1>5, <1>6 DEF LeaseOn
<1>8. \A e \in Devices \ {d} : LeaseOn(e)' = LeaseOn(e)
  BY <1>2, <1>4, <1>5 DEF LeaseOn
<1> QED  BY <1>1, <1>2, <1>4, <1>5, <1>7, <1>8 DEF LeaseOn

\* Nobody rebuilds a device whose state is none of a rebuild.
LEMMA NobodyThere ==
    ASSUME OneRebuilder, NEW d, state[d] \notin {"creating", "resetting"},
           NEW w \in Workers, Busy(w)
    PROVE  job[w].dev # d
BY DEF OneRebuilder, StateIsLock

LEMMA CoreClaim ==
    ASSUME CoreInv, TypeInv', Exclusive', NEW l \in LeaseIds, NEW k \in Keys, Claim(l, k)
    PROVE  CoreInv' /\ Legal
<1>1. PICK d \in Devices :
              /\ state[d] = "ready" /\ LeaseOn(d) = {}
              /\ state'[d] = "leased" /\ LeaseOn(d)' = {l}
              /\ \A e \in Devices \ {d} : state'[e] = state[e] /\ LeaseOn(e)' = LeaseOn(e)
              /\ lease'[l].dev = d
              /\ \A m \in LeaseIds \ {l} : Active(m)' = Active(m) /\ lease'[m] = lease[m]
  BY ClaimTables DEF CoreInv
<1>2. UNCHANGED <<data, job, boot>>
  BY DEF Claim, node
<1>3. \A w \in Workers : Busy(w) => job[w].dev \in Devices \ {d}
  <2> SUFFICES ASSUME NEW w \in Workers, Busy(w) PROVE job[w].dev \in Devices \ {d}
    OBVIOUS
  <2>1. job[w].dev # d
    BY <1>1, NobodyThere DEF CoreInv
  <2>2. job[w].dev \in Devices
    BY DEF CoreInv, TypeInv, TypeOK, Busy, Jobs, NoJob
  <2> QED  BY <2>1, <2>2
<1>4. OneRebuilder'
  BY <1>1, <1>2, <1>3 DEF CoreInv, OneRebuilder, StateIsLock, Busy
<1>5. FirstStart' /\ Wiped'
  BY <1>1, <1>2 DEF CoreInv, FirstStart, Wiped, Busy, NoRow
<1>6. TablesAgree'
  BY <1>1 DEF CoreInv, TablesAgree
<1>7. CleanHandover'
  <2>1. data[d] = {}
    BY <1>1 DEF CoreInv, Wiped
  <2> QED  BY <1>1, <1>2, <2>1 DEF CoreInv, CleanHandover
<1>8. Legal
  BY <1>1 DEF Legal, ValidTransitions
<1> QED  BY <1>4, <1>5, <1>6, <1>7, <1>8 DEF CoreInv

LEMMA CoreClose ==
    ASSUME CoreInv, TypeInv', Exclusive', NEW l \in LeaseIds, NEW w \in Workers,
           CloseLease(l), StartReset(w, lease[l].dev), UNCHANGED <<data, boot>>
    PROVE  CoreInv' /\ Legal
<1>1. PICK d \in Devices :
              /\ d = lease[l].dev /\ l \in LeaseOn(d)
              /\ state'[d] = "resetting" /\ LeaseOn(d)' = {}
              /\ \A e \in Devices \ {d} : state'[e] = state[e] /\ LeaseOn(e)' = LeaseOn(e)
              /\ ~Active(l)'
              /\ \A m \in LeaseIds \ {l} : Active(m)' = Active(m) /\ lease'[m] = lease[m]
  BY CloseTables DEF CoreInv
<1>2. state[d] = "leased"
  BY <1>1 DEF CoreInv, TablesAgree
<1>3. \A v \in Workers : Busy(v) => job[v].dev \in Devices \ {d}
  <2> SUFFICES ASSUME NEW v \in Workers, Busy(v) PROVE job[v].dev \in Devices \ {d}
    OBVIOUS
  <2>1. job[v].dev # d
    BY <1>2, NobodyThere DEF CoreInv
  <2>2. job[v].dev \in Devices
    BY DEF CoreInv, TypeInv, TypeOK, Busy, Jobs, NoJob
  <2> QED  BY <2>1, <2>2
<1>4. /\ job'[w].pc = "remove" /\ job'[w].kind = "reset" /\ job'[w].dev = d
      /\ \A v \in Workers \ {w} : job'[v] = job[v]
  BY <1>1 DEF CoreInv, TypeInv, TypeOK, StartReset, ResetOf
<1>5. OneRebuilder'
  BY <1>1, <1>3, <1>4 DEF CoreInv, OneRebuilder, StateIsLock, Busy
<1>6. FirstStart' /\ Wiped'
  <2>1. FirstStart'
    BY <1>1, <1>2 DEF CoreInv, FirstStart, NoRow
  <2>2. \A e \in Devices : state'[e] \in {NoRow, "creating", "ready"} => data'[e] = {}
    BY <1>1 DEF CoreInv, Wiped, NoRow
  <2>3. \A v \in Workers :
            Busy(v)' /\ job'[v].pc \in {"create", "boot", "finish"} => data'[job'[v].dev] = {}
    BY <1>4 DEF CoreInv, Wiped, Busy
  <2> QED  BY <2>1, <2>2, <2>3 DEF Wiped
<1>7. TablesAgree'
  BY <1>1 DEF CoreInv, TablesAgree
<1>8. CleanHandover'
  BY <1>1 DEF CoreInv, CleanHandover
<1>9. Legal
  BY <1>1, <1>2 DEF Legal, ValidTransitions
<1> QED  BY <1>5, <1>6, <1>7, <1>8, <1>9 DEF CoreInv

LEMMA CoreRebuild ==
    ASSUME CoreInv, TypeInv', Exclusive', NEW w \in Workers, Rebuild(w)
    PROVE  CoreInv' /\ Legal
<1> USE DEF rows, node
<1>1. /\ job \in [Workers -> Jobs] /\ state \in [Devices -> DeviceStates \cup {NoRow}]
      /\ data \in [Devices -> SUBSET LeaseIds]
  BY DEF CoreInv, TypeInv, TypeOK
<1>2. job[w].pc # "idle" /\ job[w] \in Jobs \ {NoJob} /\ job[w].dev \in Devices
  <2>1. job[w].pc # "idle"
    BY DEF Rebuild, Remove, Wipe, Create, WaitBoot, Fail, Finish
  <2> QED  BY <1>1, <2>1 DEF Jobs, NoJob
<1>3. PICK d \in Devices : d = job[w].dev
  BY <1>2
<1>4. /\ Busy(w) /\ StateIsLock(w)
      /\ \A v \in Workers \ {w} : Busy(v) => job[v].dev # d
  BY <1>2, <1>3 DEF CoreInv, OneRebuilder, Busy
<1>5. UNCHANGED <<lease, boot>>
  BY DEF Rebuild, Remove, Wipe, Create, WaitBoot, Fail, Finish
<1>6. \A pc : Advance(w, pc) => /\ job'[w].pc = pc /\ job'[w].kind = job[w].kind
                                /\ job'[w].dev = d /\ \A v \in Workers \ {w} : job'[v] = job[v]
  BY <1>1, <1>2, <1>3 DEF Advance, Jobs, NoJob
\* A call that leaves the tables alone.
<1>7. CASE Remove(w) \/ Wipe(w) \/ Create(w) \/ WaitBoot(w)
  <2>1. PICK pc \in {"wipe", "create", "boot", "finish"} :
            /\ Advance(w, pc)
            /\ pc = "wipe" <=> job[w].pc = "remove"
            /\ pc = "create" <=> job[w].pc = "wipe"
            /\ job[w].pc \in {"remove", "wipe", "create", "boot"}
            /\ data' = IF job[w].pc = "wipe" THEN [data EXCEPT ![d] = {}] ELSE data
            /\ UNCHANGED state
    BY <1>3, <1>7 DEF Remove, Wipe, Create, WaitBoot
  <2>2. /\ job'[w].pc = pc /\ job'[w].kind = job[w].kind /\ job'[w].dev = d
        /\ \A v \in Workers \ {w} : job'[v] = job[v]
    BY <1>6, <2>1
  <2>3. OneRebuilder'
    <3>1. StateIsLock(w)'
      BY <1>3, <1>4, <2>1, <2>2 DEF StateIsLock
    <3>2. \A v \in Workers \ {w} : Busy(v)' => StateIsLock(v)'
      BY <2>1, <2>2 DEF CoreInv, OneRebuilder, StateIsLock, Busy
    <3> QED  BY <1>4, <2>2, <3>1, <3>2 DEF CoreInv, OneRebuilder, Busy
  <2>4. \A e \in Devices : data'[e] \in {data[e], {}} /\ (e # d => data'[e] = data[e])
    BY <1>1, <2>1
  <2>5. FirstStart' /\ TablesAgree' /\ Legal
    BY <1>5, <2>1 DEF CoreInv, FirstStart, TablesAgree, LeaseOn, Active, Legal
  <2>6. Wiped'
    <3>1. \A e \in Devices : state'[e] \in {NoRow, "creating", "ready"} => data'[e] = {}
      BY <2>1, <2>4 DEF CoreInv, Wiped
    <3>2. pc \in {"create", "boot", "finish"} => data'[d] = {}
      BY <1>1, <1>3, <1>4, <2>1 DEF CoreInv, Wiped
    <3>3. \A v \in Workers \ {w} : Busy(v) /\ job[v].pc \in {"create", "boot", "finish"}
                                       => job[v].dev \in Devices /\ data'[job[v].dev] = {}
      <4> SUFFICES ASSUME NEW v \in Workers, Busy(v), job[v].pc \in {"create", "boot", "finish"}
                   PROVE  job[v].dev \in Devices /\ data'[job[v].dev] = {}
        OBVIOUS
      <4>1. job[v].dev \in Devices
        BY <1>1 DEF Busy, Jobs
      <4>2. data[job[v].dev] = {}
        BY DEF CoreInv, Wiped
      <4> QED  BY <2>4, <4>1, <4>2
    <3> QED  BY <2>2, <3>1, <3>2, <3>3 DEF Wiped, Busy
  <2>7. CleanHandover'
    <3> SUFFICES ASSUME NEW l \in LeaseIds, Active(l) PROVE data'[lease[l].dev] \subseteq {l}
      BY <1>5 DEF CleanHandover, Active
    <3>1. lease[l].dev \in Devices /\ data[lease[l].dev] \subseteq {l}
      BY FullRow DEF CoreInv, CleanHandover, TypeInv, TypeOK, LeasesTyped, Rows
    <3> QED  BY <2>4, <3>1
  <2> QED  BY <2>3, <2>5, <2>6, <2>7 DEF CoreInv
\* The rebuild ends, and with it the lock.
<1>8. ASSUME NEW s \in {"ready", "broken"}, state' = [state EXCEPT ![d] = s], End(w),
             UNCHANGED data, s = "ready" => job[w].pc = "finish"
      PROVE  CoreInv' /\ Legal
  <2>1. state'[d] = s /\ state[d] \in {"creating", "resetting"}
        /\ \A e \in Devices \ {d} : state'[e] = state[e]
    BY <1>1, <1>3, <1>4, <1>8 DEF StateIsLock
  <2>2. job'[w] = NoJob /\ \A v \in Workers \ {w} : job'[v] = job[v]
    BY <1>1, <1>8 DEF End
  <2>3. \A v \in Workers \ {w} : Busy(v) => job[v].dev \in Devices \ {d}
    BY <1>1, <1>4 DEF Busy, Jobs
  <2>4. OneRebuilder'
    BY <2>1, <2>2, <2>3 DEF CoreInv, OneRebuilder, StateIsLock, Busy
  <2>5. FirstStart'
    BY <1>5, <2>1 DEF CoreInv, FirstStart, NoRow
  <2>6. Wiped'
    <3>1. s = "ready" => data[d] = {}
      BY <1>3, <1>4, <1>8 DEF CoreInv, Wiped
    <3>2. \A e \in Devices : state'[e] \in {NoRow, "creating", "ready"} => data'[e] = {}
      BY <1>8, <2>1, <3>1 DEF CoreInv, Wiped, NoRow
    <3> QED  BY <1>8, <2>2, <3>2 DEF CoreInv, Wiped, Busy
  <2>7. TablesAgree' /\ CleanHandover'
    BY <1>5, <1>8, <2>1 DEF CoreInv, TablesAgree, CleanHandover, LeaseOn, Active
  <2>8. Legal
    BY <1>8, <2>1 DEF Legal, ValidTransitions
  <2> QED  BY <2>4, <2>5, <2>6, <2>7, <2>8 DEF CoreInv
<1>9. CASE Fail(w)
  BY <1>3, <1>8, <1>9 DEF Fail, Upsert
<1>10. CASE Finish(w)
  BY <1>3, <1>8, <1>10 DEF Finish, Upsert
<1> QED  BY <1>7, <1>9, <1>10 DEF Rebuild

LEMMA CoreAgentWrites ==
    ASSUME CoreInv, TypeInv', Exclusive', NEW l \in LeaseIds, AgentWrites(l)
    PROVE  CoreInv' /\ Legal
<1> USE DEF rows
<1>1. Active(l) /\ UNCHANGED <<lease, state, job, boot>>
  BY DEF AgentWrites
<1>2. PICK d \in Devices : d = lease[l].dev
  BY <1>1, FullRow DEF CoreInv, TypeInv, TypeOK, LeasesTyped, Rows
<1>3. /\ data'[d] = data[d] \cup {l} /\ \A e \in Devices \ {d} : data'[e] = data[e]
  BY <1>2 DEF AgentWrites, CoreInv, TypeInv, TypeOK
<1>4. state[d] = "leased"
  BY <1>1, <1>2 DEF CoreInv, TablesAgree, LeaseOn
<1>5. \A w \in Workers : Busy(w) => job[w].dev \in Devices \ {d}
  <2> SUFFICES ASSUME NEW w \in Workers, Busy(w) PROVE job[w].dev \in Devices \ {d}
    OBVIOUS
  <2>1. job[w].dev # d
    BY <1>4, NobodyThere DEF CoreInv
  <2>2. job[w].dev \in Devices
    BY DEF CoreInv, TypeInv, TypeOK, Busy, Jobs, NoJob
  <2> QED  BY <2>1, <2>2
<1>6. Wiped'
  <2>1. \A e \in Devices : state'[e] \in {NoRow, "creating", "ready"} => data'[e] = {}
    BY <1>1, <1>3, <1>4 DEF CoreInv, Wiped, NoRow
  <2> QED  BY <1>1, <1>3, <1>5, <2>1 DEF CoreInv, Wiped, Busy
<1>7. CleanHandover'
  <2> SUFFICES ASSUME NEW m \in LeaseIds, Active(m) PROVE data'[lease[m].dev] \subseteq {m}
    BY <1>1 DEF CleanHandover, Active
  <2>1. lease[m].dev \in Devices /\ data[lease[m].dev] \subseteq {m}
    BY FullRow DEF CoreInv, CleanHandover, TypeInv, TypeOK, LeasesTyped, Rows
  <2>2. lease[m].dev = d => m = l
    BY <1>1, <1>2 DEF CoreInv, Exclusive, OneLeasePerDevice
  <2> QED  BY <1>3, <2>1, <2>2
<1>8. OneRebuilder' /\ FirstStart' /\ TablesAgree' /\ Legal
  BY <1>1 DEF CoreInv, OneRebuilder, StateIsLock, Busy, FirstStart, TablesAgree, LeaseOn,
              Active, Legal
<1> QED  BY <1>6, <1>7, <1>8 DEF CoreInv

LEMMA CoreBoot ==
    ASSUME CoreInv, TypeInv', Exclusive', BootStep
    PROVE  CoreInv' /\ Legal
<1> USE DEF rows, node
<1>1. /\ job \in [Workers -> Jobs] /\ state \in [Devices -> DeviceStates \cup {NoRow}]
      /\ StartUp \in Workers /\ BootShape
  BY DEF CoreInv, TypeInv, TypeOK, Workers, StartUp
<1>2. UNCHANGED <<lease, data>>
  BY DEF BootStep, BootList, BootListFailed, BootReconciled, BootReconcile, BootEnsure
<1>3. ASSUME UNCHANGED <<state, job>>
      PROVE  OneRebuilder' /\ Wiped' /\ TablesAgree' /\ CleanHandover' /\ Legal
  BY <1>2, <1>3 DEF CoreInv, OneRebuilder, StateIsLock, Busy, Wiped, TablesAgree, CleanHandover,
                    LeaseOn, Active, Legal
<1>4. CASE BootList \/ BootListFailed \/ BootReconciled
  <2>1. UNCHANGED <<state, job>>
    BY <1>4 DEF BootList, BootListFailed, BootReconciled
  <2>2. ASSUME BootList PROVE FirstStart'
    <3>1. \A d \in Devices : state[d] = NoRow
      BY <2>2 DEF BootList, CoreInv, FirstStart
    <3>2. boot'.pc = "reconcile" /\ boot'.todo = Devices
          /\ boot'.snap = [d \in {e \in Devices : state[e] # NoRow} |->
                              [state |-> state[d], fails |-> fails[d]]]
      BY <2>2 DEF BootList
    <3>3. DOMAIN boot'.snap = {}
      BY <3>1, <3>2
    <3> QED  BY <2>1, <3>1, <3>2, <3>3 DEF FirstStart
  <2>3. ASSUME BootListFailed PROVE FirstStart'
    <3>1. \A d \in Devices : state[d] = NoRow
      BY <2>3 DEF BootListFailed, CoreInv, FirstStart
    <3>2. boot'.pc = "ensure" /\ boot'.todo = Devices /\ boot'.snap = boot.snap
      BY <1>1, <2>3 DEF BootListFailed, BootShape
    <3> QED  BY <2>1, <3>1, <3>2 DEF CoreInv, FirstStart
  <2>4. ASSUME BootReconciled PROVE FirstStart'
    <3>1. /\ boot.pc # "list" /\ boot'.pc = "ensure"
          /\ boot'.todo = boot.todo /\ boot'.snap = boot.snap
      BY <1>1, <2>4 DEF BootReconciled, BootShape
    <3> QED  BY <2>1, <3>1 DEF CoreInv, FirstStart
  <2>5. FirstStart'
    BY <1>4, <2>2, <2>3, <2>4
  <2> QED  BY <1>3, <2>1, <2>5 DEF CoreInv
\* The snapshot of the rows is empty.
<1>5. ASSUME NEW d \in Devices, BootReconcile(d)
      PROVE  FALSE
  BY <1>5 DEF BootReconcile, FirstOf, CoreInv, FirstStart
<1>6. ASSUME NEW d \in Devices, BootEnsure(d)
      PROVE  CoreInv' /\ Legal
  <2>1. d \in boot.todo /\ state[d] = NoRow /\ ~Busy(StartUp)
    BY <1>6 DEF BootEnsure, FirstOf, CoreInv, FirstStart
  <2>2. /\ state' = [state EXCEPT ![d] = "creating"]
        /\ job' = [job EXCEPT ![StartUp] =
                     [pc |-> "create", kind |-> "create", dev |-> d,
                      ident |-> ident[d], fails |-> 0, cur |-> NoRow]]
    BY <1>6, <2>1 DEF BootEnsure, Upsert
  <2>3. state'[d] = "creating" /\ \A e \in Devices \ {d} : state'[e] = state[e]
    BY <1>1, <2>2
  <2>4. /\ job'[StartUp].pc = "create" /\ job'[StartUp].kind = "create" /\ job'[StartUp].dev = d
        /\ \A v \in Workers \ {StartUp} : job'[v] = job[v]
    BY <1>1, <2>2
  <2>5. \A v \in Workers : Busy(v) => job[v].dev \in Devices \ {d}
    <3> SUFFICES ASSUME NEW v \in Workers, Busy(v) PROVE job[v].dev \in Devices \ {d}
      OBVIOUS
    <3>1. job[v].dev # d
      BY <2>1, NobodyThere DEF CoreInv, NoRow
    <3>2. job[v].dev \in Devices
      BY <1>1 DEF Busy, Jobs
    <3> QED  BY <3>1, <3>2
  <2>6. OneRebuilder'
    BY <2>3, <2>4, <2>5 DEF CoreInv, OneRebuilder, StateIsLock, Busy
  <2>7. FirstStart'
    <3>1. boot.pc = "ensure"
      BY <1>6 DEF BootEnsure
    <3>2. boot'.pc # "list" /\ boot'.todo = boot.todo \ {d} /\ boot'.snap = boot.snap
      BY <1>1, <1>6, <3>1 DEF BootEnsure, BootShape
    <3> QED  BY <2>3, <3>1, <3>2 DEF CoreInv, FirstStart, NoRow
  <2>8. data[d] = {}
    BY <2>1 DEF CoreInv, Wiped
  <2>9. Wiped'
    <3>1. \A e \in Devices : state'[e] \in {NoRow, "creating", "ready"} => data'[e] = {}
      BY <1>2, <2>3, <2>8 DEF CoreInv, Wiped
    <3>2. \A v \in Workers :
              Busy(v)' /\ job'[v].pc \in {"create", "boot", "finish"} => data'[job'[v].dev] = {}
      BY <1>2, <2>4, <2>8 DEF CoreInv, Wiped, Busy
    <3> QED  BY <3>1, <3>2 DEF Wiped
  <2>10. TablesAgree'
    BY <1>2, <2>1, <2>3 DEF CoreInv, TablesAgree, LeaseOn, Active, NoRow
  <2>11. CleanHandover'
    BY <1>2 DEF CoreInv, CleanHandover, Active
  <2>12. Legal
    BY <2>1, <2>3 DEF Legal
  <2> QED  BY <2>6, <2>7, <2>9, <2>10, <2>11, <2>12 DEF CoreInv
<1> QED  BY <1>4, <1>5, <1>6 DEF BootStep

LEMMA CoreStep ==
    ASSUME SameDaemon, CoreInv, TypeInv', Exclusive', [Next]_vars
    PROVE  CoreInv' /\ Legal
<1> USE DEF rows, node
<1>1. "identity" \notin Actors /\ "health" \notin Actors /\ ~Crash
  BY DEF SameDaemon, Crash, CoreInv, TypeInv, TypeOK
<1>2. ASSUME NEW l \in LeaseIds, Release(l) \/ Reap(l)
      PROVE  CoreInv' /\ Legal
  <2>1. PICK w \in {<<"api", l>>, Reaper} : StartReset(w, lease[l].dev)
    BY <1>2 DEF Release, Reap
  <2>2. w \in Workers
    BY DEF Workers, Reaper
  <2> QED  BY <1>2, <2>1, <2>2, CoreClose DEF Release, Reap
<1>3. CASE (\E d \in Devices : ContainerLost(d)) \/ UNCHANGED vars
  <2>1. UNCHANGED <<lease, state, data, job, boot>>
    BY <1>3 DEF ContainerLost, vars
  <2>2. OneRebuilder' /\ Wiped'
    BY <2>1 DEF CoreInv, OneRebuilder, StateIsLock, Busy, Wiped
  <2>3. FirstStart' /\ Legal
    BY <2>1 DEF CoreInv, FirstStart, Legal
  <2>4. TablesAgree' /\ CleanHandover'
    BY <2>1 DEF CoreInv, TablesAgree, CleanHandover, LeaseOn, Active
  <2> QED  BY <2>2, <2>3, <2>4 DEF CoreInv
<1> QED  BY <1>1, <1>2, <1>3, CoreClaim, CoreAgentWrites, CoreBoot, CoreRebuild DEF Next

LEMMA CoreInit == Init => CoreInv
<1> SUFFICES ASSUME Init PROVE CoreInv
  OBVIOUS
<1>1. \A l \in LeaseIds : ~Active(l)
  BY DEF Init, Active, Unissued
<1>2. Exclusive /\ TablesAgree /\ CleanHandover
  BY <1>1 DEF Init, Exclusive, OneLeasePerKey, OneLeasePerDevice, TablesAgree, LeaseOn,
              CleanHandover, NoRow
<1>3. OneRebuilder /\ Wiped
  BY DEF Init, OneRebuilder, Wiped, Busy
<1>4. FirstStart
  BY DEF Init, FirstStart, Booting, Nothing
<1> QED  BY <1>2, <1>3, <1>4, TypeInit DEF CoreInv

LEMMA CoreAlways == SameDaemon => (Spec => []CoreInv)
<1>1. SameDaemon /\ CoreInv /\ TypeInv' /\ Exclusive' /\ [Next]_vars => CoreInv'
  BY CoreStep
<1>2. SameDaemon => []SameDaemon
  <2>1. SameDaemon => SameDaemon'
    BY DEF SameDaemon
  <2> QED  BY <2>1, PTL
<1> QED  BY <1>1, <1>2, CoreInit, TypedAlways, ExclusiveHolds, PTL DEF Spec

\* The files of one tenant are gone before the next, whatever node calls fail:
\* a device reaches ready only through a wipe that succeeded.
THEOREM CleanHandoverHolds ==
    ASSUME SameDaemon
    PROVE  Spec => []CleanHandover
<1>1. CoreInv => CleanHandover
  BY DEF CoreInv
<1> QED  BY <1>1, CoreAlways, PTL

\* Rebuilders that differ rebuild different devices: no device has two.
LEMMA OneAtATime ==
    ASSUME \A v, w \in Workers : Busy(v) /\ Busy(w) /\ job[v].dev = job[w].dev => v = w,
           NEW d \in Devices
    PROVE  Cardinality(RebuildsOf(d)) <= 1
<1>1. \A v, w \in RebuildsOf(d) : v = w
  BY DEF RebuildsOf
<1>2. CASE RebuildsOf(d) = {}
  BY <1>2, FS_EmptySet
<1>3. CASE RebuildsOf(d) # {}
  <2>1. PICK w : RebuildsOf(d) = {w}
    BY <1>1, <1>3
  <2>2. Cardinality({w}) = 1
    BY FS_Singleton
  <2> QED  BY <2>1, <2>2
<1> QED  BY <1>2, <1>3

\* The state column is enough of a lock between the API releases, the watchdog
\* and the start-up goroutine, in a pool of any size.
THEOREM ExclusiveRebuildHolds ==
    ASSUME SameDaemon
    PROVE  Spec => []ExclusiveRebuild
<1>1. ASSUME CoreInv, NEW d \in Devices
      PROVE  Cardinality(RebuildsOf(d)) <= 1
  BY <1>1, OneAtATime DEF CoreInv, OneRebuilder
<1>2. ASSUME CoreInv, NEW l \in LeaseIds, Active(l)
      PROVE  RebuildsOf(lease[l].dev) = {}
  <2>1. lease[l].dev \in Devices
    BY <1>2, FullRow DEF CoreInv, TypeInv, TypeOK, LeasesTyped, Rows
  <2>2. state[lease[l].dev] = "leased"
    BY <1>2, <2>1 DEF CoreInv, TablesAgree, LeaseOn
  <2> QED  BY <1>2, <2>2, NobodyThere DEF RebuildsOf, CoreInv
<1>3. CoreInv => ExclusiveRebuild
  BY <1>1, <1>2 DEF ExclusiveRebuild
<1> QED  BY <1>3, CoreAlways, PTL

\* Leases and device states agree at every moment, though a release closes
\* the one in a transaction and a goroutine writes the other much later.
THEOREM TablesAgreeHolds ==
    ASSUME SameDaemon
    PROVE  Spec => []TablesAgree
<1>1. CoreInv => TablesAgree
  BY DEF CoreInv
<1> QED  BY <1>1, CoreAlways, PTL

\* Nobody takes the state of a device where validTransitions does not lead,
\* although UpsertDevice never looks at them.
THEOREM LegalTransitionsHold ==
    ASSUME SameDaemon
    PROVE  Spec => LegalTransitions
<1>1. SameDaemon /\ CoreInv /\ TypeInv' /\ Exclusive' /\ [Next]_vars
        => [\A d \in Devices :
              state'[d] # state[d] =>
                  <<state[d], state'[d]>> \in ValidTransitions \cup {<<NoRow, "creating">>}]_vars
  BY CoreStep DEF Legal
<1>2. SameDaemon => []SameDaemon
  <2>1. SameDaemon => SameDaemon'
    BY DEF SameDaemon
  <2> QED  BY <2>1, PTL
<1> QED  BY <1>1, <1>2, CoreAlways, TypedAlways, ExclusiveHolds, PTL DEF Spec, LegalTransitions

-----------------------------------------------------------------------------
(* A daemon that crashes, any number of times and between any two calls.   *)
(* The start-up finds rows in the middle of a rebuild nobody runs any more *)
(* and rebuilds them itself, since, as ReconcileStore says, nobody else    *)
(* does.  For that to be true no lease of a device it is about to rebuild  *)
(* may end first: the release would start a second rebuild of the device.  *)

\* The snapshot of the start-up tells it to touch d.
Pending(d) ==
    /\ d \in DOMAIN boot.snap
    /\ \/ boot.snap[d].state \in {"resetting", "creating"}
       \/ boot.snap[d].state \in {"ready", "leased"} /\ d \notin boot.run
LeftToStartUp(d) ==
    boot.pc = "list" \/ Pending(d) \/ (Busy(StartUp) /\ job[StartUp].dev = d)
StartUpGoesFirst ==
    \A l \in LeaseIds : Active(l) /\ ~Active(l)' => ~LeftToStartUp(lease[l].dev)

\* Who rebuilds a device holds its state; only the start-up rebuilds in creating.
HoldsState(w) ==
    /\ job[w].pc \in {"remove", "wipe", "create", "boot", "finish"}
    /\ \/ job[w].kind = "reset" /\ state[job[w].dev] = "resetting"
       \/ w = StartUp /\ job[w].kind = "reset" /\ state[job[w].dev] = "creating"
       \/ w = StartUp /\ job[w].kind = "create" /\ state[job[w].dev] = "creating"
          /\ job[w].pc \in {"create", "boot", "finish"}
InTurn ==
    /\ \A w \in Workers : Busy(w) => HoldsState(w) /\ ~Pending(job[w].dev) /\ boot.pc # "list"
    /\ \A v, w \in Workers : Busy(v) /\ Busy(w) /\ job[v].dev = job[w].dev => v = w

\* What the snapshot says of a pending device is still so, or it was claimed.
SnapTrue ==
    /\ boot.pc # "reconcile" => DOMAIN boot.snap = {}
    /\ \A d \in Devices : Pending(d) =>
           \/ boot.snap[d].state = state[d]
           \/ boot.snap[d].state = "ready" /\ state[d] = "leased"

\* Nobody holds a device that waits for its reset.
ResettingFree == \A d \in Devices : state[d] = "resetting" => LeaseOn(d) = {}

TurnInv == TypeInv /\ Exclusive /\ InTurn /\ SnapTrue /\ ResettingFree

\* Only a device that waits for its reset has files of somebody who left.
CleanWhere ==
    /\ \A d \in Devices : state[d] # "resetting" => data[d] \subseteq LeaseOn(d)
    /\ \A w \in Workers :
           Busy(w) /\ job[w].pc \in {"create", "boot", "finish"}
               => data[job[w].dev] \subseteq LeaseOn(job[w].dev)

\* Where no container exits, a device in service has one.
InService ==
    /\ \A d \in Devices : state[d] \in {"ready", "leased"} => cont[d].run # "none"
    /\ \A w \in Workers : Busy(w) /\ job[w].pc = "finish" => cont[job[w].dev].run # "none"
    /\ \A d \in DOMAIN boot.snap : boot.snap[d].state \in {"ready", "leased"} => d \in boot.run

(* What the steps change.                                                  *)

LEMMA JobThere ==
    ASSUME TypeInv, NEW w \in Workers, Busy(w)
    PROVE  job[w] \in Jobs \ {NoJob} /\ job[w].dev \in Devices
BY DEF TypeInv, TypeOK, Busy, Jobs, NoJob

\* The rebuild of d by w goes on, ...
GoesOn(w, d) ==
    \E pc \in {"wipe", "create", "boot", "finish"} :
        /\ job'[w].pc = pc /\ job'[w].kind = job[w].kind /\ job'[w].dev = d /\ Busy(w)'
        /\ <<job[w].pc, pc>> \in {<<"remove", "wipe">>, <<"wipe", "create">>,
                                  <<"create", "boot">>, <<"boot", "finish">>}
        /\ UNCHANGED state
        /\ data' = IF pc = "create" THEN [data EXCEPT ![d] = {}] ELSE data
        /\ pc = "finish" => cont'[d].run # "none"

\* ... or is over.
IsOver(w, d) ==
    /\ job'[w] = NoJob
    /\ state'[d] \in {"ready", "broken"} /\ \A e \in Devices \ {d} : state'[e] = state[e]
    /\ UNCHANGED data
    /\ state'[d] = "ready" => job[w].pc = "finish" /\ UNCHANGED cont
    /\ state'[d] = "broken" => job[w].pc \in {"create", "boot"} \/ "wipe" \in Faults

LEMMA RebuildEffect ==
    ASSUME TurnInv, NEW w \in Workers, Rebuild(w)
    PROVE  \E d \in Devices :
              /\ d = job[w].dev /\ Busy(w) /\ HoldsState(w) /\ ~Pending(d) /\ boot.pc # "list"
              /\ \A v \in Workers \ {w} :
                     job'[v] = job[v] /\ (Busy(v) => job[v].dev \in Devices \ {d})
              /\ \A e \in Devices \ {d} : cont'[e] = cont[e]
              /\ UNCHANGED <<lease, boot>>
              /\ GoesOn(w, d) \/ IsOver(w, d)
<1> USE DEF rows, node
<1>1. /\ job \in [Workers -> Jobs] /\ state \in [Devices -> DeviceStates \cup {NoRow}]
      /\ data \in [Devices -> SUBSET LeaseIds] /\ cont \in [Devices -> Containers]
  BY DEF TurnInv, TypeInv, TypeOK
<1>2. job[w].pc # "idle"
  BY DEF Rebuild, Remove, Wipe, Create, WaitBoot, Fail, Finish
<1>3. Busy(w)
  BY <1>2 DEF Busy, NoJob
<1>4. PICK d \in Devices : d = job[w].dev
  BY <1>3, JobThere DEF TurnInv
<1>5. HoldsState(w) /\ ~Pending(d) /\ boot.pc # "list"
  BY <1>3, <1>4 DEF TurnInv, InTurn
<1>6. \A v \in Workers \ {w} : Busy(v) => job[v].dev \in Devices \ {d}
  BY <1>3, <1>4, JobThere DEF TurnInv, InTurn
<1>7. UNCHANGED <<lease, boot>>
  BY DEF Rebuild, Remove, Wipe, Create, WaitBoot, Fail, Finish
<1>8. \A v \in Workers \ {w} : job'[v] = job[v]
  BY <1>1 DEF Rebuild, Remove, Wipe, Create, WaitBoot, Fail, Finish, Advance, End
<1>9. \A e \in Devices \ {d} : cont'[e] = cont[e]
  BY <1>1, <1>4 DEF Rebuild, Remove, Wipe, Create, WaitBoot, Fail, Finish
<1>10. ASSUME Remove(w) \/ Wipe(w) \/ Create(w) \/ WaitBoot(w)
       PROVE  GoesOn(w, d)
  <2>1. PICK pc \in {"wipe", "create", "boot", "finish"} :
            /\ Advance(w, pc) /\ UNCHANGED state
            /\ <<job[w].pc, pc>> \in {<<"remove", "wipe">>, <<"wipe", "create">>,
                                      <<"create", "boot">>, <<"boot", "finish">>}
            /\ data' = IF pc = "create" THEN [data EXCEPT ![d] = {}] ELSE data
            /\ pc = "finish" => cont' = [cont EXCEPT ![d].run = "up"]
    BY <1>4, <1>10 DEF Remove, Wipe, Create, WaitBoot
  <2>2. /\ job'[w].pc = pc /\ job'[w].kind = job[w].kind /\ job'[w].dev = d /\ Busy(w)'
    BY <1>1, <1>3, <1>4, <2>1 DEF Advance, Jobs, NoJob, Busy
  <2>3. pc = "finish" => cont'[d].run # "none"
    BY <1>1, <2>1 DEF Containers
  <2> QED  BY <2>1, <2>2, <2>3 DEF GoesOn
<1>11. ASSUME Fail(w)
       PROVE  IsOver(w, d)
  <2>1. /\ job'[w] = NoJob /\ state'[d] = "broken"
        /\ \A e \in Devices \ {d} : state'[e] = state[e]
        /\ UNCHANGED data
    BY <1>1, <1>4, <1>11 DEF Fail, End, Upsert
  <2>2. job[w].pc \in {"create", "boot"} \/ "wipe" \in Faults
    BY <1>11 DEF Fail
  <2> QED  BY <2>1, <2>2 DEF IsOver
<1>12. ASSUME Finish(w)
       PROVE  IsOver(w, d)
  BY <1>1, <1>4, <1>12 DEF Finish, End, Upsert, IsOver
<1>13. GoesOn(w, d) \/ IsOver(w, d)
  BY <1>10, <1>11, <1>12 DEF Rebuild
<1> QED  BY <1>3, <1>4, <1>5, <1>6, <1>7, <1>8, <1>9, <1>13

\* A lease ends on a device nobody rebuilds, and its reset begins.
LEMMA CloseEffect ==
    ASSUME TurnInv, [StartUpGoesFirst]_vars, NEW l \in LeaseIds, Release(l) \/ Reap(l)
    PROVE  \E d \in Devices, w \in Workers :
              /\ ~Pending(d) /\ boot.pc # "list" /\ LeaseOn(d) # {}
              /\ state'[d] = "resetting" /\ LeaseOn(d)' = {}
              /\ \A e \in Devices \ {d} : state'[e] = state[e] /\ LeaseOn(e)' = LeaseOn(e)
              /\ \A v \in Workers : Busy(v) => job[v].dev \in Devices \ {d}
              /\ job'[w].pc = "remove" /\ job'[w].kind = "reset" /\ job'[w].dev = d /\ Busy(w)'
              /\ \A v \in Workers \ {w} : job'[v] = job[v]
              /\ UNCHANGED <<data, cont, boot>>
<1> USE DEF rows, node
<1>1. PICK w \in Workers : CloseLease(l) /\ StartReset(w, lease[l].dev)
  <2>1. <<"api", l>> \in Workers /\ Reaper \in Workers
    BY DEF Workers, Reaper
  <2> QED  BY <2>1 DEF Release, Reap
<1>2. PICK d \in Devices :
              /\ d = lease[l].dev /\ l \in LeaseOn(d)
              /\ state'[d] = "resetting" /\ LeaseOn(d)' = {}
              /\ \A e \in Devices \ {d} : state'[e] = state[e] /\ LeaseOn(e)' = LeaseOn(e)
              /\ ~Active(l)'
              /\ \A m \in LeaseIds \ {l} : Active(m)' = Active(m) /\ lease'[m] = lease[m]
  BY <1>1, CloseTables DEF TurnInv
<1>3. ~LeftToStartUp(d)
  <2>1. Active(l) /\ ~Active(l)'
    BY <1>1, <1>2 DEF CloseLease
  <2>2. StartUpGoesFirst
    BY <2>1 DEF vars, Active
  <2> QED  BY <1>2, <2>1, <2>2 DEF StartUpGoesFirst
<1>4. ASSUME NEW v \in Workers, Busy(v)
      PROVE  job[v].dev \in Devices \ {d}
  <2>1. job[v].dev # d
    BY <1>2, <1>3, <1>4 DEF TurnInv, InTurn, HoldsState, ResettingFree, LeftToStartUp
  <2> QED  BY <1>4, <2>1, JobThere DEF TurnInv
<1>5. /\ job'[w].pc = "remove" /\ job'[w].kind = "reset" /\ job'[w].dev = d /\ Busy(w)'
      /\ \A v \in Workers \ {w} : job'[v] = job[v]
  BY <1>1, <1>2 DEF TurnInv, TypeInv, TypeOK, StartReset, ResetOf, Busy, NoJob
<1>6. UNCHANGED <<data, cont, boot>>
  BY DEF Release, Reap
<1>7. ~Pending(d) /\ boot.pc # "list" /\ LeaseOn(d) # {}
  BY <1>2, <1>3 DEF LeftToStartUp
<1> QED  BY <1>2, <1>4, <1>5, <1>6, <1>7

(* One rebuilder at a time, through restarts.                              *)

LEMMA TurnRebuild ==
    ASSUME TurnInv, NEW w \in Workers, Rebuild(w)
    PROVE  InTurn' /\ SnapTrue' /\ ResettingFree'
<1>1. PICK d \in Devices :
              /\ d = job[w].dev /\ Busy(w) /\ HoldsState(w) /\ ~Pending(d) /\ boot.pc # "list"
              /\ \A v \in Workers \ {w} :
                     job'[v] = job[v] /\ (Busy(v) => job[v].dev \in Devices \ {d})
              /\ \A e \in Devices \ {d} : cont'[e] = cont[e]
              /\ UNCHANGED <<lease, boot>>
              /\ GoesOn(w, d) \/ IsOver(w, d)
  BY RebuildEffect
<1>2. /\ \A e \in Devices : Pending(e)' = Pending(e) /\ LeaseOn(e)' = LeaseOn(e)
      /\ \A v \in Workers \ {w} : Busy(v)' = Busy(v)
  BY <1>1 DEF Pending, LeaseOn, Active, Busy
<1>3. \A v \in Workers \ {w} :
          Busy(v) => HoldsState(v) /\ ~Pending(job[v].dev)
                     /\ \A u \in Workers : Busy(u) /\ job[u].dev = job[v].dev => u = v
  BY DEF TurnInv, InTurn
<1>4. CASE GoesOn(w, d)
  <2>1. UNCHANGED state /\ job'[w].dev = d /\ Busy(w)'
    BY <1>4 DEF GoesOn
  <2>2. HoldsState(w)'
    BY <1>1, <1>4 DEF GoesOn, HoldsState
  <2>3. \A v \in Workers \ {w} : Busy(v)' => HoldsState(v)' /\ ~Pending(job[v].dev)'
    BY <1>1, <1>2, <1>3, <2>1 DEF HoldsState
  <2>4. InTurn'
    BY <1>1, <1>2, <1>3, <2>1, <2>2, <2>3 DEF InTurn
  <2>5. SnapTrue' /\ ResettingFree'
    BY <1>1, <1>2, <2>1 DEF TurnInv, SnapTrue, ResettingFree
  <2> QED  BY <2>4, <2>5
<1>5. CASE IsOver(w, d)
  <2>1. /\ ~Busy(w)' /\ state'[d] \in {"ready", "broken"}
        /\ \A e \in Devices \ {d} : state'[e] = state[e]
    BY <1>5 DEF IsOver, Busy
  <2>2. \A v \in Workers \ {w} : Busy(v)' => HoldsState(v)' /\ ~Pending(job[v].dev)'
    BY <1>1, <1>2, <1>3, <2>1 DEF HoldsState
  <2>3. InTurn'
    BY <1>1, <1>2, <1>3, <2>1, <2>2 DEF InTurn
  <2>4. SnapTrue' /\ ResettingFree'
    BY <1>1, <1>2, <2>1 DEF TurnInv, SnapTrue, ResettingFree
  <2> QED  BY <2>3, <2>4
<1> QED  BY <1>1, <1>4, <1>5

LEMMA TurnClaim ==
    ASSUME TurnInv, NEW l \in LeaseIds, NEW k \in Keys, Claim(l, k)
    PROVE  InTurn' /\ SnapTrue' /\ ResettingFree'
<1>1. PICK d \in Devices :
              /\ state[d] = "ready" /\ state'[d] = "leased"
              /\ \A e \in Devices \ {d} : state'[e] = state[e] /\ LeaseOn(e)' = LeaseOn(e)
  BY ClaimTables DEF TurnInv
<1>2. UNCHANGED <<job, boot>>
  BY DEF Claim
<1>3. \A w \in Workers : Busy(w) => job[w].dev \in Devices \ {d}
  BY <1>1, JobThere DEF TurnInv, InTurn, HoldsState
<1>4. InTurn'
  BY <1>1, <1>2, <1>3 DEF TurnInv, InTurn, HoldsState, Busy, Pending
<1>5. SnapTrue'
  <2>1. \A e \in Devices : Pending(e)' = Pending(e)
    BY <1>2 DEF Pending
  <2> QED  BY <1>1, <1>2, <2>1 DEF TurnInv, SnapTrue
<1>6. ResettingFree'
  BY <1>1 DEF TurnInv, ResettingFree
<1> QED  BY <1>4, <1>5, <1>6

LEMMA TurnClose ==
    ASSUME TurnInv, [StartUpGoesFirst]_vars, NEW l \in LeaseIds, Release(l) \/ Reap(l)
    PROVE  InTurn' /\ SnapTrue' /\ ResettingFree'
<1>1. PICK d \in Devices, w \in Workers :
              /\ ~Pending(d) /\ boot.pc # "list" /\ LeaseOn(d) # {}
              /\ state'[d] = "resetting" /\ LeaseOn(d)' = {}
              /\ \A e \in Devices \ {d} : state'[e] = state[e] /\ LeaseOn(e)' = LeaseOn(e)
              /\ \A v \in Workers : Busy(v) => job[v].dev \in Devices \ {d}
              /\ job'[w].pc = "remove" /\ job'[w].kind = "reset" /\ job'[w].dev = d /\ Busy(w)'
              /\ \A v \in Workers \ {w} : job'[v] = job[v]
              /\ UNCHANGED <<data, cont, boot>>
  BY CloseEffect
<1>2. /\ \A e \in Devices : Pending(e)' = Pending(e)
      /\ \A v \in Workers \ {w} : Busy(v)' = Busy(v)
  BY <1>1 DEF Pending, Busy
<1>3. \A v \in Workers \ {w} : Busy(v)' => HoldsState(v)' /\ ~Pending(job[v].dev)'
  BY <1>1, <1>2 DEF TurnInv, InTurn, HoldsState
<1>4. HoldsState(w)'
  BY <1>1 DEF HoldsState
<1>5. \A u, v \in Workers : Busy(u)' /\ Busy(v)' /\ job'[u].dev = job'[v].dev => u = v
  BY <1>1, <1>2 DEF TurnInv, InTurn
<1>6. InTurn'
  BY <1>1, <1>2, <1>3, <1>4, <1>5 DEF InTurn
<1>7. SnapTrue' /\ ResettingFree'
  BY <1>1, <1>2 DEF TurnInv, SnapTrue, ResettingFree
<1> QED  BY <1>6, <1>7

\* What the start-up does to a device: it takes up a rebuild, gives the device
\* up, or does nothing.
TakesUp(d) ==
    /\ \A v \in Workers : Busy(v) => job[v].dev \in Devices \ {d}
    /\ \A v \in Workers \ {StartUp} : job'[v] = job[v]
    /\ Busy(StartUp)' /\ job'[StartUp].dev = d
    /\ \A e \in Devices \ {d} : state'[e] = state[e]
    /\ \/ /\ job'[StartUp].kind = "reset" /\ job'[StartUp].pc = "remove"
          /\ state[d] \in {"resetting", "creating"} /\ UNCHANGED state
       \/ /\ job'[StartUp].kind = "create" /\ job'[StartUp].pc = "create"
          /\ state[d] \in {NoRow, "broken"} /\ state'[d] = "creating"
GivesUp(d) ==
    /\ UNCHANGED job
    /\ state[d] \in {"ready", "leased"} /\ d \notin boot.run /\ d \in DOMAIN boot.snap
    /\ boot.snap[d].state \in {"ready", "leased"}
    /\ state'[d] = "broken" /\ \A e \in Devices \ {d} : state'[e] = state[e]

LEMMA StartUpEffect ==
    ASSUME TurnInv, NEW d \in Devices, BootReconcile(d) \/ BootEnsure(d)
    PROVE  /\ UNCHANGED <<lease, data, cont>> /\ boot'.pc # "list"
           /\ boot'.pc # "reconcile" => DOMAIN boot'.snap = {}
           /\ \A e \in DOMAIN boot'.snap : e \in DOMAIN boot.snap /\ boot'.snap[e] = boot.snap[e]
           /\ \A e \in Devices : Pending(e)' => e # d /\ Pending(e) /\ boot'.snap[e] = boot.snap[e]
           /\ boot'.run = boot.run
           /\ TakesUp(d) \/ GivesUp(d) \/ UNCHANGED <<state, job>>
<1> USE DEF rows, node
<1>1. /\ job \in [Workers -> Jobs] /\ state \in [Devices -> DeviceStates \cup {NoRow}]
      /\ StartUp \in Workers /\ BootShape
  BY DEF TurnInv, TypeInv, TypeOK, Workers, StartUp
<1>2. CASE BootReconcile(d)
  <2>1. /\ boot.pc = "reconcile" /\ ~Busy(StartUp) /\ d \in DOMAIN boot.snap
        /\ UNCHANGED <<lease, data, cont>>
    BY <1>2 DEF BootReconcile, FirstOf
  <2>2. boot'.pc = boot.pc /\ boot'.run = boot.run /\ boot'.snap = Without(boot.snap, d)
    BY <1>1, <1>2 DEF BootReconcile, BootShape
  <2>3. /\ DOMAIN boot'.snap = DOMAIN boot.snap \ {d}
        /\ \A e \in DOMAIN boot.snap \ {d} : boot'.snap[e] = boot.snap[e]
    BY <2>2 DEF Without
  <2>4. \A e \in Devices : Pending(e)' => e # d /\ Pending(e) /\ boot'.snap[e] = boot.snap[e]
    BY <2>2, <2>3 DEF Pending
  <2>5. CASE boot.snap[d].state \in {"ready", "leased"} /\ d \notin boot.run
             /\ Upsert(d, "broken", boot.snap[d].fails) /\ UNCHANGED job
    <3>1. state[d] \in {"ready", "leased"}
      BY <2>1, <2>5 DEF TurnInv, SnapTrue, Pending
    <3> QED  BY <1>1, <2>1, <2>2, <2>3, <2>4, <2>5, <3>1 DEF GivesUp, Upsert
  <2>6. CASE boot.snap[d].state \in {"resetting", "creating"} /\ StartReset(StartUp, d)
             /\ UNCHANGED <<state, fails>>
    <3>1. Pending(d)
      BY <2>1, <2>6 DEF Pending
    <3>2. state[d] \in {"resetting", "creating"}
      BY <2>6, <3>1 DEF TurnInv, SnapTrue
    <3>3. \A v \in Workers : Busy(v) => job[v].dev \in Devices \ {d}
      BY <3>1, JobThere DEF TurnInv, InTurn
    <3>4. /\ \A v \in Workers \ {StartUp} : job'[v] = job[v]
          /\ job'[StartUp] = ResetOf(d)
      BY <1>1, <2>6 DEF StartReset
    <3>5. TakesUp(d)
      BY <2>6, <3>2, <3>3, <3>4 DEF TakesUp, ResetOf, Busy, NoJob
    <3> QED  BY <2>1, <2>2, <2>3, <2>4, <3>5
  <2> QED  BY <1>2, <2>1, <2>2, <2>3, <2>4, <2>5, <2>6 DEF BootReconcile
<1>3. CASE BootEnsure(d)
  <2>1. boot.pc = "ensure" /\ ~Busy(StartUp) /\ UNCHANGED <<lease, data, cont>>
    BY <1>3 DEF BootEnsure
  <2>2. boot'.pc \in {"ensure", "done"} /\ boot'.run = boot.run /\ boot'.snap = boot.snap
    BY <1>1, <1>3, <2>1 DEF BootEnsure, BootShape
  <2>3. DOMAIN boot.snap = {} /\ \A e \in Devices : ~Pending(e)'
    BY <2>1, <2>2 DEF TurnInv, SnapTrue, Pending
  <2>4. CASE state[d] \in {NoRow, "broken"}
    <3>1. \A v \in Workers : Busy(v) => job[v].dev \in Devices \ {d}
      BY <2>4, JobThere DEF TurnInv, InTurn, HoldsState, NoRow
    <3>2. /\ state' = [state EXCEPT ![d] = "creating"]
          /\ job' = [job EXCEPT ![StartUp] =
                       [pc |-> "create", kind |-> "create", dev |-> d,
                        ident |-> ident[d], fails |-> 0, cur |-> NoRow]]
      BY <1>3, <2>4 DEF BootEnsure, Upsert
    <3>3. TakesUp(d)
      BY <1>1, <2>4, <3>1, <3>2 DEF TakesUp, Busy, NoJob
    <3> QED  BY <2>1, <2>2, <2>3, <3>3
  <2>5. CASE state[d] \notin {NoRow, "broken"}
    <3>1. UNCHANGED <<state, job>>
      BY <1>3, <2>5 DEF BootEnsure
    <3> QED  BY <2>1, <2>2, <2>3, <3>1
  <2> QED  BY <2>4, <2>5
<1> QED  BY <1>2, <1>3

LEMMA TurnBoot ==
    ASSUME TurnInv, BootStep
    PROVE  InTurn' /\ SnapTrue' /\ ResettingFree'
<1> USE DEF rows, node
<1>1. BootShape
  BY DEF TurnInv, TypeInv
<1>2. CASE BootList \/ BootListFailed \/ BootReconciled
  <2>1. UNCHANGED <<lease, state, job>> /\ boot'.pc # "list"
    <3>1. CASE BootList
      BY <3>1 DEF BootList
    <3>2. CASE BootListFailed
      BY <1>1, <3>2 DEF BootListFailed, BootShape
    <3>3. CASE BootReconciled
      BY <1>1, <3>3 DEF BootReconciled, BootShape
    <3> QED  BY <1>2, <3>1, <3>2, <3>3
  <2>2. \A e \in Devices : LeaseOn(e)' = LeaseOn(e)
    BY <2>1 DEF LeaseOn, Active
  <2>3. CASE BootList
    <3>1. /\ boot'.pc = "reconcile"
          /\ boot'.snap = [d \in {e \in Devices : state[e] # NoRow} |->
                              [state |-> state[d], fails |-> fails[d]]]
      BY <2>3 DEF BootList
    <3>2. \A d \in DOMAIN boot'.snap : boot'.snap[d].state = state'[d]
      BY <2>1, <3>1
    <3>3. \A w \in Workers : ~Busy(w)'
      BY <2>1, <2>3 DEF BootList, TurnInv, InTurn, Busy
    <3> QED  BY <2>1, <2>2, <3>1, <3>2, <3>3
             DEF TurnInv, InTurn, SnapTrue, ResettingFree, Pending
  <2>4. CASE BootListFailed \/ BootReconciled
    <3>1. DOMAIN boot'.snap = {}
      BY <1>1, <2>4 DEF BootListFailed, BootReconciled, BootShape, TurnInv, SnapTrue
    <3>2. \A d \in Devices : ~Pending(d)'
      BY <3>1 DEF Pending
    <3>3. \A w \in Workers : Busy(w) => job[w].dev \in Devices
      BY JobThere DEF TurnInv
    <3>4. InTurn'
      BY <2>1, <3>2, <3>3 DEF TurnInv, InTurn, HoldsState, Busy
    <3> QED  BY <2>1, <2>2, <3>1, <3>2, <3>4 DEF TurnInv, SnapTrue, ResettingFree
  <2> QED  BY <1>2, <2>3, <2>4
<1>3. ASSUME NEW d \in Devices, BootReconcile(d) \/ BootEnsure(d)
      PROVE  InTurn' /\ SnapTrue' /\ ResettingFree'
  <2>1. /\ UNCHANGED lease /\ boot'.pc # "list"
        /\ boot'.pc # "reconcile" => DOMAIN boot'.snap = {}
        /\ \A e \in Devices : Pending(e)' => e # d /\ Pending(e) /\ boot'.snap[e] = boot.snap[e]
        /\ TakesUp(d) \/ GivesUp(d) \/ UNCHANGED <<state, job>>
    BY <1>3, StartUpEffect
  <2>2. \A e \in Devices : LeaseOn(e)' = LeaseOn(e)
    BY <2>1 DEF LeaseOn, Active
  <2>3. \A w \in Workers :
            Busy(w) => job[w].dev \in Devices /\ HoldsState(w) /\ ~Pending(job[w].dev)
    BY JobThere DEF TurnInv, InTurn
  <2>4. \A e \in Devices \ {d} : state'[e] = state[e]
    BY <2>1 DEF TakesUp, GivesUp
  <2>5. SnapTrue'
    BY <2>1, <2>4 DEF TurnInv, SnapTrue
  <2>6. ResettingFree'
    BY <2>1, <2>2, <2>4 DEF TakesUp, GivesUp, TurnInv, ResettingFree
  <2>7. InTurn'
    <3>1. CASE TakesUp(d)
      <4>1. \A v \in Workers \ {StartUp} :
                Busy(v)' => HoldsState(v)' /\ ~Pending(job[v].dev)' /\ job'[v].dev # d
        BY <2>1, <2>3, <2>4, <3>1 DEF TakesUp, HoldsState, Busy
      <4>2. HoldsState(StartUp)' /\ ~Pending(job[StartUp].dev)'
        BY <2>1, <3>1 DEF TakesUp, HoldsState
      <4> QED  BY <2>1, <3>1, <4>1, <4>2 DEF TakesUp, TurnInv, InTurn, Busy
    <3>2. CASE GivesUp(d)
      <4>1. \A v \in Workers : Busy(v)' => Busy(v) /\ job[v].dev # d
        BY <2>3, <3>2 DEF GivesUp, HoldsState, Busy
      <4> QED  BY <2>1, <2>3, <2>4, <3>2, <4>1 DEF GivesUp, TurnInv, InTurn, HoldsState, Busy
    <3>3. CASE UNCHANGED <<state, job>>
      BY <2>1, <2>3, <3>3 DEF TurnInv, InTurn, HoldsState, Busy
    <3> QED  BY <2>1, <3>1, <3>2, <3>3
  <2> QED  BY <2>5, <2>6, <2>7
<1> QED  BY <1>2, <1>3 DEF BootStep

LEMMA TurnStep ==
    ASSUME Actors \subseteq {"reaper"}, TurnInv, TypeInv', Exclusive', [Next]_vars,
           [StartUpGoesFirst]_vars
    PROVE  TurnInv'
<1> USE DEF rows, node
<1>1. CASE \E d \in Devices : ContainerLost(d)
  <2>1. UNCHANGED <<lease, state, job, boot>>
    BY <1>1 DEF ContainerLost
  <2> QED  BY <2>1 DEF TurnInv, InTurn, HoldsState, Busy, Pending, SnapTrue, ResettingFree,
                       LeaseOn, Active
<1>2. CASE (\E l \in LeaseIds : AgentWrites(l)) \/ UNCHANGED vars
  <2>1. UNCHANGED <<lease, state, job, boot>>
    BY <1>2 DEF AgentWrites, vars
  <2> QED  BY <2>1 DEF TurnInv, InTurn, HoldsState, Busy, Pending, SnapTrue, ResettingFree,
                       LeaseOn, Active
<1>3. CASE Crash
  <2>1. UNCHANGED <<lease, state>> /\ \A w \in Workers : ~Busy(w)'
    BY <1>3 DEF Crash, Busy
  <2>2. DOMAIN boot'.snap = {}
    BY <1>3 DEF Crash, Booting, Nothing
  <2> QED  BY <2>1, <2>2 DEF TurnInv, InTurn, Pending, SnapTrue, ResettingFree, LeaseOn, Active
<1>4. "identity" \notin Actors /\ "health" \notin Actors
  OBVIOUS
<1>5. CASE \/ \E l \in LeaseIds, k \in Keys : Claim(l, k)
           \/ \E l \in LeaseIds : Release(l) \/ Reap(l)
           \/ BootStep \/ \E w \in Workers : Rebuild(w)
  BY <1>5, TurnClaim, TurnClose, TurnBoot, TurnRebuild DEF TurnInv
<1> QED  BY <1>1, <1>2, <1>3, <1>4, <1>5 DEF Next

LEMMA TurnInit == Init => TurnInv
<1> SUFFICES ASSUME Init PROVE TurnInv
  OBVIOUS
<1>1. \A l \in LeaseIds : ~Active(l)
  BY DEF Init, Active, Unissued
<1>2. (\A w \in Workers : ~Busy(w)) /\ DOMAIN boot.snap = {}
  BY DEF Init, Busy, Booting, Nothing
<1>3. Exclusive /\ ResettingFree
  BY <1>1 DEF Exclusive, OneLeasePerKey, OneLeasePerDevice, ResettingFree, LeaseOn
<1>4. InTurn /\ SnapTrue
  BY <1>2 DEF InTurn, SnapTrue, Pending
<1> QED  BY <1>3, <1>4, TypeInit DEF TurnInv

-----------------------------------------------------------------------------
(* Files of earlier tenants, through restarts.                             *)

LEMMA CleanRebuild ==
    ASSUME "wipe" \notin Faults, TurnInv, CleanWhere, NEW w \in Workers, Rebuild(w)
    PROVE  CleanWhere'
<1>1. PICK d \in Devices :
              /\ d = job[w].dev /\ Busy(w) /\ HoldsState(w) /\ ~Pending(d) /\ boot.pc # "list"
              /\ \A v \in Workers \ {w} :
                     job'[v] = job[v] /\ (Busy(v) => job[v].dev \in Devices \ {d})
              /\ \A e \in Devices \ {d} : cont'[e] = cont[e]
              /\ UNCHANGED <<lease, boot>>
              /\ GoesOn(w, d) \/ IsOver(w, d)
  BY RebuildEffect
<1>2. data \in [Devices -> SUBSET LeaseIds]
  BY DEF TurnInv, TypeInv, TypeOK
<1>3. \A e \in Devices : LeaseOn(e)' = LeaseOn(e)
  BY <1>1 DEF LeaseOn, Active
<1>4. /\ \A e \in Devices : state[e] # "resetting" => data[e] \subseteq LeaseOn(e)
      /\ job[w].pc \in {"create", "boot", "finish"} => data[d] \subseteq LeaseOn(d)
      /\ \A v \in Workers \ {w} :
             Busy(v)' /\ job'[v].pc \in {"create", "boot", "finish"}
                 => job[v].dev \in Devices \ {d} /\ data[job[v].dev] \subseteq LeaseOn(job[v].dev)
  BY <1>1 DEF CleanWhere, Busy
<1>5. CASE GoesOn(w, d)
  <2>1. PICK pc \in {"wipe", "create", "boot", "finish"} :
            /\ job'[w].pc = pc /\ job'[w].dev = d
            /\ <<job[w].pc, pc>> \in {<<"remove", "wipe">>, <<"wipe", "create">>,
                                      <<"create", "boot">>, <<"boot", "finish">>}
            /\ UNCHANGED state
            /\ data' = IF pc = "create" THEN [data EXCEPT ![d] = {}] ELSE data
    BY <1>5 DEF GoesOn
  <2>2. \A e \in Devices : data'[e] \in {data[e], {}} /\ (e # d => data'[e] = data[e])
    BY <1>2, <2>1
  <2>3. pc \in {"create", "boot", "finish"} => data'[d] \subseteq LeaseOn(d)
    BY <1>2, <1>4, <2>1
  <2>4. \A e \in Devices : state'[e] # "resetting" => data'[e] \subseteq LeaseOn(e)'
    BY <1>3, <1>4, <2>1, <2>2
  <2>5. \A v \in Workers :
            Busy(v)' /\ job'[v].pc \in {"create", "boot", "finish"}
                => job'[v].dev \in Devices /\ data'[job'[v].dev] \subseteq LeaseOn(job'[v].dev)
    BY <1>1, <1>4, <2>1, <2>2, <2>3
  <2>6. \A v \in Workers : LeaseOn(job[v].dev)' = LeaseOn(job'[v].dev)
    BY <1>1 DEF LeaseOn, Active
  <2> QED  BY <2>4, <2>5, <2>6 DEF CleanWhere
<1>6. CASE IsOver(w, d)
  <2>1. /\ ~Busy(w)' /\ data' = data /\ data[d] \subseteq LeaseOn(d)
        /\ \A e \in Devices \ {d} : state'[e] = state[e]
    BY <1>4, <1>6 DEF IsOver, Busy
  <2>2. \A e \in Devices : state'[e] # "resetting" => data'[e] \subseteq LeaseOn(e)'
    BY <1>3, <1>4, <2>1
  <2>3. \A v \in Workers : LeaseOn(job[v].dev)' = LeaseOn(job'[v].dev)
    BY <1>1 DEF LeaseOn, Active
  <2>4. \A v \in Workers :
            Busy(v)' /\ job'[v].pc \in {"create", "boot", "finish"}
                => data'[job'[v].dev] \subseteq LeaseOn(job'[v].dev)
    BY <1>1, <1>4, <2>1
  <2> QED  BY <2>2, <2>3, <2>4 DEF CleanWhere
<1> QED  BY <1>1, <1>5, <1>6

LEMMA CleanTables ==
    ASSUME TurnInv, CleanWhere, [StartUpGoesFirst]_vars, NEW l \in LeaseIds,
           (\E k \in Keys : Claim(l, k)) \/ Release(l) \/ Reap(l)
    PROVE  CleanWhere'
<1> USE DEF node
<1>1. PICK d \in Devices :
              /\ state[d] = "ready" \/ state'[d] = "resetting"
              /\ LeaseOn(d) \subseteq LeaseOn(d)' \/ state'[d] = "resetting"
              /\ \A e \in Devices \ {d} : state'[e] = state[e] /\ LeaseOn(e)' = LeaseOn(e)
              /\ \A v \in Workers : Busy(v) => job[v].dev \in Devices \ {d}
              /\ \A v \in Workers : Busy(v)' => job'[v] = job[v] \/ job'[v].pc = "remove"
              /\ UNCHANGED data
  <2>1. CASE \E k \in Keys : Claim(l, k)
    <3>1. PICK d \in Devices :
              /\ state[d] = "ready" /\ LeaseOn(d) = {}
              /\ \A e \in Devices \ {d} : state'[e] = state[e] /\ LeaseOn(e)' = LeaseOn(e)
      BY <2>1, ClaimTables DEF TurnInv
    <3>2. \A v \in Workers : Busy(v) => job[v].dev \in Devices \ {d}
      BY <3>1, JobThere DEF TurnInv, InTurn, HoldsState
    <3>3. UNCHANGED <<data, job>>
      BY <2>1 DEF Claim
    <3> QED  BY <3>1, <3>2, <3>3
  <2>2. CASE Release(l) \/ Reap(l)
    BY <2>2, CloseEffect
  <2> QED  BY <2>1, <2>2
<1>2. \A e \in Devices : state'[e] # "resetting" => data'[e] \subseteq LeaseOn(e)'
  BY <1>1 DEF CleanWhere
<1>3. \A v \in Workers :
          Busy(v)' /\ job'[v].pc \in {"create", "boot", "finish"}
              => /\ job'[v] = job[v] /\ job[v].dev \in Devices \ {d}
                 /\ data[job[v].dev] \subseteq LeaseOn(job[v].dev)
  BY <1>1 DEF CleanWhere, Busy
<1>4. ASSUME NEW v \in Workers, Busy(v)', job'[v].pc \in {"create", "boot", "finish"}
      PROVE  data'[job'[v].dev] \subseteq LeaseOn(job[v].dev)'
  <2>1. PICK e \in Devices \ {d} : e = job[v].dev
    BY <1>3, <1>4
  <2>2. LeaseOn(job[v].dev)' = LeaseOn(e)' /\ data'[job'[v].dev] = data[e]
    BY <1>1, <1>3, <1>4, <2>1 DEF LeaseOn, Active
  <2> QED  BY <1>1, <1>3, <1>4, <2>1, <2>2
<1> QED  BY <1>2, <1>4 DEF CleanWhere

LEMMA CleanBoot ==
    ASSUME TurnInv, CleanWhere, BootStep
    PROVE  CleanWhere'
<1> USE DEF rows, node
<1>1. CASE BootList \/ BootListFailed \/ BootReconciled
  <2>1. UNCHANGED <<lease, state, job, data>>
    BY <1>1 DEF BootList, BootListFailed, BootReconciled
  <2> QED  BY <2>1 DEF CleanWhere, LeaseOn, Active, Busy
<1>2. ASSUME NEW d \in Devices, BootReconcile(d) \/ BootEnsure(d)
      PROVE  CleanWhere'
  <2>1. /\ UNCHANGED <<lease, data>>
        /\ TakesUp(d) \/ GivesUp(d) \/ UNCHANGED <<state, job>>
    BY <1>2, StartUpEffect
  <2>2. \A e \in Devices : state'[e] # "resetting" => state[e] # "resetting"
    BY <2>1 DEF TakesUp, GivesUp, NoRow
  <2>3. \A e \in Devices : state'[e] # "resetting" => data'[e] \subseteq LeaseOn(e)'
    BY <2>1, <2>2 DEF CleanWhere, LeaseOn, Active
  <2>4. \A v \in Workers :
            Busy(v)' /\ job'[v].pc \in {"create", "boot", "finish"}
                => data'[job'[v].dev] \subseteq LeaseOn(job'[v].dev)
    <3>1. CASE TakesUp(d)
      <4>1. job'[StartUp].pc = "create" => job'[StartUp].dev = d /\ data[d] \subseteq LeaseOn(d)
        BY <3>1 DEF TakesUp, CleanWhere, NoRow
      <4>2. job'[StartUp].pc \in {"create", "remove"}
        BY <3>1 DEF TakesUp
      <4> QED  BY <2>1, <3>1, <4>1, <4>2 DEF TakesUp, CleanWhere, Busy
    <3>2. CASE UNCHANGED job
      BY <2>1, <3>2 DEF CleanWhere, Busy
    <3> QED  BY <2>1, <3>1, <3>2 DEF GivesUp
  <2>5. \A v \in Workers : LeaseOn(job[v].dev)' = LeaseOn(job'[v].dev)
    BY <2>1 DEF LeaseOn, Active
  <2> QED  BY <2>3, <2>4, <2>5 DEF CleanWhere
<1> QED  BY <1>1, <1>2 DEF BootStep

LEMMA CleanStep ==
    ASSUME Actors \subseteq {"reaper"}, "wipe" \notin Faults,
           TurnInv, CleanWhere, [Next]_vars, [StartUpGoesFirst]_vars
    PROVE  CleanWhere'
<1> USE DEF rows, node
<1>1. CASE (\E d \in Devices : ContainerLost(d)) \/ UNCHANGED vars
  <2>1. UNCHANGED <<lease, state, job, data>>
    BY <1>1 DEF ContainerLost, vars
  <2> QED  BY <2>1 DEF CleanWhere, LeaseOn, Active, Busy
<1>2. CASE Crash
  <2>1. UNCHANGED <<lease, state, data>> /\ \A w \in Workers : ~Busy(w)'
    BY <1>2 DEF Crash, Busy
  <2> QED  BY <2>1 DEF CleanWhere, LeaseOn, Active
<1>3. ASSUME NEW l \in LeaseIds, AgentWrites(l)
      PROVE  CleanWhere'
  <2>1. /\ UNCHANGED <<lease, state, job>> /\ l \in LeaseOn(lease[l].dev)
        /\ data' = [data EXCEPT ![lease[l].dev] = @ \cup {l}]
    BY <1>3 DEF AgentWrites, LeaseOn
  <2>2. \A e \in Devices : data[e] \subseteq LeaseOn(e) => data'[e] \subseteq LeaseOn(e)
    BY <2>1 DEF TurnInv, TypeInv, TypeOK
  <2>3. \A e \in Devices : LeaseOn(e)' = LeaseOn(e)
    BY <2>1 DEF LeaseOn, Active
  <2>4. \A w \in Workers : Busy(w) => job[w].dev \in Devices
    BY JobThere DEF TurnInv
  <2>5. \A w \in Workers : LeaseOn(job[w].dev)' = LeaseOn(job[w].dev)
    BY <2>1 DEF LeaseOn, Active
  <2> QED  BY <2>1, <2>2, <2>3, <2>4, <2>5 DEF CleanWhere, Busy
<1>4. "identity" \notin Actors /\ "health" \notin Actors
  OBVIOUS
<1>5. CASE \E l \in LeaseIds : (\E k \in Keys : Claim(l, k)) \/ Release(l) \/ Reap(l)
  BY <1>5, CleanTables
<1>6. CASE BootStep \/ \E w \in Workers : Rebuild(w)
  BY <1>6, CleanBoot, CleanRebuild
<1> QED  BY <1>1, <1>2, <1>3, <1>4, <1>5, <1>6 DEF Next

\* A tenant never finds files of an earlier one, however often and wherever
\* the daemon dies, if a wipe does not fail and the start-up goes first: the
\* rebuild it interrupted is done again from the beginning.
THEOREM CleanHandoverThroughRestarts ==
    ASSUME Actors \subseteq {"reaper"}, "wipe" \notin Faults
    PROVE  Spec /\ [][StartUpGoesFirst]_vars => []CleanHandover
<1>1. TurnInv /\ TypeInv' /\ Exclusive' /\ [Next]_vars /\ [StartUpGoesFirst]_vars => TurnInv'
  BY TurnStep
<1>2. TurnInv /\ CleanWhere /\ [Next]_vars /\ [StartUpGoesFirst]_vars => CleanWhere'
  BY CleanStep
<1>3. Init => CleanWhere
  BY DEF Init, CleanWhere, Busy
<1>4. ASSUME TurnInv, CleanWhere
      PROVE  CleanHandover
  <2> SUFFICES ASSUME NEW l \in LeaseIds, Active(l)
               PROVE  data[lease[l].dev] \subseteq {l}
    BY DEF CleanHandover
  <2>1. PICK d \in Devices : d = lease[l].dev
    BY <1>4, FullRow DEF TurnInv, TypeInv, TypeOK, LeasesTyped, Rows
  <2>2. l \in LeaseOn(d)
    BY <2>1 DEF LeaseOn
  <2>3. LeaseOn(d) \subseteq {l}
    BY <1>4, <2>1 DEF LeaseOn, TurnInv, Exclusive, OneLeasePerDevice
  <2>4. data[d] \subseteq LeaseOn(d)
    BY <1>4, <2>2 DEF TurnInv, ResettingFree, CleanWhere
  <2> QED  BY <2>1, <2>3, <2>4
<1> QED  BY <1>1, <1>2, <1>3, <1>4, TurnInit, TypedAlways, ExclusiveHolds, PTL DEF Spec

-----------------------------------------------------------------------------
(* The state column as a lock, through restarts, where no container exits: *)
(* the start-up then never gives up a device that somebody holds.          *)

LEMMA LockRebuild ==
    ASSUME TurnInv, InService, TablesAgree, NEW w \in Workers, Rebuild(w)
    PROVE  InService' /\ TablesAgree' /\ Legal
<1>1. PICK d \in Devices :
              /\ d = job[w].dev /\ Busy(w) /\ HoldsState(w) /\ ~Pending(d) /\ boot.pc # "list"
              /\ \A v \in Workers \ {w} :
                     job'[v] = job[v] /\ (Busy(v) => job[v].dev \in Devices \ {d})
              /\ \A e \in Devices \ {d} : cont'[e] = cont[e]
              /\ UNCHANGED <<lease, boot>>
              /\ GoesOn(w, d) \/ IsOver(w, d)
  BY RebuildEffect
<1>2. state[d] \in {"resetting", "creating"}
  BY <1>1 DEF HoldsState
<1>3. \A e \in Devices : LeaseOn(e)' = LeaseOn(e)
  BY <1>1 DEF LeaseOn, Active
<1>4. \A v \in Workers \ {w} :
          Busy(v)' /\ job'[v].pc = "finish" => cont'[job'[v].dev].run # "none"
  BY <1>1 DEF InService, Busy
<1>5. CASE GoesOn(w, d)
  <2>1. UNCHANGED state /\ job'[w].dev = d /\ (job'[w].pc = "finish" => cont'[d].run # "none")
    BY <1>5 DEF GoesOn
  <2>2. InService'
    BY <1>1, <1>2, <1>4, <2>1 DEF InService
  <2> QED  BY <1>3, <2>1, <2>2 DEF TablesAgree, Legal
<1>6. CASE IsOver(w, d)
  <2>1. /\ ~Busy(w)' /\ state'[d] \in {"ready", "broken"}
        /\ \A e \in Devices \ {d} : state'[e] = state[e]
        /\ state'[d] = "ready" => job[w].pc = "finish" /\ UNCHANGED cont
    BY <1>6 DEF IsOver, Busy
  <2>2. state'[d] = "ready" => cont'[d].run # "none"
    BY <1>1, <2>1 DEF InService
  <2>3. InService'
    BY <1>1, <1>4, <2>1, <2>2 DEF InService
  <2>4. TablesAgree'
    BY <1>2, <1>3, <2>1 DEF TablesAgree
  <2>5. Legal
    BY <1>2, <2>1 DEF Legal, ValidTransitions
  <2> QED  BY <2>3, <2>4, <2>5
<1> QED  BY <1>1, <1>5, <1>6

LEMMA LockTables ==
    ASSUME TurnInv, InService, TablesAgree, [StartUpGoesFirst]_vars, NEW l \in LeaseIds,
           (\E k \in Keys : Claim(l, k)) \/ Release(l) \/ Reap(l)
    PROVE  InService' /\ TablesAgree' /\ Legal
<1> USE DEF node
<1>1. CASE \E k \in Keys : Claim(l, k)
  <2>1. PICK d \in Devices :
            /\ state[d] = "ready" /\ state'[d] = "leased" /\ LeaseOn(d)' = {l}
            /\ \A e \in Devices \ {d} : state'[e] = state[e] /\ LeaseOn(e)' = LeaseOn(e)
    BY <1>1, ClaimTables DEF TurnInv
  <2>2. UNCHANGED <<cont, job, boot>>
    BY <1>1 DEF Claim
  <2> QED  BY <2>1, <2>2 DEF InService, TablesAgree, Legal, ValidTransitions, Busy
<1>2. CASE Release(l) \/ Reap(l)
  <2>1. PICK d \in Devices, w \in Workers :
              /\ LeaseOn(d) # {} /\ state'[d] = "resetting" /\ LeaseOn(d)' = {}
              /\ \A e \in Devices \ {d} : state'[e] = state[e] /\ LeaseOn(e)' = LeaseOn(e)
              /\ job'[w].pc = "remove"
              /\ \A v \in Workers \ {w} : job'[v] = job[v]
              /\ UNCHANGED <<cont, boot>>
    BY <1>2, CloseEffect
  <2>2. state[d] = "leased"
    BY <2>1 DEF TablesAgree
  <2> QED  BY <2>1, <2>2 DEF InService, TablesAgree, Legal, ValidTransitions, Busy
<1> QED  BY <1>1, <1>2

LEMMA LockBoot ==
    ASSUME TurnInv, InService, TablesAgree, BootStep
    PROVE  InService' /\ TablesAgree' /\ Legal
<1> USE DEF rows, node
<1>1. CASE BootList \/ BootListFailed \/ BootReconciled
  <2>1. UNCHANGED <<lease, state, job, cont>>
    BY <1>1 DEF BootList, BootListFailed, BootReconciled
  <2>2. \A d \in DOMAIN boot'.snap : boot'.snap[d].state \in {"ready", "leased"} => d \in boot'.run
    <3>1. CASE BootList
      <4>1. /\ boot'.run = {d \in Devices : cont[d].run # "none"}
            /\ boot'.snap = [d \in {e \in Devices : state[e] # NoRow} |->
                                [state |-> state[d], fails |-> fails[d]]]
        BY <3>1 DEF BootList
      <4>2. \A d \in DOMAIN boot'.snap : d \in Devices /\ boot'.snap[d].state = state[d]
        BY <4>1
      <4> QED  BY <4>1, <4>2 DEF InService
    <3>2. CASE BootListFailed \/ BootReconciled
      BY <3>2 DEF BootListFailed, BootReconciled, BootShape, TurnInv, TypeInv, SnapTrue
    <3> QED  BY <1>1, <3>1, <3>2
  <2>3. InService'
    BY <2>1, <2>2 DEF InService, Busy
  <2> QED  BY <2>1, <2>3 DEF TablesAgree, LeaseOn, Active, Legal
<1>2. ASSUME NEW d \in Devices, BootReconcile(d) \/ BootEnsure(d)
      PROVE  InService' /\ TablesAgree' /\ Legal
  <2>1. /\ UNCHANGED <<lease, cont>> /\ boot'.run = boot.run
        /\ \A e \in DOMAIN boot'.snap : e \in DOMAIN boot.snap /\ boot'.snap[e] = boot.snap[e]
        /\ TakesUp(d) \/ GivesUp(d) \/ UNCHANGED <<state, job>>
    BY <1>2, StartUpEffect
  <2>2. ~GivesUp(d)
    BY DEF GivesUp, InService
  <2>3. \A e \in Devices : LeaseOn(e)' = LeaseOn(e)
    BY <2>1 DEF LeaseOn, Active
  <2>4. \A e \in Devices :
            state'[e] = state[e] \/ (state[e] \in {NoRow, "broken"} /\ state'[e] = "creating")
    BY <2>1, <2>2 DEF TakesUp
  <2>5. \A w \in Workers : Busy(w)' /\ job'[w].pc = "finish" => Busy(w) /\ job'[w] = job[w]
    BY <2>1, <2>2 DEF TakesUp, Busy
  <2>6. InService'
    BY <2>1, <2>4, <2>5 DEF InService
  <2>7. TablesAgree' /\ Legal
    BY <2>3, <2>4 DEF TablesAgree, Legal, ValidTransitions, NoRow
  <2> QED  BY <2>6, <2>7
<1> QED  BY <1>1, <1>2 DEF BootStep

LEMMA LockStep ==
    ASSUME Actors \subseteq {"reaper"}, "exit" \notin Faults,
           TurnInv, InService, TablesAgree, [Next]_vars, [StartUpGoesFirst]_vars
    PROVE  InService' /\ TablesAgree' /\ Legal
<1> USE DEF rows, node
<1>1. ASSUME NEW d \in Devices, ContainerLost(d)
      PROVE  InService' /\ TablesAgree' /\ Legal
  <2>1. UNCHANGED <<lease, state, job, boot>> /\ cont' = [cont EXCEPT ![d].run = "dead"]
    BY <1>1 DEF ContainerLost
  <2>2. \A e \in Devices : cont[e].run # "none" => cont'[e].run # "none"
    BY <2>1 DEF TurnInv, TypeInv, TypeOK, Containers
  <2>3. \A w \in Workers : Busy(w) => job[w].dev \in Devices
    BY JobThere DEF TurnInv
  <2>4. InService'
    BY <2>1, <2>2, <2>3 DEF InService, Busy
  <2> QED  BY <2>1, <2>4 DEF TablesAgree, LeaseOn, Active, Legal
<1>2. CASE (\E l \in LeaseIds : AgentWrites(l)) \/ UNCHANGED vars
  <2>1. UNCHANGED <<lease, state, job, cont, boot>>
    BY <1>2 DEF AgentWrites, vars
  <2> QED  BY <2>1 DEF InService, Busy, TablesAgree, LeaseOn, Active, Legal
<1>3. CASE Crash
  <2>1. /\ UNCHANGED <<lease, state, cont>> /\ \A w \in Workers : ~Busy(w)'
        /\ DOMAIN boot'.snap = {}
    BY <1>3 DEF Crash, Busy, Booting, Nothing
  <2> QED  BY <2>1 DEF InService, TablesAgree, LeaseOn, Active, Legal
<1>4. "identity" \notin Actors /\ "health" \notin Actors
  OBVIOUS
<1>5. CASE \E l \in LeaseIds : (\E k \in Keys : Claim(l, k)) \/ Release(l) \/ Reap(l)
  BY <1>5, LockTables
<1>6. CASE BootStep \/ \E w \in Workers : Rebuild(w)
  BY <1>6, LockBoot, LockRebuild
<1> QED  BY <1>1, <1>2, <1>3, <1>4, <1>5, <1>6 DEF Next

LockInv == TurnInv /\ InService /\ TablesAgree

LEMMA LockAlways ==
    ASSUME Actors \subseteq {"reaper"}, "exit" \notin Faults
    PROVE  Spec /\ [][StartUpGoesFirst]_vars => []LockInv
<1>1. LockInv /\ TypeInv' /\ Exclusive' /\ [Next]_vars /\ [StartUpGoesFirst]_vars => LockInv'
  BY TurnStep, LockStep DEF LockInv
<1>2. Init => LockInv
  <2> SUFFICES ASSUME Init PROVE LockInv
    OBVIOUS
  <2>1. InService
    BY DEF Init, InService, Busy, Booting, Nothing, NoRow
  <2>2. TablesAgree
    BY DEF Init, TablesAgree, LeaseOn, Active, Unissued, NoRow
  <2> QED  BY <2>1, <2>2, TurnInit DEF LockInv
<1> QED  BY <1>1, <1>2, TypedAlways, ExclusiveHolds, PTL DEF Spec

\* After any number of restarts a device is rebuilt by one goroutine at a time,
\* and never while it is leased.
THEOREM ExclusiveRebuildThroughRestarts ==
    ASSUME Actors \subseteq {"reaper"}, "exit" \notin Faults
    PROVE  Spec /\ [][StartUpGoesFirst]_vars => []ExclusiveRebuild
<1>1. ASSUME LockInv, NEW d \in Devices
      PROVE  Cardinality(RebuildsOf(d)) <= 1
  BY <1>1, OneAtATime DEF LockInv, TurnInv, InTurn
<1>2. ASSUME LockInv, NEW l \in LeaseIds, Active(l)
      PROVE  RebuildsOf(lease[l].dev) = {}
  <2>1. lease[l].dev \in Devices
    BY <1>2, FullRow DEF LockInv, TurnInv, TypeInv, TypeOK, LeasesTyped, Rows
  <2>2. state[lease[l].dev] = "leased"
    BY <1>2, <2>1 DEF LockInv, TablesAgree, LeaseOn
  <2> QED  BY <1>2, <2>2 DEF RebuildsOf, LockInv, TurnInv, InTurn, HoldsState
<1>3. LockInv => ExclusiveRebuild
  BY <1>1, <1>2 DEF ExclusiveRebuild
<1> QED  BY <1>3, LockAlways, PTL

\* After any number of restarts the two tables agree: no device is left leased
\* out to nobody, and none that is held is back in the pool.
THEOREM TablesAgreeThroughRestarts ==
    ASSUME Actors \subseteq {"reaper"}, "exit" \notin Faults
    PROVE  Spec /\ [][StartUpGoesFirst]_vars => []TablesAgree
<1>1. LockInv => TablesAgree
  BY DEF LockInv
<1> QED  BY <1>1, LockAlways, PTL

\* The start-up keeps to validTransitions too, whatever it finds.
THEOREM LegalTransitionsThroughRestarts ==
    ASSUME Actors \subseteq {"reaper"}, "exit" \notin Faults
    PROVE  Spec /\ [][StartUpGoesFirst]_vars => LegalTransitions
<1>1. LockInv /\ [Next]_vars /\ [StartUpGoesFirst]_vars
        => [\A d \in Devices :
              state'[d] # state[d] =>
                  <<state[d], state'[d]>> \in ValidTransitions \cup {<<NoRow, "creating">>}]_vars
  BY LockStep DEF LockInv, Legal
<1> QED  BY <1>1, LockAlways, PTL DEF Spec, LegalTransitions
=============================================================================
