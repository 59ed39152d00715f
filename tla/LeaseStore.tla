------------------------------ MODULE LeaseStore -----------------------------
(***************************************************************************)
(* The lease half of droidpoold: the lease rows with their times, the HTTP *)
(* handlers that write them (internal/api/api.go) and the watchdog that    *)
(* takes leases back (internal/pool/reaper.go).                            *)
(*                                                                         *)
(* A handler or a reaper round is cut where the code lets other goroutines *)
(* run between two of its statements: around the ssh call of the admission *)
(* check, between two statements sent to the database, and around Reset.   *)
(* Everything else that writes devices.state (rebuilds, health checks, the *)
(* start-up goroutine) is here one action, DeviceWritten, that may store   *)
(* any state at any time; PoolManager models those writers one by one.     *)
(***************************************************************************)
EXTENDS LeaseTable, Integers

CONSTANTS
    Clients,       \* claim or renew requests that can be in flight together
    TTLs,          \* values of ttl_min in requests, 0 when left out
    DefaultTTL,    \* Server.DefaultTTL
    MaxTTL,        \* Server.MaxTTL, 0 when not limited
    IdleTimeout,   \* Reaper.IdleTimeout, 0 when off
    MaxLifetime,   \* Reaper.MaxLifetime, 0 when off
    AdmitTimeout,  \* the longest a claim waits for Health (10 s in main.go)
    WrittenStates, \* what the other writers of devices.state store
    MaxTime,       \* bound: the clock stops here
    ClaimHorizon   \* bound: no claim arrives after this time

ASSUME TimesAssumption ==
    /\ TTLs \subseteq Nat
    /\ DefaultTTL \in Nat \ {0} /\ MaxTTL \in Nat
    /\ IdleTimeout \in Nat /\ MaxLifetime \in Nat /\ AdmitTimeout \in Nat
    /\ MaxTime \in Nat /\ ClaimHorizon \in Nat
ASSUME WritersAssumption == WrittenStates \subseteq DeviceStates

VARIABLES now,   \* wall clock; starts above 0, the encoding of the zero time
          req,   \* req[c]: the claim or renew handler that runs for client c
          reap   \* the reaper goroutine

vars == <<lease, state, now, req, reap>>

-----------------------------------------------------------------------------
(* State.                                                                  *)

Rows == [status : {"active", "released"}, key : Keys, dev : Devices,
         created : Nat, expires : Nat, lastSeen : Nat, human : BOOLEAN]

NoRequest == [pc |-> "idle"]
Requests ==
    {NoRequest}
    \cup [pc : {"admit", "claim"}, id : LeaseIds, key : Keys, at : Nat, expires : Nat]
    \cup [pc : {"touch"}, lease : LeaseIds, at : Nat]
    \cup [pc : {"renewed"}, lease : LeaseIds]

\* due: leases the current round has found due and not yet handled.
\* dev: the device the round waits for, when pc = "reset".
NoDevice == 0
ReaperStates == [pc : {"scan", "reset"}, due : SUBSET LeaseIds,
                 dev : Devices \cup {NoDevice}]

TypeOK ==
    /\ lease \in [LeaseIds -> Rows \cup {Unissued}]
    /\ state \in [Devices -> DeviceStates \cup {NoRow}]
    /\ now \in Nat
    /\ req \in [Clients -> Requests]
    /\ reap \in ReaperStates

Init ==
    /\ lease = [l \in LeaseIds |-> Unissued]
    /\ state = [d \in Devices |-> "ready"]
    /\ now = 1
    /\ req = [c \in Clients |-> NoRequest]
    /\ reap = [pc |-> "scan", due |-> {}, dev |-> NoDevice]

-----------------------------------------------------------------------------
(* Operators on times.                                                     *)

\* The ttl a handler grants: the default when none is asked, cut to MaxTTL.
GrantedTTL(ttl) ==
    LET asked == IF ttl > 0 THEN ttl ELSE DefaultTTL
    IN  IF MaxTTL > 0 /\ asked > MaxTTL THEN MaxTTL ELSE asked

\* Mutant: no lifetime gate.
ReapReason_NoLifetime(row, t) ==
    IF t >= row.expires THEN "ttl_expired"
    ELSE IF IdleTimeout > 0 /\ ~row.human /\ t - row.lastSeen >= IdleTimeout
    THEN "idle_timeout"
    ELSE ""

\* Lease.ShouldReap: the gates in the order the code tries them.
ReapReason(row, t) ==
    IF MaxLifetime > 0 /\ row.created # 0 /\ t - row.created >= MaxLifetime
    THEN "max_lifetime"
    ELSE IF t >= row.expires
    THEN "ttl_expired"
    ELSE IF IdleTimeout > 0 /\ ~row.human /\ row.lastSeen # 0
              /\ t - row.lastSeen >= IdleTimeout
    THEN "idle_timeout"
    ELSE ""

-----------------------------------------------------------------------------
(* HTTP handlers.                                                          *)

Become(c, r) == req' = [req EXCEPT ![c] = r]

\* Mutant: UPDATE ... WHERE id=? without AND released_at=0.
Touch_AnyRow(l, t) == lease' = [lease EXCEPT ![l].lastSeen = t]

\* Store.Touch; a lease given back in the meantime is left as it is.
Touch(l, t) ==
    lease' = IF Active(l) THEN [lease EXCEPT ![l].lastSeen = t] ELSE lease

\* newID: an identifier no row and no running claim has.
NewId(l) ==
    /\ lease[l] = Unissued
    /\ \A c \in Clients : req[c].pc \in {"admit", "claim"} => req[c].id # l

\* handleClaim reads the clock, draws an id, then asks the node for its free
\* memory.
ClaimArrives(c, k, ttl) ==
    /\ req[c] = NoRequest
    /\ now <= ClaimHorizon
    /\ \E l \in LeaseIds :
           /\ NewId(l)
           /\ Become(c, [pc |-> "admit", id |-> l, key |-> k, at |-> now,
                         expires |-> now + GrantedTTL(ttl)])
    /\ UNCHANGED <<lease, state, now, reap>>

\* Health fails, or reports enough memory, or the worktree has a lease by now.
ClaimAdmitted(c) ==
    /\ req[c].pc = "admit"
    /\ Become(c, [pc |-> "claim", id |-> req[c].id, key |-> req[c].key,
                  at |-> req[c].at, expires |-> req[c].expires])
    /\ UNCHANGED <<lease, state, now, reap>>

ClaimTurnedAway(c) ==
    /\ req[c].pc = "admit"
    /\ LeaseOf(req[c].key) = {}
    /\ Become(c, NoRequest)
    /\ UNCHANGED <<lease, state, now, reap>>

\* Store.Claim finds the active lease of this worktree, and returns it.
ClaimReused(c) ==
    /\ req[c].pc = "claim"
    /\ \E l \in LeaseOf(req[c].key) :
           Become(c, [pc |-> "touch", lease |-> l, at |-> req[c].at])
    /\ UNCHANGED <<lease, state, now, reap>>

\* Mutant: the claim transaction does not look for a lease of its worktree.
ClaimGranted_NoIdempotency(c) ==
    /\ req[c].pc = "claim"
    /\ \E d \in Devices :
           /\ FirstFree(d)
           /\ GrantLease(req[c].id,
                  [status |-> "active", key |-> req[c].key, dev |-> d,
                   created |-> req[c].at, expires |-> req[c].expires,
                   lastSeen |-> req[c].at, human |-> FALSE])
    /\ Become(c, NoRequest)
    /\ UNCHANGED <<now, reap>>

\* Store.Claim takes the first free device.
ClaimGranted(c) ==
    /\ req[c].pc = "claim"
    /\ LeaseOf(req[c].key) = {}
    /\ \E d \in Devices :
           /\ FirstFree(d)
           /\ GrantLease(req[c].id,
                  [status |-> "active", key |-> req[c].key, dev |-> d,
                   created |-> req[c].at, expires |-> req[c].expires,
                   lastSeen |-> req[c].at, human |-> FALSE])
    /\ Become(c, [pc |-> "touch", lease |-> req[c].id, at |-> req[c].at])
    /\ UNCHANGED <<now, reap>>

\* ErrNoFreeDevice.
ClaimExhausted(c) ==
    /\ req[c].pc = "claim"
    /\ LeaseOf(req[c].key) = {} /\ FreeDevices = {}
    /\ Become(c, NoRequest)
    /\ UNCHANGED <<lease, state, now, reap>>

\* The handler touches the lease with the time the request came in, and
\* answers.
ClaimAnswered(c) ==
    /\ req[c].pc = "touch"
    /\ Touch(req[c].lease, req[c].at)
    /\ Become(c, NoRequest)
    /\ UNCHANGED <<state, now, reap>>

\* Mutant: the ttl is stored without the time it counts from.
RenewStored_NoBase(c, l, ttl) ==
    /\ req[c] = NoRequest
    /\ Active(l)
    /\ lease' = [lease EXCEPT ![l].expires = GrantedTTL(ttl)]
    /\ Become(c, [pc |-> "renewed", lease |-> l])
    /\ UNCHANGED <<state, now, reap>>

\* handleRenew: the new expiry counts from now, and may be earlier.
RenewStored(c, l, ttl) ==
    /\ req[c] = NoRequest
    /\ Active(l)
    /\ lease' = [lease EXCEPT ![l].expires = now + GrantedTTL(ttl)]
    /\ Become(c, [pc |-> "renewed", lease |-> l])
    /\ UNCHANGED <<state, now, reap>>

RenewAnswered(c) ==
    /\ req[c].pc = "renewed"
    /\ Touch(req[c].lease, now)
    /\ Become(c, NoRequest)
    /\ UNCHANGED <<state, now, reap>>

Heartbeat(l) ==
    /\ Active(l)
    /\ Touch(l, now)
    /\ UNCHANGED <<state, now, req, reap>>

\* handleHuman: take the device over from the agent, or hand it back.
HumanTakeover(l, on) ==
    /\ Active(l)
    /\ lease' = [lease EXCEPT ![l].human = on]
    /\ UNCHANGED <<state, now, req, reap>>

\* handleRelease; the reset it starts in the background is DeviceWritten.
ReleaseByAgent(l) ==
    /\ CloseLease(l)
    /\ UNCHANGED <<now, req, reap>>

-----------------------------------------------------------------------------
(* The reaper goroutine: one round lists the active leases, reads the      *)
(* clock once, then handles the due ones in order of creation, resetting   *)
(* each device before it looks at the next lease.                          *)

Due(t) == {l \in LeaseIds : Active(l) /\ ReapReason(lease[l], t) # ""}

ReapScan ==
    /\ reap.pc = "scan" /\ reap.due = {}
    /\ Due(now) # {}
    /\ reap' = [reap EXCEPT !.due = Due(now)]
    /\ UNCHANGED <<lease, state, now, req>>

NextDue(l) ==
    /\ reap.pc = "scan"
    /\ l \in reap.due
    /\ \A m \in reap.due : lease[l].created <= lease[m].created

\* Release succeeds; the round then waits for Reset.
ReapRelease(l) ==
    /\ NextDue(l)
    /\ CloseLease(l)
    /\ reap' = [pc |-> "reset", due |-> reap.due \ {l}, dev |-> lease[l].dev]
    /\ UNCHANGED <<now, req>>

\* The lease was given back since the scan: Release fails, the round goes on.
ReapMissed(l) ==
    /\ NextDue(l)
    /\ ~Active(l)
    /\ reap' = [reap EXCEPT !.due = @ \ {l}]
    /\ UNCHANGED <<lease, state, now, req>>

\* Reset has returned, with the device rebuilt or given up.
ReapResetReturned ==
    /\ reap.pc = "reset"
    /\ \E s \in {"ready", "broken"} :
           state' = [state EXCEPT ![reap.dev] = s]
    /\ reap' = [reap EXCEPT !.pc = "scan", !.dev = NoDevice]
    /\ UNCHANGED <<lease, now, req>>

-----------------------------------------------------------------------------
(* The rest of the world.                                                  *)

\* UpsertDevice or SetDeviceState by any other part of the daemon.
DeviceWritten(d, s) ==
    /\ state' = [state EXCEPT ![d] = s]
    /\ UNCHANGED <<lease, now, req, reap>>

\* No claim outlives the time limit of its Health call.
Tick ==
    /\ now < MaxTime
    /\ \A c \in Clients :
           req[c].pc \in {"admit", "claim", "touch"} => now < req[c].at + AdmitTimeout
    /\ now' = now + 1
    /\ UNCHANGED <<lease, state, req, reap>>

ClaimStep(c) ==
    \/ \E k \in Keys, ttl \in TTLs : ClaimArrives(c, k, ttl)
    \/ ClaimAdmitted(c)
    \/ ClaimTurnedAway(c)
    \/ ClaimReused(c)
    \/ ClaimGranted(c)
    \/ ClaimExhausted(c)
    \/ ClaimAnswered(c)

LeaseStep(l) ==
    \/ \E c \in Clients, ttl \in TTLs : RenewStored(c, l, ttl)
    \/ Heartbeat(l)
    \/ \E on \in BOOLEAN : HumanTakeover(l, on)
    \/ ReleaseByAgent(l)

ReaperStep ==
    \/ ReapScan
    \/ \E l \in LeaseIds : ReapRelease(l)
    \/ \E l \in LeaseIds : ReapMissed(l)
    \/ ReapResetReturned

Next ==
    \/ \E c \in Clients : ClaimStep(c) \/ RenewAnswered(c)
    \/ \E l \in LeaseIds : LeaseStep(l)
    \/ ReaperStep
    \/ \E d \in Devices, s \in WrittenStates : DeviceWritten(d, s)
    \/ Tick

Spec == Init /\ [][Next]_vars

\* Time passes, requests past their health check finish and the reaper's
\* loop runs.  Agents owe nothing: they may vanish at any point.
Fairness ==
    /\ WF_vars(Tick)
    /\ WF_vars(ReaperStep)
    /\ \A c \in Clients :
           WF_vars(\/ ClaimAdmitted(c) \/ ClaimTurnedAway(c) \/ ClaimReused(c)
                   \/ ClaimGranted(c) \/ ClaimExhausted(c) \/ ClaimAnswered(c)
                   \/ RenewAnswered(c))

FairSpec == Spec /\ Fairness

-----------------------------------------------------------------------------
(* Properties.                                                             *)

\* Whatever the other writers store in devices.state, a worktree never holds
\* two devices and a device never serves two leases: NOT EXISTS in the claim
\* query, not the state column, is what keeps claims apart.
Exclusive == OneLeasePerKey /\ OneLeasePerDevice

\* A lease that was given back is history: no late heartbeat, renewal, answer
\* of a claim, takeover or second release by its old holder changes its row.
ReleasedForGood ==
    [][\A l \in LeaseIds : Released(l) => lease'[l] = lease[l]]_vars

\* The shortest time the gates of the watchdog leave a lease: the smallest
\* grantable ttl, the lifetime limit, and the idle timeout less the time a
\* slow second claim may set last_seen_at back.
ReapFloor(t) ==
    \/ \E ttl \in TTLs : t >= GrantedTTL(ttl)
    \/ MaxLifetime > 0 /\ t >= MaxLifetime
    \/ IdleTimeout > 0 /\ t >= IdleTimeout - AdmitTimeout

\* The watchdog never takes a lease younger than every gate allows, for all
\* the renewals, heartbeats and claims that race with its round.
NoEarlyReap ==
    [][\A l \in LeaseIds :
          ReapRelease(l) => ReapFloor(now - lease[l].created)]_vars

\* Every lease ends, even one whose agent renews and beats for ever.
EveryLeaseEnds == \A l \in LeaseIds : Active(l) ~> ~Active(l)

\* The lease tables implement the abstract allocator.
ImplementsAllocator == Alloc!Spec
=============================================================================
