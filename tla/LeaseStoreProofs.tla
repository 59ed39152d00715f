-------------------------- MODULE LeaseStoreProofs ---------------------------
(***************************************************************************)
(* Theorems about LeaseStore, for any pool, any set of worktrees and any   *)
(* setting of the timeouts.                                                *)
(***************************************************************************)
EXTENDS LeaseStore, LeaseTableProofs

(* Type correctness.                                                       *)

\* The ttl a handler grants is a length of time.
LEMMA GrantedTTLType ==
    ASSUME NEW ttl \in TTLs
    PROVE  GrantedTTL(ttl) \in Nat
BY TimesAssumption DEF GrantedTTL

\* The fields a handler finds in the request it works on.
LEMMA RequestFields ==
    ASSUME TypeOK, NEW c \in Clients
    PROVE  /\ req[c].pc \in {"admit", "claim"} =>
                  /\ req[c].id \in LeaseIds /\ req[c].key \in Keys
                  /\ req[c].at \in Nat /\ req[c].expires \in Nat
           /\ req[c].pc = "touch" => req[c].lease \in LeaseIds /\ req[c].at \in Nat
           /\ req[c].pc = "renewed" => req[c].lease \in LeaseIds
<1>1. req[c] \in Requests
  BY DEF TypeOK
<1> QED  BY <1>1 DEF Requests, NoRequest

\* An active lease has a full row, and so has a released one.
LEMMA RowFields ==
    ASSUME TypeOK, NEW l \in LeaseIds
    PROVE  /\ lease[l] # Unissued <=> lease[l] \in Rows
           /\ lease[l] # Unissued <=> Active(l) \/ Released(l)
           /\ Active(l) => lease[l] # Unissued /\ ~Released(l)
<1>1. lease[l] \in Rows \cup {Unissued}
  BY DEF TypeOK
<1>2. Unissued \notin Rows
  BY DEF Unissued, Rows
<1>3. lease[l] \in Rows => lease[l].status \in {"active", "released"}
  BY DEF Rows
<1> QED  BY <1>1, <1>2, <1>3 DEF Unissued, Active, Released

\* Touch writes one column of an active row.
LEMMA TouchType ==
    ASSUME TypeOK, NEW l \in LeaseIds, NEW t \in Nat, Touch(l, t)
    PROVE  lease' \in [LeaseIds -> Rows \cup {Unissued}]
<1>1. Active(l) => [lease[l] EXCEPT !.lastSeen = t] \in Rows
  BY RowFields DEF Rows
<1> QED  BY <1>1 DEF TypeOK, Touch

\* Closing a row keeps its columns and resets its device.
LEMMA CloseType ==
    ASSUME TypeOK, NEW l \in LeaseIds, CloseLease(l)
    PROVE  /\ lease' \in [LeaseIds -> Rows \cup {Unissued}]
           /\ state' \in [Devices -> DeviceStates \cup {NoRow}]
           /\ lease[l].dev \in Devices
<1>1. lease[l] \in Rows
  BY RowFields DEF CloseLease
<1>2. [lease[l] EXCEPT !.status = "released"] \in Rows /\ lease[l].dev \in Devices
  BY <1>1 DEF Rows
<1> QED  BY <1>2 DEF TypeOK, CloseLease, DeviceStates

\* Each step keeps every variable in its type.
LEMMA TypeStep == TypeOK /\ [Next]_vars => TypeOK'
<1> SUFFICES ASSUME TypeOK, [Next]_vars PROVE TypeOK'
  OBVIOUS
<1>1. ASSUME NEW c \in Clients, ClaimStep(c) PROVE TypeOK'
  <2>1. CASE \E k \in Keys, ttl \in TTLs : ClaimArrives(c, k, ttl)
    <3>1. PICK k \in Keys, ttl \in TTLs : ClaimArrives(c, k, ttl)
      BY <2>1
    <3>2. PICK l \in LeaseIds :
             Become(c, [pc |-> "admit", id |-> l, key |-> k, at |-> now,
                        expires |-> now + GrantedTTL(ttl)])
      BY <3>1 DEF ClaimArrives
    <3>3. now + GrantedTTL(ttl) \in Nat
      BY GrantedTTLType DEF TypeOK
    <3>4. req' \in [Clients -> Requests]
      BY <3>2, <3>3 DEF TypeOK, Become, Requests
    <3> QED  BY <3>1, <3>4 DEF ClaimArrives, TypeOK
  <2>2. CASE ClaimAdmitted(c)
    BY <2>2, RequestFields DEF ClaimAdmitted, TypeOK, Become, Requests
  <2>3. CASE ClaimTurnedAway(c)
    BY <2>3 DEF ClaimTurnedAway, TypeOK, Become, Requests
  <2>4. CASE ClaimReused(c)
    BY <2>4, RequestFields DEF ClaimReused, LeaseOf, TypeOK, Become, Requests
  <2>5. CASE ClaimGranted(c)
    <3>1. PICK d \in Devices :
             GrantLease(req[c].id,
                  [status |-> "active", key |-> req[c].key, dev |-> d,
                   created |-> req[c].at, expires |-> req[c].expires,
                   lastSeen |-> req[c].at, human |-> FALSE])
      BY <2>5 DEF ClaimGranted
    <3>2. req[c].pc = "claim"
      BY <2>5 DEF ClaimGranted
    <3>3. lease' \in [LeaseIds -> Rows \cup {Unissued}]
      BY <3>1, <3>2, RequestFields DEF GrantLease, TypeOK, Rows
    <3>4. state' \in [Devices -> DeviceStates \cup {NoRow}]
      BY <3>1 DEF GrantLease, TypeOK, DeviceStates
    <3>5. req' \in [Clients -> Requests]
      BY <2>5, <3>2, RequestFields DEF ClaimGranted, TypeOK, Become, Requests
    <3> QED  BY <2>5, <3>3, <3>4, <3>5 DEF ClaimGranted, TypeOK
  <2>6. CASE ClaimExhausted(c)
    BY <2>6 DEF ClaimExhausted, TypeOK, Become, Requests
  <2>7. CASE ClaimAnswered(c)
    BY <2>7, RequestFields, TouchType DEF ClaimAnswered, TypeOK, Become, Requests
  <2> QED  BY <1>1, <2>1, <2>2, <2>3, <2>4, <2>5, <2>6, <2>7 DEF ClaimStep
<1>2. ASSUME NEW c \in Clients, RenewAnswered(c) PROVE TypeOK'
  <2>1. req[c].lease \in LeaseIds /\ now \in Nat
    BY <1>2, RequestFields DEF RenewAnswered, TypeOK
  <2> QED  BY <1>2, <2>1, TouchType DEF RenewAnswered, TypeOK, Become, Requests
<1>3. ASSUME NEW l \in LeaseIds, LeaseStep(l) PROVE TypeOK'
  <2>1. CASE \E c \in Clients, ttl \in TTLs : RenewStored(c, l, ttl)
    <3>1. PICK c \in Clients, ttl \in TTLs : RenewStored(c, l, ttl)
      BY <2>1
    <3>2. now + GrantedTTL(ttl) \in Nat
      BY GrantedTTLType DEF TypeOK
    <3>3. lease[l] \in Rows
      BY <3>1, RowFields DEF RenewStored
    <3>4. [lease[l] EXCEPT !.expires = now + GrantedTTL(ttl)] \in Rows
      BY <3>2, <3>3 DEF Rows
    <3> QED  BY <3>1, <3>4 DEF RenewStored, TypeOK, Become, Requests
  <2>2. CASE Heartbeat(l)
    BY <2>2, TouchType DEF Heartbeat, TypeOK
  <2>3. CASE \E on \in BOOLEAN : HumanTakeover(l, on)
    <3>1. PICK on \in BOOLEAN : HumanTakeover(l, on)
      BY <2>3
    <3>2. [lease[l] EXCEPT !.human = on] \in Rows
      BY <3>1, RowFields DEF HumanTakeover, Rows
    <3> QED  BY <3>1, <3>2 DEF HumanTakeover, TypeOK
  <2>4. CASE ReleaseByAgent(l)
    BY <2>4, CloseType DEF ReleaseByAgent, TypeOK
  <2> QED  BY <1>3, <2>1, <2>2, <2>3, <2>4 DEF LeaseStep
<1>4. ASSUME ReaperStep PROVE TypeOK'
  <2>1. CASE ReapScan
    BY <2>1 DEF ReapScan, TypeOK, ReaperStates, Due
  <2>2. CASE \E l \in LeaseIds : ReapRelease(l)
    <3>1. PICK l \in LeaseIds : ReapRelease(l)
      BY <2>2
    <3> QED  BY <3>1, CloseType DEF ReapRelease, TypeOK, ReaperStates
  <2>3. CASE \E l \in LeaseIds : ReapMissed(l)
    BY <2>3 DEF ReapMissed, TypeOK, ReaperStates
  <2>4. CASE ReapResetReturned
    BY <2>4 DEF ReapResetReturned, TypeOK, ReaperStates, DeviceStates
  <2> QED  BY <1>4, <2>1, <2>2, <2>3, <2>4 DEF ReaperStep
<1>5. ASSUME NEW d \in Devices, NEW s \in WrittenStates, DeviceWritten(d, s) PROVE TypeOK'
  BY <1>5, WritersAssumption DEF DeviceWritten, TypeOK
<1>6. CASE Tick
  BY <1>6 DEF Tick, TypeOK
<1>7. CASE UNCHANGED vars
  BY <1>7 DEF vars, TypeOK
<1> QED  BY <1>1, <1>2, <1>3, <1>4, <1>5, <1>6, <1>7 DEF Next

\* Every row, request and round of the watchdog has its type at all times.
THEOREM TypeCorrect == Spec => []TypeOK
<1>1. Init => TypeOK
  BY DEF Init, TypeOK, DeviceStates, Requests, ReaperStates, NoDevice
<1> QED  BY <1>1, TypeStep, PTL DEF Spec

-----------------------------------------------------------------------------
(* Mutual exclusion of leases, and the abstract allocator.                 *)

\* A column that no index reads may change on an active row.
LEMMA ColumnKeepsBindings ==
    ASSUME TypeOK, NEW l \in LeaseIds, NEW row \in Rows, Active(l),
           row.status = "active", row.key = lease[l].key, row.dev = lease[l].dev,
           lease' = [lease EXCEPT ![l] = row]
    PROVE  SameBindings
<1>1. lease[l] # Unissued /\ row # Unissued
  BY RowFields DEF Rows, Unissued
<1>2. lease'[l] = row /\ \A m \in LeaseIds \ {l} : lease'[m] = lease[m]
  BY DEF TypeOK
<1> QED  BY <1>1, <1>2 DEF SameBindings, Active

\* Touch changes no binding.
LEMMA TouchKeepsBindings ==
    ASSUME TypeOK, NEW l \in LeaseIds, NEW t \in Nat, Touch(l, t)
    PROVE  SameBindings
<1>1. CASE Active(l)
  <2>1. lease[l] \in Rows
    BY <1>1, RowFields
  <2> DEFINE row == [lease[l] EXCEPT !.lastSeen = t]
  <2>2. /\ row \in Rows /\ row.status = "active"
        /\ row.key = lease[l].key /\ row.dev = lease[l].dev
    BY <1>1, <2>1 DEF Rows, Active
  <2>3. lease' = [lease EXCEPT ![l] = row]
    BY <1>1 DEF Touch
  <2> QED  BY <1>1, <2>2, <2>3, ColumnKeepsBindings
<1>2. CASE ~Active(l)
  BY <1>2 DEF Touch, SameBindings
<1> QED  BY <1>1, <1>2

\* CloseLease, said without the other columns.
LEMMA CloseCloses ==
    ASSUME TypeOK, NEW l \in LeaseIds, CloseLease(l)
    PROVE  Closes(l)
<1>1. lease[l] \in Rows
  BY RowFields DEF CloseLease
<1>2. [lease[l] EXCEPT !.status = "released"].status = "released"
  BY <1>1 DEF Rows
<1> QED  BY <1>2 DEF CloseLease, Closes, TypeOK

\* Only three things happen to the bindings of the lease table.
LEMMA StepKinds == TypeOK /\ [Next]_vars => TableStep
<1> SUFFICES ASSUME TypeOK, [Next]_vars PROVE TableStep
  OBVIOUS
<1>1. UNCHANGED lease => SameBindings
  BY DEF SameBindings
<1>2. ASSUME NEW c \in Clients, ClaimStep(c) PROVE TableStep
  <2>1. CASE ClaimGranted(c)
    <3>1. PICK d \in Devices :
             /\ FirstFree(d)
             /\ GrantLease(req[c].id,
                  [status |-> "active", key |-> req[c].key, dev |-> d,
                   created |-> req[c].at, expires |-> req[c].expires,
                   lastSeen |-> req[c].at, human |-> FALSE])
      BY <2>1 DEF ClaimGranted
    <3>2. LeaseOn(d) = {} /\ LeaseOf(req[c].key) = {}
      BY <2>1, <3>1 DEF ClaimGranted, FirstFree, FreeDevices
    <3>3. req[c].id \in LeaseIds /\ req[c].key \in Keys
      BY <2>1, RequestFields DEF ClaimGranted
    <3> QED  BY <3>1, <3>2, <3>3 DEF TableStep
  <2>2. CASE ClaimAnswered(c)
    BY <2>2, RequestFields, TouchKeepsBindings DEF ClaimAnswered, TableStep
  <2> QED  BY <1>1, <1>2, <2>1, <2>2
           DEF ClaimStep, ClaimArrives, ClaimAdmitted, ClaimTurnedAway,
               ClaimReused, ClaimExhausted, TableStep
<1>3. ASSUME NEW c \in Clients, RenewAnswered(c) PROVE TableStep
  <2>1. req[c].lease \in LeaseIds /\ now \in Nat
    BY <1>3, RequestFields DEF RenewAnswered, TypeOK
  <2> QED  BY <1>3, <2>1, TouchKeepsBindings DEF RenewAnswered, TableStep
<1>4. ASSUME NEW l \in LeaseIds, LeaseStep(l) PROVE TableStep
  <2>1. CASE \E c \in Clients, ttl \in TTLs : RenewStored(c, l, ttl)
    <3>1. PICK c \in Clients, ttl \in TTLs : RenewStored(c, l, ttl)
      BY <2>1
    <3>2. Active(l) /\ lease[l] \in Rows /\ now + GrantedTTL(ttl) \in Nat
      BY <3>1, RowFields, GrantedTTLType DEF RenewStored, TypeOK
    <3> DEFINE row == [lease[l] EXCEPT !.expires = now + GrantedTTL(ttl)]
    <3>3. /\ row \in Rows /\ row.status = "active"
          /\ row.key = lease[l].key /\ row.dev = lease[l].dev
      BY <3>2 DEF Rows, Active
    <3>4. lease' = [lease EXCEPT ![l] = row]
      BY <3>1 DEF RenewStored
    <3> QED  BY <3>2, <3>3, <3>4, ColumnKeepsBindings DEF TableStep
  <2>2. CASE Heartbeat(l)
    BY <2>2, TouchKeepsBindings DEF Heartbeat, TableStep, TypeOK
  <2>3. CASE \E on \in BOOLEAN : HumanTakeover(l, on)
    <3>1. PICK on \in BOOLEAN : HumanTakeover(l, on)
      BY <2>3
    <3>2. Active(l) /\ lease[l] \in Rows
      BY <3>1, RowFields DEF HumanTakeover
    <3> DEFINE row == [lease[l] EXCEPT !.human = on]
    <3>3. /\ row \in Rows /\ row.status = "active"
          /\ row.key = lease[l].key /\ row.dev = lease[l].dev
      BY <3>2 DEF Rows, Active
    <3>4. lease' = [lease EXCEPT ![l] = row]
      BY <3>1 DEF HumanTakeover
    <3> QED  BY <3>2, <3>3, <3>4, ColumnKeepsBindings DEF TableStep
  <2>4. CASE ReleaseByAgent(l)
    BY <2>4, CloseCloses DEF ReleaseByAgent, TableStep
  <2> QED  BY <1>4, <2>1, <2>2, <2>3, <2>4 DEF LeaseStep
<1>5. ASSUME ReaperStep PROVE TableStep
  <2>1. CASE \E l \in LeaseIds : ReapRelease(l)
    BY <2>1, CloseCloses DEF ReapRelease, TableStep
  <2> QED  BY <1>1, <1>5, <2>1
           DEF ReaperStep, ReapScan, ReapMissed, ReapResetReturned, TableStep
<1>6. CASE (\E d \in Devices, s \in WrittenStates : DeviceWritten(d, s)) \/ Tick \/ UNCHANGED vars
  BY <1>1, <1>6 DEF DeviceWritten, Tick, vars, TableStep
<1> QED  BY <1>2, <1>3, <1>4, <1>5, <1>6 DEF Next

\* The lease table is a table.
LEMMA TypedTable == TypeOK => Table
BY DEF TypeOK, Table

\* No worktree holds two devices and no device serves two leases, whatever
\* is written into devices.state and however the handlers interleave.
THEOREM ExclusiveHolds == Spec => []Exclusive
<1>1. Init => Exclusive
  BY DEF Init, Exclusive, OneLeasePerKey, OneLeasePerDevice, Active, Unissued
<1>2. TypeOK /\ Exclusive /\ [Next]_vars => Exclusive'
  BY StepKinds, TypedTable, TableStepKeepsIndexes DEF Exclusive
<1> QED  BY <1>1, <1>2, TypeCorrect, PTL DEF Spec

\* The lease tables with their handlers and the watchdog implement the
\* abstract allocator.
THEOREM RefinesAllocator == Spec => ImplementsAllocator
<1>1. Init => Alloc!Init
  BY DEF Init, Alloc!Init, HeldBindings, SpentIds, Active, Unissued
<1>2. TypeOK /\ [Next]_vars => [Alloc!Next]_<<HeldBindings, SpentIds>>
  BY StepKinds, TypedTable, TableStepRefines
<1> QED  BY <1>1, <1>2, TypeCorrect, PTL
         DEF Spec, ImplementsAllocator, Alloc!Spec, Alloc!vars

-----------------------------------------------------------------------------
(* History.                                                                *)

\* No step of a handler or of the watchdog writes the row of a lease that
\* was given back.
LEMMA ReleasedStep ==
    TypeOK /\ [Next]_vars => \A l \in LeaseIds : Released(l) => lease'[l] = lease[l]
<1> SUFFICES ASSUME TypeOK, [Next]_vars, NEW l \in LeaseIds, Released(l)
             PROVE  lease'[l] = lease[l]
  OBVIOUS
<1>1. ~Active(l) /\ lease[l] # Unissued
  BY RowFields DEF Released, Unissued
<1>2. \A m \in LeaseIds : \A row : m # l /\ lease' = [lease EXCEPT ![m] = row] => lease'[l] = lease[l]
  BY DEF TypeOK
<1>3. \A m \in LeaseIds : CloseLease(m) => lease'[l] = lease[l]
  BY <1>1, <1>2 DEF CloseLease
<1>4. \A m \in LeaseIds, t \in Nat : Touch(m, t) => lease'[l] = lease[l]
  BY <1>1, <1>2 DEF Touch
<1>5. ASSUME NEW c \in Clients, ClaimStep(c) \/ RenewAnswered(c) PROVE lease'[l] = lease[l]
  <2>1. CASE ClaimGranted(c)
    BY <1>1, <1>2, <2>1, RequestFields DEF ClaimGranted, GrantLease
  <2>2. CASE ClaimAnswered(c) \/ RenewAnswered(c)
    <3>1. req[c].lease \in LeaseIds /\ now \in Nat
      BY <2>2, RequestFields DEF ClaimAnswered, RenewAnswered, TypeOK
    <3> QED  BY <1>4, <2>2, <3>1, RequestFields DEF ClaimAnswered, RenewAnswered
  <2> QED  BY <1>5, <2>1, <2>2
           DEF ClaimStep, ClaimArrives, ClaimAdmitted, ClaimTurnedAway,
               ClaimReused, ClaimExhausted
<1>6. ASSUME NEW m \in LeaseIds, LeaseStep(m) PROVE lease'[l] = lease[l]
  <2>1. CASE m = l
    BY <1>1, <1>6, <2>1
       DEF LeaseStep, RenewStored, Heartbeat, HumanTakeover, ReleaseByAgent, CloseLease
  <2>2. CASE m # l
    <3>1. now \in Nat
      BY DEF TypeOK
    <3> QED  BY <1>2, <1>3, <1>4, <1>6, <2>2, <3>1
             DEF LeaseStep, RenewStored, Heartbeat, HumanTakeover, ReleaseByAgent
  <2> QED  BY <2>1, <2>2
<1>7. CASE ReaperStep
  BY <1>3, <1>7 DEF ReaperStep, ReapScan, ReapRelease, ReapMissed, ReapResetReturned
<1> QED  BY <1>5, <1>6, <1>7 DEF Next, DeviceWritten, Tick, vars

\* A lease that was given back is history: whatever its old holder still has
\* in flight, its row never changes again.
THEOREM ReleasedStays == Spec => ReleasedForGood
<1>1. TypeOK /\ [Next]_vars
        => [\A l \in LeaseIds : Released(l) => lease'[l] = lease[l]]_vars
  BY ReleasedStep
<1> QED  BY <1>1, TypeCorrect, PTL DEF Spec, ReleasedForGood

-----------------------------------------------------------------------------
(* The watchdog and the clock.                                             *)

\* What is true of the columns of a lease from the moment it is granted: it
\* expires no sooner than a grantable ttl after its creation, and a late
\* answer sets last_seen_at back by no more than a claim may wait.
AgedRow(row) ==
    /\ row.created <= now
    /\ \E ttl \in TTLs : row.expires >= row.created + GrantedTTL(ttl)
    /\ row.lastSeen + AdmitTimeout >= row.created

\* The requests in flight are recent, and those that may grant a lease carry
\* an expiry computed from their own arrival.
RecentRequest(r) ==
    /\ r.pc \in {"admit", "claim", "touch"} => r.at <= now /\ now <= r.at + AdmitTimeout
    /\ r.pc \in {"admit", "claim"} => \E ttl \in TTLs : r.expires >= r.at + GrantedTTL(ttl)

\* The strengthening of NoEarlyReap: a lease is on the watchdog's list only
\* once it is old enough to be reaped, and it only gets older.
AgesInv ==
    /\ \A l \in LeaseIds : lease[l] # Unissued => AgedRow(lease[l])
    /\ \A c \in Clients : RecentRequest(req[c])
    /\ \A l \in reap.due : lease[l] # Unissued /\ ReapFloor(now - lease[l].created)

\* A lease that is due by any gate is as old as the smallest of them.
LEMMA DueIsOld ==
    ASSUME TypeOK, AgesInv, NEW l \in Due(now)
    PROVE  lease[l] # Unissued /\ ReapFloor(now - lease[l].created)
<1>1. l \in LeaseIds /\ Active(l) /\ lease[l] \in Rows /\ lease[l] # Unissued
  BY RowFields DEF Due
<1>2. AgedRow(lease[l])
  BY <1>1 DEF AgesInv
<1>3. /\ lease[l].created \in Nat /\ lease[l].expires \in Nat
      /\ lease[l].lastSeen \in Nat /\ now \in Nat
  BY <1>1 DEF Rows, TypeOK
<1>4. ReapReason(lease[l], now) # ""
  BY DEF Due
<1>5. CASE MaxLifetime > 0 /\ now - lease[l].created >= MaxLifetime
  BY <1>1, <1>5 DEF ReapFloor
<1>6. CASE now >= lease[l].expires
  <2>1. PICK ttl \in TTLs : lease[l].expires >= lease[l].created + GrantedTTL(ttl)
    BY <1>2 DEF AgedRow
  <2>2. now - lease[l].created >= GrantedTTL(ttl)
    BY <1>3, <1>6, <2>1, GrantedTTLType
  <2> QED  BY <1>1, <2>2 DEF ReapFloor
<1>7. CASE IdleTimeout > 0 /\ now - lease[l].lastSeen >= IdleTimeout
  <2>1. now - lease[l].created >= IdleTimeout - AdmitTimeout
    BY <1>2, <1>3, <1>7, TimesAssumption DEF AgedRow
  <2> QED  BY <1>1, <1>7, <2>1 DEF ReapFloor
<1> QED  BY <1>4, <1>5, <1>6, <1>7 DEF ReapReason

\* A step ages every row and never changes when a lease was created.
LEMMA RowStep ==
    ASSUME TypeOK, AgesInv, [Next]_vars, NEW l \in LeaseIds
    PROVE  /\ lease'[l] # Unissued => AgedRow(lease'[l])
           /\ lease[l] # Unissued => /\ lease'[l] # Unissued
                                      /\ lease'[l].created = lease[l].created
<1> DEFINE Good == /\ lease'[l] # Unissued => AgedRow(lease'[l])
                   /\ lease[l] # Unissued => /\ lease'[l] # Unissued
                                              /\ lease'[l].created = lease[l].created
<1>1. lease'[l] = lease[l] => Good
  BY DEF AgesInv
<1>2. \A m \in LeaseIds : \A row : m # l /\ lease' = [lease EXCEPT ![m] = row] => Good
  BY <1>1 DEF TypeOK
<1>3. ASSUME NEW row, lease' = [lease EXCEPT ![l] = row], row \in Rows,
             AgedRow(row), lease[l] # Unissued => row.created = lease[l].created
      PROVE  Good
  <2>1. lease'[l] = row /\ row # Unissued
    BY <1>3 DEF TypeOK, Rows, Unissued
  <2> QED  BY <1>3, <2>1
<1>4. ASSUME Active(l)
      PROVE  /\ lease[l] \in Rows /\ lease[l] # Unissued /\ AgedRow(lease[l])
             /\ lease[l].created \in Nat /\ lease[l].created <= now /\ now \in Nat
  BY <1>4, RowFields DEF AgesInv, AgedRow, Rows, TypeOK
<1> HIDE DEF Good
<1>5. ASSUME NEW m \in LeaseIds, CloseLease(m) PROVE Good
  <2>1. CASE m = l
    <3> DEFINE row == [lease[l] EXCEPT !.status = "released"]
    <3>1. row \in Rows /\ AgedRow(row) /\ row.created = lease[l].created
      BY <1>4, <1>5, <2>1 DEF CloseLease, Rows, AgedRow
    <3> QED  BY <1>3, <1>5, <2>1, <3>1 DEF CloseLease
  <2>2. CASE m # l
    BY <1>2, <1>5, <2>2 DEF CloseLease
  <2> QED  BY <2>1, <2>2
<1>6. ASSUME NEW m \in LeaseIds, NEW t \in Nat, Touch(m, t), now <= t + AdmitTimeout PROVE Good
  <2>1. CASE m = l /\ Active(l)
    <3> DEFINE row == [lease[l] EXCEPT !.lastSeen = t]
    <3>1. row \in Rows /\ row.created = lease[l].created
      BY <1>4, <2>1 DEF Rows
    <3>2. row.lastSeen = t /\ row.expires = lease[l].expires
      BY <1>4, <2>1 DEF Rows
    <3>3. AgedRow(row)
      BY <1>4, <1>6, <2>1, <3>1, <3>2, TimesAssumption DEF AgedRow
    <3> QED  BY <1>3, <1>6, <2>1, <3>1, <3>3 DEF Touch
  <2>2. CASE m # l \/ ~Active(l)
    BY <1>1, <1>2, <1>6, <2>2 DEF Touch
  <2> QED  BY <2>1, <2>2
<1>7. ASSUME NEW c \in Clients, ClaimGranted(c) PROVE Good
  <2>1. PICK d \in Devices :
             GrantLease(req[c].id,
                  [status |-> "active", key |-> req[c].key, dev |-> d,
                   created |-> req[c].at, expires |-> req[c].expires,
                   lastSeen |-> req[c].at, human |-> FALSE])
    BY <1>7 DEF ClaimGranted
  <2> DEFINE row == [status |-> "active", key |-> req[c].key, dev |-> d,
                     created |-> req[c].at, expires |-> req[c].expires,
                     lastSeen |-> req[c].at, human |-> FALSE]
  <2>2. req[c].pc = "claim"
    BY <1>7 DEF ClaimGranted
  <2>3. row \in Rows /\ req[c].id \in LeaseIds
    BY <2>2, RequestFields DEF Rows
  <2>4. AgedRow(row)
    BY <2>2, RequestFields, TimesAssumption DEF AgesInv, RecentRequest, AgedRow
  <2>5. lease[req[c].id] = Unissued /\ lease' = [lease EXCEPT ![req[c].id] = row]
    BY <2>1 DEF GrantLease
  <2> QED  BY <1>2, <1>3, <2>3, <2>4, <2>5
<1>8. ASSUME NEW c \in Clients, ClaimAnswered(c) \/ RenewAnswered(c) PROVE Good
  <2>1. req[c].lease \in LeaseIds /\ now \in Nat /\ now <= now + AdmitTimeout
    BY <1>8, RequestFields, TimesAssumption DEF ClaimAnswered, RenewAnswered, TypeOK
  <2>2. ClaimAnswered(c) => req[c].at \in Nat /\ now <= req[c].at + AdmitTimeout
    BY RequestFields DEF ClaimAnswered, AgesInv, RecentRequest
  <2> QED  BY <1>6, <1>8, <2>1, <2>2 DEF ClaimAnswered, RenewAnswered
<1>9. ASSUME NEW m \in LeaseIds, LeaseStep(m) PROVE Good
  <2>1. CASE \E c \in Clients, ttl \in TTLs : RenewStored(c, m, ttl)
    <3>1. PICK c \in Clients, ttl \in TTLs : RenewStored(c, m, ttl)
      BY <2>1
    <3>2. CASE m = l
      <4> DEFINE row == [lease[l] EXCEPT !.expires = now + GrantedTTL(ttl)]
      <4>1. Active(l) /\ GrantedTTL(ttl) \in Nat
        BY <3>1, <3>2, GrantedTTLType DEF RenewStored
      <4>2. row \in Rows /\ row.created = lease[l].created /\ row.lastSeen = lease[l].lastSeen
        BY <1>4, <4>1 DEF Rows
      <4>3. row.expires = now + GrantedTTL(ttl)
        BY <1>4, <4>1 DEF Rows
      <4>4. AgedRow(row)
        BY <1>4, <4>1, <4>2, <4>3 DEF AgedRow
      <4> QED  BY <1>3, <3>1, <3>2, <4>2, <4>4 DEF RenewStored
    <3>3. CASE m # l
      BY <1>2, <3>1, <3>3 DEF RenewStored
    <3> QED  BY <3>2, <3>3
  <2>2. CASE Heartbeat(m)
    BY <1>6, <2>2, TimesAssumption DEF Heartbeat, TypeOK
  <2>3. CASE \E on \in BOOLEAN : HumanTakeover(m, on)
    <3>1. PICK on \in BOOLEAN : HumanTakeover(m, on)
      BY <2>3
    <3>2. CASE m = l
      <4> DEFINE row == [lease[l] EXCEPT !.human = on]
      <4>1. row \in Rows /\ AgedRow(row) /\ row.created = lease[l].created
        BY <1>4, <3>1, <3>2 DEF HumanTakeover, Rows, AgedRow
      <4> QED  BY <1>3, <3>1, <3>2, <4>1 DEF HumanTakeover
    <3>3. CASE m # l
      BY <1>2, <3>1, <3>3 DEF HumanTakeover
    <3> QED  BY <3>2, <3>3
  <2>4. CASE ReleaseByAgent(m)
    BY <1>5, <2>4 DEF ReleaseByAgent
  <2> QED  BY <1>9, <2>1, <2>2, <2>3, <2>4 DEF LeaseStep
<1>10. Good
  <2>1. CASE \E c \in Clients : ClaimStep(c) \/ RenewAnswered(c)
    BY <1>1, <1>7, <1>8, <2>1
       DEF ClaimStep, ClaimArrives, ClaimAdmitted, ClaimTurnedAway, ClaimReused, ClaimExhausted
  <2>2. CASE ReaperStep
    BY <1>1, <1>5, <2>2 DEF ReaperStep, ReapScan, ReapRelease, ReapMissed, ReapResetReturned
  <2> QED  BY <1>1, <1>9, <2>1, <2>2 DEF Next, DeviceWritten, Tick, vars
<1> QED  BY <1>10 DEF Good

\* The clock stands still or ticks, and no request outlives its time limit.
LEMMA ClockStep ==
    ASSUME TypeOK, [Next]_vars
    PROVE  /\ now \in Nat /\ now' \in Nat /\ now <= now'
           /\ now' = now \/ Tick
<1>1. now' = now \/ Tick
  <2>1. ASSUME NEW c \in Clients, ClaimStep(c) \/ RenewAnswered(c) PROVE now' = now
    BY <2>1 DEF ClaimStep, ClaimArrives, ClaimAdmitted, ClaimTurnedAway, ClaimReused,
                ClaimGranted, ClaimExhausted, ClaimAnswered, RenewAnswered
  <2>2. ASSUME NEW l \in LeaseIds, LeaseStep(l) PROVE now' = now
    BY <2>2 DEF LeaseStep, RenewStored, Heartbeat, HumanTakeover, ReleaseByAgent
  <2>3. CASE ReaperStep
    BY <2>3 DEF ReaperStep, ReapScan, ReapRelease, ReapMissed, ReapResetReturned
  <2> QED  BY <2>1, <2>2, <2>3 DEF Next, DeviceWritten, vars
<1> QED  BY <1>1 DEF Tick, TypeOK

\* A step leaves every request recent.
LEMMA RequestStep ==
    ASSUME TypeOK, AgesInv, [Next]_vars, NEW c \in Clients
    PROVE  RecentRequest(req[c])'
<1>1. now \in Nat /\ req[c] \in Requests /\ RecentRequest(req[c])
  BY DEF TypeOK, AgesInv
<1>2. now' = now /\ req'[c] = req[c] => RecentRequest(req[c])'
  BY <1>1 DEF RecentRequest
<1>3. \A e \in Clients : \A r : e # c /\ now' = now /\ Become(e, r) => RecentRequest(req[c])'
  BY <1>2 DEF Become, TypeOK
<1>4. \A r : now' = now /\ Become(c, r) /\ RecentRequest(r) => RecentRequest(req[c])'
  BY DEF Become, TypeOK, RecentRequest
<1>5. RecentRequest(NoRequest)
  BY DEF RecentRequest, NoRequest
<1>6. ASSUME NEW e \in Clients, ClaimStep(e) PROVE RecentRequest(req[c])'
  <2>1. CASE \E k \in Keys, ttl \in TTLs : ClaimArrives(e, k, ttl)
    <3>1. PICK k \in Keys, ttl \in TTLs : ClaimArrives(e, k, ttl)
      BY <2>1
    <3>2. PICK l \in LeaseIds :
             Become(e, [pc |-> "admit", id |-> l, key |-> k, at |-> now,
                        expires |-> now + GrantedTTL(ttl)])
      BY <3>1 DEF ClaimArrives
    <3>3. RecentRequest([pc |-> "admit", id |-> l, key |-> k, at |-> now,
                         expires |-> now + GrantedTTL(ttl)])
      BY <1>1, GrantedTTLType, TimesAssumption DEF RecentRequest
    <3> QED  BY <1>3, <1>4, <3>1, <3>2, <3>3 DEF ClaimArrives
  <2>2. CASE ClaimAdmitted(e)
    <3>1. CASE e = c
      <4>1. RecentRequest([pc |-> "claim", id |-> req[c].id, key |-> req[c].key,
                           at |-> req[c].at, expires |-> req[c].expires])
        BY <1>1, <2>2, <3>1 DEF RecentRequest, ClaimAdmitted
      <4> QED  BY <1>4, <2>2, <3>1, <4>1 DEF ClaimAdmitted
    <3> QED  BY <1>3, <2>2, <3>1 DEF ClaimAdmitted
  <2>3. CASE ClaimTurnedAway(e) \/ ClaimExhausted(e) \/ ClaimAnswered(e)
    BY <1>3, <1>4, <1>5, <2>3 DEF ClaimTurnedAway, ClaimExhausted, ClaimAnswered
  <2>4. CASE ClaimReused(e) \/ ClaimGranted(e)
    <3>1. PICK l \in LeaseIds :
             /\ Become(e, [pc |-> "touch", lease |-> l, at |-> req[e].at])
             /\ now' = now /\ req[e].pc = "claim"
      BY <2>4, RequestFields DEF ClaimReused, ClaimGranted, LeaseOf
    <3>2. e = c => RecentRequest([pc |-> "touch", lease |-> l, at |-> req[e].at])
      BY <1>1, <3>1 DEF RecentRequest
    <3> QED  BY <1>3, <1>4, <3>1, <3>2
  <2> QED  BY <1>6, <2>1, <2>2, <2>3, <2>4 DEF ClaimStep
<1>7. ASSUME NEW e \in Clients, RenewAnswered(e) PROVE RecentRequest(req[c])'
  BY <1>3, <1>4, <1>5, <1>7 DEF RenewAnswered
<1>8. ASSUME NEW l \in LeaseIds, LeaseStep(l) PROVE RecentRequest(req[c])'
  <2>1. \A m \in LeaseIds : RecentRequest([pc |-> "renewed", lease |-> m])
    BY DEF RecentRequest
  <2> QED  BY <1>2, <1>3, <1>4, <1>8, <2>1
           DEF LeaseStep, RenewStored, Heartbeat, HumanTakeover, ReleaseByAgent
<1>9. CASE Tick
  <2>1. req' = req /\ now' = now + 1
    BY <1>9 DEF Tick
  <2>2. req[c].pc \in {"admit", "claim", "touch"} => req[c].at \in Nat /\ now < req[c].at + AdmitTimeout
    BY <1>9, RequestFields DEF Tick
  <2>3. req[c].pc \in {"admit", "claim", "touch"} =>
            now + 1 <= req[c].at + AdmitTimeout /\ req[c].at <= now + 1
    BY <1>1, <2>2, TimesAssumption DEF RecentRequest
  <2> QED  BY <1>1, <2>1, <2>3 DEF RecentRequest
<1> QED  BY <1>2, <1>6, <1>7, <1>8, <1>9
         DEF Next, ReaperStep, ReapScan, ReapRelease, ReapMissed, ReapResetReturned,
             DeviceWritten, vars

\* Age only grows.
LEMMA FloorMonotone ==
    ASSUME NEW t \in Int, NEW u \in Int, t <= u, ReapFloor(t)
    PROVE  ReapFloor(u)
BY GrantedTTLType, TimesAssumption DEF ReapFloor

\* A step leaves only old leases on the watchdog's list.
LEMMA DueStep ==
    ASSUME TypeOK, AgesInv, [Next]_vars, NEW l \in reap'.due
    PROVE  lease'[l] # Unissued /\ ReapFloor(now' - lease'[l].created)
<1>1. l \in reap.due \/ l \in Due(now)
  <2>1. reap \in ReaperStates
    BY DEF TypeOK
  <2>2. ASSUME NEW c \in Clients, ClaimStep(c) \/ RenewAnswered(c) PROVE reap' = reap
    BY <2>2 DEF ClaimStep, ClaimArrives, ClaimAdmitted, ClaimTurnedAway, ClaimReused,
                ClaimGranted, ClaimExhausted, ClaimAnswered, RenewAnswered
  <2>3. ASSUME NEW m \in LeaseIds, LeaseStep(m) PROVE reap' = reap
    BY <2>3 DEF LeaseStep, RenewStored, Heartbeat, HumanTakeover, ReleaseByAgent
  <2>4. CASE ReapScan
    BY <2>1, <2>4 DEF ReapScan, ReaperStates
  <2>5. ASSUME NEW m \in LeaseIds, ReapRelease(m) \/ ReapMissed(m)
        PROVE  reap'.due = reap.due \ {m}
    BY <2>1, <2>5 DEF ReapRelease, ReapMissed, ReaperStates
  <2>6. ReapResetReturned => reap'.due = reap.due
    BY <2>1 DEF ReapResetReturned, ReaperStates
  <2> QED  BY <2>2, <2>3, <2>4, <2>5, <2>6 DEF Next, ReaperStep, DeviceWritten, Tick, vars
<1>2. l \in LeaseIds /\ lease[l] # Unissued /\ ReapFloor(now - lease[l].created)
  BY <1>1, DueIsOld DEF AgesInv, TypeOK, ReaperStates, Due
<1>3. lease'[l] # Unissued /\ lease'[l].created = lease[l].created
  BY <1>2, RowStep
<1>4. lease[l].created \in Nat
  BY <1>2, RowFields DEF Rows
<1>5. now \in Nat /\ now' \in Nat /\ now <= now'
  BY ClockStep
<1>6. now - lease[l].created \in Int /\ now' - lease[l].created \in Int
      /\ now - lease[l].created <= now' - lease[l].created
  BY <1>4, <1>5
<1> QED  BY <1>2, <1>3, <1>6, FloorMonotone

\* The ages invariant is inductive.
LEMMA AgesStep == TypeOK /\ TypeOK' /\ AgesInv /\ [Next]_vars => AgesInv'
<1> SUFFICES ASSUME TypeOK, TypeOK', AgesInv, [Next]_vars PROVE AgesInv'
  OBVIOUS
<1>1. ASSUME NEW l \in LeaseIds, (lease[l] # Unissued)' PROVE AgedRow(lease[l])'
  <2>1. AgedRow(lease'[l])
    BY <1>1, RowStep
  <2>2. lease'[l] \in Rows
    BY <1>1 DEF TypeOK
  <2>3. lease'[l].created \in Nat /\ now \in Nat /\ now' \in Nat /\ now <= now'
    BY <2>2, ClockStep DEF Rows
  <2> QED  BY <2>1, <2>3 DEF AgedRow
<1>2. \A c \in Clients : RecentRequest(req[c])'
  BY RequestStep
<1>3. \A l \in reap'.due : lease'[l] # Unissued /\ ReapFloor(now' - lease'[l].created)
  BY DueStep
<1>4. (\A l \in reap.due : lease[l] # Unissued /\ ReapFloor(now - lease[l].created))'
  BY <1>3 DEF ReapFloor
<1> QED  BY <1>1, <1>2, <1>4 DEF AgesInv

\* The watchdog never takes a lease that is younger than every gate allows:
\* not after a renewal, a heartbeat or a claim that races with its round, and
\* for every setting of the timeouts, whichever of them are off.
THEOREM NeverReapedEarly == Spec => NoEarlyReap
<1>1. Init => AgesInv
  BY DEF Init, AgesInv, RecentRequest, NoRequest, Unissued
<1>2. Spec => []AgesInv
  BY <1>1, AgesStep, TypeCorrect, PTL DEF Spec
<1>3. AgesInv => [\A l \in LeaseIds :
                     ReapRelease(l) => ReapFloor(now - lease[l].created)]_vars
  BY DEF AgesInv, ReapRelease, NextDue
<1> QED  BY <1>2, <1>3, PTL DEF NoEarlyReap, Spec
=============================================================================
