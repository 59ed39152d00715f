------------------------------ MODULE LeaseTable -----------------------------
(***************************************************************************)
(* The two SQLite tables of internal/store/store.go as far as both the     *)
(* lease handlers and the device manager see them: the state column of     *)
(* devices, and the leases with their status, key and device.              *)
(*                                                                         *)
(* db.SetMaxOpenConns(1) serialises the connection, so one statement, or   *)
(* one transaction, is one atomic step.  The rows of leases may carry more *)
(* columns (LeaseStore adds the times); nothing here depends on them.      *)
(***************************************************************************)
EXTENDS Naturals

CONSTANTS Devices,    \* device ids; their order is that of ORDER BY d.id
          Keys,       \* (host, worktree) pairs
          LeaseIds    \* identifiers newID can draw; never drawn twice

ASSUME DevicesAssumption == Devices \subseteq Nat \ {0}

VARIABLES lease,      \* leases table: id -> row
          state       \* devices.state: device -> state

DeviceStates == {"creating", "ready", "leased", "resetting", "broken"}
NoRow == "absent"     \* the devices table has no row for this device

\* validTransitions, as pairs.
ValidTransitions ==
    {<<"creating", "ready">>, <<"creating", "broken">>,
     <<"ready", "leased">>, <<"ready", "resetting">>, <<"ready", "broken">>,
     <<"leased", "resetting">>, <<"leased", "broken">>,
     <<"resetting", "ready">>, <<"resetting", "broken">>,
     <<"broken", "creating">>}

Unissued == [status |-> "unissued"]

\* Rows with released_at = 0.
Active(l) == lease[l].status = "active"
Released(l) == lease[l].status = "released"
LeaseOf(k) == {l \in LeaseIds : Active(l) /\ lease[l].key = k}
LeaseOn(d) == {l \in LeaseIds : Active(l) /\ lease[l].dev = d}

\* Mutant: the query without NOT EXISTS trusts the state column.
FreeDevices_StateOnly == {d \in Devices : state[d] = "ready"}

\* state = 'ready' AND NOT EXISTS (an active lease on the device).
FreeDevices == {d \in Devices : state[d] = "ready" /\ LeaseOn(d) = {}}

\* ORDER BY d.id LIMIT 1.
FirstFree(d) == d \in FreeDevices /\ \A e \in FreeDevices : d <= e

\* Mutant: the device is leased out and its state column left as it was.
GrantLease_LeaseOnly(l, row) ==
    /\ lease[l] = Unissued
    /\ lease' = [lease EXCEPT ![l] = row]
    /\ UNCHANGED state

\* Mutant: INSERT OR REPLACE, the identifier of an old lease is issued again.
GrantLease_Replace(l, row) ==
    /\ ~Active(l)
    /\ lease' = [lease EXCEPT ![l] = row]
    /\ state' = [state EXCEPT ![row.dev] = "leased"]

\* UPDATE devices SET state='leased'; INSERT INTO leases: one transaction.
GrantLease(l, row) ==
    /\ lease[l] = Unissued
    /\ lease' = [lease EXCEPT ![l] = row]
    /\ state' = [state EXCEPT ![row.dev] = "leased"]

\* Mutant: the status of the lease ends up in the state of the device.
CloseLease_WrongColumn(l) ==
    /\ Active(l)
    /\ lease' = [lease EXCEPT ![l].status = "released"]
    /\ state' = [state EXCEPT ![lease[l].dev] = "released"]

\* Mutant: the device goes straight back to the pool.
CloseLease_Ready(l) ==
    /\ Active(l)
    /\ lease' = [lease EXCEPT ![l].status = "released"]
    /\ state' = [state EXCEPT ![lease[l].dev] = "ready"]

\* Store.Release: close the row, send the device to be reset, whatever
\* its state was; ErrNotFound (no step) when the row is not active.
CloseLease(l) ==
    /\ Active(l)
    /\ lease' = [lease EXCEPT ![l].status = "released"]
    /\ state' = [state EXCEPT ![lease[l].dev] = "resetting"]

\* idx_lease_idem and idx_lease_device: what the two partial unique indexes
\* state.  The claim transaction establishes it without their help.
OneLeasePerKey ==
    \A l, m \in LeaseIds :
        Active(l) /\ Active(m) /\ lease[l].key = lease[m].key => l = m
OneLeasePerDevice ==
    \A l, m \in LeaseIds :
        Active(l) /\ Active(m) /\ lease[l].dev = lease[m].dev => l = m

\* Refinement mapping to Allocator.
HeldBindings ==
    {[lease |-> l, key |-> lease[l].key, dev |-> lease[l].dev] :
        l \in {m \in LeaseIds : Active(m)}}
SpentIds == {l \in LeaseIds : lease[l] # Unissued}
Alloc == INSTANCE Allocator WITH held <- HeldBindings, spent <- SpentIds
=============================================================================
