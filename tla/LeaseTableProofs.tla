-------------------------- MODULE LeaseTableProofs ---------------------------
(***************************************************************************)
(* What the statements on the lease table preserve, whoever runs them.     *)
(* The proofs of LeaseStore, PoolManager and AgentCli rest on them: each   *)
(* of their steps grants a lease, closes one, or leaves them all alone.    *)
(***************************************************************************)
EXTENDS LeaseTable, TLAPS

\* A table of leases, whatever further columns its rows have.
Table == lease = [l \in LeaseIds |-> lease[l]]

\* What CloseLease does to the table, said without the other columns.
Closes(l) ==
    /\ Active(l)
    /\ lease'[l].status = "released"
    /\ \A m \in LeaseIds \ {l} : lease'[m] = lease[m]

\* The step changes no binding: rows may get other times, but no lease is
\* granted, closed or moved.
SameBindings ==
    \A l \in LeaseIds :
        /\ lease'[l].status = lease[l].status
        /\ Active(l) => lease'[l].key = lease[l].key /\ lease'[l].dev = lease[l].dev
        /\ lease'[l] = Unissued <=> lease[l] = Unissued

\* The claim transaction keeps both unique indexes satisfied, given what it
\* has read: no active lease of this worktree, none on this device.
LEMMA GrantKeepsIndexes ==
    ASSUME NEW l \in LeaseIds, NEW row, row.status = "active",
           Table, OneLeasePerKey, OneLeasePerDevice,
           LeaseOf(row.key) = {}, LeaseOn(row.dev) = {}, GrantLease(l, row)
    PROVE  OneLeasePerKey' /\ OneLeasePerDevice'
<1>1. lease'[l] = row /\ \A m \in LeaseIds \ {l} : lease'[m] = lease[m]
  BY DEF GrantLease, Table
<1>2. \A m \in LeaseIds : Active(m) => lease[m].key # row.key /\ lease[m].dev # row.dev
  BY DEF LeaseOf, LeaseOn
<1>3. OneLeasePerKey'
  BY <1>1, <1>2 DEF OneLeasePerKey, Active
<1>4. OneLeasePerDevice'
  BY <1>1, <1>2 DEF OneLeasePerDevice, Active
<1> QED  BY <1>3, <1>4

\* Closing a lease frees its key and its device and takes no other.
LEMMA CloseKeepsIndexes ==
    ASSUME NEW l \in LeaseIds, OneLeasePerKey, OneLeasePerDevice, Closes(l)
    PROVE  OneLeasePerKey' /\ OneLeasePerDevice'
<1>1. \A m \in LeaseIds : Active(m)' => m # l /\ Active(m)
  BY DEF Active, Closes
<1> QED  BY <1>1 DEF Closes, OneLeasePerKey, OneLeasePerDevice, Active

\* A step that leaves the bindings alone keeps them apart.
LEMMA SameKeepsIndexes ==
    ASSUME OneLeasePerKey, OneLeasePerDevice, SameBindings
    PROVE  OneLeasePerKey' /\ OneLeasePerDevice'
BY DEF SameBindings, OneLeasePerKey, OneLeasePerDevice, Active

-----------------------------------------------------------------------------
(* The same three, as steps of Allocator.                                  *)

\* A granted lease is a new binding of the allocator.
LEMMA GrantIsAcquire ==
    ASSUME NEW l \in LeaseIds, NEW row, row.status = "active",
           row.key \in Keys, row.dev \in Devices,
           Table, LeaseOf(row.key) = {}, LeaseOn(row.dev) = {}, GrantLease(l, row)
    PROVE  Alloc!Acquire(l, row.key, row.dev)
<1>1. lease'[l] = row /\ \A m \in LeaseIds \ {l} : lease'[m] = lease[m]
  BY DEF GrantLease, Table
<1>2. lease[l] = Unissued /\ row # Unissued /\ ~Active(l)
  BY DEF GrantLease, Unissued, Active
<1>3. l \notin SpentIds
  BY <1>2 DEF SpentIds
<1>4. \A b \in HeldBindings : b.key # row.key /\ b.dev # row.dev
  BY DEF HeldBindings, LeaseOf, LeaseOn
<1>5. SpentIds' = SpentIds \cup {l}
  BY <1>1, <1>2 DEF SpentIds
<1>6. {m \in LeaseIds : Active(m)}' = {m \in LeaseIds : Active(m)} \cup {l}
  BY <1>1 DEF Active
<1>7. HeldBindings' = HeldBindings \cup {[lease |-> l, key |-> row.key, dev |-> row.dev]}
  <2>1. \A m \in LeaseIds : Active(m) => lease'[m] = lease[m]
    BY <1>1, <1>2
  <2> QED  BY <1>1, <1>6, <2>1 DEF HeldBindings
<1> QED  BY <1>3, <1>4, <1>5, <1>7 DEF Alloc!Acquire

\* A closed lease is a binding given back.
LEMMA CloseIsGiveBack ==
    ASSUME NEW l \in LeaseIds, Closes(l)
    PROVE  \E b \in HeldBindings : Alloc!GiveBack(b)
<1> DEFINE bind(m) == [lease |-> m, key |-> lease[m].key, dev |-> lease[m].dev]
<1>1. /\ lease'[l].status = "released"
      /\ \A m \in LeaseIds \ {l} : lease'[m] = lease[m]
  BY DEF Closes
<1>2. Active(l) /\ lease[l] # Unissued
  BY DEF Closes, Active, Unissued
<1>3. lease'[l] # Unissued
  BY <1>1 DEF Unissued
<1>4. bind(l) \in HeldBindings
  BY <1>2 DEF HeldBindings
<1>5. SpentIds' = SpentIds
  BY <1>1, <1>2, <1>3 DEF SpentIds, Unissued
<1>6. HeldBindings' = HeldBindings \ {bind(l)}
  <2>1. {m \in LeaseIds : Active(m)}' = {m \in LeaseIds : Active(m)} \ {l}
    BY <1>1, <1>3 DEF Active
  <2>2. \A m \in LeaseIds \ {l} : bind(m)' = bind(m) /\ bind(m) # bind(l)
    BY <1>1
  <2> QED  BY <2>1, <2>2 DEF HeldBindings
<1> QED  BY <1>4, <1>5, <1>6 DEF Alloc!GiveBack

\* A step that leaves the bindings alone is a stuttering step of Allocator.
LEMMA SameIsStutter ==
    ASSUME SameBindings
    PROVE  UNCHANGED <<HeldBindings, SpentIds>>
<1>1. {m \in LeaseIds : Active(m)}' = {m \in LeaseIds : Active(m)}
  BY DEF SameBindings, Active
<1>2. HeldBindings' = HeldBindings
  BY <1>1 DEF SameBindings, HeldBindings
<1>3. SpentIds' = SpentIds
  BY DEF SameBindings, SpentIds
<1> QED  BY <1>2, <1>3

-----------------------------------------------------------------------------
(* The three kinds of step put together.                                   *)

\* Every step of either daemon model is one of these, seen from the table.
TableStep ==
    \/ \E l \in LeaseIds, k \in Keys, d \in Devices : \E row :
           /\ row.status = "active" /\ row.key = k /\ row.dev = d
           /\ LeaseOf(k) = {} /\ LeaseOn(d) = {}
           /\ GrantLease(l, row)
    \/ \E l \in LeaseIds : Closes(l)
    \/ SameBindings

\* No kind of step breaks a unique index.
LEMMA TableStepKeepsIndexes ==
    ASSUME Table, OneLeasePerKey, OneLeasePerDevice, TableStep
    PROVE  OneLeasePerKey' /\ OneLeasePerDevice'
BY GrantKeepsIndexes, CloseKeepsIndexes, SameKeepsIndexes DEF TableStep

\* Every kind of step is a step of Allocator or changes nothing it sees.
LEMMA TableStepRefines ==
    ASSUME Table, TableStep
    PROVE  [Alloc!Next]_<<HeldBindings, SpentIds>>
<1>1. CASE \E l \in LeaseIds, k \in Keys, d \in Devices : \E row :
             /\ row.status = "active" /\ row.key = k /\ row.dev = d
             /\ LeaseOf(k) = {} /\ LeaseOn(d) = {}
             /\ GrantLease(l, row)
  <2>1. \E l \in LeaseIds, k \in Keys, d \in Devices : Alloc!Acquire(l, k, d)
    BY <1>1, GrantIsAcquire
  <2> QED  BY <2>1 DEF Alloc!Next
<1>2. CASE \E l \in LeaseIds : Closes(l)
  BY <1>2, CloseIsGiveBack DEF Alloc!Next
<1>3. CASE SameBindings
  BY <1>3, SameIsStutter
<1> QED  BY <1>1, <1>2, <1>3 DEF TableStep
=============================================================================
