------------------------------ MODULE Allocator ------------------------------
(***************************************************************************)
(* What droidpool promises about leases, with no tables, no clock and no   *)
(* watchdog: a lease binds one worktree to one device from the moment it   *)
(* is granted to the moment it is given back.  No device serves two        *)
(* leases, no worktree holds two, a lease never moves to another device    *)
(* and, once given back, never comes back to life.                         *)
(*                                                                         *)
(* LeaseStore (the SQLite tables with the HTTP handlers and the reaper)    *)
(* and PoolManager (the daemon with its device rebuilds) implement this    *)
(* specification, and so does AgentCli, where requests may come late.      *)
(***************************************************************************)
CONSTANTS LeaseIds,   \* lease identifiers, each issued at most once
          Keys,       \* (host, worktree) pairs, the idempotency key of a claim
          Devices     \* devices of the pool

VARIABLES held,       \* the bindings in force
          spent       \* the lease identifiers ever issued

vars == <<held, spent>>

Binding == [lease : LeaseIds, key : Keys, dev : Devices]

TypeOK == held \in SUBSET Binding /\ spent \in SUBSET LeaseIds

Init == held = {} /\ spent = {}

\* Grant device d to worktree k under the new lease l.
Acquire(l, k, d) ==
    /\ l \notin spent
    /\ \A b \in held : b.key # k /\ b.dev # d
    /\ held' = held \cup {[lease |-> l, key |-> k, dev |-> d]}
    /\ spent' = spent \cup {l}

\* Give a binding back.
GiveBack(b) ==
    /\ b \in held
    /\ held' = held \ {b}
    /\ UNCHANGED spent

Next == \/ \E l \in LeaseIds, k \in Keys, d \in Devices : Acquire(l, k, d)
        \/ \E b \in held : GiveBack(b)

Spec == Init /\ [][Next]_vars
=============================================================================
