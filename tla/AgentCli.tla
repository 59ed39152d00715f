------------------------------- MODULE AgentCli ------------------------------
(***************************************************************************)
(* The agents' side of a lease: the commands claim and release of          *)
(* cmd/droidpool with the record they keep in the worktree                 *)
(* (internal/localstate), and the tools claim, run and release of          *)
(* cmd/droidpool-mcp, which keep theirs in the agent's memory.             *)
(*                                                                         *)
(* A request can be lost, answered by something that is not the control    *)
(* plane (and taken for a success all the same), answered after its client *)
(* has given up, and carried out later still.  An agent waits for one      *)
(* request at a time; droidpool_run edits the record beside it.            *)
(***************************************************************************)
EXTENDS LeaseTable

CONSTANTS
    Places,        \* places of a record: worktree directory and session key
    KeyOf,         \* place -> key: two directories may have the same name
    Setups,        \* who is there: places with the command and with the MCP server,
                   \* and a bound: how many requests fail on the way
    NoLease, NoDevice

ASSUME ClientAssumption ==
    /\ KeyOf \in [Places -> Keys]
    /\ Setups \subseteq [cli : SUBSET Places, mcp : SUBSET Places, faults : Nat]
    /\ NoLease \notin LeaseIds /\ NoDevice \notin Devices

VARIABLES
    rec,           \* the file .droidpool of each place
    mcp,           \* what the last droidpool_claim of the agent there returned
    edit,          \* what writeADBAddr is about to write there; NoFile: nothing
    cmd,           \* the command each agent is in
    late,          \* requests whose client has given up
    leaving,       \* agents that are done and only release from now on
    told,          \* history: the lease saved last in each place
    astray,        \* history: places that took the answer of something else for the
                   \* control plane's, or whose lease id the other program wrote over
    warned,        \* history: leases for which reuseWarning was printed
    env            \* the setup, and the requests that may still fail

table == <<lease, state>>
agents == <<rec, mcp, edit, cmd, leaving, told, astray, warned>>
vars == <<table, agents, late, env>>

-----------------------------------------------------------------------------
(* State.                                                                  *)

\* leaseState; the file that is not there has no lease and no address.
File(l, d) == [lease |-> l, addr |-> d]
NoFile == File(NoLease, NoDevice)
Files == [lease : LeaseIds \cup {NoLease}, addr : Devices \cup {NoDevice}]

Posts(k) == [method |-> "POST", arg |-> k]
Deletes(l) == [method |-> "DELETE", arg |-> l]
Requests == {Posts(k) : k \in Keys} \cup {Deletes(l) : l \in LeaseIds}

\* ok (any status below 400, whatever the body), the not_found of handleRelease,
\* a 404 of anything else on the way, or another failure (409, 503, a timeout).
Codes == {"ok", "not_found", "no_route", "failed"}
Says(code) == [code |-> code, file |-> NoFile, reused |-> FALSE]
Given(l, d, r) == [code |-> "ok", file |-> File(l, d), reused |-> r]
Answers == {Says(c) : c \in Codes} \cup
           {Given(l, d, r) : l \in LeaseIds, d \in Devices, r \in BOOLEAN}
Idle == [pc |-> "idle"]

Rows == [status : {"active", "released"}, key : Keys, dev : Devices]
Programs == {"cli", "mcp"}
Sent == [pc : {"sent"}, by : Programs, req : Requests]
Answered == [pc : {"answered"}, by : Programs, req : Requests, ans : Answers]

TypeOK ==
    /\ lease \in [LeaseIds -> Rows \cup {Unissued}]
    /\ state \in [Devices -> {"ready", "leased", "resetting"}]
    /\ rec \in [Places -> Files] /\ mcp \in [Places -> Files] /\ edit \in [Places -> Files]
    /\ cmd \in [Places -> {Idle} \cup Sent \cup Answered]
    /\ late \subseteq Requests
    /\ leaving \subseteq Places /\ astray \subseteq Places /\ warned \subseteq LeaseIds
    /\ told \in [Places -> LeaseIds \cup {NoLease}]
    /\ env \in [cli : SUBSET Places, mcp : SUBSET Places, faults : Nat]

Init ==
    /\ lease = [l \in LeaseIds |-> Unissued] /\ state = [d \in Devices |-> "ready"]
    /\ rec = [p \in Places |-> NoFile] /\ mcp = [p \in Places |-> NoFile]
    /\ edit = [p \in Places |-> NoFile] /\ cmd = [p \in Places |-> Idle]
    /\ late = {} /\ leaving = {} /\ astray = {}
    /\ told = [p \in Places |-> NoLease] /\ warned = {}
    /\ env \in Setups

-----------------------------------------------------------------------------
(* The control plane, as far as the commands see it.                       *)

\* handleClaim: the lease the key has, or a new one, or a refusal.
HandleClaim(k, ans) ==
    \/ \E l \in LeaseOf(k) : ans = Given(l, lease[l].dev, TRUE) /\ UNCHANGED table
    \/ /\ LeaseOf(k) = {} /\ \E l \in LeaseIds : lease[l] = Unissued
       /\ LET l == CHOOSE x \in LeaseIds : lease[x] = Unissued IN
          \E d \in Devices :
              /\ FirstFree(d) /\ ans = Given(l, d, FALSE)
              /\ GrantLease(l, [status |-> "active", key |-> k, dev |-> d])
    \/ LeaseOf(k) = {} /\ ans = Says("failed") /\ UNCHANGED table

\* handleRelease.
HandleRelease(l, ans) ==
    \/ CloseLease(l) /\ ans = Says("ok")
    \/ ~Active(l) /\ ans = Says("not_found") /\ UNCHANGED table

Handle(m, ans) ==
    IF m.method = "POST" THEN HandleClaim(m.arg, ans) ELSE HandleRelease(m.arg, ans)

\* The watchdog reclaims a lease: the commands never renew one.
Reap(l) == CloseLease(l) /\ UNCHANGED <<agents, late, env>>

Reset(d) ==
    /\ state[d] = "resetting"
    /\ state' = [state EXCEPT ![d] = "ready"]
    /\ UNCHANGED <<lease, agents, late, env>>

-----------------------------------------------------------------------------
(* client.do: the way there and back.                                      *)

Send(p, by, m) ==
    /\ cmd[p] = Idle
    /\ cmd' = [cmd EXCEPT ![p] = [pc |-> "sent", by |-> by, req |-> m]]

Answer(p, ans) ==
    cmd' = [cmd EXCEPT ![p] = [pc |-> "answered", by |-> cmd[p].by, req |-> cmd[p].req, ans |-> ans]]

\* Mutants: any 404 means that the lease is gone; only success does.
Cleared_AnyNotFound(code) == code \in {"ok", "not_found", "no_route"}
Cleared_SuccessOnly(code) == code = "ok"

\* releaseOutcome: only the not_found of the control plane counts.
Cleared(code) == code \in {"ok", "not_found"}

Execute(p) ==
    /\ cmd[p].pc = "sent"
    /\ \E ans \in Answers : Handle(cmd[p].req, ans) /\ Answer(p, ans)
    /\ UNCHANGED <<rec, mcp, edit, leaving, told, astray, warned, late, env>>

\* DROIDPOOL_URL leads elsewhere, or a proxy answers: the request goes nowhere,
\* yet a login page is a success to the client (and another pool's not_found ends
\* a release as well as that).
Misroute(p) ==
    /\ cmd[p].pc = "sent" /\ env.faults > 0
    /\ env' = [env EXCEPT !.faults = @ - 1]
    /\ \E code \in {"ok", "no_route", "failed"} :
          /\ Answer(p, Says(code))
          /\ astray' = IF code = "ok" /\ cmd[p].by = "cli" THEN astray \cup {p} ELSE astray
    /\ UNCHANGED <<table, rec, mcp, edit, leaving, told, warned, late>>

\* The command is interrupted, or its timeout of 30 or 60 s passes.
GiveUp(p) ==
    /\ cmd[p] # Idle /\ env.faults > 0
    /\ env' = [env EXCEPT !.faults = @ - 1]
    /\ cmd' = [cmd EXCEPT ![p] = Idle]
    /\ late' = IF cmd[p].pc = "sent" THEN late \cup {cmd[p].req} ELSE late
    /\ UNCHANGED <<table, rec, mcp, edit, leaving, told, astray, warned>>

\* A request nobody waits for is carried out all the same, or is lost.
ExecuteLate(m) ==
    /\ m \in late
    /\ \E ans \in Answers : Handle(m, ans)
    /\ late' = late \ {m}
    /\ UNCHANGED <<agents, env>>

Lose(m) ==
    /\ m \in late
    /\ late' = late \ {m}
    /\ UNCHANGED <<table, agents, env>>

-----------------------------------------------------------------------------
(* droidpool claim and droidpool release.                                  *)

Done(p, by, method) ==
    /\ cmd[p].pc = "answered" /\ cmd[p].by = by /\ cmd[p].req.method = method
    /\ cmd' = [cmd EXCEPT ![p] = Idle]

CmdClaim(p) ==
    /\ p \in env.cli \ leaving
    /\ Send(p, "cli", Posts(KeyOf[p]))
    /\ UNCHANGED <<table, rec, mcp, edit, leaving, told, astray, warned, late, env>>

\* A claim that names a lease tells the agent of it; a stray answer names none.
Told(p, l) ==
    IF l = NoLease THEN UNCHANGED <<told, astray>>
    ELSE told' = [told EXCEPT ![p] = l] /\ astray' = astray \ {p}

\* Mutant: the record is saved before the old one is looked at.
FinishClaim_SaveFirst(p) ==
    /\ Done(p, "cli", "POST")
    /\ IF cmd[p].ans.code = "ok"
       THEN rec' = [rec EXCEPT ![p] = cmd[p].ans.file] /\ Told(p, cmd[p].ans.file.lease)
       ELSE UNCHANGED <<rec, told, astray>>
    /\ UNCHANGED <<table, mcp, edit, leaving, warned, late, env>>

\* heldHere, reuseWarning, saveState; a claim that failed leaves the record.
FinishClaim(p) ==
    LET f == cmd[p].ans.file IN
    /\ Done(p, "cli", "POST")
    /\ IF cmd[p].ans.code = "ok"
       THEN /\ rec' = [rec EXCEPT ![p] = f]
            /\ Told(p, f.lease)
            /\ warned' = IF cmd[p].ans.reused /\ rec[p].lease # f.lease
                         THEN warned \cup {f.lease} ELSE warned
       ELSE UNCHANGED <<rec, told, astray, warned>>
    /\ UNCHANGED <<table, mcp, edit, leaving, late, env>>

\* Mutant: a record without a lease id is no reason to stop.
CmdRelease_NoId(p) ==
    /\ rec[p] # NoFile
    /\ Send(p, "cli", Deletes(rec[p].lease))
    /\ UNCHANGED <<table, rec, mcp, edit, leaving, told, astray, warned, late, env>>

\* Without a lease id in the record the command stops here.
CmdRelease(p) ==
    /\ rec[p].lease # NoLease
    /\ Send(p, "cli", Deletes(rec[p].lease))
    /\ UNCHANGED <<table, rec, mcp, edit, leaving, told, astray, warned, late, env>>

FinishRelease(p) ==
    /\ Done(p, "cli", "DELETE")
    /\ rec' = IF Cleared(cmd[p].ans.code) THEN [rec EXCEPT ![p] = NoFile] ELSE rec
    /\ UNCHANGED <<table, mcp, edit, leaving, told, astray, warned, late, env>>

-----------------------------------------------------------------------------
(* droidpool_claim, droidpool_release and droidpool_run.                   *)

\* The worktree name is the agent's choice; no session key is added to it.
McpClaim(p) ==
    /\ p \in env.mcp \ leaving
    /\ \E k \in Keys : Send(p, "mcp", Posts(k))
    /\ UNCHANGED <<table, rec, mcp, edit, leaving, told, astray, warned, late, env>>

McpRelease(p) ==
    /\ mcp[p] # NoFile
    /\ Send(p, "mcp", Deletes(mcp[p].lease))
    /\ UNCHANGED <<table, rec, mcp, edit, leaving, told, astray, warned, late, env>>

\* A failed claim leaves the agent with the lease it knew; any 404 tells it
\* that there is nothing left to release.
FinishMcp(p) ==
    LET ans == cmd[p].ans IN
    /\ \/ /\ Done(p, "mcp", "POST")
          /\ mcp' = IF ans.code = "ok" THEN [mcp EXCEPT ![p] = ans.file] ELSE mcp
       \/ /\ Done(p, "mcp", "DELETE")
          /\ mcp' = IF ans.code = "failed" THEN mcp ELSE [mcp EXCEPT ![p] = NoFile]
    /\ UNCHANGED <<table, rec, edit, leaving, told, astray, warned, late, env>>

\* Mutants: the address goes into the record whatever is there; into the record
\* as it is by then, and not as it was read.
ReadRecord_Always(p, f, d) == edit' = [edit EXCEPT ![p] = File(f.lease, d)]
WriteRecord_Merge(p) == rec' = [rec EXCEPT ![p].addr = edit[p].addr]

\* writeADBAddr refuses a record of another device, keeps the lease id, and
\* writes the whole record, whatever has become of it since it was read.
ReadRecord(p, f, d) ==
    /\ f.addr \in {NoDevice, d}
    /\ edit' = [edit EXCEPT ![p] = File(f.lease, d)]

WriteRecord(p) == rec' = [rec EXCEPT ![p] = edit[p]]

\* os.WriteFile empties a file first: while droidpool claim saves, nothing is read.
Saves(p) == cmd[p].pc = "answered" /\ cmd[p].by = "cli" /\ cmd[p].req.method = "POST"
Readable(p) == {rec[p]} \cup IF Saves(p) THEN {NoFile} ELSE {}

McpRun(p) ==
    /\ p \notin leaving /\ mcp[p] # NoFile /\ edit[p] = NoFile
    /\ \E f \in Readable(p) : ReadRecord(p, f, mcp[p].addr)
    /\ UNCHANGED <<table, rec, mcp, cmd, leaving, told, astray, warned, late, env>>

McpRunWrites(p) ==
    /\ edit[p] # NoFile
    /\ WriteRecord(p)
    /\ edit' = [edit EXCEPT ![p] = NoFile]
    /\ astray' = IF rec[p].lease \in {NoLease, edit[p].lease} THEN astray ELSE astray \cup {p}
    /\ UNCHANGED <<table, mcp, cmd, leaving, told, warned, late, env>>

\* The agent is done; from now on it only releases what it has.
Leave(p) ==
    /\ p \notin leaving /\ cmd[p] = Idle /\ rec[p].lease # NoLease
    /\ leaving' = leaving \cup {p}
    /\ UNCHANGED <<table, rec, mcp, edit, cmd, told, astray, warned, late, env>>

-----------------------------------------------------------------------------

Returns(p) == Execute(p) \/ FinishClaim(p) \/ FinishRelease(p) \/ FinishMcp(p)

Next ==
    \/ \E p \in Places :
           \/ CmdClaim(p) \/ CmdRelease(p) \/ McpClaim(p) \/ McpRelease(p)
           \/ McpRun(p) \/ McpRunWrites(p) \/ Leave(p) \/ Returns(p) \/ Misroute(p) \/ GiveUp(p)
    \/ \E m \in Requests : ExecuteLate(m) \/ Lose(m)
    \/ \E l \in LeaseIds : Reap(l)
    \/ \E d \in Devices : Reset(d)

Spec == Init /\ [][Next]_vars

\* A request that is not lost is answered, and an agent that is done repeats
\* droidpool release until it exits with 0.
Fairness ==
    \A p \in Places : WF_vars(Returns(p)) /\ SF_vars(p \in leaving /\ CmdRelease(p))

FairSpec == Spec /\ Fairness

-----------------------------------------------------------------------------
(* Properties.                                                             *)

\* The lease the agent was told of last is still its own.
Holds(p) == told[p] # NoLease /\ Active(told[p])

\* A lease an agent was told of is in its record for as long as it is active,
\* whatever releases of it were lost, repeated, refused by others or carried
\* out late: else nobody could give the device back before its time is up.
NoForgottenLease ==
    \A p \in Places \ astray : Holds(p) => rec[p].lease = told[p]

\* The lease and the address of a record belong together, though two programs
\* read and write it at the same time and answers come from anywhere: else
\* heartbeats go to one lease and packages to another device.
RecordNotMixed ==
    \A p \in Places : rec[p].lease # NoLease => rec[p].addr = lease[rec[p].lease].dev

\* When two places hold one lease, one of their agents has been warned.
SharedIsSeen ==
    \A p, q \in Places :
        p # q /\ rec[p].lease # NoLease /\ rec[p].lease = rec[q].lease
            => rec[p].lease \in warned

\* An agent that keeps releasing comes to an end of it: the record is cleared
\* and no lease it was told of is left, unless a stranger said so.
LeavingEnds ==
    \A p \in Places :
        p \in leaving ~> rec[p].lease = NoLease /\ (Holds(p) => p \in astray)

-----------------------------------------------------------------------------
(* What the code does not keep.                                            *)

\* releaseOutcome clears the record only when the lease is over.  Any status
\* below 400 is a success to client.do, whoever answers; and the record a claim
\* has just saved may be lost to the one droidpool_run has read before.
RecordOutlivesStrangers ==
    \A p \in Places : Holds(p) => rec[p].lease = told[p]
=============================================================================
