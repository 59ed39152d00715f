--------------------------- MODULE AgentCliProofs ----------------------------
(***************************************************************************)
(* Theorems about AgentCli, for any set of worktrees, devices and keys and *)
(* any number of failures on the way.                                      *)
(***************************************************************************)
EXTENDS AgentCli, LeaseTableProofs

\* A lease that has been granted, whether or not it is still active.
Issued(l) == l \in LeaseIds /\ lease[l] # Unissued

\* What is known of a lease stays true, and what is over stays over.
TableGoesOn ==
    \A l \in LeaseIds : Issued(l) =>
        Issued(l)' /\ lease'[l].dev = lease[l].dev /\ (~Active(l) => ~Active(l)')

\* A file that names a lease has the address of its device.
FileFits(f) == Issued(f.lease) /\ f.addr = lease[f.lease].dev

(* The control plane.                                                      *)

LEMMA ActiveRow ==
    ASSUME TypeOK, NEW l \in LeaseIds
    PROVE  /\ Active(l) => lease[l] \in Rows
           /\ lease[l] # Unissued => lease[l] \in Rows
<1>1. lease[l] \in Rows \cup {Unissued}
  BY DEF TypeOK
<1> QED  BY <1>1 DEF Active, Unissued

LEMMA CloseStep ==
    ASSUME TypeOK, NEW l \in LeaseIds, CloseLease(l)
    PROVE  /\ lease' \in [LeaseIds -> Rows \cup {Unissued}]
           /\ state' \in [Devices -> {"ready", "leased", "resetting"}]
           /\ TableGoesOn /\ Issued(l) /\ ~Active(l)'
<1>1. lease[l] \in Rows
  BY ActiveRow DEF CloseLease
<1>2. [lease[l] EXCEPT !.status = "released"] \in Rows
  BY <1>1 DEF Rows
<1>3. lease[l] # Unissued /\ [lease[l] EXCEPT !.status = "released"] # Unissued
  BY <1>1 DEF CloseLease, Active, Rows, Unissued
<1>4. lease' = [lease EXCEPT ![l] = [lease[l] EXCEPT !.status = "released"]]
  BY <1>1 DEF CloseLease, TypeOK, Rows
<1>5. [lease[l] EXCEPT !.status = "released"].status = "released"
      /\ [lease[l] EXCEPT !.status = "released"].dev = lease[l].dev
  BY <1>1 DEF Rows
<1>6. lease' \in [LeaseIds -> Rows \cup {Unissued}]
  BY <1>2, <1>4 DEF TypeOK
<1>7. TableGoesOn /\ Issued(l) /\ ~Active(l)'
  BY <1>3, <1>4, <1>5 DEF TypeOK, TableGoesOn, Issued, Active
<1>8. state' \in [Devices -> {"ready", "leased", "resetting"}]
  BY <1>1 DEF CloseLease, TypeOK, Rows
<1> QED  BY <1>6, <1>7, <1>8

LEMMA GrantStep ==
    ASSUME TypeOK, NEW l \in LeaseIds, NEW k \in Keys, NEW d \in Devices,
           GrantLease(l, [status |-> "active", key |-> k, dev |-> d])
    PROVE  /\ lease' \in [LeaseIds -> Rows \cup {Unissued}]
           /\ state' \in [Devices -> {"ready", "leased", "resetting"}]
           /\ TableGoesOn /\ Issued(l)' /\ ~Issued(l) /\ lease'[l].dev = d
<1> DEFINE row == [status |-> "active", key |-> k, dev |-> d]
<1>1. row \in Rows /\ row # Unissued /\ row.dev = d
  BY DEF Rows, Unissued
<1>2. lease[l] = Unissued /\ lease' = [lease EXCEPT ![l] = row]
      /\ state' = [state EXCEPT ![d] = "leased"]
  BY DEF GrantLease
<1> HIDE DEF row
<1> QED  BY <1>1, <1>2 DEF TypeOK, TableGoesOn, Issued, Active

\* What a request does to the tables, and what its answer says.
LEMMA HandleStep ==
    ASSUME TypeOK, NEW m \in Requests, NEW ans \in Answers, Handle(m, ans)
    PROVE  /\ lease' \in [LeaseIds -> Rows \cup {Unissued}]
           /\ state' \in [Devices -> {"ready", "leased", "resetting"}]
           /\ TableGoesOn
           /\ m.method = "POST" /\ ans.code = "ok" => FileFits(ans.file)'
           /\ m.method = "POST" /\ ans.code = "ok" /\ ~ans.reused => ~Issued(ans.file.lease)
           /\ m.method = "DELETE" /\ Cleared(ans.code) => ~Active(m.arg)'
<1>1. \/ m.method = "POST" /\ m.arg \in Keys
      \/ m.method = "DELETE" /\ m.arg \in LeaseIds
  BY DEF Requests, Posts, Deletes
<1>2. UNCHANGED table => /\ lease' \in [LeaseIds -> Rows \cup {Unissued}]
                         /\ state' \in [Devices -> {"ready", "leased", "resetting"}]
                         /\ TableGoesOn
  BY DEF table, TypeOK, TableGoesOn, Issued, Active
<1>3. CASE m.method = "POST" /\ m.arg \in Keys
  <2>1. HandleClaim(m.arg, ans)
    BY <1>3 DEF Handle
  <2>2. ASSUME NEW l \in LeaseOf(m.arg), ans = Given(l, lease[l].dev, TRUE), UNCHANGED table
        PROVE  FileFits(ans.file)' /\ ans.reused
    <3>1. l \in LeaseIds /\ lease[l] # Unissued
      BY <2>2 DEF LeaseOf, Active, Unissued
    <3> QED  BY <2>2, <3>1 DEF Given, File, FileFits, Issued, table
  <2>3. ASSUME NEW l \in LeaseIds, NEW d \in Devices, ans = Given(l, d, FALSE),
               GrantLease(l, [status |-> "active", key |-> m.arg, dev |-> d])
        PROVE  /\ lease' \in [LeaseIds -> Rows \cup {Unissued}]
               /\ state' \in [Devices -> {"ready", "leased", "resetting"}]
               /\ TableGoesOn /\ FileFits(ans.file)' /\ ~Issued(ans.file.lease)
    <3>1. ans.file.lease = l /\ ans.file.addr = d
      BY <2>3 DEF Given, File
    <3> QED  BY <1>3, <2>3, <3>1, GrantStep DEF FileFits
  <2>4. ans = Says("failed") => ans.code # "ok"
    BY DEF Says
  <2>5. \/ \E l \in LeaseOf(m.arg) : ans = Given(l, lease[l].dev, TRUE) /\ UNCHANGED table
        \/ \E l \in LeaseIds, d \in Devices :
               ans = Given(l, d, FALSE) /\ GrantLease(l, [status |-> "active", key |-> m.arg, dev |-> d])
        \/ ans = Says("failed") /\ UNCHANGED table
    <3>1. (\E l \in LeaseIds : lease[l] = Unissued) =>
              (CHOOSE x \in LeaseIds : lease[x] = Unissued) \in LeaseIds
      OBVIOUS
    <3> QED  BY <2>1, <3>1 DEF HandleClaim
  <2> QED  BY <1>2, <1>3, <2>2, <2>3, <2>4, <2>5
<1>4. CASE m.method = "DELETE" /\ m.arg \in LeaseIds
  <2>1. HandleRelease(m.arg, ans)
    BY <1>4 DEF Handle
  <2>2. CASE CloseLease(m.arg)
    BY <1>4, <2>2, CloseStep
  <2>3. CASE ~Active(m.arg) /\ UNCHANGED table
    BY <1>2, <1>4, <2>3 DEF table, Active
  <2> QED  BY <2>1, <2>2, <2>3 DEF HandleRelease
<1> QED  BY <1>1, <1>3, <1>4

LEMMA TableMoves ==
    ASSUME TypeOK, [Next]_vars
    PROVE  /\ lease' \in [LeaseIds -> Rows \cup {Unissued}]
           /\ state' \in [Devices -> {"ready", "leased", "resetting"}]
           /\ TableGoesOn
<1> DEFINE Goal == /\ lease' \in [LeaseIds -> Rows \cup {Unissued}]
                   /\ state' \in [Devices -> {"ready", "leased", "resetting"}]
                   /\ TableGoesOn
<1>1. UNCHANGED table => Goal
  BY DEF table, TypeOK, TableGoesOn, Issued, Active
<1>2. ASSUME NEW p \in Places, Execute(p) PROVE Goal
  <2>1. PICK m \in Requests : m = cmd[p].req
    BY <1>2 DEF Execute, TypeOK, Idle, Sent, Answered
  <2> QED  BY <1>2, <2>1, HandleStep DEF Execute
<1>3. ASSUME NEW m \in Requests, ExecuteLate(m) PROVE Goal
  BY <1>3, HandleStep DEF ExecuteLate
<1>4. ASSUME NEW l \in LeaseIds, Reap(l) PROVE Goal
  BY <1>4, CloseStep DEF Reap
<1>5. ASSUME NEW d \in Devices, Reset(d) PROVE Goal
  BY <1>5 DEF Reset, TypeOK, TableGoesOn, Issued, Active
<1>6. ASSUME NEW p \in Places,
             \/ CmdClaim(p) \/ CmdRelease(p) \/ McpClaim(p) \/ McpRelease(p) \/ McpRun(p)
             \/ McpRunWrites(p) \/ Leave(p) \/ FinishClaim(p) \/ FinishRelease(p) \/ FinishMcp(p)
             \/ Misroute(p) \/ GiveUp(p)
      PROVE  UNCHANGED table
  BY <1>6 DEF CmdClaim, CmdRelease, McpClaim, McpRelease, McpRun, McpRunWrites, Leave,
       FinishClaim, FinishRelease, FinishMcp, Misroute, GiveUp, table
<1>7. ASSUME NEW m \in Requests, Lose(m) PROVE UNCHANGED table
  BY <1>7 DEF Lose
<1>8. UNCHANGED vars => UNCHANGED table
  BY DEF vars
<1> QED  BY <1>1, <1>2, <1>3, <1>4, <1>5, <1>6, <1>7, <1>8 DEF Next, Returns

-----------------------------------------------------------------------------
(* The agents.                                                             *)

RecFits(p) == rec[p].lease # NoLease => FileFits(rec[p])
McpFits(p) == mcp[p] # NoFile => FileFits(mcp[p])
EditFits(p) == edit[p].lease # NoLease => FileFits(edit[p])

\* A claim answered with success names a lease, or is the answer of a stranger.
ClaimFits(p, by, ans) ==
    FileFits(ans.file) \/ (ans.file = NoFile /\ (by = "cli" => p \in astray))
AnswerFits(p) ==
    cmd[p] \in Answered /\ cmd[p].req.method = "POST" /\ cmd[p].ans.code = "ok"
        => ClaimFits(p, cmd[p].by, cmd[p].ans)
ToldIssued(p) == told[p] # NoLease => Issued(told[p])

\* While droidpool release is under way the record is still there, and what
\* clears it has made sure that the lease is over, or came from a stranger.
ReleaseFits(p) ==
    cmd[p] # Idle /\ cmd[p].by = "cli" /\ cmd[p].req.method = "DELETE" =>
        /\ Issued(cmd[p].req.arg)
        /\ rec[p].lease = cmd[p].req.arg \/ p \in astray
        /\ cmd[p] \in Answered /\ Cleared(cmd[p].ans.code)
              => ~Active(cmd[p].req.arg) \/ p \in astray
Remembered(p) == Holds(p) => rec[p].lease = told[p] \/ p \in astray

PlaceInv(p) ==
    /\ RecFits(p) /\ McpFits(p) /\ EditFits(p) /\ AnswerFits(p) /\ ToldIssued(p)
    /\ ReleaseFits(p) /\ Remembered(p)
AgentInv == TypeOK /\ \A p \in Places : PlaceInv(p)

LEMMA CmdShape ==
    ASSUME TypeOK, NEW p \in Places
    PROVE  /\ cmd[p].pc = "sent" => cmd[p] \in Sent
           /\ cmd[p].pc = "answered" => cmd[p] \in Answered
           /\ cmd[p] # Idle => cmd[p] \in Sent \cup Answered
           /\ Idle \notin Sent \cup Answered
           /\ Sent \cap Answered = {}
<1>1. cmd[p] \in {Idle} \cup Sent \cup Answered
  BY DEF TypeOK
<1>2. /\ Idle.pc = "idle" /\ \A c \in Sent : c.pc = "sent"
      /\ \A c \in Answered : c.pc = "answered"
  BY DEF Idle, Sent, Answered
<1> QED  BY <1>1, <1>2

\* A table that goes on takes nothing away from an agent that stands still.
LEMMA PlaceStays ==
    ASSUME AgentInv, TableGoesOn, NEW p \in Places
    PROVE  /\ rec'[p] = rec[p] => RecFits(p)'
           /\ mcp'[p] = mcp[p] => McpFits(p)'
           /\ edit'[p] = edit[p] => EditFits(p)'
           /\ told'[p] = told[p] => ToldIssued(p)'
           /\ (p \in astray => p \in astray') =>
                 /\ cmd'[p] = cmd[p] => AnswerFits(p)'
                 /\ cmd'[p] = cmd[p] /\ rec'[p] = rec[p] => ReleaseFits(p)'
                 /\ rec'[p].lease = rec[p].lease /\ told'[p] = told[p] => Remembered(p)'
<1>0. TypeOK /\ PlaceInv(p)
  BY DEF AgentInv
<1>1. rec'[p] = rec[p] => RecFits(p)'
  BY <1>0 DEF PlaceInv, RecFits, FileFits, TableGoesOn, Issued
<1>2. mcp'[p] = mcp[p] => McpFits(p)'
  BY <1>0 DEF PlaceInv, McpFits, FileFits, TableGoesOn, Issued, NoFile, File
<1>3. edit'[p] = edit[p] => EditFits(p)'
  BY <1>0 DEF PlaceInv, EditFits, FileFits, TableGoesOn, Issued
<1>4. told'[p] = told[p] => ToldIssued(p)'
  BY <1>0 DEF PlaceInv, ToldIssued, TableGoesOn, Issued
<1>5. ASSUME p \in astray => p \in astray', cmd'[p] = cmd[p] PROVE AnswerFits(p)'
  BY <1>0, <1>5 DEF PlaceInv, AnswerFits, ClaimFits, FileFits, TableGoesOn, Issued, Answered,
       NoFile, File
<1>6. ASSUME p \in astray => p \in astray', cmd'[p] = cmd[p], rec'[p] = rec[p]
      PROVE  ReleaseFits(p)'
  BY <1>0, <1>6 DEF PlaceInv, ReleaseFits, TableGoesOn, Issued, Answered, Cleared
<1>7. ASSUME p \in astray => p \in astray', rec'[p].lease = rec[p].lease, told'[p] = told[p]
      PROVE  Remembered(p)'
  BY <1>0, <1>7 DEF PlaceInv, ToldIssued, Remembered, Holds, TableGoesOn, Issued
<1> QED  BY <1>1, <1>2, <1>3, <1>4, <1>5, <1>6, <1>7

\* All that a command under way rests on, for a step of its own place.
LEMMA PlaceMoves ==
    ASSUME AgentInv, TableGoesOn, NEW p \in Places, TypeOK',
           \A q \in Places : q # p =>
               /\ cmd'[q] = cmd[q] /\ rec'[q] = rec[q] /\ mcp'[q] = mcp[q]
               /\ edit'[q] = edit[q] /\ told'[q] = told[q]
               /\ q \in astray => q \in astray',
           PlaceInv(p)'
    PROVE  AgentInv'
<1> SUFFICES ASSUME NEW q \in Places PROVE PlaceInv(q)'
  BY DEF AgentInv
<1>1. CASE q = p
  BY <1>1
<1>2. CASE q # p
  BY <1>2, PlaceStays DEF PlaceInv
<1> QED  BY <1>1, <1>2

-----------------------------------------------------------------------------
(* The steps of one place.                                                 *)

LEMMA SendStep ==
    ASSUME AgentInv, NEW p \in Places, NEW by \in Programs, NEW m \in Requests,
           Send(p, by, m),
           UNCHANGED <<table, rec, mcp, edit, leaving, told, astray, warned, late, env>>,
           by = "cli" /\ m.method = "DELETE" => rec[p].lease = m.arg /\ m.arg # NoLease
    PROVE  AgentInv'
<1> DEFINE new == [pc |-> "sent", by |-> by, req |-> m]
<1>1. new \in Sent /\ new.by = by /\ new.req = m
  BY DEF Sent
<1>2. cmd' = [cmd EXCEPT ![p] = new]
  BY DEF Send
<1> HIDE DEF new
<1>3. TypeOK'
  BY <1>1, <1>2 DEF AgentInv, TypeOK, table
<1>4. cmd'[p] = new /\ \A q \in Places : q # p => cmd'[q] = cmd[q]
  BY <1>2 DEF AgentInv, TypeOK
<1>5. TableGoesOn
  BY DEF table, TableGoesOn, Issued, Active
<1>6. new \notin Answered /\ new # Idle
  BY <1>1 DEF Sent, Answered, Idle
<1>7. AnswerFits(p)'
  BY <1>4, <1>6 DEF AnswerFits
<1>8. ReleaseFits(p)'
  <2>1. by = "cli" /\ m.method = "DELETE" => Issued(m.arg)'
    BY DEF AgentInv, PlaceInv, RecFits, FileFits, Issued, table
  <2> QED  BY <1>1, <1>4, <1>6, <2>1 DEF ReleaseFits
<1>9. PlaceInv(p)'
  BY <1>5, <1>7, <1>8, PlaceStays DEF PlaceInv
<1> QED  BY <1>3, <1>4, <1>5, <1>9, PlaceMoves

LEMMA AnswerStep ==
    ASSUME AgentInv, NEW p \in Places, NEW m \in Requests, NEW ans \in Answers,
           NEW by \in Programs, cmd[p].by = by, cmd[p].pc = "sent", cmd[p].req = m, Answer(p, ans),
           lease' \in [LeaseIds -> Rows \cup {Unissued}],
           state' \in [Devices -> {"ready", "leased", "resetting"}], TableGoesOn,
           UNCHANGED <<rec, mcp, edit, leaving, told, warned, late>>,
           astray \subseteq astray', astray' \subseteq Places,
           env' \in [cli : SUBSET Places, mcp : SUBSET Places, faults : Nat],
           m.method = "POST" /\ ans.code = "ok" => ClaimFits(p, by, ans)',
           m.method = "DELETE" /\ Cleared(ans.code) /\ by = "cli"
               => ~Active(m.arg)' \/ p \in astray'
    PROVE  AgentInv'
<1> DEFINE new == [pc |-> "answered", by |-> by, req |-> m, ans |-> ans]
<1>0. cmd[p] \in Sent /\ cmd[p] # Idle
  BY CmdShape DEF AgentInv, Idle
<1>1. new \in Answered /\ new.by = by /\ new.req = m /\ new.ans = ans
  BY <1>0 DEF Sent, Answered
<1>2. cmd' = [cmd EXCEPT ![p] = new]
  BY DEF Answer
<1> HIDE DEF new
<1>3. TypeOK'
  BY <1>1, <1>2 DEF AgentInv, TypeOK
<1>4. cmd'[p] = new /\ \A q \in Places : q # p => cmd'[q] = cmd[q]
  BY <1>2 DEF AgentInv, TypeOK
<1>5. AnswerFits(p)'
  BY <1>1, <1>4 DEF AnswerFits, ClaimFits, FileFits, Issued
<1>6. ReleaseFits(p)'
  <2>1. by = "cli" /\ m.method = "DELETE" =>
            Issued(m.arg) /\ (rec[p].lease = m.arg \/ p \in astray)
    BY <1>0 DEF AgentInv, PlaceInv, ReleaseFits
  <2>2. by = "cli" /\ m.method = "DELETE" => Issued(m.arg)'
    BY <2>1 DEF TableGoesOn, Issued
  <2> QED  BY <1>1, <1>4, <2>1, <2>2 DEF ReleaseFits, Issued, Active
<1>7. PlaceInv(p)'
  BY <1>5, <1>6, PlaceStays DEF PlaceInv
<1> QED  BY <1>3, <1>4, <1>7, PlaceMoves

\* The command returns: only what it leaves in the place is still to be shown.
LEMMA DoneStep ==
    ASSUME AgentInv, NEW p \in Places, cmd' = [cmd EXCEPT ![p] = Idle],
           rec' \in [Places -> Files], mcp' \in [Places -> Files],
           told' \in [Places -> LeaseIds \cup {NoLease}], warned' \subseteq LeaseIds,
           late' \subseteq Requests,
           env' \in [cli : SUBSET Places, mcp : SUBSET Places, faults : Nat],
           UNCHANGED <<table, edit, leaving>>,
           \A q \in Places : q # p =>
               /\ rec'[q] = rec[q] /\ mcp'[q] = mcp[q] /\ told'[q] = told[q]
               /\ q \in astray => q \in astray',
           astray' \subseteq Places,
           RecFits(p)', McpFits(p)', ToldIssued(p)', Remembered(p)'
    PROVE  AgentInv'
<1>1. TypeOK'
  BY DEF AgentInv, TypeOK, table
<1>2. cmd'[p] = Idle /\ \A q \in Places : q # p => cmd'[q] = cmd[q]
  BY DEF AgentInv, TypeOK
<1>3. Idle \notin Answered
  BY CmdShape DEF AgentInv
<1>4. AnswerFits(p)' /\ ReleaseFits(p)'
  BY <1>2, <1>3 DEF AnswerFits, ReleaseFits
<1>5. TableGoesOn
  BY DEF table, TableGoesOn, Issued, Active
<1>6. EditFits(p)'
  BY <1>5, PlaceStays
<1> QED  BY <1>1, <1>2, <1>4, <1>5, <1>6, PlaceMoves DEF PlaceInv

LEMMA FileShape ==
    ASSUME NEW ans \in Answers
    PROVE  ans.file \in Files /\ (ans.code = "ok" /\ FileFits(ans.file) => ans.file.lease \in LeaseIds)
<1>1. NoFile \in Files /\ \A l \in LeaseIds, d \in Devices : File(l, d) \in Files
  BY DEF NoFile, File, Files
<1> QED  BY <1>1 DEF Answers, Says, Given, FileFits, Issued

LEMMA FinishSteps ==
    ASSUME AgentInv, NEW p \in Places, FinishClaim(p) \/ FinishRelease(p) \/ FinishMcp(p)
    PROVE  AgentInv'
<1> DEFINE ans == cmd[p].ans
<1>0. /\ cmd[p] \in Answered /\ cmd[p] # Idle /\ cmd' = [cmd EXCEPT ![p] = Idle]
      /\ UNCHANGED <<table, edit, leaving, late, env>>
  BY CmdShape DEF FinishClaim, FinishRelease, FinishMcp, Done, AgentInv, Idle
<1>1. ans \in Answers /\ ans.file \in Files
  BY <1>0, FileShape DEF Answered
<1>2. TypeOK /\ PlaceInv(p) /\ TableGoesOn
  BY <1>0 DEF AgentInv, table, TableGoesOn, Issued, Active
<1>3. \A f : FileFits(f)' <=> FileFits(f)
  BY <1>0 DEF FileFits, Issued, table
<1>4. NoFile \in Files /\ NoFile.lease = NoLease
  BY DEF NoFile, File, Files
<1>5. CASE FinishClaim(p)
  <2>0. UNCHANGED mcp /\ McpFits(p)'
    BY <1>2, <1>5, PlaceStays DEF FinishClaim
  <2>1. CASE ans.code = "ok"
    <3>1. FileFits(ans.file) \/ (ans.file = NoFile /\ p \in astray)
      BY <1>0, <1>2, <1>5, <2>1 DEF FinishClaim, Done, PlaceInv, AnswerFits, ClaimFits
    <3>2. /\ rec' = [rec EXCEPT ![p] = ans.file] /\ Told(p, ans.file.lease)
          /\ warned' \subseteq warned \cup (IF ans.reused /\ rec[p].lease # ans.file.lease
                                           THEN {ans.file.lease} ELSE {})
      BY <1>5, <2>1 DEF FinishClaim
    <3>3. ans.reused => ans.file.lease \in LeaseIds
      <4>1. \A c \in Codes : Says(c).reused = FALSE
        BY DEF Says
      <4>2. \A l \in LeaseIds, d \in Devices, r \in BOOLEAN : Given(l, d, r).file.lease = l
        BY DEF Given, File
      <4> QED  BY <1>1, <4>1, <4>2 DEF Answers
    <3> HIDE DEF ans
    <3>4. warned' \subseteq LeaseIds
      BY <1>2, <3>2, <3>3 DEF TypeOK
    <3>5. rec'[p] = ans.file /\ (\A q \in Places : q # p => rec'[q] = rec[q])
          /\ rec' \in [Places -> Files]
      BY <1>1, <1>2, <3>2 DEF TypeOK
    <3>6. CASE FileFits(ans.file) /\ ans.file.lease # NoLease
      <4>1. ans.file.lease \in LeaseIds
        BY <3>6 DEF FileFits, Issued
      <4>2. told' = [told EXCEPT ![p] = ans.file.lease] /\ astray' = astray \ {p}
        BY <3>2, <3>6 DEF Told
      <4>3. told'[p] = ans.file.lease
        BY <1>2, <4>2 DEF TypeOK
      <4>4. RecFits(p)' /\ ToldIssued(p)' /\ Remembered(p)'
        BY <1>3, <3>5, <3>6, <4>3 DEF RecFits, ToldIssued, Remembered, FileFits
      <4> QED  BY <1>0, <1>2, <2>0, <3>4, <3>5, <4>1, <4>2, <4>4, DoneStep DEF TypeOK
    <3>7. CASE ans.file = NoFile /\ p \in astray
      <4>1. UNCHANGED <<told, astray>>
        BY <1>4, <3>2, <3>7 DEF Told
      <4>2. RecFits(p)' /\ Remembered(p)'
        BY <1>4, <3>5, <3>7, <4>1 DEF RecFits, Remembered
      <4> QED  BY <1>0, <1>2, <2>0, <3>4, <3>5, <4>1, <4>2, PlaceStays, DoneStep DEF TypeOK
    <3> QED  BY <3>1, <3>6, <3>7, ClientAssumption DEF FileFits, Issued
  <2>2. CASE ans.code # "ok"
    <3>1. UNCHANGED <<rec, told, astray, warned, mcp>>
      BY <1>5, <2>2 DEF FinishClaim
    <3> QED  BY <1>0, <1>2, <3>1, PlaceStays, DoneStep DEF TypeOK
  <2> QED  BY <2>1, <2>2
<1>6. CASE FinishRelease(p)
  <2>1. UNCHANGED <<told, astray, warned, mcp>>
    BY <1>6 DEF FinishRelease
  <2>2. CASE Cleared(ans.code)
    <3>1. rec' = [rec EXCEPT ![p] = NoFile] /\ (~Active(rec[p].lease) \/ p \in astray)
      BY <1>0, <1>2, <1>6, <2>2 DEF FinishRelease, Done, PlaceInv, ReleaseFits
    <3>2. rec'[p].lease = NoLease
      BY <1>2, <1>4, <3>1 DEF TypeOK
    <3>3. RecFits(p)'
      BY <3>2 DEF RecFits
    <3>4. Remembered(p)'
      BY <1>0, <1>2, <2>1, <3>1 DEF PlaceInv, Remembered, Holds, Active, table
    <3> QED  BY <1>0, <1>2, <1>4, <2>1, <3>1, <3>3, <3>4, PlaceStays, DoneStep DEF TypeOK
  <2>3. CASE ~Cleared(ans.code)
    <3>1. rec' = rec
      BY <1>6, <2>3 DEF FinishRelease
    <3> QED  BY <1>0, <1>2, <2>1, <3>1, PlaceStays, DoneStep DEF TypeOK
  <2> QED  BY <2>2, <2>3
<1>7. CASE FinishMcp(p)
  <2>1. UNCHANGED <<rec, told, astray, warned>>
    BY <1>7 DEF FinishMcp
  <2>2. \/ mcp' \in {mcp, [mcp EXCEPT ![p] = NoFile]}
        \/ ans.code = "ok" /\ cmd[p].req.method = "POST" /\ mcp' = [mcp EXCEPT ![p] = ans.file]
    <3> HIDE DEF ans
    <3>1. CASE Done(p, "mcp", "POST") /\ mcp' = IF ans.code = "ok"
                                               THEN [mcp EXCEPT ![p] = ans.file] ELSE mcp
      BY <3>1 DEF Done
    <3>2. CASE Done(p, "mcp", "DELETE") /\ mcp' = IF ans.code = "failed"
                                                 THEN mcp ELSE [mcp EXCEPT ![p] = NoFile]
      BY <3>2
    <3> QED  BY <1>7, <3>1, <3>2 DEF FinishMcp, ans
  <2>3. CASE mcp' = mcp
    BY <1>0, <1>2, <2>1, <2>3, PlaceStays, DoneStep DEF TypeOK
  <2>4. CASE mcp' = [mcp EXCEPT ![p] = NoFile]
    <3>1. McpFits(p)'
      BY <1>2, <2>4 DEF McpFits, TypeOK
    <3> QED  BY <1>0, <1>2, <1>4, <2>1, <2>4, <3>1, PlaceStays, DoneStep DEF TypeOK
  <2>5. CASE ans.code = "ok" /\ cmd[p].req.method = "POST" /\ mcp' = [mcp EXCEPT ![p] = ans.file]
    <3>1. FileFits(ans.file) \/ ans.file = NoFile
      BY <1>0, <1>2, <2>5 DEF PlaceInv, AnswerFits, ClaimFits
    <3> HIDE DEF ans
    <3>2. McpFits(p)'
      BY <1>2, <1>3, <2>5, <3>1 DEF McpFits, TypeOK
    <3> QED  BY <1>0, <1>1, <1>2, <2>1, <2>5, <3>2, PlaceStays, DoneStep DEF TypeOK
  <2> QED  BY <2>2, <2>3, <2>4, <2>5
<1> QED  BY <1>5, <1>6, <1>7

\* What droidpool_run reads fits, and so does what it will write.
LEMMA RunReads ==
    ASSUME AgentInv, NEW p \in Places, McpRun(p)
    PROVE  AgentInv'
<1>1. /\ TypeOK /\ PlaceInv(p) /\ TableGoesOn
      /\ UNCHANGED <<table, rec, mcp, cmd, leaving, told, astray, warned, late, env>>
  BY DEF AgentInv, McpRun, table, TableGoesOn, Issued, Active
<1>2. PICK f \in {rec[p], NoFile} : ReadRecord(p, f, mcp[p].addr)
  BY DEF McpRun, Readable
<1>3. mcp[p] # NoFile /\ NoFile \in Files /\ NoFile.lease = NoLease
  BY DEF McpRun, NoFile, File, Files
<1>4. mcp[p].addr \in Devices \cup {NoDevice} /\ f \in Files
  BY <1>1, <1>2, <1>3 DEF TypeOK, Files
<1>5. File(f.lease, mcp[p].addr) \in Files
  BY <1>4 DEF File, Files
<1>6. edit' = [edit EXCEPT ![p] = File(f.lease, mcp[p].addr)] /\ f.addr \in {NoDevice, mcp[p].addr}
  BY <1>2 DEF ReadRecord
<1>7. TypeOK'
  BY <1>1, <1>5, <1>6 DEF TypeOK, table
<1>8. edit'[p] = File(f.lease, mcp[p].addr) /\ \A q \in Places : q # p => edit'[q] = edit[q]
  BY <1>1, <1>6 DEF TypeOK
<1>9. f.lease # NoLease => File(f.lease, mcp[p].addr) = f /\ FileFits(f)
  <2> SUFFICES ASSUME f.lease # NoLease PROVE File(f.lease, mcp[p].addr) = f /\ FileFits(f)
    OBVIOUS
  <2>1. FileFits(f)
    BY <1>1, <1>2, <1>3 DEF PlaceInv, RecFits
  <2>2. f.addr # NoDevice
    BY <1>1, <2>1, ActiveRow, ClientAssumption DEF FileFits, Issued, Rows
  <2> QED  BY <1>4, <1>6, <2>1, <2>2 DEF File, Files
<1>10. EditFits(p)'
  BY <1>1, <1>8, <1>9 DEF EditFits, FileFits, Issued, table, File
<1>11. PlaceInv(p)'
  BY <1>1, <1>10, PlaceStays DEF PlaceInv
<1> QED  BY <1>1, <1>7, <1>8, <1>11, PlaceMoves

\* It writes all it has read: whose lease id it replaces is one that went astray.
LEMMA RunWrites ==
    ASSUME AgentInv, NEW p \in Places, McpRunWrites(p)
    PROVE  AgentInv'
<1>1. /\ TypeOK /\ PlaceInv(p) /\ TableGoesOn
      /\ UNCHANGED <<table, mcp, cmd, leaving, told, warned, late, env>>
  BY DEF AgentInv, McpRunWrites, table, TableGoesOn, Issued, Active
<1>2. /\ rec' = [rec EXCEPT ![p] = edit[p]] /\ edit' = [edit EXCEPT ![p] = NoFile]
      /\ astray' = IF rec[p].lease \in {NoLease, edit[p].lease} THEN astray ELSE astray \cup {p}
  BY DEF McpRunWrites, WriteRecord
<1>3. NoFile \in Files /\ NoFile.lease = NoLease
  BY DEF NoFile, File, Files
<1>4. TypeOK' /\ astray \subseteq astray'
  BY <1>1, <1>2, <1>3 DEF TypeOK, table
<1>5. rec'[p] = edit[p] /\ edit'[p] = NoFile
      /\ \A q \in Places : q # p => rec'[q] = rec[q] /\ edit'[q] = edit[q]
  BY <1>1, <1>2 DEF TypeOK
<1>6. RecFits(p)' /\ EditFits(p)'
  BY <1>1, <1>3, <1>5 DEF PlaceInv, RecFits, EditFits, FileFits, Issued, table
<1>7. rec[p].lease = NoLease \/ rec'[p].lease = rec[p].lease \/ p \in astray'
  BY <1>2, <1>5
<1>8. ReleaseFits(p)'
  <2>1. Issued(cmd[p].req.arg) => cmd[p].req.arg # NoLease
    BY ClientAssumption DEF Issued
  <2> QED  BY <1>1, <1>4, <1>7, <2>1 DEF PlaceInv, ReleaseFits, Active, Issued, table
<1>9. Remembered(p)'
  BY <1>1, <1>4, <1>7 DEF PlaceInv, Remembered, Holds, Active, table
<1>10. PlaceInv(p)'
  BY <1>1, <1>4, <1>6, <1>8, <1>9, PlaceStays DEF PlaceInv
<1> QED  BY <1>1, <1>4, <1>5, <1>10, PlaceMoves

LEMMA OtherSteps ==
    ASSUME AgentInv, NEW p \in Places, GiveUp(p) \/ McpRun(p) \/ McpRunWrites(p) \/ Leave(p)
    PROVE  AgentInv'
<1>1. CASE GiveUp(p)
  <2>1. /\ TypeOK /\ PlaceInv(p) /\ TableGoesOn
        /\ UNCHANGED <<table, rec, mcp, edit, leaving, told, astray, warned>>
    BY <1>1 DEF AgentInv, GiveUp, table, TableGoesOn, Issued, Active
  <2>2. late' \subseteq Requests
    BY <1>1, <2>1, CmdShape DEF GiveUp, TypeOK, Sent
  <2>3. env' \in [cli : SUBSET Places, mcp : SUBSET Places, faults : Nat]
    <3>1. env.faults - 1 \in Nat
      BY <1>1, <2>1 DEF GiveUp, TypeOK
    <3> QED  BY <1>1, <2>1, <3>1 DEF GiveUp, TypeOK
  <2> QED  BY <1>1, <2>1, <2>2, <2>3, PlaceStays, DoneStep DEF GiveUp, TypeOK
<1>2. CASE Leave(p)
  <2>1. /\ TypeOK /\ PlaceInv(p) /\ TableGoesOn
        /\ UNCHANGED <<table, rec, mcp, edit, cmd, told, astray>>
    BY <1>2 DEF AgentInv, Leave, table, TableGoesOn, Issued, Active
  <2>2. TypeOK'
    BY <1>2, <2>1 DEF Leave, TypeOK, table
  <2>3. PlaceInv(p)'
    BY <2>1, PlaceStays DEF PlaceInv
  <2> QED  BY <2>1, <2>2, <2>3, PlaceMoves
<1> QED  BY <1>1, <1>2, RunReads, RunWrites

LEMMA AgentInit == Init => AgentInv
<1> SUFFICES ASSUME Init PROVE AgentInv
  OBVIOUS
<1>1. NoFile \in Files /\ NoFile.lease = NoLease
  BY DEF NoFile, File, Files
<1>2. env \in [cli : SUBSET Places, mcp : SUBSET Places, faults : Nat]
  BY ClientAssumption DEF Init
<1>3. TypeOK
  BY <1>1, <1>2 DEF Init, TypeOK
<1>4. ASSUME NEW p \in Places PROVE PlaceInv(p)
  <2>1. cmd[p] = Idle /\ Idle \notin Answered /\ rec[p] = NoFile /\ mcp[p] = NoFile
        /\ edit[p] = NoFile /\ told[p] = NoLease
    BY <1>3, CmdShape DEF Init
  <2> QED  BY <1>1, <2>1 DEF PlaceInv, RecFits, McpFits, EditFits, AnswerFits, ToldIssued,
             ReleaseFits, Remembered, Holds
<1> QED  BY <1>3, <1>4 DEF AgentInv

LEMMA AgentStep == AgentInv /\ [Next]_vars => AgentInv'
<1> SUFFICES ASSUME AgentInv, [Next]_vars PROVE AgentInv'
  OBVIOUS
<1>1. TypeOK /\ \A p \in Places : PlaceInv(p)
  BY DEF AgentInv
<1>2. /\ lease' \in [LeaseIds -> Rows \cup {Unissued}]
      /\ state' \in [Devices -> {"ready", "leased", "resetting"}]
      /\ TableGoesOn
  BY <1>1, TableMoves
<1>3. (\A k \in Keys : Posts(k) \in Requests) /\ (\A l \in LeaseIds : Deletes(l) \in Requests)
      /\ (\A k \in Keys : Posts(k).method = "POST")
      /\ (\A l \in LeaseIds : Deletes(l).method = "DELETE" /\ Deletes(l).arg = l)
  BY DEF Requests, Posts, Deletes
<1>4. ASSUME NEW p \in Places, CmdClaim(p) \/ CmdRelease(p) \/ McpClaim(p) \/ McpRelease(p)
      PROVE  AgentInv'
  <2>1. CASE CmdClaim(p)
    BY <1>3, <2>1, SendStep, ClientAssumption DEF CmdClaim, Programs
  <2>2. CASE CmdRelease(p)
    <3>1. rec[p].lease \in LeaseIds
      BY <1>1, <2>2 DEF CmdRelease, TypeOK, Files
    <3> QED  BY <1>3, <2>2, <3>1, SendStep DEF CmdRelease, Programs
  <2>3. CASE McpClaim(p)
    BY <1>3, <2>3, SendStep DEF McpClaim, Programs
  <2>4. CASE McpRelease(p)
    <3>1. mcp[p].lease \in LeaseIds
      BY <1>1, <2>4 DEF McpRelease, PlaceInv, McpFits, FileFits, Issued
    <3> QED  BY <1>3, <2>4, <3>1, SendStep DEF McpRelease, Programs
  <2> QED  BY <1>4, <2>1, <2>2, <2>3, <2>4
<1>5. ASSUME NEW p \in Places, Execute(p) PROVE AgentInv'
  <2>1. PICK ans \in Answers : Handle(cmd[p].req, ans) /\ Answer(p, ans)
    BY <1>5 DEF Execute
  <2>2. PICK m \in Requests : cmd[p].pc = "sent" /\ cmd[p].req = m
    BY <1>1, <1>5, CmdShape DEF Execute, Sent
  <2>3. /\ m.method = "POST" /\ ans.code = "ok" => FileFits(ans.file)'
        /\ m.method = "DELETE" /\ Cleared(ans.code) => ~Active(m.arg)'
    BY <1>1, <2>1, <2>2, HandleStep
  <2>4. PICK by \in Programs : cmd[p].by = by
    BY <1>1, <2>2, CmdShape DEF Sent
  <2>5. m.method = "POST" /\ ans.code = "ok" => ClaimFits(p, by, ans)'
    BY <2>3 DEF ClaimFits
  <2>6. UNCHANGED <<rec, mcp, edit, leaving, told, astray, warned, late, env>>
    BY <1>5 DEF Execute
  <2> QED  BY <1>1, <1>2, <2>1, <2>2, <2>3, <2>4, <2>5, <2>6, AnswerStep DEF TypeOK
<1>6. ASSUME NEW p \in Places, Misroute(p) PROVE AgentInv'
  <2>0. UNCHANGED <<table, rec, mcp, edit, leaving, told, warned, late>>
    BY <1>6 DEF Misroute
  <2>1. PICK code \in {"ok", "no_route", "failed"} :
            /\ Answer(p, Says(code))
            /\ astray' = IF code = "ok" /\ cmd[p].by = "cli" THEN astray \cup {p} ELSE astray
    BY <1>6 DEF Misroute
  <2>2. Says(code) \in Answers /\ Says(code).code = code /\ Says(code).file = NoFile
    <3>1. code \in Codes /\ Says(code).code = code /\ Says(code).file = NoFile
      BY DEF Codes, Says
    <3> QED  BY <3>1 DEF Answers
  <2>3. env' \in [cli : SUBSET Places, mcp : SUBSET Places, faults : Nat]
    <3>1. env.faults - 1 \in Nat
      BY <1>1, <1>6 DEF Misroute, TypeOK
    <3> QED  BY <1>1, <1>6, <3>1 DEF Misroute, TypeOK
  <2>4. PICK m \in Requests, by \in Programs :
            cmd[p].pc = "sent" /\ cmd[p].req = m /\ cmd[p].by = by
    BY <1>1, <1>6, CmdShape DEF Misroute, Sent
  <2>5. astray \subseteq astray' /\ astray' \subseteq Places
        /\ (code = "ok" /\ by = "cli" => p \in astray')
    BY <1>1, <2>1, <2>4 DEF TypeOK
  <2>6. Says(code).code = "ok" => ClaimFits(p, by, Says(code))'
    BY <2>2, <2>5 DEF ClaimFits, Says, NoFile, File
  <2>7. Cleared(Says(code).code) => code = "ok"
    BY <2>2 DEF Cleared
  <2> QED  BY <1>2, <2>0, <2>1, <2>2, <2>3, <2>4, <2>5, <2>6, <2>7, AnswerStep
<1>7. ASSUME UNCHANGED agents, late' \subseteq Requests, env' = env PROVE AgentInv'
  <2>1. UNCHANGED <<rec, mcp, edit, cmd, leaving, told, astray, warned>>
    BY <1>7 DEF agents
  <2>2. TypeOK'
    BY <1>1, <1>2, <1>7, <2>1 DEF TypeOK
  <2>3. ASSUME NEW p \in Places PROVE PlaceInv(p)'
    BY <1>2, <2>1, <2>3, PlaceStays DEF PlaceInv
  <2> QED  BY <2>2, <2>3 DEF AgentInv
<1>8. ASSUME NEW m \in Requests, ExecuteLate(m) \/ Lose(m) PROVE AgentInv'
  BY <1>1, <1>7, <1>8 DEF ExecuteLate, Lose, TypeOK
<1>9. ASSUME NEW l \in LeaseIds, Reap(l) PROVE AgentInv'
  BY <1>1, <1>7, <1>9 DEF Reap, TypeOK
<1>10. ASSUME NEW d \in Devices, Reset(d) PROVE AgentInv'
  BY <1>1, <1>7, <1>10 DEF Reset, TypeOK
<1>11. CASE UNCHANGED vars
  BY <1>1, <1>7, <1>11 DEF vars, TypeOK
<1> QED  BY <1>4, <1>5, <1>6, <1>8, <1>9, <1>10, <1>11, FinishSteps, OtherSteps DEF Next, Returns

-----------------------------------------------------------------------------
(* Leases shared by two places.                                            *)

\* The place has the lease in its record, or is about to write it there and
\* will not warn: droidpool_run never does, a claim not when the lease is new.
Claimant(p, l) ==
    \/ rec[p].lease = l \/ edit[p].lease = l
    \/ /\ cmd[p] \in Answered /\ cmd[p].by = "cli" /\ cmd[p].req.method = "POST"
       /\ cmd[p].ans.code = "ok" /\ ~cmd[p].ans.reused /\ cmd[p].ans.file.lease = l

OneUnwarned ==
    \A l \in LeaseIds \ warned : \A p, q \in Places :
        Claimant(p, l) /\ Claimant(q, l) => p = q

LEMMA ClaimantIssued ==
    ASSUME AgentInv, NEW p \in Places, NEW l \in LeaseIds, Claimant(p, l)
    PROVE  Issued(l)
BY ClientAssumption DEF Claimant, AgentInv, PlaceInv, RecFits, EditFits, AnswerFits, ClaimFits,
   FileFits, NoFile, File

\* A claimant keeps its claim or has just been given a new lease; a claim
\* taken over from another place comes with the warning.
ClaimKept(l) ==
    /\ warned \subseteq warned'
    /\ \/ \A q \in Places : Claimant(q, l)' => Claimant(q, l) \/ l \in warned'
       \/ ~Issued(l) /\ \E p \in Places : \A q \in Places \ {p} : Claimant(q, l)' => Claimant(q, l)

LEMMA ClaimsStep ==
    ASSUME AgentInv, [Next]_vars, NEW l \in LeaseIds
    PROVE  ClaimKept(l)
<1>0. TypeOK /\ TypeOK'
  BY AgentStep DEF AgentInv
<1>1. ASSUME UNCHANGED <<rec, edit, cmd, warned>> PROVE ClaimKept(l)
  BY <1>1 DEF ClaimKept, Claimant
<1>2. ASSUME NEW p \in Places, NEW by \in Programs, NEW m \in Requests, Send(p, by, m),
             UNCHANGED <<rec, edit, warned>>
      PROVE  ClaimKept(l)
  <2>1. [pc |-> "sent", by |-> by, req |-> m] \notin Answered
    BY DEF Answered
  <2>2. cmd'[p] \notin Answered /\ \A q \in Places \ {p} : cmd'[q] = cmd[q]
    BY <1>0, <1>2, <2>1 DEF Send, TypeOK
  <2> QED  BY <1>2, <2>2 DEF ClaimKept, Claimant
<1>3. ASSUME NEW p \in Places, NEW m \in Requests, NEW ans \in Answers,
             cmd[p].pc = "sent", cmd[p].req = m, Answer(p, ans), UNCHANGED <<rec, edit, warned>>,
             m.method = "POST" /\ ans.code = "ok" /\ ~ans.reused => ~Issued(ans.file.lease)
      PROVE  ClaimKept(l)
  <2> DEFINE new == [pc |-> "answered", by |-> cmd[p].by, req |-> cmd[p].req, ans |-> ans]
  <2>1. new.req = m /\ new.ans = ans
    BY <1>3
  <2>2. cmd' = [cmd EXCEPT ![p] = new]
    BY <1>3 DEF Answer
  <2> HIDE DEF new
  <2>3. cmd'[p] = new /\ \A q \in Places \ {p} : cmd'[q] = cmd[q]
    BY <1>0, <2>2 DEF TypeOK
  <2>4. \A q \in Places \ {p} : Claimant(q, l)' => Claimant(q, l)
    BY <1>3, <2>3 DEF Claimant
  <2>5. Issued(l) => (Claimant(p, l)' => Claimant(p, l))
    BY <1>3, <2>1, <2>3 DEF Claimant
  <2> QED  BY <1>3, <2>4, <2>5 DEF ClaimKept
<1>4. ASSUME NEW p \in Places, cmd' = [cmd EXCEPT ![p] = Idle], edit' = edit, warned \subseteq warned',
             \A q \in Places \ {p} : rec'[q] = rec[q],
             rec'[p].lease = l => Claimant(p, l) \/ l \in warned'
      PROVE  ClaimKept(l)
  <2>1. Idle \notin Answered
    BY <1>0, <1>4, CmdShape
  <2>2. cmd'[p] = Idle /\ \A q \in Places \ {p} : cmd'[q] = cmd[q]
    BY <1>0, <1>4 DEF TypeOK
  <2> QED  BY <1>4, <2>1, <2>2 DEF ClaimKept, Claimant
<1>5. ASSUME NEW p \in Places, CmdClaim(p) \/ CmdRelease(p) \/ McpClaim(p) \/ McpRelease(p)
      PROVE  ClaimKept(l)
  <2>1. /\ \A k \in Keys : Posts(k) \in Requests
        /\ \A x \in LeaseIds : Deletes(x) \in Requests
    BY DEF Requests
  <2>2. CASE CmdClaim(p)
    BY <1>2, <2>1, <2>2, ClientAssumption DEF CmdClaim, Programs
  <2>3. CASE CmdRelease(p)
    <3>1. rec[p].lease \in LeaseIds
      BY <1>0, <2>3 DEF CmdRelease, TypeOK, Files
    <3> QED  BY <1>2, <2>1, <2>3, <3>1 DEF CmdRelease, Programs
  <2>4. CASE McpClaim(p)
    BY <1>2, <2>1, <2>4 DEF McpClaim, Programs
  <2>5. CASE McpRelease(p)
    <3>1. mcp[p].lease \in LeaseIds
      BY <2>5 DEF McpRelease, AgentInv, PlaceInv, McpFits, FileFits, Issued
    <3> QED  BY <1>2, <2>1, <2>5, <3>1 DEF McpRelease, Programs
  <2> QED  BY <1>5, <2>2, <2>3, <2>4, <2>5
<1>6. ASSUME NEW p \in Places, Execute(p) PROVE ClaimKept(l)
  <2>1. PICK m \in Requests, ans \in Answers :
            cmd[p].pc = "sent" /\ cmd[p].req = m /\ Handle(m, ans) /\ Answer(p, ans)
    BY <1>0, <1>6, CmdShape DEF Execute, Sent
  <2> QED  BY <1>0, <1>3, <1>6, <2>1, HandleStep DEF Execute
<1>7. ASSUME NEW p \in Places, Misroute(p) PROVE ClaimKept(l)
  <2>1. PICK m \in Requests, code \in {"ok", "no_route", "failed"} :
            cmd[p].pc = "sent" /\ cmd[p].req = m /\ Answer(p, Says(code))
    BY <1>0, <1>7, CmdShape DEF Misroute, Sent
  <2>2. Says(code) \in Answers /\ ~Issued(Says(code).file.lease)
    <3>1. code \in Codes /\ Says(code).file.lease = NoLease
      BY DEF Codes, Says, NoFile, File
    <3> QED  BY <3>1, ClientAssumption DEF Answers, Issued
  <2> QED  BY <1>3, <1>7, <2>1, <2>2 DEF Misroute
<1>8. ASSUME NEW p \in Places, FinishClaim(p) PROVE ClaimKept(l)
  <2>1. /\ cmd' = [cmd EXCEPT ![p] = Idle] /\ cmd[p] \in Answered /\ edit' = edit
        /\ cmd[p].by = "cli" /\ cmd[p].req.method = "POST"
    BY <1>0, <1>8, CmdShape DEF FinishClaim, Done
  <2>2. CASE cmd[p].ans.code = "ok"
    <3>1. /\ rec' = [rec EXCEPT ![p] = cmd[p].ans.file]
          /\ warned' = IF cmd[p].ans.reused /\ rec[p].lease # cmd[p].ans.file.lease
                       THEN warned \cup {cmd[p].ans.file.lease} ELSE warned
      BY <1>8, <2>2 DEF FinishClaim
    <3>2. rec'[p] = cmd[p].ans.file /\ \A q \in Places \ {p} : rec'[q] = rec[q]
      BY <1>0, <3>1 DEF TypeOK
    <3>3. rec'[p].lease = l => Claimant(p, l) \/ l \in warned'
      BY <2>1, <2>2, <3>1, <3>2 DEF Claimant
    <3>4. warned \subseteq warned'
      BY <3>1
    <3> QED  BY <1>4, <2>1, <3>2, <3>3, <3>4
  <2>3. CASE cmd[p].ans.code # "ok"
    <3>1. UNCHANGED <<rec, warned>>
      BY <1>8, <2>3 DEF FinishClaim
    <3> QED  BY <1>4, <2>1, <3>1 DEF Claimant
  <2> QED  BY <2>2, <2>3
<1>9. ASSUME NEW p \in Places, FinishRelease(p) PROVE ClaimKept(l)
  <2>1. cmd' = [cmd EXCEPT ![p] = Idle] /\ UNCHANGED <<warned, edit>>
        /\ (rec' = rec \/ rec' = [rec EXCEPT ![p] = NoFile])
    BY <1>9 DEF FinishRelease, Done
  <2>2. rec'[p] \in {rec[p], NoFile} /\ \A q \in Places \ {p} : rec'[q] = rec[q]
    BY <1>0, <2>1 DEF TypeOK
  <2>3. NoFile.lease # l
    BY ClientAssumption DEF NoFile, File
  <2> QED  BY <1>4, <2>1, <2>2, <2>3 DEF Claimant
<1>10. ASSUME NEW p \in Places, FinishMcp(p) \/ GiveUp(p) PROVE ClaimKept(l)
  <2>1. cmd' = [cmd EXCEPT ![p] = Idle] /\ UNCHANGED <<rec, edit, warned>>
    BY <1>10 DEF FinishMcp, GiveUp, Done
  <2> QED  BY <1>4, <2>1 DEF Claimant
<1>11. ASSUME NEW p \in Places, McpRun(p) \/ McpRunWrites(p) PROVE ClaimKept(l)
  <2>1. NoFile.lease # l /\ \A x, d : File(x, d).lease = x
    BY ClientAssumption DEF NoFile, File
  <2>2. CASE McpRun(p)
    <3>1. PICK f \in {rec[p], NoFile} : edit' = [edit EXCEPT ![p] = File(f.lease, mcp[p].addr)]
      BY <2>2 DEF McpRun, ReadRecord, Readable
    <3>2. edit'[p].lease = f.lease /\ \A q \in Places \ {p} : edit'[q] = edit[q]
      BY <1>0, <2>1, <3>1 DEF TypeOK
    <3>3. UNCHANGED <<rec, cmd, warned>>
      BY <2>2 DEF McpRun
    <3> QED  BY <2>1, <3>1, <3>2, <3>3 DEF ClaimKept, Claimant
  <2>3. CASE McpRunWrites(p)
    <3>1. rec' = [rec EXCEPT ![p] = edit[p]] /\ edit' = [edit EXCEPT ![p] = NoFile]
          /\ UNCHANGED <<cmd, warned>>
      BY <2>3 DEF McpRunWrites, WriteRecord
    <3>2. rec'[p] = edit[p] /\ edit'[p] = NoFile
          /\ \A q \in Places \ {p} : rec'[q] = rec[q] /\ edit'[q] = edit[q]
      BY <1>0, <3>1 DEF TypeOK
    <3> QED  BY <2>1, <3>1, <3>2 DEF ClaimKept, Claimant
  <2> QED  BY <1>11, <2>2, <2>3
<1>12. ASSUME NEW p \in Places, Leave(p) PROVE ClaimKept(l)
  BY <1>1, <1>12 DEF Leave
<1>13. ASSUME NEW m \in Requests, ExecuteLate(m) \/ Lose(m) PROVE ClaimKept(l)
  BY <1>1, <1>13 DEF ExecuteLate, Lose, agents
<1>14. ASSUME NEW x \in LeaseIds, Reap(x) PROVE ClaimKept(l)
  BY <1>1, <1>14 DEF Reap, agents
<1>15. ASSUME NEW d \in Devices, Reset(d) PROVE ClaimKept(l)
  BY <1>1, <1>15 DEF Reset, agents
<1>16. CASE UNCHANGED vars
  BY <1>1, <1>16 DEF vars, agents
<1> QED  BY <1>5, <1>6, <1>7, <1>8, <1>9, <1>10, <1>11, <1>12, <1>13, <1>14, <1>15, <1>16
         DEF Next, Returns

LEMMA UnwarnedStep ==
    ASSUME AgentInv, OneUnwarned, [Next]_vars PROVE OneUnwarned'
<1> SUFFICES ASSUME NEW l \in LeaseIds, l \notin warned', NEW p \in Places, NEW q \in Places,
                    Claimant(p, l)', Claimant(q, l)', p # q
             PROVE  FALSE
  BY DEF OneUnwarned
<1>1. ClaimKept(l) /\ l \notin warned
  BY ClaimsStep DEF ClaimKept
<1>2. ~(Claimant(p, l) /\ Claimant(q, l))
  BY <1>1 DEF OneUnwarned
<1>3. ~Issued(l) /\ (Claimant(p, l) \/ Claimant(q, l))
  BY <1>1, <1>2 DEF ClaimKept
<1> QED  BY <1>3, ClaimantIssued

-----------------------------------------------------------------------------
(* The theorems.                                                           *)

LEMMA AgentAlways == Spec => []AgentInv
BY AgentInit, AgentStep, PTL DEF Spec

\* Records, requests and answers have their shapes; above all, no release is
\* sent that names no lease.
THEOREM AgentTypeCorrect == Spec => []TypeOK
<1>1. AgentInv => TypeOK
  BY DEF AgentInv
<1> QED  BY <1>1, AgentAlways, PTL

\* An active lease an agent was told of is in its record, however many
\* requests fail, in any number of worktrees.
THEOREM AgentNoForgottenLease == Spec => []NoForgottenLease
<1>1. AgentInv => NoForgottenLease
  BY DEF AgentInv, PlaceInv, Remembered, NoForgottenLease
<1> QED  BY <1>1, AgentAlways, PTL

\* Lease and address of a record belong together, though the command line
\* client and the MCP server both write it.
THEOREM AgentRecordNotMixed == Spec => []RecordNotMixed
<1>1. AgentInv => RecordNotMixed
  BY DEF AgentInv, PlaceInv, RecFits, FileFits, RecordNotMixed
<1> QED  BY <1>1, AgentAlways, PTL

\* Two places never hold one lease unwarned, however their claims overlap.
THEOREM AgentSharedIsSeen == Spec => []SharedIsSeen
<1>1. Init => OneUnwarned
  <2> SUFFICES ASSUME Init PROVE OneUnwarned
    OBVIOUS
  <2>1. \A p \in Places : rec[p] = NoFile /\ edit[p] = NoFile /\ cmd[p] \notin Answered
    BY AgentInit, CmdShape DEF Init, AgentInv
  <2>2. NoFile.lease \notin LeaseIds
    BY ClientAssumption DEF NoFile, File
  <2> QED  BY <2>1, <2>2 DEF OneUnwarned, Claimant
<1>2. AgentInv /\ OneUnwarned => SharedIsSeen
  <2> SUFFICES ASSUME AgentInv, OneUnwarned, NEW p \in Places, NEW q \in Places, p # q,
                      rec[p].lease # NoLease, rec[p].lease = rec[q].lease
               PROVE  rec[p].lease \in warned
    BY DEF SharedIsSeen
  <2>1. rec[p].lease \in LeaseIds
    BY DEF AgentInv, TypeOK, Files
  <2> QED  BY <2>1 DEF OneUnwarned, Claimant
<1> QED  BY <1>1, <1>2, UnwarnedStep, AgentAlways, PTL DEF Spec

-----------------------------------------------------------------------------
(* The control plane of this module is the allocator, however the requests *)
(* that reach it are lost, repeated and delayed.                           *)

LEMMA CloseIsCloses ==
    ASSUME TypeOK, NEW l \in LeaseIds, CloseLease(l)
    PROVE  Closes(l)
<1>1. lease[l] \in Rows
  BY ActiveRow DEF CloseLease
<1>2. [lease[l] EXCEPT !.status = "released"].status = "released"
  BY <1>1 DEF Rows
<1> QED  BY <1>2 DEF CloseLease, Closes, TypeOK

LEMMA HandleIsTableStep ==
    ASSUME TypeOK, NEW m \in Requests, NEW ans \in Answers, Handle(m, ans)
    PROVE  TableStep
<1>1. UNCHANGED table => TableStep
  BY DEF table, TableStep, SameBindings
<1>2. CASE m.method = "POST" /\ m.arg \in Keys
  <2>1. HandleClaim(m.arg, ans)
    BY <1>2 DEF Handle
  <2>2. UNCHANGED table \/ \E l \in LeaseIds, d \in Devices :
            /\ LeaseOf(m.arg) = {} /\ FirstFree(d)
            /\ GrantLease(l, [status |-> "active", key |-> m.arg, dev |-> d])
    <3>1. (\E l \in LeaseIds : lease[l] = Unissued) =>
              (CHOOSE x \in LeaseIds : lease[x] = Unissued) \in LeaseIds
      OBVIOUS
    <3> QED  BY <2>1, <3>1 DEF HandleClaim
  <2>3. ASSUME NEW l \in LeaseIds, NEW d \in Devices, LeaseOf(m.arg) = {}, FirstFree(d),
               GrantLease(l, [status |-> "active", key |-> m.arg, dev |-> d])
        PROVE  TableStep
    <3> DEFINE row == [status |-> "active", key |-> m.arg, dev |-> d]
    <3>1. row.status = "active" /\ row.key = m.arg /\ row.dev = d
      OBVIOUS
    <3>2. LeaseOn(d) = {}
      BY <2>3 DEF FirstFree, FreeDevices
    <3> QED  BY <1>2, <2>3, <3>1, <3>2 DEF TableStep
  <2> QED  BY <1>1, <2>2, <2>3
<1>3. CASE m.method = "DELETE" /\ m.arg \in LeaseIds
  <2>1. CloseLease(m.arg) \/ UNCHANGED table
    BY <1>3 DEF Handle, HandleRelease
  <2> QED  BY <1>1, <1>3, <2>1, CloseIsCloses DEF TableStep
<1> QED  BY <1>2, <1>3 DEF Requests, Posts, Deletes

LEMMA AgentStepKinds == TypeOK /\ [Next]_vars => TableStep
<1> SUFFICES ASSUME TypeOK, [Next]_vars PROVE TableStep
  OBVIOUS
<1>1. UNCHANGED lease => TableStep
  BY DEF TableStep, SameBindings
<1>2. ASSUME NEW p \in Places, Execute(p) PROVE TableStep
  <2>1. PICK m \in Requests : m = cmd[p].req
    BY <1>2 DEF Execute, TypeOK, Idle, Sent, Answered
  <2> QED  BY <1>2, <2>1, HandleIsTableStep DEF Execute
<1>3. ASSUME NEW m \in Requests, ExecuteLate(m) PROVE TableStep
  BY <1>3, HandleIsTableStep DEF ExecuteLate
<1>4. ASSUME NEW l \in LeaseIds, Reap(l) PROVE TableStep
  BY <1>4, CloseIsCloses DEF Reap, TableStep
<1>5. ASSUME NEW p \in Places,
             \/ CmdClaim(p) \/ CmdRelease(p) \/ McpClaim(p) \/ McpRelease(p) \/ McpRun(p)
             \/ McpRunWrites(p) \/ Leave(p) \/ FinishClaim(p) \/ FinishRelease(p) \/ FinishMcp(p)
             \/ Misroute(p) \/ GiveUp(p)
      PROVE  UNCHANGED lease
  BY <1>5 DEF CmdClaim, CmdRelease, McpClaim, McpRelease, McpRun, McpRunWrites, Leave,
       FinishClaim, FinishRelease, FinishMcp, Misroute, GiveUp, table
<1>6. CASE (\E m \in Requests : Lose(m)) \/ (\E d \in Devices : Reset(d)) \/ UNCHANGED vars
  BY <1>1, <1>6 DEF Lose, Reset, vars, table
<1> QED  BY <1>1, <1>2, <1>3, <1>4, <1>5, <1>6 DEF Next, Returns

\* No request, wherever it is sent from and however late it is carried out,
\* makes the tables do anything the allocator does not: the service the agents
\* are checked against here keeps the promise LeaseStore proves of the real one.
THEOREM AgentRefinesAllocator == Spec => Alloc!Spec
<1>1. Init => Alloc!Init
  BY DEF Init, Alloc!Init, HeldBindings, SpentIds, Active, Unissued
<1>2. TypeOK => Table
  BY DEF TypeOK, Table
<1>3. TypeOK /\ [Next]_vars => [Alloc!Next]_<<HeldBindings, SpentIds>>
  BY <1>2, AgentStepKinds, TableStepRefines
<1> QED  BY <1>1, <1>3, AgentTypeCorrect, PTL DEF Spec, Alloc!Spec, Alloc!vars
=============================================================================
