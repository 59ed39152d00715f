------------------------------ MODULE MCAgentCli -----------------------------
(* AgentCli for TLC: two checkouts of the same name on one host, or one      *)
(* checkout whose agent has the MCP server as well.                          *)
EXTENDS AgentCli, TLC

CONSTANTS k1, k2, p1, p2

MCKeys == {k1, k2}
MCPlaces == {p1, p2}
MCKeyOf == [p \in Places |-> k1]
MCSetups == {[cli |-> {p1, p2}, mcp |-> {}, faults |-> 1],
             [cli |-> {p1}, mcp |-> {p1}, faults |-> 1]}
=============================================================================
