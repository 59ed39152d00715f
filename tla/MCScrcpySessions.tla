--------------------------- MODULE MCScrcpySessions --------------------------
(* ScrcpySessions on a small wall, for TLC. *)
EXTENDS ScrcpySessions, TLC

CONSTANT FirstDevice

\* Bounds: only the second connection chooses its device, the others ask for
\* the same one; only the first gets stuck.
ChoicesBound ==
    \A g \in Sessions :
        /\ g # 2 /\ ses[g] # Unused => ses[g].dev = FirstDevice
        /\ ses[g].stuck => g = 1
=============================================================================
