--------------------------- MODULE MCDeviceSettings --------------------------
(* DeviceSettings on a small node, for TLC. *)
EXTENDS DeviceSettings, TLC

\* Egress stays as it is configured, or is switched on.
KeptOrSwitchedOn == {<<FALSE, FALSE>>, <<FALSE, TRUE>>, <<TRUE, TRUE>>}
SettingsSymmetry == Permutations(Clients) \cup Permutations(Images)

\* Bounds: requests come when the start-up goroutine is in its last step, the
\* creation of the device, or through with it, and on a base that is finished
\* by then.  The base, the earlier steps and the settings share no variable.
CalmStart == boot # "done" => \A c \in Clients : ~Busy(c)
CalmBase ==
    boot = "done" /\ spent.requests > 0 =>
        base.stamp = cfg.image /\ ~base.beside /\ golden = None

\* Bound: requests come only after a rebuild that overlaps with another, which
\* are followed on a base that is finished.
RivalsAlone == (\E r \in Rivals : Busy(r)) => spent.requests = 0 /\ base.stamp = cfg.image

\* Bound: a base that MakeGolden left half made is only followed into the next
\* restart; to everything else it is as good as an empty one.
BaseBound == boot = "done" => base.stamp # None \/ base.by = None
=============================================================================
