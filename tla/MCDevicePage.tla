----------------------------- MODULE MCDevicePage ----------------------------
(* DevicePage with one agent and two other requests at a time, for TLC.     *)
EXTENDS DevicePage, TLC

\* Screenshots share locks with inputs and with streams, dumps with dumps.
MCMixes == {{"shot", "input"}, {"shot", "stream"}, {"dump"}}
=============================================================================
