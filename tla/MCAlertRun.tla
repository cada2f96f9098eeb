----------------------------- MODULE MCAlertRun -----------------------------
(* A small instance of AlertRun: two verdicts, each to be alerted about or   *)
(* not, two processes, two sinks.                                            *)
EXTENDS AlertRun, TLC

CONSTANTS watch, command

MCRunners == {watch, command}

MCVerdicts == 1..2
MCConfidence == 1 :> 2 @@ 2 :> 3
MCSinks == <<"file", "webhook">>
=============================================================================
