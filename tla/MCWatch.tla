------------------------------ MODULE MCWatch ------------------------------
(* A small instance of Watch: a hostname that alerts, and one whose match is *)
(* below the alert threshold.  The feed lists both.                          *)
EXTENDS Watch

CONSTANTS lookalike, listing

MCSites == {lookalike, listing}
MCAlerts == {lookalike}
=============================================================================
