---------------------------- MODULE MCCaptureRun ----------------------------
(* Small instances of CaptureRun: two alerts, one of them also a feed entry, *)
(* and a site that only the feed lists, further up in its file.              *)
EXTENDS CaptureRun, TLC

CONSTANTS high, low, listing

MCSites == {high, low, listing}
MCAlerts == {high, low}
MCFeed == {low, listing}
MCPriority == [alerts |-> high :> 3 @@ low :> 2 @@ listing :> 1,
               feed   |-> high :> 0 @@ low :> 2 @@ listing :> 1]
=============================================================================
