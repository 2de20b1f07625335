---------------------------- MODULE MCMonitorSweep ----------------------------
(* Instances of MonitorSweep for TLC.                                      *)
EXTENDS MonitorSweep, TLC

CONSTANTS x, y, a, b, c

(* Two services are open on workspace x, which has the watches a and b.    *)
SharedDatabase == <<x, y, x>>
TwoThenOne     == x :> <<a, b>> @@ y :> <<c>>
LaterOnly      == <<b>>
(* The one created first is broken, at times so that its sweep ends.       *)
OneFails       == a :> {"rejected", "raises"} @@ b :> {"ok"} @@ c :> {"ok"}

=============================================================================
