----------------------------- MODULE MCWatchStore -----------------------------
(* Instances of WatchStore for TLC.                                        *)
EXTENDS WatchStore, TLC

EverythingOrOutages == {Events, {"unavailable"}}

(* Revisions are interchangeable, and so are workers but the creator.      *)
Symmetry == Permutations(Revisions) \cup Permutations(Workers \ {Creator})

(* A third snapshot under one configuration; a second one before it.       *)
SnapshotsOrConfigs == Cardinality(configs) = 1 \/ Len(snaps) <= 2
=============================================================================
