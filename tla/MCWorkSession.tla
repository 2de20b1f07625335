---------------------------- MODULE MCWorkSession ----------------------------
(* Instances of WorkSession for TLC.                                       *)
EXTENDS WorkSession, TLC

WatchOrNot == {<<TRUE, TRUE>>, <<TRUE, FALSE>>}
AllOrNone == {<<TRUE, TRUE>>, <<FALSE, FALSE>>}
AllModes  == BOOLEAN \X BOOLEAN

Busy == {p \in Workers : pc[p] \notin {"idle", "discover", "observe", "append"}}

(* Two candidates, or overlapping exports with and without sinks.          *)
OneModeOrCandidate ==
    Cardinality(discovered) <= 1 \/ Cardinality({job[p].sink : p \in Busy}) <= 1

(* Dying workers, revisions and actors are interchangeable.                *)
Symmetry == Permutations(Mortal) \cup Permutations(Revisions) \cup Permutations(Candidates \ Moving) \cup Permutations(Actors)
=============================================================================
