-------------------------- MODULE MCBlobRetention --------------------------
(* Small instances of BlobRetention for TLC.                               *)
EXTENDS BlobRetention, FiniteSets, TLC

(* Processes, and sources of one kind, are interchangeable.                *)
Symmetry == Permutations(Procs) \cup Permutations(UploadSources)

(* Without the gateway one upload goes through three policies while the    *)
(* other keeps its first, or both go through two; beside the gateway both  *)
(* keep their first, or one that is alone goes through two.                *)
GatewayOrEpochs ==
    LET uploads == sources \cap UploadSources
        changed == {s \in uploads : policy[s].rev > 1}
        Most(n) == \A s \in uploads : policy[s].rev <= n
    IN  IF sources \cap GatewaySources = {}
        THEN Most(2) \/ Cardinality(changed) <= 1
        ELSE changed = {} \/ (Cardinality(uploads) = 1 /\ Most(2))
=============================================================================
