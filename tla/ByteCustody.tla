---------------------------- MODULE ByteCustody ----------------------------
(***************************************************************************)
(* What blob retention promises, without processes, locks or claims: for   *)
(* every source and digest, whether the source has captured the bytes and  *)
(* may still ask for them.                                                 *)
(*                                                                         *)
(*   "held"      captured, not released, and the bytes are in the store    *)
(*   "released"  captured, and the source gave the bytes up                *)
(*   "lost"      wanted again after a release that let the bytes go        *)
(*                                                                         *)
(* There is no step from "held" to "lost".                                 *)
(***************************************************************************)
CONSTANTS Sources, Digests

VARIABLES stored, custody

Refs == Sources \X Digests

TypeOK ==
    /\ stored \subseteq Digests
    /\ custody \in [Refs -> {"none", "held", "released", "lost"}]

Init ==
    /\ stored = {}
    /\ custody = [r \in Refs |-> "none"]

(* Bytes enter the store; whoever missed them has them back.               *)
Deposit(d) ==
    /\ d \notin stored
    /\ stored' = stored \cup {d}
    /\ custody' = [r \in Refs |-> IF r[2] = d /\ custody[r] = "lost"
                                  THEN "held" ELSE custody[r]]

Capture(r) ==
    /\ custody[r] = "none"
    /\ r[2] \in stored
    /\ custody' = [custody EXCEPT ![r] = "held"]
    /\ UNCHANGED stored

Release(r) ==
    /\ custody[r] \in {"held", "lost"}
    /\ custody' = [custody EXCEPT ![r] = "released"]
    /\ UNCHANGED stored

(* A source takes back what it released: by a retain event, by any change  *)
(* of its policy (all its digests at once), or because the release was     *)
(* rolled back.  Bytes that are gone stay gone.                            *)
Reacquire(R) ==
    /\ R # {}
    /\ \A r \in R : custody[r] = "released"
    /\ custody' = [r \in Refs |->
                     IF r \notin R THEN custody[r]
                     ELSE IF r[2] \in stored THEN "held" ELSE "lost"]
    /\ UNCHANGED stored

Remove(d) ==
    /\ d \in stored
    /\ \A s \in Sources : custody[<<s, d>>] # "held"
    /\ stored' = stored \ {d}
    /\ UNCHANGED custody

Next ==
    \/ \E d \in Digests : Deposit(d) \/ Remove(d)
    \/ \E r \in Refs : Capture(r) \/ Release(r)
    \/ \E s \in Sources : \E D \in SUBSET Digests : Reacquire({s} \X D)

Spec == Init /\ [][Next]_<<stored, custody>>

=============================================================================
