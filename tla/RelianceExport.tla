--------------------------- MODULE RelianceExport ----------------------------
(***************************************************************************)
(* What reconciliation promises for every observed input of a work session *)
(* (TESTAMUR_CONVERGENCE.md, W4: only explicit reconciliation may promote  *)
(* durable reliance).  An input gets one decision and keeps it; only a yes *)
(* leads to a durable reliance receipt, to one receipt, and the receipt,   *)
(* its local acknowledgement, the watch candidate, the watch and its       *)
(* acknowledgement follow each other in this order, whoever performs them  *)
(* and however often they are retried.                                     *)
(*                                                                         *)
(* "misbound" is the end of an input whose source moved on while its       *)
(* receipt was being issued: the receipt exists, pins another revision,    *)
(* and is never acknowledged.                                              *)
(***************************************************************************)
CONSTANT Inputs
VARIABLE stage

StageInit == stage = [k \in Inputs |-> "open"]

(* What may follow each stage.                                             *)
After == [open      |-> {"yes", "no"},
          no        |-> {},
          yes       |-> {"receipt", "misbound"},
          misbound  |-> {},
          receipt   |-> {"exported"},
          exported  |-> {"watchable"},
          watchable |-> {"watched"},
          watched   |-> {"acknowledged"},
          acknowledged |-> {}]

Advance(k) == \E next \in After[stage[k]] : stage' = [stage EXCEPT ![k] = next]

StageNext == \E k \in Inputs : Advance(k)

Spec == StageInit /\ [][StageNext]_stage
=============================================================================
