------------------------------- MODULE Stores -------------------------------
(* What the models of the stores share: a value that is none of the others, *)
(* SQL's NULL and Python's None, and a process that is doing nothing.       *)
CONSTANT None

Idle == [pc |-> "idle"]
=============================================================================
