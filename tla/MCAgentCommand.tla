--------------------------- MODULE MCAgentCommand ---------------------------
(* Instances of AgentCommand for TLC.                                      *)
EXTENDS AgentCommand, TLC

Symmetry == Permutations(Processes) \cup Permutations(Callers)

WrapperRun == [client |-> "wrapper", key |-> "begin", payload |-> <<"build">>]
OldRun     == [client |-> "other", key |-> "old", payload |-> <<"old">>]

Ask(client, key, op, r, seq, text) ==
    [client |-> client, key |-> key, op |-> op, run |-> r, seq |-> seq,
     payload |-> <<text>>]

(* The wrapper's client adds to the run of the command, asks for it, uses  *)
(* keys twice and cancels the run; another client has a legacy run and no  *)
(* business with this one.                                                 *)
Bystanders ==
    {Ask("wrapper", "k1", "observe_input", WrapperRun, 1, "a"),
     Ask("wrapper", "k1", "get_run", WrapperRun, 0, "a"),
     Ask("wrapper", "k2", "observe_input", WrapperRun, 1, "a"),
     Ask("wrapper", "k3", "cancel_run", WrapperRun, 2, "stop"),
     Ask("wrapper", "k3", "begin_run", None, 0, "publish"),
     Ask("other", "k4", "observe_input", WrapperRun, 2, "c"),
     Ask("wrapper", "k4", "observe_input", WrapperRun, 3, "c"),
     Ask("other", "k5", "observe_input", OldRun, 2, "old")}

LegacyDatabase == {OldRun}
=============================================================================
