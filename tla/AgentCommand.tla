---------------------------- MODULE AgentCommand ----------------------------
(***************************************************************************)
(* testamur run with an idempotency key: run_agent_command                 *)
(* (agent_wrapper.py) over CommandExecutionService (command_execution.py)  *)
(* over the runtime protocol (RuntimeLedger).                              *)
(*                                                                         *)
(* Callers make calls of run_agent_command.  Each process has a command    *)
(* service, whose lock orders the calls of that process only.  Every       *)
(* protocol call and every read of the ledger is a step.  Processes die    *)
(* and start again, and a caller may be interrupted.                       *)
(***************************************************************************)
EXTENDS RuntimeLedger

CONSTANTS
    Processes,
    Callers,
    Client,       \* the client id of the wrappers
    Commands,     \* the argv that callers run under one idempotency key
    Observations, \* what a process run may be observed to do
    MaxRuns       \* bound: how often each process runs a command

ASSUME NoneIsNone == None \notin Callers \cup Processes \cup Commands \cup Observations
ASSUME MaxRunsIsPos == MaxRuns \in Nat \ {0}

VARIABLES
    pc, job,
    lock,       \* the caller that holds the RLock of each service
    ran,        \* how often each process ran each command
    receipts    \* history: what the wrappers returned

callerVars == <<pc, job, lock, ran, receipts>>
commandVars == <<ledgerVars, callerVars>>

PC == {"idle", "probe", "inputs", "probe_again", "lock", "begin", "load", "intent",
       "run", "terminal", "reload", "outputs", "interrupted"}

NoJob == [at |-> None, cmd |-> None, inputs |-> "none", process |-> None,
          replayed |-> FALSE, own |-> FALSE]

(* Requests of the service; the keys are derived from the caller's key.    *)
Request(cmd, op, key, r, seq, payload) ==
    [client |-> Client, key |-> key, op |-> op, run |-> r, seq |-> seq,
     payload |-> payload]

BeginRequest(cmd)  == Request(cmd, "begin_run", "begin", None, 0, <<cmd>>)
CommandRun(cmd)    == RunId(BeginRequest(cmd))
IntentRequest(cmd) == Request(cmd, "execute", "execute", CommandRun(cmd), 1, <<cmd>>)

(* The outcome is "success" exactly when the process was observed to end so*)
TerminalRequest(cmd, process) ==
    Request(cmd, IF process = "success" THEN "finish_run" ELSE "fail_run",
            "terminal", CommandRun(cmd), 2, <<process>>)

CommandInit ==
    /\ LedgerInit
    /\ pc = [c \in Callers |-> "idle"]
    /\ job = [c \in Callers |-> NoJob]
    /\ lock = [p \in Processes |-> None]
    /\ ran = [p \in Processes |-> [cmd \in Commands |-> 0]]
    /\ receipts = {}

Goto(c, label) == pc' = [pc EXCEPT ![c] = label]

Release(c) == lock' = [p \in Processes |-> IF lock[p] = c THEN None ELSE lock[p]]

(* The call raises: the caller gets no receipt.                            *)
Fail(c) ==
    /\ Goto(c, "idle")
    /\ job' = [job EXCEPT ![c] = NoJob]
    /\ Release(c)

Events(c) == runs[CommandRun(job[c].cmd)]
Exists(c) == CommandRun(job[c].cmd) \in DOMAIN runs

(* _terminal_process: what the terminal event recorded; None if it was a   *)
(* cancellation.                                                           *)
RecordedProcess(events) ==
    IF Last(events).op \in {"finish_run", "fail_run"}
    THEN Last(events).payload[1] ELSE None

-----------------------------------------------------------------------------
(* run_agent_command, before it calls the service.                         *)

Start(c, p, cmd) ==
    /\ pc[c] = "idle"
    /\ job' = [job EXCEPT ![c].at = p, ![c].cmd = cmd]
    /\ Goto(c, "probe")
    /\ UNCHANGED <<ledgerVars, lock, ran, receipts>>

(* A run with a terminal event or an intent will not be executed again.    *)
PreventsExecution(c) == Exists(c) /\ Events(c) # <<>>

(* _existing_run_prevents_execution: a get_run under a fresh key, whose    *)
(* binding nobody uses again.  Inputs of such a retry are not read.        *)
Probe(c) ==
    /\ pc[c] = "probe"
    /\ IF PreventsExecution(c)
       THEN job' = [job EXCEPT ![c].inputs = "not_read"] /\ Goto(c, "lock")
       ELSE UNCHANGED job /\ Goto(c, "inputs")
    /\ UNCHANGED <<ledgerVars, lock, ran, receipts>>

CaptureInputs(c) ==
    /\ pc[c] = "inputs"
    /\ \E seen \in {"captured", "missing"} :
          /\ job' = [job EXCEPT ![c].inputs = seen]
          /\ Goto(c, IF seen = "captured" THEN "lock" ELSE "probe_again")
    /\ UNCHANGED <<ledgerVars, lock, ran, receipts>>

(* Missing inputs are tolerated only if the command ran meanwhile.         *)
ProbeAgain(c) ==
    /\ pc[c] = "probe_again"
    /\ IF PreventsExecution(c)
       THEN Goto(c, "lock") /\ UNCHANGED <<job, lock>>
       ELSE Fail(c)
    /\ UNCHANGED <<ledgerVars, ran, receipts>>

-----------------------------------------------------------------------------
(* CommandExecutionService.execute.                                        *)

Lock(c) ==
    /\ pc[c] = "lock"
    /\ lock[job[c].at] = None
    /\ lock' = [lock EXCEPT ![job[c].at] = c]
    /\ Goto(c, "begin")
    /\ UNCHANGED <<ledgerVars, job, ran, receipts>>

(* A protocol call of the service: onward if it is accepted, else an error.*)
Protocol(c, q, label) ==
    /\ Call(q)
    /\ IF Reply(q).ok THEN Goto(c, label) /\ UNCHANGED <<job, lock>> ELSE Fail(c)
    /\ UNCHANGED <<ran, receipts>>

BeginRun(c) ==
    /\ pc[c] = "begin"
    /\ Protocol(c, BeginRequest(job[c].cmd), "load")

Complete(c, replayed) ==
    IF RecordedProcess(Events(c)) = None
    THEN Fail(c)
    ELSE /\ job' = [job EXCEPT ![c].process = RecordedProcess(Events(c)),
                               ![c].replayed = replayed]
         /\ Goto(c, "outputs")
         /\ Release(c)

LoadRun_NoIncomplete(c) ==
    /\ pc[c] = "load"
    /\ IF StateFor(Events(c)) # "active" THEN Complete(c, TRUE)
       ELSE Goto(c, "intent") /\ UNCHANGED <<job, lock>>
    /\ UNCHANGED <<ledgerVars, ran, receipts>>

LoadRun_NotReplayed(c) ==
    /\ pc[c] = "load"
    /\ IF StateFor(Events(c)) # "active" THEN Complete(c, FALSE)
       ELSE IF Events(c) # <<>> THEN Fail(c)
       ELSE Goto(c, "intent") /\ UNCHANGED <<job, lock>>
    /\ UNCHANGED <<ledgerVars, ran, receipts>>

(* A finished run is replayed; one with an intent and no terminal event is *)
(* refused, for its command may have run.                                  *)
LoadRun(c) ==
    /\ pc[c] = "load"
    /\ IF StateFor(Events(c)) # "active" THEN Complete(c, TRUE)
       ELSE IF Events(c) # <<>> THEN Fail(c)
       ELSE Goto(c, "intent") /\ UNCHANGED <<job, lock>>
    /\ UNCHANGED <<ledgerVars, ran, receipts>>

CommitIntent(c) ==
    /\ pc[c] = "intent"
    /\ Protocol(c, IntentRequest(job[c].cmd), "run")

RunProcess(c) ==
    /\ pc[c] = "run"
    /\ ran[job[c].at][job[c].cmd] < MaxRuns
    /\ ran' = [ran EXCEPT ![job[c].at][job[c].cmd] = @ + 1]
    /\ \E o \in Observations :
          job' = [job EXCEPT ![c].process = o, ![c].own = TRUE]
    /\ Goto(c, "terminal")
    /\ UNCHANGED <<ledgerVars, lock, receipts>>

CommitTerminal_Unchecked(c) ==
    /\ pc[c] = "terminal"
    /\ Call(TerminalRequest(job[c].cmd, job[c].process))
    /\ Goto(c, "outputs") /\ Release(c)
    /\ UNCHANGED <<job, ran, receipts>>

CommitTerminal(c) ==
    /\ pc[c] = "terminal"
    /\ Protocol(c, TerminalRequest(job[c].cmd, job[c].process), "reload")

(* The answer is built from the ledger, not from what this call observed.  *)
ReloadRun(c) ==
    /\ pc[c] = "reload"
    /\ Complete(c, FALSE)
    /\ UNCHANGED <<ledgerVars, ran, receipts>>

-----------------------------------------------------------------------------
(* run_agent_command, after the service answered.                          *)

Receipt(c, how, process) ==
    [cmd |-> job[c].cmd, how |-> how, process |-> process, own |-> job[c].own,
     inputs |-> IF how = "replayed" THEN "not_attributed" ELSE job[c].inputs,
     outputs |-> how # "replayed" /\ process # None]

(* Outputs are captured and attributed unless the answer is a replay.      *)
ReturnReceipt(c) ==
    /\ pc[c] = "outputs"
    /\ receipts' = receipts \cup
          {Receipt(c, IF job[c].replayed THEN "replayed" ELSE "executed", job[c].process)}
    /\ Goto(c, "idle")
    /\ job' = [job EXCEPT ![c] = NoJob]
    /\ UNCHANGED <<ledgerVars, lock, ran>>

InService == {"lock", "begin", "load", "intent", "run", "terminal", "reload"}

(* Control-C inside execute_command: a running child is killed; the lock   *)
(* is released as the stack unwinds.                                       *)
Interrupt(c) ==
    /\ pc[c] \in InService
    /\ Goto(c, "interrupted")
    /\ Release(c)
    /\ UNCHANGED <<ledgerVars, job, ran, receipts>>

(* _inspect_interrupted_run: what the ledger says of the run by now.  If it *)
(* ended, outputs are captured, whoever ran the command.                   *)
ReturnInterrupted(c) ==
    /\ pc[c] = "interrupted"
    /\ LET ended == Exists(c) /\ StateFor(Events(c)) # "active"
           found == IF ended THEN RecordedProcess(Events(c)) ELSE None
       IN receipts' = receipts \cup {Receipt(c, "interrupted", found)}
    /\ Goto(c, "idle")
    /\ job' = [job EXCEPT ![c] = NoJob]
    /\ UNCHANGED <<ledgerVars, lock, ran>>

(* A process dies with all its calls; the next one starts afresh.          *)
Crash(p) ==
    /\ \E c \in Callers : job[c].at = p
    /\ pc' = [c \in Callers |-> IF job[c].at = p THEN "idle" ELSE pc[c]]
    /\ job' = [c \in Callers |-> IF job[c].at = p THEN NoJob ELSE job[c]]
    /\ lock' = [lock EXCEPT ![p] = None]
    /\ UNCHANGED <<ledgerVars, ran, receipts>>

-----------------------------------------------------------------------------
CallerStep(c) ==
    \/ \E p \in Processes, cmd \in Commands : Start(c, p, cmd)
    \/ Probe(c) \/ CaptureInputs(c) \/ ProbeAgain(c)
    \/ Lock(c) \/ BeginRun(c) \/ LoadRun(c) \/ CommitIntent(c) \/ RunProcess(c)
    \/ CommitTerminal(c) \/ ReloadRun(c) \/ ReturnReceipt(c)
    \/ Interrupt(c) \/ ReturnInterrupted(c)

CommandNext ==
    \/ \E c \in Callers : CallerStep(c)
    \/ \E p \in Processes : Crash(p)
    \/ LedgerNext /\ UNCHANGED callerVars

CommandSpec == CommandInit /\ [][CommandNext]_commandVars

-----------------------------------------------------------------------------
(* Properties.                                                             *)

(* What an event may carry, and a terminal event record.                   *)
Payloads == {q.payload : q \in Requests} \cup {r.payload : r \in LegacyRuns}
            \cup {<<x>> : x \in Commands \cup Observations}
Recordable == {p[1] : p \in Payloads} \cup {None}

Job == [at : Processes \cup {None}, cmd : Commands \cup {None},
        inputs : {"none", "captured", "missing", "not_read"},
        process : Recordable, replayed : BOOLEAN, own : BOOLEAN]

TypeOK ==
    /\ \A r \in DOMAIN runs :
          runs[r] \in Seq([seq : Nat, op : EventOperations, payload : Payloads])
    /\ pc \in [Callers -> PC]
    /\ job \in [Callers -> Job]
    /\ lock \in [Processes -> Callers \cup {None}]
    /\ ran \in [Processes -> [Commands -> 0..MaxRuns]]

(* A process runs a command at most once under one key: also after it died *)
(* between intent and terminal event, or was interrupted in between.       *)
OncePerProcess ==
    \A p \in Processes, cmd \in Commands : ran[p][cmd] <= 1

(* Every receipt of one command reports the same process run, the one in   *)
(* the ledger, even when two processes ran the command at the same time.   *)
ReceiptsReportTheRecord ==
    \A x \in receipts :
        x.process # None => x.process = RecordedProcess(runs[CommandRun(x.cmd)])

(* Artifacts are attributed to a run only by the call that ran it, with    *)
(* its inputs captured before and outputs after the process.  The receipt  *)
(* of an interrupted call is the exception: it takes whatever the ledger   *)
(* has, and cannot tell its own run from another caller's.                 *)
AttributedToOwnRun ==
    \A x \in receipts :
        x.outputs /\ x.how # "interrupted" => x.own /\ x.inputs = "captured"

(* The service says "refusing to re-run" (command_execution.py:159): under *)
(* one idempotency key a command runs at most once.                        *)
CommandRunsOnce ==
    \A cmd \in Commands, p, q \in Processes :
        ran[p][cmd] > 0 /\ ran[q][cmd] > 0 => p = q
=============================================================================
