-------------------------- MODULE AgentCommand_proof --------------------------
(***************************************************************************)
(* Proofs about AgentCommand and the ledger under it, for any requests of  *)
(* any clients beside the wrapper's, any commands, callers and processes.  *)
(*                                                                         *)
(* The ledger: LedgerInv relates every answer to the binding that replays  *)
(* it and to the run it reports, and has terminal events last; one call    *)
(* preserves it and lets runs only grow (LedgerStep).                      *)
(*                                                                         *)
(* The callers: CallFits says what each call has established and holds;    *)
(* what it has read of the ledger stays true while runs grow, and that no  *)
(* command of its process ran stays true because it holds the lock.        *)
(***************************************************************************)
EXTENDS AgentCommand, TLAPS

USE NoneIsNone, MaxRunsIsPos

EventType == [seq : Nat, op : EventOperations, payload : Payloads]

RunsTyped == \A r \in DOMAIN runs : runs[r] \in Seq(EventType)

(* Nothing follows a terminal event.                                       *)
TerminalIsLast ==
    \A r \in DOMAIN runs : \A i \in 1..Len(runs[r]) :
        Terminal(runs[r][i]) => i = Len(runs[r])

(* Every answer given is bound to its key, and every bound one was given.  *)
AnswersBound ==
    /\ \A a \in answers :
          /\ a = [req |-> a.req, answer |-> a.answer] /\ a.answer.ok = TRUE
          /\ Binding(a.req) \in DOMAIN bindings /\ bindings[Binding(a.req)] = a
    /\ \A b \in DOMAIN bindings :
          bindings[b] \in answers /\ Binding(bindings[b].req) = b

(* An answer is about the run that its request names or begins.            *)
AnswersNameRun ==
    \A a \in answers :
        /\ a.answer.run = IF a.req.op = "begin_run" THEN RunId(a.req) ELSE a.req.run
        /\ a.answer.events \in Seq(EventType)
        /\ a.req.op \in EventOperations => a.req.seq \in Nat \ {0}

LedgerInv ==
    /\ RunsTyped
    /\ TerminalIsLast
    /\ AnswersBound
    /\ AnswersNameRun
    /\ AnswersAreHistory

(* What a call may do to runs.                                             *)
RunsGrow ==
    \A r \in DOMAIN runs :
        /\ r \in DOMAIN runs'
        /\ IsPrefix(runs[r], runs'[r])
        /\ StateFor(runs[r]) # "active" => runs'[r] = runs[r]

-----------------------------------------------------------------------------
Locked == {"begin", "load", "intent", "run", "terminal", "reload"}

(* What a call of run_agent_command has established at each of its steps.  *)
CallFit(c) ==
    /\ pc[c] # "idle" => job[c].at \in Processes /\ job[c].cmd \in Commands
    /\ pc[c] \in Locked => lock[job[c].at] = c
    /\ pc[c] \in (Locked \ {"begin"}) \cup {"outputs"} => Exists(c)
    /\ pc[c] \in {"lock", "begin", "load"} /\ job[c].inputs # "captured"
       => PreventsExecution(c)
    /\ pc[c] \in {"intent", "run"} => ran[job[c].at][job[c].cmd] = 0
    /\ pc[c] \in {"intent", "run", "terminal", "reload"} => job[c].inputs = "captured"
    /\ pc[c] \in {"run", "terminal", "reload"} => Events(c) # <<>>
    /\ pc[c] = "terminal" => job[c].process \in Observations
    /\ pc[c] \in {"terminal", "reload"} => job[c].own = TRUE
    /\ pc[c] \in {"reload", "outputs"} => StateFor(Events(c)) # "active"
    /\ pc[c] = "outputs" =>
          /\ job[c].process = RecordedProcess(Events(c))
          /\ job[c].replayed = FALSE => job[c].own = TRUE /\ job[c].inputs = "captured"

CallFits == \A c \in Callers : CallFit(c)

(* A command that ran has left its intent in the ledger.                   *)
RanFits ==
    \A p \in Processes, cmd \in Commands :
        /\ ran[p][cmd] \in {0, 1}
        /\ ran[p][cmd] # 0 => /\ CommandRun(cmd) \in DOMAIN runs
                              /\ runs[CommandRun(cmd)] # <<>>

(* A receipt with a process run is of a run that has ended.                *)
ReceiptsFit ==
    \A x \in receipts : x.process # None =>
        /\ CommandRun(x.cmd) \in DOMAIN runs
        /\ StateFor(runs[CommandRun(x.cmd)]) # "active"
        /\ x.process = RecordedProcess(runs[CommandRun(x.cmd)])

IInv ==
    /\ TypeOK
    /\ LedgerInv
    /\ CallFits
    /\ RanFits
    /\ ReceiptsFit
    /\ AttributedToOwnRun

(* The requests that clients and the command service send.                 *)
Servable(q) == q.op \in Operations /\ q.seq \in Nat /\ q.payload \in Payloads

-----------------------------------------------------------------------------
(* Sequences that grow.                                                    *)

LEMMA PrefixReflexive ==
    ASSUME NEW S, NEW s \in Seq(S)
    PROVE  IsPrefix(s, s)
BY DEF IsPrefix

LEMMA PrefixElements ==
    ASSUME NEW S, NEW s \in Seq(S), NEW t \in Seq(S), IsPrefix(s, t)
    PROVE  Len(s) <= Len(t) /\ \A i \in 1..Len(s) : s[i] = t[i]
<1>1. Len(s) <= Len(t)
  BY DEF IsPrefix
<1>2. \A i \in 1..Len(s) : SubSeq(s, 1, Len(s))[i] = s[i]
  OBVIOUS
<1>3. \A i \in 1..Len(s) : SubSeq(t, 1, Len(s))[i] = t[i]
  BY <1>1
<1> QED BY <1>1, <1>2, <1>3 DEF IsPrefix

LEMMA PrefixTransitive ==
    ASSUME NEW S, NEW s \in Seq(S), NEW t \in Seq(S), NEW u \in Seq(S),
           IsPrefix(s, t), IsPrefix(t, u)
    PROVE  IsPrefix(s, u)
<1>1. Len(s) <= Len(t) /\ \A i \in 1..Len(s) : s[i] = t[i]
  BY PrefixElements
<1>2. Len(t) <= Len(u) /\ \A i \in 1..Len(t) : t[i] = u[i]
  BY PrefixElements
<1>3. SubSeq(s, 1, Len(s)) = SubSeq(u, 1, Len(s))
  BY <1>1, <1>2
<1> QED BY <1>1, <1>2, <1>3 DEF IsPrefix

LEMMA PrefixOfAppend ==
    ASSUME NEW S, NEW s \in Seq(S), NEW x \in S
    PROVE  IsPrefix(s, Append(s, x))
<1>1. Len(Append(s, x)) = Len(s) + 1 /\ \A i \in 1..Len(s) : Append(s, x)[i] = s[i]
  OBVIOUS
<1>2. SubSeq(s, 1, Len(s)) = SubSeq(Append(s, x), 1, Len(s))
  BY <1>1
<1> QED BY <1>1, <1>2 DEF IsPrefix

LEMMA PrefixBySubSeq ==
    ASSUME NEW S, NEW t \in Seq(S), NEW n \in 0..Len(t)
    PROVE  /\ SubSeq(t, 1, n) \in Seq(S) /\ Len(SubSeq(t, 1, n)) = n
           /\ \A i \in 1..n : SubSeq(t, 1, n)[i] = t[i]
           /\ IsPrefix(SubSeq(t, 1, n), t)
<1>1. /\ SubSeq(t, 1, n) \in Seq(S) /\ Len(SubSeq(t, 1, n)) = n
      /\ \A i \in 1..n : SubSeq(t, 1, n)[i] = t[i]
  OBVIOUS
<1>2. SubSeq(SubSeq(t, 1, n), 1, n) = SubSeq(t, 1, n)
  BY <1>1
<1> QED BY <1>1, <1>2 DEF IsPrefix

(* A run has ended exactly if its last event is terminal.                  *)
LEMMA EndedMeans ==
    ASSUME NEW es \in Seq(EventType)
    PROVE  /\ StateFor(es) # "active" <=> es # <<>> /\ Terminal(Last(es))
           /\ es # <<>> => Last(es) = es[Len(es)] /\ Len(es) \in 1..Len(es)
<1>1. es # <<>> => Last(es) = es[Len(es)] /\ Len(es) \in 1..Len(es)
  BY DEF Last
<1>2. es # <<>> /\ Terminal(Last(es)) => Last(es).op # "active"
  BY DEF Terminal, TerminalOperations
<1> QED BY <1>1, <1>2 DEF StateFor

-----------------------------------------------------------------------------
(* One call of the protocol.                                               *)

(* A call answers from its binding, refuses, or is accepted for the first  *)
(* time; only then something changes.                                      *)
LEMMA CallCases ==
    ASSUME AnswersBound, NEW q, Call(q)
    PROVE  \/ /\ UNCHANGED ledgerVars
              /\ Reply(q).ok = TRUE => [req |-> q, answer |-> Reply(q)] \in answers
           \/ /\ ~Bound(q) /\ Refused(q) = "none" /\ Reply(q) = Result(q)
              /\ answers' = answers \cup {[req |-> q, answer |-> Result(q)]}
              /\ runs' = RunsAfter(q)
              /\ bindings' = Put(bindings, Binding(q), [req |-> q, answer |-> Result(q)])
<1> DEFINE given == {a \in {[req |-> q, answer |-> Reply(q)]} : a.answer.ok}
<1>1. answers' = answers \cup given
  BY DEF Call
<1>2. CASE Bound(q)
  <2>1. UNCHANGED <<runs, bindings>>
    BY <1>2 DEF Call
  <2>2. CASE bindings[Binding(q)].req = q
    <3>1. [req |-> q, answer |-> Reply(q)] = bindings[Binding(q)]
      BY <1>2, <2>2 DEF Reply, AnswersBound, Bound
    <3>2. bindings[Binding(q)] \in answers
      BY <1>2 DEF AnswersBound, Bound
    <3> QED BY <1>1, <2>1, <3>1, <3>2 DEF ledgerVars
  <2>3. CASE bindings[Binding(q)].req # q
    <3>1. Reply(q).ok = FALSE
      BY <1>2, <2>3 DEF Reply, Refusal
    <3>2. given = {}
      BY <3>1
    <3> QED BY <1>1, <2>1, <3>1, <3>2 DEF ledgerVars
  <2> QED BY <2>2, <2>3
<1>3. CASE ~Bound(q) /\ Refused(q) # "none"
  <2>1. UNCHANGED <<runs, bindings>>
    BY <1>3 DEF Call
  <2>2. Reply(q).ok = FALSE
    BY <1>3 DEF Reply, Refusal
  <2>3. given = {}
    BY <2>2
  <2> QED BY <1>1, <2>1, <2>2, <2>3 DEF ledgerVars
<1>4. CASE ~Bound(q) /\ Refused(q) = "none"
  <2>1. Reply(q) = Result(q)
    BY <1>4 DEF Reply
  <2>2. Result(q).ok = TRUE
    BY DEF Result, Answer
  <2>3. given = {[req |-> q, answer |-> Result(q)]}
    BY <2>1, <2>2
  <2> QED BY <1>1, <1>4, <2>1, <2>3 DEF Call
<1> QED BY <1>2, <1>3, <1>4

(* What an accepted request does to runs, and how it is answered.          *)
LEMMA AcceptedCases ==
    ASSUME RunsTyped, NEW q, Servable(q), Refused(q) = "none"
    PROVE  \/ /\ q.op = "begin_run"
              /\ \/ RunId(q) \in DOMAIN runs /\ RunsAfter(q) = runs
                 \/ RunId(q) \notin DOMAIN runs /\ RunsAfter(q) = Put(runs, RunId(q), <<>>)
              /\ Result(q) = Answer(RunId(q), <<>>)
           \/ /\ q.op = "get_run" /\ Owns(q, q.run)
              /\ RunsAfter(q) = runs
              /\ Result(q) = Answer(q.run, runs[q.run])
           \/ /\ q.op \in EventOperations /\ Owns(q, q.run)
              /\ q.seq \in 1..Len(runs[q.run]) /\ runs[q.run][q.seq] = Event(q)
              /\ RunsAfter(q) = runs
              /\ Result(q) = Answer(q.run, SubSeq(Append(runs[q.run], Event(q)), 1, q.seq))
           \/ /\ q.op \in EventOperations /\ Owns(q, q.run)
              /\ StateFor(runs[q.run]) = "active" /\ q.seq = Len(runs[q.run]) + 1
              /\ RunsAfter(q) = [runs EXCEPT ![q.run] = Append(@, Event(q))]
              /\ Result(q) = Answer(q.run, SubSeq(Append(runs[q.run], Event(q)), 1, q.seq))
<1>1. CASE q.op = "begin_run"
  BY <1>1 DEF RunsAfter, Result
<1>2. CASE q.op = "get_run"
  <2>1. Owns(q, q.run)
    BY <1>2 DEF Refused, GetRefusal
  <2> QED BY <1>2, <2>1 DEF RunsAfter, Result
<1>3. CASE q.op \notin {"begin_run", "get_run"}
  <2>1. q.op \in EventOperations
    BY <1>3 DEF Servable, Operations
  <2>2. AppendRefusal(q) = "none"
    BY <1>3 DEF Refused
  <2>3. /\ Owns(q, q.run) /\ q.seq # 0
        /\ Committed(q) => runs[q.run][q.seq] = Event(q)
        /\ ~Committed(q) => /\ StateFor(runs[q.run]) = "active"
                            /\ q.seq = Len(runs[q.run]) + 1
    BY <2>2 DEF AppendRefusal
  <2>4. runs[q.run] \in Seq(EventType) /\ q.seq \in Nat
    BY <2>3 DEF RunsTyped, Owns, Servable
  <2>5. Committed(q) => q.seq \in 1..Len(runs[q.run])
    BY <2>3, <2>4 DEF Committed
  <2>6. RunsAfter(q) = IF Committed(q) THEN runs
                       ELSE [runs EXCEPT ![q.run] = Append(@, Event(q))]
    BY <1>3 DEF RunsAfter
  <2>7. Result(q) = Answer(q.run, SubSeq(Append(runs[q.run], Event(q)), 1, q.seq))
    BY <1>3 DEF Result
  <2> QED BY <2>1, <2>3, <2>5, <2>6, <2>7
<1> QED BY <1>1, <1>2, <1>3

(* A new run, and a new event of a run that has not ended: runs grow.      *)
LEMMA AcceptedGrows ==
    ASSUME LedgerInv, NEW q, Servable(q), Refused(q) = "none", runs' = RunsAfter(q)
    PROVE  RunsTyped' /\ TerminalIsLast' /\ RunsGrow
<1>1. CASE runs' = runs
  <2>1. RunsTyped' /\ TerminalIsLast'
    BY <1>1 DEF LedgerInv, RunsTyped, TerminalIsLast
  <2>2. RunsGrow
    BY <1>1, PrefixReflexive DEF LedgerInv, RunsTyped, RunsGrow
  <2> QED BY <2>1, <2>2
<1>2. ASSUME NEW r, r \notin DOMAIN runs, runs' = Put(runs, r, <<>>)
      PROVE  RunsTyped' /\ TerminalIsLast' /\ RunsGrow
  <2>1. /\ DOMAIN runs' = DOMAIN runs \cup {r} /\ runs'[r] = <<>>
        /\ \A x \in DOMAIN runs : runs'[x] = runs[x]
    BY <1>2 DEF Put
  <2>2. RunsTyped' /\ TerminalIsLast'
    <3>1. <<>> \in Seq(EventType) /\ 1..Len(<<>>) = {}
      OBVIOUS
    <3>2. RunsTyped'
      BY <2>1, <3>1 DEF LedgerInv, RunsTyped
    <3>3. TerminalIsLast'
      BY <2>1, <3>1 DEF LedgerInv, TerminalIsLast
    <3> QED BY <3>2, <3>3
  <2>3. RunsGrow
    BY <2>1, PrefixReflexive DEF LedgerInv, RunsTyped, RunsGrow
  <2> QED BY <2>2, <2>3
<1>3. ASSUME Owns(q, q.run), q.op \in EventOperations,
             StateFor(runs[q.run]) = "active",
             runs' = [runs EXCEPT ![q.run] = Append(@, Event(q))]
      PROVE  RunsTyped' /\ TerminalIsLast' /\ RunsGrow
  <2> DEFINE es == runs[q.run]
  <2>1. q.run \in DOMAIN runs /\ es \in Seq(EventType) /\ Event(q) \in EventType
    BY <1>3 DEF Owns, LedgerInv, RunsTyped, Servable, Event, EventType
  <2>2. /\ DOMAIN runs' = DOMAIN runs /\ runs'[q.run] = Append(es, Event(q))
        /\ \A x \in DOMAIN runs : x # q.run => runs'[x] = runs[x]
    BY <1>3, <2>1
  <2>3. Append(es, Event(q)) \in Seq(EventType) /\ IsPrefix(es, Append(es, Event(q)))
    BY <2>1, PrefixOfAppend
  <2>4. RunsTyped'
    BY <2>2, <2>3 DEF LedgerInv, RunsTyped
  <2>5. RunsGrow
    BY <1>3, <2>2, <2>3, PrefixReflexive DEF LedgerInv, RunsTyped, RunsGrow
  <2>6. \A i \in 1..Len(es) : ~ Terminal(es[i])
    BY <1>3, <2>1, EndedMeans DEF LedgerInv, TerminalIsLast
  <2>7. \A i \in 1..(Len(es) + 1) :
          Terminal(Append(es, Event(q))[i]) => i = Len(es) + 1
    BY <2>1, <2>6
  <2>8. TerminalIsLast'
    BY <2>1, <2>2, <2>7 DEF LedgerInv, TerminalIsLast
  <2> QED BY <2>4, <2>5, <2>8
<1> QED BY <1>1, <1>2, <1>3, AcceptedCases DEF LedgerInv

(* An accepted request is answered with what its run has become up to the  *)
(* event it asked for.                                                     *)
LEMMA ResultFits ==
    ASSUME LedgerInv, NEW q, Servable(q), Refused(q) = "none", runs' = RunsAfter(q)
    PROVE  /\ Result(q).ok = TRUE
           /\ Result(q).run = IF q.op = "begin_run" THEN RunId(q) ELSE q.run
           /\ Result(q).events \in Seq(EventType)
           /\ Result(q).run \in DOMAIN runs' /\ Result(q).run.client = q.client
           /\ IsPrefix(Result(q).events, runs'[Result(q).run])
           /\ q.op \in EventOperations
              => /\ q.seq \in Nat \ {0} /\ Len(Result(q).events) = q.seq
                 /\ Last(Result(q).events) = Event(q)
<1> USE DEF Answer
<1>1. RunsTyped' /\ RunsGrow
  BY AcceptedGrows
<1>2. CASE q.op = "begin_run"
  <2>1. RunId(q) \in DOMAIN runs' /\ Result(q) = Answer(RunId(q), <<>>)
    BY <1>2, AcceptedCases DEF LedgerInv, Put, EventOperations, TerminalOperations
  <2>2. runs'[RunId(q)] \in Seq(EventType) /\ <<>> \in Seq(EventType)
    BY <1>1, <2>1 DEF RunsTyped
  <2>3. IsPrefix(<<>>, runs'[RunId(q)])
    BY <2>2, PrefixBySubSeq DEF IsPrefix
  <2>4. RunId(q).client = q.client
    BY DEF RunId
  <2> QED BY <1>2, <2>1, <2>2, <2>3, <2>4 DEF EventOperations, TerminalOperations
<1>3. CASE q.op = "get_run"
  <2>1. Owns(q, q.run) /\ runs' = runs /\ Result(q) = Answer(q.run, runs[q.run])
    BY <1>3, AcceptedCases DEF LedgerInv, EventOperations, TerminalOperations
  <2>2. runs[q.run] \in Seq(EventType)
    BY <2>1 DEF Owns, LedgerInv, RunsTyped
  <2> QED BY <1>3, <2>1, <2>2, PrefixReflexive
          DEF Owns, EventOperations, TerminalOperations
<1>4. CASE q.op \in EventOperations
  <2> DEFINE es == runs[q.run]
  <2>1. /\ q.op \notin {"begin_run", "get_run"} /\ Owns(q, q.run)
        /\ Result(q) = Answer(q.run, SubSeq(Append(es, Event(q)), 1, q.seq))
        /\ \/ q.seq \in 1..Len(es) /\ es[q.seq] = Event(q) /\ runs' = runs
           \/ /\ q.seq = Len(es) + 1
              /\ runs' = [runs EXCEPT ![q.run] = Append(@, Event(q))]
    BY <1>4, AcceptedCases DEF LedgerInv, EventOperations, TerminalOperations
  <2>2. /\ q.run \in DOMAIN runs /\ es \in Seq(EventType) /\ Event(q) \in EventType
        /\ q.run \in DOMAIN runs' /\ q.run.client = q.client
    BY <1>1, <1>4, <2>1
    DEF Owns, RunsGrow, LedgerInv, RunsTyped, Servable, Event, EventType
  <2> DEFINE long == Append(es, Event(q))
  <2>3. /\ long \in Seq(EventType) /\ Len(long) = Len(es) + 1
        /\ \A i \in 1..Len(es) : long[i] = es[i]
        /\ long[Len(long)] = Event(q) /\ Len(es) \in Nat
    BY <2>2
  <2> HIDE DEF long, es
  <2>4. /\ q.seq \in 1..Len(long) /\ long[q.seq] = Event(q)
        /\ q.seq \in Nat \ {0}
    BY <2>1, <2>3
  <2> DEFINE ans == SubSeq(long, 1, q.seq)
  <2>5. /\ ans \in Seq(EventType) /\ Len(ans) = q.seq
        /\ \A i \in 1..q.seq : ans[i] = long[i]
        /\ IsPrefix(ans, long)
    BY <2>3, <2>4, PrefixBySubSeq
  <2>6. Last(ans) = Event(q)
    BY <2>4, <2>5 DEF Last
  <2>7. IsPrefix(ans, runs'[q.run])
    <3>1. CASE q.seq \in 1..Len(es) /\ runs' = runs
      <4>1. ans = SubSeq(es, 1, q.seq)
        BY <2>2, <2>3, <3>1
      <4>2. IsPrefix(SubSeq(es, 1, q.seq), es)
        BY <2>2, <3>1, PrefixBySubSeq
      <4> QED BY <3>1, <4>1, <4>2 DEF es
    <3>2. CASE runs' = [runs EXCEPT ![q.run] = Append(@, Event(q))]
      <4>1. runs'[q.run] = long
        BY <2>2, <3>2 DEF long, es
      <4> QED BY <2>5, <4>1
    <3> QED BY <2>1, <3>1, <3>2
  <2> HIDE DEF ans
  <2>8. Result(q).run = q.run /\ Result(q).events = ans /\ Result(q).ok = TRUE
    BY <2>1 DEF ans, long
  <2> QED BY <2>1, <2>2, <2>4, <2>5, <2>6, <2>7, <2>8
<1> QED BY <1>2, <1>3, <1>4 DEF Servable, Operations

LEMMA LedgerQuiet ==
    ASSUME LedgerInv, UNCHANGED ledgerVars
    PROVE  LedgerInv' /\ RunsGrow
<1>1. RunsTyped' /\ TerminalIsLast' /\ AnswersBound' /\ AnswersNameRun'
  BY DEF ledgerVars, LedgerInv, RunsTyped, TerminalIsLast, AnswersBound,
     AnswersNameRun
<1>2. AnswersAreHistory'
  BY DEF ledgerVars, LedgerInv, AnswersAreHistory, Owns
<1>3. RunsGrow
  BY PrefixReflexive DEF ledgerVars, LedgerInv, RunsTyped, RunsGrow
<1> QED BY <1>1, <1>2, <1>3 DEF LedgerInv

(* A call of the protocol preserves the ledger's invariant, and runs only  *)
(* grow.                                                                   *)
LEMMA LedgerStep ==
    ASSUME LedgerInv, NEW q, Servable(q), Call(q)
    PROVE  LedgerInv' /\ RunsGrow
<1>1. CASE UNCHANGED ledgerVars
  BY <1>1, LedgerQuiet
<1>2. CASE /\ ~Bound(q) /\ Refused(q) = "none"
           /\ answers' = answers \cup {[req |-> q, answer |-> Result(q)]}
           /\ runs' = RunsAfter(q)
           /\ bindings' = Put(bindings, Binding(q), [req |-> q, answer |-> Result(q)])
  <2> DEFINE new == [req |-> q, answer |-> Result(q)]
  <2>1. RunsTyped' /\ TerminalIsLast' /\ RunsGrow
    BY <1>2, AcceptedGrows
  <2>2. /\ Result(q).ok = TRUE
        /\ Result(q).run = IF q.op = "begin_run" THEN RunId(q) ELSE q.run
        /\ Result(q).events \in Seq(EventType)
        /\ Result(q).run \in DOMAIN runs' /\ Result(q).run.client = q.client
        /\ IsPrefix(Result(q).events, runs'[Result(q).run])
        /\ q.op \in EventOperations
           => /\ q.seq \in Nat \ {0} /\ Len(Result(q).events) = q.seq
              /\ Last(Result(q).events) = Event(q)
    BY <1>2, ResultFits
  <2>3. new.req = q /\ new.answer = Result(q)
    OBVIOUS
  <2>4. answers' = answers \cup {new} /\ bindings' = Put(bindings, Binding(q), new)
    BY <1>2
  <2> HIDE DEF new
  <2>5. AnswersBound'
    <3>1. /\ DOMAIN bindings' = DOMAIN bindings \cup {Binding(q)}
          /\ bindings'[Binding(q)] = new
          /\ \A b \in DOMAIN bindings : b # Binding(q) /\ bindings'[b] = bindings[b]
      BY <1>2, <2>4 DEF Put, Bound
    <3>2. new = [req |-> new.req, answer |-> new.answer]
      BY DEF new
    <3>3. ASSUME NEW a \in answers'
          PROVE  /\ a = [req |-> a.req, answer |-> a.answer] /\ a.answer.ok = TRUE
                 /\ Binding(a.req) \in DOMAIN bindings'
                 /\ bindings'[Binding(a.req)] = a
      BY <2>2, <2>3, <2>4, <3>1, <3>2 DEF LedgerInv, AnswersBound
    <3>4. \A b \in DOMAIN bindings' :
             bindings'[b] \in answers' /\ Binding(bindings'[b].req) = b
      BY <2>3, <2>4, <3>1 DEF LedgerInv, AnswersBound
    <3> QED BY <3>3, <3>4 DEF AnswersBound, Binding
  <2>6. AnswersNameRun'
    BY <2>2, <2>3, <2>4 DEF LedgerInv, AnswersNameRun
  <2>7. AnswersAreHistory'
    <3>1. ASSUME NEW a \in answers
          PROVE  /\ Owns(a.req, a.answer.run)'
                 /\ IsPrefix(a.answer.events, runs'[a.answer.run])
                 /\ a.req.op \in EventOperations
                    => /\ Len(a.answer.events) = a.req.seq
                       /\ Last(a.answer.events) = Event(a.req)
      <4>1. /\ Owns(a.req, a.answer.run)
            /\ IsPrefix(a.answer.events, runs[a.answer.run])
            /\ a.answer.events \in Seq(EventType)
        BY DEF LedgerInv, AnswersAreHistory, AnswersNameRun
      <4>2. /\ a.answer.run \in DOMAIN runs /\ a.answer.run \in DOMAIN runs'
            /\ IsPrefix(runs[a.answer.run], runs'[a.answer.run])
        BY <2>1, <4>1 DEF Owns, RunsGrow
      <4>3. /\ runs[a.answer.run] \in Seq(EventType)
            /\ runs'[a.answer.run] \in Seq(EventType)
        BY <2>1, <4>2 DEF LedgerInv, RunsTyped
      <4>4. IsPrefix(a.answer.events, runs'[a.answer.run])
        BY <4>1, <4>2, <4>3, PrefixTransitive
      <4> QED BY <4>1, <4>2, <4>4 DEF LedgerInv, AnswersAreHistory, Owns
    <3> QED BY <2>2, <2>3, <2>4, <3>1 DEF AnswersAreHistory, Owns, Event
  <2> QED BY <2>1, <2>5, <2>6, <2>7 DEF LedgerInv
<1> QED BY <1>1, <1>2, CallCases DEF LedgerInv

(* What an accepted call leaves: the run it begins, or the event it names. *)
LEMMA AcceptedMeans ==
    ASSUME LedgerInv, NEW q, Servable(q), Call(q), Reply(q).ok = TRUE
    PROVE  /\ q.op = "begin_run" => RunId(q) \in DOMAIN runs'
           /\ q.op \in EventOperations
              => /\ q.run \in DOMAIN runs' /\ q.seq \in 1..Len(runs'[q.run])
                 /\ runs'[q.run][q.seq] = Event(q)
<1>1. [req |-> q, answer |-> Reply(q)] \in answers'
  BY CallCases DEF LedgerInv, ledgerVars
<1> DEFINE a == [req |-> q, answer |-> Reply(q)]
<1>2. a \in answers' /\ a.req = q
  BY <1>1
<1> HIDE DEF a
<1>3. LedgerInv'
  BY LedgerStep
<1>4. /\ a.answer.run = IF q.op = "begin_run" THEN RunId(q) ELSE q.run
      /\ a.answer.events \in Seq(EventType)
      /\ q.op \in EventOperations => q.seq \in Nat \ {0}
  BY <1>2, <1>3 DEF LedgerInv, AnswersNameRun
<1>5. /\ a.answer.run \in DOMAIN runs'
      /\ IsPrefix(a.answer.events, runs'[a.answer.run])
      /\ q.op \in EventOperations
         => Len(a.answer.events) = q.seq /\ Last(a.answer.events) = Event(q)
  BY <1>2, <1>3 DEF LedgerInv, AnswersAreHistory, Owns
<1>6. CASE q.op \in EventOperations
  <2>1. q.op # "begin_run" /\ a.answer.run = q.run
    BY <1>4, <1>6 DEF EventOperations, TerminalOperations
  <2>2. runs'[q.run] \in Seq(EventType)
    BY <1>3, <1>5, <2>1 DEF LedgerInv, RunsTyped
  <2>3. /\ Len(a.answer.events) <= Len(runs'[q.run])
        /\ \A i \in 1..Len(a.answer.events) : a.answer.events[i] = runs'[q.run][i]
    BY <1>4, <1>5, <2>1, <2>2, PrefixElements
  <2> QED BY <1>4, <1>5, <1>6, <2>1, <2>2, <2>3 DEF Last
<1>7. CASE q.op = "begin_run"
  BY <1>4, <1>5, <1>7 DEF EventOperations, TerminalOperations
<1> QED BY <1>6, <1>7

(* The transition of one run that a call makes: it begins, or gets one     *)
(* event and had no terminal one.                                          *)
LEMMA LedgerRefines ==
    ASSUME LedgerInv, NEW q, Servable(q), Call(q)
    PROVE  History!Next \/ UNCHANGED runs
<1>1. CASE UNCHANGED ledgerVars
  BY <1>1 DEF ledgerVars
<1>2. CASE Refused(q) = "none" /\ runs' = RunsAfter(q)
  <2>1. CASE runs' = runs
    BY <2>1
  <2>2. CASE RunId(q) \notin DOMAIN runs /\ runs' = Put(runs, RunId(q), <<>>)
    <3>1. runs' = [s \in DOMAIN runs \cup {RunId(q)} |->
                     IF s = RunId(q) THEN <<>> ELSE runs[s]]
      BY <2>2 DEF Put
    <3>2. RunId(q) \in History!NewRuns
      BY <2>2, <3>1 DEF History!NewRuns
    <3>3. History!BeginRun(RunId(q))
      BY <2>2, <3>1 DEF History!BeginRun
    <3> QED BY <3>2, <3>3 DEF History!Next
  <2>3. CASE /\ Owns(q, q.run) /\ q.op \in EventOperations
             /\ StateFor(runs[q.run]) = "active"
             /\ runs' = [runs EXCEPT ![q.run] = Append(@, Event(q))]
    <3>1. /\ q.run \in DOMAIN runs /\ runs[q.run] \in Seq(EventType)
          /\ Event(q) \in EventType
      BY <2>3 DEF Owns, LedgerInv, RunsTyped, Servable, Event, EventType
    <3>2. runs'[q.run] = Append(runs[q.run], Event(q))
      BY <2>3, <3>1
    <3>3. /\ Len(runs'[q.run]) = Len(runs[q.run]) + 1
          /\ Len(runs'[q.run]) > Len(runs[q.run])
          /\ runs'[q.run][Len(runs'[q.run])] = Event(q)
      BY <3>1, <3>2
    <3>4. \A i \in 1..Len(runs[q.run]) : ~ Terminal(runs[q.run][i])
      BY <2>3, <3>1, EndedMeans DEF LedgerInv, TerminalIsLast
    <3>5. ~ History!Closed(q.run)
      BY <3>1, <3>4 DEF History!Closed
    <3>6. History!AppendEvent(q.run, History!NewEvent(q.run))
      BY <2>3, <3>3, <3>5 DEF History!AppendEvent, History!NewEvent
    <3> QED BY <3>1, <3>3, <3>6 DEF History!Next
  <2> QED BY <1>2, <2>1, <2>2, <2>3, AcceptedCases DEF LedgerInv
<1> QED BY <1>1, <1>2, CallCases DEF LedgerInv

-----------------------------------------------------------------------------
(* The callers.                                                            *)

LEMMA InitIInv == CommandInit => IInv
<1> SUFFICES ASSUME CommandInit PROVE IInv
  OBVIOUS
<1> USE DEF CommandInit, LedgerInit
<1>1. RunsTyped /\ TerminalIsLast
  <2>1. ASSUME NEW r \in LegacyRuns
        PROVE  /\ runs[r] \in Seq(EventType) /\ Len(runs[r]) = 1
               /\ runs[r][1].op = "observe_input"
    <3>1. [seq |-> 1, op |-> "observe_input", payload |-> r.payload] \in EventType
      BY DEF EventType, EventOperations, Payloads
    <3> QED BY <3>1
  <2>2. RunsTyped
    BY <2>1 DEF RunsTyped
  <2>3. TerminalIsLast
    BY <2>1 DEF TerminalIsLast, Terminal, TerminalOperations
  <2> QED BY <2>2, <2>3
<1>2. AnswersBound /\ AnswersNameRun /\ AnswersAreHistory
  BY DEF AnswersBound, AnswersNameRun, AnswersAreHistory
<1>3. TypeOK
  <2>1. NoJob \in Job
    BY DEF NoJob, Job, Recordable
  <2>2. job \in [Callers -> Job] /\ pc \in [Callers -> PC]
    BY <2>1 DEF PC
  <2>3. ran \in [Processes -> [Commands -> 0..MaxRuns]]
    OBVIOUS
  <2> QED BY <1>1, <2>2, <2>3 DEF TypeOK, RunsTyped, EventType
<1>4. CallFits
  BY DEF CallFits, CallFit, Locked
<1>5. RanFits /\ ReceiptsFit /\ AttributedToOwnRun
  BY DEF RanFits, ReceiptsFit, AttributedToOwnRun
<1> QED BY <1>1, <1>2, <1>3, <1>4, <1>5 DEF IInv, LedgerInv

LEMMA RequestsServable ==
    /\ \A q \in Requests : Servable(q)
    /\ \A cmd \in Commands :
          Servable(BeginRequest(cmd)) /\ Servable(IntentRequest(cmd))
    /\ \A cmd \in Commands, o \in Observations : Servable(TerminalRequest(cmd, o))
<1> USE DEF Servable, Operations, EventOperations, TerminalOperations, Payloads
<1>1. \A q \in Requests : Servable(q)
  BY RequestsFit
<1>2. \A cmd \in Commands :
        Servable(BeginRequest(cmd)) /\ Servable(IntentRequest(cmd))
  BY DEF BeginRequest, IntentRequest, Request
<1>3. \A cmd \in Commands, o \in Observations : Servable(TerminalRequest(cmd, o))
  BY DEF TerminalRequest, Request
<1> QED BY <1>1, <1>2, <1>3

(* While runs grow, what a run had stays there.                            *)
LEMMA GrowthKeeps ==
    ASSUME RunsTyped, RunsTyped', RunsGrow, NEW r \in DOMAIN runs
    PROVE  /\ r \in DOMAIN runs'
           /\ runs[r] # <<>> => runs'[r] # <<>>
           /\ StateFor(runs[r]) # "active" => runs'[r] = runs[r]
<1>1. runs[r] \in Seq(EventType) /\ runs'[r] \in Seq(EventType) /\ r \in DOMAIN runs'
  BY DEF RunsTyped, RunsGrow
<1>2. Len(runs[r]) <= Len(runs'[r])
  BY <1>1, PrefixElements DEF RunsGrow
<1> QED BY <1>1, <1>2 DEF RunsGrow

(* A call keeps what it has established while others work: it holds its    *)
(* lock, and only the holder of a process's lock runs commands there.      *)
LEMMA CallFitKept ==
    ASSUME IInv, RunsTyped', RunsGrow, NEW d \in Callers,
           pc'[d] = pc[d], job'[d] = job[d],
           pc[d] \in Locked => /\ lock'[job[d].at] = lock[job[d].at]
                               /\ ran'[job[d].at] = ran[job[d].at]
    PROVE  CallFit(d)'
<1> DEFINE r == CommandRun(job[d].cmd)
<1>1. CallFit(d) /\ RunsTyped
  BY DEF IInv, CallFits, LedgerInv
<1>2. r \in DOMAIN runs =>
         /\ r \in DOMAIN runs'
         /\ runs[r] # <<>> => runs'[r] # <<>>
         /\ StateFor(runs[r]) # "active" => runs'[r] = runs[r]
  BY <1>1, GrowthKeeps
<1>3. CommandRun(job'[d].cmd) = r
  OBVIOUS
<1> HIDE DEF r
<1>4. /\ Exists(d) <=> r \in DOMAIN runs
      /\ Exists(d)' <=> r \in DOMAIN runs'
      /\ Events(d) = runs[r] /\ Events(d)' = runs'[r]
  BY <1>3 DEF Exists, Events, r
<1>5. /\ pc'[d] # "idle" => job'[d].at \in Processes /\ job'[d].cmd \in Commands
      /\ pc'[d] \in Locked => lock'[job'[d].at] = d
      /\ pc'[d] \in {"intent", "run"} => ran'[job'[d].at][job'[d].cmd] = 0
      /\ pc'[d] \in {"intent", "run", "terminal", "reload"} => job'[d].inputs = "captured"
      /\ pc'[d] = "terminal" => job'[d].process \in Observations
      /\ pc'[d] \in {"terminal", "reload"} => job'[d].own = TRUE
  BY <1>1 DEF CallFit, Locked
<1>6. /\ pc'[d] \in (Locked \ {"begin"}) \cup {"outputs"} => Exists(d)'
      /\ pc'[d] \in {"run", "terminal", "reload"} => Events(d)' # <<>>
      /\ pc'[d] \in {"reload", "outputs"} => Events(d)' = Events(d)
      /\ pc'[d] \in {"reload", "outputs"} => StateFor(Events(d)') # "active"
  BY <1>1, <1>2, <1>4 DEF CallFit, Locked
<1>7. pc'[d] \in {"lock", "begin", "load"} /\ job'[d].inputs # "captured"
      => PreventsExecution(d)'
  BY <1>1, <1>2, <1>4 DEF CallFit, PreventsExecution
<1>8. pc'[d] = "outputs" =>
          /\ job'[d].process = RecordedProcess(Events(d)')
          /\ job'[d].replayed = FALSE => job'[d].own = TRUE /\ job'[d].inputs = "captured"
  BY <1>1, <1>6 DEF CallFit
<1> QED BY <1>5, <1>6, <1>7, <1>8 DEF CallFit

LEMMA RecordsKept ==
    ASSUME IInv, RunsTyped', RunsGrow
    PROVE  /\ ran' = ran => RanFits'
           /\ receipts' = receipts => ReceiptsFit' /\ AttributedToOwnRun'
<1>1. RunsTyped
  BY DEF IInv, LedgerInv
<1>2. ASSUME ran' = ran PROVE RanFits'
  BY <1>1, <1>2, GrowthKeeps DEF IInv, RanFits
<1>3. ASSUME receipts' = receipts PROVE ReceiptsFit'
  BY <1>1, <1>3, GrowthKeeps DEF IInv, ReceiptsFit
<1>4. ASSUME receipts' = receipts PROVE AttributedToOwnRun'
  BY <1>4 DEF IInv, AttributedToOwnRun
<1> QED BY <1>2, <1>3, <1>4

(* A step of caller c: the other calls are where they were, and c takes or *)
(* gives back no lock but its own.                                         *)
LEMMA CallerMoves ==
    ASSUME IInv, NEW c \in Callers, LedgerInv', RunsGrow, TypeOK', CallFit(c)',
           \A d \in Callers : d # c => pc'[d] = pc[d] /\ job'[d] = job[d],
           \A p \in Processes : lock[p] \notin {c, None} =>
               lock'[p] = lock[p] /\ ran'[p] = ran[p],
           RanFits', ReceiptsFit', AttributedToOwnRun'
    PROVE  IInv'
<1>1. ASSUME NEW d \in Callers, d # c PROVE CallFit(d)'
  <2>1. CallFit(d)
    BY DEF IInv, CallFits
  <2>2. pc[d] \in Locked => /\ job[d].at \in Processes
                           /\ lock[job[d].at] = d
    BY <2>1 DEF CallFit, Locked
  <2> QED BY <1>1, <2>2, CallFitKept DEF LedgerInv
<1>2. CallFits'
  BY <1>1 DEF CallFits
<1> QED BY <1>2 DEF IInv

(* A step of caller c that runs no command and returns no receipt.         *)
LEMMA QuietMove ==
    ASSUME IInv, NEW c \in Callers, LedgerInv', RunsGrow, CallFit(c)',
           NEW label \in PC, Goto(c, label),
           job' \in [Callers -> Job], \A d \in Callers : d # c => job'[d] = job[d],
           lock' = lock \/ Release(c), UNCHANGED <<ran, receipts>>
    PROVE  IInv'
<1>1. lock' \in [Processes -> Callers \cup {None}]
  BY DEF IInv, TypeOK, Release
<1>2. pc' \in [Callers -> PC] /\ \A d \in Callers : d # c => pc'[d] = pc[d]
  BY DEF IInv, TypeOK, Goto
<1>3. TypeOK'
  BY <1>1, <1>2 DEF IInv, TypeOK, LedgerInv, RunsTyped, EventType
<1>4. \A p \in Processes : lock[p] \notin {c, None} => lock'[p] = lock[p]
  BY DEF Release
<1>5. RanFits' /\ ReceiptsFit' /\ AttributedToOwnRun'
  BY RecordsKept DEF LedgerInv
<1> QED BY <1>2, <1>3, <1>4, <1>5, CallerMoves

(* A call that raises.                                                     *)
LEMMA FailStep ==
    ASSUME IInv, NEW c \in Callers, LedgerInv', RunsGrow,
           Fail(c), UNCHANGED <<ran, receipts>>
    PROVE  IInv'
<1>1. NoJob \in Job /\ "idle" \in PC
  BY DEF NoJob, Job, Recordable, PC
<1>2. job' \in [Callers -> Job] /\ \A d \in Callers : d # c => job'[d] = job[d]
  BY <1>1 DEF IInv, TypeOK, Fail
<1>3. pc'[c] = "idle"
  BY DEF IInv, TypeOK, Fail, Goto
<1>4. CallFit(c)'
  BY <1>3 DEF CallFit, Locked
<1> QED BY <1>1, <1>2, <1>4, QuietMove DEF Fail

(* A call that goes on with the local variables it has.                    *)
LEMMA GoOnStep ==
    ASSUME IInv, NEW c \in Callers, LedgerInv', RunsGrow, CallFit(c)',
           NEW label \in PC, Goto(c, label),
           lock' = lock \/ Release(c), UNCHANGED <<job, ran, receipts>>
    PROVE  IInv'
<1>1. job' \in [Callers -> Job]
  BY DEF IInv, TypeOK
<1> QED BY <1>1, QuietMove

LEMMA StartStep ==
    ASSUME IInv, NEW c \in Callers, NEW p \in Processes, NEW cmd \in Commands,
           Start(c, p, cmd)
    PROVE  IInv'
<1>1. LedgerInv' /\ RunsGrow
  BY LedgerQuiet DEF Start, IInv
<1>2. job \in [Callers -> Job] /\ job[c] \in Job
  BY DEF IInv, TypeOK
<1>3. job' = [job EXCEPT ![c] = [job[c] EXCEPT !.at = p, !.cmd = cmd]]
  BY <1>2 DEF Start, Job
<1>4. job' \in [Callers -> Job] /\ \A d \in Callers : d # c => job'[d] = job[d]
  BY <1>2, <1>3 DEF Job
<1>5. pc'[c] = "probe" /\ job'[c].at = p /\ job'[c].cmd = cmd
  BY <1>2, <1>3 DEF IInv, TypeOK, Start, Goto, Job
<1>6. CallFit(c)'
  BY <1>5 DEF CallFit, Locked
<1>7. "probe" \in PC
  BY DEF PC
<1> QED BY <1>1, <1>4, <1>6, <1>7, QuietMove DEF Start

(* What the probe sees is still so when the service is called.             *)
LEMMA ProbeStep ==
    ASSUME IInv, NEW c \in Callers, Probe(c)
    PROVE  IInv'
<1>1. LedgerInv' /\ RunsGrow
  BY LedgerQuiet DEF Probe, IInv
<1>2. "lock" \in PC /\ "inputs" \in PC
  BY DEF PC
<1>3. CallFit(c) /\ pc[c] = "probe"
  BY DEF IInv, CallFits, Probe
<1>4. CASE PreventsExecution(c)
  <2>1. job \in [Callers -> Job] /\ job[c] \in Job
    BY DEF IInv, TypeOK
  <2>2. job' = [job EXCEPT ![c].inputs = "not_read"] /\ Goto(c, "lock")
        /\ UNCHANGED <<ledgerVars, lock, ran, receipts>>
    BY <1>4 DEF Probe
  <2>3. /\ job' \in [Callers -> Job] /\ \A d \in Callers : d # c => job'[d] = job[d]
        /\ job'[c].cmd = job[c].cmd /\ job'[c].at = job[c].at
    BY <2>1, <2>2 DEF Job
  <2>4. pc'[c] = "lock"
    BY <2>2 DEF IInv, TypeOK, Goto
  <2>5. PreventsExecution(c)'
    BY <1>4, <2>2, <2>3 DEF PreventsExecution, Exists, Events, ledgerVars
  <2>6. CallFit(c)'
    BY <1>3, <2>3, <2>4, <2>5 DEF CallFit, Locked
  <2> QED BY <1>1, <1>2, <2>2, <2>3, <2>6, QuietMove
<1>5. CASE ~PreventsExecution(c)
  <2>1. Goto(c, "inputs") /\ UNCHANGED <<ledgerVars, job, lock, ran, receipts>>
    BY <1>5 DEF Probe
  <2>2. pc'[c] = "inputs" /\ job'[c] = job[c]
    BY <2>1 DEF IInv, TypeOK, Goto
  <2>3. CallFit(c)'
    BY <1>3, <2>2 DEF CallFit, Locked
  <2> QED BY <1>1, <1>2, <2>1, <2>3, GoOnStep
<1> QED BY <1>4, <1>5

LEMMA CaptureInputsStep ==
    ASSUME IInv, NEW c \in Callers, CaptureInputs(c)
    PROVE  IInv'
<1>1. LedgerInv' /\ RunsGrow
  BY LedgerQuiet DEF CaptureInputs, IInv
<1>2. CallFit(c) /\ pc[c] = "inputs"
  BY DEF IInv, CallFits, CaptureInputs
<1>3. PICK seen \in {"captured", "missing"} :
         /\ job' = [job EXCEPT ![c].inputs = seen]
         /\ Goto(c, IF seen = "captured" THEN "lock" ELSE "probe_again")
  BY DEF CaptureInputs
<1> DEFINE label == IF seen = "captured" THEN "lock" ELSE "probe_again"
<1>4. label \in PC /\ Goto(c, label)
  BY <1>3 DEF PC
<1>5. job \in [Callers -> Job] /\ job[c] \in Job
  BY DEF IInv, TypeOK
<1>6. /\ job' \in [Callers -> Job] /\ \A d \in Callers : d # c => job'[d] = job[d]
      /\ job'[c].cmd = job[c].cmd /\ job'[c].at = job[c].at /\ job'[c].inputs = seen
  BY <1>3, <1>5 DEF Job
<1>7. pc'[c] = label
  BY <1>3 DEF IInv, TypeOK, Goto
<1>8. CallFit(c)'
  BY <1>2, <1>6, <1>7 DEF CallFit, Locked
<1> QED BY <1>1, <1>4, <1>6, <1>8, QuietMove DEF CaptureInputs

LEMMA ProbeAgainStep ==
    ASSUME IInv, NEW c \in Callers, ProbeAgain(c)
    PROVE  IInv'
<1>1. LedgerInv' /\ RunsGrow
  BY LedgerQuiet DEF ProbeAgain, IInv
<1>2. CallFit(c) /\ pc[c] = "probe_again"
  BY DEF IInv, CallFits, ProbeAgain
<1>3. CASE PreventsExecution(c)
  <2>1. Goto(c, "lock") /\ UNCHANGED <<ledgerVars, job, lock, ran, receipts>>
    BY <1>3 DEF ProbeAgain
  <2>2. pc'[c] = "lock" /\ job'[c] = job[c] /\ "lock" \in PC
    BY <2>1 DEF IInv, TypeOK, Goto, PC
  <2>3. PreventsExecution(c)'
    BY <1>3, <2>1 DEF PreventsExecution, Exists, Events, ledgerVars
  <2>4. CallFit(c)'
    BY <1>2, <2>2, <2>3 DEF CallFit, Locked
  <2> QED BY <1>1, <2>1, <2>2, <2>4, GoOnStep
<1>4. CASE ~PreventsExecution(c)
  BY <1>1, <1>4, FailStep DEF ProbeAgain
<1> QED BY <1>3, <1>4

LEMMA LockStep ==
    ASSUME IInv, NEW c \in Callers, Lock(c)
    PROVE  IInv'
<1>1. LedgerInv' /\ RunsGrow
  BY LedgerQuiet DEF Lock, IInv
<1>2. CallFit(c) /\ pc[c] = "lock" /\ job[c].at \in Processes
  BY DEF IInv, CallFits, Lock, CallFit
<1>3. pc'[c] = "begin" /\ \A d \in Callers : d # c => pc'[d] = pc[d]
  BY DEF IInv, TypeOK, Lock, Goto
<1>4. /\ lock' = [lock EXCEPT ![job[c].at] = c] /\ lock[job[c].at] = None
      /\ UNCHANGED <<ledgerVars, job, ran, receipts>>
  BY DEF Lock
<1>5. /\ lock'[job[c].at] = c
      /\ \A p \in Processes : lock[p] # None => lock'[p] = lock[p]
  BY <1>2, <1>4 DEF IInv, TypeOK
<1>6. CallFit(c)'
  <2>1. PreventsExecution(c)' <=> PreventsExecution(c)
    BY <1>4 DEF PreventsExecution, Exists, Events, ledgerVars
  <2> QED BY <1>2, <1>3, <1>4, <1>5, <2>1 DEF CallFit, Locked
<1>7. TypeOK'
  <2>1. "begin" \in PC
    BY DEF PC
  <2>2. pc' \in [Callers -> PC] /\ lock' \in [Processes -> Callers \cup {None}]
    BY <1>4, <2>1 DEF IInv, TypeOK, Lock, Goto
  <2> QED BY <1>4, <2>2 DEF IInv, TypeOK, ledgerVars
<1>8. RanFits' /\ ReceiptsFit' /\ AttributedToOwnRun'
  BY <1>1, <1>4, RecordsKept DEF LedgerInv
<1> QED BY <1>1, <1>3, <1>4, <1>5, <1>6, <1>7, <1>8, CallerMoves

(* The run exists once the service has begun it.                           *)
LEMMA BeginRunStep ==
    ASSUME IInv, NEW c \in Callers, BeginRun(c)
    PROVE  IInv'
<1> DEFINE q == BeginRequest(job[c].cmd)
<1>1. CallFit(c) /\ pc[c] = "begin" /\ job[c].cmd \in Commands
  BY DEF IInv, CallFits, BeginRun, CallFit
<1>2. Servable(q) /\ Call(q) /\ UNCHANGED <<ran, receipts>>
  BY <1>1, RequestsServable DEF BeginRun, Protocol
<1>3. LedgerInv' /\ RunsGrow
  BY <1>2, LedgerStep DEF IInv
<1>4. CASE ~ Reply(q).ok
  BY <1>2, <1>3, <1>4, FailStep DEF BeginRun, Protocol
<1>5. CASE Reply(q).ok
  <2>1. Goto(c, "load") /\ UNCHANGED <<job, lock>> /\ "load" \in PC
    BY <1>5 DEF BeginRun, Protocol, PC
  <2>2. pc'[c] = "load"
    BY <2>1 DEF IInv, TypeOK, Goto
  <2>3. Reply(q).ok = TRUE
    <3>1. Reply(q).ok \in BOOLEAN
      BY DEF Reply, Refusal, Result, Answer, IInv, LedgerInv, AnswersBound, Bound
    <3> QED BY <1>5, <3>1
  <2>4. CommandRun(job[c].cmd) \in DOMAIN runs'
    <3>1. q.op = "begin_run" /\ RunId(q) = CommandRun(job[c].cmd)
      BY DEF BeginRequest, Request, CommandRun
    <3> QED BY <1>2, <2>3, <3>1, AcceptedMeans DEF IInv
  <2>5. Exists(c)'
    BY <2>1, <2>4 DEF Exists
  <2>6. job[c].inputs # "captured" => PreventsExecution(c)'
    <3>1. ASSUME job[c].inputs # "captured" PROVE PreventsExecution(c)'
      <4>1. Exists(c) /\ Events(c) # <<>>
        BY <1>1, <3>1 DEF CallFit, PreventsExecution
      <4>2. Events(c)' # <<>>
        BY <1>3, <2>1, <4>1, GrowthKeeps DEF IInv, LedgerInv, Exists, Events
      <4> QED BY <2>5, <4>2 DEF PreventsExecution
    <3> QED BY <3>1
  <2>7. CallFit(c)'
    BY <1>1, <2>1, <2>2, <2>5, <2>6 DEF CallFit, Locked
  <2> QED BY <1>2, <1>3, <2>1, <2>7, GoOnStep
<1> QED BY <1>4, <1>5

(* An answer is built from the terminal event; a replay claims nothing.    *)
LEMMA CompleteStep ==
    ASSUME IInv, NEW c \in Callers, NEW replayed \in BOOLEAN, Complete(c, replayed),
           pc[c] \in {"load", "reload"}, StateFor(Events(c)) # "active",
           replayed = FALSE => pc[c] = "reload",
           UNCHANGED <<ledgerVars, ran, receipts>>
    PROVE  IInv'
<1>1. LedgerInv' /\ RunsGrow
  BY LedgerQuiet DEF IInv
<1>2. CASE RecordedProcess(Events(c)) = None
  BY <1>1, <1>2, FailStep DEF Complete
<1>3. CASE RecordedProcess(Events(c)) # None
  <2> DEFINE found == RecordedProcess(Events(c))
  <2>1. CallFit(c) /\ Exists(c)
    BY DEF IInv, CallFits, CallFit, Locked
  <2>2. found \in Recordable
    <3>1. Events(c) \in Seq(EventType) /\ Events(c) # <<>>
      BY <2>1, EndedMeans DEF IInv, LedgerInv, RunsTyped, Exists, Events
    <3>2. Last(Events(c)) \in EventType
      BY <3>1 DEF Last
    <3> QED BY <1>3, <3>2 DEF RecordedProcess, EventType, Recordable
  <2>3. job \in [Callers -> Job] /\ job[c] \in Job
    BY DEF IInv, TypeOK
  <2> HIDE DEF found
  <2>4. job' = [job EXCEPT ![c] = [job[c] EXCEPT !.process = found,
                                                 !.replayed = replayed]]
    BY <1>3, <2>3 DEF Complete, Job, found
  <2>5. Goto(c, "outputs") /\ Release(c) /\ "outputs" \in PC
    BY <1>3 DEF Complete, PC
  <2>6. /\ job' \in [Callers -> Job] /\ \A d \in Callers : d # c => job'[d] = job[d]
        /\ job'[c].cmd = job[c].cmd /\ job'[c].at = job[c].at
        /\ job'[c].process = found /\ job'[c].replayed = replayed
        /\ job'[c].own = job[c].own /\ job'[c].inputs = job[c].inputs
    BY <2>2, <2>3, <2>4 DEF Job
  <2>7. pc'[c] = "outputs"
    BY <2>5 DEF IInv, TypeOK, Goto
  <2>8. Exists(c)' /\ Events(c)' = Events(c)
    BY <2>1, <2>6 DEF Exists, Events, ledgerVars
  <2>9. CallFit(c)'
    BY <2>1, <2>6, <2>7, <2>8 DEF CallFit, Locked, found
  <2> QED BY <1>1, <2>5, <2>6, <2>9, QuietMove
<1> QED BY <1>2, <1>3

(* The intent is committed only for a run without events, and then no      *)
(* process may have run the command under it.                              *)
LEMMA LoadRunStep ==
    ASSUME IInv, NEW c \in Callers, LoadRun(c)
    PROVE  IInv'
<1>1. LedgerInv' /\ RunsGrow
  BY LedgerQuiet DEF LoadRun, IInv
<1>2. CallFit(c) /\ pc[c] = "load" /\ Exists(c)
  BY DEF IInv, CallFits, LoadRun, CallFit, Locked
<1>3. CASE StateFor(Events(c)) # "active"
  BY <1>2, <1>3, CompleteStep DEF LoadRun
<1>4. CASE StateFor(Events(c)) = "active" /\ Events(c) # <<>>
  BY <1>1, <1>4, FailStep DEF LoadRun
<1>5. CASE StateFor(Events(c)) = "active" /\ Events(c) = <<>>
  <2>1. /\ Goto(c, "intent") /\ UNCHANGED <<ledgerVars, job, lock, ran, receipts>>
        /\ "intent" \in PC
    BY <1>5 DEF LoadRun, PC
  <2>2. pc'[c] = "intent"
    BY <2>1 DEF IInv, TypeOK, Goto
  <2>3. job[c].inputs = "captured"
    BY <1>2, <1>5 DEF CallFit, PreventsExecution
  <2>4. ran[job[c].at][job[c].cmd] = 0
    BY <1>2, <1>5 DEF IInv, RanFits, CallFit, Events
  <2>5. Exists(c)'
    BY <1>2, <2>1 DEF Exists, ledgerVars
  <2>6. CallFit(c)'
    BY <1>2, <2>1, <2>2, <2>3, <2>4, <2>5 DEF CallFit, Locked
  <2> QED BY <1>1, <2>1, <2>6, GoOnStep
<1> QED BY <1>3, <1>4, <1>5

(* Replies say whether they are answers.                                   *)
LEMMA ReplyBoolean ==
    ASSUME AnswersBound, NEW q
    PROVE  Reply(q).ok \in BOOLEAN
BY DEF Reply, Refusal, Result, Answer, AnswersBound, Bound

(* The intent is in the run before the command runs.                       *)
LEMMA CommitIntentStep ==
    ASSUME IInv, NEW c \in Callers, CommitIntent(c)
    PROVE  IInv'
<1> DEFINE q == IntentRequest(job[c].cmd)
<1>1. CallFit(c) /\ pc[c] = "intent" /\ job[c].cmd \in Commands
  BY DEF IInv, CallFits, CommitIntent, CallFit
<1>2. Servable(q) /\ Call(q) /\ UNCHANGED <<ran, receipts>>
  BY <1>1, RequestsServable DEF CommitIntent, Protocol
<1>3. LedgerInv' /\ RunsGrow
  BY <1>2, LedgerStep DEF IInv
<1>4. CASE ~ Reply(q).ok
  BY <1>2, <1>3, <1>4, FailStep DEF CommitIntent, Protocol
<1>5. CASE Reply(q).ok
  <2>1. Goto(c, "run") /\ UNCHANGED <<job, lock>> /\ "run" \in PC
    BY <1>5 DEF CommitIntent, Protocol, PC
  <2>2. pc'[c] = "run"
    BY <2>1 DEF IInv, TypeOK, Goto
  <2>3. Reply(q).ok = TRUE
    BY <1>5, ReplyBoolean DEF IInv, LedgerInv
  <2>4. q.op \in EventOperations /\ q.run = CommandRun(job[c].cmd) /\ q.seq = 1
    BY DEF IntentRequest, Request, EventOperations
  <2>5. q.run \in DOMAIN runs' /\ q.seq \in 1..Len(runs'[q.run])
    BY <1>2, <2>3, <2>4, AcceptedMeans DEF IInv
  <2>6. runs'[q.run] # <<>>
    BY <2>4, <2>5
  <2>7. Exists(c)' /\ Events(c)' # <<>>
    BY <2>1, <2>4, <2>5, <2>6 DEF Exists, Events
  <2>8. CallFit(c)'
    BY <1>1, <1>2, <2>1, <2>2, <2>7 DEF CallFit, Locked
  <2> QED BY <1>2, <1>3, <2>1, <2>8, GoOnStep
<1> QED BY <1>4, <1>5

(* Under the lock and after the intent, this is the first run of the       *)
(* command in this process.                                                *)
LEMMA RunProcessStep ==
    ASSUME IInv, NEW c \in Callers, RunProcess(c)
    PROVE  IInv'
<1> DEFINE p == job[c].at
           cmd == job[c].cmd
<1>1. LedgerInv' /\ RunsGrow
  BY LedgerQuiet DEF RunProcess, IInv
<1>2. CallFit(c) /\ pc[c] = "run" /\ p \in Processes /\ cmd \in Commands
  BY DEF IInv, CallFits, RunProcess, CallFit
<1>3. PICK o \in Observations :
        job' = [job EXCEPT ![c].process = o, ![c].own = TRUE]
  BY DEF RunProcess
<1>4. /\ Goto(c, "terminal") /\ ran[p][cmd] < MaxRuns
      /\ ran' = [ran EXCEPT ![p][cmd] = @ + 1]
      /\ UNCHANGED <<ledgerVars, lock, receipts>>
  BY DEF RunProcess
<1>5. /\ lock[p] = c /\ ran[p][cmd] = 0 /\ Exists(c) /\ Events(c) # <<>>
      /\ job[c].inputs = "captured"
  BY <1>2 DEF CallFit, Locked
<1>6. job \in [Callers -> Job] /\ job[c] \in Job /\ o \in Recordable
  <2>1. <<o>> \in Payloads /\ <<o>>[1] = o
    BY DEF Payloads
  <2> QED BY <2>1 DEF IInv, TypeOK, Recordable
<1>7. job' = [job EXCEPT ![c] = [job[c] EXCEPT !.process = o, !.own = TRUE]]
  BY <1>3, <1>6 DEF Job
<1>8. /\ job' \in [Callers -> Job] /\ \A d \in Callers : d # c => job'[d] = job[d]
      /\ job'[c].cmd = cmd /\ job'[c].at = p /\ job'[c].inputs = job[c].inputs
      /\ job'[c].process = o /\ job'[c].own = TRUE
  BY <1>6, <1>7 DEF Job
<1> HIDE DEF p, cmd
<1>9. /\ pc' \in [Callers -> PC] /\ pc'[c] = "terminal"
      /\ \A d \in Callers : d # c => pc'[d] = pc[d]
  BY <1>4 DEF IInv, TypeOK, Goto, PC
<1>10. /\ ran' \in [Processes -> [Commands -> 0..MaxRuns]] /\ ran'[p][cmd] = 1
       /\ \A x \in Processes, y \in Commands :
             x # p \/ y # cmd => ran'[x][y] = ran[x][y]
       /\ \A x \in Processes : x # p => ran'[x] = ran[x]
  <2>1. ran \in [Processes -> [Commands -> 0..MaxRuns]]
    BY DEF IInv, TypeOK
  <2>2. ran' = [ran EXCEPT ![p] = [ran[p] EXCEPT ![cmd] = 1]]
    BY <1>2, <1>4, <1>5, <2>1
  <2>3. [ran[p] EXCEPT ![cmd] = 1] \in [Commands -> 0..MaxRuns]
    BY <1>2, <2>1
  <2> QED BY <1>2, <2>1, <2>2, <2>3
<1>11. CallFit(c)'
  <2>1. Exists(c)' /\ Events(c)' # <<>>
    BY <1>4, <1>5, <1>8 DEF Exists, Events, ledgerVars, cmd
  <2> QED BY <1>2, <1>4, <1>5, <1>8, <1>9, <2>1 DEF CallFit, Locked
<1>12. TypeOK'
  BY <1>4, <1>8, <1>9, <1>10 DEF IInv, TypeOK, ledgerVars
<1>13. RanFits'
  <2>1. CommandRun(cmd) \in DOMAIN runs /\ runs[CommandRun(cmd)] # <<>>
    BY <1>5 DEF Exists, Events, cmd
  <2>2. runs' = runs
    BY <1>4 DEF ledgerVars
  <2> QED BY <1>10, <2>1, <2>2 DEF IInv, RanFits
<1>14. ReceiptsFit' /\ AttributedToOwnRun'
  BY <1>1, <1>4, RecordsKept DEF LedgerInv
<1>15. \A x \in Processes : lock[x] \notin {c, None} =>
           lock'[x] = lock[x] /\ ran'[x] = ran[x]
  BY <1>4, <1>5, <1>10
<1> QED BY <1>1, <1>8, <1>9, <1>11, <1>12, <1>13, <1>14, <1>15, CallerMoves

(* An accepted terminal request ends the run, whoever sent it first.       *)
LEMMA CommitTerminalStep ==
    ASSUME IInv, NEW c \in Callers, CommitTerminal(c)
    PROVE  IInv'
<1> DEFINE q == TerminalRequest(job[c].cmd, job[c].process)
<1>1. /\ CallFit(c) /\ pc[c] = "terminal" /\ job[c].cmd \in Commands
      /\ job[c].process \in Observations
  BY DEF IInv, CallFits, CommitTerminal, CallFit
<1>2. Servable(q) /\ Call(q) /\ UNCHANGED <<ran, receipts>>
  BY <1>1, RequestsServable DEF CommitTerminal, Protocol
<1>3. LedgerInv' /\ RunsGrow
  BY <1>2, LedgerStep DEF IInv
<1>4. CASE ~ Reply(q).ok
  BY <1>2, <1>3, <1>4, FailStep DEF CommitTerminal, Protocol
<1>5. CASE Reply(q).ok
  <2>1. Goto(c, "reload") /\ UNCHANGED <<job, lock>> /\ "reload" \in PC
    BY <1>5 DEF CommitTerminal, Protocol, PC
  <2>2. pc'[c] = "reload"
    BY <2>1 DEF IInv, TypeOK, Goto
  <2>3. Reply(q).ok = TRUE
    BY <1>5, ReplyBoolean DEF IInv, LedgerInv
  <2>4. /\ q.op \in TerminalOperations /\ q.op \in EventOperations
        /\ q.run = CommandRun(job[c].cmd) /\ q.seq = 2
    BY DEF TerminalRequest, Request, EventOperations, TerminalOperations
  <2>5. /\ q.run \in DOMAIN runs' /\ q.seq \in 1..Len(runs'[q.run])
        /\ runs'[q.run][q.seq] = Event(q)
    BY <1>2, <2>3, <2>4, AcceptedMeans DEF IInv
  <2>6. Terminal(Event(q))
    BY <2>4 DEF Terminal, Event
  <2>7. q.seq = Len(runs'[q.run]) /\ runs'[q.run] \in Seq(EventType)
    BY <1>3, <2>5, <2>6 DEF LedgerInv, TerminalIsLast, RunsTyped
  <2>8. runs'[q.run] # <<>> /\ StateFor(runs'[q.run]) # "active"
    <3>1. runs'[q.run] # <<>>
      BY <2>4, <2>7
    <3> QED BY <2>5, <2>6, <2>7, <3>1, EndedMeans
  <2>9. Exists(c)' /\ Events(c)' # <<>> /\ StateFor(Events(c)') # "active"
    BY <2>1, <2>4, <2>5, <2>8 DEF Exists, Events
  <2>10. CallFit(c)'
    BY <1>1, <2>1, <2>2, <2>9 DEF CallFit, Locked
  <2> QED BY <1>2, <1>3, <2>1, <2>10, GoOnStep
<1> QED BY <1>4, <1>5

LEMMA ReloadRunStep ==
    ASSUME IInv, NEW c \in Callers, ReloadRun(c)
    PROVE  IInv'
<1>1. pc[c] = "reload" /\ StateFor(Events(c)) # "active"
  BY DEF IInv, CallFits, ReloadRun, CallFit
<1> QED BY <1>1, CompleteStep DEF ReloadRun

(* A call that ends with a receipt x.                                      *)
LEMMA ReceiptStep ==
    ASSUME IInv, NEW c \in Callers, NEW x,
           receipts' = receipts \cup {x}, Goto(c, "idle"),
           job' = [job EXCEPT ![c] = NoJob], UNCHANGED <<ledgerVars, lock, ran>>,
           x.process # None =>
             /\ CommandRun(x.cmd) \in DOMAIN runs
             /\ StateFor(runs[CommandRun(x.cmd)]) # "active"
             /\ x.process = RecordedProcess(runs[CommandRun(x.cmd)]),
           x.outputs /\ x.how # "interrupted" => x.own /\ x.inputs = "captured"
    PROVE  IInv'
<1>1. LedgerInv' /\ RunsGrow
  BY LedgerQuiet DEF IInv
<1>2. NoJob \in Job /\ "idle" \in PC
  BY DEF NoJob, Job, Recordable, PC
<1>3. /\ job' \in [Callers -> Job] /\ pc' \in [Callers -> PC] /\ pc'[c] = "idle"
      /\ \A d \in Callers : d # c => pc'[d] = pc[d] /\ job'[d] = job[d]
  BY <1>2 DEF IInv, TypeOK, Goto
<1>4. TypeOK'
  BY <1>3 DEF IInv, TypeOK, ledgerVars
<1>5. CallFit(c)'
  BY <1>3 DEF CallFit, Locked
<1>6. RanFits'
  BY <1>1, RecordsKept DEF LedgerInv
<1>7. ReceiptsFit'
  BY DEF IInv, ReceiptsFit, ledgerVars
<1>8. AttributedToOwnRun'
  BY DEF IInv, AttributedToOwnRun
<1> QED BY <1>1, <1>3, <1>4, <1>5, <1>6, <1>7, <1>8, CallerMoves

LEMMA ReturnReceiptStep ==
    ASSUME IInv, NEW c \in Callers, ReturnReceipt(c)
    PROVE  IInv'
<1> DEFINE how == IF job[c].replayed THEN "replayed" ELSE "executed"
           x == Receipt(c, how, job[c].process)
<1>1. CallFit(c) /\ pc[c] = "outputs" /\ job[c] \in Job
  BY DEF IInv, CallFits, TypeOK, ReturnReceipt
<1>2. /\ x.cmd = job[c].cmd /\ x.process = job[c].process /\ x.how = how
      /\ x.own = job[c].own
      /\ how # "replayed" => x.inputs = job[c].inputs
      /\ how = "replayed" => x.outputs = FALSE
  BY DEF Receipt
<1>3. /\ Exists(c) /\ StateFor(Events(c)) # "active"
      /\ job[c].process = RecordedProcess(Events(c))
  BY <1>1 DEF CallFit
<1>4. x.process # None =>
        /\ CommandRun(x.cmd) \in DOMAIN runs
        /\ StateFor(runs[CommandRun(x.cmd)]) # "active"
        /\ x.process = RecordedProcess(runs[CommandRun(x.cmd)])
  BY <1>2, <1>3 DEF Exists, Events
<1>5. x.outputs /\ x.how # "interrupted" => x.own /\ x.inputs = "captured"
  <2>1. CASE how = "replayed"
    BY <1>2, <2>1
  <2>2. CASE how # "replayed"
    <3>1. job[c].replayed = FALSE
      BY <1>1, <2>2 DEF Job
    <3>2. job[c].own = TRUE /\ job[c].inputs = "captured"
      BY <1>1, <3>1 DEF CallFit
    <3> QED BY <1>2, <2>2, <3>2
  <2> QED BY <2>1, <2>2
<1>6. /\ receipts' = receipts \cup {x} /\ Goto(c, "idle")
      /\ job' = [job EXCEPT ![c] = NoJob] /\ UNCHANGED <<ledgerVars, lock, ran>>
  BY DEF ReturnReceipt
<1> HIDE DEF x
<1> QED BY <1>4, <1>5, <1>6, ReceiptStep

LEMMA InterruptStep ==
    ASSUME IInv, NEW c \in Callers, Interrupt(c)
    PROVE  IInv'
<1>1. LedgerInv' /\ RunsGrow
  BY LedgerQuiet DEF Interrupt, IInv
<1>2. CallFit(c) /\ pc[c] # "idle" /\ "interrupted" \in PC
  BY DEF IInv, CallFits, Interrupt, InService, PC
<1>3. pc'[c] = "interrupted" /\ job' = job
  BY DEF IInv, TypeOK, Interrupt, Goto
<1>4. CallFit(c)'
  BY <1>2, <1>3 DEF CallFit, Locked
<1> QED BY <1>1, <1>2, <1>4, GoOnStep DEF Interrupt

LEMMA ReturnInterruptedStep ==
    ASSUME IInv, NEW c \in Callers, ReturnInterrupted(c)
    PROVE  IInv'
<1> DEFINE ended == Exists(c) /\ StateFor(Events(c)) # "active"
           found == IF ended THEN RecordedProcess(Events(c)) ELSE None
           x == Receipt(c, "interrupted", found)
<1>1. x.cmd = job[c].cmd /\ x.process = found /\ x.how = "interrupted"
  BY DEF Receipt
<1>2. x.process # None =>
        /\ CommandRun(x.cmd) \in DOMAIN runs
        /\ StateFor(runs[CommandRun(x.cmd)]) # "active"
        /\ x.process = RecordedProcess(runs[CommandRun(x.cmd)])
  BY <1>1 DEF Exists, Events
<1>3. /\ receipts' = receipts \cup {x} /\ Goto(c, "idle")
      /\ job' = [job EXCEPT ![c] = NoJob] /\ UNCHANGED <<ledgerVars, lock, ran>>
  BY DEF ReturnInterrupted
<1> HIDE DEF x
<1> QED BY <1>1, <1>2, <1>3, ReceiptStep

(* The calls of a process end together, and with them its lock.            *)
LEMMA CrashStep ==
    ASSUME IInv, NEW p \in Processes, Crash(p)
    PROVE  IInv'
<1>1. LedgerInv' /\ RunsGrow
  BY LedgerQuiet DEF Crash, IInv
<1>2. NoJob \in Job /\ "idle" \in PC
  BY DEF NoJob, Job, Recordable, PC
<1>3. TypeOK'
  BY <1>2 DEF IInv, TypeOK, Crash, ledgerVars
<1>4. ASSUME NEW c \in Callers PROVE CallFit(c)'
  <2>1. CASE job[c].at = p
    <3>1. pc'[c] = "idle"
      BY <2>1 DEF Crash
    <3> QED BY <3>1 DEF CallFit, Locked
  <2>2. CASE job[c].at # p
    <3>1. pc'[c] = pc[c] /\ job'[c] = job[c] /\ ran' = ran
      BY <2>2 DEF Crash
    <3>2. pc[c] \in Locked => lock'[job[c].at] = lock[job[c].at]
      <4>1. pc[c] \in Locked => job[c].at \in Processes
        BY DEF IInv, CallFits, CallFit, Locked
      <4> QED BY <2>2, <4>1 DEF IInv, TypeOK, Crash
    <3> QED BY <1>1, <3>1, <3>2, CallFitKept DEF LedgerInv
  <2> QED BY <2>1, <2>2
<1>5. RanFits' /\ ReceiptsFit' /\ AttributedToOwnRun'
  BY <1>1, RecordsKept DEF Crash, LedgerInv
<1> QED BY <1>1, <1>3, <1>4, <1>5 DEF IInv, CallFits

(* Calls of the protocol by anybody else.                                  *)
LEMMA OthersStep ==
    ASSUME IInv, LedgerInv', RunsGrow, UNCHANGED callerVars
    PROVE  IInv'
<1> USE DEF callerVars
<1>1. TypeOK'
  BY DEF IInv, TypeOK, LedgerInv, RunsTyped, EventType
<1>2. CallFits'
  BY CallFitKept DEF CallFits, LedgerInv
<1>3. RanFits' /\ ReceiptsFit' /\ AttributedToOwnRun'
  BY RecordsKept DEF LedgerInv
<1> QED BY <1>1, <1>2, <1>3 DEF IInv

LEMMA NextIInv == IInv /\ [CommandNext]_commandVars => IInv'
<1> SUFFICES ASSUME IInv, [CommandNext]_commandVars PROVE IInv'
  OBVIOUS
<1>1. ASSUME NEW c \in Callers, CallerStep(c) PROVE IInv'
  BY <1>1, StartStep, ProbeStep, CaptureInputsStep, ProbeAgainStep, LockStep,
     BeginRunStep, LoadRunStep, CommitIntentStep, RunProcessStep,
     CommitTerminalStep, ReloadRunStep, ReturnReceiptStep, InterruptStep,
     ReturnInterruptedStep
  DEF CallerStep
<1>2. ASSUME NEW p \in Processes, Crash(p) PROVE IInv'
  BY <1>2, CrashStep
<1>3. ASSUME LedgerNext, UNCHANGED callerVars PROVE IInv'
  <2>1. PICK q \in Requests : Call(q)
    BY <1>3 DEF LedgerNext
  <2>2. LedgerInv' /\ RunsGrow
    BY <2>1, LedgerStep, RequestsServable DEF IInv
  <2> QED BY <1>3, <2>2, OthersStep
<1>4. CASE UNCHANGED commandVars
  <2>1. UNCHANGED ledgerVars /\ UNCHANGED callerVars
    BY <1>4 DEF commandVars
  <2> QED BY <2>1, LedgerQuiet, OthersStep DEF IInv
<1> QED BY <1>1, <1>2, <1>3, <1>4 DEF CommandNext

(* Whoever calls the protocol, the ledger makes a step of RunHistory.      *)
LEMMA NextRefines ==
    IInv /\ [CommandNext]_commandVars => History!Next \/ UNCHANGED runs
<1> SUFFICES ASSUME IInv, [CommandNext]_commandVars
             PROVE  History!Next \/ UNCHANGED runs
  OBVIOUS
<1>1. ASSUME NEW q, Servable(q), Call(q) PROVE History!Next \/ UNCHANGED runs
  BY <1>1, LedgerRefines DEF IInv
<1>2. ASSUME NEW c \in Callers, CallerStep(c) PROVE History!Next \/ UNCHANGED runs
  <2>1. pc[c] # "idle" => job[c].cmd \in Commands
    BY DEF IInv, CallFits, CallFit
  <2>2. pc[c] = "terminal" => job[c].process \in Observations
    BY DEF IInv, CallFits, CallFit
  <2>3. CASE BeginRun(c)
    BY <1>1, <2>1, <2>3, RequestsServable DEF BeginRun, Protocol
  <2>4. CASE CommitIntent(c)
    BY <1>1, <2>1, <2>4, RequestsServable DEF CommitIntent, Protocol
  <2>5. CASE CommitTerminal(c)
    BY <1>1, <2>1, <2>2, <2>5, RequestsServable DEF CommitTerminal, Protocol
  <2>6. CASE UNCHANGED ledgerVars
    BY <2>6 DEF ledgerVars
  <2>7. \/ BeginRun(c) \/ CommitIntent(c) \/ CommitTerminal(c)
        \/ UNCHANGED ledgerVars
    BY <1>2 DEF CallerStep, Start, Probe, CaptureInputs, ProbeAgain, Lock, LoadRun,
       RunProcess, ReloadRun, ReturnReceipt, Interrupt, ReturnInterrupted
  <2> QED BY <2>3, <2>4, <2>5, <2>6, <2>7
<1>3. ASSUME NEW p \in Processes, Crash(p) PROVE UNCHANGED runs
  BY <1>3 DEF Crash, ledgerVars
<1>4. ASSUME LedgerNext PROVE History!Next \/ UNCHANGED runs
  BY <1>1, <1>4, RequestsServable DEF LedgerNext
<1>5. CASE UNCHANGED commandVars
  BY <1>5 DEF commandVars, ledgerVars
<1> QED BY <1>2, <1>3, <1>4, <1>5 DEF CommandNext

-----------------------------------------------------------------------------
(* Theorems.                                                               *)

(* The inductive invariant holds of every behaviour.                       *)
THEOREM Invariance == CommandSpec => []IInv
BY InitIInv, NextIInv, PTL DEF CommandSpec

(* Every variable keeps its type.                                          *)
THEOREM TypeCorrect == CommandSpec => []TypeOK
<1>1. IInv => TypeOK
  BY DEF IInv
<1> QED BY <1>1, Invariance, PTL

(* RuntimeProtocol.call: one idempotency key of a client is accepted for   *)
(* one request, and every retry gets the answer the first one got.         *)
THEOREM RetriesGetOneAnswer == CommandSpec => []RetriesAgree
<1>1. IInv => RetriesAgree
  BY DEF IInv, LedgerInv, AnswersBound, RetriesAgree
<1> QED BY <1>1, Invariance, PTL

(* _append_event: no answer goes back on an earlier one.                   *)
THEOREM AnswersStayTrue == CommandSpec => []AnswersAreHistory
<1>1. IInv => AnswersAreHistory
  BY DEF IInv, LedgerInv
<1> QED BY <1>1, Invariance, PTL

(* The ledger implements append-only runs that end with a terminal event.  *)
THEOREM LedgerImplementsHistory == CommandSpec => HistorySpec
<1>1. IInv /\ [CommandNext]_commandVars => [History!Next]_runs
  BY NextRefines
<1> QED BY <1>1, Invariance, PTL DEF CommandSpec, HistorySpec, History!Spec

(* CommandExecutionService.execute: a process runs a command at most once  *)
(* under a key, through crashes and interrupts at any step.                *)
THEOREM CommandsRunOncePerProcess == CommandSpec => []OncePerProcess
<1>1. IInv => OncePerProcess
  <2>1. \A n \in {0, 1} : n <= 1
    OBVIOUS
  <2> QED BY <2>1 DEF IInv, RanFits, OncePerProcess
<1> QED BY <1>1, Invariance, PTL

(* run_agent_command: every receipt reports the process run the ledger     *)
(* recorded, whichever call ran the command.                               *)
THEOREM ReceiptsAgree == CommandSpec => []ReceiptsReportTheRecord
<1>1. IInv => ReceiptsReportTheRecord
  BY DEF IInv, ReceiptsFit, ReceiptsReportTheRecord
<1> QED BY <1>1, Invariance, PTL

(* run_agent_command: only the call that ran the command claims its        *)
(* artifacts, and it captured the inputs before.                           *)
THEOREM ArtifactsAreOwn == CommandSpec => []AttributedToOwnRun
<1>1. IInv => AttributedToOwnRun
  BY DEF IInv
<1> QED BY <1>1, Invariance, PTL
=============================================================================
