---------------------------- MODULE RuntimeLedger ----------------------------
(***************************************************************************)
(* The runtime protocol over its SQLite ledger: RuntimeProtocol.call       *)
(* (runtime_protocol.py) with TestamurProtocolLedger (runtime_store_v2.py).*)
(*                                                                         *)
(* A call is one BEGIN IMMEDIATE transaction, so it is one step; a process *)
(* that dies in it leaves nothing behind.  Clients send a request again    *)
(* when an answer is lost or late (HttpRuntimeClient gives up after 30 s): *)
(* every request may be served any number of times, in any order.          *)
(* A digest of a record is the record itself.                              *)
(***************************************************************************)
EXTENDS Naturals, Sequences, FiniteSets, SequencesExt

CONSTANTS
    Requests,    \* the requests clients send, each any number of times
    LegacyRuns,  \* runs of a wtn: database, with their owner
    None

TerminalOperations == {"finish_run", "fail_run", "cancel_run"}
EventOperations ==
    {"observe_input", "execute", "request_verification"} \cup TerminalOperations
Operations == {"begin_run", "get_run"} \cup EventOperations

(* A request names its run by identity; seq 0 and run None are absent.     *)
ASSUME RequestsFit ==
    \A q \in Requests :
        /\ DOMAIN q = {"client", "key", "op", "run", "seq", "payload"}
        /\ q.op \in Operations /\ q.seq \in Nat

VARIABLES
    runs,      \* runs and their events
    bindings,  \* answers bound to <<client, idempotency key>>
    answers    \* history: accepted requests with the answers given

ledgerVars == <<runs, bindings, answers>>

(* The identity of a run is the digest of the request that began it.       *)
RunId(q) == [client |-> q.client, key |-> q.key, payload |-> q.payload]

Event(q) == [seq |-> q.seq, op |-> q.op, payload |-> q.payload]

Terminal(e) == e.op \in TerminalOperations

StateFor(events) ==
    IF events = <<>> \/ ~Terminal(Last(events)) THEN "active" ELSE Last(events).op

(* An answer carries the record digest, from which its state and           *)
(* next_sequence follow.                                                   *)
Answer(r, events) == [ok |-> TRUE, code |-> "ok", run |-> r, events |-> events]
Refusal(code)     == [ok |-> FALSE, code |-> code, run |-> None, events |-> <<>>]

LedgerInit ==
    /\ runs = [r \in LegacyRuns |->
                 <<[seq |-> 1, op |-> "observe_input", payload |-> r.payload]>>]
    /\ bindings = [b \in {} |-> None]
    /\ answers = {}

Put(f, x, y) == [z \in DOMAIN f \cup {x} |-> IF z = x THEN y ELSE f[z]]

-----------------------------------------------------------------------------
BeginRefusal(q) ==
    IF q.run # None \/ q.seq # 0 \/ q.payload[1] = "publish"
    THEN "invalid_request" ELSE "none"

Owns(q, r) == r \in DOMAIN runs /\ r.client = q.client

GetRefusal(q) ==
    IF q.seq # 0 \/ q.run = None THEN "invalid_request"
    ELSE IF ~Owns(q, q.run) THEN "run_not_found" ELSE "none"

(* _validate_event_payload: a client asks for verification and declares no *)
(* outcome of it.                                                          *)
ClaimsOutcome(q) ==
    \/ q.op \in {"request_verification", "finish_run"} /\ q.payload[1] = "verified"
    \/ q.payload[1] = "publish"

Committed(q) == q.seq <= Len(runs[q.run])

AppendRefusal_NoOwner(q) ==
    IF q.run = None THEN "invalid_request"
    ELSE IF q.run \notin DOMAIN runs THEN "run_not_found"
    ELSE IF q.run \in LegacyRuns THEN "run_state_conflict"
    ELSE IF q.seq = 0 \/ ClaimsOutcome(q) THEN "invalid_request"
    ELSE IF Committed(q)
    THEN IF runs[q.run][q.seq] # Event(q) THEN "sequence_conflict" ELSE "none"
    ELSE IF StateFor(runs[q.run]) # "active" THEN "run_state_conflict"
    ELSE IF q.seq # Len(runs[q.run]) + 1 THEN "sequence_conflict" ELSE "none"

AppendRefusal_NoState(q) ==
    IF q.run = None THEN "invalid_request"
    ELSE IF ~Owns(q, q.run) THEN "run_not_found"
    ELSE IF q.run \in LegacyRuns THEN "run_state_conflict"
    ELSE IF q.seq = 0 \/ ClaimsOutcome(q) THEN "invalid_request"
    ELSE IF Committed(q)
    THEN IF runs[q.run][q.seq] # Event(q) THEN "sequence_conflict" ELSE "none"
    ELSE IF q.seq # Len(runs[q.run]) + 1 THEN "sequence_conflict" ELSE "none"

(* _append_event refuses in this order.  An event that is already there is *)
(* accepted again, also from a request with another key.                   *)
AppendRefusal(q) ==
    IF q.run = None THEN "invalid_request"
    ELSE IF ~Owns(q, q.run) THEN "run_not_found"
    ELSE IF q.run \in LegacyRuns THEN "run_state_conflict"
    ELSE IF q.seq = 0 \/ ClaimsOutcome(q) THEN "invalid_request"
    ELSE IF Committed(q)
    THEN IF runs[q.run][q.seq] # Event(q) THEN "sequence_conflict" ELSE "none"
    ELSE IF StateFor(runs[q.run]) # "active" THEN "run_state_conflict"
    ELSE IF q.seq # Len(runs[q.run]) + 1 THEN "sequence_conflict" ELSE "none"

-----------------------------------------------------------------------------
Refused(q) ==
    CASE q.op = "begin_run" -> BeginRefusal(q)
      [] q.op = "get_run"   -> GetRefusal(q)
      [] OTHER              -> AppendRefusal(q)

(* What the runs are after an accepted request.                            *)
RunsAfter(q) ==
    CASE q.op = "begin_run" -> IF RunId(q) \in DOMAIN runs THEN runs
                               ELSE Put(runs, RunId(q), <<>>)
      [] q.op = "get_run"   -> runs
      [] OTHER              -> IF Committed(q) THEN runs
                               ELSE [runs EXCEPT ![q.run] = Append(@, Event(q))]

(* An event is answered with the record up to it, as it was at first.      *)
Result(q) ==
    CASE q.op = "begin_run" -> Answer(RunId(q), <<>>)
      [] q.op = "get_run"   -> Answer(q.run, runs[q.run])
      [] OTHER              -> Answer(q.run, SubSeq(Append(runs[q.run], Event(q)), 1, q.seq))

Binding(q) == <<q.client, q.key>>

Bound(q) == Binding(q) \in DOMAIN bindings

Reply_Fresh(q) ==
    IF Bound(q) /\ bindings[Binding(q)].req # q THEN Refusal("idempotency_conflict")
    ELSE IF Refused(q) # "none" THEN Refusal(Refused(q)) ELSE Result(q)

(* The answer to q now: a bound answer is replayed to the same request and *)
(* refused to another one.                                                 *)
Reply(q) ==
    IF Bound(q)
    THEN IF bindings[Binding(q)].req = q THEN bindings[Binding(q)].answer
         ELSE Refusal("idempotency_conflict")
    ELSE IF Refused(q) # "none" THEN Refusal(Refused(q)) ELSE Result(q)

(* The transaction of a call; a refusal rolls it back.                     *)
Call(q) ==
    /\ answers' = answers \cup {a \in {[req |-> q, answer |-> Reply(q)]} : a.answer.ok}
    /\ IF Bound(q) \/ Refused(q) # "none"
       THEN UNCHANGED <<runs, bindings>>
       ELSE /\ runs' = RunsAfter(q)
            /\ bindings' = Put(bindings, Binding(q),
                               [req |-> q, answer |-> Result(q)])

LedgerNext == \E q \in Requests : Call(q)

-----------------------------------------------------------------------------
(* Properties.                                                             *)

(* One key, one request, one answer: however often and in whatever order   *)
(* requests are served, an idempotency key of a client is accepted for one *)
(* request only, and every retry gets the very same answer.                *)
RetriesAgree ==
    \A a, b \in answers : Binding(a.req) = Binding(b.req) => a = b

(* No answer goes back on another one: every record an accepted request    *)
(* was answered with is a prefix of what the ledger holds for that run of  *)
(* that client, it ends in the requested event at the requested sequence,  *)
(* and events accepted under two keys for one sequence are the same.       *)
AnswersAreHistory ==
    \A a \in answers :
        /\ Owns(a.req, a.answer.run)
        /\ IsPrefix(a.answer.events, runs[a.answer.run])
        /\ a.req.op \in EventOperations
           => Len(a.answer.events) = a.req.seq /\ Last(a.answer.events) = Event(a.req)

(* The ledger implements append-only runs that end with a terminal event.  *)
History == INSTANCE RunHistory WITH history <- runs, Terminal <- Terminal

HistorySpec == History!Spec
=============================================================================
