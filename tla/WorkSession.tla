----------------------------- MODULE WorkSession -----------------------------
(***************************************************************************)
(* One work session: its lifecycle, the capture of inputs, reconciliation  *)
(* (reconcile_session), recovery (resume_reconciliation_exports), and the  *)
(* two sinks they export to, WorkSessionRelianceSink over RelianceStore    *)
(* and CanonicalWatchSink over WatchStore.                                 *)
(*                                                                         *)
(* Workers are processes (codex hooks, CLI calls, schedulers), each with a *)
(* WorkSessionStore connection to one SQLite database.  Reads run outside  *)
(* transactions; a write is INSERT OR IGNORE, checks, commit, and is one   *)
(* action.  A check that fails after the insert raises with the            *)
(* transaction open, so the worker keeps the write lock.                   *)
(*                                                                         *)
(* Declarations are valid under the pinned policy, which is not DISABLED;  *)
(* no and uncertain are one answer.  The observation that marks an input   *)
(* as relied on is inserted with its export row, and stands for it here.   *)
(***************************************************************************)
EXTENDS Naturals, FiniteSets

CONSTANTS
    Candidates,  \* locators discovered in the session
    Revisions,   \* exact source revisions
    Moving,      \* candidates whose source may move to another revision
    Workers,
    Mortal,      \* workers that may die in the middle of an operation
    Actors,      \* values of actor_ref
    SinkModes,   \* <<reliance sink given, watch sink given>>
    None         \* no revision, nobody, no value

ASSUME Parts == Mortal \subseteq Workers /\ Moving \subseteq Candidates
ASSUME SinksMayBeGiven ==
    <<TRUE, TRUE>> \in SinkModes /\ SinkModes \subseteq BOOLEAN \X BOOLEAN
ASSUME NoneIsFresh == None \notin Candidates \cup Revisions \cup Workers \cup Actors

(* (candidate_id, source_revision_id); None for a locator never fetched.   *)
Inputs == Candidates \X (Revisions \cup {None})

Answers == {"yes", "no"}

VARIABLES
    status,      \* to_status of the last lifecycle event
    discovered,  \* candidate rows
    observed,    \* observations of an exact revision
    late,        \* inputs whose observation landed after the session closed
    actor,       \* actor_ref of the reconciliation run, None without a run
    decided,     \* decision rows
    receipts,    \* rows of testamur_reliance_receipts
    current,     \* the revision the evidence view reports for each source;
                 \* None is one that the session never saw
    exported,    \* receipt number in the reliance export row of each input
    proposed,    \* watch candidate rows
    watches,     \* watches created by the watch sink
    acked,       \* external watch export rows
    lock,        \* the worker whose connection is in a write transaction
    pc, job

session == <<status, discovered, observed, late, actor>>
exports == <<decided, receipts, exported, proposed, watches, acked>>
vars    == <<session, exports, current, lock, pc, job>>

Closed   == {"RECONCILED", "PUSHED", "ATTESTED"}
Statuses == Closed \cup {"OPEN", "COMPLETED_UNRECONCILED", "ABORTED"}

(* _ALLOWED_TRANSITIONS                                                    *)
AllowedTransitions ==
    {<<"OPEN", "COMPLETED_UNRECONCILED">>, <<"OPEN", "ABORTED">>,
     <<"COMPLETED_UNRECONCILED", "RECONCILED">>,
     <<"RECONCILED", "PUSHED">>, <<"PUSHED", "ATTESTED">>}

Receipt == [key : Inputs, id : Nat \ {0}, pin : Revisions \cup {None}]

(* Local variables of an operation.                                        *)
NoJob == [key |-> None, target |-> None, actor |-> None, todo |-> {},
          work |-> {}, sink |-> FALSE, wsink |-> FALSE, resume |-> FALSE,
          mark |-> FALSE, pin |-> None, id |-> 0]

Job == [key : Inputs \cup {None}, target : Statuses \cup {None},
        actor : Actors \cup {None}, todo : SUBSET (Inputs \X Answers),
        work : SUBSET Inputs, sink : BOOLEAN, wsink : BOOLEAN,
        resume : BOOLEAN, mark : BOOLEAN, pin : Revisions \cup {None}, id : Nat]

PC == {"idle", "discover", "observe", "append", "start", "reconcile", "sink",
       "issue", "confirm", "insert", "record", "propose", "register", "create", "ack"}

TypeOK ==
    /\ status \in Statuses
    /\ discovered \subseteq Candidates
    /\ observed \subseteq Candidates \X Revisions
    /\ late \subseteq Inputs
    /\ actor \in Actors \cup {None}
    /\ decided \in [Inputs -> Answers \cup {"open"}]
    /\ receipts \subseteq Receipt
    /\ current \in [Candidates -> Revisions \cup {None}]
    /\ exported \in [Inputs -> Nat]
    /\ proposed \subseteq Inputs
    /\ watches \subseteq Inputs
    /\ acked \subseteq Inputs
    /\ lock \in Workers \cup {None}
    /\ pc \in [Workers -> PC]
    /\ job \in [Workers -> Job]

Init ==
    /\ status = "OPEN"
    /\ discovered = {}
    /\ observed = {}
    /\ late = {}
    /\ actor = None
    /\ decided = [k \in Inputs |-> "open"]
    /\ receipts = {}
    /\ current \in [Candidates -> Revisions \cup {None}]
    /\ \A c \in Candidates \ Moving : current[c] # None
    /\ exported = [k \in Inputs |-> 0]
    /\ proposed = {}
    /\ watches = {}
    /\ acked = {}
    /\ lock = None
    /\ pc = [p \in Workers |-> "idle"]
    /\ job = [p \in Workers |-> NoJob]

-----------------------------------------------------------------------------
(* observed_input_keys: a candidate with no exact revision is an input too *)
(* (and stops being one when a revision is observed).                      *)
ObservedInputs ==
    observed \cup {<<c, None>> : c \in {b \in discovered : \A o \in observed : o[1] # b}}

Decided == {k \in Inputs : decided[k] # "open"}

(* Decisions with used=yes.                                                *)
Relied == {k \in Inputs : decided[k] = "yes"}

Goto(p, label) == pc' = [pc EXCEPT ![p] = label]

Return(p) ==
    /\ pc' = [pc EXCEPT ![p] = "idle"]
    /\ job' = [job EXCEPT ![p] = NoJob]

(* Begin an operation with the given local variables.                      *)
Call(p, label, locals) ==
    /\ pc[p] = "idle"
    /\ Goto(p, label)
    /\ job' = [job EXCEPT ![p] = locals]
    /\ UNCHANGED <<session, exports, current, lock>>

(* The connection of p can write; the sinks use connections of their own.  *)
CanWrite(p) == lock \in {None, p}
SinkCanWrite == lock = None

Commit == lock' = None

(* INSERT OR IGNORE, then a conflict: ValueError with the transaction open.*)
RaiseInTransaction(p) ==
    /\ lock' = p
    /\ Return(p)

-----------------------------------------------------------------------------
(* Lifecycle and capture.  Each reads the status, then writes.             *)

DiscoverStart(p, c) ==
    /\ status = "OPEN"
    /\ Call(p, "discover", [NoJob EXCEPT !.key = <<c, None>>])

(* create_candidate                                                        *)
Discover(p) ==
    /\ pc[p] = "discover"
    /\ CanWrite(p)
    /\ discovered' = discovered \cup {job[p].key[1]}
    /\ late' = late \cup {k \in {job[p].key} : status # "OPEN" /\ k[1] \notin discovered}
    /\ Commit
    /\ Return(p)
    /\ UNCHANGED <<status, observed, actor, exports, current>>

ObserveStart(p, c, r) ==
    /\ status = "OPEN"
    /\ c \in discovered
    /\ Call(p, "observe", [NoJob EXCEPT !.key = <<c, r>>])

(* record_observation                                                      *)
Observe(p) ==
    /\ pc[p] = "observe"
    /\ CanWrite(p)
    /\ observed' = observed \cup {job[p].key}
    /\ late' = late \cup {k \in {job[p].key} : status # "OPEN" /\ k \notin observed}
    /\ Commit
    /\ Return(p)
    /\ UNCHANGED <<status, discovered, actor, exports, current>>

TransitionStart_AnyTarget(p, target) ==
    /\ <<status, target>> \in AllowedTransitions
    /\ Call(p, "append", [NoJob EXCEPT !.target = target])

(* complete, abort, mark_pushed and mark_attested.  A repeated transition  *)
(* to the current status appends nothing.                                  *)
TransitionStart(p, target) ==
    /\ <<status, target>> \in AllowedTransitions
    /\ target # "RECONCILED"
    /\ Call(p, "append", [NoJob EXCEPT !.target = target])

(* transition: the event goes in under whatever status the session has by  *)
(* now.                                                                    *)
Append(p) ==
    /\ pc[p] = "append"
    /\ CanWrite(p)
    /\ status' = job[p].target
    /\ Commit
    /\ Return(p)
    /\ UNCHANGED <<discovered, observed, late, actor, exports, current>>

-----------------------------------------------------------------------------
(* reconcile_session.                                                      *)

(* Declarations cover the observed inputs; a locator without a revision    *)
(* cannot be relied on.                                                    *)
Declarations ==
    {f \in [ObservedInputs -> Answers] :
        \A k \in ObservedInputs : k[2] = None => f[k] = "no"}

ReconcileStart(p, f, a, sink, wsink) ==
    /\ status \in {"COMPLETED_UNRECONCILED", "RECONCILED"}
    /\ Call(p, "start",
            [NoJob EXCEPT !.todo = {<<k, f[k]>> : k \in ObservedInputs},
                          !.work = {k \in ObservedInputs : f[k] = "yes"},
                          !.actor = a, !.sink = sink, !.wsink = wsink, !.mark = TRUE])

(* start_reconciliation: one run per session, with one actor.              *)
StartRun(p) ==
    /\ pc[p] = "start"
    /\ \/ /\ status \notin {"COMPLETED_UNRECONCILED", "RECONCILED"}
          /\ Return(p)
          /\ UNCHANGED <<actor, lock>>
       \/ /\ status \in {"COMPLETED_UNRECONCILED", "RECONCILED"}
          /\ CanWrite(p)
          /\ IF actor \in {None, job[p].actor}
             THEN /\ actor' = job[p].actor
                  /\ Commit
                  /\ Goto(p, "reconcile")
                  /\ job' = [job EXCEPT ![p].actor = None]
             ELSE /\ RaiseInTransaction(p)
                  /\ UNCHANGED actor
    /\ UNCHANGED <<status, discovered, observed, late, exports, current>>

(* record_decision, one commit per input.  The answer recorded first wins  *)
(* and another one raises.                                                 *)
RecordDecision(p, k, u) ==
    /\ pc[p] = "reconcile"
    /\ <<k, u>> \in job[p].todo
    /\ \/ /\ k \notin ObservedInputs
          /\ Return(p)
          /\ UNCHANGED <<decided, lock>>
       \/ /\ k \in ObservedInputs
          /\ CanWrite(p)
          /\ IF decided[k] \in {"open", u}
             THEN /\ decided' = [decided EXCEPT ![k] = u]
                  /\ Commit
                  /\ job' = [job EXCEPT ![p].todo = @ \ {<<k, u>>}]
                  /\ UNCHANGED pc
             ELSE /\ RaiseInTransaction(p)
                  /\ UNCHANGED decided
    /\ UNCHANGED <<session, receipts, exported, proposed, watches, acked, current>>

ResumeStart_BeforePublication(p, sink, wsink) ==
    /\ status \in {"COMPLETED_UNRECONCILED", "RECONCILED"}
    /\ actor # None
    /\ Decided = ObservedInputs
    /\ Call(p, "reconcile",
            [NoJob EXCEPT !.work = Relied, !.resume = TRUE,
                          !.mark = (status = "COMPLETED_UNRECONCILED"),
                          !.sink = sink, !.wsink = wsink])

(* resume_reconciliation_exports: takes no declarations, and refuses an    *)
(* incomplete set of decisions before its first side effect.               *)
ResumeStart(p, sink, wsink) ==
    /\ status \in Closed \cup {"COMPLETED_UNRECONCILED"}
    /\ actor # None
    /\ Decided = ObservedInputs
    /\ Call(p, "reconcile",
            [NoJob EXCEPT !.work = Relied, !.resume = TRUE,
                          !.mark = (status = "COMPLETED_UNRECONCILED"),
                          !.sink = sink, !.wsink = wsink])

-----------------------------------------------------------------------------
(* The export loop of both, one decision at a time.                        *)

Export(p, k) ==
    /\ pc[p] = "reconcile"
    /\ job[p].todo = {}
    /\ k \in job[p].work
    /\ \/ /\ exported[k] # 0
          /\ job' = [job EXCEPT ![p].key = k]
          /\ Goto(p, "propose")
       \/ /\ exported[k] = 0
          /\ job[p].sink
          /\ job' = [job EXCEPT ![p].key = k]
          /\ Goto(p, "sink")
       \/ /\ exported[k] = 0     \* no reliance sink: pending
          /\ ~job[p].sink
          /\ IF job[p].resume
             THEN Return(p)
             ELSE /\ job' = [job EXCEPT ![p].work = @ \ {k}, ![p].mark = FALSE]
                  /\ UNCHANGED pc
    /\ UNCHANGED <<session, exports, current, lock>>

ReceiptsFor(k) == {r \in receipts : r.key = k}

(* A receipt for the idempotency key exists: accepted only if it pins the  *)
(* revision that was decided on.                                           *)
UseExisting(p) ==
    \E r \in ReceiptsFor(job[p].key) :
        IF r.pin = job[p].key[2]
        THEN /\ job' = [job EXCEPT ![p].id = r.id, ![p].pin = None]
             /\ Goto(p, "record")
        ELSE Return(p)

(* commit_reliance, before issue: the source must still be at the decided  *)
(* revision.                                                               *)
SinkCheck(p) ==
    /\ pc[p] = "sink"
    /\ IF ReceiptsFor(job[p].key) # {} THEN UseExisting(p)
       ELSE IF current[job[p].key[1]] = job[p].key[2]
            THEN Goto(p, "issue") /\ UNCHANGED job
            ELSE Return(p)
    /\ UNCHANGED <<session, exports, current, lock>>

(* RelianceStore.issue: the basis is read, with the revision to pin ...     *)
IssueBasis(p) ==
    /\ pc[p] = "issue"
    /\ IF ReceiptsFor(job[p].key) # {} THEN UseExisting(p)
       ELSE /\ job' = [job EXCEPT ![p].pin = current[job[p].key[1]]]
            /\ Goto(p, "confirm")
    /\ UNCHANGED <<session, exports, current, lock>>

(* ... and read again: a basis that moved in between raises.               *)
IssueConfirm(p) ==
    /\ pc[p] = "confirm"
    /\ IF current[job[p].key[1]] = job[p].pin
       THEN Goto(p, "insert") /\ UNCHANGED job
       ELSE Return(p)
    /\ UNCHANGED <<session, exports, current, lock>>

IssueInsert_NoKey(p) ==
    /\ pc[p] = "insert"
    /\ SinkCanWrite
    /\ LET n == Cardinality(ReceiptsFor(job[p].key)) + 1
       IN /\ receipts' = receipts \cup {[key |-> job[p].key, id |-> n, pin |-> job[p].pin]}
          /\ IF job[p].pin = job[p].key[2]
             THEN /\ job' = [job EXCEPT ![p].id = n, ![p].pin = None]
                  /\ Goto(p, "record")
             ELSE Return(p)
    /\ UNCHANGED <<session, decided, exported, proposed, watches, acked, current, lock>>

(* The insert, unique per idempotency key.  commit_reliance compares the   *)
(* pin with the decision after the receipt is durable.                     *)
IssueInsert(p) ==
    /\ pc[p] = "insert"
    /\ SinkCanWrite
    /\ IF ReceiptsFor(job[p].key) # {}
       THEN UseExisting(p) /\ UNCHANGED receipts
       ELSE /\ receipts' = receipts \cup {[key |-> job[p].key, id |-> 1, pin |-> job[p].pin]}
            /\ IF job[p].pin = job[p].key[2]
               THEN /\ job' = [job EXCEPT ![p].id = 1, ![p].pin = None]
                    /\ Goto(p, "record")
               ELSE Return(p)
    /\ UNCHANGED <<session, decided, exported, proposed, watches, acked, current, lock>>

(* record_reliance_export: the export row and the observation that the     *)
(* input is relied on, in one transaction.                                 *)
RecordExport(p) ==
    /\ pc[p] = "record"
    /\ CanWrite(p)
    /\ IF exported[job[p].key] \in {0, job[p].id}
       THEN /\ exported' = [exported EXCEPT ![job[p].key] = job[p].id]
            /\ Commit
            /\ Goto(p, "propose")
            /\ UNCHANGED job
       ELSE /\ RaiseInTransaction(p)
            /\ UNCHANGED exported
    /\ UNCHANGED <<session, decided, receipts, proposed, watches, acked, current>>

(* The export of one decision is over; go on with the others.              *)
NextDecision(p) ==
    /\ Goto(p, "reconcile")
    /\ job' = [job EXCEPT ![p].work = @ \ {job[p].key}, ![p].key = None, ![p].id = 0]

(* ensure_watch_candidate, then the look at external_watch_ref.            *)
ProposeWatch(p) ==
    /\ pc[p] = "propose"
    /\ CanWrite(p)
    /\ proposed' = proposed \cup {job[p].key}
    /\ Commit
    /\ IF job[p].wsink /\ job[p].key \notin acked
       THEN Goto(p, "register") /\ UNCHANGED job
       ELSE NextDecision(p)
    /\ UNCHANGED <<session, decided, receipts, exported, watches, acked, current>>

(* register_watch: the watch id is a function of the candidate id.         *)
RegisterWatch(p) ==
    /\ pc[p] = "register"
    /\ Goto(p, IF job[p].key \in watches THEN "ack" ELSE "create")
    /\ UNCHANGED <<session, exports, current, lock, job>>

(* create_watch: a watch created in between is found by its check, and is  *)
(* the same watch; one created after that check raises IntegrityError.     *)
CreateWatch(p) ==
    /\ pc[p] = "create"
    /\ SinkCanWrite
    /\ IF job[p].key \in watches
       THEN /\ \/ Goto(p, "ack") /\ UNCHANGED job
               \/ Return(p)
            /\ UNCHANGED watches
       ELSE /\ watches' = watches \cup {job[p].key}
            /\ Goto(p, "ack")
            /\ UNCHANGED job
    /\ UNCHANGED <<session, decided, receipts, exported, proposed, acked, current, lock>>

(* record_external_watch_export                                            *)
AckWatch(p) ==
    /\ pc[p] = "ack"
    /\ CanWrite(p)
    /\ acked' = acked \cup {job[p].key}
    /\ Commit
    /\ NextDecision(p)
    /\ UNCHANGED <<session, decided, receipts, exported, proposed, watches, current>>

(* The checks of mark_reconciled_if_complete.                              *)
Complete ==
    /\ status = "COMPLETED_UNRECONCILED"
    /\ actor # None
    /\ Decided = ObservedInputs
    /\ \A k \in Relied : exported[k] # 0 /\ k \in proposed

(* The decisions are recorded and the exports done.                        *)
Finish(p) ==
    /\ pc[p] = "reconcile"
    /\ job[p].todo = {}
    /\ job[p].work = {}
    /\ IF job[p].mark /\ Complete
       THEN /\ job' = [job EXCEPT ![p] = [NoJob EXCEPT !.target = "RECONCILED"]]
            /\ Goto(p, "append")
       ELSE Return(p)
    /\ UNCHANGED <<session, exports, current, lock>>

-----------------------------------------------------------------------------
(* Environment and failures.                                               *)

(* A source gets another current revision.                                 *)
SourceMoves(c, r) ==
    /\ current[c] # r
    /\ current' = [current EXCEPT ![c] = r]
    /\ UNCHANGED <<session, exports, lock, pc, job>>

(* A connection left in a transaction is closed: rollback.                 *)
Close(p) ==
    /\ pc[p] = "idle"
    /\ lock = p
    /\ lock' = None
    /\ UNCHANGED <<session, exports, current, pc, job>>

WritingPC == {"discover", "observe", "append", "start", "record", "propose", "ack"}
SinkPC    == {"insert", "create"}

(* sqlite3.connect(timeout=15): database is locked.                        *)
LockTimeout(p) ==
    /\ \/ pc[p] \in WritingPC /\ ~CanWrite(p)
       \/ pc[p] = "reconcile" /\ job[p].todo # {} /\ ~CanWrite(p)
       \/ pc[p] \in SinkPC /\ ~SinkCanWrite
    /\ Return(p)
    /\ UNCHANGED <<session, exports, current, lock>>

(* The process dies, or a sink raises.                                     *)
Crash(p) ==
    /\ p \in Mortal
    /\ pc[p] # "idle"
    /\ Return(p)
    /\ lock' = IF lock = p THEN None ELSE lock
    /\ UNCHANGED <<session, exports, current>>

-----------------------------------------------------------------------------
Capture(p) ==
    \E c \in Candidates :
        DiscoverStart(p, c) \/ \E r \in Revisions : ObserveStart(p, c, r)

Reconcile(p) ==
    \E f \in Declarations, a \in Actors, m \in SinkModes :
        ReconcileStart(p, f, a, m[1], m[2])

Resume(p) == \E m \in SinkModes : ResumeStart(p, m[1], m[2])

Request(p) ==
    \/ Capture(p) \/ Reconcile(p) \/ Resume(p)
    \/ \E target \in Statuses : TransitionStart(p, target)

(* What a running worker does by itself.                                   *)
Work(p) ==
    \/ Discover(p) \/ Observe(p) \/ Append(p)
    \/ StartRun(p) \/ Finish(p)
    \/ \E k \in Inputs, u \in Answers : RecordDecision(p, k, u)
    \/ \E k \in Inputs : Export(p, k)
    \/ SinkCheck(p) \/ IssueBasis(p) \/ IssueConfirm(p) \/ IssueInsert(p)
    \/ RecordExport(p) \/ ProposeWatch(p) \/ RegisterWatch(p) \/ CreateWatch(p) \/ AckWatch(p)
    \/ LockTimeout(p)

Next ==
    \/ \E p \in Workers : Request(p) \/ Work(p) \/ Close(p) \/ Crash(p)
    \/ \E c \in Moving, r \in Revisions \cup {None} : SourceMoves(c, r)

Spec == Init /\ [][Next]_vars

-----------------------------------------------------------------------------
(* Properties.                                                             *)

(* A session counts as reconciled, pushed or attested only when every      *)
(* input captured before it closed has its decision, and every yes has its *)
(* durable receipt acknowledged and a watch candidate: whichever workers   *)
(* reconcile and resume at the same time, and wherever they die            *)
(* (mark_reconciled_if_complete).  Inputs in "late" are excluded: their    *)
(* observation passed the OPEN check and was written after the close.      *)
ClosedMeansExported ==
    status \in Closed =>
        /\ ObservedInputs \ Decided \subseteq late
        /\ \A k \in Relied \ late : exported[k] # 0 /\ k \in proposed

(* reliance_bridge.py, commit_reliance: the receipt may not lose the       *)
(* revision the decision pins ("reliance receipt lost WorkSession source   *)
(* revision pin").  No run checks this: a receipt for another revision can *)
(* become durable before it is refused, as the README describes.           *)
ReceiptPinsDecision == \A r \in receipts : r.pin = r.key[2]

(* _ALLOWED_TRANSITIONS and transition: the lifecycle of a session only    *)
(* ever takes the steps of the table.  No run checks this: two processes   *)
(* that both read OPEN break it, as the README describes.                  *)
LifecycleOrdered ==
    [][status' # status => <<status, status'>> \in AllowedTransitions]_vars

-----------------------------------------------------------------------------
(* Refinement of RelianceExport.                                           *)

(* The receipt was issued for another revision than the decided one.       *)
Misbound(k) == \E r \in ReceiptsFor(k) : r.pin # k[2]

(* One receipt, and what is exported is that receipt, for that revision.   *)
Bound(k) ==
    \E r \in receipts :
        /\ ReceiptsFor(k) = {r}
        /\ exported[k] \in (IF r.pin = k[2] THEN {0, r.id} ELSE {0})

stage ==
    [k \in Inputs |->
        CASE ReceiptsFor(k) = {} /\ exported[k] = 0 -> decided[k]
          [] ReceiptsFor(k) = {} /\ exported[k] # 0 -> "unbacked"
          [] ReceiptsFor(k) # {} /\ ~Bound(k)       -> "unbacked"
          [] OTHER -> IF k \in acked THEN "acknowledged"
                      ELSE IF k \in watches THEN "watched"
                      ELSE IF k \in proposed THEN "watchable"
                      ELSE IF exported[k] # 0 THEN "exported"
                      ELSE IF Misbound(k) THEN "misbound" ELSE "receipt"]

Authority == INSTANCE RelianceExport WITH stage <- stage, Inputs <- Inputs

(* The exports of a session follow RelianceExport: no receipt without an   *)
(* explicit yes, at most one receipt per decision, and receipt, export,    *)
(* candidate, watch and acknowledgement in this order, under concurrent    *)
(* and repeated reconciliation and recovery (idempotency key, INSERT OR    *)
(* IGNORE with read-back, deterministic watch ids).                        *)
ExportSpec == Authority!Spec

-----------------------------------------------------------------------------
(* Liveness.                                                               *)

(* Workers finish what they start, and each worker that does not die calls *)
(* recovery with both sinks whenever it is free for ever.                  *)
FairSpec ==
    /\ Spec
    /\ \A p \in Workers : WF_vars(Work(p))
    /\ \A p \in Workers \ Mortal : SF_vars(ResumeStart(p, TRUE, TRUE))

(* Recovery can do its work: decisions cover the inputs, the sources stay  *)
(* at the decided revisions, no receipt is bound to another one, and no    *)
(* failed connection holds the database.                                   *)
Recoverable ==
    /\ status \in Closed \cup {"COMPLETED_UNRECONCILED"}
    /\ actor # None
    /\ Decided = ObservedInputs
    /\ \A k \in Relied : current[k[1]] = k[2] /\ ~Misbound(k)
    /\ lock = None

(* A crash at any point between decision, receipt, export, candidate,      *)
(* watch and acknowledgement is made good by recovery, also after the      *)
(* session was pushed and attested (reconciliation_recovery.py, 149-151).  *)
ExportsComplete ==
    <>[]Recoverable => <>[](Relied \subseteq acked)
=============================================================================
