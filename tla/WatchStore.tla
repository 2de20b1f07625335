------------------------------ MODULE WatchStore ------------------------------
(***************************************************************************)
(* One watch over one source: configuration revisions, evaluations of      *)
(* snapshots, and alerts (watch_store.py), driven by create_monitor,       *)
(* refresh_watch and run_due_monitors.                                     *)
(*                                                                         *)
(* Workers are web threads, the monitor scheduler, CLI and MCP processes.  *)
(* Every store call opens a connection of its own, so each read and each   *)
(* insert of evaluate_snapshot and append_watch_revision is a step, and    *)
(* workers evaluate at the same time.  Time stamps come from one clock     *)
(* with microseconds; two evaluations never get the same one here.         *)
(***************************************************************************)
EXTENDS Naturals, Sequences, FiniteSets

CONSTANTS
    Revisions,      \* exact revisions of the source
    Workers,
    Creator,        \* the worker inside create_monitor
    AlertSets,      \* values of alert_on
    MaxSnapshots,   \* bound: snapshots captured of the source
    MaxConfigs,     \* bound: configuration revisions
    None

Events == {"changed", "unavailable", "recovered"}

ASSUME CreatorWorks == Creator \in Workers
ASSUME AlertSetsFit == AlertSets # {} /\ AlertSets \subseteq SUBSET Events
ASSUME BoundsPos == MaxSnapshots \in Nat \ {0} /\ MaxConfigs \in Nat \ {0}
ASSUME NoneIsFresh ==
    None \notin Revisions \cup Workers \cup {"unavailable", "not_assessable"}

(* What a snapshot shows: a revision with its digest, or why there is none.*)
Observed == Revisions \cup {"unavailable", "not_assessable"}

VARIABLES
    snaps,    \* snapshots of the source, in the order they were recorded
    configs,  \* rows of testamur_watch_revisions
    evals,    \* rows of testamur_watch_evaluations
    alerts,   \* rows of testamur_alerts
    clock,    \* the latest time stamp handed out
    pc, job

vars == <<snaps, configs, evals, alerts, clock, pc, job>>

(* "by" is the worker whose call wrote the revision: two calls never write *)
(* identical rows.                                                         *)
Config == [ord : 1..MaxConfigs, parent : 0..MaxConfigs,
           alert_on : AlertSets, by : Workers]

(* An evaluation is known by its time stamp; prev is 0 for the first one.  *)
Evaluation == [at : Nat, snap : 1..MaxSnapshots, prev : Nat,
               event : Events \cup {None}, cfg : Config]

Alert == [eval : Evaluation, event : Events]

NoJob == [snap |-> 0, cfg |-> None, prev |-> 0, event |-> None, at |-> 0]
Job   == [snap : 0..MaxSnapshots, cfg : Config \cup {None}, prev : Nat,
          event : Events \cup {None}, at : Nat]

PC == {"idle", "baseline", "config", "duplicate", "previous", "stamp",
       "insert", "alert", "check", "append"}

TypeOK ==
    /\ snaps \in Seq(Observed) /\ Len(snaps) <= MaxSnapshots
    /\ configs \subseteq Config
    /\ evals \subseteq Evaluation
    /\ alerts \subseteq Alert
    /\ clock \in Nat
    /\ pc \in [Workers -> PC]
    /\ job \in [Workers -> Job]

(* create_watch has committed the watch and its first configuration; the   *)
(* source may have been captured before.                                   *)
Init ==
    /\ snaps \in {<<>>} \cup {<<o>> : o \in Observed}
    /\ \E a \in AlertSets :
          configs = {[ord |-> 1, parent |-> 0, alert_on |-> a, by |-> Creator]}
    /\ evals = {}
    /\ alerts = {}
    /\ clock = 0
    /\ pc = [p \in Workers |-> IF p = Creator THEN "baseline" ELSE "idle"]
    /\ job = [p \in Workers |-> NoJob]

-----------------------------------------------------------------------------
Goto(p, label) == pc' = [pc EXCEPT ![p] = label]

Return(p) ==
    /\ pc' = [pc EXCEPT ![p] = "idle"]
    /\ job' = [job EXCEPT ![p] = NoJob]

HighestOrdinal == CHOOSE n \in 0..MaxConfigs :
    /\ \A c \in configs : c.ord <= n
    /\ n = 0 \/ \E c \in configs : c.ord = n

(* latest_watch_revision                                                   *)
IsHead(c) == c \in configs /\ c.ord = HighestOrdinal

(* latest_evaluation: ordered by time stamp, not by insertion.             *)
LatestEvaluation ==
    IF evals = {} THEN 0
    ELSE (CHOOSE e \in evals : \A f \in evals : f.at <= e.at).at

(* What the evaluation with this stamp looked at; None before the first.   *)
Shown(at) ==
    IF at = 0 THEN None ELSE snaps[(CHOOSE e \in evals : e.at = at).snap]

TransitionEvent_OnlyFromAvailable(before, now) ==
    IF now = "unavailable"
    THEN IF before \in Revisions THEN "unavailable" ELSE None
    ELSE IF now = "not_assessable" \/ before = None THEN None
    ELSE IF before \notin Revisions THEN "recovered"
    ELSE IF now # before THEN "changed" ELSE None

(* _transition: the event of an observation after the previous one.        *)
TransitionEvent(before, now) ==
    IF now = "unavailable"
    THEN IF before # "unavailable" THEN "unavailable" ELSE None
    ELSE IF now = "not_assessable" \/ before = None THEN None
    ELSE IF before \notin Revisions THEN "recovered"
    ELSE IF now # before THEN "changed" ELSE None

-----------------------------------------------------------------------------
(* Evaluation.                                                             *)

(* refresh_watch: fetch records a new snapshot, then evaluates it.         *)
Refresh(p, o) ==
    /\ pc[p] = "idle" \/ (pc[p] = "baseline" /\ snaps = <<>>)
    /\ Len(snaps) < MaxSnapshots
    /\ snaps' = Append(snaps, o)
    /\ job' = [job EXCEPT ![p].snap = Len(snaps) + 1]
    /\ Goto(p, "config")
    /\ UNCHANGED <<configs, evals, alerts, clock>>

(* create_monitor on a source that has been captured: the latest snapshot, *)
(* which another worker may have captured for this very watch.             *)
Baseline(p) ==
    /\ pc[p] = "baseline"
    /\ snaps # <<>>
    /\ job' = [job EXCEPT ![p].snap = Len(snaps)]
    /\ Goto(p, "config")
    /\ UNCHANGED <<snaps, configs, evals, alerts, clock>>

ReadConfig(p) ==
    /\ pc[p] = "config"
    /\ \E c \in configs : IsHead(c) /\ job' = [job EXCEPT ![p].cfg = c]
    /\ Goto(p, "duplicate")
    /\ UNCHANGED <<snaps, configs, evals, alerts, clock>>

(* An evaluation of this snapshot is reused with whatever alert it has.    *)
FindDuplicate(p) ==
    /\ pc[p] = "duplicate"
    /\ IF \E e \in evals : e.snap = job[p].snap
       THEN Return(p)
       ELSE Goto(p, "previous") /\ UNCHANGED job
    /\ UNCHANGED <<snaps, configs, evals, alerts, clock>>

ReadPrevious(p) ==
    /\ pc[p] = "previous"
    /\ job' = [job EXCEPT ![p].prev = LatestEvaluation,
                          ![p].event = TransitionEvent(Shown(LatestEvaluation),
                                                       snaps[job[p].snap])]
    /\ Goto(p, "stamp")
    /\ UNCHANGED <<snaps, configs, evals, alerts, clock>>

Stamp(p) ==
    /\ pc[p] = "stamp"
    /\ clock' = clock + 1
    /\ job' = [job EXCEPT ![p].at = clock + 1]
    /\ Goto(p, "insert")
    /\ UNCHANGED <<snaps, configs, evals, alerts>>

(* The row a worker is about to insert.                                    *)
Row(p) == [at |-> job[p].at, snap |-> job[p].snap, prev |-> job[p].prev,
           event |-> job[p].event, cfg |-> job[p].cfg]

InsertEvaluation_LiveConfig(p) ==
    /\ pc[p] = "insert"
    /\ \E c \in configs :
          IsHead(c) /\ evals' = evals \cup {[Row(p) EXCEPT !.cfg = c]}
    /\ IF job[p].event \in job[p].cfg.alert_on
       THEN Goto(p, "alert") /\ UNCHANGED job
       ELSE Return(p)
    /\ UNCHANGED <<snaps, configs, alerts, clock>>

InsertEvaluation(p) ==
    /\ pc[p] = "insert"
    /\ evals' = evals \cup {Row(p)}
    /\ IF job[p].event \in job[p].cfg.alert_on
       THEN Goto(p, "alert") /\ UNCHANGED job
       ELSE Return(p)
    /\ UNCHANGED <<snaps, configs, alerts, clock>>

(* _record_alert, in a transaction of its own.                             *)
InsertAlert(p) ==
    /\ pc[p] = "alert"
    /\ \E e \in evals :
          /\ e.at = job[p].at
          /\ alerts' = alerts \cup {[eval |-> e, event |-> job[p].event]}
    /\ Return(p)
    /\ UNCHANGED <<snaps, configs, evals, clock>>

-----------------------------------------------------------------------------
(* append_watch_revision.                                                  *)

(* The caller names the parent it has seen; the head must be that one.     *)
AppendStart(p, c) ==
    /\ pc[p] = "idle"
    /\ IsHead(c)
    /\ c.ord < MaxConfigs
    /\ job' = [job EXCEPT ![p].cfg = c]
    /\ Goto(p, "check")
    /\ UNCHANGED <<snaps, configs, evals, alerts, clock>>

(* The head is read again, outside of the transaction of the insert.       *)
AppendCheck(p) ==
    /\ pc[p] = "check"
    /\ IF IsHead(job[p].cfg) THEN Goto(p, "append") /\ UNCHANGED job ELSE Return(p)
    /\ UNCHANGED <<snaps, configs, evals, alerts, clock>>

AppendInsert_NoUnique(p, a) ==
    /\ pc[p] = "append"
    /\ configs' = configs \cup {[ord |-> job[p].cfg.ord + 1, parent |-> job[p].cfg.ord,
                                 alert_on |-> a, by |-> p]}
    /\ Return(p)
    /\ UNCHANGED <<snaps, evals, alerts, clock>>

(* UNIQUE(watch_id, ordinal) refuses the second child of a parent.         *)
AppendInsert(p, a) ==
    /\ pc[p] = "append"
    /\ IF \E c \in configs : c.ord = job[p].cfg.ord + 1
       THEN UNCHANGED configs
       ELSE configs' = configs \cup {[ord |-> job[p].cfg.ord + 1,
                                      parent |-> job[p].cfg.ord,
                                      alert_on |-> a, by |-> p]}
    /\ Return(p)
    /\ UNCHANGED <<snaps, evals, alerts, clock>>

(* A process dies or a statement raises, between two of its transactions.  *)
Crash(p) ==
    /\ pc[p] # "idle"
    /\ Return(p)
    /\ UNCHANGED <<snaps, configs, evals, alerts, clock>>

-----------------------------------------------------------------------------
ReadPreviousStamped(p) ==
    /\ pc[p] = "previous"
    /\ IF job[p].at = 0
       THEN /\ clock' = clock + 1
            /\ job' = [job EXCEPT ![p].at = clock + 1]
            /\ UNCHANGED pc
       ELSE /\ job' = [job EXCEPT ![p].prev = LatestEvaluation,
                                  ![p].event = TransitionEvent(Shown(LatestEvaluation),
                                                               snaps[job[p].snap])]
            /\ Goto(p, "insert")
            /\ UNCHANGED clock
    /\ UNCHANGED <<snaps, configs, evals, alerts>>

Evaluate_StampFirst(p) ==
    \/ \E o \in Observed : Refresh(p, o)
    \/ Baseline(p) \/ ReadConfig(p) \/ FindDuplicate(p) \/ ReadPreviousStamped(p)
    \/ InsertEvaluation(p) \/ InsertAlert(p)

Evaluate(p) ==
    \/ \E o \in Observed : Refresh(p, o)
    \/ Baseline(p) \/ ReadConfig(p) \/ FindDuplicate(p) \/ ReadPrevious(p)
    \/ Stamp(p) \/ InsertEvaluation(p) \/ InsertAlert(p)

Configure(p) ==
    \/ \E c \in configs : AppendStart(p, c)
    \/ AppendCheck(p)
    \/ \E a \in AlertSets : AppendInsert(p, a)

Next == \E p \in Workers : Evaluate(p) \/ Configure(p) \/ Crash(p)

Spec == Init /\ [][Next]_vars

-----------------------------------------------------------------------------
(* Properties.                                                             *)

(* TESTAMUR_WATCH_ALERT.md 7: a stale caller never overwrites or forks the *)
(* configuration.  Callers that all passed the head check still append one *)
(* child per parent, so the revisions are one chain without gaps.          *)
ConfigChain ==
    /\ \A c, d \in configs : c.ord = d.ord => c = d
    /\ \A c \in configs : c.parent = c.ord - 1
    /\ {c.ord : c \in configs} = 1..Cardinality(configs)

(* The previous evaluation an evaluation names exists and is older, also   *)
(* when evaluations overlap and are inserted out of order: following       *)
(* previous_evaluation_id always ends.                                     *)
PreviousIsOlder ==
    \A e \in evals :
        e.prev # 0 => e.prev < e.at /\ \E f \in evals : f.at = e.prev

(* TESTAMUR_WATCH_ALERT.md 6: an alert reports the event of its evaluation *)
(* and the configuration pinned by that evaluation enables it, although    *)
(* the configuration may change between the evaluation's steps; and it is  *)
(* the only alert of that evaluation.                                      *)
AlertJustified ==
    \A a \in alerts :
        /\ a.event = a.eval.event
        /\ a.event \in a.eval.cfg.alert_on
        /\ \A b \in alerts : a.eval = b.eval => a = b

ShownBy(e) == snaps[e.snap]

(* The outage that unavailable evaluation e belongs to, up to e.           *)
Outage(e) ==
    {u \in evals :
        /\ u.at <= e.at
        /\ \A x \in evals : x.at \in u.at..e.at => ShownBy(x) = "unavailable"}

(* TESTAMUR_WATCH_ALERT.md 4: an outage has one "unavailable" event, not   *)
(* none and not one per observation.                                       *)
OutageAnnouncedOnce ==
    \A e \in evals :
        ShownBy(e) = "unavailable"
        => Cardinality({u \in Outage(e) : u.event = "unavailable"}) = 1

(* Evaluations that did not overlap.                                       *)
InOrder ==
    \A e \in evals :
        /\ \A f \in evals : f.at < e.at => f.at <= e.prev
        /\ \A f \in evals : f.snap = e.snap => f = e

(* As long as evaluations do not overlap, an outage is announced once,     *)
(* through crashes, changes of configuration and unassessable snapshots.   *)
AnnouncedOnceInOrder == InOrder => OutageAnnouncedOnce
=============================================================================
