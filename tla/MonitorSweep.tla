---------------------------- MODULE MonitorSweep ----------------------------
(***************************************************************************)
(* Due monitors and their scheduler: run_due_monitors, refresh_monitor and *)
(* refresh_project_monitors (product_actions.py), and MonitorScheduler     *)
(* (monitor_scheduler.py), which polls one workspace after another.        *)
(*                                                                         *)
(* Runners are scheduler threads and callers (web requests, CLI calls).  A *)
(* sweep reads the watches, then each watch's cadence and latest           *)
(* evaluation, and only then refreshes what it found due; the others run   *)
(* in between.  Time is the fact that an interval has elapsed since the    *)
(* latest evaluation.  refresh_watch is one step here: WatchStore shows    *)
(* its interleavings.                                                      *)
(***************************************************************************)
EXTENDS Naturals, Sequences, FiniteSets, Functions, SequencesExt

CONSTANTS
    Services,   \* what services() returns: workspaces, some of them repeated
    Created,    \* the watches of each workspace in creation order
    Links,      \* the watches linked to one project
    Outcomes,   \* bound: what refreshing each watch may do
    Retimed,    \* bound: watches that become manual or get a cadence
    Loops,      \* bound: scheduler threads alive at once
    Callers,
    CallerSweeps, \* bound: the workspaces callers sweep
    None

Workspaces == Range(Services)
Watches    == UNION {Range(Created[s]) : s \in Workspaces}
Runners    == Loops \cup Callers

(* What refresh_watch does for a watch: it records an evaluation, it raises*)
(* KeyError or ValueError, or it raises something else (a corrupt blob, a  *)
(* locked database, a full disk).                                          *)
Health == {"ok", "rejected", "raises"}

ASSUME CreatedIsFit == DOMAIN Created = Workspaces
ASSUME LinksAreWatches == Range(Links) \subseteq Watches
ASSUME OutcomesFit ==
    /\ DOMAIN Outcomes = Watches
    /\ \A w \in Watches : Outcomes[w] # {} /\ Outcomes[w] \subseteq Health
ASSUME RetimedAreWatches == Retimed \subseteq Watches
ASSUME CallerSweepsFit == CallerSweeps \subseteq Workspaces
ASSUME RunnersDiffer == Loops \cap Callers = {} /\ None \notin Runners

VARIABLES
    cadence,   \* does the latest configuration have an interval_seconds?
    elapsed,   \* has the interval elapsed since the latest evaluation?
    health,
    stopping,  \* the scheduler's _stop event
    thread,    \* the scheduler's _thread
    joining,   \* is the owner inside stop()?
    pc, job

watchVars == <<cadence, elapsed, health>>
ownerVars == <<stopping, thread, joining>>
vars == <<watchVars, ownerVars, pc, job>>

(* queue: workspaces still to sweep; rows: watches still to inspect; due:  *)
(* watches to refresh; ripe: the ones of rows whose interval had elapsed   *)
(* at the "now" of the sweep and that nobody evaluated since.              *)
NoJob == [queue |-> <<>>, rows |-> <<>>, due |-> <<>>, ripe |-> {}]

PC == {"dead", "waiting", "idle", "busy"}

TypeOK ==
    /\ cadence \in [Watches -> BOOLEAN]
    /\ elapsed \in [Watches -> BOOLEAN]
    /\ health \in [Watches -> Health]
    /\ stopping \in BOOLEAN /\ joining \in BOOLEAN
    /\ thread \in Loops \cup {None}
    /\ pc \in [Runners -> PC]
    /\ job \in [Runners -> [queue : Seq(Workspaces), rows : Seq(Watches),
                            due : Seq(Watches), ripe : SUBSET Watches]]

Init ==
    /\ cadence = [w \in Watches |-> TRUE]
    /\ elapsed = [w \in Watches |-> TRUE]   \* never evaluated
    /\ health \in {h \in [Watches -> Health] : \A w \in Watches : h[w] \in Outcomes[w]}
    /\ stopping = FALSE /\ joining = FALSE
    /\ thread = None
    /\ pc = [p \in Runners |-> IF p \in Loops THEN "dead" ELSE "idle"]
    /\ job = [p \in Runners |-> NoJob]

Goto(p, label) == pc' = [pc EXCEPT ![p] = label]

Alive(l) == pc[l] # "dead"

-----------------------------------------------------------------------------
(* The world around a sweep.                                               *)

Elapse(w) ==
    /\ ~elapsed[w]
    /\ elapsed' = [elapsed EXCEPT ![w] = TRUE]
    /\ UNCHANGED <<cadence, health, ownerVars, pc, job>>

(* append_watch_revision gives the watch an interval or makes it manual.   *)
Configure(w) ==
    /\ w \in Retimed
    /\ cadence' = [cadence EXCEPT ![w] = ~@]
    /\ UNCHANGED <<elapsed, health, ownerVars, pc, job>>

ChangeHealth(w, h) ==
    /\ h \in Outcomes[w] \ {health[w]}
    /\ health' = [health EXCEPT ![w] = h]
    /\ UNCHANGED <<cadence, elapsed, ownerVars, pc, job>>

-----------------------------------------------------------------------------
(* The scheduler's owner.                                                  *)

(* start() returns at once while the thread it knows is alive.             *)
Start ==
    /\ ~joining
    /\ \A k \in Loops : thread = k => ~Alive(k)
    /\ \E l \in Loops : /\ ~Alive(l)
                        /\ stopping' = FALSE
                        /\ thread' = l
                        /\ Goto(l, "waiting")
    /\ UNCHANGED <<watchVars, joining, job>>

Stop ==
    /\ ~joining
    /\ stopping' = TRUE
    /\ joining' = TRUE
    /\ UNCHANGED <<watchVars, thread, pc, job>>

(* The join returns when the thread has ended or the timeout is over; the  *)
(* scheduler forgets the thread in both cases.                             *)
StopReturns ==
    /\ joining
    /\ joining' = FALSE
    /\ thread' = None
    /\ UNCHANGED <<watchVars, stopping, pc, job>>

-----------------------------------------------------------------------------
(* run_once, from the loop of a scheduler thread.                          *)

(* A database that several services share is swept once.                   *)
DistinctServices ==
    FoldSeq(LAMBDA s, seen : IF Contains(seen, s) THEN seen ELSE Append(seen, s),
            <<>>, Services)

Poll_Forever(l) ==
    /\ pc[l] = "waiting"
    /\ job' = [job EXCEPT ![l].queue = DistinctServices]
    /\ Goto(l, "busy")
    /\ UNCHANGED <<watchVars, ownerVars>>

(* _loop: the wait for the poll interval ends without the stop event.      *)
Poll(l) ==
    /\ pc[l] = "waiting"
    /\ ~stopping
    /\ job' = [job EXCEPT ![l].queue = DistinctServices]
    /\ Goto(l, "busy")
    /\ UNCHANGED <<watchVars, ownerVars>>

Exit(l) ==
    /\ pc[l] = "waiting"
    /\ stopping
    /\ Goto(l, "dead")
    /\ UNCHANGED <<watchVars, ownerVars, job>>

(* The next workspace; "now" is read before its watches are.               *)
SweepNext(p) ==
    /\ pc[p] = "busy"
    /\ job[p].rows = <<>> /\ job[p].due = <<>> /\ job[p].queue # <<>>
    /\ job' = [job EXCEPT ![p].queue = Tail(@),
                          ![p].rows = Created[Head(job[p].queue)],
                          ![p].ripe = {w \in Range(Created[Head(job[p].queue)]) :
                                        elapsed[w]}]
    /\ UNCHANGED <<watchVars, ownerVars, pc>>

Finish(p) ==
    /\ pc[p] = "busy"
    /\ job[p] = NoJob
    /\ Goto(p, IF p \in Loops THEN "waiting" ELSE "idle")
    /\ UNCHANGED <<watchVars, ownerVars, job>>

-----------------------------------------------------------------------------
(* run_due_monitors.                                                       *)

(* A manual watch is skipped; one with a cadence is due if its interval    *)
(* has elapsed.  Configuration and evaluation are two reads; as no step    *)
(* depends on both, one step stands for them.                              *)
Inspect(p) ==
    /\ pc[p] = "busy"
    /\ job[p].rows # <<>>
    /\ LET w == Head(job[p].rows)
       IN job' = [job EXCEPT ![p].rows = Tail(@),
                             ![p].due = IF cadence[w] /\ w \in job[p].ripe
                                        THEN Append(@, w) ELSE @,
                             ![p].ripe = @ \ {w}]
    /\ UNCHANGED <<watchVars, ownerVars, pc>>

(* refresh_monitor recorded an evaluation of w.                            *)
Refreshed(p, w) ==
    /\ health[w] = "ok"
    /\ elapsed' = [elapsed EXCEPT ![w] = FALSE]
    /\ job' = [q \in Runners |->
                 IF q = p THEN [job[q] EXCEPT !.due = Tail(@), !.ripe = @ \ {w}]
                 ELSE [job[q] EXCEPT !.ripe = @ \ {w}]]
    /\ UNCHANGED <<cadence, health, ownerVars, pc>>

(* An error envelope: the watch counts as failed, the sweep goes on.       *)
Failed(p, w) ==
    /\ health[w] = "rejected"
    /\ job' = [job EXCEPT ![p].due = Tail(@)]
    /\ UNCHANGED <<watchVars, ownerVars, pc>>

Raised_EndsRun(p, w) ==
    /\ health[w] = "raises"
    /\ job' = [job EXCEPT ![p] = NoJob]
    /\ Goto(p, IF p \in Loops THEN "dead" ELSE "idle")
    /\ UNCHANGED <<watchVars, ownerVars>>

(* refresh_monitor does not catch it: the sweep of this workspace ends,    *)
(* with the watches after w not refreshed.  run_once goes on with the next *)
(* workspace; a caller gets the exception.                                 *)
Raised(p, w) ==
    /\ health[w] = "raises"
    /\ job' = [job EXCEPT ![p].due = <<>>]
    /\ UNCHANGED <<watchVars, ownerVars, pc>>

RefreshMonitor(p) ==
    /\ pc[p] = "busy"
    /\ job[p].rows = <<>> /\ job[p].due # <<>>
    /\ LET w == Head(job[p].due)
       IN Refreshed(p, w) \/ Failed(p, w) \/ Raised(p, w)

-----------------------------------------------------------------------------
(* Web requests and command line calls.                                    *)

CallRunDue(c, s) ==
    /\ pc[c] = "idle"
    /\ s \in CallerSweeps
    /\ job' = [job EXCEPT ![c].queue = <<s>>]
    /\ Goto(c, "busy")
    /\ UNCHANGED <<watchVars, ownerVars>>

(* refresh_project_monitors refreshes all linked watches, due or not.      *)
CallRefreshProject(c) ==
    /\ pc[c] = "idle"
    /\ job' = [job EXCEPT ![c].due = Links]
    /\ Goto(c, "busy")
    /\ UNCHANGED <<watchVars, ownerVars>>

-----------------------------------------------------------------------------
Sweep(p) ==
    SweepNext(p) \/ Inspect(p) \/ RefreshMonitor(p) \/ Finish(p)

LoopStep(l) == Poll(l) \/ Exit(l) \/ Sweep(l)

World ==
    \/ \E w \in Watches : Elapse(w) \/ Configure(w)
    \/ \E w \in Watches, h \in Health : ChangeHealth(w, h)

Owner == Start \/ Stop \/ StopReturns

Next ==
    \/ World
    \/ Owner
    \/ \E l \in Loops : LoopStep(l)
    \/ \E c \in Callers : \/ \E s \in Workspaces : CallRunDue(c, s)
                          \/ CallRefreshProject(c)
                          \/ Sweep(c)

(* Threads run, a wait with a timeout ends, and so does a join.            *)
Fairness ==
    /\ \A l \in Loops : WF_vars(LoopStep(l))
    /\ \A c \in Callers : WF_vars(Sweep(c))
    /\ WF_vars(StopReturns)

Spec == Init /\ [][Next]_vars /\ Fairness

-----------------------------------------------------------------------------
(* Properties.                                                             *)

(* Once stop() has been called for good every loop ends, the ones an       *)
(* earlier stop() gave up included: daemon threads do not poll on.         *)
StopEndsEveryLoop ==
    <>[]stopping => <>[](\A l \in Loops : ~Alive(l))

Before(v, w) ==
    \E s \in Workspaces : \E i, j \in DOMAIN Created[s] :
        i < j /\ Created[s][i] = v /\ Created[s][j] = w

(* Another exception than KeyError and ValueError may come only from       *)
(* watches created later or in another workspace.                          *)
NothingRaisesBefore(w) ==
    \A v \in Watches : Before(v, w) => health[v] # "raises"

Polling == thread # None /\ ~stopping /\ ~joining

(* While the scheduler polls, a watch with a cadence that can be refreshed *)
(* is refreshed again and again, whatever happens to watches after it and  *)
(* in other workspaces, and however sweeps of callers overlap with it.     *)
DueIsServed ==
    \A w \in Watches :
        <>[](Polling /\ cadence[w] /\ health[w] = "ok" /\ NothingRaisesBefore(w))
        => []<>(~elapsed[w])

(* product_actions.py:404 says of a due run that it is best effort per     *)
(* monitor: no other watch can keep a refreshable one from being served.   *)
(* No run checks this: one that raises does, as the README describes.      *)
BestEffortPerMonitor ==
    \A w \in Watches :
        <>[](Polling /\ cadence[w] /\ health[w] = "ok") => []<>(~elapsed[w])
=============================================================================
