--------------------------- MODULE WatchStore_proof ---------------------------
(***************************************************************************)
(* Proofs about WatchStore for any revisions, workers and values of        *)
(* alert_on, and any bounds.  The inductive invariant says where a worker  *)
(* is in its call (JobFits), that time stamps are handed out once          *)
(* (StampsApart), that rows come in time order (RowsInTime), that events   *)
(* are the transitions they report (EventsFit), and that the UNIQUE        *)
(* ordinals number the configurations without a gap (ConfigsCounted).      *)
(***************************************************************************)
EXTENDS WatchStore, FiniteSetTheorems, WellFoundedInduction, TLAPS

(* A set of time stamps has a least one.                                   *)
LEMMA LeastNatural ==
    ASSUME NEW T, T \subseteq Nat, T # {}
    PROVE  \E a \in T : \A b \in T : a <= b
<1> DEFINE Less == {xy \in Nat \X Nat : xy[1] < xy[2]}
<1>1. IsWellFoundedOn(Less, Nat)
  BY NatLessThanWellFounded DEF OpToRel
<1>2. \A x, y \in Nat : <<y, x>> \notin Less => x <= y
  OBVIOUS
<1> HIDE DEF Less
<1>3. PICK a \in T : \A b \in T : ~ (<<b, a>> \in Less)
  BY <1>1, WFMin, Zenon
<1> QED BY <1>2, <1>3

USE CreatorWorks, AlertSetsFit, BoundsPos, NoneIsFresh

HasConfig == {"duplicate", "previous", "stamp", "insert", "alert", "check", "append"}
HasSnap   == {"config", "duplicate", "previous", "stamp", "insert", "alert"}
Assessed  == {"stamp", "insert", "alert"}
Stamped   == {"insert", "alert"}

(* A running call has the local variables it uses.                         *)
JobFit(p) ==
    /\ pc[p] \in HasConfig => job[p].cfg \in configs
    /\ pc[p] \in {"check", "append"} => job[p].cfg.ord < MaxConfigs
    /\ pc[p] \in HasSnap => job[p].snap \in 1..Len(snaps)
    /\ pc[p] \in Assessed /\ job[p].prev # 0 => \E f \in evals : f.at = job[p].prev
    /\ pc[p] \in Stamped => job[p].at \in 1..clock /\ job[p].prev < job[p].at
    /\ pc[p] = "alert" => Row(p) \in evals /\ job[p].event \in job[p].cfg.alert_on

JobFits == \A p \in Workers : JobFit(p)

(* A time stamp belongs to one call, and to one evaluation once it is      *)
(* inserted; an alert comes after its evaluation.                          *)
StampsApart ==
    /\ \A p, q \in Workers :
          pc[p] \in Stamped /\ pc[q] \in Stamped /\ job[p].at = job[q].at => p = q
    /\ \A p \in Workers : pc[p] = "insert" => \A e \in evals : e.at # job[p].at
    /\ \A p \in Workers : pc[p] = "alert" => \A a \in alerts : a.eval.at # job[p].at
    /\ \A e, f \in evals : e.at = f.at => e = f

(* Evaluations are dated in the past, show a snapshot, and follow an       *)
(* older evaluation if they follow one.                                    *)
RowsInTime ==
    \A e \in evals :
        /\ e.at \in 1..clock
        /\ e.snap \in 1..Len(snaps)
        /\ e.prev # 0 => e.prev < e.at /\ \E f \in evals : f.at = e.prev

(* An event is the transition from the previous evaluation's snapshot.     *)
EventsFit ==
    /\ \A e \in evals : e.event = TransitionEvent(Shown(e.prev), snaps[e.snap])
    /\ \A p \in Workers :
          pc[p] \in Assessed =>
            job[p].event = TransitionEvent(Shown(job[p].prev), snaps[job[p].snap])

(* There is a latest evaluation once there is one.                         *)
NewestExists == evals # {} => \E e \in evals : \A f \in evals : f.at <= e.at

AlertsOfEvaluations == \A a \in alerts : a.eval \in evals

ConfigsCounted == IsFiniteSet(configs) /\ ConfigChain

IInv ==
    /\ TypeOK
    /\ JobFits
    /\ StampsApart
    /\ RowsInTime
    /\ EventsFit
    /\ NewestExists
    /\ AlertsOfEvaluations
    /\ AlertJustified
    /\ ConfigsCounted

-----------------------------------------------------------------------------
(* What an evaluation of the rows es over the snapshots ss showed.         *)
ShownIn(es, ss, at) ==
    IF at = 0 THEN None ELSE ss[(CHOOSE e \in es : e.at = at).snap]

LEMMA ShownIsIn == \A at : Shown(at) = ShownIn(evals, snaps, at)
BY DEF Shown, ShownIn

LEMMA ShownIsInNext == \A at : Shown(at)' = ShownIn(evals', snaps', at)
BY DEF Shown, ShownIn

(* More rows and snapshots do not change what an evaluation showed.        *)
LEMMA ShownStays ==
    ASSUME NEW es, NEW fs, NEW ss, NEW ts, NEW at,
           es \subseteq fs,
           \A e, f \in fs : e.at = f.at => e = f,
           at # 0 => \E e \in es : e.at = at,
           \A e \in es : ts[e.snap] = ss[e.snap]
    PROVE  ShownIn(fs, ts, at) = ShownIn(es, ss, at)
<1>1. CASE at = 0
  BY <1>1 DEF ShownIn
<1>2. CASE at # 0
  <2>1. PICK f \in es : f.at = at
    BY <1>2
  <2>2. (CHOOSE e \in es : e.at = at) = f
    BY <2>1
  <2>3. (CHOOSE e \in fs : e.at = at) = f
    BY <2>1
  <2> QED BY <1>2, <2>2, <2>3 DEF ShownIn
<1> QED BY <1>1, <1>2

(* The first evaluation is baseline or pending; nothing else has happened. *)
LEMMA InitIInv == Init => IInv
<1> SUFFICES ASSUME Init PROVE IInv
  OBVIOUS
<1> USE DEF Init
<1>1. TypeOK
  <2>1. NoJob \in Job
    BY DEF NoJob, Job
  <2>2. snaps \in Seq(Observed) /\ Len(snaps) <= MaxSnapshots
    <3>1. CASE snaps = <<>>
      BY <3>1
    <3>2. ASSUME NEW o \in Observed, snaps = <<o>>
          PROVE  snaps \in Seq(Observed) /\ Len(snaps) <= MaxSnapshots
      BY <3>2
    <3> QED BY <3>1, <3>2
  <2>3. configs \subseteq Config
    BY DEF Config
  <2>4. pc \in [Workers -> PC] /\ job \in [Workers -> Job]
    BY <2>1 DEF PC
  <2> QED BY <2>2, <2>3, <2>4 DEF TypeOK
<1>2. JobFits /\ StampsApart /\ RowsInTime /\ EventsFit /\ NewestExists
  BY DEF JobFits, JobFit, StampsApart, RowsInTime, EventsFit, NewestExists,
     HasConfig, HasSnap, Assessed, Stamped
<1>3. AlertsOfEvaluations /\ AlertJustified
  BY DEF AlertsOfEvaluations, AlertJustified
<1>4. ConfigsCounted
  <2>1. PICK a \in AlertSets :
          configs = {[ord |-> 1, parent |-> 0, alert_on |-> a, by |-> Creator]}
    OBVIOUS
  <2>2. IsFiniteSet(configs) /\ Cardinality(configs) = 1
    BY <2>1, FS_Singleton
  <2>3. {c.ord : c \in configs} = 1..1
    BY <2>1
  <2>4. \A c, d \in configs : c.parent = c.ord - 1 /\ c = d
    BY <2>1
  <2> QED BY <2>2, <2>3, <2>4 DEF ConfigsCounted, ConfigChain
<1> QED BY <1>1, <1>2, <1>3, <1>4 DEF IInv

-----------------------------------------------------------------------------
(* Typing of the helpers.                                                  *)
LEMMA TransitionTyped ==
    \A before, now : TransitionEvent(before, now) \in Events \cup {None}
BY DEF TransitionEvent, Events

LEMMA GotoTyped ==
    ASSUME TypeOK, NEW p \in Workers, NEW label \in PC, Goto(p, label)
    PROVE  pc' \in [Workers -> PC]
BY DEF TypeOK, Goto

LEMMA ReturnTyped ==
    ASSUME TypeOK, NEW p \in Workers, Return(p)
    PROVE  pc' \in [Workers -> PC] /\ job' \in [Workers -> Job]
<1>1. NoJob \in Job /\ "idle" \in PC
  BY DEF NoJob, Job, PC
<1> QED BY <1>1 DEF TypeOK, Return

(* The latest evaluation is a row, or there is none.                       *)
LEMMA LatestIsRow ==
    ASSUME TypeOK, NewestExists
    PROVE  /\ LatestEvaluation \in Nat
           /\ LatestEvaluation # 0 => \E e \in evals : e.at = LatestEvaluation
           /\ \A f \in evals : f.at <= LatestEvaluation
<1>1. CASE evals = {}
  BY <1>1 DEF LatestEvaluation
<1>2. CASE evals # {}
  <2>1. PICK e \in evals : \A f \in evals : f.at <= e.at
    BY <1>2 DEF NewestExists
  <2> DEFINE E == CHOOSE x \in evals : \A f \in evals : f.at <= x.at
  <2>2. E \in evals /\ \A f \in evals : f.at <= E.at
    BY <2>1
  <2>3. LatestEvaluation = E.at
    BY <1>2 DEF LatestEvaluation
  <2> QED BY <2>2, <2>3 DEF TypeOK, Evaluation
<1> QED BY <1>1, <1>2

-----------------------------------------------------------------------------
(* Steps that leave the rows alone.                                        *)
LEMMA RowsKept ==
    ASSUME IInv, UNCHANGED <<snaps, configs, evals, alerts>>,
           clock' \in Nat, clock <= clock'
    PROVE  /\ RowsInTime' /\ NewestExists' /\ AlertsOfEvaluations'
           /\ AlertJustified' /\ ConfigsCounted'
<1>1. RowsInTime'
  BY DEF IInv, TypeOK, RowsInTime
<1>2. NewestExists' /\ AlertsOfEvaluations' /\ AlertJustified'
  BY DEF IInv, NewestExists, AlertsOfEvaluations, AlertJustified
<1>3. ConfigsCounted'
  BY DEF IInv, ConfigsCounted, ConfigChain
<1> QED BY <1>1, <1>2, <1>3

(* Neither do they change what an evaluation showed.                       *)
LEMMA ShownKept ==
    ASSUME UNCHANGED <<snaps, evals>>
    PROVE  \A at : Shown(at)' = Shown(at)
BY DEF Shown

(* What a call holds stays there while other calls add rows.               *)
LEMMA JobFitKept ==
    ASSUME JobFits, NEW q \in Workers, pc'[q] = pc[q], job'[q] = job[q],
           configs \subseteq configs', evals \subseteq evals',
           Len(snaps) \in Nat, Len(snaps') \in Nat, Len(snaps) <= Len(snaps'),
           clock \in Nat, clock' \in Nat, clock <= clock'
    PROVE  JobFit(q)'
<1>1. JobFit(q)
  BY DEF JobFits
<1>2. pc'[q] \in HasConfig => job'[q].cfg \in configs'
  BY <1>1 DEF JobFit
<1>3. pc'[q] \in {"check", "append"} => job'[q].cfg.ord < MaxConfigs
  BY <1>1 DEF JobFit
<1>4. pc'[q] \in HasSnap => job'[q].snap \in 1..Len(snaps')
  BY <1>1 DEF JobFit
<1>5. pc'[q] \in Assessed /\ job'[q].prev # 0
        => \E f \in evals' : f.at = job'[q].prev
  BY <1>1 DEF JobFit
<1>6. pc'[q] \in Stamped => job'[q].at \in 1..clock' /\ job'[q].prev < job'[q].at
  BY <1>1 DEF JobFit
<1>7. pc'[q] = "alert" =>
        Row(q)' \in evals' /\ job'[q].event \in job'[q].cfg.alert_on
  BY <1>1 DEF JobFit, Row
<1> QED BY <1>2, <1>3, <1>4, <1>5, <1>6, <1>7 DEF JobFit

(* A call that ends, normally or not.                                      *)
LEMMA ReturnKeeps ==
    ASSUME IInv, NEW p \in Workers, Return(p),
           UNCHANGED <<snaps, configs, evals, alerts, clock>>
    PROVE  IInv'
<1>1. TypeOK'
  BY ReturnTyped DEF IInv, TypeOK
<1>2. \A q \in Workers : q # p => pc'[q] = pc[q] /\ job'[q] = job[q]
  BY DEF IInv, TypeOK, Return
<1>3. pc'[p] = "idle"
  BY DEF IInv, TypeOK, Return
<1>4. JobFits'
  <2>1. JobFit(p)'
    BY <1>3 DEF JobFit, HasConfig, HasSnap, Assessed, Stamped
  <2> QED BY <1>2, <2>1, JobFitKept DEF IInv, TypeOK, JobFits
<1>5. StampsApart'
  BY <1>2, <1>3 DEF IInv, StampsApart, Stamped
<1>6. EventsFit'
  BY <1>2, <1>3, ShownKept DEF IInv, EventsFit, Assessed
<1> QED BY <1>1, <1>4, <1>5, <1>6, RowsKept DEF IInv, TypeOK

(* A call that goes on to the next of its steps with nothing to add.       *)
LEMMA GotoKeeps ==
    ASSUME IInv, NEW p \in Workers, NEW label \in PC, Goto(p, label),
           \/ pc[p] = "duplicate" /\ label = "previous"
           \/ pc[p] = "check" /\ label = "append",
           UNCHANGED <<snaps, configs, evals, alerts, clock, job>>
    PROVE  IInv'
<1>1. TypeOK'
  BY GotoTyped DEF IInv, TypeOK
<1>2. \A q \in Workers : q # p => pc'[q] = pc[q]
  BY DEF IInv, TypeOK, Goto
<1>3. pc'[p] = label
  BY DEF IInv, TypeOK, Goto
<1>4. JobFits'
  <2>1. JobFit(p)'
    BY <1>3 DEF IInv, JobFits, JobFit, HasConfig, HasSnap, Assessed, Stamped
  <2> QED BY <1>2, <2>1, JobFitKept DEF IInv, TypeOK, JobFits
<1>5. StampsApart'
  BY <1>2, <1>3 DEF IInv, StampsApart, Stamped
<1>6. EventsFit'
  BY <1>2, <1>3, ShownKept DEF IInv, EventsFit, Assessed
<1> QED BY <1>1, <1>4, <1>5, <1>6, RowsKept DEF IInv, TypeOK

-----------------------------------------------------------------------------
(* Evaluation.                                                             *)

(* A worker starts to evaluate the newest snapshot, its own or another's.  *)
LEMMA SnapshotChosen ==
    ASSUME IInv, NEW p \in Workers, Len(snaps') \in 1..MaxSnapshots,
           snaps' \in Seq(Observed), Len(snaps) <= Len(snaps'),
           \A i \in 1..Len(snaps) : snaps'[i] = snaps[i],
           job' = [job EXCEPT ![p].snap = Len(snaps')], Goto(p, "config"),
           UNCHANGED <<configs, evals, alerts, clock>>
    PROVE  IInv'
<1>1. /\ \A q \in Workers : q # p => pc'[q] = pc[q] /\ job'[q] = job[q]
      /\ pc'[p] = "config" /\ job'[p].snap = Len(snaps')
  BY DEF IInv, TypeOK, Goto, Job
<1>2. TypeOK'
  <2>1. Len(snaps') \in 0..MaxSnapshots
    OBVIOUS
  <2>2. job \in [Workers -> Job] /\ job[p] \in Job
    BY DEF IInv, TypeOK
  <2>3. job' \in [Workers -> Job]
    BY <2>1, <2>2 DEF Job
  <2> QED BY <2>3, GotoTyped DEF IInv, TypeOK, PC
<1>3. JobFits'
  <2>1. JobFit(p)'
    BY <1>1 DEF JobFit, HasConfig, HasSnap, Assessed, Stamped
  <2> QED BY <1>1, <2>1, JobFitKept DEF IInv, TypeOK, JobFits
<1>4. StampsApart'
  BY <1>1 DEF IInv, StampsApart, Stamped
<1>5. RowsInTime' /\ NewestExists'
  BY DEF IInv, TypeOK, RowsInTime, NewestExists
<1>6. EventsFit'
  <2>1. \A e \in evals : snaps'[e.snap] = snaps[e.snap]
    BY DEF IInv, RowsInTime
  <2>2. \A e \in evals : Shown(e.prev)' = Shown(e.prev)
    BY <2>1, ShownStays, ShownIsIn, ShownIsInNext DEF IInv, RowsInTime, StampsApart
  <2>3. \A q \in Workers :
           pc[q] \in Assessed => /\ Shown(job[q].prev)' = Shown(job[q].prev)
                                /\ snaps'[job[q].snap] = snaps[job[q].snap]
    BY <2>1, ShownStays, ShownIsIn, ShownIsInNext
    DEF IInv, JobFits, JobFit, StampsApart, Assessed, HasSnap
  <2>4. \A q \in Workers : pc'[q] \in Assessed => q # p
    BY <1>1 DEF Assessed
  <2>5. \A e \in evals :
           e.event' = TransitionEvent(Shown(e.prev)', snaps'[e.snap])
    BY <2>1, <2>2 DEF IInv, EventsFit
  <2>6. \A q \in Workers : pc'[q] \in Assessed =>
           job'[q].event = TransitionEvent(Shown(job[q].prev)', snaps'[job'[q].snap])
    BY <1>1, <2>3, <2>4 DEF IInv, EventsFit
  <2> QED BY <1>1, <2>4, <2>5, <2>6 DEF EventsFit
<1>7. AlertsOfEvaluations' /\ AlertJustified' /\ ConfigsCounted'
  BY DEF IInv, AlertsOfEvaluations, AlertJustified, ConfigsCounted, ConfigChain
<1> QED BY <1>2, <1>3, <1>4, <1>5, <1>6, <1>7 DEF IInv

LEMMA RefreshStep ==
    ASSUME IInv, NEW p \in Workers, NEW o \in Observed, Refresh(p, o)
    PROVE  IInv'
<1>1. snaps \in Seq(Observed) /\ snaps' = Append(snaps, o)
  BY DEF IInv, TypeOK, Refresh
<1>2. /\ snaps' \in Seq(Observed) /\ Len(snaps') = Len(snaps) + 1
      /\ Len(snaps) <= Len(snaps')
      /\ \A i \in 1..Len(snaps) : snaps'[i] = snaps[i]
  BY <1>1
<1>3. Len(snaps') \in 1..MaxSnapshots
  BY <1>1, <1>2 DEF Refresh
<1>4. /\ job' = [job EXCEPT ![p].snap = Len(snaps')]
      /\ Goto(p, "config") /\ UNCHANGED <<configs, evals, alerts, clock>>
  BY <1>2 DEF Refresh
<1> QED BY <1>2, <1>3, <1>4, SnapshotChosen, Zenon

LEMMA BaselineStep ==
    ASSUME IInv, NEW p \in Workers, Baseline(p)
    PROVE  IInv'
<1>1. snaps \in Seq(Observed) /\ Len(snaps) \in 1..Len(snaps)
  BY DEF IInv, TypeOK, Baseline
<1>2. /\ snaps' = snaps /\ snaps' \in Seq(Observed)
      /\ Len(snaps') \in 1..MaxSnapshots /\ Len(snaps) <= Len(snaps')
      /\ \A i \in 1..Len(snaps) : snaps'[i] = snaps[i]
  BY <1>1 DEF IInv, TypeOK, Baseline
<1>3. /\ job' = [job EXCEPT ![p].snap = Len(snaps')]
      /\ Goto(p, "config") /\ UNCHANGED <<configs, evals, alerts, clock>>
  BY <1>2 DEF Baseline
<1> QED BY <1>2, <1>3, SnapshotChosen, Zenon

(* A worker takes the head c as its configuration.                         *)
LEMMA ConfigTaken ==
    ASSUME IInv, NEW p \in Workers, NEW c \in configs, NEW label \in PC,
           job' = [job EXCEPT ![p].cfg = c], Goto(p, label),
           \/ pc[p] = "config" /\ label = "duplicate"
           \/ pc[p] = "idle" /\ label = "check" /\ c.ord < MaxConfigs,
           UNCHANGED <<snaps, configs, evals, alerts, clock>>
    PROVE  IInv'
<1>1. /\ \A q \in Workers : q # p => pc'[q] = pc[q] /\ job'[q] = job[q]
      /\ pc'[p] = label /\ job'[p].cfg = c /\ job'[p].snap = job[p].snap
  BY DEF IInv, TypeOK, Goto, Job
<1>2. TypeOK'
  <2>1. c \in Config /\ job \in [Workers -> Job] /\ job[p] \in Job
    BY DEF IInv, TypeOK
  <2>2. job' \in [Workers -> Job]
    BY <2>1 DEF Job
  <2> QED BY <2>2, GotoTyped DEF IInv, TypeOK
<1>3. JobFits'
  <2>1. JobFit(p)'
    BY <1>1 DEF IInv, JobFits, JobFit, HasConfig, HasSnap, Assessed, Stamped
  <2> QED BY <1>1, <2>1, JobFitKept DEF IInv, TypeOK, JobFits
<1>4. StampsApart'
  BY <1>1 DEF IInv, StampsApart, Stamped
<1>5. EventsFit'
  BY <1>1, ShownKept DEF IInv, EventsFit, Assessed
<1> QED BY <1>2, <1>3, <1>4, <1>5, RowsKept DEF IInv, TypeOK

LEMMA ReadConfigStep ==
    ASSUME IInv, NEW p \in Workers, ReadConfig(p)
    PROVE  IInv'
<1>1. PICK c \in configs : job' = [job EXCEPT ![p].cfg = c]
  BY DEF ReadConfig
<1>2. "duplicate" \in PC
  BY DEF PC
<1> QED BY <1>1, <1>2, ConfigTaken DEF ReadConfig

LEMMA FindDuplicateStep ==
    ASSUME IInv, NEW p \in Workers, FindDuplicate(p)
    PROVE  IInv'
<1>1. "previous" \in PC
  BY DEF PC
<1>2. CASE \E e \in evals : e.snap = job[p].snap
  BY <1>2, ReturnKeeps DEF FindDuplicate
<1>3. CASE ~ \E e \in evals : e.snap = job[p].snap
  BY <1>1, <1>3, GotoKeeps DEF FindDuplicate
<1> QED BY <1>2, <1>3

(* The event is the transition from the latest evaluation there is.        *)
LEMMA ReadPreviousStep ==
    ASSUME IInv, NEW p \in Workers, ReadPrevious(p)
    PROVE  IInv'
<1> DEFINE ev == TransitionEvent(Shown(LatestEvaluation), snaps[job[p].snap])
<1>1. LatestEvaluation \in Nat /\ ev \in Events \cup {None}
  BY LatestIsRow, TransitionTyped DEF IInv
<1>2. job \in [Workers -> Job] /\ job[p] \in Job
  BY DEF IInv, TypeOK
<1> HIDE DEF ev
<1>3. job' = [job EXCEPT ![p] = [job[p] EXCEPT !.prev = LatestEvaluation, !.event = ev]]
  BY <1>2 DEF ReadPrevious, ev, Job
<1>4. /\ \A q \in Workers : q # p => pc'[q] = pc[q] /\ job'[q] = job[q]
      /\ pc'[p] = "stamp"
      /\ job'[p].prev = LatestEvaluation /\ job'[p].event = ev
      /\ job'[p].cfg = job[p].cfg /\ job'[p].snap = job[p].snap
      /\ pc[p] = "previous" /\ UNCHANGED <<snaps, configs, evals, alerts, clock>>
  <2>1. /\ pc[p] = "previous" /\ UNCHANGED <<snaps, configs, evals, alerts, clock>>
        /\ pc' = [pc EXCEPT ![p] = "stamp"]
    BY DEF ReadPrevious, Goto
  <2>2. pc \in [Workers -> PC]
    BY DEF IInv, TypeOK
  <2> QED BY <1>2, <1>3, <2>1, <2>2 DEF Job
<1>5. TypeOK'
  <2>1. job' \in [Workers -> Job]
    BY <1>1, <1>2, <1>3 DEF Job
  <2> QED BY <2>1, GotoTyped DEF IInv, TypeOK, ReadPrevious, PC
<1>6. JobFits'
  <2>1. JobFit(p)'
    BY <1>4, LatestIsRow
    DEF IInv, JobFits, JobFit, HasConfig, HasSnap, Assessed, Stamped
  <2> QED BY <1>4, <2>1, JobFitKept DEF IInv, TypeOK, JobFits
<1>7. StampsApart'
  BY <1>4 DEF IInv, StampsApart, Stamped
<1>8. EventsFit'
  <2>1. ev = TransitionEvent(Shown(job[p].prev)', snaps'[job'[p].snap])
    <3>1. Shown(job[p].prev)' = Shown(job'[p].prev)
      BY <1>4, ShownKept
    <3> QED BY <1>4, <3>1 DEF ev
  <2> QED BY <1>4, <2>1, ShownKept DEF IInv, EventsFit, Assessed
<1> QED BY <1>4, <1>5, <1>6, <1>7, <1>8, RowsKept DEF IInv, TypeOK

(* The clock moves past every evaluation, the previous one included.       *)
LEMMA StampStep ==
    ASSUME IInv, NEW p \in Workers, Stamp(p)
    PROVE  IInv'
<1>1. /\ \A q \in Workers : q # p => pc'[q] = pc[q] /\ job'[q] = job[q]
      /\ pc'[p] = "insert" /\ job'[p].at = clock + 1
      /\ job'[p].prev = job[p].prev /\ job'[p].event = job[p].event
      /\ job'[p].cfg = job[p].cfg /\ job'[p].snap = job[p].snap
      /\ clock \in Nat /\ clock' = clock + 1
  BY DEF IInv, TypeOK, Stamp, Goto, Job
<1>2. TypeOK'
  <2>1. job \in [Workers -> Job] /\ job[p] \in Job
    BY DEF IInv, TypeOK
  <2>2. job' \in [Workers -> Job]
    BY <1>1, <2>1 DEF Stamp, Job
  <2> QED BY <1>1, <2>2, GotoTyped DEF IInv, TypeOK, Stamp, PC
<1>3. JobFits'
  <2>1. job[p].prev \in Nat /\ job[p].prev <= clock
    <3>1. job[p].prev \in Nat
      BY DEF IInv, TypeOK, Job
    <3>2. CASE job[p].prev # 0
      <4>1. PICK f \in evals : f.at = job[p].prev
        BY <3>2 DEF IInv, JobFits, JobFit, Stamp, Assessed
      <4> QED BY <3>1, <4>1 DEF IInv, RowsInTime
    <3> QED BY <1>1, <3>1, <3>2
  <2>2. JobFit(p)'
    BY <1>1, <2>1
    DEF IInv, Stamp, JobFits, JobFit, HasConfig, HasSnap, Assessed, Stamped
  <2> QED BY <1>1, <2>2, JobFitKept DEF IInv, TypeOK, JobFits, Stamp
<1>4. StampsApart'
  <2>1. \A q \in Workers : pc[q] \in Stamped => job[q].at # clock + 1
    BY <1>1 DEF IInv, JobFits, JobFit
  <2>2. \A e \in evals : e.at # clock + 1
    BY <1>1 DEF IInv, RowsInTime
  <2> QED BY <1>1, <2>1, <2>2 DEF IInv, Stamp, StampsApart, Stamped
<1>5. EventsFit'
  BY <1>1, ShownKept DEF IInv, Stamp, EventsFit, Assessed
<1> QED BY <1>1, <1>2, <1>3, <1>4, <1>5, RowsKept DEF IInv, Stamp

(* The row is inserted under a stamp of its own, behind its predecessor.   *)
LEMMA InsertEvaluationStep ==
    ASSUME IInv, NEW p \in Workers, InsertEvaluation(p)
    PROVE  IInv'
<1>1. /\ pc[p] = "insert" /\ evals' = evals \cup {Row(p)}
      /\ UNCHANGED <<snaps, configs, alerts, clock>>
  BY DEF InsertEvaluation
<1>2. \/ /\ pc'[p] = "alert" /\ job'[p] = job[p]
         /\ job[p].event \in job[p].cfg.alert_on
      \/ pc'[p] = "idle"
  BY DEF IInv, TypeOK, InsertEvaluation, Goto, Return
<1>3. \A q \in Workers : q # p => pc'[q] = pc[q] /\ job'[q] = job[q]
  BY DEF IInv, TypeOK, InsertEvaluation, Goto, Return
<1>4. JobFit(p)
  BY DEF IInv, JobFits
<1>5. /\ Row(p).at = job[p].at /\ Row(p).snap = job[p].snap
      /\ Row(p).prev = job[p].prev /\ Row(p).event = job[p].event
      /\ Row(p).cfg = job[p].cfg
  BY DEF Row
<1>6. TypeOK'
  <2>1. Row(p) \in Evaluation
    <3>1. job[p] \in Job
      BY DEF IInv, TypeOK
    <3>2. job[p].snap \in 1..MaxSnapshots /\ job[p].cfg \in Config
      BY <1>1, <1>4 DEF IInv, TypeOK, JobFit, HasSnap, HasConfig
    <3> QED BY <3>1, <3>2 DEF Row, Evaluation, Job
  <2>2. pc' \in [Workers -> PC] /\ job' \in [Workers -> Job]
    <3>1. CASE Return(p)
      BY <3>1, ReturnTyped DEF IInv
    <3>2. CASE Goto(p, "alert") /\ UNCHANGED job
      BY <3>2, GotoTyped DEF IInv, TypeOK, PC
    <3> QED BY <3>1, <3>2 DEF InsertEvaluation
  <2> QED BY <1>1, <2>1, <2>2 DEF IInv, TypeOK
<1>7. JobFits'
  <2>1. JobFit(p)'
    <3>1. CASE pc'[p] = "idle"
      BY <3>1 DEF JobFit, HasConfig, HasSnap, Assessed, Stamped
    <3>2. CASE /\ pc'[p] = "alert" /\ job'[p] = job[p]
               /\ job[p].event \in job[p].cfg.alert_on
      <4>1. Row(p)' \in evals'
        BY <1>1, <3>2 DEF Row
      <4> QED BY <1>1, <1>4, <3>2, <4>1
              DEF JobFit, HasConfig, HasSnap, Assessed, Stamped
    <3> QED BY <1>2, <3>1, <3>2
  <2> QED BY <1>1, <1>3, <2>1, JobFitKept DEF IInv, TypeOK, JobFits
<1>8. StampsApart'
  <2>1. \A e \in evals : e.at # job[p].at
    BY <1>1 DEF IInv, StampsApart
  <2>2. \A q, r \in Workers :
          pc'[q] \in Stamped /\ pc'[r] \in Stamped /\ job'[q].at = job'[r].at
          => q = r
    BY <1>1, <1>2, <1>3 DEF IInv, StampsApart, Stamped
  <2>3. ASSUME NEW q \in Workers, pc'[q] = "insert", NEW e \in evals'
        PROVE  e.at # job'[q].at
    <3>1. q # p
      BY <1>2, <2>3
    <3> QED BY <1>1, <1>3, <1>5, <2>3, <3>1 DEF IInv, StampsApart, Stamped
  <2>4. \A a \in alerts : a.eval.at # job[p].at
    BY <2>1 DEF IInv, AlertsOfEvaluations
  <2>5. \A q \in Workers :
          pc'[q] = "alert" => \A a \in alerts' : a.eval.at # job'[q].at
    BY <1>1, <1>2, <1>3, <2>4 DEF IInv, StampsApart
  <2>6. \A e, f \in evals' : e.at = f.at => e = f
    BY <1>1, <1>5, <2>1 DEF IInv, StampsApart
  <2> QED BY <2>2, <2>3, <2>5, <2>6 DEF StampsApart
<1>9. RowsInTime'
  BY <1>1, <1>4, <1>5 DEF IInv, RowsInTime, JobFit, HasSnap, Assessed, Stamped
<1>10. NewestExists'
  <2>1. /\ LatestEvaluation \in Nat
        /\ LatestEvaluation # 0 => \E e \in evals : e.at = LatestEvaluation
        /\ \A f \in evals : f.at <= LatestEvaluation
    BY LatestIsRow DEF IInv
  <2>2. job[p].at \in Nat /\ \A f \in evals : f.at \in Nat
    BY DEF IInv, TypeOK, Job, Evaluation
  <2>3. CASE LatestEvaluation <= job[p].at
    <3>1. \A f \in evals' : f.at <= Row(p).at
      BY <1>1, <1>5, <2>1, <2>2, <2>3
    <3> QED BY <1>1, <3>1 DEF NewestExists
  <2>4. CASE job[p].at < LatestEvaluation
    <3>1. PICK e \in evals : e.at = LatestEvaluation
      BY <2>1, <2>2, <2>4
    <3>2. \A f \in evals' : f.at <= e.at
      BY <1>1, <1>5, <2>1, <2>2, <2>4, <3>1
    <3> QED BY <1>1, <3>1, <3>2 DEF NewestExists
  <2> QED BY <2>1, <2>2, <2>3, <2>4
<1>11. EventsFit'
  <2>1. /\ evals \subseteq evals'
        /\ \A e, f \in evals' : e.at = f.at => e = f
    BY <1>1, <1>8 DEF StampsApart
  <2> DEFINE Then(at) == ShownIn(evals', snaps', at)
  <2>2. \A e \in evals : Then(e.prev) = Shown(e.prev)
    BY <1>1, <2>1, ShownStays, ShownIsIn DEF IInv, RowsInTime
  <2>3. \A q \in Workers : pc[q] \in Assessed => Then(job[q].prev) = Shown(job[q].prev)
    BY <1>1, <2>1, ShownStays, ShownIsIn DEF IInv, JobFits, JobFit
  <2> HIDE DEF Then
  <2>4. \A at : Shown(at)' = Then(at)
    BY ShownIsInNext DEF Then
  <2>5. Row(p).event = TransitionEvent(Then(Row(p).prev), snaps'[Row(p).snap])
    BY <1>1, <1>5, <2>3 DEF IInv, EventsFit, Assessed
  <2>6. \A e \in evals' : e.event = TransitionEvent(Then(e.prev), snaps'[e.snap])
    BY <1>1, <2>2, <2>5 DEF IInv, EventsFit
  <2>7. \A q \in Workers : pc'[q] \in Assessed =>
           job'[q].event = TransitionEvent(Then(job'[q].prev), snaps'[job'[q].snap])
    BY <1>1, <1>2, <1>3, <2>3 DEF IInv, EventsFit, Assessed
  <2> QED BY <2>4, <2>6, <2>7 DEF EventsFit
<1>12. AlertsOfEvaluations' /\ AlertJustified' /\ ConfigsCounted'
  BY <1>1
  DEF IInv, AlertsOfEvaluations, AlertJustified, ConfigsCounted, ConfigChain
<1> QED BY <1>6, <1>7, <1>8, <1>9, <1>10, <1>11, <1>12 DEF IInv

(* The stamp leads back to the row the call inserted: the alert reports    *)
(* that row's event under the configuration pinned by it.                  *)
LEMMA InsertAlertStep ==
    ASSUME IInv, NEW p \in Workers, InsertAlert(p)
    PROVE  IInv'
<1>1. /\ pc[p] = "alert" /\ Return(p)
      /\ UNCHANGED <<snaps, configs, evals, clock>>
  BY DEF InsertAlert
<1>2. PICK e \in evals :
        /\ e.at = job[p].at
        /\ alerts' = alerts \cup {[eval |-> e, event |-> job[p].event]}
  BY DEF InsertAlert
<1>3. e = Row(p) /\ job[p].event \in job[p].cfg.alert_on
  BY <1>1, <1>2 DEF IInv, JobFits, JobFit, StampsApart, Row
<1>4. e.event = job[p].event /\ e.cfg = job[p].cfg
  BY <1>3 DEF Row
<1>5. /\ pc'[p] = "idle"
      /\ \A q \in Workers : q # p => pc'[q] = pc[q] /\ job'[q] = job[q]
  BY <1>1 DEF IInv, TypeOK, Return
<1>6. TypeOK'
  <2>1. job[p].event \in Events
    <3>1. e.cfg \in Config
      BY DEF IInv, TypeOK, Evaluation
    <3> QED BY <1>3, <1>4, <3>1 DEF Config
  <2> QED BY <1>1, <1>2, <2>1, ReturnTyped DEF IInv, TypeOK, Alert
<1>7. JobFits'
  <2>1. JobFit(p)'
    BY <1>5 DEF JobFit, HasConfig, HasSnap, Assessed, Stamped
  <2> QED BY <1>1, <1>5, <2>1, JobFitKept DEF IInv, TypeOK, JobFits
<1>8. StampsApart'
  <2>1. ASSUME NEW q \in Workers, pc'[q] = "alert", NEW a \in alerts'
        PROVE  a.eval.at # job'[q].at
    <3>1. q # p /\ pc[q] = "alert" /\ job'[q] = job[q]
      BY <1>5, <2>1
    <3>2. job[q].at # job[p].at
      BY <1>1, <3>1 DEF IInv, StampsApart, Stamped
    <3> QED BY <1>2, <3>1, <3>2 DEF IInv, StampsApart
  <2>2. \A q, r \in Workers :
          pc'[q] \in Stamped /\ pc'[r] \in Stamped /\ job'[q].at = job'[r].at
          => q = r
    BY <1>5 DEF IInv, StampsApart, Stamped
  <2>3. \A q \in Workers : pc'[q] = "insert" => \A f \in evals' : f.at # job'[q].at
    BY <1>1, <1>5 DEF IInv, StampsApart
  <2> QED BY <1>1, <2>1, <2>2, <2>3 DEF IInv, StampsApart
<1>9. RowsInTime' /\ NewestExists' /\ ConfigsCounted'
  BY <1>1 DEF IInv, RowsInTime, NewestExists, ConfigsCounted, ConfigChain
<1>10. EventsFit'
  BY <1>1, <1>5, ShownKept DEF IInv, EventsFit, Assessed
<1>11. AlertsOfEvaluations'
  BY <1>1, <1>2 DEF IInv, AlertsOfEvaluations
<1>12. AlertJustified'
  <2>1. \A a \in alerts : a.eval # e
    BY <1>1, <1>2 DEF IInv, StampsApart
  <2> DEFINE n == [eval |-> e, event |-> job[p].event]
  <2>2. n.eval = e /\ n.event = job[p].event
    OBVIOUS
  <2>3. \A a \in alerts' :
          a.event = a.eval.event /\ a.event \in a.eval.cfg.alert_on
    BY <1>2, <1>3, <1>4, <2>2 DEF IInv, AlertJustified
  <2>4. \A a, b \in alerts' : a.eval = b.eval => a = b
    BY <1>2, <2>1, <2>2 DEF IInv, AlertJustified
  <2> QED BY <2>3, <2>4 DEF AlertJustified
<1> QED BY <1>6, <1>7, <1>8, <1>9, <1>10, <1>11, <1>12 DEF IInv

-----------------------------------------------------------------------------
(* Configuration.                                                          *)

LEMMA AppendStartStep ==
    ASSUME IInv, NEW p \in Workers, NEW c \in configs, AppendStart(p, c)
    PROVE  IInv'
<1>1. /\ pc[p] = "idle" /\ c.ord < MaxConfigs
      /\ job' = [job EXCEPT ![p].cfg = c] /\ Goto(p, "check")
      /\ UNCHANGED <<snaps, configs, evals, alerts, clock>>
  BY DEF AppendStart
<1>2. "check" \in PC
  BY DEF PC
<1> QED BY <1>1, <1>2, ConfigTaken, Zenon

LEMMA AppendCheckStep ==
    ASSUME IInv, NEW p \in Workers, AppendCheck(p)
    PROVE  IInv'
<1>1. "append" \in PC
  BY DEF PC
<1>2. CASE IsHead(job[p].cfg)
  BY <1>1, <1>2, GotoKeeps DEF AppendCheck
<1>3. CASE ~ IsHead(job[p].cfg)
  BY <1>3, ReturnKeeps DEF AppendCheck
<1> QED BY <1>2, <1>3

(* A revision whose ordinal is free, one above a revision that exists, is  *)
(* the next one of the chain.                                              *)
LEMMA ChainGrows ==
    ASSUME ConfigsCounted, NEW c \in configs, NEW n,
           c.ord \in Nat, n.parent = c.ord, n.ord = c.ord + 1,
           \A d \in configs : d.ord # c.ord + 1,
           configs' = configs \cup {n}
    PROVE  ConfigsCounted'
<1>1. n \notin configs
  OBVIOUS
<1>2. /\ IsFiniteSet(configs') /\ Cardinality(configs') = Cardinality(configs) + 1
      /\ Cardinality(configs) \in Nat
  BY <1>1, FS_AddElement, FS_CardinalityType DEF ConfigsCounted
<1>3. {d.ord : d \in configs} = 1..Cardinality(configs)
  BY DEF ConfigsCounted, ConfigChain
<1>4. c.ord \in 1..Cardinality(configs) /\ c.ord + 1 \notin 1..Cardinality(configs)
  BY <1>3
<1>5. n.ord = Cardinality(configs')
  BY <1>2, <1>4
<1>6. {d.ord : d \in configs'} = {d.ord : d \in configs} \cup {n.ord}
  OBVIOUS
<1>7. {d.ord : d \in configs'} = 1..Cardinality(configs')
  BY <1>2, <1>3, <1>5, <1>6
<1>8. \A d, e \in configs' : d.ord = e.ord => d = e
  BY DEF ConfigsCounted, ConfigChain
<1>9. \A d \in configs' : d.parent = d.ord - 1
  BY DEF ConfigsCounted, ConfigChain
<1> QED BY <1>2, <1>7, <1>8, <1>9 DEF ConfigsCounted, ConfigChain

LEMMA AppendInsertStep ==
    ASSUME IInv, NEW p \in Workers, NEW a \in AlertSets, AppendInsert(p, a)
    PROVE  IInv'
<1>1. CASE UNCHANGED configs
  BY <1>1, ReturnKeeps DEF AppendInsert
<1>2. CASE ~ UNCHANGED configs
  <2> DEFINE n == [ord |-> job[p].cfg.ord + 1, parent |-> job[p].cfg.ord,
                   alert_on |-> a, by |-> p]
  <2>1. /\ pc[p] = "append" /\ Return(p) /\ UNCHANGED <<snaps, evals, alerts, clock>>
        /\ \A c \in configs : c.ord # job[p].cfg.ord + 1
        /\ configs' = configs \cup {n}
    BY <1>2 DEF AppendInsert
  <2>2. /\ pc'[p] = "idle"
        /\ \A q \in Workers : q # p => pc'[q] = pc[q] /\ job'[q] = job[q]
    BY <2>1 DEF IInv, TypeOK, Return
  <2>3. /\ job[p].cfg \in configs /\ job[p].cfg.ord < MaxConfigs
        /\ job[p].cfg.ord \in 1..MaxConfigs
    BY <2>1 DEF IInv, TypeOK, JobFits, JobFit, HasConfig, Config
  <2>4. n \in Config
    BY <2>3 DEF Config
  <2>5. TypeOK'
    BY <2>1, <2>4, ReturnTyped DEF IInv, TypeOK
  <2>6. JobFits'
    <3>1. JobFit(p)'
      BY <2>2 DEF JobFit, HasConfig, HasSnap, Assessed, Stamped
    <3> QED BY <2>1, <2>2, <3>1, JobFitKept DEF IInv, TypeOK, JobFits
  <2>7. StampsApart'
    BY <2>1, <2>2 DEF IInv, StampsApart, Stamped
  <2>8. RowsInTime' /\ NewestExists' /\ AlertsOfEvaluations' /\ AlertJustified'
    BY <2>1
    DEF IInv, RowsInTime, NewestExists, AlertsOfEvaluations, AlertJustified
  <2>9. EventsFit'
    BY <2>1, <2>2, ShownKept DEF IInv, EventsFit, Assessed
  <2>10. ConfigsCounted'
    <3>1. n.parent = job[p].cfg.ord /\ n.ord = job[p].cfg.ord + 1
      OBVIOUS
    <3> HIDE DEF n
    <3> QED BY <2>1, <2>3, <3>1, ChainGrows DEF IInv
  <2> QED BY <2>5, <2>6, <2>7, <2>8, <2>9, <2>10 DEF IInv
<1> QED BY <1>1, <1>2

(* The process dies; what is committed is consistent.                      *)
LEMMA CrashStep ==
    ASSUME IInv, NEW p \in Workers, Crash(p)
    PROVE  IInv'
BY ReturnKeeps DEF Crash

(* A step of none of the variables.                                        *)
LEMMA StutterStep ==
    ASSUME IInv, UNCHANGED vars
    PROVE  IInv'
<1> USE DEF vars
<1>1. JobFits'
  BY DEF IInv, JobFits, JobFit, Row
<1>2. StampsApart' /\ EventsFit'
  BY ShownKept DEF IInv, StampsApart, EventsFit
<1> QED BY <1>1, <1>2, RowsKept DEF IInv, TypeOK

LEMMA NextIInv == IInv /\ [Next]_vars => IInv'
<1> SUFFICES ASSUME IInv, [Next]_vars PROVE IInv'
  OBVIOUS
<1>1. ASSUME NEW p \in Workers, Evaluate(p) PROVE IInv'
  BY <1>1, RefreshStep, BaselineStep, ReadConfigStep, FindDuplicateStep,
     ReadPreviousStep, StampStep, InsertEvaluationStep, InsertAlertStep
  DEF Evaluate
<1>2. ASSUME NEW p \in Workers, Configure(p) PROVE IInv'
  BY <1>2, AppendStartStep, AppendCheckStep, AppendInsertStep DEF Configure
<1>3. ASSUME NEW p \in Workers, Crash(p) PROVE IInv'
  BY <1>3, CrashStep
<1>4. CASE UNCHANGED vars
  BY <1>4, StutterStep
<1> QED BY <1>1, <1>2, <1>3, <1>4 DEF Next

-----------------------------------------------------------------------------
(* An outage, from the rows alone.                                         *)

(* The previous observation, looked up by its stamp, is the row's own.     *)
LEMMA ShownOfRow ==
    ASSUME IInv, NEW f \in evals
    PROVE  Shown(f.at) = ShownBy(f)
<1>1. f.at # 0
  BY DEF IInv, RowsInTime
<1>2. (CHOOSE e \in evals : e.at = f.at) = f
  BY DEF IInv, StampsApart
<1> QED BY <1>1, <1>2 DEF Shown, ShownBy

(* An outage has a first evaluation.                                       *)
LEMMA OutageHasStart ==
    ASSUME IInv, NEW e \in evals, ShownBy(e) = "unavailable"
    PROVE  \E m \in Outage(e) : \A u \in Outage(e) : m.at <= u.at
<1> DEFINE T == {u.at : u \in Outage(e)}
<1>1. \A x \in evals : x.at \in Nat
  BY DEF IInv, TypeOK, Evaluation
<1>2. T \subseteq Nat
  BY <1>1 DEF Outage
<1>3. e \in Outage(e)
  <2>1. \A x \in evals : x.at \in e.at..e.at => x = e
    BY <1>1 DEF IInv, StampsApart
  <2> QED BY <1>1, <2>1 DEF Outage
<1>4. T # {}
  BY <1>3
<1> HIDE DEF T
<1>5. PICK a \in T : \A b \in T : a <= b
  BY <1>2, <1>4, LeastNatural
<1> QED BY <1>5 DEF T

(* It is the one that is announced: the observation before it was no       *)
(* outage, and every later one follows an observation of this outage.      *)
LEMMA AnnouncedByStart ==
    ASSUME IInv, InOrder, NEW e \in evals, ShownBy(e) = "unavailable",
           NEW m \in Outage(e), \A u \in Outage(e) : m.at <= u.at,
           NEW u \in Outage(e)
    PROVE  u.event = "unavailable" <=> u = m
<1>1. \A x \in evals : x.at \in Nat /\ x.prev \in Nat
  BY DEF IInv, TypeOK, Evaluation
<1>2. /\ m \in evals /\ m.at <= e.at /\ u \in evals /\ u.at <= e.at
      /\ \A x \in evals : x.at \in m.at..e.at => ShownBy(x) = "unavailable"
  BY DEF Outage
<1>3. ASSUME NEW w \in evals, ShownBy(w) = "unavailable"
      PROVE  w.event = "unavailable" <=> Shown(w.prev) # "unavailable"
  <2>1. w.event = TransitionEvent(Shown(w.prev), "unavailable")
    BY <1>3 DEF IInv, EventsFit, ShownBy
  <2> QED BY <2>1 DEF TransitionEvent
<1>4. ASSUME NEW w \in evals, w.prev # 0
      PROVE  \E f \in evals :
                 f.at = w.prev /\ f.at < w.at /\ Shown(w.prev) = ShownBy(f)
  BY <1>4, ShownOfRow DEF IInv, RowsInTime
<1>5. CASE u = m
  <2>1. ShownBy(m) = "unavailable"
    BY <1>1, <1>2
  <2>2. CASE m.prev = 0
    BY <1>2, <1>3, <1>5, <2>1, <2>2 DEF Shown
  <2>3. CASE m.prev # 0
    <3>1. PICK f \in evals :
            f.at = m.prev /\ f.at < m.at /\ Shown(m.prev) = ShownBy(f)
      BY <1>2, <1>4, <2>3
    <3>2. ASSUME ShownBy(f) = "unavailable" PROVE FALSE
      <4>1. ASSUME NEW x \in evals, x.at \in f.at..e.at
            PROVE  ShownBy(x) = "unavailable"
        <5>1. CASE x.at < m.at
          <6>1. x.at = f.at
            BY <1>1, <1>2, <3>1, <4>1, <5>1 DEF InOrder
          <6> QED BY <3>2, <6>1 DEF IInv, StampsApart
        <5>2. CASE m.at <= x.at
          BY <1>1, <1>2, <4>1, <5>2
        <5> QED BY <1>1, <1>2, <5>1, <5>2
      <4>2. f \in Outage(e)
        BY <1>1, <1>2, <3>1, <4>1 DEF Outage
      <4> QED BY <1>1, <1>2, <3>1, <4>2
    <3> QED BY <1>2, <1>3, <1>5, <2>1, <3>1, <3>2
  <2> QED BY <2>2, <2>3
<1>6. CASE u # m
  <2>1. m.at < u.at
    BY <1>1, <1>2, <1>6 DEF IInv, StampsApart
  <2>2. ShownBy(u) = "unavailable"
    BY <1>1, <1>2, <2>1
  <2>3. m.at <= u.prev
    BY <1>2, <2>1 DEF InOrder
  <2>4. u.prev # 0
    BY <1>1, <1>2, <2>3 DEF IInv, RowsInTime
  <2>5. PICK g \in evals :
          g.at = u.prev /\ g.at < u.at /\ Shown(u.prev) = ShownBy(g)
    BY <1>2, <1>4, <2>4
  <2>6. ShownBy(g) = "unavailable"
    BY <1>1, <1>2, <2>3, <2>5
  <2> QED BY <1>2, <1>3, <1>6, <2>2, <2>5, <2>6
<1> QED BY <1>5, <1>6

LEMMA OneAnnouncement == IInv => AnnouncedOnceInOrder
<1> SUFFICES ASSUME IInv, InOrder, NEW e \in evals, ShownBy(e) = "unavailable"
             PROVE  Cardinality({u \in Outage(e) : u.event = "unavailable"}) = 1
  BY DEF AnnouncedOnceInOrder, OutageAnnouncedOnce
<1>1. PICK m \in Outage(e) : \A u \in Outage(e) : m.at <= u.at
  BY OutageHasStart
<1>2. {u \in Outage(e) : u.event = "unavailable"} = {m}
  BY <1>1, AnnouncedByStart
<1> QED BY <1>2, FS_Singleton

-----------------------------------------------------------------------------
(* Theorems.                                                               *)

(* The inductive invariant holds of every behaviour.                       *)
THEOREM Invariance == Spec => []IInv
BY InitIInv, NextIInv, PTL DEF Spec

(* Every variable keeps its type.                                          *)
THEOREM TypeCorrect == Spec => []TypeOK
<1>1. IInv => TypeOK
  BY DEF IInv
<1> QED BY <1>1, Invariance, PTL

(* append_watch_revision: callers that all saw the same head still leave   *)
(* one chain of revisions without gaps (TESTAMUR_WATCH_ALERT.md 7).        *)
THEOREM ConfigurationsAreOneChain == Spec => []ConfigChain
<1>1. IInv => ConfigChain
  BY DEF IInv, ConfigsCounted
<1> QED BY <1>1, Invariance, PTL

(* evaluate_snapshot: the previous evaluation of an evaluation exists and  *)
(* is older, however calls overlap.                                        *)
THEOREM HistoryIsWellFounded == Spec => []PreviousIsOlder
<1>1. IInv => PreviousIsOlder
  BY DEF IInv, RowsInTime, PreviousIsOlder
<1> QED BY <1>1, Invariance, PTL

(* _record_alert: an alert is of its evaluation, enabled by the            *)
(* configuration the evaluation pinned, and the only one of it.            *)
THEOREM AlertsAreJustified == Spec => []AlertJustified
<1>1. IInv => AlertJustified
  BY DEF IInv
<1> QED BY <1>1, Invariance, PTL

(* _transition: while evaluations do not overlap, an outage is announced   *)
(* by exactly one event (TESTAMUR_WATCH_ALERT.md 4).                       *)
THEOREM OutagesAreAnnouncedOnce == Spec => []AnnouncedOnceInOrder
BY OneAnnouncement, Invariance, PTL
=============================================================================
