-------------------------- MODULE WorkSession_proof --------------------------
(***************************************************************************)
(* Proofs about WorkSession for any sets of candidates, revisions, workers *)
(* and actors.                                                             *)
(*                                                                         *)
(* IInv relates what a worker remembers to the rows (JobFits), the rows of *)
(* an input to each other (ReceiptsApart, RowsStack), and a close to the   *)
(* check it rests on (ClosingSettled).  Rows are only ever added, so what  *)
(* a worker read stays true while it works: that is why the checks made    *)
(* before a write still hold at it, whoever else reconciles and resumes.   *)
(***************************************************************************)
EXTENDS WorkSession, TLAPS

(* Where an export of one decision is under way.                           *)
SinkPhase  == {"sink", "issue", "confirm", "insert"}
WatchPhase == {"register", "create", "ack"}
ExportPC   == SinkPhase \cup {"record", "propose"} \cup WatchPhase

(* What a running operation knows about its local variables.  The receipt  *)
(* that it is about to record exists and pins the decided revision; rows   *)
(* that it found or wrote are still there.                                 *)
JobFit(p) ==
    /\ pc[p] = "discover" => job[p].key \in Candidates \X {None}
    /\ pc[p] = "observe" => job[p].key \in Candidates \X Revisions
    /\ pc[p] = "append" => job[p].target \in Statuses \ {"OPEN"}
    /\ pc[p] = "start" => job[p].actor \in Actors
    /\ \A k \in job[p].work : <<k, "yes">> \in job[p].todo \/ decided[k] = "yes"
    /\ pc[p] \in ExportPC => job[p].key \in Inputs /\ decided[job[p].key] = "yes"
    /\ pc[p] = "record" => \E r \in ReceiptsFor(job[p].key) :
                              r.id = job[p].id /\ r.pin = job[p].key[2]
    /\ pc[p] \in {"propose"} \cup WatchPhase => exported[job[p].key] # 0
    /\ pc[p] \in WatchPhase => job[p].key \in proposed
    /\ pc[p] = "ack" => job[p].key \in watches

JobFits == \A p \in Workers : JobFit(p)

(* One receipt per input, and only after an explicit yes.                  *)
ReceiptsApart ==
    /\ \A r, s \in receipts : r.key = s.key => r = s
    /\ \A r \in receipts : decided[r.key] = "yes"

(* The rows of one input stand on each other: an acknowledgement on a      *)
(* watch, the watch on a candidate, the candidate on an export row, and    *)
(* the export row on the receipt for the decided revision.                 *)
RowsStack ==
    \A k \in Inputs :
        /\ k \in acked => k \in watches
        /\ k \in watches => k \in proposed
        /\ k \in proposed => exported[k] # 0
        /\ exported[k] # 0 => \E r \in ReceiptsFor(k) :
                                 r.id = exported[k] /\ r.pin = k[2]

(* Every input captured in time is decided, and exported where relied on.  *)
Settled ==
    /\ ObservedInputs \ Decided \subseteq late
    /\ \A k \in Relied \ late : exported[k] # 0 /\ k \in proposed

(* A session that is closed, or that a worker is about to close on the     *)
(* strength of a check it made earlier, is settled and no longer open.     *)
ClosingSettled ==
    \/ status \in Closed
    \/ \E p \in Workers : pc[p] = "append" /\ job[p].target \in Closed
    => status # "OPEN" /\ Settled

IInv == TypeOK /\ JobFits /\ ReceiptsApart /\ RowsStack /\ ClosingSettled

-----------------------------------------------------------------------------
USE Parts, SinksMayBeGiven, NoneIsFresh
    DEF Inputs, Answers, Closed, Statuses, Receipt, Job, PC, NoJob, Goto,
        Return, CanWrite, SinkCanWrite, Commit, RaiseInTransaction, session,
        exports

(* An open session without rows.                                           *)
LEMMA InitIInv == Init => IInv
<1> SUFFICES ASSUME Init PROVE IInv
  OBVIOUS
<1>1. TypeOK
  BY DEF Init, TypeOK
<1>2. JobFits
  BY DEF Init, JobFits, JobFit, ExportPC, SinkPhase, WatchPhase
<1>3. ReceiptsApart /\ RowsStack
  BY DEF Init, ReceiptsApart, RowsStack
<1>4. ClosingSettled
  BY DEF Init, ClosingSettled
<1> QED BY <1>1, <1>2, <1>3, <1>4 DEF IInv

-----------------------------------------------------------------------------
(* Types of the local variables.                                           *)

(* A process that ends its operation forgets its local variables.          *)
LEMMA ReturnTyped ==
    ASSUME TypeOK, NEW p \in Workers, Return(p)
    PROVE  /\ pc' \in [Workers -> PC] /\ job' \in [Workers -> Job]
           /\ pc'[p] = "idle" /\ job'[p] = NoJob
           /\ \A q \in Workers : q # p => pc'[q] = pc[q] /\ job'[q] = job[q]
<1>1. NoJob \in Job
  OBVIOUS
<1> HIDE DEF Job, NoJob, PC
<1>2. "idle" \in PC
  BY DEF PC
<1> QED BY <1>1, <1>2 DEF TypeOK

(* An operation moves on with the local variables j.                       *)
LEMMA JobTyped ==
    ASSUME TypeOK, NEW p \in Workers, NEW label \in PC, NEW j \in Job,
           Goto(p, label) \/ (label = pc[p] /\ pc' = pc),
           job' = [job EXCEPT ![p] = j]
    PROVE  /\ pc' \in [Workers -> PC] /\ job' \in [Workers -> Job]
           /\ pc'[p] = label /\ job'[p] = j
           /\ \A q \in Workers : q # p => pc'[q] = pc[q] /\ job'[q] = job[q]
<1> HIDE DEF Job, PC
<1> QED BY DEF TypeOK

(* Only p moves.                                                           *)
OthersWait(p) ==
    \A q \in Workers : q # p => pc'[q] = pc[q] /\ job'[q] = job[q]

(* Rows are only added, answers and export rows stay.                      *)
RowsGrow ==
    /\ receipts \subseteq receipts'
    /\ proposed \subseteq proposed'
    /\ watches \subseteq watches'
    /\ \A k \in Inputs : decided[k] # "open" => decided'[k] = decided[k]
    /\ \A k \in Inputs : exported[k] # 0 => exported'[k] # 0

(* What a waiting worker knows stays true.                                 *)
LEMMA JobKept ==
    ASSUME TypeOK, NEW q \in Workers, JobFit(q), RowsGrow,
           pc'[q] = pc[q], job'[q] = job[q]
    PROVE  JobFit(q)'
<1> USE DEF JobFit, RowsGrow
<1>1. job[q].work \subseteq Inputs
  BY DEF TypeOK
<1>2. /\ pc'[q] = "discover" => job'[q].key \in Candidates \X {None}
      /\ pc'[q] = "observe" => job'[q].key \in Candidates \X Revisions
      /\ pc'[q] = "append" => job'[q].target \in Statuses \ {"OPEN"}
      /\ pc'[q] = "start" => job'[q].actor \in Actors
  OBVIOUS
<1>3. \A k \in job'[q].work :
         <<k, "yes">> \in job'[q].todo \/ decided'[k] = "yes"
  BY <1>1
<1>4. pc'[q] \in ExportPC
      => job'[q].key \in Inputs /\ decided'[job'[q].key] = "yes"
  OBVIOUS
<1>5. pc'[q] = "record" => \E r \in ReceiptsFor(job[q].key)' :
                              r.id = job'[q].id /\ r.pin = job'[q].key[2]
  BY DEF ReceiptsFor
<1>6. /\ pc'[q] \in {"propose"} \cup WatchPhase => exported'[job'[q].key] # 0
      /\ pc'[q] \in WatchPhase => job'[q].key \in proposed'
      /\ pc'[q] = "ack" => job'[q].key \in watches'
  BY DEF ExportPC, WatchPhase
<1> QED BY <1>2, <1>3, <1>4, <1>5, <1>6 DEF ReceiptsFor

(* A settled session stays settled: what is added to it is late, and what  *)
(* is decided now was not decided when it was found settled.               *)
LEMMA SettledKept ==
    ASSUME TypeOK, TypeOK', Settled, RowsGrow, late \subseteq late',
           ObservedInputs' \subseteq ObservedInputs \cup late',
           \A k \in Inputs : decided'[k] # decided[k] => k \in ObservedInputs
    PROVE  Settled'
<1>1. Decided \subseteq Decided'
  BY DEF Decided, RowsGrow, TypeOK
<1>2. (ObservedInputs \ Decided)' \subseteq late'
  BY <1>1 DEF Settled
<1>3. ASSUME NEW k \in Relied', k \notin late'
      PROVE  exported'[k] # 0 /\ k \in proposed'
  <2>1. k \in Inputs /\ k \notin late
    BY <1>3 DEF Relied
  <2>2. decided[k] = "yes"
    <3>1. CASE decided[k] = "open"
      <4>1. k \in ObservedInputs /\ k \notin Decided
        BY <1>3, <2>1, <3>1 DEF Relied, Decided
      <4> QED BY <2>1, <4>1 DEF Settled
    <3>2. CASE decided[k] # "open"
      BY <1>3, <2>1, <3>2 DEF Relied, RowsGrow
    <3> QED BY <3>1, <3>2
  <2> QED BY <2>1, <2>2 DEF Settled, Relied, RowsGrow
<1> QED BY <1>2, <1>3 DEF Settled

(* A step of one worker that leaves the tables alone: only what it         *)
(* remembers is at stake, and a close that it decides on now.              *)
LEMMA QuietStep ==
    ASSUME IInv, TypeOK', NEW p \in Workers, OthersWait(p),
           UNCHANGED <<session, exports>>, JobFit(p)',
           pc'[p] = "append" /\ job'[p].target \in Closed
           => status # "OPEN" /\ Settled
    PROVE  IInv'
<1> USE DEF IInv
<1>1. RowsGrow
  BY DEF RowsGrow
<1>2. JobFits'
  BY <1>1, JobKept DEF JobFits, OthersWait
<1>3. ReceiptsApart' /\ RowsStack'
  BY DEF ReceiptsApart, RowsStack, ReceiptsFor
<1>4. Settled => Settled'
  BY DEF Settled, ObservedInputs, Decided, Relied
<1>5. ClosingSettled'
  BY <1>4 DEF ClosingSettled, OthersWait
<1> QED BY <1>2, <1>3, <1>5

(* A worker that gives up remembers nothing.                               *)
LEMMA ReturnStep ==
    ASSUME IInv, NEW p \in Workers, Return(p),
           UNCHANGED <<session, exports, current>>, lock' \in Workers \cup {None}
    PROVE  IInv'
<1>1. TypeOK'
  BY ReturnTyped DEF IInv, TypeOK
<1>2. pc'[p] = "idle" /\ job'[p] = NoJob /\ OthersWait(p)
  BY ReturnTyped DEF IInv, OthersWait
<1>3. JobFit(p)'
  BY <1>2 DEF JobFit, ExportPC, SinkPhase, WatchPhase
<1> QED BY <1>1, <1>2, <1>3, QuietStep

(* A worker that goes on with the local variables j.                       *)
LEMMA MoveStep ==
    ASSUME IInv, NEW p \in Workers, NEW label \in PC, NEW j \in Job,
           Goto(p, label) \/ (label = pc[p] /\ pc' = pc),
           job' = [job EXCEPT ![p] = j],
           UNCHANGED <<session, exports, current, lock>>,
           JobFit(p)', label = "append" /\ j.target \in Closed
                       => status # "OPEN" /\ Settled
    PROVE  IInv'
<1>0. /\ pc' \in [Workers -> PC] /\ job' \in [Workers -> Job]
      /\ pc'[p] = label /\ job'[p] = j /\ OthersWait(p)
  <2> HIDE DEF Job, PC, Goto
  <2> QED BY JobTyped DEF IInv, OthersWait
<1>1. TypeOK'
  BY <1>0 DEF IInv, TypeOK
<1>2. pc'[p] = label /\ job'[p] = j /\ OthersWait(p)
  BY <1>0
<1> QED BY <1>1, <1>2, QuietStep

-----------------------------------------------------------------------------
(* The steps, one lemma per group of operations.                           *)

(* A request starts with what its guard has checked: a session that is     *)
(* pushed or attested from here is closed, hence settled, already.         *)
LEMMA RequestStep ==
    ASSUME IInv, NEW p \in Workers, Request(p)
    PROVE  IInv'
<1> USE DEF IInv
<1>0. ASSUME NEW label \in PC, NEW j \in Job, Call(p, label, j),
             label = "append" /\ j.target \in Closed
             => status # "OPEN" /\ Settled
      PROVE  JobFit(p)' => IInv'
  <2>1. /\ pc[p] = "idle" /\ Goto(p, label)
        /\ job' = [job EXCEPT ![p] = j]
        /\ UNCHANGED <<session, exports, current, lock>>
    BY <1>0 DEF Call
  <2> HIDE DEF Job, PC, Goto
  <2> QED BY <1>0, <2>1, MoveStep
<1>a. ASSUME NEW label, NEW j, Call(p, label, j)
      PROVE  pc'[p] = label /\ job'[p] = j
  BY <1>a DEF Call, TypeOK
<1>1. ASSUME NEW c \in Candidates, DiscoverStart(p, c) PROVE IInv'
  <2> DEFINE j == [NoJob EXCEPT !.key = <<c, None>>]
  <2>1. j \in Job /\ Call(p, "discover", j)
    BY <1>1 DEF DiscoverStart
  <2>2. JobFit(p)'
    BY <1>a, <2>1 DEF JobFit, ExportPC, SinkPhase, WatchPhase
  <2> HIDE DEF j
  <2> QED BY <1>0, <2>1, <2>2
<1>2. ASSUME NEW c \in Candidates, NEW r \in Revisions, ObserveStart(p, c, r)
      PROVE  IInv'
  <2> DEFINE j == [NoJob EXCEPT !.key = <<c, r>>]
  <2>1. j \in Job /\ Call(p, "observe", j)
    BY <1>2 DEF ObserveStart
  <2>2. JobFit(p)'
    BY <1>a, <2>1 DEF JobFit, ExportPC, SinkPhase, WatchPhase
  <2> HIDE DEF j
  <2> QED BY <1>0, <2>1, <2>2
<1>3. ASSUME NEW target \in Statuses, TransitionStart(p, target) PROVE IInv'
  <2> DEFINE j == [NoJob EXCEPT !.target = target]
  <2>1. j \in Job /\ j.target = target /\ Call(p, "append", j)
    BY <1>3 DEF TransitionStart
  <2>2. target # "OPEN" /\ (target \in Closed => status \in Closed)
    BY <1>3 DEF TransitionStart, AllowedTransitions
  <2>3. JobFit(p)'
    BY <1>a, <2>1, <2>2 DEF JobFit, ExportPC, SinkPhase, WatchPhase
  <2>4. target \in Closed => status # "OPEN" /\ Settled
    BY <2>2 DEF ClosingSettled
  <2> HIDE DEF j
  <2> QED BY <1>0, <2>1, <2>3, <2>4
<1>4. ObservedInputs \subseteq Inputs
  BY DEF ObservedInputs, TypeOK
<1>5. ASSUME NEW f \in Declarations, NEW a \in Actors, NEW m \in SinkModes,
             ReconcileStart(p, f, a, m[1], m[2])
      PROVE  IInv'
  <2> DEFINE T == {<<k, f[k]>> : k \in ObservedInputs}
             W == {k \in ObservedInputs : f[k] = "yes"}
             j == [NoJob EXCEPT !.todo = T, !.work = W, !.actor = a,
                     !.sink = m[1], !.wsink = m[2], !.mark = TRUE]
  <2>1. T \in SUBSET (Inputs \X Answers) /\ W \in SUBSET Inputs
        /\ \A k \in W : <<k, "yes">> \in T
    BY <1>4 DEF Declarations
  <2>2. m[1] \in BOOLEAN /\ m[2] \in BOOLEAN
    OBVIOUS
  <2>3. Call(p, "start", j)
    BY <1>5 DEF ReconcileStart
  <2> HIDE DEF T, W
  <2>4. j \in Job /\ j.work = W /\ j.todo = T /\ j.actor = a
    BY <2>1, <2>2
  <2> HIDE DEF j
  <2>5. JobFit(p)'
    BY <1>a, <2>1, <2>3, <2>4 DEF JobFit, ExportPC, SinkPhase, WatchPhase
  <2> QED BY <1>0, <2>3, <2>4, <2>5
<1>6. ASSUME NEW m \in SinkModes, ResumeStart(p, m[1], m[2]) PROVE IInv'
  <2> DEFINE j == [NoJob EXCEPT !.work = Relied, !.resume = TRUE,
                     !.mark = (status = "COMPLETED_UNRECONCILED"),
                     !.sink = m[1], !.wsink = m[2]]
  <2>1. Relied \in SUBSET Inputs
    BY DEF Relied
  <2>2. m[1] \in BOOLEAN /\ m[2] \in BOOLEAN
        /\ (status = "COMPLETED_UNRECONCILED") \in BOOLEAN
    OBVIOUS
  <2>3. Call(p, "reconcile", j)
    BY <1>6 DEF ResumeStart
  <2>4. j \in Job /\ j.work = Relied
    BY <2>1, <2>2
  <2> HIDE DEF j
  <2>5. decided' = decided
    BY <2>3 DEF Call
  <2>6. JobFit(p)'
    BY <1>a, <2>3, <2>4, <2>5 DEF JobFit, ExportPC, SinkPhase, WatchPhase,
       Relied
  <2> QED BY <1>0, <2>3, <2>4, <2>6
<1> QED BY <1>1, <1>2, <1>3, <1>5, <1>6
        DEF Request, Capture, Reconcile, Resume

(* A step that adds rows and moves one worker keeps a close settled.       *)
LEMMA ClosingKept ==
    ASSUME IInv, TypeOK', NEW p \in Workers, OthersWait(p), status' = status,
           pc'[p] # "append", RowsGrow, late \subseteq late',
           status # "OPEN"
           => ObservedInputs' \subseteq ObservedInputs \cup late',
           \A k \in Inputs : decided'[k] # decided[k] => k \in ObservedInputs
    PROVE  ClosingSettled'
<1> USE DEF IInv
<1> SUFFICES ASSUME \/ status' \in Closed
                    \/ \E q \in Workers :
                          pc'[q] = "append" /\ job'[q].target \in Closed
             PROVE  status' # "OPEN" /\ Settled'
  BY DEF ClosingSettled
<1>1. status # "OPEN" /\ Settled
  BY DEF ClosingSettled, OthersWait
<1>2. Settled'
  BY <1>1, SettledKept
<1> QED BY <1>1, <1>2

(* A step of one worker that adds to the export tables.                    *)
LEMMA RowsStep ==
    ASSUME IInv, TypeOK', NEW p \in Workers, OthersWait(p), UNCHANGED session,
           pc'[p] # "append", RowsGrow, JobFit(p)', ReceiptsApart', RowsStack',
           \A k \in Inputs : decided'[k] # decided[k] => k \in ObservedInputs
    PROVE  IInv'
<1> USE DEF IInv
<1>1. JobFits'
  BY JobKept DEF JobFits, OthersWait
<1>2. ObservedInputs' = ObservedInputs
  BY DEF ObservedInputs
<1>3. ClosingSettled'
  BY <1>2, ClosingKept
<1> QED BY <1>1, <1>3

(* What is captured after the close is late.                               *)
LEMMA CaptureStep ==
    ASSUME IInv, NEW p \in Workers, Discover(p) \/ Observe(p)
    PROVE  IInv'
<1> USE DEF IInv
<1>1. /\ UNCHANGED <<status, actor, exports, current>>
      /\ Return(p) /\ lock' = None
  BY DEF Discover, Observe
<1>2. pc'[p] = "idle" /\ job'[p] = NoJob /\ OthersWait(p)
      /\ pc' \in [Workers -> PC] /\ job' \in [Workers -> Job]
  BY <1>1, ReturnTyped DEF OthersWait
<1>3. JobFit(p)'
  BY <1>2 DEF JobFit, ExportPC, SinkPhase, WatchPhase
<1>4. RowsGrow /\ ReceiptsApart' /\ RowsStack'
  BY <1>1 DEF RowsGrow, ReceiptsApart, RowsStack, ReceiptsFor
<1>5. JobFits'
  BY <1>2, <1>3, <1>4, JobKept DEF JobFits, OthersWait
<1>6. /\ discovered' \subseteq Candidates
      /\ observed' \subseteq Candidates \X Revisions
      /\ late' \subseteq Inputs /\ late \subseteq late'
  BY DEF Discover, Observe, JobFits, JobFit, TypeOK
<1>7. TypeOK'
  BY <1>1, <1>2, <1>6 DEF TypeOK
<1>8. status # "OPEN" => ObservedInputs' \subseteq ObservedInputs \cup late'
  <2>1. CASE Discover(p)
    <3>1. PICK c \in Candidates : job[p].key = <<c, None>>
      BY <2>1 DEF Discover, JobFits, JobFit
    <3>2. /\ discovered' = discovered \cup {c}
          /\ observed' = observed
          /\ status # "OPEN" /\ c \notin discovered => <<c, None>> \in late'
      BY <2>1, <3>1 DEF Discover
    <3> QED BY <3>2 DEF ObservedInputs
  <2>2. CASE Observe(p)
    <3>1. PICK k \in Candidates \X Revisions : job[p].key = k
      BY <2>2 DEF Observe, JobFits, JobFit
    <3>2. /\ observed' = observed \cup {k}
          /\ discovered' = discovered
          /\ status # "OPEN" /\ k \notin observed => k \in late'
      BY <2>2, <3>1 DEF Observe
    <3> QED BY <3>2 DEF ObservedInputs
  <2> QED BY <2>1, <2>2
<1>9. ClosingSettled'
  BY <1>1, <1>2, <1>4, <1>6, <1>7, <1>8, ClosingKept
<1> QED BY <1>4, <1>5, <1>7, <1>9

(* A lifecycle event goes in under whatever status there is by now; what   *)
(* was settled when the event was decided on still is.                     *)
LEMMA AppendStep ==
    ASSUME IInv, NEW p \in Workers, Append(p)
    PROVE  IInv'
<1> USE DEF IInv
<1>1. /\ UNCHANGED <<discovered, observed, late, actor, exports, current>>
      /\ Return(p) /\ lock' = None /\ status' = job[p].target
      /\ pc[p] = "append"
  BY DEF Append
<1>2. pc'[p] = "idle" /\ job'[p] = NoJob /\ OthersWait(p)
      /\ pc' \in [Workers -> PC] /\ job' \in [Workers -> Job]
  BY <1>1, ReturnTyped DEF OthersWait
<1>3. JobFit(p)'
  BY <1>2 DEF JobFit, ExportPC, SinkPhase, WatchPhase
<1>4. RowsGrow /\ ReceiptsApart' /\ RowsStack'
  BY <1>1 DEF RowsGrow, ReceiptsApart, RowsStack, ReceiptsFor
<1>5. JobFits'
  BY <1>2, <1>3, <1>4, JobKept DEF JobFits, OthersWait
<1>6. status' \in Statuses \ {"OPEN"}
  BY <1>1 DEF JobFits, JobFit
<1>7. TypeOK'
  BY <1>1, <1>2, <1>6 DEF TypeOK
<1>8. Settled => Settled'
  BY <1>1 DEF Settled, ObservedInputs, Decided, Relied
<1>9. ClosingSettled'
  BY <1>1, <1>2, <1>6, <1>8 DEF ClosingSettled, OthersWait
<1> QED BY <1>4, <1>5, <1>7, <1>9

(* The reconciliation run is created, or refused.                          *)
LEMMA StartRunStep ==
    ASSUME IInv, NEW p \in Workers, StartRun(p)
    PROVE  IInv'
<1> USE DEF IInv
<1>1. CASE Return(p) /\ actor' = actor
  <2>1. lock' \in Workers \cup {None}
    BY DEF StartRun, TypeOK
  <2> QED BY <1>1, <2>1, ReturnStep DEF StartRun
<1>2. CASE ~(Return(p) /\ actor' = actor)
  <2> DEFINE j == [job[p] EXCEPT !.actor = None]
  <2>1. /\ actor' = job[p].actor /\ lock' = None /\ pc[p] = "start"
        /\ pc' = [pc EXCEPT ![p] = "reconcile"]
        /\ job' = [job EXCEPT ![p] = j]
        /\ UNCHANGED <<status, discovered, observed, late, exports, current>>
    BY <1>2 DEF StartRun
  <2>2. job[p] \in Job /\ job[p].actor \in Actors
    BY <2>1 DEF TypeOK, JobFits, JobFit
  <2>3. j \in Job /\ j.work = job[p].work /\ j.todo = job[p].todo
    BY <2>2
  <2> HIDE DEF j
  <2>4. pc'[p] = "reconcile" /\ job'[p] = j /\ OthersWait(p)
        /\ pc' \in [Workers -> PC] /\ job' \in [Workers -> Job]
    <3>1. "reconcile" \in PC /\ Goto(p, "reconcile")
      BY <2>1
    <3> HIDE DEF Job, PC, Goto
    <3> QED BY <2>1, <2>3, <3>1, JobTyped DEF OthersWait
  <2>5. TypeOK'
    BY <2>1, <2>2, <2>4 DEF TypeOK
  <2>6. JobFit(p)'
    BY <2>1, <2>3, <2>4 DEF JobFits, JobFit, ExportPC, SinkPhase, WatchPhase
  <2>7. RowsGrow /\ ReceiptsApart' /\ RowsStack'
    BY <2>1 DEF RowsGrow, ReceiptsApart, RowsStack, ReceiptsFor
  <2>8. JobFits'
    BY <2>4, <2>6, <2>7, JobKept DEF JobFits, OthersWait
  <2>9. ClosingSettled'
    <3>1. ObservedInputs' = ObservedInputs
      BY <2>1 DEF ObservedInputs
    <3> QED BY <2>1, <2>4, <2>5, <2>7, <3>1, ClosingKept
  <2> QED BY <2>5, <2>7, <2>8, <2>9
<1> QED BY <1>1, <1>2

(* A decision: only an input that was still open gets one, so a settled    *)
(* session gets decisions for late inputs only.                            *)
LEMMA DecisionStep ==
    ASSUME IInv, NEW p \in Workers, NEW k \in Inputs, NEW u \in Answers,
           RecordDecision(p, k, u)
    PROVE  IInv'
<1> USE DEF IInv
<1>1. CASE Return(p) /\ decided' = decided
  <2>1. lock' \in Workers \cup {None}
    BY DEF RecordDecision, TypeOK
  <2> QED BY <1>1, <2>1, ReturnStep DEF RecordDecision
<1>2. CASE ~(Return(p) /\ decided' = decided)
  <2> DEFINE j == [job[p] EXCEPT !.todo = @ \ {<<k, u>>}]
  <2>1. /\ pc[p] = "reconcile" /\ pc' = pc /\ lock' = None
        /\ k \in ObservedInputs /\ decided[k] \in {"open", u}
        /\ decided' = [decided EXCEPT ![k] = u]
        /\ job' = [job EXCEPT ![p] = j]
        /\ UNCHANGED <<session, receipts, exported, proposed, watches, acked,
                       current>>
    BY <1>2 DEF RecordDecision
  <2>2. job[p] \in Job
    BY DEF TypeOK
  <2>3. j \in Job /\ j.work = job[p].work
        /\ j.todo = job[p].todo \ {<<k, u>>}
    BY <2>2
  <2> HIDE DEF j
  <2>4. pc'[p] = "reconcile" /\ job'[p] = j /\ OthersWait(p)
        /\ pc' \in [Workers -> PC] /\ job' \in [Workers -> Job]
    <3> HIDE DEF Job, PC, Goto
    <3> QED BY <2>1, <2>3 DEF TypeOK, OthersWait
  <2>5. TypeOK'
    BY <2>1, <2>4 DEF TypeOK
  <2>6. RowsGrow
    BY <2>1 DEF RowsGrow, TypeOK
  <2>7. JobFit(p)'
    <3>1. \A i \in job[p].work :
             <<i, "yes">> \in job[p].todo \/ decided[i] = "yes"
      BY DEF JobFits, JobFit
    <3>2. job[p].work \subseteq Inputs
      BY <2>2
    <3>3. \A i \in j.work : <<i, "yes">> \in j.todo \/ decided'[i] = "yes"
      BY <2>1, <2>3, <3>1, <3>2 DEF TypeOK
    <3> QED BY <2>4, <3>3 DEF JobFit, ExportPC, SinkPhase, WatchPhase
  <2>8. ReceiptsApart'
    BY <2>1, <2>6 DEF ReceiptsApart, RowsGrow, TypeOK
  <2>9. RowsStack'
    BY <2>1 DEF RowsStack, ReceiptsFor
  <2>10. \A i \in Inputs : decided'[i] # decided[i] => i \in ObservedInputs
    BY <2>1 DEF TypeOK
  <2> QED BY <2>1, <2>4, <2>5, <2>6, <2>7, <2>8, <2>9, <2>10, RowsStep
<1> QED BY <1>1, <1>2

(* The export loop takes up a decision that is recorded as a yes.          *)
LEMMA ExportStep ==
    ASSUME IInv, NEW p \in Workers, NEW k \in Inputs, Export(p, k)
    PROVE  IInv'
<1> USE DEF IInv
<1>1. job[p] \in Job /\ UNCHANGED <<session, exports, current, lock>>
      /\ pc[p] = "reconcile" /\ job[p].todo = {} /\ k \in job[p].work
      /\ lock \in Workers \cup {None}
  BY DEF Export, TypeOK
<1>2. /\ decided[k] = "yes"
      /\ \A i \in job[p].work : decided[i] = "yes"
  BY <1>1 DEF JobFits, JobFit
<1>3. CASE Return(p)
  BY <1>1, <1>3, ReturnStep
<1>4. ASSUME NEW label \in {"propose", "sink"}, Goto(p, label),
             label = "propose" => exported[k] # 0,
             job' = [job EXCEPT ![p].key = k]
      PROVE  IInv'
  <2> DEFINE j == [job[p] EXCEPT !.key = k]
  <2>1. job' = [job EXCEPT ![p] = j] /\ label \in PC
    BY <1>4
  <2>2. j \in Job /\ j.work = job[p].work /\ j.key = k
    BY <1>1
  <2> HIDE DEF j
  <2>3. pc'[p] = label /\ job'[p] = j
    BY <1>4, <2>1 DEF TypeOK
  <2>4. JobFit(p)'
    BY <1>1, <1>2, <1>4, <2>2, <2>3 DEF JobFit, ExportPC, SinkPhase,
       WatchPhase
  <2>5. label # "append"
    OBVIOUS
  <2> HIDE DEF Job, PC, Goto
  <2> QED BY <1>1, <1>4, <2>1, <2>2, <2>4, <2>5, MoveStep
<1>5. ASSUME pc' = pc,
             job' = [job EXCEPT ![p].work = @ \ {k}, ![p].mark = FALSE]
      PROVE  IInv'
  <2> DEFINE j == [job[p] EXCEPT !.work = @ \ {k}, !.mark = FALSE]
  <2>1. job' = [job EXCEPT ![p] = j] /\ pc[p] \in PC
    BY <1>5 DEF TypeOK
  <2>2. j \in Job /\ j.work = job[p].work \ {k}
    BY <1>1
  <2> HIDE DEF j
  <2>3. pc'[p] = "reconcile" /\ job'[p] = j
    <3> HIDE DEF Job, PC, Goto, Statuses, Receipt
    <3> QED BY <1>1, <1>5, <2>1 DEF TypeOK
  <2>4. JobFit(p)'
    BY <1>1, <1>2, <2>2, <2>3 DEF JobFit, ExportPC, SinkPhase, WatchPhase
  <2>5. pc[p] # "append"
    BY <1>1
  <2> HIDE DEF Job, PC, Goto
  <2> QED BY <1>1, <1>5, <2>1, <2>2, <2>4, <2>5, MoveStep
<1> QED BY <1>3, <1>4, <1>5 DEF Export

(* An existing receipt is used only if it pins the decided revision.       *)
LEMMA ExistingStep ==
    ASSUME IInv, NEW p \in Workers, pc[p] \in SinkPhase, UseExisting(p),
           UNCHANGED <<session, exports, current, lock>>
    PROVE  IInv'
<1> USE DEF IInv
<1>1. job[p] \in Job /\ lock \in Workers \cup {None}
  BY DEF TypeOK
<1>2. PICK r \in ReceiptsFor(job[p].key) :
         \/ Return(p)
         \/ /\ r.pin = job[p].key[2]
            /\ job' = [job EXCEPT ![p].id = r.id, ![p].pin = None]
            /\ Goto(p, "record")
  BY DEF UseExisting
<1>3. CASE Return(p)
  BY <1>1, <1>3, ReturnStep
<1>4. CASE ~Return(p)
  <2> DEFINE j == [job[p] EXCEPT !.id = r.id, !.pin = None]
  <2>1. job' = [job EXCEPT ![p] = j] /\ "record" \in PC /\ Goto(p, "record")
        /\ r.pin = job[p].key[2]
    BY <1>2, <1>4
  <2>2. r.id \in Nat
    BY DEF ReceiptsFor, TypeOK
  <2>3. j \in Job /\ j.work = job[p].work /\ j.todo = job[p].todo
        /\ j.key = job[p].key /\ j.id = r.id
    BY <1>1, <2>2
  <2> HIDE DEF j
  <2>4. pc'[p] = "record" /\ job'[p] = j
    BY <2>1 DEF TypeOK
  <2>5. r \in receipts' /\ r.key = j.key
    BY <2>3 DEF ReceiptsFor
  <2>6. JobFit(p)'
    <3>1. JobFit(p) /\ pc[p] \in ExportPC
      BY DEF JobFits, ExportPC
    <3>2. decided' = decided
      OBVIOUS
    <3>3. /\ \A i \in j.work : <<i, "yes">> \in j.todo \/ decided'[i] = "yes"
          /\ j.key \in Inputs /\ decided'[j.key] = "yes"
      BY <2>3, <3>1, <3>2 DEF JobFit
    <3>4. \E s \in ReceiptsFor(job[p].key)' :
             s.id = job'[p].id /\ s.pin = job'[p].key[2]
      BY <2>1, <2>3, <2>4, <2>5 DEF ReceiptsFor
    <3> QED BY <2>4, <3>3, <3>4 DEF JobFit, WatchPhase, ReceiptsFor
  <2> HIDE DEF Job, PC, Goto
  <2> QED BY <2>1, <2>3, <2>6, MoveStep
<1> QED BY <1>3, <1>4

(* The checks of the reliance sink before its insert.                      *)
LEMMA SinkStep ==
    ASSUME IInv, NEW p \in Workers,
           SinkCheck(p) \/ IssueBasis(p) \/ IssueConfirm(p)
    PROVE  IInv'
<1> USE DEF IInv
<1>1. job[p] \in Job /\ lock \in Workers \cup {None}
      /\ pc[p] \in SinkPhase /\ pc[p] \in ExportPC
      /\ UNCHANGED <<session, exports, current, lock>>
  BY DEF SinkCheck, IssueBasis, IssueConfirm, TypeOK, SinkPhase, ExportPC
<1>2. CASE UseExisting(p)
  BY <1>1, <1>2, ExistingStep
<1>3. CASE Return(p)
  BY <1>1, <1>3, ReturnStep
<1>4. ASSUME NEW label \in {"issue", "confirm", "insert"}, Goto(p, label),
             NEW v \in Revisions \cup {None},
             job' = [job EXCEPT ![p] = [job[p] EXCEPT !.pin = v]]
      PROVE  IInv'
  <2> DEFINE j == [job[p] EXCEPT !.pin = v]
  <2>1. job' = [job EXCEPT ![p] = j] /\ label \in PC
    BY <1>4
  <2>2. j \in Job /\ j.work = job[p].work /\ j.todo = job[p].todo
        /\ j.key = job[p].key
    BY <1>1
  <2> HIDE DEF j
  <2>3. pc'[p] = label /\ job'[p] = j
    BY <1>4, <2>1 DEF TypeOK
  <2>4. JobFit(p)'
    <3>1. JobFit(p) /\ decided' = decided
      BY <1>1 DEF JobFits
    <3> QED BY <1>1, <1>4, <2>2, <2>3, <3>1
            DEF JobFit, ExportPC, SinkPhase, WatchPhase
  <2>5. label # "append"
    OBVIOUS
  <2> HIDE DEF Job, PC, Goto
  <2> QED BY <1>1, <1>4, <2>1, <2>2, <2>4, <2>5, MoveStep
<1>5. job = [job EXCEPT ![p] = [job[p] EXCEPT !.pin = job[p].pin]]
      /\ job[p].pin \in Revisions \cup {None}
  BY <1>1 DEF TypeOK
<1>6. CASE UNCHANGED job /\ \E label \in {"issue", "insert"} : Goto(p, label)
  BY <1>4, <1>5, <1>6
<1>7. CASE /\ job' = [job EXCEPT ![p].pin = current[job[p].key[1]]]
           /\ Goto(p, "confirm")
  <2>1. current[job[p].key[1]] \in Revisions \cup {None}
    BY <1>1 DEF JobFits, JobFit, TypeOK
  <2>2. job' = [job EXCEPT ![p] = [job[p] EXCEPT !.pin
                                     = current[job[p].key[1]]]]
    BY <1>7
  <2> QED BY <1>4, <1>7, <2>1, <2>2
<1> QED BY <1>2, <1>3, <1>6, <1>7 DEF SinkCheck, IssueBasis, IssueConfirm

(* p goes on with the local variables j, or gives up, after a write.       *)
LEMMA AfterWrite ==
    ASSUME TypeOK, NEW p \in Workers, NEW label \in PC, NEW j \in Job,
           \/ /\ Goto(p, label) \/ (label = pc[p] /\ pc' = pc)
              /\ job' = [job EXCEPT ![p] = j]
           \/ label = "idle" /\ j = NoJob /\ Return(p)
    PROVE  /\ pc' \in [Workers -> PC] /\ job' \in [Workers -> Job]
           /\ pc'[p] = label /\ job'[p] = j /\ OthersWait(p)
<1>1. CASE Return(p) /\ label = "idle" /\ j = NoJob
  <2>1. Return(p)
    BY <1>1
  <2> HIDE DEF Job, PC, Goto, NoJob, Return
  <2> QED BY <1>1, <2>1, ReturnTyped DEF OthersWait
<1>2. CASE /\ Goto(p, label) \/ (label = pc[p] /\ pc' = pc)
           /\ job' = [job EXCEPT ![p] = j]
  <2>1. \/ Goto(p, label)
        \/ label = pc[p] /\ pc' = pc
    BY <1>2
  <2> HIDE DEF Job, PC, Goto, NoJob, Return
  <2>2. /\ pc' \in [Workers -> PC] /\ job' \in [Workers -> Job]
        /\ pc'[p] = label /\ job'[p] = j
        /\ \A q \in Workers : q # p => pc'[q] = pc[q] /\ job'[q] = job[q]
    BY <1>2, <2>1, JobTyped
  <2> QED BY <2>2 DEF OthersWait
<1> QED BY <1>1, <1>2

(* The receipt is inserted where none was: one per input, after a yes.     *)
LEMMA InsertStep ==
    ASSUME IInv, NEW p \in Workers, IssueInsert(p)
    PROVE  IInv'
<1> USE DEF IInv
<1>1. /\ job[p] \in Job /\ pc[p] = "insert" /\ lock' = lock
      /\ UNCHANGED <<session, decided, exported, proposed, watches, acked,
                     current>>
  BY DEF IssueInsert, TypeOK
<1>2. CASE UseExisting(p) /\ receipts' = receipts
  BY <1>1, <1>2, ExistingStep DEF SinkPhase
<1>3. CASE ~(UseExisting(p) /\ receipts' = receipts)
  <2>1. PICK r : r = [key |-> job[p].key, id |-> 1, pin |-> job[p].pin]
    OBVIOUS
  <2>2. /\ ReceiptsFor(job[p].key) = {} /\ receipts' = receipts \cup {r}
        /\ IF job[p].pin = job[p].key[2]
           THEN /\ job' = [job EXCEPT ![p].id = 1, ![p].pin = None]
                /\ Goto(p, "record")
           ELSE Return(p)
    BY <1>3, <2>1 DEF IssueInsert
  <2>3. /\ job[p].key \in Inputs /\ decided[job[p].key] = "yes"
        /\ \A i \in job[p].work :
              <<i, "yes">> \in job[p].todo \/ decided[i] = "yes"
    BY <1>1 DEF JobFits, JobFit, ExportPC, SinkPhase
  <2>4. r \in Receipt /\ r.key = job[p].key
    BY <1>1, <2>1, <2>3
  <2>5. RowsGrow
    BY <1>1, <2>2 DEF RowsGrow
  <2>6. ReceiptsApart'
    BY <1>1, <2>2, <2>3, <2>4 DEF ReceiptsApart, ReceiptsFor
  <2>7. RowsStack'
    BY <1>1, <2>2 DEF RowsStack, ReceiptsFor
  <2>8. PICK j \in Job, label \in {"record", "idle"} :
           /\ \/ Goto(p, label) /\ job' = [job EXCEPT ![p] = j]
              \/ label = "idle" /\ j = NoJob /\ Return(p)
           /\ label = "record" => /\ j.id = 1 /\ job[p].pin = job[p].key[2]
                                  /\ j.key = job[p].key
                                  /\ j.work = job[p].work
                                  /\ j.todo = job[p].todo
           /\ label = "idle" => j = NoJob
    <3>1. CASE job[p].pin = job[p].key[2]
      <4> DEFINE i == [job[p] EXCEPT !.id = 1, !.pin = None]
      <4>1. i \in Job /\ i.id = 1 /\ i.key = job[p].key
            /\ i.work = job[p].work /\ i.todo = job[p].todo
        BY <1>1
      <4>2. job' = [job EXCEPT ![p] = i] /\ Goto(p, "record")
        BY <2>2, <3>1
      <4> HIDE DEF i, Goto, Job
      <4> QED BY <3>1, <4>1, <4>2
    <3>2. CASE job[p].pin # job[p].key[2]
      <4>1. NoJob \in Job /\ Return(p)
        BY <2>2, <3>2
      <4> QED BY <4>1
    <3> QED BY <3>1, <3>2
  <2>9. /\ pc' \in [Workers -> PC] /\ job' \in [Workers -> Job]
        /\ pc'[p] = label /\ job'[p] = j /\ OthersWait(p)
    <3>1. label \in PC
      OBVIOUS
    <3> HIDE DEF Job, PC, Goto, Return, NoJob
    <3> QED BY <2>8, <3>1, AfterWrite
  <2>10. TypeOK'
    BY <1>1, <2>2, <2>4, <2>9 DEF TypeOK
  <2>11. JobFit(p)'
    <3>1. CASE label = "idle"
      BY <2>8, <2>9, <3>1 DEF JobFit, ExportPC, SinkPhase, WatchPhase
    <3>2. CASE label = "record"
      <4>1. r \in receipts' /\ r.key = j.key /\ r.id = j.id
            /\ r.pin = j.key[2]
        BY <2>1, <2>2, <2>8, <3>2
      <4>2. /\ \A i \in j.work : <<i, "yes">> \in j.todo \/ decided'[i] = "yes"
            /\ j.key \in Inputs /\ decided'[j.key] = "yes"
        BY <1>1, <2>3, <2>8, <3>2
      <4>3. \E s \in ReceiptsFor(job[p].key)' :
               s.id = job'[p].id /\ s.pin = job'[p].key[2]
        BY <2>9, <4>1 DEF ReceiptsFor
      <4> QED BY <2>9, <3>2, <4>2, <4>3 DEF JobFit, WatchPhase, ReceiptsFor
    <3> QED BY <2>8, <3>1, <3>2
  <2>12. pc'[p] # "append"
    BY <2>9
  <2> QED BY <1>1, <2>5, <2>6, <2>7, <2>9, <2>10, <2>11, <2>12, RowsStep
<1> QED BY <1>2, <1>3

(* The export row names the receipt that was issued for the decision.      *)
LEMMA RecordStep ==
    ASSUME IInv, NEW p \in Workers, RecordExport(p)
    PROVE  IInv'
<1> USE DEF IInv
<1>1. CASE Return(p) /\ exported' = exported
  <2>1. lock' \in Workers \cup {None}
    BY DEF RecordExport, TypeOK
  <2> QED BY <1>1, <2>1, ReturnStep DEF RecordExport
<1>2. CASE ~(Return(p) /\ exported' = exported)
  <2>1. /\ pc[p] = "record" /\ lock' = None
        /\ exported[job[p].key] \in {0, job[p].id}
        /\ exported' = [exported EXCEPT ![job[p].key] = job[p].id]
        /\ Goto(p, "propose") /\ job' = job
        /\ UNCHANGED <<session, decided, receipts, proposed, watches, acked,
                       current>>
    BY <1>2 DEF RecordExport
  <2>2. PICK k \in Inputs, r \in receipts :
           k = job[p].key /\ r.key = k /\ r.id = job[p].id /\ r.pin = k[2]
           /\ decided[k] = "yes"
    BY <2>1 DEF JobFits, JobFit, ExportPC, ReceiptsFor
  <2>3. r.id \in Nat \ {0}
    BY DEF TypeOK
  <2>4. exported' = [exported EXCEPT ![k] = r.id]
    BY <2>1, <2>2
  <2>5. /\ pc'[p] = "propose" /\ job'[p] = job[p] /\ OthersWait(p)
        /\ pc' \in [Workers -> PC] /\ job' \in [Workers -> Job]
    BY <2>1 DEF TypeOK, OthersWait
  <2>6. TypeOK'
    <3>1. exported' \in [Inputs -> Nat]
      BY <2>3, <2>4 DEF TypeOK
    <3> QED BY <2>1, <2>5, <3>1 DEF TypeOK
  <2>7. RowsGrow
    BY <2>1, <2>3, <2>4 DEF RowsGrow, TypeOK
  <2>8. JobFit(p)'
    <3>1. JobFit(p) /\ exported'[k] # 0
      BY <2>3, <2>4 DEF JobFits, TypeOK
    <3> QED BY <2>1, <2>2, <2>5, <3>1 DEF JobFit, ExportPC, WatchPhase
  <2>9. ReceiptsApart'
    BY <2>1 DEF ReceiptsApart
  <2>10. RowsStack'
    <3> SUFFICES ASSUME NEW i \in Inputs
                 PROVE  /\ i \in proposed => exported'[i] # 0
                        /\ exported'[i] # 0
                           => \E s \in ReceiptsFor(i) :
                                 s.id = exported'[i] /\ s.pin = i[2]
      BY <2>1 DEF RowsStack, ReceiptsFor
    <3>1. CASE i = k
      BY <2>2, <2>3, <2>4, <3>1 DEF TypeOK, ReceiptsFor
    <3>2. CASE i # k
      BY <2>4, <3>2 DEF RowsStack, TypeOK
    <3> QED BY <3>1, <3>2
  <2>11. pc'[p] # "append"
    BY <2>5
  <2> QED BY <2>1, <2>5, <2>6, <2>7, <2>8, <2>9, <2>10, <2>11, RowsStep
<1> QED BY <1>1, <1>2

(* The export of one decision ends.                                        *)
LEMMA NextDecisionFits ==
    ASSUME IInv, NEW p \in Workers, NextDecision(p), RowsGrow
    PROVE  /\ pc' \in [Workers -> PC] /\ job' \in [Workers -> Job]
           /\ OthersWait(p) /\ pc'[p] = "reconcile" /\ JobFit(p)'
<1> USE DEF IInv
<1> DEFINE j == [job[p] EXCEPT !.work = @ \ {job[p].key}, !.key = None,
                               !.id = 0]
<1>1. job[p] \in Job
  BY DEF TypeOK
<1>2. j \in Job /\ j.todo = job[p].todo /\ j.work \subseteq job[p].work
      /\ job[p].work \subseteq Inputs
  BY <1>1
<1>3. Goto(p, "reconcile") /\ job' = [job EXCEPT ![p] = j]
      /\ "reconcile" \in PC
  BY DEF NextDecision
<1> HIDE DEF j
<1>4. /\ pc' \in [Workers -> PC] /\ job' \in [Workers -> Job]
      /\ OthersWait(p) /\ pc'[p] = "reconcile" /\ job'[p] = j
  <2> HIDE DEF Job, PC, Goto, Return, NoJob
  <2> QED BY <1>2, <1>3, AfterWrite
<1>5. JobFit(p)'
  <2>1. \A i \in j.work : <<i, "yes">> \in j.todo \/ decided'[i] = "yes"
    <3> SUFFICES ASSUME NEW i \in j.work
                 PROVE  <<i, "yes">> \in j.todo \/ decided'[i] = "yes"
      OBVIOUS
    <3>1. i \in Inputs /\ i \in job[p].work
      BY <1>2
    <3>2. <<i, "yes">> \in job[p].todo \/ decided[i] = "yes"
      BY <3>1 DEF JobFits, JobFit
    <3>3. decided[i] = "yes" => decided'[i] = "yes"
      BY <3>1 DEF RowsGrow
    <3> QED BY <1>2, <3>2, <3>3
  <2> QED BY <1>4, <2>1 DEF JobFit, ExportPC, SinkPhase, WatchPhase
<1> QED BY <1>4, <1>5

(* Candidate, watch and acknowledgement, each for a key that has the       *)
(* row before it.                                                          *)
LEMMA WatchStep ==
    ASSUME IInv, NEW p \in Workers,
           ProposeWatch(p) \/ CreateWatch(p) \/ AckWatch(p)
    PROVE  IInv'
<1> USE DEF IInv
<1>1. PICK k \in Inputs : k = job[p].key
  BY DEF ProposeWatch, CreateWatch, AckWatch, JobFits, JobFit, ExportPC,
     WatchPhase
<1>2. /\ UNCHANGED <<session, decided, receipts, exported, current>>
      /\ lock' \in Workers \cup {None}
  BY DEF ProposeWatch, CreateWatch, AckWatch, TypeOK
<1>3. /\ proposed \subseteq proposed' /\ watches \subseteq watches'
      /\ acked \subseteq acked'
      /\ proposed' \subseteq proposed \cup {k}
      /\ watches' \subseteq watches \cup {k}
      /\ acked' \subseteq acked \cup {k}
  BY <1>1 DEF ProposeWatch, CreateWatch, AckWatch
<1>4. RowsGrow
  BY <1>2, <1>3 DEF RowsGrow
<1>5. exported[k] # 0 /\ JobFit(p)
  BY <1>1 DEF ProposeWatch, CreateWatch, AckWatch, JobFits, JobFit, WatchPhase
<1>6. ReceiptsApart'
  BY <1>2 DEF ReceiptsApart
<1>7. RowsStack'
  <2>1. k \in watches' => k \in proposed'
    BY <1>1, <1>5 DEF ProposeWatch, CreateWatch, AckWatch, JobFit, WatchPhase,
       RowsStack
  <2>2. k \in acked' => k \in watches'
    BY <1>1, <1>5 DEF ProposeWatch, CreateWatch, AckWatch, JobFit, WatchPhase,
       RowsStack
  <2> QED BY <1>2, <1>3, <1>5, <2>1, <2>2 DEF RowsStack, ReceiptsFor
<1>8. /\ pc' \in [Workers -> PC] /\ job' \in [Workers -> Job]
      /\ OthersWait(p) /\ pc'[p] # "append" /\ JobFit(p)'
  <2>1. CASE NextDecision(p)
    BY <1>4, <2>1, NextDecisionFits
  <2>2. CASE Return(p)
    <3>1. /\ pc' \in [Workers -> PC] /\ job' \in [Workers -> Job]
          /\ OthersWait(p) /\ pc'[p] = "idle" /\ job'[p] = NoJob
      BY <2>2, ReturnTyped DEF OthersWait
    <3> QED BY <3>1 DEF JobFit, ExportPC, SinkPhase, WatchPhase
  <2>3. ASSUME NEW label \in {"register", "ack"}, Goto(p, label), job' = job,
               k \in proposed', label = "ack" => k \in watches'
        PROVE  /\ pc' \in [Workers -> PC] /\ job' \in [Workers -> Job]
               /\ OthersWait(p) /\ pc'[p] # "append" /\ JobFit(p)'
    <3>1. /\ pc' \in [Workers -> PC] /\ job' \in [Workers -> Job]
          /\ OthersWait(p) /\ pc'[p] = label /\ job'[p] = job[p]
      BY <2>3 DEF TypeOK, OthersWait
    <3>2. decided[k] = "yes"
      BY <1>1, <1>5 DEF JobFit, ProposeWatch, CreateWatch, AckWatch, ExportPC,
         WatchPhase
    <3> QED BY <1>1, <1>2, <1>5, <2>3, <3>1, <3>2
            DEF JobFit, ExportPC, SinkPhase, WatchPhase
  <2>4. CASE ProposeWatch(p) /\ ~NextDecision(p)
    BY <1>1, <2>3, <2>4 DEF ProposeWatch
  <2>5. CASE CreateWatch(p) /\ ~Return(p)
    <3>1. Goto(p, "ack") /\ job' = job /\ k \in watches'
          /\ k \in proposed'
      BY <1>1, <1>5, <2>5 DEF CreateWatch, JobFit, WatchPhase
    <3> QED BY <2>3, <3>1
  <2> QED BY <2>1, <2>2, <2>4, <2>5 DEF AckWatch
<1>9. TypeOK'
  BY <1>2, <1>3, <1>8 DEF TypeOK
<1> QED BY <1>2, <1>4, <1>6, <1>7, <1>8, <1>9, RowsStep

(* register_watch looks for its watch.                                     *)
LEMMA RegisterStep ==
    ASSUME IInv, NEW p \in Workers, RegisterWatch(p)
    PROVE  IInv'
<1> USE DEF IInv
<1>1. PICK label \in {"ack", "create"} :
         Goto(p, label) /\ (label = "ack" => job[p].key \in watches)
  BY DEF RegisterWatch
<1>2. /\ job[p] \in Job /\ pc[p] = "register" /\ job' = job
      /\ UNCHANGED <<session, exports, current, lock>>
      /\ job' = [job EXCEPT ![p] = job[p]]
  BY DEF RegisterWatch, TypeOK
<1>3. pc'[p] = label
  BY <1>1 DEF TypeOK
<1>4. JobFit(p)'
  <2>1. JobFit(p)
    BY DEF JobFits
  <2> QED BY <1>1, <1>2, <1>3, <2>1 DEF JobFit, ExportPC, WatchPhase
<1>5. label \in PC /\ label # "append"
  OBVIOUS
<1> HIDE DEF Job, PC, Goto
<1> QED BY <1>1, <1>2, <1>4, <1>5, MoveStep

(* The check before the close: the session is settled at that moment, and  *)
(* it is no longer open.                                                   *)
LEMMA FinishStep ==
    ASSUME IInv, NEW p \in Workers, Finish(p)
    PROVE  IInv'
<1> USE DEF IInv
<1>1. UNCHANGED <<session, exports, current, lock>>
      /\ lock \in Workers \cup {None}
  BY DEF Finish, TypeOK
<1>2. CASE Return(p)
  BY <1>1, <1>2, ReturnStep
<1>3. CASE ~Return(p)
  <2> DEFINE j == [NoJob EXCEPT !.target = "RECONCILED"]
  <2>1. Complete /\ job' = [job EXCEPT ![p] = j] /\ Goto(p, "append")
    BY <1>3 DEF Finish
  <2>2. status # "OPEN" /\ Settled
    BY <2>1 DEF Complete, Settled
  <2>3. j \in Job /\ "append" \in PC /\ j.target = "RECONCILED" /\ j.work = {}
    OBVIOUS
  <2> HIDE DEF j
  <2>4. pc'[p] = "append" /\ job'[p] = j
    BY <2>1 DEF TypeOK
  <2>5. JobFit(p)'
    BY <2>3, <2>4 DEF JobFit, ExportPC, SinkPhase, WatchPhase
  <2> HIDE DEF Job, PC, Goto
  <2> QED BY <1>1, <2>1, <2>2, <2>3, <2>5, MoveStep
<1> QED BY <1>2, <1>3

(* The environment changes nothing that the rows depend on.                *)
LEMMA AsideStep ==
    ASSUME IInv, UNCHANGED <<session, exports, pc, job>>,
           current' \in [Candidates -> Revisions \cup {None}],
           lock' \in Workers \cup {None}
    PROVE  IInv'
<1> USE DEF IInv
<1>1. TypeOK'
  BY DEF TypeOK
<1>2. JobFits'
  BY DEF JobFits, JobFit, ReceiptsFor
<1>3. ReceiptsApart' /\ RowsStack'
  BY DEF ReceiptsApart, RowsStack, ReceiptsFor
<1>4. ClosingSettled'
  BY DEF ClosingSettled, Settled, ObservedInputs, Decided, Relied
<1> QED BY <1>1, <1>2, <1>3, <1>4

(* Every step preserves the inductive invariant.                           *)
LEMMA StepIInv == IInv /\ [Next]_vars => IInv'
<1> SUFFICES ASSUME IInv, [Next]_vars PROVE IInv'
  OBVIOUS
<1> USE DEF IInv
<1>1. ASSUME NEW p \in Workers, Work(p) PROVE IInv'
  <2>1. ASSUME LockTimeout(p) PROVE IInv'
    <3>1. lock' \in Workers \cup {None}
      BY <2>1 DEF LockTimeout, TypeOK
    <3> QED BY <2>1, <3>1, ReturnStep DEF LockTimeout
  <2> HIDE DEF IInv, Inputs, Answers
  <2> QED BY <1>1, <2>1, CaptureStep, AppendStep, StartRunStep, FinishStep,
             DecisionStep, ExportStep, SinkStep, InsertStep, RecordStep,
             WatchStep, RegisterStep DEF Work
<1>2. ASSUME NEW p \in Workers, Close(p) PROVE IInv'
  BY <1>2, AsideStep DEF Close, TypeOK
<1>3. ASSUME NEW p \in Workers, Crash(p) PROVE IInv'
  <2>1. lock' \in Workers \cup {None}
    BY <1>3 DEF Crash, TypeOK
  <2> QED BY <1>3, <2>1, ReturnStep DEF Crash
<1>4. ASSUME NEW c \in Moving, NEW r \in Revisions \cup {None},
             SourceMoves(c, r)
      PROVE  IInv'
  BY <1>4, AsideStep DEF SourceMoves, TypeOK
<1>5. CASE UNCHANGED vars
  BY <1>5, AsideStep DEF vars, TypeOK
<1> QED BY <1>1, <1>2, <1>3, <1>4, <1>5, RequestStep DEF Next

-----------------------------------------------------------------------------
(* The inductive invariant holds in every reachable state.                 *)
THEOREM Invariance == Spec => []IInv
<1> QED BY InitIInv, StepIInv, PTL DEF Spec

(* Rows and local variables keep their shape; in particular a decision     *)
(* never leaves its three values and an export row names a receipt number. *)
THEOREM TypeCorrect == Spec => []TypeOK
<1>1. IInv => TypeOK
  BY DEF IInv
<1> QED BY <1>1, Invariance, PTL

(* A session that counts as reconciled, pushed or attested has a decision  *)
(* for every input captured in time, and for every yes an export row and a *)
(* watch candidate: however many workers reconcile, resume, die and retry  *)
(* (mark_reconciled_if_complete checks, and another transaction closes).   *)
THEOREM ClosedSessionsAreExported == Spec => []ClosedMeansExported
<1>1. IInv => ClosedMeansExported
  BY DEF IInv, ClosingSettled, Settled, ClosedMeansExported
<1> QED BY <1>1, Invariance, PTL

-----------------------------------------------------------------------------
(* The refinement of RelianceExport.                                       *)

(* The stage of an input, read off its rows as they stack.                 *)
StageOf(k) ==
    IF ReceiptsFor(k) = {} THEN decided[k]
    ELSE IF k \in acked THEN "acknowledged"
    ELSE IF k \in watches THEN "watched"
    ELSE IF k \in proposed THEN "watchable"
    ELSE IF exported[k] # 0 THEN "exported"
    ELSE IF Misbound(k) THEN "misbound" ELSE "receipt"

(* Nothing is ever unbacked: an export row names the one receipt of its    *)
(* input, which pins the decided revision.                                 *)
LEMMA StageMap == IInv => stage = [k \in Inputs |-> StageOf(k)]
<1> USE DEF IInv
<1> SUFFICES ASSUME IInv, NEW k \in Inputs PROVE stage[k] = StageOf(k)
  BY DEF stage
<1>1. CASE ReceiptsFor(k) = {}
  <2>1. exported[k] = 0
    BY <1>1 DEF RowsStack
  <2> QED BY <1>1, <2>1 DEF stage, StageOf
<1>2. CASE ReceiptsFor(k) # {}
  <2>1. PICK r \in ReceiptsFor(k) : TRUE
    BY <1>2
  <2>2. ReceiptsFor(k) = {r} /\ r \in receipts
    BY <2>1 DEF ReceiptsFor, ReceiptsApart
  <2>3. exported[k] \in (IF r.pin = k[2] THEN {0, r.id} ELSE {0})
    BY <2>2 DEF RowsStack
  <2>4. Bound(k)
    BY <2>2, <2>3 DEF Bound
  <2> QED BY <1>2, <2>4 DEF stage, StageOf
<1> QED BY <1>1, <1>2

LEMMA StageMapNext == IInv' => stage' = [k \in Inputs |-> StageOf(k)']
<1>1. (IInv => stage = [k \in Inputs |-> StageOf(k)])'
  BY StageMap, PTL
<1> QED BY <1>1

(* What may follow a stage, as the module of the promise has it.           *)
LEMMA AfterStages ==
    /\ Authority!After["open"] = {"yes", "no"}
    /\ Authority!After["yes"] = {"receipt", "misbound"}
    /\ Authority!After["receipt"] = {"exported"}
    /\ Authority!After["exported"] = {"watchable"}
    /\ Authority!After["watchable"] = {"watched"}
    /\ Authority!After["watched"] = {"acknowledged"}
BY DEF Authority!After

(* A step that moves one input along by one stage, or none.                *)
LEMMA StageStep ==
    ASSUME IInv, IInv', NEW k \in Inputs,
           \A i \in Inputs : i # k => StageOf(i)' = StageOf(i),
           \/ StageOf(k)' = StageOf(k)
           \/ StageOf(k)' \in Authority!After[StageOf(k)]
    PROVE  [Authority!StageNext]_stage
<1>1. /\ stage = [i \in Inputs |-> StageOf(i)]
      /\ stage' = [i \in Inputs |-> StageOf(i)']
  BY StageMap, StageMapNext
<1>2. CASE StageOf(k)' = StageOf(k)
  <2>1. stage' = stage
    BY <1>1, <1>2
  <2> QED BY <2>1
<1>3. CASE StageOf(k)' \in Authority!After[StageOf(k)]
  <2>1. stage[k] = StageOf(k)
    BY <1>1
  <2>2. stage' = [stage EXCEPT ![k] = StageOf(k)']
    BY <1>1
  <2>3. Authority!Advance(k)
    BY <1>3, <2>1, <2>2 DEF Authority!Advance
  <2> QED BY <2>3 DEF Authority!StageNext
<1> QED BY <1>2, <1>3

(* A step that leaves the export tables alone does not show.               *)
LEMMA ExportsStutter ==
    ASSUME UNCHANGED exports
    PROVE  stage' = stage
BY DEF stage, ReceiptsFor, Bound, Misbound

(* Every step of a session is a stage of one input, or does not show.      *)
LEMMA RefinementStep ==
    ASSUME IInv, IInv', [Next]_vars
    PROVE  [Authority!StageNext]_stage
<1> USE DEF IInv
<1>1. CASE UNCHANGED exports
  BY <1>1, ExportsStutter
<1>2. ASSUME NEW p \in Workers, NEW k \in Inputs, NEW u \in Answers,
             RecordDecision(p, k, u), exports' # exports
      PROVE  [Authority!StageNext]_stage
  <2>1. /\ decided[k] \in {"open", u} /\ decided' = [decided EXCEPT ![k] = u]
        /\ UNCHANGED <<receipts, exported, proposed, watches, acked>>
    BY <1>2 DEF RecordDecision
  <2>2. decided[k] = "open"
    BY <1>2, <2>1 DEF TypeOK
  <2>3. ReceiptsFor(k) = {}
    BY <2>2 DEF ReceiptsApart, ReceiptsFor
  <2>4. StageOf(k) = "open" /\ StageOf(k)' = u
    BY <2>1, <2>2, <2>3 DEF StageOf, ReceiptsFor, TypeOK
  <2>5. \A i \in Inputs : i # k => StageOf(i)' = StageOf(i)
    BY <2>1 DEF StageOf, ReceiptsFor, Misbound, TypeOK
  <2>6. StageOf(k)' \in Authority!After[StageOf(k)]
    BY <2>4, AfterStages
  <2> QED BY <2>5, <2>6, StageStep
<1>3. ASSUME NEW p \in Workers, IssueInsert(p), exports' # exports
      PROVE  [Authority!StageNext]_stage
  <2>1. PICK k \in Inputs : k = job[p].key /\ decided[k] = "yes"
    BY <1>3 DEF IssueInsert, JobFits, JobFit, ExportPC, SinkPhase
  <2>2. PICK r : r = [key |-> k, id |-> 1, pin |-> job[p].pin]
    OBVIOUS
  <2>3. /\ ReceiptsFor(k) = {} /\ receipts' = receipts \cup {r}
        /\ UNCHANGED <<decided, exported, proposed, watches, acked>>
    BY <1>3, <2>1, <2>2 DEF IssueInsert, UseExisting
  <2>4. /\ exported[k] = 0 /\ k \notin proposed /\ k \notin watches
        /\ k \notin acked
    BY <2>3 DEF RowsStack
  <2>5. ReceiptsFor(k)' = {r}
    BY <2>2, <2>3 DEF ReceiptsFor
  <2>6. StageOf(k) = "yes" /\ StageOf(k)' \in {"receipt", "misbound"}
    BY <2>1, <2>3, <2>4, <2>5 DEF StageOf
  <2>7. \A i \in Inputs : i # k => ReceiptsFor(i)' = ReceiptsFor(i)
    BY <2>2, <2>3 DEF ReceiptsFor
  <2>8. \A i \in Inputs : i # k => StageOf(i)' = StageOf(i)
    BY <2>3, <2>7 DEF StageOf, Misbound
  <2>9. StageOf(k)' \in Authority!After[StageOf(k)]
    BY <2>6, AfterStages
  <2> QED BY <2>8, <2>9, StageStep
<1>4. ASSUME NEW p \in Workers, RecordExport(p), exports' # exports
      PROVE  [Authority!StageNext]_stage
  <2>1. PICK k \in Inputs, r \in receipts :
           k = job[p].key /\ r.key = k /\ r.id = job[p].id /\ r.pin = k[2]
    BY <1>4 DEF RecordExport, JobFits, JobFit, ExportPC, ReceiptsFor
  <2>2. /\ exported' = [exported EXCEPT ![k] = r.id]
        /\ exported[k] \in {0, r.id}
        /\ UNCHANGED <<decided, receipts, proposed, watches, acked>>
    BY <1>4, <2>1 DEF RecordExport
  <2>3. exported[k] = 0 /\ r.id # 0
    BY <1>4, <2>2 DEF TypeOK
  <2>4. k \notin proposed /\ k \notin watches /\ k \notin acked
    BY <2>3 DEF RowsStack
  <2>5. ReceiptsFor(k) = {r} /\ ReceiptsFor(k)' = {r}
    BY <2>1, <2>2 DEF ReceiptsFor, ReceiptsApart
  <2>6. ~Misbound(k)
    BY <2>1, <2>5 DEF Misbound
  <2>7. StageOf(k) = "receipt" /\ StageOf(k)' = "exported"
    BY <2>2, <2>3, <2>4, <2>5, <2>6 DEF StageOf, TypeOK
  <2>8. \A i \in Inputs : i # k => StageOf(i)' = StageOf(i)
    BY <2>2 DEF StageOf, Misbound, ReceiptsFor, TypeOK
  <2>9. StageOf(k)' \in Authority!After[StageOf(k)]
    BY <2>7, AfterStages
  <2> QED BY <2>8, <2>9, StageStep
<1>5. ASSUME NEW p \in Workers,
             ProposeWatch(p) \/ CreateWatch(p) \/ AckWatch(p),
             exports' # exports
      PROVE  [Authority!StageNext]_stage
  <2>1. PICK k \in Inputs : k = job[p].key /\ exported[k] # 0
    BY <1>5 DEF ProposeWatch, CreateWatch, AckWatch, JobFits, JobFit,
       ExportPC, WatchPhase
  <2>2. ReceiptsFor(k) # {}
    BY <2>1 DEF RowsStack
  <2>3. /\ UNCHANGED <<decided, receipts, exported>>
        /\ \/ /\ k \notin proposed /\ proposed' = proposed \cup {k}
              /\ UNCHANGED <<watches, acked>>
           \/ /\ k \notin watches /\ watches' = watches \cup {k}
              /\ k \in proposed /\ UNCHANGED <<proposed, acked>>
           \/ /\ k \notin acked /\ acked' = acked \cup {k}
              /\ k \in watches /\ UNCHANGED <<proposed, watches>>
    <3>1. CASE ProposeWatch(p)
      <4>1. k \notin proposed
        BY <1>5, <2>1, <3>1 DEF ProposeWatch
      <4> QED BY <2>1, <3>1, <4>1 DEF ProposeWatch
    <3>2. CASE CreateWatch(p)
      BY <1>5, <2>1, <3>2 DEF CreateWatch, JobFits, JobFit, WatchPhase
    <3>3. CASE AckWatch(p)
      <4>1. k \notin acked
        BY <1>5, <2>1, <3>3 DEF AckWatch
      <4> QED BY <2>1, <3>3, <4>1 DEF AckWatch, JobFits, JobFit
    <3> QED BY <1>5, <3>1, <3>2, <3>3
  <2>4. ReceiptsFor(k)' = ReceiptsFor(k)
    BY <2>3 DEF ReceiptsFor
  <2>5. \/ StageOf(k) = "exported" /\ StageOf(k)' = "watchable"
        \/ StageOf(k) = "watchable" /\ StageOf(k)' = "watched"
        \/ StageOf(k) = "watched" /\ StageOf(k)' = "acknowledged"
    BY <2>1, <2>2, <2>3, <2>4 DEF StageOf, RowsStack
  <2>6. \A i \in Inputs : i # k => StageOf(i)' = StageOf(i)
    BY <2>3 DEF StageOf, Misbound, ReceiptsFor
  <2>7. StageOf(k)' \in Authority!After[StageOf(k)]
    BY <2>5, AfterStages
  <2> QED BY <2>6, <2>7, StageStep
<1>6. ASSUME NEW p \in Workers, Request(p) PROVE UNCHANGED exports
  BY <1>6 DEF Request, Capture, Reconcile, Resume, DiscoverStart,
     ObserveStart, ReconcileStart, ResumeStart, TransitionStart, Call
<1>7. ASSUME NEW p \in Workers,
             \/ Discover(p) \/ Observe(p) \/ Append(p) \/ StartRun(p)
             \/ Finish(p) \/ SinkCheck(p) \/ IssueBasis(p) \/ IssueConfirm(p)
             \/ RegisterWatch(p) \/ LockTimeout(p) \/ Close(p) \/ Crash(p)
             \/ \E k \in Inputs : Export(p, k)
      PROVE  UNCHANGED exports
  BY <1>7 DEF Discover, Observe, Append, StartRun, Finish, SinkCheck,
     IssueBasis, IssueConfirm, RegisterWatch, LockTimeout, Close, Crash, Export
<1>8. ASSUME NEW c \in Moving, NEW r \in Revisions \cup {None},
             SourceMoves(c, r)
      PROVE  UNCHANGED exports
  BY <1>8 DEF SourceMoves
<1>9. CASE UNCHANGED vars
  BY <1>1, <1>9 DEF vars
<1> HIDE DEF IInv, exports, Inputs, Answers
<1> QED BY <1>1, <1>2, <1>3, <1>4, <1>5, <1>6, <1>7, <1>8, <1>9
        DEF Next, Work

(* Nothing is decided in a new session.                                    *)
LEMMA RefinementInit == Init => Authority!StageInit
<1> SUFFICES ASSUME Init PROVE Authority!StageInit
  OBVIOUS
<1>1. \A k \in Inputs : StageOf(k) = "open"
  BY DEF Init, StageOf, ReceiptsFor
<1>2. stage = [k \in Inputs |-> "open"]
  BY <1>1, StageMap, InitIInv
<1> QED BY <1>2 DEF Authority!StageInit

(* The exports of a session implement RelianceExport: only an explicit yes *)
(* leads to a receipt, there is one, and what follows it comes in order,   *)
(* under any interleaving of reconciliations, recoveries and crashes.      *)
THEOREM SessionImplementsExport == Spec => ExportSpec
<1>1. IInv /\ IInv' /\ [Next]_vars => [Authority!StageNext]_stage
  BY RefinementStep
<1> QED BY <1>1, RefinementInit, Invariance, PTL
        DEF Spec, ExportSpec, Authority!Spec
=============================================================================
