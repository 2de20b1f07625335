------------------------------ MODULE Evidence ------------------------------
(* What commands saw and left of the files of a worktree, and what is made  *)
(* of it: TestamurReceiptStore, TestamurVerificationStore, the traversals   *)
(* trace and impact of evidence_graph, and revalidation_status.             *)
(* Workers are processes that run `testamur run` and `testamur verify`      *)
(* (cli.py) in one worktree; a user edits files meanwhile.  Hashes stand    *)
(* for contents, paths are resolved, and one query reads one state: rows    *)
(* are only ever added.                                                     *)
EXTENDS Stores, Naturals, FiniteSets, SequencesExt

CONSTANTS
  Paths,      \* the files, in the order of their resolved paths
  Contents,   \* contents of files
  Commands,   \* [kind, inputs, outputs, writes, worktree, target]; inputs and outputs are sequences
  Workers,
  MaxRuns,    \* bound: executed commands
  MaxEdits,   \* bound: edits by the user
  User,       \* origin of what the user wrote
  Starts,     \* files to start with
  Limits      \* [depth, paths]: max_depth and graph_path_limit

(* What kind of values the constants are.  None is nobody at work, and the
   user is none of the runs, which are numbered. *)
WorktreeFits ==
  /\ None \notin Workers
  /\ User \notin Nat \ {0}
  /\ Paths \in Seq(Range(Paths))
  /\ Starts \subseteq [Range(Paths) -> Contents \cup {None}]
  /\ \A c \in Commands : c.inputs \in Seq(Range(Paths)) /\ c.outputs \in Seq(Range(Paths))
  /\ Limits \subseteq [depth : Nat, paths : Nat]

VARIABLES
  file,       \* contents of every path, None if it is missing
  runs,       \* executed commands: what they are and, as history, what they really read
  observed,   \* testamur_artifact_observations in insertion order
  recorded,   \* testamur_receipts: run -> "own" or "replay", the wrapper it came from
  checks,     \* testamur_verifications in insertion order
  job,        \* what each worker is doing
  origin,     \* history: the run that gave a file its present contents
  edits

evidenceVars == <<file, runs, observed, recorded, checks, job, origin, edits>>

Files == Range(Paths)
Runs == DOMAIN runs
Snapshot(p) == file[p]

(* One row per artifact; ids are insertion numbers.                        *)
Row(r, role, p, hash) == [run |-> r, role |-> role, path |-> p, hash |-> hash]
Rows(r, role, paths, hash) == [i \in DOMAIN paths |-> Row(r, role, paths[i], hash[paths[i]])]

(* A set of files in the order of their paths.                             *)
Sorted(ps) ==
  LET upTo[n \in 0..Len(Paths)] ==
        IF n = 0 THEN <<>>
        ELSE IF Paths[n] \in ps THEN Append(upTo[n - 1], Paths[n]) ELSE upTo[n - 1]
  IN upTo[Len(Paths)]

EvidenceInit ==
  /\ file \in Starts
  /\ runs = <<>> /\ observed = <<>> /\ recorded = <<>> /\ checks = <<>>
  /\ job = [w \in Workers |-> Idle]
  /\ origin = [p \in Files |-> User]
  /\ edits = 0

-----------------------------------------------------------------------------
(* Running a command                                                        *)

(* Whoever else is at work on a file when it changes is disturbed there.    *)
Disturb(jobs, w, ps) ==
  [v \in Workers |-> IF v = w \/ jobs[v] = Idle THEN jobs[v]
                     ELSE [jobs[v] EXCEPT !.disturbed = @ \cup ps]]

Edit(p, c) ==
  /\ edits < MaxEdits
  /\ c # file[p]
  /\ file' = [file EXCEPT ![p] = c]
  /\ origin' = [origin EXCEPT ![p] = User]
  /\ job' = Disturb(job, None, {p})
  /\ edits' = edits + 1
  /\ UNCHANGED <<runs, observed, recorded, checks>>

MayStart(w) ==
  job[w] = Idle /\ Len(runs) + Cardinality({v \in Workers : job[v].pc \in {"capture", "execute"}}) < MaxRuns

(* Declared inputs are required: a missing one ends the command before it
   starts.  The worktree is listed for the delta. *)
Captured(cmd, pinned, inputs, disturbed) ==
  IF \E p \in Range(inputs) : file[p] = None THEN Idle
  ELSE [pc |-> "execute", cmd |-> cmd, pinned |-> pinned, disturbed |-> disturbed,
        inputs |-> inputs, before |-> file]

Start(w, cmd) ==
  /\ MayStart(w) /\ cmd.kind = "run"
  /\ job' = [job EXCEPT ![w] = Captured(cmd, None, cmd.inputs, {})]
  /\ UNCHANGED <<file, runs, observed, recorded, checks, origin, edits>>

(* prepare_target_revision: bytes are pinned before the checker starts.     *)
Prepare(w, cmd) ==
  /\ MayStart(w) /\ cmd.kind = "verify"
  /\ job' = [job EXCEPT ![w] =
       [pc |-> "capture", cmd |-> cmd, pinned |-> Snapshot(cmd.target), disturbed |-> {}]]
  /\ UNCHANGED <<file, runs, observed, recorded, checks, origin, edits>>

(* A file to be verified is read once more as the input of its checker.     *)
Capture(w) ==
  /\ job[w].pc = "capture"
  /\ LET j == job[w]
         inputs == IF j.pinned = None THEN <<>> ELSE <<j.cmd.target>>
     IN job' = [job EXCEPT ![w] = Captured(j.cmd, j.pinned, inputs, j.disturbed)]
  /\ UNCHANGED <<file, runs, observed, recorded, checks, origin, edits>>

(* The command reads its inputs and writes what it likes of its files.      *)
Execute(w) ==
  /\ job[w].pc = "execute"
  /\ \E made \in [job[w].cmd.writes -> Contents], exit \in {"passed", "failed"} :
       LET j == job[w]
           r == Len(runs) + 1
           new == {p \in j.cmd.writes : made[p] # file[p]}
       IN /\ exit = "failed" => j.cmd.kind = "verify"
          /\ file' = [p \in Files |-> IF p \in new THEN made[p] ELSE file[p]]
          /\ origin' = [p \in Files |-> IF p \in new THEN r ELSE origin[p]]
          /\ runs' = Append(runs,
               [cmd |-> j.cmd, exit |-> exit, read |-> [p \in Files |-> file[p]],
                from |-> [p \in Files |-> origin[p]], still |-> Files \ j.disturbed, quiet |-> {}])
          /\ job' = Disturb([job EXCEPT ![w] =
               [pc |-> "observe", cmd |-> j.cmd, pinned |-> j.pinned, disturbed |-> j.disturbed,
                inputs |-> j.inputs, before |-> j.before, run |-> r]], w, new)
  /\ UNCHANGED <<observed, recorded, checks, edits>>

(* _post_execution_observations: outputs, then the worktree again.          *)
Observe(w) ==
  /\ job[w].pc = "observe"
  /\ LET j == job[w]
         delta == Sorted({p \in Files : j.cmd.worktree /\ file[p] # j.before[p]})
     IN job' = [job EXCEPT ![w] =
          [pc |-> "record", cmd |-> j.cmd, pinned |-> j.pinned, disturbed |-> j.disturbed,
           run |-> j.run, replayed |-> FALSE,
           delta |-> delta,
           rows |-> Rows(j.run, "input", j.inputs, j.before)
                    \o Rows(j.run, "output", j.cmd.outputs, file)]]
  /\ UNCHANGED <<file, runs, observed, recorded, checks, origin, edits>>

(* A retry with the key of an executed run gets its answer and attributes
   nothing to it.  Of a run that is recorded it changes nothing. *)
Replay(w, r) ==
  /\ job[w] = Idle
  /\ r \notin DOMAIN recorded
  /\ runs[r].cmd.kind = "run"
  /\ LET cmd == runs[r].cmd
         nothing == [p \in Files |-> None]
     IN job' = [job EXCEPT ![w] =
          [pc |-> "record", cmd |-> cmd, pinned |-> None, disturbed |-> {}, run |-> r,
           replayed |-> TRUE, delta |-> <<>>,
           rows |-> Rows(r, "input", cmd.inputs, nothing) \o Rows(r, "output", cmd.outputs, nothing)]]
  /\ UNCHANGED <<file, runs, observed, recorded, checks, origin, edits>>

(* _worktree_observations: what changed is read once more when the receipt
   is stored, not when the command ended. *)
WorktreeRows(j) == Rows(j.run, "worktree_change", j.delta, file)

(* record: one receipt per run.  A replay takes the receipt that is there;
   anybody else's different receipt is refused.  Receipt and observations
   are one transaction. *)
Record(w) ==
  /\ job[w].pc = "record"
  /\ LET j == job[w]
         bound == j.run \in DOMAIN recorded
     IN /\ IF bound THEN UNCHANGED <<observed, recorded, runs>>
           ELSE /\ observed' = observed \o j.rows \o WorktreeRows(j)
                /\ recorded' = [r \in DOMAIN recorded \cup {j.run} |->
                     IF r \in DOMAIN recorded THEN recorded[r]
                     ELSE IF j.replayed THEN "replay" ELSE "own"]
                /\ runs' = [runs EXCEPT ![j.run].quiet = IF j.replayed THEN {} ELSE Files \ j.disturbed]
        /\ job' = [job EXCEPT ![w] =
             IF j.cmd.kind = "verify" THEN [j EXCEPT !.pc = "check"] ELSE Idle]
  /\ UNCHANGED <<file, checks, origin, edits>>

RecordCheck_PinAfter(w) ==
  /\ job[w].pc = "check"
  /\ LET j == job[w]
         v == [kind |-> IF Snapshot(j.cmd.target) = None THEN "logical_ref" ELSE "artifact_path",
               target |-> j.cmd.target, hash |-> Snapshot(j.cmd.target), run |-> j.run,
               status |-> runs[j.run].exit]
     IN checks' = Append(checks, v)
  /\ job' = [job EXCEPT ![w] = Idle]
  /\ UNCHANGED <<file, runs, observed, recorded, origin, edits>>

(* TestamurVerificationStore.record with the prepared revision.             *)
RecordCheck(w) ==
  /\ job[w].pc = "check"
  /\ LET j == job[w]
         v == [kind |-> IF j.pinned = None THEN "logical_ref" ELSE "artifact_path",
               target |-> j.cmd.target, hash |-> j.pinned, run |-> j.run,
               status |-> runs[j.run].exit]
     IN checks' = Append(checks, v)
  /\ job' = [job EXCEPT ![w] = Idle]
  /\ UNCHANGED <<file, runs, observed, recorded, origin, edits>>

(* The process dies after its command: what it observed is lost.  Before    *)
(* that nothing has happened yet.                                           *)
Crash(w) ==
  /\ job[w].pc \in {"observe", "record", "check"}
  /\ job' = [job EXCEPT ![w] = Idle]
  /\ UNCHANGED <<file, runs, observed, recorded, checks, origin, edits>>

EvidenceNext ==
  \/ \E p \in Files, c \in Contents \cup {None} : Edit(p, c)
  \/ \E w \in Workers :
       \/ \E cmd \in Commands : Start(w, cmd) \/ Prepare(w, cmd)
       \/ \E r \in Runs : Replay(w, r)
       \/ Capture(w) \/ Execute(w) \/ Observe(w) \/ Record(w) \/ RecordCheck(w)
       \/ Crash(w)

EvidenceSpec == EvidenceInit /\ [][EvidenceNext]_evidenceVars
-----------------------------------------------------------------------------
(* Reading the observations, by their insertion numbers: those of a run     *)
(* oldest first, those of a path newest first.                              *)

OfRun(r) == {i \in DOMAIN observed : observed[i].run = r}
OfPath(p) == {i \in DOMAIN observed : observed[i].path = p}

InputsAt(p) == {i \in OfPath(p) : observed[i].role = "input"}
ProducedAt(p) == {i \in OfPath(p) : observed[i].role # "input"}
InputsOfRun(r) == {i \in OfRun(r) : observed[i].role = "input"}
ProducedBy(r) == {i \in OfRun(r) : observed[i].role # "input"}

Newest(n) == Len(observed) + 1 - n

(* _revision_relation: a hash that is missing is not assessable, which is
   not a different revision. *)
Differ(a, b) == a # None /\ b # None /\ a # b

(* trace, upstream.  A run is entered once, at its least depth.             *)
Traced(target) ==
  [queue |-> <<>>, seen |-> target, found |-> {}, mismatched |-> {}, truncated |-> FALSE]

UnseenUpstream(r, seen) ==
  \E i \in InputsOfRun(r) : \E k \in ProducedAt(observed[i].path) :
    observed[k].run \notin seen /\ ~Differ(observed[i].hash, observed[k].hash)

AddProducer_SeenFirst(s, k, expected, depth, limit) ==
  LET r == observed[k].run
      seen == s.seen \cup {r}
  IN IF r \in s.seen THEN s
     ELSE IF Differ(expected, observed[k].hash)
          THEN [s EXCEPT !.mismatched = @ \cup {r}, !.seen = seen]
     ELSE [s EXCEPT !.seen = seen,
                    !.found = @ \cup {r},
                    !.queue = IF depth < limit THEN Append(@, [run |-> r, depth |-> depth]) ELSE @,
                    !.truncated = @ \/ (depth >= limit /\ UnseenUpstream(r, seen))]

AddProducer(s, k, expected, depth, limit) ==
  LET r == observed[k].run
      seen == s.seen \cup {r}
  IN IF Differ(expected, observed[k].hash) THEN [s EXCEPT !.mismatched = @ \cup {r}]
     ELSE IF r \in s.seen THEN s
     ELSE [s EXCEPT !.seen = seen,
                    !.found = @ \cup {r},
                    !.queue = IF depth < limit THEN Append(@, [run |-> r, depth |-> depth]) ELSE @,
                    !.truncated = @ \/ (depth >= limit /\ UnseenUpstream(r, seen))]

AddProducers(s, producers, expected, depth, limit) ==
  LET after[n \in 0..Len(observed)] ==
        IF n = 0 THEN s
        ELSE IF Newest(n) \in producers
             THEN AddProducer(after[n - 1], Newest(n), expected, depth, limit)
             ELSE after[n - 1]
  IN after[Len(observed)]

AddUpstream(s, r, depth, limit) ==
  LET after[n \in 0..Len(observed)] ==
        IF n = 0 THEN s
        ELSE IF n \in InputsOfRun(r)
             THEN AddProducers(after[n - 1], ProducedAt(observed[n].path), observed[n].hash,
                               depth, limit)
             ELSE after[n - 1]
  IN after[Len(observed)]

(* The queue is worked off breadth first; every run enters it once.         *)
NextUpstream(s, limit) ==
  IF s.queue = <<>> THEN s
  ELSE AddUpstream([s EXCEPT !.queue = Tail(@)], Head(s.queue).run, Head(s.queue).depth + 1, limit)

TraceFrom(seed, limit) ==
  LET walk[n \in 0..Len(runs)] == IF n = 0 THEN seed ELSE NextUpstream(walk[n - 1], limit)
  IN walk[Len(runs)]

TraceRun(r, limit) == TraceFrom(AddUpstream(Traced({r}), r, 1, limit), limit)

(* explain: declared outputs come first.                                    *)
TracePath(p, limit) ==
  LET outputs == {k \in ProducedAt(p) : observed[k].role = "output"}
      first == AddProducers(Traced({}), outputs, Snapshot(p), 1, limit)
  IN TraceFrom(AddProducers(first, ProducedAt(p) \ outputs, Snapshot(p), 1, limit), limit)

-----------------------------------------------------------------------------
(* impact, downstream of a file as it is now                                *)

(* The products of a run enter the queue together.                          *)
AddOutputs(s, r, depth) ==
  [s EXCEPT !.affected = @ \cup ProducedBy(r), !.queue = Append(@, [run |-> r, depth |-> depth])]

Changed(p, i) == file[p] = None \/ observed[i].hash = None \/ observed[i].hash # file[p]

Inspect(s, p, i) ==
  LET t == [s EXCEPT !.seen = @ \cup {i}]
  IN IF Changed(p, i) THEN AddOutputs(t, observed[i].run, 1) ELSE t

FirstHop(p) ==
  LET seed == [queue |-> <<>>, seen |-> {}, expanded |-> {<<p, file[p]>>},
               consumers |-> {}, affected |-> {}, truncated |-> FALSE]
      after[n \in 0..Len(observed)] ==
        IF n = 0 THEN seed
        ELSE IF Newest(n) \in InputsAt(p) THEN Inspect(after[n - 1], p, Newest(n))
             ELSE after[n - 1]
  IN after[Len(observed)]

(* An input is followed once, however it is reached.                        *)
Follow(s, i, depth) ==
  IF i \in s.seen THEN s
  ELSE AddOutputs([s EXCEPT !.seen = @ \cup {i}, !.consumers = @ \cup {i}], observed[i].run, depth)

FollowAll(s, inputs, depth) ==
  LET after[n \in 0..Len(observed)] ==
        IF n = 0 THEN s
        ELSE IF Newest(n) \in inputs THEN Follow(after[n - 1], Newest(n), depth)
             ELSE after[n - 1]
  IN after[Len(observed)]

Compatible(out) == {i \in InputsAt(observed[out].path) : ~Differ(observed[out].hash, observed[i].hash)}

Expand_ByPath(s, out, depth, limit) ==
  LET p == observed[out].path
      t == [s EXCEPT !.expanded = @ \cup {<<p, observed[out].hash>>}]
  IN IF \E x \in s.expanded : x[1] = p THEN s
     ELSE IF depth > limit THEN [t EXCEPT !.truncated = @ \/ Compatible(out) # {}]
     ELSE FollowAll(t, Compatible(out), depth)

Expand(s, out, depth, limit) ==
  LET key == <<observed[out].path, observed[out].hash>>
      t == [s EXCEPT !.expanded = @ \cup {key}]
  IN IF key \in s.expanded THEN s
     ELSE IF depth > limit THEN [t EXCEPT !.truncated = @ \/ Compatible(out) # {}]
     ELSE FollowAll(t, Compatible(out), depth)

ExpandAll(s, r, depth, limit) ==
  LET after[n \in 0..Len(observed)] ==
        IF n = 0 THEN s
        ELSE IF n \in ProducedBy(r) THEN Expand(after[n - 1], n, depth, limit)
             ELSE after[n - 1]
  IN after[Len(observed)]

(* An input is followed once and brings its run once: so many turns do.     *)
NextDownstream(s, limit) ==
  IF s.queue = <<>> THEN s
  ELSE ExpandAll([s EXCEPT !.queue = Tail(@)], Head(s.queue).run, Head(s.queue).depth + 1, limit)

Impact(p, limit) ==
  LET walk[n \in 0..Len(observed)] ==
        IF n = 0 THEN FirstHop(p) ELSE NextDownstream(walk[n - 1], limit)
  IN walk[Len(observed)]

(* revalidation_status: which runs have to be looked at again, directly and
   through what they left. *)
StaleInput(i) == observed[i].hash # None /\ observed[i].hash # file[observed[i].path]
Requiring == Sorted({p \in Files : \E i \in InputsAt(p) : StaleInput(i)})

Revalidation(limit) ==
  LET impacts == {Impact(Requiring[n], limit.depth) : n \in {n \in DOMAIN Requiring : n <= limit.paths}}
  IN [runs |-> {observed[i].run : i \in {k \in DOMAIN observed :
                   observed[k].role = "input" /\ StaleInput(k)} \cup UNION {m.consumers : m \in impacts}},
      unknown |-> {observed[i].run : i \in {k \in DOMAIN observed :
                   observed[k].role = "input" /\ observed[k].hash = None}},
      truncated |-> Len(Requiring) > limit.paths \/ \E m \in impacts : m.truncated]

-----------------------------------------------------------------------------
(* for_target: the newest check whose revision is current decides.          *)

RevisionState(v) ==
  IF v.kind = "logical_ref" THEN "not_byte_pinned"
  ELSE IF file[v.target] = None THEN "not_assessable"
  ELSE IF file[v.target] = v.hash THEN "current" ELSE "stale"

ForTarget(p) ==
  LET of == {n \in DOMAIN checks : checks[n].target = p}
      current == {n \in of : RevisionState(checks[n]) = "current"}
      latest == checks[Max(current)]
  IN [latest |-> IF current = {} THEN None ELSE latest,
      state |->
        IF current # {}
        THEN IF latest.status = "passed" THEN "current_checker_pass"
             ELSE "current_checker_failure"
        ELSE IF \E n \in of : RevisionState(checks[n]) = "stale" THEN "stale"
        ELSE IF of # {} THEN "not_assessable" ELSE "not_verified"]

-----------------------------------------------------------------------------
(* Properties                                                               *)

(* Run r was recorded by its own wrapper and nobody else wrote p from its
   start until then. *)
Clean(r, p) == r \in DOMAIN recorded /\ recorded[r] = "own" /\ p \in runs[r].quiet

Saw(r, p) == \E i \in InputsOfRun(r) : observed[i].path = p
Made(r, p) == \E i \in ProducedBy(r) : observed[i].path = p

(* What really happened: q read what r wrote.                               *)
ReadFrom(q, r) ==
  \E p \in Files :
    /\ runs[q].from[p] = r
    /\ Clean(q, p) /\ Saw(q, p) /\ Clean(r, p) /\ Made(r, p)

(* The runs that q's inputs really come from, by any number of such steps.  *)
ReallyUpstream(q) ==
  LET up[n \in 0..Len(runs)] ==
        IF n = 0 THEN {q}
        ELSE LET x == up[n - 1] IN x \cup {r \in Runs : \E y \in x : ReadFrom(y, r)}
  IN up[Len(runs)] \ {q}

(* trace promises the observed provenance of a run: every run that its
   inputs really come from is found, unless the walk says that it stopped.
   Files that somebody else wrote while one of the two ran are left out.
   A trace that starts at a file also finds the run that left it so. *)
TraceFindsProducers ==
  /\ \A q \in Runs : \A r \in ReallyUpstream(q) : \A l \in Limits :
       LET t == TraceRun(q, l.depth)
       IN r \in t.found \/ t.truncated
  /\ \A p \in Files, l \in Limits : origin[p] # User =>
       LET maker == origin[p]
           t == TracePath(p, l.depth)
       IN Clean(maker, p) /\ Made(maker, p)
            => ({maker} \cup ReallyUpstream(maker)) \subseteq t.found \/ t.truncated

(* An input depends on another one if a product of the other's run is, or
   may be, the revision that it saw. *)
Feeds(i, k) ==
  \E o \in ProducedBy(observed[i].run) :
    observed[k].path = observed[o].path /\ ~Differ(observed[o].hash, observed[k].hash)

(* Inputs that depend on changed inputs at p by any number of steps.  One   *)
(* that shows p as it is now needs no second look, whoever wrote p.         *)
Dependents(p) ==
  LET inputs == {i \in DOMAIN observed : observed[i].role = "input"}
      reach[n \in 0..Len(observed)] ==
        IF n = 0 THEN {i \in inputs : observed[i].path = p /\ Changed(p, i)}
        ELSE LET x == reach[n - 1]
             IN x \cup {k \in inputs : observed[k].path # p /\ \E i \in x : Feeds(i, k)}
  IN reach[Len(observed)]

(* revalidation_status: a run is listed, to be looked at again or as not
   assessable, if an input of it has changed or depends on a changed one by
   any number of steps, unless the status says that it was truncated. *)
RevalidationIsComplete ==
  \A p \in Range(Requiring), l \in Limits :
    LET status == Revalidation(l)
    IN \A i \in Dependents(p) :
         status.truncated \/ observed[i].run \in status.runs \cup status.unknown

(* A target that is reported with a current pass: its newest check of these
   very bytes passed, and unless somebody wrote the file between prepare and
   the checker's reading, the checker read exactly them. *)
PassIsForTheseBytes ==
  \A p \in Files :
    LET t == ForTarget(p)
    IN t.state = "current_checker_pass" =>
         /\ \A n \in DOMAIN checks :
              /\ checks[n].target = p
              /\ checks[n].hash = file[p]
              /\ \A m \in DOMAIN checks : checks[m].target = p /\ checks[m].hash = file[p] => m <= n
              => runs[checks[n].run].exit = "passed"
         /\ p \in runs[t.latest.run].still => runs[t.latest.run].read[p] = file[p]
=============================================================================
