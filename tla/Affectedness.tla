--------------------------- MODULE Affectedness ---------------------------
(***************************************************************************)
(* Advisories and what they affect: the append-only stores of lineage      *)
(* edges (lineage.py), advisory revisions (advisory.py) and affectedness   *)
(* assessments (affectedness.py), the engine that turns lineage paths into *)
(* candidates and evidence into verdicts, and the review projection.       *)
(*                                                                         *)
(* Workers refresh candidates in several transactions each: they walk the  *)
(* lineage, and then, per subject, read the current heads and record a     *)
(* candidate, while others record edges, revisions and assessments.  A     *)
(* walk is one step, though the code reads each node by itself: edges are  *)
(* only added, so a path that a longer walk finds is one afterwards too.   *)
(***************************************************************************)
EXTENDS Lineage

CONSTANTS
  Edges,           \* the edges that may be recorded
  Advisories,      \* revisions that may be recorded: [rev, event, roots]
  Events,          \* stable advisory identities
  Subjects,        \* revisions an analyst assesses
  Analyses,        \* what an analyst hands in: [evidence, scope, path, basis]
  Workers,
  Limit,           \* the resource bounds of the searches (see Walk)
  MaxRows,         \* bound: assessments
  None

ASSUME EdgesLegal == \A e \in Edges : LegalEdge(e)

(* Every search goes at least one step. *)
ASSUME LimitIsPos == Limit.depth \in Nat \ {0}

(* A stored revision names its stable event, and its identifier is a digest
   of what it says. *)
ASSUME AdvisoriesNamed == None \notin Events /\ \A a \in Advisories : a.event \in Events
ASSUME RevisionsIdentified == \A a, b \in Advisories : a.rev = b.rev => a = b

VARIABLES
  edges,      \* testamur_lineage_edges
  published,  \* testamur_advisory_revisions
  rows,       \* testamur_affectedness_assessments, by rowid
  op          \* the refresh each worker is in

vars == <<edges, published, rows, op>>

Final == {"CONFIRMED_AFFECTED", "MITIGATED", "DISPROVEN", "NOT_APPLICABLE"}
States == Final \cup {"POTENTIALLY_AFFECTED", "UNKNOWN"}
Idle == [kind |-> "idle"]

(***************************************************************************)
(* resolve_state_from_evidence.  Evidence is a set of items                *)
(* [signal, class, scope].                                                 *)
(***************************************************************************)
ScopesOf(evidence) == {x.scope : x \in evidence} \ {NoScope}

ScopeConflict(evidence, scope) ==
  IF scope # NoScope THEN ScopesOf(evidence) \ {scope} # {}
  ELSE Cardinality(ScopesOf(evidence)) > 1

TerminalSignals ==
  {"MATERIAL_PRESENT", "MATERIAL_ABSENT", "MITIGATION_ESTABLISHED", "OUT_OF_SCOPE"}

\* Mutant: any mitigation wins over what it is combined with.
Conflicting_MitigationWins(signals) ==
  Cardinality((signals \cap TerminalSignals) \ {"MITIGATION_ESTABLISHED"}) > 1

Conflicting(signals) ==
  LET terminal == signals \cap TerminalSignals
  IN  /\ terminal # {"MATERIAL_PRESENT", "MITIGATION_ESTABLISHED"}
      /\ Cardinality(terminal) > 1

Resolve(evidence, scope) ==
  LET conclusive == {x \in evidence : x.class # "DECLARED" /\ x.signal # "MITIGATION_DECLARED"}
      signals == {x.signal : x \in conclusive}
  IN  IF ScopeConflict(evidence, scope) \/ Conflicting(signals) THEN "UNKNOWN"
      ELSE IF "OUT_OF_SCOPE" \in signals THEN "NOT_APPLICABLE"
      ELSE IF "MITIGATION_ESTABLISHED" \in signals THEN "MITIGATED"
      ELSE IF "MATERIAL_ABSENT" \in signals THEN "DISPROVEN"
      ELSE IF "MATERIAL_PRESENT" \in signals THEN "CONFIRMED_AFFECTED"
      ELSE "UNKNOWN"

(***************************************************************************)
(* The rows and their heads.                                               *)
(***************************************************************************)
Rows == DOMAIN rows

(* current_heads_for_event: only rows of the same revision and subject can
   supersede there. *)
Heads(rev) ==
  {i \in Rows : /\ rows[i].rev = rev
                /\ \A j \in Rows : rows[j].rev = rev /\ rows[j].subject = rows[i].subject
                                     => rows[j].super # i}

IsCandidate(r) == r.state = "POTENTIALLY_AFFECTED" /\ r.evidence = {} /\ r.candidate

(* validate_affectedness_supersession *)
MaySupersede(previous, rev, subject, event) ==
  /\ previous.subject = subject
  /\ IF previous.rev = rev
     THEN previous.event = None \/ event = None \/ previous.event = event
     ELSE previous.event # None /\ previous.event = event

(* A row without an event inherits the one of the row it supersedes in the
   same revision. *)
\* Mutant: nothing is inherited.
Inherited_Nothing(super, rev, event) == event

Inherited(super, rev, event) ==
  IF event = None /\ super # 0 /\ rows[super].rev = rev THEN rows[super].event ELSE event

Recordable(r) ==
  /\ r.state \in Final => r.evidence # {} /\ ~ScopeConflict(r.evidence, r.scope)
                            /\ Resolve(r.evidence, r.scope) = r.state
  /\ r.state = "POTENTIALLY_AFFECTED" => r.path # {}
  /\ r.super # 0 => MaySupersede(rows[r.super], r.rev, r.subject, r.event)

(* record_assessment: the identifier is a digest of the row, so an equal row
   is returned and nothing is written. *)
Record(r) ==
  rows' = IF \E i \in Rows : rows[i] = r THEN rows ELSE Append(rows, r)

(* _closed_assessment_basis: the advisory revision and the path edges are
   always in the basis. *)
Closed(basis, rev, path) ==
  basis \cup {[kind |-> "advisory_revision", ref |-> rev]}
        \cup {[kind |-> "lineage_edge", ref |-> e] : e \in path}

(* audit_affectedness_basis, for an assessment whose entries are well formed *)
AuditValid(r) ==
  LET lineageRefs == {b.ref : b \in {b \in r.basis : b.kind = "lineage_edge"}}
      advisoryRefs == {b.ref : b \in {b \in r.basis : b.kind = "advisory_revision"}}
  IN  /\ lineageRefs = r.path
      /\ advisoryRefs \subseteq {r.rev}
      /\ r.path \subseteq edges
      /\ \E a \in published : a.rev = r.rev

(***************************************************************************)
(* Refreshing candidates.                                                  *)
(***************************************************************************)
(* find_potentially_affected: subjects with the edges of all their paths, or
   nothing at all when a walk is incomplete. *)
Found(a) == UNION {PathsFailClosed(edges, o, Limit).paths : o \in a.roots}

CandidatesOf(a) ==
  {[subject |-> s,
    path |-> UNION {{p.steps[k].edge : k \in DOMAIN p.steps} : p \in {p \in Found(a) : p.at = s}}] :
     s \in {p.at : p \in Found(a)}}

Init ==
  /\ edges = {}
  /\ published = {}
  /\ rows = <<>>
  /\ op = [w \in Workers |-> Idle]

RecordLineage(e) ==
  /\ e \notin edges
  /\ edges' = edges \cup {e}
  /\ UNCHANGED <<published, rows, op>>

RecordAdverseEvent(a) ==
  /\ a \notin published
  /\ published' = published \cup {a}
  /\ UNCHANGED <<edges, rows, op>>

RefreshStart(w, a) ==
  /\ op[w] = Idle
  /\ a \in published
  /\ \A o \in a.roots : PathsFailClosed(edges, o, Limit).complete
  /\ CandidatesOf(a) # {}
  /\ op' = [op EXCEPT ![w] = [kind |-> "refresh", of |-> a, todo |-> CandidatesOf(a)]]
  /\ UNCHANGED <<edges, published, rows>>

(* _candidate_refresh_predecessor: an equal candidate is kept, a single other
   one is superseded, several are left alone.  The subjects come in a fixed
   order. *)
CandidateRow(a, c, super) ==
  [event |-> a.event, rev |-> a.rev, subject |-> c.subject,
   state |-> "POTENTIALLY_AFFECTED", evidence |-> {}, scope |-> NoScope,
   path |-> c.path, basis |-> Closed({}, a.rev, c.path), candidate |-> TRUE,
   super |-> super]

After(a, todo) == IF todo = {} THEN Idle ELSE [kind |-> "refresh", of |-> a, todo |-> todo]

FindPredecessor(w) ==
  /\ op[w].kind = "refresh"
  /\ LET a == op[w].of
         c == CHOOSE c \in op[w].todo : TRUE
         rest == op[w].todo \ {c}
         generated == {i \in Heads(a.rev) : rows[i].subject = c.subject /\ IsCandidate(rows[i])}
         super == IF Cardinality(generated) = 1 THEN CHOOSE i \in generated : TRUE ELSE 0
     IN  op' = [op EXCEPT ![w] =
           IF \E i \in generated : rows[i].path = c.path /\ rows[i].event = a.event
           THEN After(a, rest)
           ELSE [kind |-> "record", of |-> a, todo |-> rest, row |-> CandidateRow(a, c, super)]]
  /\ UNCHANGED <<edges, published, rows>>

RecordCandidate(w) ==
  /\ op[w].kind = "record"
  /\ Len(rows) < MaxRows
  /\ Recordable(op[w].row)
  /\ Record(op[w].row)
  /\ op' = [op EXCEPT ![w] = After(@.of, @.todo)]
  /\ UNCHANGED <<edges, published>>

(* A refresh that dies, or loses the race to insert an equal row, or waits
   too long for the database, stops where it is. *)
RefreshStops(w) ==
  /\ op[w] # Idle
  /\ op' = [op EXCEPT ![w] = Idle]
  /\ UNCHANGED <<edges, published, rows>>

(* assess_from_evidence.  Path and basis are the caller's; neither is compared
   with what is recorded.  The row it supersedes is immutable, so that reading
   it first changes nothing. *)
Assess(a, s, event, x, super) ==
  LET r == [event |-> Inherited(super, a.rev, event), rev |-> a.rev, subject |-> s,
            state |-> Resolve(x.evidence, x.scope), evidence |-> x.evidence,
            scope |-> x.scope, path |-> x.path,
            basis |-> Closed(x.basis, a.rev, x.path), candidate |-> FALSE, super |-> super]
  IN  /\ a \in published
      /\ Len(rows) < MaxRows
      /\ Recordable(r)
      /\ Record(r)
      /\ UNCHANGED <<edges, published, op>>

Analyst ==
  \E a \in Advisories, s \in Subjects, event \in Events \cup {None}, x \in Analyses :
    \E super \in {0} \cup Rows : Assess(a, s, event, x, super)

Refresh(w) ==
  \/ \E a \in Advisories : RefreshStart(w, a)
  \/ FindPredecessor(w)
  \/ RecordCandidate(w)
  \/ RefreshStops(w)

Next ==
  \/ \E e \in Edges : RecordLineage(e)
  \/ \E a \in Advisories : RecordAdverseEvent(a)
  \/ Analyst
  \/ \E w \in Workers : Refresh(w)

Spec == Init /\ [][Next]_vars

(***************************************************************************)
(* Properties                                                              *)
(***************************************************************************)
(* The rows are well typed, and each supersedes an earlier one.  The basis of
   every row holds its advisory revision and its path, whatever else an
   analyst put there (_closed_assessment_basis); the audit promises more only
   of candidates, whose edges are all recorded and are the only ones in the
   basis (audit_affectedness_basis). *)
TypeOK ==
  /\ edges \subseteq Edges
  /\ published \subseteq Advisories
  /\ \A i \in Rows :
       /\ rows[i].rev \in {a.rev : a \in published}
       /\ rows[i].event \in Events \cup {None}
       /\ rows[i].state \in States
       /\ rows[i].super \in 0..(i - 1)
       /\ Closed({}, rows[i].rev, rows[i].path) \subseteq rows[i].basis
       /\ IsCandidate(rows[i]) => AuditValid(rows[i])
  /\ \A w \in Workers : op[w].kind \in {"idle", "refresh", "record"}

(* A walk that calls itself complete found every path: a resource bound is
   never mistaken for the absence of further descendants (lineage_walk). *)
CompleteWalkIsExhaustive ==
  \A a \in published : \A o \in a.roots :
    LET walk == PathsFailClosed(edges, o, Limit)
    IN  walk.complete =>
          {p.steps : p \in walk.paths} = AllPaths({e \in edges : e.rel \in Propagating}, o)

(* The explanation of a candidate (explain_affectedness_path) rebuilds, from
   the pinned edges alone, every path that made the subject a candidate. *)
ExplanationKeepsPaths ==
  \A i \in Rows : IsCandidate(rows[i]) =>
    \A a \in published : a.rev = rows[i].rev =>
      LET explained == OrderedPaths(rows[i].path, rows[i].subject, a.roots, Limit)
          wanted == {q \in UNION {AllPaths(rows[i].path, o) : o \in a.roots} :
                       Last(q).to = rows[i].subject
                       /\ \A k \in 1..(Len(q) - 1) : q[k].to # rows[i].subject}
      IN  explained.complete => wanted # {} /\ wanted \subseteq explained.paths

(* A chain of supersessions stays with one subject and one stable event,
   however many revisions of the advisory and rows without an event it goes
   through (validate_affectedness_supersession). *)
ChainIsOneEvent ==
  LET chain[i \in 0..Len(rows)] == IF i = 0 THEN {} ELSE {i} \cup chain[rows[i].super]
  IN  \A i \in Rows :
        /\ Cardinality({rows[j].subject : j \in chain[i]}) = 1
        /\ Cardinality({rows[j].event : j \in chain[i]} \ {None}) <= 1

(* More evidence never flips a verdict: of two assessments under one scope,
   the one with more evidence has the same final state, gives up to UNKNOWN,
   or finds the affected subject mitigated (resolve_state_from_evidence). *)
MoreEvidenceNeverFlips ==
  \A i, j \in Rows :
    /\ rows[i].evidence \subseteq rows[j].evidence
    /\ rows[i].scope = rows[j].scope
    /\ {rows[i].state, rows[j].state} \subseteq Final
    => \/ rows[i].state = rows[j].state
       \/ rows[i].state = "CONFIRMED_AFFECTED" /\ rows[j].state = "MITIGATED"

(* Refreshing candidates again is idempotent: one worker never records the
   same subject with the same paths twice for one advisory revision
   (_candidate_refresh_predecessor).  No run checks this: two refreshes do
   record it twice, as the README describes. *)
CandidatesAreIdempotent ==
  \A i, j \in Rows :
    /\ IsCandidate(rows[i]) /\ IsCandidate(rows[j])
    /\ rows[i].rev = rows[j].rev /\ rows[i].subject = rows[j].subject
    /\ rows[i].path = rows[j].path
    => i = j
=============================================================================
