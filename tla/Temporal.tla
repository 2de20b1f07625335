------------------------------ MODULE Temporal ------------------------------
(***************************************************************************)
(* Temporal assertions (temporal_model.py, temporal_projection.py) in an   *)
(* append-only store with a derived query index (temporal_store.py), and   *)
(* the three meanings of time a query may ask for (temporal_query.py).     *)
(*                                                                         *)
(* An assertion is its contents: its identifier is their digest.  An       *)
(* instant is a number; format_instant gives instants of one width in one  *)
(* zone, so the index orders their texts as the instants are ordered.  No  *)
(* code of this component reads a clock: when something was recorded is    *)
(* what the caller says, whenever it says so.  The limits of 500 rows are  *)
(* out of the model.                                                       *)
(*                                                                         *)
(* Bounds: Dates, and MaxAssertions of this version's own.                 *)
(***************************************************************************)
EXTENDS Stores, Naturals, FiniteSets

CONSTANTS
  Processes,
  Perspectives,
  EventKinds,
  Offers,         \* [of, object, recorded, published, from, until, perspective]: what may be
                  \* projected of an object recorded then
  EventOffers,    \* [object, kind, eventTime, perspective]: the events that may be told
  Inherited,      \* assertions an older version may have left without index rows
  Queries,        \* [clauses, perspective, object, events] as asked of "query"
  EventQueries,   \* [subject, kinds, by, timeBy, perspective] as asked of "events_for"
  Dates,          \* the instants callers state
  MaxAssertions

(* What kind of values the constants are *)
OffersFit ==
  /\ IsFiniteSet(Inherited)
  /\ \A p \in Inherited : p.recorded \in Nat /\ p.perspective \in Perspectives
  /\ \A o \in Offers : /\ o.of \in {"snapshot", "revision", "relation"}
                       /\ o.recorded \in Nat /\ o.perspective \in Perspectives
  /\ \A e \in EventOffers : e.kind \in EventKinds /\ e.perspective \in Perspectives
  /\ \A q \in Queries : \A c \in q.clauses :
       c.mode \in {"known_at", "available_by", "effective_at"} /\ c.at \in Nat
  /\ Dates \subseteq Nat

VARIABLES
  assertions,     \* rows of testamur_temporal_assertions
  index,          \* rows of testamur_temporal_query_index
  opened,         \* processes whose store is open
  call            \* what each process is doing

temporalVars == <<assertions, index, opened, call>>

-----------------------------------------------------------------------------
(* The model: assertions and what they say of each meaning of time.        *)

IsEvent(p) == p.kind \in EventKinds
Effective(p) == p.from # None \/ p.until # None

(* EffectiveInterval.contains, half open.                                  *)
Holds(from, until, at) == (from = None \/ from <= at) /\ (until = None \/ at < until)

(* A publication counts when it is exact and its provenance is known.      *)
Supported(pub) == pub # None /\ pub.at # None /\ pub.basis # "unknown" /\ pub.sourced

(* _matches_clause. *)
Matches(p, clause) ==
  CASE clause.mode = "known_at"     -> p.recorded <= clause.at
    [] clause.mode = "available_by" -> Supported(p.published) /\ p.published.at <= clause.at
    [] clause.mode = "effective_at" -> Effective(p) /\ Holds(p.from, p.until, clause.at)

PerspectivesOf(items) == {p.perspective : p \in items}

Retrospective(p, q) ==
  \E c \in q.clauses : c.mode # "known_at" /\ p.recorded > c.at

(* query_temporal over the assertions themselves; None when it refuses to
   choose between perspectives. *)
\* Mutant: the selection is left to the caller.
QueryTemporal_Trusting(items, q) ==
  LET chosen == {p \in items : q.perspective \in {None, p.perspective}}
  IN  {[assertion |-> p, retrospective |-> Retrospective(p, q)] :
         p \in {p \in chosen : \A c \in q.clauses : Matches(p, c)}}

QueryTemporal(items, q) ==
  LET chosen == {p \in items : q.perspective \in {None, p.perspective}}
  IN  IF q.perspective = None /\ Cardinality(PerspectivesOf(items)) > 1 THEN None
      ELSE {[assertion |-> p, retrospective |-> Retrospective(p, q)] :
              p \in {p \in chosen : \A c \in q.clauses : Matches(p, c)}}

-----------------------------------------------------------------------------
(* The index.                                                              *)

(* _index_values and _event_fields. *)
IndexRow(p) ==
  [assertion |-> p, object |-> p.object, recorded |-> p.recorded,
   published |-> IF p.published = None THEN None ELSE p.published.at,
   supported |-> Supported(p.published),
   from |-> p.from, until |-> p.until, effective |-> Effective(p),
   perspective |-> p.perspective, event |-> IsEvent(p),
   kind |-> IF IsEvent(p) THEN p.kind ELSE None,
   eventTime |-> p.eventTime]

Missing == assertions \ {row.assertion : row \in index}

(* The rows a request is about before any time is considered.              *)
Scope(q) == {row \in index : (q.events \/ ~row.event) /\ q.object \in {None, row.object}}

EventScope(q) ==
  {row \in index : row.event /\ q.subject \in {None, row.object}
                   /\ (q.kinds = None \/ row.kind \in q.kinds)}

RowMatches(row, clause) ==
  CASE clause.mode = "known_at"     -> row.recorded <= clause.at
    [] clause.mode = "available_by" ->
         row.supported /\ row.published # None /\ row.published <= clause.at
    [] clause.mode = "effective_at" ->
         row.effective /\ (row.from = None \/ row.from <= clause.at)
         /\ (row.until = None \/ row.until > clause.at)

(* The rows query and events_for select.                                   *)
Selected(q) ==
  {row.assertion : row \in {row \in Scope(q) :
     q.perspective \in {None, row.perspective} /\ \A c \in q.clauses : RowMatches(row, c)}}

EventsSelected(q) ==
  {row.assertion : row \in {row \in EventScope(q) :
     /\ q.perspective \in {None, row.perspective}
     /\ q.by = None \/ row.recorded <= q.by
     /\ q.timeBy = None \/ (row.eventTime # None /\ row.eventTime <= q.timeBy)}}

-----------------------------------------------------------------------------
TemporalInit ==
  /\ assertions \in SUBSET Inherited
  /\ index = {}
  /\ opened = {}
  /\ call = [c \in Processes |-> Idle]

Do(c, next) == call' = [call EXCEPT ![c] = next]

(* _init_schema: the rows to add are read outside of the transaction that
   adds them, and a row that is there by then is an IntegrityError. *)
OpenStore(c) ==
  /\ call[c] = Idle /\ c \notin opened
  /\ Do(c, [pc |-> "backfill", missing |-> Missing])
  /\ UNCHANGED <<assertions, index, opened>>

\* Mutant: events are taken for rows of an older version and left alone.
Backfill_NoEvents(c) ==
  /\ call[c].pc = "backfill"
  /\ Do(c, Idle)
  /\ LET rows == {IndexRow(p) : p \in {p \in call[c].missing : ~IsEvent(p)}}
     IN  IF rows \cap index # {} THEN UNCHANGED <<index, opened>>
         ELSE index' = index \cup rows /\ opened' = opened \cup {c}
  /\ UNCHANGED assertions

Backfill(c) ==
  /\ call[c].pc = "backfill"
  /\ Do(c, Idle)
  /\ LET rows == {IndexRow(p) : p \in call[c].missing}
     IN  IF rows \cap index # {} THEN UNCHANGED <<index, opened>>
         ELSE index' = index \cup rows /\ opened' = opened \cup {c}
  /\ UNCHANGED assertions

(* What the constructors accept: provenance for a basis that is claimed, and
   an interval that is not empty. *)
WellFormed(pub) == pub # None /\ pub.basis # "unknown" => pub.sourced
Interval(from, until) == from # None /\ until # None => from < until

(* Evidence attached to a row that exists already must say when it became
   known: without asserted_at the projection is as old as its subject. *)
SnapshotMay(o, asserted) == ~Effective(o) /\ (o.published # None => asserted # None)
RevisionMay(o, asserted) == o.published # None \/ Effective(o) => asserted # None
RelationMay(o, asserted) == o.published = None /\ (Effective(o) => asserted # None)

Projectable(o, asserted) ==
  /\ WellFormed(o.published) /\ Interval(o.from, o.until)
  /\ CASE o.of = "snapshot" -> SnapshotMay(o, asserted)
       [] o.of = "revision" -> RevisionMay(o, asserted)
       [] o.of = "relation" -> RelationMay(o, asserted)

OwnAssertions == Cardinality(assertions \ Inherited)
        + Cardinality({c \in Processes : call[c].pc = "append"})

(* asserted_at is taken as it is given: it may lie before the projection is
   made, or after it is appended. *)
Project(c, o, asserted) ==
  /\ call[c] = Idle /\ c \in opened /\ OwnAssertions < MaxAssertions
  /\ Projectable(o, asserted)
  /\ Do(c, [pc |-> "append", assertion |->
       [object |-> o.object, kind |-> "state",
        recorded |-> IF asserted = None THEN o.recorded ELSE asserted,
        published |-> o.published, from |-> o.from, until |-> o.until,
        perspective |-> o.perspective, eventTime |-> None]])
  /\ UNCHANGED <<assertions, index, opened>>

(* TemporalEvent.to_projection: recorded_at is the caller's as well. *)
TellEvent(c, e, at) ==
  /\ call[c] = Idle /\ c \in opened /\ OwnAssertions < MaxAssertions
  /\ Do(c, [pc |-> "append", assertion |->
       [object |-> e.object, kind |-> e.kind, recorded |-> at, published |-> None,
        from |-> None, until |-> None, perspective |-> e.perspective,
        eventTime |-> e.eventTime]])
  /\ UNCHANGED <<assertions, index, opened>>

(* append_projection: the assertion and its index row in one transaction.  *)
AppendProjection(c) ==
  /\ call[c].pc = "append"
  /\ assertions' = assertions \cup {call[c].assertion}
  /\ index' = index \cup {IndexRow(call[c].assertion)}
  /\ Do(c, Idle)
  /\ UNCHANGED opened

(* query and events_for first look whether a perspective has to be chosen,
   then select; the two SELECTs are not one transaction. *)
Ambiguous(rows) == Cardinality(PerspectivesOf(rows)) > 1

QueryCheck(c, q) ==
  /\ call[c] = Idle /\ c \in opened
  /\ q.perspective # None \/ ~Ambiguous(Scope(q))
  /\ Do(c, [pc |-> "select", query |-> q])
  /\ UNCHANGED <<assertions, index, opened>>

QuerySelect(c) ==
  /\ call[c].pc = "select"
  /\ Do(c, [pc |-> "answer", query |-> call[c].query,
            answer |-> QueryTemporal(Selected(call[c].query), call[c].query)])
  /\ UNCHANGED <<assertions, index, opened>>

EventsCheck(c, q) ==
  /\ call[c] = Idle /\ c \in opened
  /\ q.perspective # None \/ ~Ambiguous(EventScope(q))
  /\ Do(c, [pc |-> "select events", query |-> q])
  /\ UNCHANGED <<assertions, index, opened>>

EventsSelect(c) ==
  /\ call[c].pc = "select events"
  /\ Do(c, [pc |-> "events", query |-> call[c].query, answer |-> EventsSelected(call[c].query)])
  /\ UNCHANGED <<assertions, index, opened>>

ReturnAnswer(c) ==
  /\ call[c].pc \in {"answer", "events"}
  /\ Do(c, Idle)
  /\ UNCHANGED <<assertions, index, opened>>

TemporalNext ==
  \E c \in Processes :
     \/ OpenStore(c) \/ Backfill(c)
     \/ \E o \in Offers, asserted \in Dates \cup {None} : Project(c, o, asserted)
     \/ \E e \in EventOffers, at \in Dates : TellEvent(c, e, at)
     \/ AppendProjection(c)
     \/ \E q \in Queries : QueryCheck(c, q)
     \/ \E q \in EventQueries : EventsCheck(c, q)
     \/ QuerySelect(c) \/ EventsSelect(c) \/ ReturnAnswer(c)

TemporalSpec == TemporalInit /\ [][TemporalNext]_temporalVars

-----------------------------------------------------------------------------
TypeOK ==
  /\ \A p \in assertions : p.recorded \in Nat /\ p.perspective \in Perspectives
  /\ \A row \in index : row.assertion \in assertions
  /\ opened \subseteq Processes

(* Once any process has opened the store, the index answers as the
   assertions themselves would, whatever older versions left behind: the
   same matches of every query, and the same events. *)
IndexAnswersForAssertions ==
  opened # {} =>
    /\ \A q \in Queries :
         LET items == {p \in assertions : (q.events \/ ~IsEvent(p)) /\ q.object \in {None, p.object}}
         IN  q.perspective # None \/ Cardinality(PerspectivesOf(items)) <= 1
             => QueryTemporal(Selected(q), q) = QueryTemporal(items, q)
    /\ \A q \in EventQueries :
         EventsSelected(q) =
           {p \in assertions :
              /\ IsEvent(p) /\ q.subject \in {None, p.object}
              /\ q.kinds = None \/ p.kind \in q.kinds
              /\ q.perspective \in {None, p.perspective}
              /\ q.by = None \/ p.recorded <= q.by
              /\ q.timeBy = None \/ (p.eventTime # None /\ p.eventTime <= q.timeBy)}

(* No answer of query mixes perspectives nobody selected, even if one is added
   between the check and the selection. *)
AnswersHaveOnePerspective ==
  \A c \in Processes :
    call[c].pc = "answer" /\ call[c].answer # None =>
      Cardinality({m.assertion.perspective : m \in call[c].answer}) <= 1

=============================================================================
