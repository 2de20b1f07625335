---------------------- MODULE TemporalEvidence_proof ----------------------
(***************************************************************************)
(* Proofs about Temporal, for any processes, assertions inherited or       *)
(* offered, and queries, and below them proofs about the checks of         *)
(* Evidence, for any files, commands, workers and users.  The two stores   *)
(* share no state, and neither part uses the other.                        *)
(*                                                                         *)
(* Temporal: until the first process has opened the store the index is     *)
(* empty and nothing is added; from then on every assertion has its row,   *)
(* since whoever adds one adds the other (IndexFits).  So what the index   *)
(* selects is what the assertions say, and a second backfill finds nothing *)
(* to add.                                                                 *)
(*                                                                         *)
(* Evidence: a target that nobody disturbed since it was pinned is still   *)
(* as it was pinned (Undisturbed), whoever else writes; so what a checker  *)
(* reads then is what its record will say (PinRead), and runs keep what    *)
(* they read (RunsKept).  The newest check of a file's present bytes is    *)
(* the last row with their hash (EvidenceIInv).                            *)
(*                                                                         *)
(* The rows of a receipt tell what its command read and left of the files  *)
(* that nobody else wrote meanwhile (TableIInv).  The walks over the rows  *)
(* close: what is seen is queued once and its neighbours are seen after    *)
(* its turn, so after as many turns as there are rows or runs all that can *)
(* be reached has been seen, or the walk says that it was cut short        *)
(* (ImpactCloses, TraceCloses).                                            *)
(***************************************************************************)
EXTENDS Temporal, Evidence, FiniteSetTheorems, WellFoundedInduction, TLAPS

AnswerPerspectives(answer) == {m.assertion.perspective : m \in answer}

(* What a call has read or made fits what is recorded.                      *)
CallsFit ==
    /\ DOMAIN call = Processes
    /\ \A c \in Processes :
         /\ call[c].pc = "backfill" => call[c].missing \subseteq assertions
         /\ call[c].pc = "append" =>
              /\ call[c].assertion.recorded \in Nat
              /\ call[c].assertion.perspective \in Perspectives

(* A row has its assertion, and once the store is open every assertion has  *)
(* its row.                                                                 *)
IndexFits ==
    /\ \A row \in index : \E p \in assertions : row = IndexRow(p)
    /\ opened # {} => \A p \in assertions : IndexRow(p) \in index
    /\ opened = {} =>
         /\ index = {}
         /\ \A c \in Processes : /\ call[c].pc # "append"
                                 /\ call[c].pc = "backfill" => call[c].missing = assertions

TemporalIInv ==
    /\ OffersFit
    /\ TypeOK
    /\ IsFiniteSet(assertions)
    /\ CallsFit
    /\ IndexFits
    /\ AnswersHaveOnePerspective

-----------------------------------------------------------------------------
(* A row has its assertion.                                                *)
LEMMA RowHasAssertion == \A p : IndexRow(p).assertion = p
BY DEF IndexRow

(* Before anything is recorded.                                            *)
LEMMA TemporalInitHolds == OffersFit /\ TemporalInit => TemporalIInv
<1> SUFFICES ASSUME OffersFit, TemporalInit PROVE TemporalIInv
  OBVIOUS
<1>1. IsFiniteSet(assertions) /\ assertions \subseteq Inherited
  BY FS_Subset DEF TemporalInit, OffersFit
<1>2. TypeOK
  BY <1>1 DEF TemporalInit, OffersFit, TypeOK
<1>3. CallsFit /\ IndexFits /\ AnswersHaveOnePerspective
  BY DEF TemporalInit, CallsFit, IndexFits, AnswersHaveOnePerspective, Idle
<1> QED BY <1>1, <1>2, <1>3 DEF TemporalIInv

(* A step that leaves the rows alone and puts one call where it fits.      *)
LEMMA CallStep ==
    ASSUME TemporalIInv, NEW c \in Processes, NEW next, Do(c, next),
           UNCHANGED <<assertions, index, opened>>,
           next.pc = "backfill" => next.missing = Missing,
           next.pc = "append" =>
              /\ opened # {}
              /\ next.assertion.recorded \in Nat
              /\ next.assertion.perspective \in Perspectives,
           next.pc = "answer" /\ next.answer # None =>
              Cardinality(AnswerPerspectives(next.answer)) <= 1
    PROVE  TemporalIInv'
<1> USE DEF TemporalIInv
<1>1. TypeOK' /\ OffersFit' /\ IsFiniteSet(assertions)'
  BY DEF TypeOK, OffersFit
<1>2. DOMAIN call' = Processes /\ \A d \in Processes : call'[d] = IF d = c THEN next ELSE call[d]
  BY DEF Do, CallsFit
<1>3. Missing \subseteq assertions /\ (opened = {} => Missing = assertions)
  BY DEF Missing, IndexFits
<1>4. CallsFit'
  BY <1>2, <1>3 DEF CallsFit
<1>5. IndexFits'
  BY <1>2, <1>3 DEF IndexFits, IndexRow, Supported, Effective, IsEvent
<1>6. AnswersHaveOnePerspective'
  BY <1>2 DEF AnswersHaveOnePerspective, AnswerPerspectives
<1> QED BY <1>1, <1>4, <1>5, <1>6

(* A call that ends leaves the answers of the others.                      *)
LEMMA IdleStep ==
    ASSUME AnswersHaveOnePerspective, NEW c \in Processes,
           \A d \in Processes : call'[d] = IF d = c THEN Idle ELSE call[d]
    PROVE  AnswersHaveOnePerspective'
<1> SUFFICES ASSUME NEW d \in Processes, call'[d].pc = "answer", call'[d].answer # None
             PROVE  Cardinality({m.assertion.perspective : m \in call'[d].answer}) <= 1
  BY DEF AnswersHaveOnePerspective
<1>1. call'[d] = call[d]
  BY DEF Idle
<1> QED BY <1>1 DEF AnswersHaveOnePerspective

(* A projection is recorded when its subject was, or when its caller says.  *)
LEMMA ProjectStep ==
    ASSUME TemporalIInv, NEW c \in Processes, NEW o \in Offers, NEW asserted \in Dates \cup {None},
           Project(c, o, asserted)
    PROVE  TemporalIInv'
<1> DEFINE p == [object |-> o.object, kind |-> "state",
                 recorded |-> IF asserted = None THEN o.recorded ELSE asserted,
                 published |-> o.published, from |-> o.from, until |-> o.until,
                 perspective |-> o.perspective, eventTime |-> None]
<1>1. p.recorded \in Nat /\ p.perspective \in Perspectives
  BY DEF TemporalIInv, OffersFit
<1> HIDE DEF p
<1>2. /\ Do(c, [pc |-> "append", assertion |-> p])
      /\ opened # {} /\ UNCHANGED <<assertions, index, opened>>
  BY DEF Project, p
<1> QED BY <1>1, <1>2, CallStep

(* An event is recorded when its caller says.                              *)
LEMMA TellEventStep ==
    ASSUME TemporalIInv, NEW c \in Processes, NEW e \in EventOffers, NEW at \in Dates,
           TellEvent(c, e, at)
    PROVE  TemporalIInv'
<1> DEFINE p == [object |-> e.object, kind |-> e.kind, recorded |-> at, published |-> None,
                 from |-> None, until |-> None, perspective |-> e.perspective,
                 eventTime |-> e.eventTime]
<1>1. p.recorded \in Nat /\ p.perspective \in Perspectives
  BY DEF TemporalIInv, OffersFit
<1> HIDE DEF p
<1>2. /\ Do(c, [pc |-> "append", assertion |-> p])
      /\ opened # {} /\ UNCHANGED <<assertions, index, opened>>
  BY DEF TellEvent, p
<1> QED BY <1>1, <1>2, CallStep

(* What query_temporal answers is of one perspective: the one selected, or *)
(* the only one there is.                                                  *)
LEMMA AnswerHasOne ==
    ASSUME NEW items, IsFiniteSet(items), NEW q, QueryTemporal(items, q) # None
    PROVE  Cardinality(AnswerPerspectives(QueryTemporal(items, q))) <= 1
<1> DEFINE answer == QueryTemporal(items, q)
           found == AnswerPerspectives(answer)
<1> SUFFICES Cardinality(found) <= 1
  OBVIOUS
<1>1. \A x \in found : \E p \in items :
        x = p.perspective /\ q.perspective \in {None, p.perspective}
  BY DEF QueryTemporal, AnswerPerspectives
<1>2. CASE q.perspective # None
  <2>1. found \subseteq {q.perspective}
    BY <1>1, <1>2
  <2>2. IsFiniteSet({q.perspective}) /\ Cardinality({q.perspective}) = 1
    BY FS_Singleton
  <2> HIDE DEF found
  <2> QED BY <2>1, <2>2, FS_Subset, FS_CardinalityType
<1>3. CASE q.perspective = None
  <2>1. IsFiniteSet(PerspectivesOf(items))
    <3> DEFINE who == [p \in items |-> p.perspective]
    <3>1. PerspectivesOf(items) = {who[p] : p \in items}
      BY DEF PerspectivesOf
    <3>2. who \in Surjection(items, PerspectivesOf(items))
      BY <3>1 DEF Surjection
    <3> QED BY <3>2, FS_Surjection
  <2>2. Cardinality(PerspectivesOf(items)) <= 1
    BY <1>3, <2>1, FS_CardinalityType DEF QueryTemporal
  <2>3. found \subseteq PerspectivesOf(items)
    BY <1>1 DEF PerspectivesOf
  <2> HIDE DEF found
  <2> QED BY <2>1, <2>2, <2>3, FS_Subset, FS_CardinalityType
<1> QED BY <1>2, <1>3

(* The rows selected are assertions.                                       *)
LEMMA SelectedAreAssertions ==
    ASSUME TemporalIInv, NEW q
    PROVE  Selected(q) \subseteq assertions /\ IsFiniteSet(Selected(q))
<1>1. Selected(q) \subseteq assertions
  BY RowHasAssertion DEF TemporalIInv, IndexFits, Selected, Scope
<1> QED BY <1>1, FS_Subset DEF TemporalIInv

(* A query is answered.                                                     *)
LEMMA QuerySelectStep ==
    ASSUME TemporalIInv, NEW c \in Processes, QuerySelect(c)
    PROVE  TemporalIInv'
<1> DEFINE q == call[c].query
           next == [pc |-> "answer", query |-> q, answer |-> QueryTemporal(Selected(q), q)]
<1>1. next.answer # None => Cardinality(AnswerPerspectives(next.answer)) <= 1
  BY SelectedAreAssertions, AnswerHasOne
<1>2. Do(c, next) /\ UNCHANGED <<assertions, index, opened>> /\ next.pc = "answer"
  BY DEF QuerySelect
<1> HIDE DEF next
<1> QED BY <1>1, <1>2, CallStep

(* The remaining steps of a call that add no row                           *)
LEMMA OtherCallStep ==
    ASSUME TemporalIInv, NEW c \in Processes,
           \/ OpenStore(c)
           \/ \E q \in Queries : QueryCheck(c, q)
           \/ \E q \in EventQueries : EventsCheck(c, q)
           \/ EventsSelect(c) \/ ReturnAnswer(c)
    PROVE  TemporalIInv'
<1>1. CASE OpenStore(c)
  BY <1>1, CallStep DEF OpenStore
<1>2. ASSUME NEW q \in Queries, QueryCheck(c, q) PROVE TemporalIInv'
  BY <1>2, CallStep DEF QueryCheck
<1>3. ASSUME NEW q \in EventQueries, EventsCheck(c, q) PROVE TemporalIInv'
  BY <1>3, CallStep DEF EventsCheck
<1>4. CASE EventsSelect(c)
  <2> DEFINE next == [pc |-> "events", query |-> call[c].query, answer |-> EventsSelected(call[c].query)]
  <2>1. Do(c, next) /\ UNCHANGED <<assertions, index, opened>> /\ next.pc = "events"
    BY <1>4 DEF EventsSelect
  <2> HIDE DEF next
  <2> QED BY <2>1, CallStep
<1>5. CASE ReturnAnswer(c)
  BY <1>5, CallStep DEF ReturnAnswer, Idle
<1> QED BY <1>1, <1>2, <1>3, <1>4, <1>5

-----------------------------------------------------------------------------
(* A backfill adds all the rows there are or, once the store is open, none *)
(* (_init_schema).                                                         *)
LEMMA BackfillAdds ==
    ASSUME TemporalIInv, NEW c \in Processes, Backfill(c)
    PROVE  /\ \A row \in index' : \E p \in assertions : row = IndexRow(p)
           /\ opened # {} => index' = index
           /\ opened = {} => \A p \in assertions : IndexRow(p) \in index'
           /\ opened' \in {opened, opened \cup {c}}
           /\ opened' = {} => index' = {}
<1> DEFINE rows == {IndexRow(p) : p \in call[c].missing}
<1>1. /\ call[c].pc = "backfill"
      /\ IF rows \cap index # {} THEN UNCHANGED <<index, opened>>
         ELSE index' = index \cup rows /\ opened' = opened \cup {c}
  BY DEF Backfill
<1>2. call[c].missing \subseteq assertions
  BY <1>1 DEF TemporalIInv, CallsFit
<1>3. \A row \in rows : \E p \in assertions : row = IndexRow(p)
  BY <1>2
<1>4. opened # {} => rows \subseteq index
  BY <1>2 DEF TemporalIInv, IndexFits
<1>5. opened = {} => index = {} /\ \A p \in assertions : IndexRow(p) \in rows
  BY <1>1 DEF TemporalIInv, IndexFits
<1>6. \A row \in index : \E p \in assertions : row = IndexRow(p)
  BY DEF TemporalIInv, IndexFits
<1> HIDE DEF rows
<1> QED BY <1>1, <1>3, <1>4, <1>5, <1>6

(* A process has opened the store: missing rows are added.                  *)
LEMMA BackfillStep ==
    ASSUME TemporalIInv, NEW c \in Processes, Backfill(c)
    PROVE  TemporalIInv'
<1> USE DEF TemporalIInv
<1>1. /\ UNCHANGED assertions
      /\ DOMAIN call' = Processes /\ \A d \in Processes : call'[d] = IF d = c THEN Idle ELSE call[d]
  BY DEF Backfill, Do, CallsFit
<1>2. /\ \A row \in index' : \E p \in assertions : row = IndexRow(p)
      /\ opened # {} => index' = index
      /\ opened = {} => \A p \in assertions : IndexRow(p) \in index'
      /\ opened' \in {opened, opened \cup {c}}
      /\ opened' = {} => index' = {}
  BY BackfillAdds
<1>3. TypeOK'
  BY <1>1, <1>2, RowHasAssertion DEF TypeOK
<1>4. CallsFit'
  BY <1>1 DEF CallsFit, Idle
<1>5. IndexFits'
  <2>1. \A p : IndexRow(p)' = IndexRow(p)
    BY DEF IndexRow, Supported, Effective, IsEvent
  <2>2. opened' # {} => \A p \in assertions : IndexRow(p) \in index'
    BY <1>2 DEF IndexFits
  <2>3. opened' = {} => opened = {}
    BY <1>2
  <2> QED BY <1>1, <1>2, <2>1, <2>2, <2>3 DEF IndexFits, Idle
<1>6. AnswersHaveOnePerspective'
  BY <1>1, IdleStep
<1> QED BY <1>1, <1>3, <1>4, <1>5, <1>6 DEF OffersFit

(* append_projection adds an assertion with its row.                       *)
LEMMA AppendStep ==
    ASSUME TemporalIInv, NEW c \in Processes, AppendProjection(c)
    PROVE  TemporalIInv'
<1> USE DEF TemporalIInv
<1>1. /\ UNCHANGED opened /\ call[c].pc = "append"
      /\ assertions' = assertions \cup {call[c].assertion}
      /\ index' = index \cup {IndexRow(call[c].assertion)}
      /\ DOMAIN call' = Processes /\ \A d \in Processes : call'[d] = IF d = c THEN Idle ELSE call[d]
  BY DEF AppendProjection, Do, CallsFit
<1>2. opened # {}
  BY <1>1 DEF IndexFits
<1>3. TypeOK'
  BY <1>1, RowHasAssertion DEF TypeOK, CallsFit
<1>4. IsFiniteSet(assertions')
  BY <1>1, FS_AddElement
<1>5. CallsFit'
  BY <1>1 DEF CallsFit, Idle
<1>6. IndexFits'
  <2>1. \A p : IndexRow(p)' = IndexRow(p)
    BY DEF IndexRow, Supported, Effective, IsEvent
  <2> QED BY <1>1, <1>2, <2>1 DEF IndexFits
<1>7. AnswersHaveOnePerspective'
  BY <1>1, IdleStep
<1> QED BY <1>3, <1>4, <1>5, <1>6, <1>7 DEF OffersFit

(* Nothing happens.                                                        *)
LEMMA StutterStep == TemporalIInv /\ UNCHANGED temporalVars => TemporalIInv'
BY DEF TemporalIInv, temporalVars, OffersFit, TypeOK, CallsFit, IndexFits, AnswersHaveOnePerspective,
       Effective, IndexRow, Supported, IsEvent

(* No step breaks the invariant.                                            *)
LEMMA TemporalNextKeeps == TemporalIInv /\ [TemporalNext]_temporalVars => TemporalIInv'
<1> SUFFICES ASSUME TemporalIInv, [TemporalNext]_temporalVars PROVE TemporalIInv'
  OBVIOUS
<1>1. ASSUME NEW c \in Processes, NEW o \in Offers, NEW asserted \in Dates \cup {None},
             Project(c, o, asserted)
      PROVE  TemporalIInv'
  BY <1>1, ProjectStep
<1>2. ASSUME NEW c \in Processes, NEW e \in EventOffers, NEW at \in Dates, TellEvent(c, e, at)
      PROVE  TemporalIInv'
  BY <1>2, TellEventStep
<1>3. ASSUME NEW c \in Processes, Backfill(c) \/ AppendProjection(c) \/ QuerySelect(c) PROVE TemporalIInv'
  BY <1>3, BackfillStep, AppendStep, QuerySelectStep
<1>4. ASSUME NEW c \in Processes,
             \/ OpenStore(c)
             \/ \E q \in Queries : QueryCheck(c, q)
             \/ \E q \in EventQueries : EventsCheck(c, q)
             \/ EventsSelect(c) \/ ReturnAnswer(c)
      PROVE  TemporalIInv'
  BY <1>4, OtherCallStep
<1>5. CASE UNCHANGED temporalVars
  BY <1>5, StutterStep
<1> QED BY <1>1, <1>2, <1>3, <1>4, <1>5 DEF TemporalNext

-----------------------------------------------------------------------------
(* The index answers as the assertions do.                                 *)

(* A row is selected by a clause exactly if its assertion matches.         *)
LEMMA RowsMatch ==
    ASSUME NEW p, NEW clause,
           clause.mode \in {"known_at", "available_by", "effective_at"}
    PROVE  RowMatches(IndexRow(p), clause) <=> Matches(p, clause)
<1>1. CASE clause.mode = "known_at"
  BY <1>1 DEF RowMatches, IndexRow, Matches
<1>2. CASE clause.mode = "available_by"
  BY <1>2 DEF RowMatches, IndexRow, Matches, Supported
<1>3. CASE clause.mode = "effective_at"
  BY <1>3 DEF RowMatches, IndexRow, Matches, Effective, Holds
<1> QED BY <1>1, <1>2, <1>3

(* What a query asks of an assertion, one by one.                           *)
InScope(q, p) == (q.events \/ ~IsEvent(p)) /\ q.object \in {None, p.object}
ScopeItems(q) == {p \in assertions : InScope(q, p)}
Chosen(q, p) == q.perspective \in {None, p.perspective}
Meets(q, p) == \A c \in q.clauses : Matches(p, c)

(* What the index selects is what the assertions say.                       *)
LEMMA IndexSelects ==
    ASSUME TemporalIInv, opened # {}, NEW q \in Queries
    PROVE  Selected(q) = {p \in ScopeItems(q) : Chosen(q, p) /\ Meets(q, p)}
<1>1. \A c \in q.clauses : c.mode \in {"known_at", "available_by", "effective_at"}
  BY DEF TemporalIInv, OffersFit
<1>2. ASSUME NEW p PROVE (\A c \in q.clauses : RowMatches(IndexRow(p), c)) <=> Meets(q, p)
  BY <1>1, RowsMatch DEF Meets
<1>3. ASSUME NEW p \in assertions
      PROVE  p \in Selected(q) <=> (InScope(q, p) /\ Chosen(q, p) /\ Meets(q, p))
  <2> DEFINE row == IndexRow(p)
  <2>1. row \in index
    BY DEF TemporalIInv, IndexFits
  <2>2. \A r \in index : r.assertion = p => r = row
    BY RowHasAssertion DEF TemporalIInv, IndexFits
  <2>3. /\ row.assertion = p /\ row.event = IsEvent(p) /\ row.object = p.object
        /\ row.perspective = p.perspective
    BY DEF IndexRow
  <2>4. p \in Selected(q) <=>
          \E r \in index : /\ r.assertion = p
                           /\ (q.events \/ ~r.event) /\ q.object \in {None, r.object}
                           /\ q.perspective \in {None, r.perspective}
                           /\ \A c \in q.clauses : RowMatches(r, c)
    BY DEF Selected, Scope
  <2> HIDE DEF row
  <2>5. p \in Selected(q) <=>
                           /\ (q.events \/ ~row.event) /\ q.object \in {None, row.object}
                           /\ q.perspective \in {None, row.perspective}
                           /\ \A c \in q.clauses : RowMatches(row, c)
    BY <2>1, <2>2, <2>3, <2>4
  <2>6. (\A c \in q.clauses : RowMatches(row, c)) <=> Meets(q, p)
    BY <1>2 DEF row
  <2> QED BY <2>3, <2>5, <2>6 DEF InScope, Chosen
<1> QED BY <1>3, SelectedAreAssertions DEF ScopeItems

(* Where neither refuses to choose, query_temporal answers from the rows   *)
(* the index selected as it would from all that is in scope.               *)
LEMMA SameAnswer ==
    ASSUME NEW some, NEW all, NEW q,
           some = {p \in all : Chosen(q, p) /\ Meets(q, p)},
           q.perspective # None \/ ~(Cardinality(PerspectivesOf(some)) > 1),
           q.perspective # None \/ ~(Cardinality(PerspectivesOf(all)) > 1)
    PROVE  QueryTemporal(some, q) = QueryTemporal(all, q)
<1> DEFINE from(items) == {p \in {p \in items : q.perspective \in {None, p.perspective}} :
                             \A c \in q.clauses : Matches(p, c)}
<1>1. from(some) = from(all)
  BY DEF Chosen, Meets
<1>2. QueryTemporal(some, q) = {[assertion |-> p, retrospective |-> Retrospective(p, q)] : p \in from(some)}
  BY DEF QueryTemporal
<1>3. QueryTemporal(all, q) = {[assertion |-> p, retrospective |-> Retrospective(p, q)] : p \in from(all)}
  BY DEF QueryTemporal
<1> HIDE DEF from
<1> QED BY <1>1, <1>2, <1>3

(* Finitely many assertions have finitely many perspectives.                *)
LEMMA PerspectivesAreFinite ==
    ASSUME NEW items, IsFiniteSet(items)
    PROVE  IsFiniteSet(PerspectivesOf(items))
<1> DEFINE who == [p \in items |-> p.perspective]
<1>1. PerspectivesOf(items) = {who[p] : p \in items}
  BY DEF PerspectivesOf
<1>2. who \in Surjection(items, PerspectivesOf(items))
  BY <1>1 DEF Surjection
<1> QED BY <1>2, FS_Surjection

(* The index answers every query as the assertions do.                      *)
LEMMA QueriesAgree ==
    ASSUME TemporalIInv, opened # {}, NEW q \in Queries,
           q.perspective # None \/ Cardinality(PerspectivesOf(ScopeItems(q))) <= 1
    PROVE  QueryTemporal(Selected(q), q) = QueryTemporal(ScopeItems(q), q)
<1>1. IsFiniteSet(ScopeItems(q))
  BY FS_Subset DEF TemporalIInv, ScopeItems
<1>2. Selected(q) = {p \in ScopeItems(q) : Chosen(q, p) /\ Meets(q, p)}
  BY IndexSelects
<1>3. IsFiniteSet(PerspectivesOf(ScopeItems(q)))
  BY <1>1, PerspectivesAreFinite
<1>4. PerspectivesOf(Selected(q)) \subseteq PerspectivesOf(ScopeItems(q))
  BY <1>2 DEF PerspectivesOf
<1>5. /\ IsFiniteSet(PerspectivesOf(Selected(q)))
      /\ Cardinality(PerspectivesOf(Selected(q))) <= Cardinality(PerspectivesOf(ScopeItems(q)))
  BY <1>3, <1>4, FS_Subset
<1>6. q.perspective # None \/ ~(Cardinality(PerspectivesOf(Selected(q))) > 1)
  BY <1>3, <1>5, FS_CardinalityType
<1>7. q.perspective # None \/ ~(Cardinality(PerspectivesOf(ScopeItems(q))) > 1)
  BY <1>3, FS_CardinalityType
<1> QED BY <1>2, <1>6, <1>7, SameAnswer

(* The same for queries for events.                                         *)
TheEvents(q) ==
    {p \in assertions :
       /\ IsEvent(p) /\ q.subject \in {None, p.object}
       /\ q.kinds = None \/ p.kind \in q.kinds
       /\ q.perspective \in {None, p.perspective}
       /\ q.by = None \/ p.recorded <= q.by
       /\ q.timeBy = None \/ (p.eventTime # None /\ p.eventTime <= q.timeBy)}

LEMMA EventsAgree ==
    ASSUME TemporalIInv, opened # {}, NEW q
    PROVE  EventsSelected(q) = TheEvents(q)
<1> DEFINE sel(r) == /\ r.event /\ q.subject \in {None, r.object}
                     /\ q.kinds = None \/ r.kind \in q.kinds
                     /\ q.perspective \in {None, r.perspective}
                     /\ q.by = None \/ r.recorded <= q.by
                     /\ q.timeBy = None \/ (r.eventTime # None /\ r.eventTime <= q.timeBy)
<1>1. \A p : p \in EventsSelected(q) <=> \E r \in index : r.assertion = p /\ sel(r)
  BY DEF EventsSelected, EventScope
<1>2. ASSUME NEW p \in assertions
      PROVE  p \in EventsSelected(q) <=> p \in TheEvents(q)
  <2> DEFINE row == IndexRow(p)
  <2>1. row \in index /\ \A r \in index : r.assertion = p => r = row
    BY RowHasAssertion DEF TemporalIInv, IndexFits
  <2>2. row.assertion = p
    BY RowHasAssertion
  <2>3. sel(row) <=> p \in TheEvents(q)
    BY DEF IndexRow, TheEvents
  <2> HIDE DEF row, sel
  <2> QED BY <1>1, <2>1, <2>2, <2>3
<1>3. \A p : p \in EventsSelected(q) => p \in assertions
  <2> HIDE DEF sel
  <2> QED BY <1>1, RowHasAssertion DEF TemporalIInv, IndexFits
<1>4. TheEvents(q) \subseteq assertions
  BY DEF TheEvents
<1> QED BY <1>2, <1>3, <1>4

-----------------------------------------------------------------------------
(* Theorems                                                                *)

(* The inductive invariant holds in every reachable state, however         *)
(* openings, appends and queries of processes overlap.                     *)
THEOREM TemporalInvariance == OffersFit /\ TemporalSpec => []TemporalIInv
<1>1. OffersFit /\ TemporalInit => TemporalIInv
  BY TemporalInitHolds
<1>2. TemporalIInv /\ [TemporalNext]_temporalVars => TemporalIInv'
  BY TemporalNextKeeps
<1> QED BY <1>1, <1>2, PTL DEF TemporalSpec

(* Every variable keeps its type; no index row is without its assertion.   *)
THEOREM TypeCorrect == OffersFit /\ TemporalSpec => []TypeOK
<1>1. TemporalIInv => TypeOK
  BY DEF TemporalIInv
<1> QED BY <1>1, TemporalInvariance, PTL

(* TemporalStore.query and events_for: the derived index answers as the    *)
(* assertions themselves would, whatever older versions left behind and    *)
(* whoever opened the store first.                                         *)
THEOREM TheIndexIsExact == OffersFit /\ TemporalSpec => []IndexAnswersForAssertions
<1>1. TemporalIInv => IndexAnswersForAssertions
  <2> SUFFICES ASSUME TemporalIInv, opened # {} PROVE IndexAnswersForAssertions
    BY DEF IndexAnswersForAssertions
  <2>1. \A q \in EventQueries : EventsSelected(q) = TheEvents(q)
    BY EventsAgree
  <2>2. \A q \in Queries :
          q.perspective # None \/ Cardinality(PerspectivesOf(ScopeItems(q))) <= 1
            => QueryTemporal(Selected(q), q) = QueryTemporal(ScopeItems(q), q)
    BY QueriesAgree
  <2> QED BY <2>1, <2>2 DEF IndexAnswersForAssertions, TheEvents, ScopeItems, InScope
<1> QED BY <1>1, TemporalInvariance, PTL

(* TemporalStore.query: no answer mixes perspectives nobody selected, even *)
(* if one is added between the check and the selection.                    *)
THEOREM AnswersAreOfOnePerspective == OffersFit /\ TemporalSpec => []AnswersHaveOnePerspective
<1>1. TemporalIInv => AnswersHaveOnePerspective
  BY DEF TemporalIInv
<1> QED BY <1>1, TemporalInvariance, PTL

------------------------------------------------------------------------------
(* Evidence                                                                 *)

(* A checker that nobody disturbed read the pinned bytes.                  *)
PinRead(r, target, hash) ==
    /\ r \in DOMAIN runs
    /\ target \in runs[r].still => runs[r].read[target] = hash

(* Nobody has written the target since it was pinned.                      *)
Undisturbed(j) == j.cmd.target \in Files \ j.disturbed => file[j.cmd.target] = j.pinned

(* What a worker has at hand.                                               *)
JobFits(j) ==
    /\ {"pc", "cmd", "pinned", "disturbed"} \subseteq DOMAIN j
    /\ j.pc \in {"capture", "execute", "observe", "record", "check"}
    /\ j.pc \in {"capture", "check"} => j.cmd.kind = "verify"
    /\ j.pc \in {"capture", "execute"} /\ j.cmd.kind = "verify" => Undisturbed(j)
    /\ j.pc \in {"observe", "record", "check"} =>
         /\ "run" \in DOMAIN j /\ j.run \in DOMAIN runs
         /\ j.cmd.kind = "verify" => PinRead(j.run, j.cmd.target, j.pinned)

JobsFit ==
    /\ DOMAIN job = Workers
    /\ \A w \in Workers : job[w] = Idle \/ JobFits(job[w])

(* Runs are numbered; a check has the hash that its run was pinned to.      *)
RunsFit ==
    /\ runs \in Seq(Range(runs))
    /\ \A r \in DOMAIN runs : {"exit", "read", "still", "quiet"} \subseteq DOMAIN runs[r]

CheckFits(v) ==
    /\ v.kind = "logical_ref" <=> v.hash = None
    /\ PinRead(v.run, v.target, v.hash)
    /\ v.status = runs[v.run].exit

ChecksFit ==
    /\ checks \in Seq(Range(checks))
    /\ \A n \in DOMAIN checks : CheckFits(checks[n])

(* The invariant about checks.                                              *)
EvidenceIInv ==
    /\ WorktreeFits
    /\ DOMAIN file = Files
    /\ JobsFit
    /\ RunsFit
    /\ ChecksFit

-----------------------------------------------------------------------------
(* A set of numbers with a bound has a greatest.                           *)
LEMMA LeastNatural ==
    ASSUME NEW T, T \subseteq Nat, T # {}
    PROVE  \E a \in T : \A b \in T : a <= b
<1> DEFINE Less == {xy \in Nat \X Nat : xy[1] < xy[2]}
<1>1. IsWellFoundedOn(Less, Nat)
  BY NatLessThanWellFounded DEF OpToRel
<1>2. \A x, y \in Nat : <<y, x>> \notin Less => x <= y
  OBVIOUS
<1> HIDE DEF Less
<1>3. PICK a \in T : \A b \in T : ~ (<<b, a>> \in Less)
  BY <1>1, WFMin, Zenon
<1> QED BY <1>2, <1>3

(* The same for the greatest.                                               *)
LEMMA GreatestNatural ==
    ASSUME NEW n \in Nat, NEW T, T \subseteq 1..n, T # {}
    PROVE  /\ Max(T) \in T
           /\ \A b \in T : b <= Max(T)
<1> DEFINE S == {n - a : a \in T}
<1>1. S \subseteq Nat /\ S # {}
  <2>1. \A a \in T : n - a \in Nat
    BY T \subseteq 1..n
  <2> QED BY <2>1
<1>2. PICK m \in S : \A k \in S : m <= k
  <2> HIDE DEF S
  <2> QED BY <1>1, LeastNatural
<1>3. PICK a \in T : m = n - a
  OBVIOUS
<1>4. \A b \in T : n - a <= n - b /\ b \in 1..n
  BY <1>2, <1>3
<1>5. a \in 1..n
  OBVIOUS
<1> HIDE DEF S
<1>6. \A b \in T : a >= b
  BY <1>4, <1>5
<1>7. Max(T) \in T /\ \A b \in T : Max(T) >= b
  BY <1>6 DEF Max
<1>8. Max(T) \in 1..n
  BY <1>7
<1> QED BY <1>4, <1>7, <1>8

(* t is s with r at its end.                                               *)
GrownBy(t, s, r) ==
    /\ t \in Seq(Range(t))
    /\ Len(s) \in Nat
    /\ DOMAIN s = 1..Len(s)
    /\ DOMAIN t = 1..(Len(s) + 1)
    /\ \A i \in 1..Len(s) : t[i] = s[i]
    /\ t[Len(s) + 1] = r

(* What appending a row does.                                               *)
LEMMA Grows ==
    ASSUME NEW s, s \in Seq(Range(s)), NEW r
    PROVE  GrownBy(Append(s, r), s, r)
<1> DEFINE S == Range(s) \cup {r}
           t == Append(s, r)
<1>1. s \in Seq(S)
  <2>1. Len(s) \in Nat /\ DOMAIN s = 1..Len(s)
    BY SMT
  <2>2. \A i \in DOMAIN s : s[i] \in S
    BY DEF Range
  <2>3. s = [i \in 1..Len(s) |-> s[i]]
    BY <2>1, SMT
  <2> QED BY <2>1, <2>2, <2>3, SMT
<1>2. t \in Seq(S) /\ Len(s) \in Nat /\ DOMAIN s = 1..Len(s)
      /\ Len(t) = Len(s) + 1 /\ DOMAIN t = 1..(Len(s) + 1)
      /\ (\A i \in 1..Len(s) : t[i] = s[i]) /\ t[Len(s) + 1] = r
  BY <1>1
<1>3. t \in Seq(Range(t))
  BY <1>2 DEF Range
<1> QED BY <1>2, <1>3 DEF GrownBy

-----------------------------------------------------------------------------
(* Runs are kept, but for what their recording adds to their history.      *)
RunsKept ==
    /\ RunsFit'
    /\ \A r \in DOMAIN runs :
         /\ r \in DOMAIN runs'
         /\ runs'[r].exit = runs[r].exit
         /\ runs'[r].read = runs[r].read
         /\ runs'[r].still = runs[r].still

(* What is known of a run, and so of a check, stays known.                  *)
LEMMA PinReadKept ==
    ASSUME RunsKept, NEW r, NEW target, NEW hash, PinRead(r, target, hash)
    PROVE  PinRead(r, target, hash)'
BY DEF RunsKept, PinRead

LEMMA ChecksKept ==
    ASSUME ChecksFit, RunsKept, checks' = checks
    PROVE  ChecksFit'
<1>1. ASSUME NEW n \in DOMAIN checks PROVE CheckFits(checks[n])'
  <2>1. CheckFits(checks[n])
    BY DEF ChecksFit
  <2>2. checks'[n] = checks[n]
    OBVIOUS
  <2> QED BY <2>1, <2>2 DEF CheckFits, PinRead, RunsKept
<1> QED BY <1>1 DEF ChecksFit

(* The job of a worker whose target is not written.                        *)
LEMMA JobKept ==
    ASSUME RunsKept, NEW j, JobFits(j),
           j.cmd.target \in Files \ j.disturbed => file'[j.cmd.target] = file[j.cmd.target]
    PROVE  JobFits(j)'
<1>1. Undisturbed(j) => Undisturbed(j)'
  BY DEF Undisturbed
<1>2. \A r, t, h : PinRead(r, t, h) => PinRead(r, t, h)'
  BY PinReadKept
<1>3. j.run \in DOMAIN runs => j.run \in DOMAIN runs'
  BY DEF RunsKept
<1> QED BY <1>1, <1>2, <1>3 DEF JobFits

(* Whoever is disturbed knows it.                                          *)
LEMMA DisturbedKept ==
    ASSUME RunsKept, NEW j, JobFits(j), NEW ps,
           \A p \in Files \ ps : file'[p] = file[p],
           NEW k, k = [j EXCEPT !.disturbed = @ \cup ps]
    PROVE  JobFits(k)'
<1>1. /\ DOMAIN k = DOMAIN j
      /\ k.pc = j.pc /\ k.cmd = j.cmd /\ k.pinned = j.pinned /\ k.run = j.run
      /\ k.disturbed = j.disturbed \cup ps
  BY DEF JobFits
<1>2. Undisturbed(j) => Undisturbed(k)'
  BY <1>1 DEF Undisturbed
<1>3. \A r, t, h : PinRead(r, t, h) => PinRead(r, t, h)'
  BY PinReadKept
<1>4. j.run \in DOMAIN runs => j.run \in DOMAIN runs'
  BY DEF RunsKept
<1> QED BY <1>1, <1>2, <1>3, <1>4 DEF JobFits

(* A step in which one worker goes on and no file is written.              *)
LEMMA QuietStep ==
    ASSUME EvidenceIInv, NEW w \in Workers, NEW next, job' = [job EXCEPT ![w] = next],
           RunsKept, file' = file, checks' = checks,
           next = Idle \/ JobFits(next)'
    PROVE  EvidenceIInv'
<1>1. ASSUME NEW v \in Workers, v # w PROVE job'[v] = Idle \/ JobFits(job[v])'
  <2> PICK j : j = job[v]
    OBVIOUS
  <2>1. job'[v] = j /\ (j = Idle \/ JobFits(j))
    BY <1>1 DEF EvidenceIInv, JobsFit
  <2>2. JobFits(j) => JobFits(j)'
    BY JobKept
  <2>3. JobFits(j)' => JobFits(job[v])'
    BY <2>1 DEF JobFits, Undisturbed, PinRead
  <2> QED BY <2>1, <2>2, <2>3
<1>2. job'[w] = next /\ DOMAIN job' = Workers
  BY DEF EvidenceIInv, JobsFit
<1>3. JobFits(next)' => JobFits(job[w])'
  BY <1>2 DEF JobFits, Undisturbed, PinRead
<1>4. JobsFit'
  BY <1>1, <1>2, <1>3 DEF JobsFit
<1> QED BY <1>4, ChecksKept DEF EvidenceIInv, RunsKept, WorktreeFits

(* A step that leaves the runs.                                            *)
LEMMA SameRuns == RunsFit /\ runs' = runs => RunsKept
BY DEF RunsFit, RunsKept

(* A step in which w, or the user, writes files ps: the others are disturbed *)
(* there.                                                                    *)
LEMMA OthersDisturbed ==
    ASSUME EvidenceIInv, RunsKept, NEW w, NEW ps, NEW jobs, job' = Disturb(jobs, w, ps),
           \A p \in Files \ ps : file'[p] = file[p],
           NEW v \in Workers, v # w, jobs[v] = job[v]
    PROVE  job'[v] = Idle \/ JobFits(job[v])'
<1> PICK j, k : j = job[v] /\ k = [j EXCEPT !.disturbed = @ \cup ps]
  OBVIOUS
<1>1. j = Idle \/ JobFits(j)
  BY DEF EvidenceIInv, JobsFit
<1>2. job'[v] = IF j = Idle THEN j ELSE k
  BY DEF Disturb
<1>3. CASE j = Idle
  BY <1>2, <1>3
<1>4. CASE j # Idle
  <2>1. JobFits(k)'
    BY <1>1, <1>4, DisturbedKept
  <2>2. job'[v] = k
    BY <1>2, <1>4
  <2> QED BY <2>1, <2>2 DEF JobFits, Undisturbed, PinRead
<1> QED BY <1>3, <1>4

(* A step in which w goes on and writes files ps.                            *)
LEMMA WriterStep ==
    ASSUME EvidenceIInv, NEW w \in Workers, NEW ps, NEW next,
           job' = Disturb([job EXCEPT ![w] = next], w, ps), JobFits(next)',
           RunsKept, checks' = checks,
           DOMAIN file' = Files, \A p \in Files \ ps : file'[p] = file[p]
    PROVE  EvidenceIInv'
<1>1. PICK jobs : jobs = [job EXCEPT ![w] = next]
  OBVIOUS
<1>2. jobs[w] = next /\ \A v \in Workers : v # w => jobs[v] = job[v]
  BY <1>1 DEF EvidenceIInv, JobsFit
<1>3. job' = Disturb(jobs, w, ps)
  BY <1>1
<1>4. ASSUME NEW v \in Workers PROVE job'[v] = Idle \/ JobFits(job[v])'
  <2>1. CASE v = w
    <3>1. job'[v] = next
      BY <2>1, <1>2, <1>3 DEF Disturb
    <3> QED BY <3>1 DEF JobFits, Undisturbed, PinRead
  <2>2. CASE v # w
    BY <1>2, <1>3, <2>2, OthersDisturbed
  <2> QED BY <2>1, <2>2
<1>5. JobsFit'
  BY <1>3, <1>4 DEF JobsFit, Disturb
<1> QED BY <1>5, ChecksKept DEF EvidenceIInv, RunsKept, WorktreeFits

(* One run more, at its end.                                               *)
LEMMA RunAdded ==
    ASSUME RunsFit, NEW run, {"exit", "read", "still", "quiet"} \subseteq DOMAIN run,
           runs' = Append(runs, run)
    PROVE  /\ RunsKept
           /\ Len(runs) + 1 \in DOMAIN runs' /\ runs'[Len(runs) + 1] = run
<1>1. GrownBy(runs', runs, run)
  BY Grows DEF RunsFit
<1> QED BY <1>1 DEF GrownBy, RunsFit, RunsKept

(* A run whose history grows.                                              *)
LEMMA QuietKept ==
    ASSUME RunsFit, NEW r \in DOMAIN runs, NEW q, runs' = [runs EXCEPT ![r].quiet = q]
    PROVE  RunsKept
<1>1. DOMAIN runs' = DOMAIN runs /\ \A i \in DOMAIN runs : i # r => runs'[i] = runs[i]
  OBVIOUS
<1>2. runs'[r] = [runs[r] EXCEPT !.quiet = q]
  OBVIOUS
<1>3. /\ runs'[r].exit = runs[r].exit /\ runs'[r].read = runs[r].read /\ runs'[r].still = runs[r].still
      /\ {"exit", "read", "still", "quiet"} \subseteq DOMAIN runs'[r]
  BY <1>2 DEF RunsFit
<1>4. runs' \in Seq(Range(runs'))
  <2>1. DOMAIN runs' = 1..Len(runs) /\ Len(runs) \in Nat
    BY <1>1 DEF RunsFit
  <2>2. \A i \in DOMAIN runs' : runs'[i] \in Range(runs')
    BY DEF Range
  <2>3. runs' = [i \in 1..Len(runs) |-> runs'[i]]
    BY <2>1
  <2>4. runs' \in [1..Len(runs) -> Range(runs')]
    BY <2>1, <2>2, <2>3, Zenon
  <2>5. \A S : [1..Len(runs) -> S] \subseteq Seq(S)
    BY <2>1
  <2> QED BY <2>4, <2>5, Zenon
<1> QED BY <1>1, <1>3, <1>4 DEF RunsKept, RunsFit

-----------------------------------------------------------------------------
(* The steps                                                               *)

(* The user edits.                                                          *)
LEMMA EditStep ==
    ASSUME EvidenceIInv, NEW p \in Files, NEW c, Edit(p, c)
    PROVE  EvidenceIInv'
<1>1. /\ job' = Disturb(job, None, {p}) /\ file' = [file EXCEPT ![p] = c]
      /\ runs' = runs /\ checks' = checks
  BY DEF Edit
<1>2. None \notin Workers /\ DOMAIN file = Files /\ RunsKept
  BY <1>1, SameRuns DEF EvidenceIInv, WorktreeFits
<1>3. DOMAIN file' = Files /\ \A q \in Files \ {p} : file'[q] = file[q]
  BY <1>1, <1>2
<1>4. ASSUME NEW v \in Workers PROVE job'[v] = Idle \/ JobFits(job[v])'
  BY <1>1, <1>2, <1>3, OthersDisturbed
<1>5. JobsFit'
  BY <1>1, <1>4 DEF JobsFit, Disturb
<1> QED BY <1>1, <1>2, <1>3, <1>5, ChecksKept DEF EvidenceIInv, RunsKept, WorktreeFits

(* What a start or a preparation finds is what is there.                   *)
LEMMA CapturedFits ==
    ASSUME NEW cmd, NEW pinned, NEW inputs, NEW disturbed, NEW next,
           next = Captured(cmd, pinned, inputs, disturbed),
           cmd.kind = "verify" => (cmd.target \in Files \ disturbed => file[cmd.target] = pinned)
    PROVE  next = Idle \/ JobFits(next)
<1>1. CASE next # Idle
  <2>1. next = [pc |-> "execute", cmd |-> cmd, pinned |-> pinned, disturbed |-> disturbed,
                inputs |-> inputs, before |-> file]
    BY <1>1 DEF Captured
  <2> QED BY <2>1 DEF JobFits, Undisturbed
<1> QED BY <1>1

(* The steps of a worker, one by one.                                       *)
LEMMA StartStep ==
    ASSUME EvidenceIInv, NEW w \in Workers, NEW cmd, Start(w, cmd) \/ Prepare(w, cmd)
    PROVE  EvidenceIInv'
<1>1. runs' = runs /\ file' = file /\ checks' = checks /\ RunsKept
  BY SameRuns DEF Start, Prepare, EvidenceIInv
<1>2. CASE Start(w, cmd)
  <2> PICK next : next = Captured(cmd, None, cmd.inputs, {})
    OBVIOUS
  <2>1. cmd.kind = "run" /\ job' = [job EXCEPT ![w] = next]
    BY <1>2 DEF Start
  <2>2. next = Idle \/ JobFits(next)
    BY <2>1, CapturedFits
  <2>3. JobFits(next) => JobFits(next)'
    BY <1>1, JobKept
  <2> QED BY <1>1, <2>1, <2>2, <2>3, QuietStep
<1>3. CASE Prepare(w, cmd)
  <2> PICK next : next = [pc |-> "capture", cmd |-> cmd, pinned |-> Snapshot(cmd.target), disturbed |-> {}]
    OBVIOUS
  <2>1. cmd.kind = "verify" /\ job' = [job EXCEPT ![w] = next]
    BY <1>3 DEF Prepare
  <2>2. JobFits(next)
    BY <2>1 DEF JobFits, Undisturbed, Snapshot
  <2>3. JobFits(next) => JobFits(next)'
    BY <1>1, JobKept
  <2> QED BY <1>1, <2>1, <2>2, <2>3, QuietStep
<1> QED BY <1>2, <1>3

(* The job of a worker that is at work.                                    *)
LEMMA AtWork ==
    ASSUME EvidenceIInv, NEW w \in Workers, job[w].pc \in {"capture", "execute", "observe", "record", "check"}
    PROVE  JobFits(job[w])
BY DEF EvidenceIInv, JobsFit, Idle

LEMMA CaptureStep ==
    ASSUME EvidenceIInv, NEW w \in Workers, Capture(w)
    PROVE  EvidenceIInv'
<1> PICK j, inputs, next :
         /\ j = job[w] /\ inputs = IF j.pinned = None THEN <<>> ELSE <<j.cmd.target>>
         /\ next = Captured(j.cmd, j.pinned, inputs, j.disturbed)
  OBVIOUS
<1>1. /\ j.pc = "capture" /\ job' = [job EXCEPT ![w] = next]
      /\ runs' = runs /\ file' = file /\ checks' = checks
  BY DEF Capture
<1>2. JobFits(j) /\ RunsKept
  BY <1>1, AtWork, SameRuns DEF EvidenceIInv
<1>3. next = Idle \/ JobFits(next)
  BY <1>1, <1>2, CapturedFits DEF JobFits, Undisturbed
<1>4. JobFits(next) => JobFits(next)'
  BY <1>1, <1>2, JobKept
<1> QED BY <1>1, <1>2, <1>3, <1>4, QuietStep

LEMMA ExecuteStep ==
    ASSUME EvidenceIInv, NEW w \in Workers, Execute(w)
    PROVE  EvidenceIInv'
<1> PICK j, r : j = job[w] /\ r = Len(runs) + 1
  OBVIOUS
<1>1. j.pc = "execute" /\ checks' = checks
  BY DEF Execute
<1>2. PICK made \in [j.cmd.writes -> Contents], exit \in {"passed", "failed"} :
        LET new == {p \in j.cmd.writes : made[p] # file[p]}
        IN /\ file' = [p \in Files |-> IF p \in new THEN made[p] ELSE file[p]]
           /\ runs' = Append(runs,
               [cmd |-> j.cmd, exit |-> exit, read |-> [p \in Files |-> file[p]],
                from |-> [p \in Files |-> origin[p]], still |-> Files \ j.disturbed, quiet |-> {}])
           /\ job' = Disturb([job EXCEPT ![w] =
               [pc |-> "observe", cmd |-> j.cmd, pinned |-> j.pinned, disturbed |-> j.disturbed,
                inputs |-> j.inputs, before |-> j.before, run |-> r]], w, new)
  BY DEF Execute
<1> PICK new, run, next :
        /\ new = {p \in j.cmd.writes : made[p] # file[p]}
        /\ run = [cmd |-> j.cmd, exit |-> exit, read |-> [p \in Files |-> file[p]],
                  from |-> [p \in Files |-> origin[p]], still |-> Files \ j.disturbed, quiet |-> {}]
        /\ next = [pc |-> "observe", cmd |-> j.cmd, pinned |-> j.pinned, disturbed |-> j.disturbed,
                   inputs |-> j.inputs, before |-> j.before, run |-> r]
  OBVIOUS
<1>3. JobFits(j)
  BY <1>1, AtWork
<1>4. RunsKept /\ r \in DOMAIN runs' /\ runs'[r] = run
  BY <1>2, RunAdded DEF EvidenceIInv
<1>5. j.cmd.kind = "verify" => PinRead(r, j.cmd.target, j.pinned)'
  BY <1>1, <1>3, <1>4 DEF JobFits, Undisturbed, PinRead
<1>6. JobFits(next)'
  BY <1>4, <1>5 DEF JobFits
<1>7. job' = Disturb([job EXCEPT ![w] = next], w, new)
  BY <1>2
<1>8. DOMAIN file' = Files /\ \A p \in Files \ new : file'[p] = file[p]
  BY <1>2
<1> QED BY <1>1, <1>4, <1>6, <1>7, <1>8, WriterStep

LEMMA ObserveStep ==
    ASSUME EvidenceIInv, NEW w \in Workers, Observe(w)
    PROVE  EvidenceIInv'
<1>1. PICK j : j = job[w]
  OBVIOUS
<1>2. PICK next, delta, rows :
        /\ job' = [job EXCEPT ![w] = next]
        /\ next = [pc |-> "record", cmd |-> j.cmd, pinned |-> j.pinned, disturbed |-> j.disturbed,
                   run |-> j.run, replayed |-> FALSE, delta |-> delta, rows |-> rows]
  BY <1>1 DEF Observe
<1>3. /\ j.pc = "observe"
      /\ runs' = runs /\ file' = file /\ checks' = checks /\ RunsKept
  BY <1>1, SameRuns DEF Observe, EvidenceIInv
<1>4. JobFits(j)
  BY <1>1, <1>3, AtWork
<1>5. JobFits(next)
  BY <1>2, <1>3, <1>4 DEF JobFits
<1>6. JobFits(next)'
  BY <1>3, <1>5, JobKept
<1> QED BY <1>2, <1>3, <1>6, QuietStep

LEMMA ReplayStep ==
    ASSUME EvidenceIInv, NEW w \in Workers, NEW r \in Runs, Replay(w, r)
    PROVE  EvidenceIInv'
<1>1. PICK next, cmd, rows :
        /\ job' = [job EXCEPT ![w] = next]
        /\ next = [pc |-> "record", cmd |-> cmd, pinned |-> None, disturbed |-> {}, run |-> r,
                   replayed |-> TRUE, delta |-> <<>>, rows |-> rows]
        /\ cmd.kind = "run"
  BY DEF Replay
<1>2. runs' = runs /\ file' = file /\ checks' = checks /\ RunsKept
  BY SameRuns DEF Replay, EvidenceIInv
<1>3. JobFits(next)
  BY <1>1 DEF JobFits, Runs
<1>4. JobFits(next)'
  BY <1>2, <1>3, JobKept
<1> QED BY <1>1, <1>2, <1>4, QuietStep

LEMMA RecordStep ==
    ASSUME EvidenceIInv, NEW w \in Workers, Record(w)
    PROVE  EvidenceIInv'
<1>1. PICK j : j = job[w]
  OBVIOUS
<1>2. PICK next :
        /\ job' = [job EXCEPT ![w] = next]
        /\ next = IF j.cmd.kind = "verify" THEN [j EXCEPT !.pc = "check"] ELSE Idle
  BY <1>1 DEF Record
<1>3. /\ j.pc = "record" /\ file' = file /\ checks' = checks
      /\ runs' = runs \/ \E q : runs' = [runs EXCEPT ![j.run].quiet = q]
  BY <1>1 DEF Record
<1>4. JobFits(j)
  BY <1>1, <1>3, AtWork
<1>5. RunsKept
  <2>1. CASE runs' = runs
    BY <2>1, SameRuns DEF EvidenceIInv
  <2>2. ASSUME NEW q, runs' = [runs EXCEPT ![j.run].quiet = q] PROVE RunsKept
    BY <2>2, <1>3, <1>4, QuietKept DEF EvidenceIInv, JobFits
  <2> QED BY <1>3, <2>1, <2>2
<1>6. next = Idle \/ JobFits(next)
  BY <1>2, <1>3, <1>4 DEF JobFits
<1>7. next = Idle \/ JobFits(next)'
  BY <1>3, <1>5, <1>6, JobKept
<1> QED BY <1>2, <1>3, <1>5, <1>7, QuietStep

LEMMA CrashStep ==
    ASSUME EvidenceIInv, NEW w \in Workers, Crash(w)
    PROVE  EvidenceIInv'
<1>1. /\ job' = [job EXCEPT ![w] = Idle]
      /\ runs' = runs /\ file' = file /\ checks' = checks /\ RunsKept
  BY SameRuns DEF Crash, EvidenceIInv
<1> QED BY <1>1, QuietStep

(* The check of a worker's own run, of what it pinned.                     *)
LEMMA RecordCheckStep ==
    ASSUME EvidenceIInv, NEW w \in Workers, RecordCheck(w)
    PROVE  EvidenceIInv'
<1>1. PICK j : j = job[w]
  OBVIOUS
<1>2. PICK v :
        /\ checks' = Append(checks, v)
        /\ v = [kind |-> IF j.pinned = None THEN "logical_ref" ELSE "artifact_path",
                target |-> j.cmd.target, hash |-> j.pinned, run |-> j.run,
                status |-> runs[j.run].exit]
  BY <1>1 DEF RecordCheck
<1>3. /\ j.pc = "check" /\ job' = [job EXCEPT ![w] = Idle]
      /\ runs' = runs /\ file' = file /\ RunsKept
  BY <1>1, SameRuns DEF RecordCheck, EvidenceIInv
<1>4. JobFits(j)
  BY <1>1, <1>3, AtWork
<1>5. CheckFits(v)
  BY <1>2, <1>3, <1>4 DEF JobFits, CheckFits
<1>6. GrownBy(checks', checks, v)
  BY <1>2, Grows DEF EvidenceIInv, ChecksFit
<1>7. ASSUME NEW n \in DOMAIN checks' PROVE CheckFits(checks[n])'
  <2>1. CheckFits(checks'[n])
    BY <1>5, <1>6 DEF GrownBy, EvidenceIInv, ChecksFit
  <2> QED BY <2>1, <1>3 DEF CheckFits, PinRead
<1>8. ChecksFit'
  BY <1>6, <1>7 DEF ChecksFit, GrownBy
<1>9. ASSUME NEW u \in Workers PROVE job'[u] = Idle \/ JobFits(job[u])'
  <2>1. CASE u = w
    BY <1>3, <2>1 DEF EvidenceIInv, JobsFit
  <2>2. CASE u # w
    <3> PICK k : k = job[u]
      OBVIOUS
    <3>1. job'[u] = k /\ (k = Idle \/ JobFits(k))
      BY <1>3, <2>2 DEF EvidenceIInv, JobsFit
    <3>2. JobFits(k) => JobFits(k)'
      BY <1>3, JobKept
    <3> QED BY <3>1, <3>2 DEF JobFits, Undisturbed, PinRead
  <2> QED BY <2>1, <2>2
<1>10. JobsFit'
  BY <1>3, <1>9 DEF JobsFit, EvidenceIInv
<1> QED BY <1>3, <1>8, <1>10 DEF EvidenceIInv, RunsKept, WorktreeFits

(* In the beginning there is nothing to check.                              *)
LEMMA EvidenceInitHolds == WorktreeFits /\ EvidenceInit => EvidenceIInv
<1> SUFFICES ASSUME WorktreeFits, EvidenceInit PROVE EvidenceIInv
  OBVIOUS
<1>1. DOMAIN file = Files
  BY DEF EvidenceInit, WorktreeFits, Files
<1>2. JobsFit
  BY DEF EvidenceInit, JobsFit
<1>3. RunsFit /\ ChecksFit
  BY DEF EvidenceInit, RunsFit, ChecksFit
<1> QED BY <1>1, <1>2, <1>3 DEF EvidenceIInv

(* No step breaks it.                                                       *)
LEMMA EvidenceNextKeeps == EvidenceIInv /\ [EvidenceNext]_evidenceVars => EvidenceIInv'
<1> SUFFICES ASSUME EvidenceIInv, [EvidenceNext]_evidenceVars PROVE EvidenceIInv'
  OBVIOUS
<1>1. ASSUME NEW p \in Files, NEW c, Edit(p, c) PROVE EvidenceIInv'
  BY <1>1, EditStep
<1>2. ASSUME NEW w \in Workers, NEW cmd, Start(w, cmd) \/ Prepare(w, cmd) PROVE EvidenceIInv'
  BY <1>2, StartStep
<1>3. ASSUME NEW w \in Workers, NEW r \in Runs, Replay(w, r) PROVE EvidenceIInv'
  BY <1>3, ReplayStep
<1>4. ASSUME NEW w \in Workers, Capture(w) \/ Execute(w) \/ Observe(w) PROVE EvidenceIInv'
  BY <1>4, CaptureStep, ExecuteStep, ObserveStep
<1>5. ASSUME NEW w \in Workers, Record(w) \/ RecordCheck(w) \/ Crash(w) PROVE EvidenceIInv'
  BY <1>5, RecordStep, RecordCheckStep, CrashStep
<1>6. CASE UNCHANGED evidenceVars
  <2>1. runs' = runs /\ file' = file /\ checks' = checks /\ job' = job
    BY <1>6 DEF evidenceVars
  <2> QED BY <2>1 DEF EvidenceIInv, WorktreeFits, JobsFit, JobFits, Undisturbed, PinRead, RunsFit, ChecksFit, CheckFits
<1> QED BY <1>1, <1>2, <1>3, <1>4, <1>5, <1>6 DEF EvidenceNext

(* The inductive invariant holds of every state.                           *)
THEOREM EvidenceInvariance == WorktreeFits /\ EvidenceSpec => []EvidenceIInv
BY EvidenceInitHolds, EvidenceNextKeeps, PTL DEF EvidenceSpec

-----------------------------------------------------------------------------
(* The newest check of p's present bytes, if it is reported as a pass.     *)
LEMMA NewestCheck ==
    ASSUME EvidenceIInv, NEW p \in Files, ForTarget(p).state = "current_checker_pass"
    PROVE  LET t == ForTarget(p).latest
           IN \E n \in DOMAIN checks :
                /\ t = checks[n] /\ t.target = p /\ t.hash = file[p] /\ t.status = "passed"
                /\ \A m \in DOMAIN checks : checks[m].target = p /\ checks[m].hash = file[p] => m <= n
<1>1. PICK current : current = {n \in DOMAIN checks :
                                  checks[n].target = p /\ RevisionState(checks[n]) = "current"}
  OBVIOUS
<1>2. current # {} /\ ForTarget(p).latest = checks[Max(current)] /\ checks[Max(current)].status = "passed"
  <2> PICK n : n = Max(current)
    OBVIOUS
  <2> PICK of : of = {m \in DOMAIN checks : checks[m].target = p}
    OBVIOUS
  <2>1. current = {m \in of : RevisionState(checks[m]) = "current"}
    BY <1>1
  <2> QED BY <2>1 DEF ForTarget
<1>3. DOMAIN checks = 1..Len(checks) /\ Len(checks) \in Nat
  BY DEF EvidenceIInv, ChecksFit
<1>4. Max(current) \in current /\ \A m \in current : m <= Max(current)
  BY <1>1, <1>2, <1>3, GreatestNatural
<1>5. \A m \in DOMAIN checks : checks[m].target = p =>
        (m \in current <=> checks[m].hash = file[p] /\ file[p] # None)
  BY <1>1 DEF EvidenceIInv, ChecksFit, CheckFits, RevisionState
<1> QED BY <1>1, <1>2, <1>4, <1>5

(* PassIsForTheseBytes for any files, commands, workers and users: a pass   *)
(* that is reported of a file is the outcome of the newest check of these   *)
(* very bytes, and its checker read them unless somebody wrote the file     *)
(* between the pinning and the reading. *)
THEOREM PassesAreForTheseBytes == WorktreeFits /\ EvidenceSpec => []PassIsForTheseBytes
<1>1. EvidenceIInv => PassIsForTheseBytes
  <2> SUFFICES ASSUME EvidenceIInv, NEW p \in Files, ForTarget(p).state = "current_checker_pass"
               PROVE  /\ \A n \in DOMAIN checks :
                           /\ checks[n].target = p
                           /\ checks[n].hash = file[p]
                           /\ \A m \in DOMAIN checks :
                                checks[m].target = p /\ checks[m].hash = file[p] => m <= n
                           => runs[checks[n].run].exit = "passed"
                      /\ LET r == ForTarget(p).latest.run
                         IN p \in runs[r].still => runs[r].read[p] = file[p]
    BY DEF PassIsForTheseBytes
  <2>1. PICK t : t = ForTarget(p).latest
    OBVIOUS
  <2>2. PICK n \in DOMAIN checks :
          /\ t = checks[n] /\ t.target = p /\ t.hash = file[p] /\ t.status = "passed"
          /\ \A m \in DOMAIN checks : checks[m].target = p /\ checks[m].hash = file[p] => m <= n
    BY <2>1, NewestCheck
  <2>3. CheckFits(t)
    BY <2>2 DEF EvidenceIInv, ChecksFit
  <2>4. p \in runs[t.run].still => runs[t.run].read[p] = file[p]
    BY <2>2, <2>3 DEF CheckFits, PinRead
  <2>5. ASSUME NEW m \in DOMAIN checks, checks[m].target = p, checks[m].hash = file[p],
               \A k \in DOMAIN checks : checks[k].target = p /\ checks[k].hash = file[p] => k <= m
        PROVE  runs[checks[m].run].exit = "passed"
    <3>1. m <= n /\ n <= m
      BY <2>2, <2>5
    <3>2. DOMAIN checks \subseteq Int
      BY DEF EvidenceIInv, ChecksFit
    <3>3. m = n
      BY <3>1, <3>2
    <3> QED BY <3>3, <2>2, <2>3 DEF CheckFits
  <2> QED BY <2>1, <2>4, <2>5
<1> QED BY <1>1, EvidenceInvariance, PTL

-----------------------------------------------------------------------------
(* Walks over the rows.  Each is a function of the number of rows taken,    *)
(* and is shown to exist together with what holds of it at every number.    *)

(* Induction over a set of numbers.                                         *)
LEMMA Inductive ==
    ASSUME NEW T, NEW n \in Nat, 0 \in T,
           \A k \in 1..n : k - 1 \in T => k \in T
    PROVE  \A k \in 0..n : k \in T
<1> DEFINE Bad == {k \in 0..n : k \notin T}
<1> SUFFICES ASSUME Bad # {} PROVE FALSE
  OBVIOUS
<1>1. PICK k \in Bad : \A j \in Bad : k <= j
  <2>1. Bad \subseteq Nat
    OBVIOUS
  <2> HIDE DEF Bad
  <2> QED BY <2>1, LeastNatural
<1>2. k \in 1..n /\ k - 1 \notin T
  BY <1>1
<1>3. k - 1 \in 0..n /\ ~ (k <= k - 1)
  BY <1>2
<1> QED BY <1>1, <1>2, <1>3

(* f takes the step n from f[n - 1] to f[n], starting at s.                 *)
Takes(f, m, s, step) ==
    f = [n \in 0..m |-> IF n = 0 THEN s ELSE step[n][f[n - 1]]]

(* There is such a function.                                                *)
LEMMA WalkExists ==
    ASSUME NEW m \in Nat, NEW s, NEW step
    PROVE  \E f : Takes(f, m, s, step)
<1> DEFINE T == {k \in 0..m : \E f : Takes(f, k, s, step)}
<1>1. 0 \in T
  <2>1. Takes([k \in 0..0 |-> s], 0, s, step)
    BY DEF Takes
  <2> QED BY <2>1
<1>2. ASSUME NEW k \in 1..m, k - 1 \in T PROVE k \in T
  <2>1. PICK r : Takes(r, k - 1, s, step)
    BY <1>2
  <2> DEFINE t == [i \in 0..k |-> IF i = k THEN step[k][r[k - 1]] ELSE r[i]]
  <2>2. ASSUME NEW i \in 0..k
        PROVE  t[i] = IF i = 0 THEN s ELSE step[i][t[i - 1]]
    <3>1. CASE i = k
      <4>1. t[i - 1] = r[k - 1] /\ i # 0
        BY <3>1
      <4> QED BY <3>1, <4>1
    <3>2. CASE i = 0
      BY <2>1, <3>2 DEF Takes
    <3>3. CASE i \in 1..(k - 1)
      <4>1. t[i] = r[i] /\ t[i - 1] = r[i - 1] /\ i \in 0..(k - 1) /\ i # 0
        BY <3>3
      <4> HIDE DEF t
      <4>2. r[i] = step[i][r[i - 1]]
        BY <2>1, <4>1 DEF Takes
      <4> QED BY <4>1, <4>2
    <3> QED BY <3>1, <3>2, <3>3
  <2>3. t = [i \in 0..k |-> t[i]]
    OBVIOUS
  <2> HIDE DEF t
  <2>4. Takes(t, k, s, step)
    BY <2>2, <2>3 DEF Takes
  <2> QED BY <2>4
<1> HIDE DEF T
<1>3. m \in 0..m /\ \A k \in 0..m : k \in T
  BY <1>1, <1>2, Inductive
<1> QED BY <1>3 DEF T

(* S[n] is what holds of the walk after n steps.                            *)
LEMMA WalkStays ==
    ASSUME NEW m \in Nat, NEW S, NEW f, f[0] \in S[0],
           \A n \in 1..m : f[n - 1] \in S[n - 1] => f[n] \in S[n]
    PROVE  \A n \in 0..m : f[n] \in S[n]
<1> DEFINE T == {n \in 0..m : f[n] \in S[n]}
<1>1. 0 \in T /\ \A k \in 1..m : k - 1 \in T => k \in T
  OBVIOUS
<1> HIDE DEF T
<1>2. \A k \in 0..m : k \in T
  BY <1>1, Inductive
<1> QED BY <1>2 DEF T

(* Both together.                                                           *)
LEMMA WalkFits ==
    ASSUME NEW m \in Nat, NEW S, NEW s \in S[0], NEW step,
           \A n \in 1..m : \A t \in S[n - 1] : step[n][t] \in S[n]
    PROVE  \E f : Takes(f, m, s, step) /\ \A n \in 0..m : f[n] \in S[n]
<1>1. PICK f : Takes(f, m, s, step)
  BY WalkExists
<1>2. f[0] = s /\ \A n \in 1..m : f[n] = step[n][f[n - 1]]
  BY <1>1 DEF Takes
<1>3. \A n \in 0..m : f[n] \in S[n]
  BY <1>2, WalkStays
<1> QED BY <1>1, <1>3

-----------------------------------------------------------------------------
(* The table of observations, and the states of a walk downstream from p.   *)

(* Rows are numbered.                                                       *)
Table == observed \in Seq(Range(observed))

(* The revision that a row is of, and what a walk from p may expand and     *)
(* queue.                                                                   *)
Key(out) == <<observed[out].path, observed[out].hash>>
KeysFrom(p) == {<<p, file[p]>>} \cup {Key(i) : i \in DOMAIN observed}
Observing == {observed[i].run : i \in DOMAIN observed}

Impacts(p) ==
    [queue : Seq([run : Observing, depth : Nat]), seen : SUBSET DOMAIN observed,
     expanded : SUBSET KeysFrom(p), consumers : SUBSET DOMAIN observed,
     affected : SUBSET DOMAIN observed, truncated : BOOLEAN]

Queued(s) == {s.queue[n].run : n \in DOMAIN s.queue}

(* All that may depend on the revision x of a file has been seen.           *)
Covered(s, x) == \A i \in InputsAt(x[1]) : ~Differ(x[2], observed[i].hash) => i \in s.seen

(* How a walk goes on from s to t.                                          *)
Furthers(s, t) ==
    /\ s.seen \subseteq t.seen /\ s.expanded \subseteq t.expanded
    /\ s.consumers \subseteq t.consumers /\ Queued(s) \subseteq Queued(t)
    /\ s.truncated => t.truncated
    /\ Len(t.queue) + Cardinality(s.seen) <= Len(s.queue) + Cardinality(t.seen)

(* What it newly sees it queues, and what it newly expands it covers or says *)
(* that it was cut short.                                                   *)
Accounts(s, t) ==
    /\ \A k \in t.seen \ s.seen :
         observed[k].role = "input" /\ k \in t.consumers /\ observed[k].run \in Queued(t)
    /\ \A x \in t.expanded \ s.expanded : t.truncated \/ Covered(t, x)

(* Counting what has been seen.                                             *)
LEMMA SeenCounts ==
    ASSUME Table, NEW S, S \subseteq DOMAIN observed
    PROVE  /\ IsFiniteSet(S) /\ Cardinality(S) \in Nat /\ Cardinality(S) <= Len(observed)
           /\ \A i : i \notin S => Cardinality(S \cup {i}) = Cardinality(S) + 1
<1>1. Len(observed) \in Nat /\ DOMAIN observed = 1..Len(observed)
  BY DEF Table
<1>2. IsFiniteSet(1..Len(observed)) /\ Cardinality(1..Len(observed)) = Len(observed)
  BY <1>1, FS_Interval
<1>3. IsFiniteSet(S) /\ Cardinality(S) <= Len(observed)
  BY <1>1, <1>2, FS_Subset
<1> QED BY <1>3, FS_CardinalityType, FS_AddElement

(* A walk may stay, and may go on from where it has gone to.                *)
LEMMA FurthersIs == \A p : Table => \A s \in Impacts(p) : Furthers(s, s) /\ Accounts(s, s)
<1> SUFFICES ASSUME NEW p, Table, NEW s \in Impacts(p) PROVE Furthers(s, s) /\ Accounts(s, s)
  OBVIOUS
<1>1. Len(s.queue) \in Nat /\ Cardinality(s.seen) \in Nat
  BY SeenCounts DEF Impacts
<1> QED BY <1>1 DEF Furthers, Accounts

LEMMA FurthersOn ==
    ASSUME Table, NEW p, NEW s \in Impacts(p), NEW t \in Impacts(p), NEW u \in Impacts(p),
           Furthers(s, t), Furthers(t, u), Accounts(s, t), Accounts(t, u)
    PROVE  Furthers(s, u) /\ Accounts(s, u)
<1>1. /\ Len(s.queue) \in Nat /\ Len(t.queue) \in Nat /\ Len(u.queue) \in Nat
      /\ Cardinality(s.seen) \in Nat /\ Cardinality(t.seen) \in Nat /\ Cardinality(u.seen) \in Nat
  BY SeenCounts DEF Impacts
<1>2. Furthers(s, u)
  <2>1. Len(u.queue) + Cardinality(s.seen) <= Len(s.queue) + Cardinality(u.seen)
    <3> DEFINE a == Len(s.queue)
               b == Len(t.queue)
               c == Len(u.queue)
               x == Cardinality(s.seen)
               y == Cardinality(t.seen)
               z == Cardinality(u.seen)
    <3>1. b + x <= a + y /\ c + y <= b + z /\ {a, b, c, x, y, z} \subseteq Nat
      BY <1>1 DEF Furthers
    <3> HIDE DEF a, b, c, x, y, z
    <3>2. c + x <= a + z
      BY <3>1
    <3> QED BY <3>2 DEF a, c, x, z
  <2>2. s.truncated => u.truncated
    BY DEF Furthers
  <2>3. /\ s.seen \subseteq u.seen /\ s.expanded \subseteq u.expanded
        /\ s.consumers \subseteq u.consumers /\ Queued(s) \subseteq Queued(u)
    BY DEF Furthers
  <2> QED BY <2>1, <2>2, <2>3 DEF Furthers
<1>3. \A x : Covered(t, x) => Covered(u, x)
  BY DEF Covered, Furthers
<1>4. ASSUME NEW k \in u.seen \ s.seen
      PROVE  observed[k].role = "input" /\ k \in u.consumers /\ observed[k].run \in Queued(u)
  BY <1>4 DEF Furthers, Accounts
<1>5. ASSUME NEW x \in u.expanded \ s.expanded PROVE u.truncated \/ Covered(u, x)
  BY <1>3, <1>5 DEF Furthers, Accounts
<1> QED BY <1>2, <1>4, <1>5 DEF Accounts

(* Only the queue changes here, and what is affected.                       *)
LEMMA QueueGrows ==
    ASSUME NEW p, NEW s \in Impacts(p), NEW r \in Observing, NEW depth \in Nat,
           NEW t, t = AddOutputs(s, r, depth)
    PROVE  /\ t \in Impacts(p)
           /\ Queued(t) = Queued(s) \cup {r}
           /\ Len(t.queue) = Len(s.queue) + 1 /\ Len(s.queue) \in Nat
           /\ t.seen = s.seen /\ t.expanded = s.expanded /\ t.consumers = s.consumers
           /\ t.truncated = s.truncated
<1> DEFINE x == [run |-> r, depth |-> depth]
           Q == [run : Observing, depth : Nat]
<1>1. s.queue \in Seq(Q) /\ x \in Q
  BY DEF Impacts
<1>2. t = [s EXCEPT !.affected = @ \cup ProducedBy(r), !.queue = Append(@, x)]
  BY DEF AddOutputs
<1>3. x.run = r
  OBVIOUS
<1> HIDE DEF x, Q
<1>4. Append(s.queue, x) \in Seq(Q) /\ Len(Append(s.queue, x)) = Len(s.queue) + 1 /\ Len(s.queue) \in Nat
      /\ DOMAIN s.queue = 1..Len(s.queue)
      /\ DOMAIN Append(s.queue, x) = 1..(Len(s.queue) + 1)
      /\ (\A n \in 1..Len(s.queue) : Append(s.queue, x)[n] = s.queue[n])
      /\ Append(s.queue, x)[Len(s.queue) + 1] = x
  BY <1>1
<1>5. ProducedBy(r) \subseteq DOMAIN observed
  BY DEF ProducedBy, OfRun
<1>6. /\ t.queue = Append(s.queue, x) /\ t.affected = s.affected \cup ProducedBy(r)
      /\ t.seen = s.seen /\ t.expanded = s.expanded /\ t.consumers = s.consumers
      /\ t.truncated = s.truncated /\ DOMAIN t = DOMAIN s
  BY <1>2 DEF Impacts
<1>7. t \in Impacts(p)
  BY <1>2, <1>4, <1>5 DEF Impacts, Q
<1>8. Queued(t) = Queued(s) \cup {r}
  BY <1>3, <1>4, <1>6 DEF Queued
<1> QED BY <1>4, <1>6, <1>7, <1>8

LEMMA FollowFurthers ==
    ASSUME Table, NEW p, NEW s \in Impacts(p), NEW i \in DOMAIN observed, observed[i].role = "input",
           NEW depth \in Nat, NEW t, t = Follow(s, i, depth)
    PROVE  /\ t \in Impacts(p) /\ Furthers(s, t) /\ Accounts(s, t)
           /\ i \in t.seen /\ t.expanded = s.expanded /\ t.truncated = s.truncated
<1>1. CASE i \in s.seen
  <2>1. t = s
    BY <1>1 DEF Follow
  <2> QED BY <1>1, <2>1, FurthersIs
<1>2. CASE i \notin s.seen
  <2> DEFINE u == [s EXCEPT !.seen = @ \cup {i}, !.consumers = @ \cup {i}]
             r == observed[i].run
  <2>1. u \in Impacts(p) /\ u.queue = s.queue /\ u.expanded = s.expanded /\ u.truncated = s.truncated
        /\ u.seen = s.seen \cup {i} /\ u.consumers = s.consumers \cup {i} /\ r \in Observing
    BY DEF Impacts, Observing
  <2>2. t = AddOutputs(u, r, depth)
    BY <1>2 DEF Follow
  <2>3. Queued(u) = Queued(s)
    BY <2>1 DEF Queued
  <2> HIDE DEF u, r
  <2>4. /\ t \in Impacts(p)
        /\ Queued(t) = Queued(s) \cup {r}
        /\ Len(t.queue) = Len(s.queue) + 1 /\ Len(s.queue) \in Nat
        /\ t.seen = s.seen \cup {i} /\ t.expanded = s.expanded /\ t.consumers = s.consumers \cup {i}
        /\ t.truncated = s.truncated
    BY <2>1, <2>2, <2>3, QueueGrows
  <2>5. Cardinality(t.seen) = Cardinality(s.seen) + 1 /\ Cardinality(s.seen) \in Nat
    BY <1>2, <2>4, SeenCounts DEF Impacts
  <2>6. Furthers(s, t)
    BY <2>4, <2>5 DEF Furthers
  <2> QED BY <2>4, <2>6 DEF Accounts, r
<1> QED BY <1>1, <1>2

(* Rows of inputs, and rows by their insertion numbers.                     *)
Inputs == {i \in DOMAIN observed : observed[i].role = "input"}

LEMMA RowNumbers ==
    ASSUME Table
    PROVE  /\ Len(observed) \in Nat /\ DOMAIN observed = 1..Len(observed)
           /\ \A n \in 1..Len(observed) : Newest(n) \in DOMAIN observed
           /\ \A i \in DOMAIN observed : \E n \in 1..Len(observed) : i = Newest(n)
<1>1. Len(observed) \in Nat /\ DOMAIN observed = 1..Len(observed)
  BY DEF Table
<1>2. \A i \in 1..Len(observed) : Len(observed) + 1 - i \in 1..Len(observed)
        /\ i = Len(observed) + 1 - (Len(observed) + 1 - i)
  BY <1>1
<1> QED BY <1>1, <1>2 DEF Newest

(* All inputs of a set have been seen after they were followed.             *)
LEMMA FollowAllFurthers ==
    ASSUME Table, NEW p, NEW s \in Impacts(p), NEW inputs, inputs \subseteq Inputs, NEW depth \in Nat
    PROVE  LET t == FollowAll(s, inputs, depth)
           IN  /\ t \in Impacts(p) /\ Furthers(s, t) /\ Accounts(s, t)
               /\ inputs \subseteq t.seen /\ t.expanded = s.expanded /\ t.truncated = s.truncated
<1> DEFINE m == Len(observed)
           Go(n, u) == IF Newest(n) \in inputs THEN Follow(u, Newest(n), depth) ELSE u
           after[n \in 0..m] == IF n = 0 THEN s
                                ELSE IF Newest(n) \in inputs THEN Follow(after[n - 1], Newest(n), depth)
                                ELSE after[n - 1]
           step == [n \in 1..m |-> [u \in Impacts(p) |-> Go(n, u)]]
           So(n, u) == /\ u \in Impacts(p) /\ Furthers(s, u) /\ Accounts(s, u)
                       /\ u.expanded = s.expanded /\ u.truncated = s.truncated
                       /\ \A j \in 1..n : Newest(j) \in inputs => Newest(j) \in u.seen
           S == [n \in 0..m |-> {u \in Impacts(p) : So(n, u)}]
<1>1. m \in Nat /\ (\A n \in 1..m : Newest(n) \in DOMAIN observed)
      /\ \A i \in inputs : \E n \in 1..m : i = Newest(n)
  BY RowNumbers DEF Inputs
<1>2. FollowAll(s, inputs, depth) = after[m]
  BY DEF FollowAll
<1>3. So(0, s)
  BY FurthersIs
<1>4. ASSUME NEW n \in 1..m, NEW u, So(n - 1, u) PROVE So(n, Go(n, u))
  <2> DEFINE v == Go(n, u)
  <2>1. /\ v \in Impacts(p) /\ Furthers(u, v) /\ Accounts(u, v)
        /\ v.expanded = u.expanded /\ v.truncated = u.truncated
        /\ Newest(n) \in inputs => Newest(n) \in v.seen
    <3>1. CASE Newest(n) \in inputs
      <4>1. v = Follow(u, Newest(n), depth) /\ u \in Impacts(p)
        BY <1>4, <3>1
      <4>2. Newest(n) \in DOMAIN observed /\ observed[Newest(n)].role = "input"
        BY <3>1 DEF Inputs
      <4>3. PICK i : i = Newest(n)
        OBVIOUS
      <4> HIDE DEF Go, v, So, m, after, step, S
      <4>4. i \in DOMAIN observed /\ observed[i].role = "input" /\ v = Follow(u, i, depth)
        BY <4>1, <4>2, <4>3
      <4>5. /\ v \in Impacts(p) /\ Furthers(u, v) /\ Accounts(u, v)
            /\ i \in v.seen /\ v.expanded = u.expanded /\ v.truncated = u.truncated
        BY <4>1, <4>4, FollowFurthers
      <4> QED BY <4>3, <4>5
    <3>2. CASE Newest(n) \notin inputs
      BY <1>4, <3>2, FurthersIs
    <3> QED BY <3>1, <3>2
  <2> HIDE DEF Go
  <2> HIDE DEF v
  <2>2. Furthers(s, v) /\ Accounts(s, v)
    BY <1>4, <2>1, FurthersOn
  <2>3. ASSUME NEW j \in 1..n, Newest(j) \in inputs PROVE Newest(j) \in v.seen
    <3>1. j = n \/ j \in 1..(n - 1)
      BY <1>1
    <3> QED BY <1>4, <2>1, <2>3, <3>1 DEF Furthers
  <2>4. So(n, v)
    BY <1>4, <2>1, <2>2, <2>3
  <2> QED BY <2>4 DEF v
<1> HIDE DEF So
<1>5. \A n \in 1..m : \A u \in S[n - 1] : step[n][u] = Go(n, u) /\ Go(n, u) \in S[n]
  <2> SUFFICES ASSUME NEW n \in 1..m, NEW u \in S[n - 1] PROVE step[n][u] = Go(n, u) /\ Go(n, u) \in S[n]
    OBVIOUS
  <2>1. n - 1 \in 0..m /\ n \in 0..m
    BY <1>1
  <2>2. u \in Impacts(p) /\ So(n - 1, u)
    BY <2>1
  <2>3. So(n, Go(n, u)) /\ Go(n, u) \in Impacts(p)
    BY <1>4, <2>2 DEF So
  <2> QED BY <2>1, <2>2, <2>3
<1>6. 0 \in 0..m /\ m \in 0..m /\ s \in S[0]
  BY <1>1, <1>3
<1> HIDE DEF S, m, Go, after, step
<1>a. ASSUME NEW n \in 1..m, NEW u \in S[n - 1] PROVE step[n][u] \in S[n]
  BY <1>5
<1>7. PICK f : Takes(f, m, s, step) /\ \A n \in 0..m : f[n] \in S[n]
  BY <1>1, <1>6, <1>a, WalkFits
<1> USE DEF after
<1>8. f = [n \in 0..m |-> IF n = 0 THEN s ELSE IF Newest(n) \in inputs THEN Follow(f[n - 1], Newest(n), depth)
                                ELSE f[n - 1]]
  <2>1. \A n \in 1..m : step[n][f[n - 1]] = Go(n, f[n - 1])
    BY <1>1, <1>5, <1>7
  <2> QED BY <1>1, <1>7, <2>1 DEF Takes, Go
<1>9. after = [n \in 0..m |-> IF n = 0 THEN s ELSE IF Newest(n) \in inputs THEN Follow(after[n - 1], Newest(n), depth)
                                ELSE after[n - 1]]
  BY <1>8, Zenon
<1> HIDE DEF after
<1>10. after[0] = s /\ \A n \in 1..m : after[n] = Go(n, after[n - 1])
  BY <1>1, <1>9 DEF Go
<1>11. after[m] \in S[m]
  <2>1. after[0] \in S[0]
    BY <1>1, <1>6, <1>10
  <2>2. \A n \in 1..m : after[n - 1] \in S[n - 1] => after[n] \in S[n]
    BY <1>1, <1>5, <1>10
  <2> QED BY <1>1, <1>6, <2>1, <2>2, WalkStays
<1>12. So(m, after[m])
  BY <1>6, <1>11 DEF S
<1> QED BY <1>1, <1>2, <1>12 DEF So

(* A product that is expanded, or was before, is covered or the walk is cut *)
(* short.                                                                   *)
LEMMA ExpandFurthers ==
    ASSUME Table, NEW p, NEW s \in Impacts(p), NEW out \in DOMAIN observed,
           NEW depth \in Nat, NEW limit \in Nat
    PROVE  LET t == Expand(s, out, depth, limit)
           IN  t \in Impacts(p) /\ Furthers(s, t) /\ Accounts(s, t) /\ Key(out) \in t.expanded
<1> DEFINE key == Key(out)
           more == [s EXCEPT !.expanded = @ \cup {key}]
           cut == [more EXCEPT !.truncated = @ \/ Compatible(out) # {}]
           t == Expand(s, out, depth, limit)
<1>1. key \in KeysFrom(p) /\ key = <<observed[out].path, observed[out].hash>>
      /\ key[1] = observed[out].path /\ key[2] = observed[out].hash
  BY DEF KeysFrom, Key
<1>2. Compatible(out) \subseteq Inputs
  BY DEF Compatible, InputsAt, OfPath, Inputs
<1>3. \A u : Compatible(out) \subseteq u.seen => Covered(u, key)
  BY <1>1 DEF Covered, Compatible
<1>4. t = IF key \in s.expanded THEN s
          ELSE IF depth > limit THEN cut
          ELSE FollowAll(more, Compatible(out), depth)
  BY <1>1 DEF Expand
<1> HIDE DEF t, key
<1>5. /\ more \in Impacts(p) /\ more.expanded = s.expanded \cup {key} /\ more.truncated = s.truncated
      /\ more.seen = s.seen /\ more.queue = s.queue /\ more.consumers = s.consumers
  BY <1>1 DEF Impacts
<1>6. Len(s.queue) \in Nat /\ Cardinality(s.seen) \in Nat
  BY SeenCounts DEF Impacts
<1>7. CASE key \in s.expanded
  BY <1>4, <1>7, FurthersIs DEF t, key
<1>8. CASE key \notin s.expanded /\ depth > limit
  <2>1. /\ cut \in Impacts(p) /\ cut.expanded = s.expanded \cup {key}
        /\ cut.seen = s.seen /\ cut.queue = s.queue /\ cut.consumers = s.consumers
    BY <1>5 DEF Impacts
  <2>2. cut.truncated = (s.truncated \/ Compatible(out) # {})
    BY DEF Impacts
  <2>3. Queued(cut) = Queued(s)
    BY <2>1 DEF Queued
  <2>4. t = cut
    BY <1>4, <1>8
  <2> HIDE DEF cut
  <2>5. Furthers(s, cut)
    <3>1. s.truncated => cut.truncated
      BY <2>2
    <3>2. /\ s.seen \subseteq cut.seen /\ s.expanded \subseteq cut.expanded
          /\ s.consumers \subseteq cut.consumers /\ Queued(s) \subseteq Queued(cut)
      BY <2>1, <2>3
    <3>3. Len(cut.queue) + Cardinality(s.seen) <= Len(s.queue) + Cardinality(cut.seen)
      BY <1>6, <2>1
    <3> QED BY <3>1, <3>2, <3>3 DEF Furthers
  <2>6. ASSUME NEW x \in cut.expanded \ s.expanded PROVE cut.truncated \/ Covered(cut, x)
    <3>1. x = key
      BY <2>1, <2>6
    <3> QED BY <1>3, <2>2, <3>1
  <2>7. Accounts(s, cut)
    BY <2>1, <2>6 DEF Accounts
  <2> QED BY <2>1, <2>4, <2>5, <2>7 DEF t, key
<1>9. CASE key \notin s.expanded /\ ~ (depth > limit)
  <2>1. t = FollowAll(more, Compatible(out), depth)
    BY <1>4, <1>9
  <2>2. Queued(more) = Queued(s)
    BY <1>5 DEF Queued
  <2> HIDE DEF more
  <2>3. /\ t \in Impacts(p) /\ Furthers(more, t) /\ Accounts(more, t)
        /\ Compatible(out) \subseteq t.seen /\ t.expanded = more.expanded
    <3>1. PICK inputs : inputs = Compatible(out)
      OBVIOUS
    <3>2. PICK u : u = more
      OBVIOUS
    <3>3. u \in Impacts(p) /\ inputs \subseteq Inputs
      BY <1>2, <1>5, <3>1, <3>2
    <3>4. LET v == FollowAll(u, inputs, depth)
          IN  /\ v \in Impacts(p) /\ Furthers(u, v) /\ Accounts(u, v)
              /\ inputs \subseteq v.seen /\ v.expanded = u.expanded
      BY <3>3, FollowAllFurthers
    <3> QED BY <2>1, <3>1, <3>2, <3>4
  <2>4. Furthers(s, t)
    BY <1>5, <2>2, <2>3 DEF Furthers
  <2>5. ASSUME NEW x \in t.expanded \ s.expanded PROVE t.truncated \/ Covered(t, x)
    <3>1. x = key
      BY <1>5, <2>3, <2>5
    <3> QED BY <1>3, <2>3, <3>1
  <2>6. Accounts(s, t)
    BY <1>5, <2>3, <2>5 DEF Accounts
  <2>7. key \in t.expanded
    BY <1>5, <2>3
  <2> QED BY <2>3, <2>4, <2>6, <2>7 DEF t, key
<1> QED BY <1>7, <1>8, <1>9

(* All products of a run are expanded.                                      *)
LEMMA ExpandAllFurthers ==
    ASSUME Table, NEW p, NEW s \in Impacts(p), NEW r, NEW depth \in Nat, NEW limit \in Nat
    PROVE  LET t == ExpandAll(s, r, depth, limit)
           IN  /\ t \in Impacts(p) /\ Furthers(s, t) /\ Accounts(s, t)
               /\ \A i \in ProducedBy(r) : Key(i) \in t.expanded
<1> DEFINE m == Len(observed)
           Go(n, u) == IF n \in ProducedBy(r) THEN Expand(u, n, depth, limit) ELSE u
           after[n \in 0..m] == IF n = 0 THEN s
                                ELSE IF n \in ProducedBy(r) THEN Expand(after[n - 1], n, depth, limit)
                                ELSE after[n - 1]
           step == [n \in 1..m |-> [u \in Impacts(p) |-> Go(n, u)]]
           So(n, u) == /\ u \in Impacts(p) /\ Furthers(s, u) /\ Accounts(s, u)
                       /\ \A j \in 1..n : j \in ProducedBy(r) => Key(j) \in u.expanded
           S == [n \in 0..m |-> {u \in Impacts(p) : So(n, u)}]
<1>1. m \in Nat /\ DOMAIN observed = 1..m /\ ProducedBy(r) \subseteq 1..m
  BY RowNumbers DEF ProducedBy, OfRun
<1>2. ExpandAll(s, r, depth, limit) = after[m]
  BY DEF ExpandAll
<1>3. So(0, s)
  BY FurthersIs
<1>4. ASSUME NEW n \in 1..m, NEW u, So(n - 1, u) PROVE So(n, Go(n, u))
  <2> DEFINE v == Go(n, u)
  <2>1. /\ v \in Impacts(p) /\ Furthers(u, v) /\ Accounts(u, v)
        /\ n \in ProducedBy(r) => Key(n) \in v.expanded
    <3>1. CASE n \in ProducedBy(r)
      <4>1. v = Expand(u, n, depth, limit) /\ u \in Impacts(p) /\ n \in DOMAIN observed
        BY <1>1, <1>4, <3>1
      <4> HIDE DEF Go, v, So, m, after, step, S
      <4> QED BY <4>1, ExpandFurthers
    <3>2. CASE n \notin ProducedBy(r)
      BY <1>4, <3>2, FurthersIs
    <3> QED BY <3>1, <3>2
  <2> HIDE DEF Go
  <2> HIDE DEF v
  <2>2. Furthers(s, v) /\ Accounts(s, v)
    BY <1>4, <2>1, FurthersOn
  <2>3. ASSUME NEW j \in 1..n, j \in ProducedBy(r) PROVE Key(j) \in v.expanded
    <3>1. j = n \/ j \in 1..(n - 1)
      BY <1>1
    <3> QED BY <1>4, <2>1, <2>3, <3>1 DEF Furthers
  <2>4. So(n, v)
    BY <1>4, <2>1, <2>2, <2>3
  <2> QED BY <2>4 DEF v
<1> HIDE DEF So
<1>5. \A n \in 1..m : \A u \in S[n - 1] : step[n][u] = Go(n, u) /\ Go(n, u) \in S[n]
  <2> SUFFICES ASSUME NEW n \in 1..m, NEW u \in S[n - 1] PROVE step[n][u] = Go(n, u) /\ Go(n, u) \in S[n]
    OBVIOUS
  <2>1. n - 1 \in 0..m /\ n \in 0..m
    BY <1>1
  <2>2. u \in Impacts(p) /\ So(n - 1, u)
    BY <2>1
  <2>3. So(n, Go(n, u)) /\ Go(n, u) \in Impacts(p)
    BY <1>4, <2>2 DEF So
  <2> QED BY <2>1, <2>2, <2>3
<1>6. 0 \in 0..m /\ m \in 0..m /\ s \in S[0]
  BY <1>1, <1>3
<1> HIDE DEF S, m, Go, after, step
<1>7. ASSUME NEW n \in 1..m, NEW u \in S[n - 1] PROVE step[n][u] \in S[n]
  BY <1>5
<1>8. PICK f : Takes(f, m, s, step) /\ \A n \in 0..m : f[n] \in S[n]
  BY <1>1, <1>6, <1>7, WalkFits
<1> USE DEF after
<1>9. f = [n \in 0..m |-> IF n = 0 THEN s
                          ELSE IF n \in ProducedBy(r) THEN Expand(f[n - 1], n, depth, limit) ELSE f[n - 1]]
  <2>1. \A n \in 1..m : step[n][f[n - 1]] = Go(n, f[n - 1])
    BY <1>1, <1>5, <1>8
  <2> QED BY <1>1, <1>8, <2>1 DEF Takes, Go
<1>10. after = [n \in 0..m |-> IF n = 0 THEN s
                ELSE IF n \in ProducedBy(r) THEN Expand(after[n - 1], n, depth, limit) ELSE after[n - 1]]
  BY <1>9, Zenon
<1> HIDE DEF after
<1>11. after[0] = s /\ \A n \in 1..m : after[n] = Go(n, after[n - 1])
  BY <1>1, <1>10 DEF Go
<1>12. after[m] \in S[m]
  <2>1. after[0] \in S[0]
    BY <1>1, <1>6, <1>11
  <2>2. \A n \in 1..m : after[n - 1] \in S[n - 1] => after[n] \in S[n]
    BY <1>1, <1>5, <1>11
  <2> QED BY <1>1, <1>6, <2>1, <2>2, WalkStays
<1>13. So(m, after[m])
  BY <1>6, <1>12 DEF S
<1> QED BY <1>1, <1>2, <1>13 DEF So

(* The first hop looks at every input at p once, and queues the runs of     *)
(* those that show another revision of it.                                  *)
FirstFound(p, u, seen) ==
    /\ u \in Impacts(p) /\ u.seen = seen
    /\ u.expanded = {<<p, file[p]>>} /\ u.consumers = {}
    /\ \A i \in u.seen : Changed(p, i) => observed[i].run \in Queued(u)
    /\ Len(u.queue) <= Cardinality(u.seen)

(* One more input of p.                                                     *)
LEMMA InspectFinds ==
    ASSUME Table, NEW p, NEW u, NEW seen, FirstFound(p, u, seen), seen \subseteq DOMAIN observed,
           NEW i \in DOMAIN observed, i \notin seen
    PROVE  FirstFound(p, Inspect(u, p, i), seen \cup {i})
<1> DEFINE t == [u EXCEPT !.seen = @ \cup {i}]
           r == observed[i].run
<1>1. u \in Impacts(p) /\ u.seen = seen
  BY DEF FirstFound
<1>2. /\ t \in Impacts(p) /\ t.queue = u.queue /\ t.expanded = u.expanded /\ t.truncated = u.truncated
      /\ t.seen = seen \cup {i} /\ t.consumers = u.consumers /\ r \in Observing
  BY <1>1 DEF Impacts, Observing
<1>3. Queued(t) = Queued(u)
  BY <1>2 DEF Queued
<1>4. Inspect(u, p, i) = IF Changed(p, i) THEN AddOutputs(t, r, 1) ELSE t
  BY DEF Inspect
<1> HIDE DEF t, r
<1>5. /\ Len(u.queue) \in Nat /\ Cardinality(seen \cup {i}) = Cardinality(seen) + 1
      /\ Cardinality(seen) \in Nat /\ Len(u.queue) <= Cardinality(seen)
  BY <1>1, SeenCounts DEF Impacts, FirstFound
<1>6. \A k \in seen : Changed(p, k) => observed[k].run \in Queued(u)
  BY <1>1 DEF FirstFound
<1>7. CASE ~ Changed(p, i)
  <2>1. Inspect(u, p, i) = t
    BY <1>4, <1>7
  <2>2. Len(t.queue) <= Cardinality(t.seen)
    BY <1>2, <1>5
  <2>3. \A k \in t.seen : Changed(p, k) => observed[k].run \in Queued(t)
    BY <1>2, <1>3, <1>6, <1>7
  <2>4. t.expanded = {<<p, file[p]>>} /\ t.consumers = {}
    BY <1>2 DEF FirstFound
  <2>5. FirstFound(p, t, seen \cup {i})
    BY <1>2, <2>2, <2>3, <2>4 DEF FirstFound
  <2> QED BY <2>1, <2>5
<1>8. CASE Changed(p, i)
  <2>1. PICK v : v = AddOutputs(t, r, 1)
    OBVIOUS
  <2>2. /\ v \in Impacts(p)
        /\ Queued(v) = Queued(u) \cup {r}
        /\ Len(v.queue) = Len(u.queue) + 1
        /\ v.seen = seen \cup {i} /\ v.expanded = u.expanded /\ v.consumers = u.consumers
        /\ v.truncated = u.truncated
    <3>1. 1 \in Nat
      OBVIOUS
    <3> QED BY <1>2, <1>3, <2>1, <3>1, QueueGrows
  <2>3. Len(v.queue) <= Cardinality(v.seen)
    BY <1>5, <2>2
  <2>4. \A k \in v.seen : Changed(p, k) => observed[k].run \in Queued(v)
    BY <1>6, <2>2 DEF r
  <2>5. v.expanded = {<<p, file[p]>>} /\ v.consumers = {}
    BY <2>2 DEF FirstFound
  <2>6. FirstFound(p, v, seen \cup {i})
    BY <2>2, <2>3, <2>4, <2>5 DEF FirstFound
  <2> QED BY <1>4, <1>8, <2>1, <2>6
<1> QED BY <1>7, <1>8

(* All of them.                                                             *)
LEMMA FirstHopFinds ==
    ASSUME Table, NEW p
    PROVE  FirstFound(p, FirstHop(p), InputsAt(p))
<1> DEFINE m == Len(observed)
           seed == [queue |-> <<>>, seen |-> {}, expanded |-> {<<p, file[p]>>},
                    consumers |-> {}, affected |-> {}, truncated |-> FALSE]
           Go(n, u) == IF Newest(n) \in InputsAt(p) THEN Inspect(u, p, Newest(n)) ELSE u
           after[n \in 0..m] == IF n = 0 THEN seed
                                ELSE IF Newest(n) \in InputsAt(p) THEN Inspect(after[n - 1], p, Newest(n))
                                ELSE after[n - 1]
           step == [n \in 1..m |-> [u \in Impacts(p) |-> Go(n, u)]]
           looked(n) == {i \in InputsAt(p) : \E j \in 1..n : i = Newest(j)}
           S == [n \in 0..m |-> {u \in Impacts(p) : FirstFound(p, u, looked(n))}]
<1>1. /\ m \in Nat /\ InputsAt(p) \subseteq DOMAIN observed
      /\ \A i \in InputsAt(p) : \E n \in 1..m : i = Newest(n)
  BY RowNumbers DEF InputsAt, OfPath
<1>2. FirstHop(p) = after[m]
  BY DEF FirstHop
<1>3. seed \in Impacts(p) /\ FirstFound(p, seed, looked(0))
  <2>1. seed \in Impacts(p)
    BY DEF Impacts, KeysFrom
  <2>2. looked(0) = {}
    OBVIOUS
  <2>3. Cardinality({}) = 0 /\ Len(<<>>) = 0
    BY FS_EmptySet
  <2> QED BY <2>1, <2>2, <2>3 DEF FirstFound
<1>4. ASSUME NEW n \in 1..m, NEW u, FirstFound(p, u, looked(n - 1))
      PROVE  FirstFound(p, Go(n, u), looked(n))
  <2>1. CASE Newest(n) \in InputsAt(p)
    <3>1. PICK i : i = Newest(n)
      OBVIOUS
    <3>2. i \in DOMAIN observed /\ i \notin looked(n - 1)
      <4>1. \A j \in 1..(n - 1) : Newest(j) # Newest(n)
        BY <1>1 DEF Newest
      <4> QED BY <1>1, <2>1, <3>1, <4>1
    <3>3. looked(n) = looked(n - 1) \cup {i}
      <4>1. \A j : j \in 1..n <=> j \in 1..(n - 1) \/ j = n
        BY <1>1
      <4> QED BY <2>1, <3>1, <4>1
    <3>4. looked(n - 1) \subseteq DOMAIN observed
      BY <1>1
    <3>5. Go(n, u) = Inspect(u, p, i)
      BY <2>1, <3>1
    <3> HIDE DEF looked, Go
    <3>6. FirstFound(p, Inspect(u, p, i), looked(n - 1) \cup {i})
      BY <1>4, <3>2, <3>4, InspectFinds
    <3> QED BY <3>3, <3>5, <3>6
  <2>2. CASE Newest(n) \notin InputsAt(p)
    <3>1. looked(n) = looked(n - 1)
      <4>1. \A j : j \in 1..n <=> j \in 1..(n - 1) \/ j = n
        BY <1>1
      <4> QED BY <2>2, <4>1
    <3> QED BY <1>4, <2>2, <3>1
  <2> QED BY <2>1, <2>2
<1>5. looked(m) = InputsAt(p)
  BY <1>1
<1> HIDE DEF looked, Go
<1>6. \A n \in 1..m : \A u \in S[n - 1] : step[n][u] = Go(n, u) /\ Go(n, u) \in S[n]
  <2> SUFFICES ASSUME NEW n \in 1..m, NEW u \in S[n - 1] PROVE step[n][u] = Go(n, u) /\ Go(n, u) \in S[n]
    OBVIOUS
  <2>1. n - 1 \in 0..m /\ n \in 0..m
    BY <1>1
  <2>2. u \in Impacts(p) /\ FirstFound(p, u, looked(n - 1))
    BY <2>1
  <2>3. FirstFound(p, Go(n, u), looked(n)) /\ Go(n, u) \in Impacts(p)
    BY <1>4, <2>2 DEF FirstFound
  <2> QED BY <2>1, <2>2, <2>3
<1>7. 0 \in 0..m /\ m \in 0..m /\ seed \in S[0]
  BY <1>1, <1>3
<1> HIDE DEF S, m, after, step, seed
<1>8. ASSUME NEW n \in 1..m, NEW u \in S[n - 1] PROVE step[n][u] \in S[n]
  BY <1>6
<1>9. PICK f : Takes(f, m, seed, step) /\ \A n \in 0..m : f[n] \in S[n]
  BY <1>1, <1>7, <1>8, WalkFits
<1> USE DEF after
<1>10. f = [n \in 0..m |-> IF n = 0 THEN seed
              ELSE IF Newest(n) \in InputsAt(p) THEN Inspect(f[n - 1], p, Newest(n)) ELSE f[n - 1]]
  <2>1. \A n \in 1..m : step[n][f[n - 1]] = Go(n, f[n - 1])
    BY <1>1, <1>6, <1>9
  <2> QED BY <1>1, <1>9, <2>1 DEF Takes, Go
<1>11. after = [n \in 0..m |-> IF n = 0 THEN seed
                 ELSE IF Newest(n) \in InputsAt(p) THEN Inspect(after[n - 1], p, Newest(n)) ELSE after[n - 1]]
  BY <1>10, Zenon
<1> HIDE DEF after
<1>12. after[0] = seed /\ \A n \in 1..m : after[n] = Go(n, after[n - 1])
  BY <1>1, <1>11 DEF Go
<1>13. after[m] \in S[m]
  <2>1. after[0] \in S[0]
    BY <1>1, <1>7, <1>12
  <2>2. \A n \in 1..m : after[n - 1] \in S[n - 1] => after[n] \in S[n]
    BY <1>1, <1>6, <1>12
  <2> QED BY <1>1, <1>7, <2>1, <2>2, WalkStays
<1>14. FirstFound(p, after[m], looked(m))
  BY <1>7, <1>13 DEF S
<1> QED BY <1>2, <1>5, <1>14

-----------------------------------------------------------------------------
(* What holds after n turns.  Whatever an input that is seen and shows      *)
(* another revision may have led to is still queued or is expanded.         *)

(* An input at p that shows p as it is leads nowhere; a run is spent when   *)
(* all that it left is expanded.                                            *)
Leads(p, k) == observed[k].path # p \/ Changed(p, k)
Spent(u, r) == \A o \in ProducedBy(r) : Key(o) \in u.expanded

(* So a run that is no longer queued is spent, and every turn used up an    *)
(* input.                                                                   *)
Walked(p, n, u) ==
    /\ u \in Impacts(p)
    /\ InputsAt(p) \subseteq u.seen /\ u.seen \subseteq Inputs
    /\ \A k \in u.seen : observed[k].path # p => k \in u.consumers
    /\ \A x \in u.expanded : u.truncated \/ Covered(u, x)
    /\ \A k \in u.seen : Leads(p, k) => observed[k].run \in Queued(u) \/ Spent(u, observed[k].run)
    /\ u.queue = <<>> \/ n + Len(u.queue) <= Cardinality(u.seen)

(* So it is before the first turn,                                          *)
LEMMA FirstWalked ==
    ASSUME Table, NEW p
    PROVE  Walked(p, 0, FirstHop(p))
<1> DEFINE u == FirstHop(p)
<1>1. FirstFound(p, u, InputsAt(p))
  BY FirstHopFinds
<1> HIDE DEF u
<1>2. InputsAt(p) \subseteq Inputs /\ \A k \in InputsAt(p) : observed[k].path = p
  BY DEF InputsAt, OfPath, Inputs
<1>3. u \in Impacts(p) /\ u.seen = InputsAt(p) /\ u.expanded = {<<p, file[p]>>}
  BY <1>1 DEF FirstFound
<1>4. Covered(u, <<p, file[p]>>)
  BY <1>3 DEF Covered
<1>5. 0 + Len(u.queue) <= Cardinality(u.seen)
  <2>1. Len(u.queue) \in Nat /\ Len(u.queue) <= Cardinality(u.seen)
    BY <1>1 DEF FirstFound, Impacts
  <2> QED BY <2>1
<1>6. \A k \in u.seen : Leads(p, k) => observed[k].run \in Queued(u)
  BY <1>1, <1>2, <1>3 DEF Leads, FirstFound
<1> QED BY <1>2, <1>3, <1>4, <1>5, <1>6 DEF Walked, u

(* and after one more.                                                      *)
LEMMA TurnWalked ==
    ASSUME Table, NEW p, NEW n \in Nat, NEW u, Walked(p, n, u), NEW limit \in Nat
    PROVE  Walked(p, n + 1, NextDownstream(u, limit))
<1>1. CASE u.queue = <<>>
  <2>1. NextDownstream(u, limit) = u
    BY <1>1 DEF NextDownstream
  <2> QED BY <1>1, <2>1 DEF Walked
<1>2. CASE u.queue # <<>>
  <2> DEFINE Q == [run : Observing, depth : Nat]
             h == Head(u.queue)
             s == [u EXCEPT !.queue = Tail(@)]
             r == h.run
             depth == h.depth + 1
             t == ExpandAll(s, r, depth, limit)
  <2>1. u \in Impacts(p) /\ u.queue \in Seq(Q)
    BY DEF Walked, Impacts
  <2>2. /\ h \in Q /\ Tail(u.queue) \in Seq(Q) /\ Len(Tail(u.queue)) = Len(u.queue) - 1
        /\ Len(u.queue) \in Nat \ {0} /\ h = u.queue[1]
        /\ \A k \in 1..(Len(u.queue) - 1) : Tail(u.queue)[k] = u.queue[k + 1]
    <3> HIDE DEF Q
    <3> QED BY <1>2, <2>1
  <2>3. /\ s \in Impacts(p) /\ s.queue = Tail(u.queue) /\ s.seen = u.seen /\ s.expanded = u.expanded
        /\ s.consumers = u.consumers /\ s.truncated = u.truncated
    BY <2>1, <2>2 DEF Impacts
  <2>4. Queued(u) \subseteq Queued(s) \cup {r}
    <3> SUFFICES ASSUME NEW k \in DOMAIN u.queue PROVE u.queue[k].run \in Queued(s) \cup {r}
      BY DEF Queued
    <3>1. DOMAIN u.queue = 1..Len(u.queue) /\ DOMAIN s.queue = 1..(Len(u.queue) - 1)
      BY <2>1, <2>2, <2>3
    <3>2. CASE k = 1
      BY <2>2, <3>2
    <3>3. CASE k # 1
      <4>1. k - 1 \in 1..(Len(u.queue) - 1) /\ (k - 1) + 1 = k
        BY <2>2, <3>1, <3>3
      <4>2. s.queue[k - 1] = u.queue[k]
        BY <2>2, <2>3, <4>1
      <4> QED BY <3>1, <4>1, <4>2 DEF Queued
    <3> QED BY <3>2, <3>3
  <2>5. NextDownstream(u, limit) = t
    BY <1>2 DEF NextDownstream
  <2>6. depth \in Nat
    BY <2>2
  <2> HIDE DEF t, r, depth, h, s, Q
  <2>7. /\ t \in Impacts(p) /\ Furthers(s, t) /\ Accounts(s, t)
        /\ \A i \in ProducedBy(r) : Key(i) \in t.expanded
    BY <2>3, <2>6, ExpandAllFurthers DEF t
  <2>8. Spent(t, r)
    BY <2>7 DEF Spent
  <2>9. Len(t.queue) \in Nat /\ Cardinality(u.seen) \in Nat /\ Cardinality(t.seen) \in Nat
    BY <2>1, <2>7, SeenCounts DEF Impacts
  <2>10. t.queue = <<>> \/ n + 1 + Len(t.queue) <= Cardinality(t.seen)
    <3> DEFINE a == Len(t.queue)
               b == Cardinality(u.seen)
               c == Len(u.queue)
               d == Cardinality(t.seen)
    <3>1. n + c <= b
      BY <1>2 DEF Walked
    <3>2. a + b <= (c - 1) + d
      BY <2>2, <2>3, <2>7 DEF Furthers
    <3>3. a \in Nat /\ b \in Nat /\ c \in Nat /\ d \in Nat
      BY <2>2, <2>9
    <3> HIDE DEF a, b, c, d
    <3>4. n + 1 + a <= d
      BY <3>1, <3>2, <3>3
    <3> QED BY <3>4 DEF a, d
  <2>11. InputsAt(p) \subseteq t.seen /\ t.seen \subseteq Inputs
    <3>1. InputsAt(p) \subseteq s.seen /\ s.seen \subseteq Inputs
      BY <2>3 DEF Walked
    <3>2. t.seen \subseteq DOMAIN observed
      BY <2>7 DEF Impacts
    <3> QED BY <2>7, <3>1, <3>2 DEF Furthers, Accounts, Inputs
  <2>12. \A k \in t.seen : observed[k].path # p => k \in t.consumers
    <3>1. \A k \in s.seen : observed[k].path # p => k \in s.consumers
      BY <2>3 DEF Walked
    <3> QED BY <2>7, <3>1 DEF Furthers, Accounts
  <2>13. \A x \in t.expanded : t.truncated \/ Covered(t, x)
    <3>1. \A x \in s.expanded : s.truncated \/ Covered(u, x)
      BY <2>3 DEF Walked
    <3>2. \A x : Covered(u, x) => Covered(t, x)
      BY <2>3, <2>7 DEF Furthers, Covered
    <3> QED BY <2>7, <3>1, <3>2 DEF Furthers, Accounts
  <2>14. ASSUME NEW k \in t.seen, Leads(p, k)
         PROVE  observed[k].run \in Queued(t) \/ Spent(t, observed[k].run)
    <3>1. CASE k \notin s.seen
      BY <2>7, <3>1 DEF Accounts
    <3>2. CASE k \in s.seen
      <4>1. observed[k].run \in Queued(u) \/ Spent(u, observed[k].run)
        BY <2>3, <2>14, <3>2 DEF Walked
      <4>2. CASE observed[k].run \in Queued(u)
        BY <2>4, <2>7, <2>8, <4>2 DEF Furthers
      <4>3. CASE Spent(u, observed[k].run)
        BY <2>3, <2>7, <4>3 DEF Spent, Furthers
      <4> QED BY <4>1, <4>2, <4>3
    <3> QED BY <3>1, <3>2
  <2>15. Walked(p, n + 1, t)
    BY <2>7, <2>10, <2>11, <2>12, <2>13, <2>14 DEF Walked
  <2> QED BY <2>5, <2>15
<1> QED BY <1>1, <1>2

(* So it is after all of them.                                              *)
LEMMA ImpactWalks ==
    ASSUME Table, NEW p, NEW limit \in Nat
    PROVE  Walked(p, Len(observed), Impact(p, limit))
<1> DEFINE m == Len(observed)
           seed == FirstHop(p)
           walk[n \in 0..m] == IF n = 0 THEN FirstHop(p) ELSE NextDownstream(walk[n - 1], limit)
           step == [n \in 1..m |-> [u \in Impacts(p) |-> NextDownstream(u, limit)]]
           S == [n \in 0..m |-> {u \in Impacts(p) : Walked(p, n, u)}]
<1>1. m \in Nat
  BY RowNumbers
<1>2. Impact(p, limit) = walk[m]
  BY DEF Impact
<1>3. 0 \in 0..m /\ m \in 0..m /\ seed \in S[0]
  BY <1>1, FirstWalked DEF Walked
<1>4. \A n \in 1..m : \A u \in S[n - 1] : step[n][u] = NextDownstream(u, limit) /\ NextDownstream(u, limit) \in S[n]
  <2> SUFFICES ASSUME NEW n \in 1..m, NEW u \in S[n - 1]
               PROVE  step[n][u] = NextDownstream(u, limit) /\ NextDownstream(u, limit) \in S[n]
    OBVIOUS
  <2>1. n - 1 \in 0..m /\ n \in 0..m /\ n - 1 \in Nat /\ (n - 1) + 1 = n
    BY <1>1
  <2>2. u \in Impacts(p) /\ Walked(p, n - 1, u)
    BY <2>1
  <2>3. Walked(p, n, NextDownstream(u, limit))
    <3>1. PICK k \in Nat : k = n - 1
      BY <2>1
    <3>2. Walked(p, k + 1, NextDownstream(u, limit))
      BY <2>2, <3>1, TurnWalked
    <3> QED BY <2>1, <3>1, <3>2
  <2>4. NextDownstream(u, limit) \in Impacts(p)
    BY <2>3 DEF Walked
  <2> QED BY <2>1, <2>2, <2>3, <2>4
<1> HIDE DEF S, m, walk, step, seed
<1>5. ASSUME NEW n \in 1..m, NEW u \in S[n - 1] PROVE step[n][u] \in S[n]
  BY <1>4
<1>6. PICK f : Takes(f, m, seed, step) /\ \A n \in 0..m : f[n] \in S[n]
  BY <1>1, <1>3, <1>5, WalkFits
<1> USE DEF walk
<1>7. f = [n \in 0..m |-> IF n = 0 THEN FirstHop(p) ELSE NextDownstream(f[n - 1], limit)]
  <2>1. \A n \in 1..m : step[n][f[n - 1]] = NextDownstream(f[n - 1], limit)
    BY <1>1, <1>4, <1>6
  <2> QED BY <1>1, <1>6, <2>1 DEF Takes, seed
<1>8. walk = [n \in 0..m |-> IF n = 0 THEN FirstHop(p) ELSE NextDownstream(walk[n - 1], limit)]
  BY <1>7, Zenon
<1> HIDE DEF walk
<1>9. walk[0] = seed /\ \A n \in 1..m : walk[n] = NextDownstream(walk[n - 1], limit)
  BY <1>1, <1>8 DEF seed
<1>10. walk[m] \in S[m]
  BY <1>1, <1>3, <1>4, <1>9, WalkStays
<1>11. Walked(p, m, walk[m])
  BY <1>3, <1>10 DEF S
<1> QED BY <1>2, <1>11 DEF m

(* An impact that was not cut short has seen all that depends on what it    *)
(* has seen.                                                                *)
LEMMA ImpactCloses ==
    ASSUME Table, NEW p, NEW limit \in Nat, ~ Impact(p, limit).truncated,
           NEW i \in Impact(p, limit).seen, Leads(p, i), NEW k \in Inputs, Feeds(i, k)
    PROVE  k \in Impact(p, limit).seen
<1> DEFINE m == Len(observed)
           u == Impact(p, limit)
<1>1. m \in Nat /\ Walked(p, m, u)
  BY ImpactWalks, RowNumbers
<1> HIDE DEF u, m
<1>2. u.queue = <<>>
  <2> SUFFICES ASSUME u.queue # <<>> PROVE FALSE
    OBVIOUS
  <2>1. u.seen \subseteq DOMAIN observed /\ u.queue \in Seq([run : Observing, depth : Nat])
    BY <1>1 DEF Walked, Impacts
  <2>2. Cardinality(u.seen) \in Nat /\ Cardinality(u.seen) <= m
    BY <2>1, SeenCounts DEF m
  <2>3. m + Len(u.queue) <= Cardinality(u.seen)
    BY <1>1 DEF Walked
  <2>4. Len(u.queue) \in Nat /\ Len(u.queue) # 0
    BY <2>1
  <2> QED BY <1>1, <2>2, <2>3, <2>4
<1>3. Queued(u) = {}
  BY <1>2 DEF Queued
<1>4. Spent(u, observed[i].run)
  BY <1>1, <1>3 DEF Walked, u
<1>5. PICK o \in ProducedBy(observed[i].run) :
        observed[k].path = observed[o].path /\ ~Differ(observed[o].hash, observed[k].hash)
  BY DEF Feeds
<1>6. Key(o) \in u.expanded /\ ~ u.truncated
  BY <1>4, <1>5 DEF Spent, u
<1>7. Covered(u, Key(o))
  BY <1>1, <1>6 DEF Walked
<1>8. k \in InputsAt(Key(o)[1]) /\ Key(o)[2] = observed[o].hash
  BY <1>5 DEF Key, InputsAt, OfPath, Inputs
<1> QED BY <1>5, <1>7, <1>8 DEF Covered, u

(* So it has seen all that depends on a changed input, by any number of     *)
(* steps.                                                                   *)
LEMMA DependentsAreSeen ==
    ASSUME Table, NEW p, NEW limit \in Nat, ~ Impact(p, limit).truncated
    PROVE  Dependents(p) \subseteq {i \in Impact(p, limit).seen : Leads(p, i)}
<1> DEFINE m == Len(observed)
           inputs == {i \in DOMAIN observed : observed[i].role = "input"}
           seed == {i \in inputs : observed[i].path = p /\ Changed(p, i)}
           More(x) == x \cup {k \in inputs : observed[k].path # p /\ \E i \in x : Feeds(i, k)}
           reach[n \in 0..m] ==
             IF n = 0 THEN {i \in inputs : observed[i].path = p /\ Changed(p, i)}
             ELSE LET x == reach[n - 1]
                  IN x \cup {k \in inputs : observed[k].path # p /\ \E i \in x : Feeds(i, k)}
           led == {i \in Impact(p, limit).seen : Leads(p, i)}
           step == [n \in 1..m |-> [x \in SUBSET inputs |-> More(x)]]
           T == [n \in 0..m |-> SUBSET inputs]
           S == [n \in 0..m |-> SUBSET led]
<1>1. m \in Nat /\ 0 \in 0..m /\ m \in 0..m
  BY RowNumbers
<1>2. Dependents(p) = reach[m]
  BY DEF Dependents
<1>3. Walked(p, m, Impact(p, limit)) /\ inputs = Inputs
  BY ImpactWalks DEF Inputs
<1>4. seed \in SUBSET led
  BY <1>3 DEF Walked, InputsAt, OfPath, Leads
<1>5. ASSUME NEW x \in SUBSET led PROVE More(x) \in SUBSET led
  <2>1. ASSUME NEW k \in inputs, observed[k].path # p, NEW i \in x, Feeds(i, k) PROVE k \in led
    <3>1. k \in Impact(p, limit).seen
      BY <1>3, <2>1, ImpactCloses
    <3> QED BY <2>1, <3>1 DEF Leads
  <2> QED BY <2>1
<1>6. \A x \in SUBSET inputs : More(x) \in SUBSET inputs
  OBVIOUS
<1>7. seed \in SUBSET inputs
  OBVIOUS
<1> HIDE DEF m, inputs, seed, More, reach, led
<1>8. ASSUME NEW n \in 1..m
      PROVE  /\ T[n - 1] = SUBSET inputs /\ T[n] = SUBSET inputs
             /\ S[n - 1] = SUBSET led /\ S[n] = SUBSET led
  BY <1>1
<1>9. seed \in T[0] /\ seed \in S[0] /\ S[m] = SUBSET led
  BY <1>1, <1>4, <1>7
<1>10. \A n \in 1..m : \A x \in SUBSET inputs : step[n][x] = More(x)
  OBVIOUS
<1> HIDE DEF T, S, step
<1>11. ASSUME NEW n \in 1..m, NEW x \in T[n - 1] PROVE step[n][x] \in T[n]
  BY <1>6, <1>8, <1>10
<1>12. PICK f : Takes(f, m, seed, step) /\ \A n \in 0..m : f[n] \in T[n]
  BY <1>1, <1>9, <1>11, WalkFits
<1>13. \A n \in 1..m : step[n][f[n - 1]] = More(f[n - 1])
  <2> SUFFICES ASSUME NEW n \in 1..m PROVE step[n][f[n - 1]] = More(f[n - 1])
    OBVIOUS
  <2>1. n - 1 \in 0..m
    BY <1>1
  <2>2. f[n - 1] \in SUBSET inputs
    BY <1>8, <1>12, <2>1
  <2> QED BY <1>10, <2>2
<1>14. f = [n \in 0..m |-> IF n = 0 THEN seed ELSE More(f[n - 1])]
  BY <1>1, <1>12, <1>13 DEF Takes
<1>15. reach = [n \in 0..m |-> IF n = 0 THEN seed ELSE More(reach[n - 1])]
  BY <1>14, Zenon DEF reach, seed, More
<1>16. reach[0] = seed /\ \A n \in 1..m : reach[n] = More(reach[n - 1])
  BY <1>1, <1>15
<1>17. ASSUME NEW n \in 1..m, reach[n - 1] \in S[n - 1] PROVE reach[n] \in S[n]
  BY <1>5, <1>8, <1>16, <1>17
<1>18. reach[m] \in S[m]
  BY <1>1, <1>9, <1>16, <1>17, WalkStays
<1> QED BY <1>2, <1>9, <1>18 DEF led

(* A set of files in path order is a sequence of some of them.              *)
LEMMA SortedFits ==
    ASSUME WorktreeFits, NEW ps
    PROVE  Sorted(ps) \in Seq(Files)
<1> DEFINE m == Len(Paths)
           Go(n, u) == IF Paths[n] \in ps THEN Append(u, Paths[n]) ELSE u
           upTo[n \in 0..m] == IF n = 0 THEN <<>>
                               ELSE IF Paths[n] \in ps THEN Append(upTo[n - 1], Paths[n]) ELSE upTo[n - 1]
           step == [n \in 1..m |-> [u \in Seq(Files) |-> Go(n, u)]]
           S == [n \in 0..m |-> Seq(Files)]
<1>1. m \in Nat /\ 0 \in 0..m /\ m \in 0..m /\ \A n \in 1..m : Paths[n] \in Files
  BY DEF WorktreeFits, Files
<1>2. Sorted(ps) = upTo[m]
  BY DEF Sorted
<1>3. \A n \in 1..m : \A u \in Seq(Files) : Go(n, u) \in Seq(Files)
  BY <1>1
<1>4. \A n \in 1..m : \A u \in Seq(Files) : step[n][u] = Go(n, u)
  OBVIOUS
<1>5. <<>> \in S[0] /\ S[m] = Seq(Files)
  BY <1>1
<1>6. \A n \in 1..m : S[n - 1] = Seq(Files) /\ S[n] = Seq(Files)
  BY <1>1
<1> HIDE DEF m, Go, upTo, step, S
<1>7. ASSUME NEW n \in 1..m, NEW u \in S[n - 1] PROVE step[n][u] \in S[n]
  BY <1>3, <1>4, <1>6
<1>8. PICK f : Takes(f, m, <<>>, step) /\ \A n \in 0..m : f[n] \in S[n]
  BY <1>1, <1>5, <1>7, WalkFits
<1>9. \A n \in 1..m : step[n][f[n - 1]] = Go(n, f[n - 1])
  <2> SUFFICES ASSUME NEW n \in 1..m PROVE step[n][f[n - 1]] = Go(n, f[n - 1])
    OBVIOUS
  <2>1. n - 1 \in 0..m
    BY <1>1
  <2>2. f[n - 1] \in Seq(Files)
    BY <1>6, <1>8, <2>1
  <2> QED BY <1>4, <2>2
<1>10. f = [n \in 0..m |-> IF n = 0 THEN <<>> ELSE Go(n, f[n - 1])]
  BY <1>1, <1>8, <1>9 DEF Takes
<1>11. upTo = [n \in 0..m |-> IF n = 0 THEN <<>> ELSE Go(n, upTo[n - 1])]
  BY <1>10, Zenon DEF upTo, Go
<1>12. upTo[0] = <<>> /\ \A n \in 1..m : upTo[n] = Go(n, upTo[n - 1])
  BY <1>1, <1>11
<1>13. ASSUME NEW n \in 1..m, upTo[n - 1] \in S[n - 1] PROVE upTo[n] \in S[n]
  BY <1>3, <1>6, <1>12, <1>13
<1>14. upTo[m] \in S[m]
  BY <1>1, <1>5, <1>12, <1>13, WalkStays
<1> QED BY <1>2, <1>5, <1>14

(* What any table of observations says of any files.                        *)
LEMMA TableRevalidates ==
    ASSUME WorktreeFits, Table
    PROVE  RevalidationIsComplete
<1> SUFFICES ASSUME NEW p \in Range(Requiring), NEW l \in Limits, NEW i \in Dependents(p)
             PROVE  LET status == Revalidation(l)
                    IN  status.truncated \/ observed[i].run \in status.runs \cup status.unknown
  BY DEF RevalidationIsComplete
<1> DEFINE status == Revalidation(l)
           depth == l.depth
           u == Impact(p, depth)
           impacts == {Impact(Requiring[n], l.depth) : n \in {n \in DOMAIN Requiring : n <= l.paths}}
<1>1. depth \in Nat /\ l.paths \in Nat
  BY DEF WorktreeFits
<1>2. /\ status.runs = {observed[k].run : k \in {k \in DOMAIN observed :
                   observed[k].role = "input" /\ StaleInput(k)} \cup UNION {x.consumers : x \in impacts}}
      /\ status.unknown = {observed[k].run : k \in {k \in DOMAIN observed :
                   observed[k].role = "input" /\ observed[k].hash = None}}
      /\ status.truncated = (Len(Requiring) > l.paths \/ \E x \in impacts : x.truncated)
  BY DEF Revalidation
<1>3. Requiring \in Seq(Files)
  BY SortedFits DEF Requiring
<1>4. Walked(p, Len(observed), u)
  BY <1>1, ImpactWalks
<1>5. u.truncated \/ (i \in u.seen /\ Leads(p, i))
  BY <1>1, DependentsAreSeen
<1>6. CASE Len(Requiring) > l.paths
  BY <1>2, <1>6
<1>7. CASE ~ (Len(Requiring) > l.paths)
  <2>1. PICK n \in DOMAIN Requiring : p = Requiring[n]
    BY DEF Range
  <2>2. n <= l.paths
    BY <1>1, <1>3, <1>7
  <2>3. u \in impacts
    BY <2>1, <2>2
  <2> HIDE DEF status, impacts, u
  <2>4. CASE u.truncated
    BY <1>2, <2>3, <2>4 DEF status
  <2>5. CASE i \in u.seen /\ Leads(p, i)
    <3>1. i \in DOMAIN observed /\ observed[i].role = "input"
      BY <1>4, <2>5 DEF Walked, Inputs
    <3>2. CASE observed[i].path # p
      <4>1. i \in u.consumers
        BY <1>4, <2>5, <3>2 DEF Walked
      <4> QED BY <1>2, <2>3, <4>1 DEF status
    <3>3. CASE observed[i].path = p
      <4>1. observed[i].hash = None \/ StaleInput(i)
        BY <2>5, <3>3 DEF Leads, Changed, StaleInput
      <4> QED BY <1>2, <3>1, <4>1 DEF status
    <3> QED BY <3>2, <3>3
  <2> QED BY <1>5, <2>4, <2>5
<1> QED BY <1>6, <1>7

-----------------------------------------------------------------------------
(* The states of a walk upstream.  Rows are of runs.                        *)

RowsOfRuns ==
    /\ Table /\ Len(runs) \in Nat /\ Runs = 1..Len(runs)
    /\ \A i \in DOMAIN observed : observed[i].run \in Runs

(* What a walk upstream may be.                                             *)
Traces ==
    [queue : Seq([run : Runs, depth : Nat]), seen : SUBSET Runs, found : SUBSET Runs,
     mismatched : SUBSET Runs, truncated : BOOLEAN]

(* All that the inputs of r may come from has been seen.                    *)
Complete(s, r) ==
    \A i \in InputsOfRun(r) : \A k \in ProducedAt(observed[i].path) :
      ~Differ(observed[i].hash, observed[k].hash) => observed[k].run \in s.seen

(* How a walk goes on from s to t.  Whatever it sees it finds, and looks    *)
(* further from there unless it says that it does not.                      *)
Climbs(s, t) ==
    /\ s.seen \subseteq t.seen /\ s.found \subseteq t.found /\ Queued(s) \subseteq Queued(t)
    /\ s.truncated => t.truncated
    /\ Len(t.queue) + Cardinality(s.seen) <= Len(s.queue) + Cardinality(t.seen)

(* What it newly sees it finds.                                             *)
Reports(s, t) ==
    \A r \in t.seen \ s.seen : r \in t.found /\ (r \in Queued(t) \/ t.truncated \/ Complete(t, r))

(* Counting runs.                                                           *)
LEMMA RunsCount ==
    ASSUME RowsOfRuns, NEW S, S \subseteq Runs
    PROVE  /\ IsFiniteSet(S) /\ Cardinality(S) \in Nat /\ Cardinality(S) <= Len(runs)
           /\ \A i : i \notin S => Cardinality(S \cup {i}) = Cardinality(S) + 1
<1>1. Len(runs) \in Nat /\ Runs = 1..Len(runs)
  BY DEF RowsOfRuns
<1>2. IsFiniteSet(1..Len(runs)) /\ Cardinality(1..Len(runs)) = Len(runs)
  <2>1. PICK m \in Nat : m = Len(runs)
    BY <1>1
  <2>2. IsFiniteSet(1..m) /\ Cardinality(1..m) = m
    BY FS_Interval
  <2> QED BY <2>1, <2>2
<1>3. IsFiniteSet(S) /\ Cardinality(S) <= Len(runs)
  BY <1>1, <1>2, FS_Subset
<1> QED BY <1>3, FS_CardinalityType, FS_AddElement

(* A walk may stay, and may go on from where it has gone to.                *)
LEMMA ClimbsIs == RowsOfRuns => \A s \in Traces : Climbs(s, s) /\ Reports(s, s)
<1> SUFFICES ASSUME RowsOfRuns, NEW s \in Traces PROVE Climbs(s, s) /\ Reports(s, s)
  OBVIOUS
<1>1. Len(s.queue) \in Nat /\ Cardinality(s.seen) \in Nat
  BY RunsCount DEF Traces
<1> QED BY <1>1 DEF Climbs, Reports

LEMMA ClimbsOn ==
    ASSUME RowsOfRuns, NEW s \in Traces, NEW t \in Traces, NEW u \in Traces,
           Climbs(s, t), Climbs(t, u), Reports(s, t), Reports(t, u)
    PROVE  Climbs(s, u) /\ Reports(s, u)
<1>1. /\ Len(s.queue) \in Nat /\ Len(t.queue) \in Nat /\ Len(u.queue) \in Nat
      /\ Cardinality(s.seen) \in Nat /\ Cardinality(t.seen) \in Nat /\ Cardinality(u.seen) \in Nat
  BY RunsCount DEF Traces
<1>2. Climbs(s, u)
  <2>1. Len(u.queue) + Cardinality(s.seen) <= Len(s.queue) + Cardinality(u.seen)
    <3> DEFINE a == Len(s.queue)
               b == Len(t.queue)
               c == Len(u.queue)
               x == Cardinality(s.seen)
               y == Cardinality(t.seen)
               z == Cardinality(u.seen)
    <3>1. b + x <= a + y /\ c + y <= b + z /\ {a, b, c, x, y, z} \subseteq Nat
      BY <1>1 DEF Climbs
    <3> HIDE DEF a, b, c, x, y, z
    <3>2. c + x <= a + z
      BY <3>1
    <3> QED BY <3>2 DEF a, c, x, z
  <2>2. s.truncated => u.truncated
    BY DEF Climbs
  <2>3. s.seen \subseteq u.seen /\ s.found \subseteq u.found /\ Queued(s) \subseteq Queued(u)
    BY DEF Climbs
  <2> QED BY <2>1, <2>2, <2>3 DEF Climbs
<1>3. \A r : Complete(t, r) => Complete(u, r)
  BY DEF Complete, Climbs
<1>4. ASSUME NEW r \in u.seen \ s.seen
      PROVE  r \in u.found /\ (r \in Queued(u) \/ u.truncated \/ Complete(u, r))
  <2>1. CASE r \in t.seen
    <3>1. r \in t.found /\ (r \in Queued(t) \/ t.truncated \/ Complete(t, r))
      BY <1>4, <2>1 DEF Reports
    <3>2. r \in u.found /\ (r \in Queued(t) => r \in Queued(u)) /\ (t.truncated => u.truncated)
      BY <3>1 DEF Climbs
    <3> QED BY <1>3, <3>1, <3>2
  <2>2. CASE r \notin t.seen
    BY <1>4, <2>2 DEF Reports
  <2> QED BY <2>1, <2>2
<1> QED BY <1>2, <1>4 DEF Reports

(* A run that is found is queued, or else all of its upstream has been seen *)
(* already, or the walk says that it was cut short.                         *)
LEMMA ProducerClimbs ==
    ASSUME RowsOfRuns, NEW s \in Traces, NEW k \in DOMAIN observed, NEW expected,
           NEW depth \in Nat, NEW limit \in Nat
    PROVE  LET t == AddProducer(s, k, expected, depth, limit)
           IN  /\ t \in Traces /\ Climbs(s, t) /\ Reports(s, t)
               /\ ~Differ(expected, observed[k].hash) => observed[k].run \in t.seen
<1> DEFINE r == observed[k].run
           x == [run |-> r, depth |-> depth]
           Q == [run : Runs, depth : Nat]
           cut == s.truncated \/ (depth >= limit /\ UnseenUpstream(r, s.seen \cup {r}))
           queue == IF depth < limit THEN Append(s.queue, x) ELSE s.queue
           u == [s EXCEPT !.seen = s.seen \cup {r}, !.found = @ \cup {r},
                          !.queue = IF depth < limit THEN Append(@, [run |-> r, depth |-> depth]) ELSE @,
                          !.truncated = @ \/ (depth >= limit /\ UnseenUpstream(r, s.seen \cup {r}))]
           v == [s EXCEPT !.mismatched = @ \cup {r}]
           t == AddProducer(s, k, expected, depth, limit)
<1>1. t = IF Differ(expected, observed[k].hash) THEN v ELSE IF r \in s.seen THEN s ELSE u
  BY DEF AddProducer
<1>2. r \in Runs /\ x \in Q /\ x.run = r
  BY DEF RowsOfRuns
<1>3. CASE Differ(expected, observed[k].hash)
  <2>1. t = v
    BY <1>1, <1>3
  <2>2. /\ v \in Traces /\ v.seen = s.seen /\ v.found = s.found /\ v.queue = s.queue
        /\ v.truncated = s.truncated
    BY <1>2 DEF Traces
  <2> HIDE DEF v, t
  <2>3. Len(s.queue) \in Nat /\ Cardinality(s.seen) \in Nat
    BY RunsCount DEF Traces
  <2>4. Queued(v) = Queued(s)
    BY <2>2 DEF Queued
  <2>5. Climbs(s, v) /\ Reports(s, v)
    BY <2>2, <2>3, <2>4 DEF Climbs, Reports
  <2> QED BY <1>3, <2>1, <2>2, <2>5 DEF t
<1>4. CASE ~Differ(expected, observed[k].hash) /\ r \in s.seen
  <2>1. t = s
    BY <1>1, <1>4
  <2> HIDE DEF t
  <2> QED BY <1>4, <2>1, ClimbsIs DEF t, r
<1>5. CASE ~Differ(expected, observed[k].hash) /\ r \notin s.seen
  <2>1. t = u
    BY <1>1, <1>5
  <2>2. s.queue \in Seq(Q)
    BY DEF Traces
  <2> HIDE DEF Q, x
  <2>3. /\ Append(s.queue, x) \in Seq(Q) /\ Len(Append(s.queue, x)) = Len(s.queue) + 1
        /\ Len(s.queue) \in Nat /\ DOMAIN s.queue = 1..Len(s.queue)
        /\ DOMAIN Append(s.queue, x) = 1..(Len(s.queue) + 1)
        /\ \A n \in 1..Len(s.queue) : Append(s.queue, x)[n] = s.queue[n]
        /\ Append(s.queue, x)[Len(s.queue) + 1] = x
    BY <1>2, <2>2
  <2>4. /\ queue \in Seq(Q) /\ Len(queue) \in Nat /\ Len(queue) <= Len(s.queue) + 1
        /\ {s.queue[n].run : n \in DOMAIN s.queue} \subseteq {queue[n].run : n \in DOMAIN queue}
        /\ depth < limit => r \in {queue[n].run : n \in DOMAIN queue}
    <3>1. CASE depth < limit
      <4>1. queue = Append(s.queue, x)
        BY <3>1
      <4> HIDE DEF queue
      <4> QED BY <1>2, <2>3, <4>1
    <3>2. CASE ~ (depth < limit)
      <4>1. queue = s.queue
        BY <3>2
      <4> HIDE DEF queue
      <4> QED BY <2>2, <2>3, <3>2, <4>1
    <3> QED BY <3>1, <3>2
  <2>5. /\ u.seen = s.seen \cup {r} /\ u.found = s.found \cup {r} /\ u.queue = queue
        /\ u.mismatched = s.mismatched
    BY DEF Traces, x
  <2>6. u.truncated = cut
    BY DEF Traces
  <2>7. u \in Traces
    <3>1. queue \in Seq([run : Runs, depth : Nat])
      BY <2>4 DEF Q
    <3> HIDE DEF queue
    <3>2. s.seen \cup {r} \in SUBSET Runs /\ s.found \cup {r} \in SUBSET Runs
      BY <1>2 DEF Traces
    <3>3. cut \in BOOLEAN
      BY DEF Traces
    <3>4. u = [s EXCEPT !.seen = s.seen \cup {r}, !.found = s.found \cup {r}, !.queue = queue,
                        !.truncated = cut]
      BY DEF Traces, queue, x
    <3> HIDE DEF u, cut
    <3> QED BY <3>1, <3>2, <3>3, <3>4 DEF Traces
  <2>8. Queued(u) = {queue[n].run : n \in DOMAIN queue}
    BY <2>5 DEF Queued
  <2>9. Cardinality(u.seen) = Cardinality(s.seen) + 1 /\ Cardinality(s.seen) \in Nat
    BY <1>5, <2>5, RunsCount DEF Traces
  <2> HIDE DEF u, t, queue
  <2>10. Climbs(s, u)
    <3>1. s.truncated => u.truncated
      BY <2>6
    <3>2. s.seen \subseteq u.seen /\ s.found \subseteq u.found /\ Queued(s) \subseteq Queued(u)
      BY <2>4, <2>5, <2>8 DEF Queued
    <3>3. Len(u.queue) + Cardinality(s.seen) <= Len(s.queue) + Cardinality(u.seen)
      BY <2>3, <2>4, <2>5, <2>9
    <3> QED BY <3>1, <3>2, <3>3 DEF Climbs
  <2>11. r \in u.found /\ (r \in Queued(u) \/ u.truncated \/ Complete(u, r))
    <3>1. CASE depth < limit
      BY <2>4, <2>5, <2>8, <3>1
    <3>2. CASE ~ (depth < limit)
      <4>1. depth >= limit
        BY <3>2
      <4>2. CASE UnseenUpstream(r, s.seen \cup {r})
        BY <2>5, <2>6, <4>1, <4>2
      <4>3. CASE ~ UnseenUpstream(r, s.seen \cup {r})
        BY <2>5, <4>3 DEF UnseenUpstream, Complete
      <4> QED BY <4>2, <4>3
    <3> QED BY <3>1, <3>2
  <2>12. Reports(s, u)
    BY <2>5, <2>11 DEF Reports
  <2> QED BY <2>1, <2>5, <2>7, <2>10, <2>12 DEF t, r
<1> QED BY <1>3, <1>4, <1>5

(* All producers of a revision have been seen after they were added.        *)
LEMMA ProducersClimb ==
    ASSUME RowsOfRuns, NEW s \in Traces, NEW producers, producers \subseteq DOMAIN observed,
           NEW expected, NEW depth \in Nat, NEW limit \in Nat
    PROVE  LET t == AddProducers(s, producers, expected, depth, limit)
           IN  /\ t \in Traces /\ Climbs(s, t) /\ Reports(s, t)
               /\ \A k \in producers : ~Differ(expected, observed[k].hash) => observed[k].run \in t.seen
<1> DEFINE m == Len(observed)
           Fits(k) == ~Differ(expected, observed[k].hash)
           Go(n, u) == IF Newest(n) \in producers
                       THEN AddProducer(u, Newest(n), expected, depth, limit) ELSE u
           after[n \in 0..m] == IF n = 0 THEN s
                                ELSE IF Newest(n) \in producers
                                     THEN AddProducer(after[n - 1], Newest(n), expected, depth, limit)
                                     ELSE after[n - 1]
           step == [n \in 1..m |-> [u \in Traces |-> Go(n, u)]]
           So(n, u) == /\ u \in Traces /\ Climbs(s, u) /\ Reports(s, u)
                       /\ \A j \in 1..n : Newest(j) \in producers /\ Fits(Newest(j))
                                            => observed[Newest(j)].run \in u.seen
           S == [n \in 0..m |-> {u \in Traces : So(n, u)}]
<1>1. m \in Nat /\ (\A n \in 1..m : Newest(n) \in DOMAIN observed)
      /\ \A k \in producers : \E n \in 1..m : k = Newest(n)
  BY RowNumbers DEF RowsOfRuns
<1>2. AddProducers(s, producers, expected, depth, limit) = after[m]
  BY DEF AddProducers
<1>3. So(0, s)
  BY ClimbsIs
<1> HIDE DEF Fits
<1>4. ASSUME NEW n \in 1..m, NEW u, So(n - 1, u) PROVE So(n, Go(n, u))
  <2> DEFINE v == Go(n, u)
  <2>1. /\ v \in Traces /\ Climbs(u, v) /\ Reports(u, v)
        /\ Newest(n) \in producers /\ Fits(Newest(n)) => observed[Newest(n)].run \in v.seen
    <3>1. CASE Newest(n) \in producers
      <4>1. PICK k : k = Newest(n)
        OBVIOUS
      <4>2. v = AddProducer(u, k, expected, depth, limit) /\ u \in Traces /\ k \in DOMAIN observed
        BY <1>1, <1>4, <3>1, <4>1
      <4> HIDE DEF Go, v, So, m, after, step, S
      <4>3. LET t == AddProducer(u, k, expected, depth, limit)
            IN  /\ t \in Traces /\ Climbs(u, t) /\ Reports(u, t)
                /\ ~Differ(expected, observed[k].hash) => observed[k].run \in t.seen
        BY <4>2, ProducerClimbs
      <4> QED BY <4>1, <4>2, <4>3 DEF Fits
    <3>2. CASE Newest(n) \notin producers
      BY <1>4, <3>2, ClimbsIs
    <3> QED BY <3>1, <3>2
  <2> HIDE DEF Go
  <2> HIDE DEF v
  <2>2. Climbs(s, v) /\ Reports(s, v)
    BY <1>4, <2>1, ClimbsOn
  <2>3. ASSUME NEW j \in 1..n, Newest(j) \in producers, Fits(Newest(j))
        PROVE  observed[Newest(j)].run \in v.seen
    <3>1. j = n \/ j \in 1..(n - 1)
      BY <1>1
    <3> QED BY <1>4, <2>1, <2>3, <3>1 DEF Climbs
  <2>4. So(n, v)
    BY <1>4, <2>1, <2>2, <2>3
  <2> QED BY <2>4 DEF v
<1> HIDE DEF So
<1>5. \A n \in 1..m : \A u \in S[n - 1] : step[n][u] = Go(n, u) /\ Go(n, u) \in S[n]
  <2> SUFFICES ASSUME NEW n \in 1..m, NEW u \in S[n - 1] PROVE step[n][u] = Go(n, u) /\ Go(n, u) \in S[n]
    OBVIOUS
  <2>1. n - 1 \in 0..m /\ n \in 0..m
    BY <1>1
  <2>2. u \in Traces /\ So(n - 1, u)
    BY <2>1
  <2>3. So(n, Go(n, u)) /\ Go(n, u) \in Traces
    BY <1>4, <2>2 DEF So
  <2> QED BY <2>1, <2>2, <2>3
<1>6. 0 \in 0..m /\ m \in 0..m /\ s \in S[0]
  BY <1>1, <1>3
<1> HIDE DEF S, m, Go, after, step
<1>7. ASSUME NEW n \in 1..m, NEW u \in S[n - 1] PROVE step[n][u] \in S[n]
  BY <1>5
<1>8. PICK f : Takes(f, m, s, step) /\ \A n \in 0..m : f[n] \in S[n]
  BY <1>1, <1>6, <1>7, WalkFits
<1>9. m \in Nat /\ \A n \in 1..m : step[n][f[n - 1]] = Go(n, f[n - 1])
  BY <1>1, <1>5, <1>8
<1>10. f = [n \in 0..m |-> IF n = 0 THEN s ELSE Go(n, f[n - 1])]
  <2>1. f = [n \in 0..m |-> IF n = 0 THEN s ELSE step[n][f[n - 1]]]
    BY <1>8 DEF Takes
  <2> QED BY <1>9, <2>1
<1>11. after = [n \in 0..m |-> IF n = 0 THEN s ELSE Go(n, after[n - 1])]
  BY <1>10, Zenon DEF after, Go
<1>12. after[0] = s /\ \A n \in 1..m : after[n] = Go(n, after[n - 1])
  BY <1>1, <1>11
<1>13. after[m] \in S[m]
  <2>1. after[0] \in S[0]
    BY <1>1, <1>6, <1>12
  <2>2. \A n \in 1..m : after[n - 1] \in S[n - 1] => after[n] \in S[n]
    BY <1>1, <1>5, <1>12
  <2> QED BY <1>1, <1>6, <2>1, <2>2, WalkStays
<1>14. So(m, after[m])
  BY <1>6, <1>13 DEF S
<1> QED BY <1>1, <1>2, <1>14 DEF So, Fits

(* All that the inputs of r may come from has been seen then.               *)
LEMMA UpstreamClimbs ==
    ASSUME RowsOfRuns, NEW s \in Traces, NEW r, NEW depth \in Nat, NEW limit \in Nat
    PROVE  LET t == AddUpstream(s, r, depth, limit)
           IN  t \in Traces /\ Climbs(s, t) /\ Reports(s, t) /\ Complete(t, r)
<1> DEFINE m == Len(observed)
           Done(u, n) == \A k \in ProducedAt(observed[n].path) :
                           ~Differ(observed[n].hash, observed[k].hash) => observed[k].run \in u.seen
           Go(n, u) == IF n \in InputsOfRun(r)
                       THEN AddProducers(u, ProducedAt(observed[n].path), observed[n].hash, depth, limit)
                       ELSE u
           after[n \in 0..m] == IF n = 0 THEN s
                                ELSE IF n \in InputsOfRun(r)
                                     THEN AddProducers(after[n - 1], ProducedAt(observed[n].path),
                                                       observed[n].hash, depth, limit)
                                     ELSE after[n - 1]
           step == [n \in 1..m |-> [u \in Traces |-> Go(n, u)]]
           So(n, u) == /\ u \in Traces /\ Climbs(s, u) /\ Reports(s, u)
                       /\ \A j \in 1..n : j \in InputsOfRun(r) => Done(u, j)
           S == [n \in 0..m |-> {u \in Traces : So(n, u)}]
<1>1. m \in Nat /\ DOMAIN observed = 1..m /\ InputsOfRun(r) \subseteq 1..m
  BY RowNumbers DEF RowsOfRuns, InputsOfRun, OfRun
<1>2. AddUpstream(s, r, depth, limit) = after[m]
  BY DEF AddUpstream
<1>3. So(0, s)
  BY ClimbsIs
<1>4. \A u, v, n : Climbs(u, v) /\ Done(u, n) => Done(v, n)
  BY DEF Climbs
<1>5. ASSUME NEW n \in 1..m, NEW u, So(n - 1, u) PROVE So(n, Go(n, u))
  <2> DEFINE v == Go(n, u)
  <2>1. /\ v \in Traces /\ Climbs(u, v) /\ Reports(u, v)
        /\ n \in InputsOfRun(r) => Done(v, n)
    <3>1. CASE n \in InputsOfRun(r)
      <4>1. PICK producers, expected : producers = ProducedAt(observed[n].path) /\ expected = observed[n].hash
        OBVIOUS
      <4>2. v = AddProducers(u, producers, expected, depth, limit) /\ u \in Traces
        BY <1>5, <3>1, <4>1
      <4>3. producers \subseteq DOMAIN observed
        BY <4>1 DEF ProducedAt, OfPath
      <4> HIDE DEF Go, v, So, m, after, step, S
      <4>4. LET t == AddProducers(u, producers, expected, depth, limit)
            IN  /\ t \in Traces /\ Climbs(u, t) /\ Reports(u, t)
                /\ \A k \in producers : ~Differ(expected, observed[k].hash) => observed[k].run \in t.seen
        BY <4>2, <4>3, ProducersClimb
      <4> QED BY <4>1, <4>2, <4>4
    <3>2. CASE n \notin InputsOfRun(r)
      BY <1>5, <3>2, ClimbsIs
    <3> QED BY <3>1, <3>2
  <2> HIDE DEF Go, Done
  <2> HIDE DEF v
  <2>2. Climbs(s, v) /\ Reports(s, v)
    BY <1>5, <2>1, ClimbsOn
  <2>3. ASSUME NEW j \in 1..n, j \in InputsOfRun(r) PROVE Done(v, j)
    <3>1. j = n \/ j \in 1..(n - 1)
      BY <1>1
    <3> QED BY <1>4, <1>5, <2>1, <2>3, <3>1
  <2>4. So(n, v)
    BY <1>5, <2>1, <2>2, <2>3
  <2> QED BY <2>4 DEF v
<1> HIDE DEF So, Done
<1>6. \A n \in 1..m : \A u \in S[n - 1] : step[n][u] = Go(n, u) /\ Go(n, u) \in S[n]
  <2> SUFFICES ASSUME NEW n \in 1..m, NEW u \in S[n - 1] PROVE step[n][u] = Go(n, u) /\ Go(n, u) \in S[n]
    OBVIOUS
  <2>1. n - 1 \in 0..m /\ n \in 0..m
    BY <1>1
  <2>2. u \in Traces /\ So(n - 1, u)
    BY <2>1
  <2>3. So(n, Go(n, u)) /\ Go(n, u) \in Traces
    BY <1>5, <2>2 DEF So
  <2> QED BY <2>1, <2>2, <2>3
<1>7. 0 \in 0..m /\ m \in 0..m /\ s \in S[0]
  BY <1>1, <1>3
<1> HIDE DEF S, m, Go, after, step
<1>8. ASSUME NEW n \in 1..m, NEW u \in S[n - 1] PROVE step[n][u] \in S[n]
  BY <1>6
<1>9. PICK f : Takes(f, m, s, step) /\ \A n \in 0..m : f[n] \in S[n]
  BY <1>1, <1>7, <1>8, WalkFits
<1>10. m \in Nat /\ \A n \in 1..m : step[n][f[n - 1]] = Go(n, f[n - 1])
  BY <1>1, <1>6, <1>9
<1>11. f = [n \in 0..m |-> IF n = 0 THEN s ELSE Go(n, f[n - 1])]
  <2>1. f = [n \in 0..m |-> IF n = 0 THEN s ELSE step[n][f[n - 1]]]
    BY <1>9 DEF Takes
  <2> QED BY <1>10, <2>1
<1>12. after = [n \in 0..m |-> IF n = 0 THEN s ELSE Go(n, after[n - 1])]
  BY <1>11, Zenon DEF after, Go
<1>13. after[0] = s /\ \A n \in 1..m : after[n] = Go(n, after[n - 1])
  BY <1>1, <1>12
<1>14. after[m] \in S[m]
  <2>1. \A n \in 1..m : after[n - 1] \in S[n - 1] => after[n] \in S[n]
    BY <1>6, <1>13
  <2> QED BY <1>7, <1>10, <1>13, <2>1, WalkStays
<1>15. So(m, after[m])
  BY <1>7, <1>14 DEF S
<1>16. Complete(after[m], r)
  BY <1>1, <1>15 DEF So, Done, Complete
<1> QED BY <1>2, <1>15, <1>16 DEF So

-----------------------------------------------------------------------------
(* What holds after n turns of a walk upstream from the runs of target.     *)

Climbed(target, n, u) ==
    /\ u \in Traces /\ target \subseteq u.seen /\ u.seen \subseteq target \cup u.found
    /\ \A r \in u.seen : r \in Queued(u) \/ u.truncated \/ Complete(u, r)
    /\ u.queue = <<>> \/ n + Len(u.queue) <= Cardinality(u.seen)

(* One more turn.                                                           *)
LEMMA TurnClimbs ==
    ASSUME RowsOfRuns, NEW target, NEW n \in Nat, NEW u, Climbed(target, n, u), NEW limit \in Nat
    PROVE  Climbed(target, n + 1, NextUpstream(u, limit)) /\ u.seen \subseteq NextUpstream(u, limit).seen
<1>1. CASE u.queue = <<>>
  <2>1. NextUpstream(u, limit) = u
    BY <1>1 DEF NextUpstream
  <2> QED BY <1>1, <2>1 DEF Climbed
<1>2. CASE u.queue # <<>>
  <2> DEFINE Q == [run : Runs, depth : Nat]
             h == Head(u.queue)
             s == [u EXCEPT !.queue = Tail(@)]
             r == h.run
             depth == h.depth + 1
             t == AddUpstream(s, r, depth, limit)
  <2>1. u \in Traces /\ u.queue \in Seq(Q)
    BY DEF Climbed, Traces
  <2>2. /\ h \in Q /\ Tail(u.queue) \in Seq(Q) /\ Len(Tail(u.queue)) = Len(u.queue) - 1
        /\ Len(u.queue) \in Nat \ {0} /\ h = u.queue[1]
        /\ \A k \in 1..(Len(u.queue) - 1) : Tail(u.queue)[k] = u.queue[k + 1]
    <3> HIDE DEF Q
    <3> QED BY <1>2, <2>1
  <2>3. /\ s \in Traces /\ s.queue = Tail(u.queue) /\ s.seen = u.seen /\ s.found = u.found
        /\ s.truncated = u.truncated
    BY <2>1, <2>2 DEF Traces
  <2>4. Queued(u) \subseteq Queued(s) \cup {r}
    <3> SUFFICES ASSUME NEW k \in DOMAIN u.queue PROVE u.queue[k].run \in Queued(s) \cup {r}
      BY DEF Queued
    <3>1. DOMAIN u.queue = 1..Len(u.queue) /\ DOMAIN s.queue = 1..(Len(u.queue) - 1)
      BY <2>1, <2>2, <2>3
    <3>2. CASE k = 1
      BY <2>2, <3>2
    <3>3. CASE k # 1
      <4>1. k - 1 \in 1..(Len(u.queue) - 1) /\ (k - 1) + 1 = k
        BY <2>2, <3>1, <3>3
      <4>2. s.queue[k - 1] = u.queue[k]
        BY <2>2, <2>3, <4>1
      <4> QED BY <3>1, <4>1, <4>2 DEF Queued
    <3> QED BY <3>2, <3>3
  <2>5. NextUpstream(u, limit) = t
    BY <1>2 DEF NextUpstream
  <2>6. depth \in Nat
    BY <2>2
  <2> HIDE DEF t, r, depth, h, s, Q
  <2>7. t \in Traces /\ Climbs(s, t) /\ Reports(s, t) /\ Complete(t, r)
    BY <2>3, <2>6, UpstreamClimbs DEF t
  <2>8. Len(t.queue) \in Nat /\ Cardinality(u.seen) \in Nat /\ Cardinality(t.seen) \in Nat
    BY <2>1, <2>7, RunsCount DEF Traces
  <2>9. t.queue = <<>> \/ n + 1 + Len(t.queue) <= Cardinality(t.seen)
    <3> DEFINE a == Len(t.queue)
               b == Cardinality(u.seen)
               c == Len(u.queue)
               d == Cardinality(t.seen)
    <3>1. n + c <= b
      BY <1>2 DEF Climbed
    <3>2. a + b <= (c - 1) + d
      BY <2>2, <2>3, <2>7 DEF Climbs
    <3>3. a \in Nat /\ b \in Nat /\ c \in Nat /\ d \in Nat
      BY <2>2, <2>8
    <3> HIDE DEF a, b, c, d
    <3>4. n + 1 + a <= d
      BY <3>1, <3>2, <3>3
    <3> QED BY <3>4 DEF a, d
  <2>10. target \subseteq t.seen /\ t.seen \subseteq target \cup t.found
    <3>1. target \subseteq s.seen /\ s.seen \subseteq target \cup s.found
      BY <2>3 DEF Climbed
    <3> QED BY <2>7, <3>1 DEF Climbs, Reports
  <2>11. ASSUME NEW x \in t.seen PROVE x \in Queued(t) \/ t.truncated \/ Complete(t, x)
    <3>1. CASE x \notin s.seen
      BY <2>7, <2>11, <3>1 DEF Reports
    <3>2. CASE x \in s.seen
      <4>1. x \in Queued(u) \/ u.truncated \/ Complete(u, x)
        BY <2>3, <3>2 DEF Climbed
      <4>2. CASE x \in Queued(u)
        BY <2>4, <2>7, <4>2 DEF Climbs
      <4>3. CASE u.truncated
        BY <2>3, <2>7, <4>3 DEF Climbs
      <4>4. CASE Complete(u, x)
        BY <2>3, <2>7, <4>4 DEF Climbs, Complete
      <4> QED BY <4>1, <4>2, <4>3, <4>4
    <3> QED BY <3>1, <3>2
  <2>12. Climbed(target, n + 1, t)
    BY <2>7, <2>9, <2>10, <2>11 DEF Climbed
  <2> QED BY <2>3, <2>5, <2>7, <2>12 DEF Climbs
<1> QED BY <1>1, <1>2

(* Every turn takes a run from the queue, which is in it once; so after as  *)
(* many turns as there are runs there is nothing left to look at.           *)
LEMMA TraceCloses ==
    ASSUME RowsOfRuns, NEW target, NEW seed, Climbed(target, 0, seed), NEW limit \in Nat
    PROVE  LET t == TraceFrom(seed, limit)
           IN  /\ seed.seen \subseteq t.seen /\ t.seen \subseteq target \cup t.found
               /\ t.truncated \in BOOLEAN
               /\ ~t.truncated => \A r \in t.seen : Complete(t, r)
<1> DEFINE m == Len(runs)
           walk[n \in 0..m] == IF n = 0 THEN seed ELSE NextUpstream(walk[n - 1], limit)
           step == [n \in 1..m |-> [u \in Traces |-> NextUpstream(u, limit)]]
           S == [n \in 0..m |-> {u \in Traces : Climbed(target, n, u) /\ seed.seen \subseteq u.seen}]
<1>1. m \in Nat
  BY DEF RowsOfRuns
<1>2. TraceFrom(seed, limit) = walk[m]
  BY DEF TraceFrom
<1>3. 0 \in 0..m /\ m \in 0..m /\ seed \in S[0]
  BY <1>1 DEF Climbed
<1>4. \A n \in 1..m : \A u \in S[n - 1] : step[n][u] = NextUpstream(u, limit) /\ NextUpstream(u, limit) \in S[n]
  <2> SUFFICES ASSUME NEW n \in 1..m, NEW u \in S[n - 1]
               PROVE  step[n][u] = NextUpstream(u, limit) /\ NextUpstream(u, limit) \in S[n]
    OBVIOUS
  <2>1. n - 1 \in 0..m /\ n \in 0..m /\ n - 1 \in Nat /\ (n - 1) + 1 = n
    BY <1>1
  <2>2. u \in Traces /\ Climbed(target, n - 1, u) /\ seed.seen \subseteq u.seen
    BY <2>1
  <2>3. Climbed(target, n, NextUpstream(u, limit)) /\ seed.seen \subseteq NextUpstream(u, limit).seen
    <3>1. PICK k \in Nat : k = n - 1
      BY <2>1
    <3>2. Climbed(target, k + 1, NextUpstream(u, limit)) /\ u.seen \subseteq NextUpstream(u, limit).seen
      BY <2>2, <3>1, TurnClimbs
    <3> QED BY <2>1, <2>2, <3>1, <3>2
  <2>4. NextUpstream(u, limit) \in Traces
    BY <2>3 DEF Climbed
  <2> QED BY <2>1, <2>2, <2>3, <2>4
<1> HIDE DEF S, m, walk, step
<1>5. ASSUME NEW n \in 1..m, NEW u \in S[n - 1] PROVE step[n][u] \in S[n]
  BY <1>4
<1>6. PICK f : Takes(f, m, seed, step) /\ \A n \in 0..m : f[n] \in S[n]
  BY <1>1, <1>3, <1>5, WalkFits
<1>7. \A n \in 1..m : step[n][f[n - 1]] = NextUpstream(f[n - 1], limit)
  BY <1>1, <1>4, <1>6
<1>8. f = [n \in 0..m |-> IF n = 0 THEN seed ELSE NextUpstream(f[n - 1], limit)]
  BY <1>1, <1>6, <1>7 DEF Takes
<1>9. walk = [n \in 0..m |-> IF n = 0 THEN seed ELSE NextUpstream(walk[n - 1], limit)]
  BY <1>8, Zenon DEF walk
<1>10. walk[0] = seed /\ \A n \in 1..m : walk[n] = NextUpstream(walk[n - 1], limit)
  BY <1>1, <1>9
<1>11. walk[m] \in S[m]
  BY <1>1, <1>3, <1>4, <1>10, WalkStays
<1>12. PICK t : t = walk[m]
  OBVIOUS
<1>13. Climbed(target, m, t) /\ seed.seen \subseteq t.seen
  BY <1>3, <1>11, <1>12 DEF S
<1>14. t.queue = <<>>
  <2> SUFFICES ASSUME t.queue # <<>> PROVE FALSE
    OBVIOUS
  <2>1. t.seen \subseteq Runs /\ t.queue \in Seq([run : Runs, depth : Nat])
    BY <1>13 DEF Climbed, Traces
  <2>2. Cardinality(t.seen) \in Nat /\ Cardinality(t.seen) <= m
    BY <2>1, RunsCount DEF m
  <2>3. m + Len(t.queue) <= Cardinality(t.seen)
    BY <1>13 DEF Climbed
  <2>4. Len(t.queue) \in Nat /\ Len(t.queue) # 0
    BY <2>1
  <2> QED BY <1>1, <2>2, <2>3, <2>4
<1>15. Queued(t) = {}
  BY <1>14 DEF Queued
<1>16. ~t.truncated => \A r \in t.seen : Complete(t, r)
  BY <1>13, <1>15 DEF Climbed
<1>17. t.seen \subseteq target \cup t.found /\ t.truncated \in BOOLEAN
  BY <1>13 DEF Climbed, Traces
<1> QED BY <1>2, <1>12, <1>13, <1>16, <1>17

-----------------------------------------------------------------------------
(* What rows of a file say that nobody disturbed its run at.  An input is   *)
(* what the run read of it; a product is what every run has read that read  *)
(* the file as this run left it, and is still there if the file is so.      *)

RowTells(row) ==
    row.path \in Files /\ Clean(row.run, row.path) =>
      IF row.role = "input" THEN row.hash = runs[row.run].read[row.path]
      ELSE /\ \A q \in Runs : runs[q].from[row.path] = row.run => runs[q].read[row.path] = row.hash
           /\ origin[row.path] = row.run => file[row.path] = row.hash

RowsTell == \A k \in DOMAIN observed : RowTells(observed[k])

(* A walk that has seen all that q's inputs may come from has seen whom q   *)
(* read from,                                                               *)
LEMMA ReadFromIsSeen ==
    ASSUME RowsTell, NEW q \in Runs, NEW r, ReadFrom(q, r), NEW t, Complete(t, q)
    PROVE  r \in t.seen
<1>1. PICK p \in Files : /\ runs[q].from[p] = r
                         /\ Clean(q, p) /\ Saw(q, p) /\ Clean(r, p) /\ Made(r, p)
  BY DEF ReadFrom
<1>2. PICK i \in InputsOfRun(q) : observed[i].path = p
  BY <1>1 DEF Saw
<1>3. PICK k \in ProducedBy(r) : observed[k].path = p
  BY <1>1 DEF Made
<1>4. /\ i \in DOMAIN observed /\ observed[i].role = "input" /\ observed[i].run = q
      /\ k \in DOMAIN observed /\ observed[k].role # "input" /\ observed[k].run = r
  BY <1>2, <1>3 DEF InputsOfRun, ProducedBy, OfRun
<1>5. observed[i].hash = runs[q].read[p]
  BY <1>1, <1>2, <1>4 DEF RowsTell, RowTells
<1>6. observed[k].hash = runs[q].read[p]
  BY <1>1, <1>3, <1>4 DEF RowsTell, RowTells
<1>7. k \in ProducedAt(observed[i].path) /\ ~Differ(observed[i].hash, observed[k].hash)
  BY <1>2, <1>3, <1>4, <1>5, <1>6 DEF ProducedAt, OfPath, Differ
<1> QED BY <1>2, <1>4, <1>7 DEF Complete

(* and one that does so for all that it has seen has seen all that is       *)
(* upstream.                                                                *)
LEMMA UpstreamIsSeen ==
    ASSUME RowsOfRuns, RowsTell, NEW q \in Runs, NEW t, q \in t.seen,
           \A r \in t.seen : Complete(t, r)
    PROVE  ReallyUpstream(q) \subseteq t.seen \ {q}
<1> DEFINE m == Len(runs)
           seed == {q}
           More(x) == x \cup {r \in Runs : \E y \in x : ReadFrom(y, r)}
           up[n \in 0..m] == IF n = 0 THEN {q}
                             ELSE LET x == up[n - 1] IN x \cup {r \in Runs : \E y \in x : ReadFrom(y, r)}
           known == t.seen \cap Runs
           step == [n \in 1..m |-> [x \in SUBSET known |-> More(x)]]
           S == [n \in 0..m |-> SUBSET known]
<1>1. m \in Nat /\ 0 \in 0..m /\ m \in 0..m
  BY DEF RowsOfRuns
<1>2. ReallyUpstream(q) = up[m] \ {q}
  BY DEF ReallyUpstream
<1>3. seed \in SUBSET known
  OBVIOUS
<1>4. ASSUME NEW x \in SUBSET known PROVE More(x) \in SUBSET known
  <2>1. ASSUME NEW r \in Runs, NEW y \in x, ReadFrom(y, r) PROVE r \in known
    BY <2>1, ReadFromIsSeen
  <2> QED BY <2>1
<1> HIDE DEF m, seed, More, up, known
<1>5. ASSUME NEW n \in 1..m PROVE S[n - 1] = SUBSET known /\ S[n] = SUBSET known
  BY <1>1
<1>6. seed \in S[0] /\ S[m] = SUBSET known
  BY <1>1, <1>3
<1>7. \A n \in 1..m : \A x \in SUBSET known : step[n][x] = More(x)
  OBVIOUS
<1> HIDE DEF S, step
<1>8. ASSUME NEW n \in 1..m, NEW x \in S[n - 1] PROVE step[n][x] \in S[n]
  BY <1>4, <1>5, <1>7
<1>9. PICK f : Takes(f, m, seed, step) /\ \A n \in 0..m : f[n] \in S[n]
  BY <1>1, <1>6, <1>8, WalkFits
<1>10. \A n \in 1..m : step[n][f[n - 1]] = More(f[n - 1])
  <2> SUFFICES ASSUME NEW n \in 1..m PROVE step[n][f[n - 1]] = More(f[n - 1])
    OBVIOUS
  <2>1. n - 1 \in 0..m
    BY <1>1
  <2>2. f[n - 1] \in SUBSET known
    BY <1>5, <1>9, <2>1
  <2> QED BY <1>7, <2>2
<1>11. f = [n \in 0..m |-> IF n = 0 THEN seed ELSE More(f[n - 1])]
  BY <1>1, <1>9, <1>10 DEF Takes
<1>12. up = [n \in 0..m |-> IF n = 0 THEN seed ELSE More(up[n - 1])]
  BY <1>11, Zenon DEF up, seed, More
<1>13. up[0] = seed /\ \A n \in 1..m : up[n] = More(up[n - 1])
  BY <1>1, <1>12
<1>14. ASSUME NEW n \in 1..m, up[n - 1] \in S[n - 1] PROVE up[n] \in S[n]
  BY <1>4, <1>5, <1>13, <1>14
<1>15. up[m] \in S[m]
  BY <1>1, <1>6, <1>13, <1>14, WalkStays
<1> QED BY <1>2, <1>6, <1>15 DEF known

(* A trace that starts at a run.                                            *)
LEMMA RunIsTraced ==
    ASSUME RowsOfRuns, NEW q \in Runs, NEW limit \in Nat
    PROVE  LET t == TraceRun(q, limit)
           IN  /\ q \in t.seen /\ t.seen \subseteq {q} \cup t.found /\ t.truncated \in BOOLEAN
               /\ ~t.truncated => \A r \in t.seen : Complete(t, r)
<1> DEFINE s == Traced({q})
           seed == AddUpstream(s, q, 1, limit)
<1>1. /\ s \in Traces /\ s.seen = {q} /\ s.queue = <<>> /\ Len(s.queue) = 0
  BY DEF Traced, Traces
<1>2. Cardinality({q}) = 1
  BY FS_Singleton
<1> HIDE DEF s
<1>3. seed \in Traces /\ Climbs(s, seed) /\ Reports(s, seed) /\ Complete(seed, q)
  BY <1>1, UpstreamClimbs
<1>4. TraceRun(q, limit) = TraceFrom(seed, limit)
  BY DEF TraceRun, s
<1> HIDE DEF seed
<1>5. Len(seed.queue) \in Nat /\ Cardinality(seed.seen) \in Nat
  BY <1>3, RunsCount DEF Traces
<1>6. 0 + Len(seed.queue) <= Cardinality(seed.seen)
  <2>1. Len(seed.queue) + Cardinality(s.seen) <= Len(s.queue) + Cardinality(seed.seen)
    BY <1>3 DEF Climbs
  <2> QED BY <1>1, <1>2, <1>5, <2>1
<1>7. {q} \subseteq seed.seen /\ seed.seen \subseteq {q} \cup seed.found
  BY <1>1, <1>3 DEF Climbs, Reports
<1>8. ASSUME NEW r \in seed.seen PROVE r \in Queued(seed) \/ seed.truncated \/ Complete(seed, r)
  BY <1>1, <1>3, <1>8 DEF Reports
<1>9. Climbed({q}, 0, seed)
  BY <1>3, <1>6, <1>7, <1>8 DEF Climbed
<1>10. PICK target : target = {q}
  OBVIOUS
<1>11. LET t == TraceFrom(seed, limit)
       IN  /\ seed.seen \subseteq t.seen /\ t.seen \subseteq target \cup t.found
           /\ t.truncated \in BOOLEAN
           /\ ~t.truncated => \A r \in t.seen : Complete(t, r)
  BY <1>9, <1>10, TraceCloses
<1> QED BY <1>4, <1>7, <1>10, <1>11

(* A trace that starts at a file sees every run that left it as it is.      *)
LEMMA PathIsTraced ==
    ASSUME RowsOfRuns, NEW p, NEW limit \in Nat
    PROVE  LET t == TracePath(p, limit)
           IN  /\ t.seen \subseteq t.found /\ t.truncated \in BOOLEAN
               /\ \A k \in ProducedAt(p) : ~Differ(file[p], observed[k].hash) => observed[k].run \in t.seen
               /\ ~t.truncated => \A r \in t.seen : Complete(t, r)
<1> DEFINE s == Traced({})
           outputs == {k \in ProducedAt(p) : observed[k].role = "output"}
           others == ProducedAt(p) \ outputs
           hash == Snapshot(p)
           first == AddProducers(s, outputs, hash, 1, limit)
           seed == AddProducers(first, others, hash, 1, limit)
<1>1. s \in Traces /\ s.seen = {} /\ Len(s.queue) = 0
  BY DEF Traced, Traces
<1>2. outputs \subseteq DOMAIN observed /\ others \subseteq DOMAIN observed
      /\ ProducedAt(p) = outputs \cup others
  BY DEF ProducedAt, OfPath
<1>3. TracePath(p, limit) = TraceFrom(seed, limit)
  BY DEF TracePath
<1> HIDE DEF s, outputs, others, hash
<1>4. /\ first \in Traces /\ Climbs(s, first) /\ Reports(s, first)
      /\ \A k \in outputs : ~Differ(hash, observed[k].hash) => observed[k].run \in first.seen
  BY <1>1, <1>2, ProducersClimb
<1> HIDE DEF first
<1>5. /\ seed \in Traces /\ Climbs(first, seed) /\ Reports(first, seed)
      /\ \A k \in others : ~Differ(hash, observed[k].hash) => observed[k].run \in seed.seen
  BY <1>2, <1>4, ProducersClimb
<1> HIDE DEF seed
<1>6. Climbs(s, seed) /\ Reports(s, seed)
  BY <1>1, <1>4, <1>5, ClimbsOn
<1>7. \A k \in ProducedAt(p) : ~Differ(file[p], observed[k].hash) => observed[k].run \in seed.seen
  BY <1>2, <1>4, <1>5 DEF Climbs, hash, Snapshot
<1>8. Len(seed.queue) \in Nat /\ Cardinality(seed.seen) \in Nat /\ Cardinality({}) = 0
  BY <1>5, RunsCount, FS_EmptySet DEF Traces
<1>9. 0 + Len(seed.queue) <= Cardinality(seed.seen)
  <2>1. Len(seed.queue) + Cardinality(s.seen) <= Len(s.queue) + Cardinality(seed.seen)
    BY <1>6 DEF Climbs
  <2> QED BY <1>1, <1>8, <2>1
<1>10. seed.seen \subseteq seed.found
  BY <1>1, <1>6 DEF Reports
<1>11. ASSUME NEW r \in seed.seen PROVE r \in Queued(seed) \/ seed.truncated \/ Complete(seed, r)
  BY <1>1, <1>6, <1>11 DEF Reports
<1>12. Climbed({}, 0, seed)
  BY <1>5, <1>9, <1>10, <1>11 DEF Climbed
<1>13. LET t == TraceFrom(seed, limit)
       IN  /\ seed.seen \subseteq t.seen /\ t.seen \subseteq {} \cup t.found
           /\ t.truncated \in BOOLEAN
           /\ ~t.truncated => \A r \in t.seen : Complete(t, r)
  BY <1>12, TraceCloses
<1> QED BY <1>3, <1>7, <1>13

(* What any table says whose rows tell what happened.                       *)
LEMMA TableTraces ==
    ASSUME WorktreeFits, RowsOfRuns, RowsTell,
           \A p \in Files : origin[p] # User => origin[p] \in Runs
    PROVE  TraceFindsProducers
<1>1. \A l \in Limits : l.depth \in Nat
  BY DEF WorktreeFits
<1>2. ASSUME NEW q \in Runs, NEW r \in ReallyUpstream(q), NEW l \in Limits
      PROVE  LET t == TraceRun(q, l.depth) IN r \in t.found \/ t.truncated
  <2>1. PICK t : t = TraceRun(q, l.depth)
    OBVIOUS
  <2>2. /\ q \in t.seen /\ t.seen \subseteq {q} \cup t.found /\ t.truncated \in BOOLEAN
        /\ ~t.truncated => \A x \in t.seen : Complete(t, x)
    BY <1>1, <2>1, RunIsTraced
  <2>3. CASE ~t.truncated
    <3>1. r \in t.seen \ {q}
      BY <2>2, <2>3, UpstreamIsSeen
    <3> QED BY <2>1, <2>2, <3>1
  <2> QED BY <2>1, <2>2, <2>3
<1>3. ASSUME NEW p \in Files, NEW l \in Limits, origin[p] # User, Clean(origin[p], p), Made(origin[p], p),
             ~TracePath(p, l.depth).truncated
      PROVE  {origin[p]} \cup ReallyUpstream(origin[p]) \subseteq TracePath(p, l.depth).found
  <2>1. PICK t : t = TracePath(p, l.depth)
    OBVIOUS
  <2>2. /\ t.seen \subseteq t.found
        /\ \A k \in ProducedAt(p) : ~Differ(file[p], observed[k].hash) => observed[k].run \in t.seen
        /\ \A r \in t.seen : Complete(t, r)
    BY <1>1, <1>3, <2>1, PathIsTraced
  <2>3. PICK k \in ProducedBy(origin[p]) : observed[k].path = p
    BY <1>3 DEF Made
  <2>4. k \in DOMAIN observed /\ observed[k].role # "input" /\ observed[k].run = origin[p]
    BY <2>3 DEF ProducedBy, OfRun
  <2>5. observed[k].hash = file[p]
    BY <1>3, <2>3, <2>4 DEF RowsTell, RowTells
  <2>6. k \in ProducedAt(p) /\ ~Differ(file[p], observed[k].hash)
    BY <2>3, <2>4, <2>5 DEF ProducedAt, OfPath, Differ
  <2>7. origin[p] \in t.seen /\ origin[p] \in Runs
    BY <1>3, <2>2, <2>4, <2>6
  <2>8. ReallyUpstream(origin[p]) \subseteq t.seen
    BY <2>2, <2>7, UpstreamIsSeen
  <2> QED BY <2>1, <2>2, <2>7, <2>8
<1> QED BY <1>2, <1>3 DEF TraceFindsProducers

-----------------------------------------------------------------------------
(* The rows tell what happened.  What a job has written down of a file that *)
(* nobody disturbed since it began is what its run read, or what the file   *)
(* still is; and whoever has read the file as this run left it has read     *)
(* what it is (StillAsLeft).                                                *)

IsSequence(s) == s \in Seq(Range(s))

(* Whoever has read a file as the run of j left it has read what it still   *)
(* is.                                                                      *)
StillAsLeft(j) ==
    \A p \in Files \ j.disturbed : \A q \in Runs :
      runs[q].from[p] = j.run => runs[q].read[p] = file[p]

(* What a job has written down, before and after its command.               *)
JobTells(j) ==
    /\ j.cmd \in Commands
    /\ j.pc = "execute" =>
         /\ {"inputs", "before"} \subseteq DOMAIN j /\ IsSequence(j.inputs)
         /\ \A p \in Files \ j.disturbed : j.before[p] = file[p]
    /\ j.pc = "observe" =>
         /\ {"inputs", "before"} \subseteq DOMAIN j /\ IsSequence(j.inputs)
         /\ StillAsLeft(j)
         /\ \A p \in Files \ j.disturbed : j.before[p] = runs[j.run].read[p]
    /\ j.pc = "record" =>
         /\ {"rows", "delta", "replayed"} \subseteq DOMAIN j /\ IsSequence(j.rows) /\ IsSequence(j.delta)
         /\ \A x \in Range(j.rows) : x.run = j.run
         /\ ~j.replayed =>
              /\ StillAsLeft(j)
              /\ \A x \in Range(j.rows) : x.path \in Files \ j.disturbed =>
                   x.hash = IF x.role = "input" THEN runs[j.run].read[x.path] ELSE file[x.path]

JobsTell == \A w \in Workers : job[w] = Idle \/ JobTells(job[w])

(* Who may have written a file.                                             *)
Origins == {User} \cup Runs

(* Files, and what runs have read, come from the user or from runs.         *)
PastFits ==
    /\ DOMAIN origin = Files /\ \A p \in Files : origin[p] \in Origins
    /\ \A r \in Runs :
         /\ {"cmd", "from"} \subseteq DOMAIN runs[r] /\ runs[r].cmd \in Commands
         /\ \A p \in Files : runs[r].from[p] \in Origins

(* A row has the receipt of its run, and a receipt has its run.             *)
RecordsFit ==
    /\ IsSequence(observed)
    /\ DOMAIN recorded \subseteq Runs
    /\ \A x \in Range(observed) : x.run \in DOMAIN recorded

(* The invariant about what the rows tell.                                  *)
TableIInv ==
    /\ PastFits
    /\ RecordsFit
    /\ RowsTell
    /\ JobsTell

(* Sequences of rows.                                                       *)
LEMMA SequenceIs == \A S, s : s \in Seq(S) => IsSequence(s) /\ Range(s) \subseteq S
<1> SUFFICES ASSUME NEW S, NEW s \in Seq(S) PROVE IsSequence(s) /\ Range(s) \subseteq S
  OBVIOUS
<1>1. Len(s) \in Nat /\ DOMAIN s = 1..Len(s) /\ s = [i \in 1..Len(s) |-> s[i]]
  OBVIOUS
<1>2. Range(s) \subseteq S /\ \A i \in 1..Len(s) : s[i] \in Range(s)
  BY <1>1 DEF Range
<1> QED BY <1>1, <1>2 DEF IsSequence

(* Two after each other.                                                    *)
LEMMA Joined ==
    ASSUME NEW s, NEW t, IsSequence(s), IsSequence(t)
    PROVE  IsSequence(s \o t) /\ Range(s \o t) \subseteq Range(s) \cup Range(t)
<1> DEFINE S == Range(s) \cup Range(t)
<1>1. /\ Len(s) \in Nat /\ DOMAIN s = 1..Len(s) /\ s = [i \in 1..Len(s) |-> s[i]]
      /\ \A i \in 1..Len(s) : s[i] \in S
  BY DEF IsSequence, Range
<1>2. /\ Len(t) \in Nat /\ DOMAIN t = 1..Len(t) /\ t = [i \in 1..Len(t) |-> t[i]]
      /\ \A i \in 1..Len(t) : t[i] \in S
  BY DEF IsSequence, Range
<1> HIDE DEF S
<1>3. s \in Seq(S) /\ t \in Seq(S)
  BY <1>1, <1>2
<1>4. s \o t \in Seq(S)
  BY <1>3
<1> QED BY <1>4, SequenceIs DEF S

(* The rows that are made of a list of files.                               *)
LEMMA RowsAre ==
    ASSUME NEW r, NEW role, NEW paths, NEW hash, IsSequence(paths)
    PROVE  /\ IsSequence(Rows(r, role, paths, hash))
           /\ \A x \in Range(Rows(r, role, paths, hash)) :
                x.run = r /\ x.role = role /\ x.hash = hash[x.path]
<1> DEFINE rows == Rows(r, role, paths, hash)
<1>1. Len(paths) \in Nat /\ DOMAIN paths = 1..Len(paths)
  BY DEF IsSequence
<1>2. rows = [i \in 1..Len(paths) |-> Row(r, role, paths[i], hash[paths[i]])]
  BY <1>1 DEF Rows
<1>3. rows \in Seq(Range(rows))
  <2>1. DOMAIN rows = 1..Len(paths) /\ \A i \in 1..Len(paths) : rows[i] \in Range(rows)
    BY <1>2 DEF Range
  <2>2. rows = [i \in 1..Len(paths) |-> rows[i]]
    BY <1>2
  <2> HIDE DEF rows
  <2> QED BY <1>1, <2>1, <2>2
<1>4. ASSUME NEW x \in Range(rows) PROVE x.run = r /\ x.role = role /\ x.hash = hash[x.path]
  <2>1. PICK i \in 1..Len(paths) : x = Row(r, role, paths[i], hash[paths[i]])
    BY <1>2 DEF Range
  <2> QED BY <2>1 DEF Row
<1> QED BY <1>3, <1>4 DEF IsSequence

-----------------------------------------------------------------------------
(* What a step that writes files ps leaves of the past.  A run that it adds *)
(* has read the files as they were.                                         *)
PastKept(ps) ==
    /\ \A p \in Files \ ps : file'[p] = file[p] /\ origin'[p] = origin[p]
    /\ \A p \in Files \cap ps : origin'[p] \notin Runs
    /\ \A r \in Runs : /\ r \in Runs'
                       /\ runs'[r].read = runs[r].read /\ runs'[r].from = runs[r].from
                       /\ r \in DOMAIN recorded => runs'[r].quiet = runs[r].quiet
    /\ \A q \in Runs' \ Runs : \A p \in Files :
         runs'[q].read[p] = file[p] /\ runs'[q].from[p] = origin[p]

(* A file that this step did not write is as it was left.                   *)
LEMMA StillAsLeftKept ==
    ASSUME NEW ps, PastKept(ps), NEW j, StillAsLeft(j), NEW k, k.run = j.run,
           k.disturbed = j.disturbed \cup ps
    PROVE  StillAsLeft(k)'
<1> SUFFICES ASSUME NEW p \in Files \ k.disturbed, NEW q \in Runs', runs'[q].from[p] = k.run
             PROVE  runs'[q].read[p] = file'[p]
  BY DEF StillAsLeft, Files
<1>1. p \in Files \ j.disturbed /\ p \in Files \ ps
  OBVIOUS
<1>2. CASE q \in Runs
  BY <1>1, <1>2 DEF StillAsLeft, PastKept
<1>3. CASE q \notin Runs
  BY <1>1, <1>3 DEF PastKept
<1> QED BY <1>2, <1>3

(* A job goes on telling, of fewer files.                                   *)
LEMMA JobStillTells ==
    ASSUME NEW ps, PastKept(ps), NEW j, JobFits(j), JobTells(j),
           NEW k, k = [j EXCEPT !.disturbed = @ \cup ps] \/ (k = j /\ ps = {})
    PROVE  JobTells(k)'
<1>1. /\ DOMAIN k = DOMAIN j /\ k.pc = j.pc /\ k.cmd = j.cmd /\ k.disturbed = j.disturbed \cup ps
      /\ k.pc \in {"observe", "record", "check"} => k.run = j.run /\ j.run \in Runs
  BY DEF JobFits, Runs
<1>2. \A p \in Files \ k.disturbed : p \in Files \ j.disturbed /\ file'[p] = file[p]
  BY <1>1 DEF PastKept
<1>3. CASE j.pc = "execute"
  <2>1. {"inputs", "before"} \subseteq DOMAIN j
    BY <1>3 DEF JobTells
  <2>2. k.inputs = j.inputs /\ k.before = j.before
    BY <2>1
  <2> QED BY <1>1, <1>2, <1>3, <2>1, <2>2 DEF JobTells, Files
<1>4. CASE j.pc = "observe"
  <2>1. {"inputs", "before"} \subseteq DOMAIN j
    BY <1>4 DEF JobTells
  <2>2. k.inputs = j.inputs /\ k.before = j.before
    BY <2>1
  <2>3. StillAsLeft(k)'
    BY <1>1, <1>4, StillAsLeftKept DEF JobTells
  <2>4. runs'[j.run].read = runs[j.run].read
    BY <1>1, <1>4 DEF PastKept
  <2>5. \A p \in Files \ k.disturbed : k.before[p] = runs'[k.run].read[p]
    BY <1>1, <1>2, <1>4, <2>2, <2>4 DEF JobTells
  <2> QED BY <1>1, <1>4, <2>1, <2>2, <2>3, <2>5 DEF JobTells, Files
<1>5. CASE j.pc = "record"
  <2>1. {"rows", "delta", "replayed"} \subseteq DOMAIN j
    BY <1>5 DEF JobTells
  <2>2. k.rows = j.rows /\ k.delta = j.delta /\ k.replayed = j.replayed
    BY <2>1
  <2>3. runs'[j.run].read = runs[j.run].read
    BY <1>1, <1>5 DEF PastKept
  <2>4. ASSUME ~k.replayed PROVE StillAsLeft(k)'
    BY <1>1, <1>5, <2>2, <2>4, StillAsLeftKept DEF JobTells
  <2>5. ASSUME ~k.replayed, NEW x \in Range(k.rows), x.path \in Files \ k.disturbed
        PROVE  x.hash = IF x.role = "input" THEN runs'[k.run].read[x.path] ELSE file'[x.path]
    BY <1>1, <1>2, <1>5, <2>2, <2>3, <2>5 DEF JobTells
  <2> QED BY <1>1, <1>5, <2>1, <2>2, <2>4, <2>5 DEF JobTells, Files
<1> QED BY <1>1, <1>3, <1>4, <1>5 DEF JobTells

(* The workers but w, when it, or the user, writes files ps.                *)
LEMMA OthersStillTell ==
    ASSUME EvidenceIInv, TableIInv, NEW w, NEW ps, PastKept(ps), NEW v \in Workers, v # w,
           \/ job'[v] = IF job[v] = Idle THEN job[v] ELSE [job[v] EXCEPT !.disturbed = @ \cup ps]
           \/ job'[v] = job[v] /\ ps = {}
    PROVE  job'[v] = Idle \/ JobTells(job[v])'
<1> PICK j, k : j = job[v] /\ k = job'[v]
  OBVIOUS
<1>1. j = Idle \/ (JobFits(j) /\ JobTells(j))
  BY DEF EvidenceIInv, JobsFit, TableIInv, JobsTell
<1>2. CASE j = Idle
  BY <1>2
<1>3. CASE j # Idle
  <2>1. k = [j EXCEPT !.disturbed = @ \cup ps] \/ (k = j /\ ps = {})
    BY <1>3
  <2>2. JobTells(k)'
    BY <1>1, <1>3, <2>1, JobStillTells
  <2> QED BY <2>2 DEF JobTells, StillAsLeft
<1> QED BY <1>2, <1>3

(* Rows that are there go on telling the truth.                             *)
LEMMA RowStillTells ==
    ASSUME TableIInv, NEW ps, PastKept(ps), NEW x \in Range(observed),
           recorded'[x.run] = recorded[x.run]
    PROVE  RowTells(x)'
<1>1. x.run \in DOMAIN recorded /\ x.run \in Runs /\ RowTells(x)
  BY DEF TableIInv, RecordsFit, RowsTell, Range
<1> SUFFICES ASSUME x.path \in Files, Clean(x.run, x.path)'
             PROVE  IF x.role = "input" THEN x.hash = runs'[x.run].read[x.path]
                    ELSE /\ \A q \in Runs' : runs'[q].from[x.path] = x.run => runs'[q].read[x.path] = x.hash
                         /\ origin'[x.path] = x.run => file'[x.path] = x.hash
  BY DEF RowTells, Files
<1>2. Clean(x.run, x.path)
  BY <1>1 DEF Clean, PastKept
<1>3. CASE x.role = "input"
  BY <1>1, <1>2, <1>3 DEF RowTells, PastKept
<1>4. CASE x.role # "input"
  <2>1. /\ \A q \in Runs : runs[q].from[x.path] = x.run => runs[q].read[x.path] = x.hash
        /\ origin[x.path] = x.run => file[x.path] = x.hash
    BY <1>1, <1>2, <1>4 DEF RowTells
  <2>2. ASSUME NEW q \in Runs', runs'[q].from[x.path] = x.run PROVE runs'[q].read[x.path] = x.hash
    <3>1. CASE q \in Runs
      BY <2>1, <2>2, <3>1 DEF PastKept
    <3>2. CASE q \notin Runs
      BY <2>1, <2>2, <3>2 DEF PastKept
    <3> QED BY <3>1, <3>2
  <2>3. ASSUME origin'[x.path] = x.run PROVE file'[x.path] = x.hash
    <3>1. x.path \notin ps
      BY <1>1, <2>3 DEF PastKept
    <3> QED BY <2>1, <2>3, <3>1 DEF PastKept
  <2> QED BY <1>4, <2>2, <2>3
<1> QED BY <1>3, <1>4

(* All rows go on telling.                                                  *)
LEMMA RowsStillTell ==
    ASSUME TableIInv, NEW ps, PastKept(ps), observed' = observed, recorded' = recorded
    PROVE  RowsTell' /\ RecordsFit'
<1>1. ASSUME NEW k \in DOMAIN observed PROVE RowTells(observed[k])'
  <2>1. PICK x \in Range(observed) : x = observed[k]
    BY DEF Range
  <2>2. RowTells(x)'
    BY RowStillTells
  <2> QED BY <2>1, <2>2 DEF RowTells, Clean
<1>2. RowsTell'
  BY <1>1 DEF RowsTell
<1>3. RecordsFit'
  BY DEF TableIInv, RecordsFit, PastKept
<1> QED BY <1>2, <1>3

(* A step in which one worker goes on and nothing is written or recorded.   *)
LEMMA QuietTells ==
    ASSUME EvidenceIInv, TableIInv, NEW w \in Workers, NEW next, job' = [job EXCEPT ![w] = next],
           UNCHANGED <<file, runs, observed, recorded, origin>>,
           next = Idle \/ JobTells(next)
    PROVE  TableIInv'
<1>1. PastKept({})
  BY DEF PastKept, Runs
<1>2. RowsTell' /\ RecordsFit'
  BY <1>1, RowsStillTell
<1>3. PastFits'
  BY DEF TableIInv, PastFits, Runs, Origins, Files
<1>4. DOMAIN job = Workers
  BY DEF EvidenceIInv, JobsFit
<1>5. ASSUME NEW v \in Workers PROVE job'[v] = Idle \/ JobTells(job[v])'
  <2>1. CASE v = w
    <3>1. job'[v] = next
      BY <1>4, <2>1
    <3> QED BY <3>1 DEF JobTells, StillAsLeft, Runs
  <2>2. CASE v # w
    <3>1. job'[v] = job[v]
      BY <1>4, <2>2
    <3> QED BY <1>1, <2>2, <3>1, OthersStillTell
  <2> QED BY <2>1, <2>2
<1>6. JobsTell'
  BY <1>5 DEF JobsTell
<1> QED BY <1>2, <1>3, <1>6 DEF TableIInv

(* What is captured is what is there.                                       *)
LEMMA CapturedTells ==
    ASSUME NEW cmd \in Commands, NEW pinned, NEW inputs, IsSequence(inputs), NEW disturbed, NEW next,
           next = Captured(cmd, pinned, inputs, disturbed)
    PROVE  next = Idle \/ JobTells(next)
<1>1. CASE next # Idle
  <2>1. next = [pc |-> "execute", cmd |-> cmd, pinned |-> pinned, disturbed |-> disturbed,
                inputs |-> inputs, before |-> file]
    BY <1>1 DEF Captured
  <2> QED BY <2>1 DEF JobTells
<1> QED BY <1>1

(* The user edits.                                                          *)
LEMMA EditTells ==
    ASSUME EvidenceIInv, TableIInv, NEW p \in Files, NEW c, Edit(p, c)
    PROVE  TableIInv'
<1>1. /\ job' = Disturb(job, None, {p}) /\ file' = [file EXCEPT ![p] = c]
      /\ origin' = [origin EXCEPT ![p] = User]
      /\ runs' = runs /\ observed' = observed /\ recorded' = recorded
  BY DEF Edit
<1>2. None \notin Workers /\ DOMAIN file = Files /\ User \notin Runs
  BY DEF EvidenceIInv, WorktreeFits, RunsFit, Runs
<1>3. \A q \in Files \ {p} : file'[q] = file[q] /\ origin'[q] = origin[q]
  BY <1>1
<1>4. DOMAIN origin = Files
  BY DEF TableIInv, PastFits
<1>5. origin'[p] = User /\ DOMAIN origin' = Files
  BY <1>1, <1>4
<1>6. PastKept({p})
  BY <1>1, <1>2, <1>3, <1>5 DEF PastKept, Runs
<1>7. RowsTell' /\ RecordsFit'
  BY <1>1, <1>6, RowsStillTell
<1>8. PastFits'
  BY <1>1, <1>3, <1>5 DEF TableIInv, PastFits, Runs, Origins, Files
<1>9. ASSUME NEW v \in Workers PROVE job'[v] = Idle \/ JobTells(job[v])'
  <2>1. job'[v] = IF job[v] = Idle THEN job[v] ELSE [job[v] EXCEPT !.disturbed = @ \cup {p}]
    BY <1>1, <1>2 DEF Disturb
  <2> QED BY <1>2, <1>6, <2>1, OthersStillTell
<1>10. JobsTell'
  BY <1>9 DEF JobsTell
<1> QED BY <1>7, <1>8, <1>10 DEF TableIInv

(* A command is started, or the target of a check is pinned.                *)
LEMMA StartTells ==
    ASSUME EvidenceIInv, TableIInv, NEW w \in Workers, NEW cmd \in Commands,
           Start(w, cmd) \/ Prepare(w, cmd)
    PROVE  TableIInv'
<1>1. UNCHANGED <<file, runs, observed, recorded, origin>>
  BY DEF Start, Prepare
<1>2. CASE Start(w, cmd)
  <2> PICK next : next = Captured(cmd, None, cmd.inputs, {})
    OBVIOUS
  <2>1. job' = [job EXCEPT ![w] = next]
    BY <1>2 DEF Start
  <2>2. IsSequence(cmd.inputs)
    BY SequenceIs DEF EvidenceIInv, WorktreeFits
  <2>3. next = Idle \/ JobTells(next)
    BY <2>2, CapturedTells
  <2> QED BY <1>1, <2>1, <2>3, QuietTells
<1>3. CASE Prepare(w, cmd)
  <2> PICK next : next = [pc |-> "capture", cmd |-> cmd, pinned |-> Snapshot(cmd.target), disturbed |-> {}]
    OBVIOUS
  <2>1. job' = [job EXCEPT ![w] = next]
    BY <1>3 DEF Prepare
  <2>2. JobTells(next)
    BY DEF JobTells
  <2> QED BY <1>1, <2>1, <2>2, QuietTells
<1> QED BY <1>2, <1>3

(* The job of a worker that is at work.                                     *)
LEMMA WorkTells ==
    ASSUME EvidenceIInv, TableIInv, NEW w \in Workers,
           job[w].pc \in {"capture", "execute", "observe", "record", "check"}
    PROVE  JobFits(job[w]) /\ JobTells(job[w])
BY DEF EvidenceIInv, JobsFit, TableIInv, JobsTell, Idle

(* The target is read once more.                                            *)
LEMMA CaptureTells ==
    ASSUME EvidenceIInv, TableIInv, NEW w \in Workers, Capture(w)
    PROVE  TableIInv'
<1> PICK j, inputs, next :
         /\ j = job[w] /\ inputs = IF j.pinned = None THEN <<>> ELSE <<j.cmd.target>>
         /\ next = Captured(j.cmd, j.pinned, inputs, j.disturbed)
  OBVIOUS
<1>1. /\ j.pc = "capture" /\ job' = [job EXCEPT ![w] = next]
      /\ UNCHANGED <<file, runs, observed, recorded, origin>>
  BY DEF Capture
<1>2. j.cmd \in Commands
  BY <1>1, WorkTells DEF JobTells
<1>3. IsSequence(inputs)
  <2>1. <<>> \in Seq({j.cmd.target}) /\ <<j.cmd.target>> \in Seq({j.cmd.target})
    OBVIOUS
  <2> QED BY <2>1, SequenceIs
<1>4. next = Idle \/ JobTells(next)
  BY <1>2, <1>3, CapturedTells
<1> QED BY <1>1, <1>4, QuietTells

(* The command runs: what it writes is disturbed for all the others.        *)
LEMMA ExecuteTells ==
    ASSUME EvidenceIInv, TableIInv, NEW w \in Workers, Execute(w)
    PROVE  TableIInv'
<1> PICK j, r : j = job[w] /\ r = Len(runs) + 1
  OBVIOUS
<1>1. j.pc = "execute" /\ observed' = observed /\ recorded' = recorded
  BY DEF Execute
<1>2. PICK made \in [j.cmd.writes -> Contents], exit \in {"passed", "failed"} :
        LET new == {p \in j.cmd.writes : made[p] # file[p]}
        IN /\ file' = [p \in Files |-> IF p \in new THEN made[p] ELSE file[p]]
           /\ origin' = [p \in Files |-> IF p \in new THEN r ELSE origin[p]]
           /\ runs' = Append(runs,
               [cmd |-> j.cmd, exit |-> exit, read |-> [p \in Files |-> file[p]],
                from |-> [p \in Files |-> origin[p]], still |-> Files \ j.disturbed, quiet |-> {}])
           /\ job' = Disturb([job EXCEPT ![w] =
               [pc |-> "observe", cmd |-> j.cmd, pinned |-> j.pinned, disturbed |-> j.disturbed,
                inputs |-> j.inputs, before |-> j.before, run |-> r]], w, new)
  BY DEF Execute
<1> PICK new, run, next :
        /\ new = {p \in j.cmd.writes : made[p] # file[p]}
        /\ run = [cmd |-> j.cmd, exit |-> exit, read |-> [p \in Files |-> file[p]],
                  from |-> [p \in Files |-> origin[p]], still |-> Files \ j.disturbed, quiet |-> {}]
        /\ next = [pc |-> "observe", cmd |-> j.cmd, pinned |-> j.pinned, disturbed |-> j.disturbed,
                   inputs |-> j.inputs, before |-> j.before, run |-> r]
  OBVIOUS
<1>3. /\ file' = [p \in Files |-> IF p \in new THEN made[p] ELSE file[p]]
      /\ origin' = [p \in Files |-> IF p \in new THEN r ELSE origin[p]]
      /\ runs' = Append(runs, run)
      /\ job' = Disturb([job EXCEPT ![w] = next], w, new)
  BY <1>2
<1>4. JobTells(j)
  BY <1>1, WorkTells
<1>5. GrownBy(runs', runs, run)
  BY <1>3, Grows DEF EvidenceIInv, RunsFit
<1>6. /\ r \notin Runs /\ r # User /\ Runs' = Runs \cup {r} /\ runs'[r] = run
      /\ \A q \in Runs : runs'[q] = runs[q]
  BY <1>5 DEF GrownBy, Runs, EvidenceIInv, WorktreeFits
<1>7. \A p \in Files : run.read[p] = file[p] /\ run.from[p] = origin[p] /\ run.cmd = j.cmd
  OBVIOUS
<1>8. PastKept(new)
  <2>1. \A p \in Files \ new : file'[p] = file[p] /\ origin'[p] = origin[p]
    BY <1>3
  <2>2. \A p \in Files \cap new : origin'[p] \notin Runs
    BY <1>3, <1>6
  <2>3. \A q \in Runs : q \in Runs' /\ runs'[q] = runs[q]
    BY <1>6
  <2>4. \A q \in Runs' \ Runs : \A p \in Files : runs'[q].read[p] = file[p] /\ runs'[q].from[p] = origin[p]
    BY <1>6, <1>7
  <2> QED BY <2>1, <2>2, <2>3, <2>4 DEF PastKept
<1>9. RowsTell' /\ RecordsFit'
  BY <1>1, <1>8, RowsStillTell
<1>10. PastFits'
  <2>1. \A p \in Files : origin[p] \in Origins
    BY DEF TableIInv, PastFits
  <2>2. \A p \in Files : origin'[p] \in Origins'
    BY <1>3, <1>6, <2>1 DEF Origins
  <2>3. DOMAIN origin' = Files
    BY <1>3
  <2>4. ASSUME NEW q \in Runs'
        PROVE  /\ {"cmd", "from"} \subseteq DOMAIN runs'[q] /\ runs'[q].cmd \in Commands
               /\ \A p \in Files : runs'[q].from[p] \in Origins'
    <3>1. CASE q \in Runs
      BY <1>6, <3>1 DEF TableIInv, PastFits, Origins
    <3>2. CASE q = r
      <4>1. {"cmd", "from"} \subseteq DOMAIN run
        OBVIOUS
      <4>2. run.cmd \in Commands
        BY <1>4 DEF JobTells
      <4>3. \A p \in Files : run.from[p] \in Origins'
        BY <1>6, <1>7, <2>1 DEF Origins
      <4> QED BY <1>6, <3>2, <4>1, <4>2, <4>3
    <3> QED BY <1>6, <3>1, <3>2
  <2> QED BY <2>2, <2>3, <2>4 DEF PastFits, Files
<1>11. JobTells(next)'
  <2>1. /\ next.pc = "observe" /\ next.cmd = j.cmd /\ next.disturbed = j.disturbed /\ next.run = r
        /\ next.inputs = j.inputs /\ next.before = j.before /\ {"inputs", "before"} \subseteq DOMAIN next
    OBVIOUS
  <2>2. StillAsLeft(next)'
    <3> SUFFICES ASSUME NEW p \in Files, NEW q \in Runs', runs'[q].from[p] = r PROVE FALSE
      BY <2>1 DEF StillAsLeft, Files
    <3>1. runs'[q].from[p] \in Origins
      BY <1>6, <1>7 DEF TableIInv, PastFits
    <3> QED BY <1>6, <3>1 DEF Origins
  <2>3. \A p \in Files \ j.disturbed : j.before[p] = runs'[r].read[p]
    BY <1>1, <1>4, <1>6, <1>7 DEF JobTells
  <2> QED BY <1>1, <1>4, <2>1, <2>2, <2>3 DEF JobTells, Files
<1>12. DOMAIN job = Workers
  BY DEF EvidenceIInv, JobsFit
<1>13. ASSUME NEW v \in Workers PROVE job'[v] = Idle \/ JobTells(job[v])'
  <2>1. CASE v = w
    <3>1. job'[v] = next
      BY <1>3, <1>12, <2>1 DEF Disturb
    <3> QED BY <1>11, <3>1 DEF JobTells, StillAsLeft
  <2>2. CASE v # w
    <3>1. job'[v] = IF job[v] = Idle THEN job[v] ELSE [job[v] EXCEPT !.disturbed = @ \cup new]
      BY <1>3, <1>12, <2>2 DEF Disturb
    <3> QED BY <1>8, <2>2, <3>1, OthersStillTell
  <2> QED BY <2>1, <2>2
<1>14. JobsTell'
  BY <1>13 DEF JobsTell
<1> QED BY <1>9, <1>10, <1>14 DEF TableIInv

(* Its outputs are read, and the worktree is listed again.                  *)
LEMMA ObserveTells ==
    ASSUME EvidenceIInv, TableIInv, NEW w \in Workers, Observe(w)
    PROVE  TableIInv'
<1>1. PICK j : j = job[w]
  OBVIOUS
<1>2. PICK delta : delta = Sorted({p \in Files : j.cmd.worktree /\ file[p] # j.before[p]})
  OBVIOUS
<1>3. PICK ins, outs : /\ ins = Rows(j.run, "input", j.inputs, j.before)
                       /\ outs = Rows(j.run, "output", j.cmd.outputs, file)
  OBVIOUS
<1>4. PICK next :
        /\ job' = [job EXCEPT ![w] = next]
        /\ next = [pc |-> "record", cmd |-> j.cmd, pinned |-> j.pinned, disturbed |-> j.disturbed,
                   run |-> j.run, replayed |-> FALSE, delta |-> delta, rows |-> ins \o outs]
  BY <1>1, <1>2, <1>3 DEF Observe
<1>5. j.pc = "observe" /\ UNCHANGED <<file, runs, observed, recorded, origin>>
  BY <1>1 DEF Observe
<1>6. JobTells(j)
  BY <1>1, <1>5, WorkTells
<1>7. IsSequence(j.cmd.outputs)
  BY <1>6, SequenceIs DEF JobTells, EvidenceIInv, WorktreeFits
<1>8. /\ IsSequence(ins)
      /\ \A x \in Range(ins) : x.run = j.run /\ x.role = "input" /\ x.hash = j.before[x.path]
  <2>1. IsSequence(j.inputs)
    BY <1>5, <1>6 DEF JobTells
  <2> QED BY <1>3, <2>1, RowsAre
<1>9. /\ IsSequence(outs)
      /\ \A x \in Range(outs) : x.run = j.run /\ x.role = "output" /\ x.hash = file[x.path]
  BY <1>3, <1>7, RowsAre
<1>10. IsSequence(ins \o outs) /\ Range(ins \o outs) \subseteq Range(ins) \cup Range(outs)
  BY <1>8, <1>9, Joined
<1>11. IsSequence(delta)
  BY <1>2, SortedFits, SequenceIs DEF EvidenceIInv
<1>12. /\ next.pc = "record" /\ next.cmd = j.cmd /\ next.disturbed = j.disturbed /\ next.run = j.run
       /\ ~next.replayed /\ next.delta = delta /\ next.rows = ins \o outs
       /\ {"rows", "delta", "replayed"} \subseteq DOMAIN next
  BY <1>4
<1>13. StillAsLeft(next)
  BY <1>5, <1>6, <1>12 DEF JobTells, StillAsLeft
<1>14. ASSUME NEW x \in Range(next.rows)
       PROVE  /\ x.run = next.run
              /\ x.path \in Files \ next.disturbed =>
                   x.hash = IF x.role = "input" THEN runs[next.run].read[x.path] ELSE file[x.path]
  <2>1. CASE x \in Range(ins)
    BY <1>5, <1>6, <1>8, <1>12, <2>1 DEF JobTells
  <2>2. CASE x \in Range(outs)
    BY <1>9, <1>12, <2>2
  <2> QED BY <1>10, <1>12, <2>1, <2>2
<1>15. JobTells(next)
  BY <1>6, <1>10, <1>11, <1>12, <1>13, <1>14 DEF JobTells
<1> QED BY <1>4, <1>5, <1>15, QuietTells

(* A retry attributes nothing.                                              *)
LEMMA ReplayTells ==
    ASSUME EvidenceIInv, TableIInv, NEW w \in Workers, NEW r \in Runs, Replay(w, r)
    PROVE  TableIInv'
<1>1. PICK cmd, nothing, ins, outs :
        /\ cmd = runs[r].cmd /\ nothing = [p \in Files |-> None]
        /\ ins = Rows(r, "input", cmd.inputs, nothing) /\ outs = Rows(r, "output", cmd.outputs, nothing)
  OBVIOUS
<1>2. PICK next :
        /\ job' = [job EXCEPT ![w] = next]
        /\ next = [pc |-> "record", cmd |-> cmd, pinned |-> None, disturbed |-> {}, run |-> r,
                   replayed |-> TRUE, delta |-> <<>>, rows |-> ins \o outs]
  BY <1>1 DEF Replay
<1>3. UNCHANGED <<file, runs, observed, recorded, origin>>
  BY DEF Replay
<1>4. cmd \in Commands
  BY <1>1 DEF TableIInv, PastFits
<1>5. IsSequence(cmd.inputs) /\ IsSequence(cmd.outputs)
  BY <1>4, SequenceIs DEF EvidenceIInv, WorktreeFits
<1>6. IsSequence(ins) /\ \A x \in Range(ins) : x.run = r
  BY <1>1, <1>5, RowsAre
<1>7. IsSequence(outs) /\ \A x \in Range(outs) : x.run = r
  BY <1>1, <1>5, RowsAre
<1>8. IsSequence(ins \o outs) /\ Range(ins \o outs) \subseteq Range(ins) \cup Range(outs)
  BY <1>6, <1>7, Joined
<1>9. IsSequence(<<>>)
  <2>1. <<>> \in Seq({})
    OBVIOUS
  <2> QED BY <2>1, SequenceIs
<1>10. /\ next.pc = "record" /\ next.cmd = cmd /\ next.run = r /\ next.replayed = TRUE
       /\ next.delta = <<>> /\ next.rows = ins \o outs
       /\ {"rows", "delta", "replayed"} \subseteq DOMAIN next
  BY <1>2
<1>11. \A x \in Range(next.rows) : x.run = next.run
  BY <1>6, <1>7, <1>8, <1>10
<1>12. JobTells(next)
  BY <1>4, <1>8, <1>9, <1>10, <1>11 DEF JobTells
<1> QED BY <1>2, <1>3, <1>12, QuietTells

(* The process dies.                                                        *)
LEMMA CrashTells ==
    ASSUME EvidenceIInv, TableIInv, NEW w \in Workers, Crash(w) \/ RecordCheck(w)
    PROVE  TableIInv'
<1>1. job' = [job EXCEPT ![w] = Idle] /\ UNCHANGED <<file, runs, observed, recorded, origin>>
  BY DEF Crash, RecordCheck
<1> QED BY <1>1, QuietTells

(* The rows of a receipt are of its run, and what its own wrapper wrote     *)
(* down or reads now of an undisturbed file is so.                          *)
LEMMA NewRowsTell ==
    ASSUME NEW j, JobFits(j), JobTells(j), j.pc = "record",
           UNCHANGED <<file, origin>>,
           Runs' = Runs, \A r \in Runs : runs'[r].read = runs[r].read /\ runs'[r].from = runs[r].from,
           runs'[j.run].quiet = IF j.replayed THEN {} ELSE Files \ j.disturbed,
           NEW x \in Range(j.rows) \cup Range(WorktreeRows(j))
    PROVE  x.run = j.run /\ RowTells(x)'
<1>1. j.run \in Runs
  BY DEF JobFits, Runs
<1>2. \A y \in Range(WorktreeRows(j)) : y.run = j.run /\ y.role = "worktree_change" /\ y.hash = file[y.path]
  <2>1. IsSequence(j.delta)
    BY DEF JobTells
  <2> QED BY <2>1, RowsAre DEF WorktreeRows
<1>3. x.run = j.run
  BY <1>2 DEF JobTells
<1>4. ASSUME x.path \in Files, Clean(x.run, x.path)'
      PROVE  IF x.role = "input" THEN x.hash = runs'[x.run].read[x.path]
             ELSE /\ \A q \in Runs' : runs'[q].from[x.path] = x.run => runs'[q].read[x.path] = x.hash
                  /\ origin'[x.path] = x.run => file'[x.path] = x.hash
  <2>1. ~j.replayed /\ x.path \in Files \ j.disturbed
    BY <1>3, <1>4 DEF Clean
  <2>2. x.hash = IF x.role = "input" THEN runs[j.run].read[x.path] ELSE file[x.path]
    <3>1. CASE x \in Range(j.rows)
      BY <2>1, <3>1 DEF JobTells
    <3>2. CASE x \in Range(WorktreeRows(j))
      BY <1>2, <3>2
    <3> QED BY <3>1, <3>2
  <2>3. CASE x.role = "input"
    BY <1>1, <1>3, <2>2, <2>3
  <2>4. CASE x.role # "input"
    <3>1. \A q \in Runs : runs[q].from[x.path] = j.run => runs[q].read[x.path] = file[x.path]
      BY <2>1 DEF JobTells, StillAsLeft
    <3> QED BY <1>3, <2>2, <2>4, <3>1
  <2> QED BY <2>3, <2>4
<1> QED BY <1>3, <1>4 DEF RowTells, Files

(* The receipt is stored with its rows, or there is one.                    *)
LEMMA RecordTells ==
    ASSUME EvidenceIInv, TableIInv, NEW w \in Workers, Record(w)
    PROVE  TableIInv'
<1>1. PICK j : j = job[w]
  OBVIOUS
<1>2. PICK next :
        /\ job' = [job EXCEPT ![w] = next]
        /\ next = IF j.cmd.kind = "verify" THEN [j EXCEPT !.pc = "check"] ELSE Idle
  BY <1>1 DEF Record
<1>3. j.pc = "record" /\ file' = file /\ origin' = origin
  BY <1>1 DEF Record
<1>4. JobFits(j) /\ JobTells(j)
  BY <1>1, <1>3, WorkTells
<1>5. next = Idle \/ JobTells(next)
  <2>1. CASE j.cmd.kind = "verify"
    <3>1. next = [j EXCEPT !.pc = "check"]
      BY <1>2, <2>1
    <3>2. next.pc = "check" /\ next.cmd = j.cmd
      BY <1>4, <3>1 DEF JobFits
    <3> QED BY <1>4, <3>2 DEF JobTells
  <2> QED BY <1>2, <2>1
<1>6. CASE j.run \in DOMAIN recorded
  <2>1. UNCHANGED <<observed, recorded, runs>>
    BY <1>1, <1>6 DEF Record
  <2> QED BY <1>2, <1>3, <1>5, <2>1, QuietTells
<1>7. CASE j.run \notin DOMAIN recorded
  <2>1. PICK how, quiet :
          /\ how = (IF j.replayed THEN "replay" ELSE "own")
          /\ quiet = IF j.replayed THEN {} ELSE Files \ j.disturbed
    OBVIOUS
  <2>2. /\ observed' = observed \o j.rows \o WorktreeRows(j)
        /\ recorded' = [r \in DOMAIN recorded \cup {j.run} |->
             IF r \in DOMAIN recorded THEN recorded[r] ELSE how]
        /\ runs' = [runs EXCEPT ![j.run].quiet = quiet]
    BY <1>1, <1>7, <2>1 DEF Record
  <2>3. j.run \in Runs
    BY <1>3, <1>4 DEF JobFits, Runs
  <2>4. /\ DOMAIN recorded' = DOMAIN recorded \cup {j.run}
        /\ \A r \in DOMAIN recorded : recorded'[r] = recorded[r]
    BY <2>2
  <2>5. \A r \in Runs : r # j.run => runs'[r] = runs[r]
    BY <2>2 DEF Runs
  <2>6. runs'[j.run] = [runs[j.run] EXCEPT !.quiet = quiet]
    BY <2>2, <2>3 DEF Runs
  <2>7. Runs' = Runs
    BY <2>2 DEF Runs
  <2>8. {"read", "quiet", "cmd", "from"} \subseteq DOMAIN runs[j.run]
    BY <2>3 DEF EvidenceIInv, RunsFit, TableIInv, PastFits, Runs
  <2>9. /\ runs'[j.run].read = runs[j.run].read /\ runs'[j.run].from = runs[j.run].from
        /\ runs'[j.run].cmd = runs[j.run].cmd /\ runs'[j.run].quiet = quiet
        /\ DOMAIN runs'[j.run] = DOMAIN runs[j.run]
    BY <2>6, <2>8
  <2>10. PastKept({})
    BY <1>3, <1>7, <2>5, <2>7, <2>9 DEF PastKept
  <2>11. /\ IsSequence(observed')
         /\ Range(observed') \subseteq Range(observed) \cup (Range(j.rows) \cup Range(WorktreeRows(j)))
    <3>1. IsSequence(j.rows) /\ IsSequence(j.delta)
      BY <1>3, <1>4 DEF JobTells
    <3>2. IsSequence(WorktreeRows(j))
      BY <3>1, RowsAre DEF WorktreeRows
    <3>3. PICK rows, more : rows = observed \o j.rows /\ more = WorktreeRows(j)
      OBVIOUS
    <3>4. IsSequence(rows) /\ Range(rows) \subseteq Range(observed) \cup Range(j.rows)
      BY <3>1, <3>3, Joined DEF TableIInv, RecordsFit
    <3>5. IsSequence(rows \o more) /\ Range(rows \o more) \subseteq Range(rows) \cup Range(more)
      BY <3>2, <3>3, <3>4, Joined
    <3>6. observed' = rows \o more
      BY <2>2, <3>3
    <3> QED BY <3>3, <3>4, <3>5, <3>6
  <2>12. ASSUME NEW x \in Range(observed') PROVE x.run \in DOMAIN recorded' /\ RowTells(x)'
    <3>1. CASE x \in Range(observed)
      <4>1. x.run \in DOMAIN recorded
        BY <3>1 DEF TableIInv, RecordsFit
      <4> QED BY <2>4, <2>10, <3>1, <4>1, RowStillTells
    <3>2. CASE x \in Range(j.rows) \cup Range(WorktreeRows(j))
      <4>1. \A r \in Runs : runs'[r].read = runs[r].read /\ runs'[r].from = runs[r].from
        BY <2>10 DEF PastKept
      <4>2. runs'[j.run].quiet = IF j.replayed THEN {} ELSE Files \ j.disturbed
        BY <2>1, <2>9
      <4>3. x.run = j.run /\ RowTells(x)'
        BY <1>3, <1>4, <2>7, <3>2, <4>1, <4>2, NewRowsTell
      <4> QED BY <2>4, <4>3
    <3> QED BY <2>11, <3>1, <3>2
  <2>13. RowsTell'
    <3> SUFFICES ASSUME NEW k \in DOMAIN observed' PROVE RowTells(observed[k])'
      BY DEF RowsTell
    <3>1. PICK x \in Range(observed') : x = observed'[k]
      BY DEF Range
    <3>2. RowTells(x)'
      BY <2>12
    <3> QED BY <3>1, <3>2 DEF RowTells, Clean
  <2>14. RecordsFit'
    <3>1. DOMAIN recorded' \subseteq Runs'
      BY <2>3, <2>4, <2>7 DEF TableIInv, RecordsFit
    <3>2. IsSequence(observed)'
      BY <2>11 DEF IsSequence
    <3> QED BY <2>12, <3>1, <3>2 DEF RecordsFit
  <2>15. PastFits'
    <3>1. ASSUME NEW r \in Runs
          PROVE  /\ {"cmd", "from"} \subseteq DOMAIN runs'[r] /\ runs'[r].cmd = runs[r].cmd
                 /\ runs'[r].from = runs[r].from
      <4>1. CASE r = j.run
        BY <2>8, <2>9, <4>1
      <4>2. CASE r # j.run
        BY <2>5, <4>2 DEF TableIInv, PastFits
      <4> QED BY <4>1, <4>2
    <3> QED BY <1>3, <2>7, <3>1 DEF TableIInv, PastFits, Origins, Files
  <2>16. ASSUME NEW v \in Workers PROVE job'[v] = Idle \/ JobTells(job[v])'
    <3>1. DOMAIN job = Workers
      BY DEF EvidenceIInv, JobsFit
    <3>2. CASE v = w
      <4>1. job'[v] = next
        BY <1>2, <3>1, <3>2
      <4>2. CASE next = Idle
        BY <4>1, <4>2
      <4>3. CASE next # Idle
        <5>1. next.pc = "check" /\ next.cmd \in Commands
          BY <1>2, <1>4, <1>5, <4>3 DEF JobFits, JobTells
        <5> QED BY <4>1, <5>1 DEF JobTells
      <4> QED BY <4>2, <4>3
    <3>3. CASE v # w
      <4>1. job'[v] = job[v]
        BY <1>2, <3>1, <3>3
      <4> QED BY <2>10, <3>3, <4>1, OthersStillTell
    <3> QED BY <3>2, <3>3
  <2>17. JobsTell'
    BY <2>16 DEF JobsTell
  <2> QED BY <2>13, <2>14, <2>15, <2>17 DEF TableIInv
<1> QED BY <1>6, <1>7

(* There are no rows in the beginning.                                      *)
LEMMA TableInitHolds == WorktreeFits /\ EvidenceInit => TableIInv
<1> SUFFICES ASSUME WorktreeFits, EvidenceInit PROVE TableIInv
  OBVIOUS
<1>1. PastFits /\ RowsTell
  BY DEF EvidenceInit, PastFits, RowsTell, Runs, Origins
<1>2. RecordsFit
  <2>1. <<>> \in Seq({}) /\ DOMAIN <<>> = {}
    OBVIOUS
  <2>2. IsSequence(<<>>) /\ Range(<<>>) \subseteq {}
    BY <2>1, SequenceIs
  <2> QED BY <2>1, <2>2 DEF EvidenceInit, RecordsFit, Runs
<1>3. JobsTell
  BY DEF EvidenceInit, JobsTell
<1> QED BY <1>1, <1>2, <1>3 DEF TableIInv

(* No step breaks the invariant.                                            *)
LEMMA TableNextKeeps == EvidenceIInv /\ TableIInv /\ [EvidenceNext]_evidenceVars => TableIInv'
<1> SUFFICES ASSUME EvidenceIInv, TableIInv, [EvidenceNext]_evidenceVars PROVE TableIInv'
  OBVIOUS
<1>1. ASSUME NEW p \in Files, NEW c, Edit(p, c) PROVE TableIInv'
  BY <1>1, EditTells
<1>2. ASSUME NEW w \in Workers, NEW cmd \in Commands, Start(w, cmd) \/ Prepare(w, cmd) PROVE TableIInv'
  BY <1>2, StartTells
<1>3. ASSUME NEW w \in Workers, NEW r \in Runs, Replay(w, r) PROVE TableIInv'
  BY <1>3, ReplayTells
<1>4. ASSUME NEW w \in Workers, Capture(w) \/ Execute(w) \/ Observe(w) PROVE TableIInv'
  BY <1>4, CaptureTells, ExecuteTells, ObserveTells
<1>5. ASSUME NEW w \in Workers, Record(w) \/ RecordCheck(w) \/ Crash(w) PROVE TableIInv'
  BY <1>5, RecordTells, CrashTells
<1>6. CASE UNCHANGED evidenceVars
  <2>1. UNCHANGED <<file, runs, observed, recorded, job, origin>>
    BY <1>6 DEF evidenceVars
  <2>2. PastFits' /\ RecordsFit' /\ RowsTell'
    BY <2>1 DEF TableIInv, PastFits, RecordsFit, RowsTell, RowTells, Clean, Runs, Origins, Files
  <2>3. JobsTell'
    BY <2>1 DEF TableIInv, JobsTell, JobTells, StillAsLeft, Runs, Files
  <2> QED BY <2>2, <2>3 DEF TableIInv
<1> QED BY <1>1, <1>2, <1>3, <1>4, <1>5, <1>6 DEF EvidenceNext

(* For any files, commands, workers and users: the rows of a receipt tell   *)
(* what its command read and left, of every file that nobody else wrote     *)
(* meanwhile.                                                               *)
THEOREM TableInvariance == WorktreeFits /\ EvidenceSpec => []TableIInv
<1>1. WorktreeFits /\ EvidenceSpec => []EvidenceIInv
  BY EvidenceInvariance
<1> QED BY <1>1, TableInitHolds, TableNextKeeps, PTL DEF EvidenceSpec

(* What the walks need of the two invariants.                               *)
LEMMA TheTable == EvidenceIInv /\ TableIInv => RowsOfRuns /\ \A p \in Files : origin[p] # User => origin[p] \in Runs
<1> SUFFICES ASSUME EvidenceIInv, TableIInv PROVE RowsOfRuns /\ \A p \in Files : origin[p] # User => origin[p] \in Runs
  OBVIOUS
<1>1. Table
  BY DEF TableIInv, RecordsFit, IsSequence, Table
<1>2. Len(runs) \in Nat /\ Runs = 1..Len(runs)
  BY DEF EvidenceIInv, RunsFit, Runs
<1>3. \A i \in DOMAIN observed : observed[i].run \in Runs
  BY DEF TableIInv, RecordsFit, Range
<1>4. \A p \in Files : origin[p] # User => origin[p] \in Runs
  BY DEF TableIInv, PastFits, Origins
<1> QED BY <1>1, <1>2, <1>3, <1>4 DEF RowsOfRuns

(* TraceFindsProducers for any files, commands, workers and limits: a trace *)
(* finds every run that the inputs of its target really come from, by any   *)
(* number of steps, unless it says that it was cut short. *)
THEOREM TracesFindProducers == WorktreeFits /\ EvidenceSpec => []TraceFindsProducers
<1>1. EvidenceIInv /\ TableIInv => TraceFindsProducers
  BY TheTable, TableTraces DEF EvidenceIInv, TableIInv
<1> QED BY <1>1, EvidenceInvariance, TableInvariance, PTL

(* RevalidationIsComplete for any files, commands, workers and limits: the  *)
(* status lists every run with an input that has changed or depends on a    *)
(* changed one, by any number of steps, unless it says that it was cut      *)
(* short. *)
THEOREM RevalidationsAreComplete == WorktreeFits /\ EvidenceSpec => []RevalidationIsComplete
<1>1. EvidenceIInv /\ TableIInv => RevalidationIsComplete
  BY TheTable, TableRevalidates DEF EvidenceIInv, RowsOfRuns
<1> QED BY <1>1, EvidenceInvariance, TableInvariance, PTL
====
