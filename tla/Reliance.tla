------------------------------ MODULE Reliance ------------------------------
(***************************************************************************)
(* Reliance receipts over live evidence: PolicyStore (policy.py), the      *)
(* record view of the evidence (policy_evidence.py over record_store.py),  *)
(* and RelianceStore.issue, verify and blast_radius (reliance.py,          *)
(* reliance_basis.py).                                                     *)
(*                                                                         *)
(* Callers issue and verify receipts while records, relations, policies    *)
(* and assurances go on changing.  No read of an evaluation shares a       *)
(* transaction with another, so issue guards an exact receipt by observing *)
(* its whole basis twice.                                                  *)
(*                                                                         *)
(* Bounds: "budget" is the number of changes to the evidence left; each    *)
(* starting world brings its own.  MaxReads bounds the reads of one        *)
(* evaluation.  RelationLimit is the default limit of relations_for.       *)
(***************************************************************************)
EXTENDS PolicyEngine

CONSTANTS
  KindOf,          \* record_kind, [Objects -> STRING]
  Revisable,       \* the records that may get a new revision,
  NewRelations,    \* the relations that may be created,
  NewPolicies,     \* [kind, def] that may be registered,
  NewAssurances,   \* [object, status, scope] the reader may come to know
  Requests,        \* [reliant, explicit, object, key, affirm, exact]
  Callers,
  RelationLimit,
  Starts,          \* starting worlds, each with its budget
  MaxReceipts,
  MaxReads

VARIABLES
  revision,        \* ordinal of each record's head, 0 if there is no record
  relations,       \* the append-only relations
  policies,        \* the versions of each kind's policy
  assurances,      \* what the injected reader knows of each object
  receipts,
  call,            \* what each caller is doing
  budget

evidence == <<revision, relations, policies, assurances>>
vars == <<revision, relations, policies, assurances, receipts, call, budget>>

World == [revision |-> revision, relations |-> relations,
          policies |-> policies, assurances |-> assurances]

-----------------------------------------------------------------------------
(* The worlds there can be.  Policy versions count from 1 and change the
   definition, relations join two objects, and an assurance was given for a
   revision that there was. *)
PolicyKinds == {KindOf[o] : o \in Objects}
Definitions == [required : BOOLEAN, scoped : BOOLEAN, depends : SUBSET RelationTypes,
                blocks : SUBSET RelationTypes, unruled : BOOLEAN]
Versions == [version : Nat, def : Definitions]
Relations == [type : RelationTypes, from : Objects, to : Objects]

IsWorld(w) ==
  /\ w.revision \in [Objects -> Nat]
  /\ w.relations \in Seq(Relations)
  /\ \A i \in DOMAIN w.relations : w.relations[i].from # w.relations[i].to
  /\ w.policies \in [PolicyKinds -> Seq(Versions)]
  /\ \A k \in PolicyKinds : \A v \in DOMAIN w.policies[k] :
       /\ w.policies[k][v].version = v
       /\ v > 1 => w.policies[k][v].def # w.policies[k][v - 1].def
  /\ w.assurances \in [Objects -> Seq([status : STRING, scope : BOOLEAN, at : Nat])]
  /\ \A o \in Objects : \A i \in DOMAIN w.assurances[o] :
       w.assurances[o][i].at \in 1..w.revision[o]

ASSUME ConstantsFit ==
  /\ Revisable \subseteq Objects
  /\ NewRelations \subseteq Relations
  /\ NewPolicies \subseteq [kind : PolicyKinds, def : Definitions]
  /\ NewAssurances \subseteq [object : Objects, status : STRING, scope : BOOLEAN]
  /\ \A q \in Requests : q.object \in Objects
  /\ \A s \in Starts : IsWorld(s) /\ s.budget \in Nat
  /\ MaxReads \in Nat /\ RelationLimit \in Nat

(* "Nothing" is none of the things that may be found.                      *)
ASSUME NoneIsNothing ==
  /\ None \notin Nat
  /\ None \notin Versions
  /\ None \notin [id : Nat, status : STRING, scope : BOOLEAN, stale : BOOLEAN]

-----------------------------------------------------------------------------
(* What the evidence view and the policy store answer in a world.          *)

Head_(w, o) == IF w.revision[o] = 0 THEN None ELSE w.revision[o]

PolicyOf(w, kind) == IF w.policies[kind] = <<>> THEN None ELSE Last(w.policies[kind])

(* The reader hands out the latest assurance; it is stale once the record
   has moved on from the revision it was given for. *)
AssuranceOf(w, o) ==
  IF w.assurances[o] = <<>> THEN None
  ELSE LET a == Last(w.assurances[o])
       IN  [id |-> Len(w.assurances[o]), status |-> a.status, scope |-> a.scope,
            stale |-> a.at # w.revision[o]]

(* The newest relations in one direction, up to the limit.                 *)
RelationsOf(w, o, end) ==
  LET ids == {i \in DOMAIN w.relations : w.relations[i][end] = o}
      newest == {i \in ids : Cardinality({j \in ids : j > i}) < RelationLimit}
  IN  {[id |-> i, type |-> w.relations[i].type, from |-> w.relations[i].from,
        to |-> w.relations[i].to] : i \in newest}

(* What a visit to an object reads next.                                   *)
Cell(w, o, what) ==
  CASE what = "object"    -> w.revision[o] > 0
    [] what = "policy"    -> PolicyOf(w, KindOf[o])
    [] what = "assurance" -> AssuranceOf(w, o)
    [] what = "incoming"  -> RelationsOf(w, o, "to")
    [] what = "outgoing"  -> RelationsOf(w, o, "from")
    [] what = "revision"  -> Head_(w, o)

(* An evaluation past its next read, which is of the evidence as it is now. *)
ReadNext(w, e) == After(e, Cell(w, Top(e).object, Top(e).next))

-----------------------------------------------------------------------------
Idle == [pc |-> "idle"]

Init ==
  \E s \in Starts :
    /\ revision = s.revision /\ relations = s.relations
    /\ policies = s.policies /\ assurances = s.assurances
    /\ budget = s.budget
    /\ receipts = <<>>
    /\ call = [c \in Callers |-> Idle]

(* Changes to the evidence.  A caller under way remembers the worlds it has
   lived through, for the properties only. *)
Change ==
  /\ budget > 0 /\ budget' = budget - 1
  /\ call' = [c \in Callers |->
       IF call[c] = Idle THEN Idle ELSE [call[c] EXCEPT !.seen = Append(@, World')]]
  /\ UNCHANGED receipts

(* create_record, and append_revision by the caller whose expected parent is
   still the head. *)
Revise(o) ==
  /\ revision' = [revision EXCEPT ![o] = @ + 1]
  /\ UNCHANGED <<relations, policies, assurances>>
  /\ Change

CreateRelation(r) ==
  /\ r.from # r.to
  /\ relations' = Append(relations, r)
  /\ UNCHANGED <<revision, policies, assurances>>
  /\ Change

IsCurrent(kind, def) == policies[kind] # <<>> /\ Last(policies[kind]).def = def

(* PolicyStore.register under its write lock: the current definition is
   returned as it is, an earlier one becomes a new version. *)
\* Mutant: the identifier covers the contents only, so a reverted policy is the old one again.
Register_Resurrect(kind, def) ==
  /\ ~IsCurrent(kind, def)
  /\ LET same == {i \in DOMAIN policies[kind] : policies[kind][i].def = def}
     IN  policies' = [policies EXCEPT ![kind] =
           Append(@, [version |-> Min(same \cup {Len(@) + 1}), def |-> def])]
  /\ UNCHANGED <<revision, relations, assurances>>
  /\ Change

Register(kind, def) ==
  /\ ~IsCurrent(kind, def)
  /\ policies' = [policies EXCEPT ![kind] = Append(@, [version |-> Len(@) + 1, def |-> def])]
  /\ UNCHANGED <<revision, relations, assurances>>
  /\ Change

(* Outside: a checker's result for the current revision reaches the reader. *)
Assure(a) ==
  /\ revision[a.object] > 0
  /\ assurances' = [assurances EXCEPT ![a.object] =
       Append(@, [status |-> a.status, scope |-> a.scope, at |-> revision[a.object]])]
  /\ UNCHANGED <<revision, relations, policies>>
  /\ Change

-----------------------------------------------------------------------------
(* RelianceStore.issue.                                                    *)

Do(c, next) ==
  /\ call' = [call EXCEPT ![c] = next]
  /\ UNCHANGED <<revision, relations, policies, assurances, budget>>

Refuse(c) == Do(c, Idle) /\ UNCHANGED receipts

WithKey(key) == {i \in DOMAIN receipts : key # None /\ receipts[i].req.key = key}

(* _validate_idempotent_binding and _validate_idempotent_requirements.     *)
Bindable(r, q) ==
  /\ r.req.reliant = q.reliant /\ r.req.object = q.object
  /\ q.explicit \in {None, r.reliantRevision}
  /\ q.affirm => Admissible(r.assessment)
  /\ q.exact => \A pin \in r.assessment.pins : pin[2] # None

Verifying(i, o) ==
  [pc |-> "reliant now", receipt |-> i, reasons |-> {}, left |-> {}, eval |-> Evaluate(o),
   seen |-> <<World>>]

Issuing(q) ==
  [pc |-> "reliant", req |-> q, reliantRevision |-> None, reliantStatus |-> None,
   eval |-> Evaluate(q.object), kept |-> None, left |-> {}, seen |-> <<World>>]

Issue(c, q) ==
  /\ call[c] = Idle
  /\ IF WithKey(q.key) = {}
     THEN Len(receipts) < MaxReceipts /\ Do(c, Issuing(q))
     ELSE \E i \in WithKey(q.key) : Bindable(receipts[i], q) /\ Do(c, Verifying(i, q.object))
  /\ UNCHANGED receipts

(* _observe_reliant_revision: what the caller says of the downstream's
   revision and what is observed of it. *)
ReliantStatus(explicit, current) ==
  CASE explicit = None /\ current = None -> "not_pinned"
    [] explicit # None /\ current = None -> "not_assessable"
    [] current # None /\ explicit \in {None, current} -> "observed_current"
    [] OTHER                             -> "observed_different"

ObserveReliant(c) ==
  /\ call[c].pc = "reliant"
  /\ LET q == call[c].req
         current == Head_(World, q.reliant)
     IN  Do(c, [call[c] EXCEPT !.pc = "first",
                  !.reliantRevision = IF q.explicit = None THEN current ELSE q.explicit,
                  !.reliantStatus = ReliantStatus(q.explicit, current)])
  /\ UNCHANGED receipts

Pinned(assessment) == {pin[1] : pin \in assessment.pins}

(* One read of the evaluation in progress; what follows the last one is
   for its caller to say. *)
MayRead(c) == call[c].eval.reads < MaxReads
Read(c) == ReadNext(World, call[c].eval)

FirstObservation(c) ==
  /\ call[c].pc = "first" /\ MayRead(c)
  /\ UNCHANGED receipts
  /\ LET q == call[c].req
         e == Read(c)
         a == e.result
         kept == [call[c] EXCEPT !.kept = a, !.eval = Evaluate(q.object)]
     IN  CASE e.status = "raised"  -> Refuse(c)
           [] e.status = "running" -> Do(c, [call[c] EXCEPT !.eval = e])
           [] e.status = "done" ->
                IF (q.affirm /\ ~Admissible(a)) \/ ~Consistent(a) THEN Refuse(c)
                ELSE IF ~q.exact THEN Do(c, [kept EXCEPT !.pc = "insert"])
                ELSE IF \E pin \in a.pins : pin[2] = None THEN Refuse(c)
                ELSE Do(c, [kept EXCEPT !.pc = "pins", !.left = Pinned(a)])

(* _validate_exact_revisions_current, before and after the second
   observation. *)
NextPin(c) == CHOOSE o \in call[c].left : TRUE

CheckPin(c) ==
  /\ call[c].pc \in {"pins", "pins again"}
  /\ LET o == NextPin(c)
         rest == call[c].left \ {o}
     IN  IF <<o, Head_(World, o)>> \notin call[c].kept.pins THEN Refuse(c)
         ELSE Do(c, [call[c] EXCEPT !.left = rest,
                      !.pc = IF rest # {} THEN @
                             ELSE IF @ = "pins" THEN "second" ELSE "reliant again"])
  /\ UNCHANGED receipts

\* Mutant: the second observation is made but not compared.
Drifted_Never(was, now) == FALSE

(* exact_basis_drift *)
Drifted(was, now) == was # now

SecondObservation(c) ==
  /\ call[c].pc = "second" /\ MayRead(c)
  /\ UNCHANGED receipts
  /\ LET e == Read(c)
     IN  CASE e.status = "raised"  -> Refuse(c)
           [] e.status = "running" -> Do(c, [call[c] EXCEPT !.eval = e])
           [] e.status = "done" ->
                IF Drifted(call[c].kept, e.result) THEN Refuse(c)
                ELSE Do(c, [call[c] EXCEPT !.pc = "pins again", !.left = Pinned(call[c].kept), !.eval = Evaluate(call[c].req.object)])

CheckReliant(c) ==
  /\ call[c].pc = "reliant again"
  /\ IF call[c].reliantStatus = "observed_current"
        /\ Head_(World, call[c].req.reliant) # call[c].reliantRevision
     THEN Refuse(c)
     ELSE Do(c, [call[c] EXCEPT !.pc = "insert"])
  /\ UNCHANGED receipts

(* The unique index on the key decides between two issuers.                *)
Insert(c) ==
  /\ call[c].pc = "insert"
  /\ LET k == call[c]
         receipt == [req |-> k.req, reliantRevision |-> k.reliantRevision,
                     reliantStatus |-> k.reliantStatus, assessment |-> k.kept]
         taken == WithKey(k.req.key)
     IN  IF taken = {}
         THEN receipts' = Append(receipts, receipt) /\ Do(c, Verifying(Len(receipts) + 1, k.req.object))
         ELSE \E i \in taken :
                IF Bindable(receipts[i], k.req)
                THEN Do(c, Verifying(i, k.req.object)) /\ UNCHANGED receipts
                ELSE Refuse(c)

-----------------------------------------------------------------------------
(* RelianceStore.verify: what the receipt pinned against what is there.    *)

Verify(c, i) ==
  call[c] = Idle /\ Do(c, Verifying(i, receipts[i].req.object)) /\ UNCHANGED receipts

(* _revision_status. *)
ReliantReasons(r, current) ==
  IF r.reliantRevision = None \/ current = r.reliantRevision THEN {}
  ELSE IF current # None THEN {"reliant_revision_changed"}
  ELSE IF r.reliantStatus = "not_assessable" THEN {}
  ELSE {"reliant_revision_not_assessable"}

CheckReliantNow(c) ==
  /\ call[c].pc = "reliant now"
  /\ LET r == receipts[call[c].receipt]
     IN  Do(c, [call[c] EXCEPT !.pc = "pins now", !.left = Pinned(r.assessment),
                  !.reasons = ReliantReasons(r, Head_(World, r.req.reliant))])
  /\ UNCHANGED receipts

(* _check_pinned_revisions. *)
CheckPinNow(c) ==
  /\ call[c].pc = "pins now"
  /\ LET o == NextPin(c)
         now == Head_(World, o)
         rest == call[c].left \ {o}
         why == IF now = None THEN {"basis_revision_not_assessable"}
                ELSE IF <<o, now>> \in receipts[call[c].receipt].assessment.pins THEN {}
                ELSE {"object_revision_changed"}
     IN  Do(c, [call[c] EXCEPT !.left = rest, !.reasons = @ \cup why,
                  !.pc = IF rest = {} THEN "evaluate now" ELSE @])
  /\ UNCHANGED receipts

Reasons(was, now) ==
  {x \in {"assurance_selection_changed", "policy_changed", "dependency_topology_changed",
          "assessment_snapshot_changed", "admission_decision_changed"} :
     CASE x = "assurance_selection_changed" -> was.evidence # now.evidence
       [] x = "policy_changed"              -> was.policies # now.policies
       [] x = "dependency_topology_changed" -> was.relations # now.relations
       [] x = "assessment_snapshot_changed" -> was # now
       [] x = "admission_decision_changed"  -> <<was.state, was.status>> # <<now.state, now.status>>}

EvaluateNow(c) ==
  /\ call[c].pc = "evaluate now" /\ MayRead(c)
  /\ UNCHANGED receipts
  /\ LET was == receipts[call[c].receipt].assessment
         e == Read(c)
         verdict(why) ==
           [call[c] EXCEPT !.pc = "verdict", !.reasons = @ \cup why, !.eval = Evaluate(was.object)]
     IN  Do(c, CASE e.status = "raised"  -> verdict({"current_evidence_not_assessable"})
                 [] e.status = "running" -> [call[c] EXCEPT !.eval = e]
                 [] e.status = "done"    -> verdict(Reasons(was, e.result)))

Return(c) == call[c].pc = "verdict" /\ Refuse(c)

(* blast_radius: the receipts that a change of these objects concerns.     *)
BlastRadius(changed) == {i \in DOMAIN receipts : Pinned(receipts[i].assessment) \cap changed # {}}

-----------------------------------------------------------------------------
EvidenceChanges ==
  \/ \E o \in Revisable : Revise(o)
  \/ \E r \in NewRelations : CreateRelation(r)
  \/ \E p \in NewPolicies : Register(p.kind, p.def)
  \/ \E a \in NewAssurances : Assure(a)

Steps(c) ==
  \/ \E q \in Requests : Issue(c, q)
  \/ \E i \in DOMAIN receipts : Verify(c, i)
  \/ ObserveReliant(c) \/ FirstObservation(c) \/ CheckPin(c) \/ SecondObservation(c)
  \/ CheckReliant(c) \/ Insert(c)
  \/ CheckReliantNow(c) \/ CheckPinNow(c) \/ EvaluateNow(c) \/ Return(c)

Next == EvidenceChanges \/ \E c \in Callers : Steps(c)
Spec == Init /\ [][Next]_vars

-----------------------------------------------------------------------------
(* An evaluation that nothing disturbs, and whether it ends with "a".      *)
EvaluateIn(w, root) ==
  LET run[n \in 0..MaxReads] ==
        IF n = 0 THEN Evaluate(root)
        ELSE LET e == run[n - 1] IN IF e.status = "running" THEN ReadNext(w, e) ELSE e
  IN  run[MaxReads]

Gives(w, root, a) ==
  LET e == EvaluateIn(w, root) IN e.status = "done" /\ e.result = a

(* What admissible should mean: an object is grounded in its own assurance
   and in dependencies that are grounded without it. *)
Sound(w, o) ==
  /\ PolicyOf(w, KindOf[o]) # None
  /\ LET def == PolicyOf(w, KindOf[o]).def
         a == AssuranceOf(w, o)
     IN  /\ def.required =>
              a # None /\ a.status = "passed" /\ ~a.stale /\ (def.scoped => a.scope)
         /\ \A i \in DOMAIN w.relations :
              ~(w.relations[i].to = o /\ w.relations[i].type \in def.blocks)

Supported(w, o, grounded) ==
  /\ Sound(w, o)
  /\ \A i \in DOMAIN w.relations :
       LET e == w.relations[i]
           def == PolicyOf(w, KindOf[o]).def
       IN  e.from = o /\ e.type \in def.depends =>
             \/ e.to \in grounded
             \/ def.unruled /\ PolicyOf(w, KindOf[e.to]) = None

(* The least set that holds every object it supports.                      *)
Grounded(w) ==
  LET closed == {S \in SUBSET Objects : \A o \in Objects : Supported(w, o, S) => o \in S}
  IN  {o \in Objects : \A S \in closed : o \in S}

-----------------------------------------------------------------------------
(* Type correctness: the evidence is a world that there can be, and receipts
   carry what their request demanded. *)
TypeOK ==
  /\ IsWorld(World)
  /\ budget \in Nat
  /\ \A i \in DOMAIN receipts : Bindable(receipts[i], receipts[i].req)

(* The basis of an exact receipt held all at once: although no two of its
   parts were read together, the evidence was, at some moment of the issue,
   such that an undisturbed evaluation gives the receipt's assessment. *)
ReceiptBasisHeldAtOnce ==
  \A c \in Callers :
    call[c].pc = "insert" /\ call[c].req.exact =>
      \E i \in DOMAIN call[c].seen : Gives(call[c].seen[i], call[c].req.object, call[c].kept)

(* A verification that finds nothing stale is right about the moment it was
   asked: the evidence of that moment gives the receipt's own assessment
   and the revisions it pins. *)
FreshVerdictWasTrue ==
  \A c \in Callers :
    call[c].pc = "verdict" /\ call[c].reasons = {} =>
      LET r == receipts[call[c].receipt]
          asked == call[c].seen[1]
      IN  /\ Gives(asked, r.req.object, r.assessment)
          /\ \A pin \in r.assessment.pins : pin[2] = Head_(asked, pin[1])

(* The walk admits what is grounded and nothing else: no cycle, depth or
   unruled dependency is admitted by the order in which it is met, and an
   object that is refused has a cause outside of the chain of refusals. *)
AdmissibleIsGrounded ==
  (\A c \in Callers : call[c] = Idle) =>
    \A o \in Objects :
      LET e == EvaluateIn(World, o)
          a == e.result
          limited == \E b \in a.causes : b.type \in {"depth_limit", "node_limit"}
      IN  e.status = "done" =>
            /\ Admissible(a) => o \in Grounded(World)
            /\ o \in Grounded(World) => Admissible(a) \/ limited
            /\ ~Admissible(a) => a.causes # {}

(* A new revision that changes the assessment a receipt was issued for is
   in the receipt's blast radius. *)
RevisionReachesReceipts ==
  [][\A o \in Objects, i \in DOMAIN receipts :
       /\ revision'[o] # revision[o]
       /\ Gives(World, receipts[i].req.object, receipts[i].assessment)
       /\ ~Gives(World', receipts[i].req.object, receipts[i].assessment)
       => i \in BlastRadius({o})]_vars

=============================================================================
