---------------------------- MODULE PolicyEngine ----------------------------
(***************************************************************************)
(* PolicyEngine.evaluate (assessment.py): the depth-first walk that decides*)
(* whether an object may be relied on for a purpose.  The walk reads its   *)
(* evidence one piece at a time, each in a transaction of its own.         *)
(*                                                                         *)
(* An evaluation in progress is the stack of its visits, the activations   *)
(* of the recursive function visit: what each has read, and what it reads  *)
(* next.  Evaluate starts one, and After takes it past one read.           *)
(*                                                                         *)
(* A policy is [version, def]; its identifier is a digest of both (and of  *)
(* the key), so the policy stands for it.  A definition is                 *)
(* [required, scoped, depends, blocks, unruled]: one assurance kind, with  *)
(* or without a scope requirement; "depends" is empty when                 *)
(* require_dependencies_admissible is off.  A relation is                  *)
(* [id, type, from, to]; the identifier is a digest of its contents and    *)
(* its time, and here its ordinal.                                         *)
(***************************************************************************)
EXTENDS Naturals, Sequences, FiniteSets, SequencesExt

CONSTANTS Objects, RelationTypes, None, MaxDepth, MaxNodes

(* One of the state's names decides; a blocker of a lower rank is masked.  *)
Classify(types) ==
  IF types \cap {"dependency_cycle", "missing_policy", "depth_limit", "node_limit",
                 "dependency_unknown"} # {} THEN "UNKNOWN"
  ELSE IF types \cap {"stale_assurance", "dependency_stale"} # {} THEN "STALE"
  ELSE IF types \cap {"blocking_relation", "conflicted_assurance",
                      "dependency_conflicted"} # {} THEN "CONFLICTED"
  ELSE IF "missing_assurance" \in types THEN "UNVERIFIED"
  ELSE IF types # {} THEN "INSUFFICIENT_EVIDENCE"
  ELSE "SUPPORTED"

Blocker(type, object, by) == [type |-> type, object |-> object, by |-> by]

(* What the latest assurance of the required kind lacks.                   *)
AssuranceBlockers(o, def, a) ==
  LET types == IF ~def.required THEN {}
               ELSE IF a = None THEN {"missing_assurance"}
               ELSE IF a.stale THEN {"stale_assurance"}
               ELSE IF a.status = "failed" THEN {"conflicted_assurance"}
               ELSE IF a.status # "passed" THEN {"inadmissible_assurance"}
               ELSE IF def.scoped /\ ~a.scope THEN {"assurance_scope_mismatch"}
               ELSE {}
  IN  {Blocker(type, o, None) : type \in types}

BlockingRelations(o, def, incoming) ==
  {Blocker("blocking_relation", o, e.id) : e \in {e \in incoming : e.type \in def.blocks}}

DependencyTypes ==
  {"dependency_unknown", "dependency_stale", "dependency_conflicted", "dependency_not_admissible"}

\* Mutant: allow_unruled_dependencies forgives whatever is unknown.
Accepted_AnyUnknown(def, child) == child.state = "SUPPORTED" \/ (child.state = "UNKNOWN" /\ def.unruled)

Accepted(def, child) == child.state = "SUPPORTED" \/ (child.status = "unruled" /\ def.unruled)

(* What a dependency's own assessment means to the object that needs it.   *)
DependencyBlockers(o, def, relation, child) ==
  LET type == CASE child.state = "UNKNOWN"    -> "dependency_unknown"
                [] child.state = "STALE"      -> "dependency_stale"
                [] child.state = "CONFLICTED" -> "dependency_conflicted"
                [] OTHER                      -> "dependency_not_admissible"
  IN  IF Accepted(def, child) THEN {} ELSE {Blocker(type, o, relation)}

States(deps) == {deps[i].state : i \in DOMAIN deps}

(* The children whose refusal is among the blockers.                       *)
Blamed(deps, blockers) ==
  LET refused == {b.by : b \in {b \in blockers : b.type \in DependencyTypes}}
      refs == {deps[i].relation.to : i \in {i \in DOMAIN deps : deps[i].relation.id \in refused}}
  IN  {k \in States(deps) : k.object \in refs}

\* Mutant: the revisions of the dependencies are not pinned.
Pins_Own(o, rev, deps) == {<<o, rev>>}

Pins(o, rev, deps) == {<<o, rev>>} \cup UNION {k.pins : k \in States(deps)}

(* _result, with what basis and _root_causes gather from the tree below.   *)
Result(o, rev, policy, assurances, deps, blockers) ==
  LET state == Classify({b.type : b \in blockers})
      kids  == States(deps)
  IN  [object |-> o, revision |-> rev, policy |-> policy, assurances |-> assurances,
       deps |-> deps, blockers |-> blockers, state |-> state,
       status |-> CASE state = "SUPPORTED" -> "admissible"
                    [] \E b \in blockers : b.type = "missing_policy" -> "unruled"
                    [] OTHER -> "blocked",
       causes |-> {b \in blockers : b.type \notin DependencyTypes}
                  \cup UNION {k.causes : k \in Blamed(deps, blockers)},
       pins |-> Pins(o, rev, deps),
       policies |-> ({policy} \ {None}) \cup UNION {k.policies : k \in kids},
       evidence |-> {<<o, a.id>> : a \in assurances} \cup UNION {k.evidence : k \in kids},
       relations |-> {deps[i].relation.id : i \in DOMAIN deps}
                     \cup ({b.by : b \in blockers} \ {None}) \cup UNION {k.relations : k \in kids}]

Admissible(assessment) == assessment.state = "SUPPORTED"

(* _assessment_revisions: one object, one revision, whatever the path.     *)
Consistent(assessment) ==
  \A x, y \in assessment.pins : x[1] = y[1] => x[2] = y[2]

-----------------------------------------------------------------------------
(* The stack of visits.  "next" is what a visit reads next, or "dependency" *)
(* while another visit is above it; "todo" are the relations it has still   *)
(* to follow.  A visit that is cut only reads its object's revision.        *)
Visit(o, via, cut) ==
  [object |-> o, via |-> via, next |-> IF cut = {} THEN "object" ELSE "revision",
   policy |-> None, assurances |-> {}, blockers |-> {Blocker(type, o, None) : type \in cut},
   todo |-> {}, deps |-> <<>>]

Top(e) == Last(e.stack)
WithTop(e, visit) == [e EXCEPT !.stack = Append(Front(@), visit)]

Enter(e, o, via) ==
  LET cut == IF \E i \in DOMAIN e.stack : e.stack[i].object = o THEN {"dependency_cycle"}
             ELSE IF Len(e.stack) > MaxDepth THEN {"depth_limit"}
             ELSE IF e.visited >= MaxNodes THEN {"node_limit"}
             ELSE {}
  IN  [e EXCEPT !.stack = Append(@, Visit(o, via, cut)),
                !.visited = IF cut = {} THEN @ + 1 ELSE @]

Evaluate(root) ==
  Enter([status |-> "running", stack |-> <<>>, visited |-> 0, reads |-> 0, result |-> None], root, None)

(* On to the next dependency, in any fixed order, or to the end.           *)
Descend(e) ==
  LET visit == Top(e)
      relation == CHOOSE r \in visit.todo : TRUE
  IN  IF visit.todo = {} THEN WithTop(e, [visit EXCEPT !.next = "revision"])
      ELSE Enter(WithTop(e, [visit EXCEPT !.next = "dependency"]), relation.to, relation)

(* The visit on top returns to the one that asked for it.                  *)
Leave(e, rev) ==
  LET visit == Top(e)
      result == Result(visit.object, rev, visit.policy, visit.assurances, visit.deps, visit.blockers)
      below == [e EXCEPT !.stack = Front(@)]
      asker == Top(below)
  IN  IF Len(e.stack) = 1 THEN [below EXCEPT !.status = "done", !.result = result]
      ELSE Descend(WithTop(below,
             [asker EXCEPT !.deps = Append(@, [relation |-> visit.via, state |-> result]),
                           !.todo = @ \ {visit.via},
                           !.blockers = @ \cup DependencyBlockers(asker.object, asker.policy.def,
                                                                  visit.via.id, result)]))

(* The evaluation past the read of "value".  An assurance of a kind that is
   not required is not looked at; object_state raises for an object that is
   not there. *)
After(e, value) ==
  LET visit == Top(e)
      def == visit.policy.def
      read == [e EXCEPT !.reads = @ + 1]
  IN  CASE visit.next = "object" ->
             IF value THEN WithTop(read, [visit EXCEPT !.next = "policy"])
             ELSE [read EXCEPT !.status = "raised"]
        [] visit.next = "policy" ->
             WithTop(read, IF value = None
               THEN [visit EXCEPT !.next = "revision",
                                  !.blockers = {Blocker("missing_policy", visit.object, None)}]
               ELSE [visit EXCEPT !.next = "assurance", !.policy = value])
        [] visit.next = "assurance" ->
             WithTop(read, [visit EXCEPT !.next = "incoming",
                              !.assurances = IF def.required THEN {value} \ {None} ELSE {},
                              !.blockers = AssuranceBlockers(visit.object, def, value)])
        [] visit.next = "incoming" ->
             WithTop(read, [visit EXCEPT !.next = IF def.depends = {} THEN "revision" ELSE "outgoing",
                              !.blockers = @ \cup BlockingRelations(visit.object, def, value)])
        [] visit.next = "outgoing" ->
             Descend(WithTop(read, [visit EXCEPT !.todo = {r \in value : r.type \in def.depends}]))
        [] visit.next = "revision" -> Leave(read, value)
=============================================================================
