------------------------------ MODULE Lineage ------------------------------
(***************************************************************************)
(* Bounded path search over the append-only lineage graph (lineage.py) and *)
(* the reconstruction of paths from pinned edges                           *)
(* (affectedness_explain.py).  Both walk breadth first over paths, not     *)
(* over nodes, so what they find does not depend on the order of the       *)
(* edges; the operators build the paths of k edges from those of k - 1.    *)
(*                                                                         *)
(* An edge is [up, rel, down, scope].  Edge identifiers are digests of the *)
(* contents, so an edge stands for its own identifier.                     *)
(***************************************************************************)
EXTENDS Naturals, Sequences, FiniteSets, SequencesExt, FiniteSetsExt

NoScope == "no_scope"
Equivalent == "EQUIVALENT_TO"
Propagating == {"DERIVED_FROM", "CONTAINS", "PATCHED_FROM", "TRANSFORMS", Equivalent}

(* What record_lineage accepts. *)
LegalEdge(e) ==
  /\ e.up # e.down
  /\ e.rel \in {Equivalent, "SUPERSEDES"} => e.scope # NoScope

(* The steps out of a node: an equivalence is also walked backwards. *)
StepsFrom(edges, node) ==
  {[edge |-> e, from |-> node, to |-> e.down, reversed |-> FALSE] :
     e \in {e \in edges : e.up = node}}
  \cup {[edge |-> e, from |-> node, to |-> e.up, reversed |-> TRUE] :
     e \in {e \in edges : e.down = node /\ e.rel = Equivalent}}

(* A partial path: where it is, its steps, the nodes it has seen and the
   scope its equivalences share. *)
Start(node) == [at |-> node, steps |-> <<>>, seen |-> {node}, scope |-> NoScope]

CanTake(p, s) ==
  /\ s.to \notin p.seen
  /\ s.edge.rel = Equivalent => p.scope \in {NoScope, s.edge.scope}

Take(p, s) ==
  [at |-> s.to, steps |-> Append(p.steps, s), seen |-> p.seen \cup {s.to},
   scope |-> IF s.edge.rel = Equivalent THEN s.edge.scope ELSE p.scope]

ExtendAll(edges, ps) ==
  UNION {{Take(p, s) : s \in {s \in StepsFrom(edges, p.at) : CanTake(p, s)}} : p \in ps}

Expansions(edges, ps) ==
  MapThenSumSet(LAMBDA p : Cardinality(StepsFrom(edges, p.at)), ps)

(***************************************************************************)
(* lineage_walk.  "limit" holds max_depth, max_paths, the floor of the     *)
(* number of expansions and the edges read per node.  A walk that spends   *)
(* exactly its last expansion may or may not be called complete in the     *)
(* code, depending on what is left in the queue; here it is not.           *)
(***************************************************************************)
\* Mutant: stopping at the depth limit is not reported.
Walk_SilentDepth(edges, origin, selected, limit) ==
  LET E == {e \in edges : e.rel \in selected}
      level[k \in 0..limit.depth] ==
        IF k = 0 THEN {Start(origin)} ELSE ExtendAll(E, level[k - 1])
      found == UNION {level[k] : k \in 1..limit.depth}
  IN  [paths |-> found, complete |-> Cardinality(found) <= limit.paths]

Walk(edges, origin, selected, limit) ==
  LET E == {e \in edges : e.rel \in selected}
      level[k \in 0..limit.depth] ==
        IF k = 0 THEN {Start(origin)} ELSE ExtendAll(E, level[k - 1])
      expanded == UNION {level[k] : k \in 0..(limit.depth - 1)}
      found == UNION {level[k] : k \in 1..limit.depth}
      budget == Max({limit.expansions, limit.paths * limit.depth * 4})
      reasons ==
        (IF \E p \in level[limit.depth] : StepsFrom(E, p.at) # {} THEN {"max_depth"} ELSE {})
        \cup (IF Cardinality(found) > limit.paths THEN {"max_paths"} ELSE {})
        \cup (IF Expansions(E, expanded) >= budget THEN {"expansion_limit"} ELSE {})
        \cup (IF \E p \in expanded : Cardinality(StepsFrom(E, p.at)) > limit.perNode
              THEN {"per_node_edge_limit"} ELSE {})
  IN  [paths |-> found, complete |-> reasons = {}]

(* lineage_paths fails closed: an incomplete walk is an error. *)
PathsFailClosed(edges, origin, limit) == Walk(edges, origin, Propagating, limit)

(***************************************************************************)
(* _ordered_paths: from the roots to the subject over pinned edges only.   *)
(***************************************************************************)
\* Mutant: the advisory's own references are not preferred.
Roots_InitialOnly(edges, preferred) ==
  LET nodes == UNION {{e.up, e.down} : e \in edges}
      reached == UNION {{s.to : s \in StepsFrom(edges, n)} : n \in nodes}
  IN  IF nodes \ reached # {} THEN nodes \ reached ELSE nodes

Roots(edges, preferred) ==
  LET sources  == {n \in UNION {{e.up, e.down} : e \in edges} : StepsFrom(edges, n) # {}}
      reached  == UNION {{s.to : s \in StepsFrom(edges, n)} : n \in sources}
      known    == preferred \cap sources
      initial  == sources \ reached
  IN  IF known # {} THEN known ELSE IF initial # {} THEN initial ELSE sources

OrderedPaths(edges, subject, preferred, limit) ==
  LET budget == Max({1, Cardinality(edges)})
      level[k \in 0..budget] ==
        IF k = 0 THEN {Start(r) : r \in Roots(edges, preferred)}
        ELSE ExtendAll(edges, {p \in level[k - 1] : p.at # subject \/ p.steps = <<>>})
      expanded == UNION {{p \in level[k] : p.at # subject \/ p.steps = <<>>} : k \in 0..(budget - 1)}
      found == {p \in UNION {level[k] : k \in 1..budget} : p.at = subject}
  IN  [paths    |-> {p.steps : p \in found},
       complete |-> /\ Cardinality(found) <= limit.paths
                    /\ Expansions(edges, expanded) < Max({limit.explain, budget * budget * 8})]

(***************************************************************************)
(* What a path is, said without a search: steps that follow each other,    *)
(* no node twice, and equivalences of one scope only.                      *)
(***************************************************************************)
IsPath(q, origin) ==
  /\ q[1].from = origin
  /\ \A i \in 1..(Len(q) - 1) : q[i].to = q[i + 1].from
  /\ \A i, j \in 1..Len(q) : q[i].to # origin /\ (q[i].to = q[j].to => i = j)
  /\ \A i, j \in 1..Len(q) :
       q[i].edge.rel = Equivalent /\ q[j].edge.rel = Equivalent
         => q[i].edge.scope = q[j].edge.scope

AllPaths(edges, origin) ==
  LET nodes == UNION {{e.up, e.down} : e \in edges}
      steps == UNION {StepsFrom(edges, n) : n \in nodes}
  IN  {q \in UNION {[1..n -> steps] : n \in 1..Max({1, Cardinality(nodes) - 1})} : IsPath(q, origin)}
=============================================================================
