--------------------------- MODULE MCAffectedness ---------------------------
(* Instances of Affectedness for TLC: a library with a fork and an          *)
(* equivalent build, two revisions of one advisory and one of another.      *)
EXTENDS Affectedness

Embedded == [up |-> "lib", rel |-> "CONTAINS", down |-> "app", scope |-> NoScope]
Forked   == [up |-> "lib", rel |-> "DERIVED_FROM", down |-> "fork", scope |-> NoScope]
Rebuilt  == [up |-> "fork", rel |-> "EQUIVALENT_TO", down |-> "image", scope |-> "s1"]
Shipped  == [up |-> "image", rel |-> "CONTAINS", down |-> "app", scope |-> NoScope]
Renamed  == [up |-> "image", rel |-> "EQUIVALENT_TO", down |-> "app", scope |-> "s2"]
Graph    == {Embedded, Forked, Rebuilt, Shipped, Renamed}

(* Two ways from the library to the application.                           *)
TwoWays  == {Embedded, [Embedded EXCEPT !.rel = "PATCHED_FROM"]}

First   == [rev |-> "e1", event |-> "E", roots |-> {"lib"}]
Second  == [rev |-> "e2", event |-> "E", roots |-> {"lib", "fork"}]
Item(signal, class, scope) == [signal |-> signal, class |-> class, scope |-> scope]
Absent  == Item("MATERIAL_ABSENT", "DERIVED", NoScope)
Fixed   == Item("MITIGATION_ESTABLISHED", "OBSERVED", "s1")
Analysis(evidence, path, basis) ==
  [evidence |-> evidence, scope |-> NoScope, path |-> path, basis |-> basis]

(* One pins an edge that may not be recorded; the other brings entries about
   an edge that it does not pin and about a revision that may be another. *)
Reports ==
  {Analysis({Absent}, {Embedded}, {}),
   Analysis({Absent, Fixed}, {},
            {[kind |-> "lineage_edge", ref |-> Forked], [kind |-> "advisory_revision", ref |-> "e2"]})}

(* The bounds of the code, scaled down to graphs of this size.             *)
Bounds == [depth |-> 2, paths |-> 5, expansions |-> 64, perNode |-> 3, explain |-> 32]

(* Long histories over one edge; large graphs under short histories and one
   refresh at a time. *)
Focus ==
  \/ edges \subseteq {Embedded}
  \/ Len(rows) <= 1 /\ Cardinality({w \in Workers : op[w] # Idle}) <= 1
Revisions == {First, Second}
Symmetry == Permutations(Workers)
=============================================================================
