------------------------- MODULE Affectedness_proof -------------------------
(***************************************************************************)
(* Proofs about Lineage and Affectedness for any graph, advisories,        *)
(* subjects, analyses and workers, any limits of the searches and any      *)
(* number of assessments.  First the searches themselves.  Edges,          *)
(* revisions and assessments are only added, so what a candidate or a row  *)
(* was checked for stays true; the inductive invariant collects it:        *)
(* candidates are connected to their advisory (OpsFit, RowsFit), a row     *)
(* continues the one it supersedes (RowLinks), and a final state is what   *)
(* its evidence resolves to (Verdicts).                                    *)
(***************************************************************************)
EXTENDS Affectedness, FiniteSetTheorems, WellFoundedInduction, TLAPS

(* The searches                                                            *)

(* A set of numbers has a least one.                                       *)
LEMMA LeastNatural ==
    ASSUME NEW T, T \subseteq Nat, T # {}
    PROVE  \E a \in T : \A b \in T : a <= b
<1> DEFINE Less == {xy \in Nat \X Nat : xy[1] < xy[2]}
<1>1. IsWellFoundedOn(Less, Nat)
  BY NatLessThanWellFounded DEF OpToRel
<1>2. \A x, y \in Nat : <<y, x>> \notin Less => x <= y
  OBVIOUS
<1> HIDE DEF Less
<1>3. PICK a \in T : \A b \in T : ~ (<<b, a>> \in Less)
  BY <1>1, WFMin, Zenon
<1> QED BY <1>2, <1>3

(* Induction over numbers, said of the set of those that have the property:*)
(* from all the smaller ones, and from the one before.                     *)
LEMMA StrongInductive ==
    ASSUME NEW T, NEW n \in Nat,
           \A k \in 0..n : (\A j \in 0..(k - 1) : j \in T) => k \in T
    PROVE  \A k \in 0..n : k \in T
<1> DEFINE Bad == {k \in 0..n : k \notin T}
<1> SUFFICES ASSUME Bad # {} PROVE FALSE
  OBVIOUS
<1>1. PICK k \in Bad : \A j \in Bad : k <= j
  <2>1. Bad \subseteq Nat
    OBVIOUS
  <2> HIDE DEF Bad
  <2> QED BY <2>1, LeastNatural
<1>2. \A j \in 0..(k - 1) : j \in 0..n /\ ~ (k <= j)
  BY <1>1
<1> QED BY <1>1, <1>2

LEMMA Inductive ==
    ASSUME NEW T, NEW n \in Nat, 0 \in T,
           \A k \in 1..n : k - 1 \in T => k \in T
    PROVE  \A k \in 0..n : k \in T
<1>1. ASSUME NEW k \in 0..n, \A j \in 0..(k - 1) : j \in T PROVE k \in T
  <2>1. CASE k = 0
    BY <2>1
  <2>2. CASE k # 0
    BY <1>1, <2>2
  <2> QED BY <2>1, <2>2
<1> QED BY <1>1, StrongInductive

-----------------------------------------------------------------------------
Nodes(graph) == UNION {{e.up, e.down} : e \in graph}
AllSteps(graph) == UNION {StepsFrom(graph, n) : n \in Nodes(graph)}

(* A path of a graph, whatever its length.                                 *)
Route(q, graph, origin) ==
    /\ q \in Seq(AllSteps(graph))
    /\ Len(q) # 0
    /\ IsPath(q, origin)

Legal(graph) == \A e \in graph : LegalEdge(e)

LEMMA StepFacts ==
    ASSUME NEW graph, NEW n, NEW s \in StepsFrom(graph, n)
    PROVE  /\ s.from = n /\ s.edge \in graph
           /\ n \in Nodes(graph) /\ s.to \in Nodes(graph)
           /\ s \in AllSteps(graph)
           /\ {s.from, s.to} = {s.edge.up, s.edge.down}
<1>1. s.from = n /\ s.edge \in graph /\ {s.from, s.to} = {s.edge.up, s.edge.down}
  BY DEF StepsFrom
<1>2. n \in Nodes(graph) /\ s.to \in Nodes(graph)
  BY <1>1 DEF Nodes
<1> QED BY <1>1, <1>2 DEF AllSteps

LEMMA StepsAre ==
    ASSUME NEW graph, NEW s \in AllSteps(graph)
    PROVE  /\ s \in StepsFrom(graph, s.from)
           /\ s.edge \in graph
           /\ {s.from, s.to} = {s.edge.up, s.edge.down}
           /\ s.from \in Nodes(graph) /\ s.to \in Nodes(graph)
<1>1. PICK n \in Nodes(graph) : s \in StepsFrom(graph, n)
  BY DEF AllSteps
<1> QED BY <1>1, StepFacts

LEMMA NodesFinite ==
    ASSUME NEW graph, IsFiniteSet(graph)
    PROVE  IsFiniteSet(Nodes(graph))
<1> DEFINE Ends == {{e.up, e.down} : e \in graph}
           ends == [e \in graph |-> {e.up, e.down}]
<1>1. IsFiniteSet(Ends)
  <2>1. ends \in Surjection(graph, Ends)
    BY DEF Surjection
  <2> QED BY <2>1, FS_Surjection, Zenon
<1>2. ASSUME NEW N \in Ends PROVE IsFiniteSet(N)
  <2>1. PICK e \in graph : N = {e.up} \cup {e.down}
    OBVIOUS
  <2>2. IsFiniteSet({e.up}) /\ IsFiniteSet({e.down})
    BY FS_Singleton
  <2> QED BY <2>1, <2>2, FS_Union
<1> QED BY <1>1, <1>2, FS_UNION, Zenon DEF Nodes

(* A path sees no node twice, so it is shorter than the graph is large.    *)
LEMMA RoutesAreShort ==
    ASSUME NEW graph, IsFiniteSet(graph), NEW origin, NEW q, Route(q, graph, origin)
    PROVE  /\ Cardinality(Nodes(graph)) \in Nat
           /\ Len(q) \in 1..(Cardinality(Nodes(graph)) - 1)
<1> DEFINE N == Nodes(graph)
           others == N \ {origin}
           to == [i \in 1..Len(q) |-> q[i].to]
<1>1. Len(q) \in Nat /\ Len(q) >= 1 /\ \A i \in 1..Len(q) : q[i] \in AllSteps(graph)
  BY DEF Route
<1>2. IsFiniteSet(N) /\ Cardinality(N) \in Nat
  BY NodesFinite, FS_CardinalityType
<1>3. origin \in N
  BY <1>1, StepsAre DEF Route, IsPath
<1>4. IsFiniteSet(others) /\ Cardinality(others) = Cardinality(N) - 1
  BY <1>2, <1>3, FS_RemoveElement
<1>5. \A i \in 1..Len(q) : q[i].to \in others
  BY <1>1, StepsAre DEF Route, IsPath
<1>6. to \in [1..Len(q) -> others] /\ \A i, j \in 1..Len(q) : to[i] = to[j] => i = j
  BY <1>5 DEF Route, IsPath
<1>7. to \in Injection(1..Len(q), others)
  BY <1>6 DEF Injection, IsInjective
<1>8. Cardinality(1..Len(q)) <= Cardinality(others)
  BY <1>4, <1>7, FS_Injection
<1>9. Cardinality(1..Len(q)) = Len(q)
  BY <1>1, FS_Interval
<1> QED BY <1>1, <1>2, <1>4, <1>8, <1>9

LEMMA MaxOfTwo ==
    ASSUME NEW n \in Int
    PROVE  Max({1, n}) \in Nat /\ Max({1, n}) >= 1 /\ Max({1, n}) >= n
<1>1. \E x \in {1, n} : \A y \in {1, n} : x >= y
  OBVIOUS
<1> QED BY <1>1 DEF Max

(* AllPaths, which enumerates the paths up to a length, leaves none out.   *)
LEMMA AllPathsAreRoutes ==
    ASSUME NEW graph, IsFiniteSet(graph), NEW origin, NEW q
    PROVE  q \in AllPaths(graph, origin) <=> Route(q, graph, origin)
<1> DEFINE N == Nodes(graph)
           longest == Max({1, Cardinality(N) - 1})
<1>1. Cardinality(N) \in Nat
  BY NodesFinite, FS_CardinalityType
<1>2. longest \in Nat /\ longest >= 1 /\ longest >= Cardinality(N) - 1
  BY <1>1, MaxOfTwo
<1>3. AllPaths(graph, origin) =
        {r \in UNION {[1..n -> AllSteps(graph)] : n \in 1..longest} : IsPath(r, origin)}
  BY Zenon DEF AllPaths, Nodes, AllSteps
<1>4. ASSUME Route(q, graph, origin) PROVE q \in AllPaths(graph, origin)
  <2>1. Len(q) \in 1..longest
    BY <1>1, <1>2, <1>4, RoutesAreShort
  <2>2. q \in [1..Len(q) -> AllSteps(graph)]
    BY <1>4 DEF Route
  <2> QED BY <1>3, <1>4, <2>1, <2>2 DEF Route
<1>5. ASSUME q \in AllPaths(graph, origin) PROVE Route(q, graph, origin)
  <2>1. PICK n \in 1..longest : q \in [1..n -> AllSteps(graph)]
    <3>1. q \in UNION {[1..n -> AllSteps(graph)] : n \in 1..longest}
      BY <1>3, <1>5, Zenon
    <3> HIDE DEF longest
    <3> QED BY <3>1
  <2>2. n \in Nat \ {0}
    BY <1>2
  <2>3. q \in Seq(AllSteps(graph)) /\ Len(q) = n
    BY <2>1, <2>2
  <2> QED BY <1>3, <1>5, <2>2, <2>3 DEF Route
<1> QED BY <1>4, <1>5

-----------------------------------------------------------------------------
(* What a partial path keeps of its steps.                                 *)
Tracks(p, graph, origin) ==
    LET n == Len(p.steps) IN
    /\ p.steps \in Seq(AllSteps(graph))
    /\ p.at = IF n = 0 THEN origin ELSE p.steps[n].to
    /\ p.seen = {origin} \cup {p.steps[i].to : i \in 1..n}
    /\ \A i \in 1..n : p.steps[i].edge.rel = Equivalent => p.steps[i].edge.scope = p.scope
    /\ p.scope # NoScope =>
         \E i \in 1..n : p.steps[i].edge.rel = Equivalent /\ p.steps[i].edge.scope = p.scope
    /\ n # 0 => IsPath(p.steps, origin)

LEMMA StartTracks ==
    ASSUME NEW graph, NEW origin
    PROVE  Tracks(Start(origin), graph, origin)
BY DEF Tracks, Start

LEMMA Extended ==
    ASSUME NEW S, NEW q \in Seq(S), NEW s \in S
    PROVE  /\ Append(q, s) \in Seq(S)
           /\ Len(q) \in Nat
           /\ Len(Append(q, s)) = Len(q) + 1
           /\ \A i \in 1..Len(q) : Append(q, s)[i] = q[i]
           /\ Append(q, s)[Len(q) + 1] = s
OBVIOUS

LEMMA TakeTracks ==
    ASSUME NEW graph, Legal(graph), NEW origin, NEW p, Tracks(p, graph, origin),
           NEW s \in StepsFrom(graph, p.at), CanTake(p, s)
    PROVE  /\ Tracks(Take(p, s), graph, origin)
           /\ Len(Take(p, s).steps) = Len(p.steps) + 1
<1> DEFINE q == p.steps
           n == Len(q)
           r == Append(q, s)
           t == Take(p, s)
<1>1. s.from = p.at /\ s.edge \in graph /\ s \in AllSteps(graph)
  BY StepFacts
<1>2. /\ r \in Seq(AllSteps(graph)) /\ n \in Nat /\ Len(r) = n + 1
      /\ \A i \in 1..n : r[i] = q[i]
      /\ r[n + 1] = s
  BY <1>1, Extended DEF Tracks
<1>3. t.at = s.to /\ t.steps = r /\ t.seen = p.seen \cup {s.to}
      /\ t.scope = IF s.edge.rel = Equivalent THEN s.edge.scope ELSE p.scope
  BY DEF Take
<1>4. t.seen = {origin} \cup {r[i].to : i \in 1..(n + 1)}
  BY <1>2, <1>3 DEF Tracks
<1>5. s.edge.rel = Equivalent => s.edge.scope # NoScope
  BY <1>1 DEF Legal, LegalEdge
<1>6. \A i \in 1..n : q[i].edge.rel = Equivalent => p.scope # NoScope
  BY <1>2, StepsAre DEF Tracks, Legal, LegalEdge
<1>7. \A i \in 1..(n + 1) : r[i].edge.rel = Equivalent => r[i].edge.scope = t.scope
  BY <1>2, <1>3, <1>6 DEF Tracks, CanTake
<1>8. t.scope # NoScope => \E i \in 1..(n + 1) : r[i].edge.rel = Equivalent /\ r[i].edge.scope = t.scope
  <2>1. CASE s.edge.rel = Equivalent
    BY <1>2, <1>3, <2>1
  <2>2. CASE s.edge.rel # Equivalent
    BY <1>2, <1>3, <2>2 DEF Tracks
  <2> QED BY <2>1, <2>2
<1>9. IsPath(r, origin)
  <2>1. r[1].from = origin
    BY <1>1, <1>2 DEF Tracks, IsPath
  <2>2. \A i \in 1..n : r[i].to = r[i + 1].from
    BY <1>1, <1>2 DEF Tracks, IsPath
  <2>3. s.to # origin /\ \A i \in 1..n : q[i].to # s.to
    BY <1>2 DEF Tracks, CanTake
  <2>4. \A i, j \in 1..n : q[i].to # origin /\ (q[i].to = q[j].to => i = j)
    BY <1>2 DEF Tracks, IsPath
  <2>5. \A i, j \in 1..(n + 1) : r[i].to # origin /\ (r[i].to = r[j].to => i = j)
    BY <1>2, <2>3, <2>4
  <2> QED BY <1>2, <1>7, <2>1, <2>2, <2>5 DEF IsPath
<1> QED BY <1>2, <1>3, <1>4, <1>7, <1>8, <1>9 DEF Tracks

Prefix(q, n) == [i \in 1..n |-> q[i]]

(* A partial path that follows a path can take its next step.              *)
LEMMA RouteContinues ==
    ASSUME NEW graph, Legal(graph), NEW origin, NEW q, Route(q, graph, origin),
           NEW n \in 0..(Len(q) - 1),
           NEW p, Tracks(p, graph, origin), p.steps = Prefix(q, n)
    PROVE  /\ q[n + 1] \in StepsFrom(graph, p.at)
           /\ CanTake(p, q[n + 1])
           /\ Take(p, q[n + 1]).steps = Prefix(q, n + 1)
<1> DEFINE s == q[n + 1]
<1>1. Len(q) \in Nat /\ n \in Nat /\ n + 1 \in 1..Len(q) /\ \A i \in 1..Len(q) : q[i] \in AllSteps(graph)
  BY DEF Route
<1>2. Len(p.steps) = n /\ \A i \in 1..n : p.steps[i] = q[i]
  BY <1>1 DEF Prefix, Tracks
<1>3. p.at = s.from
  BY <1>1, <1>2 DEF Tracks, Route, IsPath
<1>4. s \in StepsFrom(graph, p.at)
  BY <1>1, <1>3, StepsAre
<1>5. s.to \notin p.seen
  <2>1. s.to # origin /\ \A i \in 1..n : q[i].to # s.to
    BY <1>1 DEF Route, IsPath
  <2> QED BY <1>2, <2>1 DEF Tracks
<1>6. s.edge.rel = Equivalent => p.scope \in {NoScope, s.edge.scope}
  BY <1>1, <1>2 DEF Tracks, Route, IsPath
<1>7. Append(p.steps, s) = Prefix(q, n + 1)
  <2> DEFINE r == Append(p.steps, s)
  <2>1. r \in Seq(AllSteps(graph)) /\ Len(r) = n + 1
        /\ (\A i \in 1..n : r[i] = q[i]) /\ r[n + 1] = s
    BY <1>1, <1>2, Extended DEF Tracks
  <2> HIDE DEF r
  <2>2. r = [i \in 1..(n + 1) |-> r[i]]
    BY <2>1
  <2>3. \A i \in 1..(n + 1) : r[i] = q[i]
    BY <1>1, <2>1
  <2> QED BY <2>2, <2>3 DEF Prefix, r
<1> QED BY <1>4, <1>5, <1>6, <1>7 DEF CanTake, Take

(* The levels of a search exist, one for each depth.                       *)
LevelFunction(l, graph, first, depth) ==
    l = [k \in 0..depth |-> IF k = 0 THEN first ELSE ExtendAll(graph, l[k - 1])]

LEMMA LevelsExist ==
    ASSUME NEW graph, NEW first, NEW depth \in Nat
    PROVE  \E level : LevelFunction(level, graph, first, depth)
<1> DEFINE Upto(n, l) == LevelFunction(l, graph, first, n)
           T == {n \in 0..depth : \E l : Upto(n, l)}
<1>1. 0 \in T
  <2>1. Upto(0, [k \in 0..0 |-> first])
    BY DEF LevelFunction
  <2> HIDE DEF Upto
  <2> QED BY <2>1
<1>2. ASSUME NEW n \in 1..depth, n - 1 \in T PROVE n \in T
  <2>1. PICK l : Upto(n - 1, l)
    BY <1>2
  <2>2. Upto(n, [k \in 0..n |-> IF k = n THEN ExtendAll(graph, l[n - 1]) ELSE l[k]])
    BY <2>1 DEF LevelFunction
  <2> HIDE DEF Upto
  <2> QED BY <2>2
<1> HIDE DEF T
<1>3. depth \in T
  BY <1>1, <1>2, Inductive
<1> QED BY <1>3 DEF T

(* The levels of a walk, one by one.                                       *)
Levels(level, graph, origin, depth) ==
    /\ level[0] = {Start(origin)}
    /\ \A k \in 1..depth : level[k] = ExtendAll(graph, level[k - 1])

LEMMA LevelsAre ==
    ASSUME NEW graph, NEW origin, NEW depth \in Nat, NEW level,
           level = [k \in 0..depth |-> IF k = 0 THEN {Start(origin)} ELSE ExtendAll(graph, level[k - 1])]
    PROVE  Levels(level, graph, origin, depth)
<1> DEFINE same == [k \in 0..depth |-> IF k = 0 THEN {Start(origin)} ELSE ExtendAll(graph, level[k - 1])]
<1>1. level = same
  OBVIOUS
<1>2. same[0] = {Start(origin)}
  OBVIOUS
<1>3. ASSUME NEW k \in 1..depth PROVE same[k] = ExtendAll(graph, level[k - 1])
  <2>1. k \in 0..depth /\ k # 0
    OBVIOUS
  <2> QED BY <2>1, Zenon
<1> HIDE DEF same
<1> QED BY <1>1, <1>2, <1>3, Zenon DEF Levels

-----------------------------------------------------------------------------
(* What a search over levels keeps, and what it cannot miss.               *)
LEMMA LevelsTrack ==
    ASSUME NEW graph, Legal(graph), NEW origin, NEW depth \in Nat, NEW level,
           Levels(level, graph, origin, depth)
    PROVE  \A k \in 0..depth : \A p \in level[k] : Tracks(p, graph, origin) /\ Len(p.steps) = k
<1> DEFINE T == {k \in 0..depth : \A p \in level[k] : Tracks(p, graph, origin) /\ Len(p.steps) = k}
<1>1. 0 \in T
  <2>1. level[0] = {Start(origin)}
    BY DEF Levels
  <2>2. Len(Start(origin).steps) = 0
    BY DEF Start
  <2> QED BY <2>1, <2>2, StartTracks
<1>2. ASSUME NEW k \in 1..depth, k - 1 \in T PROVE k \in T
  <2>1. level[k] = ExtendAll(graph, level[k - 1])
    BY DEF Levels
  <2>2. ASSUME NEW t \in level[k] PROVE Tracks(t, graph, origin) /\ Len(t.steps) = k
    <3>1. PICK p \in level[k - 1] : \E s \in StepsFrom(graph, p.at) : CanTake(p, s) /\ t = Take(p, s)
      BY <2>1 DEF ExtendAll
    <3>2. Tracks(p, graph, origin) /\ Len(p.steps) = k - 1
      BY <1>2
    <3> QED BY <3>1, <3>2, TakeTracks
  <2> QED BY <2>2
<1> HIDE DEF T
<1>3. \A k \in 0..depth : k \in T
  BY <1>1, <1>2, Inductive
<1> QED BY <1>3 DEF T

LEMMA LevelsFollow ==
    ASSUME NEW graph, Legal(graph), NEW origin, NEW depth \in Nat, NEW level,
           Levels(level, graph, origin, depth),
           NEW q, Route(q, graph, origin)
    PROVE  \A k \in 0..depth : k <= Len(q) => \E p \in level[k] : p.steps = Prefix(q, k)
<1> DEFINE T == {k \in 0..depth : k <= Len(q) => \E p \in level[k] : p.steps = Prefix(q, k)}
<1>1. 0 \in T
  <2>1. level[0] = {Start(origin)}
    BY DEF Levels
  <2>2. Start(origin).steps = Prefix(q, 0)
    BY DEF Start, Prefix
  <2> QED BY <2>1, <2>2
<1>2. ASSUME NEW k \in 1..depth, k - 1 \in T PROVE k \in T
  <2> SUFFICES ASSUME k <= Len(q) PROVE \E p \in level[k] : p.steps = Prefix(q, k)
    OBVIOUS
  <2>1. level[k] = ExtendAll(graph, level[k - 1])
    BY DEF Levels
  <2>2. Len(q) \in Nat /\ k - 1 \in 0..(Len(q) - 1) /\ k - 1 \in 0..depth /\ (k - 1) + 1 = k
    BY DEF Route
  <2>3. PICK p \in level[k - 1] : p.steps = Prefix(q, k - 1)
    BY <1>2, <2>2
  <2>4. Tracks(p, graph, origin)
    BY <2>2, LevelsTrack
  <2>5. q[k] \in StepsFrom(graph, p.at) /\ CanTake(p, q[k]) /\ Take(p, q[k]).steps = Prefix(q, k)
    BY <2>2, <2>3, <2>4, RouteContinues
  <2> QED BY <2>1, <2>5 DEF ExtendAll
<1> HIDE DEF T
<1>3. \A k \in 0..depth : k \in T
  BY <1>1, <1>2, Inductive
<1> QED BY <1>3 DEF T

Selected(graph, rels) == {e \in graph : e.rel \in rels}

(* Whatever a walk finds is a path of the edges it selected, and a walk    *)
(* that calls itself complete found every path there is (lineage_walk): a  *)
(* bound is never mistaken for the absence of further descendants.         *)
THEOREM WalkFindsPaths ==
    ASSUME NEW graph, IsFiniteSet(graph), Legal(graph), NEW origin, NEW selected,
           NEW limit, limit.depth \in Nat \ {0},
           NEW walk, walk = Walk(graph, origin, selected, limit)
    PROVE  /\ \A p \in walk.paths :
                 /\ p.steps \in AllPaths(Selected(graph, selected), origin)
                 /\ p.at = p.steps[Len(p.steps)].to
           /\ walk.complete =>
                 {p.steps : p \in walk.paths} = AllPaths(Selected(graph, selected), origin)
<1> DEFINE E == Selected(graph, selected)
           depth == limit.depth
           level[k \in 0..limit.depth] ==
             IF k = 0 THEN {Start(origin)} ELSE ExtendAll(E, level[k - 1])
<1>1. Levels(level, E, origin, depth)
  <2> HIDE DEF E
  <2>1. depth \in Nat
    OBVIOUS
  <2>2. PICK l : LevelFunction(l, E, {Start(origin)}, depth)
    BY <2>1, LevelsExist
  <2>3. LevelFunction(level, E, {Start(origin)}, depth)
    BY <2>2, Zenon DEF LevelFunction
  <2> HIDE DEF level
  <2> QED BY <2>1, <2>3, LevelsAre DEF LevelFunction
<1>2. walk.paths = UNION {level[k] : k \in 1..depth}
  BY DEF Walk, Selected
<1>3. walk.complete => \A p \in level[depth] : StepsFrom(E, p.at) = {}
  BY DEF Walk, Selected
<1>4. IsFiniteSet(E) /\ Legal(E)
  BY FS_Subset DEF Legal, Selected
<1> HIDE DEF level, E
<1>5. \A k \in 0..depth : \A p \in level[k] : Tracks(p, E, origin) /\ Len(p.steps) = k
  BY <1>1, <1>4, LevelsTrack
<1>6. ASSUME NEW p \in walk.paths
      PROVE  p.steps \in AllPaths(E, origin) /\ p.at = p.steps[Len(p.steps)].to
  <2>1. PICK k \in 1..depth : p \in level[k]
    BY <1>2, <1>6
  <2>2. Tracks(p, E, origin) /\ Len(p.steps) = k /\ k # 0
    BY <1>5, <2>1
  <2>3. Route(p.steps, E, origin)
    BY <2>2 DEF Tracks, Route
  <2> QED BY <1>4, <2>2, <2>3, AllPathsAreRoutes DEF Tracks
<1>7. ASSUME walk.complete, NEW q \in AllPaths(E, origin)
      PROVE  \E p \in walk.paths : p.steps = q
  <2>1. Route(q, E, origin)
    BY <1>4, AllPathsAreRoutes
  <2>2. \A k \in 0..depth : k <= Len(q) => \E p \in level[k] : p.steps = Prefix(q, k)
    BY <1>1, <1>4, <2>1, LevelsFollow
  <2>3. Len(q) \in Nat \ {0} /\ Prefix(q, Len(q)) = q
    BY <2>1 DEF Route, Prefix
  <2>4. Len(q) <= depth
    <3> SUFFICES ASSUME Len(q) > depth PROVE FALSE
      BY <2>3
    <3>1. PICK p \in level[depth] : p.steps = Prefix(q, depth)
      BY <2>2, <2>3
    <3>2. q[depth + 1] \in StepsFrom(E, p.at)
      BY <1>4, <1>5, <2>1, <2>3, <3>1, RouteContinues
    <3> QED BY <1>3, <1>7, <3>1, <3>2
  <2> QED BY <1>2, <2>2, <2>3, <2>4
<1>8. \A p \in walk.paths : p.steps \in AllPaths(E, origin) /\ p.at = p.steps[Len(p.steps)].to
  BY <1>6
<1>9. walk.complete => {p.steps : p \in walk.paths} = AllPaths(E, origin)
  BY <1>6, <1>7
<1> QED BY <1>8, <1>9 DEF E

-----------------------------------------------------------------------------
(* The levels of _ordered_paths, which go no further than the subject.     *)
Unfinished(ps, subject) == {p \in ps : p.at # subject \/ p.steps = <<>>}

OrderedFunction(l, graph, subject, first, depth) ==
    l = [k \in 0..depth |->
           IF k = 0 THEN first
           ELSE ExtendAll(graph, Unfinished(l[k - 1], subject))]

LEMMA OrderedExist ==
    ASSUME NEW graph, NEW subject, NEW first, NEW depth \in Nat
    PROVE  \E l : OrderedFunction(l, graph, subject, first, depth)
<1> DEFINE Upto(n, l) == OrderedFunction(l, graph, subject, first, n)
           T == {n \in 0..depth : \E l : Upto(n, l)}
<1>1. 0 \in T
  <2>1. Upto(0, [k \in 0..0 |-> first])
    BY DEF OrderedFunction
  <2> HIDE DEF Upto
  <2> QED BY <2>1
<1>2. ASSUME NEW n \in 1..depth, n - 1 \in T PROVE n \in T
  <2>1. PICK l : Upto(n - 1, l)
    BY <1>2
  <2>2. Upto(n, [k \in 0..n |-> IF k = n THEN ExtendAll(graph, Unfinished(l[n - 1], subject)) ELSE l[k]])
    BY <2>1 DEF OrderedFunction
  <2> HIDE DEF Upto
  <2> QED BY <2>2
<1> HIDE DEF T
<1>3. depth \in T
  BY <1>1, <1>2, Inductive
<1> QED BY <1>3 DEF T

LEMMA OrderedAre ==
    ASSUME NEW graph, NEW subject, NEW first, NEW depth \in Nat, NEW level,
           OrderedFunction(level, graph, subject, first, depth)
    PROVE  /\ level[0] = first
           /\ \A k \in 1..depth : level[k] = ExtendAll(graph, Unfinished(level[k - 1], subject))
<1> DEFINE same == [k \in 0..depth |->
             IF k = 0 THEN first ELSE ExtendAll(graph, Unfinished(level[k - 1], subject))]
<1>1. level = same
  BY DEF OrderedFunction
<1>2. same[0] = first
  OBVIOUS
<1>3. ASSUME NEW k \in 1..depth PROVE same[k] = ExtendAll(graph, Unfinished(level[k - 1], subject))
  <2>1. k \in 0..depth /\ k # 0
    OBVIOUS
  <2> QED BY <2>1, Zenon
<1> HIDE DEF same
<1> QED BY <1>1, <1>2, <1>3, Zenon

(* A path takes no edge twice, not even an equivalence back and forth.     *)
LEMMA RoutesUseEdgesOnce ==
    ASSUME NEW graph, IsFiniteSet(graph), NEW origin, NEW q, Route(q, graph, origin)
    PROVE  Cardinality(graph) \in Nat /\ Len(q) \in 1..Cardinality(graph)
<1> DEFINE n == Len(q)
           edge == [i \in 1..n |-> q[i].edge]
<1>1. n \in Nat /\ n >= 1 /\ \A i \in 1..n : q[i] \in AllSteps(graph)
  BY DEF Route
<1>2. \A i \in 1..n : q[i].edge \in graph /\ {q[i].from, q[i].to} = {q[i].edge.up, q[i].edge.down}
  BY <1>1, StepsAre
<1>3. ASSUME NEW i \in 1..n, NEW j \in 1..n, q[i].to = q[j].from PROVE j = i + 1
  <2>1. j # 1
    BY <1>3 DEF Route, IsPath
  <2>2. j - 1 \in 1..n /\ j - 1 \in 1..(n - 1) /\ (j - 1) + 1 = j
    BY <1>1, <2>1
  <2>3. q[j - 1].to = q[j].from
    BY <2>2 DEF Route, IsPath
  <2>4. j - 1 = i
    BY <1>3, <2>2, <2>3 DEF Route, IsPath
  <2> QED BY <2>4
<1>4. ASSUME NEW i \in 1..n, NEW j \in 1..n, q[i].edge = q[j].edge, i # j PROVE FALSE
  <2>1. {q[i].from, q[i].to} = {q[j].from, q[j].to}
    BY <1>2, <1>4
  <2>2. q[i].to # q[j].to
    BY <1>4 DEF Route, IsPath
  <2>3. q[i].to = q[j].from /\ q[j].to = q[i].from
    BY <2>1, <2>2
  <2>4. j = i + 1 /\ i = j + 1
    BY <1>3, <2>3
  <2> QED BY <2>4
<1>5. edge \in [1..n -> graph] /\ \A i, j \in 1..n : edge[i] = edge[j] => i = j
  BY <1>2, <1>4
<1>6. edge \in Injection(1..n, graph)
  BY <1>5 DEF Injection, IsInjective
<1>7. Cardinality(1..n) <= Cardinality(graph)
  BY <1>6, FS_Injection
<1>8. Cardinality(1..n) = n /\ Cardinality(graph) \in Nat
  BY <1>1, FS_Interval, FS_CardinalityType
<1> QED BY <1>1, <1>7, <1>8

(* The explanation of a path, _ordered_paths, finds over the given edges   *)
(* alone every path from a preferred node that reaches the subject at its  *)
(* end and not before, whether it calls itself complete or not.            *)
THEOREM ExplanationFindsPaths ==
    ASSUME NEW graph, IsFiniteSet(graph), Legal(graph), NEW subject, NEW preferred, NEW limit,
           NEW origin \in preferred, NEW q \in AllPaths(graph, origin),
           q[Len(q)].to = subject, \A k \in 1..(Len(q) - 1) : q[k].to # subject
    PROVE  q \in OrderedPaths(graph, subject, preferred, limit).paths
<1> DEFINE n == Len(q)
           budget == Max({1, Cardinality(graph)})
           first == {Start(r) : r \in Roots(graph, preferred)}
           level[k \in 0..Max({1, Cardinality(graph)})] ==
             IF k = 0 THEN {Start(r) : r \in Roots(graph, preferred)}
             ELSE ExtendAll(graph, {p \in level[k - 1] : p.at # subject \/ p.steps = <<>>})
<1>1. Route(q, graph, origin) /\ n \in Nat /\ n >= 1 /\ n <= Cardinality(graph) /\ Cardinality(graph) \in Nat
  BY AllPathsAreRoutes, RoutesUseEdgesOnce
<1>2. budget \in Nat /\ n <= budget
  BY <1>1, MaxOfTwo
<1>3. /\ level[0] = first
      /\ \A k \in 1..budget : level[k] = ExtendAll(graph, Unfinished(level[k - 1], subject))
  <2>1. PICK l : OrderedFunction(l, graph, subject, first, budget)
    BY <1>2, OrderedExist
  <2>2. OrderedFunction(level, graph, subject, first, budget)
    BY <2>1, Zenon DEF OrderedFunction, Unfinished
  <2> HIDE DEF level, first, budget
  <2> QED BY <1>2, <2>2, OrderedAre
<1>4. OrderedPaths(graph, subject, preferred, limit).paths =
        {p.steps : p \in {p \in UNION {level[k] : k \in 1..budget} : p.at = subject}}
  BY DEF OrderedPaths
<1> HIDE DEF level, budget
<1>5. origin \in Roots(graph, preferred)
  <2>1. q[1] \in StepsFrom(graph, origin) /\ origin \in Nodes(graph)
    BY <1>1, StepsAre DEF Route, IsPath
  <2> QED BY <2>1 DEF Roots, Nodes
<1> DEFINE T == {k \in 0..n : \E p \in level[k] : Tracks(p, graph, origin) /\ p.steps = Prefix(q, k)}
<1>6. 0 \in T
  <2>1. Start(origin) \in level[0]
    BY <1>3, <1>5
  <2>2. Start(origin).steps = Prefix(q, 0)
    BY DEF Start, Prefix
  <2> QED BY <1>1, <2>1, <2>2, StartTracks
<1>7. ASSUME NEW k \in 1..n, k - 1 \in T PROVE k \in T
  <2>1. PICK p \in level[k - 1] : Tracks(p, graph, origin) /\ p.steps = Prefix(q, k - 1)
    BY <1>7
  <2>2. k - 1 \in 0..(n - 1) /\ (k - 1) + 1 = k /\ k \in 1..budget
    BY <1>1, <1>2
  <2>3. q[k] \in StepsFrom(graph, p.at) /\ CanTake(p, q[k]) /\ Take(p, q[k]).steps = Prefix(q, k)
    BY <1>1, <2>1, <2>2, RouteContinues
  <2>4. Tracks(Take(p, q[k]), graph, origin)
    BY <2>1, <2>3, TakeTracks
  <2>5. p \in Unfinished(level[k - 1], subject)
    <3>1. CASE k = 1
      BY <2>1, <3>1 DEF Unfinished, Prefix
    <3>2. CASE k # 1
      <4>1. Len(p.steps) = k - 1 /\ p.steps[k - 1] = q[k - 1] /\ k - 1 \in 1..(n - 1)
        BY <1>1, <2>1, <2>2, <3>2 DEF Prefix, Tracks
      <4>2. p.at = q[k - 1].to
        BY <2>1, <3>2, <4>1 DEF Tracks
      <4> QED BY <2>1, <4>1, <4>2 DEF Unfinished
    <3> QED BY <3>1, <3>2
  <2>6. Take(p, q[k]) \in level[k]
    BY <1>3, <2>2, <2>3, <2>5 DEF ExtendAll
  <2> QED BY <2>3, <2>4, <2>6
<1> HIDE DEF T
<1>8. n \in T
  <2> HIDE DEF n
  <2>1. \A k \in 0..n : k \in T
    BY <1>1, <1>6, <1>7, Inductive
  <2> QED BY <1>1, <2>1
<1>9. PICK p \in level[n] : Tracks(p, graph, origin) /\ p.steps = Prefix(q, n)
  BY <1>8 DEF T
<1>10. p.steps = q
  BY <1>1, <1>9 DEF Prefix, Route
<1>11. p.at = subject
  BY <1>1, <1>9, <1>10 DEF Tracks
<1> QED BY <1>1, <1>2, <1>4, <1>9, <1>10, <1>11

-----------------------------------------------------------------------------
(* Assessments                                                             *)

USE EdgesLegal, LimitIsPos, AdvisoriesNamed, RevisionsIdentified

(* The edges pinned for a subject hold a path to it from the advisory.     *)
Connected(a, c) ==
    \E o \in a.roots : \E q \in AllPaths(c.path, o) : q[Len(q)].to = c.subject

Sourced(a, c) == c.path \subseteq edges /\ Connected(a, c)

(* What a refresh holds between its transactions.                          *)
OpFit(w) ==
    /\ op[w].kind \in {"idle", "refresh", "record"}
    /\ op[w].kind # "idle" =>
          /\ op[w].of \in published
          /\ \A c \in op[w].todo : Sourced(op[w].of, c)
    /\ op[w].kind = "refresh" => op[w].todo # {}
    /\ op[w].kind = "record" =>
          LET row == op[w].row
          IN  /\ row = CandidateRow(op[w].of, [subject |-> row.subject, path |-> row.path], row.super)
              /\ row.super \in 0..Len(rows)
              /\ Sourced(op[w].of, row)

OpsFit == DOMAIN op = Workers /\ \A w \in Workers : OpFit(w)

(* A row follows an earlier one of its subject, whose event it keeps.      *)
RowLinks ==
    \A i \in Rows :
        /\ rows[i].super \in 0..(i - 1)
        /\ rows[i].super # 0 =>
              /\ rows[i].subject = rows[rows[i].super].subject
              /\ rows[rows[i].super].event \in {None, rows[i].event}

(* A final state is what its evidence resolves to.                         *)
Verdicts ==
    \A i \in Rows : rows[i].state \in Final => Resolve(rows[i].evidence, rows[i].scope) = rows[i].state

RowFits(r) ==
    /\ r.event \in Events \cup {None}
    /\ r.state \in States
    /\ Closed({}, r.rev, r.path) \subseteq r.basis
    /\ r.candidate => r.path \subseteq edges /\ r.basis = Closed({}, r.rev, r.path)
    /\ \E a \in published : a.rev = r.rev /\ (r.candidate => Connected(a, r))

RowsFit == \A i \in Rows : RowFits(rows[i])

IInv ==
    /\ edges \subseteq Edges /\ IsFiniteSet(edges)
    /\ published \subseteq Advisories
    /\ rows \in Seq(Range(rows))
    /\ OpsFit
    /\ RowLinks
    /\ Verdicts
    /\ RowsFit

-----------------------------------------------------------------------------
(* t is s with r at its end.                                               *)
GrownBy(t, s, r) ==
    /\ t \in Seq(Range(t))
    /\ Len(s) \in Nat
    /\ DOMAIN s = 1..Len(s)
    /\ Len(t) = Len(s) + 1
    /\ DOMAIN t = 1..(Len(s) + 1)
    /\ \A i \in 1..Len(s) : t[i] = s[i]
    /\ t[Len(s) + 1] = r

LEMMA Grows ==
    ASSUME NEW s, s \in Seq(Range(s)), NEW r
    PROVE  GrownBy(Append(s, r), s, r)
<1> DEFINE S == Range(s) \cup {r}
           t == Append(s, r)
<1>1. s \in Seq(S)
  <2>1. Len(s) \in Nat /\ DOMAIN s = 1..Len(s)
    BY SMT
  <2>2. \A i \in DOMAIN s : s[i] \in S
    BY DEF Range
  <2>3. s = [i \in 1..Len(s) |-> s[i]]
    BY <2>1, SMT
  <2> QED BY <2>1, <2>2, <2>3, SMT
<1>2. t \in Seq(S) /\ Len(s) \in Nat /\ DOMAIN s = 1..Len(s)
      /\ Len(t) = Len(s) + 1 /\ DOMAIN t = 1..(Len(s) + 1)
      /\ (\A i \in 1..Len(s) : t[i] = s[i]) /\ t[Len(s) + 1] = r
  BY <1>1
<1>3. t \in Seq(Range(t))
  BY <1>2 DEF Range
<1> QED BY <1>2, <1>3 DEF GrownBy

LEMMA GraphFacts ==
    ASSUME edges \subseteq Edges, IsFiniteSet(edges), NEW part, part \subseteq edges
    PROVE  IsFiniteSet(part) /\ Legal(part)
BY FS_Subset DEF Legal

(* A path remains one among any edges that include its own.                *)
LEMMA RoutesKeep ==
    ASSUME NEW all, NEW part, NEW origin, NEW q, Route(q, all, origin),
           \A i \in 1..Len(q) : q[i].edge \in part
    PROVE  Route(q, part, origin)
<1>1. Len(q) \in Nat /\ q = [i \in 1..Len(q) |-> q[i]] /\ \A i \in 1..Len(q) : q[i] \in AllSteps(all)
  BY DEF Route
<1>2. ASSUME NEW i \in 1..Len(q) PROVE q[i] \in AllSteps(part)
  <2>1. q[i] \in StepsFrom(all, q[i].from)
    BY <1>1, StepsAre
  <2>2. q[i] \in StepsFrom(part, q[i].from)
    BY <2>1 DEF StepsFrom
  <2> QED BY <2>2, StepFacts
<1>3. q \in Seq(AllSteps(part))
  BY <1>1, <1>2
<1> QED BY <1>3 DEF Route

(* Every candidate comes with edges that connect it (find_potentially_affected). *)
LEMMA CandidatesSourced ==
    ASSUME edges \subseteq Edges, IsFiniteSet(edges), NEW a, NEW c \in CandidatesOf(a)
    PROVE  Sourced(a, c)
<1> DEFINE E == Selected(edges, Propagating)
<1>1. IsFiniteSet(edges) /\ Legal(edges) /\ IsFiniteSet(E) /\ E \subseteq edges
  BY GraphFacts DEF Selected
<1>2. ASSUME NEW p \in Found(a)
      PROVE  \E o \in a.roots : Route(p.steps, E, o) /\ p.at = p.steps[Len(p.steps)].to
  <2>1. PICK o \in a.roots : p \in Walk(edges, o, Propagating, Limit).paths
    BY DEF Found, PathsFailClosed
  <2>2. p.steps \in AllPaths(E, o) /\ p.at = p.steps[Len(p.steps)].to
    BY <1>1, <2>1, WalkFindsPaths
  <2>3. Route(p.steps, E, o)
    BY <1>1, <2>2, AllPathsAreRoutes
  <2> QED BY <2>2, <2>3
<1>3. PICK s \in {p.at : p \in Found(a)} :
        c = [subject |-> s,
             path |-> UNION {{p.steps[k].edge : k \in DOMAIN p.steps} : p \in {p \in Found(a) : p.at = s}}]
  BY DEF CandidatesOf
<1>4. PICK p \in Found(a) : p.at = c.subject
  BY <1>3
<1>5. PICK o \in a.roots : Route(p.steps, E, o) /\ p.at = p.steps[Len(p.steps)].to
  BY <1>2
<1>6. c.path \subseteq edges
  <2>1. ASSUME NEW e \in c.path PROVE e \in edges
    <3>1. PICK r \in Found(a) : \E k \in DOMAIN r.steps : e = r.steps[k].edge
      BY <1>3
    <3>2. PICK k \in DOMAIN r.steps : e = r.steps[k].edge
      BY <3>1
    <3>3. r.steps[k] \in AllSteps(E)
      BY <1>2, <3>2 DEF Route
    <3>4. e \in E
      BY <3>2, <3>3, StepsAre
    <3> QED BY <1>1, <3>4
  <2> QED BY <2>1
<1>7. \A i \in 1..Len(p.steps) : p.steps[i].edge \in c.path
  BY <1>3, <1>4, <1>5 DEF Route
<1>8. Route(p.steps, c.path, o)
  BY <1>5, <1>7, RoutesKeep
<1>9. p.steps \in AllPaths(c.path, o)
  BY <1>6, <1>8, AllPathsAreRoutes, GraphFacts
<1> QED BY <1>4, <1>5, <1>6, <1>9 DEF Sourced, Connected

-----------------------------------------------------------------------------
(* Edges and revisions are added without disturbing what is there.         *)
LEMMA GraphGrows ==
    ASSUME IInv, UNCHANGED <<rows, op>>,
           edges \subseteq edges', edges' \subseteq Edges, IsFiniteSet(edges'),
           published \subseteq published', published' \subseteq Advisories
    PROVE  IInv'
<1>1. \A a, c : Sourced(a, c) => Sourced(a, c)'
  BY DEF Sourced, Connected
<1>2. ASSUME NEW w \in Workers PROVE OpFit(w)'
  BY <1>1 DEF IInv, OpsFit, OpFit, CandidateRow, Closed
<1>3. ASSUME NEW i \in Rows PROVE RowFits(rows[i])'
  BY DEF IInv, RowsFit, RowFits, Connected
<1>4. RowsFit'
  BY <1>3 DEF RowsFit, Rows
<1>5. RowLinks' /\ Verdicts'
  BY DEF IInv, RowLinks, Verdicts, Rows
<1> QED BY <1>2, <1>4, <1>5 DEF IInv, OpsFit

(* A step of one refresh that leaves the stores alone.                     *)
LEMMA OpMoves ==
    ASSUME IInv, NEW w \in Workers, NEW o, op' = [op EXCEPT ![w] = o],
           UNCHANGED <<edges, published, rows>>, OpFit(w)'
    PROVE  IInv'
<1>1. ASSUME NEW v \in Workers PROVE OpFit(v)'
  <2>1. CASE v = w
    BY <2>1
  <2>2. CASE v # w
    <3>1. op'[v] = op[v]
      BY <2>2 DEF IInv, OpsFit
    <3> QED BY <3>1 DEF IInv, OpsFit, OpFit, Sourced
  <2> QED BY <2>1, <2>2
<1>2. OpsFit'
  BY <1>1 DEF IInv, OpsFit
<1>3. RowLinks' /\ Verdicts' /\ RowsFit'
  BY DEF IInv, RowLinks, Verdicts, RowsFit, RowFits, Rows
<1> QED BY <1>2, <1>3 DEF IInv

(* A row that record_assessment accepts.                                   *)
LEMMA RowRecorded ==
    ASSUME IInv, NEW r, Record(r), RowFits(r), r.super \in 0..Len(rows),
           r.super # 0 =>
              /\ r.subject = rows[r.super].subject
              /\ rows[r.super].event \in {None, r.event},
           r.state \in Final => Resolve(r.evidence, r.scope) = r.state,
           UNCHANGED <<edges, published>>
    PROVE  /\ rows' \in Seq(Range(rows'))
           /\ RowLinks' /\ Verdicts' /\ RowsFit'
           /\ Len(rows) \in Nat /\ Len(rows') \in Nat /\ Len(rows) <= Len(rows')
<1>1. CASE rows' = rows
  BY <1>1 DEF IInv, RowLinks, Verdicts, RowsFit, RowFits, Rows
<1>2. CASE rows' = Append(rows, r)
  <2> DEFINE n == Len(rows)
  <2>1. /\ rows' \in Seq(Range(rows'))
        /\ n \in Nat /\ DOMAIN rows = 1..n
        /\ Len(rows') = n + 1 /\ DOMAIN rows' = 1..(n + 1)
        /\ \A i \in 1..n : rows'[i] = rows[i]
        /\ rows'[n + 1] = r
    <3>1. rows \in Seq(Range(rows))
      BY DEF IInv
    <3>2. GrownBy(rows', rows, r)
      BY <1>2, <3>1, Grows
    <3> QED BY <3>2 DEF GrownBy
  <2>2. RowLinks'
    <3>1. ASSUME NEW i \in 1..n
          PROVE  /\ rows'[i].super \in 0..(i - 1)
                 /\ rows'[i].super # 0 =>
                       /\ rows'[i].subject = rows'[rows'[i].super].subject
                       /\ rows'[rows'[i].super].event \in {None, rows'[i].event}
      BY <2>1 DEF IInv, RowLinks, Rows
    <3>2. /\ rows'[n + 1].super \in 0..n
          /\ rows'[n + 1].super # 0 =>
                /\ rows'[n + 1].subject = rows'[rows'[n + 1].super].subject
                /\ rows'[rows'[n + 1].super].event \in {None, rows'[n + 1].event}
      BY <2>1
    <3> QED BY <2>1, <3>1, <3>2 DEF RowLinks, Rows
  <2>3. Verdicts'
    BY <2>1 DEF IInv, Verdicts, Rows
  <2>4. RowsFit'
    BY <2>1 DEF IInv, RowsFit, RowFits, Rows
  <2> QED BY <2>1, <2>2, <2>3, <2>4
<1> QED BY <1>1, <1>2 DEF Record

LEMMA OpsKept ==
    ASSUME IInv, UNCHANGED <<edges, published>>,
           Len(rows) \in Nat, Len(rows') \in Nat, Len(rows) <= Len(rows'),
           NEW w \in Workers, op'[w] = op[w]
    PROVE  OpFit(w)'
BY DEF IInv, OpsFit, OpFit, Sourced, CandidateRow, Closed

-----------------------------------------------------------------------------
(* The steps.                                                              *)
LEMMA ResolveState ==
    ASSUME NEW evidence, NEW scope
    PROVE  Resolve(evidence, scope) \in States
BY DEF Resolve, States, Final

LEMMA AddsEdge ==
    ASSUME IInv, NEW e \in Edges, RecordLineage(e)
    PROVE  IInv'
BY FS_AddElement, GraphGrows DEF RecordLineage, IInv

LEMMA AddsRevision ==
    ASSUME IInv, NEW a \in Advisories, RecordAdverseEvent(a)
    PROVE  IInv'
BY GraphGrows DEF RecordAdverseEvent, IInv

LEMMA Starts ==
    ASSUME IInv, NEW w \in Workers, NEW a \in Advisories, RefreshStart(w, a)
    PROVE  IInv'
<1>1. \A c \in CandidatesOf(a) : Sourced(a, c)
  BY CandidatesSourced DEF IInv
<1> DEFINE o == [kind |-> "refresh", of |-> a, todo |-> CandidatesOf(a)]
<1>2. /\ op' = [op EXCEPT ![w] = o] /\ op'[w] = o /\ UNCHANGED <<edges, published, rows>>
      /\ a \in published /\ CandidatesOf(a) # {}
  BY DEF RefreshStart, IInv, OpsFit
<1>3. OpFit(w)'
  BY <1>1, <1>2 DEF OpFit, Sourced
<1> HIDE DEF o
<1> QED BY <1>2, <1>3, OpMoves

LEMMA FindsPredecessor ==
    ASSUME IInv, NEW w \in Workers, FindPredecessor(w)
    PROVE  IInv'
<1> DEFINE a == op[w].of
           c == CHOOSE c \in op[w].todo : TRUE
           rest == op[w].todo \ {c}
           generated == {i \in Heads(a.rev) : rows[i].subject = c.subject /\ IsCandidate(rows[i])}
           super == IF Cardinality(generated) = 1 THEN CHOOSE i \in generated : TRUE ELSE 0
           row == CandidateRow(a, c, super)
           next == [kind |-> "record", of |-> a, todo |-> rest, row |-> row]
<1>1. op[w].kind = "refresh" /\ OpFit(w) /\ UNCHANGED <<edges, published, rows>>
  BY DEF FindPredecessor, IInv, OpsFit
<1>2. a \in published /\ (\A d \in op[w].todo : Sourced(a, d)) /\ op[w].todo # {}
  BY <1>1 DEF OpFit
<1>3. op' = [op EXCEPT ![w] = After(a, rest)] \/ op' = [op EXCEPT ![w] = next]
  BY Zenon DEF FindPredecessor
<1>4. c \in op[w].todo
  BY <1>2
<1>5. super \in 0..Len(rows)
  <2>1. generated \subseteq 1..Len(rows) /\ Len(rows) \in Nat
    BY DEF Heads, Rows, IInv
  <2>2. CASE Cardinality(generated) = 1
    <3>1. generated # {}
      BY <2>2, FS_EmptySet
    <3> HIDE DEF generated
    <3>2. super \in generated
      BY <2>2, <3>1
    <3> HIDE DEF super
    <3> QED BY <2>1, <3>2
  <2>3. CASE Cardinality(generated) # 1
    BY <2>1, <2>3
  <2> QED BY <2>2, <2>3
<1> HIDE DEF a, c, super
<1>6. row.subject = c.subject /\ row.path = c.path /\ row.super = super
      /\ row = CandidateRow(a, [subject |-> row.subject, path |-> row.path], row.super)
  BY DEF CandidateRow
<1>7. CASE op' = [op EXCEPT ![w] = After(a, rest)]
  <2>1. op'[w] = After(a, rest)
    BY <1>7 DEF IInv, OpsFit
  <2>2. OpFit(w)'
    BY <1>1, <1>2, <2>1 DEF OpFit, After, Idle, Sourced
  <2> QED BY <1>1, <1>7, <2>2, OpMoves
<1>8. CASE op' = [op EXCEPT ![w] = next]
  <2>1. op'[w] = next
    BY <1>8 DEF IInv, OpsFit
  <2>2. Sourced(a, row)
    BY <1>2, <1>4, <1>6 DEF Sourced, Connected
  <2> HIDE DEF row
  <2>3. OpFit(w)'
    BY <1>1, <1>2, <1>5, <1>6, <2>1, <2>2 DEF OpFit, Sourced
  <2> HIDE DEF next
  <2> QED BY <1>1, <1>8, <2>3, OpMoves
<1> QED BY <1>3, <1>7, <1>8

LEMMA RecordsCandidate ==
    ASSUME IInv, NEW w \in Workers, RecordCandidate(w)
    PROVE  IInv'
<1>1. PICK o : o = op[w]
  OBVIOUS
<1>2. PICK r : r = o.row
  OBVIOUS
<1>3. o.kind = "record" /\ OpFit(w) /\ Recordable(r) /\ Record(r) /\ UNCHANGED <<edges, published>>
      /\ op' = [op EXCEPT ![w] = After(o.of, o.todo)]
  BY <1>1, <1>2 DEF RecordCandidate, IInv, OpsFit
<1>4. o.of \in published /\ o.of \in Advisories /\ (\A c \in o.todo : Sourced(o.of, c))
      /\ Sourced(o.of, r) /\ r.super \in 0..Len(rows)
      /\ r = CandidateRow(o.of, [subject |-> r.subject, path |-> r.path], r.super)
  BY <1>1, <1>2, <1>3 DEF OpFit, IInv
<1>5. /\ r.event = o.of.event /\ r.rev = o.of.rev /\ r.state = "POTENTIALLY_AFFECTED"
      /\ r.basis = Closed({}, r.rev, r.path) /\ r.candidate = TRUE
  BY <1>4 DEF CandidateRow
<1>6. r.event \in Events /\ r.event # None
  BY <1>4, <1>5
<1>7. RowFits(r)
  BY <1>4, <1>5, <1>6 DEF RowFits, Sourced, States
<1>8. r.super # 0 => r.subject = rows[r.super].subject /\ rows[r.super].event \in {None, r.event}
  BY <1>3, <1>6 DEF Recordable, MaySupersede
<1>9. r.state \notin Final
  BY <1>5 DEF Final
<1>10. /\ rows' \in Seq(Range(rows'))
       /\ RowLinks' /\ Verdicts' /\ RowsFit'
       /\ Len(rows) \in Nat /\ Len(rows') \in Nat /\ Len(rows) <= Len(rows')
  BY <1>3, <1>4, <1>7, <1>8, <1>9, RowRecorded
<1>11. ASSUME NEW v \in Workers PROVE OpFit(v)'
  <2>1. CASE v = w
    <3>1. op'[w] = After(o.of, o.todo)
      BY <1>3 DEF IInv, OpsFit
    <3> QED BY <1>3, <1>4, <2>1, <3>1 DEF OpFit, After, Idle, Sourced
  <2>2. CASE v # w
    <3>1. op'[v] = op[v]
      BY <1>3, <2>2 DEF IInv, OpsFit
    <3> QED BY <1>3, <1>10, <3>1, OpsKept
  <2> QED BY <2>1, <2>2
<1> QED BY <1>3, <1>10, <1>11 DEF IInv, OpsFit

LEMMA Stops ==
    ASSUME IInv, NEW w \in Workers, RefreshStops(w)
    PROVE  IInv'
<1>1. op' = [op EXCEPT ![w] = Idle] /\ op'[w] = Idle /\ UNCHANGED <<edges, published, rows>>
  BY DEF RefreshStops, IInv, OpsFit
<1>2. OpFit(w)'
  BY <1>1 DEF OpFit, Idle
<1> QED BY <1>1, <1>2, OpMoves

LEMMA Assesses ==
    ASSUME IInv, NEW a \in Advisories, NEW s, NEW event \in Events \cup {None}, NEW x,
           NEW super \in {0} \cup Rows, Assess(a, s, event, x, super)
    PROVE  IInv'
<1> DEFINE row == [event |-> Inherited(super, a.rev, event), rev |-> a.rev, subject |-> s,
                   state |-> Resolve(x.evidence, x.scope), evidence |-> x.evidence,
                   scope |-> x.scope, path |-> x.path,
                   basis |-> Closed(x.basis, a.rev, x.path), candidate |-> FALSE, super |-> super]
<1>1. PICK r : r = row
  OBVIOUS
<1>2. /\ r.event = Inherited(super, a.rev, event) /\ r.rev = a.rev
      /\ r.state = Resolve(r.evidence, r.scope)
      /\ r.basis = Closed(x.basis, r.rev, r.path) /\ r.candidate = FALSE /\ r.super = super
  BY <1>1
<1>3. a \in published /\ Recordable(r) /\ Record(r) /\ UNCHANGED <<edges, published, op>>
  BY <1>1 DEF Assess
<1> HIDE DEF row
<1>4. super \in 0..Len(rows)
  BY DEF IInv, Rows
<1>5. r.event \in Events \cup {None}
  BY <1>2 DEF Inherited, IInv, RowsFit, RowFits
<1>6. RowFits(r)
  BY <1>2, <1>3, <1>5, ResolveState DEF RowFits, Closed
<1>7. r.super # 0 => r.subject = rows[r.super].subject /\ rows[r.super].event \in {None, r.event}
  BY <1>2, <1>3 DEF Recordable, MaySupersede, Inherited
<1>8. /\ rows' \in Seq(Range(rows'))
      /\ RowLinks' /\ Verdicts' /\ RowsFit'
      /\ Len(rows) \in Nat /\ Len(rows') \in Nat /\ Len(rows) <= Len(rows')
  BY <1>2, <1>3, <1>4, <1>6, <1>7, RowRecorded
<1>9. \A w \in Workers : OpFit(w)'
  BY <1>3, <1>8, OpsKept
<1> QED BY <1>3, <1>8, <1>9 DEF IInv, OpsFit

LEMMA AnalystKeeps ==
    ASSUME IInv, Analyst
    PROVE  IInv'
<1>1. PICK a \in Advisories, s \in Subjects, event \in Events \cup {None}, x \in Analyses :
        \E super \in {0} \cup Rows : Assess(a, s, event, x, super)
  BY DEF Analyst
<1> QED BY <1>1, Assesses

LEMMA InitHolds == Init => IInv
BY FS_EmptySet DEF Init, IInv, OpsFit, OpFit, Idle, RowLinks, Verdicts, RowsFit, Rows, Range

LEMMA NextKeeps == IInv /\ [Next]_vars => IInv'
<1> SUFFICES ASSUME IInv, [Next]_vars PROVE IInv'
  OBVIOUS
<1>1. CASE UNCHANGED vars
  BY <1>1, GraphGrows DEF vars, IInv
<1>2. ASSUME NEW e \in Edges, RecordLineage(e) PROVE IInv'
  BY <1>2, AddsEdge
<1>3. ASSUME NEW a \in Advisories, RecordAdverseEvent(a) PROVE IInv'
  BY <1>3, AddsRevision
<1>4. CASE Analyst
  BY <1>4, AnalystKeeps
<1>5. ASSUME NEW w \in Workers, Refresh(w) PROVE IInv'
  BY <1>5, Starts, FindsPredecessor, RecordsCandidate, Stops DEF Refresh
<1> QED BY <1>1, <1>2, <1>3, <1>4, <1>5 DEF Next

-----------------------------------------------------------------------------
(* What more evidence can do to a verdict.                                 *)
LEMMA NotMany ==
    ASSUME NEW S, IsFiniteSet(S), ~ (Cardinality(S) > 1), NEW x \in S, NEW y \in S
    PROVE  x = y
<1> SUFFICES ASSUME x # y PROVE FALSE
  OBVIOUS
<1>1. IsFiniteSet(S \ {x}) /\ Cardinality(S \ {x}) = Cardinality(S) - 1
  BY FS_RemoveElement
<1>2. Cardinality(S) \in Nat /\ Cardinality(S \ {x}) \in Nat
  BY <1>1, FS_CardinalityType
<1>3. Cardinality(S \ {x}) = 0
  BY <1>1, <1>2
<1>4. S \ {x} = {}
  BY <1>1, <1>3, FS_EmptySet
<1> QED BY <1>4

TerminalOf(evidence) ==
  {x.signal : x \in {x \in evidence : x.class # "DECLARED" /\ x.signal # "MITIGATION_DECLARED"}}
    \cap TerminalSignals

LEMMA TerminalFinite ==
    ASSUME NEW S, S \subseteq TerminalSignals
    PROVE  IsFiniteSet(S)
<1>1. IsFiniteSet({}) /\ IsFiniteSet({"MATERIAL_PRESENT"})
  BY FS_EmptySet, FS_Singleton
<1>2. IsFiniteSet({"MATERIAL_PRESENT"} \cup {"MATERIAL_ABSENT"})
  BY <1>1, FS_AddElement
<1>3. IsFiniteSet(({"MATERIAL_PRESENT"} \cup {"MATERIAL_ABSENT"}) \cup {"MITIGATION_ESTABLISHED"})
  BY <1>2, FS_AddElement
<1>4. IsFiniteSet((({"MATERIAL_PRESENT"} \cup {"MATERIAL_ABSENT"}) \cup {"MITIGATION_ESTABLISHED"})
                     \cup {"OUT_OF_SCOPE"})
  BY <1>3, FS_AddElement
<1>5. TerminalSignals = (({"MATERIAL_PRESENT"} \cup {"MATERIAL_ABSENT"}) \cup {"MITIGATION_ESTABLISHED"})
                           \cup {"OUT_OF_SCOPE"}
  BY DEF TerminalSignals
<1> QED BY <1>4, <1>5, FS_Subset

(* A final state tells which terminal signals the evidence has.            *)
LEMMA FinalTells ==
    ASSUME NEW evidence, NEW scope, Resolve(evidence, scope) \in Final
    PROVE  LET T == TerminalOf(evidence)
               state == Resolve(evidence, scope)
           IN  \/ T = {"OUT_OF_SCOPE"} /\ state = "NOT_APPLICABLE"
               \/ T = {"MITIGATION_ESTABLISHED"} /\ state = "MITIGATED"
               \/ T = {"MATERIAL_PRESENT", "MITIGATION_ESTABLISHED"} /\ state = "MITIGATED"
               \/ T = {"MATERIAL_ABSENT"} /\ state = "DISPROVEN"
               \/ T = {"MATERIAL_PRESENT"} /\ state = "CONFIRMED_AFFECTED"
<1> DEFINE signals == {x.signal : x \in {x \in evidence : x.class # "DECLARED" /\ x.signal # "MITIGATION_DECLARED"}}
           T == signals \cap TerminalSignals
           state == Resolve(evidence, scope)
<1>1. T = TerminalOf(evidence)
  BY DEF TerminalOf
<1>2. state = IF ScopeConflict(evidence, scope) \/ Conflicting(signals) THEN "UNKNOWN"
              ELSE IF "OUT_OF_SCOPE" \in signals THEN "NOT_APPLICABLE"
              ELSE IF "MITIGATION_ESTABLISHED" \in signals THEN "MITIGATED"
              ELSE IF "MATERIAL_ABSENT" \in signals THEN "DISPROVEN"
              ELSE IF "MATERIAL_PRESENT" \in signals THEN "CONFIRMED_AFFECTED"
              ELSE "UNKNOWN"
  BY DEF Resolve
<1> HIDE DEF state, signals
<1>3. state # "UNKNOWN"
  BY DEF state, Final
<1>4. ~ Conflicting(signals)
  BY <1>2, <1>3
<1>5. \/ "OUT_OF_SCOPE" \in T /\ state = "NOT_APPLICABLE"
      \/ "MITIGATION_ESTABLISHED" \in T /\ state = "MITIGATED"
      \/ "MATERIAL_ABSENT" \in T /\ state = "DISPROVEN"
      \/ "MATERIAL_PRESENT" \in T /\ "MITIGATION_ESTABLISHED" \notin T /\ state = "CONFIRMED_AFFECTED"
  BY <1>2, <1>3 DEF TerminalSignals
<1>6. CASE T = {"MATERIAL_PRESENT", "MITIGATION_ESTABLISHED"}
  BY <1>1, <1>5, <1>6 DEF state
<1>7. CASE T # {"MATERIAL_PRESENT", "MITIGATION_ESTABLISHED"}
  <2>1. ~ (Cardinality(T) > 1)
    BY <1>4, <1>7 DEF Conflicting
  <2>2. \A x, y \in T : x = y
    BY <2>1, TerminalFinite, NotMany
  <2>3. PICK x \in T : TRUE
    BY <1>5
  <2>4. T = {x}
    BY <2>2, <2>3
  <2> QED BY <1>1, <1>5, <2>4 DEF state
<1> QED BY <1>6, <1>7

LEMMA MoreNeverFlips ==
    ASSUME NEW few, NEW many, few \subseteq many, NEW scope,
           Resolve(few, scope) \in Final, Resolve(many, scope) \in Final
    PROVE  \/ Resolve(few, scope) = Resolve(many, scope)
           \/ Resolve(few, scope) = "CONFIRMED_AFFECTED" /\ Resolve(many, scope) = "MITIGATED"
<1>1. TerminalOf(few) \subseteq TerminalOf(many)
  BY DEF TerminalOf
<1>2. PICK S, T, s, t : S = TerminalOf(few) /\ T = TerminalOf(many)
                        /\ s = Resolve(few, scope) /\ t = Resolve(many, scope)
  OBVIOUS
<1>3. \/ S = {"OUT_OF_SCOPE"} /\ s = "NOT_APPLICABLE"
      \/ S = {"MITIGATION_ESTABLISHED"} /\ s = "MITIGATED"
      \/ S = {"MATERIAL_PRESENT", "MITIGATION_ESTABLISHED"} /\ s = "MITIGATED"
      \/ S = {"MATERIAL_ABSENT"} /\ s = "DISPROVEN"
      \/ S = {"MATERIAL_PRESENT"} /\ s = "CONFIRMED_AFFECTED"
  BY <1>2, FinalTells
<1>4. \/ T = {"OUT_OF_SCOPE"} /\ t = "NOT_APPLICABLE"
      \/ T = {"MITIGATION_ESTABLISHED"} /\ t = "MITIGATED"
      \/ T = {"MATERIAL_PRESENT", "MITIGATION_ESTABLISHED"} /\ t = "MITIGATED"
      \/ T = {"MATERIAL_ABSENT"} /\ t = "DISPROVEN"
      \/ T = {"MATERIAL_PRESENT"} /\ t = "CONFIRMED_AFFECTED"
  BY <1>2, FinalTells
<1>5. S \subseteq T
  BY <1>1, <1>2
<1> QED BY <1>2, <1>3, <1>4, <1>5

-----------------------------------------------------------------------------
(* A chain of supersessions, however long, is a set of rows; its function  *)
(* exists because every row follows an earlier one.                        *)
ChainFunction(f, n) ==
  f = [i \in 0..n |-> IF i = 0 THEN {} ELSE {i} \cup f[rows[i].super]]

LEMMA ChainSteps ==
    ASSUME NEW n \in Nat, NEW f, ChainFunction(f, n)
    PROVE  f[0] = {} /\ \A i \in 1..n : f[i] = {i} \cup f[rows[i].super]
<1> DEFINE g == [i \in 0..n |-> IF i = 0 THEN {} ELSE {i} \cup f[rows[i].super]]
<1>1. f = g
  BY DEF ChainFunction
<1>2. g[0] = {} /\ \A i \in 1..n : g[i] = {i} \cup f[rows[i].super]
  OBVIOUS
<1> HIDE DEF g
<1> QED BY <1>1, <1>2

LEMMA ChainsExist ==
    ASSUME NEW n \in Nat, \A i \in 1..n : rows[i].super \in 0..(i - 1)
    PROVE  \E f : ChainFunction(f, n)
<1> DEFINE T == {m \in 0..n : \E f : ChainFunction(f, m)}
<1>1. 0 \in T
  <2>1. ChainFunction([i \in 0..0 |-> {}], 0)
    BY DEF ChainFunction
  <2> QED BY <2>1
<1>2. ASSUME NEW m \in 1..n, m - 1 \in T PROVE m \in T
  <2>1. PICK f : ChainFunction(f, m - 1)
    BY <1>2
  <2> DEFINE g == [i \in 0..m |-> IF i = m THEN {m} \cup f[rows[m].super] ELSE f[i]]
  <2>2. ASSUME NEW i \in 0..m
        PROVE  g[i] = IF i = 0 THEN {} ELSE {i} \cup g[rows[i].super]
    <3>1. m - 1 \in Nat /\ f[0] = {} /\ \A k \in 1..(m - 1) : f[k] = {k} \cup f[rows[k].super]
      BY <2>1, ChainSteps
    <3>2. CASE i = 0
      BY <3>1, <3>2
    <3>3. CASE i # 0
      <4>1. PICK k : k = rows[i].super
        OBVIOUS
      <4>2. i \in 1..m /\ k \in 0..(i - 1) /\ k \in 0..m /\ k # m
        BY <3>3, <4>1
      <4>3. g[k] = f[k]
        BY <4>2
      <4>4. g[i] = {i} \cup f[k]
        BY <3>1, <3>3, <4>1, <4>2
      <4> HIDE DEF g
      <4> QED BY <3>3, <4>1, <4>3, <4>4
    <3> QED BY <3>2, <3>3
  <2>3. g = [i \in 0..m |-> g[i]]
    OBVIOUS
  <2> HIDE DEF g
  <2>4. ChainFunction(g, m)
    BY <2>2, <2>3 DEF ChainFunction
  <2> QED BY <2>4
<1> HIDE DEF T
<1>3. n \in T
  <2>1. \A k \in 0..n : k \in T
    BY <1>1, <1>2, Inductive
  <2> QED BY <2>1
<1> QED BY <1>3 DEF T

(* All of a chain is about the subject and the event of its last row.      *)
LEMMA ChainsAgree ==
    ASSUME IInv, NEW f, ChainFunction(f, Len(rows))
    PROVE  \A i \in Rows : /\ i \in f[i]
                           /\ \A j \in f[i] : /\ rows[j].subject = rows[i].subject
                                              /\ rows[j].event \in {None, rows[i].event}
<1>1. Len(rows) \in Nat /\ Rows = 1..Len(rows)
  BY DEF IInv, Rows
<1> DEFINE n == Len(rows)
           Agrees(i) == i # 0 =>
             /\ i \in f[i]
             /\ \A j \in f[i] : /\ rows[j].subject = rows[i].subject
                                /\ rows[j].event \in {None, rows[i].event}
           T == {i \in 0..n : Agrees(i)}
<1>2. f[0] = {} /\ \A i \in 1..n : f[i] = {i} \cup f[rows[i].super]
  BY <1>1, ChainSteps
<1>3. ASSUME NEW i \in 0..n, \A k \in 0..(i - 1) : k \in T PROVE i \in T
  <2>1. CASE i = 0
    BY <2>1
  <2>2. CASE i # 0
    <3>1. PICK k : k = rows[i].super
      OBVIOUS
    <3>2. /\ k \in 0..(i - 1)
          /\ k # 0 => rows[i].subject = rows[k].subject /\ rows[k].event \in {None, rows[i].event}
      BY <1>1, <2>2, <3>1 DEF IInv, RowLinks
    <3>3. f[i] = {i} \cup f[k]
      BY <1>2, <2>2, <3>1
    <3>4. CASE k = 0
      BY <1>1, <1>2, <3>3, <3>4
    <3>5. CASE k # 0
      BY <1>3, <3>2, <3>3, <3>5
    <3> QED BY <3>4, <3>5
  <2> QED BY <2>1, <2>2
<1> HIDE DEF T
<1>4. \A i \in 0..n : i \in T
  BY <1>1, <1>3, StrongInductive
<1> QED BY <1>1, <1>4 DEF T

-----------------------------------------------------------------------------
(* Theorems                                                                *)

(* The inductive invariant holds in every reachable state, whatever edges, *)
(* revisions and assessments are recorded while candidates are refreshed.  *)
THEOREM Invariance == Spec => []IInv
BY InitHolds, NextKeeps, PTL DEF Spec

(* Rows are well typed and each follows an earlier one.  Every basis holds *)
(* the revision and the path of its row, whatever the analyst adds         *)
(* (_closed_assessment_basis); and a candidate passes the audit of its     *)
(* basis (audit_affectedness_basis), though edges and revisions are        *)
(* recorded between its walk and its row.                                  *)
THEOREM TypeCorrect == Spec => []TypeOK
<1>1. IInv => TypeOK
  <2> SUFFICES ASSUME IInv PROVE TypeOK
    OBVIOUS
  <2>1. \A w \in Workers : op[w].kind \in {"idle", "refresh", "record"}
    BY DEF IInv, OpsFit, OpFit
  <2>2. ASSUME NEW i \in Rows
        PROVE  /\ rows[i].rev \in {a.rev : a \in published}
               /\ rows[i].event \in Events \cup {None}
               /\ rows[i].state \in States
               /\ rows[i].super \in 0..(i - 1)
               /\ Closed({}, rows[i].rev, rows[i].path) \subseteq rows[i].basis
    BY DEF IInv, RowsFit, RowFits, RowLinks
  <2>3. ASSUME NEW i \in Rows, IsCandidate(rows[i]) PROVE AuditValid(rows[i])
    <3>1. PICK r : r = rows[i]
      OBVIOUS
    <3>2. r.path \subseteq edges /\ r.basis = Closed({}, r.rev, r.path) /\ \E a \in published : a.rev = r.rev
      BY <2>3, <3>1 DEF IsCandidate, IInv, RowsFit, RowFits
    <3>3. PICK L, A : L = {b \in r.basis : b.kind = "lineage_edge"}
                      /\ A = {b \in r.basis : b.kind = "advisory_revision"}
      OBVIOUS
    <3>4. L = {[kind |-> "lineage_edge", ref |-> e] : e \in r.path}
          /\ A = {[kind |-> "advisory_revision", ref |-> r.rev]}
      BY <3>2, <3>3 DEF Closed
    <3>5. {b.ref : b \in L} = r.path
      <4>1. \A b \in L : b.ref \in r.path
        BY <3>4
      <4>2. ASSUME NEW e \in r.path PROVE \E b \in L : b.ref = e
        <5>1. [kind |-> "lineage_edge", ref |-> e] \in L
          BY <3>4
        <5> QED BY <5>1
      <4> QED BY <4>1, <4>2
    <3>6. {b.ref : b \in A} = {r.rev}
      BY <3>4
    <3> QED BY <3>1, <3>2, <3>3, <3>5, <3>6 DEF AuditValid
  <2> QED BY <2>1, <2>2, <2>3 DEF TypeOK, IInv
<1> QED BY <1>1, Invariance, PTL

(* A walk that calls itself complete found every path from its origin      *)
(* (lineage_walk), whatever the graph and the bounds.                      *)
THEOREM CompleteWalksAreExhaustive == Spec => []CompleteWalkIsExhaustive
<1>1. IInv => CompleteWalkIsExhaustive
  <2> SUFFICES ASSUME IInv, NEW a \in published, NEW o \in a.roots,
                      PathsFailClosed(edges, o, Limit).complete
               PROVE  {p.steps : p \in PathsFailClosed(edges, o, Limit).paths}
                        = AllPaths({e \in edges : e.rel \in Propagating}, o)
    BY DEF CompleteWalkIsExhaustive
  <2>1. IsFiniteSet(edges) /\ Legal(edges)
    BY GraphFacts DEF IInv
  <2>2. PICK walk : walk = Walk(edges, o, Propagating, Limit)
    OBVIOUS
  <2>3. walk.complete
    BY <2>2 DEF PathsFailClosed
  <2>4. {p.steps : p \in walk.paths} = AllPaths(Selected(edges, Propagating), o)
    BY <2>1, <2>2, <2>3, WalkFindsPaths
  <2> QED BY <2>2, <2>4 DEF PathsFailClosed, Selected
<1> QED BY <1>1, Invariance, PTL

(* The explanation of a candidate rebuilds from its pinned edges alone     *)
(* every path that made the subject one, and there is such a path          *)
(* (explain_affectedness_path).                                            *)
THEOREM ExplanationsKeepPaths == Spec => []ExplanationKeepsPaths
<1>1. IInv => ExplanationKeepsPaths
  <2> SUFFICES ASSUME IInv, NEW i \in Rows, IsCandidate(rows[i]),
                      NEW a \in published, a.rev = rows[i].rev
               PROVE  LET explained == OrderedPaths(rows[i].path, rows[i].subject, a.roots, Limit)
                          wanted == {q \in UNION {AllPaths(rows[i].path, o) : o \in a.roots} :
                                       Last(q).to = rows[i].subject
                                       /\ \A k \in 1..(Len(q) - 1) : q[k].to # rows[i].subject}
                      IN  wanted # {} /\ wanted \subseteq explained.paths
    BY Zenon DEF ExplanationKeepsPaths
  <2>1. PICK r : r = rows[i]
    OBVIOUS
  <2>2. r.path \subseteq edges /\ Connected(a, r)
    BY <2>1 DEF IInv, RowsFit, RowFits, IsCandidate
  <2>3. IsFiniteSet(r.path) /\ Legal(r.path)
    BY <2>2, GraphFacts DEF IInv
  <2>4. ASSUME NEW o \in a.roots, NEW q \in AllPaths(r.path, o), Last(q).to = r.subject,
               \A k \in 1..(Len(q) - 1) : q[k].to # r.subject
        PROVE  q \in OrderedPaths(r.path, r.subject, a.roots, Limit).paths
    BY <2>3, <2>4, ExplanationFindsPaths DEF Last
  <2>5. \E o \in a.roots : \E q \in AllPaths(r.path, o) :
           Last(q).to = r.subject /\ \A k \in 1..(Len(q) - 1) : q[k].to # r.subject
    <3>1. PICK o \in a.roots : \E q \in AllPaths(r.path, o) : q[Len(q)].to = r.subject
      BY <2>2 DEF Connected
    <3>2. PICK q \in AllPaths(r.path, o) : q[Len(q)].to = r.subject
      BY <3>1
    <3>3. Route(q, r.path, o)
      BY <2>3, AllPathsAreRoutes
    <3>4. \A k \in 1..(Len(q) - 1) : q[k].to # r.subject
      BY <3>2, <3>3 DEF Route, IsPath
    <3> QED BY <3>1, <3>2, <3>4 DEF Last
  <2> QED BY <2>1, <2>4, <2>5
<1> QED BY <1>1, Invariance, PTL

(* A chain of supersessions stays with one subject and one stable event,   *)
(* through any number of revisions of the advisory and of rows without an  *)
(* event (validate_affectedness_supersession).                             *)
THEOREM ChainsAreOneEvent == Spec => []ChainIsOneEvent
<1>1. IInv => ChainIsOneEvent
  <2> SUFFICES ASSUME IInv PROVE ChainIsOneEvent
    OBVIOUS
  <2> DEFINE chain[i \in 0..Len(rows)] == IF i = 0 THEN {} ELSE {i} \cup chain[rows[i].super]
  <2>1. Len(rows) \in Nat /\ Rows = 1..Len(rows) /\ \A i \in 1..Len(rows) : rows[i].super \in 0..(i - 1)
    BY DEF IInv, Rows, RowLinks
  <2>2. PICK f : ChainFunction(f, Len(rows))
    BY <2>1, ChainsExist
  <2>3. ChainFunction(chain, Len(rows))
    BY <2>2, Zenon DEF ChainFunction
  <2>4. ChainIsOneEvent <=>
          \A i \in Rows : /\ Cardinality({rows[j].subject : j \in chain[i]}) = 1
                          /\ Cardinality({rows[j].event : j \in chain[i]} \ {None}) <= 1
    BY Zenon DEF ChainIsOneEvent
  <2> HIDE DEF chain
  <2>5. ASSUME NEW i \in Rows
        PROVE  /\ Cardinality({rows[j].subject : j \in chain[i]}) = 1
               /\ Cardinality({rows[j].event : j \in chain[i]} \ {None}) <= 1
    <3>1. i \in chain[i] /\ \A j \in chain[i] : /\ rows[j].subject = rows[i].subject
                                                /\ rows[j].event \in {None, rows[i].event}
      BY <2>3, ChainsAgree
    <3>2. {rows[j].subject : j \in chain[i]} = {rows[i].subject}
      BY <3>1
    <3>3. PICK x, y : x = rows[i].subject /\ y = rows[i].event
      OBVIOUS
    <3>4. Cardinality({}) = 0 /\ Cardinality({x}) = 1 /\ Cardinality({y}) = 1
      BY FS_EmptySet, FS_Singleton
    <3>5. Cardinality({rows[j].subject : j \in chain[i]}) = 1
      BY <3>2, <3>3, <3>4
    <3>6. PICK S : S = {rows[j].event : j \in chain[i]} \ {None}
      OBVIOUS
    <3>7. S = {} \/ S = {y}
      <4>1. \A z \in S : z = y
        BY <3>1, <3>3, <3>6
      <4> QED BY <4>1
    <3>8. Cardinality(S) <= 1
      BY <3>4, <3>7
    <3> QED BY <3>5, <3>6, <3>8
  <2> QED BY <2>4, <2>5
<1> QED BY <1>1, Invariance, PTL

(* Of two assessments under one scope, the one with more evidence has the  *)
(* same final state or finds the affected subject mitigated, whatever the  *)
(* evidence (resolve_state_from_evidence).                                 *)
THEOREM VerdictsNeverFlip == Spec => []MoreEvidenceNeverFlips
<1>1. IInv => MoreEvidenceNeverFlips
  BY MoreNeverFlips DEF IInv, Verdicts, MoreEvidenceNeverFlips
<1> QED BY <1>1, Invariance, PTL

=============================================================================
