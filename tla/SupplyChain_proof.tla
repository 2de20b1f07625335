-------------------------- MODULE SupplyChain_proof --------------------------
(***************************************************************************)
(* Proofs about SupplyChain and the ProjectStore under it, for any         *)
(* projects, keys, repositories, manifests, contents and workers.          *)
(*                                                                         *)
(* Bindings: what a binder has read stays (BinderFits), so the one that    *)
(* passes both UNIQUE constraints appends the next ordinal, or the first   *)
(* revision of a new binding (StoreFits).  Scans: versions and records are *)
(* only appended to, so whatever a scanner named keeps saying what the     *)
(* scanner read (NamedFits), and the scan it records inherits that         *)
(* (RecordedFits), however many scanners append to the same records.       *)
(***************************************************************************)
EXTENDS SupplyChain, FiniteSetTheorems, WellFoundedInduction, TLAPS

(* A version names a repository of its project.                            *)
VersionFits(p, l, v) ==
    v # None => /\ v \in DOMAIN versions
                /\ versions[v].locator = l
                /\ bindings[versions[v].binding].project = p

(* The bindings of the projects and the chains of their revisions.         *)
Ordinals(b) == {versions[v].ordinal : v \in RevisionsOf(b)}

Linked(v) ==
    IF versions[v].ordinal = 1 THEN versions[v].parent = None
    ELSE LET before == versions[v].parent
         IN /\ before \in RevisionsOf(versions[v].binding)
            /\ versions[before].ordinal = versions[v].ordinal - 1
            /\ versions[before].locator # versions[v].locator

StoreFits ==
    /\ bindings \in Seq(Range(bindings)) /\ IsInjective(bindings)
    /\ versions \in Seq(Range(versions))
    /\ \A v \in DOMAIN versions :
         /\ versions[v].binding \in DOMAIN bindings
         /\ versions[v].ordinal \in Nat
         /\ versions[v].locator \in Locators
         /\ Linked(v)
    /\ \A b \in DOMAIN bindings :
         RevisionsOf(b) # {} /\ Ordinals(b) = 1..Cardinality(RevisionsOf(b))

(* What a binder has read stays: its binding and a revision of it.         *)
BinderFits(c) ==
    /\ c.pc = "bind" /\ c.locator \in Locators
    /\ IF c.binding = None THEN c.parent = None
       ELSE /\ c.binding \in DOMAIN bindings
            /\ bindings[c.binding] = [project |-> c.project, key |-> c.key]
            /\ c.parent # None => /\ c.parent \in RevisionsOf(c.binding)
                                  /\ versions[c.parent].locator # c.locator

-----------------------------------------------------------------------------
(* The revision at n of the manifest records of p under path says what was *)
(* read there; the one of the dependency pin says which manifests pin it   *)
(* and rests on the revisions named for those.  recs is the table.         *)
ManifestSays(recs, p, path, n, read) ==
    /\ n \in DOMAIN recs[Manifest(p, path)]
    /\ recs[Manifest(p, path)][n].statement =
         [pins |-> PinsOf[read[path].text], digest |-> read[path].digest]

DependencySays(recs, p, pin, n, read, manifests) ==
    /\ n \in DOMAIN recs[Dependency(p, pin)]
    /\ recs[Dependency(p, pin)][n].statement = ObservedIn(read, pin)
    /\ recs[Dependency(p, pin)][n].basis = manifests

ReadFits(read) ==
    /\ DOMAIN read \subseteq Range(Manifests)
    /\ \A path \in DOMAIN read : read[path].text \in DOMAIN PinsOf

(* Manifests are named first; what is named says what was read.            *)
ManifestsFirst(c) == \A path \in DOMAIN c.read : Manifest(c.project, path) \in DOMAIN c.named

NamedFits(recs, c) ==
    /\ \A path \in DOMAIN c.read :
         Manifest(c.project, path) \in DOMAIN c.named =>
           ManifestSays(recs, c.project, path, c.named[Manifest(c.project, path)], c.read)
    /\ \A pin \in PinsIn(c.read) :
         Dependency(c.project, pin) \in DOMAIN c.named =>
           /\ ManifestsFirst(c)
           /\ DependencySays(recs, c.project, pin, c.named[Dependency(c.project, pin)], c.read,
                             ManifestsNamed(c, ObservedIn(c.read, pin)))

ScannerFits(c) ==
    /\ c = [pc |-> c.pc, project |-> c.project, locator |-> c.locator, version |-> c.version,
            todo |-> c.todo, read |-> c.read, text |-> c.text, named |-> c.named, head |-> c.head]
    /\ c.pc \in {"eligible", "text", "digest", "find", "create", "record", "append"}
    /\ c.project \in Projects /\ c.locator \in Locators
    /\ VersionFits(c.project, c.locator, c.version)
    /\ c.todo \subseteq DOMAIN Manifests /\ (c.pc \in {"text", "digest"} => c.todo # {})
    /\ ReadFits(c.read)
    /\ c.pc = "digest" => c.text \in DOMAIN PinsOf
    /\ c.pc \notin {"record", "append"} => DOMAIN c.named = {}
    /\ NamedFits(records, c)

CallsFit ==
    /\ DOMAIN doing = Actors
    /\ \A w \in Actors : doing[w] = Idle \/ BinderFits(doing[w]) \/ ScannerFits(doing[w])

(* A recorded scan: of its repository, and of what its scanner read.       *)
ScanSays(recs, p, scan) ==
    /\ ReadFits(scan.saw)
    /\ DOMAIN scan.statement.manifests = DOMAIN scan.saw
    /\ DOMAIN scan.statement.dependencies = PinsIn(scan.saw)
    /\ \A path \in DOMAIN scan.saw :
         ManifestSays(recs, p, path, scan.statement.manifests[path], scan.saw)
    /\ \A pin \in PinsIn(scan.saw) :
         DependencySays(recs, p, pin, scan.statement.dependencies[pin], scan.saw,
                        [path \in ObservedIn(scan.saw, pin) |-> scan.statement.manifests[path]])

RecordsFit ==
    /\ DOMAIN records = RecordIds
    /\ \A id \in RecordIds : records[id] \in Seq(Range(records[id]))
    /\ \A p \in Projects : \A i \in ScansOf(p) :
         /\ VersionFits(p, ScanAt(p, i).where, StatementOf(p, i).version)
         /\ ScanSays(records, p, ScanAt(p, i))

FilesFit == files \in [Locators -> [Range(Manifests) -> DOMAIN PinsOf \cup {None}]]

IInv == RepositoriesFit /\ StoreFits /\ CallsFit /\ FilesFit /\ RecordsFit

-----------------------------------------------------------------------------
(* The records of a project are apart.                                     *)
LEMMA RecordsApart ==
    ASSUME NEW p, NEW q, NEW x, NEW y
    PROVE  /\ Manifest(p, x) = Manifest(q, y) => p = q /\ x = y
           /\ Dependency(p, x) = Dependency(q, y) => p = q /\ x = y
           /\ Scan(p) = Scan(q) => p = q
           /\ Manifest(p, x) # Dependency(q, y)
           /\ Manifest(p, x) # Scan(q)
           /\ Dependency(p, x) # Scan(q)
BY DEF Manifest, Dependency, Scan

(* A set of numbers has a least one, and one with a bound a greatest.      *)
LEMMA LeastNatural ==
    ASSUME NEW T, T \subseteq Nat, T # {}
    PROVE  \E a \in T : \A b \in T : a <= b
<1> DEFINE Less == {xy \in Nat \X Nat : xy[1] < xy[2]}
<1>1. IsWellFoundedOn(Less, Nat)
  BY NatLessThanWellFounded DEF OpToRel
<1>2. \A x, y \in Nat : <<y, x>> \notin Less => x <= y
  OBVIOUS
<1> HIDE DEF Less
<1>3. PICK a \in T : \A b \in T : ~ (<<b, a>> \in Less)
  BY <1>1, WFMin, Zenon
<1> QED BY <1>2, <1>3

LEMMA GreatestNatural ==
    ASSUME NEW n \in Nat, NEW T, T \subseteq 0..n, T # {}
    PROVE  \E a \in T : \A b \in T : b <= a
<1> DEFINE S == {n - a : a \in T}
<1>1. S \subseteq Nat /\ S # {}
  <2>1. \A a \in T : n - a \in Nat
    BY T \subseteq 0..n
  <2> QED BY <2>1
<1>2. PICK m \in S : \A k \in S : m <= k
  <2> HIDE DEF S
  <2> QED BY <1>1, LeastNatural
<1>3. PICK a \in T : m = n - a
  OBVIOUS
<1>4. \A b \in T : n - a <= n - b /\ b \in 0..n
  BY <1>2, <1>3
<1>5. a \in 0..n
  OBVIOUS
<1> HIDE DEF S
<1> QED BY <1>4, <1>5

LEMMA MinMax ==
    ASSUME NEW n \in Nat, NEW T, T \subseteq 0..n, T # {}
    PROVE  Min(T) \in T /\ Max(T) \in T
<1>1. \E a \in T : \A b \in T : a >= b
  BY GreatestNatural
<1>2. \E a \in T : \A b \in T : a <= b
  <2>1. T \subseteq Nat
    OBVIOUS
  <2> QED BY <2>1, LeastNatural
<1>3. Max(T) \in T
  BY <1>1 DEF Max
<1>4. Min(T) \in T
  BY <1>2 DEF Min
<1> QED BY <1>3, <1>4

(* t is s with r at its end.                                               *)
GrownBy(t, s, r) ==
    /\ t \in Seq(Range(t))
    /\ Len(s) \in Nat
    /\ DOMAIN s = 1..Len(s)
    /\ Len(t) = Len(s) + 1
    /\ DOMAIN t = 1..(Len(s) + 1)
    /\ \A i \in 1..Len(s) : t[i] = s[i]
    /\ t[Len(s) + 1] = r

LEMMA Grows ==
    ASSUME NEW s, s \in Seq(Range(s)), NEW r
    PROVE  GrownBy(Append(s, r), s, r)
<1> DEFINE S == Range(s) \cup {r}
           t == Append(s, r)
<1>1. s \in Seq(S)
  <2>1. Len(s) \in Nat /\ DOMAIN s = 1..Len(s)
    BY SMT
  <2>2. \A i \in DOMAIN s : s[i] \in S
    BY DEF Range
  <2>3. s = [i \in 1..Len(s) |-> s[i]]
    BY <2>1, SMT
  <2> QED BY <2>1, <2>2, <2>3, SMT
<1>2. t \in Seq(S) /\ Len(s) \in Nat /\ DOMAIN s = 1..Len(s)
      /\ Len(t) = Len(s) + 1 /\ DOMAIN t = 1..(Len(s) + 1)
      /\ (\A i \in 1..Len(s) : t[i] = s[i]) /\ t[Len(s) + 1] = r
  BY <1>1
<1>3. t \in Seq(Range(t))
  BY <1>2 DEF Range
<1> QED BY <1>2, <1>3 DEF GrownBy

-----------------------------------------------------------------------------
(* Bindings                                                                *)

LEMMA BindingFound ==
    ASSUME None \notin Nat, StoreFits, NEW p, NEW k
    PROVE  IF BindingOf(p, k) = None
           THEN \A b \in DOMAIN bindings : bindings[b] # [project |-> p, key |-> k]
           ELSE /\ BindingOf(p, k) \in DOMAIN bindings
                /\ bindings[BindingOf(p, k)] = [project |-> p, key |-> k]
<1>1. DOMAIN bindings \subseteq Nat
  BY DEF StoreFits
<1> QED BY <1>1 DEF BindingOf

(* Latest is a revision of the binding, and none comes after it.           *)
LEMMA LatestFound ==
    ASSUME None \notin Nat, StoreFits, NEW b \in DOMAIN bindings
    PROVE  Latest(b) # None /\ Latest(b) \in RevisionsOf(b)
<1> DEFINE n == Cardinality(RevisionsOf(b))
<1>1. RevisionsOf(b) \subseteq DOMAIN versions /\ DOMAIN versions \subseteq Nat
  BY DEF RevisionsOf, StoreFits
<1>2. IsFiniteSet(RevisionsOf(b)) /\ n \in Nat
  <2>1. DOMAIN versions = 1..Len(versions) /\ Len(versions) \in Nat
    BY DEF StoreFits
  <2>2. IsFiniteSet(DOMAIN versions)
    BY <2>1, FS_Interval
  <2> QED BY <1>1, <2>2, FS_Subset, FS_CardinalityType
<1>3. RevisionsOf(b) # {} /\ Ordinals(b) = 1..n
  BY DEF StoreFits
<1>4. n \in 1..n
  BY <1>2, <1>3 DEF Ordinals
<1>5. PICK v \in RevisionsOf(b) : versions[v].ordinal = n
  BY <1>3, <1>4 DEF Ordinals
<1>6. \A u \in RevisionsOf(b) : versions[u].ordinal \in 1..n
  BY <1>3 DEF Ordinals
<1>7. \A u \in RevisionsOf(b) : versions[u].ordinal <= versions[v].ordinal
  BY <1>2, <1>5, <1>6
<1> QED BY <1>1, <1>3, <1>5, <1>7 DEF Latest

(* Rows are never changed or removed.                                      *)
StoreGrows ==
    /\ \A b \in DOMAIN bindings : b \in DOMAIN bindings' /\ bindings'[b] = bindings[b]
    /\ \A v \in DOMAIN versions : v \in DOMAIN versions' /\ versions'[v] = versions[v]

LEMMA BinderStays ==
    ASSUME StoreFits, StoreGrows, NEW c, BinderFits(c)
    PROVE  /\ c.pc = "bind" /\ c.locator \in Locators
           /\ IF c.binding = None THEN c.parent = None
              ELSE /\ c.binding \in DOMAIN bindings'
                   /\ bindings'[c.binding] = [project |-> c.project, key |-> c.key]
                   /\ c.parent # None => /\ c.parent \in RevisionsOf(c.binding)'
                                         /\ versions'[c.parent].locator # c.locator
BY DEF StoreGrows, BinderFits, RevisionsOf

LEMMA VersionStays ==
    ASSUME StoreFits, StoreGrows, NEW p, NEW l, NEW v, VersionFits(p, l, v)
    PROVE  v # None => /\ v \in DOMAIN versions'
                       /\ versions'[v].locator = l
                       /\ bindings'[versions'[v].binding].project = p
BY DEF StoreGrows, VersionFits, StoreFits

(* The rows that bind_repository leaves: one more version, of a binding    *)
(* that was there or is the next.                                          *)
LEMMA RowKeepsStore ==
    ASSUME StoreFits, NEW row, NEW b, NEW n, NEW m, NEW parent,
           b = row.binding, n = Len(versions) + 1, m = Cardinality(RevisionsOf(b)), parent = row.parent,
           GrownBy(versions', versions, row),
           \A a \in DOMAIN bindings : a \in DOMAIN bindings' /\ bindings'[a] = bindings[a],
           DOMAIN bindings' = DOMAIN bindings \cup {b},
           bindings' \in Seq(Range(bindings')), IsInjective(bindings'),
           row.locator \in Locators, ~OrdinalTaken(row),
           IF parent = None THEN row.ordinal = 1
           ELSE /\ parent \in RevisionsOf(b) /\ versions[parent].locator # row.locator
                /\ row.ordinal = versions[parent].ordinal + 1
    PROVE  StoreFits'
<1>1. /\ DOMAIN versions = 1..Len(versions) /\ Len(versions) \in Nat
      /\ DOMAIN versions' = DOMAIN versions \cup {n} /\ n \notin DOMAIN versions
      /\ versions'[n] = row /\ \A v \in DOMAIN versions : versions'[v] = versions[v]
      /\ versions' \in Seq(Range(versions'))
  BY DEF GrownBy
<1>2. RevisionsOf(b) \subseteq DOMAIN versions
  BY DEF RevisionsOf
<1>3. \A a : RevisionsOf(a)' = IF a = b THEN RevisionsOf(a) \cup {n} ELSE RevisionsOf(a)
  BY <1>1 DEF RevisionsOf
<1>4. IsFiniteSet(RevisionsOf(b)) /\ m \in Nat
  <2>1. IsFiniteSet(DOMAIN versions)
    BY <1>1, FS_Interval
  <2> QED BY <1>2, <2>1, FS_Subset, FS_CardinalityType
<1>5. Ordinals(b) = 1..m
  <2>1. CASE b \in DOMAIN bindings
    BY <2>1 DEF StoreFits
  <2>2. CASE b \notin DOMAIN bindings
    <3>1. RevisionsOf(b) = {}
      BY <2>2 DEF StoreFits, RevisionsOf
    <3>2. m = 0
      BY <3>1, FS_EmptySet
    <3> QED BY <3>1, <3>2 DEF Ordinals
  <2> QED BY <2>1, <2>2
<1>6. row.ordinal = m + 1
  <2>1. \A v \in RevisionsOf(b) : versions[v].ordinal # row.ordinal
    BY DEF OrdinalTaken, RevisionsOf
  <2>2. row.ordinal \notin 1..m
    BY <1>5, <2>1 DEF Ordinals
  <2>3. CASE parent = None
    BY <1>4, <2>2, <2>3
  <2>4. CASE parent # None
    <3>1. versions[parent].ordinal \in 1..m
      BY <1>5, <2>4 DEF Ordinals
    <3> QED BY <1>4, <2>2, <2>4, <3>1
  <2> QED BY <2>3, <2>4
<1>7. ASSUME NEW v \in DOMAIN versions
      PROVE  /\ versions'[v].binding \in DOMAIN bindings'
             /\ versions'[v].ordinal \in Nat
             /\ versions'[v].locator \in Locators
             /\ Linked(v)'
  <2>1. Linked(v) /\ \A a : RevisionsOf(a) \subseteq DOMAIN versions
    BY DEF StoreFits, RevisionsOf
  <2>2. Linked(v)'
    BY <1>1, <1>3, <2>1 DEF Linked
  <2> QED BY <1>1, <2>2 DEF StoreFits
<1>8. /\ versions'[n].binding \in DOMAIN bindings'
      /\ versions'[n].ordinal \in Nat
      /\ versions'[n].locator \in Locators
  BY <1>1, <1>4, <1>6
<1>9. Linked(n)'
  <2>1. CASE parent = None
    BY <1>1, <2>1 DEF Linked
  <2>2. CASE parent # None
    <3>1. versions[parent].ordinal \in 1..m /\ parent \in DOMAIN versions
      BY <1>2, <1>5, <2>2 DEF Ordinals
    <3>2. parent \in RevisionsOf(b)' /\ versions'[parent] = versions[parent]
      BY <1>1, <1>3, <2>2, <3>1
    <3>3. row.ordinal # 1 /\ row.ordinal - 1 = versions[parent].ordinal
      BY <1>4, <2>2, <3>1
    <3> QED BY <1>1, <2>2, <3>2, <3>3 DEF Linked
  <2> QED BY <2>1, <2>2
<1>10. ASSUME NEW a \in DOMAIN bindings'
       PROVE  RevisionsOf(a)' # {} /\ Ordinals(a)' = 1..Cardinality(RevisionsOf(a)')
  <2>1. CASE a # b
    <3>1. a \in DOMAIN bindings /\ RevisionsOf(a)' = RevisionsOf(a)
      BY <1>3, <2>1
    <3>2. Ordinals(a)' = Ordinals(a)
      BY <1>1, <3>1 DEF Ordinals, RevisionsOf
    <3> QED BY <3>1, <3>2 DEF StoreFits
  <2>2. CASE a = b
    <3>1. RevisionsOf(b)' = RevisionsOf(b) \cup {n} /\ n \notin RevisionsOf(b)
      BY <1>1, <1>2, <1>3
    <3>2. Cardinality(RevisionsOf(b)') = m + 1
      <4>1. Cardinality(RevisionsOf(b) \cup {n}) = m + 1
        BY <1>4, <3>1, FS_AddElement
      <4> QED BY <3>1, <4>1
    <3>3. Ordinals(b)' = Ordinals(b) \cup {row.ordinal}
      BY <1>1, <1>2, <3>1 DEF Ordinals
    <3>4. 1..(m + 1) = 1..m \cup {m + 1}
      BY <1>4
    <3> QED BY <1>5, <1>6, <2>2, <3>1, <3>2, <3>3, <3>4
  <2> QED BY <2>1, <2>2
<1>11. \A v \in DOMAIN versions' :
         /\ versions'[v].binding \in DOMAIN bindings'
         /\ versions'[v].ordinal \in Nat
         /\ versions'[v].locator \in Locators
         /\ Linked(v)'
  BY <1>1, <1>7, <1>8, <1>9
<1> QED BY <1>1, <1>10, <1>11 DEF StoreFits

(* What bind_repository writes, if both constraints let it.                *)
LEMMA WriteKeepsStore ==
    ASSUME None \notin Nat, StoreFits, NEW w \in Actors, BinderFits(doing[w]), BindWrite(w)
    PROVE  StoreFits' /\ StoreGrows
<1> PICK c, row : c = doing[w] /\ row = RevisionRow(c)
  OBVIOUS
<1>1. /\ ~KeyTaken(c) /\ ~OrdinalTaken(row)
      /\ bindings' = IF c.binding = None THEN Append(bindings, [project |-> c.project, key |-> c.key])
                                         ELSE bindings
      /\ versions' = Append(versions, row)
  BY DEF BindWrite
<1>2. bindings \in Seq(Range(bindings)) /\ versions \in Seq(Range(versions))
  BY DEF StoreFits
<1>3. GrownBy(versions', versions, row)
  BY <1>1, <1>2, Grows
<1>4. row.binding = IF c.binding = None THEN Len(bindings) + 1 ELSE c.binding
  BY DEF RevisionRow
<1>5. /\ \A a \in DOMAIN bindings : a \in DOMAIN bindings' /\ bindings'[a] = bindings[a]
      /\ DOMAIN bindings' = DOMAIN bindings \cup {row.binding}
      /\ bindings' \in Seq(Range(bindings')) /\ IsInjective(bindings')
  <2>1. CASE c.binding = None
    <3> DEFINE new == [project |-> c.project, key |-> c.key]
    <3>1. \A a \in DOMAIN bindings : bindings[a] # new
      BY <1>1, <2>1, BindingFound DEF KeyTaken
    <3>2. GrownBy(bindings', bindings, new) /\ row.binding = Len(bindings) + 1
      BY <1>1, <1>2, <1>4, <2>1, Grows
    <3> HIDE DEF new
    <3>3. /\ \A a \in DOMAIN bindings : a \in DOMAIN bindings' /\ bindings'[a] = bindings[a]
          /\ DOMAIN bindings' = DOMAIN bindings \cup {row.binding}
          /\ bindings'[row.binding] = new
          /\ bindings' \in Seq(Range(bindings'))
      BY <3>2 DEF GrownBy
    <3> QED BY <3>1, <3>3 DEF IsInjective, StoreFits
  <2>2. CASE c.binding # None
    BY <1>1, <1>4, <2>2 DEF BinderFits, StoreFits
  <2> QED BY <2>1, <2>2
<1>6. StoreGrows
  BY <1>3, <1>5 DEF StoreGrows, GrownBy
<1>7. /\ row.locator = c.locator /\ row.parent = c.parent /\ c.locator \in Locators
      /\ IF c.parent = None THEN row.ordinal = 1
         ELSE /\ c.parent \in RevisionsOf(row.binding) /\ versions[c.parent].locator # c.locator
              /\ row.ordinal = versions[c.parent].ordinal + 1
  BY DEF RevisionRow, BinderFits
<1> QED BY <1>1, <1>3, <1>5, <1>6, <1>7, RowKeepsStore
-----------------------------------------------------------------------------
(* Records                                                                 *)

LEMMA IdsOfProject ==
    ASSUME RepositoriesFit, NEW p \in Projects, NEW read, ReadFits(read)
    PROVE  /\ \A path \in DOMAIN read : Manifest(p, path) \in RecordIds
           /\ \A pin \in PinsIn(read) : Dependency(p, pin) \in RecordIds
           /\ Scan(p) \in RecordIds
<1>1. PinsIn(read) \subseteq DOMAIN ComponentOf
  BY DEF PinsIn, ReadFits, RepositoriesFit
<1> QED BY <1>1 DEF RecordIds, ReadFits

(* Revisions are only appended.                                            *)
Extends(new, old) ==
    \A id \in RecordIds : \A n \in DOMAIN old[id] : n \in DOMAIN new[id] /\ new[id][n] = old[id][n]

LEMMA NamedStays ==
    ASSUME RepositoriesFit, NEW new, NEW old, Extends(new, old), NEW c,
           c.project \in Projects, ReadFits(c.read), NamedFits(old, c)
    PROVE  NamedFits(new, c)
<1>1. /\ \A path \in DOMAIN c.read : Manifest(c.project, path) \in RecordIds
      /\ \A pin \in PinsIn(c.read) : Dependency(c.project, pin) \in RecordIds
  BY IdsOfProject
<1> QED BY <1>1 DEF Extends, NamedFits, ManifestSays, DependencySays

LEMMA ScanStays ==
    ASSUME RepositoriesFit, NEW new, NEW old, Extends(new, old), NEW p \in Projects, NEW scan,
           ScanSays(old, p, scan)
    PROVE  ScanSays(new, p, scan)
<1>1. /\ \A path \in DOMAIN scan.saw : Manifest(p, path) \in RecordIds
      /\ \A pin \in PinsIn(scan.saw) : Dependency(p, pin) \in RecordIds
  BY IdsOfProject DEF ScanSays
<1> QED BY <1>1 DEF Extends, ScanSays, ManifestSays, DependencySays

(* A scanner takes the manifests first, then the dependencies, then the    *)
(* scan itself.                                                            *)
LEMMA NextInOrder ==
    ASSUME NEW c
    PROVE  \/ \E path \in DOMAIN c.read :
                NextRecord(c) = Manifest(c.project, path) /\ Manifest(c.project, path) \notin DOMAIN c.named
           \/ /\ ManifestsFirst(c)
              /\ \E pin \in PinsIn(c.read) :
                   NextRecord(c) = Dependency(c.project, pin) /\ Dependency(c.project, pin) \notin DOMAIN c.named
           \/ /\ ManifestsFirst(c)
              /\ \A pin \in PinsIn(c.read) : Dependency(c.project, pin) \in DOMAIN c.named
              /\ NextRecord(c) = Scan(c.project)
<1> DEFINE manifests == {Manifest(c.project, path) : path \in DOMAIN c.read} \ DOMAIN c.named
           dependencies == {Dependency(c.project, pin) : pin \in PinsIn(c.read)} \ DOMAIN c.named
<1>1. NextRecord(c) = CASE manifests # {} -> CHOOSE id \in manifests : TRUE
                        [] manifests = {} /\ dependencies # {} -> CHOOSE id \in dependencies : TRUE
                        [] OTHER -> Scan(c.project)
  BY DEF NextRecord
<1>2. manifests = {} <=> ManifestsFirst(c)
  BY DEF ManifestsFirst
<1>3. dependencies = {} <=> \A pin \in PinsIn(c.read) : Dependency(c.project, pin) \in DOMAIN c.named
  OBVIOUS
<1>4. CASE manifests # {}
  <2>1. NextRecord(c) \in manifests
    <3> HIDE DEF manifests, dependencies
    <3> QED BY <1>1, <1>4
  <2> QED BY <2>1
<1>5. CASE manifests = {} /\ dependencies # {}
  <2>1. NextRecord(c) \in dependencies
    <3> HIDE DEF manifests, dependencies
    <3> QED BY <1>1, <1>5
  <2> QED BY <1>2, <1>5, <2>1
<1>6. CASE manifests = {} /\ dependencies = {}
  <2>1. NextRecord(c) = Scan(c.project)
    <3> HIDE DEF manifests, dependencies
    <3> QED BY <1>1, <1>6
  <2> QED BY <1>2, <1>3, <1>6, <2>1
<1> QED BY <1>4, <1>5, <1>6

LEMMA WantedSays ==
    ASSUME NEW c, NEW x
    PROVE  /\ Wanted(c, Manifest(c.project, x)).statement =
                [pins |-> PinsOf[c.read[x].text], digest |-> c.read[x].digest]
           /\ Wanted(c, Dependency(c.project, x)).statement = ObservedIn(c.read, x)
           /\ Wanted(c, Dependency(c.project, x)).basis = ManifestsNamed(c, ObservedIn(c.read, x))
BY DEF Wanted, Manifest, Dependency, Scan

DependenciesNamed(c) == [pin \in PinsIn(c.read) |-> c.named[Dependency(c.project, pin)]]

LEMMA ScanWanted ==
    ASSUME NEW c
    PROVE  LET scan == Wanted(c, Scan(c.project))
           IN /\ scan.statement.manifests = ManifestsNamed(c, DOMAIN c.read)
              /\ scan.statement.dependencies = DependenciesNamed(c)
              /\ scan.statement.version = c.version
              /\ scan.saw = c.read /\ scan.where = c.locator
BY DEF Wanted, Scan, Provenance, DependenciesNamed

(* A revision that says what is wanted next may be named.                  *)
LEMMA NameNext ==
    ASSUME NEW recs, NEW c, NEW d, NEW n, NamedFits(recs, c),
           d.project = c.project, d.read = c.read, d.named = With(c.named, NextRecord(c), n),
           NextRecord(c) # Scan(c.project),
           n \in DOMAIN recs[NextRecord(c)],
           Says(recs[NextRecord(c)][n], Wanted(c, NextRecord(c)))
    PROVE  NamedFits(recs, d)
<1> PICK p, id : p = c.project /\ id = NextRecord(c)
  OBVIOUS
<1>1. /\ DOMAIN d.named = DOMAIN c.named \cup {id}
      /\ d.named[id] = n
      /\ \A x \in DOMAIN c.named : x # id => d.named[x] = c.named[x]
  BY DEF With
<1>2. \A pin : ObservedIn(c.read, pin) \subseteq DOMAIN c.read
  BY DEF ObservedIn
<1>3. ASSUME NEW path \in DOMAIN c.read, id = Manifest(p, path), id \notin DOMAIN c.named
      PROVE  NamedFits(recs, d)
  <2>1. ManifestSays(recs, p, path, n, c.read)
    <3>1. Wanted(c, id).statement = [pins |-> PinsOf[c.read[path].text], digest |-> c.read[path].digest]
      BY <1>3, WantedSays
    <3>2. n \in DOMAIN recs[id] /\ recs[id][n].statement = Wanted(c, id).statement
      BY DEF Says
    <3> QED BY <1>3, <3>1, <3>2 DEF ManifestSays
  <2>2. \A other \in DOMAIN c.read : Manifest(p, other) = id => other = path
    BY <1>3, RecordsApart
  <2>3. \A pin \in PinsIn(c.read) : Dependency(p, pin) \notin DOMAIN d.named
    BY <1>1, <1>3, RecordsApart DEF NamedFits, ManifestsFirst
  <2> QED BY <1>1, <2>1, <2>2, <2>3 DEF NamedFits
<1>4. ASSUME NEW pin \in PinsIn(c.read), id = Dependency(p, pin), id \notin DOMAIN c.named, ManifestsFirst(c)
      PROVE  NamedFits(recs, d)
  <2>1. \A path \in DOMAIN c.read :
          /\ Manifest(p, path) \in DOMAIN d.named
          /\ d.named[Manifest(p, path)] = c.named[Manifest(p, path)]
    BY <1>1, <1>4, RecordsApart DEF ManifestsFirst
  <2>2. \A q : ManifestsNamed(d, ObservedIn(c.read, q)) = ManifestsNamed(c, ObservedIn(c.read, q))
    BY <1>2, <2>1 DEF ManifestsNamed
  <2>3. DependencySays(recs, p, pin, n, c.read, ManifestsNamed(d, ObservedIn(c.read, pin)))
    <3>1. /\ Wanted(c, id).statement = ObservedIn(c.read, pin)
          /\ Wanted(c, id).basis = ManifestsNamed(c, ObservedIn(c.read, pin))
      <4>1. id = Dependency(c.project, pin)
        BY <1>4
      <4>2. Wanted(c, Dependency(c.project, pin)).statement = ObservedIn(c.read, pin)
        BY WantedSays
      <4>3. Wanted(c, Dependency(c.project, pin)).basis = ManifestsNamed(c, ObservedIn(c.read, pin))
        BY WantedSays
      <4> QED BY <4>1, <4>2, <4>3
    <3>2. /\ n \in DOMAIN recs[id]
          /\ recs[id][n].statement = Wanted(c, id).statement
          /\ recs[id][n].basis = Wanted(c, id).basis
      BY DEF Says
    <3> QED BY <1>4, <2>2, <3>1, <3>2 DEF DependencySays
  <2>4. \A other \in PinsIn(c.read) : Dependency(p, other) = id => other = pin
    BY <1>4, RecordsApart
  <2>5. \A path \in DOMAIN c.read : ManifestSays(recs, p, path, d.named[Manifest(p, path)], c.read)
    BY <1>4, <2>1 DEF NamedFits, ManifestsFirst
  <2>6. \A other \in PinsIn(c.read) : Dependency(p, other) \in DOMAIN d.named =>
          DependencySays(recs, p, other, d.named[Dependency(p, other)], c.read,
                         ManifestsNamed(d, ObservedIn(c.read, other)))
    BY <1>1, <2>2, <2>3, <2>4 DEF NamedFits
  <2> QED BY <2>1, <2>5, <2>6 DEF NamedFits, ManifestsFirst
<1> QED BY <1>3, <1>4, NextInOrder

(* The scan a scanner records at the end says what it read.                *)
LEMMA ScanSaysWhatWasRead ==
    ASSUME NEW recs, NEW c, NamedFits(recs, c), ReadFits(c.read), NextRecord(c) = Scan(c.project)
    PROVE  ScanSays(recs, c.project, Wanted(c, Scan(c.project)))
<1> PICK p, scan : p = c.project /\ scan = Wanted(c, Scan(c.project))
  OBVIOUS
<1>1. ManifestsFirst(c) /\ \A pin \in PinsIn(c.read) : Dependency(p, pin) \in DOMAIN c.named
  BY NextInOrder, RecordsApart
<1>2. /\ scan.statement.manifests = ManifestsNamed(c, DOMAIN c.read)
      /\ scan.statement.dependencies = DependenciesNamed(c)
      /\ scan.saw = c.read
  BY ScanWanted
<1>3. /\ DOMAIN scan.statement.manifests = DOMAIN c.read
      /\ \A path \in DOMAIN c.read : scan.statement.manifests[path] = c.named[Manifest(p, path)]
  BY <1>2 DEF ManifestsNamed
<1>4. \A pin : [path \in ObservedIn(c.read, pin) |-> scan.statement.manifests[path]]
               = ManifestsNamed(c, ObservedIn(c.read, pin))
  BY <1>3 DEF ManifestsNamed, ObservedIn
<1>5. \A path \in DOMAIN c.read : ManifestSays(recs, p, path, scan.statement.manifests[path], c.read)
  BY <1>1, <1>3 DEF NamedFits, ManifestsFirst
<1>6. \A pin \in PinsIn(c.read) :
        DependencySays(recs, p, pin, scan.statement.dependencies[pin], c.read,
                       [path \in ObservedIn(c.read, pin) |-> scan.statement.manifests[path]])
  BY <1>1, <1>2, <1>4 DEF NamedFits, DependenciesNamed
<1>7. DOMAIN scan.statement.dependencies = PinsIn(c.read)
  BY <1>2 DEF DependenciesNamed
<1> QED BY <1>2, <1>3, <1>5, <1>6, <1>7 DEF ScanSays
-----------------------------------------------------------------------------
(* Steps                                                                   *)

LEMMA ScannerStays ==
    ASSUME RepositoriesFit, StoreFits, StoreGrows, Extends(records', records), NEW c, ScannerFits(c)
    PROVE  ScannerFits(c)'
<1>1. NamedFits(records', c)
  BY NamedStays DEF ScannerFits
<1>2. VersionFits(c.project, c.locator, c.version)'
  BY VersionStays DEF ScannerFits, VersionFits
<1> QED BY <1>1, <1>2 DEF ScannerFits

(* A step of w that leaves the tables consistent leaves the others where   *)
(* they are.                                                               *)
LEMMA CallStep ==
    ASSUME IInv, NEW w \in Actors, NEW next, doing' = [doing EXCEPT ![w] = next],
           StoreGrows, StoreFits', Extends(records', records), FilesFit', RecordsFit',
           next = Idle \/ BinderFits(next)' \/ ScannerFits(next)'
    PROVE  IInv'
<1>1. ASSUME NEW u \in Actors
      PROVE  doing'[u] = Idle \/ BinderFits(doing[u])' \/ ScannerFits(doing[u])'
  <2>1. CASE u = w
    <3>1. doing'[u] = next
      BY <2>1 DEF IInv, CallsFit
    <3> QED BY <3>1
  <2>2. CASE u # w
    <3> PICK c : c = doing[u]
      OBVIOUS
    <3>1. doing'[u] = c
      BY <2>2 DEF IInv, CallsFit
    <3>2. CASE BinderFits(c)
      <4>1. BinderFits(c)'
        BY <3>2, BinderStays DEF IInv, BinderFits
      <4> QED BY <3>1, <4>1
    <3>3. CASE ScannerFits(c)
      <4>1. ScannerFits(c)'
        BY <3>3, ScannerStays DEF IInv
      <4> QED BY <3>1, <4>1
    <3> QED BY <3>1, <3>2, <3>3 DEF IInv, CallsFit
  <2> QED BY <2>1, <2>2
<1>2. CallsFit'
  BY <1>1 DEF IInv, CallsFit, Idle
<1> QED BY <1>2 DEF IInv, RepositoriesFit

LEMMA StoreSame ==
    ASSUME StoreFits, UNCHANGED <<bindings, versions>>
    PROVE  StoreGrows /\ StoreFits'
<1>1. \A b : RevisionsOf(b)' = RevisionsOf(b)
  BY DEF RevisionsOf
<1>2. \A b : Ordinals(b)' = Ordinals(b)
  BY <1>1 DEF Ordinals
<1>3. \A v \in DOMAIN versions : Linked(v)'
  BY <1>1 DEF StoreFits, Linked
<1> QED BY <1>1, <1>2, <1>3 DEF StoreFits, StoreGrows

LEMMA SameTables ==
    ASSUME IInv, UNCHANGED <<bindings, versions, records>>
    PROVE  /\ StoreGrows /\ StoreFits' /\ Extends(records', records) /\ RecordsFit'
           /\ \A c : /\ BinderFits(c) => BinderFits(c)'
                     /\ ScannerFits(c) => ScannerFits(c)'
<1>1. Extends(records', records)
  BY DEF Extends
<1>2. StoreGrows /\ StoreFits'
  BY StoreSame DEF IInv
<1>3. RecordsFit'
  BY DEF IInv, RecordsFit, VersionFits, ScansOf, ScanAt, StatementOf
<1>4. \A c : BinderFits(c) => BinderFits(c)'
  BY DEF BinderFits, RevisionsOf
<1>5. \A c : ScannerFits(c) => ScannerFits(c)'
  BY DEF ScannerFits, VersionFits
<1> QED BY <1>1, <1>2, <1>3, <1>4, <1>5

LEMMA QuietStep ==
    ASSUME IInv, NEW w \in Actors, NEW next, doing' = [doing EXCEPT ![w] = next],
           UNCHANGED <<bindings, versions, files, records>>,
           next = Idle \/ BinderFits(next) \/ ScannerFits(next)
    PROVE  IInv'
<1>1. FilesFit'
  BY DEF IInv, FilesFit
<1>2. next = Idle \/ BinderFits(next)' \/ ScannerFits(next)'
  BY SameTables
<1> QED BY <1>1, <1>2, SameTables, CallStep

(* Steps of nobody's call                                                   *)
LEMMA AsideStep ==
    ASSUME IInv, UNCHANGED <<bindings, versions, records, doing>>, FilesFit'
    PROVE  IInv'
<1>1. CallsFit'
  BY SameTables DEF IInv, CallsFit, Idle
<1> QED BY <1>1, SameTables DEF IInv, RepositoriesFit

LEMMA EditStep ==
    ASSUME IInv, NEW l \in Locators, NEW path \in Range(Manifests), NEW content \in Texts \cup {None},
           EditManifest(l, path, content)
    PROVE  IInv'
<1>1. content \in DOMAIN PinsOf \cup {None}
  BY DEF IInv, RepositoriesFit
<1>2. FilesFit'
  BY <1>1 DEF IInv, FilesFit, EditManifest
<1> QED BY <1>2, AsideStep DEF EditManifest, storeVars

(* Binding                                                                 *)
LEMMA BindReadStep ==
    ASSUME IInv, NEW w \in Actors, NEW p \in Projects, NEW k \in Keys, NEW l \in Locators,
           BindRead(w, p, k, l), UNCHANGED scanVars
    PROVE  IInv'
<1> PICK b, v, next :
         /\ b = BindingOf(p, k) /\ v = Latest(b)
         /\ next = [pc |-> "bind", project |-> p, key |-> k, locator |-> l, binding |-> b, parent |-> v]
  OBVIOUS
<1>1. /\ v # None => versions[v].locator # l
      /\ doing' = [doing EXCEPT ![w] = next] /\ UNCHANGED storeVars
  BY DEF BindRead
<1>2. CASE b = None
  <2>1. RevisionsOf(b) = {}
    BY <1>2 DEF RevisionsOf, IInv, StoreFits, RepositoriesFit
  <2>2. v = None
    BY <2>1 DEF Latest
  <2>3. BinderFits(next)
    BY <1>2, <2>2 DEF BinderFits
  <2> QED BY <1>1, <2>3, QuietStep DEF storeVars, scanVars
<1>3. CASE b # None
  <2>1. b \in DOMAIN bindings /\ bindings[b] = [project |-> p, key |-> k]
    BY <1>3, BindingFound DEF IInv, RepositoriesFit
  <2>2. v \in RevisionsOf(b)
    BY <2>1, LatestFound DEF IInv, RepositoriesFit
  <2>3. BinderFits(next)
    BY <1>1, <1>3, <2>1, <2>2 DEF BinderFits
  <2> QED BY <1>1, <2>3, QuietStep DEF storeVars, scanVars
<1> QED BY <1>2, <1>3

LEMMA BindWriteStep ==
    ASSUME IInv, NEW w \in Actors, BindWrite(w), UNCHANGED scanVars
    PROVE  IInv'
<1>1. BinderFits(doing[w])
  BY DEF IInv, CallsFit, BindWrite, Idle, ScannerFits
<1>2. StoreFits' /\ StoreGrows
  BY <1>1, WriteKeepsStore DEF IInv, RepositoriesFit
<1>3. /\ Extends(records', records) /\ FilesFit' /\ doing' = [doing EXCEPT ![w] = Idle]
  BY DEF IInv, Extends, FilesFit, scanVars, BindWrite, Return
<1>4. RecordsFit'
  <2>1. \A p \in Projects : \A i \in ScansOf(p) :
          VersionFits(p, ScanAt(p, i).where, StatementOf(p, i).version)'
    <3> SUFFICES ASSUME NEW p \in Projects, NEW i \in ScansOf(p)
                 PROVE  VersionFits(p, ScanAt(p, i).where, StatementOf(p, i).version)'
      OBVIOUS
    <3> PICK l, v : l = ScanAt(p, i).where /\ v = StatementOf(p, i).version
      OBVIOUS
    <3>1. VersionFits(p, l, v)
      BY DEF IInv, RecordsFit
    <3>2. VersionFits(p, l, v)'
      BY <1>2, <3>1, VersionStays DEF IInv, VersionFits
    <3>3. l = ScanAt(p, i).where' /\ v = StatementOf(p, i).version'
      BY DEF scanVars, ScanAt, StatementOf
    <3> QED BY <3>2, <3>3
  <2> QED BY <2>1 DEF IInv, RecordsFit, scanVars, ScansOf, ScanAt, StatementOf
<1> QED BY <1>2, <1>3, <1>4, CallStep

(* Beginning to scan                                                       *)
LEMMA ScannerBegins ==
    ASSUME IInv, NEW p \in Projects, NEW l \in Locators, NEW v, VersionFits(p, l, v)
    PROVE  ScannerFits(Scanner("eligible", p, l, v))
<1>1. DOMAIN <<>> = {}
  OBVIOUS
<1>2. PinsIn(<<>>) = {}
  BY <1>1 DEF PinsIn
<1> QED BY <1>1, <1>2 DEF ScannerFits, Scanner, ReadFits, NamedFits, VersionFits

LEMMA BeginStep ==
    ASSUME IInv, NEW w \in Actors, NEW p \in Projects,
           \/ \E k \in Keys : ScanBound(w, p, k)
           \/ \E l \in Locators : ImportByName(w, p, l)
    PROVE  IInv'
<1>1. ASSUME NEW l \in Locators, NEW v, VersionFits(p, l, v), Begin(w, Scanner("eligible", p, l, v))
      PROVE  IInv'
  BY <1>1, ScannerBegins, QuietStep DEF Begin, storeVars
<1>2. ASSUME NEW k \in Keys, ScanBound(w, p, k) PROVE IInv'
  <2> PICK b, v : b = BindingOf(p, k) /\ v = Latest(b)
    OBVIOUS
  <2>1. b # None /\ Begin(w, Scanner("eligible", p, versions[v].locator, v))
    BY <1>2 DEF ScanBound
  <2>2. b \in DOMAIN bindings /\ bindings[b] = [project |-> p, key |-> k]
    BY <2>1, BindingFound DEF IInv, RepositoriesFit
  <2>3. v \in RevisionsOf(b)
    BY <2>2, LatestFound DEF IInv, RepositoriesFit
  <2>4. VersionFits(p, versions[v].locator, v) /\ versions[v].locator \in Locators
    BY <2>2, <2>3 DEF VersionFits, RevisionsOf, IInv, StoreFits
  <2> QED BY <1>1, <2>1, <2>4
<1>3. ASSUME NEW l \in Locators, ImportByName(w, p, l) PROVE IInv'
  BY <1>1, <1>3 DEF ImportByName, VersionFits
<1> QED BY <1>2, <1>3
(* A worker that neither idles nor binds scans.                            *)
LEMMA WorkerScans ==
    ASSUME IInv, NEW w \in Actors, doing[w].pc \notin {"idle", "bind"}
    PROVE  ScannerFits(doing[w])
<1>1. doing[w] = Idle \/ BinderFits(doing[w]) \/ ScannerFits(doing[w])
  BY DEF IInv, CallsFit
<1>2. doing[w] # Idle
  BY DEF Idle
<1>3. ~BinderFits(doing[w])
  BY DEF BinderFits
<1> QED BY <1>1, <1>2, <1>3

(* Reading the repository                                                  *)
LEMMA NextPathFound ==
    ASSUME RepositoriesFit, NEW c, c.todo \subseteq DOMAIN Manifests, c.todo # {}
    PROVE  NextPath(c) \in Range(Manifests)
<1>1. DOMAIN Manifests = 1..Len(Manifests) /\ Len(Manifests) \in Nat
  BY DEF RepositoriesFit
<1>2. Min(c.todo) \in c.todo
  <2>1. c.todo \subseteq 0..Len(Manifests)
    BY <1>1
  <2> QED BY <1>1, <2>1, MinMax
<1> QED BY <1>2 DEF NextPath, Range

LEMMA GoesStep ==
    ASSUME IInv, NEW w \in Actors, NEW next, Goes(w, next), next = Idle \/ ScannerFits(next)
    PROVE  IInv'
BY QuietStep DEF Goes, storeVars, scanVars

LEMMA EligibleStep ==
    ASSUME IInv, NEW w \in Actors, Eligible(w)
    PROVE  IInv'
<1> PICK c, found, next :
         /\ c = doing[w] /\ found = {i \in DOMAIN Manifests : files[c.locator][Manifests[i]] # None}
         /\ next = [c EXCEPT !.pc = IF found = {} THEN "find" ELSE "text", !.todo = found]
  OBVIOUS
<1>1. c.pc = "eligible" /\ (Goes(w, Idle) \/ Goes(w, next))
  BY DEF Eligible
<1>2. ScannerFits(c)
  BY <1>1, WorkerScans
<1>3. found \subseteq DOMAIN Manifests
  OBVIOUS
<1>4. next = [pc |-> IF found = {} THEN "find" ELSE "text", project |-> c.project,
              locator |-> c.locator, version |-> c.version, todo |-> found, read |-> c.read,
              text |-> c.text, named |-> c.named, head |-> c.head]
  BY <1>2 DEF ScannerFits
<1>5. ScannerFits(next)
  BY <1>1, <1>2, <1>3, <1>4 DEF ScannerFits, NamedFits, ManifestsFirst
<1> QED BY <1>1, <1>5, GoesStep

LEMMA ReadTextStep ==
    ASSUME IInv, NEW w \in Actors, ReadText(w)
    PROVE  IInv'
<1> PICK c, text, next :
         /\ c = doing[w] /\ text = files[c.locator][NextPath(c)]
         /\ next = [c EXCEPT !.pc = "digest", !.text = text]
  OBVIOUS
<1>1. c.pc = "text" /\ Goes(w, IF text = None THEN Idle ELSE next)
  BY DEF ReadText
<1>2. ScannerFits(c)
  BY <1>1, WorkerScans
<1>3. NextPath(c) \in Range(Manifests)
  BY <1>1, <1>2, NextPathFound DEF IInv, ScannerFits
<1>4. text \in DOMAIN PinsOf \cup {None}
  BY <1>2, <1>3 DEF IInv, FilesFit, ScannerFits
<1>5. next = [pc |-> "digest", project |-> c.project,
              locator |-> c.locator, version |-> c.version, todo |-> c.todo, read |-> c.read,
              text |-> text, named |-> c.named, head |-> c.head]
  BY <1>2 DEF ScannerFits
<1>6. text # None => ScannerFits(next)
  BY <1>1, <1>2, <1>4, <1>5 DEF ScannerFits, NamedFits, ManifestsFirst
<1> QED BY <1>1, <1>6, GoesStep

LEMMA ReadDigestStep ==
    ASSUME IInv, NEW w \in Actors, ReadDigest(w)
    PROVE  IInv'
<1> PICK c, digest, rest, read, next :
         /\ c = doing[w] /\ digest = files[c.locator][NextPath(c)]
         /\ rest = c.todo \ {Min(c.todo)}
         /\ read = With(c.read, NextPath(c), [text |-> c.text, digest |-> digest])
         /\ next = [c EXCEPT !.pc = IF rest = {} THEN "find" ELSE "text",
                             !.todo = rest, !.text = None, !.read = read]
  OBVIOUS
<1>1. c.pc = "digest" /\ (Goes(w, Idle) \/ Goes(w, next))
  BY DEF ReadDigest
<1>2. ScannerFits(c)
  BY <1>1, WorkerScans
<1>3. NextPath(c) \in Range(Manifests)
  BY <1>1, <1>2, NextPathFound DEF IInv, ScannerFits
<1>4. ReadFits(read)
  BY <1>1, <1>2, <1>3 DEF ScannerFits, ReadFits, With
<1>5. next = [pc |-> IF rest = {} THEN "find" ELSE "text", project |-> c.project,
              locator |-> c.locator, version |-> c.version, todo |-> rest, read |-> read,
              text |-> None, named |-> c.named, head |-> c.head]
  BY <1>2 DEF ScannerFits
<1>6. DOMAIN next.named = {} /\ next.todo \subseteq DOMAIN Manifests
  <2>1. DOMAIN c.named = {} /\ c.todo \subseteq DOMAIN Manifests
    BY <1>1, <1>2 DEF ScannerFits
  <2>2. next.named = c.named /\ next.todo = rest
    BY <1>5
  <2> QED BY <2>1, <2>2
<1>7. NamedFits(records, next)
  BY <1>6 DEF NamedFits
<1>8. ScannerFits(next)
  BY <1>2, <1>4, <1>5, <1>6, <1>7 DEF ScannerFits
<1> QED BY <1>1, <1>8, GoesStep

LEMMA ProjectStep ==
    ASSUME IInv, NEW w \in Actors, FindProject(w) \/ CreateFound(w)
    PROVE  IInv'
<1> PICK c : c = doing[w]
  OBVIOUS
<1>1. c.pc \in {"find", "create"}
  BY DEF FindProject, CreateFound
<1>2. ScannerFits(c)
  BY <1>1, WorkerScans
<1>3. ASSUME NEW pc \in {"create", "record"} PROVE ScannerFits([c EXCEPT !.pc = pc])
  <2>1. [c EXCEPT !.pc = pc] =
             [pc |-> pc, project |-> c.project,
              locator |-> c.locator, version |-> c.version, todo |-> c.todo, read |-> c.read,
              text |-> c.text, named |-> c.named, head |-> c.head]
    BY <1>2 DEF ScannerFits
  <2> QED BY <1>1, <1>2, <2>1 DEF ScannerFits, NamedFits, ManifestsFirst
<1>4. CASE FindProject(w)
  BY <1>3, <1>4, GoesStep DEF FindProject
<1>5. CASE CreateFound(w)
  BY <1>3, <1>5, QuietStep DEF CreateFound, scanVars
<1> QED BY <1>4, <1>5

(* Recording                                                               *)
LEMMA ReadHeadStep ==
    ASSUME IInv, NEW w \in Actors, ReadHead(w)
    PROVE  IInv'
<1> PICK c, id, head : c = doing[w] /\ id = NextRecord(c) /\ head = Len(records[id])
  OBVIOUS
<1>1. /\ c.pc = "record"
      /\ Goes(w, IF head > 0 /\ id # Scan(c.project) /\ Says(records[id][head], Wanted(c, id))
                 THEN [c EXCEPT !.named = With(c.named, id, head)]
                 ELSE [c EXCEPT !.pc = "append", !.head = head])
  BY DEF ReadHead
<1>2. ScannerFits(c)
  BY <1>1, WorkerScans
<1>3. CASE head > 0 /\ id # Scan(c.project) /\ Says(records[id][head], Wanted(c, id))
  <2> PICK named, next : named = With(c.named, id, head) /\ next = [c EXCEPT !.named = named]
    OBVIOUS
  <2>1. next = [pc |-> c.pc, project |-> c.project,
                locator |-> c.locator, version |-> c.version, todo |-> c.todo, read |-> c.read,
                text |-> c.text, named |-> named, head |-> c.head]
    BY <1>2 DEF ScannerFits
  <2>2. id \in RecordIds
    BY <1>2, <1>3, NextInOrder, IdsOfProject DEF IInv, ScannerFits
  <2>3. head \in DOMAIN records[id]
    BY <1>3, <2>2 DEF IInv, RecordsFit
  <2>4. NamedFits(records, next)
    <3>1. next.project = c.project /\ next.read = c.read /\ next.named = With(c.named, NextRecord(c), head)
      BY <2>1
    <3>2. NamedFits(records, c)
      BY <1>2 DEF ScannerFits
    <3>3. /\ NextRecord(c) # Scan(c.project)
          /\ head \in DOMAIN records[NextRecord(c)]
          /\ Says(records[NextRecord(c)][head], Wanted(c, NextRecord(c)))
      BY <1>3, <2>3
    <3> QED BY <3>1, <3>2, <3>3, NameNext
  <2>5. ScannerFits(next)
    BY <1>1, <1>2, <2>1, <2>4 DEF ScannerFits
  <2> QED BY <1>1, <1>3, <2>5, GoesStep
<1>4. CASE ~(head > 0 /\ id # Scan(c.project) /\ Says(records[id][head], Wanted(c, id)))
  <2> PICK next : next = [c EXCEPT !.pc = "append", !.head = head]
    OBVIOUS
  <2>1. next = [pc |-> "append", project |-> c.project,
                locator |-> c.locator, version |-> c.version, todo |-> c.todo, read |-> c.read,
                text |-> c.text, named |-> c.named, head |-> head]
    BY <1>2 DEF ScannerFits
  <2>2. NamedFits(records, next)
    BY <1>2, <2>1 DEF ScannerFits, NamedFits, ManifestsFirst, ManifestsNamed
  <2>3. ScannerFits(next)
    BY <1>2, <2>1, <2>2 DEF ScannerFits
  <2> QED BY <1>1, <1>4, <2>3, GoesStep
<1> QED BY <1>3, <1>4

(* One revision more, and nothing else, in the table of records.           *)
LEMMA AppendExtends ==
    ASSUME IInv, NEW id \in RecordIds, NEW revision,
           records' = [records EXCEPT ![id] = Append(records[id], revision)]
    PROVE  /\ Extends(records', records)
           /\ DOMAIN records' = RecordIds
           /\ \A other \in RecordIds : records'[other] \in Seq(Range(records'[other]))
           /\ \A other \in RecordIds : other # id => records'[other] = records[other]
           /\ DOMAIN records'[id] = DOMAIN records[id] \cup {Len(records[id]) + 1}
           /\ records'[id][Len(records[id]) + 1] = revision
<1>1. DOMAIN records = RecordIds /\ \A other \in RecordIds : records[other] \in Seq(Range(records[other]))
  BY DEF IInv, RecordsFit
<1>2. GrownBy(records'[id], records[id], revision)
  BY <1>1, Grows
<1>3. \A other \in RecordIds : other # id => records'[other] = records[other]
  BY <1>1
<1>4. DOMAIN records' = RecordIds
  BY <1>1
<1>5. /\ records'[id] \in Seq(Range(records'[id]))
      /\ DOMAIN records'[id] = DOMAIN records[id] \cup {Len(records[id]) + 1}
      /\ records'[id][Len(records[id]) + 1] = revision
      /\ \A n \in DOMAIN records[id] : n \in DOMAIN records'[id] /\ records'[id][n] = records[id][n]
  BY <1>2 DEF GrownBy
<1> QED BY <1>1, <1>3, <1>4, <1>5 DEF Extends

LEMMA AppendRevisionStep ==
    ASSUME IInv, NEW w \in Actors, AppendRevision(w)
    PROVE  IInv'
<1> PICK c, id, revision, n, p :
         c = doing[w] /\ id = NextRecord(c) /\ revision = Wanted(c, id) /\ n = c.head + 1 /\ p = c.project
  OBVIOUS
<1>1. /\ c.pc = "append" /\ Len(records[id]) = c.head
      /\ records' = [records EXCEPT ![id] = Append(records[id], revision)]
      /\ doing' = [doing EXCEPT ![w] = IF id = Scan(p) THEN Idle
                      ELSE [c EXCEPT !.pc = "record", !.head = 0, !.named = With(c.named, id, n)]]
      /\ UNCHANGED <<storeVars, files, begun, changes>>
  BY DEF AppendRevision
<1>2. ScannerFits(c)
  BY <1>1, WorkerScans
<1>3. id \in RecordIds
  BY <1>2, NextInOrder, IdsOfProject DEF IInv, ScannerFits
<1>4. /\ Extends(records', records)
      /\ DOMAIN records' = RecordIds
      /\ \A other \in RecordIds : records'[other] \in Seq(Range(records'[other]))
      /\ \A other \in RecordIds : other # id => records'[other] = records[other]
      /\ DOMAIN records'[id] = DOMAIN records[id] \cup {n}
      /\ records'[id][n] = revision
  <2>1. n = Len(records[id]) + 1
    BY <1>1
  <2>2. records' = [records EXCEPT ![id] = Append(records[id], revision)]
    BY <1>1
  <2>3. /\ Extends(records', records)
        /\ DOMAIN records' = RecordIds
        /\ \A other \in RecordIds : records'[other] \in Seq(Range(records'[other]))
        /\ \A other \in RecordIds : other # id => records'[other] = records[other]
        /\ DOMAIN records'[id] = DOMAIN records[id] \cup {Len(records[id]) + 1}
        /\ records'[id][Len(records[id]) + 1] = revision
    BY <1>3, <2>2, AppendExtends
  <2> QED BY <2>1, <2>3
<1>5. NamedFits(records', c)
  BY <1>2, <1>4, NamedStays DEF IInv, ScannerFits
<1>6. StoreGrows /\ StoreFits' /\ FilesFit'
  BY <1>1, StoreSame DEF IInv, storeVars, FilesFit
<1>7. RecordsFit'
  <2>1. ASSUME NEW q \in Projects, NEW i \in DOMAIN records'[Scan(q)]
        PROVE  /\ VersionFits(q, records'[Scan(q)][i].where, records'[Scan(q)][i].statement.version)
               /\ ScanSays(records', q, records'[Scan(q)][i])
    <3>1. CASE i \in DOMAIN records[Scan(q)]
      <4>1. Scan(q) \in RecordIds
        BY DEF RecordIds
      <4>2. records'[Scan(q)][i] = records[Scan(q)][i]
        BY <1>4, <3>1, <4>1 DEF Extends
      <4>3. /\ VersionFits(q, records[Scan(q)][i].where, records[Scan(q)][i].statement.version)
            /\ ScanSays(records, q, records[Scan(q)][i])
        BY <3>1 DEF IInv, RecordsFit, ScansOf, ScanAt, StatementOf
      <4> QED BY <1>4, <4>2, <4>3, ScanStays DEF IInv
    <3>2. CASE i \notin DOMAIN records[Scan(q)]
      <4>1. Scan(q) \in RecordIds
        BY DEF RecordIds
      <4>2. Scan(q) = id /\ i = n
        BY <1>4, <3>2, <4>1
      <4>3. q = p
        BY <4>2, NextInOrder, RecordsApart
      <4>4. ScanSays(records', q, revision)
        BY <1>2, <1>5, <4>2, <4>3, ScanSaysWhatWasRead DEF ScannerFits
      <4>5. revision.where = c.locator /\ revision.statement.version = c.version
        BY <4>2, <4>3, ScanWanted
      <4>6. VersionFits(q, revision.where, revision.statement.version)
        BY <1>2, <4>3, <4>5 DEF ScannerFits
      <4> QED BY <1>4, <4>2, <4>4, <4>6
    <3> QED BY <3>1, <3>2
  <2>2. \A q, l, v : VersionFits(q, l, v)' <=> VersionFits(q, l, v)
    BY <1>1 DEF VersionFits, storeVars
  <2>3. \A q \in Projects : \A i \in ScansOf(q)' :
           /\ VersionFits(q, ScanAt(q, i).where, StatementOf(q, i).version)'
           /\ ScanSays(records, q, ScanAt(q, i))'
    BY <2>1, <2>2 DEF ScansOf, ScanAt, StatementOf
  <2> QED BY <1>4, <2>3 DEF RecordsFit
<1>8. CASE id = Scan(p)
  BY <1>1, <1>4, <1>6, <1>7, <1>8, CallStep
<1>9. CASE id # Scan(p)
  <2> PICK named, next : /\ named = With(c.named, id, n)
                         /\ next = [c EXCEPT !.pc = "record", !.head = 0, !.named = named]
    OBVIOUS
  <2>1. next = [pc |-> "record", project |-> c.project,
                locator |-> c.locator, version |-> c.version, todo |-> c.todo, read |-> c.read,
                text |-> c.text, named |-> named, head |-> 0]
    BY <1>2 DEF ScannerFits
  <2>2. NamedFits(records', next)
    <3>1. next.project = c.project /\ next.read = c.read /\ next.named = With(c.named, NextRecord(c), n)
      BY <2>1
    <3>2. /\ NextRecord(c) # Scan(c.project)
          /\ n \in DOMAIN records'[NextRecord(c)]
          /\ Says(records'[NextRecord(c)][n], Wanted(c, NextRecord(c)))
      BY <1>4, <1>9 DEF Says
    <3> QED BY <1>5, <3>1, <3>2, NameNext
  <2>3. VersionFits(c.project, c.locator, c.version)'
    BY <1>1, <1>2 DEF ScannerFits, VersionFits, storeVars
  <2>4. ScannerFits(next)'
    BY <1>2, <2>1, <2>2, <2>3 DEF ScannerFits
  <2>5. doing' = [doing EXCEPT ![w] = next]
    BY <1>1, <1>9
  <2> QED BY <1>4, <1>6, <1>7, <2>4, <2>5, CallStep
<1> QED BY <1>8, <1>9

LEMMA EndStep ==
    ASSUME IInv, NEW w \in Actors, AppendRaises(w) \/ ScannerDies(w)
    PROVE  IInv'
BY GoesStep DEF AppendRaises, ScannerDies

-----------------------------------------------------------------------------
LEMMA InitHolds == RepositoriesFit /\ SupplyInit => IInv
<1> SUFFICES ASSUME RepositoriesFit, SupplyInit PROVE IInv
  OBVIOUS
<1> USE DEF SupplyInit, StoreInit
<1>1. StoreFits
  <2>1. <<>> \in Seq(Range(<<>>)) /\ DOMAIN <<>> = {}
    OBVIOUS
  <2> QED BY <2>1 DEF StoreFits, IsInjective
<1>2. CallsFit
  BY DEF CallsFit
<1>3. FilesFit
  BY DEF RepositoriesFit, FilesFit
<1>4. RecordsFit
  <2>1. <<>> \in Seq(Range(<<>>)) /\ DOMAIN <<>> = {}
    OBVIOUS
  <2>2. \A p \in Projects : Scan(p) \in RecordIds
    BY DEF RecordIds
  <2> QED BY <2>1, <2>2 DEF RecordsFit, ScansOf
<1> QED BY <1>1, <1>2, <1>3, <1>4 DEF IInv

LEMMA NextKeeps == IInv /\ [SupplyNext]_supplyVars => IInv'
<1> SUFFICES ASSUME IInv, [SupplyNext]_supplyVars PROVE IInv'
  OBVIOUS
<1>1. CASE StoreNext
  <2>1. ASSUME NEW p \in Projects, CreateProject(p), UNCHANGED scanVars PROVE IInv'
    BY <2>1, AsideStep DEF CreateProject, scanVars, IInv, FilesFit
  <2>2. ASSUME NEW w \in Actors, NEW p \in Projects, NEW k \in Keys, NEW l \in Locators,
               BindRead(w, p, k, l), UNCHANGED scanVars
        PROVE  IInv'
    BY <2>2, BindReadStep
  <2>3. ASSUME NEW w \in Actors, BindWrite(w), UNCHANGED scanVars PROVE IInv'
    BY <2>3, BindWriteStep
  <2>4. ASSUME NEW w \in Actors, BindRaises(w), UNCHANGED scanVars PROVE IInv'
    BY <2>4, QuietStep DEF BindRaises, Return, storeVars, scanVars
  <2>5. ASSUME NEW p \in Projects, NEW k \in Keys, NEW enabled \in BOOLEAN,
               SetEnabled(p, k, enabled), UNCHANGED scanVars
        PROVE  IInv'
    BY <2>5, AsideStep DEF SetEnabled, scanVars, IInv, FilesFit
  <2> QED BY <1>1, <2>1, <2>2, <2>3, <2>4, <2>5 DEF StoreNext
<1>2. ASSUME NEW l \in Locators, NEW path \in Range(Manifests), NEW content \in Texts \cup {None},
             EditManifest(l, path, content)
      PROVE  IInv'
  BY <1>2, EditStep
<1>3. ASSUME NEW w \in Actors,
             \/ \E p \in Projects, k \in Keys : ScanBound(w, p, k)
             \/ \E p \in Projects, l \in Locators : ImportByName(w, p, l)
      PROVE  IInv'
  BY <1>3, BeginStep
<1>4. ASSUME NEW w \in Actors,
             \/ Eligible(w) \/ ReadText(w) \/ ReadDigest(w)
             \/ FindProject(w) \/ CreateFound(w)
             \/ ReadHead(w) \/ AppendRevision(w) \/ AppendRaises(w)
             \/ ScannerDies(w)
      PROVE  IInv'
  BY <1>4, EligibleStep, ReadTextStep, ReadDigestStep, ProjectStep, ReadHeadStep,
     AppendRevisionStep, EndStep
<1>5. CASE UNCHANGED supplyVars
  BY <1>5, AsideStep DEF supplyVars, storeVars, scanVars, IInv, FilesFit
<1> QED BY <1>1, <1>2, <1>3, <1>4, <1>5 DEF SupplyNext

-----------------------------------------------------------------------------
(* Theorems                                                                *)

(* The inductive invariant holds in every reachable state, however binders *)
(* and scanners overlap, fail and crash.                                   *)
THEOREM Invariance == RepositoriesFit /\ SupplySpec => []IInv
<1>1. RepositoriesFit /\ SupplyInit => IInv
  BY InitHolds
<1>2. IInv /\ [SupplyNext]_supplyVars => IInv'
  BY NextKeeps
<1> QED BY <1>1, <1>2, PTL DEF SupplySpec

(* bind_repository: a key of a project has one binding, and its revisions  *)
(* are one chain without gaps, whatever other binders and scanners do.     *)
THEOREM HistoryIsAChain == RepositoriesFit /\ SupplySpec => []BindingHistoryIsAChain
<1>1. IInv => BindingHistoryIsAChain
  <2> SUFFICES ASSUME IInv PROVE BindingHistoryIsAChain
    OBVIOUS
  <2>1. \A b \in DOMAIN bindings : \A v \in RevisionsOf(b) :
          v \in DOMAIN versions /\ versions[v].binding = b /\ Linked(v)
    BY DEF IInv, StoreFits, RevisionsOf
  <2>2. \A b \in DOMAIN bindings : Ordinals(b) = 1..Cardinality(RevisionsOf(b))
    BY DEF IInv, StoreFits
  <2> QED BY <2>1, <2>2 DEF IInv, StoreFits, Linked, Ordinals, BindingHistoryIsAChain
<1> QED BY <1>1, Invariance, PTL

-----------------------------------------------------------------------------
(* What a recorded scan names, in terms of what its scanner read.          *)
LEMMA SnapshotIsSeen ==
    ASSUME IInv, NEW p \in Projects, NEW i \in ScansOf(p)
    PROVE  /\ VersionFits(p, ScanAt(p, i).where, StatementOf(p, i).version)
           /\ DOMAIN StatementOf(p, i).manifests = DOMAIN Seen(p, i)
           /\ DOMAIN ManifestSnapshot(p, i) = DOMAIN Seen(p, i)
           /\ \A path \in DOMAIN Seen(p, i) :
                ManifestSnapshot(p, i)[path] =
                  [pins |-> PinsOf[Seen(p, i)[path].text], digest |-> Seen(p, i)[path].digest]
           /\ DOMAIN StatementOf(p, i).dependencies = PinsIn(Seen(p, i))
           /\ \A pin \in PinsIn(Seen(p, i)) :
                DependencySays(records, p, pin, StatementOf(p, i).dependencies[pin], Seen(p, i),
                   [path \in ObservedIn(Seen(p, i), pin) |-> StatementOf(p, i).manifests[path]])
<1>1. /\ VersionFits(p, ScanAt(p, i).where, StatementOf(p, i).version)
      /\ ScanSays(records, p, ScanAt(p, i))
  BY DEF IInv, RecordsFit
<1>2. /\ DOMAIN StatementOf(p, i).manifests = DOMAIN Seen(p, i)
      /\ DOMAIN StatementOf(p, i).dependencies = PinsIn(Seen(p, i))
      /\ \A path \in DOMAIN Seen(p, i) :
           ManifestSays(records, p, path, StatementOf(p, i).manifests[path], Seen(p, i))
      /\ \A pin \in PinsIn(Seen(p, i)) :
           DependencySays(records, p, pin, StatementOf(p, i).dependencies[pin], Seen(p, i),
                   [path \in ObservedIn(Seen(p, i), pin) |-> StatementOf(p, i).manifests[path]])
  BY <1>1 DEF ScanSays, StatementOf, Seen
<1>3. DOMAIN ManifestSnapshot(p, i) = DOMAIN Seen(p, i)
  BY <1>2 DEF ManifestSnapshot
<1>4. \A path \in DOMAIN Seen(p, i) :
        ManifestSnapshot(p, i)[path] =
          [pins |-> PinsOf[Seen(p, i)[path].text], digest |-> Seen(p, i)[path].digest]
  BY <1>2 DEF ManifestSnapshot, ManifestSays
<1> QED BY <1>1, <1>2, <1>3, <1>4

LEMMA PinsAreSeen ==
    ASSUME IInv, NEW p \in Projects, NEW i \in ScansOf(p), NEW path \in DOMAIN Seen(p, i)
    PROVE  ManifestSnapshot(p, i)[path].pins = PinsOf[Seen(p, i)[path].text]
<1>1. ManifestSnapshot(p, i)[path] =
        [pins |-> PinsOf[Seen(p, i)[path].text], digest |-> Seen(p, i)[path].digest]
  BY SnapshotIsSeen
<1> QED BY <1>1

(* scan_bound_repository and import: a recorded scan is of the binding     *)
(* revision it names and of the manifests read in that repository.         *)
THEOREM ScansAreOfTheirBinding == RepositoriesFit /\ SupplySpec => []ScanIsOfItsBinding
<1>1. IInv => ScanIsOfItsBinding
  <2> SUFFICES ASSUME IInv, NEW p \in Projects, NEW i \in ScansOf(p)
               PROVE  LET scan == ScanAt(p, i)
                          v == scan.statement.version
                      IN /\ v # None => /\ versions[v].locator = scan.where
                                        /\ bindings[versions[v].binding].project = p
                         /\ DOMAIN scan.statement.manifests = DOMAIN scan.saw
                         /\ \A path \in DOMAIN scan.saw :
                              ManifestSnapshot(p, i)[path] =
                                [pins |-> PinsOf[scan.saw[path].text], digest |-> scan.saw[path].digest]
    BY DEF ScanIsOfItsBinding
  <2> QED BY SnapshotIsSeen DEF VersionFits, StatementOf, Seen
<1> QED BY <1>1, Invariance, PTL

(* ... and it hangs together: each dependency revision it names rests on   *)
(* the manifest revisions it names for the manifests that pin it.          *)
THEOREM ScansHangTogether == RepositoriesFit /\ SupplySpec => []ScanHangsTogether
<1>1. IInv => ScanHangsTogether
  <2> SUFFICES ASSUME IInv, NEW p \in Projects, NEW i \in ScansOf(p)
               PROVE  LET named == StatementOf(p, i)
                          pinning(pin) == {path \in DOMAIN named.manifests :
                                             pin \in ManifestSnapshot(p, i)[path].pins}
                      IN /\ DOMAIN named.dependencies =
                              UNION {ManifestSnapshot(p, i)[path].pins : path \in DOMAIN named.manifests}
                         /\ \A pin \in DOMAIN named.dependencies :
                              LET dependency == records[Dependency(p, pin)][named.dependencies[pin]]
                              IN /\ dependency.statement = pinning(pin)
                                 /\ dependency.basis = [path \in pinning(pin) |-> named.manifests[path]]
    BY DEF ScanHangsTogether
  <2> DEFINE named == StatementOf(p, i)
             pinning(pin) == {path \in DOMAIN named.manifests :
                                pin \in ManifestSnapshot(p, i)[path].pins}
  <2>1. /\ DOMAIN named.manifests = DOMAIN Seen(p, i)
        /\ \A path \in DOMAIN Seen(p, i) :
             ManifestSnapshot(p, i)[path].pins = PinsOf[Seen(p, i)[path].text]
    <3>1. DOMAIN named.manifests = DOMAIN Seen(p, i)
      BY SnapshotIsSeen
    <3> QED BY <3>1, PinsAreSeen
  <2>2. \A pin : pinning(pin) = ObservedIn(Seen(p, i), pin)
    BY <2>1 DEF ObservedIn
  <2>3. DOMAIN named.dependencies =
          UNION {ManifestSnapshot(p, i)[path].pins : path \in DOMAIN named.manifests}
    <3>1. DOMAIN named.dependencies = PinsIn(Seen(p, i))
      BY SnapshotIsSeen
    <3> QED BY <2>1, <3>1 DEF PinsIn
  <2>4. \A pin \in DOMAIN named.dependencies :
          LET dependency == records[Dependency(p, pin)][named.dependencies[pin]]
          IN /\ dependency.statement = pinning(pin)
             /\ dependency.basis = [path \in pinning(pin) |-> named.manifests[path]]
    <3> SUFFICES ASSUME NEW pin \in DOMAIN named.dependencies
                 PROVE  LET dependency == records[Dependency(p, pin)][named.dependencies[pin]]
                        IN /\ dependency.statement = pinning(pin)
                           /\ dependency.basis = [path \in pinning(pin) |-> named.manifests[path]]
      OBVIOUS
    <3>1. DependencySays(records, p, pin, named.dependencies[pin], Seen(p, i),
                         [path \in ObservedIn(Seen(p, i), pin) |-> named.manifests[path]])
      BY SnapshotIsSeen
    <3>2. pinning(pin) = ObservedIn(Seen(p, i), pin)
      BY <2>2
    <3> HIDE DEF named, pinning
    <3> QED BY <3>1, <3>2 DEF DependencySays
  <2> QED BY <2>3, <2>4
<1> QED BY <1>1, Invariance, PTL
-----------------------------------------------------------------------------
(* The diff.  Scans without a binding are those that name no version; two  *)
(* versions are of one binding if their bindings have one project and key. *)
LEMMA BindingOfScan ==
    ASSUME IInv, NEW p \in Projects, NEW i \in ScansOf(p)
    PROVE  LET v == StatementOf(p, i).version
           IN IF v = None THEN BindingAt(p, i) = None
              ELSE /\ BindingAt(p, i) = versions[v].binding
                   /\ BindingAt(p, i) \in DOMAIN bindings
                   /\ BindingAt(p, i) # None
<1> DEFINE v == StatementOf(p, i).version
<1>1. CASE v = None
  BY <1>1 DEF BindingAt
<1>2. CASE v # None
  <2>1. v \in DOMAIN versions
    BY <1>2, SnapshotIsSeen DEF VersionFits
  <2>2. versions[v].binding \in DOMAIN bindings /\ DOMAIN bindings \subseteq Nat
    BY <2>1 DEF IInv, StoreFits
  <2>3. None \notin Nat
    BY DEF IInv, RepositoriesFit
  <2> QED BY <1>2, <2>2, <2>3 DEF BindingAt
<1> QED BY <1>1, <1>2

Earlier(p, to) ==
    LET version(i) == StatementOf(p, i).version
        binding(i) == bindings[versions[version(i)].binding]
    IN IF version(to) = None THEN {to - 1} \ {0}
       ELSE {i \in 1..(to - 1) : version(i) # None /\ binding(i) = binding(to)}

LEMMA BaselinesAreEarlier ==
    ASSUME IInv, NEW p \in Projects, ScansOf(p) # {}, NEW to, to = Len(records[Scan(p)])
    PROVE  /\ Baselines(p, to) = Earlier(p, to)
           /\ to \in ScansOf(p)
           /\ Earlier(p, to) \subseteq ScansOf(p)
           /\ Earlier(p, to) # {} =>
                /\ Max(Earlier(p, to)) \in Earlier(p, to)
                /\ \/ None \in {BindingAt(p, Max(Earlier(p, to))), BindingAt(p, to)}
                   \/ BindingAt(p, Max(Earlier(p, to))) = BindingAt(p, to)
<1> DEFINE version(i) == StatementOf(p, i).version
           binding(i) == bindings[versions[version(i)].binding]
<1>1. ScansOf(p) = 1..to /\ to \in Nat /\ to \in 1..to
  <2>1. records[Scan(p)] \in Seq(Range(records[Scan(p)]))
    BY DEF IInv, RecordsFit, RecordIds
  <2>2. ScansOf(p) = 1..to /\ to \in Nat
    BY <2>1 DEF ScansOf
  <2>3. to # 0
    BY <2>2
  <2> QED BY <2>2, <2>3
<1>2. CASE version(to) = None
  <2>1. BindingAt(p, to) = None
    BY <1>1, <1>2, BindingOfScan
  <2>2. Baselines(p, to) = {to - 1} \cap 1..to
    BY <1>1, <2>1 DEF Baselines
  <2>3. Earlier(p, to) = {to - 1} \ {0}
    BY <1>2 DEF Earlier
  <2>4. {to - 1} \cap 1..to = {to - 1} \ {0}
    BY <1>1
  <2>5. Earlier(p, to) # {} => Max(Earlier(p, to)) \in Earlier(p, to)
    <3>1. Earlier(p, to) \subseteq 0..to
      BY <1>1, <2>3
    <3> QED BY <1>1, <3>1, MinMax
  <2> QED BY <1>1, <2>1, <2>2, <2>3, <2>4, <2>5
<1>3. CASE version(to) # None
  <2>1. BindingAt(p, to) = versions[version(to)].binding /\ BindingAt(p, to) \in DOMAIN bindings
        /\ BindingAt(p, to) # None
    BY <1>1, <1>3, BindingOfScan
  <2>2. ASSUME NEW i \in 1..to
        PROVE  BindingAt(p, i) = BindingAt(p, to) <=> version(i) # None /\ binding(i) = binding(to)
    <3>1. CASE version(i) = None
      BY <1>1, <2>1, <3>1, BindingOfScan
    <3>2. CASE version(i) # None
      <4>1. BindingAt(p, i) = versions[version(i)].binding /\ BindingAt(p, i) \in DOMAIN bindings
        BY <1>1, <3>2, BindingOfScan
      <4> QED BY <2>1, <3>2, <4>1 DEF IInv, StoreFits, IsInjective
    <3> QED BY <3>1, <3>2
  <2>3. Baselines(p, to) = {i \in 1..to \ {to} : BindingAt(p, i) = BindingAt(p, to)}
    BY <1>1, <2>1 DEF Baselines
  <2>4. Earlier(p, to) = {i \in 1..(to - 1) : version(i) # None /\ binding(i) = binding(to)}
    BY <1>3 DEF Earlier
  <2>5. 1..to \ {to} = 1..(to - 1) /\ 1..(to - 1) \subseteq 1..to /\ 1..to \subseteq 0..to
    BY <1>1
  <2> HIDE DEF version, binding
  <2>6. Baselines(p, to) = Earlier(p, to) /\ Earlier(p, to) \subseteq 1..to
    BY <2>2, <2>3, <2>4, <2>5
  <2>7. Earlier(p, to) # {} => Max(Earlier(p, to)) \in Earlier(p, to)
    BY <1>1, <2>5, <2>6, MinMax
  <2> QED BY <1>1, <2>3, <2>6, <2>7
<1> QED BY <1>2, <1>3

LEMMA DependenciesAreSeen ==
    ASSUME IInv, NEW p \in Projects, NEW i \in ScansOf(p), NEW component
    PROVE  /\ component \in DOMAIN DependencySnapshot(p, i) <=> SeenPins(p, i, component) # {}
           /\ component \in DOMAIN DependencySnapshot(p, i) =>
                DependencySnapshot(p, i)[component] = SeenPins(p, i, component)
<1>1. DOMAIN StatementOf(p, i).dependencies = PinsIn(Seen(p, i))
  BY SnapshotIsSeen
<1> QED BY <1>1 DEF DependencySnapshot, SeenPins

(* ManifestSnapshot restricted to the digests, as Diff compares it.        *)
LEMMA DigestsAreSeen ==
    ASSUME IInv, NEW p \in Projects, NEW i \in ScansOf(p)
    PROVE  [path \in DOMAIN ManifestSnapshot(p, i) |-> ManifestSnapshot(p, i)[path].digest]
             = [path \in DOMAIN Seen(p, i) |-> Seen(p, i)[path].digest]
<1>1. /\ DOMAIN ManifestSnapshot(p, i) = DOMAIN Seen(p, i)
      /\ \A path \in DOMAIN Seen(p, i) :
           ManifestSnapshot(p, i)[path] =
             [pins |-> PinsOf[Seen(p, i)[path].text], digest |-> Seen(p, i)[path].digest]
  BY SnapshotIsSeen
<1>2. \A path \in DOMAIN Seen(p, i) : ManifestSnapshot(p, i)[path].digest = Seen(p, i)[path].digest
  BY <1>1
<1> QED BY <1>1, <1>2

(* What Diff answers for two scans that it does not refuse.                *)
TellsTheDifference(p, from, to, d) ==
    /\ d.manifestsAdded = {path \in DOMAIN Seen(p, to) : path \notin DOMAIN Seen(p, from)}
    /\ d.manifestsRemoved = {path \in DOMAIN Seen(p, from) : path \notin DOMAIN Seen(p, to)}
    /\ d.manifestsChanged =
         {path \in DOMAIN Seen(p, from) \cap DOMAIN Seen(p, to) :
            Seen(p, from)[path].digest # Seen(p, to)[path].digest}
    /\ \A component \in Range(ComponentOf) :
         LET before == SeenPins(p, from, component)
             after == SeenPins(p, to, component)
         IN /\ component \in d.dependenciesAdded <=> before = {} /\ after # {}
            /\ component \in d.dependenciesRemoved <=> before # {} /\ after = {}
            /\ component \in d.dependenciesChanged <=> before # {} /\ after # {} /\ before # after

ToldFrom(p, from, to, earlier) ==
    IF earlier = {} THEN ImplicitDiff(p, to) = Refused
    ELSE ImplicitDiff(p, to) # Refused /\ TellsTheDifference(p, from, to, ImplicitDiff(p, to))

LEMMA DiffOfSeen ==
    ASSUME IInv, NEW p \in Projects, NEW from \in ScansOf(p), NEW to \in ScansOf(p),
           None \in {BindingAt(p, from), BindingAt(p, to)} \/ BindingAt(p, from) = BindingAt(p, to),
           NEW d, d = Diff(p, from, to)
    PROVE  d # Refused /\ TellsTheDifference(p, from, to, d)
<1> DEFINE was == [path \in DOMAIN Seen(p, from) |-> Seen(p, from)[path].digest]
           is == [path \in DOMAIN Seen(p, to) |-> Seen(p, to)[path].digest]
           had == DependencySnapshot(p, from)
           has == DependencySnapshot(p, to)
<1>1. d = [manifestsAdded |-> DOMAIN is \ DOMAIN was,
           manifestsRemoved |-> DOMAIN was \ DOMAIN is,
           manifestsChanged |-> DifferAt(was, is),
           dependenciesAdded |-> DOMAIN has \ DOMAIN had,
           dependenciesRemoved |-> DOMAIN had \ DOMAIN has,
           dependenciesChanged |-> DifferAt(had, has)]
  BY DigestsAreSeen DEF Diff
<1>2. \A component :
        /\ component \in DOMAIN had <=> SeenPins(p, from, component) # {}
        /\ component \in DOMAIN had => had[component] = SeenPins(p, from, component)
        /\ component \in DOMAIN has <=> SeenPins(p, to, component) # {}
        /\ component \in DOMAIN has => has[component] = SeenPins(p, to, component)
  BY DependenciesAreSeen
<1>3. /\ DOMAIN was = DOMAIN Seen(p, from) /\ DOMAIN is = DOMAIN Seen(p, to)
      /\ DifferAt(was, is) = {path \in DOMAIN Seen(p, from) \cap DOMAIN Seen(p, to) :
                              Seen(p, from)[path].digest # Seen(p, to)[path].digest}
  BY DEF DifferAt
<1> HIDE DEF was, is, had, has
<1>4. d # Refused
  <2>1. "refused" \in DOMAIN Refused
    BY DEF Refused
  <2>2. "refused" \notin DOMAIN d
    BY <1>1
  <2> QED BY <2>1, <2>2
<1>5. /\ d.manifestsAdded = DOMAIN is \ DOMAIN was
      /\ d.manifestsRemoved = DOMAIN was \ DOMAIN is
      /\ d.manifestsChanged = DifferAt(was, is)
      /\ d.dependenciesAdded = DOMAIN has \ DOMAIN had
      /\ d.dependenciesRemoved = DOMAIN had \ DOMAIN has
      /\ d.dependenciesChanged = {x \in DOMAIN had \cap DOMAIN has : had[x] # has[x]}
  BY <1>1 DEF DifferAt
<1> QED BY <1>2, <1>3, <1>4, <1>5 DEF TellsTheDifference

(* diff of the newest scan without naming another: refused exactly if      *)
(* there is none to compare with, else what differs between the two reads. *)
THEOREM TheDiffIsExact == RepositoriesFit /\ SupplySpec => []DiffIsExact
<1>1. IInv => DiffIsExact
  <2> SUFFICES ASSUME IInv PROVE DiffIsExact
    OBVIOUS
  <2>1. ASSUME NEW p \in Projects, ScansOf(p) # {},
               NEW to, to = Len(records[Scan(p)]),
               NEW earlier, earlier = Earlier(p, to),
               NEW from, from = Max(earlier)
        PROVE  ToldFrom(p, from, to, earlier)
    <3>1. /\ Baselines(p, to) = earlier /\ to \in ScansOf(p) /\ earlier \subseteq ScansOf(p)
          /\ earlier # {} => /\ from \in earlier
                             /\ \/ None \in {BindingAt(p, from), BindingAt(p, to)}
                                \/ BindingAt(p, from) = BindingAt(p, to)
      BY <2>1, BaselinesAreEarlier
    <3>2. CASE earlier = {}
      BY <3>1, <3>2 DEF ImplicitDiff, ToldFrom
    <3>3. CASE earlier # {}
      <4>1. ImplicitDiff(p, to) = Diff(p, from, to) /\ from \in ScansOf(p)
        BY <2>1, <3>1, <3>3 DEF ImplicitDiff
      <4>2. ImplicitDiff(p, to) # Refused
        BY <3>1, <3>3, <4>1, DiffOfSeen
      <4> QED BY <3>1, <3>3, <4>1, <4>2, DiffOfSeen DEF ToldFrom, TellsTheDifference
    <3> QED BY <3>2, <3>3
  <2>2. \A p \in Projects : ScansOf(p) # {} =>
          LET to == Len(records[Scan(p)])
          IN ToldFrom(p, Max(Earlier(p, to)), to, Earlier(p, to))
    BY <2>1
  <2> QED BY <2>2 DEF DiffIsExact, Earlier, ToldFrom, TellsTheDifference
<1> QED BY <1>1, Invariance, PTL
=============================================================================
