----------------------------- MODULE SupplyChain -----------------------------
(* Scans of the repositories bound to a project (supply_chain.py,           *)
(* supply_chain_lifecycle.py), kept as revisions of records (record_store): *)
(* one record per manifest path and per component revision of a project,    *)
(* one for all its scans.  All bindings of a project share them, and so do  *)
(* scanners that run at the same time.                                      *)
(* A content stands for its digest; what it pins is given by PinsOf.        *)
EXTENDS ProjectStore

CONSTANTS
  Manifests,    \* paths of manifests, in the order they are scanned
  Texts,        \* contents of manifests
  PinsOf,       \* content -> component revisions it pins
  ComponentOf,  \* component revision -> component
  Repositories, \* locator -> path -> content, to start with
  MaxScans,     \* bound: scans begun in each project
  MaxChanges    \* bound: edits of manifests

(* What kind of values the constants are; None is no position in a table. *)
RepositoriesFit ==
  /\ None \notin Nat
  /\ Manifests \in Seq(Range(Manifests))
  /\ Texts \subseteq DOMAIN PinsOf
  /\ \A content \in DOMAIN PinsOf : PinsOf[content] \subseteq DOMAIN ComponentOf
  /\ Repositories \subseteq [Locators -> [Range(Manifests) -> DOMAIN PinsOf \cup {None}]]

VARIABLES
  files,        \* locator -> path -> content, None if missing
  records,      \* testamur_record_revisions: record -> its revisions by ordinal
  begun, changes  \* the bounded counters

scanVars == <<files, records, begun, changes>>
supplyVars == <<storeVars, doing, scanVars>>

Manifest(p, path) == [kind |-> "dependency-manifest", project |-> p, of |-> path]
Dependency(p, pin) == [kind |-> "project-dependency", project |-> p, of |-> pin]
Scan(p) == [kind |-> "supply-chain-scan", project |-> p, of |-> "project"]
RecordIds ==
  {Manifest(p, path) : p \in Projects, path \in Range(Manifests)}
    \cup {Dependency(p, pin) : p \in Projects, pin \in DOMAIN ComponentOf}
    \cup {Scan(p) : p \in Projects}

SupplyInit ==
  /\ StoreInit
  /\ files \in Repositories
  /\ records = [id \in RecordIds |-> <<>>]
  /\ begun = 0 /\ changes = 0

EditManifest(l, path, content) ==
  /\ changes < MaxChanges
  /\ files[l][path] # content
  /\ files' = [files EXCEPT ![l][path] = content]
  /\ changes' = changes + 1
  /\ UNCHANGED <<storeVars, doing, records, begun>>

-----------------------------------------------------------------------------
(* Reading the repository                                                   *)

Scanner(pc, p, l, version) ==
  [pc |-> pc, project |-> p, locator |-> l, version |-> version,
   todo |-> {}, read |-> <<>>, text |-> None, named |-> <<>>, head |-> 0]

Begin(w, scanner) ==
  /\ doing[w] = Idle /\ begun < MaxScans
  /\ begun' = begun + 1
  /\ doing' = [doing EXCEPT ![w] = scanner]
  /\ UNCHANGED <<storeVars, files, records, changes>>

(* The binding's revision is read first, its state in another connection.  *)
ScanBound(w, p, k) ==
  LET b == BindingOf(p, k)
      v == Latest(b)
  IN /\ b # None
     /\ Begin(w, Scanner("eligible", p, versions[v].locator, v))

(* `project import`: no binding, and the project is found by its name *)
ImportByName(w, p, l) == l \notin Remote /\ Begin(w, Scanner("eligible", p, l, None))

(* A step that changes nothing but the scanner *)
Goes(w, scanner) ==
  /\ doing' = [doing EXCEPT ![w] = scanner]
  /\ UNCHANGED <<storeVars, scanVars>>

Ineligible(c) ==
  c.version # None /\ (versions[c.version].binding \in disabled \/ c.locator \in Remote)

Eligible(w) ==
  LET c == doing[w]
      found == {i \in DOMAIN Manifests : files[c.locator][Manifests[i]] # None}
  IN /\ c.pc = "eligible"
     /\ Goes(w, IF Ineligible(c) THEN Idle
                ELSE [c EXCEPT !.pc = IF found = {} THEN "find" ELSE "text", !.todo = found])

(* The manifest the scanner is at *)
NextPath(c) == Manifests[Min(c.todo)]

(* A parser reads the text, then _sha256 reads the file again. *)
ReadText(w) ==
  LET c == doing[w]
      text == files[c.locator][NextPath(c)]
  IN /\ c.pc = "text"
     /\ Goes(w, IF text = None THEN Idle ELSE [c EXCEPT !.pc = "digest", !.text = text])

With(f, x, y) == [z \in DOMAIN f \cup {x} |-> IF z = x THEN y ELSE f[z]]

ReadDigest(w) ==
  LET c == doing[w]
      digest == files[c.locator][NextPath(c)]
      rest == c.todo \ {Min(c.todo)}
  IN /\ c.pc = "digest"
     /\ Goes(w, IF digest = None THEN Idle
                ELSE [c EXCEPT !.pc = IF rest = {} THEN "find" ELSE "text",
                               !.todo = rest, !.text = None,
                               !.read = With(@, NextPath(c), [text |-> c.text, digest |-> digest])])

FindProject(w) ==
  LET c == doing[w] IN
  /\ c.pc = "find"
  /\ Goes(w, [c EXCEPT !.pc = IF c.project \in projects THEN "record" ELSE "create"])

(* Between two importers of one name, the second finds the slug taken. *)
CreateFound(w) ==
  LET c == doing[w] IN
  /\ c.pc = "create"
  /\ projects' = projects \cup {c.project}
  /\ doing' = [doing EXCEPT ![w] = IF c.project \in projects THEN Idle ELSE [c EXCEPT !.pc = "record"]]
  /\ UNCHANGED <<bindings, versions, disabled, scanVars>>

-----------------------------------------------------------------------------
(* Recording what was read                                                  *)

PinsIn(read) == UNION {PinsOf[read[path].text] : path \in DOMAIN read}
ObservedIn(read, pin) == {path \in DOMAIN read : pin \in PinsOf[read[path].text]}

(* Manifests first, then dependencies (in any fixed order), then the scan: *)
(* each names revisions of those before it.                                *)
NextRecord(c) ==
  LET manifests == {Manifest(c.project, path) : path \in DOMAIN c.read} \ DOMAIN c.named
      dependencies == {Dependency(c.project, pin) : pin \in PinsIn(c.read)} \ DOMAIN c.named
  IN CASE manifests # {} -> CHOOSE id \in manifests : TRUE
       [] manifests = {} /\ dependencies # {} -> CHOOSE id \in dependencies : TRUE
       [] OTHER -> Scan(c.project)

ManifestsNamed(c, paths) == [path \in paths |-> c.named[Manifest(c.project, path)]]

(* Mutant: the binding is looked up again when the scan is recorded. *)
Provenance_AtRecording(c) == IF c.version = None THEN None ELSE Latest(versions[c.version].binding)

(* The binding revision the scanner read its locator from *)
Provenance(c) == c.version

(* The statement and the basis of the revision wanted; `saw` and `where`
   are history: what the scanner read, and in which repository. *)
Wanted(c, id) ==
  CASE id.kind = "dependency-manifest" ->
         [statement |-> [pins |-> PinsOf[c.read[id.of].text], digest |-> c.read[id.of].digest],
          basis |-> c.read[id.of].digest]
    [] id.kind = "project-dependency" ->
         [statement |-> ObservedIn(c.read, id.of), basis |-> ManifestsNamed(c, ObservedIn(c.read, id.of))]
    [] id.kind = "supply-chain-scan" ->
         [statement |-> [manifests |-> ManifestsNamed(c, DOMAIN c.read),
                         dependencies |-> [pin \in PinsIn(c.read) |-> c.named[Dependency(c.project, pin)]],
                         version |-> Provenance(c)],
          basis |-> None, saw |-> c.read, where |-> c.locator]

(* Mutant: a revision that rests on older evidence is good enough. *)
Says_StatementOnly(revision, wanted) == revision.statement = wanted.statement

Says(revision, wanted) ==
  revision.statement = wanted.statement /\ revision.basis = wanted.basis

(* Manifests and dependencies are states, recorded when they differ from    *)
(* the record's head; a scan is an event and always recorded.               *)
ReadHead(w) ==
  LET c == doing[w]
      id == NextRecord(c)
      head == Len(records[id])
  IN /\ c.pc = "record"
     /\ Goes(w, IF head > 0 /\ id # Scan(c.project) /\ Says(records[id][head], Wanted(c, id))
                THEN [c EXCEPT !.named = With(@, id, head)]
                ELSE [c EXCEPT !.pc = "append", !.head = head])

(* create_record and append_revision: the head must still be the one read. *)
AppendRevision(w) ==
  LET c == doing[w]
      id == NextRecord(c)
  IN /\ c.pc = "append"
     /\ Len(records[id]) = c.head
     /\ records' = [records EXCEPT ![id] = Append(@, Wanted(c, id))]
     /\ doing' = [doing EXCEPT ![w] = IF id = Scan(c.project) THEN Idle
                                    ELSE [c EXCEPT !.pc = "record", !.head = 0, !.named = With(@, id, c.head + 1)]]
     /\ UNCHANGED <<storeVars, files, begun, changes>>

(* "record head changed", or the PRIMARY KEY of a record just created *)
AppendRaises(w) ==
  LET c == doing[w] IN
  /\ c.pc = "append"
  /\ Len(records[NextRecord(c)]) # c.head
  /\ Goes(w, Idle)

ScannerDies(w) == doing[w] # Idle /\ Goes(w, Idle)

StoreNext ==
  /\ UNCHANGED scanVars
  /\ \/ \E p \in Projects : CreateProject(p)
     \/ \E w \in Actors, p \in Projects, k \in Keys, l \in Locators : BindRead(w, p, k, l)
     \/ \E w \in Actors : BindWrite(w) \/ BindRaises(w)
     \/ \E p \in Projects, k \in Keys, enabled \in BOOLEAN : SetEnabled(p, k, enabled)

SupplyNext ==
  \/ StoreNext
  \/ \E l \in Locators, path \in Range(Manifests), content \in Texts \cup {None} : EditManifest(l, path, content)
  \/ \E w \in Actors :
       \/ \E p \in Projects, k \in Keys : ScanBound(w, p, k)
       \/ \E p \in Projects, l \in Locators : ImportByName(w, p, l)
       \/ Eligible(w) \/ ReadText(w) \/ ReadDigest(w)
       \/ FindProject(w) \/ CreateFound(w)
       \/ ReadHead(w) \/ AppendRevision(w) \/ AppendRaises(w)
       \/ ScannerDies(w)

SupplySpec == SupplyInit /\ [][SupplyNext]_supplyVars

-----------------------------------------------------------------------------
(* The diff of two scans.  Revisions never change, so it reads one state.   *)

ScansOf(p) == DOMAIN records[Scan(p)]
ScanAt(p, i) == records[Scan(p)][i]
StatementOf(p, i) == ScanAt(p, i).statement

BindingAt(p, i) ==
  LET v == StatementOf(p, i).version IN IF v = None THEN None ELSE versions[v].binding

(* Mutant: the scan before, of whatever repository. *)
Baselines_LastButOne(p, to) == {Len(records[Scan(p)]) - 1} \cap ScansOf(p)

(* What the scan `to` is compared with when no other is named: the newest   *)
(* other scan of its binding; for a scan without one, the last but one.     *)
Baselines(p, to) ==
  IF BindingAt(p, to) = None THEN {Len(records[Scan(p)]) - 1} \cap ScansOf(p)
  ELSE {i \in ScansOf(p) \ {to} : BindingAt(p, i) = BindingAt(p, to)}

ManifestSnapshot(p, i) ==
  LET named == StatementOf(p, i).manifests
  IN [path \in DOMAIN named |-> records[Manifest(p, path)][named[path]].statement]

DependencySnapshot(p, i) ==
  LET pins == DOMAIN StatementOf(p, i).dependencies
  IN [component \in {ComponentOf[pin] : pin \in pins} |-> {pin \in pins : ComponentOf[pin] = component}]

(* The diff is refused: ValueError *)
Refused == [refused |-> TRUE]

DifferAt(before, after) == {x \in DOMAIN before \cap DOMAIN after : before[x] # after[x]}

Diff(p, from, to) ==
  IF None \notin {BindingAt(p, from), BindingAt(p, to)} /\ BindingAt(p, from) # BindingAt(p, to) THEN Refused
  ELSE LET manifests(i) == [path \in DOMAIN ManifestSnapshot(p, i) |-> ManifestSnapshot(p, i)[path].digest]
           dependencies(i) == DependencySnapshot(p, i)
       IN [manifestsAdded |-> DOMAIN manifests(to) \ DOMAIN manifests(from),
           manifestsRemoved |-> DOMAIN manifests(from) \ DOMAIN manifests(to),
           manifestsChanged |-> DifferAt(manifests(from), manifests(to)),
           dependenciesAdded |-> DOMAIN dependencies(to) \ DOMAIN dependencies(from),
           dependenciesRemoved |-> DOMAIN dependencies(from) \ DOMAIN dependencies(to),
           dependenciesChanged |-> DifferAt(dependencies(from), dependencies(to))]

ImplicitDiff(p, to) ==
  IF Baselines(p, to) = {} THEN Refused ELSE Diff(p, Max(Baselines(p, to)), to)

-----------------------------------------------------------------------------
(* A recorded scan names the binding revision whose repository it read,     *)
(* whatever was bound while it ran, and manifest revisions that hold the    *)
(* digests and the pins it read there, whatever other scanners of the       *)
(* project, of this repository or another, recorded meanwhile under the     *)
(* same paths.  supply_chain.py:573-611 and 667-718.                        *)
ScanIsOfItsBinding ==
  \A p \in Projects : \A i \in ScansOf(p) :
    LET scan == ScanAt(p, i)
        v == scan.statement.version
    IN /\ v # None => /\ versions[v].locator = scan.where
                      /\ bindings[versions[v].binding].project = p
       /\ DOMAIN scan.statement.manifests = DOMAIN scan.saw
       /\ \A path \in DOMAIN scan.saw :
            ManifestSnapshot(p, i)[path] =
              [pins |-> PinsOf[scan.saw[path].text], digest |-> scan.saw[path].digest]

(* What a scan names hangs together: every dependency revision rests on     *)
(* the very manifest revisions the same scan names for the manifests that   *)
(* pin it, also when the dependency itself did not change.                  *)
(* supply_chain.py:614-657.                                                 *)
ScanHangsTogether ==
  \A p \in Projects : \A i \in ScansOf(p) :
    LET named == StatementOf(p, i)
        pinning(pin) == {path \in DOMAIN named.manifests : pin \in ManifestSnapshot(p, i)[path].pins}
    IN /\ DOMAIN named.dependencies = UNION {ManifestSnapshot(p, i)[path].pins : path \in DOMAIN named.manifests}
       /\ \A pin \in DOMAIN named.dependencies :
            LET dependency == records[Dependency(p, pin)][named.dependencies[pin]]
            IN /\ dependency.statement = pinning(pin)
               /\ dependency.basis = [path \in pinning(pin) |-> named.manifests[path]]

(* The diff of a project's newest scan, asked for without naming another,   *)
(* is refused exactly if there is no other scan to compare with (for a      *)
(* bound scan: none of its binding); else it tells what differs between     *)
(* what the two scanners read.  supply_chain.py:936-1076.                   *)
Seen(p, i) == ScanAt(p, i).saw
SeenPins(p, i, component) == {pin \in PinsIn(Seen(p, i)) : ComponentOf[pin] = component}

DiffIsExact ==
  \A p \in Projects : ScansOf(p) # {} =>
    LET to == Len(records[Scan(p)])
        version(i) == StatementOf(p, i).version
        binding(i) == bindings[versions[version(i)].binding]
        earlier == IF version(to) = None THEN {to - 1} \ {0}
                   ELSE {i \in 1..(to - 1) : version(i) # None /\ binding(i) = binding(to)}
        from == Max(earlier)
        d == ImplicitDiff(p, to)
        components == Range(ComponentOf)
    IN IF earlier = {} THEN d = Refused
       ELSE /\ d # Refused
            /\ d.manifestsAdded = {path \in DOMAIN Seen(p, to) : path \notin DOMAIN Seen(p, from)}
            /\ d.manifestsRemoved = {path \in DOMAIN Seen(p, from) : path \notin DOMAIN Seen(p, to)}
            /\ d.manifestsChanged =
                 {path \in DOMAIN Seen(p, from) \cap DOMAIN Seen(p, to) :
                    Seen(p, from)[path].digest # Seen(p, to)[path].digest}
            /\ \A component \in components :
                 LET before == SeenPins(p, from, component)
                     after == SeenPins(p, to, component)
                 IN /\ component \in d.dependenciesAdded <=> before = {} /\ after # {}
                    /\ component \in d.dependenciesRemoved <=> before # {} /\ after = {}
                    /\ component \in d.dependenciesChanged <=> before # {} /\ after # {} /\ before # after
=============================================================================
