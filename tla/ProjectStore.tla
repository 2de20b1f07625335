---------------------------- MODULE ProjectStore ----------------------------
(* TestamurProjectStore and repository_binding_lifecycle: projects, their   *)
(* bindings to repositories, the append-only revisions of every binding and *)
(* the mutable state that pauses one.                                       *)
(* sqlite3 opens a transaction only at the first INSERT, so what            *)
(* bind_repository SELECTs is another worker's past by the time it writes:  *)
(* the UNIQUE constraints are what stands between two binders.              *)
EXTENDS Stores, Naturals, FiniteSets, SequencesExt

CONSTANTS
  Actors,       \* processes and threads that use the store
  Projects,     \* slugs, UNIQUE and never given back: they stand for projects
  Keys,         \* binding keys of a project
  Locators,     \* repositories
  Remote,       \* the locators of kind git
  MaxVersions   \* bound: revisions of bindings

VARIABLES
  projects,     \* testamur_projects
  bindings,     \* testamur_project_repository_bindings, binding_id = position
  versions,     \* testamur_project_repository_binding_revisions, id = position
  disabled,     \* bindings whose state row says enabled = 0
  doing         \* what each actor is doing

storeVars == <<projects, bindings, versions, disabled>>
Return(w) == doing' = [doing EXCEPT ![w] = Idle]

StoreInit ==
  /\ projects = {} /\ bindings = <<>> /\ versions = <<>> /\ disabled = {}
  /\ doing = [w \in Actors |-> Idle]

(* A second project of the same name or slug is refused. *)
CreateProject(p) ==
  /\ p \notin projects
  /\ projects' = projects \cup {p}
  /\ UNCHANGED <<bindings, versions, disabled, doing>>

-----------------------------------------------------------------------------
BindingOf(p, k) ==
  LET found == {b \in DOMAIN bindings : bindings[b] = [project |-> p, key |-> k]}
  IN IF found = {} THEN None ELSE CHOOSE b \in found : TRUE

RevisionsOf(b) == {v \in DOMAIN versions : versions[v].binding = b}

(* ORDER BY ordinal DESC LIMIT 1 *)
Latest(b) ==
  IF RevisionsOf(b) = {} THEN None
  ELSE CHOOSE v \in RevisionsOf(b) : \A u \in RevisionsOf(b) : versions[u].ordinal <= versions[v].ordinal

Binding == {w \in Actors : doing[w].pc = "bind"}

(* What is bound already is reported and not written again. *)
BindRead(w, p, k, l) ==
  LET b == BindingOf(p, k)
      latest == Latest(b)
  IN /\ doing[w] = Idle /\ p \in projects
     /\ Len(versions) + Cardinality(Binding) < MaxVersions
     /\ latest # None => versions[latest].locator # l
     /\ doing' = [doing EXCEPT ![w] = [pc |-> "bind", project |-> p, key |-> k, locator |-> l,
                                       binding |-> b, parent |-> latest]]
     /\ UNCHANGED storeVars

(* Mutant: the constraint is gone. *)
OrdinalTaken_Unconstrained(row) == FALSE

(* UNIQUE(binding_id, ordinal) *)
OrdinalTaken(row) ==
  \E v \in DOMAIN versions : versions[v].binding = row.binding /\ versions[v].ordinal = row.ordinal

(* UNIQUE(project_id, binding_key), for a binding not seen before *)
KeyTaken(c) == c.binding = None /\ BindingOf(c.project, c.key) # None

RevisionRow(c) ==
  [binding |-> IF c.binding = None THEN Len(bindings) + 1 ELSE c.binding,
   ordinal |-> IF c.parent = None THEN 1 ELSE versions[c.parent].ordinal + 1,
   parent |-> c.parent, locator |-> c.locator]

BindWrite(w) ==
  LET c == doing[w] IN
  /\ c.pc = "bind"
  /\ ~KeyTaken(c) /\ ~OrdinalTaken(RevisionRow(c))
  /\ bindings' = IF c.binding = None THEN Append(bindings, [project |-> c.project, key |-> c.key]) ELSE bindings
  /\ versions' = Append(versions, RevisionRow(c))
  /\ Return(w)
  /\ UNCHANGED <<projects, disabled>>

(* The loser's IntegrityError undoes its transaction and ends the call.  *)
BindRaises(w) ==
  LET c == doing[w] IN
  /\ c.pc = "bind"
  /\ KeyTaken(c) \/ OrdinalTaken(RevisionRow(c))
  /\ Return(w)
  /\ UNCHANGED storeVars

(* A binding found in a first connection is there for the upsert in the
   second: none is ever deleted. *)
SetEnabled(p, k, enabled) ==
  LET b == BindingOf(p, k) IN
  /\ b # None
  /\ disabled' = IF enabled THEN disabled \ {b} ELSE disabled \cup {b}
  /\ UNCHANGED <<projects, bindings, versions, doing>>

-----------------------------------------------------------------------------
(* However binders overlap, a key of a project has one binding, and its     *)
(* revisions are one chain: numbered from 1 without a gap, each with the    *)
(* one before as its parent and a repository other than its parent's.       *)
(* project_store.py:294-398.                                                *)
BindingHistoryIsAChain ==
  /\ IsInjective(bindings)
  /\ \A b \in DOMAIN bindings :
       /\ {versions[v].ordinal : v \in RevisionsOf(b)} = 1..Cardinality(RevisionsOf(b))
       /\ \A v \in RevisionsOf(b) :
            IF versions[v].ordinal = 1 THEN versions[v].parent = None
            ELSE LET before == versions[v].parent
                 IN /\ before \in RevisionsOf(b)
                    /\ versions[before].ordinal = versions[v].ordinal - 1
                    /\ versions[before].locator # versions[v].locator
=============================================================================
