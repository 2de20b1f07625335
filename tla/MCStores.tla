------------------------------ MODULE MCStores ------------------------------
(* The smaller stores on small instances.  They share no state, so TLC      *)
(* checks them in lanes: the initial state chooses one, whose store moves   *)
(* while the others stay as they began, and InLane bounds it to the steps   *)
(* that the lane is about.                                                  *)
EXTENDS Temporal, Evidence, SupplyChain, TLC
CONSTANTS c1, c2
VARIABLE lane

Processors == {c1, c2}
Symmetry == Permutations(Processors)

-----------------------------------------------------------------------------
(* Temporal                                                                 *)

Pub(at, basis, sourced) == [at |-> at, basis |-> basis, sourced |-> sourced]
Offer(of, taken, pub, from, until, who) ==
  [of |-> of, object |-> "o1", recorded |-> taken, published |-> pub, from |-> from,
   until |-> until, perspective |-> who]

SomeOffers ==
  {Offer("snapshot", 1, None, None, None, "here"),
   Offer("snapshot", 1, Pub(0, "declared", TRUE), None, None, "here"),
   Offer("revision", 0, Pub(0, "unknown", FALSE), None, 1, "here"),
   Offer("relation", 0, None, 0, None, "there")}
OneEvent == {[object |-> "o1", kind |-> "discovery", eventTime |-> 0, perspective |-> "here"]}

OldAssertion(kind, eventTime) ==
  [object |-> "o1", kind |-> kind, recorded |-> 0, published |-> None, from |-> None,
   until |-> None, perspective |-> "here", eventTime |-> eventTime]
OldAssertions == {OldAssertion("state", None), OldAssertion("discovery", 0)}

Query(clauses, perspective, object, events) ==
  [clauses |-> clauses, perspective |-> perspective, object |-> object, events |-> events]
At(mode, at) == [mode |-> mode, at |-> at]
SomeQueries ==
  {Query({At("effective_at", 0)}, None, "o1", FALSE),
   Query({At("known_at", 0), At("available_by", 0)}, "here", None, FALSE),
   Query({At("known_at", 0), At("effective_at", 0)}, "here", None, TRUE)}

Asked(subject, kinds, by, timeBy, perspective) ==
  [subject |-> subject, kinds |-> kinds, by |-> by, timeBy |-> timeBy, perspective |-> perspective]
SomeEventQueries == {Asked("o1", {"discovery"}, None, 1, None), Asked(None, None, 1, None, "here")}

ASSUME OffersFit

-----------------------------------------------------------------------------
(* Evidence: a compiler with a declared output, a formatter that is only    *)
(* noticed by its changes to the worktree, and a checker.  Two workers      *)
(* overlap in two commands, die and retry; or four commands run one after   *)
(* the other, after which the user edits.                                   *)
Command(kind, inputs, outputs, writes, worktree, target) ==
  [kind |-> kind, inputs |-> inputs, outputs |-> outputs, writes |-> writes,
   worktree |-> worktree, target |-> target]
Tools ==
  {Command("run", <<"src">>, <<"lib">>, {"lib"}, FALSE, None),
   Command("run", <<"lib">>, <<>>, {"src"}, TRUE, None),
   Command("verify", <<>>, <<>>, {}, TRUE, "lib")}

LibAndSrc == <<"lib", "src">>
BothFiles == {[p \in {"lib", "src"} |-> 1]}
Walks == {[depth |-> 1, paths |-> 2], [depth |-> 2, paths |-> 1]}

ASSUME WorktreeFits

AtWork == {w \in Workers : job[w] # Idle}

Overlapping ==
  Len(runs) + Cardinality({w \in AtWork : job[w].pc \in {"capture", "execute"}}) <= 2

Chained ==
  /\ Cardinality(AtWork) <= 1
  /\ \A w \in AtWork : job[w].cmd.kind = "run"
  /\ edits > 0 => Len(runs) = 4
  /\ \A r \in DOMAIN runs :
       IF r \in DOMAIN recorded THEN recorded[r] = "own"
       ELSE r = Len(runs) /\ \E w \in AtWork : job[w].pc \in {"observe", "record"}

-----------------------------------------------------------------------------
(* SupplyChain: two actors bind, pause and start to scan; two scan at the   *)
(* same time while a binding moves and a manifest changes; three scans of   *)
(* two repositories with two manifests.  Contents x and y pin the same      *)
(* revision; "far" is a remote.                                             *)
Pins == [content \in {"x", "y", "z"} |-> IF content = "z" THEN {"a2"} ELSE {"a1"}]
OneComponent == [pin \in {"a1", "a2"} |-> "a"]
TwoManifests == <<"m", "n">>
Holding(m, n) == [path \in {"m", "n"} |-> IF path = "m" THEN m ELSE n]
Placed(here, there) ==
  [l \in {"here", "there", "far"} |->
     CASE l = "here" -> here [] l = "there" -> there [] OTHER -> Holding(None, None)]
ForScanners == Placed(Holding("x", None), Holding("y", None))
ForRescans == Placed(Holding("x", "x"), Holding(None, "z"))
SomeRepositories == {ForScanners, ForRescans}

ASSUME RepositoriesFit

Busy == {w \in Actors : doing[w] # Idle}
Places == {versions[v].locator : v \in DOMAIN versions} \cup {doing[w].locator : w \in Busy}
FirstBinding == versions # <<>> => versions[1].locator = "here" /\ bindings[1].key = "k"
TwoVersions == Len(versions) + Cardinality(Binding) <= 2

Placement == IF lane = "rescans" THEN ForRescans ELSE ForScanners

Edited(l, path) == files[l][path] # Placement[l][path]

Binders ==
  /\ "there" \notin Places
  /\ begun <= 1 /\ changes = 0
  /\ \A w \in Busy : doing[w].pc # "text"

Scanners ==
  /\ "far" \notin Places /\ TwoVersions /\ FirstBinding
  /\ \A b \in DOMAIN bindings : bindings[b].key = "k"
  /\ disabled = {}
  /\ begun <= 2
  /\ changes > 0 => begun > 0
  /\ \A l \in Locators, path \in Range(Manifests) :
       Edited(l, path) => l # "far" /\ path = "m" /\ files[l][path] # "y"

Rescans ==
  /\ "far" \notin Places /\ TwoVersions /\ FirstBinding
  /\ Cardinality(Busy) <= 1 /\ disabled = {}
  /\ begun > 0 => Len(versions) = 2
  /\ changes > 0 => ScansOf("p") # {}
  /\ \A l \in Locators, path \in Range(Manifests) : Edited(l, path) => l = "here"

InLane ==
  CASE lane = "temporal" -> TRUE
    [] lane = "overlapping" -> Overlapping
    [] lane = "chained" -> Chained
    [] lane = "binders" -> Binders
    [] lane = "scanners" -> Scanners
    [] lane = "rescans" -> Rescans

-----------------------------------------------------------------------------
Lanes == {"temporal", "overlapping", "chained", "binders", "scanners", "rescans"}

Init ==
  /\ lane \in Lanes
  /\ TemporalInit /\ EvidenceInit /\ SupplyInit
  /\ lane # "temporal" => assertions = {}
  /\ files = Placement

Next ==
  /\ UNCHANGED lane
  /\ \/ lane = "temporal" /\ TemporalNext /\ UNCHANGED <<evidenceVars, supplyVars>>
     \/ lane \in {"overlapping", "chained"} /\ EvidenceNext /\ UNCHANGED <<temporalVars, supplyVars>>
     \/ lane \in {"binders", "scanners", "rescans"} /\ SupplyNext /\ UNCHANGED <<temporalVars, evidenceVars>>
  /\ InLane'

Spec == Init /\ [][Next]_<<lane, temporalVars, evidenceVars, supplyVars>>
=============================================================================
