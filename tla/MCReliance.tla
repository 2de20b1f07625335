----------------------------- MODULE MCReliance -----------------------------
(* Instances of Reliance for TLC: a result that depends on a fact, perhaps  *)
(* both ways or by a second route, and a consumer that relies on it.        *)
EXTENDS Reliance, TLC

Kinds == [result |-> "build.result", fact |-> "source.fact", note |-> "note", consumer |-> "note"]
Def(required, depends, unruled) ==
  [required |-> required, scoped |-> FALSE, depends |-> depends,
   blocks |-> {"contradicts"}, unruled |-> unruled]
Strict  == Def(TRUE, {"depends-on"}, FALSE)
Lenient == Def(FALSE, {"depends-on"}, TRUE)
Scoped  == [Def(TRUE, {}, FALSE) EXCEPT !.scoped = TRUE]
Rel(type, from, to) == [type |-> type, from |-> from, to |-> to]
Uses == Rel("depends-on", "result", "fact")
Back == Rel("depends-on", "fact", "result")
Via  == Rel("depends-on", "result", "note")
On   == Rel("depends-on", "note", "fact")
Against == Rel("contradicts", "note", "fact")

Passed == <<[status |-> "passed", scope |-> TRUE, at |-> 1]>>
Narrow == <<[status |-> "passed", scope |-> FALSE, at |-> 1]>>
MkStart(rels, pol, asr, absent, n) ==
  [revision |-> [o \in Objects |-> IF o \in absent THEN 0 ELSE 1], relations |-> rels,
   policies |-> pol, budget |-> n,
   assurances |-> [o \in Objects |-> IF o \in absent THEN <<>> ELSE asr[o]]]
Policies(r, f, n) == [k \in {"build.result", "source.fact", "note"} |->
  LET d == CASE k = "build.result" -> r [] k = "source.fact" -> f [] OTHER -> n
  IN  IF d = None THEN <<>> ELSE <<[version |-> 1, def |-> d]>>]
Assured(os) == [o \in Objects |-> IF o \in os THEN Passed ELSE <<>>]

(* What may happen around an issue and a verification.                     *)
Simple == MkStart(<<Uses>>, Policies(Strict, Strict, None), Assured({"result", "fact"}), {"note"}, 2)
Changing == {"fact", "note", "consumer"}
Coming == {Against, Back, On, Via}
Registered == {[kind |-> "source.fact", def |-> d] : d \in {Strict, Lenient}}
Assuring == {[object |-> "fact", status |-> s, scope |-> TRUE] : s \in {"passed", "failed"}}

(* Evaluations of every shape, without changes.                            *)
Shapes ==
  {MkStart(rels, Policies(r, f, n), asr, absent, 0) :
     rels \in {<<>>, <<Uses, Back>>, <<Uses, Via, On>>, <<Via, On, Back>>, <<Uses, Against>>,
               <<Uses, Via, On, Back>>, <<Uses, Uses, On>>},
     r \in {Strict, Lenient, Scoped}, f \in {Strict, Lenient, Scoped}, n \in {None, Strict, Lenient},
     asr \in {Assured({"result", "fact"}), Assured({"result", "fact", "note"}),
              [Assured({"result", "note"}) EXCEPT !["fact"] = Narrow]},
     absent \in {{}, {"note"}}}

(* Two callers at once, over evidence that stays as it is.                 *)
Quiet == MkStart(<<Uses>>, Policies(Lenient, Lenient, None), Assured({}), {"note", "consumer"}, 0)
AllStarts == Shapes \cup {Simple, Quiet}

Request(key, object, affirm, exact) ==
  [reliant |-> "consumer", explicit |-> None, object |-> object, key |-> key,
   affirm |-> affirm, exact |-> exact]
Exact == Request(None, "result", TRUE, TRUE)
Keyed == {Request("k", "result", TRUE, TRUE), Request("k", "result", FALSE, FALSE),
          Request("k", "fact", TRUE, TRUE), [Request("k", "result", TRUE, TRUE) EXCEPT !.explicit = 1]}
Asked == {Exact} \cup Keyed

(* Callers are interchangeable.                                            *)
Symmetry == Permutations(Callers)

Active == {c \in Callers : call[c] # Idle}
Focus ==
  \/ Active = {}
  \/ /\ World = [f \in DOMAIN World |-> Quiet[f]]
     /\ \A c \in Active : call[c].pc = "reliant" => call[c].req \in Keyed
  \/ /\ Cardinality(Active) = 1
     /\ World # [f \in DOMAIN World |-> Quiet[f]]
     /\ \A c \in Active : call[c].pc = "reliant" => call[c].req \in Asked
=============================================================================
