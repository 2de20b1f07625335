--------------------------- MODULE Reliance_proof ---------------------------
(***************************************************************************)
(* Proofs about Reliance and PolicyEngine for any objects, relations,      *)
(* policies, requests and limits.                                          *)
(*                                                                         *)
(* An evaluation is followed as a run of reads: the stack of visits keeps  *)
(* its shape (Shape, Movement), each visit has read what its neighbours    *)
(* say (Located, Touched), and induction over the reads of a run carries   *)
(* what is true of each read to the assessment at its end.  TypeInv says   *)
(* where a caller is, and that the evidence is a world there can be.       *)
(*                                                                         *)
(* The assessment tells in turn what each read found (Reveals), and the    *)
(* evidence only grows (Older).  So two evaluations that agree, one of     *)
(* older and one of newer worlds, took the reads of the undisturbed        *)
(* evaluation in between (Sandwich); SureInv says which evaluations the    *)
(* callers and the receipts have.                                          *)
(***************************************************************************)
EXTENDS Reliance, FiniteSetTheorems, SequenceTheorems, WellFoundedInduction, TLAPS

-----------------------------------------------------------------------------
(* Numbers                                                                  *)

LEMMA LeastNatural ==
    ASSUME NEW T, T \subseteq Nat, T # {}
    PROVE  \E a \in T : \A b \in T : a <= b
<1> DEFINE Less == {xy \in Nat \X Nat : xy[1] < xy[2]}
<1>1. IsWellFoundedOn(Less, Nat)
  BY NatLessThanWellFounded DEF OpToRel
<1>2. \A x, y \in Nat : <<y, x>> \notin Less => x <= y
  OBVIOUS
<1> HIDE DEF Less
<1>3. PICK a \in T : \A b \in T : ~ (<<b, a>> \in Less)
  BY <1>1, WFMin, Zenon
<1> QED BY <1>2, <1>3

(* Induction up to n, said of the set of the numbers with the property.    *)
LEMMA Inductive ==
    ASSUME NEW T, NEW n \in Nat, 0 \in T,
           \A k \in 1..n : k - 1 \in T => k \in T
    PROVE  \A k \in 0..n : k \in T
<1> DEFINE Bad == {k \in 0..n : k \notin T}
<1> SUFFICES ASSUME Bad # {} PROVE FALSE
  OBVIOUS
<1>1. PICK k \in Bad : \A j \in Bad : k <= j
  <2>1. Bad \subseteq Nat
    OBVIOUS
  <2> HIDE DEF Bad
  <2> QED BY <2>1, LeastNatural
<1>2. k \in 1..n /\ k - 1 \notin T
  BY <1>1
<1>3. k - 1 \in 0..n /\ ~ (k <= k - 1)
  BY <1>2
<1> QED BY <1>1, <1>2, <1>3

-----------------------------------------------------------------------------
(* Sequences of anything                                                    *)

IsSequence(s) == \E S : s \in Seq(S)

LEMMA Grown ==
    ASSUME NEW s, IsSequence(s), NEW x
    PROVE  /\ IsSequence(Append(s, x))
           /\ Len(s) \in Nat /\ Len(Append(s, x)) = Len(s) + 1
           /\ \A i \in 1..Len(s) : Append(s, x)[i] = s[i]
           /\ Append(s, x)[Len(s) + 1] = x
<1>1. PICK S : s \in Seq(S)
  BY DEF IsSequence
<1> DEFINE T == S \cup {x}
<1>2. s \in Seq(T)
  BY <1>1
<1>3. /\ Append(s, x) \in Seq(T)
      /\ Len(s) \in Nat /\ Len(Append(s, x)) = Len(s) + 1
      /\ \A i \in 1..Len(s) : Append(s, x)[i] = s[i]
      /\ Append(s, x)[Len(s) + 1] = x
  BY <1>2
<1>4. IsSequence(Append(s, x))
  BY <1>3, Zenon DEF IsSequence
<1> QED BY <1>3, <1>4

LEMMA Shortened ==
    ASSUME NEW s, IsSequence(s), s # <<>>
    PROVE  /\ IsSequence(Front(s))
           /\ Len(s) \in Nat \ {0} /\ Len(Front(s)) = Len(s) - 1
           /\ \A i \in 1..(Len(s) - 1) : Front(s)[i] = s[i]
<1>1. PICK S : s \in Seq(S)
  BY DEF IsSequence
<1>2. Len(s) \in Nat \ {0} /\ Front(s) = SubSeq(s, 1, Len(s) - 1)
  BY <1>1 DEF Front
<1> DEFINE m == Len(s) - 1
<1> HIDE DEF m
<1>3. m \in Nat /\ m = Len(s) - 1 /\ 1 \in Int /\ \A i \in 1..m : s[i] \in S
  BY <1>1, <1>2 DEF m
<1>4. /\ SubSeq(s, 1, m) \in Seq(S)
      /\ Len(SubSeq(s, 1, m)) = IF 1 <= m THEN m - 1 + 1 ELSE 0
      /\ \A i \in 1..(m - 1 + 1) : SubSeq(s, 1, m)[i] = s[1 + i - 1]
  BY <1>3, SubSeqProperties
<1>5. Len(SubSeq(s, 1, m)) = m /\ \A i \in 1..m : SubSeq(s, 1, m)[i] = s[i]
  BY <1>3, <1>4
<1>6. IsSequence(SubSeq(s, 1, m))
  BY <1>4, Zenon DEF IsSequence
<1>7. Front(s) = SubSeq(s, 1, m)
  BY <1>2 DEF m
<1> QED BY <1>2, <1>3, <1>5, <1>6, <1>7

-----------------------------------------------------------------------------
(* What one read does to an evaluation                                      *)

IsVisit(v) ==
    /\ DOMAIN v = {"object", "via", "next", "policy", "assurances", "blockers", "todo", "deps"}
    /\ IsSequence(v.deps)

IsEvaluation(e) ==
    /\ DOMAIN e = {"status", "stack", "visited", "reads", "result"}
    /\ IsSequence(e.stack)

(* The visits of f up to m are those of e.                                  *)
Keeps(e, f, m) == \A i \in 1..m : f.stack[i] = e.stack[i]

(* All but the stack and the count of visits is the same.                  *)
Continues(e, f) ==
    /\ IsEvaluation(f)
    /\ f.status = e.status /\ f.reads = e.reads /\ f.result = e.result

LEMMA TopReplaced ==
    ASSUME NEW e, IsEvaluation(e), e.stack # <<>>, NEW v
    PROVE  /\ Continues(e, WithTop(e, v))
           /\ Len(e.stack) \in Nat \ {0} /\ Len(WithTop(e, v).stack) = Len(e.stack)
           /\ Keeps(e, WithTop(e, v), Len(e.stack) - 1)
           /\ WithTop(e, v).stack[Len(e.stack)] = v
<1> DEFINE s == e.stack
           t == Append(Front(s), v)
<1>1. IsSequence(s) /\ s # <<>>
  BY DEF IsEvaluation
<1>2. /\ IsSequence(Front(s)) /\ Len(s) \in Nat \ {0} /\ Len(Front(s)) = Len(s) - 1
      /\ \A i \in 1..(Len(s) - 1) : Front(s)[i] = s[i]
  BY <1>1, Shortened
<1>3. /\ IsSequence(t) /\ Len(t) = Len(Front(s)) + 1
      /\ \A i \in 1..Len(Front(s)) : t[i] = Front(s)[i]
      /\ t[Len(Front(s)) + 1] = v
  BY <1>2, Grown
<1>4. WithTop(e, v) = [e EXCEPT !.stack = t]
  BY DEF WithTop
<1> HIDE DEF s, t
<1>5. Continues(e, WithTop(e, v)) /\ WithTop(e, v).stack = t
  BY <1>3, <1>4 DEF IsEvaluation, Continues
<1>6. Len(t) = Len(s) /\ t[Len(s)] = v /\ \A i \in 1..(Len(s) - 1) : t[i] = s[i]
  BY <1>2, <1>3
<1> QED BY <1>2, <1>5, <1>6 DEF Keeps, s

Cuts == {{}, {"dependency_cycle"}, {"depth_limit"}, {"node_limit"}}

(* A visit to o is put on top of the stack.                                 *)
Enters(e, f, o, via, cut) ==
    /\ cut = {"dependency_cycle"} => \E i \in 1..Len(e.stack) : e.stack[i].object = o
    /\ Continues(e, f)
    /\ Len(e.stack) \in Nat /\ Len(f.stack) = Len(e.stack) + 1
    /\ Keeps(e, f, Len(e.stack))
    /\ f.stack[Len(e.stack) + 1] = Visit(o, via, cut)

LEMMA Entered ==
    ASSUME NEW e, IsEvaluation(e), NEW o, NEW via
    PROVE  \E cut \in Cuts : Enters(e, Enter(e, o, via), o, via, cut)
<1> DEFINE s == e.stack
           cut == IF \E i \in DOMAIN e.stack : e.stack[i].object = o THEN {"dependency_cycle"}
                  ELSE IF Len(e.stack) > MaxDepth THEN {"depth_limit"}
                  ELSE IF e.visited >= MaxNodes THEN {"node_limit"}
                  ELSE {}
           t == Append(s, Visit(o, via, cut))
           n == IF cut = {} THEN e.visited + 1 ELSE e.visited
<1>1. IsSequence(s)
  BY DEF IsEvaluation
<1>2. cut \in Cuts
  BY DEF Cuts
<1>3. cut = {"dependency_cycle"} => \E i \in 1..Len(s) : s[i].object = o
  <2>1. DOMAIN s = 1..Len(s)
    BY <1>1 DEF IsSequence
  <2> QED BY <2>1
<1>4. Enter(e, o, via) = [e EXCEPT !.stack = t, !.visited = n]
  BY DEF Enter
<1> HIDE DEF cut
<1>5. /\ IsSequence(t) /\ Len(s) \in Nat /\ Len(t) = Len(s) + 1
      /\ \A i \in 1..Len(s) : t[i] = s[i]
      /\ t[Len(s) + 1] = Visit(o, via, cut)
  BY <1>1, Grown
<1> HIDE DEF s, t, n
<1>6. Continues(e, Enter(e, o, via)) /\ Enter(e, o, via).stack = t
  BY <1>4, <1>5 DEF IsEvaluation, Continues
<1>7. Enters(e, Enter(e, o, via), o, via, cut)
  BY <1>3, <1>5, <1>6 DEF Enters, Keeps, s
<1> QED BY <1>2, <1>7

(* The visit at m goes on as v: to its next dependency, or to its end.     *)
GoesOn(e, f, m, v) ==
    /\ Continues(e, f)
    /\ Keeps(e, f, m - 1)
    /\ \/ /\ v.todo = {}
          /\ Len(f.stack) = m /\ f.stack[m] = [v EXCEPT !.next = "revision"]
       \/ \E r \in v.todo, cut \in Cuts :
            /\ Len(f.stack) = m + 1
            /\ f.stack[m] = [v EXCEPT !.next = "dependency"]
            /\ f.stack[m + 1] = Visit(r.to, r, cut)
            /\ cut = {"dependency_cycle"} => \E i \in 1..m : f.stack[i].object = r.to

LEMMA Descended ==
    ASSUME NEW e, IsEvaluation(e), e.stack # <<>>, NEW v, e.stack[Len(e.stack)] = v
    PROVE  GoesOn(e, Descend(e), Len(e.stack), v)
<1> DEFINE m == Len(e.stack)
           r == CHOOSE r \in v.todo : TRUE
           up == WithTop(e, [v EXCEPT !.next = "dependency"])
<1>1. Top(e) = v
  BY DEF Top, Last
<1>2. m \in Nat \ {0}
  BY TopReplaced
<1>3. CASE v.todo = {}
  <2>1. Descend(e) = WithTop(e, [v EXCEPT !.next = "revision"])
    BY <1>1, <1>3 DEF Descend
  <2> QED BY <1>3, <2>1, TopReplaced DEF GoesOn
<1>4. CASE v.todo # {}
  <2>1. Descend(e) = Enter(up, r.to, r)
    BY <1>1, <1>4 DEF Descend
  <2>2. r \in v.todo
    BY <1>4
  <2>3. /\ Continues(e, up) /\ Len(up.stack) = m /\ Keeps(e, up, m - 1)
        /\ up.stack[m] = [v EXCEPT !.next = "dependency"]
    BY TopReplaced
  <2> HIDE DEF up, r
  <2>9. IsEvaluation(up)
    BY <2>3 DEF Continues
  <2>4. PICK cut \in Cuts : Enters(up, Enter(up, r.to, r), r.to, r, cut)
    BY <2>9, Entered, Zenon
  <2> DEFINE f == Enter(up, r.to, r)
  <2> HIDE DEF f, m
  <2>5. f.stack[m] = [v EXCEPT !.next = "dependency"] /\ Keeps(e, f, m - 1) /\ Continues(e, f)
    BY <1>2, <2>3, <2>4 DEF Enters, Keeps, Continues, f
  <2>6. cut = {"dependency_cycle"} => \E i \in 1..m : f.stack[i].object = r.to
    BY <1>2, <2>3, <2>4 DEF Enters, Keeps, f
  <2>7. Len(f.stack) = m + 1 /\ f.stack[m + 1] = Visit(r.to, r, cut)
    BY <2>3, <2>4 DEF Enters, f
  <2>8. GoesOn(e, f, m, v)
    BY <2>2, <2>5, <2>6, <2>7 DEF GoesOn
  <2> QED BY <2>1, <2>8 DEF f, m
<1> QED BY <1>3, <1>4

(* The visit on top becomes v.                                              *)
Replaces(e, f, v) ==
    /\ f.status = e.status
    /\ Len(f.stack) = Len(e.stack)
    /\ Keeps(e, f, Len(e.stack) - 1)
    /\ f.stack[Len(e.stack)] = v

Counted(e) == [e EXCEPT !.reads = @ + 1]

ResultOf(v, rev) == Result(v.object, rev, v.policy, v.assurances, v.deps, v.blockers)

(* The visit u has the result of v, the dependency that it asked for.      *)
Answered(u, v, result) ==
    [u EXCEPT !.deps = Append(@, [relation |-> v.via, state |-> result]),
              !.todo = @ \ {v.via},
              !.blockers = @ \cup DependencyBlockers(u.object, u.policy.def, v.via.id, result)]

FoundPolicy(v, x) ==
    IF x = None THEN [v EXCEPT !.next = "revision", !.blockers = {Blocker("missing_policy", v.object, None)}]
    ELSE [v EXCEPT !.next = "assurance", !.policy = x]
FoundAssurance(v, x) ==
    [v EXCEPT !.next = "incoming",
              !.assurances = IF v.policy.def.required THEN {x} \ {None} ELSE {},
              !.blockers = AssuranceBlockers(v.object, v.policy.def, x)]
FoundIncoming(v, x) ==
    [v EXCEPT !.next = IF v.policy.def.depends = {} THEN "revision" ELSE "outgoing",
              !.blockers = @ \cup BlockingRelations(v.object, v.policy.def, x)]
FoundOutgoing(v, x) == [v EXCEPT !.todo = {r \in x : r.type \in v.policy.def.depends}]

Readable == {"object", "policy", "assurance", "incoming", "outgoing", "revision"}

(* f is what e becomes by reading x.                                        *)
Moves(e, x, f) ==
    LET n == Len(e.stack)
        v == e.stack[n]
    IN  /\ IsEvaluation(f) /\ f.reads = e.reads + 1
        /\ v.next = "object" => IF x THEN Replaces(e, f, [v EXCEPT !.next = "policy"]) ELSE f.status = "raised"
        /\ v.next = "policy" => Replaces(e, f, FoundPolicy(v, x))
        /\ v.next = "assurance" => Replaces(e, f, FoundAssurance(v, x))
        /\ v.next = "incoming" => Replaces(e, f, FoundIncoming(v, x))
        /\ v.next = "outgoing" => GoesOn(Counted(e), f, n, FoundOutgoing(v, x))
        /\ v.next = "revision" =>
             IF n = 1 THEN f.status = "done" /\ f.stack = <<>> /\ f.result = ResultOf(v, x)
             ELSE GoesOn(Counted(e), f, n - 1, Answered(e.stack[n - 1], v, ResultOf(v, x)))

LEMMA CountedIs ==
    ASSUME NEW e, IsEvaluation(e)
    PROVE  /\ IsEvaluation(Counted(e)) /\ Counted(e).reads = e.reads + 1
           /\ Counted(e).status = e.status /\ Counted(e).stack = e.stack /\ Counted(e).result = e.result
BY DEF Counted, IsEvaluation

LEMMA Replaced ==
    ASSUME NEW e, IsEvaluation(e), e.stack # <<>>, NEW v
    PROVE  LET f == WithTop(Counted(e), v)
           IN  IsEvaluation(f) /\ f.reads = e.reads + 1 /\ Replaces(e, f, v)
BY CountedIs, TopReplaced DEF Replaces, Keeps, Continues

LEMMA Left ==
    ASSUME NEW e, IsEvaluation(e), e.stack # <<>>, NEW x
    PROVE  LET n == Len(e.stack)
               f == Leave(e, x)
           IN  /\ IsEvaluation(f) /\ f.reads = e.reads
               /\ IF n = 1 THEN f.status = "done" /\ f.stack = <<>> /\ f.result = ResultOf(e.stack[n], x)
                  ELSE GoesOn(e, f, n - 1, Answered(e.stack[n - 1], e.stack[n], ResultOf(e.stack[n], x)))
<1> DEFINE s == e.stack
           n == Len(s)
           v == s[n]
           below == [e EXCEPT !.stack = Front(@)]
           u == Answered(s[n - 1], v, ResultOf(v, x))
<1>1. IsSequence(s) /\ s # <<>>
  BY DEF IsEvaluation
<1>2. /\ IsSequence(Front(s)) /\ n \in Nat \ {0} /\ Len(Front(s)) = n - 1
      /\ \A i \in 1..(n - 1) : Front(s)[i] = s[i]
  BY <1>1, Shortened
<1>3. Top(e) = v
  BY DEF Top, Last
<1>4. Continues(e, below) /\ below.stack = Front(s)
  BY <1>2 DEF IsEvaluation, Continues
<1>5. CASE n = 1
  <2>1. Leave(e, x) = [below EXCEPT !.status = "done", !.result = ResultOf(v, x)]
    BY <1>3, <1>5 DEF Leave, ResultOf
  <2>2. Front(s) = <<>>
    <3>1. PICK S : Front(s) \in Seq(S)
      BY <1>2 DEF IsSequence
    <3> QED BY <3>1, <1>2, <1>5
  <2> HIDE DEF below
  <2> QED BY <1>4, <1>5, <2>1, <2>2 DEF Continues, IsEvaluation
<1>6. CASE n # 1
  <2>0. n - 1 \in 1..(n - 1) /\ Front(s)[n - 1] = s[n - 1] /\ Len(Front(s)) = n - 1
    <3> HIDE DEF s, n
    <3>1. n - 1 \in 1..(n - 1)
      BY <1>2, <1>6
    <3> QED BY <1>2, <3>1
  <2>1. Top(below) = s[n - 1]
    <3> HIDE DEF s, n, below
    <3> QED BY <1>4, <2>0 DEF Top, Last
  <2>2. Leave(e, x) = Descend(WithTop(below, u))
    BY <1>3, <1>6, <2>1 DEF Leave, ResultOf, Answered
  <2>3. Front(s) # <<>>
    <3>1. Len(Front(s)) # 0 /\ Len(<<>>) = 0
      BY <1>2, <1>6
    <3> QED BY <3>1, Zenon
  <2> HIDE DEF below, u, n, v
  <2> DEFINE w == WithTop(below, u)
  <2>4. /\ Continues(below, w) /\ Len(w.stack) = n - 1 /\ Keeps(below, w, n - 1 - 1) /\ w.stack[n - 1] = u
    BY <1>2, <1>4, <2>3, TopReplaced DEF Continues
  <2> HIDE DEF w
  <2>5. IsEvaluation(w) /\ w.stack # <<>> /\ Len(w.stack) = n - 1
    BY <1>2, <1>6, <2>4 DEF Continues
  <2>6. GoesOn(w, Descend(w), n - 1, u)
    BY <2>4, <2>5, Descended
  <2>7. Keeps(e, w, n - 1 - 1) /\ Continues(e, w)
    BY <1>2, <1>4, <2>4 DEF Keeps, Continues
  <2>8. GoesOn(e, Descend(w), n - 1, u)
    BY <2>6, <2>7 DEF GoesOn, Keeps, Continues
  <2>9. IsEvaluation(Descend(w)) /\ Descend(w).reads = e.reads
    BY <2>8 DEF GoesOn, Continues
  <2> QED BY <1>6, <2>2, <2>8, <2>9 DEF w, u, n, v
<1> QED BY <1>5, <1>6

LEMMA AfterMoves ==
    ASSUME NEW e, IsEvaluation(e), e.stack # <<>>, e.stack[Len(e.stack)].next \in Readable, NEW x
    PROVE  Moves(e, x, After(e, x))
<1> DEFINE n == Len(e.stack)
           v == e.stack[n]
           read == Counted(e)
           f == After(e, x)
<1>1. Top(e) = v
  BY DEF Top, Last
<1>2. /\ IsEvaluation(read) /\ read.reads = e.reads + 1
      /\ read.status = e.status /\ read.stack = e.stack /\ read.result = e.result
  BY CountedIs
<1>3. CASE v.next = "object"
  <2>1. f = IF x THEN WithTop(read, [v EXCEPT !.next = "policy"]) ELSE [read EXCEPT !.status = "raised"]
    BY <1>1, <1>3 DEF After, Counted
  <2>2. CASE x
    <3>1. f = WithTop(read, [v EXCEPT !.next = "policy"])
      BY <2>1, <2>2
    <3> HIDE DEF f, v
    <3>2. IsEvaluation(f) /\ f.reads = e.reads + 1 /\ Replaces(e, f, [v EXCEPT !.next = "policy"])
      BY <3>1, Replaced
    <3> QED BY <1>3, <2>2, <3>2 DEF Moves, v, f
  <2>3. CASE ~x
    <3>1. f = [read EXCEPT !.status = "raised"]
      BY <2>1, <2>3
    <3> HIDE DEF f, read
    <3>2. IsEvaluation(f) /\ f.reads = e.reads + 1 /\ f.status = "raised"
      BY <1>2, <3>1 DEF IsEvaluation
    <3> QED BY <1>3, <2>3, <3>2 DEF Moves, f
  <2> QED BY <2>2, <2>3
<1>4. CASE v.next = "policy"
  <2>1. f = WithTop(read, FoundPolicy(v, x))
    BY <1>1, <1>4 DEF After, Counted, FoundPolicy
  <2> HIDE DEF f, v
  <2>2. IsEvaluation(f) /\ f.reads = e.reads + 1 /\ Replaces(e, f, FoundPolicy(v, x))
    BY <2>1, Replaced
  <2> QED BY <1>4, <2>2 DEF Moves, v, f
<1>5. CASE v.next = "assurance"
  <2>1. f = WithTop(read, FoundAssurance(v, x))
    BY <1>1, <1>5 DEF After, Counted, FoundAssurance
  <2> HIDE DEF f, v
  <2>2. IsEvaluation(f) /\ f.reads = e.reads + 1 /\ Replaces(e, f, FoundAssurance(v, x))
    BY <2>1, Replaced
  <2> QED BY <1>5, <2>2 DEF Moves, v, f
<1>6. CASE v.next = "incoming"
  <2>1. f = WithTop(read, FoundIncoming(v, x))
    BY <1>1, <1>6 DEF After, Counted, FoundIncoming
  <2> HIDE DEF f, v
  <2>2. IsEvaluation(f) /\ f.reads = e.reads + 1 /\ Replaces(e, f, FoundIncoming(v, x))
    BY <2>1, Replaced
  <2> QED BY <1>6, <2>2 DEF Moves, v, f
<1>7. CASE v.next = "outgoing"
  <2> DEFINE w == WithTop(read, FoundOutgoing(v, x))
  <2>1. f = Descend(w)
    BY <1>1, <1>7 DEF After, Counted, FoundOutgoing
  <2> HIDE DEF v, read, f
  <2>2. /\ Continues(read, w) /\ Len(w.stack) = n /\ Keeps(read, w, n - 1)
        /\ n \in Nat \ {0} /\ w.stack[n] = FoundOutgoing(v, x)
    BY <1>2, TopReplaced
  <2> HIDE DEF w, n
  <2>3. IsEvaluation(w) /\ w.stack # <<>>
    BY <2>2 DEF Continues
  <2>4. GoesOn(w, f, n, FoundOutgoing(v, x))
    BY <2>1, <2>2, <2>3, Descended
  <2>5. GoesOn(read, f, n, FoundOutgoing(v, x)) /\ IsEvaluation(f) /\ f.reads = e.reads + 1
    BY <1>2, <2>2, <2>4 DEF GoesOn, Continues, Keeps
  <2> QED BY <1>7, <2>5 DEF Moves, v, f, n, read
<1>8. CASE v.next = "revision"
  <2>1. f = Leave(read, x)
    BY <1>1, <1>8 DEF After, Counted
  <2> HIDE DEF f, read
  <2>2. /\ IsEvaluation(f) /\ f.reads = read.reads
        /\ IF n = 1 THEN f.status = "done" /\ f.stack = <<>> /\ f.result = ResultOf(v, x)
           ELSE GoesOn(read, f, n - 1, Answered(e.stack[n - 1], v, ResultOf(v, x)))
    BY <1>2, <2>1, Left
  <2> QED BY <1>2, <1>8, <2>2 DEF Moves, f, read
<1> QED BY <1>3, <1>4, <1>5, <1>6, <1>7, <1>8 DEF Readable

-----------------------------------------------------------------------------
(* The shape of a running evaluation: every visit but the one on top waits  *)
(* for the one above it, and has found out what its next read tells.        *)

Shaped(v) ==
    /\ IsVisit(v)
    /\ v.next \in Readable \cup {"dependency"}
    /\ v.next \in Readable \ {"revision"} => v.deps = <<>> /\ v.todo = {}
    /\ v.next \in {"object", "policy", "assurance"} => v.blockers = {}
    /\ v.next = "incoming" => \A b \in v.blockers : b.type # "blocking_relation"
    /\ v.next = "revision" => v.todo = {}
    /\ v.next \in {"object", "policy"} => v.policy = None

Linked(u, v) == u.next = "dependency" /\ v.via \in u.todo /\ v.object = v.via.to

ShapedUpTo(e, m) ==
    /\ \A i \in 1..m : Shaped(e.stack[i])
    /\ \A i \in 1..(m - 1) : Linked(e.stack[i], e.stack[i + 1])

Shape(e) ==
    /\ IsEvaluation(e)
    /\ e.status \in {"running", "raised", "done"}
    /\ e.status = "running" =>
         /\ e.stack # <<>> /\ Len(e.stack) \in Nat \ {0}
         /\ e.stack[Len(e.stack)].next \in Readable
         /\ ShapedUpTo(e, Len(e.stack))

LEMMA VisitShaped ==
    ASSUME NEW o, NEW via, NEW cut \in Cuts
    PROVE  Shaped(Visit(o, via, cut)) /\ Visit(o, via, cut).next \in Readable
           /\ Visit(o, via, cut).via = via /\ Visit(o, via, cut).object = o
<1>1. IsSequence(<<>>)
  <2>1. <<>> \in Seq({})
    OBVIOUS
  <2> QED BY <2>1 DEF IsSequence
<1>2. Visit(o, via, cut).deps = <<>> /\ Visit(o, via, cut).todo = {}
      /\ Visit(o, via, cut).via = via /\ Visit(o, via, cut).object = o
      /\ Visit(o, via, cut).next = (IF cut = {} THEN "object" ELSE "revision")
      /\ Visit(o, via, cut).blockers = {Blocker(type, o, None) : type \in cut}
      /\ Visit(o, via, cut).policy = None
  BY DEF Visit
<1>3. DOMAIN Visit(o, via, cut) =
        {"object", "via", "next", "policy", "assurances", "blockers", "todo", "deps"}
  BY DEF Visit
<1> QED BY <1>1, <1>2, <1>3 DEF Shaped, IsVisit, Readable

LEMMA GoesOnShaped ==
    ASSUME NEW e, NEW f, NEW m \in Nat \ {0}, NEW v, GoesOn(e, f, m, v),
           e.status = "running", ShapedUpTo(e, m - 1), IsVisit(v),
           m > 1 => Linked(e.stack[m - 1], v)
    PROVE  Shape(f)
<1>1. /\ Continues(e, f) /\ Keeps(e, f, m - 1)
  BY DEF GoesOn
<1>2. IsEvaluation(f) /\ f.status = "running"
  BY <1>1 DEF Continues
<1>3. \A i \in 1..(m - 1) : f.stack[i] = e.stack[i] /\ Shaped(f.stack[i])
  BY <1>1 DEF Keeps, ShapedUpTo
<1>4. \A i \in 1..(m - 1 - 1) : Linked(f.stack[i], f.stack[i + 1])
  BY <1>3 DEF ShapedUpTo
<1>5. CASE v.todo = {} /\ Len(f.stack) = m /\ f.stack[m] = [v EXCEPT !.next = "revision"]
  <2>1. Shaped(f.stack[m]) /\ f.stack[m].via = v.via /\ f.stack[m].object = v.object
        /\ f.stack[m].next \in Readable
    BY <1>5 DEF Shaped, IsVisit, Readable
  <2>2. m > 1 => Linked(f.stack[m - 1], f.stack[m])
    BY <1>3, <2>1 DEF Linked
  <2>3. ShapedUpTo(f, m)
    <3>1. ASSUME NEW i \in 1..m PROVE Shaped(f.stack[i])
      BY <1>3, <2>1
    <3>2. ASSUME NEW i \in 1..(m - 1) PROVE Linked(f.stack[i], f.stack[i + 1])
      <4>1. CASE i = m - 1
        BY <2>2, <4>1
      <4>2. CASE i \in 1..(m - 1 - 1)
        BY <1>4, <4>2
      <4> QED BY <4>1, <4>2
    <3> QED BY <3>1, <3>2, Zenon DEF ShapedUpTo
  <2>4. f.stack # <<>>
    BY <1>5
  <2> QED BY <1>2, <1>5, <2>1, <2>3, <2>4 DEF Shape
<1>6. ASSUME NEW r \in v.todo, NEW cut \in Cuts,
             Len(f.stack) = m + 1,
             f.stack[m] = [v EXCEPT !.next = "dependency"],
             f.stack[m + 1] = Visit(r.to, r, cut)
      PROVE  Shape(f)
  <2>1. Shaped(f.stack[m]) /\ f.stack[m].via = v.via /\ f.stack[m].object = v.object
        /\ f.stack[m].next = "dependency" /\ f.stack[m].todo = v.todo
    BY <1>6 DEF Shaped, IsVisit, Readable
  <2>2. Shaped(f.stack[m + 1]) /\ f.stack[m + 1].next \in Readable
        /\ f.stack[m + 1].via = r /\ f.stack[m + 1].object = r.to
    BY <1>6, VisitShaped
  <2>3. m > 1 => Linked(f.stack[m - 1], f.stack[m])
    BY <1>3, <2>1 DEF Linked
  <2>4. Linked(f.stack[m], f.stack[m + 1])
    BY <2>1, <2>2 DEF Linked
  <2>5. ShapedUpTo(f, m + 1)
    <3> DEFINE k == m + 1
    <3> HIDE DEF k
    <3>1. ASSUME NEW i \in 1..k PROVE Shaped(f.stack[i])
      BY <1>3, <2>1, <2>2 DEF k
    <3>2. ASSUME NEW i \in 1..(k - 1) PROVE Linked(f.stack[i], f.stack[i + 1])
      <4>1. CASE i = m - 1
        BY <2>3, <4>1
      <4>2. CASE i \in 1..(m - 1 - 1)
        BY <1>4, <4>2
      <4>3. CASE i = m
        BY <2>4, <4>3
      <4> QED BY <4>1, <4>2, <4>3 DEF k
    <3>3. ShapedUpTo(f, k)
      BY <3>1, <3>2, Zenon DEF ShapedUpTo
    <3> QED BY <3>3 DEF k
  <2>6. f.stack # <<>>
    BY <1>6
  <2> QED BY <1>2, <1>6, <2>2, <2>5, <2>6 DEF Shape
<1> QED BY <1>5, <1>6 DEF GoesOn

LEMMA ReplacesShaped ==
    ASSUME NEW e, Shape(e), e.status = "running", NEW f, IsEvaluation(f), NEW v, Replaces(e, f, v),
           Shaped(v), v.next \in Readable,
           v.via = e.stack[Len(e.stack)].via, v.object = e.stack[Len(e.stack)].object
    PROVE  Shape(f)
<1> DEFINE n == Len(e.stack)
<1>1. n \in Nat \ {0} /\ ShapedUpTo(e, n) /\ f.status = "running"
      /\ Len(f.stack) = n /\ f.stack[n] = v /\ \A i \in 1..(n - 1) : f.stack[i] = e.stack[i]
  BY DEF Shape, Replaces, Keeps
<1> HIDE DEF n
<1>2. \A i \in 1..n : Shaped(f.stack[i])
  BY <1>1 DEF ShapedUpTo
<1>3. ASSUME NEW i \in 1..(n - 1) PROVE Linked(f.stack[i], f.stack[i + 1])
  <2>1. Linked(e.stack[i], e.stack[i + 1]) /\ f.stack[i] = e.stack[i]
    BY <1>1 DEF ShapedUpTo
  <2>2. CASE i = n - 1
    <3>1. Linked(e.stack[i], e.stack[n]) /\ f.stack[i + 1] = v
      BY <1>1, <2>1, <2>2
    <3> QED BY <2>1, <3>1 DEF Linked, n
  <2>3. CASE i # n - 1
    BY <1>1, <2>1, <2>3
  <2> QED BY <2>2, <2>3
<1>4. f.stack # <<>>
  BY <1>1
<1>5. ShapedUpTo(f, n)
  BY <1>2, <1>3, Zenon DEF ShapedUpTo
<1> QED BY <1>1, <1>4, <1>5 DEF Shape

LEMMA FoundShaped ==
    ASSUME NEW v, Shaped(v), NEW x
    PROVE  /\ v.next = "object" => Shaped([v EXCEPT !.next = "policy"])
           /\ v.next = "policy" => Shaped(FoundPolicy(v, x)) /\ FoundPolicy(v, x).next \in Readable
           /\ v.next = "assurance" => Shaped(FoundAssurance(v, x)) /\ FoundAssurance(v, x).next \in Readable
           /\ v.next = "incoming" => Shaped(FoundIncoming(v, x)) /\ FoundIncoming(v, x).next \in Readable
           /\ IsVisit(FoundOutgoing(v, x))
           /\ \A w \in {[v EXCEPT !.next = "policy"], FoundPolicy(v, x), FoundAssurance(v, x),
                        FoundIncoming(v, x), FoundOutgoing(v, x)} :
                w.via = v.via /\ w.object = v.object
<1>1. v.next = "object" => Shaped([v EXCEPT !.next = "policy"])
  BY DEF Shaped, IsVisit, Readable
<1>2. v.next = "policy" => Shaped(FoundPolicy(v, x)) /\ FoundPolicy(v, x).next \in Readable
  BY DEF Shaped, IsVisit, Readable, FoundPolicy
<1>3. ASSUME v.next = "assurance"
      PROVE  Shaped(FoundAssurance(v, x)) /\ FoundAssurance(v, x).next \in Readable
  <2> DEFINE w == FoundAssurance(v, x)
  <2>1. \A b \in AssuranceBlockers(v.object, v.policy.def, x) : b.type # "blocking_relation"
    BY DEF AssuranceBlockers, Blocker
  <2>2. /\ DOMAIN w = DOMAIN v /\ w.deps = v.deps /\ w.next = "incoming" /\ w.todo = v.todo
        /\ w.blockers = AssuranceBlockers(v.object, v.policy.def, x)
    BY DEF FoundAssurance, Shaped, IsVisit
  <2> HIDE DEF w
  <2> QED BY <1>3, <2>1, <2>2 DEF Shaped, IsVisit, Readable, w
<1>4. ASSUME v.next = "incoming"
      PROVE  Shaped(FoundIncoming(v, x)) /\ FoundIncoming(v, x).next \in Readable
  <2> DEFINE w == FoundIncoming(v, x)
  <2>1. DOMAIN w = DOMAIN v /\ w.deps = v.deps /\ w.next \in {"revision", "outgoing"} /\ w.todo = v.todo
    BY DEF FoundIncoming, Shaped, IsVisit
  <2> HIDE DEF w
  <2> QED BY <1>4, <2>1 DEF Shaped, IsVisit, Readable, w
<1>5. IsVisit(FoundOutgoing(v, x))
  BY DEF FoundOutgoing, Shaped, IsVisit
<1>6. [v EXCEPT !.next = "policy"].via = v.via /\ [v EXCEPT !.next = "policy"].object = v.object
  BY DEF Shaped, IsVisit
<1>7. FoundPolicy(v, x).via = v.via /\ FoundPolicy(v, x).object = v.object
  BY DEF Shaped, IsVisit, FoundPolicy
<1>8. FoundAssurance(v, x).via = v.via /\ FoundAssurance(v, x).object = v.object
  BY DEF Shaped, IsVisit, FoundAssurance
<1>9. FoundIncoming(v, x).via = v.via /\ FoundIncoming(v, x).object = v.object
  BY DEF Shaped, IsVisit, FoundIncoming
<1>10. FoundOutgoing(v, x).via = v.via /\ FoundOutgoing(v, x).object = v.object
  BY DEF Shaped, IsVisit, FoundOutgoing
<1> QED BY <1>1, <1>2, <1>3, <1>4, <1>5, <1>6, <1>7, <1>8, <1>9, <1>10

IsAnswered(u, v, result, w) ==
    /\ IsVisit(w)
    /\ w.via = u.via /\ w.object = u.object /\ w.policy = u.policy /\ w.next = u.next
    /\ w.assurances = u.assurances
    /\ w.todo = u.todo \ {v.via}
    /\ w.blockers = u.blockers \cup DependencyBlockers(u.object, u.policy.def, v.via.id, result)
    /\ Len(u.deps) \in Nat /\ Len(w.deps) = Len(u.deps) + 1
    /\ \A j \in 1..Len(u.deps) : w.deps[j] = u.deps[j]
    /\ w.deps[Len(u.deps) + 1] = [relation |-> v.via, state |-> result]

LEMMA AnsweredIs ==
    ASSUME NEW u, IsVisit(u), NEW v, NEW result
    PROVE  IsAnswered(u, v, result, Answered(u, v, result))
<1> DEFINE d == Append(u.deps, [relation |-> v.via, state |-> result])
           w == Answered(u, v, result)
<1>1. /\ IsSequence(d) /\ Len(u.deps) \in Nat /\ Len(d) = Len(u.deps) + 1
      /\ \A j \in 1..Len(u.deps) : d[j] = u.deps[j]
      /\ d[Len(u.deps) + 1] = [relation |-> v.via, state |-> result]
  BY Grown DEF IsVisit
<1>2. w = [u EXCEPT !.deps = d, !.todo = @ \ {v.via},
                    !.blockers = @ \cup DependencyBlockers(u.object, u.policy.def, v.via.id, result)]
  BY DEF Answered
<1> HIDE DEF d, w
<1>3. /\ DOMAIN w = DOMAIN u
      /\ w.via = u.via /\ w.object = u.object /\ w.policy = u.policy /\ w.next = u.next
      /\ w.assurances = u.assurances /\ w.todo = u.todo \ {v.via} /\ w.deps = d
      /\ w.blockers = u.blockers \cup DependencyBlockers(u.object, u.policy.def, v.via.id, result)
  BY <1>2 DEF IsVisit
<1>4. IsAnswered(u, v, result, w)
  BY <1>1, <1>3 DEF IsVisit, IsAnswered
<1> QED BY <1>4 DEF w

LEMMA ShapeKept ==
    ASSUME NEW e, Shape(e), e.status = "running", NEW x, NEW f, f = After(e, x)
    PROVE  Shape(f)
<1> DEFINE n == Len(e.stack)
           v == e.stack[n]
           c == Counted(e)
<1>1. IsEvaluation(e) /\ e.stack # <<>> /\ n \in Nat \ {0} /\ v.next \in Readable
      /\ ShapedUpTo(e, n) /\ Shaped(v)
  BY DEF Shape, ShapedUpTo
<1>2. Moves(e, x, f)
  BY <1>1, AfterMoves
<1>3. IsEvaluation(f)
  BY <1>2 DEF Moves
<1>4. c.status = "running" /\ c.stack = e.stack
  BY <1>1, CountedIs
<1>5. ASSUME NEW m \in Nat \ {0}, m <= n PROVE ShapedUpTo(c, m - 1)
  BY <1>1, <1>4, <1>5 DEF ShapedUpTo
<1>6. ASSUME n > 1 PROVE Linked(e.stack[n - 1], v)
  BY <1>1, <1>6 DEF ShapedUpTo
<1> HIDE DEF c
<1>7. CASE v.next = "object"
  <2>1. CASE x
    <3>1. Replaces(e, f, [v EXCEPT !.next = "policy"])
      BY <1>2, <1>7, <2>1 DEF Moves
    <3>2. [v EXCEPT !.next = "policy"].next \in Readable
      BY <1>1 DEF Shaped, IsVisit, Readable
    <3> QED BY <1>1, <1>3, <1>7, <3>1, <3>2, ReplacesShaped, FoundShaped
  <2>2. CASE ~x
    BY <1>2, <1>3, <1>7, <2>2 DEF Moves, Shape
  <2> QED BY <2>1, <2>2
<1>8. CASE v.next = "policy"
  <2>1. Replaces(e, f, FoundPolicy(v, x))
    BY <1>2, <1>8 DEF Moves
  <2> QED BY <1>1, <1>3, <1>8, <2>1, ReplacesShaped, FoundShaped
<1>9. CASE v.next = "assurance"
  <2>1. Replaces(e, f, FoundAssurance(v, x))
    BY <1>2, <1>9 DEF Moves
  <2> QED BY <1>1, <1>3, <1>9, <2>1, ReplacesShaped, FoundShaped
<1>10. CASE v.next = "incoming"
  <2>1. Replaces(e, f, FoundIncoming(v, x))
    BY <1>2, <1>10 DEF Moves
  <2> QED BY <1>1, <1>3, <1>10, <2>1, ReplacesShaped, FoundShaped
<1>11. CASE v.next = "outgoing"
  <2> DEFINE w == FoundOutgoing(v, x)
  <2>1. GoesOn(c, f, n, w)
    BY <1>2, <1>11 DEF Moves, c
  <2>2. IsVisit(w) /\ w.via = v.via /\ w.object = v.object
    BY <1>1, FoundShaped
  <2> HIDE DEF w
  <2>3. n > 1 => Linked(c.stack[n - 1], w)
    BY <1>4, <1>6, <2>2 DEF Linked
  <2>4. ShapedUpTo(c, n - 1)
    BY <1>1, <1>5
  <2> HIDE DEF n, v
  <2> QED BY <1>1, <1>4, <2>1, <2>2, <2>3, <2>4, GoesOnShaped
<1>12. CASE v.next = "revision" /\ n = 1
  <2>1. f.status = "done"
    BY <1>2, <1>12 DEF Moves
  <2> QED BY <1>3, <2>1 DEF Shape
<1>13. CASE v.next = "revision" /\ n # 1
  <2> DEFINE u == e.stack[n - 1]
             w == Answered(u, v, ResultOf(v, x))
  <2>1. GoesOn(c, f, n - 1, w)
    BY <1>2, <1>13 DEF Moves, c
  <2>0. n - 1 \in 1..n /\ n - 1 \in Nat \ {0} /\ n - 1 <= n
    <3> HIDE DEF n
    <3> QED BY <1>1, <1>13
  <2>2. IsVisit(u)
    <3> HIDE DEF n
    <3> QED BY <1>1, <2>0 DEF ShapedUpTo, Shaped
  <2>3. IsVisit(w) /\ w.via = u.via /\ w.object = u.object
    <3>1. IsAnswered(u, v, ResultOf(v, x), w)
      BY <2>2, AnsweredIs
    <3> QED BY <3>1 DEF IsAnswered
  <2>4. n - 1 > 1 => Linked(e.stack[n - 2], u)
    BY <1>1, <1>13 DEF ShapedUpTo
  <2> HIDE DEF w, u
  <2>5. n - 1 > 1 => Linked(c.stack[n - 1 - 1], w)
    BY <1>1, <1>4, <2>3, <2>4 DEF Linked
  <2>6. n - 1 \in Nat \ {0} /\ ShapedUpTo(c, n - 1 - 1)
    BY <1>5, <2>0
  <2> HIDE DEF n, v
  <2> QED BY <1>4, <2>1, <2>3, <2>5, <2>6, GoesOnShaped
<1> QED BY <1>1, <1>7, <1>8, <1>9, <1>10, <1>11, <1>12, <1>13 DEF Readable

LEMMA Movement ==
    ASSUME NEW e, Shape(e), e.status = "running", NEW x
    PROVE  /\ Shape(After(e, x)) /\ Moves(e, x, After(e, x))
           /\ IsEvaluation(e) /\ Len(e.stack) \in Nat \ {0}
           /\ e.stack[Len(e.stack)].next \in Readable
           /\ \A i \in 1..Len(e.stack) : Shaped(e.stack[i])
           /\ \A i \in 1..(Len(e.stack) - 1) : Linked(e.stack[i], e.stack[i + 1])
           /\ After(e, x).reads = e.reads + 1
<1>1. Moves(e, x, After(e, x))
  BY AfterMoves DEF Shape
<1> QED BY <1>1, ShapeKept DEF Shape, ShapedUpTo, Moves

-----------------------------------------------------------------------------
(* Evaluations that nothing disturbs                                        *)

(* What e reads next in the world w.                                        *)
Sees(w, e) == Cell(w, e.stack[Len(e.stack)].object, e.stack[Len(e.stack)].next)

LEMMA ReadNextIs ==
    ASSUME NEW w, NEW e
    PROVE  ReadNext(w, e) = After(e, Sees(w, e))
BY DEF ReadNext, Sees, Top, Last

RunFunction(run, w, root, n) ==
    run = [k \in 0..n |-> IF k = 0 THEN Evaluate(root)
                          ELSE LET e == run[k - 1]
                               IN  IF e.status = "running" THEN ReadNext(w, e) ELSE e]

LEMMA RunsExist ==
    ASSUME NEW w, NEW root, NEW n \in Nat
    PROVE  \E run : RunFunction(run, w, root, n)
<1> DEFINE T == {k \in 0..n : \E run : RunFunction(run, w, root, k)}
<1>1. 0 \in T
  <2>1. RunFunction([k \in 0..0 |-> Evaluate(root)], w, root, 0)
    BY DEF RunFunction
  <2> QED BY <2>1
<1>2. ASSUME NEW k \in 1..n, k - 1 \in T PROVE k \in T
  <2>1. PICK r : RunFunction(r, w, root, k - 1)
    BY <1>2
  <2> DEFINE e == r[k - 1]
             s == [i \in 0..k |-> IF i = k THEN (IF e.status = "running" THEN ReadNext(w, e) ELSE e) ELSE r[i]]
  <2>2. ASSUME NEW i \in 0..k
        PROVE  s[i] = IF i = 0 THEN Evaluate(root)
                      ELSE LET d == s[i - 1] IN IF d.status = "running" THEN ReadNext(w, d) ELSE d
    <3>1. CASE i = k
      <4>1. s[i - 1] = e /\ i # 0
        BY <3>1
      <4> QED BY <3>1, <4>1
    <3>2. CASE i = 0
      BY <2>1, <3>2 DEF RunFunction
    <3>3. CASE i \in 1..(k - 1)
      <4>1. s[i] = r[i] /\ s[i - 1] = r[i - 1] /\ i \in 0..(k - 1) /\ i # 0
        BY <3>3
      <4> HIDE DEF s
      <4>2. r[i] = LET d == r[i - 1] IN IF d.status = "running" THEN ReadNext(w, d) ELSE d
        BY <2>1, <4>1, Zenon DEF RunFunction
      <4> QED BY <4>1, <4>2
    <3> QED BY <3>1, <3>2, <3>3
  <2>3. s = [i \in 0..k |-> s[i]]
    OBVIOUS
  <2> HIDE DEF s
  <2>4. RunFunction(s, w, root, k)
    BY <2>2, <2>3, Zenon DEF RunFunction
  <2> QED BY <2>4
<1> HIDE DEF T
<1>3. n \in T
  BY <1>1, <1>2, Inductive
<1> QED BY <1>3 DEF T

(* The run of an evaluation of root in the world w, read by read.          *)
IsRun(run, w, root) ==
    /\ run[0] = Evaluate(root)
    /\ \A n \in 1..MaxReads :
         run[n] = IF run[n - 1].status = "running" THEN ReadNext(w, run[n - 1]) ELSE run[n - 1]

LEMMA EvaluationRuns ==
    ASSUME NEW w, NEW root
    PROVE  \E run : IsRun(run, w, root) /\ EvaluateIn(w, root) = run[MaxReads]
<1> DEFINE run[n \in 0..MaxReads] ==
             IF n = 0 THEN Evaluate(root)
             ELSE LET e == run[n - 1] IN IF e.status = "running" THEN ReadNext(w, e) ELSE e
<1>1. EvaluateIn(w, root) = run[MaxReads]
  BY DEF EvaluateIn
<1>2. MaxReads \in Nat
  BY ConstantsFit DEF ConstantsFit
<1>3. PICK r : RunFunction(r, w, root, MaxReads)
  BY <1>2, RunsExist
<1>4. RunFunction(run, w, root, MaxReads)
  BY <1>3, Zenon DEF RunFunction
<1> HIDE DEF run
<1>5. run[0] = Evaluate(root)
  BY <1>2, <1>4 DEF RunFunction
<1>6. ASSUME NEW n \in 1..MaxReads
      PROVE  run[n] = IF run[n - 1].status = "running" THEN ReadNext(w, run[n - 1]) ELSE run[n - 1]
  <2>1. n \in 0..MaxReads /\ n # 0
    BY <1>2
  <2>2. run[n] = LET e == run[n - 1] IN IF e.status = "running" THEN ReadNext(w, e) ELSE e
    BY <1>4, <2>1, Zenon DEF RunFunction
  <2> QED BY <2>2
<1> QED BY <1>1, <1>5, <1>6, Zenon DEF IsRun

LEMMA Started ==
    ASSUME NEW root
    PROVE  /\ Shape(Evaluate(root))
           /\ Evaluate(root).status = "running" /\ Evaluate(root).reads = 0
           /\ Len(Evaluate(root).stack) = 1
           /\ \E cut \in Cuts \ {{"dependency_cycle"}} : Evaluate(root).stack[1] = Visit(root, None, cut)
<1> DEFINE e == [status |-> "running", stack |-> <<>>, visited |-> 0, reads |-> 0, result |-> None]
           f == Evaluate(root)
<1>1. IsSequence(<<>>)
  <2>1. <<>> \in Seq({})
    OBVIOUS
  <2> QED BY <2>1 DEF IsSequence
<1>2. IsEvaluation(e) /\ e.stack = <<>> /\ e.status = "running" /\ e.reads = 0
  BY <1>1 DEF IsEvaluation
<1>3. f = Enter(e, root, None)
  BY DEF Evaluate
<1> HIDE DEF e, f
<1>4. PICK cut \in Cuts : Enters(e, f, root, None, cut)
  BY <1>2, <1>3, Entered
<1>5. cut # {"dependency_cycle"} /\ IsEvaluation(f) /\ f.status = "running" /\ f.reads = 0
      /\ Len(f.stack) = 1 /\ f.stack[1] = Visit(root, None, cut)
  BY <1>2, <1>4 DEF Enters, Continues
<1>6. Shaped(f.stack[1]) /\ f.stack[1].next \in Readable
  BY <1>5, VisitShaped
<1>7. f.stack # <<>>
  BY <1>5
<1>8. ShapedUpTo(f, 1)
  BY <1>6 DEF ShapedUpTo
<1>9. Shape(f)
  BY <1>5, <1>6, <1>7, <1>8 DEF Shape
<1> QED BY <1>5, <1>9 DEF f

LEMMA RunShape ==
    ASSUME NEW w, NEW root, NEW run, IsRun(run, w, root)
    PROVE  \A n \in 0..MaxReads : Shape(run[n])
<1> DEFINE T == {n \in 0..MaxReads : Shape(run[n])}
<1>1. MaxReads \in Nat
  BY ConstantsFit DEF ConstantsFit
<1>2. 0 \in T
  BY <1>1, Started DEF IsRun
<1>3. ASSUME NEW n \in 1..MaxReads, n - 1 \in T PROVE n \in T
  <2>1. Shape(run[n - 1])
    BY <1>3
  <2>2. CASE run[n - 1].status = "running"
    <3>1. run[n] = After(run[n - 1], Sees(w, run[n - 1]))
      BY <2>2, ReadNextIs DEF IsRun
    <3> QED BY <1>1, <2>1, <2>2, <3>1, Movement
  <2>3. CASE run[n - 1].status # "running"
    BY <1>1, <2>1, <2>3 DEF IsRun
  <2> QED BY <2>2, <2>3
<1> HIDE DEF T
<1>4. \A n \in 0..MaxReads : n \in T
  BY <1>1, <1>2, <1>3, Inductive
<1> QED BY <1>4 DEF T

(* An evaluation that has ended stays as it is.                             *)
LEMMA RunStays ==
    ASSUME NEW w, NEW root, NEW run, IsRun(run, w, root),
           NEW m \in 0..MaxReads, run[m].status # "running"
    PROVE  run[MaxReads] = run[m]
<1> DEFINE T == {n \in 0..MaxReads : n >= m => run[n] = run[m]}
<1>1. MaxReads \in Nat
  BY ConstantsFit DEF ConstantsFit
<1>2. 0 \in T
  BY <1>1
<1>3. ASSUME NEW n \in 1..MaxReads, n - 1 \in T PROVE n \in T
  <2>1. CASE n = m
    BY <1>1, <2>1
  <2>2. CASE n < m
    BY <1>1, <2>2
  <2>3. CASE n > m
    <3>1. run[n - 1] = run[m]
      BY <1>1, <1>3, <2>3
    <3>2. run[n] = run[n - 1]
      BY <3>1 DEF IsRun
    <3> QED BY <1>1, <3>1, <3>2
  <2> QED BY <1>1, <2>1, <2>2, <2>3
<1> HIDE DEF T
<1>4. MaxReads \in T
  BY <1>1, <1>2, <1>3, Inductive
<1> QED BY <1>1, <1>4 DEF T

-----------------------------------------------------------------------------
(* What an evaluation has touched: the objects its result will pin.         *)

Touches(v, o) == v.object = o \/ \E j \in 1..Len(v.deps) : o \in Pinned(v.deps[j].state)

Touched(e, o) ==
    IF e.status = "done" THEN o \in Pinned(e.result)
    ELSE \E i \in 1..Len(e.stack) : Touches(e.stack[i], o)

LEMMA ResultPins ==
    ASSUME NEW v, IsVisit(v), NEW rev, NEW o
    PROVE  o \in Pinned(ResultOf(v, rev)) <=> Touches(v, o)
<1> DEFINE a == ResultOf(v, rev)
<1>1. DOMAIN v.deps = 1..Len(v.deps)
  BY DEF IsVisit, IsSequence
<1>2. a.pins = {<<v.object, rev>>} \cup UNION {k.pins : k \in States(v.deps)}
  BY DEF ResultOf, Result, Pins
<1>3. States(v.deps) = {v.deps[i].state : i \in 1..Len(v.deps)}
  BY <1>1 DEF States
<1> HIDE DEF a
<1>4. ASSUME o \in Pinned(a) PROVE Touches(v, o)
  <2>1. PICK pin \in a.pins : o = pin[1]
    BY <1>4 DEF Pinned
  <2>2. CASE pin = <<v.object, rev>>
    BY <2>1, <2>2 DEF Touches
  <2>3. CASE pin # <<v.object, rev>>
    <3>1. PICK i \in 1..Len(v.deps) : pin \in v.deps[i].state.pins
      BY <1>2, <1>3, <2>1, <2>3
    <3>2. o \in Pinned(v.deps[i].state)
      BY <2>1, <3>1 DEF Pinned
    <3> QED BY <3>1, <3>2 DEF Touches
  <2> QED BY <2>2, <2>3
<1>5. ASSUME Touches(v, o) PROVE o \in Pinned(a)
  <2>1. CASE v.object = o
    <3>1. <<v.object, rev>> \in a.pins /\ <<v.object, rev>>[1] = v.object
      BY <1>2
    <3> QED BY <2>1, <3>1 DEF Pinned
  <2>2. CASE v.object # o
    <3>1. PICK i \in 1..Len(v.deps) : o \in Pinned(v.deps[i].state)
      BY <1>5, <2>2 DEF Touches
    <3>2. PICK pin \in v.deps[i].state.pins : o = pin[1]
      BY <3>1 DEF Pinned
    <3>3. pin \in a.pins
      BY <1>2, <1>3, <3>1, <3>2
    <3> QED BY <3>2, <3>3 DEF Pinned
  <2> QED BY <2>1, <2>2
<1> QED BY <1>4, <1>5 DEF a

LEMMA FoundTouches ==
    ASSUME NEW v, IsVisit(v), NEW x, NEW o, Touches(v, o)
    PROVE  /\ Touches([v EXCEPT !.next = "policy"], o)
           /\ Touches([v EXCEPT !.next = "revision"], o)
           /\ Touches([v EXCEPT !.next = "dependency"], o)
           /\ Touches(FoundPolicy(v, x), o)
           /\ Touches(FoundAssurance(v, x), o)
           /\ Touches(FoundIncoming(v, x), o)
           /\ Touches(FoundOutgoing(v, x), o)
<1>1. ASSUME NEW w, w.object = v.object, w.deps = v.deps PROVE Touches(w, o)
  BY <1>1 DEF Touches
<1>2. \A w \in {[v EXCEPT !.next = "policy"], [v EXCEPT !.next = "revision"],
                [v EXCEPT !.next = "dependency"]} : w.object = v.object /\ w.deps = v.deps
  BY DEF IsVisit
<1>3. FoundPolicy(v, x).object = v.object /\ FoundPolicy(v, x).deps = v.deps
  BY DEF IsVisit, FoundPolicy
<1>4. FoundAssurance(v, x).object = v.object /\ FoundAssurance(v, x).deps = v.deps
  BY DEF IsVisit, FoundAssurance
<1>5. FoundIncoming(v, x).object = v.object /\ FoundIncoming(v, x).deps = v.deps
  BY DEF IsVisit, FoundIncoming
<1>6. FoundOutgoing(v, x).object = v.object /\ FoundOutgoing(v, x).deps = v.deps
  BY DEF IsVisit, FoundOutgoing
<1> QED BY <1>1, <1>2, <1>3, <1>4, <1>5, <1>6

LEMMA GoesOnTouches ==
    ASSUME NEW e, NEW f, NEW m \in Nat \ {0}, NEW v, IsVisit(v), GoesOn(e, f, m, v), NEW o,
           e.status = "running",
           Touches(v, o) \/ \E i \in 1..(m - 1) : Touches(e.stack[i], o)
    PROVE  Touched(f, o)
<1>1. Keeps(e, f, m - 1) /\ f.status = "running" /\ Len(f.stack) \in {m, m + 1}
  BY DEF GoesOn, Continues
<1>2. f.stack[m] = [v EXCEPT !.next = "revision"] \/ f.stack[m] = [v EXCEPT !.next = "dependency"]
  BY DEF GoesOn
<1>3. CASE Touches(v, o)
  <2>0. m \in 1..Len(f.stack)
    BY <1>1
  <2>1. Touches(f.stack[m], o) /\ m \in 1..Len(f.stack)
    BY <1>2, <1>3, <2>0, FoundTouches, Zenon
  <2> QED BY <1>1, <2>1 DEF Touched
<1>4. ASSUME NEW i \in 1..(m - 1), Touches(e.stack[i], o) PROVE Touched(f, o)
  <2>1. f.stack[i] = e.stack[i] /\ i \in 1..Len(f.stack)
    BY <1>1, <1>4 DEF Keeps
  <2> QED BY <1>1, <1>4, <2>1 DEF Touched
<1> QED BY <1>3, <1>4

LEMMA TouchedKept ==
    ASSUME NEW e, Shape(e), e.status = "running", NEW x, NEW o, Touched(e, o),
           NEW f, f = After(e, x)
    PROVE  f.status = "raised" \/ Touched(f, o)
<1> DEFINE n == Len(e.stack)
           v == e.stack[n]
           c == Counted(e)
<1>1. /\ Moves(e, x, f) /\ IsEvaluation(e) /\ n \in Nat \ {0} /\ v.next \in Readable
      /\ \A i \in 1..n : Shaped(e.stack[i])
      /\ \A i \in 1..(n - 1) : Linked(e.stack[i], e.stack[i + 1])
  BY Movement
<1>2. PICK k \in 1..n : Touches(e.stack[k], o)
  BY DEF Touched
<1>3. c.status = "running" /\ c.stack = e.stack
  BY <1>1, CountedIs
<1>4. IsVisit(v)
  <2> HIDE DEF n
  <2> QED BY <1>1 DEF Shaped
<1> HIDE DEF c
<1>5. ASSUME NEW w, Replaces(e, f, w), Touches(v, o) => Touches(w, o) PROVE Touched(f, o)
  <2>1. f.status = "running" /\ Len(f.stack) = n /\ f.stack[n] = w
        /\ \A i \in 1..(n - 1) : f.stack[i] = e.stack[i]
    BY <1>5 DEF Replaces, Keeps
  <2>2. k = n \/ k \in 1..(n - 1)
    <3> HIDE DEF n
    <3> QED BY <1>1
  <2>3. Touches(f.stack[k], o)
    <3>1. CASE k = n
      BY <1>2, <1>5, <2>1, <3>1
    <3>2. CASE k \in 1..(n - 1)
      BY <1>2, <2>1, <3>2
    <3> QED BY <2>2, <3>1, <3>2
  <2> QED BY <2>1, <2>3 DEF Touched
<1>6. CASE v.next = "object"
  <2>1. CASE x
    <3>1. Replaces(e, f, [v EXCEPT !.next = "policy"])
      BY <1>1, <1>6, <2>1 DEF Moves
    <3> QED BY <1>4, <1>5, <3>1, FoundTouches
  <2>2. CASE ~x
    BY <1>1, <1>6, <2>2 DEF Moves
  <2> QED BY <2>1, <2>2
<1>7. CASE v.next = "policy"
  <2>1. Replaces(e, f, FoundPolicy(v, x))
    BY <1>1, <1>7 DEF Moves
  <2> QED BY <1>4, <1>5, <2>1, FoundTouches
<1>8. CASE v.next = "assurance"
  <2>1. Replaces(e, f, FoundAssurance(v, x))
    BY <1>1, <1>8 DEF Moves
  <2> QED BY <1>4, <1>5, <2>1, FoundTouches
<1>9. CASE v.next = "incoming"
  <2>1. Replaces(e, f, FoundIncoming(v, x))
    BY <1>1, <1>9 DEF Moves
  <2> QED BY <1>4, <1>5, <2>1, FoundTouches
<1>10. CASE v.next = "outgoing"
  <2>1. GoesOn(c, f, n, FoundOutgoing(v, x))
    BY <1>1, <1>10 DEF Moves, c
  <2>2. IsVisit(FoundOutgoing(v, x))
    BY <1>4 DEF FoundOutgoing, IsVisit
  <2>3. k = n \/ k \in 1..(n - 1)
    <3> HIDE DEF n
    <3> QED BY <1>1
  <2>4. Touches(FoundOutgoing(v, x), o) \/ \E i \in 1..(n - 1) : Touches(c.stack[i], o)
    BY <1>2, <1>3, <1>4, <2>3, FoundTouches
  <2> HIDE DEF n, v
  <2> QED BY <1>1, <1>3, <2>1, <2>2, <2>4, GoesOnTouches
<1>11. CASE v.next = "revision" /\ n = 1
  <2>1. f.status = "done" /\ f.result = ResultOf(v, x)
    BY <1>1, <1>11 DEF Moves
  <2>2. Touches(v, o)
    BY <1>2, <1>11
  <2>3. o \in Pinned(ResultOf(v, x))
    BY <1>4, <2>2, ResultPins
  <2> QED BY <2>1, <2>3 DEF Touched
<1>12. CASE v.next = "revision" /\ n # 1
  <2> DEFINE m == n - 1
             u == e.stack[n - 1]
             w == Answered(u, v, ResultOf(v, x))
  <2>1. GoesOn(c, f, m, w)
    BY <1>1, <1>12 DEF Moves, c
  <2>2. m \in Nat \ {0} /\ m \in 1..n
    <3> HIDE DEF n
    <3> QED BY <1>1, <1>12
  <2>3. IsVisit(u)
    <3> HIDE DEF n
    <3> QED BY <1>1, <2>2 DEF Shaped
  <2>4. IsAnswered(u, v, ResultOf(v, x), w)
    BY <2>3, AnsweredIs
  <2>5. k = n \/ k = m \/ k \in 1..(m - 1)
    <3> HIDE DEF n
    <3> QED BY <1>1
  <2>6. CASE k = n
    <3>1. o \in Pinned(ResultOf(v, x))
      BY <1>2, <1>4, <2>6, ResultPins
    <3> DEFINE d == [relation |-> v.via, state |-> ResultOf(v, x)]
    <3>2. w.deps[Len(u.deps) + 1] = d /\ Len(u.deps) + 1 \in 1..Len(w.deps)
      BY <2>4 DEF IsAnswered
    <3>3. d.state = ResultOf(v, x)
      OBVIOUS
    <3> HIDE DEF w, d
    <3>4. Touches(w, o)
      BY <3>1, <3>2, <3>3 DEF Touches
    <3> HIDE DEF m, u, v, n
    <3> QED BY <1>3, <2>1, <2>2, <2>4, <3>4, GoesOnTouches DEF IsAnswered
  <2>7. CASE k = m
    <3> HIDE DEF w
    <3>1. Touches(u, o)
      BY <1>2, <2>7
    <3>2. Touches(w, o)
      <4>1. w.object = u.object /\ \A j \in 1..Len(u.deps) : j \in 1..Len(w.deps) /\ w.deps[j] = u.deps[j]
        BY <2>4 DEF IsAnswered
      <4> QED BY <3>1, <4>1 DEF Touches
    <3> HIDE DEF m, u, v, n
    <3> QED BY <1>3, <2>1, <2>2, <2>4, <3>2, GoesOnTouches DEF IsAnswered
  <2>8. CASE k \in 1..(m - 1)
    <3> HIDE DEF w, m, u, v, n
    <3>1. \E i \in 1..(m - 1) : Touches(c.stack[i], o)
      BY <1>2, <1>3, <2>8
    <3> QED BY <1>3, <2>1, <2>2, <2>4, <3>1, GoesOnTouches DEF IsAnswered
  <2> QED BY <2>5, <2>6, <2>7, <2>8
<1> QED BY <1>1, <1>6, <1>7, <1>8, <1>9, <1>10, <1>11, <1>12 DEF Readable

LEMMA ReadsTouched ==
    ASSUME NEW e, Shape(e), e.status = "running"
    PROVE  Touched(e, e.stack[Len(e.stack)].object)
<1>1. Len(e.stack) \in 1..Len(e.stack)
  BY DEF Shape
<1> QED BY <1>1 DEF Touched, Touches

(* What a finished evaluation touched on its way is pinned by its result.  *)
LEMMA TouchedAtEnd ==
    ASSUME NEW w, NEW root, NEW run, IsRun(run, w, root), NEW n \in 0..MaxReads,
           NEW o, Touched(run[n], o), run[MaxReads].status = "done"
    PROVE  o \in Pinned(run[MaxReads].result)
<1> DEFINE T == {k \in 0..MaxReads : k >= n => run[k].status = "raised" \/ Touched(run[k], o)}
<1>1. MaxReads \in Nat
  BY ConstantsFit DEF ConstantsFit
<1>2. 0 \in T
  BY <1>1
<1>3. ASSUME NEW k \in 1..MaxReads, k - 1 \in T PROVE k \in T
  <2>1. CASE k = n
    BY <1>1, <2>1
  <2>2. CASE k < n
    BY <1>1, <2>2
  <2>3. CASE k > n
    <3> DEFINE e == run[k - 1]
    <3>1. k - 1 \in 0..MaxReads /\ Shape(e)
      BY <1>1, RunShape
    <3>2. e.status = "raised" \/ Touched(e, o)
      BY <1>1, <1>3, <2>3
    <3>3. run[k] = IF e.status = "running" THEN After(e, Sees(w, e)) ELSE e
      BY ReadNextIs DEF IsRun
    <3> HIDE DEF e
    <3>4. run[k].status = "raised" \/ Touched(run[k], o)
      <4>1. CASE e.status = "running"
        BY <3>1, <3>2, <3>3, <4>1, TouchedKept
      <4>2. CASE e.status # "running"
        BY <3>2, <3>3, <4>2
      <4> QED BY <4>1, <4>2
    <3> QED BY <1>1, <3>4
  <2> QED BY <1>1, <2>1, <2>2, <2>3
<1> HIDE DEF T
<1>4. MaxReads \in T
  BY <1>1, <1>2, <1>3, Inductive
<1> QED BY <1>1, <1>4 DEF T, Touched

-----------------------------------------------------------------------------
(* Every visit is to an object, and so is every relation it will follow.   *)

Places(v) == v.object \in Objects /\ \A r \in v.todo : r.to \in Objects
Located(e) == e.status = "running" => \A i \in 1..Len(e.stack) : Places(e.stack[i])

LEMMA GoesOnPlaces ==
    ASSUME NEW e, NEW f, NEW m \in Nat \ {0}, NEW v, IsVisit(v), GoesOn(e, f, m, v),
           Places(v), \A i \in 1..(m - 1) : Places(e.stack[i])
    PROVE  Located(f)
<1>1. Keeps(e, f, m - 1) /\ Len(f.stack) \in {m, m + 1}
  BY DEF GoesOn
<1>2. Places([v EXCEPT !.next = "revision"]) /\ Places([v EXCEPT !.next = "dependency"])
  <2>1. \A u \in {[v EXCEPT !.next = "revision"], [v EXCEPT !.next = "dependency"]} :
          u.object = v.object /\ u.todo = v.todo
    BY DEF IsVisit
  <2> QED BY <2>1 DEF Places
<1>3. Places(f.stack[m])
  BY <1>2 DEF GoesOn
<1>4. ASSUME Len(f.stack) = m + 1 PROVE Places(f.stack[m + 1])
  <2>1. m + 1 # m
    OBVIOUS
  <2>2. PICK r \in v.todo, cut \in Cuts : f.stack[m + 1] = Visit(r.to, r, cut)
    BY <1>4, <2>1 DEF GoesOn
  <2>3. f.stack[m + 1].object = r.to /\ f.stack[m + 1].todo = {}
    BY <2>2 DEF Visit
  <2> QED BY <2>3 DEF Places
<1>5. ASSUME NEW i \in 1..Len(f.stack) PROVE Places(f.stack[i])
  <2>1. i \in 1..(m - 1) \/ i = m \/ (i = m + 1 /\ Len(f.stack) = m + 1)
    BY <1>1
  <2>2. ASSUME i \in 1..(m - 1) PROVE Places(f.stack[i])
    BY <1>1, <2>2 DEF Keeps
  <2> QED BY <1>3, <1>4, <2>1, <2>2
<1> QED BY <1>5 DEF Located

LEMMA LocatedKept ==
    ASSUME NEW e, Shape(e), e.status = "running", Located(e), NEW x,
           e.stack[Len(e.stack)].next = "outgoing" => \A r \in x : r.to \in Objects,
           NEW f, f = After(e, x)
    PROVE  Located(f)
<1> DEFINE n == Len(e.stack)
           v == e.stack[n]
           c == Counted(e)
<1>1. /\ Moves(e, x, f) /\ IsEvaluation(e) /\ n \in Nat \ {0} /\ v.next \in Readable
      /\ \A i \in 1..n : Shaped(e.stack[i])
      /\ \A i \in 1..(n - 1) : Linked(e.stack[i], e.stack[i + 1])
  BY Movement
<1>2. \A i \in 1..n : Places(e.stack[i])
  BY DEF Located
<1>3. c.stack = e.stack
  BY <1>1, CountedIs
<1>4. IsVisit(v) /\ Places(v) /\ n \in 1..n
  <2> HIDE DEF n
  <2> QED BY <1>1, <1>2 DEF Shaped
<1> HIDE DEF c
<1>5. ASSUME NEW w, Replaces(e, f, w), Places(w) PROVE Located(f)
  <2>1. Len(f.stack) = n /\ f.stack[n] = w /\ \A i \in 1..(n - 1) : f.stack[i] = e.stack[i]
    BY <1>5 DEF Replaces, Keeps
  <2>2. ASSUME NEW i \in 1..n PROVE Places(f.stack[i])
    <3> HIDE DEF n
    <3>1. CASE i = n
      BY <1>5, <2>1, <3>1
    <3>2. CASE i \in 1..(n - 1)
      BY <1>1, <1>2, <2>1, <3>2
    <3> QED BY <1>1, <3>1, <3>2
  <2> QED BY <2>1, <2>2 DEF Located
<1>6. Places([v EXCEPT !.next = "policy"]) /\ Places(FoundPolicy(v, x))
      /\ Places(FoundAssurance(v, x)) /\ Places(FoundIncoming(v, x))
  <2>1. FoundPolicy(v, x).object = v.object /\ FoundPolicy(v, x).todo = v.todo
    BY <1>4 DEF IsVisit, FoundPolicy
  <2>2. FoundAssurance(v, x).object = v.object /\ FoundAssurance(v, x).todo = v.todo
    BY <1>4 DEF IsVisit, FoundAssurance
  <2>3. FoundIncoming(v, x).object = v.object /\ FoundIncoming(v, x).todo = v.todo
    BY <1>4 DEF IsVisit, FoundIncoming
  <2>4. [v EXCEPT !.next = "policy"].object = v.object /\ [v EXCEPT !.next = "policy"].todo = v.todo
    BY <1>4 DEF IsVisit
  <2> HIDE DEF v
  <2> QED BY <1>4, <2>1, <2>2, <2>3, <2>4 DEF Places
<1>7. CASE v.next = "object"
  BY <1>1, <1>5, <1>6, <1>7 DEF Moves, Located
<1>8. CASE v.next \in {"policy", "assurance", "incoming"}
  <2>1. \E w \in {FoundPolicy(v, x), FoundAssurance(v, x), FoundIncoming(v, x)} : Replaces(e, f, w)
    BY <1>1, <1>8 DEF Moves
  <2> QED BY <1>5, <1>6, <2>1
<1>9. CASE v.next = "outgoing"
  <2> DEFINE w == FoundOutgoing(v, x)
  <2>1. GoesOn(c, f, n, w)
    BY <1>1, <1>9 DEF Moves, c
  <2>2. IsVisit(w) /\ w.object = v.object /\ w.todo \subseteq x
    BY <1>4 DEF FoundOutgoing, IsVisit
  <2>3. Places(w)
    BY <1>4, <1>9, <2>2 DEF Places
  <2> HIDE DEF n, v, w
  <2>4. \A i \in 1..(n - 1) : Places(c.stack[i])
    BY <1>1, <1>2, <1>3
  <2> QED BY <1>1, <2>1, <2>2, <2>3, <2>4, GoesOnPlaces
<1>10. CASE v.next = "revision" /\ n = 1
  BY <1>1, <1>10 DEF Moves, Located
<1>11. CASE v.next = "revision" /\ n # 1
  <2> DEFINE m == n - 1
             u == e.stack[n - 1]
             w == Answered(u, v, ResultOf(v, x))
  <2>1. GoesOn(c, f, m, w)
    BY <1>1, <1>11 DEF Moves, c
  <2>2. m \in Nat \ {0} /\ m \in 1..n
    <3> HIDE DEF n
    <3> QED BY <1>1, <1>11
  <2>3. IsVisit(u) /\ Places(u)
    <3> HIDE DEF n
    <3> QED BY <1>1, <1>2, <2>2 DEF Shaped
  <2>4. IsAnswered(u, v, ResultOf(v, x), w)
    BY <2>3, AnsweredIs
  <2>5. IsVisit(w) /\ Places(w)
    <3> HIDE DEF w, u, v
    <3> QED BY <2>3, <2>4 DEF IsAnswered, Places
  <2>6. \A i \in 1..(m - 1) : Places(c.stack[i])
    <3> HIDE DEF n
    <3> QED BY <1>1, <1>2, <1>3
  <2> HIDE DEF n, v, w, m
  <2> QED BY <2>1, <2>2, <2>5, <2>6, GoesOnPlaces
<1> QED BY <1>1, <1>7, <1>8, <1>9, <1>10, <1>11 DEF Readable

LEMMA RelationsPlaced ==
    ASSUME NEW w, IsWorld(w), NEW o, NEW end, NEW r \in RelationsOf(w, o, end)
    PROVE  \E i \in DOMAIN w.relations :
             /\ r = [id |-> i, type |-> w.relations[i].type, from |-> w.relations[i].from,
                     to |-> w.relations[i].to]
             /\ w.relations[i] \in Relations /\ w.relations[i][end] = o
<1>1. \A i \in DOMAIN w.relations : w.relations[i] \in Relations
  BY DEF IsWorld
<1> QED BY <1>1 DEF RelationsOf

LEMMA RunLocated ==
    ASSUME NEW w, IsWorld(w), NEW root \in Objects, NEW run, IsRun(run, w, root)
    PROVE  \A n \in 0..MaxReads : Located(run[n])
<1> DEFINE T == {n \in 0..MaxReads : Located(run[n])}
<1>1. MaxReads \in Nat
  BY ConstantsFit DEF ConstantsFit
<1>2. 0 \in T
  <2>1. PICK cut \in Cuts : Evaluate(root).stack[1] = Visit(root, None, cut)
    BY Started
  <2>2. Visit(root, None, cut).object = root /\ Visit(root, None, cut).todo = {}
    BY DEF Visit
  <2>3. Located(Evaluate(root))
    BY <2>1, <2>2, Started DEF Located, Places
  <2> QED BY <1>1, <2>3 DEF IsRun
<1>3. ASSUME NEW n \in 1..MaxReads, n - 1 \in T PROVE n \in T
  <2> DEFINE e == run[n - 1]
  <2>1. Shape(e) /\ Located(e)
    BY <1>1, <1>3, RunShape
  <2>2. CASE e.status = "running"
    <3>1. run[n] = After(e, Sees(w, e))
      BY <2>2, ReadNextIs DEF IsRun
    <3>2. e.stack[Len(e.stack)].next = "outgoing" =>
            Sees(w, e) = RelationsOf(w, e.stack[Len(e.stack)].object, "from")
      BY DEF Sees, Cell
    <3> HIDE DEF e
    <3>3. e.stack[Len(e.stack)].next = "outgoing" => \A r \in Sees(w, e) : r.to \in Objects
      <4> SUFFICES ASSUME e.stack[Len(e.stack)].next = "outgoing", NEW r \in Sees(w, e)
                   PROVE  r.to \in Objects
        OBVIOUS
      <4>1. PICK i \in DOMAIN w.relations :
               /\ r = [id |-> i, type |-> w.relations[i].type, from |-> w.relations[i].from,
                       to |-> w.relations[i].to]
               /\ w.relations[i] \in Relations
        BY <3>2, RelationsPlaced
      <4> QED BY <4>1 DEF Relations
    <3>4. Located(run[n])
      BY <2>1, <2>2, <3>1, <3>3, LocatedKept
    <3> QED BY <3>4
  <2>3. CASE e.status # "running"
    BY <1>1, <2>1, <2>3 DEF IsRun
  <2> QED BY <2>2, <2>3
<1> HIDE DEF T
<1>4. \A n \in 0..MaxReads : n \in T
  BY <1>1, <1>2, <1>3, Inductive
<1> QED BY <1>4 DEF T

-----------------------------------------------------------------------------
(* Worlds that differ only at o give the same answer where o is not pinned. *)

SameBut(w1, w2, o) ==
    \A q \in Objects \ {o}, what \in Readable : Cell(w1, q, what) = Cell(w2, q, what)

LEMMA SameAnswer ==
    ASSUME NEW w1, NEW w2, IsWorld(w1), NEW root \in Objects, NEW a, NEW o,
           SameBut(w1, w2, o), Gives(w1, root, a), o \notin Pinned(a)
    PROVE  Gives(w2, root, a)
<1>1. PICK r1 : IsRun(r1, w1, root) /\ EvaluateIn(w1, root) = r1[MaxReads]
  BY EvaluationRuns
<1>2. PICK r2 : IsRun(r2, w2, root) /\ EvaluateIn(w2, root) = r2[MaxReads]
  BY EvaluationRuns
<1>3. r1[MaxReads].status = "done" /\ r1[MaxReads].result = a
  BY <1>1 DEF Gives
<1>4. MaxReads \in Nat
  BY ConstantsFit DEF ConstantsFit
<1> DEFINE T == {n \in 0..MaxReads : r1[n] = r2[n]}
<1>5. 0 \in T
  BY <1>1, <1>2, <1>4 DEF IsRun
<1>6. ASSUME NEW n \in 1..MaxReads, n - 1 \in T PROVE n \in T
  <2> DEFINE e == r1[n - 1]
             top == e.stack[Len(e.stack)]
  <2>1. r2[n - 1] = e /\ n - 1 \in 0..MaxReads
    BY <1>4, <1>6
  <2>2. r1[n] = IF e.status = "running" THEN After(e, Sees(w1, e)) ELSE e
    BY <1>1, ReadNextIs DEF IsRun
  <2>3. r2[n] = IF e.status = "running" THEN After(e, Sees(w2, e)) ELSE e
    BY <1>2, <2>1, ReadNextIs DEF IsRun
  <2>4. CASE e.status = "running"
    <3>1. Shape(e) /\ Located(e)
      BY <1>1, <2>1, RunShape, RunLocated
    <3>2. Touched(e, top.object)
      BY <2>4, <3>1, ReadsTouched
    <3>3. top.object \in Pinned(a)
      BY <1>1, <1>3, <2>1, <3>2, TouchedAtEnd
    <3>4. top.next \in Readable /\ top.object \in Objects
      <4> HIDE DEF e
      <4>1. Len(e.stack) \in 1..Len(e.stack) /\ top.next \in Readable
        BY <2>4, <3>1 DEF Shape
      <4> QED BY <2>4, <3>1, <4>1 DEF Located, Places
    <3>5. Sees(w1, e) = Sees(w2, e)
      BY <3>3, <3>4 DEF SameBut, Sees
    <3> QED BY <2>2, <2>3, <3>5
  <2>5. CASE e.status # "running"
    BY <2>2, <2>3, <2>5
  <2> QED BY <2>4, <2>5
<1> HIDE DEF T
<1>7. MaxReads \in T
  BY <1>4, <1>5, <1>6, Inductive
<1> QED BY <1>2, <1>3, <1>7 DEF Gives, T

-----------------------------------------------------------------------------
(* The evidence stays a world that there can be                             *)

LEMMA WorldFields ==
    /\ World.revision = revision /\ World.relations = relations
    /\ World.policies = policies /\ World.assurances = assurances
BY DEF World

LEMMA RevisedWorld ==
    ASSUME IsWorld(World), NEW o \in Objects, Revise(o)
    PROVE  IsWorld(World)' /\ \A q \in Objects : revision'[q] = IF q = o THEN revision[q] + 1 ELSE revision[q]
<1>1. /\ revision \in [Objects -> Nat]
      /\ revision' = [revision EXCEPT ![o] = @ + 1]
      /\ relations' = relations /\ policies' = policies /\ assurances' = assurances
  BY DEF Revise, IsWorld, World
<1>2. revision' \in [Objects -> Nat]
      /\ \A q \in Objects : revision'[q] = IF q = o THEN revision[q] + 1 ELSE revision[q]
  BY <1>1
<1>3. \A q \in Objects : \A i \in DOMAIN assurances[q] : assurances[q][i].at \in 1..revision[q]
  BY DEF IsWorld, World
<1>4. \A q \in Objects : \A i \in DOMAIN assurances[q] : assurances[q][i].at \in 1..revision'[q]
  <2> SUFFICES ASSUME NEW q \in Objects, NEW i \in DOMAIN assurances[q]
               PROVE  assurances[q][i].at \in 1..revision'[q]
    OBVIOUS
  <2>1. assurances[q][i].at \in 1..revision[q] /\ revision[q] \in Nat /\ revision'[q] \in {revision[q], revision[q] + 1}
    BY <1>1, <1>2, <1>3
  <2> QED BY <2>1
<1> QED BY <1>1, <1>2, <1>4 DEF IsWorld, World

LEMMA RelatedWorld ==
    ASSUME IsWorld(World), NEW r \in Relations, CreateRelation(r)
    PROVE  IsWorld(World)'
<1>1. /\ r.from # r.to /\ relations' = Append(relations, r)
      /\ revision' = revision /\ policies' = policies /\ assurances' = assurances
  BY DEF CreateRelation
<1>2. relations \in Seq(Relations) /\ \A i \in DOMAIN relations : relations[i].from # relations[i].to
  BY DEF IsWorld, World
<1>3. relations' \in Seq(Relations)
  BY <1>1, <1>2
<1>4. \A i \in DOMAIN relations' : relations'[i].from # relations'[i].to
  BY <1>1, <1>2
<1> QED BY <1>1, <1>3, <1>4 DEF IsWorld, World

LEMMA RegisteredWorld ==
    ASSUME IsWorld(World), NEW kind \in PolicyKinds, NEW def \in Definitions, Register(kind, def)
    PROVE  IsWorld(World)'
<1> DEFINE s == policies[kind]
           x == [version |-> Len(s) + 1, def |-> def]
           t == Append(s, x)
<1>1. policies \in [PolicyKinds -> Seq(Versions)]
      /\ \A k \in PolicyKinds : \A v \in DOMAIN policies[k] :
           policies[k][v].version = v /\ (v > 1 => policies[k][v].def # policies[k][v - 1].def)
  BY DEF IsWorld, World
<1>2. ~IsCurrent(kind, def) /\ policies' = [policies EXCEPT ![kind] = t]
      /\ revision' = revision /\ relations' = relations /\ assurances' = assurances
  BY DEF Register
<1>3. s \in Seq(Versions) /\ x \in Versions
  <2>1. s \in Seq(Versions)
    BY <1>1
  <2> HIDE DEF s
  <2>2. Len(s) + 1 \in Nat
    BY <2>1
  <2> QED BY <2>1, <2>2 DEF Versions
<1>4. t \in Seq(Versions) /\ Len(t) = Len(s) + 1 /\ t[Len(s) + 1] = x
      /\ \A i \in 1..Len(s) : t[i] = s[i]
  <2> HIDE DEF x
  <2> QED BY <1>3
<1>5. policies' \in [PolicyKinds -> Seq(Versions)] /\ policies'[kind] = t
      /\ \A k \in PolicyKinds : k # kind => policies'[k] = policies[k]
  BY <1>1, <1>2, <1>4
<1>6. s # <<>> => s[Len(s)].def # def
  BY <1>2 DEF IsCurrent, Last
<1>7. \A v \in DOMAIN s : s[v].version = v /\ (v > 1 => s[v].def # s[v - 1].def)
  BY <1>1
<1>10. x.version = Len(s) + 1 /\ x.def = def
  OBVIOUS
<1> HIDE DEF s, t, x
<1>8. ASSUME NEW v \in DOMAIN t PROVE t[v].version = v /\ (v > 1 => t[v].def # t[v - 1].def)
  <2>1. v \in 1..(Len(s) + 1) /\ Len(s) \in Nat /\ DOMAIN s = 1..Len(s)
    BY <1>3, <1>4
  <2>2. CASE v \in 1..Len(s)
    <3>1. t[v] = s[v] /\ (v > 1 => t[v - 1] = s[v - 1])
      BY <1>4, <2>1, <2>2
    <3> QED BY <1>7, <2>1, <2>2, <3>1
  <2>3. CASE v = Len(s) + 1
    <3>1. t[v].version = v /\ t[v].def = def
      BY <1>4, <1>10, <2>3
    <3>2. ASSUME v > 1 PROVE t[v - 1].def # def
      <4>1. Len(s) \in 1..Len(s) /\ v - 1 = Len(s) /\ s # <<>>
        BY <1>3, <2>1, <2>3, <3>2
      <4> QED BY <1>4, <1>6, <4>1
    <3> QED BY <3>1, <3>2
  <2> QED BY <2>1, <2>2, <2>3
<1>9. \A k \in PolicyKinds : \A v \in DOMAIN policies'[k] :
        policies'[k][v].version = v /\ (v > 1 => policies'[k][v].def # policies'[k][v - 1].def)
  <2> TAKE k \in PolicyKinds
  <2>1. CASE k = kind
    BY <1>5, <1>8, <2>1
  <2>2. CASE k # kind
    BY <1>1, <1>5, <2>2
  <2> QED BY <2>1, <2>2
<1> QED BY <1>2, <1>5, <1>9 DEF IsWorld, World

LEMMA AssuredWorld ==
    ASSUME IsWorld(World), NEW a \in [object : Objects, status : STRING, scope : BOOLEAN], Assure(a)
    PROVE  IsWorld(World)'
<1> DEFINE A == [status : STRING, scope : BOOLEAN, at : Nat]
           s == assurances[a.object]
           x == [status |-> a.status, scope |-> a.scope, at |-> revision[a.object]]
           t == Append(s, x)
<1>1. /\ revision[a.object] > 0
      /\ assurances' = [assurances EXCEPT ![a.object] = t]
      /\ revision' = revision /\ relations' = relations /\ policies' = policies
  BY DEF Assure
<1>2. /\ revision \in [Objects -> Nat] /\ assurances \in [Objects -> Seq(A)]
      /\ \A o \in Objects : \A i \in DOMAIN assurances[o] : assurances[o][i].at \in 1..revision[o]
  BY DEF IsWorld, World
<1>3. x \in A /\ x.at \in 1..revision[a.object] /\ s \in Seq(A)
  BY <1>1, <1>2
<1> HIDE DEF x
<1>4. t \in Seq(A) /\ DOMAIN t = 1..(Len(s) + 1) /\ DOMAIN s = 1..Len(s) /\ t[Len(s) + 1] = x
      /\ \A i \in 1..Len(s) : t[i] = s[i]
  BY <1>3
<1>5. \A i \in DOMAIN s : s[i].at \in 1..revision[a.object]
  BY <1>2
<1>6. \A i \in DOMAIN t : t[i].at \in 1..revision[a.object]
  <2> HIDE DEF s, t
  <2> QED BY <1>3, <1>4, <1>5
<1>7. assurances' \in [Objects -> Seq(A)] /\ assurances'[a.object] = t
      /\ \A o \in Objects : o # a.object => assurances'[o] = assurances[o]
  BY <1>1, <1>2, <1>4
<1>8. \A o \in Objects : \A i \in DOMAIN assurances'[o] : assurances'[o][i].at \in 1..revision[o]
  <2> HIDE DEF t
  <2> QED BY <1>2, <1>6, <1>7
<1> QED BY <1>1, <1>7, <1>8 DEF IsWorld, World

LEMMA WorldKept ==
    ASSUME IsWorld(World), EvidenceChanges
    PROVE  IsWorld(World)'
<1>1. /\ Revisable \subseteq Objects /\ NewRelations \subseteq Relations
      /\ NewPolicies \subseteq [kind : PolicyKinds, def : Definitions]
      /\ NewAssurances \subseteq [object : Objects, status : STRING, scope : BOOLEAN]
  BY ConstantsFit DEF ConstantsFit
<1>2. ASSUME NEW o \in Revisable, Revise(o) PROVE IsWorld(World)'
  BY <1>1, <1>2, RevisedWorld
<1>3. ASSUME NEW r \in NewRelations, CreateRelation(r) PROVE IsWorld(World)'
  BY <1>1, <1>3, RelatedWorld
<1>4. ASSUME NEW p \in NewPolicies, Register(p.kind, p.def) PROVE IsWorld(World)'
  <2>1. p.kind \in PolicyKinds /\ p.def \in Definitions
    BY <1>1
  <2> QED BY <1>4, <2>1, RegisteredWorld
<1>5. ASSUME NEW a \in NewAssurances, Assure(a) PROVE IsWorld(World)'
  BY <1>1, <1>5, AssuredWorld
<1> QED BY <1>2, <1>3, <1>4, <1>5 DEF EvidenceChanges

-----------------------------------------------------------------------------
(* The invariant of the calls: what a caller has established by the place   *)
(* where it is.                                                             *)

IssuePcs == {"reliant", "first", "pins", "second", "pins again", "reliant again", "insert"}
VerifyPcs == {"reliant now", "pins now", "evaluate now", "verdict"}
IssueFields == {"pc", "req", "reliantRevision", "reliantStatus", "eval", "kept", "left", "seen"}
VerifyFields == {"pc", "receipt", "reasons", "left", "eval", "seen"}

Evaluating(k) == Shape(k.eval) /\ k.eval.status = "running" /\ IsSequence(k.seen)

Meets(q, a) ==
    /\ q.affirm => Admissible(a)
    /\ q.exact => \A pin \in a.pins : pin[2] # None

IsIssue(k) ==
    /\ DOMAIN k = IssueFields /\ k.pc \in IssuePcs
    /\ k.req \in Requests
    /\ Evaluating(k)
    /\ k.pc # "reliant" => k.req.explicit \in {None, k.reliantRevision}
    /\ k.pc \notin {"reliant", "first"} => Meets(k.req, k.kept)

IsVerify(k) ==
    /\ DOMAIN k = VerifyFields /\ k.pc \in VerifyPcs
    /\ Evaluating(k)

IsCall(k) == k = Idle \/ IsIssue(k) \/ IsVerify(k)

ReceiptsKept ==
    /\ IsSequence(receipts)
    /\ \A i \in 1..Len(receipts) :
         receipts[i].req \in Requests /\ Bindable(receipts[i], receipts[i].req)

CallsKept == DOMAIN call = Callers /\ \A c \in Callers : IsCall(call[c])

TypeInv == IsWorld(World) /\ budget \in Nat /\ ReceiptsKept /\ CallsKept

LEMMA PcsDiffer ==
    ASSUME NEW k, IsCall(k)
    PROVE  /\ k.pc \in IssuePcs => IsIssue(k)
           /\ k.pc \in VerifyPcs => IsVerify(k)
           /\ k # Idle => k.pc \in IssuePcs \cup VerifyPcs
<1>1. k = Idle => k.pc = "idle"
  BY DEF Idle
<1>2. IsIssue(k) => k.pc \in IssuePcs
  BY DEF IsIssue
<1>3. IsVerify(k) => k.pc \in VerifyPcs
  BY DEF IsVerify
<1>4. IssuePcs \cap VerifyPcs = {} /\ "idle" \notin IssuePcs /\ "idle" \notin VerifyPcs
  BY DEF IssuePcs, VerifyPcs
<1> QED BY <1>1, <1>2, <1>3, <1>4 DEF IsCall

(* A step of one caller leaves the evidence and the other callers alone.   *)
LEMMA DoIs ==
    ASSUME DOMAIN call = Callers, NEW c \in Callers, NEW next, Do(c, next)
    PROVE  /\ DOMAIN call' = Callers /\ call'[c] = next
           /\ \A d \in Callers \ {c} : call'[d] = call[d]
           /\ World' = World /\ budget' = budget
           /\ revision' = revision /\ relations' = relations
           /\ policies' = policies /\ assurances' = assurances
BY DEF Do, World

LEMMA Verifies ==
    ASSUME NEW i, NEW o
    PROVE  /\ IsVerify(Verifying(i, o))
           /\ Verifying(i, o).pc = "reliant now" /\ Verifying(i, o).receipt = i
           /\ Verifying(i, o).seen = <<World>> /\ Verifying(i, o).reasons = {}
           /\ Verifying(i, o).eval = Evaluate(o) /\ Verifying(i, o).left = {}
<1>1. IsSequence(<<World>>)
  <2>1. <<World>> \in Seq({World})
    OBVIOUS
  <2> QED BY <2>1, Zenon DEF IsSequence
<1> DEFINE k == Verifying(i, o)
<1>2. DOMAIN k = VerifyFields /\ k.pc = "reliant now" /\ k.receipt = i /\ k.seen = <<World>>
      /\ k.reasons = {} /\ k.eval = Evaluate(o) /\ k.left = {}
  BY DEF Verifying, VerifyFields
<1> HIDE DEF k
<1>3. IsVerify(k)
  BY <1>1, <1>2, Started DEF IsVerify, VerifyPcs, Evaluating
<1> QED BY <1>2, <1>3 DEF k

LEMMA Issues ==
    ASSUME NEW q \in Requests
    PROVE  /\ IsIssue(Issuing(q))
           /\ Issuing(q).pc = "reliant" /\ Issuing(q).req = q /\ Issuing(q).seen = <<World>>
           /\ Issuing(q).eval = Evaluate(q.object)
<1>1. IsSequence(<<World>>)
  <2>1. <<World>> \in Seq({World})
    OBVIOUS
  <2> QED BY <2>1, Zenon DEF IsSequence
<1> DEFINE k == Issuing(q)
<1>2. DOMAIN k = IssueFields /\ k.pc = "reliant" /\ k.req = q /\ k.seen = <<World>>
      /\ k.eval = Evaluate(q.object)
  BY DEF Issuing, IssueFields
<1> HIDE DEF k
<1>3. IsIssue(k)
  BY <1>1, <1>2, Started DEF IsIssue, IssuePcs, Evaluating
<1> QED BY <1>2, <1>3 DEF k

(* The next state of the caller, when it is all that changes.              *)
LEMMA CallsKeptBy ==
    ASSUME CallsKept, NEW c \in Callers, NEW next, Do(c, next), IsCall(next)
    PROVE  CallsKept'
BY DoIs DEF CallsKept

LEMMA ReadKeeps ==
    ASSUME NEW c, Evaluating(call[c]), MayRead(c)
    PROVE  Shape(Read(c)) /\ Read(c).status \in {"running", "raised", "done"}
<1>1. Read(c) = After(call[c].eval, Sees(World, call[c].eval))
  BY ReadNextIs DEF Read
<1>2. Shape(After(call[c].eval, Sees(World, call[c].eval)))
  BY Movement DEF Evaluating
<1> QED BY <1>1, <1>2 DEF Shape

LEMMA ChangeKeeps ==
    ASSUME CallsKept, ReceiptsKept, budget \in Nat, Change
    PROVE  CallsKept' /\ ReceiptsKept' /\ budget' \in Nat
<1>1. budget' \in Nat /\ ReceiptsKept'
  BY DEF Change, ReceiptsKept, Bindable
<1>2. DOMAIN call' = Callers
  BY DEF Change
<1>3. ASSUME NEW c \in Callers PROVE IsCall(call'[c])
  <2> DEFINE k == call[c]
             s == Append(k.seen, World')
  <2>1. IsCall(k) /\ call'[c] = IF k = Idle THEN Idle ELSE [k EXCEPT !.seen = s]
    BY DEF Change, CallsKept
  <2>2. CASE k = Idle
    BY <2>1, <2>2 DEF IsCall
  <2>3. CASE k # Idle
    <3>1. IsIssue(k) \/ IsVerify(k)
      BY <2>1, <2>3 DEF IsCall
    <3>2. IsSequence(s)
      BY <3>1, Grown DEF IsIssue, IsVerify, Evaluating
    <3>3. call'[c] = [k EXCEPT !.seen = s]
      BY <2>1, <2>3
    <3> HIDE DEF s, k
    <3>4. CASE IsIssue(k)
      <4> DEFINE n == call'[c]
      <4>1. /\ DOMAIN n = IssueFields /\ n.pc = k.pc /\ n.req = k.req /\ n.eval = k.eval
            /\ n.seen = s /\ n.reliantRevision = k.reliantRevision /\ n.kept = k.kept
        BY <3>3, <3>4 DEF IsIssue, IssueFields
      <4> HIDE DEF n
      <4>2. IsIssue(n)
        BY <3>2, <3>4, <4>1 DEF IsIssue, Evaluating
      <4> QED BY <4>2 DEF IsCall, n
    <3>5. CASE IsVerify(k)
      <4> DEFINE n == call'[c]
      <4>1. DOMAIN n = VerifyFields /\ n.pc = k.pc /\ n.eval = k.eval /\ n.seen = s
        BY <3>3, <3>5 DEF IsVerify, VerifyFields
      <4> HIDE DEF n
      <4>2. IsVerify(n)
        BY <3>2, <3>5, <4>1 DEF IsVerify, Evaluating
      <4> QED BY <4>2 DEF IsCall, n
    <3> QED BY <3>1, <3>4, <3>5
  <2> QED BY <2>2, <2>3
<1> QED BY <1>1, <1>2, <1>3 DEF CallsKept

LEMMA IdleIsCall == IsCall(Idle)
BY DEF IsCall

LEMMA IssueKeeps ==
    ASSUME CallsKept, NEW c \in Callers, NEW q \in Requests, Issue(c, q)
    PROVE  CallsKept'
<1>1. CASE WithKey(q.key) = {}
  BY <1>1, Issues, CallsKeptBy DEF Issue, IsCall
<1>2. CASE WithKey(q.key) # {}
  BY <1>2, Verifies, CallsKeptBy DEF Issue, IsCall
<1> QED BY <1>1, <1>2

LEMMA VerifyKeeps ==
    ASSUME CallsKept, NEW c \in Callers, NEW i, Verify(c, i)
    PROVE  CallsKept'
BY Verifies, CallsKeptBy DEF Verify, IsCall

LEMMA ObserveReliantKeeps ==
    ASSUME CallsKept, NEW c \in Callers, ObserveReliant(c)
    PROVE  CallsKept'
<1> DEFINE k == call[c]
           current == Head_(World, k.req.reliant)
           n == [k EXCEPT !.pc = "first",
                  !.reliantRevision = IF k.req.explicit = None THEN current ELSE k.req.explicit,
                  !.reliantStatus = ReliantStatus(k.req.explicit, current)]
<1>1. IsIssue(k) /\ Do(c, n)
  BY PcsDiffer DEF ObserveReliant, CallsKept, IssuePcs
<1>2. DOMAIN n = DOMAIN k /\ n.pc = "first" /\ n.req = k.req /\ n.eval = k.eval /\ n.seen = k.seen
      /\ n.reliantRevision = IF k.req.explicit = None THEN current ELSE k.req.explicit
  BY <1>1 DEF IsIssue, IssueFields
<1> HIDE DEF n, k
<1>3. IsIssue(n)
  BY <1>1, <1>2 DEF IsIssue, IssuePcs, Evaluating
<1> QED BY <1>1, <1>3, CallsKeptBy DEF IsCall

LEMMA RefuseKeeps ==
    ASSUME CallsKept, NEW c \in Callers, Refuse(c)
    PROVE  CallsKept'
BY IdleIsCall, CallsKeptBy DEF Refuse

LEMMA FirstObservationKeeps ==
    ASSUME CallsKept, NEW c \in Callers, FirstObservation(c)
    PROVE  CallsKept'
<1> DEFINE k == call[c]
           q == k.req
           e == Read(c)
           a == e.result
           kept == [k EXCEPT !.kept = a, !.eval = Evaluate(q.object)]
<1>1. IsIssue(k) /\ k.pc = "first" /\ MayRead(c)
  BY PcsDiffer DEF FirstObservation, CallsKept, IssuePcs
<1>2. Shape(e) /\ e.status \in {"running", "raised", "done"}
  BY <1>1, ReadKeeps DEF IsIssue
<1>3. CASE e.status = "raised"
  BY <1>3, RefuseKeeps DEF FirstObservation
<1>4. CASE e.status = "running"
  <2> DEFINE n == [k EXCEPT !.eval = e]
  <2>1. Do(c, n)
    BY <1>4 DEF FirstObservation
  <2> HIDE DEF e
  <2>2. DOMAIN n = DOMAIN k /\ n.pc = k.pc /\ n.req = k.req /\ n.eval = e /\ n.seen = k.seen
        /\ n.reliantRevision = k.reliantRevision
    BY <1>1 DEF IsIssue, IssueFields
  <2> HIDE DEF n, k
  <2>3. IsIssue(n)
    BY <1>1, <1>2, <1>4, <2>2 DEF IsIssue, IssuePcs, Evaluating
  <2> QED BY <2>1, <2>3, CallsKeptBy DEF IsCall
<1>5. CASE e.status = "done"
  <2>1. IF (q.affirm /\ ~Admissible(a)) \/ ~Consistent(a) THEN Refuse(c)
        ELSE IF ~q.exact THEN Do(c, [kept EXCEPT !.pc = "insert"])
        ELSE IF \E pin \in a.pins : pin[2] = None THEN Refuse(c)
        ELSE Do(c, [kept EXCEPT !.pc = "pins", !.left = Pinned(a)])
    BY <1>5 DEF FirstObservation
  <2>2. CASE Refuse(c)
    BY <2>2, RefuseKeeps
  <2> DEFINE n1 == [kept EXCEPT !.pc = "insert"]
             n2 == [kept EXCEPT !.pc = "pins", !.left = Pinned(a)]
  <2>3. \A n \in {n1, n2} :
          /\ DOMAIN n = DOMAIN k /\ n.pc \in {"insert", "pins"} /\ n.req = q
          /\ n.eval = Evaluate(q.object) /\ n.seen = k.seen
          /\ n.reliantRevision = k.reliantRevision /\ n.kept = a
    <3> HIDE DEF e
    <3> QED BY <1>1 DEF IsIssue, IssueFields
  <2>4. ASSUME Meets(q, a), NEW n \in {n1, n2} PROVE IsCall(n)
    <3> DEFINE m == n
    <3>1. /\ DOMAIN m = DOMAIN k /\ m.pc \in {"insert", "pins"} /\ m.req = q
          /\ m.eval = Evaluate(q.object) /\ m.seen = k.seen
          /\ m.reliantRevision = k.reliantRevision /\ m.kept = a
      BY <2>3
    <3> HIDE DEF m, k, e
    <3>3. Evaluating(m)
      BY <1>1, <3>1, Started DEF IsIssue, Evaluating
    <3>4. m.req.explicit \in {None, m.reliantRevision} /\ Meets(m.req, m.kept) /\ m.req \in Requests
      BY <1>1, <2>4, <3>1 DEF IsIssue
    <3>2. IsIssue(m)
      BY <1>1, <3>1, <3>3, <3>4 DEF IsIssue, IssuePcs
    <3> QED BY <3>2 DEF IsCall, m
  <2>5. CASE ~Refuse(c)
    <3>1. Meets(q, a) /\ (Do(c, n1) \/ Do(c, n2))
      <4> HIDE DEF a, n1, n2, q
      <4> QED BY <2>1, <2>5 DEF Meets, n1, n2
    <3> HIDE DEF n1, n2
    <3> QED BY <2>4, <3>1, CallsKeptBy
  <2> QED BY <2>2, <2>5
<1> QED BY <1>2, <1>3, <1>4, <1>5

LEMMA IssueMoves ==
    ASSUME NEW k, IsIssue(k), k.pc \notin {"reliant", "first"}, NEW n, DOMAIN n = DOMAIN k,
           n.req = k.req, n.reliantRevision = k.reliantRevision, n.kept = k.kept, n.seen = k.seen,
           n.pc \in IssuePcs \ {"reliant", "first"}, Shape(n.eval), n.eval.status = "running"
    PROVE  IsCall(n)
<1>1. Evaluating(n)
  BY DEF IsIssue, Evaluating
<1>2. IsIssue(n)
  BY <1>1 DEF IsIssue
<1> QED BY <1>2 DEF IsCall

LEMMA VerifyMoves ==
    ASSUME NEW k, IsVerify(k), NEW n, DOMAIN n = DOMAIN k, n.seen = k.seen,
           n.pc \in VerifyPcs, Shape(n.eval), n.eval.status = "running"
    PROVE  IsCall(n)
<1>1. Evaluating(n)
  BY DEF IsVerify, Evaluating
<1>2. IsVerify(n)
  BY <1>1 DEF IsVerify
<1> QED BY <1>2 DEF IsCall

LEMMA CheckPinKeeps ==
    ASSUME CallsKept, NEW c \in Callers, CheckPin(c)
    PROVE  CallsKept'
<1> DEFINE k == call[c]
           rest == k.left \ {NextPin(c)}
           pc == IF rest # {} THEN k.pc ELSE IF k.pc = "pins" THEN "second" ELSE "reliant again"
           n == [k EXCEPT !.left = rest, !.pc = pc]
<1>1. IsIssue(k) /\ k.pc \in {"pins", "pins again"}
  BY PcsDiffer DEF CheckPin, CallsKept, IssuePcs
<1>2. Refuse(c) \/ Do(c, [k EXCEPT !.left = rest, !.pc = IF rest # {} THEN @
                             ELSE IF @ = "pins" THEN "second" ELSE "reliant again"])
  BY DEF CheckPin
<1>3. [k EXCEPT !.left = rest, !.pc = IF rest # {} THEN @
                             ELSE IF @ = "pins" THEN "second" ELSE "reliant again"] = n
  BY <1>1 DEF IsIssue, IssueFields
<1> HIDE DEF rest
<1>4. /\ DOMAIN n = DOMAIN k /\ n.req = k.req /\ n.reliantRevision = k.reliantRevision
      /\ n.kept = k.kept /\ n.seen = k.seen /\ n.eval = k.eval /\ n.pc = pc
  BY <1>1 DEF IsIssue, IssueFields
<1>5. pc \in IssuePcs \ {"reliant", "first"}
  BY <1>1 DEF IssuePcs
<1> HIDE DEF n, k, pc
<1>6. IsCall(n)
  BY <1>1, <1>4, <1>5, IssueMoves DEF IsIssue, Evaluating
<1> QED BY <1>2, <1>3, <1>6, RefuseKeeps, CallsKeptBy

LEMMA SecondObservationKeeps ==
    ASSUME CallsKept, NEW c \in Callers, SecondObservation(c)
    PROVE  CallsKept'
<1> DEFINE k == call[c]
           e == Read(c)
           n1 == [k EXCEPT !.eval = e]
           n2 == [k EXCEPT !.pc = "pins again", !.left = Pinned(k.kept), !.eval = Evaluate(k.req.object)]
<1>1. IsIssue(k) /\ k.pc = "second" /\ MayRead(c)
  BY PcsDiffer DEF SecondObservation, CallsKept, IssuePcs
<1>2. Shape(e) /\ e.status \in {"running", "raised", "done"}
  BY <1>1, ReadKeeps DEF IsIssue
<1>3. CASE e.status = "raised"
  BY <1>3, RefuseKeeps DEF SecondObservation
<1>4. CASE e.status = "running"
  <2>1. Do(c, n1)
    BY <1>4 DEF SecondObservation
  <2> HIDE DEF e
  <2>2. /\ DOMAIN n1 = DOMAIN k /\ n1.req = k.req /\ n1.reliantRevision = k.reliantRevision
        /\ n1.kept = k.kept /\ n1.seen = k.seen /\ n1.eval = e /\ n1.pc = k.pc
    BY <1>1 DEF IsIssue, IssueFields
  <2> HIDE DEF n1, k
  <2>3. IsCall(n1)
    BY <1>1, <1>2, <1>4, <2>2, IssueMoves DEF IssuePcs
  <2> QED BY <2>1, <2>3, CallsKeptBy
<1>5. CASE e.status = "done"
  <2>1. Refuse(c) \/ Do(c, n2)
    BY <1>5 DEF SecondObservation
  <2>2. /\ DOMAIN n2 = DOMAIN k /\ n2.req = k.req /\ n2.reliantRevision = k.reliantRevision
        /\ n2.kept = k.kept /\ n2.seen = k.seen /\ n2.eval = Evaluate(k.req.object)
        /\ n2.pc = "pins again"
    BY <1>1 DEF IsIssue, IssueFields
  <2> HIDE DEF n2, k
  <2>3. IsCall(n2)
    BY <1>1, <2>2, Started, IssueMoves DEF IssuePcs
  <2> QED BY <2>1, <2>3, CallsKeptBy, RefuseKeeps
<1> QED BY <1>2, <1>3, <1>4, <1>5

LEMMA CheckReliantKeeps ==
    ASSUME CallsKept, NEW c \in Callers, CheckReliant(c)
    PROVE  CallsKept'
<1> DEFINE k == call[c]
           n == [k EXCEPT !.pc = "insert"]
<1>1. IsIssue(k) /\ k.pc = "reliant again"
  BY PcsDiffer DEF CheckReliant, CallsKept, IssuePcs
<1>2. Refuse(c) \/ Do(c, n)
  BY DEF CheckReliant
<1>3. /\ DOMAIN n = DOMAIN k /\ n.req = k.req /\ n.reliantRevision = k.reliantRevision
      /\ n.kept = k.kept /\ n.seen = k.seen /\ n.eval = k.eval /\ n.pc = "insert"
  BY <1>1 DEF IsIssue, IssueFields
<1> HIDE DEF n, k
<1>4. IsCall(n)
  BY <1>1, <1>3, IssueMoves DEF IsIssue, IssuePcs, Evaluating
<1> QED BY <1>2, <1>4, CallsKeptBy, RefuseKeeps

LEMMA CheckReliantNowKeeps ==
    ASSUME CallsKept, NEW c \in Callers, CheckReliantNow(c)
    PROVE  CallsKept'
<1> DEFINE k == call[c]
           r == receipts[k.receipt]
           n == [k EXCEPT !.pc = "pins now", !.left = Pinned(r.assessment),
                  !.reasons = ReliantReasons(r, Head_(World, r.req.reliant))]
<1>1. IsVerify(k) /\ Do(c, n)
  BY PcsDiffer DEF CheckReliantNow, CallsKept, VerifyPcs
<1>2. DOMAIN n = DOMAIN k /\ n.seen = k.seen /\ n.eval = k.eval /\ n.pc = "pins now"
  BY <1>1 DEF IsVerify, VerifyFields
<1> HIDE DEF n, k
<1>3. IsCall(n)
  BY <1>1, <1>2, VerifyMoves DEF IsVerify, VerifyPcs, Evaluating
<1> QED BY <1>1, <1>3, CallsKeptBy

LEMMA CheckPinNowKeeps ==
    ASSUME CallsKept, NEW c \in Callers, CheckPinNow(c)
    PROVE  CallsKept'
<1> DEFINE k == call[c]
           o == NextPin(c)
           now == Head_(World, o)
           rest == k.left \ {o}
           why == IF now = None THEN {"basis_revision_not_assessable"}
                  ELSE IF <<o, now>> \in receipts[k.receipt].assessment.pins THEN {}
                  ELSE {"object_revision_changed"}
           n == [k EXCEPT !.left = rest, !.reasons = @ \cup why,
                          !.pc = IF rest = {} THEN "evaluate now" ELSE @]
<1>1. IsVerify(k) /\ Do(c, n) /\ k.pc = "pins now"
  BY PcsDiffer DEF CheckPinNow, CallsKept, VerifyPcs
<1> HIDE DEF rest, why, now, o
<1>2. DOMAIN n = DOMAIN k /\ n.seen = k.seen /\ n.eval = k.eval /\ n.pc \in {"evaluate now", k.pc}
  BY <1>1 DEF IsVerify, VerifyFields
<1> HIDE DEF n, k
<1>3. IsCall(n)
  BY <1>1, <1>2, VerifyMoves DEF IsVerify, VerifyPcs, Evaluating
<1> QED BY <1>1, <1>3, CallsKeptBy

LEMMA EvaluateNowKeeps ==
    ASSUME CallsKept, NEW c \in Callers, EvaluateNow(c)
    PROVE  CallsKept'
<1> DEFINE k == call[c]
           e == Read(c)
           was == receipts[k.receipt].assessment
           n == [k EXCEPT !.eval = e]
           verdict(why) == [k EXCEPT !.pc = "verdict", !.reasons = @ \cup why, !.eval = Evaluate(was.object)]
<1>1. IsVerify(k) /\ k.pc = "evaluate now" /\ MayRead(c)
  BY PcsDiffer DEF EvaluateNow, CallsKept, VerifyPcs
<1>2. Shape(e) /\ e.status \in {"running", "raised", "done"}
  BY <1>1, ReadKeeps DEF IsVerify
<1>3. ASSUME NEW why PROVE IsCall(verdict(why))
  <2> DEFINE m == verdict(why)
  <2>1. DOMAIN m = DOMAIN k /\ m.seen = k.seen /\ m.eval = Evaluate(was.object) /\ m.pc = "verdict"
    BY <1>1 DEF IsVerify, VerifyFields
  <2> HIDE DEF m, k
  <2>2. IsCall(m)
    BY <1>1, <2>1, VerifyMoves, Started DEF VerifyPcs
  <2> QED BY <2>2 DEF m, k
<1>4. CASE e.status = "raised"
  <2>1. Do(c, verdict({"current_evidence_not_assessable"}))
    BY <1>4 DEF EvaluateNow
  <2> QED BY <1>3, <2>1, CallsKeptBy
<1>5. CASE e.status = "done"
  <2>1. Do(c, verdict(Reasons(was, e.result)))
    BY <1>5 DEF EvaluateNow
  <2> HIDE DEF verdict
  <2> QED BY <1>3, <2>1, CallsKeptBy
<1>6. CASE e.status = "running"
  <2>1. Do(c, n)
    BY <1>6 DEF EvaluateNow
  <2> HIDE DEF e
  <2>2. DOMAIN n = DOMAIN k /\ n.seen = k.seen /\ n.eval = e /\ n.pc = k.pc
    BY <1>1 DEF IsVerify, VerifyFields
  <2> HIDE DEF n, k
  <2>3. IsCall(n)
    BY <1>1, <1>2, <1>6, <2>2, VerifyMoves DEF VerifyPcs
  <2> QED BY <2>1, <2>3, CallsKeptBy
<1> QED BY <1>2, <1>4, <1>5, <1>6

LEMMA InsertKeeps ==
    ASSUME CallsKept, ReceiptsKept, NEW c \in Callers, Insert(c)
    PROVE  CallsKept' /\ ReceiptsKept'
<1> DEFINE k == call[c]
           receipt == [req |-> k.req, reliantRevision |-> k.reliantRevision,
                       reliantStatus |-> k.reliantStatus, assessment |-> k.kept]
           taken == WithKey(k.req.key)
<1>1. IsIssue(k) /\ k.pc = "insert"
  BY PcsDiffer DEF Insert, CallsKept, IssuePcs
<1>2. \/ receipts' = Append(receipts, receipt) /\ Do(c, Verifying(Len(receipts) + 1, k.req.object))
      \/ UNCHANGED receipts /\ \E i \in taken : Do(c, Verifying(i, k.req.object))
      \/ Refuse(c)
  BY DEF Insert
<1>3. CASE Refuse(c)
  BY <1>3, RefuseKeeps DEF Refuse, ReceiptsKept, Bindable
<1>4. CASE UNCHANGED receipts /\ \E i \in taken : Do(c, Verifying(i, k.req.object))
  <2>1. ReceiptsKept'
    BY <1>4 DEF ReceiptsKept, Bindable
  <2> QED BY <1>4, <2>1, Verifies, CallsKeptBy DEF IsCall
<1>5. CASE receipts' = Append(receipts, receipt) /\ Do(c, Verifying(Len(receipts) + 1, k.req.object))
  <2>1. CallsKept'
    BY <1>5, Verifies, CallsKeptBy DEF IsCall
  <2>2. Bindable(receipt, receipt.req) /\ receipt.req \in Requests
    BY <1>1 DEF IsIssue, Bindable, Meets
  <2> HIDE DEF receipt
  <2>3. /\ IsSequence(receipts') /\ Len(receipts) \in Nat /\ Len(receipts') = Len(receipts) + 1
        /\ \A i \in 1..Len(receipts) : receipts'[i] = receipts[i]
        /\ receipts'[Len(receipts) + 1] = receipt
    BY <1>5, Grown DEF ReceiptsKept
  <2>4. \A i \in 1..Len(receipts') : receipts'[i].req \in Requests /\ Bindable(receipts'[i], receipts'[i].req)
    <3> TAKE i \in 1..Len(receipts')
    <3>1. i \in 1..Len(receipts) \/ i = Len(receipts) + 1
      BY <2>3
    <3>2. CASE i \in 1..Len(receipts)
      BY <2>3, <3>2 DEF ReceiptsKept
    <3>3. CASE i = Len(receipts) + 1
      BY <2>2, <2>3, <3>3
    <3> QED BY <3>1, <3>2, <3>3
  <2>5. ReceiptsKept'
    BY <2>3, <2>4 DEF ReceiptsKept, Bindable
  <2> QED BY <2>1, <2>5
<1> QED BY <1>2, <1>3, <1>4, <1>5

LEMMA CallersAct ==
    ASSUME CallsKept, NEW c \in Callers, Steps(c)
    PROVE  \E next : Do(c, next)
<1>1. ASSUME NEW q \in Requests, Issue(c, q) PROVE \E next : Do(c, next)
  BY <1>1 DEF Issue
<1>2. ASSUME NEW i, Verify(c, i) PROVE \E next : Do(c, next)
  BY <1>2 DEF Verify
<1>3. CASE ObserveReliant(c) \/ CheckPin(c) \/ CheckReliant(c) \/ CheckReliantNow(c) \/ CheckPinNow(c) \/ Return(c)
  BY <1>3 DEF ObserveReliant, CheckPin, CheckReliant, CheckReliantNow, CheckPinNow, Return, Refuse
<1>4. CASE Insert(c)
  BY <1>4 DEF Insert, Refuse
<1>5. CASE EvaluateNow(c)
  BY <1>5 DEF EvaluateNow
<1>6. CASE FirstObservation(c)
  <2>1. IsIssue(call[c]) /\ MayRead(c)
    BY <1>6, PcsDiffer DEF FirstObservation, CallsKept, IssuePcs
  <2>2. Read(c).status \in {"running", "raised", "done"}
    BY <2>1, ReadKeeps DEF IsIssue
  <2>3. CASE Read(c).status = "raised"
    BY <1>6, <2>3 DEF FirstObservation, Refuse
  <2>4. CASE Read(c).status = "running"
    BY <1>6, <2>4 DEF FirstObservation
  <2>5. CASE Read(c).status = "done"
    BY <1>6, <2>5 DEF FirstObservation, Refuse
  <2> QED BY <2>2, <2>3, <2>4, <2>5
<1>7. CASE SecondObservation(c)
  <2>1. IsIssue(call[c]) /\ MayRead(c)
    BY <1>7, PcsDiffer DEF SecondObservation, CallsKept, IssuePcs
  <2>2. Read(c).status \in {"running", "raised", "done"}
    BY <2>1, ReadKeeps DEF IsIssue
  <2>3. CASE Read(c).status = "raised"
    BY <1>7, <2>3 DEF SecondObservation, Refuse
  <2>4. CASE Read(c).status = "running"
    BY <1>7, <2>4 DEF SecondObservation
  <2>5. CASE Read(c).status = "done"
    BY <1>7, <2>5 DEF SecondObservation, Refuse
  <2> QED BY <2>2, <2>3, <2>4, <2>5
<1> QED BY <1>1, <1>2, <1>3, <1>4, <1>5, <1>6, <1>7 DEF Steps

LEMMA ReceiptsStay ==
    ASSUME CallsKept, NEW c \in Callers, Steps(c), ~Insert(c)
    PROVE  receipts' = receipts
BY DEF Steps, Issue, Verify, ObserveReliant, FirstObservation, CheckPin, SecondObservation,
       CheckReliant, CheckReliantNow, CheckPinNow, EvaluateNow, Return, Refuse

LEMMA StepsKeep ==
    ASSUME TypeInv, NEW c \in Callers, Steps(c)
    PROVE  TypeInv'
<1>1. World' = World /\ budget' = budget
  <2>1. PICK next : Do(c, next)
    BY CallersAct DEF TypeInv
  <2> QED BY <2>1, DoIs DEF TypeInv, CallsKept
<1>2. IsWorld(World)' /\ budget' \in Nat
  BY <1>1 DEF TypeInv, IsWorld
<1>3. CASE Insert(c)
  BY <1>2, <1>3, InsertKeeps DEF TypeInv
<1>4. CASE ~Insert(c)
  <2>1. ReceiptsKept'
    BY <1>4, ReceiptsStay DEF TypeInv, ReceiptsKept, Bindable
  <2>2. CallsKept'
    BY <1>4, IssueKeeps, VerifyKeeps, ObserveReliantKeeps, FirstObservationKeeps, CheckPinKeeps,
       SecondObservationKeeps, CheckReliantKeeps, CheckReliantNowKeeps, CheckPinNowKeeps,
       EvaluateNowKeeps, RefuseKeeps DEF TypeInv, Steps, Return
  <2> QED BY <1>2, <2>1, <2>2 DEF TypeInv
<1> QED BY <1>3, <1>4

LEMMA ChangesChange ==
    ASSUME EvidenceChanges
    PROVE  Change
BY DEF EvidenceChanges, Revise, CreateRelation, Register, Assure

LEMMA TypeInvInitial ==
    ASSUME Init
    PROVE  TypeInv
<1>1. PICK s \in Starts :
        /\ revision = s.revision /\ relations = s.relations
        /\ policies = s.policies /\ assurances = s.assurances /\ budget = s.budget
  BY DEF Init
<1>2. IsWorld(s) /\ s.budget \in Nat
  BY ConstantsFit DEF ConstantsFit
<1>3. IsWorld(World) /\ budget \in Nat
  BY <1>1, <1>2 DEF IsWorld, World
<1>4. ReceiptsKept
  <2>1. <<>> \in Seq({}) /\ Len(<<>>) = 0
    OBVIOUS
  <2> QED BY <2>1 DEF Init, ReceiptsKept, IsSequence
<1>5. CallsKept
  BY IdleIsCall DEF Init, CallsKept
<1> QED BY <1>3, <1>4, <1>5 DEF TypeInv

LEMMA TypeInvStep ==
    ASSUME TypeInv, [Next]_vars
    PROVE  TypeInv'
<1>1. CASE UNCHANGED vars
  BY <1>1 DEF vars, TypeInv, World, ReceiptsKept, Bindable, CallsKept, IsWorld
<1>2. CASE EvidenceChanges
  BY <1>2, WorldKept, ChangesChange, ChangeKeeps DEF TypeInv
<1>3. CASE \E c \in Callers : Steps(c)
  BY <1>3, StepsKeep
<1> QED BY <1>1, <1>2, <1>3 DEF Next

LEMMA Typed == Spec => []TypeInv
<1>1. Init => TypeInv
  BY TypeInvInitial
<1>2. TypeInv /\ [Next]_vars => TypeInv'
  BY TypeInvStep
<1> QED BY <1>1, <1>2, PTL DEF Spec

(* Whatever the callers and the changes to the evidence do, the evidence    *)
(* stays a world that there can be, with policy versions that count from 1  *)
(* and never repeat themselves (PolicyStore.register), and every receipt    *)
(* meets what its own request demanded (RelianceStore.issue).               *)
THEOREM TypeCorrect == Spec => []TypeOK
<1>1. TypeInv => TypeOK
  <2>1. IsSequence(receipts) => DOMAIN receipts = 1..Len(receipts)
    BY DEF IsSequence
  <2> QED BY <2>1 DEF TypeInv, TypeOK, ReceiptsKept
<1> QED BY <1>1, Typed, PTL

-----------------------------------------------------------------------------
(* The blast radius of a revision                                           *)

LEMMA RevisedCells ==
    ASSUME IsWorld(World), NEW o \in Objects, Revise(o)
    PROVE  SameBut(World, World', o)
<1>1. /\ \A q \in Objects : revision'[q] = IF q = o THEN revision[q] + 1 ELSE revision[q]
      /\ relations' = relations /\ policies' = policies /\ assurances' = assurances
  BY RevisedWorld DEF Revise
<1>2. /\ World.revision = revision /\ World.relations = relations
      /\ World.policies = policies /\ World.assurances = assurances
      /\ World'.revision = revision' /\ World'.relations = relations
      /\ World'.policies = policies /\ World'.assurances = assurances
  BY <1>1 DEF World
<1>3. ASSUME NEW q \in Objects \ {o}
      PROVE  /\ World.revision[q] = World'.revision[q]
             /\ PolicyOf(World, KindOf[q]) = PolicyOf(World', KindOf[q])
             /\ AssuranceOf(World, q) = AssuranceOf(World', q)
             /\ RelationsOf(World, q, "to") = RelationsOf(World', q, "to")
             /\ RelationsOf(World, q, "from") = RelationsOf(World', q, "from")
             /\ Head_(World, q) = Head_(World', q)
  <2>1. World.revision[q] = World'.revision[q]
    BY <1>1, <1>2
  <2> QED BY <1>2, <2>1 DEF PolicyOf, AssuranceOf, RelationsOf, Head_
<1>4. ASSUME NEW q \in Objects \ {o}, NEW what \in Readable
      PROVE  Cell(World, q, what) = Cell(World', q, what)
  BY <1>3 DEF Cell, Readable
<1> QED BY <1>4 DEF SameBut

(* A new revision of an object that changes the assessment on which a       *)
(* receipt rests finds the receipt in its blast radius                      *)
(* (RelianceStore.blast_radius): nothing that an evaluation reads of an     *)
(* object escapes the revisions that its result pins.                       *)
THEOREM RevisionsReachReceipts == Spec => RevisionReachesReceipts
<1> DEFINE Reaches(o, i) ==
             /\ revision'[o] # revision[o]
             /\ Gives(World, receipts[i].req.object, receipts[i].assessment)
             /\ ~Gives(World', receipts[i].req.object, receipts[i].assessment)
             => i \in BlastRadius({o})
<1>1. ASSUME TypeInv, [Next]_vars, NEW o \in Objects, NEW i \in DOMAIN receipts
      PROVE  Reaches(o, i)
  <2> DEFINE r == receipts[i]
  <2> SUFFICES ASSUME revision'[o] # revision[o], Gives(World, r.req.object, r.assessment),
                      ~Gives(World', r.req.object, r.assessment)
               PROVE  i \in BlastRadius({o})
    OBVIOUS
  <2>1. Revise(o)
    <3>1. ASSUME NEW c \in Callers, Steps(c) PROVE FALSE
      <4>1. PICK next : Do(c, next)
        BY <1>1, <3>1, CallersAct DEF TypeInv
      <4> QED BY <4>1 DEF Do
    <3>2. EvidenceChanges
      BY <1>1, <3>1 DEF Next, vars
    <3>3. PICK p \in Revisable : Revise(p)
      BY <3>2 DEF EvidenceChanges, CreateRelation, Register, Assure
    <3>4. p \in Objects
      BY ConstantsFit DEF ConstantsFit
    <3>5. p = o
      BY <1>1, <3>3, <3>4, RevisedWorld DEF TypeInv
    <3> QED BY <3>3, <3>5
  <2>2. SameBut(World, World', o) /\ IsWorld(World)
    BY <1>1, <2>1, RevisedCells DEF TypeInv
  <2>3. r.req.object \in Objects
    <3>1. i \in 1..Len(receipts)
      BY <1>1 DEF TypeInv, ReceiptsKept, IsSequence
    <3> QED BY <1>1, <3>1, ConstantsFit DEF TypeInv, ReceiptsKept, ConstantsFit
  <2>4. o \in Pinned(r.assessment)
    BY <2>2, <2>3, SameAnswer
  <2> QED BY <2>4 DEF BlastRadius
<1> HIDE DEF Reaches
<1>2. TypeInv /\ [Next]_vars => \A o \in Objects, i \in DOMAIN receipts : Reaches(o, i)
  BY <1>1
<1> QED BY <1>2, Typed, PTL DEF Spec, RevisionReachesReceipts, Reaches

-----------------------------------------------------------------------------
(* The relations of an object, when none is beyond the limit of the read    *)

Ids(w, o, end) == {i \in DOMAIN w.relations : w.relations[i][end] = o}

Fits(w) == \A o \in Objects, end \in {"from", "to"} : Cardinality(Ids(w, o, end)) <= RelationLimit

RelationAt(w, i) == [id |-> i, type |-> w.relations[i].type, from |-> w.relations[i].from,
                     to |-> w.relations[i].to]

LEMMA AllRelations ==
    ASSUME NEW w, IsWorld(w), Fits(w), NEW o \in Objects, NEW end \in {"from", "to"}
    PROVE  RelationsOf(w, o, end) = {RelationAt(w, i) : i \in Ids(w, o, end)}
<1> DEFINE ids == Ids(w, o, end)
           newest == {i \in ids : Cardinality({j \in ids : j > i}) < RelationLimit}
<1>1. RelationsOf(w, o, end) = {RelationAt(w, i) : i \in newest}
  BY DEF RelationsOf, RelationAt, Ids
<1>2. w.relations \in Seq(Relations)
  BY DEF IsWorld
<1>3. DOMAIN w.relations = 1..Len(w.relations) /\ Len(w.relations) \in Nat
  BY <1>2
<1>4. IsFiniteSet(1..Len(w.relations))
  BY <1>3, FS_Interval
<1>5. ids \subseteq 1..Len(w.relations)
  BY <1>3 DEF Ids
<1>6. IsFiniteSet(ids)
  BY <1>4, <1>5, FS_Subset
<1>7. Cardinality(ids) <= RelationLimit /\ RelationLimit \in Nat
  BY ConstantsFit DEF Fits, ConstantsFit
<1> HIDE DEF ids
<1>8. ASSUME NEW i \in ids PROVE Cardinality({j \in ids : j > i}) < RelationLimit
  <2> DEFINE later == {j \in ids : j > i}
  <2>1. later \subseteq ids /\ i \notin later
    BY <1>3, <1>5
  <2>2. later # ids
    BY <2>1
  <2> HIDE DEF later
  <2>3. /\ IsFiniteSet(later) /\ Cardinality(later) <= Cardinality(ids)
        /\ Cardinality(later) # Cardinality(ids)
    BY <1>6, <2>1, <2>2, FS_Subset
  <2>4. Cardinality(later) \in Nat /\ Cardinality(ids) \in Nat
    BY <1>6, <2>3, FS_CardinalityType
  <2>5. Cardinality(later) < RelationLimit
    BY <1>7, <2>3, <2>4
  <2> QED BY <2>5 DEF later
<1>9. newest = ids
  BY <1>8
<1> QED BY <1>1, <1>9 DEF ids

-----------------------------------------------------------------------------
(* What is grounded: the least set that holds every object it supports.    *)

LEMMA SupportGrows ==
    ASSUME NEW w, NEW o, NEW S, NEW T, S \subseteq T, Supported(w, o, S)
    PROVE  Supported(w, o, T)
BY DEF Supported

LEMMA GroundedIsClosed ==
    ASSUME NEW w, NEW o \in Objects, Supported(w, o, Grounded(w))
    PROVE  o \in Grounded(w)
<1>1. ASSUME NEW S \in SUBSET Objects, \A q \in Objects : Supported(w, q, S) => q \in S
      PROVE  o \in S
  <2>1. Grounded(w) \subseteq S
    BY <1>1 DEF Grounded
  <2>2. Supported(w, o, S)
    BY <2>1, SupportGrows
  <2> QED BY <1>1, <2>2
<1> QED BY <1>1 DEF Grounded

LEMMA GroundedIsLeast ==
    ASSUME NEW w, NEW S, S \subseteq Objects, \A q \in Objects : Supported(w, q, S) => q \in S
    PROVE  Grounded(w) \subseteq S
BY DEF Grounded

LEMMA GroundedIsSupported ==
    ASSUME NEW w, NEW o \in Grounded(w)
    PROVE  Supported(w, o, Grounded(w)) /\ o \in Objects
<1> DEFINE S == {q \in Objects : Supported(w, q, Grounded(w))}
<1>1. S \subseteq Grounded(w)
  BY GroundedIsClosed
<1>2. \A q \in Objects : Supported(w, q, S) => q \in S
  BY <1>1, SupportGrows
<1> HIDE DEF S
<1>3. Grounded(w) \subseteq S
  <2>1. S \subseteq Objects
    BY DEF S
  <2> QED BY <1>2, <2>1, GroundedIsLeast
<1> QED BY <1>3 DEF S

-----------------------------------------------------------------------------
(* Classification                                                           *)

LEMMA SupportedIsUnblocked ==
    ASSUME NEW types
    PROVE  Classify(types) = "SUPPORTED" <=> types = {}
BY DEF Classify

LEMMA ResultFacts ==
    ASSUME NEW v, NEW rev, NEW a, a = ResultOf(v, rev)
    PROVE  /\ a.object = v.object
           /\ Admissible(a) <=> v.blockers = {}
           /\ a.status = "unruled" => \E b \in v.blockers : b.type = "missing_policy"
           /\ (\E b \in v.blockers : b.type = "missing_policy") => a.status = "unruled"
           /\ a.causes = {b \in v.blockers : b.type \notin DependencyTypes}
                         \cup UNION {k.causes : k \in Blamed(v.deps, v.blockers)}
<1>1. /\ a.object = v.object /\ a.state = Classify({b.type : b \in v.blockers})
      /\ a.status = CASE a.state = "SUPPORTED" -> "admissible"
                      [] \E b \in v.blockers : b.type = "missing_policy" -> "unruled"
                      [] OTHER -> "blocked"
      /\ a.causes = {b \in v.blockers : b.type \notin DependencyTypes}
                    \cup UNION {k.causes : k \in Blamed(v.deps, v.blockers)}
  BY DEF ResultOf, Result
<1>2. Admissible(a) <=> v.blockers = {}
  BY <1>1, SupportedIsUnblocked DEF Admissible
<1>3. a.status = "unruled" => \E b \in v.blockers : b.type = "missing_policy"
  BY <1>1
<1>4. (\E b \in v.blockers : b.type = "missing_policy") => a.status = "unruled"
  BY <1>1, <1>2 DEF Admissible
<1> QED BY <1>1, <1>2, <1>3, <1>4

LEMMA BlamedCauses ==
    ASSUME NEW v, IsVisit(v), NEW b \in v.blockers, b.type \in DependencyTypes,
           NEW j \in 1..Len(v.deps), v.deps[j].relation.id = b.by,
           v.deps[j].state.object = v.deps[j].relation.to,
           NEW rev
    PROVE  v.deps[j].state.causes \subseteq ResultOf(v, rev).causes
<1>1. DOMAIN v.deps = 1..Len(v.deps)
  BY DEF IsVisit, IsSequence
<1>2. v.deps[j].state \in Blamed(v.deps, v.blockers)
  BY <1>1 DEF Blamed, States
<1> QED BY <1>2, ResultFacts

-----------------------------------------------------------------------------
(* What a visit knows of a world that does not change: of its own object    *)
(* (Knows), and of the dependencies that have answered (Owns).              *)

Policyless(w, o) == PolicyOf(w, KindOf[o]) = None

Assured(w, o) ==
    LET def == PolicyOf(w, KindOf[o]).def
        a == AssuranceOf(w, o)
    IN  def.required => a # None /\ a.status = "passed" /\ ~a.stale /\ (def.scoped => a.scope)

Unblocked(w, o) ==
    \A i \in DOMAIN w.relations :
      ~(w.relations[i].to = o /\ w.relations[i].type \in PolicyOf(w, KindOf[o]).def.blocks)

LEMMA SoundParts ==
    ASSUME NEW w, NEW o
    PROVE  Sound(w, o) <=> ~Policyless(w, o) /\ Assured(w, o) /\ Unblocked(w, o)
BY DEF Sound, Policyless, Assured, Unblocked

Ruled(w, v) == ~Policyless(w, v.object) /\ v.policy = PolicyOf(w, KindOf[v.object])

Followed(w, v) ==
    \A r \in RelationsOf(w, v.object, "from") : r.type \in v.policy.def.depends =>
      \/ r \in v.todo
      \/ \E j \in 1..Len(v.deps) :
           v.deps[j].relation = r /\ Accepted(v.policy.def, v.deps[j].state)

Complete(w, v) ==
    v.blockers = {} => Assured(w, v.object) /\ Unblocked(w, v.object) /\ Followed(w, v)

Knows(w, v) ==
    /\ v.next \in {"assurance", "incoming", "outgoing", "dependency"} => Ruled(w, v)
    /\ v.next = "revision" => v.blockers # {} \/ Ruled(w, v)
    /\ v.next = "incoming" => v.blockers # {} \/ Assured(w, v.object)
    /\ v.next = "outgoing" => v.blockers # {} \/ (Assured(w, v.object) /\ Unblocked(w, v.object))
    /\ v.next \in {"dependency", "revision"} => Complete(w, v)

(* A result is right if it pins the heads, what it admits is grounded, what *)
(* it calls unruled has no policy, and what it refuses has a cause.         *)
Right(w, a) ==
    /\ \A pin \in a.pins : pin[2] = Head_(w, pin[1])
    /\ Admissible(a) => a.object \in Grounded(w)
    /\ a.status = "unruled" => Policyless(w, a.object)
    /\ ~Admissible(a) => a.causes # {}

Owns(w, v) ==
    /\ \A b \in v.blockers :
         /\ b.type = "missing_policy" => Policyless(w, v.object)
         /\ b.type \in DependencyTypes =>
              \E j \in 1..Len(v.deps) :
                v.deps[j].relation.id = b.by /\ ~Admissible(v.deps[j].state)
    /\ \A j \in 1..Len(v.deps) :
         v.deps[j].state.object = v.deps[j].relation.to /\ Right(w, v.deps[j].state)

Fine(w, v) == Knows(w, v) /\ Owns(w, v)

LEMMA CellIs ==
    ASSUME NEW w, NEW o
    PROVE  /\ Cell(w, o, "object") = (w.revision[o] > 0)
           /\ Cell(w, o, "policy") = PolicyOf(w, KindOf[o])
           /\ Cell(w, o, "assurance") = AssuranceOf(w, o)
           /\ Cell(w, o, "incoming") = RelationsOf(w, o, "to")
           /\ Cell(w, o, "outgoing") = RelationsOf(w, o, "from")
           /\ Cell(w, o, "revision") = Head_(w, o)
BY DEF Cell

LEMMA FineVisit ==
    ASSUME NEW w, NEW o, NEW via, NEW cut \in Cuts
    PROVE  Fine(w, Visit(o, via, cut))
<1> DEFINE v == Visit(o, via, cut)
<1>1. /\ v.next = (IF cut = {} THEN "object" ELSE "revision") /\ v.deps = <<>>
      /\ v.blockers = {Blocker(type, o, None) : type \in cut} /\ v.object = o
  BY DEF Visit
<1>2. \A b \in v.blockers : b.type \in {"dependency_cycle", "depth_limit", "node_limit"}
  BY <1>1 DEF Cuts, Blocker
<1>3. cut # {} => v.blockers # {}
  BY <1>1
<1>4. Len(v.deps) = 0
  BY <1>1
<1> HIDE DEF v
<1>5. Knows(w, v)
  BY <1>1, <1>3 DEF Knows, Complete
<1>6. Owns(w, v)
  BY <1>2, <1>4 DEF Owns, DependencyTypes
<1> QED BY <1>5, <1>6 DEF Fine, v

LEMMA FinePolicy ==
    ASSUME NEW w, NEW v, Shaped(v), Fine(w, v), v.next = "policy",
           NEW x, x = PolicyOf(w, KindOf[v.object])
    PROVE  Fine(w, FoundPolicy(v, x))
<1> DEFINE n == FoundPolicy(v, x)
<1>1. IsVisit(v) /\ v.deps = <<>> /\ v.blockers = {} /\ Len(v.deps) = 0
  BY DEF Shaped, Readable
<1>2. CASE x = None
  <2>1. /\ n.next = "revision" /\ n.object = v.object /\ n.deps = v.deps
        /\ n.blockers = {Blocker("missing_policy", v.object, None)}
    BY <1>1, <1>2 DEF FoundPolicy, IsVisit
  <2>2. \A b \in n.blockers : b.type = "missing_policy"
    BY <2>1 DEF Blocker
  <2> HIDE DEF n
  <2>3. Policyless(w, n.object) /\ n.blockers # {} /\ Len(n.deps) = 0
    BY <1>1, <1>2, <2>1 DEF Policyless
  <2>4. Knows(w, n) /\ Owns(w, n)
    BY <2>1, <2>2, <2>3 DEF Knows, Owns, Complete, DependencyTypes
  <2> QED BY <2>4 DEF Fine, n
<1>3. CASE x # None
  <2>1. n.next = "assurance" /\ n.object = v.object /\ n.deps = v.deps /\ n.blockers = {} /\ n.policy = x
    BY <1>1, <1>3 DEF FoundPolicy, IsVisit
  <2> HIDE DEF n
  <2>2. Knows(w, n) /\ Owns(w, n)
    BY <1>1, <1>3, <2>1 DEF Fine, Knows, Owns, Ruled, Policyless
  <2> QED BY <2>2 DEF Fine, n
<1> QED BY <1>2, <1>3

LEMMA NothingLacks ==
    ASSUME NEW w, NEW o, NEW def, def = PolicyOf(w, KindOf[o]).def,
           AssuranceBlockers(o, def, AssuranceOf(w, o)) = {}
    PROVE  Assured(w, o)
<1> DEFINE a == AssuranceOf(w, o)
           types == IF ~def.required THEN {}
               ELSE IF a = None THEN {"missing_assurance"}
               ELSE IF a.stale THEN {"stale_assurance"}
               ELSE IF a.status = "failed" THEN {"conflicted_assurance"}
               ELSE IF a.status # "passed" THEN {"inadmissible_assurance"}
               ELSE IF def.scoped /\ ~a.scope THEN {"assurance_scope_mismatch"}
               ELSE {}
<1>1. AssuranceBlockers(o, def, a) = {Blocker(type, o, None) : type \in types}
  BY DEF AssuranceBlockers
<1>2. types = {}
  <2> HIDE DEF types
  <2> QED BY <1>1
<1> QED BY <1>2 DEF Assured

LEMMA FineAssurance ==
    ASSUME NEW w, NEW v, Shaped(v), Fine(w, v), v.next = "assurance",
           NEW x, x = AssuranceOf(w, v.object)
    PROVE  Fine(w, FoundAssurance(v, x))
<1> DEFINE n == FoundAssurance(v, x)
<1>1. IsVisit(v) /\ v.deps = <<>> /\ Len(v.deps) = 0 /\ Ruled(w, v)
  BY DEF Shaped, Readable, Fine, Knows
<1>2. /\ n.next = "incoming" /\ n.object = v.object /\ n.deps = v.deps /\ n.policy = v.policy
      /\ n.blockers = AssuranceBlockers(v.object, v.policy.def, x)
  BY <1>1 DEF FoundAssurance, IsVisit
<1>3. \A b \in AssuranceBlockers(v.object, v.policy.def, x) :
        b.type \in {"missing_assurance", "stale_assurance", "conflicted_assurance",
                    "inadmissible_assurance", "assurance_scope_mismatch"}
  BY DEF AssuranceBlockers, Blocker
<1> HIDE DEF n
<1>4. n.blockers # {} \/ Assured(w, n.object)
  BY <1>1, <1>2, NothingLacks DEF Ruled
<1>5. Knows(w, n)
  BY <1>1, <1>2, <1>4 DEF Knows, Ruled
<1>6. Owns(w, n)
  BY <1>1, <1>2, <1>3 DEF Owns, DependencyTypes
<1> QED BY <1>5, <1>6 DEF Fine, n

LEMMA FineIncoming ==
    ASSUME NEW w, IsWorld(w), Fits(w), NEW v, Shaped(v), Fine(w, v), v.next = "incoming",
           v.object \in Objects, NEW x, x = RelationsOf(w, v.object, "to")
    PROVE  Fine(w, FoundIncoming(v, x))
<1> DEFINE n == FoundIncoming(v, x)
           def == v.policy.def
<1>1. IsVisit(v) /\ v.deps = <<>> /\ Len(v.deps) = 0 /\ Ruled(w, v)
      /\ (v.blockers # {} \/ Assured(w, v.object))
  BY DEF Shaped, Readable, Fine, Knows
<1>2. /\ n.next = (IF def.depends = {} THEN "revision" ELSE "outgoing")
      /\ n.object = v.object /\ n.deps = v.deps /\ n.policy = v.policy
      /\ n.blockers = v.blockers \cup BlockingRelations(v.object, def, x)
  BY <1>1 DEF FoundIncoming, IsVisit
<1>3. \A b \in BlockingRelations(v.object, def, x) : b.type = "blocking_relation"
  BY DEF BlockingRelations, Blocker
<1> HIDE DEF n
<1>4. ASSUME n.blockers = {} PROVE Assured(w, n.object) /\ Unblocked(w, n.object)
  <2>1. BlockingRelations(v.object, def, x) = {} /\ v.blockers = {}
    BY <1>2, <1>4
  <2>2. ASSUME NEW i \in DOMAIN w.relations, w.relations[i].to = v.object,
               w.relations[i].type \in def.blocks
        PROVE  FALSE
    <3>1. i \in Ids(w, v.object, "to")
      BY <2>2 DEF Ids
    <3>2. RelationAt(w, i) \in x
      BY <3>1, AllRelations
    <3>3. RelationAt(w, i).type \in def.blocks
      BY <2>2 DEF RelationAt
    <3>4. Blocker("blocking_relation", v.object, RelationAt(w, i).id) \in BlockingRelations(v.object, def, x)
      BY <3>2, <3>3 DEF BlockingRelations
    <3> QED BY <2>1, <3>4
  <2> QED BY <1>1, <1>2, <2>1, <2>2 DEF Unblocked, Ruled
<1>5. Ruled(w, n)
  BY <1>1, <1>2 DEF Ruled
<1>6. n.next = "revision" => Followed(w, n)
  BY <1>2 DEF Followed
<1>7. Knows(w, n)
  BY <1>2, <1>4, <1>5, <1>6 DEF Knows, Complete
<1>8. Owns(w, n)
  BY <1>1, <1>2, <1>3 DEF Owns, DependencyTypes, Fine
<1> QED BY <1>7, <1>8 DEF Fine, n

(* A visit that goes on to its dependencies, or to its end.                 *)
Ready(w, v) == Ruled(w, v) /\ Complete(w, v) /\ Owns(w, v)

LEMMA FineOutgoing ==
    ASSUME NEW w, NEW v, Shaped(v), Fine(w, v), v.next = "outgoing",
           NEW x, x = RelationsOf(w, v.object, "from")
    PROVE  Ready(w, FoundOutgoing(v, x))
<1> DEFINE n == FoundOutgoing(v, x)
<1>1. IsVisit(v) /\ Ruled(w, v) /\ (v.blockers # {} \/ (Assured(w, v.object) /\ Unblocked(w, v.object)))
  BY DEF Shaped, Readable, Fine, Knows
<1>2. /\ n.object = v.object /\ n.deps = v.deps /\ n.policy = v.policy /\ n.blockers = v.blockers
      /\ n.todo = {r \in x : r.type \in v.policy.def.depends}
  BY <1>1 DEF FoundOutgoing, IsVisit
<1> HIDE DEF n
<1>3. Ruled(w, n) /\ Owns(w, n)
  BY <1>1, <1>2 DEF Ruled, Fine, Owns
<1>4. Followed(w, n)
  BY <1>2 DEF Followed
<1>5. Complete(w, n)
  BY <1>1, <1>2, <1>4 DEF Complete
<1> QED BY <1>3, <1>5 DEF Ready, n

LEMMA FineGoesOn ==
    ASSUME NEW w, NEW v, IsVisit(v), Ready(w, v)
    PROVE  /\ Fine(w, [v EXCEPT !.next = "revision"])
           /\ Fine(w, [v EXCEPT !.next = "dependency"])
<1>1. ASSUME NEW n, n.object = v.object, n.deps = v.deps, n.policy = v.policy, n.todo = v.todo,
             n.blockers = v.blockers, n.next \in {"revision", "dependency"}
      PROVE  Fine(w, n)
  <2>1. Ruled(w, n) /\ Owns(w, n) /\ Complete(w, n)
    BY <1>1 DEF Ready, Ruled, Owns, Complete, Followed
  <2> QED BY <1>1, <2>1 DEF Fine, Knows
<1>2. \A next \in {"revision", "dependency"} : LET n == [v EXCEPT !.next = next] IN
        /\ n.object = v.object /\ n.deps = v.deps /\ n.policy = v.policy /\ n.todo = v.todo
        /\ n.blockers = v.blockers /\ n.next = next
  BY DEF IsVisit
<1> QED BY <1>1, <1>2

LEMMA FineResult ==
    ASSUME NEW w, IsWorld(w), Fits(w), NEW v, Shaped(v), Fine(w, v), v.next = "revision",
           v.object \in Objects, NEW rev, rev = Head_(w, v.object)
    PROVE  Right(w, ResultOf(v, rev)) /\ ResultOf(v, rev).object = v.object
<1> DEFINE a == ResultOf(v, rev)
<1>1. /\ a.object = v.object
      /\ Admissible(a) <=> v.blockers = {}
      /\ a.status = "unruled" => \E b \in v.blockers : b.type = "missing_policy"
      /\ a.causes = {b \in v.blockers : b.type \notin DependencyTypes}
                    \cup UNION {k.causes : k \in Blamed(v.deps, v.blockers)}
  BY ResultFacts
<1> HIDE DEF a
<1>2. ASSUME Admissible(a) PROVE v.object \in Grounded(w)
  <2>1. Ruled(w, v) /\ Assured(w, v.object) /\ Unblocked(w, v.object) /\ Followed(w, v) /\ v.todo = {}
    BY <1>1, <1>2 DEF Fine, Knows, Complete, Shaped
  <2>2. Sound(w, v.object)
    BY <2>1, SoundParts DEF Ruled
  <2>3. ASSUME NEW i \in DOMAIN w.relations, w.relations[i].from = v.object,
               w.relations[i].type \in PolicyOf(w, KindOf[v.object]).def.depends
        PROVE  \/ w.relations[i].to \in Grounded(w)
               \/ PolicyOf(w, KindOf[v.object]).def.unruled /\ Policyless(w, w.relations[i].to)
    <3> DEFINE r == RelationAt(w, i)
    <3>1. i \in Ids(w, v.object, "from")
      BY <2>3 DEF Ids
    <3>2. r \in RelationsOf(w, v.object, "from")
      BY <3>1, AllRelations
    <3>3. r.type \in v.policy.def.depends /\ r.to = w.relations[i].to
      BY <2>1, <2>3 DEF RelationAt, Ruled
    <3> HIDE DEF r
    <3>4. PICK j \in 1..Len(v.deps) : v.deps[j].relation = r /\ Accepted(v.policy.def, v.deps[j].state)
      BY <2>1, <3>2, <3>3 DEF Followed
    <3>5. v.deps[j].state.object = r.to /\ Right(w, v.deps[j].state)
      BY <3>4 DEF Fine, Owns
    <3> QED BY <2>1, <3>3, <3>4, <3>5 DEF Accepted, Right, Admissible, Ruled
  <2>4. Supported(w, v.object, Grounded(w))
    BY <2>2, <2>3 DEF Supported, Policyless
  <2> QED BY <2>4, GroundedIsClosed
<1>3. a.status = "unruled" => Policyless(w, v.object)
  BY <1>1 DEF Fine, Owns
<1>4. ASSUME ~Admissible(a) PROVE a.causes # {}
  <2>1. PICK b \in v.blockers : TRUE
    BY <1>1, <1>4
  <2>2. CASE b.type \notin DependencyTypes
    BY <1>1, <2>2
  <2>3. CASE b.type \in DependencyTypes
    <3>1. PICK j \in 1..Len(v.deps) : v.deps[j].relation.id = b.by /\ ~Admissible(v.deps[j].state)
      BY <2>3 DEF Fine, Owns
    <3>2. v.deps[j].state.object = v.deps[j].relation.to /\ v.deps[j].state.causes # {}
      BY <3>1 DEF Fine, Owns, Right
    <3>3. v.deps[j].state.causes \subseteq a.causes
      BY <2>3, <3>1, <3>2, BlamedCauses DEF Shaped, a
    <3> QED BY <3>2, <3>3
  <2> QED BY <2>2, <2>3
<1>5. ASSUME NEW pin \in a.pins PROVE pin[2] = Head_(w, pin[1])
  <2>1. a.pins = {<<v.object, rev>>} \cup UNION {k.pins : k \in States(v.deps)}
    BY DEF a, ResultOf, Result, Pins
  <2>2. DOMAIN v.deps = 1..Len(v.deps)
    BY DEF Shaped, IsVisit, IsSequence
  <2>3. CASE pin = <<v.object, rev>>
    BY <2>3
  <2>4. CASE pin # <<v.object, rev>>
    <3>1. PICK j \in 1..Len(v.deps) : pin \in v.deps[j].state.pins
      BY <1>5, <2>1, <2>2, <2>4 DEF States
    <3> QED BY <3>1 DEF Fine, Owns, Right
  <2> QED BY <2>3, <2>4
<1> QED BY <1>1, <1>2, <1>3, <1>4, <1>5 DEF Right, a

LEMMA FineAnswered ==
    ASSUME NEW w, NEW u, IsVisit(u), Fine(w, u), u.next = "dependency", NEW v, Linked(u, v),
           NEW a, Right(w, a), a.object = v.object, NEW n, IsAnswered(u, v, a, n)
    PROVE  Ready(w, n)
<1> DEFINE def == u.policy.def
           j == Len(u.deps) + 1
           new == DependencyBlockers(u.object, def, v.via.id, a)
<1>1. /\ n.object = u.object /\ n.policy = u.policy /\ n.todo = u.todo \ {v.via}
      /\ n.blockers = u.blockers \cup new
      /\ j \in 1..Len(n.deps) /\ Len(n.deps) = j
      /\ \A i \in 1..Len(u.deps) : n.deps[i] = u.deps[i] /\ i \in 1..Len(n.deps)
      /\ \A i \in 1..Len(n.deps) : i = j \/ i \in 1..Len(u.deps)
  BY DEF IsAnswered
<1>2. n.deps[j].relation = v.via /\ n.deps[j].state = a
  BY DEF IsAnswered
<1>3. Ruled(w, u) /\ Complete(w, u) /\ Owns(w, u)
  BY DEF Fine, Knows
<1>4. Ruled(w, n)
  BY <1>1, <1>3 DEF Ruled
<1>5. Accepted(def, a) => new = {}
  BY DEF DependencyBlockers
<1>6. /\ ~Accepted(def, a) => new # {} /\ ~Admissible(a)
      /\ \A b \in new : b.type \in DependencyTypes /\ b.by = v.via.id
  <2> DEFINE type == CASE a.state = "UNKNOWN"    -> "dependency_unknown"
                       [] a.state = "STALE"      -> "dependency_stale"
                       [] a.state = "CONFLICTED" -> "dependency_conflicted"
                       [] OTHER                  -> "dependency_not_admissible"
  <2>1. new = IF Accepted(def, a) THEN {} ELSE {Blocker(type, u.object, v.via.id)}
    BY DEF DependencyBlockers
  <2>2. type \in DependencyTypes
    BY DEF DependencyTypes
  <2> HIDE DEF type, new
  <2>3. ~Accepted(def, a) => ~Admissible(a)
    BY DEF Accepted, Admissible
  <2> DEFINE b == Blocker(type, u.object, v.via.id)
  <2>4. b.type = type /\ b.by = v.via.id
    BY DEF Blocker
  <2> HIDE DEF b, def
  <2>5. new = IF Accepted(def, a) THEN {} ELSE {b}
    BY <2>1 DEF b
  <2> QED BY <2>2, <2>3, <2>4, <2>5
<1> HIDE DEF def, j, new
<1>7. ASSUME n.blockers = {} PROVE Followed(w, n)
  <2>1. Followed(w, u) /\ Accepted(def, a)
    BY <1>1, <1>3, <1>6, <1>7 DEF Complete
  <2>2. ASSUME NEW r \in RelationsOf(w, n.object, "from"), r.type \in n.policy.def.depends
        PROVE  \/ r \in n.todo
               \/ \E i \in 1..Len(n.deps) : n.deps[i].relation = r /\ Accepted(n.policy.def, n.deps[i].state)
    <3>1. \/ r \in u.todo
          \/ \E i \in 1..Len(u.deps) : u.deps[i].relation = r /\ Accepted(def, u.deps[i].state)
      BY <1>1, <2>1, <2>2 DEF Followed, def
    <3>2. CASE r = v.via
      BY <1>1, <1>2, <2>1, <3>2 DEF def
    <3>3. CASE r # v.via /\ r \in u.todo
      BY <1>1, <3>3
    <3>4. ASSUME NEW i \in 1..Len(u.deps), u.deps[i].relation = r, Accepted(def, u.deps[i].state)
          PROVE  \E k \in 1..Len(n.deps) : n.deps[k].relation = r /\ Accepted(n.policy.def, n.deps[k].state)
      <4>1. n.deps[i] = u.deps[i] /\ i \in 1..Len(n.deps) /\ n.policy = u.policy
        BY <1>1, <3>4
      <4> QED BY <3>4, <4>1 DEF def
    <3> QED BY <3>1, <3>2, <3>3, <3>4
  <2> QED BY <2>2 DEF Followed
<1>8. Complete(w, n)
  BY <1>1, <1>3, <1>7 DEF Complete
<1>9. ASSUME NEW b \in n.blockers
      PROVE  /\ b.type = "missing_policy" => Policyless(w, n.object)
             /\ b.type \in DependencyTypes =>
                  \E i \in 1..Len(n.deps) : n.deps[i].relation.id = b.by /\ ~Admissible(n.deps[i].state)
  <2>1. CASE b \in new
    <3>1. ~Admissible(a) /\ b.by = v.via.id /\ b.type # "missing_policy"
      BY <1>5, <1>6, <2>1 DEF DependencyTypes
    <3> QED BY <1>1, <1>2, <3>1
  <2>2. CASE b \in u.blockers
    <3>1. b.type = "missing_policy" => Policyless(w, n.object)
      BY <1>1, <1>3, <2>2 DEF Owns
    <3>2. ASSUME b.type \in DependencyTypes
          PROVE  \E i \in 1..Len(n.deps) : n.deps[i].relation.id = b.by /\ ~Admissible(n.deps[i].state)
      <4>1. PICK i \in 1..Len(u.deps) : u.deps[i].relation.id = b.by /\ ~Admissible(u.deps[i].state)
        BY <1>3, <2>2, <3>2 DEF Owns
      <4>2. n.deps[i] = u.deps[i] /\ i \in 1..Len(n.deps)
        BY <1>1
      <4> QED BY <4>1, <4>2
    <3> QED BY <3>1, <3>2
  <2> QED BY <1>1, <2>1, <2>2
<1>10. ASSUME NEW i \in 1..Len(n.deps)
       PROVE  n.deps[i].state.object = n.deps[i].relation.to /\ Right(w, n.deps[i].state)
  <2>1. CASE i = j
    BY <1>2, <2>1 DEF Linked
  <2>2. CASE i \in 1..Len(u.deps)
    BY <1>1, <1>3, <2>2 DEF Owns
  <2> QED BY <1>1, <2>1, <2>2
<1>11. Owns(w, n)
  BY <1>9, <1>10 DEF Owns
<1> QED BY <1>4, <1>8, <1>11 DEF Ready

(* All the visits of an evaluation of root are fine, or its result is right. *)
Good(w, root, e) ==
    /\ e.status = "running" => e.stack[1].object = root /\ \A i \in 1..Len(e.stack) : Fine(w, e.stack[i])
    /\ e.status = "done" => e.result.object = root /\ Right(w, e.result)

LEMMA GoesOnFine ==
    ASSUME NEW w, NEW root, NEW e, NEW f, NEW m \in Nat \ {0}, NEW v, IsVisit(v), GoesOn(e, f, m, v),
           e.status = "running", Ready(w, v), m = 1 => v.object = root,
           m > 1 => e.stack[1].object = root, \A i \in 1..(m - 1) : Fine(w, e.stack[i])
    PROVE  Good(w, root, f)
<1>1. Keeps(e, f, m - 1) /\ f.status = "running" /\ Len(f.stack) \in {m, m + 1}
  BY DEF GoesOn, Continues
<1>2. f.stack[m] = [v EXCEPT !.next = "revision"] \/ f.stack[m] = [v EXCEPT !.next = "dependency"]
  BY DEF GoesOn
<1>3. Fine(w, f.stack[m]) /\ f.stack[m].object = v.object
  <2>1. Fine(w, f.stack[m])
    BY <1>2, FineGoesOn
  <2>2. [v EXCEPT !.next = "revision"].object = v.object /\ [v EXCEPT !.next = "dependency"].object = v.object
    BY DEF IsVisit
  <2> QED BY <1>2, <2>1, <2>2
<1>4. ASSUME Len(f.stack) = m + 1 PROVE Fine(w, f.stack[m + 1])
  <2>1. m + 1 # m
    OBVIOUS
  <2>2. PICK r \in v.todo, cut \in Cuts : f.stack[m + 1] = Visit(r.to, r, cut)
    BY <1>4, <2>1 DEF GoesOn
  <2> QED BY <2>2, FineVisit
<1>5. \A i \in 1..(m - 1) : f.stack[i] = e.stack[i]
  BY <1>1 DEF Keeps
<1>6. ASSUME NEW i \in 1..Len(f.stack) PROVE Fine(w, f.stack[i])
  <2>1. i \in 1..(m - 1) \/ i = m \/ (i = m + 1 /\ Len(f.stack) = m + 1)
    BY <1>1
  <2> QED BY <1>3, <1>4, <1>5, <2>1
<1>7. f.stack[1].object = root
  <2>1. CASE m = 1
    BY <1>3, <2>1
  <2>2. CASE m > 1
    BY <1>5, <2>2
  <2> QED BY <2>1, <2>2
<1> QED BY <1>1, <1>6, <1>7 DEF Good

LEMMA GoodKept ==
    ASSUME NEW w, IsWorld(w), Fits(w), NEW root, NEW e, Shape(e), e.status = "running", Located(e),
           Good(w, root, e), NEW f, f = After(e, Sees(w, e))
    PROVE  Good(w, root, f)
<1> DEFINE n == Len(e.stack)
           v == e.stack[n]
           x == Sees(w, e)
           c == Counted(e)
<1>1. /\ Moves(e, x, f) /\ IsEvaluation(e) /\ n \in Nat \ {0} /\ v.next \in Readable
      /\ \A i \in 1..n : Shaped(e.stack[i])
      /\ \A i \in 1..(n - 1) : Linked(e.stack[i], e.stack[i + 1])
  BY Movement
<1>2. e.stack[1].object = root /\ \A i \in 1..n : Fine(w, e.stack[i]) /\ Places(e.stack[i])
  BY DEF Good, Located
<1>3. c.stack = e.stack /\ c.status = "running"
  BY <1>1, CountedIs
<1>4. Shaped(v) /\ Fine(w, v) /\ IsVisit(v) /\ v.object \in Objects
  <2>1. n \in 1..n
    BY <1>1
  <2> HIDE DEF n
  <2> QED BY <1>1, <1>2, <2>1 DEF Shaped, Places
<1>5. x = Cell(w, v.object, v.next)
  BY DEF Sees
<1> HIDE DEF c, x
<1>6. ASSUME NEW u, Replaces(e, f, u), Fine(w, u), u.object = v.object PROVE Good(w, root, f)
  <2>1. f.status = "running" /\ Len(f.stack) = n /\ f.stack[n] = u
        /\ \A i \in 1..(n - 1) : f.stack[i] = e.stack[i]
    BY <1>6 DEF Replaces, Keeps
  <2> HIDE DEF n
  <2>2. ASSUME NEW i \in 1..n PROVE Fine(w, f.stack[i]) /\ f.stack[i].object = e.stack[i].object
    <3>1. CASE i = n
      BY <1>6, <2>1, <3>1
    <3>2. CASE i \in 1..(n - 1)
      BY <1>1, <1>2, <2>1, <3>2
    <3> QED BY <1>1, <3>1, <3>2
  <2>3. 1 \in 1..n
    BY <1>1
  <2> QED BY <1>2, <2>1, <2>2, <2>3 DEF Good
<1>7. CASE v.next = "object"
  <2>1. CASE x
    <3> DEFINE u == [v EXCEPT !.next = "policy"]
    <3>1. Replaces(e, f, u)
      BY <1>1, <1>7, <2>1 DEF Moves
    <3>2. /\ u.next = "policy" /\ u.object = v.object /\ u.deps = v.deps /\ u.policy = v.policy
          /\ u.blockers = v.blockers
      BY <1>4 DEF IsVisit
    <3> HIDE DEF u, v
    <3>3. Fine(w, u)
      BY <1>4, <1>7, <3>2 DEF Fine, Knows, Owns
    <3> QED BY <1>6, <3>1, <3>2, <3>3
  <2>2. CASE ~x
    BY <1>1, <1>7, <2>2 DEF Moves, Good
  <2> QED BY <2>1, <2>2
<1>8. CASE v.next = "policy"
  <2>1. x = PolicyOf(w, KindOf[v.object])
    BY <1>5, <1>8, CellIs
  <2>2. Replaces(e, f, FoundPolicy(v, x))
    BY <1>1, <1>8 DEF Moves
  <2> HIDE DEF v
  <2>3. FoundPolicy(v, x).object = v.object
    BY <1>4, FoundShaped
  <2> QED BY <1>4, <1>6, <1>8, <2>1, <2>2, <2>3, FinePolicy
<1>9. CASE v.next = "assurance"
  <2>1. x = AssuranceOf(w, v.object)
    BY <1>5, <1>9, CellIs
  <2>2. Replaces(e, f, FoundAssurance(v, x))
    BY <1>1, <1>9 DEF Moves
  <2> HIDE DEF v
  <2>3. FoundAssurance(v, x).object = v.object
    BY <1>4, FoundShaped
  <2> QED BY <1>4, <1>6, <1>9, <2>1, <2>2, <2>3, FineAssurance
<1>10. CASE v.next = "incoming"
  <2>1. x = RelationsOf(w, v.object, "to")
    BY <1>5, <1>10, CellIs
  <2>2. Replaces(e, f, FoundIncoming(v, x))
    BY <1>1, <1>10 DEF Moves
  <2> HIDE DEF v
  <2>3. FoundIncoming(v, x).object = v.object
    BY <1>4, FoundShaped
  <2> QED BY <1>4, <1>6, <1>10, <2>1, <2>2, <2>3, FineIncoming
<1>11. CASE v.next = "outgoing"
  <2> DEFINE u == FoundOutgoing(v, x)
  <2>1. x = RelationsOf(w, v.object, "from")
    BY <1>5, <1>11, CellIs
  <2>2. GoesOn(c, f, n, u)
    BY <1>1, <1>11 DEF Moves, c
  <2>3. IsVisit(u) /\ u.object = v.object
    BY <1>4, FoundShaped
  <2>4. Ready(w, u)
    BY <1>4, <1>11, <2>1, FineOutgoing
  <2>5. n = 1 => u.object = root
    BY <1>2, <2>3
  <2> HIDE DEF u, v, n
  <2>6. \A i \in 1..(n - 1) : Fine(w, c.stack[i])
    BY <1>1, <1>2, <1>3
  <2>7. n > 1 => c.stack[1].object = root
    BY <1>2, <1>3
  <2> QED BY <1>1, <1>3, <2>2, <2>3, <2>4, <2>5, <2>6, <2>7, GoesOnFine
<1>12. CASE v.next = "revision" /\ n = 1
  <2>1. f.status = "done" /\ f.result = ResultOf(v, x)
    BY <1>1, <1>12 DEF Moves
  <2>2. Right(w, ResultOf(v, x)) /\ ResultOf(v, x).object = v.object
    BY <1>4, <1>5, <1>12, CellIs, FineResult
  <2> QED BY <1>2, <1>12, <2>1, <2>2 DEF Good
<1>13. CASE v.next = "revision" /\ n # 1
  <2> DEFINE m == n - 1
             u == e.stack[n - 1]
             a == ResultOf(v, x)
             y == Answered(u, v, a)
  <2>1. GoesOn(c, f, m, y)
    BY <1>1, <1>13 DEF Moves, c
  <2>2. m \in Nat \ {0} /\ m \in 1..n /\ m \in 1..(n - 1)
    <3> HIDE DEF n
    <3> QED BY <1>1, <1>13
  <2>3. IsVisit(u) /\ Fine(w, u) /\ u.next = "dependency" /\ Linked(u, v)
    <3>1. m + 1 = n
      <4> HIDE DEF n
      <4> QED BY <1>1
    <3> HIDE DEF n
    <3> QED BY <1>1, <1>2, <2>2, <3>1 DEF Shaped, Linked
  <2>4. IsAnswered(u, v, a, y)
    BY <2>3, AnsweredIs
  <2>5. Right(w, a) /\ a.object = v.object
    BY <1>4, <1>5, <1>13, CellIs, FineResult
  <2> HIDE DEF y, a
  <2>6. Ready(w, y)
    <3> HIDE DEF u, v
    <3> QED BY <2>3, <2>4, <2>5, FineAnswered
  <2>7. IsVisit(y) /\ y.object = u.object
    BY <2>4 DEF IsAnswered
  <2>8. m = 1 => y.object = root
    BY <1>2, <2>7
  <2> HIDE DEF u, v
  <2>9. \A i \in 1..(m - 1) : Fine(w, c.stack[i])
    <3> HIDE DEF n
    <3> QED BY <1>1, <1>2, <1>3
  <2>10. m > 1 => c.stack[1].object = root
    BY <1>2, <1>3
  <2> HIDE DEF m, n
  <2> QED BY <1>3, <2>1, <2>2, <2>6, <2>7, <2>8, <2>9, <2>10, GoesOnFine
<1> QED BY <1>1, <1>7, <1>8, <1>9, <1>10, <1>11, <1>12, <1>13 DEF Readable

LEMMA RunGood ==
    ASSUME NEW w, IsWorld(w), Fits(w), NEW root \in Objects, NEW run, IsRun(run, w, root)
    PROVE  \A n \in 0..MaxReads : Good(w, root, run[n])
<1> DEFINE T == {n \in 0..MaxReads : Good(w, root, run[n])}
<1>1. MaxReads \in Nat
  BY ConstantsFit DEF ConstantsFit
<1>2. 0 \in T
  <2>1. PICK cut \in Cuts : Evaluate(root).stack[1] = Visit(root, None, cut)
    BY Started
  <2>2. Visit(root, None, cut).object = root
    BY DEF Visit
  <2>3. Good(w, root, Evaluate(root))
    BY <2>1, <2>2, Started, FineVisit DEF Good
  <2> QED BY <1>1, <2>3 DEF IsRun
<1>3. ASSUME NEW n \in 1..MaxReads, n - 1 \in T PROVE n \in T
  <2> DEFINE e == run[n - 1]
  <2>1. Shape(e) /\ Located(e) /\ Good(w, root, e)
    BY <1>1, <1>3, RunShape, RunLocated
  <2>2. CASE e.status = "running"
    <3>1. run[n] = After(e, Sees(w, e))
      BY <2>2, ReadNextIs DEF IsRun
    <3> HIDE DEF e
    <3>2. Good(w, root, run[n])
      BY <2>1, <2>2, <3>1, GoodKept
    <3> QED BY <3>2
  <2>3. CASE e.status # "running"
    BY <1>1, <2>1, <2>3 DEF IsRun
  <2> QED BY <2>2, <2>3
<1> HIDE DEF T
<1>4. \A n \in 0..MaxReads : n \in T
  BY <1>1, <1>2, <1>3, Inductive
<1> QED BY <1>4 DEF T

-----------------------------------------------------------------------------
(* An evaluation of a grounded object.  Every visit is to a grounded object *)
(* and is held back by limits alone (Bears), but the visit on top may be to *)
(* an object without a policy, of which its asker does not mind (Passes).   *)

Limits == {"depth_limit", "node_limit"}
Limited(a) == \E b \in a.causes : b.type \in Limits

Bears(w, v) ==
    /\ v.object \in Grounded(w)
    /\ v.next \in {"assurance", "incoming", "outgoing", "dependency"} => Ruled(w, v)
    /\ \A r \in v.todo :
         /\ r.type \in v.policy.def.depends
         /\ \E i \in DOMAIN w.relations : r = RelationAt(w, i) /\ w.relations[i].from = v.object
    /\ \A b \in v.blockers :
         \/ b.type \in Limits
         \/ /\ b.type \in DependencyTypes
            /\ \E j \in 1..Len(v.deps) :
                 /\ v.deps[j].relation.id = b.by /\ Limited(v.deps[j].state)
                 /\ v.deps[j].state.object = v.deps[j].relation.to

Passes(w, v) ==
    /\ Policyless(w, v.object)
    /\ \/ v.next \in {"object", "policy"}
       \/ v.next = "revision" /\ \E b \in v.blockers : b.type \in Limits \cup {"missing_policy"}

Sustains(w, e) ==
    LET n == Len(e.stack)
    IN  /\ e.status = "running" =>
             /\ \A i \in 1..(n - 1) : Bears(w, e.stack[i])
             /\ \/ Bears(w, e.stack[n])
                \/ n > 1 /\ Passes(w, e.stack[n]) /\ e.stack[n - 1].policy.def.unruled
        /\ e.status = "done" => Admissible(e.result) \/ Limited(e.result)

LEMMA BearsResult ==
    ASSUME NEW w, NEW v, IsVisit(v), Bears(w, v), NEW rev, NEW a, a = ResultOf(v, rev)
    PROVE  Admissible(a) \/ Limited(a)
<1>1. CASE v.blockers = {}
  BY <1>1, ResultFacts
<1>2. ASSUME NEW b \in v.blockers, b.type \in Limits PROVE Limited(a)
  <2>1. b.type \notin DependencyTypes
    BY <1>2 DEF Limits, DependencyTypes
  <2>2. b \in a.causes
    BY <2>1, ResultFacts
  <2> QED BY <1>2, <2>2 DEF Limited
<1>3. ASSUME NEW b \in v.blockers, b.type \in DependencyTypes, NEW j \in 1..Len(v.deps),
             v.deps[j].relation.id = b.by, Limited(v.deps[j].state),
             v.deps[j].state.object = v.deps[j].relation.to
      PROVE  Limited(a)
  <2>1. v.deps[j].state.causes \subseteq a.causes
    BY <1>3, BlamedCauses
  <2> QED BY <1>3, <2>1 DEF Limited
<1> QED BY <1>1, <1>2, <1>3 DEF Bears

LEMMA PassesResult ==
    ASSUME NEW w, NEW v, Passes(w, v), v.next = "revision", NEW rev, NEW a, a = ResultOf(v, rev)
    PROVE  a.status = "unruled" \/ Limited(a)
<1>1. PICK b \in v.blockers : b.type \in Limits \cup {"missing_policy"}
  BY DEF Passes
<1>2. CASE b.type = "missing_policy"
  BY <1>2, ResultFacts
<1>3. CASE b.type \in Limits
  <2>1. b.type \notin DependencyTypes
    BY <1>3 DEF Limits, DependencyTypes
  <2>2. b \in a.causes
    BY <2>1, ResultFacts
  <2> QED BY <1>3, <2>2 DEF Limited
<1> QED BY <1>1, <1>2, <1>3

LEMMA AssuredLacksNothing ==
    ASSUME NEW w, NEW o, NEW def, def = PolicyOf(w, KindOf[o]).def, Assured(w, o)
    PROVE  AssuranceBlockers(o, def, AssuranceOf(w, o)) = {}
<1> DEFINE a == AssuranceOf(w, o)
           types == IF ~def.required THEN {}
               ELSE IF a = None THEN {"missing_assurance"}
               ELSE IF a.stale THEN {"stale_assurance"}
               ELSE IF a.status = "failed" THEN {"conflicted_assurance"}
               ELSE IF a.status # "passed" THEN {"inadmissible_assurance"}
               ELSE IF def.scoped /\ ~a.scope THEN {"assurance_scope_mismatch"}
               ELSE {}
<1>1. AssuranceBlockers(o, def, a) = {Blocker(type, o, None) : type \in types}
  BY DEF AssuranceBlockers
<1>2. types = {}
  BY DEF Assured
<1> HIDE DEF types
<1> QED BY <1>1, <1>2

LEMMA GroundedFacts ==
    ASSUME NEW w, NEW o \in Grounded(w)
    PROVE  ~Policyless(w, o) /\ Assured(w, o) /\ Unblocked(w, o) /\ o \in Objects
<1>1. Sound(w, o) /\ o \in Objects
  BY GroundedIsSupported DEF Supported
<1> QED BY <1>1, SoundParts

(* Each of s depends on the next one, and the last on o.                    *)
Chained(w, s, m, o) ==
    \A i \in 1..m :
      /\ s[i] \in Grounded(w)
      /\ \E k \in DOMAIN w.relations :
           /\ w.relations[k].from = s[i]
           /\ w.relations[k].to = IF i = m THEN o ELSE s[i + 1]
           /\ w.relations[k].type \in PolicyOf(w, KindOf[s[i]]).def.depends

(* A grounded object does not depend on itself: what is grounded without    *)
(* the objects of a cycle would still be closed.                            *)
LEMMA NoCycle ==
    ASSUME NEW w, NEW s, NEW m \in Nat \ {0}, NEW o, Chained(w, s, m, o)
    PROVE  \A p \in 1..m : s[p] # o
<1> SUFFICES ASSUME NEW p \in 1..m, s[p] = o PROVE FALSE
  OBVIOUS
<1> DEFINE C == {s[i] : i \in p..m}
           S == Grounded(w) \ C
<1>1. \A i \in p..m : i \in 1..m /\ (i # m => i + 1 \in p..m)
  OBVIOUS
<1>2. o \in C /\ o \in Grounded(w)
  <2>1. p \in p..m
    OBVIOUS
  <2> QED BY <2>1 DEF Chained
<1>3. ASSUME NEW q \in Objects, Supported(w, q, S) PROVE q \in S
  <2>1. q \in Grounded(w)
    BY <1>3, SupportGrows, GroundedIsClosed
  <2>2. ASSUME NEW i \in p..m, q = s[i] PROVE FALSE
    <3> DEFINE t == IF i = m THEN o ELSE s[i + 1]
    <3>1. PICK k \in DOMAIN w.relations :
            /\ w.relations[k].from = s[i] /\ w.relations[k].to = t
            /\ w.relations[k].type \in PolicyOf(w, KindOf[s[i]]).def.depends
      BY <1>1 DEF Chained
    <3>2. t \in C /\ t \in Grounded(w)
      <4>1. CASE i = m
        BY <1>2, <4>1
      <4>2. CASE i # m
        <5>1. i + 1 \in p..m /\ i + 1 \in 1..m
          BY <1>1, <4>2
        <5> QED BY <4>2, <5>1 DEF Chained
      <4> QED BY <4>1, <4>2
    <3>3. ~Policyless(w, t) /\ t \notin S
      BY <3>2, GroundedFacts
    <3> HIDE DEF t, S
    <3>4. t \in S \/ Policyless(w, t)
      BY <1>3, <2>2, <3>1 DEF Supported, Policyless
    <3> QED BY <3>3, <3>4
  <2> QED BY <2>1, <2>2
<1> HIDE DEF S
<1>4. S \subseteq Objects
  BY GroundedFacts DEF S
<1>5. Grounded(w) \subseteq S
  BY <1>3, <1>4, GroundedIsLeast
<1> QED BY <1>2, <1>5 DEF S

LEMMA BearsAnswered ==
    ASSUME NEW w, NEW u, IsVisit(u), Bears(w, u), NEW v, Linked(u, v),
           NEW a, a.object = v.object, NEW n, IsAnswered(u, v, a, n),
           Accepted(u.policy.def, a) \/ Limited(a)
    PROVE  Bears(w, n) /\ Ruled(w, n)
<1> DEFINE def == u.policy.def
           j == Len(u.deps) + 1
           new == DependencyBlockers(u.object, def, v.via.id, a)
<1>1. /\ n.object = u.object /\ n.policy = u.policy /\ n.todo \subseteq u.todo
      /\ n.blockers = u.blockers \cup new
      /\ j \in 1..Len(n.deps)
      /\ \A i \in 1..Len(u.deps) : n.deps[i] = u.deps[i] /\ i \in 1..Len(n.deps)
  BY DEF IsAnswered
<1>2. n.deps[j].relation = v.via /\ n.deps[j].state = a
  BY DEF IsAnswered
<1>3. Ruled(w, n)
  BY <1>1 DEF Ruled, Bears, Linked
<1>4. Accepted(def, a) => new = {}
  BY DEF DependencyBlockers
<1>5. \A b \in new : b.type \in DependencyTypes /\ b.by = v.via.id
  <2> DEFINE type == CASE a.state = "UNKNOWN"    -> "dependency_unknown"
                       [] a.state = "STALE"      -> "dependency_stale"
                       [] a.state = "CONFLICTED" -> "dependency_conflicted"
                       [] OTHER                  -> "dependency_not_admissible"
             b == Blocker(type, u.object, v.via.id)
  <2>1. new = IF Accepted(def, a) THEN {} ELSE {b}
    BY DEF DependencyBlockers
  <2>2. type \in DependencyTypes
    BY DEF DependencyTypes
  <2> HIDE DEF type, new
  <2>3. b.type = type /\ b.by = v.via.id
    BY DEF Blocker
  <2> HIDE DEF b, def
  <2> QED BY <2>1, <2>2, <2>3
<1> HIDE DEF def, j, new
<1>6. ASSUME NEW b \in n.blockers
      PROVE  \/ b.type \in Limits
             \/ /\ b.type \in DependencyTypes
                /\ \E i \in 1..Len(n.deps) :
                     /\ n.deps[i].relation.id = b.by /\ Limited(n.deps[i].state)
                     /\ n.deps[i].state.object = n.deps[i].relation.to
  <2>1. CASE b \in new
    <3>1. Limited(a)
      BY <1>4, <2>1 DEF def
    <3> QED BY <1>1, <1>2, <1>5, <2>1, <3>1 DEF Linked
  <2>2. CASE b \in u.blockers /\ b.type \notin Limits
    <3>1. PICK i \in 1..Len(u.deps) :
            /\ u.deps[i].relation.id = b.by /\ Limited(u.deps[i].state)
            /\ u.deps[i].state.object = u.deps[i].relation.to
      BY <2>2 DEF Bears
    <3>2. n.deps[i] = u.deps[i] /\ i \in 1..Len(n.deps)
      BY <1>1
    <3> QED BY <2>2, <3>1, <3>2 DEF Bears
  <2> QED BY <1>1, <2>1, <2>2
<1>7. \A r \in n.todo :
         /\ r.type \in n.policy.def.depends
         /\ \E i \in DOMAIN w.relations : r = RelationAt(w, i) /\ w.relations[i].from = n.object
  BY <1>1 DEF Bears
<1> QED BY <1>1, <1>3, <1>6, <1>7 DEF Bears

LEMMA GoesOnSustains ==
    ASSUME NEW w, NEW e, NEW f, NEW m \in Nat \ {0}, NEW v, IsVisit(v), GoesOn(e, f, m, v),
           e.status = "running", Bears(w, v), Ruled(w, v),
           \A i \in 1..(m - 1) : Bears(w, e.stack[i]) /\ e.stack[i].next = "dependency",
           \A i \in 1..(m - 1 - 1) : Linked(e.stack[i], e.stack[i + 1]),
           m > 1 => Linked(e.stack[m - 1], v)
    PROVE  Sustains(w, f)
<1>1. Keeps(e, f, m - 1) /\ f.status = "running"
  BY DEF GoesOn, Continues
<1>2. \A i \in 1..(m - 1) : f.stack[i] = e.stack[i]
  BY <1>1 DEF Keeps
<1>3. CASE v.todo = {} /\ Len(f.stack) = m /\ f.stack[m] = [v EXCEPT !.next = "revision"]
  <2> DEFINE u == [v EXCEPT !.next = "revision"]
  <2>1. /\ u.object = v.object /\ u.next = "revision" /\ u.todo = v.todo /\ u.policy = v.policy
        /\ u.blockers = v.blockers /\ u.deps = v.deps
    BY DEF IsVisit
  <2> HIDE DEF u
  <2>2. Bears(w, u)
    BY <2>1 DEF Bears
  <2>3. Bears(w, f.stack[m])
    BY <1>3, <2>2 DEF u
  <2> QED BY <1>1, <1>2, <1>3, <2>3 DEF Sustains
<1>4. ASSUME NEW r \in v.todo, NEW cut \in Cuts,
             Len(f.stack) = m + 1,
             f.stack[m] = [v EXCEPT !.next = "dependency"],
             f.stack[m + 1] = Visit(r.to, r, cut),
             cut = {"dependency_cycle"} => \E i \in 1..m : f.stack[i].object = r.to
      PROVE  Sustains(w, f)
  <2> DEFINE u == [v EXCEPT !.next = "dependency"]
             t == Visit(r.to, r, cut)
  <2>1. /\ u.object = v.object /\ u.next = "dependency" /\ u.todo = v.todo /\ u.policy = v.policy
        /\ u.blockers = v.blockers /\ u.deps = v.deps
    BY DEF IsVisit
  <2>2. /\ t.next = (IF cut = {} THEN "object" ELSE "revision") /\ t.deps = <<>> /\ t.todo = {}
        /\ t.blockers = {Blocker(type, r.to, None) : type \in cut} /\ t.object = r.to
    BY DEF Visit
  <2> HIDE DEF u, t
  <2>3. Bears(w, u) /\ f.stack[m] = u /\ u.object \in Grounded(w)
    BY <1>4, <2>1 DEF Bears, Ruled, u
  <2>4. \A i \in 1..m : f.stack[i].object \in Grounded(w)
    BY <1>2, <2>3 DEF Bears
  <2>5. PICK k \in DOMAIN w.relations :
          /\ r = RelationAt(w, k) /\ w.relations[k].from = v.object
          /\ r.type \in v.policy.def.depends
    BY DEF Bears
  <2>6. r.type = w.relations[k].type /\ r.to = w.relations[k].to
    BY <2>5 DEF RelationAt
  <2>7. r.to \in Grounded(w) \/ (v.policy.def.unruled /\ Policyless(w, r.to))
    <3>1. Supported(w, v.object, Grounded(w))
      BY GroundedIsSupported DEF Bears
    <3> QED BY <2>5, <2>6, <3>1 DEF Supported, Policyless, Ruled
  <2>8. cut # {"dependency_cycle"}
    <3> DEFINE s == [i \in 1..m |-> f.stack[i].object]
    <3>1. \A i \in 1..m : s[i] \in Grounded(w)
      BY <2>4
    <3>2. ASSUME NEW i \in 1..m
          PROVE  \E l \in DOMAIN w.relations :
                   /\ w.relations[l].from = s[i]
                   /\ w.relations[l].to = IF i = m THEN r.to ELSE s[i + 1]
                   /\ w.relations[l].type \in PolicyOf(w, KindOf[s[i]]).def.depends
      <4>1. CASE i = m
        <5>1. s[i] = v.object
          BY <2>1, <2>3, <4>1
        <5> QED BY <2>5, <2>6, <4>1, <5>1 DEF Ruled
      <4>2. CASE i # m
        <5> DEFINE b == e.stack[i]
                   a == IF i = m - 1 THEN v ELSE e.stack[i + 1]
        <5>1. i \in 1..(m - 1) /\ i + 1 \in 1..m /\ (i # m - 1 => i \in 1..(m - 1 - 1) /\ i + 1 \in 1..(m - 1))
          BY <4>2
        <5>2. Bears(w, b) /\ b.next = "dependency" /\ Linked(b, a)
          BY <5>1
        <5>3. s[i] = b.object
          BY <1>2, <5>1
        <5>4. s[i + 1] = a.object
          <6>1. s[i + 1] = f.stack[i + 1].object
            BY <5>1
          <6>2. CASE i = m - 1
            BY <2>1, <2>3, <5>1, <6>1, <6>2
          <6>3. CASE i # m - 1
            <7>1. f.stack[i + 1] = e.stack[i + 1]
              BY <1>2, <5>1, <6>3
            <7> QED BY <6>1, <6>3, <7>1
          <6> QED BY <6>2, <6>3
        <5> HIDE DEF b, a, s
        <5>5. Ruled(w, b) /\ b.policy = PolicyOf(w, KindOf[b.object])
          BY <5>2 DEF Bears, Ruled
        <5>6. PICK l \in DOMAIN w.relations : a.via = RelationAt(w, l) /\ w.relations[l].from = b.object
                                              /\ a.via.type \in b.policy.def.depends
          BY <5>2 DEF Bears, Linked
        <5>7. a.via.type = w.relations[l].type /\ a.via.to = w.relations[l].to
          BY <5>6 DEF RelationAt
        <5>8. w.relations[l].to = s[i + 1] /\ w.relations[l].from = s[i]
          BY <5>2, <5>3, <5>4, <5>6, <5>7 DEF Linked
        <5>9. w.relations[l].type \in PolicyOf(w, KindOf[s[i]]).def.depends
          BY <5>3, <5>5, <5>6, <5>7
        <5> QED BY <4>2, <5>8, <5>9
      <4> QED BY <4>1, <4>2
    <3>3. \A i \in 1..m : s[i] = f.stack[i].object
      OBVIOUS
    <3> HIDE DEF s
    <3>4. Chained(w, s, m, r.to)
      BY <3>1, <3>2 DEF Chained
    <3>5. \A p \in 1..m : s[p] # r.to
      BY <3>4, NoCycle
    <3> QED BY <1>4, <3>3, <3>5
  <2>9. \A b \in t.blockers : b.type \in Limits
    BY <2>2, <2>8 DEF Cuts, Limits, Blocker
  <2>10. CASE r.to \in Grounded(w)
    <3>1. Bears(w, t)
      BY <2>2, <2>9, <2>10 DEF Bears
    <3>2. \A i \in 1..(m + 1 - 1) : Bears(w, f.stack[i])
      BY <1>2, <2>3
    <3> QED BY <1>1, <1>4, <3>1, <3>2 DEF Sustains, t
  <2>11. CASE v.policy.def.unruled /\ Policyless(w, r.to)
    <3>1. Passes(w, t)
      <4>1. cut # {} => t.blockers # {}
        BY <2>2
      <4> QED BY <2>2, <2>9, <2>11, <4>1 DEF Passes
    <3>2. \A i \in 1..(m + 1 - 1) : Bears(w, f.stack[i])
      BY <1>2, <2>3
    <3>3. f.stack[m + 1 - 1].policy.def.unruled
      BY <2>1, <2>3, <2>11
    <3>4. m + 1 > 1
      OBVIOUS
    <3> QED BY <1>1, <1>4, <3>1, <3>2, <3>3, <3>4 DEF Sustains, t
  <2> QED BY <2>7, <2>10, <2>11
<1> QED BY <1>3, <1>4 DEF GoesOn

(* What a visit on top becomes by a read that leaves it on top.             *)
LEMMA BearsFound ==
    ASSUME NEW w, IsWorld(w), NEW v, Shaped(v), Bears(w, v), NEW x, x = Cell(w, v.object, v.next)
    PROVE  /\ v.next = "object" => Bears(w, [v EXCEPT !.next = "policy"])
           /\ v.next = "policy" => Bears(w, FoundPolicy(v, x))
           /\ v.next = "assurance" => Bears(w, FoundAssurance(v, x))
           /\ v.next = "incoming" => Bears(w, FoundIncoming(v, x))
           /\ v.next = "outgoing" => Bears(w, FoundOutgoing(v, x)) /\ Ruled(w, FoundOutgoing(v, x))
<1>1. IsVisit(v)
  BY DEF Shaped
<1>2. ~Policyless(w, v.object) /\ Assured(w, v.object) /\ Unblocked(w, v.object) /\ v.object \in Objects
  BY GroundedFacts DEF Bears
<1>3. ASSUME v.next = "object" PROVE Bears(w, [v EXCEPT !.next = "policy"])
  <2> DEFINE n == [v EXCEPT !.next = "policy"]
  <2>1. /\ n.object = v.object /\ n.next = "policy" /\ n.todo = v.todo /\ n.policy = v.policy
        /\ n.blockers = v.blockers /\ n.deps = v.deps
    BY <1>1 DEF IsVisit
  <2> HIDE DEF n
  <2>2. Bears(w, n)
    BY <2>1 DEF Bears
  <2> QED BY <2>2 DEF n
<1>4. ASSUME v.next = "policy" PROVE Bears(w, FoundPolicy(v, x))
  <2> DEFINE n == FoundPolicy(v, x)
  <2>1. x = PolicyOf(w, KindOf[v.object]) /\ x # None
    BY <1>2, <1>4, CellIs DEF Policyless
  <2>2. /\ n.object = v.object /\ n.next = "assurance" /\ n.todo = v.todo /\ n.policy = x
        /\ n.blockers = v.blockers /\ n.deps = v.deps
    BY <1>1, <2>1 DEF FoundPolicy, IsVisit
  <2>3. v.todo = {} /\ v.blockers = {}
    BY <1>4 DEF Shaped, Readable
  <2> HIDE DEF n
  <2>4. Bears(w, n)
    BY <1>2, <2>1, <2>2, <2>3 DEF Bears, Ruled
  <2> QED BY <2>4 DEF n
<1>5. ASSUME v.next = "assurance" PROVE Bears(w, FoundAssurance(v, x))
  <2> DEFINE n == FoundAssurance(v, x)
  <2>1. Ruled(w, v) /\ x = AssuranceOf(w, v.object)
    BY <1>5, CellIs DEF Bears
  <2>2. AssuranceBlockers(v.object, v.policy.def, x) = {}
    BY <1>2, <2>1, AssuredLacksNothing DEF Ruled
  <2>3. /\ n.object = v.object /\ n.next = "incoming" /\ n.todo = v.todo /\ n.policy = v.policy
        /\ n.blockers = {} /\ n.deps = v.deps
    BY <1>1, <2>2 DEF FoundAssurance, IsVisit
  <2> HIDE DEF n
  <2>4. Bears(w, n)
    BY <2>1, <2>3 DEF Bears, Ruled
  <2> QED BY <2>4 DEF n
<1>6. ASSUME v.next = "incoming" PROVE Bears(w, FoundIncoming(v, x))
  <2> DEFINE n == FoundIncoming(v, x)
             def == v.policy.def
  <2>1. Ruled(w, v) /\ x = RelationsOf(w, v.object, "to")
    BY <1>6, CellIs DEF Bears
  <2>2. BlockingRelations(v.object, def, x) = {}
    <3> SUFFICES ASSUME NEW r \in x, r.type \in def.blocks PROVE FALSE
      BY DEF BlockingRelations
    <3>1. PICK i \in DOMAIN w.relations :
            /\ r = [id |-> i, type |-> w.relations[i].type, from |-> w.relations[i].from,
                    to |-> w.relations[i].to]
            /\ w.relations[i] \in Relations /\ w.relations[i]["to"] = v.object
      BY <2>1, RelationsPlaced
    <3>2. w.relations[i].to = v.object /\ w.relations[i].type \in def.blocks
      BY <3>1
    <3> QED BY <1>2, <2>1, <3>2 DEF Unblocked, Ruled
  <2>3. /\ n.object = v.object /\ n.next \in {"revision", "outgoing"} /\ n.todo = v.todo
        /\ n.policy = v.policy /\ n.deps = v.deps
        /\ n.blockers = v.blockers \cup BlockingRelations(v.object, def, x)
    BY <1>1 DEF FoundIncoming, IsVisit
  <2> HIDE DEF n
  <2>4. Bears(w, n)
    BY <2>1, <2>2, <2>3 DEF Bears, Ruled
  <2> QED BY <2>4 DEF n
<1>7. ASSUME v.next = "outgoing"
      PROVE  Bears(w, FoundOutgoing(v, x)) /\ Ruled(w, FoundOutgoing(v, x))
  <2> DEFINE n == FoundOutgoing(v, x)
  <2>1. Ruled(w, v) /\ x = RelationsOf(w, v.object, "from")
    BY <1>7, CellIs DEF Bears
  <2>2. \A r \in x : \E i \in DOMAIN w.relations : r = RelationAt(w, i) /\ w.relations[i].from = v.object
    <3> TAKE r \in x
    <3>1. PICK i \in DOMAIN w.relations :
            /\ r = [id |-> i, type |-> w.relations[i].type, from |-> w.relations[i].from,
                    to |-> w.relations[i].to]
            /\ w.relations[i] \in Relations /\ w.relations[i]["from"] = v.object
      BY <2>1, RelationsPlaced
    <3> QED BY <3>1 DEF RelationAt
  <2>3. /\ n.object = v.object /\ n.next = v.next /\ n.todo = {r \in x : r.type \in v.policy.def.depends}
        /\ n.policy = v.policy /\ n.deps = v.deps /\ n.blockers = v.blockers
    BY <1>1 DEF FoundOutgoing, IsVisit
  <2> HIDE DEF n
  <2>4. Bears(w, n) /\ Ruled(w, n)
    BY <2>1, <2>2, <2>3 DEF Bears, Ruled
  <2> QED BY <2>4 DEF n
<1> QED BY <1>3, <1>4, <1>5, <1>6, <1>7

LEMMA PassesFound ==
    ASSUME NEW w, NEW v, Shaped(v), Passes(w, v), NEW x, x = Cell(w, v.object, v.next)
    PROVE  /\ v.next \in {"object", "policy", "revision"}
           /\ v.next = "object" => Passes(w, [v EXCEPT !.next = "policy"])
           /\ v.next = "policy" => Passes(w, FoundPolicy(v, x))
<1>1. IsVisit(v) /\ v.next \in {"object", "policy", "revision"}
  BY DEF Shaped, Passes
<1>2. Passes(w, [v EXCEPT !.next = "policy"])
  BY <1>1 DEF Passes, IsVisit
<1>3. ASSUME v.next = "policy" PROVE Passes(w, FoundPolicy(v, x))
  <2> DEFINE n == FoundPolicy(v, x)
  <2>1. x = None
    BY <1>3, CellIs DEF Passes, Policyless
  <2>2. n.object = v.object /\ n.next = "revision"
        /\ n.blockers = {Blocker("missing_policy", v.object, None)}
    BY <1>1, <2>1 DEF FoundPolicy, IsVisit
  <2>3. Blocker("missing_policy", v.object, None).type = "missing_policy"
    BY DEF Blocker
  <2> HIDE DEF n
  <2>4. Passes(w, n)
    BY <2>2, <2>3 DEF Passes
  <2> QED BY <2>4 DEF n
<1> QED BY <1>1, <1>2, <1>3

LEMMA SustainsKept ==
    ASSUME NEW w, IsWorld(w), NEW e, Shape(e), e.status = "running",
           Sustains(w, e), NEW f, f = After(e, Sees(w, e))
    PROVE  Sustains(w, f)
<1> DEFINE n == Len(e.stack)
           v == e.stack[n]
           x == Sees(w, e)
           c == Counted(e)
<1>1. /\ Moves(e, x, f) /\ IsEvaluation(e) /\ n \in Nat \ {0} /\ v.next \in Readable
      /\ \A i \in 1..n : Shaped(e.stack[i])
      /\ \A i \in 1..(n - 1) : Linked(e.stack[i], e.stack[i + 1])
  BY Movement
<1>2. /\ \A i \in 1..(n - 1) : Bears(w, e.stack[i])
      /\ Bears(w, v) \/ (n > 1 /\ Passes(w, v) /\ e.stack[n - 1].policy.def.unruled)
  BY DEF Sustains
<1>3. c.stack = e.stack /\ c.status = "running"
  BY <1>1, CountedIs
<1>4. Shaped(v) /\ IsVisit(v)
  <2>1. n \in 1..n
    BY <1>1
  <2> HIDE DEF n
  <2> QED BY <1>1, <2>1 DEF Shaped
<1>5. x = Cell(w, v.object, v.next)
  BY DEF Sees
<1>6. \A i \in 1..(n - 1) : e.stack[i].next = "dependency"
  BY <1>1 DEF Linked
<1> HIDE DEF c, x
<1>7. ASSUME NEW u, Replaces(e, f, u), Bears(w, v) => Bears(w, u), Passes(w, v) => Passes(w, u)
      PROVE  Sustains(w, f)
  <2>1. f.status = "running" /\ Len(f.stack) = n /\ f.stack[n] = u
        /\ \A i \in 1..(n - 1) : f.stack[i] = e.stack[i]
    BY <1>7 DEF Replaces, Keeps
  <2>2. n > 1 => f.stack[n - 1] = e.stack[n - 1]
    <3> HIDE DEF n
    <3> QED BY <1>1, <2>1
  <2> HIDE DEF n
  <2> QED BY <1>2, <1>7, <2>1, <2>2 DEF Sustains
<1>8. CASE v.next = "object"
  <2>1. CASE x
    <3>1. Replaces(e, f, [v EXCEPT !.next = "policy"])
      BY <1>1, <1>8, <2>1 DEF Moves
    <3>2. Bears(w, v) => Bears(w, [v EXCEPT !.next = "policy"])
      BY <1>4, <1>5, <1>8, BearsFound
    <3>3. Passes(w, v) => Passes(w, [v EXCEPT !.next = "policy"])
      BY <1>4, <1>5, <1>8, PassesFound
    <3> QED BY <1>7, <3>1, <3>2, <3>3
  <2>2. CASE ~x
    BY <1>1, <1>8, <2>2 DEF Moves, Sustains
  <2> QED BY <2>1, <2>2
<1>9. CASE v.next = "policy"
  <2>1. Replaces(e, f, FoundPolicy(v, x))
    BY <1>1, <1>9 DEF Moves
  <2>2. Bears(w, v) => Bears(w, FoundPolicy(v, x))
    BY <1>4, <1>5, <1>9, BearsFound
  <2>3. Passes(w, v) => Passes(w, FoundPolicy(v, x))
    BY <1>4, <1>5, <1>9, PassesFound
  <2> QED BY <1>7, <2>1, <2>2, <2>3
<1>10. CASE v.next = "assurance"
  <2>1. Replaces(e, f, FoundAssurance(v, x))
    BY <1>1, <1>10 DEF Moves
  <2>2. Bears(w, v) => Bears(w, FoundAssurance(v, x))
    BY <1>4, <1>5, <1>10, BearsFound
  <2>3. ~Passes(w, v)
    BY <1>10 DEF Passes
  <2> QED BY <1>7, <2>1, <2>2, <2>3
<1>11. CASE v.next = "incoming"
  <2>1. Replaces(e, f, FoundIncoming(v, x))
    BY <1>1, <1>11 DEF Moves
  <2>2. Bears(w, v) => Bears(w, FoundIncoming(v, x))
    BY <1>4, <1>5, <1>11, BearsFound
  <2>3. ~Passes(w, v)
    BY <1>11 DEF Passes
  <2> QED BY <1>7, <2>1, <2>2, <2>3
<1>12. CASE v.next = "outgoing"
  <2> DEFINE u == FoundOutgoing(v, x)
  <2>1. GoesOn(c, f, n, u)
    BY <1>1, <1>12 DEF Moves, c
  <2>2. IsVisit(u) /\ u.via = v.via /\ u.object = v.object
    BY <1>4, FoundShaped
  <2>3. Bears(w, v)
    BY <1>2, <1>12 DEF Passes
  <2>4. Bears(w, u) /\ Ruled(w, u)
    BY <1>4, <1>5, <1>12, <2>3, BearsFound
  <2>5. n > 1 => Linked(e.stack[n - 1], v)
    BY <1>1
  <2>6. n > 1 => Linked(c.stack[n - 1], u)
    BY <1>3, <2>2, <2>5 DEF Linked
  <2> HIDE DEF u, v, n
  <2>7. \A i \in 1..(n - 1) : Bears(w, c.stack[i]) /\ c.stack[i].next = "dependency"
    BY <1>2, <1>3, <1>6
  <2>8. \A i \in 1..(n - 1 - 1) : Linked(c.stack[i], c.stack[i + 1])
    BY <1>1, <1>3
  <2> QED BY <1>1, <1>3, <2>1, <2>2, <2>4, <2>6, <2>7, <2>8, GoesOnSustains
<1>13. CASE v.next = "revision" /\ n = 1
  <2>1. f.status = "done" /\ f.result = ResultOf(v, x)
    BY <1>1, <1>13 DEF Moves
  <2>2. Bears(w, v)
    BY <1>2, <1>13
  <2>3. Admissible(ResultOf(v, x)) \/ Limited(ResultOf(v, x))
    BY <1>4, <2>2, BearsResult
  <2> QED BY <2>1, <2>3 DEF Sustains
<1>14. CASE v.next = "revision" /\ n # 1
  <2> DEFINE m == n - 1
             u == e.stack[n - 1]
             a == ResultOf(v, x)
             y == Answered(u, v, a)
  <2>1. GoesOn(c, f, m, y)
    BY <1>1, <1>14 DEF Moves, c
  <2>2. m \in Nat \ {0} /\ m \in 1..n /\ m \in 1..(n - 1) /\ m + 1 = n
    <3> HIDE DEF n
    <3> QED BY <1>1, <1>14
  <2>3. IsVisit(u) /\ Bears(w, u) /\ Linked(u, v)
    <3> HIDE DEF n
    <3> QED BY <1>1, <1>2, <2>2 DEF Shaped
  <2>4. IsAnswered(u, v, a, y)
    BY <2>3, AnsweredIs
  <2>5. a.object = v.object /\ (a.status = "unruled" \/ Admissible(a) \/ Limited(a))
        /\ (~u.policy.def.unruled => Admissible(a) \/ Limited(a))
    BY <1>2, <1>4, <1>14, BearsResult, PassesResult, ResultFacts
  <2> HIDE DEF a
  <2>6. Accepted(u.policy.def, a) \/ Limited(a)
    BY <2>5 DEF Accepted, Admissible
  <2>7. m > 1 => Linked(e.stack[m - 1], u)
    <3> HIDE DEF n
    <3>1. m > 1 => m - 1 \in 1..(n - 1) /\ m - 1 + 1 = n - 1
      BY <1>1, <2>2
    <3> QED BY <1>1, <3>1
  <2> HIDE DEF y, u, v
  <2>8. Bears(w, y) /\ Ruled(w, y)
    BY <2>3, <2>4, <2>5, <2>6, BearsAnswered
  <2>9. IsVisit(y) /\ y.object = u.object /\ y.via = u.via
    BY <2>4 DEF IsAnswered
  <2>10. m > 1 => Linked(c.stack[m - 1], y)
    BY <1>3, <2>7, <2>9 DEF Linked
  <2>11. \A i \in 1..(m - 1) : Bears(w, c.stack[i]) /\ c.stack[i].next = "dependency"
    <3> HIDE DEF n
    <3> QED BY <1>1, <1>2, <1>3, <1>6
  <2>12. \A i \in 1..(m - 1 - 1) : Linked(c.stack[i], c.stack[i + 1])
    <3> HIDE DEF n
    <3> QED BY <1>1, <1>3
  <2> HIDE DEF m, n
  <2> QED BY <1>3, <2>1, <2>2, <2>8, <2>9, <2>10, <2>11, <2>12, GoesOnSustains
<1> QED BY <1>1, <1>8, <1>9, <1>10, <1>11, <1>12, <1>13, <1>14 DEF Readable

LEMMA RunSustains ==
    ASSUME NEW w, IsWorld(w), NEW root \in Grounded(w), NEW run, IsRun(run, w, root)
    PROVE  \A n \in 0..MaxReads : Sustains(w, run[n])
<1> DEFINE T == {n \in 0..MaxReads : Sustains(w, run[n])}
<1>1. MaxReads \in Nat
  BY ConstantsFit DEF ConstantsFit
<1>2. 0 \in T
  <2> DEFINE e == Evaluate(root)
  <2>1. PICK cut \in Cuts \ {{"dependency_cycle"}} : e.stack[1] = Visit(root, None, cut)
    BY Started
  <2> DEFINE t == Visit(root, None, cut)
  <2>2. /\ t.next = (IF cut = {} THEN "object" ELSE "revision") /\ t.deps = <<>> /\ t.todo = {}
        /\ t.blockers = {Blocker(type, root, None) : type \in cut} /\ t.object = root
    BY DEF Visit
  <2>6. e.status = "running" /\ Len(e.stack) = 1 /\ e.stack[1] = t
    BY <2>1, Started
  <2> HIDE DEF t, e
  <2>3. \A b \in t.blockers : b.type \in Limits
    BY <2>1, <2>2 DEF Cuts, Limits, Blocker
  <2>4. Bears(w, t)
    BY <2>2, <2>3 DEF Bears
  <2>5. Sustains(w, e)
    BY <2>4, <2>6 DEF Sustains
  <2> QED BY <1>1, <2>5 DEF IsRun, e
<1>3. ASSUME NEW n \in 1..MaxReads, n - 1 \in T PROVE n \in T
  <2> DEFINE e == run[n - 1]
  <2>1. Shape(e) /\ Sustains(w, e)
    BY <1>1, <1>3, RunShape
  <2>2. CASE e.status = "running"
    <3>1. run[n] = After(e, Sees(w, e))
      BY <2>2, ReadNextIs DEF IsRun
    <3> HIDE DEF e
    <3>2. Sustains(w, run[n])
      BY <2>1, <2>2, <3>1, SustainsKept
    <3> QED BY <3>2
  <2>3. CASE e.status # "running"
    BY <1>1, <2>1, <2>3 DEF IsRun
  <2> QED BY <2>2, <2>3
<1> HIDE DEF T
<1>4. \A n \in 0..MaxReads : n \in T
  BY <1>1, <1>2, <1>3, Inductive
<1> QED BY <1>4 DEF T

(* No object has more relations in one direction than one read returns      *)
(* (the default limit of RecordStore.relations_for).                        *)
WithinLimit == Fits(World)

LEMMA AdmissionIsGrounded ==
    ASSUME NEW w, IsWorld(w), Fits(w), NEW o \in Objects, NEW e, e = EvaluateIn(w, o), e.status = "done"
    PROVE  /\ Admissible(e.result) => o \in Grounded(w)
           /\ o \in Grounded(w) => Admissible(e.result) \/ Limited(e.result)
           /\ ~Admissible(e.result) => e.result.causes # {}
<1>1. PICK run : IsRun(run, w, o) /\ e = run[MaxReads]
  BY EvaluationRuns
<1>2. MaxReads \in 0..MaxReads
  BY ConstantsFit DEF ConstantsFit
<1>3. e.result.object = o /\ Right(w, e.result)
  BY <1>1, <1>2, RunGood DEF Good
<1>4. o \in Grounded(w) => Admissible(e.result) \/ Limited(e.result)
  BY <1>1, <1>2, RunSustains DEF Sustains
<1> QED BY <1>3, <1>4 DEF Right

(* As long as no relation is beyond the limit of a read: the walk of        *)
(* PolicyEngine.evaluate admits only objects that are grounded in their own *)
(* assurance and in dependencies that are grounded without them, refuses a  *)
(* grounded object only for its depth or node limit, and names a cause      *)
(* whenever it refuses.                                                     *)
THEOREM AdmissionsAreGrounded == Spec /\ []WithinLimit => []AdmissibleIsGrounded
<1>1. TypeInv /\ WithinLimit => AdmissibleIsGrounded
  <2> SUFFICES ASSUME TypeInv, WithinLimit, NEW o \in Objects, EvaluateIn(World, o).status = "done"
               PROVE  LET a == EvaluateIn(World, o).result
                          limited == \E b \in a.causes : b.type \in {"depth_limit", "node_limit"}
                      IN  /\ Admissible(a) => o \in Grounded(World)
                          /\ o \in Grounded(World) => Admissible(a) \/ limited
                          /\ ~Admissible(a) => a.causes # {}
    BY DEF AdmissibleIsGrounded
  <2> DEFINE w == World
  <2>1. IsWorld(w) /\ Fits(w)
    BY DEF TypeInv, WithinLimit
  <2> HIDE DEF w
  <2>2. EvaluateIn(w, o).status = "done"
    BY DEF w
  <2>3. LET a == EvaluateIn(w, o).result
        IN  /\ Admissible(a) => o \in Grounded(w)
            /\ o \in Grounded(w) => Admissible(a) \/ Limited(a)
            /\ ~Admissible(a) => a.causes # {}
    BY <2>1, <2>2, AdmissionIsGrounded
  <2> QED BY <2>3 DEF w, Limited, Limits
<1> QED BY <1>1, Typed, PTL

-----------------------------------------------------------------------------
(* What an evaluation has still to read in order to end with a given        *)
(* assessment.  The assessment holds those of the dependencies, so it says  *)
(* of each visit under way with what result it ends.                        *)

Blocking(v) == {b \in v.blockers : b.type = "blocking_relation"}

(* The relations that were followed from the k-th on.                       *)
Later(t, k) == {t.deps[j].relation : j \in k..Len(t.deps)}

(* The visit v ends with t, once what it has still to follow has answered.  *)
Ends(v, t) ==
    /\ t.object = v.object /\ t.policy = v.policy /\ t.assurances = v.assurances
    /\ Blocking(t) = Blocking(v)
    /\ Len(t.deps) \in Nat /\ Len(v.deps) <= Len(t.deps)
    /\ \A j \in 1..Len(v.deps) : t.deps[j] = v.deps[j]
    /\ v.todo = Later(t, Len(v.deps) + 1)

Foretells(v, t) ==
    /\ t.object = v.object
    /\ v.next \in Readable \ {"object", "policy"} => t.policy = v.policy
    /\ v.next \in {"incoming", "outgoing"} => t.assurances = v.assurances
    /\ v.next = "outgoing" => Blocking(t) = Blocking(v)
    /\ v.next = "dependency" => Ends(v, t)
    /\ v.next = "revision" => t = ResultOf(v, t.revision)

(* T has for each visit of e the result with which it ends, so that e ends  *)
(* with a.                                                                  *)
Leads(e, a, T) ==
    LET n == Len(e.stack)
    IN  /\ T[1] = a
        /\ \A i \in 1..n : Foretells(e.stack[i], T[i])
        /\ \A i \in 1..(n - 1) :
             T[i].deps[Len(e.stack[i].deps) + 1] = [relation |-> e.stack[i + 1].via, state |-> T[i + 1]]

May(e, a) ==
    \/ e.status = "done" /\ e.result = a
    \/ e.status = "running" /\ \E T : Leads(e, a, T)

(* To have read x is what it takes for v to end with t.                     *)
Learned(v, x, t) ==
    /\ v.next = "object" => x
    /\ v.next = "policy" => x = t.policy
    /\ v.next = "assurance" /\ v.policy.def.required => {x} \ {None} = t.assurances
    /\ v.next = "incoming" => BlockingRelations(v.object, v.policy.def, x) = Blocking(t)
    /\ v.next = "outgoing" => {r \in x : r.type \in v.policy.def.depends} = Later(t, 1)
    /\ v.next = "revision" => x = t.revision

Tells(e, a, x) ==
    \E T : Leads(e, a, T) /\ Learned(e.stack[Len(e.stack)], x, T[Len(e.stack)])

LEMMA ResultFields ==
    ASSUME NEW v, NEW rev
    PROVE  LET t == ResultOf(v, rev)
           IN  /\ t.object = v.object /\ t.revision = rev /\ t.policy = v.policy
               /\ t.assurances = v.assurances /\ t.deps = v.deps /\ t.blockers = v.blockers
BY DEF ResultOf, Result

LEMMA IncomingForetells ==
    ASSUME NEW v, Shaped(v), v.next = "incoming", NEW x, NEW t, Foretells(FoundIncoming(v, x), t)
    PROVE  Foretells(v, t) /\ BlockingRelations(v.object, v.policy.def, x) = Blocking(t)
<1> DEFINE u == FoundIncoming(v, x)
           new == BlockingRelations(v.object, v.policy.def, x)
<1>1. IsVisit(v) /\ \A b \in v.blockers : b.type # "blocking_relation"
  BY DEF Shaped
<1>2. /\ u.object = v.object /\ Foretells(u, t) /\ u.next \in {"revision", "outgoing"}
      /\ u.policy = v.policy /\ u.assurances = v.assurances
      /\ u.blockers = v.blockers \cup new
  BY <1>1 DEF IsVisit, FoundIncoming
<1>3. \A b \in new : b.type = "blocking_relation"
  BY DEF BlockingRelations, Blocker
<1> HIDE DEF u, new
<1>4. Blocking(u) = new
  BY <1>1, <1>2, <1>3 DEF Blocking
<1>5. u.next = "revision" => t = ResultOf(u, t.revision)
  BY <1>2 DEF Foretells
<1>6. u.next = "revision" => t.assurances = u.assurances /\ t.blockers = u.blockers /\ t.policy = u.policy
  BY <1>5, ResultFields
<1>7. Blocking(t) = Blocking(u) /\ t.assurances = u.assurances /\ t.policy = u.policy /\ t.object = u.object
  BY <1>2, <1>6 DEF Foretells, Blocking, Readable
<1> QED BY <1>2, <1>4, <1>7 DEF Foretells, Readable, new

LEMMA FoundForetells ==
    ASSUME NEW v, Shaped(v), NEW x, NEW t
    PROVE  /\ v.next = "object" /\ Foretells([v EXCEPT !.next = "policy"], t) => Foretells(v, t)
           /\ v.next = "policy" /\ Foretells(FoundPolicy(v, x), t) => Foretells(v, t) /\ x = t.policy
           /\ v.next = "assurance" /\ Foretells(FoundAssurance(v, x), t) =>
                Foretells(v, t) /\ (v.policy.def.required => {x} \ {None} = t.assurances)
<1>1. IsVisit(v) /\ (v.next \in {"object", "policy"} => v.policy = None)
  BY DEF Shaped
<1>2. ASSUME v.next = "object", Foretells([v EXCEPT !.next = "policy"], t) PROVE Foretells(v, t)
  <2> DEFINE u == [v EXCEPT !.next = "policy"]
  <2>1. u.object = v.object /\ u.next = "policy" /\ Foretells(u, t)
    BY <1>1, <1>2 DEF IsVisit
  <2> HIDE DEF u
  <2> QED BY <1>2, <2>1 DEF Foretells, Readable
<1>3. ASSUME v.next = "policy", Foretells(FoundPolicy(v, x), t)
      PROVE  Foretells(v, t) /\ x = t.policy
  <2> DEFINE u == FoundPolicy(v, x)
  <2>1. /\ u.object = v.object /\ Foretells(u, t)
        /\ x = None => u.next = "revision" /\ u.policy = None
        /\ x # None => u.next = "assurance" /\ u.policy = x
    BY <1>1, <1>3 DEF IsVisit, FoundPolicy
  <2> HIDE DEF u
  <2> QED BY <1>3, <2>1 DEF Foretells, Readable
<1>4. ASSUME v.next = "assurance", Foretells(FoundAssurance(v, x), t)
      PROVE  Foretells(v, t) /\ (v.policy.def.required => {x} \ {None} = t.assurances)
  <2> DEFINE u == FoundAssurance(v, x)
  <2>1. /\ u.object = v.object /\ Foretells(u, t) /\ u.next = "incoming" /\ u.policy = v.policy
        /\ v.policy.def.required => u.assurances = {x} \ {None}
    BY <1>1, <1>4 DEF IsVisit, FoundAssurance
  <2> HIDE DEF u
  <2> QED BY <1>4, <2>1 DEF Foretells, Readable
<1> QED BY <1>2, <1>3, <1>4

(* The same of the visits up to m, of which the last one is v.             *)
LeadsOn(e, m, v, a, T) ==
    /\ Ends(v, T[m]) /\ T[1] = a
    /\ \A i \in 1..(m - 1) : Foretells(e.stack[i], T[i])
    /\ \A i \in 1..(m - 1) :
         T[i].deps[Len(e.stack[i].deps) + 1] =
           [relation |-> IF i = m - 1 THEN v.via ELSE e.stack[i + 1].via, state |-> T[i + 1]]

LEMMA GoesOnLeads ==
    ASSUME NEW e, NEW f, NEW m \in Nat \ {0}, NEW v, IsVisit(v), GoesOn(e, f, m, v),
           NEW a, NEW T, Leads(f, a, T)
    PROVE  LeadsOn(e, m, v, a, T)
<1>1. Keeps(e, f, m - 1) /\ Len(f.stack) \in {m, m + 1} /\ Len(f.stack) \in Nat
  BY DEF GoesOn
<1>2. \A i \in 1..(m - 1) : f.stack[i] = e.stack[i]
  BY <1>1 DEF Keeps
<1>3. /\ T[1] = a
      /\ \A i \in 1..Len(f.stack) : Foretells(f.stack[i], T[i])
      /\ \A i \in 1..(Len(f.stack) - 1) :
           T[i].deps[Len(f.stack[i].deps) + 1] = [relation |-> f.stack[i + 1].via, state |-> T[i + 1]]
  BY DEF Leads
<1> DEFINE u == f.stack[m]
           t == T[m]
<1>4. Foretells(u, t)
  BY <1>1, <1>3
<1>5. \/ v.todo = {} /\ u = [v EXCEPT !.next = "revision"]
      \/ u = [v EXCEPT !.next = "dependency"]
  BY DEF GoesOn
<1>6. /\ u.object = v.object /\ u.policy = v.policy /\ u.assurances = v.assurances
      /\ u.blockers = v.blockers /\ u.deps = v.deps /\ u.todo = v.todo /\ u.via = v.via
      /\ (u.next = "revision" /\ v.todo = {}) \/ u.next = "dependency"
  BY <1>5 DEF IsVisit
<1>7. Len(v.deps) \in Nat
  <2>1. PICK S : v.deps \in Seq(S)
    BY DEF IsVisit, IsSequence
  <2> QED BY <2>1
<1> HIDE DEF u, t
<1>8. Ends(v, t)
  <2>1. CASE u.next = "dependency"
    <3>1. Ends(u, t)
      BY <1>4, <2>1 DEF Foretells
    <3> QED BY <1>6, <3>1 DEF Ends, Blocking
  <2>2. CASE u.next = "revision" /\ v.todo = {}
    <3>1. t = ResultOf(u, t.revision)
      BY <1>4, <2>2 DEF Foretells
    <3>2. /\ t.object = u.object /\ t.policy = u.policy /\ t.assurances = u.assurances
          /\ t.deps = u.deps /\ t.blockers = u.blockers
      BY <3>1, ResultFields
    <3>3. Later(t, Len(v.deps) + 1) = {}
      BY <1>6, <1>7, <3>2 DEF Later
    <3> QED BY <1>6, <1>7, <2>2, <3>2, <3>3 DEF Ends, Blocking
  <2> QED BY <1>6, <2>1, <2>2
<1>9. \A i \in 1..(m - 1) : Foretells(e.stack[i], T[i])
  BY <1>1, <1>2, <1>3
<1>10. ASSUME NEW i \in 1..(m - 1)
       PROVE  T[i].deps[Len(e.stack[i].deps) + 1] =
                [relation |-> IF i = m - 1 THEN v.via ELSE e.stack[i + 1].via, state |-> T[i + 1]]
  <2>1. T[i].deps[Len(e.stack[i].deps) + 1] = [relation |-> f.stack[i + 1].via, state |-> T[i + 1]]
    <3>1. i \in 1..(Len(f.stack) - 1)
      BY <1>1
    <3> QED BY <1>2, <1>3, <3>1
  <2>2. f.stack[i + 1].via = IF i = m - 1 THEN v.via ELSE e.stack[i + 1].via
    <3>1. CASE i = m - 1
      BY <1>6, <3>1 DEF u
    <3>2. CASE i # m - 1
      <4>1. i + 1 \in 1..(m - 1)
        BY <3>2
      <4> QED BY <1>2, <3>2, <4>1
    <3> QED BY <3>1, <3>2
  <2> QED BY <2>1, <2>2
<1> QED BY <1>3, <1>8, <1>9, <1>10 DEF LeadsOn, t

(* The asker of a visit that ends.                                          *)
LEMMA AnsweredEnds ==
    ASSUME NEW u, IsVisit(u), NEW v, v.via \in u.todo, NEW res, NEW w, IsAnswered(u, v, res, w),
           NEW t, Ends(w, t)
    PROVE  Ends(u, t) /\ t.deps[Len(u.deps) + 1] = [relation |-> v.via, state |-> res]
<1> DEFINE k == Len(u.deps) + 1
           new == DependencyBlockers(u.object, u.policy.def, v.via.id, res)
<1>1. /\ w.object = u.object /\ w.policy = u.policy /\ w.assurances = u.assurances
      /\ w.todo = u.todo \ {v.via} /\ w.blockers = u.blockers \cup new
      /\ Len(u.deps) \in Nat /\ Len(w.deps) = k
      /\ \A j \in 1..Len(u.deps) : w.deps[j] = u.deps[j]
      /\ w.deps[k] = [relation |-> v.via, state |-> res]
  BY DEF IsAnswered
<1>2. \A b \in new : b.type # "blocking_relation"
  BY DEF DependencyBlockers, Blocker
<1> HIDE DEF new
<1>3. Blocking(w) = Blocking(u)
  BY <1>1, <1>2 DEF Blocking
<1>4. /\ t.object = w.object /\ t.policy = w.policy /\ t.assurances = w.assurances
      /\ Blocking(t) = Blocking(w) /\ Len(t.deps) \in Nat /\ k <= Len(t.deps)
      /\ \A j \in 1..k : t.deps[j] = w.deps[j]
      /\ w.todo = Later(t, k + 1)
  BY <1>1 DEF Ends
<1>5. t.deps[k] = [relation |-> v.via, state |-> res]
  BY <1>1, <1>4
<1>6. Later(t, k) = {v.via} \cup Later(t, k + 1)
  <2>1. k..Len(t.deps) = {k} \cup (k + 1)..Len(t.deps)
    BY <1>1, <1>4
  <2>2. t.deps[k].relation = v.via
    BY <1>5
  <2> HIDE DEF k
  <2> QED BY <2>1, <2>2 DEF Later
<1>7. u.todo = Later(t, k)
  <2> HIDE DEF k
  <2> QED BY <1>1, <1>4, <1>6
<1>8. \A j \in 1..Len(u.deps) : t.deps[j] = u.deps[j]
  BY <1>1, <1>4
<1>9. Len(u.deps) <= Len(t.deps)
  BY <1>1, <1>4
<1>10. Ends(u, t)
  BY <1>1, <1>3, <1>4, <1>7, <1>8, <1>9 DEF Ends
<1> QED BY <1>5, <1>10

(* An evaluation that may end with a has not read anything else than what   *)
(* a says.                                                                  *)
LEMMA Reveals ==
    ASSUME NEW e, Shape(e), e.status = "running", NEW x, NEW a, May(After(e, x), a)
    PROVE  Tells(e, a, x)
<1> DEFINE n == Len(e.stack)
           v == e.stack[n]
           f == After(e, x)
           c == Counted(e)
<1>1. /\ Moves(e, x, f) /\ IsEvaluation(e) /\ n \in Nat \ {0} /\ v.next \in Readable
      /\ \A i \in 1..n : Shaped(e.stack[i])
      /\ \A i \in 1..(n - 1) : Linked(e.stack[i], e.stack[i + 1])
  BY Movement
<1>2. c.stack = e.stack /\ c.status = "running"
  BY <1>1, CountedIs
<1>3. Shaped(v) /\ IsVisit(v)
  <2>1. n \in 1..n
    BY <1>1
  <2> HIDE DEF n
  <2> QED BY <1>1, <2>1 DEF Shaped
<1> HIDE DEF c
<1>4. May(f, a)
  OBVIOUS
<1> HIDE DEF f
<1>5. ASSUME NEW u, Replaces(e, f, u), u.via = v.via,
             \A t : Foretells(u, t) => Foretells(v, t) /\ Learned(v, x, t)
      PROVE  Tells(e, a, x)
  <2>1. f.status = "running" /\ Len(f.stack) = n /\ f.stack[n] = u
        /\ \A i \in 1..(n - 1) : f.stack[i] = e.stack[i]
    BY <1>5 DEF Replaces, Keeps
  <2>2. PICK T : Leads(f, a, T)
    BY <1>4, <2>1 DEF May
  <2> HIDE DEF n
  <2>3. /\ T[1] = a /\ \A i \in 1..n : Foretells(f.stack[i], T[i])
        /\ \A i \in 1..(n - 1) :
             T[i].deps[Len(f.stack[i].deps) + 1] = [relation |-> f.stack[i + 1].via, state |-> T[i + 1]]
    BY <2>1, <2>2 DEF Leads
  <2>4. Foretells(v, T[n]) /\ Learned(v, x, T[n])
    BY <1>1, <1>5, <2>1, <2>3
  <2>5. ASSUME NEW i \in 1..n PROVE Foretells(e.stack[i], T[i])
    BY <1>1, <2>1, <2>3, <2>4
  <2>6. ASSUME NEW i \in 1..(n - 1)
        PROVE  T[i].deps[Len(e.stack[i].deps) + 1] = [relation |-> e.stack[i + 1].via, state |-> T[i + 1]]
    <3>1. f.stack[i] = e.stack[i]
      BY <2>1
    <3>2. f.stack[i + 1].via = e.stack[i + 1].via
      <4>1. CASE i = n - 1
        BY <1>1, <1>5, <2>1, <4>1
      <4>2. CASE i # n - 1
        BY <1>1, <2>1, <4>2
      <4> QED BY <4>1, <4>2
    <3> QED BY <2>3, <3>1, <3>2
  <2>7. Leads(e, a, T)
    BY <2>3, <2>5, <2>6 DEF Leads, n
  <2> QED BY <2>4, <2>7 DEF Tells, n, v
<1>6. CASE v.next = "object"
  <2>1. x
    BY <1>1, <1>4, <1>6 DEF Moves, May
  <2>2. Replaces(e, f, [v EXCEPT !.next = "policy"])
    BY <1>1, <1>6, <2>1 DEF Moves
  <2>3. [v EXCEPT !.next = "policy"].via = v.via
    BY <1>3, FoundShaped
  <2>4. \A t : Foretells([v EXCEPT !.next = "policy"], t) => Foretells(v, t) /\ Learned(v, x, t)
    BY <1>3, <1>6, <2>1, FoundForetells DEF Learned
  <2> HIDE DEF v, n
  <2> QED BY <1>5, <2>2, <2>3, <2>4
<1>7. CASE v.next = "policy"
  <2>1. Replaces(e, f, FoundPolicy(v, x))
    BY <1>1, <1>7 DEF Moves
  <2>2. FoundPolicy(v, x).via = v.via
    BY <1>3, FoundShaped
  <2> HIDE DEF v, n
  <2>3. ASSUME NEW t, Foretells(FoundPolicy(v, x), t) PROVE Foretells(v, t) /\ Learned(v, x, t)
    BY <1>3, <1>7, <2>3, FoundForetells DEF Learned
  <2> QED BY <1>5, <2>1, <2>2, <2>3
<1>8. CASE v.next = "assurance"
  <2>1. Replaces(e, f, FoundAssurance(v, x))
    BY <1>1, <1>8 DEF Moves
  <2>2. FoundAssurance(v, x).via = v.via
    BY <1>3, FoundShaped
  <2> HIDE DEF v, n
  <2>3. ASSUME NEW t, Foretells(FoundAssurance(v, x), t) PROVE Foretells(v, t) /\ Learned(v, x, t)
    BY <1>3, <1>8, <2>3, FoundForetells DEF Learned
  <2> QED BY <1>5, <2>1, <2>2, <2>3
<1>9. CASE v.next = "incoming"
  <2>1. Replaces(e, f, FoundIncoming(v, x))
    BY <1>1, <1>9 DEF Moves
  <2>2. FoundIncoming(v, x).via = v.via
    BY <1>3, FoundShaped
  <2> HIDE DEF v, n
  <2>3. ASSUME NEW t, Foretells(FoundIncoming(v, x), t) PROVE Foretells(v, t) /\ Learned(v, x, t)
    <3>1. Foretells(v, t) /\ BlockingRelations(v.object, v.policy.def, x) = Blocking(t)
      BY <1>3, <1>9, <2>3, IncomingForetells
    <3> QED BY <1>9, <3>1 DEF Learned
  <2> QED BY <1>5, <2>1, <2>2, <2>3
<1>10. CASE v.next = "outgoing"
  <2> DEFINE u == FoundOutgoing(v, x)
  <2>1. GoesOn(c, f, n, u)
    BY <1>1, <1>10 DEF Moves, c
  <2>2. /\ IsVisit(u) /\ u.object = v.object /\ u.via = v.via
        /\ u.policy = v.policy /\ u.assurances = v.assurances /\ u.blockers = v.blockers
        /\ u.deps = <<>> /\ u.todo = {r \in x : r.type \in v.policy.def.depends}
    <3>1. v.deps = <<>>
      BY <1>3, <1>10 DEF Shaped, Readable
    <3> HIDE DEF v
    <3> QED BY <1>3, <3>1, FoundShaped DEF FoundOutgoing, IsVisit
  <2>3. f.status = "running"
    BY <1>2, <2>1 DEF GoesOn, Continues
  <2>4. PICK T : Leads(f, a, T)
    BY <1>4, <2>3 DEF May
  <2> HIDE DEF u, v, n
  <2>10. LeadsOn(c, n, u, a, T)
    BY <1>1, <2>1, <2>2, <2>4, GoesOnLeads
  <2>5. /\ Ends(u, T[n]) /\ T[1] = a
        /\ \A i \in 1..(n - 1) : Foretells(c.stack[i], T[i])
        /\ \A i \in 1..(n - 1) :
             T[i].deps[Len(c.stack[i].deps) + 1] =
               [relation |-> IF i = n - 1 THEN u.via ELSE c.stack[i + 1].via, state |-> T[i + 1]]
    BY <2>10 DEF LeadsOn
  <2>6. Foretells(v, T[n]) /\ Learned(v, x, T[n])
    <3>1. Len(u.deps) + 1 = 1
      BY <2>2
    <3>2. Blocking(u) = Blocking(v)
      BY <2>2 DEF Blocking
    <3>3. Foretells(v, T[n])
      BY <1>10, <2>2, <2>5, <3>2 DEF Ends, Foretells
    <3>4. u.todo = Later(T[n], 1)
      BY <2>5, <3>1 DEF Ends
    <3> QED BY <1>10, <2>2, <3>3, <3>4 DEF Learned
  <2>7. ASSUME NEW i \in 1..n PROVE Foretells(e.stack[i], T[i])
    <3>1. CASE i = n
      BY <2>6, <3>1 DEF v
    <3>2. CASE i # n
      BY <1>1, <1>2, <2>5, <3>2
    <3> QED BY <3>1, <3>2
  <2>8. ASSUME NEW i \in 1..(n - 1)
        PROVE  T[i].deps[Len(e.stack[i].deps) + 1] = [relation |-> e.stack[i + 1].via, state |-> T[i + 1]]
    <3>1. i = n - 1 => e.stack[i + 1] = v
      BY <1>1 DEF v
    <3> QED BY <1>2, <2>2, <2>5, <3>1
  <2>9. Leads(e, a, T)
    BY <2>5, <2>7, <2>8 DEF Leads, n
  <2> QED BY <2>6, <2>9 DEF Tells, n, v
<1>11. CASE v.next = "revision" /\ n = 1
  <2>1. f.status = "done" /\ f.result = ResultOf(v, x)
    BY <1>1, <1>11 DEF Moves
  <2>2. a = ResultOf(v, x)
    BY <1>4, <2>1 DEF May
  <2> DEFINE T == [i \in {1} |-> a]
  <2>3. T[1] = a /\ a.object = v.object /\ a.policy = v.policy /\ a.revision = x
    BY <2>2, ResultFields
  <2> HIDE DEF T
  <2>4. Foretells(v, T[n]) /\ Learned(v, x, T[n])
    <3> HIDE DEF v
    <3> QED BY <1>11, <2>2, <2>3 DEF Foretells, Learned
  <2>5. Leads(e, a, T)
    BY <1>11, <2>3, <2>4 DEF Leads
  <2> QED BY <2>4, <2>5 DEF Tells
<1>12. CASE v.next = "revision" /\ n # 1
  <2> DEFINE m == n - 1
             u == e.stack[n - 1]
             res == ResultOf(v, x)
             y == Answered(u, v, res)
  <2>1. GoesOn(c, f, m, y)
    BY <1>1, <1>12 DEF Moves, c
  <2>2. m \in Nat \ {0} /\ m \in 1..n /\ m \in 1..(n - 1) /\ m + 1 = n
    <3> HIDE DEF n
    <3> QED BY <1>1, <1>12
  <2>3. IsVisit(u) /\ u.next = "dependency" /\ v.via \in u.todo
    <3> HIDE DEF n
    <3> QED BY <1>1, <2>2 DEF Shaped, Linked
  <2>4. IsAnswered(u, v, res, y)
    BY <2>3, AnsweredIs
  <2>5. f.status = "running"
    BY <1>2, <2>1 DEF GoesOn, Continues
  <2>6. PICK S : Leads(f, a, S)
    BY <1>4, <2>5 DEF May
  <2> HIDE DEF y
  <2>7. IsVisit(y) /\ y.via = u.via
    BY <2>4 DEF IsAnswered
  <2>14. res.object = v.object /\ res.policy = v.policy /\ res.revision = x /\ res = ResultOf(v, x)
    BY ResultFields
  <2>15. u = e.stack[m] /\ v = e.stack[n]
    OBVIOUS
  <2> HIDE DEF u, v, n, m, res
  <2>18. LeadsOn(c, m, y, a, S)
    BY <2>1, <2>2, <2>6, <2>7, GoesOnLeads
  <2>8. /\ Ends(y, S[m]) /\ S[1] = a
        /\ \A i \in 1..(m - 1) : Foretells(c.stack[i], S[i])
        /\ \A i \in 1..(m - 1) :
             S[i].deps[Len(c.stack[i].deps) + 1] =
               [relation |-> IF i = m - 1 THEN y.via ELSE c.stack[i + 1].via, state |-> S[i + 1]]
    BY <2>18 DEF LeadsOn
  <2>9. Ends(u, S[m]) /\ S[m].deps[Len(u.deps) + 1] = [relation |-> v.via, state |-> res]
    BY <2>3, <2>4, <2>8, AnsweredEnds
  <2> DEFINE T == [i \in 1..n |-> IF i = n THEN res ELSE S[i]]
  <2>10. T[n] = res /\ \A i \in 1..m : T[i] = S[i]
    BY <1>1, <2>2
  <2> HIDE DEF T
  <2>11. Foretells(v, T[n]) /\ Learned(v, x, T[n])
    BY <1>12, <2>10, <2>14 DEF Foretells, Learned
  <2>12. ASSUME NEW i \in 1..n PROVE Foretells(e.stack[i], T[i])
    <3>1. CASE i = n
      BY <2>11, <2>15, <3>1
    <3>2. CASE i = m
      <4>1. Foretells(u, S[m])
        BY <2>3, <2>9 DEF Foretells, Ends, Readable
      <4> QED BY <2>2, <2>10, <2>15, <3>2, <4>1
    <3>3. CASE i \in 1..(m - 1)
      BY <1>2, <2>2, <2>8, <2>10, <3>3
    <3> QED BY <1>1, <2>2, <3>1, <3>2, <3>3
  <2>13. ASSUME NEW i \in 1..(n - 1)
         PROVE  T[i].deps[Len(e.stack[i].deps) + 1] = [relation |-> e.stack[i + 1].via, state |-> T[i + 1]]
    <3>1. CASE i = m
      BY <2>2, <2>9, <2>10, <2>15, <3>1
    <3>2. CASE i \in 1..(m - 1)
      <4>1. S[i].deps[Len(e.stack[i].deps) + 1] = [relation |-> e.stack[i + 1].via, state |-> S[i + 1]]
        <5>1. i = m - 1 => e.stack[i + 1] = u
          BY <2>2, <2>15
        <5> QED BY <1>2, <2>7, <2>8, <3>2, <5>1
      <4>2. T[i] = S[i] /\ T[i + 1] = S[i + 1]
        BY <2>2, <2>10, <3>2
      <4> QED BY <4>1, <4>2
    <3> QED BY <1>1, <2>2, <3>1, <3>2
  <2>16. T[1] = a
    BY <2>2, <2>8, <2>10
  <2>17. Leads(e, a, T)
    BY <2>12, <2>13, <2>16 DEF Leads, n
  <2> QED BY <2>11, <2>17 DEF Tells, n, v
<1> QED BY <1>1, <1>6, <1>7, <1>8, <1>9, <1>10, <1>11, <1>12 DEF Readable

(* What leads an evaluation to its result is the only thing that does.     *)
LEMMA LeadsOneWay ==
    ASSUME NEW e, Shape(e), e.status = "running", NEW a, NEW T1, Leads(e, a, T1), NEW T2, Leads(e, a, T2)
    PROVE  T1[Len(e.stack)] = T2[Len(e.stack)]
<1> DEFINE n == Len(e.stack)
           S == {k \in 0..(n - 1) : T1[k + 1] = T2[k + 1]}
<1>1. n \in Nat \ {0}
  BY DEF Shape
<1> HIDE DEF n
<1>2. /\ T1[1] = a /\ T2[1] = a
      /\ \A i \in 1..(n - 1) :
           /\ T1[i].deps[Len(e.stack[i].deps) + 1] = [relation |-> e.stack[i + 1].via, state |-> T1[i + 1]]
           /\ T2[i].deps[Len(e.stack[i].deps) + 1] = [relation |-> e.stack[i + 1].via, state |-> T2[i + 1]]
  BY DEF Leads, n
<1>3. 0 \in S
  BY <1>1, <1>2
<1>4. ASSUME NEW k \in 1..(n - 1), k - 1 \in S PROVE k \in S
  <2> DEFINE d == T1[k].deps[Len(e.stack[k].deps) + 1]
  <2>1. T1[k] = T2[k]
    BY <1>1, <1>4
  <2>2. d = [relation |-> e.stack[k + 1].via, state |-> T1[k + 1]]
        /\ d = [relation |-> e.stack[k + 1].via, state |-> T2[k + 1]]
    BY <1>2, <2>1
  <2> HIDE DEF d
  <2>3. d.state = T1[k + 1] /\ d.state = T2[k + 1]
    BY <2>2
  <2>4. T1[k + 1] = T2[k + 1] /\ k \in 0..(n - 1)
    BY <1>1, <2>3
  <2> QED BY <2>4
<1>5. \A k \in 0..(n - 1) : k \in S
  <2> HIDE DEF S
  <2>1. n - 1 \in Nat
    BY <1>1
  <2>2. \A k \in 1..(n - 1) : k - 1 \in S => k \in S
    BY <1>4
  <2> QED BY <1>3, <2>1, <2>2, Inductive
<1>6. n - 1 \in S
  BY <1>1, <1>5
<1>7. T1[n] = T2[n]
  BY <1>1, <1>6
<1> QED BY <1>7 DEF n

(* Two values that tell a visit the same are the same to the evaluation.   *)
LEMMA SameRead ==
    ASSUME NEW e, Shape(e), e.status = "running", NEW x, NEW y, NEW t,
           Learned(e.stack[Len(e.stack)], x, t), Learned(e.stack[Len(e.stack)], y, t)
    PROVE  After(e, x) = After(e, y)
<1> DEFINE v == Top(e)
           read == [e EXCEPT !.reads = @ + 1]
           def == v.policy.def
<1>1. v = e.stack[Len(e.stack)] /\ v.next \in Readable
  BY DEF Shape, Top, Last
<1>2. Learned(v, x, t) /\ Learned(v, y, t)
  BY <1>1
<1> HIDE DEF v
<1>3. CASE v.next = "object"
  <2>1. x /\ y
    BY <1>2, <1>3 DEF Learned
  <2> QED BY <1>3, <2>1 DEF After, v
<1>4. CASE v.next = "policy" \/ v.next = "revision"
  <2>1. x = y
    BY <1>2, <1>4 DEF Learned
  <2> QED BY <2>1
<1>5. CASE v.next = "assurance"
  <2>1. def.required => x = y
    <3>1. def.required => {x} \ {None} = {y} \ {None}
      BY <1>2, <1>5 DEF Learned
    <3> QED BY <3>1
  <2>2. ~def.required => AssuranceBlockers(v.object, def, x) = AssuranceBlockers(v.object, def, y)
    BY DEF AssuranceBlockers
  <2>3. ASSUME ~def.required PROVE After(e, x) = After(e, y)
    <3>1. ASSUME NEW z
          PROVE  After(e, z) = WithTop(read, [v EXCEPT !.next = "incoming", !.assurances = {},
                                                       !.blockers = AssuranceBlockers(v.object, def, z)])
      BY <1>5, <2>3 DEF After, v
    <3> HIDE DEF read, def
    <3> QED BY <2>2, <2>3, <3>1
  <2> QED BY <2>1, <2>3
<1>6. CASE v.next = "incoming"
  <2>1. BlockingRelations(v.object, def, x) = BlockingRelations(v.object, def, y)
    BY <1>2, <1>6 DEF Learned
  <2>2. ASSUME NEW z
        PROVE  After(e, z) = WithTop(read, [v EXCEPT !.next = IF def.depends = {} THEN "revision" ELSE "outgoing",
                                              !.blockers = @ \cup BlockingRelations(v.object, def, z)])
    BY <1>6 DEF After, v
  <2> HIDE DEF read, def
  <2> QED BY <2>1, <2>2
<1>7. CASE v.next = "outgoing"
  <2>1. {r \in x : r.type \in def.depends} = {r \in y : r.type \in def.depends}
    BY <1>2, <1>7 DEF Learned
  <2>2. ASSUME NEW z
        PROVE  After(e, z) = Descend(WithTop(read, [v EXCEPT !.todo = {r \in z : r.type \in def.depends}]))
    BY <1>7 DEF After, v
  <2> HIDE DEF read, def
  <2> QED BY <2>1, <2>2
<1> QED BY <1>1, <1>3, <1>4, <1>5, <1>6, <1>7 DEF Readable

-----------------------------------------------------------------------------
(* The evidence only grows, and what an evaluation learned both before and  *)
(* after a moment was to be learned at that moment.                         *)

Begins(s, t) == Len(s) <= Len(t) /\ \A i \in 1..Len(s) : t[i] = s[i]

Older(u, w) ==
    /\ \A o \in Objects : u.revision[o] <= w.revision[o] /\ Begins(u.assurances[o], w.assurances[o])
    /\ \A k \in PolicyKinds : Begins(u.policies[k], w.policies[k])
    /\ Begins(u.relations, w.relations)

Proper(w) == IsWorld(w) /\ Fits(w)

LEMMA BeginsIs ==
    ASSUME NEW S, NEW s \in Seq(S)
    PROVE  Begins(s, s) /\ \A x \in S : Begins(s, Append(s, x))
BY DEF Begins

LEMMA BeginsOn ==
    ASSUME NEW S, NEW s \in Seq(S), NEW t \in Seq(S), NEW u \in Seq(S), Begins(s, t), Begins(t, u)
    PROVE  Begins(s, u)
BY DEF Begins

LEMMA Squeezed ==
    ASSUME NEW S, NEW s \in Seq(S), NEW t \in Seq(S), NEW u \in Seq(S), Begins(s, t), Begins(t, u),
           Len(s) = Len(u)
    PROVE  Len(t) = Len(s) /\ (t = <<>> <=> s = <<>>) /\ (t # <<>> => Last(t) = Last(s))
BY DEF Begins, Last

LEMMA WorldParts ==
    ASSUME NEW w, IsWorld(w), NEW o \in Objects
    PROVE  /\ w.revision[o] \in Nat
           /\ w.relations \in Seq(Relations)
           /\ w.assurances[o] \in Seq([status : STRING, scope : BOOLEAN, at : Nat])
           /\ KindOf[o] \in PolicyKinds /\ w.policies[KindOf[o]] \in Seq(Versions)
BY DEF IsWorld, PolicyKinds

LEMMA OlderSelf ==
    ASSUME NEW w, IsWorld(w)
    PROVE  Older(w, w)
<1>1. /\ w.revision \in [Objects -> Nat] /\ w.relations \in Seq(Relations)
      /\ w.policies \in [PolicyKinds -> Seq(Versions)]
      /\ w.assurances \in [Objects -> Seq([status : STRING, scope : BOOLEAN, at : Nat])]
  BY DEF IsWorld
<1>2. \A k \in PolicyKinds : Begins(w.policies[k], w.policies[k])
  <2> TAKE k \in PolicyKinds
  <2>1. w.policies[k] \in Seq(Versions)
    BY <1>1
  <2> QED BY <2>1, BeginsIs
<1>3. \A o \in Objects : w.revision[o] <= w.revision[o] /\ Begins(w.assurances[o], w.assurances[o])
  <2> TAKE o \in Objects
  <2>1. w.assurances[o] \in Seq([status : STRING, scope : BOOLEAN, at : Nat]) /\ w.revision[o] \in Nat
    BY <1>1
  <2> QED BY <2>1, BeginsIs
<1> QED BY <1>1, <1>2, <1>3, BeginsIs DEF Older

LEMMA OlderOn ==
    ASSUME NEW u, IsWorld(u), NEW v, IsWorld(v), NEW w, IsWorld(w), Older(u, v), Older(v, w)
    PROVE  Older(u, w)
<1> DEFINE A == Seq([status : STRING, scope : BOOLEAN, at : Nat])
<1>1. \A x \in {u, v, w} :
        /\ x.revision \in [Objects -> Nat] /\ x.relations \in Seq(Relations)
        /\ x.policies \in [PolicyKinds -> Seq(Versions)]
        /\ x.assurances \in [Objects -> A]
  BY DEF IsWorld
<1>2. ASSUME NEW k \in PolicyKinds PROVE Begins(u.policies[k], w.policies[k])
  <2>1. u.policies[k] \in Seq(Versions) /\ v.policies[k] \in Seq(Versions) /\ w.policies[k] \in Seq(Versions)
    BY <1>1
  <2>2. Begins(u.policies[k], v.policies[k]) /\ Begins(v.policies[k], w.policies[k])
    BY DEF Older
  <2> QED BY <2>1, <2>2, BeginsOn
<1>3. ASSUME NEW o \in Objects
      PROVE  u.revision[o] <= w.revision[o] /\ Begins(u.assurances[o], w.assurances[o])
  <2>1. /\ u.assurances[o] \in A /\ v.assurances[o] \in A /\ w.assurances[o] \in A
        /\ u.revision[o] \in Nat /\ v.revision[o] \in Nat /\ w.revision[o] \in Nat
    BY <1>1
  <2>2. /\ Begins(u.assurances[o], v.assurances[o]) /\ Begins(v.assurances[o], w.assurances[o])
        /\ u.revision[o] <= v.revision[o] /\ v.revision[o] <= w.revision[o]
    BY DEF Older
  <2>3. Begins(u.assurances[o], w.assurances[o])
    BY <2>1, <2>2, BeginsOn
  <2> QED BY <2>1, <2>2, <2>3
<1>4. Begins(u.relations, w.relations)
  <2>1. Begins(u.relations, v.relations) /\ Begins(v.relations, w.relations)
    BY DEF Older
  <2>2. u.relations \in Seq(Relations) /\ v.relations \in Seq(Relations) /\ w.relations \in Seq(Relations)
    BY <1>1
  <2> QED BY <2>1, <2>2, BeginsOn
<1> QED BY <1>2, <1>3, <1>4 DEF Older

LEMMA RelationsGrow ==
    ASSUME NEW u, Proper(u), NEW w, Proper(w), Older(u, w), NEW o \in Objects, NEW end \in {"from", "to"}
    PROVE  RelationsOf(u, o, end) \subseteq RelationsOf(w, o, end)
<1>1. /\ u.relations \in Seq(Relations) /\ w.relations \in Seq(Relations)
      /\ Begins(u.relations, w.relations)
  BY WorldParts DEF Proper, Older
<1>2. \A i \in DOMAIN u.relations : i \in DOMAIN w.relations /\ w.relations[i] = u.relations[i]
  BY <1>1 DEF Begins
<1>3. /\ RelationsOf(u, o, end) = {RelationAt(u, i) : i \in Ids(u, o, end)}
      /\ RelationsOf(w, o, end) = {RelationAt(w, i) : i \in Ids(w, o, end)}
  BY AllRelations DEF Proper
<1>4. ASSUME NEW i \in Ids(u, o, end) PROVE i \in Ids(w, o, end) /\ RelationAt(u, i) = RelationAt(w, i)
  BY <1>2 DEF Ids, RelationAt
<1> QED BY <1>3, <1>4

LEMMA SamePolicy ==
    ASSUME NEW u, IsWorld(u), NEW v, IsWorld(v), NEW w, IsWorld(w), Older(u, v), Older(v, w),
           NEW k \in PolicyKinds, PolicyOf(u, k) = PolicyOf(w, k)
    PROVE  PolicyOf(v, k) = PolicyOf(u, k)
<1> DEFINE s == u.policies[k]
           t == v.policies[k]
           z == w.policies[k]
<1>1. s \in Seq(Versions) /\ t \in Seq(Versions) /\ z \in Seq(Versions)
  BY DEF IsWorld
<1>2. Begins(s, t) /\ Begins(t, z)
  BY DEF Older
<1>3. (\A i \in 1..Len(s) : s[i].version = i) /\ (\A i \in 1..Len(z) : z[i].version = i)
  BY <1>1 DEF IsWorld
<1>4. /\ PolicyOf(u, k) = IF s = <<>> THEN None ELSE Last(s)
      /\ PolicyOf(v, k) = IF t = <<>> THEN None ELSE Last(t)
      /\ PolicyOf(w, k) = IF z = <<>> THEN None ELSE Last(z)
  BY DEF PolicyOf
<1> HIDE DEF s, t, z
<1>5. ASSUME NEW q \in Seq(Versions), q # <<>>, \A i \in 1..Len(q) : q[i].version = i
      PROVE  Last(q).version = Len(q) /\ Last(q) # None
  <2>1. Len(q) \in 1..Len(q)
    BY <1>5
  <2>2. q[Len(q)] \in Versions
    BY <1>5, <2>1
  <2> QED BY <1>5, <2>1, <2>2, NoneIsNothing DEF Last
<1>6. Len(s) = Len(z)
  <2>1. s = <<>> <=> z = <<>>
    BY <1>1, <1>3, <1>4, <1>5
  <2>2. s # <<>> => Last(s) = Last(z) /\ Last(s).version = Len(s) /\ Last(z).version = Len(z)
    BY <1>1, <1>3, <1>4, <1>5, <2>1
  <2> QED BY <2>1, <2>2
<1>7. Len(t) = Len(s) /\ (t = <<>> <=> s = <<>>) /\ (t # <<>> => Last(t) = Last(s))
  BY <1>1, <1>2, <1>6, Squeezed
<1> QED BY <1>4, <1>7

LEMMA SameHead ==
    ASSUME NEW u, IsWorld(u), NEW v, IsWorld(v), NEW w, IsWorld(w), Older(u, v), Older(v, w),
           NEW o \in Objects, Head_(u, o) = Head_(w, o)
    PROVE  Head_(v, o) = Head_(u, o)
<1>1. u.revision[o] \in Nat /\ v.revision[o] \in Nat /\ w.revision[o] \in Nat
  BY WorldParts
<1>2. u.revision[o] <= v.revision[o] /\ v.revision[o] <= w.revision[o]
  BY DEF Older
<1> QED BY <1>1, <1>2, NoneIsNothing DEF Head_

LEMMA SameAssurance ==
    ASSUME NEW u, IsWorld(u), NEW v, IsWorld(v), NEW w, IsWorld(w), Older(u, v), Older(v, w),
           NEW o \in Objects, AssuranceOf(u, o) = AssuranceOf(w, o)
    PROVE  AssuranceOf(v, o) = AssuranceOf(u, o)
<1> DEFINE A == [status : STRING, scope : BOOLEAN, at : Nat]
           s == u.assurances[o]
           t == v.assurances[o]
           z == w.assurances[o]
           Known(q, rev) == [id |-> Len(q), status |-> Last(q).status, scope |-> Last(q).scope,
                             stale |-> Last(q).at # rev]
<1>1. /\ s \in Seq(A) /\ t \in Seq(A) /\ z \in Seq(A)
      /\ u.revision[o] \in Nat /\ v.revision[o] \in Nat /\ w.revision[o] \in Nat
  BY WorldParts
<1>2. /\ Begins(s, t) /\ Begins(t, z)
      /\ u.revision[o] <= v.revision[o] /\ v.revision[o] <= w.revision[o]
  BY DEF Older
<1>3. \A i \in DOMAIN s : s[i].at \in 1..u.revision[o]
  BY DEF IsWorld
<1>4. /\ AssuranceOf(u, o) = IF s = <<>> THEN None ELSE Known(s, u.revision[o])
      /\ AssuranceOf(v, o) = IF t = <<>> THEN None ELSE Known(t, v.revision[o])
      /\ AssuranceOf(w, o) = IF z = <<>> THEN None ELSE Known(z, w.revision[o])
  BY DEF AssuranceOf
<1> HIDE DEF s, t, z
<1>5. ASSUME NEW q \in Seq(A), q # <<>>, NEW rev \in Nat PROVE Known(q, rev) # None
  <2>1. Last(q) \in A /\ Len(q) \in Nat
    <3> HIDE DEF A
    <3>1. Len(q) \in 1..Len(q)
      BY <1>5
    <3> QED BY <1>5, <3>1 DEF Last
  <2>2. Known(q, rev) \in [id : Nat, status : STRING, scope : BOOLEAN, stale : BOOLEAN]
    BY <2>1
  <2> QED BY <2>2, NoneIsNothing
<1>6. s = <<>> <=> z = <<>>
  BY <1>1, <1>4, <1>5
<1>7. s # <<>> => Known(s, u.revision[o]) = Known(z, w.revision[o])
  BY <1>4, <1>6
<1>8. s # <<>> => Len(s) = Len(z)
                  /\ (Last(s).at # u.revision[o]) = (Last(z).at # w.revision[o])
  BY <1>7
<1>9. Len(t) = Len(s) /\ (t = <<>> <=> s = <<>>) /\ (t # <<>> => Last(t) = Last(s))
  BY <1>1, <1>2, <1>6, <1>8, Squeezed
<1>10. s # <<>> => Last(z) = Last(s)
  <2>1. Begins(s, z)
    BY <1>1, <1>2, BeginsOn
  <2>2. Begins(z, z)
    BY <1>1, BeginsIs
  <2> QED BY <1>1, <1>6, <1>8, <2>1, <2>2, Squeezed
<1>11. s # <<>> => Last(s).at \in 1..u.revision[o]
  BY <1>1, <1>3 DEF Last
<1>12. s # <<>> => (Last(t).at # v.revision[o]) = (Last(s).at # u.revision[o])
  <2>1. s # <<>> => (Last(s).at = u.revision[o] <=> Last(s).at = w.revision[o])
    BY <1>8, <1>10
  <2>2. s # <<>> => (Last(s).at = v.revision[o] <=> Last(s).at = u.revision[o])
    BY <1>1, <1>2, <1>11, <2>1
  <2> QED BY <1>9, <2>2
<1> QED BY <1>4, <1>9, <1>12

(* What a visit learned of an older and of a newer world, it would have     *)
(* learned of the world in between.                                         *)
LEMMA Between ==
    ASSUME NEW u, Proper(u), NEW w, Proper(w), NEW z, Proper(z), Older(u, w), Older(w, z),
           NEW v, v.object \in Objects, v.next \in Readable, NEW t,
           Learned(v, Cell(u, v.object, v.next), t), Learned(v, Cell(z, v.object, v.next), t)
    PROVE  Learned(v, Cell(w, v.object, v.next), t)
<1> DEFINE o == v.object
<1>1. IsWorld(u) /\ IsWorld(w) /\ IsWorld(z)
  BY DEF Proper
<1>2. KindOf[o] \in PolicyKinds
  BY <1>1, WorldParts
<1>3. \A x \in {u, w, z} :
        /\ Cell(x, o, "object") = (x.revision[o] > 0) /\ Cell(x, o, "policy") = PolicyOf(x, KindOf[o])
        /\ Cell(x, o, "assurance") = AssuranceOf(x, o)
        /\ Cell(x, o, "incoming") = RelationsOf(x, o, "to")
        /\ Cell(x, o, "outgoing") = RelationsOf(x, o, "from")
        /\ Cell(x, o, "revision") = Head_(x, o)
  BY CellIs
<1>4. CASE v.next = "object"
  <2>1. u.revision[o] > 0
    BY <1>3, <1>4 DEF Learned
  <2>2. u.revision[o] \in Nat /\ w.revision[o] \in Nat /\ u.revision[o] <= w.revision[o]
    BY <1>1, WorldParts DEF Older
  <2>3. w.revision[o] > 0
    BY <2>1, <2>2
  <2>4. Cell(w, o, "object") = (w.revision[o] > 0)
    BY CellIs
  <2>5. Cell(w, o, "object")
    BY <2>3, <2>4
  <2> QED BY <1>4, <2>5 DEF Learned
<1>5. CASE v.next = "policy"
  <2>1. PolicyOf(u, KindOf[o]) = t.policy /\ PolicyOf(z, KindOf[o]) = t.policy
    BY <1>3, <1>5 DEF Learned
  <2>2. PolicyOf(w, KindOf[o]) = t.policy
    BY <1>1, <1>2, <2>1, SamePolicy
  <2> QED BY <1>3, <1>5, <2>2 DEF Learned
<1>6. CASE v.next = "assurance"
  <2>1. ASSUME v.policy.def.required PROVE {AssuranceOf(w, o)} \ {None} = t.assurances
    <3>1. {AssuranceOf(u, o)} \ {None} = t.assurances /\ {AssuranceOf(z, o)} \ {None} = t.assurances
      BY <1>3, <1>6, <2>1 DEF Learned
    <3>2. AssuranceOf(u, o) = AssuranceOf(z, o)
      BY <3>1
    <3>3. AssuranceOf(w, o) = AssuranceOf(u, o)
      BY <1>1, <3>2, SameAssurance
    <3> QED BY <3>1, <3>3
  <2> QED BY <1>3, <1>6, <2>1 DEF Learned
<1>7. CASE v.next = "incoming"
  <2> DEFINE B(x) == BlockingRelations(o, v.policy.def, RelationsOf(x, o, "to"))
  <2>1. B(u) = Blocking(t) /\ B(z) = Blocking(t)
    BY <1>3, <1>7 DEF Learned
  <2>2. RelationsOf(u, o, "to") \subseteq RelationsOf(w, o, "to")
        /\ RelationsOf(w, o, "to") \subseteq RelationsOf(z, o, "to")
    BY RelationsGrow
  <2>3. B(u) \subseteq B(w) /\ B(w) \subseteq B(z)
    BY <2>2 DEF BlockingRelations
  <2>4. B(w) = Blocking(t)
    <3> HIDE DEF B
    <3> QED BY <2>1, <2>3
  <2> QED BY <1>3, <1>7, <2>4 DEF Learned
<1>8. CASE v.next = "outgoing"
  <2> DEFINE D(x) == {r \in RelationsOf(x, o, "from") : r.type \in v.policy.def.depends}
  <2>1. D(u) = Later(t, 1) /\ D(z) = Later(t, 1)
    BY <1>3, <1>8 DEF Learned
  <2>2. RelationsOf(u, o, "from") \subseteq RelationsOf(w, o, "from")
        /\ RelationsOf(w, o, "from") \subseteq RelationsOf(z, o, "from")
    BY RelationsGrow
  <2>3. D(u) \subseteq D(w) /\ D(w) \subseteq D(z)
    BY <2>2
  <2>4. D(w) = Later(t, 1)
    <3> HIDE DEF D
    <3> QED BY <2>1, <2>3
  <2> QED BY <1>3, <1>8, <2>4 DEF Learned
<1>9. CASE v.next = "revision"
  <2>1. Head_(u, o) = t.revision /\ Head_(z, o) = t.revision
    BY <1>3, <1>9 DEF Learned
  <2>2. Head_(w, o) = t.revision
    BY <1>1, <2>1, SameHead
  <2> QED BY <1>3, <1>9, <2>2 DEF Learned
<1> QED BY <1>4, <1>5, <1>6, <1>7, <1>8, <1>9 DEF Readable

-----------------------------------------------------------------------------
(* Evaluations whose evidence changes while they read it                   *)

(* The n-th read of the evaluation s was of the world ws[n].               *)
Path(s, ws, n, root) ==
    /\ s[0] = Evaluate(root)
    /\ \A i \in 1..n : s[i - 1].status = "running" /\ s[i] = ReadNext(ws[i], s[i - 1])

(* All its reads were of worlds from lo to hi.                             *)
Observes(lo, hi, root, e) ==
    \E n \in 0..MaxReads : \E s, ws :
      /\ Path(s, ws, n, root) /\ s[n] = e
      /\ \A i \in 1..n : Proper(ws[i]) /\ Older(lo, ws[i]) /\ Older(ws[i], hi)

Finished(lo, hi, root, a) == \E e : Observes(lo, hi, root, e) /\ e.status = "done" /\ e.result = a

LEMMA PathShape ==
    ASSUME NEW n \in Nat, NEW root, NEW s, NEW ws, Path(s, ws, n, root)
    PROVE  \A k \in 0..n : Shape(s[k]) /\ s[k].reads = k
<1> DEFINE T == {k \in 0..n : Shape(s[k]) /\ s[k].reads = k}
<1>1. 0 \in T
  BY Started DEF Path
<1>2. ASSUME NEW k \in 1..n, k - 1 \in T PROVE k \in T
  <2>1. Shape(s[k - 1]) /\ s[k - 1].reads = k - 1 /\ s[k - 1].status = "running"
        /\ s[k] = After(s[k - 1], Sees(ws[k], s[k - 1]))
    BY <1>2, ReadNextIs DEF Path
  <2>2. Shape(s[k]) /\ s[k].reads = s[k - 1].reads + 1
    BY <2>1, Movement
  <2> QED BY <2>1, <2>2
<1>3. \A k \in 1..n : k - 1 \in T => k \in T
  BY <1>2
<1> HIDE DEF T
<1>4. \A k \in 0..n : k \in T
  BY <1>1, <1>3, Inductive
<1> QED BY <1>4 DEF T

(* The assessment at the end of an evaluation says of each of its reads    *)
(* what it was.                                                            *)
LEMMA PathTells ==
    ASSUME NEW n \in Nat, NEW root, NEW s, NEW ws, Path(s, ws, n, root),
           NEW a, s[n].status = "done", s[n].result = a
    PROVE  \A k \in 1..n : Tells(s[k - 1], a, Sees(ws[k], s[k - 1]))
<1>1. ASSUME NEW k \in 1..n, May(s[k], a) PROVE Tells(s[k - 1], a, Sees(ws[k], s[k - 1])) /\ May(s[k - 1], a)
  <2>1. Shape(s[k - 1]) /\ s[k - 1].status = "running" /\ s[k] = After(s[k - 1], Sees(ws[k], s[k - 1]))
    <3>1. k - 1 \in 0..n
      OBVIOUS
    <3>2. s[k - 1].status = "running" /\ s[k] = ReadNext(ws[k], s[k - 1])
      BY DEF Path
    <3> QED BY <3>1, <3>2, PathShape, ReadNextIs
  <2>2. Tells(s[k - 1], a, Sees(ws[k], s[k - 1]))
    BY <1>1, <2>1, Reveals
  <2> QED BY <2>1, <2>2 DEF Tells, May
<1> DEFINE T == {j \in 0..n : May(s[n - j], a)}
<1>2. 0 \in T
  <2>1. May(s[n], a)
    BY DEF May
  <2> QED BY <2>1
<1>3. ASSUME NEW j \in 1..n, j - 1 \in T PROVE j \in T
  <2>1. May(s[n - (j - 1)], a) /\ n - (j - 1) \in 1..n /\ (n - (j - 1)) - 1 = n - j
    BY <1>3
  <2>2. May(s[(n - (j - 1)) - 1], a)
    BY <1>1, <2>1
  <2> QED BY <2>1, <2>2
<1>4. \A j \in 1..n : j - 1 \in T => j \in T
  BY <1>3
<1>5. \A j \in 0..n : j \in T
  <2> HIDE DEF T
  <2> QED BY <1>2, <1>4, Inductive
<1>6. ASSUME NEW k \in 1..n PROVE Tells(s[k - 1], a, Sees(ws[k], s[k - 1]))
  <2>1. n - k \in 0..n /\ n - (n - k) = k
    OBVIOUS
  <2>2. May(s[k], a)
    BY <1>5, <2>1
  <2> QED BY <1>1, <2>2
<1> QED BY <1>6

(* One read of an evaluation, in a world between two in which the same      *)
(* result was on its way.                                                   *)
LEMMA ReadBetween ==
    ASSUME NEW e, Shape(e), e.status = "running", Located(e), NEW a,
           NEW u, Proper(u), NEW w, Proper(w), NEW z, Proper(z), Older(u, w), Older(w, z),
           Tells(e, a, Sees(u, e)), Tells(e, a, Sees(z, e))
    PROVE  ReadNext(w, e) = ReadNext(u, e) /\ ReadNext(w, e) = ReadNext(z, e)
<1> DEFINE n == Len(e.stack)
           v == e.stack[n]
<1>1. n \in Nat \ {0} /\ v.next \in Readable
  BY DEF Shape
<1>2. v.object \in Objects
  <2>1. n \in 1..n
    BY <1>1
  <2> HIDE DEF n
  <2> QED BY <2>1 DEF Located, Places, n
<1>3. PICK T1 : Leads(e, a, T1) /\ Learned(v, Sees(u, e), T1[n])
  BY DEF Tells
<1>4. PICK T2 : Leads(e, a, T2) /\ Learned(v, Sees(z, e), T2[n])
  BY DEF Tells
<1>5. T1[n] = T2[n]
  BY <1>3, <1>4, LeadsOneWay
<1>6. /\ Sees(u, e) = Cell(u, v.object, v.next) /\ Sees(w, e) = Cell(w, v.object, v.next)
      /\ Sees(z, e) = Cell(z, v.object, v.next)
  BY DEF Sees
<1> DEFINE t == T1[n]
<1>7. Learned(v, Sees(u, e), t) /\ Learned(v, Sees(z, e), t)
  BY <1>3, <1>4, <1>5
<1> HIDE DEF t
<1>8. Learned(v, Sees(w, e), t)
  <2> HIDE DEF v
  <2> QED BY <1>1, <1>2, <1>6, <1>7, Between
<1>9. After(e, Sees(w, e)) = After(e, Sees(u, e)) /\ After(e, Sees(w, e)) = After(e, Sees(z, e))
  BY <1>7, <1>8, SameRead
<1> QED BY <1>9, ReadNextIs

(* An evaluation that read older worlds only and one that read newer worlds *)
(* only come to the same assessment: it is that of the world in between.   *)
LEMMA Sandwich ==
    ASSUME NEW lo, NEW w, Proper(w), NEW hi, NEW root \in Objects, NEW a,
           Finished(lo, w, root, a), Finished(w, hi, root, a)
    PROVE  Gives(w, root, a)
<1>1. PICK n \in 0..MaxReads : \E s, us :
        /\ Path(s, us, n, root) /\ s[n].status = "done" /\ s[n].result = a
        /\ \A i \in 1..n : Proper(us[i]) /\ Older(us[i], w)
  BY DEF Finished, Observes
<1>2. PICK s, us :
        /\ Path(s, us, n, root) /\ s[n].status = "done" /\ s[n].result = a
        /\ \A i \in 1..n : Proper(us[i]) /\ Older(us[i], w)
  BY <1>1
<1>3. PICK m \in 0..MaxReads : \E y, zs :
        /\ Path(y, zs, m, root) /\ y[m].status = "done" /\ y[m].result = a
        /\ \A i \in 1..m : Proper(zs[i]) /\ Older(w, zs[i])
  BY DEF Finished, Observes
<1>4. PICK y, zs :
        /\ Path(y, zs, m, root) /\ y[m].status = "done" /\ y[m].result = a
        /\ \A i \in 1..m : Proper(zs[i]) /\ Older(w, zs[i])
  BY <1>3
<1>5. PICK run : IsRun(run, w, root) /\ EvaluateIn(w, root) = run[MaxReads]
  BY EvaluationRuns
<1>6. MaxReads \in Nat /\ n \in Nat /\ m \in Nat /\ IsWorld(w)
  BY ConstantsFit DEF Proper
<1> DEFINE T == {k \in 0..n : k <= m /\ run[k] = s[k] /\ run[k] = y[k]}
<1>7. 0 \in T
  BY <1>2, <1>4, <1>5, <1>6 DEF IsRun, Path
<1>8. ASSUME NEW k \in 1..n, k - 1 \in T PROVE k \in T
  <2> DEFINE e == run[k - 1]
  <2>1. k - 1 <= m /\ e = s[k - 1] /\ e = y[k - 1]
    BY <1>8
  <2>2. e.status = "running" /\ s[k] = ReadNext(us[k], e)
    BY <1>2, <2>1 DEF Path
  <2>3. k <= m
    <3>1. k - 1 # m
      BY <1>4, <2>1, <2>2
    <3> QED BY <1>6, <2>1, <3>1
  <2>4. k \in 1..m /\ y[k] = ReadNext(zs[k], e)
    BY <1>4, <1>6, <2>1, <2>3 DEF Path
  <2>5. run[k] = ReadNext(w, e)
    BY <1>5, <1>6, <2>2 DEF IsRun
  <2>6. Shape(e) /\ Located(e)
    <3>1. k - 1 \in 0..MaxReads
      BY <1>6
    <3> QED BY <1>5, <1>6, <3>1, RunShape, RunLocated
  <2>7. Tells(e, a, Sees(us[k], e))
    BY <1>2, <1>6, <2>1, PathTells
  <2>8. Tells(e, a, Sees(zs[k], e))
    BY <1>4, <1>6, <2>1, <2>4, PathTells
  <2>9. Proper(us[k]) /\ Older(us[k], w) /\ Proper(zs[k]) /\ Older(w, zs[k])
    BY <1>2, <1>4, <2>4
  <2> HIDE DEF e
  <2>10. ReadNext(w, e) = ReadNext(us[k], e) /\ ReadNext(w, e) = ReadNext(zs[k], e)
    BY <2>2, <2>6, <2>7, <2>8, <2>9, ReadBetween
  <2>11. run[k] = s[k] /\ run[k] = y[k]
    BY <2>2, <2>4, <2>5, <2>10
  <2>12. k \in 0..n
    BY <1>6
  <2> QED BY <2>3, <2>11, <2>12
<1>9. \A k \in 1..n : k - 1 \in T => k \in T
  BY <1>8
<1>10. n \in T
  <2> HIDE DEF T
  <2>1. \A k \in 0..n : k \in T
    BY <1>6, <1>7, <1>9, Inductive
  <2> QED BY <1>6, <2>1
<1>11. run[n] = s[n]
  BY <1>10
<1>12. run[MaxReads] = run[n]
  BY <1>2, <1>5, <1>11, RunStays
<1> QED BY <1>2, <1>5, <1>11, <1>12 DEF Gives

(* One read more.                                                           *)
LEMMA ObservesOn ==
    ASSUME NEW lo, NEW hi, NEW root, NEW e, Observes(lo, hi, root, e), e.status = "running",
           e.reads < MaxReads, NEW u, Proper(u), Older(lo, u), Older(u, hi)
    PROVE  Observes(lo, hi, root, ReadNext(u, e))
<1>1. PICK n \in 0..MaxReads : \E s, ws :
        /\ Path(s, ws, n, root) /\ s[n] = e
        /\ \A i \in 1..n : Proper(ws[i]) /\ Older(lo, ws[i]) /\ Older(ws[i], hi)
  BY DEF Observes
<1>2. PICK s, ws :
        /\ Path(s, ws, n, root) /\ s[n] = e
        /\ \A i \in 1..n : Proper(ws[i]) /\ Older(lo, ws[i]) /\ Older(ws[i], hi)
  BY <1>1
<1>3. MaxReads \in Nat /\ n \in Nat
  BY ConstantsFit
<1>4. e.reads = n
  BY <1>2, <1>3, PathShape
<1>5. n + 1 \in 0..MaxReads
  BY <1>3, <1>4
<1> DEFINE s2 == [i \in 0..(n + 1) |-> IF i = n + 1 THEN ReadNext(u, e) ELSE s[i]]
           ws2 == [i \in 1..(n + 1) |-> IF i = n + 1 THEN u ELSE ws[i]]
<1>6. /\ \A i \in 0..n : s2[i] = s[i]
      /\ s2[n + 1] = ReadNext(u, e)
      /\ \A i \in 1..n : ws2[i] = ws[i]
      /\ ws2[n + 1] = u
  BY <1>3
<1> HIDE DEF s2, ws2
<1>7. Path(s2, ws2, n + 1, root)
  <2>1. s2[0] = Evaluate(root)
    BY <1>2, <1>3, <1>6 DEF Path
  <2>2. ASSUME NEW i \in 1..(n + 1) PROVE s2[i - 1].status = "running" /\ s2[i] = ReadNext(ws2[i], s2[i - 1])
    <3>1. CASE i = n + 1
      <4>1. s2[i - 1] = e /\ s2[i] = ReadNext(u, e) /\ ws2[i] = u
        BY <1>2, <1>3, <1>6, <3>1
      <4> QED BY <4>1
    <3>2. CASE i \in 1..n
      <4>1. s2[i - 1] = s[i - 1] /\ s2[i] = s[i] /\ ws2[i] = ws[i]
        BY <1>3, <1>6, <3>2
      <4> QED BY <1>2, <3>2, <4>1 DEF Path
    <3> QED BY <1>3, <3>1, <3>2
  <2> QED BY <2>1, <2>2 DEF Path
<1>8. \A i \in 1..(n + 1) : Proper(ws2[i]) /\ Older(lo, ws2[i]) /\ Older(ws2[i], hi)
  <2> TAKE i \in 1..(n + 1)
  <2>1. CASE i = n + 1
    BY <1>6, <2>1
  <2>2. CASE i \in 1..n
    BY <1>2, <1>6, <2>2
  <2> QED BY <1>3, <2>1, <2>2
<1> QED BY <1>5, <1>6, <1>7, <1>8 DEF Observes

LEMMA ObservesFirst ==
    ASSUME NEW lo, NEW hi, NEW root
    PROVE  Observes(lo, hi, root, Evaluate(root))
<1> DEFINE s == [i \in {0} |-> Evaluate(root)]
<1>1. s[0] = Evaluate(root)
  OBVIOUS
<1> HIDE DEF s
<1>2. 0 \in 0..MaxReads
  BY ConstantsFit
<1>3. Path(s, s, 0, root)
  BY <1>1 DEF Path
<1>4. \A i \in 1..0 : Proper(s[i]) /\ Older(lo, s[i]) /\ Older(s[i], hi)
  OBVIOUS
<1> QED BY <1>1, <1>2, <1>3, <1>4 DEF Observes

LEMMA ObservesLater ==
    ASSUME NEW lo, NEW hi, IsWorld(hi), NEW now, IsWorld(now), Older(hi, now),
           NEW root, NEW e, Observes(lo, hi, root, e)
    PROVE  Observes(lo, now, root, e)
<1>1. PICK n \in 0..MaxReads : \E s, ws :
        /\ Path(s, ws, n, root) /\ s[n] = e
        /\ \A i \in 1..n : Proper(ws[i]) /\ Older(lo, ws[i]) /\ Older(ws[i], hi)
  BY DEF Observes
<1>2. PICK s, ws :
        /\ Path(s, ws, n, root) /\ s[n] = e
        /\ \A i \in 1..n : Proper(ws[i]) /\ Older(lo, ws[i]) /\ Older(ws[i], hi)
  BY <1>1
<1>3. \A i \in 1..n : Older(ws[i], now)
  BY <1>2, OlderOn DEF Proper
<1> QED BY <1>2, <1>3 DEF Observes

LEMMA FinishedLater ==
    ASSUME NEW lo, NEW hi, IsWorld(hi), NEW now, IsWorld(now), Older(hi, now),
           NEW root, NEW a, Finished(lo, hi, root, a)
    PROVE  Finished(lo, now, root, a)
BY ObservesLater DEF Finished

-----------------------------------------------------------------------------
(* What the callers and the receipts have of the evidence, by the place     *)
(* where a caller is.  Said of a call k, of receipts rs and of the present  *)
(* world w.                                                                 *)

(* The worlds that a call has seen led to this one.                         *)
Lived(k, w) ==
    /\ IsSequence(k.seen) /\ Len(k.seen) \in Nat \ {0} /\ k.seen[Len(k.seen)] = w
    /\ \A i \in 1..Len(k.seen) : Proper(k.seen[i]) /\ Older(k.seen[i], w)

(* The first observation is under way.                                      *)
ObservingFirst(k, w) == Observes(k.seen[1], w, k.req.object, k.eval)

(* It ended at a moment before which the second one has not begun.         *)
ObservingAgain(k, w) ==
    \E m \in 1..Len(k.seen) :
      /\ Finished(k.seen[1], k.seen[m], k.req.object, k.kept)
      /\ Observes(k.seen[m], w, k.req.object, k.eval)

(* Both agreed, or one was enough.                                          *)
Observed(k, w) ==
    /\ Finished(k.seen[1], w, k.req.object, k.kept)
    /\ k.req.exact => \E m \in 1..Len(k.seen) : Gives(k.seen[m], k.req.object, k.kept)

(* A verification compares what was read before with what is read since.   *)
Comparing(k, w, r) ==
    /\ \E lo : Finished(lo, k.seen[1], r.req.object, r.assessment)
    /\ k.pc # "verdict" => Observes(k.seen[1], w, r.req.object, k.eval)
    /\ k.pc = "verdict" /\ k.reasons = {} => Gives(k.seen[1], r.req.object, r.assessment)

Sure(k, w, rs) ==
    k # Idle =>
      /\ Lived(k, w)
      /\ k.pc \in {"reliant", "first"} => ObservingFirst(k, w)
      /\ k.pc \in {"pins", "second"} => ObservingAgain(k, w)
      /\ k.pc \in {"pins again", "reliant again", "insert"} => Observed(k, w)
      /\ k.pc \in VerifyPcs => k.receipt \in 1..Len(rs) /\ Comparing(k, w, rs[k.receipt])

Backed(w, rs) ==
    \A i \in 1..Len(rs) : \E lo : Finished(lo, w, rs[i].req.object, rs[i].assessment)

SureInv == Backed(World, receipts) /\ \A c \in Callers : Sure(call[c], World, receipts)

(* The evidence only grows.                                                 *)
LEMMA WorldGrows ==
    ASSUME IsWorld(World), EvidenceChanges
    PROVE  Older(World, World')
<1> DEFINE A == Seq([status : STRING, scope : BOOLEAN, at : Nat])
<1>1. /\ revision \in [Objects -> Nat] /\ relations \in Seq(Relations)
      /\ policies \in [PolicyKinds -> Seq(Versions)] /\ assurances \in [Objects -> A]
  BY DEF IsWorld, World
<1>2. \A o \in Objects : revision[o] <= revision[o] /\ Begins(assurances[o], assurances[o])
  <2> TAKE o \in Objects
  <2>1. assurances[o] \in A /\ revision[o] \in Nat
    BY <1>1
  <2> QED BY <2>1, BeginsIs
<1>3. \A k \in PolicyKinds : Begins(policies[k], policies[k])
  <2> TAKE k \in PolicyKinds
  <2>1. policies[k] \in Seq(Versions)
    BY <1>1
  <2> QED BY <2>1, BeginsIs
<1>4. Begins(relations, relations)
  BY <1>1, BeginsIs
<1>5. ASSUME \A o \in Objects : revision[o] <= revision'[o] /\ Begins(assurances[o], assurances'[o]),
             \A k \in PolicyKinds : Begins(policies[k], policies'[k]),
             Begins(relations, relations')
      PROVE  Older(World, World')
  BY <1>5 DEF Older, World
<1>6. ASSUME NEW o \in Revisable, Revise(o) PROVE Older(World, World')
  <2>1. revision' = [revision EXCEPT ![o] = @ + 1] /\ relations' = relations /\ policies' = policies
        /\ assurances' = assurances /\ o \in Objects
    BY <1>6, ConstantsFit DEF Revise
  <2>2. \A q \in Objects : revision[q] <= revision'[q]
    BY <1>1, <2>1
  <2> QED BY <1>2, <1>3, <1>4, <1>5, <2>1, <2>2
<1>7. ASSUME NEW r \in NewRelations, CreateRelation(r) PROVE Older(World, World')
  <2>1. relations' = Append(relations, r) /\ revision' = revision /\ policies' = policies
        /\ assurances' = assurances /\ r \in Relations
    BY <1>7, ConstantsFit DEF CreateRelation
  <2>2. Begins(relations, relations')
    BY <1>1, <2>1, BeginsIs
  <2> QED BY <1>2, <1>3, <1>5, <2>1, <2>2
<1>8. ASSUME NEW p \in NewPolicies, Register(p.kind, p.def) PROVE Older(World, World')
  <2> DEFINE x == [version |-> Len(policies[p.kind]) + 1, def |-> p.def]
  <2>1. /\ policies' = [policies EXCEPT ![p.kind] = Append(policies[p.kind], x)]
        /\ relations' = relations /\ revision' = revision /\ assurances' = assurances
        /\ p.kind \in PolicyKinds /\ p.def \in Definitions
    BY <1>1, <1>8, ConstantsFit DEF Register
  <2>2. policies[p.kind] \in Seq(Versions)
    BY <1>1, <2>1
  <2>3. x \in Versions
    BY <2>1, <2>2 DEF Versions
  <2> HIDE DEF x
  <2>4. Begins(policies[p.kind], Append(policies[p.kind], x))
    BY <2>2, <2>3, BeginsIs
  <2>5. \A k \in PolicyKinds : Begins(policies[k], policies'[k])
    <3> TAKE k \in PolicyKinds
    <3>1. policies'[k] = IF k = p.kind THEN Append(policies[k], x) ELSE policies[k]
      BY <1>1, <2>1
    <3> QED BY <1>3, <2>4, <3>1
  <2> QED BY <1>2, <1>4, <1>5, <2>1, <2>5
<1>9. ASSUME NEW a \in NewAssurances, Assure(a) PROVE Older(World, World')
  <2> DEFINE x == [status |-> a.status, scope |-> a.scope, at |-> revision[a.object]]
  <2>1. /\ assurances' = [assurances EXCEPT ![a.object] = Append(assurances[a.object], x)]
        /\ relations' = relations /\ revision' = revision /\ policies' = policies
        /\ a.object \in Objects /\ a.status \in STRING /\ a.scope \in BOOLEAN
    BY <1>1, <1>9, ConstantsFit DEF Assure
  <2>2. assurances[a.object] \in A /\ revision[a.object] \in Nat
    BY <1>1, <2>1
  <2>3. x \in [status : STRING, scope : BOOLEAN, at : Nat]
    BY <2>1, <2>2
  <2> HIDE DEF x
  <2>4. Begins(assurances[a.object], Append(assurances[a.object], x))
    BY <2>2, <2>3, BeginsIs
  <2>5. \A o \in Objects : revision[o] <= revision'[o] /\ Begins(assurances[o], assurances'[o])
    <3> TAKE o \in Objects
    <3>1. assurances'[o] = IF o = a.object THEN Append(assurances[o], x) ELSE assurances[o]
      BY <1>1, <2>1
    <3> QED BY <1>2, <2>1, <2>4, <3>1
  <2> QED BY <1>3, <1>4, <1>5, <2>1, <2>5
<1> QED BY <1>6, <1>7, <1>8, <1>9 DEF EvidenceChanges

(* A change adds a world to what a call has seen.                           *)
LEMMA LivedOn ==
    ASSUME NEW k, NEW w, Lived(k, w), NEW z, Proper(z), Older(w, z), NEW n, n.seen = Append(k.seen, z)
    PROVE  /\ Lived(n, z)
           /\ Len(k.seen) \in Nat \ {0} /\ Len(n.seen) = Len(k.seen) + 1
           /\ \A i \in 1..Len(k.seen) : n.seen[i] = k.seen[i]
           /\ IsWorld(w) /\ IsWorld(z)
<1>1. /\ IsSequence(n.seen) /\ Len(n.seen) = Len(k.seen) + 1 /\ Len(k.seen) \in Nat \ {0}
      /\ \A i \in 1..Len(k.seen) : n.seen[i] = k.seen[i]
      /\ n.seen[Len(k.seen) + 1] = z
  BY Grown DEF Lived
<1>2. IsWorld(z) /\ IsWorld(w)
  <2>1. Len(k.seen) \in 1..Len(k.seen)
    BY <1>1
  <2> QED BY <2>1 DEF Lived, Proper
<1>3. \A i \in 1..Len(n.seen) : Proper(n.seen[i]) /\ Older(n.seen[i], z)
  <2> TAKE i \in 1..Len(n.seen)
  <2>1. CASE i \in 1..Len(k.seen)
    <3>1. Proper(k.seen[i]) /\ Older(k.seen[i], w) /\ n.seen[i] = k.seen[i]
      BY <1>1, <2>1 DEF Lived
    <3>2. Older(k.seen[i], z)
      BY <1>2, <3>1, OlderOn DEF Proper
    <3> QED BY <3>1, <3>2
  <2>2. CASE i = Len(k.seen) + 1
    BY <1>1, <1>2, <2>2, OlderSelf
  <2> QED BY <1>1, <2>1, <2>2
<1> QED BY <1>1, <1>2, <1>3 DEF Lived

LEMMA SureLater ==
    ASSUME NEW k, k # Idle, NEW w, NEW rs, Sure(k, w, rs), NEW z, Proper(z), Older(w, z),
           NEW n, n.seen = Append(k.seen, z), n.pc = k.pc, n.eval = k.eval,
           k.pc \in IssuePcs => n.req = k.req /\ n.kept = k.kept,
           k.pc \in VerifyPcs => n.receipt = k.receipt /\ n.reasons = k.reasons
    PROVE  Sure(n, z, rs)
<1>1. /\ Lived(n, z) /\ Len(k.seen) \in Nat \ {0} /\ Len(n.seen) = Len(k.seen) + 1
      /\ \A i \in 1..Len(k.seen) : n.seen[i] = k.seen[i]
      /\ IsWorld(w) /\ IsWorld(z)
  <2>1. Lived(k, w)
    BY DEF Sure
  <2> QED BY <2>1, LivedOn
<1>2. n.seen[1] = k.seen[1] /\ \A m \in 1..Len(k.seen) : m \in 1..Len(n.seen) /\ n.seen[m] = k.seen[m]
  BY <1>1
<1>3. \A lo, root, e : Observes(lo, w, root, e) => Observes(lo, z, root, e)
  BY <1>1, ObservesLater
<1>4. \A lo, root, a : Finished(lo, w, root, a) => Finished(lo, z, root, a)
  BY <1>1, FinishedLater
<1>5. k.pc \in {"reliant", "first"} => ObservingFirst(n, z)
  BY <1>2, <1>3 DEF Sure, ObservingFirst, IssuePcs
<1>6. ASSUME k.pc \in {"pins", "second"} PROVE ObservingAgain(n, z)
  <2>1. n.req = k.req /\ n.kept = k.kept
    BY <1>6 DEF IssuePcs
  <2>2. PICK m \in 1..Len(k.seen) :
          Finished(k.seen[1], k.seen[m], k.req.object, k.kept) /\ Observes(k.seen[m], w, k.req.object, k.eval)
    BY <1>6 DEF Sure, ObservingAgain
  <2>3. Finished(n.seen[1], n.seen[m], n.req.object, n.kept) /\ Observes(n.seen[m], z, n.req.object, n.eval)
    BY <1>2, <1>3, <2>1, <2>2
  <2> QED BY <1>2, <2>3 DEF ObservingAgain
<1>7. ASSUME k.pc \in {"pins again", "reliant again", "insert"} PROVE Observed(n, z)
  <2>1. n.req = k.req /\ n.kept = k.kept
    BY <1>7 DEF IssuePcs
  <2>2. /\ Finished(k.seen[1], w, k.req.object, k.kept)
        /\ k.req.exact => \E m \in 1..Len(k.seen) : Gives(k.seen[m], k.req.object, k.kept)
    BY <1>7 DEF Sure, Observed
  <2>3. Finished(n.seen[1], z, n.req.object, n.kept)
    BY <1>2, <1>4, <2>1, <2>2
  <2>4. n.req.exact => \E m \in 1..Len(n.seen) : Gives(n.seen[m], n.req.object, n.kept)
    BY <1>2, <2>1, <2>2
  <2> QED BY <2>3, <2>4 DEF Observed
<1>8. ASSUME k.pc \in VerifyPcs PROVE n.receipt \in 1..Len(rs) /\ Comparing(n, z, rs[n.receipt])
  <2>1. k.receipt \in 1..Len(rs) /\ Comparing(k, w, rs[k.receipt])
    BY <1>8 DEF Sure
  <2>2. n.receipt = k.receipt /\ n.reasons = k.reasons
    BY <1>8
  <2>3. Comparing(n, z, rs[k.receipt])
    BY <1>2, <1>3, <2>1, <2>2 DEF Comparing
  <2> QED BY <2>1, <2>2, <2>3
<1> QED BY <1>1, <1>5, <1>6, <1>7, <1>8 DEF Sure

(* New receipts do not matter to the calls under way.                      *)
LEMMA SureStays ==
    ASSUME NEW k, NEW w, NEW rs, Sure(k, w, rs), Len(rs) \in Nat, NEW new, Len(new) \in Nat,
           Len(rs) <= Len(new), \A i \in 1..Len(rs) : new[i] = rs[i]
    PROVE  Sure(k, w, new)
<1>1. ASSUME k # Idle, k.pc \in VerifyPcs
      PROVE  k.receipt \in 1..Len(new) /\ Comparing(k, w, new[k.receipt])
  <2>1. k.receipt \in 1..Len(rs) /\ Comparing(k, w, rs[k.receipt])
    BY <1>1 DEF Sure
  <2> QED BY <2>1
<1> QED BY <1>1 DEF Sure

(* The next place of a caller, where nothing has been read.                 *)
Stages == {{"reliant", "first"}, {"pins", "second"}, {"pins again", "reliant again", "insert"},
           {"reliant now", "pins now", "evaluate now"}}

LEMMA SureMoves ==
    ASSUME NEW k, k # Idle, NEW w, NEW rs, Sure(k, w, rs), NEW n, n.seen = k.seen, n.eval = k.eval,
           k.pc \in IssuePcs => n.req = k.req /\ n.kept = k.kept,
           k.pc \in VerifyPcs => n.receipt = k.receipt,
           NEW S \in Stages, k.pc \in S, n.pc \in S
    PROVE  Sure(n, w, rs)
<1>1. Lived(n, w)
  BY DEF Sure, Lived
<1>2. CASE S = {"reliant", "first"}
  BY <1>1, <1>2 DEF Sure, ObservingFirst, IssuePcs, VerifyPcs
<1>3. CASE S = {"pins", "second"}
  BY <1>1, <1>3 DEF Sure, ObservingAgain, IssuePcs, VerifyPcs
<1>4. CASE S = {"pins again", "reliant again", "insert"}
  BY <1>1, <1>4 DEF Sure, Observed, IssuePcs, VerifyPcs
<1>5. CASE S = {"reliant now", "pins now", "evaluate now"}
  BY <1>1, <1>5 DEF Sure, Comparing, IssuePcs, VerifyPcs
<1> QED BY <1>2, <1>3, <1>4, <1>5 DEF Stages

(* A caller that does not insert a receipt.                                 *)
LEMMA SureBy ==
    ASSUME CallsKept, SureInv, NEW c \in Callers, NEW next, Do(c, next), receipts' = receipts,
           Sure(next, World, receipts)
    PROVE  SureInv'
<1>1. call'[c] = next /\ (\A d \in Callers \ {c} : call'[d] = call[d]) /\ World' = World
  BY DoIs DEF CallsKept
<1>2. Backed(World', receipts')
  BY <1>1 DEF SureInv
<1>3. ASSUME NEW d \in Callers PROVE Sure(call'[d], World', receipts')
  <2>1. CASE d = c
    BY <1>1, <2>1
  <2>2. CASE d # c
    BY <1>1, <2>2 DEF SureInv
  <2> QED BY <2>1, <2>2
<1> QED BY <1>2, <1>3 DEF SureInv

LEMMA RefuseSure ==
    ASSUME CallsKept, SureInv, NEW c \in Callers, Refuse(c)
    PROVE  SureInv'
<1>1. Sure(Idle, World, receipts)
  BY DEF Sure
<1> QED BY <1>1, SureBy DEF Refuse

(* A call that begins now.                                                  *)
LEMMA LivedNow ==
    ASSUME Proper(World), NEW k, k.seen = <<World>>
    PROVE  Lived(k, World)
<1>1. IsSequence(<<World>>) /\ Len(<<World>>) = 1 /\ <<World>>[1] = World
  <2>1. <<World>> \in Seq({World})
    OBVIOUS
  <2> QED BY <2>1 DEF IsSequence
<1>2. Older(World, World)
  BY OlderSelf DEF Proper
<1> QED BY <1>1, <1>2 DEF Lived

LEMMA VerifyingSure ==
    ASSUME Proper(World), NEW rs, Backed(World, rs), NEW i \in 1..Len(rs), NEW o, o = rs[i].req.object
    PROVE  Sure(Verifying(i, o), World, rs)
<1> DEFINE k == Verifying(i, o)
<1> HIDE DEF k
<1>5. k.eval = Evaluate(o) /\ k.pc = "reliant now" /\ k.receipt = i /\ k.seen = <<World>> /\ k.reasons = {}
  BY DEF k, Verifying
<1>1. k.pc = "reliant now" /\ k.receipt = i /\ k.seen = <<World>> /\ k.reasons = {}
  BY <1>5
<1>2. Lived(k, World) /\ k.seen[1] = World
  <2>1. k.seen = <<World>> /\ Proper(World)
    BY <1>1
  <2>2. Lived(k, World)
    BY <2>1, LivedNow
  <2>3. <<World>>[1] = World
    OBVIOUS
  <2> QED BY <2>1, <2>2, <2>3
<1>3. Comparing(k, World, rs[i])
  <2>1. \E lo : Finished(lo, k.seen[1], rs[i].req.object, rs[i].assessment)
    BY <1>2 DEF Backed
  <2>2. Observes(k.seen[1], World, rs[i].req.object, k.eval)
    BY <1>5, ObservesFirst
  <2> QED BY <1>1, <2>1, <2>2 DEF Comparing
<1>4. Sure(k, World, rs)
  BY <1>1, <1>2, <1>3 DEF Sure
<1> QED BY <1>4 DEF k

LEMMA IssuingSure ==
    ASSUME Proper(World), NEW q \in Requests
    PROVE  Sure(Issuing(q), World, receipts)
<1> DEFINE k == Issuing(q)
<1>1. k.pc = "reliant" /\ k.req = q /\ k.seen = <<World>> /\ k.eval = Evaluate(q.object)
  BY Issues
<1> HIDE DEF k
<1>2. Lived(k, World)
  BY <1>1, LivedNow
<1>3. ObservingFirst(k, World)
  BY <1>1, ObservesFirst DEF ObservingFirst
<1>4. Sure(k, World, receipts)
  BY <1>1, <1>2, <1>3 DEF Sure, VerifyPcs
<1> QED BY <1>4 DEF k

LEMMA IssueSure ==
    ASSUME TypeInv, SureInv, WithinLimit, NEW c \in Callers, NEW q \in Requests, Issue(c, q)
    PROVE  SureInv'
<1>1. Proper(World) /\ CallsKept /\ receipts' = receipts /\ Backed(World, receipts)
  BY DEF TypeInv, WithinLimit, Proper, SureInv, Issue
<1>2. CASE Do(c, Issuing(q))
  BY <1>1, <1>2, IssuingSure, SureBy
<1>3. ASSUME NEW i \in WithKey(q.key), Bindable(receipts[i], q), Do(c, Verifying(i, q.object))
      PROVE  SureInv'
  <2>1. i \in 1..Len(receipts)
    BY DEF WithKey, TypeInv, ReceiptsKept, IsSequence
  <2>2. q.object = receipts[i].req.object
    BY <1>3 DEF Bindable
  <2>3. Sure(Verifying(i, q.object), World, receipts)
    BY <1>1, <2>1, <2>2, VerifyingSure
  <2> QED BY <1>1, <1>3, <2>3, SureBy
<1> QED BY <1>2, <1>3 DEF Issue

LEMMA VerifySure ==
    ASSUME TypeInv, SureInv, WithinLimit, NEW c \in Callers, NEW i \in DOMAIN receipts, Verify(c, i)
    PROVE  SureInv'
<1>1. Proper(World) /\ CallsKept /\ receipts' = receipts /\ Backed(World, receipts)
  BY DEF TypeInv, WithinLimit, Proper, SureInv, Verify
<1>2. i \in 1..Len(receipts) /\ Do(c, Verifying(i, receipts[i].req.object))
  BY DEF TypeInv, ReceiptsKept, IsSequence, Verify
<1>3. Sure(Verifying(i, receipts[i].req.object), World, receipts)
  BY <1>1, <1>2, VerifyingSure
<1> QED BY <1>1, <1>2, <1>3, SureBy

(* A caller of issue, and one of verify, that has not read evidence.       *)
LEMMA NotIdle ==
    ASSUME NEW k, k.pc \in IssuePcs \cup VerifyPcs
    PROVE  k # Idle
<1>1. Idle.pc = "idle"
  BY DEF Idle
<1> QED BY <1>1 DEF IssuePcs, VerifyPcs

LEMMA ObserveReliantSure ==
    ASSUME CallsKept, SureInv, NEW c \in Callers, ObserveReliant(c)
    PROVE  SureInv'
<1> DEFINE k == call[c]
           current == Head_(World, k.req.reliant)
           n == [k EXCEPT !.pc = "first",
                  !.reliantRevision = IF k.req.explicit = None THEN current ELSE k.req.explicit,
                  !.reliantStatus = ReliantStatus(k.req.explicit, current)]
<1>1. IsIssue(k) /\ Do(c, n) /\ k.pc = "reliant" /\ receipts' = receipts
  BY PcsDiffer DEF ObserveReliant, CallsKept, IssuePcs
<1>2. n.seen = k.seen /\ n.eval = k.eval /\ n.req = k.req /\ n.kept = k.kept /\ n.pc = "first"
  BY <1>1 DEF IsIssue, IssueFields
<1>3. k # Idle /\ k.pc \in {"reliant", "first"} /\ {"reliant", "first"} \in Stages /\ Sure(k, World, receipts)
  BY <1>1, NotIdle DEF IssuePcs, Stages, SureInv
<1> HIDE DEF n, k
<1>4. Sure(n, World, receipts)
  BY <1>1, <1>2, <1>3, SureMoves DEF VerifyPcs
<1> QED BY <1>1, <1>4, SureBy

LEMMA CheckPinSure ==
    ASSUME CallsKept, SureInv, NEW c \in Callers, CheckPin(c)
    PROVE  SureInv'
<1> DEFINE k == call[c]
           rest == k.left \ {NextPin(c)}
           pc == IF rest # {} THEN k.pc ELSE IF k.pc = "pins" THEN "second" ELSE "reliant again"
           n == [k EXCEPT !.left = rest, !.pc = pc]
<1>1. IsIssue(k) /\ k.pc \in {"pins", "pins again"} /\ receipts' = receipts
  BY PcsDiffer DEF CheckPin, CallsKept, IssuePcs
<1>2. Refuse(c) \/ Do(c, [k EXCEPT !.left = rest, !.pc = IF rest # {} THEN @
                             ELSE IF @ = "pins" THEN "second" ELSE "reliant again"])
  BY DEF CheckPin
<1>3. [k EXCEPT !.left = rest, !.pc = IF rest # {} THEN @
                             ELSE IF @ = "pins" THEN "second" ELSE "reliant again"] = n
  BY <1>1 DEF IsIssue, IssueFields
<1> HIDE DEF rest
<1>4. n.req = k.req /\ n.kept = k.kept /\ n.seen = k.seen /\ n.eval = k.eval /\ n.pc = pc
  BY <1>1 DEF IsIssue, IssueFields
<1>5. k # Idle /\ Sure(k, World, receipts)
  BY <1>1, NotIdle DEF IssuePcs, SureInv
<1>6. \/ k.pc = "pins" /\ pc \in {"pins", "second"}
      \/ k.pc = "pins again" /\ pc \in {"pins again", "reliant again"}
  BY <1>1
<1> HIDE DEF n, k, pc
<1>7. Sure(n, World, receipts)
  <2>1. CASE k.pc = "pins" /\ pc \in {"pins", "second"}
    <3>1. {"pins", "second"} \in Stages
      BY DEF Stages
    <3> QED BY <1>4, <1>5, <2>1, <3>1, SureMoves DEF VerifyPcs
  <2>2. CASE k.pc = "pins again" /\ pc \in {"pins again", "reliant again"}
    <3>1. {"pins again", "reliant again", "insert"} \in Stages
      BY DEF Stages
    <3> QED BY <1>4, <1>5, <2>2, <3>1, SureMoves DEF VerifyPcs
  <2> QED BY <1>6, <2>1, <2>2
<1> QED BY <1>1, <1>2, <1>3, <1>7, RefuseSure, SureBy

LEMMA CheckReliantSure ==
    ASSUME CallsKept, SureInv, NEW c \in Callers, CheckReliant(c)
    PROVE  SureInv'
<1> DEFINE k == call[c]
           n == [k EXCEPT !.pc = "insert"]
<1>1. IsIssue(k) /\ k.pc = "reliant again" /\ receipts' = receipts
  BY PcsDiffer DEF CheckReliant, CallsKept, IssuePcs
<1>2. Refuse(c) \/ Do(c, n)
  BY DEF CheckReliant
<1>3. n.req = k.req /\ n.kept = k.kept /\ n.seen = k.seen /\ n.eval = k.eval /\ n.pc = "insert"
  BY <1>1 DEF IsIssue, IssueFields
<1>4. k # Idle /\ Sure(k, World, receipts) /\ {"pins again", "reliant again", "insert"} \in Stages
  BY <1>1, NotIdle DEF IssuePcs, SureInv, Stages
<1> HIDE DEF n, k
<1>5. Sure(n, World, receipts)
  BY <1>1, <1>3, <1>4, SureMoves DEF VerifyPcs
<1> QED BY <1>1, <1>2, <1>5, RefuseSure, SureBy

LEMMA CheckReliantNowSure ==
    ASSUME CallsKept, SureInv, NEW c \in Callers, CheckReliantNow(c)
    PROVE  SureInv'
<1> DEFINE k == call[c]
           r == receipts[k.receipt]
           n == [k EXCEPT !.pc = "pins now", !.left = Pinned(r.assessment),
                  !.reasons = ReliantReasons(r, Head_(World, r.req.reliant))]
<1>1. IsVerify(k) /\ Do(c, n) /\ k.pc = "reliant now" /\ receipts' = receipts
  BY PcsDiffer DEF CheckReliantNow, CallsKept, VerifyPcs
<1>2. n.seen = k.seen /\ n.eval = k.eval /\ n.receipt = k.receipt /\ n.pc = "pins now"
  BY <1>1 DEF IsVerify, VerifyFields
<1>3. k # Idle /\ Sure(k, World, receipts) /\ {"reliant now", "pins now", "evaluate now"} \in Stages
  BY <1>1, NotIdle DEF VerifyPcs, SureInv, Stages
<1> HIDE DEF n, k
<1>4. Sure(n, World, receipts)
  BY <1>1, <1>2, <1>3, SureMoves DEF IssuePcs
<1> QED BY <1>1, <1>4, SureBy

LEMMA CheckPinNowSure ==
    ASSUME CallsKept, SureInv, NEW c \in Callers, CheckPinNow(c)
    PROVE  SureInv'
<1> DEFINE k == call[c]
           o == NextPin(c)
           now == Head_(World, o)
           rest == k.left \ {o}
           why == IF now = None THEN {"basis_revision_not_assessable"}
                  ELSE IF <<o, now>> \in receipts[k.receipt].assessment.pins THEN {}
                  ELSE {"object_revision_changed"}
           n == [k EXCEPT !.left = rest, !.reasons = @ \cup why,
                          !.pc = IF rest = {} THEN "evaluate now" ELSE @]
<1>1. IsVerify(k) /\ Do(c, n) /\ k.pc = "pins now" /\ receipts' = receipts
  BY PcsDiffer DEF CheckPinNow, CallsKept, VerifyPcs
<1> HIDE DEF rest, why, now, o
<1>2. n.seen = k.seen /\ n.eval = k.eval /\ n.receipt = k.receipt /\ n.pc \in {"evaluate now", k.pc}
  BY <1>1 DEF IsVerify, VerifyFields
<1>3. k # Idle /\ Sure(k, World, receipts) /\ {"reliant now", "pins now", "evaluate now"} \in Stages
  BY <1>1, NotIdle DEF VerifyPcs, SureInv, Stages
<1> HIDE DEF n, k
<1>4. Sure(n, World, receipts)
  BY <1>1, <1>2, <1>3, SureMoves DEF IssuePcs
<1> QED BY <1>1, <1>4, SureBy

(* A read, of the evidence as it is now.                                    *)
LEMMA ReadObserves ==
    ASSUME Proper(World), NEW c, Evaluating(call[c]), MayRead(c),
           NEW lo, NEW root, Observes(lo, World, root, call[c].eval), Older(lo, World)
    PROVE  Observes(lo, World, root, Read(c))
<1>1. Older(World, World)
  BY OlderSelf DEF Proper
<1>2. call[c].eval.status = "running" /\ call[c].eval.reads < MaxReads
  BY DEF Evaluating, MayRead
<1> QED BY <1>1, <1>2, ObservesOn DEF Read

LEMMA FirstObservationSure ==
    ASSUME TypeInv, SureInv, WithinLimit, NEW c \in Callers, FirstObservation(c)
    PROVE  SureInv'
<1> DEFINE k == call[c]
           q == k.req
           e == Read(c)
           a == e.result
           kept == [k EXCEPT !.kept = a, !.eval = Evaluate(q.object)]
<1>1. /\ IsIssue(k) /\ k.pc = "first" /\ MayRead(c) /\ CallsKept /\ receipts' = receipts
      /\ Proper(World) /\ k # Idle
  BY PcsDiffer, NotIdle DEF FirstObservation, TypeInv, CallsKept, IssuePcs, WithinLimit, Proper
<1>2. Evaluating(k) /\ Shape(e) /\ e.status \in {"running", "raised", "done"}
  BY <1>1, ReadKeeps DEF IsIssue
<1>3. Lived(k, World) /\ ObservingFirst(k, World)
  BY <1>1 DEF SureInv, Sure
<1>4. /\ Len(k.seen) \in Nat \ {0} /\ k.seen[Len(k.seen)] = World
      /\ 1 \in 1..Len(k.seen) /\ Len(k.seen) \in 1..Len(k.seen)
      /\ Older(k.seen[1], World) /\ Older(World, World)
  BY <1>1, <1>3, OlderSelf DEF Lived, Proper
<1>5. Observes(k.seen[1], World, q.object, e)
  BY <1>1, <1>2, <1>3, <1>4, ReadObserves DEF ObservingFirst
<1>6. CASE e.status = "raised"
  BY <1>1, <1>6, RefuseSure DEF FirstObservation
<1>7. CASE e.status = "running"
  <2> DEFINE n == [k EXCEPT !.eval = e]
  <2>1. Do(c, n)
    BY <1>7 DEF FirstObservation
  <2> HIDE DEF e
  <2>2. n.pc = k.pc /\ n.req = k.req /\ n.eval = e /\ n.seen = k.seen
    BY <1>1 DEF IsIssue, IssueFields
  <2> HIDE DEF n, k
  <2>3. Sure(n, World, receipts)
    BY <1>1, <1>3, <1>5, <2>2 DEF Sure, Lived, ObservingFirst, VerifyPcs
  <2> QED BY <1>1, <2>1, <2>3, SureBy
<1>8. CASE e.status = "done"
  <2>1. IF (q.affirm /\ ~Admissible(a)) \/ ~Consistent(a) THEN Refuse(c)
        ELSE IF ~q.exact THEN Do(c, [kept EXCEPT !.pc = "insert"])
        ELSE IF \E pin \in a.pins : pin[2] = None THEN Refuse(c)
        ELSE Do(c, [kept EXCEPT !.pc = "pins", !.left = Pinned(a)])
    BY <1>8 DEF FirstObservation
  <2> DEFINE n1 == [kept EXCEPT !.pc = "insert"]
             n2 == [kept EXCEPT !.pc = "pins", !.left = Pinned(a)]
  <2>2. Finished(k.seen[1], World, q.object, a)
    BY <1>5, <1>8 DEF Finished
  <2>3. /\ n1.pc = "insert" /\ n1.req = q /\ n1.seen = k.seen /\ n1.kept = a
        /\ n2.pc = "pins" /\ n2.req = q /\ n2.seen = k.seen /\ n2.kept = a /\ n2.eval = Evaluate(q.object)
    <3> HIDE DEF e
    <3> QED BY <1>1 DEF IsIssue, IssueFields
  <2>4. Refuse(c) \/ (~q.exact /\ Do(c, n1)) \/ Do(c, n2)
    <3> HIDE DEF a, n1, n2, q
    <3> QED BY <2>1 DEF n1, n2
  <2> HIDE DEF n1, n2, a
  <2>5. ASSUME ~q.exact PROVE Sure(n1, World, receipts)
    <3>1. Observed(n1, World)
      BY <2>2, <2>3, <2>5 DEF Observed
    <3>2. Lived(n1, World)
      BY <1>3, <2>3 DEF Lived
    <3> HIDE DEF k
    <3> QED BY <2>3, <3>1, <3>2 DEF Sure, VerifyPcs
  <2>6. Sure(n2, World, receipts)
    <3>1. Observes(World, World, q.object, n2.eval)
      BY <2>3, ObservesFirst
    <3>2. Lived(n2, World)
      BY <1>3, <2>3 DEF Lived
    <3> HIDE DEF k, q
    <3>3. ObservingAgain(n2, World)
      BY <1>4, <2>2, <2>3, <3>1 DEF ObservingAgain
    <3> QED BY <2>3, <3>2, <3>3 DEF Sure, VerifyPcs
  <2> QED BY <1>1, <2>4, <2>5, <2>6, RefuseSure, SureBy
<1> QED BY <1>2, <1>6, <1>7, <1>8

LEMMA SecondObservationSure ==
    ASSUME TypeInv, SureInv, WithinLimit, NEW c \in Callers, SecondObservation(c)
    PROVE  SureInv'
<1> DEFINE k == call[c]
           e == Read(c)
           n1 == [k EXCEPT !.eval = e]
           n2 == [k EXCEPT !.pc = "pins again", !.left = Pinned(k.kept), !.eval = Evaluate(k.req.object)]
<1>1. /\ IsIssue(k) /\ k.pc = "second" /\ MayRead(c) /\ CallsKept /\ receipts' = receipts
      /\ Proper(World) /\ k # Idle
  BY PcsDiffer, NotIdle DEF SecondObservation, TypeInv, CallsKept, IssuePcs, WithinLimit, Proper
<1>2. Evaluating(k) /\ Shape(e) /\ e.status \in {"running", "raised", "done"}
  BY <1>1, ReadKeeps DEF IsIssue
<1>3. Lived(k, World) /\ ObservingAgain(k, World)
  BY <1>1 DEF SureInv, Sure
<1>4. PICK m \in 1..Len(k.seen) :
        /\ Finished(k.seen[1], k.seen[m], k.req.object, k.kept)
        /\ Observes(k.seen[m], World, k.req.object, k.eval)
  BY <1>3 DEF ObservingAgain
<1>5. Proper(k.seen[m]) /\ Older(k.seen[m], World)
  BY <1>3 DEF Lived
<1>6. Observes(k.seen[m], World, k.req.object, e)
  BY <1>1, <1>2, <1>4, <1>5, ReadObserves
<1>7. CASE e.status = "raised"
  BY <1>1, <1>7, RefuseSure DEF SecondObservation
<1>8. CASE e.status = "running"
  <2>1. Do(c, n1)
    BY <1>8 DEF SecondObservation
  <2> HIDE DEF e
  <2>2. n1.req = k.req /\ n1.kept = k.kept /\ n1.seen = k.seen /\ n1.eval = e /\ n1.pc = k.pc
    BY <1>1 DEF IsIssue, IssueFields
  <2> HIDE DEF n1, k
  <2>3. ObservingAgain(n1, World)
    BY <1>4, <1>6, <2>2 DEF ObservingAgain
  <2>4. Lived(n1, World)
    BY <1>3, <2>2 DEF Lived
  <2>5. Sure(n1, World, receipts)
    BY <1>1, <2>2, <2>3, <2>4 DEF Sure, VerifyPcs
  <2> QED BY <1>1, <2>1, <2>5, SureBy
<1>9. CASE e.status = "done"
  <2>1. Refuse(c) \/ (k.kept = e.result /\ Do(c, n2))
    BY <1>9 DEF SecondObservation, Drifted
  <2>2. n2.req = k.req /\ n2.kept = k.kept /\ n2.seen = k.seen /\ n2.pc = "pins again"
    BY <1>1 DEF IsIssue, IssueFields
  <2>3. ASSUME k.kept = e.result PROVE Sure(n2, World, receipts)
    <3>1. Finished(k.seen[m], World, k.req.object, k.kept)
      BY <1>6, <1>9, <2>3 DEF Finished
    <3>2. k.req.object \in Objects
      BY <1>1, ConstantsFit DEF IsIssue
    <3>3. Gives(k.seen[m], k.req.object, k.kept)
      BY <1>4, <1>5, <3>1, <3>2, Sandwich
    <3>4. Finished(k.seen[1], World, k.req.object, k.kept)
      BY <1>1, <1>4, <1>5, FinishedLater DEF Proper
    <3> HIDE DEF n2, k
    <3>5. Observed(n2, World)
      BY <2>2, <3>3, <3>4 DEF Observed
    <3>6. Lived(n2, World)
      BY <1>3, <2>2 DEF Lived
    <3> QED BY <2>2, <3>5, <3>6 DEF Sure, VerifyPcs
  <2> QED BY <1>1, <2>1, <2>3, SureBy, RefuseSure
<1> QED BY <1>2, <1>7, <1>8, <1>9

LEMMA EvaluateNowSure ==
    ASSUME TypeInv, SureInv, WithinLimit, NEW c \in Callers, EvaluateNow(c)
    PROVE  SureInv'
<1> DEFINE k == call[c]
           r == receipts[k.receipt]
           e == Read(c)
           was == r.assessment
           n == [k EXCEPT !.eval = e]
           verdict(why) == [k EXCEPT !.pc = "verdict", !.reasons = @ \cup why, !.eval = Evaluate(was.object)]
<1>1. /\ IsVerify(k) /\ k.pc = "evaluate now" /\ MayRead(c) /\ CallsKept /\ receipts' = receipts
      /\ Proper(World) /\ k # Idle
  BY PcsDiffer, NotIdle DEF EvaluateNow, TypeInv, CallsKept, VerifyPcs, WithinLimit, Proper
<1>2. Evaluating(k) /\ Shape(e) /\ e.status \in {"running", "raised", "done"}
  BY <1>1, ReadKeeps DEF IsVerify
<1>3. Lived(k, World) /\ k.receipt \in 1..Len(receipts) /\ Comparing(k, World, r)
  BY <1>1 DEF SureInv, Sure, VerifyPcs
<1>4. Proper(k.seen[1]) /\ Older(k.seen[1], World)
  <2>1. 1 \in 1..Len(k.seen)
    BY <1>3 DEF Lived
  <2> QED BY <1>3, <2>1 DEF Lived
<1>5. PICK lo : Finished(lo, k.seen[1], r.req.object, was)
  BY <1>3 DEF Comparing
<1>6. Observes(k.seen[1], World, r.req.object, e)
  <2>1. Observes(k.seen[1], World, r.req.object, k.eval)
    BY <1>1, <1>3 DEF Comparing
  <2> QED BY <1>1, <1>2, <1>4, <2>1, ReadObserves
<1>7. ASSUME NEW why, why = {} => e.status = "done" /\ e.result = was
      PROVE  Sure(verdict(why), World, receipts)
  <2> DEFINE m == verdict(why)
  <2>1. m.seen = k.seen /\ m.pc = "verdict" /\ m.receipt = k.receipt /\ m.reasons = k.reasons \cup why
    <3> HIDE DEF was
    <3> QED BY <1>1 DEF IsVerify, VerifyFields
  <2> HIDE DEF m
  <2>2. ASSUME m.reasons = {} PROVE Gives(k.seen[1], r.req.object, was)
    <3>1. Finished(k.seen[1], World, r.req.object, was)
      <4>1. why = {}
        BY <2>1, <2>2
      <4> QED BY <1>6, <1>7, <4>1 DEF Finished
    <3>2. r.req.object \in Objects
      BY <1>3, ConstantsFit DEF TypeInv, ReceiptsKept
    <3> QED BY <1>4, <1>5, <3>1, <3>2, Sandwich
  <2>3. Comparing(m, World, r)
    BY <1>5, <2>1, <2>2 DEF Comparing
  <2>4. Lived(m, World)
    BY <1>3, <2>1 DEF Lived
  <2>5. Sure(m, World, receipts)
    BY <1>3, <2>1, <2>3, <2>4 DEF Sure
  <2> QED BY <2>5 DEF m
<1>8. CASE e.status = "raised"
  <2>1. Do(c, verdict({"current_evidence_not_assessable"}))
    BY <1>8 DEF EvaluateNow
  <2> QED BY <1>1, <1>7, <2>1, SureBy
<1>9. CASE e.status = "done"
  <2>1. Do(c, verdict(Reasons(was, e.result)))
    BY <1>9 DEF EvaluateNow
  <2>2. Reasons(was, e.result) = {} => e.result = was
    <3>1. was # e.result => "assessment_snapshot_changed" \in Reasons(was, e.result)
      BY DEF Reasons
    <3> QED BY <3>1
  <2> HIDE DEF verdict, e, was
  <2> QED BY <1>1, <1>7, <1>9, <2>1, <2>2, SureBy
<1>10. CASE e.status = "running"
  <2>1. Do(c, n)
    BY <1>10 DEF EvaluateNow
  <2> HIDE DEF e
  <2>2. n.seen = k.seen /\ n.eval = e /\ n.pc = k.pc /\ n.receipt = k.receipt
    BY <1>1 DEF IsVerify, VerifyFields
  <2> HIDE DEF n
  <2>3. Comparing(n, World, r)
    BY <1>1, <1>5, <1>6, <2>2 DEF Comparing
  <2>4. Lived(n, World)
    BY <1>3, <2>2 DEF Lived
  <2>5. Sure(n, World, receipts)
    BY <1>1, <1>3, <2>2, <2>3, <2>4 DEF Sure
  <2> QED BY <1>1, <2>1, <2>5, SureBy
<1> QED BY <1>2, <1>8, <1>9, <1>10

LEMMA InsertSure ==
    ASSUME TypeInv, SureInv, WithinLimit, NEW c \in Callers, Insert(c)
    PROVE  SureInv'
<1> DEFINE k == call[c]
           o == k.req.object
           receipt == [req |-> k.req, reliantRevision |-> k.reliantRevision,
                       reliantStatus |-> k.reliantStatus, assessment |-> k.kept]
           taken == WithKey(k.req.key)
<1>1. k.pc = "insert" /\ CallsKept /\ Proper(World) /\ Backed(World, receipts) /\ Sure(k, World, receipts) /\ k # Idle
  BY NotIdle DEF Insert, TypeInv, WithinLimit, Proper, SureInv, IssuePcs
<1>2. \/ receipts' = Append(receipts, receipt) /\ Do(c, Verifying(Len(receipts) + 1, o))
      \/ receipts' = receipts /\ \E i \in taken : Bindable(receipts[i], k.req) /\ Do(c, Verifying(i, o))
      \/ receipts' = receipts /\ Refuse(c)
  BY DEF Insert, Refuse
<1>3. CASE receipts' = receipts /\ Refuse(c)
  BY <1>1, <1>3, RefuseSure
<1>4. ASSUME receipts' = receipts, NEW i \in taken, Bindable(receipts[i], k.req), Do(c, Verifying(i, o))
      PROVE  SureInv'
  <2>1. i \in 1..Len(receipts)
    BY DEF WithKey, TypeInv, ReceiptsKept, IsSequence
  <2>2. o = receipts[i].req.object
    BY <1>4 DEF Bindable
  <2> HIDE DEF o
  <2>3. Sure(Verifying(i, o), World, receipts)
    BY <1>1, <2>1, <2>2, VerifyingSure
  <2> QED BY <1>1, <1>4, <2>3, SureBy
<1>5. ASSUME receipts' = Append(receipts, receipt), Do(c, Verifying(Len(receipts) + 1, o))
      PROVE  SureInv'
  <2> DEFINE new == Append(receipts, receipt)
             j == Len(receipts) + 1
  <2>1. receipt.req.object = o /\ receipt.assessment = k.kept
    OBVIOUS
  <2>2. Finished(k.seen[1], World, o, k.kept)
    BY <1>1 DEF Sure, Observed
  <2> HIDE DEF receipt, o, k
  <2>3. /\ Len(receipts) \in Nat /\ Len(new) = j
        /\ \A i \in 1..Len(receipts) : new[i] = receipts[i]
        /\ new[j] = receipt
    BY Grown DEF TypeInv, ReceiptsKept
  <2> HIDE DEF new
  <2>4. Backed(World, new)
    <3>1. ASSUME NEW i \in 1..Len(new)
          PROVE  \E lo : Finished(lo, World, new[i].req.object, new[i].assessment)
      <4>1. CASE i \in 1..Len(receipts)
        BY <1>1, <2>3, <4>1 DEF Backed
      <4>2. CASE i = j
        BY <2>1, <2>2, <2>3, <4>2
      <4> QED BY <2>3, <4>1, <4>2
    <3> QED BY <3>1 DEF Backed
  <2>5. j \in 1..Len(new) /\ new[j].req.object = o
    BY <2>1, <2>3
  <2> HIDE DEF j
  <2>6. Sure(Verifying(j, o), World, new)
    BY <1>1, <2>4, <2>5, VerifyingSure
  <2>7. /\ call'[c] = Verifying(j, o) /\ (\A d \in Callers \ {c} : call'[d] = call[d])
        /\ World' = World /\ receipts' = new
    BY <1>1, <1>5, DoIs DEF CallsKept, j, new
  <2>8. ASSUME NEW d \in Callers PROVE Sure(call'[d], World', receipts')
    <3>1. CASE d = c
      BY <2>6, <2>7, <3>1
    <3>2. CASE d # c
      <4>1. Sure(call[d], World, receipts)
        BY DEF SureInv
      <4>2. Len(new) \in Nat /\ Len(receipts) <= Len(new)
        BY <2>3 DEF j
      <4>3. Sure(call[d], World, new)
        BY <2>3, <4>1, <4>2, SureStays
      <4> QED BY <2>7, <3>2, <4>3
    <3> QED BY <3>1, <3>2
  <2>9. Backed(World', receipts')
    BY <2>4, <2>7
  <2> QED BY <2>8, <2>9 DEF SureInv
<1> QED BY <1>2, <1>3, <1>4, <1>5

LEMMA ChangesSure ==
    ASSUME TypeInv, SureInv, WithinLimit, WithinLimit', EvidenceChanges
    PROVE  SureInv'
<1>1. IsWorld(World) /\ CallsKept /\ Change
  BY ChangesChange DEF TypeInv
<1>2. Proper(World') /\ Older(World, World') /\ receipts' = receipts /\ IsWorld(World')
  BY <1>1, WorldKept, WorldGrows DEF WithinLimit, Proper, Change
<1>3. Backed(World', receipts')
  <2>1. \A i \in 1..Len(receipts) : \E lo : Finished(lo, World, receipts[i].req.object, receipts[i].assessment)
    BY DEF SureInv, Backed
  <2>2. \A lo, root, a : Finished(lo, World, root, a) => Finished(lo, World', root, a)
    BY <1>1, <1>2, FinishedLater
  <2>3. Backed(World', receipts)
    BY <2>1, <2>2 DEF Backed
  <2> QED BY <1>2, <2>3
<1>4. ASSUME NEW c \in Callers PROVE Sure(call'[c], World', receipts')
  <2> DEFINE k == call[c]
             s == Append(k.seen, World')
             n == call'[c]
  <2>1. IsCall(k) /\ n = IF k = Idle THEN Idle ELSE [k EXCEPT !.seen = s]
    BY <1>1 DEF Change, CallsKept
  <2>2. Sure(k, World, receipts)
    BY DEF SureInv
  <2>3. CASE k = Idle
    BY <2>1, <2>3 DEF Sure
  <2>4. CASE k # Idle
    <3>1. /\ n.seen = s /\ n.pc = k.pc /\ n.eval = k.eval
          /\ k.pc \in IssuePcs => n.req = k.req /\ n.kept = k.kept
          /\ k.pc \in VerifyPcs => n.receipt = k.receipt /\ n.reasons = k.reasons
      <4>1. n = [k EXCEPT !.seen = s]
        BY <2>1, <2>4
      <4>2. IsIssue(k) \/ IsVerify(k)
        BY <2>1, <2>4 DEF IsCall
      <4> HIDE DEF s, n
      <4>3. CASE IsIssue(k)
        BY <4>1, <4>3 DEF IsIssue, IssueFields, IssuePcs, VerifyPcs
      <4>4. CASE IsVerify(k)
        BY <4>1, <4>4 DEF IsVerify, VerifyFields, IssuePcs, VerifyPcs
      <4> QED BY <4>2, <4>3, <4>4
    <3> HIDE DEF k, n
    <3>2. Sure(n, World', receipts)
      BY <1>2, <2>2, <2>4, <3>1, SureLater
    <3> QED BY <1>2, <3>2 DEF n
  <2> QED BY <2>3, <2>4
<1> QED BY <1>3, <1>4 DEF SureInv

LEMMA SureInitial ==
    ASSUME Init
    PROVE  SureInv
<1>1. receipts = <<>> /\ \A c \in Callers : call[c] = Idle
  BY DEF Init
<1>2. Backed(World, receipts)
  <2>1. 1..Len(<<>>) = {}
    OBVIOUS
  <2> QED BY <1>1, <2>1 DEF Backed
<1>3. \A c \in Callers : Sure(call[c], World, receipts)
  BY <1>1 DEF Sure
<1> QED BY <1>2, <1>3 DEF SureInv

LEMMA SureStep ==
    ASSUME TypeInv, SureInv, WithinLimit, WithinLimit', [Next]_vars
    PROVE  SureInv'
<1>1. CASE UNCHANGED vars
  BY <1>1 DEF vars, SureInv, World
<1>2. CASE EvidenceChanges
  BY <1>2, ChangesSure
<1>3. ASSUME NEW c \in Callers, Steps(c) PROVE SureInv'
  BY <1>3, IssueSure, VerifySure, ObserveReliantSure, FirstObservationSure, CheckPinSure,
     SecondObservationSure, CheckReliantSure, InsertSure, CheckReliantNowSure, CheckPinNowSure,
     EvaluateNowSure, RefuseSure DEF TypeInv, Steps, Return
<1> QED BY <1>1, <1>2, <1>3 DEF Next

LEMMA Surely == Spec /\ []WithinLimit => [](TypeInv /\ SureInv /\ WithinLimit)
<1>1. Init => SureInv
  BY SureInitial
<1>2. TypeInv /\ SureInv /\ WithinLimit /\ WithinLimit' /\ [Next]_vars => SureInv'
  BY SureStep
<1> QED BY <1>1, <1>2, Typed, PTL DEF Spec

(* As long as no relation is beyond the limit of a read: no two reads of    *)
(* RelianceStore.issue share a transaction, and yet the basis of an exact   *)
(* receipt held all at once.  At the moment between its two observations    *)
(* an undisturbed evaluation comes to the assessment that it keeps.         *)
THEOREM ReceiptBasesHeldAtOnce == Spec /\ []WithinLimit => []ReceiptBasisHeldAtOnce
<1>1. TypeInv /\ SureInv => ReceiptBasisHeldAtOnce
  <2> SUFFICES ASSUME TypeInv, SureInv, NEW c \in Callers, call[c].pc = "insert", call[c].req.exact
               PROVE  \E i \in DOMAIN call[c].seen : Gives(call[c].seen[i], call[c].req.object, call[c].kept)
    BY DEF ReceiptBasisHeldAtOnce
  <2> DEFINE k == call[c]
  <2>1. k # Idle /\ Sure(k, World, receipts)
    BY NotIdle DEF IssuePcs, SureInv
  <2>2. \E m \in 1..Len(k.seen) : Gives(k.seen[m], k.req.object, k.kept)
    BY <2>1 DEF Sure, Observed
  <2>3. DOMAIN k.seen = 1..Len(k.seen)
    BY <2>1 DEF Sure, Lived, IsSequence
  <2> QED BY <2>2, <2>3
<1> QED BY <1>1, Surely, PTL

(* As long as no relation is beyond the limit of a read: a verification     *)
(* that finds nothing stale (RelianceStore.verify) is right about the       *)
(* moment at which it was asked, whatever changes while it reads: the       *)
(* evidence of that moment gives the receipt's own assessment, and the      *)
(* revisions that it pins were the heads.                                   *)
THEOREM FreshVerdictsWereTrue == Spec /\ []WithinLimit => []FreshVerdictWasTrue
<1>1. TypeInv /\ SureInv => FreshVerdictWasTrue
  <2> SUFFICES ASSUME TypeInv, SureInv, NEW c \in Callers, call[c].pc = "verdict", call[c].reasons = {}
               PROVE  LET r == receipts[call[c].receipt]
                          asked == call[c].seen[1]
                      IN  /\ Gives(asked, r.req.object, r.assessment)
                          /\ \A pin \in r.assessment.pins : pin[2] = Head_(asked, pin[1])
    BY DEF FreshVerdictWasTrue
  <2> DEFINE k == call[c]
             r == receipts[k.receipt]
             asked == k.seen[1]
             o == r.req.object
             a == r.assessment
  <2>1. k # Idle /\ Sure(k, World, receipts)
    BY NotIdle DEF VerifyPcs, SureInv
  <2>2. Lived(k, World) /\ k.receipt \in 1..Len(receipts) /\ Gives(asked, o, a)
    BY <2>1 DEF Sure, Comparing, VerifyPcs
  <2>3. Proper(asked)
    <3>1. 1 \in 1..Len(k.seen)
      BY <2>2 DEF Lived
    <3> QED BY <2>2, <3>1 DEF Lived
  <2>4. o \in Objects
    BY <2>2, ConstantsFit DEF TypeInv, ReceiptsKept
  <2> HIDE DEF asked, o, a
  <2>5. PICK run : IsRun(run, asked, o) /\ EvaluateIn(asked, o) = run[MaxReads]
    BY EvaluationRuns
  <2>6. run[MaxReads].status = "done" /\ run[MaxReads].result = a
    BY <2>2, <2>5 DEF Gives
  <2>7. Good(asked, o, run[MaxReads])
    <3>1. MaxReads \in 0..MaxReads
      BY ConstantsFit
    <3> QED BY <2>3, <2>4, <2>5, <3>1, RunGood DEF Proper
  <2>8. \A pin \in a.pins : pin[2] = Head_(asked, pin[1])
    BY <2>6, <2>7 DEF Good, Right
  <2> QED BY <2>2, <2>8 DEF asked, o, a
<1> QED BY <1>1, Surely, PTL
=============================================================================
