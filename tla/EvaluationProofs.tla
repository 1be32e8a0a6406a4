-------------------------- MODULE EvaluationProofs -------------------------
(***************************************************************************)
(* The results of evaluations for any number of calls, and documents with  *)
(* any number of schema items and requirements.                            *)
(***************************************************************************)
EXTENDS EvaluationProps, SequenceTheorems, TLAPS

-----------------------------------------------------------------------------
(* The inductive invariant, in parts.                                      *)

Outcome == [success : BOOLEAN, error : BOOLEAN]
Steps   == {"idle", "evaluate", "template", "rendered", "items", "top", "done"}

TypeInv ==
  /\ request \in [Call -> Request \cup {None}]
  /\ pc \in [Call -> Steps]
  /\ items \in [Call -> Seq(Quality)]
  /\ todo \in [Call -> Seq(Requirement)]
  /\ results \in [Call -> Seq(Outcome)]
  /\ context \in [Call -> {"none", "bare", "ready"}]
  /\ project \subseteq Call
  /\ alone \subseteq Call

\* Which requests can be at which step.
RouteInv(c) ==
  /\ pc[c] # "idle" => request[c] \in Request
  /\ pc[c] \in {"items", "top"} => request[c].route = "batch"
  /\ pc[c] \in {"evaluate", "template", "rendered"} =>
       request[c].route # "batch"

\* A context is that of a requirement under way.  A call has met nobody if it
\* runs alone, and then the library's project is its context while it has one.
AloneInv ==
  \A c \in Call :
    /\ context[c] # "none" => Running(c) /\ todo[c] # <<>>
    /\ c \in alone /\ Running(c) => \A d \in Call \ {c} : ~Running(d)
    /\ c \in alone /\ context[c] # "none" => project = {c}

\* What may be said of a requirement whose result is r, for a call that ran
\* alone or not.
Verdict(q, r, lone) ==
  /\ Raises(q) => r.error
  /\ r.success => Backed(q)
  /\ lone => r.error = Raises(q)

\* The results rs judge the requirements of the lists up to those in rest,
\* which follow.
Covers(lists, rs, rest, lone) ==
  \E before \in Layout(lists, Len(rs) + Len(rest)) :
    \A i \in 1..Len(lists) : \A j \in 1..Len(lists[i]) :
      /\ before[i] + j <= Len(rs) =>
           Verdict(lists[i][j], rs[before[i] + j], lone)
      /\ before[i] + j > Len(rs) =>
           lists[i][j] = rest[(before[i] + j) - Len(rs)]

CoversFor(c, lists) == Covers(lists, results[c], todo[c], c \in alone)

\* The schema items that c visits, how many it has visited, and what they list.
Schema(c)  == Normalized(request[c].doc)
Visited(c) == Len(Schema(c)) - Len(items[c])
Seen(c)    == [i \in 1..Visited(c) |-> Listed(Schema(c)[i])]

\* Between two lists, what was judged is what was seen; the top level counts
\* if that is nothing.
ItemsInv(c) ==
  pc[c] = "items" =>
    /\ Visited(c) \in 0..Len(Schema(c))
    /\ items[c] = SubSeq(Schema(c), Visited(c) + 1, Len(Schema(c)))
    /\ CoversFor(c, Seen(c))
    /\ (results[c] = <<>> /\ todo[c] = <<>>) <=>
         \A i \in 1..Visited(c) : Seen(c)[i] = <<>>

\* Then the results are about the document.
TopInv(c) ==
  /\ pc[c] = "top" => CoversFor(c, Declared(request[c].doc))
  /\ c \in Batches => todo[c] = <<>> /\ CoversFor(c, Declared(request[c].doc))

\* The endpoints for one requirement.
SingleInv(c) ==
  /\ pc[c] = "idle" => results[c] = <<>> /\ todo[c] = <<>>
  /\ pc[c] \in {"evaluate", "template", "rendered"} =>
       results[c] = <<>> /\ todo[c] = request[c].reqs
  /\ (pc[c] = "done" /\ request[c].route # "batch") =>
       \A i \in DOMAIN results[c] :
         results[c][i].success => Backed(request[c].reqs[1])

CallInv(c) == RouteInv(c) /\ ItemsInv(c) /\ TopInv(c) /\ SingleInv(c)

IInv ==
  /\ TypeInv
  /\ AloneInv
  /\ \A c \in Call : CallInv(c)

-----------------------------------------------------------------------------
(* Requests and documents.                                                 *)

LEMMA RequestForm ==
  ASSUME NEW r \in Request
  PROVE  /\ r.route = "batch" => r.doc \in Document
         /\ r.route # "batch" =>
              /\ r.route \in {"evaluate", "template"}
              /\ r.reqs \in Seq(Requirement) /\ Len(r.reqs) = 1
  <1> DEFINE Singles == {<<q>> : q \in Requirement}
  <1>1. CASE r \in [route : {"batch"}, doc : Document]
    BY <1>1
  <1>2. CASE r \in [route : {"evaluate", "template"}, reqs : Singles]
    <2>1. r.route \in {"evaluate", "template"} /\ r.reqs \in Singles
      <3> HIDE DEF Singles
      <3> QED
        BY <1>2
    <2>2. PICK q \in Requirement : r.reqs = <<q>>
      BY <2>1
    <2> QED
      BY <2>1, <2>2
  <1> QED
    BY <1>1, <1>2 DEF Request

LEMMA DocumentForm ==
  ASSUME NEW doc \in Document
  PROVE  /\ Normalized(doc) \in Seq(Quality)
         /\ doc.top \in Quality
         /\ doc.top.reqs \in Seq(Requirement)
         /\ \A i \in 1..Len(Normalized(doc)) :
              Listed(Normalized(doc)[i]) \in Seq(Requirement)
  <1>1. /\ doc.schema \in Seq(Quality) /\ doc.top \in Quality
    BY DocumentAssumption
  <1>2. Normalized(doc) \in Seq(Quality)
    BY <1>1 DEF Normalized
  <1>3. \A item \in Quality : item.reqs \in Seq(Requirement)
    BY DEF Quality
  <1>4. \A item \in Quality : Listed(item) \in Seq(Requirement)
    BY <1>3 DEF Listed
  <1>5. \A i \in 1..Len(Normalized(doc)) : Normalized(doc)[i] \in Quality
    BY <1>2
  <1> QED
    BY <1>1, <1>2, <1>3, <1>4, <1>5

\* What the handler visits is what the reference definition nests.
LEMMA NestedForm ==
  ASSUME NEW doc \in Document
  PROVE  Nested(doc) = [i \in 1..Len(Normalized(doc)) |-> Listed(Normalized(doc)[i])]
  <1>1. doc.schema \in Seq(Quality)
    BY DocumentAssumption
  <1>2. CASE doc.schemaShape = "other"
    BY <1>2 DEF Nested, Normalized
  <1>3. CASE doc.schemaShape # "other"
    BY <1>3 DEF Nested, Normalized
  <1> QED
    BY <1>2, <1>3

LEMMA RequirementForm ==
  ASSUME NEW q \in Requirement
  PROVE  /\ q.engine \in {"JQ", "GREAT_EXPECTATIONS", "SCHEMA", "other"}
         /\ q.outputs \in Seq({"true", "false", "bad"})
  BY RequirementAssumption

-----------------------------------------------------------------------------
(* How results cover lists of requirements.                                *)

LEMMA NothingCovers ==
  ASSUME NEW lone \in BOOLEAN
  PROVE  Covers(<<>>, <<>>, <<>>, lone)
  <1>1. [i \in 1..1 |-> 0] \in Layout(<<>>, Len(<<>>) + Len(<<>>))
    BY DEF Layout
  <1> QED
    BY <1>1 DEF Covers

LEMMA CoversFirst ==
  ASSUME NEW l \in Seq(Requirement), NEW lone \in BOOLEAN
  PROVE  Covers(<<l>>, <<>>, l, lone)
  <1> DEFINE before == [i \in 1..2 |-> IF i = 1 THEN 0 ELSE Len(l)]
  <1>1. before \in Layout(<<l>>, Len(<<>>) + Len(l))
    BY DEF Layout
  <1> QED
    BY <1>1 DEF Covers

\* Whoever is met afterwards, results remain.
LEMMA CoversLess ==
  ASSUME NEW lists, NEW rs, NEW rest, NEW lone, NEW lone2,
         Covers(lists, rs, rest, lone), lone2 => lone
  PROVE  Covers(lists, rs, rest, lone2)
  BY DEF Covers, Verdict

\* The next list.
LEMMA CoversNext ==
  ASSUME NEW lists \in Seq(Seq(Requirement)), NEW rs \in Seq(Outcome),
         NEW l \in Seq(Requirement), NEW lone \in BOOLEAN,
         Covers(lists, rs, <<>>, lone)
  PROVE  Covers(Append(lists, l), rs, l, lone)
  <1> DEFINE n == Len(lists)
             m == Len(rs)
             p == Len(l)
             new == Append(lists, l)
  <1>1. n \in Nat /\ m \in Nat /\ p \in Nat
    OBVIOUS
  <1>2. /\ Len(new) = n + 1 /\ new[n + 1] = l
        /\ \A i \in 1..n : new[i] = lists[i] /\ Len(lists[i]) \in Nat
    OBVIOUS
  <1>3. PICK b \in Layout(lists, m) :
          \A i \in 1..n : \A j \in 1..Len(lists[i]) :
            b[i] + j <= m => Verdict(lists[i][j], rs[b[i] + j], lone)
    <2>1. m + Len(<<>>) = m
      BY <1>1
    <2> QED
      BY <2>1 DEF Covers
  <1>4. /\ b \in [1..(n + 1) -> 0..m] /\ b[1] = 0 /\ b[n + 1] = m
        /\ \A i \in 1..n : b[i + 1] = b[i] + Len(lists[i])
    BY <1>3 DEF Layout
  <1> DEFINE before == [i \in 1..(n + 2) |-> IF i = n + 2 THEN m + p ELSE b[i]]
  <1> SUFFICES \E bf \in Layout(new, m + p) :
                 \A i \in 1..Len(new) : \A j \in 1..Len(new[i]) :
                   /\ bf[i] + j <= m => Verdict(new[i][j], rs[bf[i] + j], lone)
                   /\ bf[i] + j > m => new[i][j] = l[(bf[i] + j) - m]
    BY Zenon DEF Covers
  <1>5. Len(lists) = n /\ Len(rs) = m /\ Len(l) = p
    OBVIOUS
  <1> HIDE DEF n, m, p, new
  <1>6. /\ before \in [1..(n + 2) -> 0..(m + p)]
        /\ before[1] = 0 /\ before[n + 2] = m + p
        /\ \A i \in 1..(n + 1) : before[i] = b[i]
    <2>1. \A i \in 1..(n + 2) : i # n + 2 => i \in 1..(n + 1)
      BY <1>1
    <2>2. \A i \in 1..(n + 1) : b[i] \in 0..(m + p) /\ i \in 1..(n + 2) /\ i # n + 2
      BY <1>1, <1>4
    <2>3. m + p \in 0..(m + p) /\ 1 \in 1..(n + 1) /\ n + 2 \in 1..(n + 2)
      BY <1>1
    <2> QED
      BY <2>1, <2>2, <2>3, <1>4
  <1> HIDE DEF before
  <1>7. ASSUME NEW i \in 1..(n + 1)
        PROVE  before[i + 1] = before[i] + Len(new[i])
    <2>1. CASE i = n + 1
      <3>1. before[i] = m /\ before[i + 1] = m + p /\ Len(new[i]) = p
        BY <2>1, <1>1, <1>2, <1>4, <1>5, <1>6
      <3> QED
        BY <3>1
    <2>2. CASE i \in 1..n
      <3>1. /\ i \in 1..(n + 1) /\ i + 1 \in 1..(n + 1)
            /\ before[i] = b[i] /\ before[i + 1] = b[i + 1]
            /\ Len(new[i]) = Len(lists[i])
        BY <2>2, <1>1, <1>2, <1>6
      <3> QED
        BY <3>1, <2>2, <1>4
    <2> QED
      BY <2>1, <2>2, <1>1
  <1>8. before \in Layout(new, m + p)
    BY <1>1, <1>2, <1>6, <1>7 DEF Layout
  <1>9. ASSUME NEW i \in 1..(n + 1), NEW j \in 1..Len(new[i])
        PROVE  /\ before[i] + j <= m => Verdict(new[i][j], rs[before[i] + j], lone)
               /\ before[i] + j > m => new[i][j] = l[(before[i] + j) - m]
    <2>1. CASE i = n + 1
      <3>1. before[i] = m /\ new[i] = l /\ j \in 1..p
        BY <2>1, <1>1, <1>2, <1>4, <1>5, <1>6
      <3>2. m + j > m /\ (m + j) - m = j
        BY <3>1, <1>1
      <3> QED
        BY <3>1, <3>2, <1>1
    <2>2. CASE i \in 1..n
      <3>1. /\ before[i] = b[i] /\ new[i] = lists[i]
            /\ b[i] \in Nat /\ b[i + 1] <= m /\ Len(lists[i]) \in Nat
            /\ b[i + 1] = b[i] + Len(lists[i])
        BY <2>2, <1>1, <1>2, <1>4, <1>6
      <3>2. b[i] + j <= m
        BY <3>1, <1>1
      <3> QED
        BY <3>1, <3>2, <2>2, <1>1, <1>3, <1>5
    <2> QED
      BY <2>1, <2>2, <1>1
  <1> QED
    BY <1>2, <1>8, <1>9

\* The next result.
LEMMA CoversMore ==
  ASSUME NEW lists \in Seq(Seq(Requirement)), NEW rs \in Seq(Outcome),
         NEW rest \in Seq(Requirement), rest # <<>>, NEW o \in Outcome,
         NEW lone \in BOOLEAN,
         Covers(lists, rs, rest, lone), Verdict(Head(rest), o, lone)
  PROVE  Covers(lists, rs \o <<o>>, Tail(rest), lone)
  <1> DEFINE n == Len(lists)
             m == Len(rs)
             p == Len(rest)
             new == rs \o <<o>>
             tail == Tail(rest)
  <1>1. /\ m \in Nat /\ Len(new) = m + 1 /\ new[m + 1] = o
        /\ \A k \in 1..m : new[k] = rs[k]
    OBVIOUS
  <1>2. /\ n \in Nat /\ p \in Nat \ {0} /\ Len(tail) = p - 1
        /\ Head(rest) = rest[1]
        /\ \A k \in 1..(p - 1) : tail[k] = rest[k + 1]
        /\ \A i \in 1..n : Len(lists[i]) \in Nat
    OBVIOUS
  <1>3. PICK b \in Layout(lists, m + p) :
          \A i \in 1..n : \A j \in 1..Len(lists[i]) :
            /\ b[i] + j <= m => Verdict(lists[i][j], rs[b[i] + j], lone)
            /\ b[i] + j > m => lists[i][j] = rest[(b[i] + j) - m]
    BY DEF Covers
  <1>4. /\ b \in [1..(n + 1) -> 0..(m + p)]
        /\ \A i \in 1..n : b[i + 1] = b[i] + Len(lists[i])
    BY <1>3 DEF Layout
  <1>5. b \in Layout(lists, Len(new) + Len(tail))
    <2>1. Len(new) + Len(tail) = m + p
      BY <1>1, <1>2
    <2> QED
      BY <2>1, <1>3
  <1> SUFFICES \A i \in 1..n : \A j \in 1..Len(lists[i]) :
                 /\ b[i] + j <= m + 1 => Verdict(lists[i][j], new[b[i] + j], lone)
                 /\ b[i] + j > m + 1 => lists[i][j] = tail[(b[i] + j) - (m + 1)]
    BY <1>1, <1>5 DEF Covers
  <1>6. Verdict(rest[1], o, lone)
    BY <1>2
  <1>0. n \in Nat /\ m \in Nat /\ p \in Nat \ {0}
    BY <1>1, <1>2
  <1> HIDE DEF n, m, p, new, tail
  <1> SUFFICES ASSUME NEW i \in 1..n, NEW j \in 1..Len(lists[i])
               PROVE  /\ b[i] + j <= m + 1 => Verdict(lists[i][j], new[b[i] + j], lone)
                      /\ b[i] + j > m + 1 => lists[i][j] = tail[(b[i] + j) - (m + 1)]
    OBVIOUS
  <1>7. /\ b[i] \in Nat /\ b[i + 1] = b[i] + Len(lists[i]) /\ b[i + 1] <= m + p
        /\ Len(lists[i]) \in Nat
    BY <1>1, <1>2, <1>4
  <1>8. PICK k \in 1..(m + p) : k = b[i] + j
    <2>1. b[i] \in Nat /\ Len(lists[i]) \in Nat
      BY <1>7
    <2>2. b[i] + Len(lists[i]) <= m + p
      BY <1>7
    <2>3. j \in Nat \ {0} /\ j <= Len(lists[i])
      BY <2>1
    <2>4. b[i] + j \in 1..(m + p)
      BY <2>1, <2>2, <2>3, <1>0
    <2> QED
      BY <2>4
  <1>9. /\ k <= m => Verdict(lists[i][j], rs[k], lone)
        /\ k > m => lists[i][j] = rest[k - m]
    <2>1. /\ b[i] + j <= m => Verdict(lists[i][j], rs[b[i] + j], lone)
          /\ b[i] + j > m => lists[i][j] = rest[(b[i] + j) - m]
      BY <1>3
    <2> QED
      BY <2>1, <1>8
  <1>10. CASE k <= m
    BY <1>8, <1>9, <1>10, <1>1
  <1>11. CASE k = m + 1
    <2>1. k - m = 1 /\ k > m
      BY <1>11, <1>1
    <2>2. lists[i][j] = rest[1] /\ new[k] = o
      BY <2>1, <1>9, <1>11, <1>1
    <2> QED
      BY <2>2, <1>6, <1>8, <1>11, <1>1
  <1>12. CASE k > m + 1
    <2>1. PICK h \in 1..(p - 1) : h = k - (m + 1)
      BY <1>12, <1>0
    <2>2. h + 1 = k - m /\ k > m
      BY <2>1, <1>0
    <2>3. tail[h] = lists[i][j]
      BY <2>1, <2>2, <1>2, <1>9
    <2>4. ~(k <= m + 1)
      BY <1>12, <1>0
    <2>5. ~(b[i] + j <= m + 1)
      BY Zenon, <2>4, <1>8
    <2>6. tail[(b[i] + j) - (m + 1)] = lists[i][j]
      <3>1. (b[i] + j) - (m + 1) = h
        BY <2>1, <1>8
      <3> QED
        BY <3>1, <2>3
    <2> QED
      BY <2>5, <2>6
  <1> QED
    BY <1>10, <1>11, <1>12, <1>1
-----------------------------------------------------------------------------
(* Types.                                                                  *)

LEMMA EvalOneType ==
  ASSUME NEW q PROVE EvalOne(q) \in Outcome
  BY DEF EvalOne, Failure, Success, Outcome

\* The handler c takes a step with its own sequences.
LEMMA JudgedType ==
  ASSUME TypeInv, NEW c \in Call, NEW rs \in Seq(Outcome), todo[c] # <<>>,
         Judged(c, rs)
  PROVE  /\ todo' \in [Call -> Seq(Requirement)]
         /\ results' \in [Call -> Seq(Outcome)]
         /\ context' \in [Call -> {"none", "bare", "ready"}]
  <1>1. todo[c] \in Seq(Requirement) /\ results[c] \in Seq(Outcome)
    BY DEF TypeInv
  <1>2. Tail(todo[c]) \in Seq(Requirement) /\ results[c] \o rs \in Seq(Outcome)
    BY <1>1
  <1> QED
    BY <1>2 DEF TypeInv, Judged

LEMMA TypeStep ==
  ASSUME TypeInv, \A c \in Call : CallInv(c), [Next]_vars
  PROVE  TypeInv'
  <1>1. CASE UNCHANGED vars
    BY <1>1 DEF TypeInv, vars, gx
  <1>2. ASSUME NEW c \in Call, Arrive(c) PROVE TypeInv'
    <2>1. PICK r \in Asked[c] :
            /\ request' = [request EXCEPT ![c] = r]
            /\ IF r.route = "batch"
               THEN /\ pc' = [pc EXCEPT ![c] = "items"]
                    /\ items' = [items EXCEPT ![c] = Normalized(r.doc)]
                    /\ UNCHANGED todo
               ELSE /\ pc' = [pc EXCEPT ![c] = r.route]
                    /\ todo' = [todo EXCEPT ![c] = r.reqs]
                    /\ UNCHANGED items
      BY <1>2 DEF Arrive
    <2>2. r \in Request
      BY AskedAssumption
    <2>3. request' \in [Call -> Request \cup {None}]
      BY <2>1, <2>2 DEF TypeInv
    <2>4. alone' \subseteq Call /\ UNCHANGED <<results, gx>>
      BY <1>2 DEF Arrive, Meets, TypeInv
    <2>5. CASE r.route = "batch"
      <3>1. Normalized(r.doc) \in Seq(Quality)
        BY <2>2, <2>5, RequestForm, DocumentForm
      <3> QED
        BY <2>1, <2>3, <2>4, <2>5, <3>1 DEF TypeInv, Steps, gx
    <2>6. CASE r.route # "batch"
      <3>1. r.reqs \in Seq(Requirement) /\ r.route \in Steps
        BY <2>2, <2>6, RequestForm DEF Steps
      <3> QED
        BY <2>1, <2>3, <2>4, <2>6, <3>1 DEF TypeInv, gx
    <2> QED
      BY <2>5, <2>6
  <1>3. ASSUME NEW c \in Call, GetContext(c) \/ AddDataSource(c) PROVE TypeInv'
    BY <1>3 DEF TypeInv, GetContext, AddDataSource
  <1>4. ASSUME NEW c \in Call, NEW rs \in Seq(Outcome), todo[c] # <<>>,
               Judged(c, rs), UNCHANGED request, pc' \in [Call -> Steps]
        PROVE  TypeInv'
    <2>1. UNCHANGED <<items, project, alone>>
      BY <1>4 DEF Judged
    <2> QED
      BY <2>1, <1>4, JudgedType DEF TypeInv
  <1>5. \A c \in Call : pc[c] = "template" => todo[c] # <<>>
    <2> SUFFICES ASSUME NEW c \in Call, pc[c] = "template" PROVE todo[c] # <<>>
      OBVIOUS
    <2>1. todo[c] = request[c].reqs /\ request[c].route # "batch" /\ request[c] \in Request
      BY DEF CallInv, RouteInv, SingleInv
    <2>2. Len(todo[c]) = 1
      BY <2>1, RequestForm
    <2> QED
      BY <2>2
  <1>6. ASSUME NEW c \in Call, HandleEvaluate(c) \/ EvalNext(c) \/ TemplateFails(c)
                                 \/ HandleTemplate(c)
        PROVE  TypeInv'
    <2>1. \E rs \in Seq(Outcome) : Judged(c, rs)
      <3>1. /\ <<>> \in Seq(Outcome) /\ <<Failure>> \in Seq(Outcome)
            /\ <<EvalOne(Head(todo[c]))>> \in Seq(Outcome)
        BY EvalOneType DEF Failure, Outcome
      <3> QED
        BY <3>1, <1>6 DEF HandleEvaluate, EvalNext, TemplateFails, HandleTemplate
    <2>2. todo[c] # <<>>
      BY <1>5, <1>6 DEF HandleEvaluate, EvalNext, TemplateFails, HandleTemplate, Evaluates
    <2>3. UNCHANGED request /\ pc' \in [Call -> Steps]
      BY <1>6 DEF HandleEvaluate, EvalNext, TemplateFails, HandleTemplate, Answer,
                  TypeInv, Steps
    <2> QED
      BY <2>1, <2>2, <2>3, <1>4
  <1>7. ASSUME NEW c \in Call, VisitItem(c) PROVE TypeInv'
    <2>1. items[c] \in Seq(Quality) /\ items[c] # <<>>
      BY <1>7 DEF VisitItem, TypeInv
    <2>2. Tail(items[c]) \in Seq(Quality) /\ Head(items[c]) \in Quality
      BY <2>1
    <2>3. Head(items[c]).reqs \in Seq(Requirement) /\ <<>> \in Seq(Requirement)
      BY <2>2 DEF Quality
    <2> QED
      BY <1>7, <2>2, <2>3 DEF TypeInv, VisitItem, gx
  <1>8. ASSUME NEW c \in Call, FallBack(c) PROVE TypeInv'
    <2>1. request[c] \in Request /\ request[c].route = "batch"
      BY <1>8 DEF FallBack, CallInv, RouteInv
    <2>2. request[c].doc.top.reqs \in Seq(Requirement) /\ <<>> \in Seq(Requirement)
      BY <2>1, RequestForm, DocumentForm
    <2> QED
      BY <1>8, <2>2 DEF TypeInv, FallBack, Goto, Steps, gx
  <1>9. ASSUME NEW c \in Call, ReturnResults(c) \/ TemplateRendered(c) PROVE TypeInv'
    BY <1>9 DEF TypeInv, ReturnResults, TemplateRendered, Answer, Goto, Steps, gx
  <1> QED
    BY <1>1, <1>2, <1>3, <1>6, <1>7, <1>8, <1>9 DEF Next, Handle

-----------------------------------------------------------------------------
(* Calls that run alone.                                                   *)

LEMMA AloneStep ==
  ASSUME TypeInv, AloneInv, [Next]_vars
  PROVE  AloneInv'
  <1>1. CASE UNCHANGED vars
    BY <1>1 DEF AloneInv, Running, vars, gx
  <1>2. ASSUME NEW c \in Call, Arrive(c) PROVE AloneInv'
    <2>1. /\ ~Running(c) /\ context[c] = "none"
          /\ UNCHANGED <<context, project>>
      BY <1>2 DEF Arrive, AloneInv, Running, TypeInv, gx
    <2>2. \A d \in Call \ {c} : (Running(d)' <=> Running(d)) /\ todo'[d] = todo[d]
      BY <1>2 DEF Arrive, Running, TypeInv
    <2>3. /\ alone' \subseteq alone
          /\ \A d \in Call \ {c} : Running(d) => d \notin alone' /\ c \notin alone'
      BY <1>2 DEF Arrive, Meets
    <2> QED
      BY <2>1, <2>2, <2>3 DEF AloneInv
  <1>3. ASSUME NEW c \in Call, GetContext(c) PROVE AloneInv'
    <2>1. /\ Running(c) /\ UNCHANGED <<pc, todo, alone>> /\ project' = {c}
          /\ todo[c] # <<>>
          /\ context' = [context EXCEPT ![c] = "bare"]
      BY <1>3 DEF GetContext, Expects, Running
    <2> QED
      BY <2>1 DEF AloneInv, Running, TypeInv
  <1>4. ASSUME NEW c \in Call, AddDataSource(c) PROVE AloneInv'
    <2>1. /\ Running(c) /\ UNCHANGED <<pc, todo, alone, project>>
          /\ context' = [context EXCEPT ![c] = "ready"] /\ context[c] # "none"
      BY <1>4 DEF AddDataSource, Expects, Running
    <2> QED
      BY <2>1 DEF AloneInv, Running, TypeInv
  <1>5. ASSUME NEW c \in Call, Running(c), UNCHANGED <<alone, project>>,
               \A d \in Call \ {c} :
                 /\ pc'[d] = pc[d] /\ context'[d] = context[d] /\ todo'[d] = todo[d],
               \/ context'[c] = "none"
               \/ context'[c] = context[c] /\ Running(c)' /\ todo'[c] = todo[c]
        PROVE  AloneInv'
    BY <1>5 DEF AloneInv, Running
  <1>6. ASSUME NEW c \in Call, HandleEvaluate(c) \/ EvalNext(c) \/ TemplateFails(c)
                                 \/ HandleTemplate(c)
        PROVE  AloneInv'
    <2>1. /\ Running(c) /\ UNCHANGED <<alone, project>>
          /\ context' = [context EXCEPT ![c] = "none"]
          /\ \A d \in Call \ {c} : pc'[d] = pc[d] /\ todo'[d] = todo[d]
      BY <1>6 DEF HandleEvaluate, EvalNext, TemplateFails, HandleTemplate, Judged,
                  Answer, Running, TypeInv
    <2> QED
      BY <2>1, <1>5 DEF TypeInv
  <1>7. ASSUME NEW c \in Call, VisitItem(c) \/ FallBack(c) \/ ReturnResults(c)
        PROVE  AloneInv'
    <2>1. /\ Running(c) /\ UNCHANGED <<alone, project, context>>
          /\ todo[c] = <<>>
          /\ \A d \in Call \ {c} : pc'[d] = pc[d] /\ todo'[d] = todo[d]
      BY <1>7 DEF VisitItem, FallBack, ReturnResults, Answer, Goto, Running, TypeInv, gx
    <2>2. context'[c] = "none"
      BY <2>1 DEF AloneInv
    <2> QED
      BY <2>1, <2>2, <1>5
  <1>8. ASSUME NEW c \in Call, TemplateRendered(c) PROVE AloneInv'
    <2>1. /\ Running(c) /\ Running(c)' /\ UNCHANGED <<alone, project, context, todo>>
          /\ \A d \in Call \ {c} : pc'[d] = pc[d]
      BY <1>8 DEF TemplateRendered, Goto, Running, TypeInv, gx
    <2> QED
      BY <2>1, <1>5
  <1> QED
    BY <1>1, <1>2, <1>3, <1>4, <1>6, <1>7, <1>8 DEF Next, Handle
-----------------------------------------------------------------------------
(* What is known of a call changes only by its own steps.                  *)

LEMMA CallKept ==
  ASSUME NEW c \in Call, CallInv(c), alone' \subseteq alone,
         request'[c] = request[c], pc'[c] = pc[c], items'[c] = items[c],
         todo'[c] = todo[c], results'[c] = results[c]
  PROVE  CallInv(c)'
  <1>1. RouteInv(c)'
    BY DEF CallInv, RouteInv
  <1>2. /\ Schema(c)' = Schema(c) /\ Visited(c)' = Visited(c)
    BY DEF Schema, Visited
  <1>3. Seen(c)' = Seen(c)
    BY <1>2 DEF Seen
  <1>4. \A lists : CoversFor(c, lists) => CoversFor(c, lists)'
    BY CoversLess DEF CoversFor
  <1>5. ItemsInv(c)'
    BY <1>2, <1>3, <1>4 DEF CallInv, ItemsInv
  <1>6. TopInv(c)'
    BY <1>4 DEF CallInv, TopInv, Batches
  <1>7. SingleInv(c)'
    BY DEF CallInv, SingleInv
  <1> QED
    BY <1>1, <1>5, <1>6, <1>7 DEF CallInv

\* What the engines tell of the next requirement.
LEMMA NextVerdict ==
  ASSUME TypeInv, AloneInv, NEW c \in Call, Evaluates(c)
  PROVE  LET q == Head(todo[c])
         IN  q \in Requirement /\ Verdict(q, EvalOne(q), c \in alone)
  <1> DEFINE q == Head(todo[c])
  <1>1. q \in Requirement
    BY DEF Evaluates, TypeInv
  <1>2. q.engine \in {"JQ", "GREAT_EXPECTATIONS", "SCHEMA", "other"}
        /\ q.outputs \in Seq({"true", "false", "bad"})
    BY <1>1, RequirementForm
  <1>3. (Lost(q) /\ c \in alone) => Raises(q)
    <2>1. SUFFICES ASSUME Lost(q), c \in alone, ~Raises(q) PROVE FALSE
      OBVIOUS
    <2>2. context[c] = "ready"
      BY <2>1 DEF Evaluates, Lost
    <2> QED
      BY <2>1, <2>2 DEF Lost, AloneInv
  <1>4. CASE Raises(q) \/ Lost(q)
    <2>1. EvalOne(q).error = TRUE /\ EvalOne(q).success = FALSE
      BY <1>4 DEF EvalOne, Failure
    <2> QED
      BY <2>1, <1>1, <1>3, <1>4 DEF Verdict, Raises
  <1>5. CASE ~Raises(q) /\ ~Lost(q)
    <2>1. EvalOne(q).error = FALSE /\ EvalOne(q).success = Success(q)
      BY <1>5 DEF EvalOne
    <2>2. Success(q) => Backed(q)
      BY <1>2, <1>5 DEF Success, Backed, Raises, ToSet
    <2>3. Raises(q) = FALSE
      BY <1>5 DEF Raises
    <2> QED
      BY <2>1, <2>2, <2>3, <1>1 DEF Verdict
  <1> QED
    BY <1>4, <1>5
\* The next result of a batch.
LEMMA EvalNextCovers ==
  ASSUME TypeInv, AloneInv, NEW c \in Call, EvalNext(c),
         NEW lists \in Seq(Seq(Requirement)), CoversFor(c, lists)
  PROVE  CoversFor(c, lists)'
  <1> DEFINE q == Head(todo[c])
  <1>1. /\ todo[c] # <<>> /\ todo[c] \in Seq(Requirement)
        /\ results[c] \in Seq(Outcome)
    BY DEF EvalNext, Evaluates, TypeInv
  <1>2. /\ results'[c] = results[c] \o <<EvalOne(q)>>
        /\ todo'[c] = Tail(todo[c])
        /\ alone' = alone
    BY DEF EvalNext, Judged, TypeInv
  <1>3. Verdict(q, EvalOne(q), c \in alone) /\ EvalOne(q) \in Outcome
    BY NextVerdict, EvalOneType DEF EvalNext
  <1>4. (c \in alone) \in BOOLEAN
    OBVIOUS
  <1>5. Covers(lists, results[c], todo[c], c \in alone)
    BY DEF CoversFor
  <1>6. Covers(lists, results[c] \o <<EvalOne(q)>>, Tail(todo[c]), c \in alone)
    BY <1>1, <1>3, <1>4, <1>5, CoversMore
  <1> QED
    BY <1>2, <1>6 DEF CoversFor

LEMMA ArriveStep ==
  ASSUME TypeInv, NEW c \in Call, CallInv(c), Arrive(c)
  PROVE  CallInv(c)'
  <1>1. PICK r \in Asked[c] :
          /\ request' = [request EXCEPT ![c] = r]
          /\ IF r.route = "batch"
             THEN /\ pc' = [pc EXCEPT ![c] = "items"]
                  /\ items' = [items EXCEPT ![c] = Normalized(r.doc)]
                  /\ UNCHANGED todo
             ELSE /\ pc' = [pc EXCEPT ![c] = r.route]
                  /\ todo' = [todo EXCEPT ![c] = r.reqs]
                  /\ UNCHANGED items
    BY DEF Arrive
  <1>2. r \in Request /\ request'[c] = r
    BY <1>1, AskedAssumption DEF TypeInv
  <1>3. results[c] = <<>> /\ todo[c] = <<>> /\ results' = results
    BY DEF Arrive, CallInv, SingleInv
  <1>4. CASE r.route = "batch"
    <2>1. pc'[c] = "items" /\ items'[c] = Normalized(r.doc) /\ todo'[c] = <<>>
      BY <1>1, <1>3, <1>4 DEF TypeInv
    <2>2. Normalized(r.doc) \in Seq(Quality)
      BY <1>2, <1>4, RequestForm, DocumentForm
    <2>3. Schema(c)' = Normalized(r.doc) /\ Visited(c)' = 0
      BY <1>2, <2>1, <2>2 DEF Schema, Visited
    <2>4. Seen(c)' = <<>>
      BY <2>3 DEF Seen
    <2>5. CoversFor(c, Seen(c))'
      <3>1. (c \in alone') \in BOOLEAN
        OBVIOUS
      <3>2. Covers(<<>>, <<>>, <<>>, c \in alone')
        BY <3>1, NothingCovers
      <3> QED
        BY <3>2, <2>1, <2>4, <1>3 DEF CoversFor
    <2>6. SubSeq(Normalized(r.doc), 1, Len(Normalized(r.doc))) = Normalized(r.doc)
      BY <2>2
    <2>7. ItemsInv(c)'
      BY <1>3, <2>1, <2>2, <2>3, <2>5, <2>6 DEF ItemsInv
    <2> QED
      BY <1>2, <1>4, <2>1, <2>7 DEF CallInv, RouteInv, TopInv, SingleInv, Batches
  <1>5. CASE r.route # "batch"
    <2>1. /\ r.route \in {"evaluate", "template"}
          /\ pc'[c] = r.route /\ todo'[c] = r.reqs
      BY <1>1, <1>2, <1>5, RequestForm DEF TypeInv
    <2> QED
      BY <1>2, <1>3, <1>5, <2>1
         DEF CallInv, RouteInv, ItemsInv, TopInv, SingleInv, Batches
  <1> QED
    BY <1>4, <1>5

\* The one result of an endpoint for one requirement.
LEMMA SingleStep ==
  ASSUME TypeInv, AloneInv, NEW c \in Call, CallInv(c),
         pc[c] \in {"evaluate", "template", "rendered"}, pc'[c] = "done",
         UNCHANGED request, NEW rs, Judged(c, rs),
         rs = <<>> \/ rs = <<Failure>> \/
           (Evaluates(c) /\ rs = <<EvalOne(Head(todo[c]))>>)
  PROVE  CallInv(c)'
  <1>1. /\ request[c] \in Request /\ request[c].route # "batch"
        /\ results[c] = <<>> /\ todo[c] = request[c].reqs
    BY DEF CallInv, RouteInv, SingleInv
  <1>2. todo[c] \in Seq(Requirement) /\ Len(todo[c]) = 1
    BY <1>1, RequestForm
  <1>3. results'[c] = rs
    BY <1>1 DEF Judged, TypeInv
  <1>4. \A i \in DOMAIN rs : rs[i].success => Backed(request[c].reqs[1])
    <2>1. CASE rs = <<>>
      BY <2>1
    <2>2. CASE rs = <<Failure>>
      BY <2>2 DEF Failure
    <2>3. CASE Evaluates(c) /\ rs = <<EvalOne(Head(todo[c]))>>
      <3>1. EvalOne(Head(todo[c])).success => Backed(Head(todo[c]))
        BY <2>3, NextVerdict DEF Verdict
      <3>2. Head(todo[c]) = request[c].reqs[1]
        BY <1>1, <1>2
      <3> QED
        BY <2>3, <3>1, <3>2
    <2> QED
      BY <2>1, <2>2, <2>3
  <1> QED
    BY <1>1, <1>3, <1>4 DEF CallInv, RouteInv, ItemsInv, TopInv, SingleInv, Batches
LEMMA RestOfSequence ==
  ASSUME NEW S, NEW s \in Seq(S), NEW n \in 0..Len(s),
         SubSeq(s, n + 1, Len(s)) # <<>>
  PROVE  /\ n + 1 \in 1..Len(s)
         /\ Head(SubSeq(s, n + 1, Len(s))) = s[n + 1]
         /\ Tail(SubSeq(s, n + 1, Len(s))) = SubSeq(s, n + 2, Len(s))
         /\ Len(SubSeq(s, n + 2, Len(s))) = Len(s) - (n + 1)
  <1>1. n + 1 \in 1..Len(s)
    <2>1. CASE n = Len(s)
      <3>1. SubSeq(s, n + 1, Len(s)) = <<>>
        BY <2>1
      <3> QED
        BY <3>1
    <2> QED
      BY <2>1
  <1>2. PICK m \in 1..Len(s) : m = n + 1
    BY <1>1
  <1>3. /\ Head(SubSeq(s, m, Len(s))) = s[m]
        /\ Tail(SubSeq(s, m, Len(s))) = SubSeq(s, m + 1, Len(s))
    BY <1>1, <1>2, HeadTailOfSubSeq
  <1>4. Len(SubSeq(s, n + 2, Len(s))) = Len(s) - (n + 1)
    BY <1>1
  <1> QED
    BY <1>1, <1>2, <1>3, <1>4

LEMMA VisitStep ==
  ASSUME TypeInv, NEW c \in Call, CallInv(c), VisitItem(c)
  PROVE  CallInv(c)'
  <1> DEFINE l == Listed(Head(items[c]))
  <1>1. /\ pc[c] = "items" /\ pc' = pc /\ UNCHANGED <<request, results, alone>>
        /\ todo[c] = <<>> /\ items[c] # <<>>
        /\ todo'[c] = l /\ items'[c] = Tail(items[c])
    BY DEF VisitItem, Listed, TypeInv
  <1>2. request[c] \in Request /\ request[c].route = "batch"
    BY <1>1 DEF CallInv, RouteInv
  <1>3. PICK sc \in Seq(Quality) :
          /\ sc = Schema(c)
          /\ \A i \in 1..Len(sc) : Listed(sc[i]) \in Seq(Requirement)
    BY <1>2, RequestForm, DocumentForm DEF Schema
  <1>4. PICK n \in 0..Len(sc) : n = Visited(c)
    BY <1>1, <1>3 DEF CallInv, ItemsInv
  <1>5. /\ items[c] = SubSeq(sc, n + 1, Len(sc))
        /\ Covers(Seen(c), results[c], <<>>, c \in alone)
        /\ results[c] = <<>> <=> \A i \in 1..n : Seen(c)[i] = <<>>
    BY <1>1, <1>3, <1>4 DEF CallInv, ItemsInv, CoversFor
  <1>6. Schema(c)' = sc
    BY <1>1, <1>3 DEF Schema
  <1>7. /\ n + 1 \in 1..Len(sc) /\ Head(items[c]) = sc[n + 1]
        /\ items'[c] = SubSeq(sc, n + 2, Len(sc))
        /\ Len(items'[c]) = Len(sc) - (n + 1)
    BY <1>1, <1>5, RestOfSequence
  <1>8. Visited(c)' = n + 1
    <2>1. Visited(c)' = Len(Schema(c)') - Len(items'[c])
      BY DEF Visited
    <2>2. Visited(c)' = Len(sc) - (Len(sc) - (n + 1))
      BY <2>1, <1>6, <1>7
    <2>3. Len(sc) \in Nat
      OBVIOUS
    <2> QED
      BY <2>2, <2>3
  <1>9. l \in Seq(Requirement) /\ l = Listed(sc[n + 1])
    BY <1>3, <1>7
  <1>10. n \in Nat
    OBVIOUS
  <1> DEFINE seen == [i \in 1..n |-> Listed(sc[i])]
  <1>11. Seen(c) = seen /\ seen \in Seq(Seq(Requirement)) /\ Len(seen) = n
    <2>1. Seen(c) = seen
      BY <1>3, <1>4 DEF Seen
    <2>2. \A i \in 1..n : Listed(sc[i]) \in Seq(Requirement)
      <3>1. Len(sc) \in Nat
        OBVIOUS
      <3>2. \A i \in 1..n : i \in 1..Len(sc)
        BY <3>1
      <3> QED
        BY <3>2, <1>3
    <2> QED
      BY <2>1, <2>2
  <1>12. Seen(c)' = [i \in 1..(n + 1) |-> Listed(sc[i])]
    BY <1>6, <1>8, <1>10 DEF Seen
  <1>13. Seen(c)' = Append(seen, l)
    <2>1. Append(seen, l) = [i \in 1..(n + 1) |-> IF i = n + 1 THEN l ELSE seen[i]]
      BY <1>11
    <2>2. \A i \in 1..(n + 1) :
            Listed(sc[i]) = IF i = n + 1 THEN l ELSE seen[i]
      BY <1>9, <1>10
    <2> QED
      BY <2>1, <2>2, <1>12
  <1>14. CoversFor(c, Seen(c))'
    <2>1. Covers(Append(seen, l), results[c], l, c \in alone)
      <3>1. results[c] \in Seq(Outcome) /\ (c \in alone) \in BOOLEAN
        BY DEF TypeInv
      <3>2. Covers(seen, results[c], <<>>, c \in alone)
        BY <1>5, <1>11
      <3> HIDE DEF seen, l
      <3> QED
        BY <3>1, <3>2, <1>9, <1>11, CoversNext
    <2> QED
      BY <2>1, <1>1, <1>13 DEF CoversFor
  <1>15. (results'[c] = <<>> /\ todo'[c] = <<>>) <=>
            \A i \in 1..(n + 1) : Listed(sc[i]) = <<>>
    <2>1. results[c] = <<>> <=> \A i \in 1..n : Listed(sc[i]) = <<>>
      BY <1>5, <1>10, <1>11
    <2> QED
      BY <2>1, <1>1, <1>9, <1>10
  <1>16. ItemsInv(c)'
    <2>1. /\ Visited(c)' \in 0..Len(Schema(c)')
          /\ items'[c] = SubSeq(Schema(c)', Visited(c)' + 1, Len(Schema(c)'))
      BY <1>6, <1>7, <1>8
    <2>2. (results'[c] = <<>> /\ todo'[c] = <<>>) <=>
             \A i \in 1..Visited(c)' : Seen(c)'[i] = <<>>
      BY <1>8, <1>10, <1>12, <1>15
    <2> QED
      BY <2>1, <2>2, <1>14 DEF ItemsInv
  <1> QED
    BY <1>1, <1>2, <1>16 DEF CallInv, RouteInv, TopInv, SingleInv, Batches

LEMMA FallBackStep ==
  ASSUME TypeInv, NEW c \in Call, CallInv(c), FallBack(c)
  PROVE  CallInv(c)'
  <1> DEFINE doc == request[c].doc
             top == doc.top
  <1>1. /\ pc[c] = "items" /\ pc'[c] = "top" /\ UNCHANGED <<request, results, alone>>
        /\ todo[c] = <<>> /\ items[c] = <<>>
        /\ todo'[c] = IF results[c] = <<>> /\ top.shape # "other"
                      THEN top.reqs ELSE <<>>
    BY DEF FallBack, Goto, TypeInv
  <1>2. request[c] \in Request /\ request[c].route = "batch"
    BY <1>1 DEF CallInv, RouteInv
  <1>3. /\ doc \in Document /\ top.reqs \in Seq(Requirement)
        /\ Schema(c) \in Seq(Quality)
        /\ Nested(doc) = [i \in 1..Len(Schema(c)) |-> Listed(Schema(c)[i])]
    BY <1>2, RequestForm, DocumentForm, NestedForm DEF Schema
  <1>4. Visited(c) = Len(Schema(c))
    BY <1>1, <1>3 DEF Visited
  <1>5. Seen(c) = Nested(doc)
    BY <1>3, <1>4 DEF Seen
  <1>6. /\ Covers(Nested(doc), results[c], <<>>, c \in alone)
        /\ results[c] = <<>> <=> \A i \in DOMAIN Nested(doc) : Nested(doc)[i] = <<>>
    <2>1. DOMAIN Nested(doc) = 1..Visited(c)
      BY <1>3, <1>4
    <2> QED
      BY <2>1, <1>1, <1>5 DEF CallInv, ItemsInv, CoversFor
  <1>7. CoversFor(c, Declared(doc))'
    <2>1. PICK d \in Document : d = doc
      BY <1>3
    <2> SUFFICES Covers(Declared(d), results[c], todo'[c], c \in alone)
      BY <1>1, <2>1 DEF CoversFor
    <2>2. CASE results[c] = <<>> /\ top.shape # "other"
      <3>1. Declared(d) = <<top.reqs>> /\ todo'[c] = top.reqs
        BY <1>1, <1>6, <2>1, <2>2 DEF Declared
      <3>2. (c \in alone) \in BOOLEAN
        OBVIOUS
      <3>3. Covers(<<top.reqs>>, <<>>, top.reqs, c \in alone)
        BY <1>3, <3>2, CoversFirst
      <3> QED
        BY <3>1, <3>3, <2>2
    <2>3. CASE ~(results[c] = <<>> /\ top.shape # "other")
      <3>1. Declared(d) = Nested(doc) /\ todo'[c] = <<>>
        BY <1>1, <1>6, <2>1, <2>3 DEF Declared
      <3> QED
        BY <3>1, <1>6
    <2> QED
      BY <2>2, <2>3
  <1> QED
    BY <1>1, <1>2, <1>7 DEF CallInv, RouteInv, ItemsInv, TopInv, SingleInv, Batches
LEMMA DeclaredType ==
  ASSUME NEW doc \in Document
  PROVE  /\ Nested(doc) \in Seq(Seq(Requirement))
         /\ Declared(doc) \in Seq(Seq(Requirement))
  <1> DEFINE sc == Normalized(doc)
  <1>1. /\ Len(sc) \in Nat
        /\ \A i \in 1..Len(sc) : Listed(sc[i]) \in Seq(Requirement)
        /\ Nested(doc) = [i \in 1..Len(sc) |-> Listed(sc[i])]
        /\ doc.top.reqs \in Seq(Requirement)
    BY DocumentForm, NestedForm
  <1> HIDE DEF sc
  <1>2. Nested(doc) \in Seq(Seq(Requirement))
    BY <1>1
  <1>3. <<doc.top.reqs>> \in Seq(Seq(Requirement))
    BY <1>1
  <1> QED
    BY <1>2, <1>3 DEF Declared

LEMMA EvalNextStep ==
  ASSUME TypeInv, AloneInv, NEW c \in Call, CallInv(c), EvalNext(c)
  PROVE  CallInv(c)'
  <1>1. /\ pc[c] \in {"items", "top"} /\ pc' = pc /\ UNCHANGED <<request, items>>
        /\ todo[c] # <<>>
    BY DEF EvalNext, Evaluates, Judged
  <1>2. PICK r \in Request :
          r = request[c] /\ r.route = "batch" /\ r.doc \in Document
    BY <1>1, RequestForm DEF CallInv, RouteInv
  <1>3. results'[c] # <<>>
    <2>1. /\ results'[c] = results[c] \o <<EvalOne(Head(todo[c]))>>
          /\ results[c] \in Seq(Outcome)
      BY DEF EvalNext, Judged, TypeInv
    <2>2. EvalOne(Head(todo[c])) \in Outcome
      BY EvalOneType
    <2> QED
      BY <2>1, <2>2
  <1>4. CASE pc[c] = "items"
    <2>1. Schema(c)' = Schema(c) /\ Visited(c)' = Visited(c)
      BY <1>1 DEF Schema, Visited
    <2>2. PICK lists \in Seq(Seq(Requirement)) : lists = Seen(c)
      <3>1. PICK n \in 0..Len(Normalized(r.doc)) : n = Visited(c)
        BY <1>2, <1>4 DEF CallInv, ItemsInv, Schema
      <3>2. Len(Normalized(r.doc)) \in Nat
            /\ \A i \in 1..Len(Normalized(r.doc)) :
                 Listed(Normalized(r.doc)[i]) \in Seq(Requirement)
        BY <1>2, DocumentForm
      <3>3. \A i \in 1..n : i \in 1..Len(Normalized(r.doc))
        BY <3>2
      <3>4. n \in Nat /\ \A i \in 1..n : Listed(Normalized(r.doc)[i]) \in Seq(Requirement)
        BY <3>2, <3>3
      <3>5. [i \in 1..n |-> Listed(Normalized(r.doc)[i])] \in Seq(Seq(Requirement))
        BY <3>4
      <3>6. Seen(c) = [i \in 1..n |-> Listed(Normalized(r.doc)[i])]
        BY <3>1, <1>2 DEF Seen, Schema
      <3> QED
        BY <3>5, <3>6
    <2>3. Seen(c)' = lists
      BY <2>1, <2>2 DEF Seen
    <2>4. CoversFor(c, lists)
      BY <1>4, <2>2 DEF CallInv, ItemsInv
    <2>5. CoversFor(c, lists)'
      BY <2>4, EvalNextCovers
    <2>6. ~\A i \in 1..Visited(c) : Seen(c)[i] = <<>>
      BY <1>1, <1>4 DEF CallInv, ItemsInv
    <2>7. ItemsInv(c)'
      <3>1. /\ Visited(c)' \in 0..Len(Schema(c)')
            /\ items'[c] = SubSeq(Schema(c)', Visited(c)' + 1, Len(Schema(c)'))
        BY <1>1, <1>4, <2>1 DEF CallInv, ItemsInv
      <3>2. ~\A i \in 1..Visited(c)' : Seen(c)'[i] = <<>>
        BY <2>1, <2>2, <2>3, <2>6
      <3>3. CoversFor(c, Seen(c))'
        BY <2>3, <2>5 DEF CoversFor
      <3> QED
        BY <3>1, <3>2, <3>3, <1>3 DEF ItemsInv
    <2> QED
      BY <1>1, <1>2, <1>4, <2>7 DEF CallInv, RouteInv, TopInv, SingleInv, Batches
  <1>5. CASE pc[c] = "top"
    <2>1. PICK lists \in Seq(Seq(Requirement)) : lists = Declared(r.doc)
      BY <1>2, DeclaredType
    <2>2. CoversFor(c, lists)
      BY <1>2, <1>5, <2>1 DEF CallInv, TopInv
    <2>3. CoversFor(c, lists)'
      BY <2>2, EvalNextCovers
    <2>4. CoversFor(c, Declared(request[c].doc))'
      BY <1>1, <1>2, <2>1, <2>3 DEF CoversFor
    <2> QED
      BY <1>1, <1>2, <1>5, <2>4
         DEF CallInv, RouteInv, ItemsInv, TopInv, SingleInv, Batches
  <1> QED
    BY <1>1, <1>4, <1>5

LEMMA ReturnStep ==
  ASSUME TypeInv, NEW c \in Call, CallInv(c), ReturnResults(c)
  PROVE  CallInv(c)'
  <1>1. /\ pc[c] = "top" /\ pc'[c] = "done" /\ todo[c] = <<>>
        /\ UNCHANGED <<request, todo, results, alone>>
    BY DEF ReturnResults, Answer, TypeInv
  <1>2. request[c].route = "batch" /\ CoversFor(c, Declared(request[c].doc))
    BY <1>1 DEF CallInv, RouteInv, TopInv
  <1>3. CoversFor(c, Declared(request[c].doc))'
    BY <1>1, <1>2 DEF CoversFor
  <1> QED
    BY <1>1, <1>2, <1>3 DEF CallInv, RouteInv, ItemsInv, TopInv, SingleInv, Batches

-----------------------------------------------------------------------------
(* The invariant.                                                          *)

LEMMA CallStep ==
  ASSUME IInv, [Next]_vars
  PROVE  \A c \in Call : CallInv(c)'
  <1>1. alone' \subseteq alone
    BY DEF Next, Handle, Arrive, Meets, GetContext, AddDataSource, HandleEvaluate,
           VisitItem, EvalNext, FallBack, ReturnResults, TemplateFails,
           TemplateRendered, HandleTemplate, Judged, vars, gx
  <1>2. CASE UNCHANGED vars
    BY <1>2, CallKept DEF IInv, vars
  <1>3. ASSUME NEW c \in Call, Handle(c) PROVE \A d \in Call : CallInv(d)'
    <2>1. ASSUME NEW d \in Call \ {c} PROVE CallInv(d)'
      <3>1. /\ request'[d] = request[d] /\ pc'[d] = pc[d] /\ items'[d] = items[d]
            /\ todo'[d] = todo[d] /\ results'[d] = results[d]
        <4>1. CASE Arrive(c)
          BY <4>1 DEF IInv, TypeInv, Arrive
        <4>2. CASE GetContext(c) \/ AddDataSource(c) \/ TemplateRendered(c)
                     \/ ReturnResults(c) \/ VisitItem(c) \/ FallBack(c)
          BY <4>2 DEF IInv, TypeInv, GetContext, AddDataSource, TemplateRendered,
                      ReturnResults, VisitItem, FallBack, Goto, Answer
        <4>3. CASE HandleEvaluate(c) \/ EvalNext(c) \/ TemplateFails(c)
                     \/ HandleTemplate(c)
          BY <4>3 DEF IInv, TypeInv, HandleEvaluate, EvalNext, TemplateFails,
                      HandleTemplate, Judged, Answer
        <4> QED
          BY <1>3, <4>1, <4>2, <4>3 DEF Handle
      <3> QED
        BY <3>1, <1>1, CallKept DEF IInv
    <2>2. CallInv(c)'
      <3>1. CASE Arrive(c)
        BY <3>1, ArriveStep DEF IInv
      <3>2. CASE GetContext(c) \/ AddDataSource(c)
        <4>1. UNCHANGED <<request, pc, items, todo, results>>
          BY <3>2 DEF GetContext, AddDataSource
        <4> QED
          BY <4>1, <1>1, CallKept DEF IInv
      <3>3. CASE VisitItem(c)
        BY <3>3, VisitStep DEF IInv
      <3>4. CASE EvalNext(c)
        BY <3>4, EvalNextStep DEF IInv
      <3>5. CASE FallBack(c)
        BY <3>5, FallBackStep DEF IInv
      <3>6. CASE ReturnResults(c)
        BY <3>6, ReturnStep DEF IInv
      <3>7. CASE HandleEvaluate(c) \/ TemplateFails(c) \/ HandleTemplate(c)
        <4>1. /\ pc[c] \in {"evaluate", "template", "rendered"} /\ pc'[c] = "done"
              /\ UNCHANGED request
          BY <3>7 DEF HandleEvaluate, TemplateFails, HandleTemplate, Answer, IInv,
                      TypeInv
        <4>2. \E rs : /\ Judged(c, rs)
                      /\ \/ rs = <<>> \/ rs = <<Failure>>
                         \/ Evaluates(c) /\ rs = <<EvalOne(Head(todo[c]))>>
          BY <3>7 DEF HandleEvaluate, TemplateFails, HandleTemplate
        <4> QED
          BY <4>1, <4>2, SingleStep DEF IInv
      <3>8. CASE TemplateRendered(c)
        <4>1. /\ pc[c] = "template" /\ pc'[c] = "rendered"
              /\ UNCHANGED <<request, todo, results>>
          BY <3>8 DEF TemplateRendered, Goto, IInv, TypeInv
        <4> QED
          BY <4>1 DEF IInv, CallInv, RouteInv, ItemsInv, TopInv, SingleInv, Batches
      <3> QED
        BY <1>3, <3>1, <3>2, <3>3, <3>4, <3>5, <3>6, <3>7, <3>8 DEF Handle
    <2> QED
      BY <2>1, <2>2
  <1> QED
    BY <1>2, <1>3 DEF Next

LEMMA Initially == Init => IInv
  <1> SUFFICES ASSUME Init PROVE IInv
    OBVIOUS
  <1>1. TypeInv
    BY DEF Init, TypeInv, Steps
  <1>2. AloneInv
    BY DEF Init, AloneInv, Running
  <1>3. \A c \in Call : CallInv(c)
    BY DEF Init, CallInv, RouteInv, ItemsInv, TopInv, SingleInv, Batches
  <1> QED
    BY <1>1, <1>2, <1>3 DEF IInv

LEMMA Invariance == Spec => []IInv
  <1>1. IInv /\ [Next]_vars => IInv'
    BY TypeStep, AloneStep, CallStep DEF IInv
  <1> QED
    BY <1>1, Initially, PTL DEF Spec

-----------------------------------------------------------------------------
(* The theorems.                                                           *)

\* When nothing is left to do, every requirement has its own result.
LEMMA CoversAll ==
  ASSUME NEW lists \in Seq(Seq(Requirement)), NEW rs \in Seq(Outcome), NEW lone,
         Covers(lists, rs, <<>>, lone)
  PROVE  \E before \in Layout(lists, Len(rs)) :
           \A i \in DOMAIN lists : \A j \in DOMAIN lists[i] :
             /\ before[i] + j \in DOMAIN rs
             /\ Verdict(lists[i][j], rs[before[i] + j], lone)
  <1> DEFINE n == Len(lists)
             m == Len(rs)
  <1>1. n \in Nat /\ m \in Nat /\ m + Len(<<>>) = m
    OBVIOUS
  <1>2. PICK b \in Layout(lists, m) :
          \A i \in 1..n : \A j \in 1..Len(lists[i]) :
            b[i] + j <= m => Verdict(lists[i][j], rs[b[i] + j], lone)
    BY <1>1 DEF Covers
  <1>3. /\ b \in [1..(n + 1) -> 0..m]
        /\ \A i \in 1..n : b[i + 1] = b[i] + Len(lists[i])
    BY <1>2 DEF Layout
  <1>4. ASSUME NEW i \in 1..n, NEW j \in 1..Len(lists[i])
        PROVE  b[i] + j \in 1..m /\ Verdict(lists[i][j], rs[b[i] + j], lone)
    <2>1. /\ b[i] \in Nat /\ b[i + 1] <= m /\ b[i + 1] = b[i] + Len(lists[i])
          /\ Len(lists[i]) \in Nat
      <3>1. i \in 1..(n + 1) /\ i + 1 \in 1..(n + 1)
        BY <1>1
      <3>2. lists[i] \in Seq(Requirement)
        OBVIOUS
      <3> HIDE DEF n, m
      <3>3. b[i] \in 0..m /\ b[i + 1] \in 0..m
        BY <3>1, <1>3
      <3> QED
        BY <3>2, <3>3, <1>1, <1>3
    <2>2. b[i] + j \in 1..m
      BY <2>1, <1>1
    <2> QED
      BY <2>2, <1>2
  <1>5. /\ DOMAIN lists = 1..n /\ DOMAIN rs = 1..m
        /\ \A i \in 1..n : DOMAIN lists[i] = 1..Len(lists[i])
    OBVIOUS
  <1> HIDE DEF n, m
  <1> QED
    BY <1>2, <1>4, <1>5 DEF m

\* In every answer to a batch, each requirement has the result at its position.
LEMMA BatchForm ==
  ASSUME IInv, NEW c \in Batches
  PROVE  \E before \in Layout(About(c), Len(results[c])) :
           \A i \in DOMAIN About(c) : \A j \in DOMAIN About(c)[i] :
             /\ before[i] + j \in DOMAIN results[c]
             /\ Verdict(About(c)[i][j], results[c][before[i] + j], c \in alone)
  <1>1. /\ c \in Call /\ pc[c] = "done" /\ request[c].route = "batch"
    BY DEF Batches
  <1>2. request[c].doc \in Document
    BY <1>1, RequestForm DEF IInv, CallInv, RouteInv
  <1>3. About(c) = Declared(request[c].doc) /\ About(c) \in Seq(Seq(Requirement))
    BY <1>1, <1>2, DeclaredType DEF About
  <1>4. results[c] \in Seq(Outcome) /\ Covers(About(c), results[c], <<>>, c \in alone)
    BY <1>1, <1>3 DEF IInv, TypeInv, CallInv, TopInv, CoversFor
  <1> QED
    BY <1>3, <1>4, CoversAll

\* However many documents are evaluated at once, of whatever shape, a batch has
\* one result per requirement, in order, and none that raised counts as judged.
THEOREM ResultsMatchRequirements == Spec => []OneResultPerRequirement
  <1>1. IInv => OneResultPerRequirement
    BY BatchForm DEF OneResultPerRequirement, Verdict
  <1> QED
    BY <1>1, Invariance, PTL

\* A batch that meets no other evaluation fails on its own account only.
THEOREM FailuresNeedOverlaps == Spec => []FailureNeedsOverlap
  <1>1. IInv => FailureNeedsOverlap
    BY BatchForm DEF FailureNeedsOverlap, Verdict
  <1> QED
    BY <1>1, Invariance, PTL

\* No positive verdict is contradicted by an output of an engine.
THEOREM PositiveVerdictsAreBacked == Spec => []PositiveVerdictIsBacked
  <1>1. ASSUME IInv, NEW c \in Call, pc[c] = "done", results[c] # <<>>,
               \A i \in DOMAIN results[c] : results[c][i].success
        PROVE  \A i \in DOMAIN About(c) : \A j \in DOMAIN About(c)[i] :
                 Backed(About(c)[i][j])
    <2>1. CASE c \in Batches
      BY <1>1, <2>1, BatchForm DEF Verdict
    <2>2. CASE request[c].route # "batch"
      <3>1. request[c] \in Request /\ results[c] \in Seq(Outcome)
        BY <1>1 DEF IInv, CallInv, RouteInv, TypeInv
      <3>2. About(c) = <<request[c].reqs>> /\ DOMAIN request[c].reqs = {1}
        <4>1. request[c].reqs \in Seq(Requirement) /\ Len(request[c].reqs) = 1
          BY <3>1, <2>2, RequestForm
        <4> QED
          BY <4>1, <2>2 DEF About
      <3>3. 1 \in DOMAIN results[c]
        BY <3>1, <1>1
      <3>4. Backed(request[c].reqs[1])
        BY <1>1, <2>2, <3>3 DEF IInv, CallInv, SingleInv
      <3> QED
        BY <3>2, <3>4
    <2> QED
      BY <1>1, <2>1, <2>2 DEF Batches
  <1>2. IInv => PositiveVerdictIsBacked
    BY <1>1 DEF PositiveVerdictIsBacked
  <1> QED
    BY <1>2, Invariance, PTL
=============================================================================
