-------------------------- MODULE EvaluationProps --------------------------
(***************************************************************************)
(* What the evaluation service must guarantee (module Evaluation).         *)
(***************************************************************************)
EXTENDS Evaluation

\* The requirements of a document, told without the handler's loops, list by
\* list: those of the quality lists of the schema items, or those at the top.
Listed(item) == IF item.shape = "list" THEN item.reqs ELSE <<>>

Nested(doc) ==
  IF doc.schemaShape = "other" THEN <<>>
  ELSE [i \in 1..Len(doc.schema) |-> Listed(doc.schema[i])]

Declared(doc) ==
  IF doc.top.shape # "other" /\ \A i \in DOMAIN Nested(doc) : Nested(doc)[i] = <<>>
    THEN <<doc.top.reqs>> ELSE Nested(doc)

\* The lists of requirements that the answer to c is about.
About(c) ==
  IF request[c].route = "batch" THEN Declared(request[c].doc)
  ELSE <<request[c].reqs>>

\* How many results precede those of each list, when n results follow each
\* other as the requirements of the lists do; there is one such function at
\* most, and none if n is not the number of requirements.
Layout(lists, n) ==
  {before \in [1..(Len(lists) + 1) -> 0..n] :
     /\ before[1] = 0
     /\ before[Len(lists) + 1] = n
     /\ \A i \in 1..Len(lists) : before[i + 1] = before[i] + Len(lists[i])}

Batches == {c \in Call : pc[c] = "done" /\ request[c].route = "batch"}

\* One result per requirement, in the order of the requirements
\* (tests/test_eval_batch.py:51-54: the DVA API zips the two lists), whatever
\* shape the document has, whichever of the requirements raise, and whatever
\* else is evaluated meanwhile; a requirement that raises is never reported
\* as one that was judged.
OneResultPerRequirement ==
  \A c \in Batches : \E before \in Layout(About(c), Len(results[c])) :
    \A i \in DOMAIN About(c) : \A j \in DOMAIN About(c)[i] :
      Raises(About(c)[i][j]) => results[c][before[i] + j].error

\* A requirement that an engine can judge is reported as an error only if
\* another evaluation ran at the same time, whose context became the project
\* of Great Expectations (great_expectations.py:17): alone, a batch has one
\* verdict, whatever it evaluated before.
FailureNeedsOverlap ==
  \A c \in alone \cap Batches : \E before \in Layout(About(c), Len(results[c])) :
    \A i \in DOMAIN About(c) : \A j \in DOMAIN About(c)[i] :
      results[c][before[i] + j].error = Raises(About(c)[i][j])

\* No output of q speaks against the data, and an engine has judged it.
Backed(q) ==
  /\ q.engine \in {"JQ", "GREAT_EXPECTATIONS"}
  /\ ToSet(q.outputs) \subseteq {"true"}

\* The verdict that the DVA API derives is positive only if no requirement of
\* the document has an output that speaks against the data, nor raised
\* (aovRoutes.kt:159 reads only "success"), and no interleaving of the
\* library's contexts makes it so; nor is the answer about one requirement.
PositiveVerdictIsBacked ==
  \A c \in Call :
    (/\ pc[c] = "done"
     /\ results[c] # <<>>
     /\ \A i \in DOMAIN results[c] : results[c][i].success) =>
       \A i \in DOMAIN About(c) : \A j \in DOMAIN About(c)[i] :
         Backed(About(c)[i][j])

-----------------------------------------------------------------------------
\* processing.py: "Evaluate every requirement in a VLA."  Contradicted: the
\* top-level requirements are passed over once the schema has one, and so is
\* a single requirement object of a schema item.
EveryRequirementEvaluated ==
  \A c \in Batches :
    LET doc     == request[c].doc
        written == FlattenSeq([i \in DOMAIN doc.schema |-> doc.schema[i].reqs])
                     \o doc.top.reqs
    IN  Len(results[c]) = Len(written)
=============================================================================
