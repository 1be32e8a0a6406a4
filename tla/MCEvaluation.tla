---------------------------- MODULE MCEvaluation ---------------------------
(***************************************************************************)
(* Instances of Evaluation for TLC: one call with any request, made of     *)
(* quality lists of at most two requirements and schemas of at most two    *)
(* items, and one that may evaluate an expectation at the same time.       *)
(***************************************************************************)
EXTENDS EvaluationProps

CONSTANTS c1, c2

Jq(outputs) == [engine |-> "JQ", outputs |-> outputs]
Gx(outputs) == [engine |-> "GREAT_EXPECTATIONS", outputs |-> outputs]

MCRequirement ==
  {Jq(<<"true">>), Jq(<<>>), Jq(<<"true", "false">>), Jq(<<"true", "bad">>),
   Gx(<<"true">>), Gx(<<"false">>), Gx(<<"bad">>),
   [engine |-> "SCHEMA", outputs |-> <<"true">>],
   [engine |-> "other", outputs |-> <<>>]}

\* The batches need one requirement per outcome only.
Batched == {Gx(<<"true">>), Jq(<<"true", "false">>), Jq(<<"true", "bad">>)}

UpTo2(S) == {<<>>} \cup {<<x>> : x \in S} \cup (S \X S)

Lists     == [shape : {"list"}, reqs : UpTo2(Batched)]
Dicts     == [shape : {"dict"}, reqs : {<<q>> : q \in Batched}]
Others    == {[shape |-> "other", reqs |-> <<>>]}
Qualities == Lists \cup Dicts \cup Others
Tops      == [shape : {"list"}, reqs : {<<q>> : q \in Batched}]
               \cup Dicts \cup Others

MCDocument ==
  [schemaShape : {"list"}, schema : UpTo2(Qualities), top : Tops]
    \cup [schemaShape : {"dict"}, schema : {<<i>> : i \in Qualities},
          top : Qualities]
    \cup [schemaShape : {"other"}, schema : {<<>>}, top : Qualities]

MCAsked ==
  [c \in Call |->
     IF c = c1 THEN Request
     ELSE [route : {"evaluate"}, reqs : {<<Gx(<<"true">>)>>}]]
=============================================================================
