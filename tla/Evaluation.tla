----------------------------- MODULE Evaluation ----------------------------
(***************************************************************************)
(* dva-processing: requests of /evaluate, /evaluate-batch and              *)
(* /evaluate/from-template (processing.py, eval.py, engines/), which       *)
(* FastAPI runs in threads.  They share nothing but the project of Great   *)
(* Expectations: get_context makes the context it returns the library's    *)
(* project, and validation finds the data source by its name, "request",   *)
(* in the project of that moment.  The data itself comes with the batch.   *)
(* What each requirement makes of the data is folded into the requirement. *)
(***************************************************************************)
EXTENDS Naturals, Sequences, SequencesExt

CONSTANTS
  Call,        \* requests
  Requirement, \* requirement objects, as they stand in a VLA
  Document,    \* documents posted to /evaluate-batch
  Asked        \* Asked[c]: what c may ask for

\* outputs: the results a jq program emits on the data, or the one judgement
\* of a Great Expectations expectation or of a JSON schema; "bad" is an error
\* of the engine or an output that is no JQResult.  Engine "other" stands for
\* an object that is no Requirement.
ASSUME RequirementAssumption ==
  Requirement \subseteq
    [engine  : {"JQ", "GREAT_EXPECTATIONS", "SCHEMA", "other"},
     outputs : Seq({"true", "false", "bad"})]

\* The value of a "quality" member: a list of requirement objects (empty when
\* the member is missing), one requirement object, or something else.
Quality == [shape : {"list", "dict", "other"}, reqs : Seq(Requirement)]

\* "schema" of a document is a list of items, a single item, or neither; an
\* item that is no object is one with quality of shape "other".
ASSUME DocumentAssumption ==
  Document \subseteq
    [schemaShape : {"list", "dict", "other"}, schema : Seq(Quality),
     top : Quality]

\* The two endpoints for one requirement hold it in a list of its own.
Request ==
  [route : {"evaluate", "template"}, reqs : {<<q>> : q \in Requirement}]
    \cup [route : {"batch"}, doc : Document]

None == [route |-> "none"]

ASSUME AskedAssumption == \A c \in Call : Asked[c] \subseteq Request

VARIABLES
  request, \* request[c]: the request that is handled
  pc,      \* pc[c]: the step of its handler
  items,   \* items[c]: schema items not yet visited
  todo,    \* todo[c]: requirements of the current list not yet evaluated
  results, \* results[c]: the evaluation results
  status,  \* status[c]: the HTTP status of the answer, 0 while there is none
  context, \* context[c]: how far the context of c's current expectation is
  project, \* the calls whose context is the library's project: one or none
  alone    \* history: calls that no other has overlapped so far

gx   == <<context, project>>
vars == <<request, pc, items, todo, results, status, gx, alone>>

\* eval_requirement raises: the engine is unknown or fails; the JSON schema
\* engine always does, as JSONSchemaValidationResult.errors must be a string
\* and is given None or the exception.
Raises(q) == q.engine \in {"other", "SCHEMA"} \/ Contains(q.outputs, "bad")

\* The expectation finds no data source "request" in the project: it is
\* another call's context, which has none yet.
Lost(q) ==
  q.engine = "GREAT_EXPECTATIONS" /\ \E d \in project : context[d] = "bare"

Failure == [success |-> FALSE, error |-> TRUE]

\* Mutant: any instead of all.
SuccessOfAny(q) == \E i \in DOMAIN q.outputs : q.outputs[i] = "true"

\* success = all(r.success for r in results).
Success(q) == \A i \in DOMAIN q.outputs : q.outputs[i] = "true"

\* An exception becomes a negative result (_eval_one, handle_eval_request).
EvalOne(q) ==
  IF Raises(q) \/ Lost(q) THEN Failure
  ELSE [success |-> Success(q), error |-> FALSE]

Running(c) == pc[c] \notin {"idle", "done"}

-----------------------------------------------------------------------------
Init ==
  /\ request = [c \in Call |-> None]
  /\ pc = [c \in Call |-> "idle"]
  /\ items = [c \in Call |-> <<>>]
  /\ todo = [c \in Call |-> <<>>]
  /\ results = [c \in Call |-> <<>>]
  /\ status = [c \in Call |-> 0]
  /\ context = [c \in Call |-> "none"]
  /\ project = {}
  /\ alone = Call

Goto(c, step) ==
  /\ pc' = [pc EXCEPT ![c] = step]
  /\ UNCHANGED <<request, status>>

Answer(c, code) ==
  /\ pc' = [pc EXCEPT ![c] = "done"]
  /\ status' = [status EXCEPT ![c] = code]
  /\ UNCHANGED request

\* Whoever runs together with c, c runs together with.
Meets(c) ==
  LET others == {d \in Call \ {c} : Running(d)}
  IN  alone' = alone \ (IF others = {} THEN {} ELSE others \cup {c})

\* Mutant: only the list form of the schema is understood.
NormalizedListOnly(doc) ==
  IF doc.schemaShape = "list" THEN doc.schema ELSE <<>>

Normalized(doc) == IF doc.schemaShape = "other" THEN <<>> ELSE doc.schema

\* A single requirement is evaluated at once; a batch begins with the schema.
Arrive(c) ==
  /\ pc[c] = "idle"
  /\ \E r \in Asked[c] :
       /\ request' = [request EXCEPT ![c] = r]
       /\ IF r.route = "batch"
          THEN /\ pc' = [pc EXCEPT ![c] = "items"]
               /\ items' = [items EXCEPT ![c] = Normalized(r.doc)]
               /\ UNCHANGED todo
          ELSE /\ pc' = [pc EXCEPT ![c] = r.route]
               /\ todo' = [todo EXCEPT ![c] = r.reqs]
               /\ UNCHANGED items
  /\ Meets(c)
  /\ UNCHANGED <<results, status, gx>>

-----------------------------------------------------------------------------
(* validate_expectation *)

Expects(c) ==
  /\ pc[c] \in {"evaluate", "items", "top", "rendered"}
  /\ todo[c] # <<>> /\ Head(todo[c]).engine = "GREAT_EXPECTATIONS"

GetContext(c) ==
  /\ Expects(c) /\ context[c] = "none"
  /\ context' = [context EXCEPT ![c] = "bare"]
  /\ project' = {c}
  /\ UNCHANGED <<request, pc, items, todo, results, status, alone>>

AddDataSource(c) ==
  /\ Expects(c) /\ context[c] = "bare"
  /\ context' = [context EXCEPT ![c] = "ready"]
  /\ UNCHANGED <<request, pc, items, todo, results, status, project, alone>>

\* The next requirement of c can be judged; one that cannot be parsed has no
\* context.
Evaluates(c) ==
  /\ todo[c] # <<>>
  /\ \/ Head(todo[c]).engine # "GREAT_EXPECTATIONS"
     \/ context[c] = "ready"
     \/ context[c] = "none" /\ Raises(Head(todo[c]))

\* Its context remains the project, until there is another.
Judged(c, rs) ==
  /\ results' = [results EXCEPT ![c] = @ \o rs]
  /\ todo' = [todo EXCEPT ![c] = Tail(@)]
  /\ context' = [context EXCEPT ![c] = "none"]
  /\ UNCHANGED <<items, project, alone>>

-----------------------------------------------------------------------------
\* An engine without a name does not pass the validation of the body.
HandleEvaluate(c) ==
  /\ pc[c] = "evaluate"
  /\ Evaluates(c)
  /\ LET result == EvalOne(Head(todo[c]))
     IN  IF Head(todo[c]).engine = "other"
           THEN Judged(c, <<>>) /\ Answer(c, 422)
           ELSE /\ Judged(c, <<result>>)
                /\ Answer(c, IF result.error THEN 500 ELSE 200)

\* Items whose quality is no list are passed over.
VisitItem(c) ==
  /\ pc[c] = "items" /\ todo[c] = <<>> /\ items[c] # <<>>
  /\ todo' = [todo EXCEPT ![c] = IF Head(items[c]).shape = "list"
                                   THEN Head(items[c]).reqs ELSE <<>>]
  /\ items' = [items EXCEPT ![c] = Tail(@)]
  /\ UNCHANGED <<request, pc, results, status, gx, alone>>

\* Mutant: the first error ends the evaluation of its list.
EvalNextAborted(c) ==
  /\ pc[c] \in {"items", "top"}
  /\ Evaluates(c)
  /\ LET result == EvalOne(Head(todo[c]))
     IN  IF result.error /\ results[c] # <<>>
           THEN Judged(c, <<>>) ELSE Judged(c, <<result>>)
  /\ UNCHANGED <<request, pc, status>>

EvalNext(c) ==
  /\ pc[c] \in {"items", "top"}
  /\ Evaluates(c)
  /\ Judged(c, <<EvalOne(Head(todo[c]))>>)
  /\ UNCHANGED <<request, pc, status>>

\* Top-level quality counts only when nothing was evaluated so far; there a
\* single requirement object is taken as well.
FallBack(c) ==
  /\ pc[c] = "items" /\ todo[c] = <<>> /\ items[c] = <<>>
  /\ Goto(c, "top")
  /\ todo' = [todo EXCEPT ![c] =
       IF results[c] = <<>> /\ request[c].doc.top.shape # "other"
         THEN request[c].doc.top.reqs ELSE <<>>]
  /\ UNCHANGED <<items, results, gx, alone>>

ReturnResults(c) ==
  /\ pc[c] = "top" /\ todo[c] = <<>>
  /\ Answer(c, 200)
  /\ UNCHANGED <<items, todo, results, gx, alone>>

\* GET /template/{id} at the VLA manager answers 404, another error or not at
\* all, or the template does not render: a negative result.
TemplateFails(c) ==
  /\ pc[c] = "template"
  /\ Judged(c, <<Failure>>)
  /\ Answer(c, 200)

TemplateRendered(c) ==
  /\ pc[c] = "template"
  /\ Goto(c, "rendered")
  /\ UNCHANGED <<items, todo, results, gx, alone>>

\* The last statement of the handler is outside of every try: what the engine
\* raises becomes a bare 500.  Only an engine that has no name is caught.
HandleTemplate(c) ==
  /\ pc[c] = "rendered"
  /\ Evaluates(c)
  /\ LET q == Head(todo[c])
     IN  IF q.engine # "other" /\ EvalOne(q).error
           THEN Judged(c, <<>>) /\ Answer(c, 500)
           ELSE Judged(c, <<EvalOne(q)>>) /\ Answer(c, 200)

Handle(c) ==
  \/ Arrive(c)
  \/ GetContext(c)
  \/ AddDataSource(c)
  \/ HandleEvaluate(c)
  \/ VisitItem(c)
  \/ EvalNext(c)
  \/ FallBack(c)
  \/ ReturnResults(c)
  \/ TemplateFails(c)
  \/ TemplateRendered(c)
  \/ HandleTemplate(c)

Next == \E c \in Call : Handle(c)

Spec == Init /\ [][Next]_vars
=============================================================================
