---------------------------- MODULE TemplateRepo ----------------------------
(***************************************************************************)
(* The template store of the VLA manager (vla-manager-api, class           *)
(* PgTemplateRepo with the routes of template_routes.py).  A template is   *)
(* one row of templates and one row of evaluation_methods; no operation    *)
(* opens a transaction, so every statement commits on its own, statements  *)
(* of concurrent requests interleave, and a failure or the death of the    *)
(* service leaves behind whatever was committed.                           *)
(*                                                                         *)
(* A cell of a row holds the request that wrote it.  The two UUIDs that an *)
(* addition draws for its rows are named by the adding request.  GET and   *)
(* render are one SELECT each and change nothing; they are left out.       *)
(***************************************************************************)
EXTENDS Naturals

CONSTANTS
  Call,            \* requests
  Prior,           \* a template that was there before
  TemplateColumns, \* columns of templates that a patch may name
  MethodColumns,   \* columns of evaluation_methods
  NoRow            \* no row; no request yet

ASSUME PriorAssumption   == Prior \notin Call
\* Columns are numbered in the order in which update writes them.
ASSUME ColumnsAssumption ==
  /\ TemplateColumns \subseteq Nat
  /\ MethodColumns \subseteq Nat
  /\ TemplateColumns \cap MethodColumns = {}

VARIABLES
  templates, \* templates[t]: the row of template t
  methods,   \* methods[t]: the row of evaluation_methods that t references
  request,   \* request[c]: what c asks for, once it has arrived
  pc,        \* pc[c]: the statement the handler of c is at
  todo,      \* todo[c]: the columns that update c has still to write
  answer,    \* answer[c]: the status c was answered with
  before     \* before[c]: requests that had ended when c arrived

rows == <<templates, methods>>
vars == <<templates, methods, request, pc, todo, answer, before>>

Template == Call \cup {Prior}

TemplateRow == [TemplateColumns -> Template]
MethodRow   == [MethodColumns -> Template]

\* Mutant: the members of evaluationMethod are optional one by one.
PatchAnyColumns == SUBSET (TemplateColumns \cup MethodColumns)

\* evaluationMethod is patched as a whole or not at all.
Patch == {S \cup M : S \in SUBSET TemplateColumns, M \in {{}, MethodColumns}}

Request == [op : {"add", "removeAll"}]
             \cup [op : {"remove"}, id : Template]
             \cup [op : {"update"}, id : Template, bodyId : Template,
                   patch : Patch]

ASSUME NoRowAssumption ==
  NoRow \notin TemplateRow \cup MethodRow \cup Request
                \cup [TemplateColumns \cup MethodColumns -> Template]

Running == {"insertMethod", "insertTemplate", "selectUpdate", "write",
            "readBack", "selectRemove", "deleteTemplate", "deleteMethod",
            "deleteTemplates", "deleteMethods", "reply"}

Ended(c) == pc[c] \in {"done", "lost"}

\* Mutant: a value goes to a column of the other table.
InsertedSwapped(c, columns) == [col \in TemplateColumns |-> c]

\* The row as an insert by c leaves it.
Inserted(c, columns) == [col \in columns |-> c]

FirstStep(req) ==
  CASE req.op = "add"       -> "insertMethod"
    [] req.op = "update"    -> "selectUpdate"
    [] req.op = "remove"    -> "selectRemove"
    [] req.op = "removeAll" -> "deleteTemplates"

Init ==
  /\ \/ /\ templates = [t \in Template |-> NoRow]
        /\ methods = [t \in Template |-> NoRow]
     \/ /\ templates = [t \in Template |->
             IF t = Prior THEN Inserted(Prior, TemplateColumns) ELSE NoRow]
        /\ methods = [t \in Template |->
             IF t = Prior THEN Inserted(Prior, MethodColumns) ELSE NoRow]
  /\ request = [c \in Call |-> NoRow]
  /\ pc = [c \in Call |-> "idle"]
  /\ todo = [c \in Call |-> {}]
  /\ answer = [c \in Call |-> "none"]
  /\ before = [c \in Call |-> {}]

Goto(c, step) ==
  /\ pc' = [pc EXCEPT ![c] = step]
  /\ UNCHANGED <<request, answer, before>>

Finish(c, status) ==
  /\ pc' = [pc EXCEPT ![c] = "done"]
  /\ answer' = [answer EXCEPT ![c] = status]
  /\ UNCHANGED <<request, before>>

\* A client knows the ids of the prior template and of those that it was
\* told were created.
Known == {Prior} \cup {c \in Call : answer[c] = "201"}

Askable ==
  {req \in Request : req.op \in {"update", "remove"} => req.id \in Known}

Arrive(c) ==
  /\ pc[c] = "idle"
  /\ \E req \in Askable :
       /\ request' = [request EXCEPT ![c] = req]
       /\ pc' = [pc EXCEPT ![c] = FirstStep(req)]
       /\ todo' = [todo EXCEPT ![c] =
            IF req.op = "update" THEN req.patch ELSE {}]
  /\ before' = [before EXCEPT ![c] = {d \in Call : Ended(d)}]
  /\ UNCHANGED <<rows, answer>>

-----------------------------------------------------------------------------
InsertMethod(c) ==
  /\ pc[c] = "insertMethod"
  /\ methods' = [methods EXCEPT ![c] = Inserted(c, MethodColumns)]
  /\ Goto(c, "insertTemplate")
  /\ UNCHANGED <<templates, todo>>

InsertTemplate(c) ==
  /\ pc[c] = "insertTemplate"
  /\ methods[c] # NoRow
  /\ templates' = [templates EXCEPT ![c] = Inserted(c, TemplateColumns)]
  /\ Goto(c, "reply")
  /\ UNCHANGED <<methods, todo>>

\* evaluation_method_id references a row that is gone: the insert raises.
InsertDangling(c) ==
  /\ pc[c] = "insertTemplate"
  /\ methods[c] = NoRow
  /\ Finish(c, "500")
  /\ UNCHANGED <<rows, todo>>

\* Mutant: the last column of a patch is skipped.
SelectUpdateSkipsLast(c) ==
  /\ pc[c] = "selectUpdate"
  /\ templates[request[c].id] # NoRow
  /\ Goto(c, IF \A x, y \in todo[c] : x = y THEN "readBack" ELSE "write")
  /\ UNCHANGED <<rows, todo>>

\* update_template compares the ids, update looks the template up.
SelectUpdate(c) ==
  /\ pc[c] = "selectUpdate"
  /\ \/ request[c].id # request[c].bodyId /\ Finish(c, "400")
     \/ /\ request[c].id = request[c].bodyId
        /\ IF templates[request[c].id] = NoRow
           THEN Finish(c, "404")
           ELSE Goto(c, IF todo[c] = {} THEN "readBack" ELSE "write")
  /\ UNCHANGED <<rows, todo>>

\* The row with the column written by c, if there is such a row and column:
\* UPDATE ... WHERE id.
Written(row, columns, col, c) ==
  IF row # NoRow /\ col \in columns THEN [row EXCEPT ![col] = c] ELSE row

WriteColumn(c) ==
  /\ pc[c] = "write"
  /\ \E col \in todo[c] :
       /\ \A other \in todo[c] : col <= other
       /\ templates' = [templates EXCEPT ![request[c].id] =
            Written(@, TemplateColumns, col, c)]
       /\ methods' = [methods EXCEPT ![request[c].id] =
            Written(@, MethodColumns, col, c)]
       /\ todo' = [todo EXCEPT ![c] = @ \ {col}]
       /\ Goto(c, IF todo[c] = {col} THEN "readBack" ELSE "write")

\* by_id joins the two rows.
ReadBack(c) ==
  /\ pc[c] = "readBack"
  /\ Finish(c, IF /\ templates[request[c].id] # NoRow
                  /\ methods[request[c].id] # NoRow
               THEN "200" ELSE "404")
  /\ UNCHANGED <<rows, todo>>

SelectRemove(c) ==
  /\ pc[c] = "selectRemove"
  /\ IF templates[request[c].id] = NoRow
     THEN Finish(c, "404")
     ELSE Goto(c, "deleteTemplate")
  /\ UNCHANGED <<rows, todo>>

\* Mutant: the second statement of remove is missing.
DeleteTemplateOnly(c) ==
  /\ pc[c] = "deleteTemplate"
  /\ templates' = [templates EXCEPT ![request[c].id] = NoRow]
  /\ Goto(c, "reply")
  /\ UNCHANGED <<methods, todo>>

DeleteTemplate(c) ==
  /\ pc[c] = "deleteTemplate"
  /\ templates' = [templates EXCEPT ![request[c].id] = NoRow]
  /\ Goto(c, "deleteMethod")
  /\ UNCHANGED <<methods, todo>>

\* ON DELETE CASCADE takes a template that still references the row along.
DeleteMethod(c) ==
  /\ pc[c] = "deleteMethod"
  /\ methods' = [methods EXCEPT ![request[c].id] = NoRow]
  /\ templates' = [templates EXCEPT ![request[c].id] = NoRow]
  /\ Goto(c, "reply")
  /\ UNCHANGED todo

DeleteTemplates(c) ==
  /\ pc[c] = "deleteTemplates"
  /\ templates' = [t \in Template |-> NoRow]
  /\ Goto(c, "deleteMethods")
  /\ UNCHANGED <<methods, todo>>

\* Mutant: the foreign key neither cascades nor restricts.
DeleteMethodsUncascaded(c) ==
  /\ pc[c] = "deleteMethods"
  /\ methods' = [t \in Template |-> NoRow]
  /\ Goto(c, "reply")
  /\ UNCHANGED <<templates, todo>>

DeleteMethods(c) ==
  /\ pc[c] = "deleteMethods"
  /\ methods' = [t \in Template |-> NoRow]
  /\ templates' = [t \in Template |-> NoRow]
  /\ Goto(c, "reply")
  /\ UNCHANGED todo

Reply(c) ==
  /\ pc[c] = "reply"
  /\ Finish(c, IF request[c].op = "add" THEN "201" ELSE "204")
  /\ UNCHANGED <<rows, todo>>

\* A statement raises, or its answer is lost after it has committed: the
\* statements before it stay.
StatementFails(c) ==
  /\ pc[c] \in Running
  /\ Finish(c, "500")
  /\ UNCHANGED <<rows, todo>>

Crash ==
  /\ \E c \in Call : pc[c] \in Running
  /\ pc' = [c \in Call |-> IF pc[c] \in Running THEN "lost" ELSE pc[c]]
  /\ UNCHANGED <<rows, request, todo, answer, before>>

-----------------------------------------------------------------------------
Handler(c) ==
  \/ InsertMethod(c)
  \/ InsertTemplate(c)
  \/ InsertDangling(c)
  \/ SelectUpdate(c)
  \/ WriteColumn(c)
  \/ ReadBack(c)
  \/ SelectRemove(c)
  \/ DeleteTemplate(c)
  \/ DeleteMethod(c)
  \/ DeleteTemplates(c)
  \/ DeleteMethods(c)
  \/ Reply(c)
  \/ StatementFails(c)

Next ==
  \/ \E c \in Call : Arrive(c) \/ Handler(c)
  \/ Crash

Spec == Init /\ [][Next]_vars

TypeOK ==
  /\ templates \in [Template -> TemplateRow \cup {NoRow}]
  /\ methods \in [Template -> MethodRow \cup {NoRow}]
  /\ request \in [Call -> Request \cup {NoRow}]
  /\ pc \in [Call -> Running \cup {"idle", "done", "lost"}]
  /\ todo \in [Call -> SUBSET (TemplateColumns \cup MethodColumns)]
  /\ answer \in [Call -> {"none", "200", "201", "204", "400", "404", "500"}]
  /\ before \in [Call -> SUBSET Call]
=============================================================================
