------------------------- MODULE TemplateRepoProofs -------------------------
(***************************************************************************)
(* Proofs about the template store, for every set of requests and columns  *)
(* (properties in TemplateRepoProps).                                      *)
(***************************************************************************)
EXTENDS TemplateRepoProps, TLAPS

-----------------------------------------------------------------------------
(* The inductive invariant, in parts.                                      *)

\* The statement a handler is at tells what its request asks for.
RequestInv ==
  \A c \in Call :
    /\ pc[c] \in {"insertMethod", "insertTemplate"} =>
         request[c].op = "add"
    /\ pc[c] \in {"deleteTemplates", "deleteMethods"} =>
         request[c].op = "removeAll"
    /\ pc[c] \in {"selectRemove", "deleteTemplate", "deleteMethod"} =>
         request[c].op = "remove" /\ request[c].id \in Template
    /\ pc[c] \in {"selectUpdate", "write", "readBack"} =>
         request[c].op = "update" /\ request[c].id \in Template
    /\ pc[c] = "idle" <=> request[c] = NoRow
    /\ pc[c] = "reply" => request[c].op # "update"

\* Only a handler that has ended has answered, with the status of what was
\* asked for, and what it was before has ended as well.
AnswerInv ==
  \A c \in Call :
    /\ pc[c] # "done" => answer[c] = "none"
    /\ answer[c] = "200" => request[c].op = "update"
    /\ answer[c] = "201" => request[c].op = "add"
    /\ answer[c] = "204" => request[c].op \in {"remove", "removeAll"}
    /\ before[c] \subseteq {d \in Call : Ended(d)}

\* A client updates and removes what it knows of; an update has its whole
\* patch to write at first, and nothing when it succeeds.
UpdateInv ==
  \A c \in Call :
    /\ request[c] # NoRow /\ request[c].op \in {"update", "remove"} =>
         request[c].id \in Known
    /\ pc[c] = "selectUpdate" => todo[c] = request[c].patch
    /\ pc[c] = "write" => todo[c] \subseteq request[c].patch
    /\ pc[c] = "readBack" \/ answer[c] = "200" => todo[c] = {}

Orphan(t) == methods[t] # NoRow /\ templates[t] = NoRow

\* A removal between its two statements, or one that broke off.
HalfWay(c) ==
  \/ pc[c] \in {"deleteMethod", "deleteMethods"}
  \/ Ended(c) /\ ~Succeeded(c)

\* OrphanNeedsFailure with the places at which the two rows differ: what a
\* request has yet to do is all that can be missing.
OrphanInv ==
  \A t \in Template : Orphan(t) =>
    \/ /\ t \in Call
       /\ pc[t] = "insertTemplate" \/ (Ended(t) /\ ~Succeeded(t))
    \/ \E c \in Call : Removes(c, t) /\ HalfWay(c)

\* The row of an addition is not there before its statement.
FreshInv ==
  \A c \in Call :
    /\ pc[c] \in {"idle", "insertMethod", "insertTemplate"} =>
         templates[c] = NoRow
    /\ pc[c] = "insertTemplate" =>
         methods[c] \in {NoRow, Inserted(c, MethodColumns)}

\* A cell was written by the addition of its row or by an update that patches
\* its column.
WrittenBy(row, t) ==
  row # NoRow =>
    \A col \in DOMAIN row :
      LET w == row[col]
      IN  w = t \/ (w \in Call /\ Updates(w, t) /\ col \in request[w].patch)

WriterInv ==
  \A t \in Template : WrittenBy(templates[t], t) /\ WrittenBy(methods[t], t)

\* UpdateIsNotLost from the moment that a column is written: it holds the
\* update's value, or that of a later one.
Kept(row, c) ==
  row # NoRow =>
    \A col \in (DOMAIN row \cap request[c].patch) \ todo[c] :
      LET w == row[col] IN w = c \/ (w # request[c].id /\ w \notin before[c])

KeptInv ==
  \A c \in Call : request[c] # NoRow /\ request[c].op = "update" =>
    Kept(templates[request[c].id], c) /\ Kept(methods[request[c].id], c)

IInv ==
  /\ TypeOK
  /\ RequestInv
  /\ AnswerInv
  /\ UpdateInv
  /\ TemplateHasMethod
  /\ OrphanInv
  /\ FreshInv
  /\ WriterInv
  /\ KeptInv

-----------------------------------------------------------------------------
(* The operators of the model.                                             *)

\* What a request is made of, by its kind (template_routes.py).
LEMMA RequestFields ==
  ASSUME NEW req \in Request
  PROVE  /\ req # NoRow
         /\ req.op \in {"add", "removeAll", "remove", "update"}
         /\ req.op \in {"remove", "update"} => req.id \in Template
         /\ req.op = "update" =>
              /\ req.patch \in SUBSET (TemplateColumns \cup MethodColumns)
              /\ \/ MethodColumns \cap req.patch = {}
                 \/ MethodColumns \subseteq req.patch
  <1>1. /\ req # NoRow
        /\ req.op \in {"add", "removeAll", "remove", "update"}
        /\ req.op \in {"remove", "update"} => req.id \in Template
        /\ req.op = "update" => req.patch \in Patch
    BY NoRowAssumption DEF Request
  <1>2. ASSUME NEW patch \in Patch
        PROVE  /\ patch \in SUBSET (TemplateColumns \cup MethodColumns)
               /\ \/ MethodColumns \cap patch = {}
                  \/ MethodColumns \subseteq patch
    <2>1. PICK S \in SUBSET TemplateColumns, M \in {{}, MethodColumns} :
            patch = S \cup M
      BY DEF Patch
    <2> QED
      BY <2>1, ColumnsAssumption
  <1> QED
    BY <1>1, <1>2

\* Writing a column neither makes nor unmakes a row, and touches no other cell.
LEMMA RowWritten ==
  ASSUME NEW columns, NEW old \in [columns -> Template] \cup {NoRow},
         NoRow \notin [columns -> Template], NEW col, NEW c \in Call
  PROVE  LET row == Written(old, columns, col, c) IN
         /\ row \in [columns -> Template] \cup {NoRow}
         /\ row = NoRow <=> old = NoRow
         /\ old # NoRow => \A x \in columns :
              row[x] = IF x = col THEN c ELSE old[x]
  <1>1. CASE old = NoRow
    BY <1>1 DEF Written
  <1>2. CASE old \in [columns -> Template]
    BY <1>2 DEF Written, Template
  <1> QED
    BY <1>1, <1>2

\* An update writes one column of the two rows of its template.
LEMMA ColumnWritten ==
  ASSUME IInv, NEW c \in Call, WriteColumn(c)
  PROVE  LET t == request[c].id IN
         /\ t \in Template /\ t \in Known
         /\ pc[c] = "write" /\ request[c].op = "update"
         /\ \E col \in todo[c] :
              /\ \A u \in Template :
                   /\ templates'[u] = NoRow <=> templates[u] = NoRow
                   /\ methods'[u] = NoRow <=> methods[u] = NoRow
                   /\ u # t => UNCHANGED <<templates[u], methods[u]>>
                   /\ templates[u] # NoRow => \A x \in TemplateColumns :
                        templates'[u][x] =
                          IF u = t /\ x = col THEN c ELSE templates[u][x]
                   /\ methods[u] # NoRow => \A x \in MethodColumns :
                        methods'[u][x] =
                          IF u = t /\ x = col THEN c ELSE methods[u][x]
              /\ todo' = [todo EXCEPT ![c] = todo[c] \ {col}]
              /\ Goto(c, IF todo[c] = {col} THEN "readBack" ELSE "write")
         /\ templates' \in [Template -> TemplateRow \cup {NoRow}]
         /\ methods' \in [Template -> MethodRow \cup {NoRow}]
  <1> DEFINE t == request[c].id
  <1>1. /\ t \in Template /\ t \in Known
        /\ pc[c] = "write" /\ request[c].op = "update"
    BY DEF WriteColumn, IInv, RequestInv, UpdateInv
  <1>2. PICK col \in todo[c] :
          /\ templates' = [templates EXCEPT ![t] =
               Written(templates[t], TemplateColumns, col, c)]
          /\ methods' = [methods EXCEPT ![t] =
               Written(methods[t], MethodColumns, col, c)]
          /\ todo' = [todo EXCEPT ![c] = todo[c] \ {col}]
          /\ Goto(c, IF todo[c] = {col} THEN "readBack" ELSE "write")
    BY DEF WriteColumn
  <1>3. /\ templates \in [Template -> TemplateRow \cup {NoRow}]
        /\ NoRow \notin TemplateRow /\ TemplateRow = [TemplateColumns -> Template]
    BY NoRowAssumption DEF IInv, TypeOK, TemplateRow
  <1>4. /\ methods \in [Template -> MethodRow \cup {NoRow}]
        /\ NoRow \notin MethodRow /\ MethodRow = [MethodColumns -> Template]
    BY NoRowAssumption DEF IInv, TypeOK, MethodRow
  <1> HIDE DEF t
  <1>5. /\ templates' \in [Template -> TemplateRow \cup {NoRow}]
        /\ \A u \in Template :
             /\ templates'[u] = NoRow <=> templates[u] = NoRow
             /\ u # t => templates'[u] = templates[u]
             /\ templates[u] # NoRow => \A x \in TemplateColumns :
                  templates'[u][x] =
                    IF u = t /\ x = col THEN c ELSE templates[u][x]
    <2> DEFINE old == templates[t]
               row == Written(old, TemplateColumns, col, c)
    <2>1. /\ old \in [TemplateColumns -> Template] \cup {NoRow}
          /\ NoRow \notin [TemplateColumns -> Template]
      BY <1>1, <1>3
    <2>2. templates' = [templates EXCEPT ![t] = row]
      BY <1>2
    <2> HIDE DEF old
    <2>3. /\ row \in [TemplateColumns -> Template] \cup {NoRow}
          /\ row = NoRow <=> old = NoRow
          /\ old # NoRow => \A x \in TemplateColumns :
               row[x] = IF x = col THEN c ELSE old[x]
      BY ONLY <2>1, c \in Call, RowWritten
    <2> HIDE DEF row
    <2> QED
      BY <1>1, <1>3, <2>2, <2>3 DEF old
  <1>6. /\ methods' \in [Template -> MethodRow \cup {NoRow}]
        /\ \A u \in Template :
             /\ methods'[u] = NoRow <=> methods[u] = NoRow
             /\ u # t => methods'[u] = methods[u]
             /\ methods[u] # NoRow => \A x \in MethodColumns :
                  methods'[u][x] =
                    IF u = t /\ x = col THEN c ELSE methods[u][x]
    <2> DEFINE old == methods[t]
               row == Written(old, MethodColumns, col, c)
    <2>1. /\ old \in [MethodColumns -> Template] \cup {NoRow}
          /\ NoRow \notin [MethodColumns -> Template]
      BY <1>1, <1>4
    <2>2. methods' = [methods EXCEPT ![t] = row]
      BY <1>2
    <2> HIDE DEF old
    <2>3. /\ row \in [MethodColumns -> Template] \cup {NoRow}
          /\ row = NoRow <=> old = NoRow
          /\ old # NoRow => \A x \in MethodColumns :
               row[x] = IF x = col THEN c ELSE old[x]
      BY ONLY <2>1, c \in Call, RowWritten
    <2> HIDE DEF row
    <2> QED
      BY <1>1, <1>4, <2>2, <2>3 DEF old
  <1> QED
    BY <1>1, <1>2, <1>5, <1>6 DEF t

-----------------------------------------------------------------------------
\* Every step keeps the types.
LEMMA TypeStep == IInv /\ [Next]_vars => TypeOK'
  <1> SUFFICES ASSUME IInv, [Next]_vars PROVE TypeOK'
    OBVIOUS
  <1> USE PriorAssumption, ColumnsAssumption, NoRowAssumption
      DEF IInv, TypeOK, Running, Goto, Finish, rows, TemplateRow, MethodRow
  <1>1. ASSUME NEW c \in Call, Arrive(c) PROVE TypeOK'
    BY <1>1, RequestFields DEF Arrive, Askable, FirstStep
  <1>2. ASSUME NEW c \in Call, InsertMethod(c) PROVE TypeOK'
    BY <1>2 DEF InsertMethod, Inserted, Template
  <1>3. ASSUME NEW c \in Call, InsertTemplate(c) PROVE TypeOK'
    BY <1>3 DEF InsertTemplate, Inserted, Template
  <1>4. ASSUME NEW c \in Call, InsertDangling(c) PROVE TypeOK'
    BY <1>4 DEF InsertDangling
  <1>5. ASSUME NEW c \in Call, SelectUpdate(c) PROVE TypeOK'
    BY <1>5 DEF SelectUpdate
  <1>6. ASSUME NEW c \in Call, WriteColumn(c) PROVE TypeOK'
    <2> DEFINE t == request[c].id
    <2>1. PICK col \in todo[c] :
            /\ \A u \in Template :
                 /\ templates'[u] = NoRow <=> templates[u] = NoRow
                 /\ methods'[u] = NoRow <=> methods[u] = NoRow
                 /\ u # t => UNCHANGED <<templates[u], methods[u]>>
            /\ todo' = [todo EXCEPT ![c] = todo[c] \ {col}]
            /\ Goto(c, IF todo[c] = {col} THEN "readBack" ELSE "write")
      BY <1>6, ColumnWritten
    <2>2. /\ t \in Template /\ t \in Known
          /\ pc[c] = "write" /\ request[c].op = "update"
      BY <1>6, ColumnWritten
    <2>3. /\ templates' \in [Template -> TemplateRow \cup {NoRow}]
          /\ methods' \in [Template -> MethodRow \cup {NoRow}]
      BY <1>6, ColumnWritten
    <2> HIDE DEF TemplateRow, MethodRow
    <2> QED
      BY <2>1, <2>2, <2>3
  <1>7. ASSUME NEW c \in Call, ReadBack(c) PROVE TypeOK'
    BY <1>7 DEF ReadBack
  <1>8. ASSUME NEW c \in Call, SelectRemove(c) PROVE TypeOK'
    BY <1>8 DEF SelectRemove
  <1>9. ASSUME NEW c \in Call, DeleteTemplate(c) PROVE TypeOK'
    BY <1>9 DEF DeleteTemplate
  <1>10. ASSUME NEW c \in Call, DeleteMethod(c) PROVE TypeOK'
    BY <1>10 DEF DeleteMethod
  <1>11. ASSUME NEW c \in Call, DeleteTemplates(c) PROVE TypeOK'
    BY <1>11 DEF DeleteTemplates
  <1>12. ASSUME NEW c \in Call, DeleteMethods(c) PROVE TypeOK'
    BY <1>12 DEF DeleteMethods
  <1>13. ASSUME NEW c \in Call, Reply(c) PROVE TypeOK'
    BY <1>13 DEF Reply
  <1>14. ASSUME NEW c \in Call, StatementFails(c) PROVE TypeOK'
    BY <1>14 DEF StatementFails
  <1>15. CASE Crash
    BY <1>15 DEF Crash
  <1>16. CASE UNCHANGED vars
    BY <1>16 DEF vars
  <1> QED
    BY <1>1, <1>2, <1>3, <1>4, <1>5, <1>6, <1>7, <1>8, <1>9, <1>10, <1>11,
       <1>12, <1>13, <1>14, <1>15, <1>16
    DEF Next, Handler

\* A handler goes from statement to statement of its request.
LEMMA RequestStep == IInv /\ [Next]_vars => RequestInv'
  <1> SUFFICES ASSUME IInv, [Next]_vars PROVE RequestInv'
    OBVIOUS
  <1> USE PriorAssumption, ColumnsAssumption, NoRowAssumption
      DEF IInv, TypeOK, Running, Goto, Finish, rows, RequestInv
  <1>1. ASSUME NEW c \in Call, Arrive(c) PROVE RequestInv'
    BY <1>1, RequestFields DEF Arrive, Askable, FirstStep
  <1>2. ASSUME NEW c \in Call, InsertMethod(c) PROVE RequestInv'
    BY <1>2 DEF InsertMethod
  <1>3. ASSUME NEW c \in Call, InsertTemplate(c) PROVE RequestInv'
    BY <1>3 DEF InsertTemplate
  <1>4. ASSUME NEW c \in Call, InsertDangling(c) PROVE RequestInv'
    BY <1>4 DEF InsertDangling
  <1>5. ASSUME NEW c \in Call, SelectUpdate(c) PROVE RequestInv'
    BY <1>5 DEF SelectUpdate
  <1>6. ASSUME NEW c \in Call, WriteColumn(c) PROVE RequestInv'
    BY <1>6 DEF WriteColumn
  <1>7. ASSUME NEW c \in Call, ReadBack(c) PROVE RequestInv'
    BY <1>7 DEF ReadBack
  <1>8. ASSUME NEW c \in Call, SelectRemove(c) PROVE RequestInv'
    BY <1>8 DEF SelectRemove
  <1>9. ASSUME NEW c \in Call, DeleteTemplate(c) PROVE RequestInv'
    BY <1>9 DEF DeleteTemplate
  <1>10. ASSUME NEW c \in Call, DeleteMethod(c) PROVE RequestInv'
    BY <1>10 DEF DeleteMethod
  <1>11. ASSUME NEW c \in Call, DeleteTemplates(c) PROVE RequestInv'
    BY <1>11 DEF DeleteTemplates
  <1>12. ASSUME NEW c \in Call, DeleteMethods(c) PROVE RequestInv'
    BY <1>12 DEF DeleteMethods
  <1>13. ASSUME NEW c \in Call, Reply(c) PROVE RequestInv'
    BY <1>13 DEF Reply
  <1>14. ASSUME NEW c \in Call, StatementFails(c) PROVE RequestInv'
    BY <1>14 DEF StatementFails
  <1>15. CASE Crash
    BY <1>15 DEF Crash
  <1>16. CASE UNCHANGED vars
    BY <1>16 DEF vars
  <1> QED
    BY <1>1, <1>2, <1>3, <1>4, <1>5, <1>6, <1>7, <1>8, <1>9, <1>10, <1>11,
       <1>12, <1>13, <1>14, <1>15, <1>16
    DEF Next, Handler

\* Handlers answer once, for what was asked.
LEMMA AnswerStep == IInv /\ [Next]_vars => AnswerInv'
  <1> SUFFICES ASSUME IInv, [Next]_vars PROVE AnswerInv'
    OBVIOUS
  <1> USE PriorAssumption, ColumnsAssumption, NoRowAssumption
      DEF IInv, TypeOK, Running, Goto, Finish, rows, RequestInv, AnswerInv, Ended
  <1>1. ASSUME NEW c \in Call, Arrive(c) PROVE AnswerInv'
    BY <1>1 DEF Arrive
  <1>2. ASSUME NEW c \in Call, InsertMethod(c) PROVE AnswerInv'
    BY <1>2 DEF InsertMethod
  <1>3. ASSUME NEW c \in Call, InsertTemplate(c) PROVE AnswerInv'
    BY <1>3 DEF InsertTemplate
  <1>4. ASSUME NEW c \in Call, InsertDangling(c) PROVE AnswerInv'
    BY <1>4 DEF InsertDangling
  <1>5. ASSUME NEW c \in Call, SelectUpdate(c) PROVE AnswerInv'
    BY <1>5 DEF SelectUpdate
  <1>6. ASSUME NEW c \in Call, WriteColumn(c) PROVE AnswerInv'
    BY <1>6 DEF WriteColumn
  <1>7. ASSUME NEW c \in Call, ReadBack(c) PROVE AnswerInv'
    BY <1>7 DEF ReadBack
  <1>8. ASSUME NEW c \in Call, SelectRemove(c) PROVE AnswerInv'
    BY <1>8 DEF SelectRemove
  <1>9. ASSUME NEW c \in Call, DeleteTemplate(c) PROVE AnswerInv'
    BY <1>9 DEF DeleteTemplate
  <1>10. ASSUME NEW c \in Call, DeleteMethod(c) PROVE AnswerInv'
    BY <1>10 DEF DeleteMethod
  <1>11. ASSUME NEW c \in Call, DeleteTemplates(c) PROVE AnswerInv'
    BY <1>11 DEF DeleteTemplates
  <1>12. ASSUME NEW c \in Call, DeleteMethods(c) PROVE AnswerInv'
    BY <1>12 DEF DeleteMethods
  <1>13. ASSUME NEW c \in Call, Reply(c) PROVE AnswerInv'
    BY <1>13, RequestFields DEF Reply
  <1>14. ASSUME NEW c \in Call, StatementFails(c) PROVE AnswerInv'
    BY <1>14 DEF StatementFails
  <1>15. CASE Crash
    BY <1>15 DEF Crash
  <1>16. CASE UNCHANGED vars
    BY <1>16 DEF vars
  <1> QED
    BY <1>1, <1>2, <1>3, <1>4, <1>5, <1>6, <1>7, <1>8, <1>9, <1>10, <1>11,
       <1>12, <1>13, <1>14, <1>15, <1>16
    DEF Next, Handler

\* What is known stays known, and the columns of a patch are ticked off.
LEMMA UpdateStep == IInv /\ [Next]_vars => UpdateInv'
  <1> SUFFICES ASSUME IInv, [Next]_vars PROVE UpdateInv'
    OBVIOUS
  <1> USE PriorAssumption, ColumnsAssumption, NoRowAssumption
      DEF IInv, TypeOK, Running, Goto, Finish, rows, RequestInv, AnswerInv, UpdateInv, Known
  <1>1. ASSUME NEW c \in Call, Arrive(c) PROVE UpdateInv'
    BY <1>1, RequestFields DEF Arrive, Askable, FirstStep
  <1>2. ASSUME NEW c \in Call, InsertMethod(c) PROVE UpdateInv'
    BY <1>2 DEF InsertMethod
  <1>3. ASSUME NEW c \in Call, InsertTemplate(c) PROVE UpdateInv'
    BY <1>3 DEF InsertTemplate
  <1>4. ASSUME NEW c \in Call, InsertDangling(c) PROVE UpdateInv'
    BY <1>4 DEF InsertDangling
  <1>5. ASSUME NEW c \in Call, SelectUpdate(c) PROVE UpdateInv'
    BY <1>5 DEF SelectUpdate
  <1>6. ASSUME NEW c \in Call, WriteColumn(c) PROVE UpdateInv'
    BY <1>6 DEF WriteColumn
  <1>7. ASSUME NEW c \in Call, ReadBack(c) PROVE UpdateInv'
    BY <1>7 DEF ReadBack
  <1>8. ASSUME NEW c \in Call, SelectRemove(c) PROVE UpdateInv'
    BY <1>8 DEF SelectRemove
  <1>9. ASSUME NEW c \in Call, DeleteTemplate(c) PROVE UpdateInv'
    BY <1>9 DEF DeleteTemplate
  <1>10. ASSUME NEW c \in Call, DeleteMethod(c) PROVE UpdateInv'
    BY <1>10 DEF DeleteMethod
  <1>11. ASSUME NEW c \in Call, DeleteTemplates(c) PROVE UpdateInv'
    BY <1>11 DEF DeleteTemplates
  <1>12. ASSUME NEW c \in Call, DeleteMethods(c) PROVE UpdateInv'
    BY <1>12 DEF DeleteMethods
  <1>13. ASSUME NEW c \in Call, Reply(c) PROVE UpdateInv'
    BY <1>13 DEF Reply
  <1>14. ASSUME NEW c \in Call, StatementFails(c) PROVE UpdateInv'
    BY <1>14 DEF StatementFails
  <1>15. CASE Crash
    BY <1>15 DEF Crash
  <1>16. CASE UNCHANGED vars
    BY <1>16 DEF vars
  <1> QED
    BY <1>1, <1>2, <1>3, <1>4, <1>5, <1>6, <1>7, <1>8, <1>9, <1>10, <1>11,
       <1>12, <1>13, <1>14, <1>15, <1>16
    DEF Next, Handler

\* Templates go before their methods, and come after them.
LEMMA HasMethodStep == IInv /\ [Next]_vars => TemplateHasMethod'
  <1> SUFFICES ASSUME IInv, [Next]_vars PROVE TemplateHasMethod'
    OBVIOUS
  <1> USE PriorAssumption, ColumnsAssumption, NoRowAssumption
      DEF IInv, TypeOK, Running, Goto, Finish, rows, TemplateHasMethod, RequestInv
  <1>1. ASSUME NEW c \in Call, Arrive(c) PROVE TemplateHasMethod'
    BY <1>1 DEF Arrive
  <1>2. ASSUME NEW c \in Call, InsertMethod(c) PROVE TemplateHasMethod'
    BY <1>2 DEF InsertMethod, Inserted, MethodRow, Template
  <1>3. ASSUME NEW c \in Call, InsertTemplate(c) PROVE TemplateHasMethod'
    BY <1>3 DEF InsertTemplate, Inserted, TemplateRow, Template
  <1>4. ASSUME NEW c \in Call, InsertDangling(c) PROVE TemplateHasMethod'
    BY <1>4 DEF InsertDangling
  <1>5. ASSUME NEW c \in Call, SelectUpdate(c) PROVE TemplateHasMethod'
    BY <1>5 DEF SelectUpdate
  <1>6. ASSUME NEW c \in Call, WriteColumn(c) PROVE TemplateHasMethod'
    BY <1>6, ColumnWritten
  <1>7. ASSUME NEW c \in Call, ReadBack(c) PROVE TemplateHasMethod'
    BY <1>7 DEF ReadBack
  <1>8. ASSUME NEW c \in Call, SelectRemove(c) PROVE TemplateHasMethod'
    BY <1>8 DEF SelectRemove
  <1>9. ASSUME NEW c \in Call, DeleteTemplate(c) PROVE TemplateHasMethod'
    BY <1>9 DEF DeleteTemplate
  <1>10. ASSUME NEW c \in Call, DeleteMethod(c) PROVE TemplateHasMethod'
    BY <1>10 DEF DeleteMethod
  <1>11. ASSUME NEW c \in Call, DeleteTemplates(c) PROVE TemplateHasMethod'
    BY <1>11 DEF DeleteTemplates
  <1>12. ASSUME NEW c \in Call, DeleteMethods(c) PROVE TemplateHasMethod'
    BY <1>12 DEF DeleteMethods
  <1>13. ASSUME NEW c \in Call, Reply(c) PROVE TemplateHasMethod'
    BY <1>13 DEF Reply
  <1>14. ASSUME NEW c \in Call, StatementFails(c) PROVE TemplateHasMethod'
    BY <1>14 DEF StatementFails
  <1>15. CASE Crash
    BY <1>15 DEF Crash
  <1>16. CASE UNCHANGED vars
    BY <1>16 DEF vars
  <1> QED
    BY <1>1, <1>2, <1>3, <1>4, <1>5, <1>6, <1>7, <1>8, <1>9, <1>10, <1>11,
       <1>12, <1>13, <1>14, <1>15, <1>16
    DEF Next, Handler

\* A method is orphaned by a removal, or not yet or never completed by its addition.
LEMMA OrphanStep == IInv /\ [Next]_vars => OrphanInv'
  <1> SUFFICES ASSUME IInv, [Next]_vars PROVE OrphanInv'
    OBVIOUS
  <1> USE PriorAssumption, ColumnsAssumption, NoRowAssumption
      DEF IInv, TypeOK, Running, Goto, Finish, rows, RequestInv, AnswerInv, OrphanInv, Orphan, HalfWay,
          Removes, Succeeded, Ended
  <1>1. ASSUME NEW c \in Call, Arrive(c) PROVE OrphanInv'
    BY <1>1, RequestFields DEF Arrive, Askable, FirstStep
  <1>2. ASSUME NEW c \in Call, InsertMethod(c) PROVE OrphanInv'
    BY <1>2 DEF InsertMethod, Inserted, MethodRow, Template
  <1>3. ASSUME NEW c \in Call, InsertTemplate(c) PROVE OrphanInv'
    BY <1>3 DEF InsertTemplate, Inserted, TemplateRow, Template
  <1>4. ASSUME NEW c \in Call, InsertDangling(c) PROVE OrphanInv'
    BY <1>4 DEF InsertDangling
  <1>5. ASSUME NEW c \in Call, SelectUpdate(c) PROVE OrphanInv'
    BY <1>5 DEF SelectUpdate
  <1>6. ASSUME NEW c \in Call, WriteColumn(c) PROVE OrphanInv'
    <2> DEFINE t == request[c].id
    <2>1. PICK col \in todo[c] :
            /\ \A u \in Template :
                 /\ templates'[u] = NoRow <=> templates[u] = NoRow
                 /\ methods'[u] = NoRow <=> methods[u] = NoRow
                 /\ u # t => UNCHANGED <<templates[u], methods[u]>>
            /\ todo' = [todo EXCEPT ![c] = todo[c] \ {col}]
            /\ Goto(c, IF todo[c] = {col} THEN "readBack" ELSE "write")
      BY <1>6, ColumnWritten
    <2>2. /\ t \in Template /\ t \in Known
          /\ pc[c] = "write" /\ request[c].op = "update"
      BY <1>6, ColumnWritten
    <2>3. \A u \in Template : Orphan(u)' => Orphan(u)
      BY <2>1
    <2>4. /\ request' = request /\ answer' = answer
          /\ \A d \in Call \ {c} : pc'[d] = pc[d]
          /\ pc'[c] \in {"write", "readBack"}
      BY <2>1
    <2> HIDE DEF Orphan
    <2> QED
      BY <2>2, <2>3, <2>4
  <1>7. ASSUME NEW c \in Call, ReadBack(c) PROVE OrphanInv'
    BY <1>7 DEF ReadBack
  <1>8. ASSUME NEW c \in Call, SelectRemove(c) PROVE OrphanInv'
    BY <1>8 DEF SelectRemove
  <1>9. ASSUME NEW c \in Call, DeleteTemplate(c) PROVE OrphanInv'
    BY <1>9 DEF DeleteTemplate
  <1>10. ASSUME NEW c \in Call, DeleteMethod(c) PROVE OrphanInv'
    BY <1>10 DEF DeleteMethod
  <1>11. ASSUME NEW c \in Call, DeleteTemplates(c) PROVE OrphanInv'
    BY <1>11 DEF DeleteTemplates
  <1>12. ASSUME NEW c \in Call, DeleteMethods(c) PROVE OrphanInv'
    BY <1>12 DEF DeleteMethods
  <1>13. ASSUME NEW c \in Call, Reply(c) PROVE OrphanInv'
    BY <1>13 DEF Reply
  <1>14. ASSUME NEW c \in Call, StatementFails(c) PROVE OrphanInv'
    BY <1>14 DEF StatementFails
  <1>15. CASE Crash
    BY <1>15 DEF Crash
  <1>16. CASE UNCHANGED vars
    BY <1>16 DEF vars
  <1> QED
    BY <1>1, <1>2, <1>3, <1>4, <1>5, <1>6, <1>7, <1>8, <1>9, <1>10, <1>11,
       <1>12, <1>13, <1>14, <1>15, <1>16
    DEF Next, Handler

\* Nobody writes to a row that its addition has not told of.
LEMMA FreshStep == IInv /\ [Next]_vars => FreshInv'
  <1> SUFFICES ASSUME IInv, [Next]_vars PROVE FreshInv'
    OBVIOUS
  <1> USE PriorAssumption, ColumnsAssumption, NoRowAssumption
      DEF IInv, TypeOK, Running, Goto, Finish, rows, RequestInv, AnswerInv, FreshInv, Known, Template
  <1>1. ASSUME NEW c \in Call, Arrive(c) PROVE FreshInv'
    BY <1>1, RequestFields DEF Arrive, Askable, FirstStep
  <1>2. ASSUME NEW c \in Call, InsertMethod(c) PROVE FreshInv'
    BY <1>2 DEF InsertMethod
  <1>3. ASSUME NEW c \in Call, InsertTemplate(c) PROVE FreshInv'
    BY <1>3 DEF InsertTemplate
  <1>4. ASSUME NEW c \in Call, InsertDangling(c) PROVE FreshInv'
    BY <1>4 DEF InsertDangling
  <1>5. ASSUME NEW c \in Call, SelectUpdate(c) PROVE FreshInv'
    BY <1>5 DEF SelectUpdate
  <1>6. ASSUME NEW c \in Call, WriteColumn(c) PROVE FreshInv'
    <2> DEFINE t == request[c].id
    <2>1. PICK col \in todo[c] :
            /\ \A u \in Template :
                 /\ templates'[u] = NoRow <=> templates[u] = NoRow
                 /\ methods'[u] = NoRow <=> methods[u] = NoRow
                 /\ u # t => UNCHANGED <<templates[u], methods[u]>>
            /\ todo' = [todo EXCEPT ![c] = todo[c] \ {col}]
            /\ Goto(c, IF todo[c] = {col} THEN "readBack" ELSE "write")
      BY <1>6, ColumnWritten
    <2>2. /\ t \in Template /\ t \in Known
          /\ pc[c] = "write" /\ request[c].op = "update"
      BY <1>6, ColumnWritten
    <2>3. ASSUME NEW d \in Call, pc[d] # "done"
          PROVE  templates'[d] = templates[d] /\ methods'[d] = methods[d]
      BY <2>1, <2>2, <2>3
    <2>4. \A d \in Call : pc'[d] \in {"idle", "insertMethod", "insertTemplate"}
                            => pc'[d] = pc[d]
      BY <2>1, <2>2
    <2> QED
      BY <2>3, <2>4
  <1>7. ASSUME NEW c \in Call, ReadBack(c) PROVE FreshInv'
    BY <1>7 DEF ReadBack
  <1>8. ASSUME NEW c \in Call, SelectRemove(c) PROVE FreshInv'
    BY <1>8 DEF SelectRemove
  <1>9. ASSUME NEW c \in Call, DeleteTemplate(c) PROVE FreshInv'
    BY <1>9 DEF DeleteTemplate
  <1>10. ASSUME NEW c \in Call, DeleteMethod(c) PROVE FreshInv'
    BY <1>10 DEF DeleteMethod
  <1>11. ASSUME NEW c \in Call, DeleteTemplates(c) PROVE FreshInv'
    BY <1>11 DEF DeleteTemplates
  <1>12. ASSUME NEW c \in Call, DeleteMethods(c) PROVE FreshInv'
    BY <1>12 DEF DeleteMethods
  <1>13. ASSUME NEW c \in Call, Reply(c) PROVE FreshInv'
    BY <1>13 DEF Reply
  <1>14. ASSUME NEW c \in Call, StatementFails(c) PROVE FreshInv'
    BY <1>14 DEF StatementFails
  <1>15. CASE Crash
    BY <1>15 DEF Crash
  <1>16. CASE UNCHANGED vars
    BY <1>16 DEF vars
  <1> QED
    BY <1>1, <1>2, <1>3, <1>4, <1>5, <1>6, <1>7, <1>8, <1>9, <1>10, <1>11,
       <1>12, <1>13, <1>14, <1>15, <1>16
    DEF Next, Handler

\* What is asked of a handler does not change, nor what was before it, and it
\* ticks off its columns itself.
LEMMA RequestsStay ==
  ASSUME IInv, [Next]_vars, NEW c \in Call, request[c] # NoRow
  PROVE  /\ request'[c] = request[c] /\ before'[c] = before[c]
         /\ todo'[c] = todo[c] \/ WriteColumn(c)
  <1> USE DEF IInv, TypeOK, Goto, Finish, rows
  <1>1. ASSUME NEW d \in Call, Arrive(d)
        PROVE  request'[c] = request[c] /\ before'[c] = before[c] /\ todo'[c] = todo[c]
    BY <1>1 DEF Arrive, RequestInv
  <1>2. ASSUME NEW d \in Call, WriteColumn(d)
        PROVE  /\ request'[c] = request[c] /\ before'[c] = before[c]
               /\ todo'[c] = todo[c] \/ WriteColumn(c)
    BY <1>2, ColumnWritten
  <1>3. ASSUME NEW d \in Call, Handler(d), ~WriteColumn(d)
        PROVE  UNCHANGED <<request, before, todo>>
    BY <1>3 DEF Handler, InsertMethod, InsertTemplate, InsertDangling,
         SelectUpdate, ReadBack, SelectRemove, DeleteTemplate, DeleteMethod,
         DeleteTemplates, DeleteMethods, Reply, StatementFails
  <1> QED
    BY <1>1, <1>2, <1>3 DEF Next, Crash, vars

\* A row stays, goes, comes as its addition inserts it, or is written to.
LEMMA RowSteps ==
  ASSUME IInv, [Next]_vars, NEW t \in Template
  PROVE  \/ /\ \/ UNCHANGED templates[t]
               \/ templates'[t] = NoRow
               \/ t \in Call /\ pc[t] = "insertTemplate" /\ ~(t \in Known)
                    /\ templates'[t] = Inserted(t, TemplateColumns)
            /\ \/ UNCHANGED methods[t]
               \/ methods'[t] = NoRow
               \/ t \in Call /\ pc[t] = "insertMethod" /\ ~(t \in Known)
                    /\ methods'[t] = Inserted(t, MethodColumns)
            /\ UNCHANGED todo \/ \E c \in Call : Arrive(c)
         \/ \E c \in Call : WriteColumn(c)
  <1> USE PriorAssumption
      DEF IInv, TypeOK, Goto, Finish, rows, Known, AnswerInv, Template
  <1>1. ASSUME NEW d \in Call, Handler(d), ~WriteColumn(d),
               ~InsertMethod(d), ~InsertTemplate(d)
        PROVE  /\ UNCHANGED templates[t] \/ templates'[t] = NoRow
               /\ UNCHANGED methods[t] \/ methods'[t] = NoRow
               /\ UNCHANGED todo
    BY <1>1 DEF Handler, InsertDangling, SelectUpdate, ReadBack, SelectRemove,
         DeleteTemplate, DeleteMethod, DeleteTemplates, DeleteMethods, Reply,
         StatementFails
  <1>2. ASSUME NEW d \in Call, InsertMethod(d)
        PROVE  /\ UNCHANGED <<templates, todo>>
               /\ \/ UNCHANGED methods[t]
                  \/ t \in Call /\ pc[t] = "insertMethod" /\ ~(t \in Known)
                       /\ methods'[t] = Inserted(t, MethodColumns)
    BY <1>2 DEF InsertMethod
  <1>3. ASSUME NEW d \in Call, InsertTemplate(d)
        PROVE  /\ UNCHANGED <<methods, todo>>
               /\ \/ UNCHANGED templates[t]
                  \/ t \in Call /\ pc[t] = "insertTemplate" /\ ~(t \in Known)
                       /\ templates'[t] = Inserted(t, TemplateColumns)
    BY <1>3 DEF InsertTemplate
  <1>4. CASE Crash \/ UNCHANGED vars
    BY <1>4 DEF Crash, vars
  <1>5. ASSUME NEW d \in Call, Arrive(d) PROVE UNCHANGED rows
    BY <1>5 DEF Arrive
  <1> QED
    BY <1>1, <1>2, <1>3, <1>4, <1>5 DEF Next

\* Every cell is from the addition or from an update of its row.
LEMMA WriterStep == IInv /\ [Next]_vars => WriterInv'
  <1> SUFFICES ASSUME IInv, [Next]_vars, NEW t \in Template
               PROVE  WrittenBy(templates[t], t)' /\ WrittenBy(methods[t], t)'
    BY DEF WriterInv
  <1>1. /\ templates[t] \in TemplateRow \cup {NoRow}
        /\ methods[t] \in MethodRow \cup {NoRow}
        /\ WrittenBy(templates[t], t) /\ WrittenBy(methods[t], t)
    BY DEF IInv, TypeOK, WriterInv
  <1>2. \A w \in Call : Updates(w, t) =>
          Updates(w, t)' /\ request'[w].patch = request[w].patch
    BY RequestsStay DEF Updates
  <1>3. ASSUME UNCHANGED templates[t] PROVE WrittenBy(templates[t], t)'
    BY <1>1, <1>2, <1>3 DEF WrittenBy
  <1>4. ASSUME UNCHANGED methods[t] PROVE WrittenBy(methods[t], t)'
    BY <1>1, <1>2, <1>4 DEF WrittenBy
  <1>5. CASE \E c \in Call : WriteColumn(c)
    <2>1. PICK c \in Call : WriteColumn(c)
      BY <1>5
    <2>2. PICK col \in todo[c] :
            /\ templates'[t] = NoRow <=> templates[t] = NoRow
            /\ methods'[t] = NoRow <=> methods[t] = NoRow
            /\ t # request[c].id => UNCHANGED <<templates[t], methods[t]>>
            /\ templates[t] # NoRow => \A x \in TemplateColumns :
                 templates'[t][x] =
                   IF t = request[c].id /\ x = col THEN c ELSE templates[t][x]
            /\ methods[t] # NoRow => \A x \in MethodColumns :
                 methods'[t][x] =
                   IF t = request[c].id /\ x = col THEN c ELSE methods[t][x]
      BY <2>1, ColumnWritten
    <2>3. t = request[c].id => Updates(c, t) /\ col \in request[c].patch
      BY <2>1, ColumnWritten DEF Updates, IInv, RequestInv, UpdateInv
    <2>4. /\ templates'[t] \in TemplateRow \cup {NoRow}
          /\ methods'[t] \in MethodRow \cup {NoRow}
      BY <2>1, ColumnWritten
    <2>5. WrittenBy(templates[t], t)'
      BY <1>1, <1>2, <2>2, <2>3, <2>4 DEF WrittenBy, TemplateRow
    <2>6. WrittenBy(methods[t], t)'
      BY <1>1, <1>2, <2>2, <2>3, <2>4 DEF WrittenBy, MethodRow
    <2> QED
      BY <2>5, <2>6
  <1>6. templates'[t] \in {NoRow, Inserted(t, TemplateColumns)} => WrittenBy(templates[t], t)'
    BY DEF WrittenBy, Inserted
  <1>7. methods'[t] \in {NoRow, Inserted(t, MethodColumns)} => WrittenBy(methods[t], t)'
    BY DEF WrittenBy, Inserted
  <1> QED
    BY <1>3, <1>4, <1>5, <1>6, <1>7, RowSteps

\* What an update has written holds its value, or that of a later update.
LEMMA KeptStep == IInv /\ [Next]_vars => KeptInv'
  <1> SUFFICES ASSUME IInv, [Next]_vars, NEW c \in Call,
                      request'[c] # NoRow, request'[c].op = "update"
               PROVE  /\ Kept(templates[request[c].id], c)'
                      /\ Kept(methods[request[c].id], c)'
    BY DEF KeptInv
  <1>1. CASE request[c] = NoRow
    <2>1. todo'[c] = request'[c].patch
      <3>1. PICK d \in Call : Arrive(d) \/ Handler(d) \/ Crash \/ UNCHANGED vars
        BY DEF Next, vars
      <3>2. d = c /\ Arrive(c)
        BY <1>1, <3>1
        DEF Arrive, Handler, InsertMethod, InsertTemplate, InsertDangling,
            SelectUpdate, WriteColumn, ReadBack, SelectRemove, DeleteTemplate,
            DeleteMethod, DeleteTemplates, DeleteMethods, Reply, StatementFails,
            Crash, vars, Goto, Finish, IInv, TypeOK
      <3> QED
        BY <3>2 DEF Arrive, IInv, TypeOK
    <2> QED
      BY <2>1 DEF Kept
  <1>2. CASE request[c] # NoRow
    <2>1. /\ request'[c] = request[c] /\ before'[c] = before[c]
          /\ todo'[c] = todo[c] \/ WriteColumn(c)
      BY <1>2, RequestsStay
    <2>2. PICK t \in Template : t = request[c].id
      BY <1>2, <2>1 DEF IInv, UpdateInv, Known, Template
    <2>3. /\ t \in Known
          /\ templates[t] \in TemplateRow \cup {NoRow}
          /\ methods[t] \in MethodRow \cup {NoRow}
          /\ Kept(templates[t], c) /\ Kept(methods[t], c)
      BY <1>2, <2>1, <2>2 DEF IInv, KeptInv, UpdateInv, Known, Template, TypeOK
    <2>4. CASE \E d \in Call : WriteColumn(d)
      <3>1. PICK d \in Call : WriteColumn(d)
        BY <2>4
      <3>2. PICK col \in todo[d] :
              /\ templates'[t] = NoRow <=> templates[t] = NoRow
              /\ methods'[t] = NoRow <=> methods[t] = NoRow
              /\ t # request[d].id => UNCHANGED <<templates[t], methods[t]>>
              /\ templates[t] # NoRow => \A x \in TemplateColumns :
                   templates'[t][x] =
                     IF t = request[d].id /\ x = col THEN d ELSE templates[t][x]
              /\ methods[t] # NoRow => \A x \in MethodColumns :
                   methods'[t][x] =
                     IF t = request[d].id /\ x = col THEN d ELSE methods[t][x]
              /\ todo' = [todo EXCEPT ![d] = todo[d] \ {col}]
        BY <3>1, ColumnWritten
      <3>3. /\ templates'[t] \in TemplateRow \cup {NoRow}
            /\ methods'[t] \in MethodRow \cup {NoRow}
        BY <3>1, ColumnWritten
      <3>4. t = request[d].id => d # t /\ d \notin before[c]
        BY <2>3, <3>1, ColumnWritten, PriorAssumption
        DEF IInv, AnswerInv, Known, Ended
      <3>5. request[d].id # t => d # c
        BY <2>2
      <3>6. todo'[c] = IF c = d THEN todo[c] \ {col} ELSE todo[c]
        BY <3>2 DEF IInv, TypeOK
      <3>7. Kept(templates[t], c)'
        BY <2>1, <2>2, <2>3, <3>2, <3>3, <3>4, <3>5, <3>6 DEF Kept, TemplateRow
      <3>8. Kept(methods[t], c)'
        BY <2>1, <2>2, <2>3, <3>2, <3>3, <3>4, <3>5, <3>6 DEF Kept, MethodRow
      <3> QED
        BY <2>1, <2>2, <3>7, <3>8 DEF Kept
    <2>5. CASE ~ \E d \in Call : WriteColumn(d)
      <3>1. todo'[c] = todo[c]
        BY <2>1, <2>5
      <3>2. /\ UNCHANGED templates[t] \/ templates'[t] = NoRow
            /\ UNCHANGED methods[t] \/ methods'[t] = NoRow
        BY <2>3, <2>5, RowSteps
      <3> QED
        BY <2>1, <2>2, <2>3, <3>1, <3>2 DEF Kept
    <2> QED
      BY <2>4, <2>5
  <1> QED
    BY <1>1, <1>2

-----------------------------------------------------------------------------
(* The theorems.                                                           *)

\* The inductive invariant holds in every reachable state of the store.
LEMMA Invariance == Spec => []IInv
  <1>1. Init => IInv
    <2> SUFFICES ASSUME Init PROVE IInv
      OBVIOUS
    <2> USE PriorAssumption, NoRowAssumption DEF Init, Inserted, Template
    <2>1. TypeOK
      BY DEF TypeOK, TemplateRow, MethodRow
    <2>2. RequestInv /\ AnswerInv /\ UpdateInv /\ KeptInv
      BY DEF RequestInv, AnswerInv, UpdateInv, KeptInv
    <2>3. TemplateHasMethod /\ OrphanInv /\ FreshInv
      BY DEF TemplateHasMethod, OrphanInv, Orphan, FreshInv, TemplateRow, MethodRow
    <2>4. WriterInv
      BY DEF WriterInv, WrittenBy
    <2> QED
      BY <2>1, <2>2, <2>3, <2>4 DEF IInv
  <1>2. IInv /\ [Next]_vars => IInv'
    BY TypeStep, RequestStep, AnswerStep, UpdateStep, HasMethodStep, OrphanStep,
       FreshStep, WriterStep, KeptStep DEF IInv
  <1> QED
    BY <1>1, <1>2, PTL DEF Spec

\* Every reachable state of the template store has the declared types.
THEOREM TemplateRepoTypeCorrect == Spec => []TypeOK
  BY Invariance, PTL DEF IInv

\* No interleaving of statements leaves a template without its method.
THEOREM TemplatesHaveMethods == Spec => []TemplateHasMethod
  BY Invariance, PTL DEF IInv

\* A method without a template is the doing of a request that has not
\* succeeded, however many requests interleave.
THEOREM OrphansNeedFailures == Spec => []OrphanNeedsFailure
  <1>1. IInv => OrphanNeedsFailure
    BY DEF IInv, AnswerInv, OrphanInv, Orphan, HalfWay, OrphanNeedsFailure,
           Succeeded, Ended
  <1> QED
    BY <1>1, Invariance, PTL

\* A column that a successful update patched holds its value until an update
\* that did not end before it came writes the column again.
THEOREM UpdatesAreNotLost == Spec => []UpdateIsNotLost
  <1>1. IInv => UpdateIsNotLost
    <2> SUFFICES ASSUME IInv, NEW c \in Call, answer[c] = "200"
                 PROVE  LET t == request[c].id
                            Keeps(row) == row # NoRow =>
                              \A col \in DOMAIN row \cap request[c].patch :
                                LET w == row[col]
                                IN  w = c \/ (w # t /\ w \notin before[c])
                        IN Keeps(templates[t]) /\ Keeps(methods[t])
      BY DEF UpdateIsNotLost
    <2>1. request[c] # NoRow /\ request[c].op = "update" /\ todo[c] = {}
      BY DEF IInv, RequestInv, AnswerInv, UpdateInv
    <2>2. Kept(templates[request[c].id], c) /\ Kept(methods[request[c].id], c)
      BY <2>1 DEF IInv, KeptInv
    <2> QED
      BY <2>1, <2>2 DEF Kept
  <1> QED
    BY <1>1, Invariance, PTL

\* Two patches of an evaluation method mix only when one of the updates did not
\* succeed, or when both overlapped.
THEOREM MixedMethodsNeedOverlaps == Spec => []MixedMethodNeedsOverlap
  <1>1. IInv => MixedMethodNeedsOverlap
    <2> SUFFICES ASSUME IInv, NEW t \in Template, methods[t] # NoRow,
                        NEW x \in MethodColumns, NEW y \in MethodColumns,
                        methods[t][x] # methods[t][y]
                 PROVE  \E c \in {methods[t][x], methods[t][y]} \ {t} :
                          \/ ~Succeeded(c)
                          \/ \E d \in {methods[t][x], methods[t][y]} \ {t, c} :
                               Overlap(c, d)
      BY DEF MixedMethodNeedsOverlap
    <2> DEFINE row == methods[t]
    <2>1. DOMAIN row = MethodColumns
      BY DEF IInv, TypeOK, MethodRow
    <2>2. ASSUME NEW p \in MethodColumns, NEW q \in MethodColumns,
                 row[p] # t, Succeeded(row[p]), row[p] # row[q]
          PROVE  row[q] # t /\ row[q] \notin before[row[p]]
      <3> DEFINE w == row[p]
      <3>1. w \in Call /\ Updates(w, t) /\ p \in request[w].patch
        BY <2>1, <2>2 DEF IInv, WriterInv, WrittenBy
      <3>2. q \in request[w].patch
        BY <2>2, <3>1, RequestFields DEF IInv, TypeOK, Updates
      <3>3. todo[w] = {}
        BY <2>2, <3>1 DEF IInv, AnswerInv, UpdateInv, Updates, Succeeded
      <3> QED
        BY <2>1, <2>2, <3>1, <3>2, <3>3 DEF IInv, KeptInv, Kept, Updates
    <2> HIDE DEF row
    <2> QED
      BY <2>2 DEF row, Overlap
  <1> QED
    BY <1>1, Invariance, PTL

-----------------------------------------------------------------------------
(* While requests are orderly: what the statements of a request rely on.   *)

\* What a request has found or done at its first statements stays as it is.
OrderInv ==
  Orderly =>
    \A c \in Call :
      /\ pc[c] \in {"write", "readBack", "deleteTemplate"} =>
           templates[request[c].id] # NoRow
      /\ pc[c] = "deleteMethod" => templates[request[c].id] = NoRow
      /\ pc[c] = "deleteMethods" => \A t \in Template : templates[t] = NoRow

\* Two requests that are both under way are about different templates.
LEMMA Alone ==
  ASSUME IInv, Orderly, NEW c \in Call, NEW d \in Call, c # d,
         pc[c] \in Running, pc[d] \in Running
  PROVE  Target(c) \cap Target(d) = {}
  <1>1. request[c] # NoRow /\ request[d] # NoRow
    BY DEF IInv, RequestInv, Running
  <1>2. c \notin before[d] /\ d \notin before[c]
    BY DEF IInv, AnswerInv, Ended, Running
  <1> QED
    BY <1>1, <1>2 DEF Orderly, Overlap

\* Disorder lasts.
LEMMA DisorderLasts ==
  ASSUME IInv, [Next]_vars, Orderly'
  PROVE  Orderly
  <1>1. ASSUME NEW c \in Call, request[c] # NoRow
        PROVE  /\ request'[c] = request[c] /\ before'[c] = before[c]
               /\ answer[c] = "500" => answer'[c] = "500"
               /\ pc[c] = "lost" => pc'[c] = "lost"
    <2>1. request'[c] = request[c] /\ before'[c] = before[c]
      BY <1>1, RequestsStay
    <2>2. ASSUME Ended(c) PROVE pc'[c] = pc[c] /\ answer'[c] = answer[c]
      BY <2>2
      DEF Next, Arrive, Handler, InsertMethod, InsertTemplate, InsertDangling,
          SelectUpdate, WriteColumn, ReadBack, SelectRemove, DeleteTemplate,
          DeleteMethod, DeleteTemplates, DeleteMethods, Reply, StatementFails,
          Crash, vars, Goto, Finish, Ended, Running, IInv, TypeOK
    <2> QED
      BY <2>1, <2>2 DEF IInv, AnswerInv, Ended
  <1>2. \A c \in Call : request[c] # NoRow => Target(c)' = Target(c)
    BY <1>1 DEF Target
  <1> QED
    BY <1>1, <1>2 DEF Orderly, Overlap

\* Who changes a row is under way with it.
LEMMA Touching ==
  ASSUME IInv, NEW c \in Call, Handler(c), NEW t \in Template,
         ~UNCHANGED <<templates[t], methods[t]>>
  PROVE  pc[c] \in Running /\ t \in Target(c)
  <1> USE DEF IInv, TypeOK, RequestInv, Goto, Finish, rows, Running, Target
  <1>1. CASE WriteColumn(c)
    BY <1>1, ColumnWritten
  <1> QED
    BY <1>1
    DEF Handler, InsertMethod, InsertTemplate, InsertDangling, SelectUpdate,
        ReadBack, SelectRemove, DeleteTemplate, DeleteMethod, DeleteTemplates,
        DeleteMethods, Reply, StatementFails

\* A handler moves itself only.
LEMMA OthersStay ==
  ASSUME IInv, NEW c \in Call, Arrive(c) \/ Handler(c)
  PROVE  \A d \in Call \ {c} :
           /\ pc'[d] = pc[d] /\ request'[d] = request[d]
           /\ todo'[d] = todo[d] /\ answer'[d] = answer[d]
  BY DEF Arrive, Handler, InsertMethod, InsertTemplate, InsertDangling,
         SelectUpdate, WriteColumn, ReadBack, SelectRemove, DeleteTemplate,
         DeleteMethod, DeleteTemplates, DeleteMethods, Reply, StatementFails,
         Goto, Finish, IInv, TypeOK

LEMMA OrderStep == IInv /\ OrderInv /\ [Next]_vars => OrderInv'
  <1> SUFFICES ASSUME IInv, OrderInv, [Next]_vars, Orderly', NEW c \in Call
               PROVE  /\ pc'[c] \in {"write", "readBack", "deleteTemplate"} =>
                           templates'[request'[c].id] # NoRow
                      /\ pc'[c] = "deleteMethod" =>
                           templates'[request'[c].id] = NoRow
                      /\ pc'[c] = "deleteMethods" =>
                           \A t \in Template : templates'[t] = NoRow
    BY DEF OrderInv
  <1>1. /\ Orderly
        /\ pc[c] \in {"write", "readBack", "deleteTemplate"} =>
             templates[request[c].id] # NoRow
        /\ pc[c] = "deleteMethod" => templates[request[c].id] = NoRow
        /\ pc[c] = "deleteMethods" => \A t \in Template : templates[t] = NoRow
    BY DisorderLasts DEF OrderInv
  <1> USE DEF IInv, TypeOK, Goto, Finish, rows
  <1>2. ASSUME NEW d \in Call \ {c}, Handler(d),
               pc[c] \in {"write", "readBack", "deleteTemplate", "deleteMethod",
                          "deleteMethods"},
               NEW t \in Target(c) \cap Template
        PROVE  templates'[t] = templates[t]
    BY <1>1, <1>2, Alone, Touching DEF Running
  <1>3. ASSUME NEW d \in Call \ {c}, Handler(d)
        PROVE  /\ pc'[c] \in {"write", "readBack", "deleteTemplate"} =>
                    templates'[request'[c].id] # NoRow
               /\ pc'[c] = "deleteMethod" => templates'[request'[c].id] = NoRow
               /\ pc'[c] = "deleteMethods" =>
                    \A t \in Template : templates'[t] = NoRow
    BY <1>1, <1>2, <1>3, OthersStay DEF Target, RequestInv
  <1>4. CASE WriteColumn(c)
    BY <1>1, <1>4, ColumnWritten
  <1>5. CASE Handler(c) /\ ~WriteColumn(c)
    BY <1>1, <1>5
    DEF Handler, InsertMethod, InsertTemplate, InsertDangling, SelectUpdate,
        ReadBack, SelectRemove, DeleteTemplate, DeleteMethod, DeleteTemplates,
        DeleteMethods, Reply, StatementFails, RequestInv
  <1>6. ASSUME NEW d \in Call, Arrive(d)
        PROVE  /\ UNCHANGED templates
               /\ pc'[c] \in Running \ {"insertMethod", "selectUpdate",
                                        "selectRemove", "deleteTemplates"}
                    => pc'[c] = pc[c] /\ request'[c] = request[c]
    BY <1>6, RequestFields DEF Arrive, Askable, FirstStep, Running
  <1>7. CASE Crash \/ UNCHANGED vars
    BY <1>1, <1>7 DEF Crash, vars, Running
  <1> QED
    BY <1>1, <1>3, <1>4, <1>5, <1>6, <1>7 DEF Next, Running

-----------------------------------------------------------------------------
(* The database store implements the dictionary while requests are orderly.*)

Column == TemplateColumns \cup MethodColumns

\* Update c has column col of template t still to write.
Writing(c, t, col) == pc[c] = "write" /\ col \in todo[c] /\ request[c].id = t

\* What the join of t shows, once the updates under way are through.
Cells(t) ==
  /\ templates[t] = NoRow => Joined(t) = NoRow
  /\ templates[t] # NoRow =>
       /\ DOMAIN Joined(t) = Column /\ Joined(t) \in [Column -> Template]
       /\ Joined(t) # NoRow
       /\ \A col \in Column :
            /\ \A c \in Call : Writing(c, t, col) => Joined(t)[col] = c
            /\ (\A c \in Call : ~Writing(c, t, col)) =>
                 Joined(t)[col] = IF col \in TemplateColumns
                                  THEN templates[t][col] ELSE methods[t][col]

LEMMA JoinedCells == IInv /\ Orderly => \A t \in Template : Cells(t)
  <1> SUFFICES ASSUME IInv, Orderly, NEW t \in Template PROVE Cells(t)
    OBVIOUS
  <1> DEFINE W(col) == {c \in Call : /\ pc[c] = "write" /\ col \in todo[c]
                                     /\ request[c].id = t}
             cell(col) == IF W(col) # {} THEN CHOOSE c \in W(col) : TRUE
                          ELSE IF col \in TemplateColumns THEN templates[t][col]
                          ELSE methods[t][col]
  <1>1. templates[t] = NoRow => Joined(t) = NoRow
    BY DEF Joined
  <1>2. CASE templates[t] # NoRow
    <2>1. methods[t] # NoRow
      BY <1>2 DEF IInv, TemplateHasMethod
    <2>2. Joined(t) = [col \in Column |-> cell(col)]
      BY <1>2, <2>1 DEF Joined, Column
    <2>3. ASSUME NEW col \in Column, NEW c \in W(col)
          PROVE  W(col) = {c}
      BY <2>3, Alone DEF IInv, RequestInv, Running, Target
    <2>4. ASSUME NEW col \in Column, NEW c \in W(col)
          PROVE  cell(col) = c
      BY <2>3, <2>4
    <2>5. \A col \in Column : cell(col) \in Template
      <3>1. /\ templates[t] \in [TemplateColumns -> Template]
            /\ methods[t] \in [MethodColumns -> Template]
        BY <1>2, <2>1 DEF IInv, TypeOK, TemplateRow, MethodRow
      <3>2. ASSUME NEW col \in Column, W(col) = {}
            PROVE  cell(col) \in Template
        BY <3>1, <3>2 DEF Column
      <3> QED
        BY <2>4, <3>2 DEF Template
    <2>6. \A col \in Column, c \in Call : Writing(c, t, col) <=> c \in W(col)
      BY DEF Writing
    <2> HIDE DEF W
    <2>7. \A col \in Column : W(col) = {} => cell(col) =
            IF col \in TemplateColumns THEN templates[t][col] ELSE methods[t][col]
      OBVIOUS
    <2> HIDE DEF cell
    <2>8. Joined(t) \in [Column -> Template] /\ Joined(t) # NoRow
      BY <2>2, <2>5, NoRowAssumption DEF Column
    <2> QED
      BY <1>2, <2>2, <2>4, <2>6, <2>7, <2>8 DEF Cells, W
  <1> QED
    BY <1>1, <1>2 DEF Cells

\* The join stays while its rows and what is left to write of it stay.
LEMMA JoinStays ==
  ASSUME NEW t \in Template, Cells(t), Cells(t)',
         UNCHANGED <<templates[t], methods[t]>>,
         \A col \in Column, c \in Call : Writing(c, t, col)' <=> Writing(c, t, col)
  PROVE  Joined(t)' = Joined(t)
  <1>1. CASE templates[t] = NoRow
    BY <1>1 DEF Cells
  <1>2. CASE templates[t] # NoRow
    <2>1. \A col \in Column : Joined(t)'[col] = Joined(t)[col]
      <3> SUFFICES ASSUME NEW col \in Column
                   PROVE  Joined(t)'[col] = Joined(t)[col]
        OBVIOUS
      <3>1. CASE \E c \in Call : Writing(c, t, col)
        BY <1>2, <3>1 DEF Cells
      <3>2. CASE \A c \in Call : ~Writing(c, t, col)
        BY <1>2, <3>2 DEF Cells
      <3> QED
        BY <3>1, <3>2
    <2>2. Joined(t) \in [Column -> Template] /\ Joined(t)' \in [Column -> Template]
      BY <1>2 DEF Cells, Column, Template
    <2> QED
      BY <2>1, <2>2
  <1> QED
    BY <1>1, <1>2

\* The step of one handler, in an orderly store.
OrderlyStep(c) ==
  /\ IInv /\ IInv' /\ OrderInv /\ Orderly /\ Orderly'
  /\ \A t \in Template : Cells(t) /\ Cells(t)'
  /\ Arrive(c) \/ Handler(c)

LEMMA JoinStaysElsewhere ==
  ASSUME NEW c \in Call, OrderlyStep(c), NEW t \in Template,
         UNCHANGED <<templates[t], methods[t]>>,
         \A col \in Column : Writing(c, t, col)' <=> Writing(c, t, col)
  PROVE  Joined(t)' = Joined(t)
  <1>1. \A col \in Column, d \in Call \ {c} :
          Writing(d, t, col)' <=> Writing(d, t, col)
    BY OthersStay DEF OrderlyStep, Writing
  <1> QED
    BY <1>1, JoinStays DEF OrderlyStep

\* What a step comes to in the dictionary: the templates that it changes, and
\* the outcome that it settles.
LEMMA StoreSettles ==
  ASSUME NEW c \in Call, OrderlyStep(c), Outcome(c) = "none",
         NEW status, Outcome(c)' = status
  PROVE  Store!Settle(c, status)
  <1>1. \A d \in Call \ {c} : Outcome(d)' = Outcome(d)
    BY OthersStay DEF OrderlyStep, Outcome
  <1> QED
    BY <1>1 DEF Store!Settle

LEMMA StoreStays ==
  ASSUME NEW c \in Call, OrderlyStep(c), Outcome(c)' = Outcome(c),
         \A t \in Template : Joined(t)' = Joined(t)
  PROVE  UNCHANGED Store!vars
  <1>1. \A d \in Call \ {c} : Outcome(d)' = Outcome(d)
    BY OthersStay DEF OrderlyStep, Outcome
  <1> QED
    BY <1>1 DEF Store!vars

\* A column that is written was shown already.
LEMMA WriteIsQuiet ==
  ASSUME NEW c \in Call, OrderlyStep(c), WriteColumn(c)
  PROVE  UNCHANGED Store!vars
  <1>1. PICK t \in Template : t = request[c].id
    BY ColumnWritten DEF OrderlyStep
  <1>2. PICK col \in todo[c] :
          /\ \A u \in Template :
               /\ u # request[c].id => UNCHANGED <<templates[u], methods[u]>>
               /\ templates[u] # NoRow => \A x \in TemplateColumns :
                    templates'[u][x] =
                      IF u = request[c].id /\ x = col THEN c ELSE templates[u][x]
               /\ methods[u] # NoRow => \A x \in MethodColumns :
                    methods'[u][x] =
                      IF u = request[c].id /\ x = col THEN c ELSE methods[u][x]
               /\ templates'[u] = NoRow <=> templates[u] = NoRow
          /\ todo' = [todo EXCEPT ![c] = todo[c] \ {col}]
          /\ Goto(c, IF todo[c] = {col} THEN "readBack" ELSE "write")
    BY ColumnWritten DEF OrderlyStep
  <1>3. /\ pc[c] = "write" /\ request[c].op = "update" /\ request' = request
        /\ todo'[c] = todo[c] \ {col}
        /\ pc'[c] = IF todo[c] = {col} THEN "readBack" ELSE "write"
        /\ col \in Column
    BY <1>2, ColumnWritten DEF OrderlyStep, Goto, IInv, TypeOK, Column
  <1>4. templates[t] # NoRow /\ methods[t] # NoRow /\ templates'[t] # NoRow
    BY <1>1, <1>2, <1>3 DEF OrderlyStep, OrderInv, IInv, TemplateHasMethod
  <1>5. \A d \in Call \ {c}, x \in Column : ~Writing(d, t, x) /\ ~Writing(d, t, x)'
    <2>1. \A d \in Call \ {c}, x \in Column : ~Writing(d, t, x)
      BY <1>1, <1>3, Alone
      DEF OrderlyStep, Writing, Running, Target, IInv, RequestInv
    <2>2. \A d \in Call \ {c}, x \in Column : Writing(d, t, x)' <=> Writing(d, t, x)
      BY OthersStay DEF OrderlyStep, Writing
    <2> QED
      BY <2>1, <2>2
  <1>6. \A x \in Column : /\ Writing(c, t, x) <=> x \in todo[c]
                          /\ Writing(c, t, x)' <=> x \in todo[c] \ {col}
    BY <1>1, <1>3 DEF Writing
  <1>7. ASSUME NEW x \in Column PROVE Joined(t)'[x] = Joined(t)[x]
    <2>1. CASE x \in todo[c] \ {col}
      BY <1>4, <1>6, <2>1 DEF OrderlyStep, Cells
    <2>2. CASE x = col
      <3>1. Joined(t)[x] = c
        BY <1>4, <1>6, <2>2 DEF OrderlyStep, Cells
      <3>2. Joined(t)'[x] =
              IF x \in TemplateColumns THEN templates'[t][x] ELSE methods'[t][x]
        BY <1>4, <1>5, <1>6, <2>2 DEF OrderlyStep, Cells
      <3> QED
        BY <1>1, <1>2, <1>4, <2>2, <3>1, <3>2 DEF Column
    <2>3. CASE x \notin todo[c]
      <3>1. Joined(t)[x] =
              IF x \in TemplateColumns THEN templates[t][x] ELSE methods[t][x]
        BY <1>4, <1>5, <1>6, <2>3 DEF OrderlyStep, Cells
      <3>2. Joined(t)'[x] =
              IF x \in TemplateColumns THEN templates'[t][x] ELSE methods'[t][x]
        BY <1>4, <1>5, <1>6, <2>3 DEF OrderlyStep, Cells
      <3> QED
        BY <1>1, <1>2, <1>4, <2>3, <3>1, <3>2 DEF Column
    <2> QED
      BY <2>1, <2>2, <2>3
  <1>8. Joined(t)' = Joined(t)
    BY <1>4, <1>7 DEF OrderlyStep, Cells, Column, Template
  <1>9. \A u \in Template \ {t} : Joined(u)' = Joined(u)
    <2> SUFFICES ASSUME NEW u \in Template \ {t} PROVE Joined(u)' = Joined(u)
      OBVIOUS
    <2>1. \A x \in Column : Writing(c, u, x)' <=> Writing(c, u, x)
      BY <1>1, <1>3 DEF Writing
    <2> QED
      BY <1>1, <1>2, <2>1, JoinStaysElsewhere
  <1>10. Outcome(c)' = Outcome(c)
    BY <1>3 DEF Outcome
  <1> QED
    BY <1>8, <1>9, <1>10, StoreStays

\* Statements that only look, and second statements, change nothing.
LEMMA QuietSteps ==
  ASSUME NEW c \in Call, OrderlyStep(c),
         \/ Arrive(c) \/ InsertMethod(c) \/ ReadBack(c) \/ DeleteMethod(c)
         \/ DeleteMethods(c) \/ Reply(c)
         \/ SelectRemove(c) /\ templates[request[c].id] # NoRow
  PROVE  UNCHANGED Store!vars
  <1> USE DEF OrderlyStep, IInv, TypeOK, RequestInv, Goto, Finish, rows
  <1>1. \A t \in Template :
          \/ templates[t] = NoRow /\ templates'[t] = NoRow
          \/ UNCHANGED <<templates[t], methods[t]>>
    BY PriorAssumption DEF Arrive, InsertMethod, ReadBack, DeleteMethod, DeleteMethods, Reply,
         SelectRemove, OrderInv, FreshInv, Template
  <1>2. pc[c] # "write" /\ pc'[c] # "write"
    BY RequestFields DEF Arrive, InsertMethod, ReadBack, DeleteMethod,
         DeleteMethods, Reply, SelectRemove, Askable, FirstStep
  <1>3. \A t \in Template : Joined(t)' = Joined(t)
    <2> SUFFICES ASSUME NEW t \in Template PROVE Joined(t)' = Joined(t)
      OBVIOUS
    <2>1. CASE templates[t] = NoRow /\ templates'[t] = NoRow
      BY <2>1 DEF Cells
    <2>2. CASE UNCHANGED <<templates[t], methods[t]>>
      BY <1>2, <2>2, JoinStaysElsewhere DEF Writing
    <2> QED
      BY <1>1, <2>1, <2>2
  <1>4. Outcome(c)' = Outcome(c)
    BY RequestFields DEF Arrive, InsertMethod, ReadBack, DeleteMethod, DeleteMethods,
         Reply, SelectRemove, Askable, FirstStep, Outcome, OrderInv, AnswerInv,
         TemplateHasMethod
  <1> QED
    BY <1>3, <1>4, StoreStays

\* An addition counts from its second statement.
LEMMA AddCounts ==
  ASSUME NEW c \in Call, OrderlyStep(c), InsertTemplate(c)
  PROVE  Store!Add(c)
  <1> USE DEF OrderlyStep, IInv, TypeOK, RequestInv, Goto
  <1>1. /\ pc[c] = "insertTemplate" /\ pc'[c] = "reply"
        /\ request[c].op = "add" /\ request' = request
        /\ templates' = [templates EXCEPT ![c] = Inserted(c, TemplateColumns)]
        /\ methods[c] = Inserted(c, MethodColumns) /\ methods' = methods
        /\ c \in Template /\ todo' = todo
    BY DEF InsertTemplate, FreshInv, Template
  <1>2. Store!Settle(c, "201")
    BY <1>1, StoreSettles DEF Outcome, AnswerInv
  <1>3. /\ templates'[c] = Inserted(c, TemplateColumns) /\ templates'[c] # NoRow
        /\ methods'[c] = Inserted(c, MethodColumns)
    BY <1>1, NoRowAssumption DEF Inserted, TemplateRow, Template
  <1>4. \A d \in Call, col \in Column : ~Writing(d, c, col)'
    <2>1. c \notin Known
      BY <1>1, PriorAssumption DEF Known, AnswerInv
    <2>2. \A d \in Call : pc'[d] = "write" => request[d].id # c
      BY <1>1, <2>1 DEF UpdateInv
    <2> QED
      BY <1>1, <2>2 DEF Writing
  <1>5. Joined(c)' = [col \in Column |-> c]
    <2>1. \A col \in Column : Joined(c)'[col] =
            IF col \in TemplateColumns THEN templates'[c][col] ELSE methods'[c][col]
      BY <1>1, <1>3, <1>4 DEF Cells
    <2>2. \A col \in Column : Joined(c)'[col] = c
      BY <1>3, <2>1 DEF Inserted, Column
    <2>3. Joined(c)' \in [Column -> Template]
      BY <1>1, <1>3 DEF Cells, Column, Template
    <2> QED
      BY <2>2, <2>3
  <1>6. \A t \in Template \ {c} : Joined(t)' = Joined(t)
    BY <1>1, JoinStaysElsewhere DEF Writing
  <1>7. [t \in Template |-> Joined(t)]' =
          [[t \in Template |-> Joined(t)] EXCEPT ![c] = [col \in Column |-> c]]
    <2> HIDE DEF OrderlyStep, IInv, TypeOK, RequestInv, Goto
    <2> QED
      BY <1>1, <1>5, <1>6
  <1> QED
    BY <1>1, <1>2, <1>7 DEF Store!Add, Column

\* An update counts from its first statement.
LEMMA UpdateCounts ==
  ASSUME NEW c \in Call, OrderlyStep(c), SelectUpdate(c)
  PROVE  Store!Update(c)
  <1> USE DEF OrderlyStep, IInv, TypeOK, RequestInv, Goto, Finish, rows
  <1>1. PICK t \in Template : t = request[c].id
    BY DEF SelectUpdate
  <1>2. /\ pc[c] = "selectUpdate" /\ request[c].op = "update"
        /\ todo[c] = request[c].patch /\ request[c].patch \subseteq Column
        /\ UNCHANGED <<rows, todo, request>>
    BY DEF SelectUpdate, UpdateInv, Column
  <1>3. \A u \in Template \ {t} : Joined(u)' = Joined(u)
    BY <1>1, <1>2, JoinStaysElsewhere DEF Writing
  <1>4. Outcome(c) = "none"
    BY <1>2 DEF Outcome, AnswerInv
  <1>5. CASE request[c].id # request[c].bodyId
    <2>1. pc'[c] = "done" /\ answer'[c] = "400"
      BY <1>5 DEF SelectUpdate
    <2>2. Joined(t)' = Joined(t)
      BY <1>2, <2>1, JoinStaysElsewhere DEF Writing
    <2>3. Outcome(c)' = "400"
      BY <2>1 DEF Outcome
    <2> QED
      BY <1>2, <1>3, <1>4, <1>5, <2>2, <2>3, StoreSettles DEF Store!Update
  <1>6. CASE request[c].id = request[c].bodyId /\ templates[t] = NoRow
    <2>1. pc'[c] = "done" /\ answer'[c] = "404"
      BY <1>1, <1>6 DEF SelectUpdate
    <2>2. Joined(t) = NoRow /\ Joined(t)' = NoRow
      BY <1>2, <1>6 DEF Cells
    <2>3. Store!Settle(c, "404")
      BY <1>4, <2>1, StoreSettles DEF Outcome
    <2> QED
      BY <1>1, <1>2, <1>3, <1>6, <2>2, <2>3 DEF Store!Update
  <1>7. CASE request[c].id = request[c].bodyId /\ templates[t] # NoRow
    <2>1. pc'[c] = IF todo[c] = {} THEN "readBack" ELSE "write"
      BY <1>1, <1>7 DEF SelectUpdate
    <2>2. Store!Settle(c, "200")
      BY <1>4, <2>1, StoreSettles DEF Outcome
    <2>3. \A d \in Call \ {c}, col \in Column :
            ~Writing(d, t, col) /\ ~Writing(d, t, col)'
      <3>1. \A d \in Call \ {c}, col \in Column : ~Writing(d, t, col)
        BY <1>1, <1>2, Alone DEF Writing, Running, Target
      <3> QED
        BY <3>1, OthersStay DEF Writing
    <2>4. \A col \in Column : /\ ~Writing(c, t, col)
                              /\ Writing(c, t, col)' <=> col \in request[c].patch
      BY <1>1, <1>2, <2>1 DEF Writing
    <2>5. ASSUME NEW col \in Column
          PROVE  Joined(t)'[col] =
                   IF col \in request[c].patch THEN c ELSE Joined(t)[col]
      <3>1. CASE col \in request[c].patch
        BY <1>2, <1>7, <2>4, <3>1 DEF Cells
      <3>2. CASE col \notin request[c].patch
        <4>1. Joined(t)[col] =
                IF col \in TemplateColumns THEN templates[t][col] ELSE methods[t][col]
          BY <1>7, <2>3, <2>4 DEF Cells
        <4>2. templates'[t] # NoRow /\ \A d \in Call : ~Writing(d, t, col)'
          BY <1>2, <1>7, <2>3, <2>4, <3>2
        <4>3. Joined(t)'[col] =
                IF col \in TemplateColumns THEN templates'[t][col] ELSE methods'[t][col]
          BY <4>2 DEF Cells
        <4> QED
          BY <1>2, <3>2, <4>1, <4>3
      <3> QED
        BY <3>1, <3>2
    <2>6. /\ Joined(t) # NoRow
          /\ Joined(t)' = [col \in Column |->
               IF col \in request[c].patch THEN c ELSE Joined(t)[col]]
      <3>1. Joined(t)' \in [Column -> Template] /\ Joined(t) # NoRow
        BY <1>2, <1>7 DEF Cells, Column, Template
      <3> QED
        BY <2>5, <3>1
    <2> QED
      BY <1>1, <1>2, <1>3, <1>7, <2>2, <2>6 DEF Store!Update, Column
  <1> QED
    BY <1>5, <1>6, <1>7

\* A removal counts from the look-up that finds nothing, or from its first
\* deletion.
LEMMA RemoveCounts ==
  ASSUME NEW c \in Call, OrderlyStep(c),
         \/ SelectRemove(c) /\ templates[request[c].id] = NoRow
         \/ DeleteTemplate(c)
  PROVE  Store!Remove(c)
  <1> USE DEF OrderlyStep, IInv, TypeOK, RequestInv, Goto, Finish, rows
  <1>1. PICK t \in Template : t = request[c].id
    BY DEF SelectRemove, DeleteTemplate
  <1>2. /\ pc[c] # "write" /\ pc'[c] # "write" /\ request[c].op = "remove"
        /\ templates'[t] = NoRow /\ UNCHANGED request
        /\ \A u \in Template \ {t} : UNCHANGED <<templates[u], methods[u]>>
    BY <1>1 DEF SelectRemove, DeleteTemplate
  <1>3. Joined(t)' = NoRow
    BY <1>2 DEF Cells
  <1>4. \A u \in Template \ {t} : Joined(u)' = Joined(u)
    BY <1>2, JoinStaysElsewhere DEF Writing
  <1>5. Outcome(c) = "none"
    BY DEF SelectRemove, DeleteTemplate, Outcome, AnswerInv
  <1>6. Outcome(c)' = IF templates[t] = NoRow THEN "404" ELSE "204"
    BY <1>1 DEF SelectRemove, DeleteTemplate, Outcome, OrderInv
  <1>7. Joined(t) = NoRow <=> templates[t] = NoRow
    BY DEF Cells
  <1>8. Store!Settle(c, IF Joined(t) = NoRow THEN "404" ELSE "204")
    BY <1>5, <1>6, <1>7, StoreSettles
  <1> QED
    BY <1>1, <1>2, <1>3, <1>4, <1>8 DEF Store!Remove

\* A removal of all templates counts from its first statement.
LEMMA RemoveAllCounts ==
  ASSUME NEW c \in Call, OrderlyStep(c), DeleteTemplates(c)
  PROVE  Store!RemoveAll(c)
  <1> USE DEF OrderlyStep, IInv, TypeOK, RequestInv, Goto
  <1>1. \A t \in Template : Joined(t)' = NoRow
    BY DEF DeleteTemplates, Cells
  <1>2. Outcome(c) = "none" /\ Outcome(c)' = "204" /\ request[c].op = "removeAll"
    BY DEF DeleteTemplates, Outcome, AnswerInv
  <1> QED
    BY <1>1, <1>2, StoreSettles DEF Store!RemoveAll

\* Every orderly step is one of the dictionary, or leaves it alone.
LEMMA StoreStep ==
  IInv /\ IInv' /\ OrderInv /\ [Next]_vars => [Orderly' => Store!Next]_(Store!vars)
  <1> SUFFICES ASSUME IInv, IInv', OrderInv, [Next]_vars, Orderly'
               PROVE  Store!Next \/ UNCHANGED Store!vars
    OBVIOUS
  <1>1. Orderly
    BY DisorderLasts
  <1>2. \A t \in Template : Cells(t)
    BY <1>1, JoinedCells
  <1>3. \A t \in Template : Cells(t)'
    <2>1. (IInv /\ Orderly => \A t \in Template : Cells(t))'
      BY JoinedCells, PTL
    <2> QED
      BY <2>1
  <1>4. ASSUME NEW c \in Call, Arrive(c) PROVE UNCHANGED Store!vars
    BY <1>1, <1>2, <1>3, <1>4, QuietSteps DEF OrderlyStep
  <1>5. ASSUME NEW c \in Call, Handler(c)
        PROVE  Store!Next \/ UNCHANGED Store!vars
    <2>1. OrderlyStep(c)
      BY <1>1, <1>2, <1>3, <1>5 DEF OrderlyStep
    <2>2. request[c] # NoRow /\ request'[c] # NoRow
      BY <1>5 DEF Handler, InsertMethod, InsertTemplate, InsertDangling,
           SelectUpdate, WriteColumn, ReadBack, SelectRemove, DeleteTemplate,
           DeleteMethod, DeleteTemplates, DeleteMethods, Reply, StatementFails,
           Goto, Finish, IInv, RequestInv, Running
    <2>3. ~InsertDangling(c) /\ ~StatementFails(c)
      BY <2>2 DEF InsertDangling, StatementFails, Finish, Orderly, IInv, TypeOK
    <2>4. InsertTemplate(c) => Store!Next
      BY <2>1, <2>2, AddCounts DEF Store!Next
    <2>5. SelectUpdate(c) => Store!Next
      BY <2>1, <2>2, UpdateCounts DEF Store!Next
    <2>6. SelectRemove(c) /\ templates[request[c].id] = NoRow => Store!Next
      BY <2>1, <2>2, RemoveCounts DEF Store!Next
    <2>7. DeleteTemplate(c) => Store!Next
      BY <2>1, <2>2, RemoveCounts DEF Store!Next
    <2>8. DeleteTemplates(c) => Store!Next
      BY <2>1, <2>2, RemoveAllCounts DEF Store!Next
    <2> QED
      BY <1>5, <2>1, <2>3, <2>4, <2>5, <2>6, <2>7, <2>8, QuietSteps, WriteIsQuiet
      DEF Handler
  <1>6. ~Crash
    <2> SUFFICES ASSUME Crash PROVE FALSE
      OBVIOUS
    <2>1. PICK c \in Call : pc[c] \in Running
      BY DEF Crash
    <2>2. pc'[c] = "lost" /\ request'[c] # NoRow
      BY <2>1 DEF Crash, IInv, RequestInv, Running
    <2> QED
      BY <2>2 DEF Orderly
  <1>7. CASE UNCHANGED vars
    <2>1. \A t \in Template : Joined(t)' = Joined(t)
      BY <1>2, <1>3, <1>7, JoinStays DEF vars, Writing
    <2>2. \A c \in Call : Outcome(c)' = Outcome(c)
      BY <1>7 DEF vars, Outcome
    <2> QED
      BY <2>1, <2>2 DEF Store!vars
  <1> QED
    BY <1>4, <1>5, <1>6, <1>7 DEF Next

LEMMA StoreInit == Init => Store!Init
  <1> SUFFICES ASSUME Init PROVE Store!Init
    OBVIOUS
  <1>1. \A t \in Template : Joined(t) \in [Column -> Template] \cup {NoRow}
    <2> SUFFICES ASSUME NEW t \in Template
                 PROVE  Joined(t) \in [Column -> Template] \cup {NoRow}
      OBVIOUS
    <2>1. CASE templates[t] = NoRow \/ methods[t] = NoRow
      BY <2>1 DEF Joined
    <2>2. CASE /\ templates[t] # NoRow /\ templates[t] = Inserted(Prior, TemplateColumns)
               /\ methods[t] # NoRow /\ methods[t] = Inserted(Prior, MethodColumns)
      <3>1. \A col : {c \in Call : /\ pc[c] = "write" /\ col \in todo[c]
                                   /\ request[c].id = t} = {}
        BY DEF Init
      <3>2. Joined(t) = [col \in Column |-> IF col \in TemplateColumns
                           THEN templates[t][col] ELSE methods[t][col]]
        BY <2>2, <3>1 DEF Joined, Column
      <3> QED
        BY <2>2, <3>2 DEF Inserted, Column, Template
    <2> QED
      BY <2>1, <2>2 DEF Init
  <1>2. \A c \in Call : Outcome(c) = "none"
    BY DEF Init, Outcome
  <1> QED
    BY <1>1, <1>2 DEF Store!Init, Column

\* Until requests get into each other's way or one fails, the database store
\* cannot be told from the dictionary (PgTemplateRepo, FakeTemplateRepo).
THEOREM StoreIsImplemented == Spec => ImplementsStore
  <1>1. Init => OrderInv
    BY DEF Init, OrderInv
  <1>2. Spec => []OrderInv
    BY <1>1, OrderStep, Invariance, PTL DEF Spec
  <1> QED
    BY <1>2, Invariance, StoreInit, StoreStep, PTL DEF Spec, ImplementsStore
=============================================================================
