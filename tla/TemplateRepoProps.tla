-------------------------- MODULE TemplateRepoProps -------------------------
(***************************************************************************)
(* What remains true of the template store although no operation is a      *)
(* transaction (module TemplateRepo).                                      *)
(***************************************************************************)
EXTENDS TemplateRepo

Succeeded(c) == answer[c] \in {"200", "201", "204"}

\* c was asked to take template t away and may be half way through.
Removes(c, t) ==
  /\ request[c] # NoRow
  /\ \/ request[c].op = "removeAll"
     \/ request[c].op = "remove" /\ request[c].id = t

Updates(c, t) ==
  /\ request[c] # NoRow
  /\ request[c].op = "update" /\ request[c].id = t

\* Neither had ended when the other arrived.
Overlap(c, d) == c \notin before[d] /\ d \notin before[c]

\* A template always has its evaluation method: no interleaving of additions
\* and removals leaves a template that the joins of all and by_id would drop.
TemplateHasMethod ==
  \A t \in Template : templates[t] # NoRow => methods[t] # NoRow

\* An evaluation method is without a template only on account of a request
\* that has not succeeded: the addition that is to complete it, or a removal
\* that has not come to its second statement.
OrphanNeedsFailure ==
  \A t \in Template : (methods[t] # NoRow /\ templates[t] = NoRow) =>
    \/ t \in Call /\ ~Succeeded(t)
    \/ \E c \in Call : Removes(c, t) /\ ~Succeeded(c)

\* A template whose evaluation method mixes two patches, or a patch with the
\* original, had an update that did not succeed, or two that overlapped.
MixedMethodNeedsOverlap ==
  \A t \in Template : methods[t] # NoRow =>
    \A x, y \in MethodColumns :
      LET v == methods[t][x]
          w == methods[t][y]
      IN v = w \/ \E c \in {v, w} \ {t} :
                    \/ ~Succeeded(c)
                    \/ \E d \in {v, w} \ {t, c} : Overlap(c, d)

\* No successful update is lost: a column it patched holds its value until a
\* request that did not end before it came writes the column again.
UpdateIsNotLost ==
  \A c \in Call : (answer[c] = "200") =>
    LET t == request[c].id
        Keeps(row) == row # NoRow =>
          \A col \in DOMAIN row \cap request[c].patch :
            LET w == row[col] IN w = c \/ (w # t /\ w \notin before[c])
    IN Keeps(templates[t]) /\ Keeps(methods[t])

-----------------------------------------------------------------------------
\* The row that by_id and all join, with what is left to write of an update.
Joined(t) ==
  IF templates[t] = NoRow \/ methods[t] = NoRow THEN NoRow
  ELSE [col \in TemplateColumns \cup MethodColumns |->
          LET writers == {c \in Call : /\ pc[c] = "write" /\ col \in todo[c]
                                       /\ request[c].id = t}
          IN  IF writers # {} THEN CHOOSE c \in writers : TRUE
              ELSE IF col \in TemplateColumns THEN templates[t][col]
              ELSE methods[t][col]]

\* An operation counts from the statement that decides what it comes to.
Outcome(c) ==
  CASE pc[c] \in {"write", "readBack"}                           -> "200"
    [] pc[c] \in {"deleteMethod", "deleteMethods"}               -> "204"
    [] pc[c] = "reply" -> IF request[c].op = "add" THEN "201" ELSE "204"
    [] OTHER -> answer[c]

Store == INSTANCE TemplateStore WITH
           Template <- Template,
           Column   <- TemplateColumns \cup MethodColumns,
           stored   <- [t \in Template |-> Joined(t)],
           outcome  <- [c \in Call |-> Outcome(c)]

\* The templates that c may touch.
Target(c) ==
  IF request[c].op = "add" THEN {c}
  ELSE IF request[c].op = "removeAll" THEN Template
  ELSE {request[c].id}

\* No request failed, and those about one template came one after another.
Orderly ==
  LET asked == {c \in Call : request[c] # NoRow}
  IN  /\ \A c \in asked : answer[c] # "500" /\ pc[c] # "lost"
      /\ \A c, d \in asked : c # d /\ Overlap(c, d) =>
           Target(c) \cap Target(d) = {}

\* Until a request fails or meets another about the same template, the
\* database store cannot be told from the dictionary that replaces it where no
\* database is configured (FakeTemplateRepo, dependencies.py:63-67): the same
\* templates and answers, each request in one instant.
ImplementsStore == Store!Init /\ [][Orderly' => Store!Next]_(Store!vars)
=============================================================================
