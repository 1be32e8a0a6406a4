---------------------------- MODULE TemplateStore ---------------------------
(***************************************************************************)
(* What the VLA manager keeps templates in when no database is configured: *)
(* FakeTemplateRepo, a dictionary behind the routes of template_routes.py. *)
(* Its methods await nothing, so every request is served in one step.      *)
(***************************************************************************)
CONSTANTS
  Call,     \* requests; an addition draws a UUID, named by the request
  Template, \* ids of templates
  Column,   \* the members of a template
  NoRow     \* no template; no request yet

VARIABLES
  stored,   \* stored[t]: template t, each member named by who wrote it
  request,  \* request[c]: what c asks for, once it has arrived
  outcome   \* outcome[c]: the status c is answered with

vars == <<stored, outcome>>

Init ==
  /\ stored \in [Template -> [Column -> Template] \cup {NoRow}]
  /\ outcome = [c \in Call |-> "none"]

Settle(c, status) ==
  /\ outcome[c] = "none"
  /\ outcome' = [outcome EXCEPT ![c] = status]

Add(c) ==
  /\ request[c].op = "add"
  /\ stored' = [stored EXCEPT ![c] = [col \in Column |-> c]]
  /\ Settle(c, "201")

Update(c) ==
  /\ request[c].op = "update"
  /\ IF request[c].id # request[c].bodyId
     THEN Settle(c, "400") /\ UNCHANGED stored
     ELSE /\ Settle(c, IF stored[request[c].id] = NoRow THEN "404" ELSE "200")
          /\ stored' = [stored EXCEPT ![request[c].id] =
               IF @ = NoRow THEN NoRow
               ELSE [col \in Column |->
                       IF col \in request[c].patch THEN c ELSE @[col]]]

Remove(c) ==
  /\ request[c].op = "remove"
  /\ stored' = [stored EXCEPT ![request[c].id] = NoRow]
  /\ Settle(c, IF stored[request[c].id] = NoRow THEN "404" ELSE "204")

RemoveAll(c) ==
  /\ request[c].op = "removeAll"
  /\ stored' = [t \in Template |-> NoRow]
  /\ Settle(c, "204")

Next ==
  \E c \in Call : /\ request[c] # NoRow
                  /\ Add(c) \/ Update(c) \/ Remove(c) \/ RemoveAll(c)
=============================================================================
