------------------------------ MODULE VlaStore ------------------------------
(***************************************************************************)
(* The VLA store of the VLA manager (vla-manager-api): the routes of       *)
(* routes.py over PgVLARepo, and how a request comes by its repository.    *)
(* get_repo builds the repository on the first request: it finds the       *)
(* global unset, awaits a connection pool and the CREATE TABLE, and only   *)
(* then sets the global, so requests that come meanwhile build theirs too. *)
(* A request then takes a connection from the pool of its repository, runs *)
(* its one statement and returns the connection.  Template requests do the *)
(* same with a global and pools of their own, and so do the requests of    *)
(* the VC manager that need its whitelist (get_whitelist); one statement   *)
(* stands for theirs (modules TemplateRepo and Verifier have them all).    *)
(* Without a database, the first request makes a dictionary, which needs   *)
(* neither pool nor await.                                                 *)
(***************************************************************************)
EXTENDS Naturals, FiniteSets

CONSTANTS
  Call,           \* requests; a creating one draws a UUID, named by the call
  Prior,          \* a VLA that was there before
  MaxConnections, \* max_size of a pool
  NoRepo          \* no repository yet

ASSUME StoreAssumption == /\ MaxConnections \in Nat \ {0}
                          /\ Prior \notin Call
                          /\ NoRepo \notin Call

VARIABLES
  durable, \* the services for which a database is configured
  vlas,    \* ids in the table vlas, or in the dictionary
  global,  \* global[k]: the repository in the global of kind k
  pools,   \* pools that are open, each named by the call that created it
  ready,   \* pools whose tables were ensured
  request, \* request[c]: what c asks for, once it has arrived
  pc,      \* pc[c]: the step its handler is at
  repo,    \* repo[c]: the repository that c was given
  holds,   \* calls that hold a connection of the pool of their repository
  answer,  \* answer[c]: the status of the answer
  before   \* before[c]: requests that had ended when c arrived

process == <<global, pools, ready>>
history == <<durable, request, before>>
vars == <<vlas, process, history, pc, repo, holds, answer>>

Service == {"vlaManager", "vcManager"}
Kind    == {"vla", "template", "whitelist"}
Vla     == Call \cup {Prior}

KindsOf(s) == IF s = "vcManager" THEN {"whitelist"} ELSE Kind \ {"whitelist"}

Request == [op : {"create", "get", "templates", "verify"}, id : Vla]
             \cup [op : {"removeAll"}, id : Vla, token : {"valid", "invalid"}]

ASSUME RequestAssumption == NoRepo \notin Request

KindOf(c) ==
  IF request[c].op = "templates" THEN "template"
  ELSE IF request[c].op = "verify" THEN "whitelist"
  ELSE "vla"

At(c, s) == request[c] # NoRepo /\ KindOf(c) \in KindsOf(s)

Durable(c) == \E s \in durable : At(c, s)

Running  == {"authorize", "getRepo", "pool", "tables", "acquire", "statement"}
Ended(c) == pc[c] \in {"done", "lost"}

Init ==
  /\ durable \in SUBSET Service
  /\ vlas \in IF "vlaManager" \in durable THEN {{}, {Prior}} ELSE {{}}
  /\ global = [k \in Kind |-> NoRepo]
  /\ pools = {}
  /\ ready = {}
  /\ request = [c \in Call |-> NoRepo]
  /\ pc = [c \in Call |-> "idle"]
  /\ repo = [c \in Call |-> NoRepo]
  /\ holds = {}
  /\ answer = [c \in Call |-> "none"]
  /\ before = [c \in Call |-> {}]

Goto(c, step) == pc' = [pc EXCEPT ![c] = step]

Finish(c, status) ==
  /\ Goto(c, "done")
  /\ answer' = [answer EXCEPT ![c] = status]

\* A client knows the ids of the prior VLA and of those it was told about.
Known == {Prior} \cup {c \in Call : answer[c] = "201"}

Arrive(c) ==
  /\ pc[c] = "idle"
  /\ \E req \in Request :
       /\ req.id \in (IF req.op = "get" THEN Known ELSE {Prior})
       /\ request' = [request EXCEPT ![c] = req]
       /\ Goto(c, IF req.op = "removeAll" THEN "authorize" ELSE "getRepo")
  /\ before' = [before EXCEPT ![c] = {d \in Call : Ended(d)}]
  /\ UNCHANGED <<durable, vlas, process, repo, holds, answer>>

\* require_api_key comes before the repository.
Authorize(c) ==
  /\ pc[c] = "authorize"
  /\ IF request[c].token = "valid"
       THEN Goto(c, "getRepo") /\ UNCHANGED answer
       ELSE Finish(c, "401")
  /\ UNCHANGED <<vlas, process, history, repo, holds>>

\* Mutant: the repository is not kept.
PublishNot(c) == UNCHANGED global

Publish(c) == global' = [global EXCEPT ![KindOf(c)] = c]

\* get_repo up to its await.
GetRepo(c) ==
  /\ pc[c] = "getRepo" /\ Durable(c)
  /\ IF global[KindOf(c)] = NoRepo
       THEN Goto(c, "pool") /\ UNCHANGED repo
       ELSE /\ repo' = [repo EXCEPT ![c] = global[KindOf(c)]]
            /\ Goto(c, "acquire")
  /\ UNCHANGED <<vlas, process, history, holds, answer>>

\* Mutant: the global is set as soon as there is a pool.
CreatePoolPublished(c) ==
  /\ pc[c] = "pool"
  /\ pools' = pools \cup {c}
  /\ Publish(c)
  /\ Goto(c, "tables")
  /\ UNCHANGED <<vlas, ready, history, repo, holds, answer>>

CreatePool(c) ==
  /\ pc[c] = "pool"
  /\ pools' = pools \cup {c}
  /\ Goto(c, "tables")
  /\ UNCHANGED <<vlas, global, ready, history, repo, holds, answer>>

\* The tables exist; the global is set, whoever else has set it meanwhile.
EnsureTables(c) ==
  /\ pc[c] = "tables"
  /\ ready' = ready \cup {c}
  /\ Publish(c)
  /\ repo' = [repo EXCEPT ![c] = c]
  /\ Goto(c, "acquire")
  /\ UNCHANGED <<vlas, pools, history, holds, answer>>

\* The database is unreachable, or CREATE TABLE IF NOT EXISTS collides with
\* another one: 500.  A pool that was opened stays open.
BuildFails(c) ==
  /\ pc[c] \in {"pool", "tables"}
  /\ Finish(c, "500")
  /\ UNCHANGED <<vlas, process, history, repo, holds>>

Acquire(c) ==
  /\ pc[c] = "acquire"
  /\ Cardinality({d \in holds : repo[d] = repo[c]}) < MaxConnections
  /\ holds' = holds \cup {c}
  /\ Goto(c, "statement")
  /\ UNCHANGED <<vlas, process, history, repo, answer>>

\* Mutant: the connection is not given back.
ReleaseNot(c) == UNCHANGED holds

\* The connection goes back as the block is left, whatever happened.
Release(c) == holds' = holds \ {c}

Effect(c) ==
  vlas' = IF request[c].op = "create" THEN vlas \cup {c}
          ELSE IF request[c].op = "removeAll" THEN {}
          ELSE vlas

Status(c) ==
  IF request[c].op = "create" THEN "201"
  ELSE IF request[c].op = "removeAll" THEN "204"
  ELSE IF request[c].op = "get" /\ request[c].id \notin vlas THEN "404"
  ELSE "200"

Statement(c) ==
  /\ pc[c] = "statement"
  /\ Effect(c)
  /\ Release(c)
  /\ Finish(c, Status(c))
  /\ UNCHANGED <<process, history, repo>>

\* It raises, or its answer is lost after the commit.
StatementFails(c) ==
  /\ pc[c] = "statement"
  /\ Effect(c) \/ UNCHANGED vlas
  /\ Release(c)
  /\ Finish(c, "500")
  /\ UNCHANGED <<process, history, repo>>

\* get_repo and the method of FakeVLARepo, or what does as they do.
InMemory(c) ==
  /\ pc[c] = "getRepo" /\ ~Durable(c)
  /\ IF global[KindOf(c)] = NoRepo THEN Publish(c) ELSE UNCHANGED global
  /\ repo' = [repo EXCEPT ![c] = global'[KindOf(c)]]
  /\ Effect(c)
  /\ Finish(c, Status(c))
  /\ UNCHANGED <<pools, ready, history, holds>>

\* Mutant: what was stored dies with the process, database or not.
SurvivingNot(s) == {}

Surviving(s) == IF s = "vcManager" \/ s \in durable THEN vlas ELSE {}

\* The process of a service dies, with its globals and pools; a database stays.
Crash(s) ==
  LET Lost == {c \in Call : At(c, s) /\ pc[c] \in Running}
      Here == {c \in Call : At(c, s)}
  IN  /\ Lost # {}
      /\ pc' = [c \in Call |-> IF c \in Lost THEN "lost" ELSE pc[c]]
      /\ vlas' = Surviving(s)
      /\ global' = [k \in Kind |-> IF k \in KindsOf(s) THEN NoRepo ELSE global[k]]
      /\ pools' = pools \ Here /\ ready' = ready \ Here /\ holds' = holds \ Here
      /\ UNCHANGED <<history, repo, answer>>

Handler(c) ==
  \/ Authorize(c)
  \/ GetRepo(c)
  \/ CreatePool(c)
  \/ EnsureTables(c)
  \/ BuildFails(c)
  \/ Acquire(c)
  \/ Statement(c)
  \/ StatementFails(c)
  \/ InMemory(c)

Next ==
  \/ \E c \in Call : Arrive(c) \/ Handler(c)
  \/ \E s \in Service : Crash(s)

Spec == Init /\ [][Next]_vars

\* The event loop resumes what is ready; a statement returns or raises; those
\* who wait for a connection are served first come, first served.
FairSpec == Spec /\ \A c \in Call : WF_vars(Handler(c))
=============================================================================
