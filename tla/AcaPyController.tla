--------------------------- MODULE AcaPyController ---------------------------
(***************************************************************************)
(* The controller of the legacy ACA-Py agent (dva-acapy-controller):       *)
(* self-initialisation, issuing of AoV credentials and presentation        *)
(* requests.  Its handlers call the agent with the blocking requests       *)
(* library, so the event loop stands still while they do; only             *)
(* generate_aov awaits, for the update of request_logs, after it has       *)
(* issued.  The connection and the credential definition that              *)
(* init_all_self obtains are two globals, set at two different steps.      *)
(***************************************************************************)
EXTENDS Naturals, FiniteSets

CONSTANTS
  Call,        \* requests to the controller
  Row,         \* request ids with a row in request_logs
  Unknown,     \* a request id without a row
  MaxRun,      \* bound on the runs of init_all_self
  Startup,     \* the lifespan handler, which runs it first
  FileCredDef, \* the credential definition named in cred_def.txt
  None

ASSUME ControllerAssumption ==
  /\ MaxRun \in Nat
  /\ Startup \notin Call
  /\ None \notin Call \cup {Startup} \cup Nat
  /\ FileCredDef \notin Nat
  /\ Unknown \notin Row

VARIABLES
  conns,    \* connection records of the agent; whether a handshake has been
            \* completed shows when the agent is asked
  selfConn, \* SELF_CONNECTION_ID
  credDef,  \* SELF_CRED_DEF_ID, named by the run that created it
  peerFile, \* whether somebody placed a cred_def.txt: the controller does not
  creds,    \* credentials that the agent issued
  rows,     \* rows[r]: vc_id in request_logs, named by the call
  request,  \* request[c]: what c asks for, once it has arrived
  pc,       \* pc[h]: the step handler h is at
  begun,    \* runs of init_all_self so far, the last maybe under way
  failed,   \* runs that ended with an error or with their process
  busy,     \* the handler that occupies the event loop
  answer    \* answer[c]: how c was answered

globals == <<selfConn, credDef>>
control == <<pc, busy, answer>>
runs    == <<begun, failed>>
vars == <<conns, globals, peerFile, creds, rows, request, runs, control>>

Handlers == Call \cup {Startup}
Run == 1..MaxRun

\* An invitation and its receipt make a record on either side: both are the
\* agent's own when it invites itself.  A peer's record stems from the call
\* that invited the peer, or from the peer.
SelfConn == [of : Run, side : {"inviter", "invitee"}]
PeerConn == [of : Call \cup {None}, side : {"peer"}]

\* The label of an attester is compared in lower case with the label asked
\* for, which a client may spell otherwise.
Request == [op : {"init"}]
             \cup [op : {"generate"}, target : {"self", "peer", "other"},
                   row : Row \cup {Unknown}]
             \cup [op : {"present"}, label : {"peer", "Peer"}]

\* What a call is answered with; the status of "error" is 200, too.
Result == {"200", "400", "500", "error"}

ASSUME NoneAssumption == None \notin Request \cup SelfConn \cup Result

Init ==
  /\ conns = {}
  /\ selfConn = None
  /\ credDef = None
  /\ peerFile \in BOOLEAN
  /\ creds = {}
  /\ rows = [r \in Row |-> None]
  /\ request = [c \in Call |-> None]
  /\ pc = [h \in Handlers |-> IF h = Startup THEN "queued" ELSE "idle"]
  /\ begun = 0
  /\ failed = {}
  /\ busy = None
  /\ answer = [c \in Call |-> None]

\* Mutant: the handler polls until the connection is active.
InitStepsButAwait == {"receive", "credDef", "offer"}

\* Where init_all_self may end early.
InitSteps == {"receive", "await", "credDef", "offer"}

Initializes(h) == h = Startup \/ (h \in Call /\ request[h].op = "init")

QueuedInits == {c \in Call : pc[c] = "queued" /\ Initializes(c)}

\* Requests are served once the lifespan handler has yielded.  Bound: an init
\* call arrives only if there is a run left for it.
Arrive(c) ==
  /\ pc[Startup] = "done"
  /\ pc[c] = "idle"
  /\ \E r \in Request :
       /\ r.op = "init" => begun + Cardinality(QueuedInits) < MaxRun
       /\ request' = [request EXCEPT ![c] = r]
  /\ pc' = [pc EXCEPT ![c] = "queued"]
  /\ UNCHANGED <<conns, globals, peerFile, creds, rows, runs, busy, answer>>

\* The loop is free to begin with h.
Ready(h) ==
  /\ pc[h] = "queued"
  /\ busy = None

Occupy(h, step) ==
  /\ busy' = h
  /\ pc' = [pc EXCEPT ![h] = step]
  /\ UNCHANGED <<peerFile, request, creds, rows, failed, answer>>

Finish(h, result) ==
  /\ busy' = None
  /\ pc' = [pc EXCEPT ![h] = "done"]
  /\ answer' = IF h \in Call THEN [answer EXCEPT ![h] = result] ELSE answer
  /\ UNCHANGED <<peerFile, request, globals, begun>>

-----------------------------------------------------------------------------
(* init_all_self *)

Inviter == [of |-> begun, side |-> "inviter"]
Invitee == [of |-> begun, side |-> "invitee"]

\* Step 1, which creates the inviter's record.
Invite(h) ==
  /\ Ready(h)
  /\ Initializes(h)
  /\ begun < MaxRun
  /\ begun' = begun + 1
  /\ conns' = conns \cup {Inviter'}
  /\ Occupy(h, "receive")
  /\ UNCHANGED globals

\* Step 2.
Receive(h) ==
  /\ pc[h] = "receive"
  /\ conns' = conns \cup {Invitee}
  /\ Occupy(h, "await")
  /\ UNCHANGED <<globals, begun>>

\* Step 3: a poll finds the connection active.
Activated(h) ==
  /\ pc[h] = "await"
  /\ selfConn' = Invitee
  /\ Occupy(h, "credDef")
  /\ UNCHANGED <<conns, credDef, begun>>

\* Steps 4 and 5.
CreateCredDef(h) ==
  /\ pc[h] = "credDef"
  /\ credDef' = begun
  /\ Occupy(h, "offer")
  /\ UNCHANGED <<conns, selfConn, begun>>

\* Step 6.
Offer(h) ==
  /\ pc[h] = "offer"
  /\ Finish(h, "200")
  /\ UNCHANGED <<conns, creds, rows, failed>>

\* The agent refuses a step, or the connection is not active at any poll: the
\* handler returns an error with status 200, which the lifespan handler
\* ignores.  Or the agent's answer is lost: a 500, or the end of the process
\* when it starts (Crash).  What the earlier steps set stays.
InitFails(h) ==
  /\ \/ Ready(h) /\ Initializes(h) /\ UNCHANGED <<conns, failed>>
     \/ /\ pc[h] \in InitSteps
        /\ failed' = failed \cup {begun}
        /\ \/ UNCHANGED conns
           \/ h # Startup /\ pc[h] = "receive" /\ conns' = conns \cup {Invitee}
  /\ Finish(h, "error")
  /\ UNCHANGED <<creds, rows>>

-----------------------------------------------------------------------------
(* generate_aov *)

Generates(c) == request[c] # None /\ request[c].op = "generate"

\* Mutant: nobody looks whether the globals are set.
PairsUnchecked(c) ==
  IF request[c].target = "self"
    THEN {[conn |-> selfConn, credDef |-> credDef]}
    ELSE {}

\* Connection and credential definition to issue with: the globals for itself,
\* the record of any other connection and the file for the peer.
Pairs(c) ==
  CASE request[c].target = "self" ->
         [conn : {selfConn} \ {None}, credDef : {credDef} \ {None}]
    [] request[c].target = "peer" ->
         [conn : conns \ {selfConn}, credDef : {d \in {FileCredDef} : peerFile}]
    [] request[c].target = "other" -> {}

\* Mutant: the handler runs in a thread, while init_all_self may be under way.
BeginsThreaded(c) == pc[c] = "queued" /\ Generates(c)

Begins(c) == Ready(c) /\ Generates(c)

\* Nothing to issue with; without the file, it is the server's fault.
Refuse(c) ==
  /\ Begins(c)
  /\ Pairs(c) = {}
  /\ Finish(c, IF request[c].target = "peer" /\ conns \ {selfConn} # {}
                 THEN "500" ELSE "400")
  /\ UNCHANGED <<conns, creds, rows, failed>>

CredentialFor(c, x) == [call |-> c, conn |-> x.conn, credDef |-> x.credDef]

\* The agent issues; then the handler awaits the database and leaves the loop
\* to others.
Issue(c) ==
  /\ Begins(c)
  /\ \E x \in Pairs(c) : creds' = creds \cup {CredentialFor(c, x)}
  /\ pc' = [pc EXCEPT ![c] = "update"]
  /\ UNCHANGED <<conns, globals, peerFile, rows, request, runs, busy, answer>>

\* The agent refuses ("error", with status 200), or does not answer, having
\* issued or not, or not even its connections (500).
IssueFails(c) ==
  /\ Begins(c)
  /\ \/ Pairs(c) # {} /\ Finish(c, "error") /\ UNCHANGED creds
     \/ /\ Pairs(c) # {} \/ request[c].target = "peer"
        /\ Finish(c, "500") /\ UNCHANGED creds
     \/ /\ Finish(c, "500")
        /\ \E x \in Pairs(c) : creds' = creds \cup {CredentialFor(c, x)}
  /\ UNCHANGED <<conns, rows, failed>>

\* Mutant: the WHERE clause is missing.
SetEveryVcId(c) == rows' = [r \in Row |-> c]

SetVcId(c) ==
  rows' = [r \in Row |-> IF r = request[c].row THEN c ELSE rows[r]]

Awaits(c) == pc[c] = "update" /\ busy = None

\* An update of no row is only printed.
Update(c) ==
  /\ Awaits(c)
  /\ SetVcId(c)
  /\ Finish(c, "200")
  /\ UNCHANGED <<conns, creds, failed>>

UpdateFails(c) ==
  /\ Awaits(c)
  /\ SetVcId(c) \/ UNCHANGED rows
  /\ Finish(c, "500")
  /\ UNCHANGED <<conns, creds, failed>>

-----------------------------------------------------------------------------
(* request_presentation_from_peer *)

\* The invitation is created and handed to the agent of the attester.
InviteAttester(c) ==
  /\ Ready(c)
  /\ request[c].op = "present"
  /\ conns' = conns \cup {[of |-> c, side |-> "peer"]}
  /\ Occupy(c, "attester")
  /\ UNCHANGED <<globals, begun>>

\* A poll finds an active connection with the label asked for, be it the one
\* of this call or an older one.
Ask(c) ==
  /\ pc[c] = "attester"
  /\ request[c].label = "peer"
  /\ Finish(c, "200")
  /\ UNCHANGED <<conns, creds, rows, failed>>

\* An invitation is not taken, though it may have left a record; no poll finds
\* the connection; or the agent does not take the request.
PresentFails(c) ==
  /\ \/ /\ Ready(c) /\ request[c].op = "present"
        /\ conns' \in {conns, conns \cup {[of |-> c, side |-> "peer"]}}
     \/ /\ pc[c] = "attester"
        /\ UNCHANGED conns
  /\ Finish(c, "500")
  /\ UNCHANGED <<creds, rows, failed>>

-----------------------------------------------------------------------------
\* The peer's controller asks this agent for a presentation.
PeerConnects ==
  /\ conns' = conns \cup {[of |-> None, side |-> "peer"]}
  /\ conns' # conns
  /\ UNCHANGED <<globals, peerFile, creds, rows, request, runs, control>>

\* The process dies with its globals; agent, database and files stay.  Bound:
\* a run is left for the startup.
Crash ==
  /\ begun < MaxRun
  /\ selfConn' = None
  /\ credDef' = None
  /\ pc' = [h \in Handlers |->
              CASE h = Startup                            -> "queued"
                [] h # Startup /\ pc[h] \in {"idle", "done"} -> pc[h]
                [] OTHER                                  -> "lost"]
  /\ failed' = failed \cup {e \in {begun} : \E h \in Handlers : pc[h] \in InitSteps}
  /\ busy' = None
  /\ UNCHANGED <<conns, peerFile, creds, rows, request, begun, answer>>

\* The steps of init_all_self that its own process brings about.
Initialize(h) ==
  Invite(h) \/ Receive(h) \/ CreateCredDef(h) \/ Offer(h) \/ InitFails(h)

Generate(c) ==
  Refuse(c) \/ Issue(c) \/ IssueFails(c) \/ Update(c) \/ UpdateFails(c)

Present(c) == InviteAttester(c) \/ Ask(c) \/ PresentFails(c)

Handle(c) == Initialize(c) \/ Generate(c) \/ Present(c)

Next ==
  \/ Initialize(Startup)
  \/ \E h \in Handlers : Activated(h)
  \/ \E c \in Call : Arrive(c) \/ Handle(c)
  \/ PeerConnects
  \/ Crash

Spec == Init /\ [][Next]_vars

\* Every request to the agent or the database returns or raises, which the
\* controller takes for granted: it sets no timeout on them.  The loop resumes
\* what is ready.  A connection need never become active.
FairSpec ==
  /\ Spec
  /\ WF_vars(Initialize(Startup))
  /\ \A c \in Call : WF_vars(Handle(c))

TypeOK ==
  /\ conns \in SUBSET (SelfConn \cup PeerConn)
  /\ selfConn \in SelfConn \cup {None}
  /\ credDef \in Run \cup {None}
  /\ peerFile \in BOOLEAN
  /\ creds \in SUBSET [call : Call, conn : SelfConn \cup PeerConn,
                       credDef : Run \cup {FileCredDef}]
  /\ rows \in [Row -> Call \cup {None}]
  /\ request \in [Call -> Request \cup {None}]
  /\ pc \in [Handlers -> InitSteps \cup {"idle", "queued", "update", "attester",
                                        "done", "lost"}]
  /\ begun \in 0..MaxRun
  /\ failed \in SUBSET (1..begun)
  /\ busy \in Handlers \cup {None}
  /\ answer \in [Call -> Result \cup {None}]
=============================================================================
