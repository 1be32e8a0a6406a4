---------------------------- MODULE Attestation ----------------------------
(***************************************************************************)
(* The synchronous attestation flow of dva-api (route/aovRoutes.kt): every *)
(* POST /attestation is a coroutine that resolves its VLA, has it          *)
(* evaluated, has the credential issued, writes the audit row and answers. *)
(* Coroutines interleave at each outgoing call; the VC manager may sign a  *)
(* credential whose answer never arrives, the audit transaction may fail   *)
(* on either side of its commit, and the gateway process may die.          *)
(*                                                                         *)
(* A call draws one request id and one vcId (UUIDs, taken to be unique),   *)
(* so the call itself names its row and its credential.  A retry by the    *)
(* connector is another call.                                              *)
(***************************************************************************)
CONSTANTS
  Request,        \* calls of POST /attestation
  VLA,            \* ids of VLAs that exist or existed at the VLA manager
  Requirement,    \* quality requirements
  Payload,        \* JSON values that are exchanged
  ObjectPayload,  \* those of them that are JSON objects
  EmptyObject,    \* the JSON object {}
  Content,        \* Content[v]: the requirements of the document of VLA v
  Meets           \* Meets[q]: the payloads that satisfy requirement q

ASSUME ContentAssumption == Content \in [VLA -> SUBSET Requirement]
ASSUME MeetsAssumption   == Meets \in [Requirement -> SUBSET Payload]
ASSUME PayloadAssumption == /\ ObjectPayload \subseteq Payload
                            /\ EmptyObject \in ObjectPayload

VARIABLES
  pc,        \* pc[r]: the step the coroutine of call r is at
  call,      \* call[r]: the body of call r, once received
  vlas,      \* VLAs stored at the VLA manager
  doc,       \* doc[r]: the requirements of the VLA that r resolved
  verdict,   \* verdict[r]: allSuccess, once evaluated
  inflight,  \* calls whose POST /aov/issue the VC manager has not handled
  reply,     \* reply[r]: the VC manager's answer to r
  signed,    \* credentials that exist
  auditLog,  \* rows of request_logs
  response   \* response[r]: what the client of call r was told

flowVars  == <<pc, response>>
issueVars == <<inflight, reply, signed>>
vars == <<pc, call, vlas, doc, verdict, inflight, reply, signed, auditLog,
          response>>

Running == {"resolve", "evaluate", "contract", "issue", "waitIssue", "audit",
            "respond"}
Errors  == {"400", "404", "500", "502", "relayed"}

\* How a call names its VLA: by id, embedded in the contract, by an id that
\* is no UUID, embedded but not an object; "badContract" embeds a VLA in a
\* contract whose other members have the wrong JSON type.
Ref == {"byId", "inline", "badId", "badInline", "badContract"}

Call == [ref : Ref, vla : VLA, payload : Payload]

\* The data sent to /evaluate-batch.
Evaluated(p) == IF p \in ObjectPayload THEN p ELSE EmptyObject

Earned(r) ==
  /\ doc[r] # {}
  /\ \A q \in doc[r] : Evaluated(call[r].payload) \in Meets[q]

\* Mutant: results.all without results.isNotEmpty.
VacuousSuccess(qs, success) == \A q \in qs : success[q]

AllSuccess(qs, success) == qs # {} /\ \A q \in qs : success[q]

Row(r) == [req |-> r, evaluation |-> verdict[r]]

CredentialOf(r) == [req |-> r, payload |-> call[r].payload]

HasCredential(r) == \E c \in signed : c.req = r
HasRow(r)        == \E row \in auditLog : row.req = r

-----------------------------------------------------------------------------
Goto(r, step) == pc' = [pc EXCEPT ![r] = step]

\* call.respond(status) followed by return@post.
Respond(r, status) ==
  /\ Goto(r, "done")
  /\ response' = [response EXCEPT ![r] = status]

Init ==
  /\ pc = [r \in Request |-> "idle"]
  /\ call \in [Request -> Call]
  /\ vlas \in SUBSET VLA
  /\ doc = [r \in Request |-> {}]
  /\ verdict = [r \in Request |-> "none"]
  /\ inflight = {}
  /\ reply = [r \in Request |-> "none"]
  /\ signed = {}
  /\ auditLog = {}
  /\ response = [r \in Request |-> "none"]

Receive(r) ==
  /\ pc[r] = "idle"
  /\ Goto(r, "resolve")
  /\ UNCHANGED <<call, vlas, doc, verdict, issueVars, auditLog, response>>

\* Uuid.parse throws: 400.  contract["vla"]?.jsonObject throws: StatusPages.
RejectCall(r) ==
  /\ pc[r] = "resolve"
  /\ \/ call[r].ref = "badId" /\ Respond(r, "400")
     \/ call[r].ref = "badInline" /\ Respond(r, "500")
  /\ UNCHANGED <<call, vlas, doc, verdict, issueVars, auditLog>>

Resolved(r) ==
  /\ doc' = [doc EXCEPT ![r] = Content[call[r].vla]]
  /\ Goto(r, "evaluate")
  /\ UNCHANGED <<call, vlas, verdict, issueVars, auditLog, response>>

ResolveInline(r) ==
  /\ pc[r] = "resolve"
  /\ call[r].ref \in {"inline", "badContract"}
  /\ Resolved(r)

LookupFound(r) ==
  /\ pc[r] = "resolve"
  /\ call[r].ref = "byId"
  /\ call[r].vla \in vlas
  /\ Resolved(r)

LookupMissing(r) ==
  /\ pc[r] = "resolve"
  /\ call[r].ref = "byId"
  /\ call[r].vla \notin vlas
  /\ Respond(r, "404")
  /\ UNCHANGED <<call, vlas, doc, verdict, issueVars, auditLog>>

LookupUnreachable(r) ==
  /\ pc[r] = "resolve"
  /\ call[r].ref = "byId"
  /\ Respond(r, "502")
  /\ UNCHANGED <<call, vlas, doc, verdict, issueVars, auditLog>>

\* /evaluate-batch answers one result per requirement; an engine that throws
\* counts as a failed result, so a result may be negative without a cause in
\* the data but is never positive without one.
Evaluate(r) ==
  /\ pc[r] = "evaluate"
  /\ \E success \in [doc[r] -> BOOLEAN] :
       /\ \A q \in doc[r] :
            success[q] => Evaluated(call[r].payload) \in Meets[q]
       /\ verdict' = [verdict EXCEPT ![r] =
            IF AllSuccess(doc[r], success) THEN "pass" ELSE "fail"]
  /\ Goto(r, "contract")
  /\ UNCHANGED <<call, vlas, doc, issueVars, auditLog, response>>

EvaluateUnreachable(r) ==
  /\ pc[r] = "evaluate"
  /\ Respond(r, "502")
  /\ UNCHANGED <<call, vlas, doc, verdict, issueVars, auditLog>>

\* Mutant: the branch on allSuccess is forgotten.
ReadContractAlwaysIssue(r) ==
  /\ pc[r] = "contract"
  /\ Goto(r, "issue")
  /\ UNCHANGED <<call, vlas, doc, verdict, issueVars, auditLog, response>>

\* Reads contract id and data provider, then branches on allSuccess.
ReadContract(r) ==
  /\ pc[r] = "contract"
  /\ \/ call[r].ref = "badContract" /\ Respond(r, "500")
     \/ /\ call[r].ref # "badContract"
        /\ Goto(r, IF verdict[r] = "pass" THEN "issue" ELSE "audit")
        /\ UNCHANGED response
  /\ UNCHANGED <<call, vlas, doc, verdict, issueVars, auditLog>>

SendIssue(r) ==
  /\ pc[r] = "issue"
  /\ Goto(r, "waitIssue")
  /\ inflight' = inflight \cup {r}
  /\ UNCHANGED <<call, vlas, doc, verdict, reply, signed, auditLog, response>>

\* Mutant: the audit row is left to a later job.
ReceiveJwsUnaudited(r) ==
  /\ pc[r] = "waitIssue"
  /\ reply[r] = "jws"
  /\ Goto(r, "respond")
  /\ UNCHANGED <<call, vlas, doc, verdict, issueVars, auditLog, response>>

ReceiveJws(r) ==
  /\ pc[r] = "waitIssue"
  /\ reply[r] = "jws"
  /\ Goto(r, "audit")
  /\ UNCHANGED <<call, vlas, doc, verdict, issueVars, auditLog, response>>

\* Mutant: a text of the VC manager takes the place of the status.
ReceiveRejectionRaw(r) ==
  /\ pc[r] = "waitIssue"
  /\ reply[r] = "rejected"
  /\ Respond(r, reply[r])
  /\ UNCHANGED <<call, vlas, doc, verdict, issueVars, auditLog>>

ReceiveRejection(r) ==
  /\ pc[r] = "waitIssue"
  /\ reply[r] = "rejected"
  /\ Respond(r, "relayed")
  /\ UNCHANGED <<call, vlas, doc, verdict, issueVars, auditLog>>

\* Mutants: the exception is swallowed; it leaves the handler; the call is
\* awaited without a timeout.
IssueUnreachableIgnored(r) ==
  /\ pc[r] = "waitIssue"
  /\ Goto(r, "audit")
  /\ UNCHANGED <<call, vlas, doc, verdict, issueVars, auditLog, response>>

IssueUnreachableUncaught(r) ==
  /\ pc[r] = "waitIssue"
  /\ Respond(r, "500")
  /\ UNCHANGED <<call, vlas, doc, verdict, issueVars, auditLog>>

IssueUnreachableNoTimeout(r) ==
  /\ pc[r] = "waitIssue"
  /\ r \notin inflight
  /\ Respond(r, "502")
  /\ UNCHANGED <<call, vlas, doc, verdict, issueVars, auditLog>>

\* Connection refused or reset, request timeout, unreadable answer: possible
\* at any time, also when the VC manager has signed or is about to.
IssueUnreachable(r) ==
  /\ pc[r] = "waitIssue"
  /\ Respond(r, "502")
  /\ UNCHANGED <<call, vlas, doc, verdict, issueVars, auditLog>>

Audit(r) ==
  /\ pc[r] = "audit"
  /\ auditLog' = auditLog \cup {Row(r)}
  /\ Goto(r, "respond")
  /\ UNCHANGED <<call, vlas, doc, verdict, issueVars, response>>

\* Mutant: a failing audit is logged and passed over.
AuditFailureIgnored(r) ==
  /\ pc[r] = "audit"
  /\ Goto(r, "respond")
  /\ UNCHANGED <<call, vlas, doc, verdict, issueVars, auditLog, response>>

\* The exception leaves the handler; StatusPages answers 500.  The commit may
\* have happened all the same.
AuditFails(r) ==
  /\ pc[r] = "audit"
  /\ auditLog' \in {auditLog, auditLog \cup {Row(r)}}
  /\ Respond(r, "500")
  /\ UNCHANGED <<call, vlas, doc, verdict, issueVars>>

Reply200(r) ==
  /\ pc[r] = "respond"
  /\ Respond(r, "aov")
  /\ UNCHANGED <<call, vlas, doc, verdict, issueVars, auditLog>>

-----------------------------------------------------------------------------
\* The VC manager handles a call it has received, whether or not the gateway
\* still waits: aov_issue signs every well-formed request.
Sign(r) ==
  /\ r \in inflight
  /\ inflight' = inflight \ {r}
  /\ signed' = signed \cup {CredentialOf(r)}
  /\ reply' = [reply EXCEPT ![r] = "jws"]
  /\ UNCHANGED <<flowVars, call, vlas, doc, verdict, auditLog>>

\* The key store raised, or the body was refused: no credential.
RefuseToSign(r) ==
  /\ r \in inflight
  /\ inflight' = inflight \ {r}
  /\ reply' = [reply EXCEPT ![r] = "rejected"]
  /\ UNCHANGED <<flowVars, call, vlas, doc, verdict, signed, auditLog>>

\* The call never reaches the VC manager, or the VC manager dies with it.
LoseIssueCall(r) ==
  /\ r \in inflight
  /\ inflight' = inflight \ {r}
  /\ UNCHANGED <<flowVars, call, vlas, doc, verdict, reply, signed, auditLog>>

\* POST /vla and DELETE /vla at the VLA manager.
StoreVLA(v) ==
  /\ v \notin vlas
  /\ vlas' = vlas \cup {v}
  /\ UNCHANGED <<flowVars, call, doc, verdict, issueVars, auditLog>>

DeleteVLAs ==
  /\ vlas # {}
  /\ vlas' = {}
  /\ UNCHANGED <<flowVars, call, doc, verdict, issueVars, auditLog>>

\* The gateway dies: its coroutines and their connections are gone, the
\* database, the VC manager and the calls it already received are not.
Crash ==
  /\ \E r \in Request : pc[r] \in Running
  /\ pc' = [r \in Request |-> IF pc[r] \in Running THEN "lost" ELSE pc[r]]
  /\ UNCHANGED <<call, vlas, doc, verdict, issueVars, auditLog, response>>

-----------------------------------------------------------------------------
Handler(r) ==
  \/ RejectCall(r)
  \/ ResolveInline(r)
  \/ LookupFound(r)
  \/ LookupMissing(r)
  \/ LookupUnreachable(r)
  \/ Evaluate(r)
  \/ EvaluateUnreachable(r)
  \/ ReadContract(r)
  \/ SendIssue(r)
  \/ ReceiveJws(r)
  \/ ReceiveRejection(r)
  \/ IssueUnreachable(r)
  \/ Audit(r)
  \/ AuditFails(r)
  \/ Reply200(r)

Environment ==
  \/ \E r \in Request :
       Receive(r) \/ Sign(r) \/ RefuseToSign(r) \/ LoseIssueCall(r)
  \/ \E v \in VLA : StoreVLA(v)
  \/ DeleteVLAs
  \/ Crash

Next == (\E r \in Request : Handler(r)) \/ Environment

Spec == Init /\ [][Next]_vars

\* Every coroutine that can take a step takes one: the dispatcher schedules
\* it, and each outgoing call ends, at the latest by the client's timeout.
\* Nothing is assumed of the client, of the other services or of crashes.
FairSpec == Spec /\ \A r \in Request : WF_vars(Handler(r))

-----------------------------------------------------------------------------
TypeOK ==
  /\ pc \in [Request -> Running \cup {"idle", "done", "lost"}]
  /\ call \in [Request -> Call]
  /\ vlas \in SUBSET VLA
  /\ doc \in [Request -> SUBSET Requirement]
  /\ verdict \in [Request -> {"none", "pass", "fail"}]
  /\ inflight \in SUBSET Request
  /\ reply \in [Request -> {"none", "jws", "rejected"}]
  /\ signed \in SUBSET [req : Request, payload : Payload]
  /\ auditLog \in SUBSET [req : Request, evaluation : {"none", "pass", "fail"}]
  /\ response \in [Request -> Errors \cup {"none", "aov"}]
=============================================================================
