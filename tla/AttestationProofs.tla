------------------------- MODULE AttestationProofs -------------------------
(***************************************************************************)
(* The safety of the attestation flow, and that it implements the abstract *)
(* ledger, for any number of calls, VLAs, requirements and payloads.       *)
(***************************************************************************)
EXTENDS AttestationProps, TLAPS

-----------------------------------------------------------------------------
(* The inductive invariant, in parts.  The safety properties relate final  *)
(* outcomes; what makes them inductive is where the coroutine stands: what *)
(* cannot have happened yet (NothingBefore...), and that the VC manager's  *)
(* reply tells exactly whether a credential exists.                        *)

BeforeVerdict == {"idle", "resolve", "evaluate"}
BeforeIssue   == BeforeVerdict \cup {"contract", "issue"}
BeforeRow     == BeforeIssue \cup {"waitIssue", "audit"}

VerdictInv ==
  \A r \in Request :
    /\ pc[r] \in BeforeVerdict => verdict[r] = "none"
    /\ verdict[r] = "pass" => Earned(r)
    /\ pc[r] \in {"issue", "waitIssue"} => verdict[r] = "pass"
    /\ pc[r] \in {"contract", "audit", "respond"} => verdict[r] # "none"

IssueInv ==
  \A r \in Request :
    /\ pc[r] \in BeforeIssue => r \notin inflight /\ reply[r] = "none"
    /\ r \in inflight =>
         /\ verdict[r] = "pass"
         /\ reply[r] = "none"
         /\ pc[r] \in {"waitIssue", "done", "lost"}
         /\ pc[r] = "done" => response[r] = "502"
    /\ reply[r] = "jws" <=> CredentialOf(r) \in signed
    /\ reply[r] = "jws" => verdict[r] = "pass"
    /\ (pc[r] = "audit" /\ verdict[r] = "pass") => reply[r] = "jws"

SignedInv == \A c \in signed : c = CredentialOf(c.req)

AuditInv ==
  /\ \A row \in auditLog :
       /\ row = Row(row.req)
       /\ row.evaluation = "pass" => reply[row.req] = "jws"
       /\ pc[row.req] \notin BeforeRow
  /\ \A r \in Request :
       (pc[r] = "respond" \/ response[r] = "aov") => Row(r) \in auditLog

ResponseInv ==
  \A r \in Request :
    /\ response[r] # "none" <=> pc[r] = "done"
    /\ response[r] \in {"400", "404", "relayed"} =>
         reply[r] # "jws" /\ Row(r) \notin auditLog
    /\ (reply[r] = "jws" /\ Row(r) \notin auditLog) =>
         \/ pc[r] \in {"waitIssue", "audit", "lost"}
         \/ response[r] \in {"502", "500"}
    /\ response[r] = "aov" /\ verdict[r] = "pass" => reply[r] = "jws"
    /\ pc[r] = "respond" /\ verdict[r] = "pass" => reply[r] = "jws"
    /\ response[r] = "aov" => verdict[r] # "none"

IInv ==
  /\ TypeOK
  /\ VerdictInv
  /\ IssueInv
  /\ SignedInv
  /\ AuditInv
  /\ ResponseInv

-----------------------------------------------------------------------------
(* Type correctness: every variable keeps its type (the handler of         *)
(* aovRoutes.kt only ever reaches the steps and statuses listed here).     *)
LEMMA TypeStep == TypeOK /\ [Next]_vars => TypeOK'
<1> SUFFICES ASSUME TypeOK, [Next]_vars PROVE TypeOK'
  OBVIOUS
<1> USE DEF TypeOK, flowVars, issueVars, Running, Errors
<1>1. ASSUME NEW r \in Request, RejectCall(r) PROVE TypeOK'
  BY <1>1 DEF RejectCall, Respond, Goto
<1>2. ASSUME NEW r \in Request, ResolveInline(r) PROVE TypeOK'
  BY <1>2, ContentAssumption DEF ResolveInline, Resolved, Goto, Call
<1>3. ASSUME NEW r \in Request, LookupFound(r) PROVE TypeOK'
  BY <1>3, ContentAssumption DEF LookupFound, Resolved, Goto, Call
<1>4. ASSUME NEW r \in Request, LookupMissing(r) PROVE TypeOK'
  BY <1>4 DEF LookupMissing, Respond, Goto
<1>5. ASSUME NEW r \in Request, LookupUnreachable(r) PROVE TypeOK'
  BY <1>5 DEF LookupUnreachable, Respond, Goto
<1>6. ASSUME NEW r \in Request, Evaluate(r) PROVE TypeOK'
  BY <1>6 DEF Evaluate, AllSuccess, Goto
<1>7. ASSUME NEW r \in Request, EvaluateUnreachable(r) PROVE TypeOK'
  BY <1>7 DEF EvaluateUnreachable, Respond, Goto
<1>8. ASSUME NEW r \in Request, ReadContract(r) PROVE TypeOK'
  BY <1>8 DEF ReadContract, Respond, Goto
<1>9. ASSUME NEW r \in Request, SendIssue(r) PROVE TypeOK'
  BY <1>9 DEF SendIssue, Goto
<1>10. ASSUME NEW r \in Request, ReceiveJws(r) PROVE TypeOK'
  BY <1>10 DEF ReceiveJws, Goto
<1>11. ASSUME NEW r \in Request, ReceiveRejection(r) PROVE TypeOK'
  BY <1>11 DEF ReceiveRejection, Respond, Goto
<1>12. ASSUME NEW r \in Request, IssueUnreachable(r) PROVE TypeOK'
  BY <1>12 DEF IssueUnreachable, Respond, Goto
<1>13. ASSUME NEW r \in Request, Audit(r) PROVE TypeOK'
  BY <1>13 DEF Audit, Goto, Row
<1>14. ASSUME NEW r \in Request, AuditFails(r) PROVE TypeOK'
  BY <1>14 DEF AuditFails, Respond, Goto, Row
<1>15. ASSUME NEW r \in Request, Reply200(r) PROVE TypeOK'
  BY <1>15 DEF Reply200, Respond, Goto
<1>16. ASSUME NEW r \in Request, Receive(r) PROVE TypeOK'
  BY <1>16 DEF Receive, Goto
<1>17. ASSUME NEW r \in Request, Sign(r) PROVE TypeOK'
  BY <1>17 DEF Sign, Goto, CredentialOf, Call
<1>18. ASSUME NEW r \in Request, RefuseToSign(r) PROVE TypeOK'
  BY <1>18 DEF RefuseToSign, Goto
<1>19. ASSUME NEW r \in Request, LoseIssueCall(r) PROVE TypeOK'
  BY <1>19 DEF LoseIssueCall, Goto
<1>20. ASSUME NEW v \in VLA, StoreVLA(v) PROVE TypeOK'
  BY <1>20 DEF StoreVLA
<1>21. ASSUME DeleteVLAs PROVE TypeOK'
  BY <1>21 DEF DeleteVLAs
<1>22. ASSUME Crash PROVE TypeOK'
  BY <1>22 DEF Crash
<1>23. CASE UNCHANGED vars
  BY <1>23 DEF vars
<1> QED
  BY <1>1, <1>2, <1>3, <1>4, <1>5, <1>6, <1>7, <1>8, <1>9, <1>10, <1>11,
     <1>12, <1>13, <1>14, <1>15, <1>16, <1>17, <1>18, <1>19, <1>20, <1>21,
     <1>22, <1>23
  DEF Next, Handler, Environment

\* Every reachable state of the flow has the declared types.
THEOREM TypeCorrect == Spec => []TypeOK
<1>1. Init => TypeOK
  BY DEF Init, TypeOK
<1>2. QED
  BY <1>1, TypeStep, PTL DEF Spec

\* Every step of every coroutine, of the services around it, and a crash
\* preserves the inductive invariant.
LEMMA InvStep == IInv /\ [Next]_vars => IInv'
<1> SUFFICES ASSUME IInv, [Next]_vars PROVE IInv'
  OBVIOUS
<1>1. TypeOK'
  BY TypeStep DEF IInv
<1> USE <1>1 DEF IInv, TypeOK, VerdictInv, IssueInv, SignedInv, AuditInv,
        ResponseInv, flowVars, issueVars, Running, Errors, BeforeVerdict,
        BeforeIssue, BeforeRow, Earned, CredentialOf, Row
<1>2. ASSUME NEW r \in Request, RejectCall(r) PROVE IInv'
  BY <1>2 DEF RejectCall, Respond, Goto
<1>3. ASSUME NEW r \in Request, ResolveInline(r) PROVE IInv'
  BY <1>3 DEF ResolveInline, Resolved, Goto
<1>4. ASSUME NEW r \in Request, LookupFound(r) PROVE IInv'
  BY <1>4 DEF LookupFound, Resolved, Goto
<1>5. ASSUME NEW r \in Request, LookupMissing(r) PROVE IInv'
  BY <1>5 DEF LookupMissing, Respond, Goto
<1>6. ASSUME NEW r \in Request, LookupUnreachable(r) PROVE IInv'
  BY <1>6 DEF LookupUnreachable, Respond, Goto
<1>7. ASSUME NEW r \in Request, Evaluate(r) PROVE IInv'
  <2>1. PICK v \in {"pass", "fail"} :
          /\ verdict' = [verdict EXCEPT ![r] = v]
          /\ v = "pass" => Earned(r)
    BY <1>7 DEF Evaluate, AllSuccess
  <2>2. pc[r] = "evaluate" /\ pc' = [pc EXCEPT ![r] = "contract"]
        /\ UNCHANGED <<call, vlas, doc, issueVars, auditLog, response>>
    BY <1>7 DEF Evaluate, AllSuccess, Goto
  <2>3. \A row \in auditLog : row.req # r /\ row.req \in Request
    BY <2>2
  <2>4. Row(r)' \notin auditLog
    BY <2>2, <2>3
  <2>5. VerdictInv'
    BY <2>1, <2>2
  <2>6. IssueInv'
    BY <2>1, <2>2
  <2>7. SignedInv'
    BY <2>2
  <2>8. AuditInv'
    <3>1. ASSUME NEW row \in auditLog PROVE row = Row(row.req)'
      BY <2>1, <2>2, <2>3
    <3>2. \A s \in Request : (pc'[s] = "respond" \/ response'[s] = "aov") =>
            s # r /\ Row(s)' = Row(s) /\ Row(s) \in auditLog
      BY <2>1, <2>2
    <3>3. \A row \in auditLog : /\ row.evaluation = "pass" => reply'[row.req] = "jws"
                                /\ pc'[row.req] \notin BeforeRow
      BY <2>2, <2>3
    <3> QED
      BY <2>2, <3>1, <3>2, <3>3
  <2>9. ResponseInv'
    <3>1. \A s \in Request : s # r => Row(s)' = Row(s)
      BY <2>1
    <3>2. response[r] = "none" /\ reply[r] = "none"
      BY <2>2
    <3> QED
      BY <2>1, <2>2, <2>4, <3>1, <3>2
  <2> QED
    BY <2>5, <2>6, <2>7, <2>8, <2>9
<1>8. ASSUME NEW r \in Request, EvaluateUnreachable(r) PROVE IInv'
  BY <1>8 DEF EvaluateUnreachable, Respond, Goto
<1>9. ASSUME NEW r \in Request, ReadContract(r) PROVE IInv'
  BY <1>9 DEF ReadContract, Respond, Goto
<1>10. ASSUME NEW r \in Request, SendIssue(r) PROVE IInv'
  BY <1>10 DEF SendIssue, Goto
<1>11. ASSUME NEW r \in Request, ReceiveJws(r) PROVE IInv'
  BY <1>11 DEF ReceiveJws, Goto
<1>12. ASSUME NEW r \in Request, ReceiveRejection(r) PROVE IInv'
  BY <1>12 DEF ReceiveRejection, Respond, Goto
<1>13. ASSUME NEW r \in Request, IssueUnreachable(r) PROVE IInv'
  BY <1>13 DEF IssueUnreachable, Respond, Goto
<1>14. ASSUME NEW r \in Request, Audit(r) PROVE IInv'
  <2>1. pc[r] = "audit" /\ pc' = [pc EXCEPT ![r] = "respond"]
        /\ auditLog' = auditLog \cup {Row(r)}
        /\ UNCHANGED <<call, vlas, doc, verdict, issueVars, response>>
    BY <1>14 DEF Audit, Goto
  <2>2. \A row \in auditLog : row.req # r
    BY <2>1
  <2>3. \A s \in Request : Row(s) = Row(s)' /\ Row(s).req = s
    BY <2>1
  <2>4. \A s \in Request : s # r => (Row(s) \in auditLog' <=> Row(s) \in auditLog)
    BY <2>1, <2>3
  <2>5. VerdictInv' /\ IssueInv' /\ SignedInv'
    BY <2>1
  <2>6. AuditInv'
    <3>1. ASSUME NEW row \in auditLog' PROVE row = Row(row.req)'
      BY <2>1, <2>3
    <3>2. verdict[r] = "pass" => reply[r] = "jws"
      BY <2>1
    <3> QED
      BY <2>1, <2>2, <2>3, <3>1, <3>2
  <2>7. ResponseInv'
    <3>1. response'[r] = "none" /\ pc'[r] = "respond"
          /\ (verdict[r] = "pass" => reply[r] = "jws")
      BY <2>1
    <3>2. Row(r)' \in auditLog'
      BY <2>1, <2>3
    <3>3. \A s \in Request : s # r =>
            /\ response'[s] = response[s] /\ pc'[s] = pc[s]
            /\ Row(s)' \in auditLog' <=> Row(s) \in auditLog
      BY <2>1, <2>3, <2>4
    <3> QED
      BY <2>1, <3>1, <3>2, <3>3
  <2> QED
    BY <2>5, <2>6, <2>7
<1>15. ASSUME NEW r \in Request, AuditFails(r) PROVE IInv'
  <2>1. pc[r] = "audit" /\ pc' = [pc EXCEPT ![r] = "done"]
        /\ response' = [response EXCEPT ![r] = "500"]
        /\ auditLog' \in {auditLog, auditLog \cup {Row(r)}}
        /\ UNCHANGED <<call, vlas, doc, verdict, issueVars>>
    BY <1>15 DEF AuditFails, Respond, Goto
  <2>2. \A row \in auditLog : row.req # r
    BY <2>1
  <2>3. \A s \in Request : Row(s) = Row(s)' /\ Row(s).req = s
    BY <2>1
  <2>4. \A s \in Request : s # r => (Row(s) \in auditLog' <=> Row(s) \in auditLog)
    BY <2>1, <2>3
  <2>5. VerdictInv' /\ IssueInv' /\ SignedInv'
    BY <2>1
  <2>6. AuditInv'
    <3>1. ASSUME NEW row \in auditLog' PROVE row = Row(row.req)'
      BY <2>1, <2>3
    <3>2. verdict[r] = "pass" => reply[r] = "jws"
      BY <2>1
    <3> QED
      BY <2>1, <2>2, <2>3, <3>1, <3>2
  <2>7. ResponseInv'
    <3>1. response'[r] = "500" /\ pc'[r] = "done"
      BY <2>1
    <3>2. \A s \in Request : s # r =>
            /\ response'[s] = response[s] /\ pc'[s] = pc[s]
            /\ Row(s)' \in auditLog' <=> Row(s) \in auditLog
      BY <2>1, <2>3, <2>4
    <3> QED
      BY <2>1, <3>1, <3>2
  <2> QED
    BY <2>5, <2>6, <2>7
<1>16. ASSUME NEW r \in Request, Reply200(r) PROVE IInv'
  BY <1>16 DEF Reply200, Respond, Goto
<1>17. ASSUME NEW r \in Request, Receive(r) PROVE IInv'
  BY <1>17 DEF Receive, Goto
<1>18. ASSUME NEW r \in Request, Sign(r) PROVE IInv'
  <2>1. r \in inflight /\ inflight' = inflight \ {r}
        /\ signed' = signed \cup {CredentialOf(r)}
        /\ reply' = [reply EXCEPT ![r] = "jws"]
        /\ UNCHANGED <<flowVars, call, vlas, doc, verdict, auditLog>>
    BY <1>18 DEF Sign
  <2>2. \A s \in Request : CredentialOf(s) = CredentialOf(s)' /\ CredentialOf(s).req = s
    BY <2>1
  <2>3. \A s \in Request : s # r =>
          (CredentialOf(s) \in signed' <=> CredentialOf(s) \in signed)
    BY <2>1, <2>2
  <2>4. VerdictInv' /\ SignedInv'
    BY <2>1, <2>2
  <2>5. IssueInv'
    BY <2>1, <2>2, <2>3
  <2>6. \A row \in auditLog : row.evaluation = "pass" => reply[row.req] = "jws" /\ row.req \in Request
    BY <2>1
  <2>7. AuditInv'
    BY <2>1, <2>6
  <2>8. ResponseInv'
    <3>1. \A s \in Request : Row(s)' = Row(s)
      BY <2>1
    <3>2. pc[r] \in {"waitIssue", "lost"} \/ response[r] = "502"
      BY <2>1
    <3> QED
      BY <2>1, <3>1, <3>2
  <2> QED
    BY <2>4, <2>5, <2>7, <2>8
<1>19. ASSUME NEW r \in Request, RefuseToSign(r) PROVE IInv'
  <2>1. /\ r \in inflight /\ inflight' = inflight \ {r}
        /\ reply' = [reply EXCEPT ![r] = "rejected"]
        /\ UNCHANGED <<pc, response, call, vlas, doc, verdict, signed, auditLog>>
    BY <1>19 DEF RefuseToSign
  <2>2. reply[r] = "none" /\ pc[r] \in {"waitIssue", "done", "lost"}
    BY <2>1
  <2>3. /\ \A s \in Request : reply'[s] = "jws" <=> reply[s] = "jws"
        /\ \A s \in Request \ {r} : reply'[s] = reply[s]
    BY <2>1, <2>2
  <2>4. VerdictInv'
    BY <2>1
  <2>5. SignedInv'
    BY <2>1
  <2>6. IssueInv'
    BY <2>1, <2>2, <2>3
  <2>7. \A s \in Request : Row(s)' = Row(s)
    BY ONLY <2>1 DEF Row
  <2>8. \A row \in auditLog : row.req \in Request
    OBVIOUS
  <2>9. AuditInv /\ ResponseInv
    OBVIOUS
  <2>10. AuditInv'
    BY ONLY <2>1, <2>3, <2>7, <2>8, <2>9 DEF AuditInv, BeforeRow, BeforeIssue,
            BeforeVerdict
  <2>11. ResponseInv'
    BY ONLY <2>1, <2>3, <2>7, <2>9 DEF ResponseInv
  <2> QED
    BY <2>4, <2>5, <2>6, <2>10, <2>11
<1>20. ASSUME NEW r \in Request, LoseIssueCall(r) PROVE IInv'
  BY <1>20 DEF LoseIssueCall
<1>21. ASSUME NEW v \in VLA, StoreVLA(v) PROVE IInv'
  BY <1>21 DEF StoreVLA
<1>22. ASSUME DeleteVLAs PROVE IInv'
  BY <1>22 DEF DeleteVLAs
<1>23. ASSUME Crash PROVE IInv'
  BY <1>23 DEF Crash
<1>24. CASE UNCHANGED vars
  BY <1>24 DEF vars
<1> QED
  BY <1>2, <1>3, <1>4, <1>5, <1>6, <1>7, <1>8, <1>9, <1>10, <1>11, <1>12,
     <1>13, <1>14, <1>15, <1>16, <1>17, <1>18, <1>19, <1>20, <1>21, <1>22,
     <1>23, <1>24
  DEF Next, Handler, Environment

\* The inductive invariant holds in every reachable state of the flow.
LEMMA Invariance == Spec => []IInv
<1>1. Init => IInv
  BY DEF Init, IInv, TypeOK, VerdictInv, IssueInv, SignedInv, AuditInv,
         ResponseInv, BeforeVerdict, BeforeIssue, BeforeRow, Earned
<1>2. QED
  BY <1>1, InvStep, PTL DEF Spec

-----------------------------------------------------------------------------
(* No credential for data that failed the VLA: whatever the VC manager and *)
(* the network do, a credential exists only for a call whose evaluated     *)
(* data met every requirement of a non-empty VLA (aovRoutes.kt:159-173).   *)
THEOREM CredentialsAreEarned == Spec => []CredentialIsEarned
<1>1. IInv => CredentialIsEarned
  <2> SUFFICES ASSUME IInv, NEW c \in signed PROVE Earned(c.req)
    BY DEF CredentialIsEarned
  <2>1. c.req \in Request /\ c = CredentialOf(c.req)
    BY DEF IInv, TypeOK, SignedInv
  <2> QED
    BY <2>1 DEF IInv, IssueInv, VerdictInv
<1>2. QED
  BY <1>1, Invariance, PTL

(* The audit trail never claims a credential that does not exist, and never*)
(* a verdict other than the one reached (aovRoutes.kt:217-238).            *)
THEOREM AuditTrailIsBacked == Spec => []AuditIsBacked
<1>1. IInv => AuditIsBacked
  <2> SUFFICES ASSUME IInv, NEW row \in auditLog, row.evaluation = "pass"
               PROVE  HasCredential(row.req)
    BY DEF AuditIsBacked, IInv, AuditInv
  <2>1. row.req \in Request /\ reply[row.req] = "jws"
    BY DEF IInv, TypeOK, AuditInv
  <2>2. CredentialOf(row.req) \in signed
    BY <2>1 DEF IInv, IssueInv
  <2> QED
    BY <2>2 DEF HasCredential, CredentialOf
<1>2. QED
  BY <1>1, Invariance, PTL

(* A 200 answer is accounted for: its audit row exists, and so does the    *)
(* credential when the evaluation passed (aovRoutes.kt:173-252); a refused *)
(* call leaves neither a credential nor an audit row behind.               *)
THEOREM AnswersAreBacked == Spec => []AnswerIsBacked
<1>1. IInv => AnswerIsBacked
  <2> SUFFICES ASSUME IInv, NEW r \in Request
               PROVE  /\ response[r] = "aov" =>
                           /\ Row(r) \in auditLog
                           /\ verdict[r] = "pass" => HasCredential(r)
                      /\ response[r] \in {"400", "404", "relayed"} =>
                           ~HasCredential(r) /\ ~HasRow(r)
    BY DEF AnswerIsBacked
  <2>1. ASSUME response[r] = "aov"
        PROVE  Row(r) \in auditLog /\ (verdict[r] = "pass" => HasCredential(r))
    <3>1. Row(r) \in auditLog
      BY <2>1 DEF IInv, AuditInv
    <3>2. verdict[r] = "pass" => CredentialOf(r) \in signed
      BY <2>1 DEF IInv, ResponseInv, IssueInv
    <3> QED
      BY <3>1, <3>2 DEF HasCredential, CredentialOf
  <2>2. ASSUME response[r] \in {"400", "404", "relayed"}
        PROVE  ~HasCredential(r) /\ ~HasRow(r)
    <3>1. reply[r] # "jws" /\ Row(r) \notin auditLog
      BY <2>2 DEF IInv, ResponseInv
    <3>2. ~HasCredential(r)
      BY <3>1 DEF IInv, IssueInv, SignedInv, HasCredential
    <3>3. ~HasRow(r)
      BY <3>1 DEF IInv, AuditInv, HasRow
    <3> QED
      BY <3>2, <3>3
  <2> QED
    BY <2>1, <2>2
<1>2. QED
  BY <1>1, Invariance, PTL

(* A credential without an audit row belongs to a call that is under way,  *)
(* was lost with the gateway, or was told 502 or 500.                      *)
THEOREM UnauditedCredentialsFailed == Spec => []UnauditedCredentialFailed
<1>1. IInv => UnauditedCredentialFailed
  <2> SUFFICES ASSUME IInv, NEW c \in signed, ~HasRow(c.req)
               PROVE  \/ pc[c.req] \in {"waitIssue", "audit", "lost"}
                      \/ response[c.req] \in {"502", "500"}
    BY DEF UnauditedCredentialFailed
  <2>1. c.req \in Request /\ CredentialOf(c.req) \in signed
    BY DEF IInv, TypeOK, SignedInv
  <2>2. Row(c.req) \notin auditLog
    BY DEF HasRow, Row
  <2>3. reply[c.req] = "jws"
    BY <2>1 DEF IInv, IssueInv
  <2> QED
    BY <2>1, <2>2, <2>3 DEF IInv, ResponseInv
<1>2. QED
  BY <1>1, Invariance, PTL

-----------------------------------------------------------------------------
(* The flow implements the abstract ledger, and outcomes are final.        *)

Ended == {"done", "lost"}

\* A call that has not ended is open in the ledger.
LEMMA OpenCall ==
  ASSUME IInv, NEW r \in Request, pc[r] \notin Ended
  PROVE  Ledger!Open(r)
  BY DEF IInv, ResponseInv, Ended, Errors, Ledger!Open, AbsAnswered, AbsFailed

\* In the ledger's terms, the VC manager's reply tells whether a credential
\* exists.
LEMMA CredentialKnown ==
  ASSUME IInv, NEW r \in Request
  PROVE  /\ r \in AbsCredentials <=> reply[r] = "jws"
         /\ HasCredential(r) <=> reply[r] = "jws"
  BY DEF IInv, IssueInv, SignedInv, AbsCredentials, HasCredential, CredentialOf

\* A coroutine that moves on without deciding, writing or answering is
\* invisible in the ledger.
LEMMA QuietStep ==
  ASSUME IInv, NEW r \in Request, NEW step, step # "lost", pc[r] # "lost",
         Goto(r, step), UNCHANGED <<verdict, signed, auditLog, response>>
  PROVE  UNCHANGED Ledger!vars
  <1>1. \A s \in Request : pc'[s] = "lost" <=> pc[s] = "lost"
    BY DEF IInv, TypeOK, Goto
  <1> QED
    BY <1>1 DEF Ledger!vars, AbsCredentials, AbsRecords, AbsAnswered, AbsFailed

\* A coroutine that ends with an error fails in the ledger.
LEMMA FailStep ==
  ASSUME IInv, NEW r \in Request, pc[r] \notin Ended,
         NEW e \in Errors, Respond(r, e), UNCHANGED <<verdict, signed>>
  PROVE  /\ AbsFailed' = AbsFailed \cup {r}
         /\ AbsAnswered' = AbsAnswered
         /\ AbsCredentials' = AbsCredentials
         /\ auditLog' = auditLog => Ledger!Fail({r})
  <1>1. response' = [response EXCEPT ![r] = e] /\ response[r] = "none" /\ e # "aov"
    BY DEF IInv, ResponseInv, Respond, Ended, Errors
  <1>2. \A s \in Request : pc'[s] = "lost" <=> pc[s] = "lost"
    BY DEF IInv, TypeOK, Respond, Goto, Ended
  <1>3. AbsFailed' = AbsFailed \cup {r}
    BY <1>1, <1>2 DEF IInv, TypeOK, AbsFailed
  <1>4. AbsAnswered' = AbsAnswered
    BY <1>1 DEF IInv, TypeOK, AbsAnswered
  <1>5. AbsCredentials' = AbsCredentials
    BY DEF AbsCredentials
  <1>6. auditLog' = auditLog => AbsRecords' = AbsRecords
    BY DEF AbsRecords
  <1> QED
    BY <1>3, <1>4, <1>5, <1>6, OpenCall DEF Ledger!Fail

\* The verdict is reached once, before anything else exists.
LEMMA DecideStep ==
  ASSUME IInv, NEW r \in Request, Evaluate(r)
  PROVE  Ledger!Decide(r)
  <1>1. PICK v \in {"pass", "fail"} : verdict' = [verdict EXCEPT ![r] = v]
    BY DEF Evaluate
  <1>2. pc[r] = "evaluate" /\ Goto(r, "contract")
        /\ UNCHANGED <<signed, auditLog, response>>
    BY DEF Evaluate, issueVars
  <1>3. verdict[r] = "none"
    BY <1>2 DEF IInv, VerdictInv, BeforeVerdict
  <1>4. \A s \in Request : pc'[s] = "lost" <=> pc[s] = "lost"
    BY <1>2 DEF IInv, TypeOK, Goto
  <1>5. UNCHANGED <<AbsCredentials, AbsRecords, AbsAnswered, AbsFailed>>
    BY <1>2, <1>4 DEF AbsCredentials, AbsRecords, AbsAnswered, AbsFailed
  <1> QED
    BY <1>1, <1>2, <1>3, <1>5, OpenCall DEF Ledger!Decide, Ended

\* The signer makes one credential, for a passing verdict, and never after
\* a 200: the answer waits for it.
LEMMA SignStep ==
  ASSUME IInv, NEW r \in Request, Sign(r)
  PROVE  Ledger!Credential(r)
  <1>1. /\ r \in inflight
        /\ signed' = signed \cup {CredentialOf(r)}
        /\ UNCHANGED <<pc, response, verdict, auditLog>>
    BY DEF Sign, flowVars
  <1>2. verdict[r] = "pass" /\ reply[r] = "none"
    BY <1>1 DEF IInv, IssueInv
  <1>3. r \notin AbsCredentials
    BY <1>2, CredentialKnown
  <1>4. r \notin AbsAnswered
    BY <1>1 DEF IInv, IssueInv, ResponseInv, AbsAnswered
  <1>5. AbsCredentials' = AbsCredentials \cup {r}
    <2>1. CredentialOf(r).req = r
      BY DEF CredentialOf
    <2> QED
      BY <1>1, <2>1 DEF AbsCredentials
  <1>6. UNCHANGED <<AbsRecords, AbsAnswered, AbsFailed>>
    BY <1>1 DEF AbsRecords, AbsAnswered, AbsFailed
  <1> QED
    BY <1>1, <1>2, <1>3, <1>4, <1>5, <1>6 DEF Ledger!Credential

\* What the audit transaction finds: an open call with a verdict, without a
\* row, and with its credential if it passed.
LEMMA Recordable ==
  ASSUME IInv, NEW r \in Request, pc[r] = "audit"
  PROVE  /\ Ledger!Open(r)
         /\ r \notin AbsRecords
         /\ verdict[r] = "fail" \/ (verdict[r] = "pass" /\ r \in AbsCredentials)
  <1>1. Ledger!Open(r)
    BY OpenCall DEF Ended
  <1>2. r \notin AbsRecords
    BY DEF IInv, AuditInv, BeforeRow, AbsRecords
  <1>3. verdict[r] \in {"pass", "fail"}
    BY DEF IInv, TypeOK, VerdictInv
  <1>4. verdict[r] = "pass" => r \in AbsCredentials
    BY CredentialKnown DEF IInv, IssueInv
  <1> QED
    BY <1>1, <1>2, <1>3, <1>4

\* A row names its call.
LEMMA RowNamesCall == \A r \in Request : Row(r).req = r
  BY DEF Row

\* The row is written, and the call goes on to its answer.
LEMMA AuditStep ==
  ASSUME IInv, NEW r \in Request, Audit(r)
  PROVE  Ledger!Record(r)
  <1>1. /\ pc[r] = "audit" /\ Goto(r, "respond")
        /\ auditLog' = auditLog \cup {Row(r)}
        /\ UNCHANGED <<verdict, signed, response>>
    BY DEF Audit, issueVars
  <1>2. AbsRecords' = AbsRecords \cup {r}
    BY <1>1, RowNamesCall DEF AbsRecords
  <1>3. \A s \in Request : pc'[s] = "lost" <=> pc[s] = "lost"
    BY <1>1 DEF IInv, TypeOK, Goto
  <1>4. UNCHANGED <<AbsCredentials, AbsAnswered, AbsFailed>>
    BY <1>1, <1>3 DEF AbsCredentials, AbsAnswered, AbsFailed
  <1> QED
    BY <1>1, <1>2, <1>4, Recordable DEF Ledger!Record

\* The transaction raises: the call fails, with or without its row.
LEMMA AuditFailStep ==
  ASSUME IInv, NEW r \in Request, AuditFails(r)
  PROVE  Ledger!Record(r) \/ Ledger!Fail({r})
  <1>1. /\ pc[r] = "audit" /\ Respond(r, "500")
        /\ auditLog' \in {auditLog, auditLog \cup {Row(r)}}
        /\ UNCHANGED <<verdict, signed>>
    BY DEF AuditFails, issueVars
  <1>2. /\ AbsFailed' = AbsFailed \cup {r}
        /\ AbsAnswered' = AbsAnswered
        /\ AbsCredentials' = AbsCredentials
        /\ auditLog' = auditLog => Ledger!Fail({r})
    BY <1>1, FailStep DEF Ended, Errors
  <1>3. CASE auditLog' = auditLog \cup {Row(r)}
    <2>1. AbsRecords' = AbsRecords \cup {r}
      BY <1>3, RowNamesCall DEF AbsRecords
    <2> QED
      BY <1>1, <1>2, <2>1, Recordable DEF Ledger!Record
  <1> QED
    BY <1>1, <1>2, <1>3

\* A 200 is answered for a call with a row.
LEMMA AnswerStep ==
  ASSUME IInv, NEW r \in Request, Reply200(r)
  PROVE  Ledger!Answer(r)
  <1>1. /\ pc[r] = "respond" /\ Respond(r, "aov")
        /\ UNCHANGED <<verdict, signed, auditLog>>
    BY DEF Reply200, issueVars
  <1>2. Ledger!Open(r)
    BY <1>1, OpenCall DEF Ended
  <1>3. r \in AbsRecords
    BY <1>1 DEF IInv, AuditInv, AbsRecords, Row
  <1>4. AbsAnswered' = AbsAnswered \cup {r}
    BY <1>1 DEF IInv, TypeOK, Respond, AbsAnswered
  <1>5. \A s \in Request : pc'[s] = "lost" <=> pc[s] = "lost"
    BY <1>1 DEF IInv, TypeOK, Respond, Goto
  <1>6. response[r] = "none"
    BY <1>1 DEF IInv, ResponseInv
  <1>7. AbsFailed' = AbsFailed
    BY <1>1, <1>5, <1>6 DEF IInv, TypeOK, Respond, Errors, AbsFailed
  <1>8. UNCHANGED <<AbsCredentials, AbsRecords>>
    BY <1>1 DEF AbsCredentials, AbsRecords
  <1> QED
    BY <1>1, <1>2, <1>3, <1>4, <1>7, <1>8 DEF Ledger!Answer

\* A dying gateway fails every call that is under way.
LEMMA CrashStep ==
  ASSUME IInv, Crash
  PROVE  \E S \in SUBSET Request : Ledger!Fail(S)
  <1> DEFINE S == {r \in Request : pc[r] \in Running}
  <1>1. /\ pc' = [r \in Request |-> IF pc[r] \in Running THEN "lost" ELSE pc[r]]
        /\ UNCHANGED <<verdict, signed, auditLog, response>>
    BY DEF Crash, issueVars
  <1>2. \A r \in S : Ledger!Open(r)
    BY OpenCall DEF Ended, Running
  <1>3. AbsFailed' = AbsFailed \cup S
    BY <1>1 DEF AbsFailed, Running
  <1>4. UNCHANGED <<AbsCredentials, AbsRecords, AbsAnswered>>
    BY <1>1 DEF AbsCredentials, AbsRecords, AbsAnswered
  <1>5. Ledger!Fail(S)
    BY <1>1, <1>2, <1>3, <1>4 DEF Ledger!Fail
  <1> QED
    BY <1>5

-----------------------------------------------------------------------------
\* The initial states of the flow are the ledger's.
LEMMA InitRefines == Init => Ledger!Init
  BY DEF Init, Ledger!Init, AbsCredentials, AbsRecords, AbsAnswered, AbsFailed,
         Errors

\* Steps of the environment other than a signature and a crash do not touch
\* what the ledger sees.
LEMMA EnvironmentQuiet ==
  ASSUME IInv,
         \/ \E r \in Request : RefuseToSign(r) \/ LoseIssueCall(r)
         \/ \E v \in VLA : StoreVLA(v)
         \/ DeleteVLAs
         \/ UNCHANGED vars
  PROVE  UNCHANGED Ledger!vars
  <1>1. UNCHANGED <<pc, verdict, signed, auditLog, response>>
    BY DEF RefuseToSign, LoseIssueCall, StoreVLA, DeleteVLAs, flowVars, issueVars,
           vars
  <1> QED
    BY <1>1 DEF Ledger!vars, AbsCredentials, AbsRecords, AbsAnswered, AbsFailed

\* Every step of the flow is a step of the ledger, or invisible in it.
LEMMA StepRefines == IInv /\ [Next]_vars => [Ledger!Next]_(Ledger!vars)
<1> SUFFICES ASSUME IInv, [Next]_vars
             PROVE  Ledger!Next \/ UNCHANGED Ledger!vars
  OBVIOUS
<1> DEFINE Fails(r) == \E e \in Errors :
      pc[r] \notin Ended /\ Respond(r, e) /\ UNCHANGED <<verdict, signed, auditLog>>
<1> DEFINE Moves(r) == \E step \in Running :
      pc[r] # "lost" /\ Goto(r, step)
      /\ UNCHANGED <<verdict, signed, auditLog, response>>
<1>1. ASSUME NEW r \in Request, Fails(r) PROVE Ledger!Next
  <2>1. Ledger!Fail({r})
    BY <1>1, FailStep
  <2> QED
    BY <2>1 DEF Ledger!Next
<1>2. ASSUME NEW r \in Request, Moves(r) PROVE UNCHANGED Ledger!vars
  BY <1>2, QuietStep DEF Running
<1>3. ASSUME NEW r \in Request,
             \/ RejectCall(r) \/ LookupMissing(r) \/ LookupUnreachable(r)
             \/ EvaluateUnreachable(r) \/ ReceiveRejection(r) \/ IssueUnreachable(r)
      PROVE  Fails(r)
  BY <1>3 DEF RejectCall, LookupMissing, LookupUnreachable, EvaluateUnreachable,
              ReceiveRejection, IssueUnreachable, issueVars, Ended, Errors
<1>4. ASSUME NEW r \in Request,
             \/ Receive(r) \/ ResolveInline(r) \/ LookupFound(r) \/ SendIssue(r)
             \/ ReceiveJws(r)
      PROVE  Moves(r)
  BY <1>4 DEF Receive, ResolveInline, LookupFound, Resolved, SendIssue, ReceiveJws,
              issueVars, Running
<1>5. ASSUME NEW r \in Request, ReadContract(r) PROVE Fails(r) \/ Moves(r)
  BY <1>5 DEF ReadContract, issueVars, Running, Ended, Errors
<1>6. ASSUME NEW r \in Request,
             Evaluate(r) \/ Audit(r) \/ AuditFails(r) \/ Reply200(r) \/ Sign(r)
      PROVE  Ledger!Next
  BY <1>6, DecideStep, AuditStep, AuditFailStep, AnswerStep, SignStep
  DEF Ledger!Next
<1>7. ASSUME Crash PROVE Ledger!Next
  BY <1>7, CrashStep DEF Ledger!Next
<1> HIDE DEF Fails, Moves
<1> QED
  BY <1>1, <1>2, <1>3, <1>4, <1>5, <1>6, <1>7, EnvironmentQuiet
  DEF Next, Handler, Environment

(* The flow, with its interleavings, lost calls, late signatures and       *)
(* crashes, does what the ledger promises: verdict, credential, row and    *)
(* answer in that order (aovRoutes.kt:112-252).                            *)
THEOREM FlowIsLedger == Spec => RefinesLedger
<1>1. Init => Ledger!Init
  BY InitRefines
<1>2. IInv /\ [Next]_vars => [Ledger!Next]_(Ledger!vars)
  BY StepRefines
<1> QED
  BY <1>1, <1>2, Invariance, PTL DEF Spec, RefinesLedger, Ledger!Spec

-----------------------------------------------------------------------------
\* Only an audit transaction adds rows, and only for a call at that step.
LEMMA RowsAreForRunning ==
  ASSUME IInv, [Next]_vars, NEW r \in Request, pc[r] \in Ended, HasRow(r)'
  PROVE  HasRow(r)
  <1>1. \/ auditLog' = auditLog
        \/ \E s \in Request : /\ pc[s] = "audit"
                              /\ auditLog' \in {auditLog, auditLog \cup {Row(s)}}
    BY DEF Next, Handler, Environment, RejectCall, ResolveInline, LookupFound,
           Resolved, LookupMissing, LookupUnreachable, Evaluate,
           EvaluateUnreachable, ReadContract, SendIssue, ReceiveJws,
           ReceiveRejection, IssueUnreachable, Audit, AuditFails, Reply200, Receive,
           Sign, RefuseToSign, LoseIssueCall, StoreVLA, DeleteVLAs, Crash, vars
  <1> QED
    BY <1>1, RowNamesCall DEF HasRow, Ended

\* Only the signer adds credentials, and only for a call it was sent.
LEMMA CredentialsAreForSent ==
  ASSUME IInv, [Next]_vars, NEW r \in Request, HasCredential(r)', ~HasCredential(r)
  PROVE  r \in inflight
  <1>1. \/ signed' = signed
        \/ \E s \in inflight : signed' = signed \cup {CredentialOf(s)}
    BY DEF Next, Handler, Environment, RejectCall, ResolveInline, LookupFound,
           Resolved, LookupMissing, LookupUnreachable, Evaluate,
           EvaluateUnreachable, ReadContract, SendIssue, ReceiveJws,
           ReceiveRejection, IssueUnreachable, Audit, AuditFails, Reply200, Receive,
           Sign, RefuseToSign, LoseIssueCall, StoreVLA, DeleteVLAs, Crash, vars,
           issueVars
  <1>2. \A s \in Request : CredentialOf(s).req = s
    BY DEF CredentialOf
  <1> QED
    BY <1>1, <1>2 DEF IInv, TypeOK, HasCredential

(* Outcomes are final: a call that has ended gets no row any more, and a   *)
(* credential only if its caller gave up on the signer, or the gateway     *)
(* died (aovRoutes.kt:173-216).                                            *)
THEOREM OutcomesAreFinal == Spec => OutcomeIsFinal
<1>1. IInv /\ [Next]_vars => FinalStep
  <2> SUFFICES ASSUME IInv, [Next]_vars, NEW r \in Request, pc[r] \in Ended
               PROVE  /\ HasRow(r)' => HasRow(r)
                      /\ HasCredential(r)' /\ ~HasCredential(r) =>
                           pc[r] = "lost" \/ response[r] = "502"
    BY DEF FinalStep, Ended
  <2>1. HasRow(r)' => HasRow(r)
    BY RowsAreForRunning
  <2>2. r \in inflight => pc[r] = "lost" \/ response[r] = "502"
    BY DEF IInv, IssueInv, Ended
  <2> QED
    BY <2>1, <2>2, CredentialsAreForSent
<1>2. Spec => [][FinalStep]_vars
  BY <1>1, Invariance, PTL DEF Spec
<1> QED
  BY <1>2 DEF OutcomeIsFinal
=============================================================================
