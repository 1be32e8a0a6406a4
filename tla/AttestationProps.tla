-------------------------- MODULE AttestationProps -------------------------
(***************************************************************************)
(* What the attestation flow must guarantee (module Attestation), and the  *)
(* refinement of the abstract ledger.                                      *)
(***************************************************************************)
EXTENDS Attestation

\* A credential exists only for a call whose resolved VLA asks for something
\* and whose evaluated data satisfies all of it (aovRoutes.kt:159-173: the
\* signature is requested only after every requirement came back positive).
CredentialIsEarned == \A c \in signed : Earned(c.req)

\* A passing audit row is written only for a call whose credential exists,
\* and a row always tells the verdict that the call was given.
AuditIsBacked ==
  \A row \in auditLog :
    /\ row = Row(row.req)
    /\ row.evaluation = "pass" => HasCredential(row.req)

\* The connector never holds an answer that the provider cannot account for:
\* a 200 has its audit row, and a 200 with a JWS has the credential as well; a
\* refused call leaves no trace, neither credential nor row.
AnswerIsBacked ==
  \A r \in Request :
    /\ response[r] = "aov" =>
         Row(r) \in auditLog /\ (verdict[r] = "pass" => HasCredential(r))
    /\ response[r] \in {"400", "404", "relayed"} =>
         ~HasCredential(r) /\ ~HasRow(r)

\* A credential that was never audited belongs to a call that is still under
\* way, died with the gateway, or was told 502 or 500: to no other outcome.
UnauditedCredentialFailed ==
  \A c \in signed : ~HasRow(c.req) =>
    \/ pc[c.req] \in {"waitIssue", "audit", "lost"}
    \/ response[c.req] \in {"502", "500"}

\* What one step may do to the calls that have ended.
FinalStep ==
  \A r \in Request : pc[r] \in {"done", "lost"} =>
    /\ HasRow(r)' => HasRow(r)
    /\ HasCredential(r)' /\ ~HasCredential(r) =>
         pc[r] = "lost" \/ response[r] = "502"

\* Once a call has its outcome it gets no audit row any more, and a credential
\* can only come late to a caller that was told 502 or to one that was lost.
OutcomeIsFinal == [][FinalStep]_vars

\* Every call that is received is answered, unless the gateway dies with it.
EveryCallAnswered ==
  \A r \in Request :
    (pc[r] = "resolve") ~> (response[r] # "none" \/ pc[r] = "lost")

-----------------------------------------------------------------------------
(* The abstract ledger: calls with a credential, with a row, answered and  *)
(* failed, as the detailed state gives them.                               *)
AbsCredentials == {c.req : c \in signed}
AbsRecords     == {row.req : row \in auditLog}
AbsAnswered    == {r \in Request : response[r] = "aov"}
AbsFailed      == {r \in Request : response[r] \in Errors \/ pc[r] = "lost"}

Ledger == INSTANCE AoVLedger WITH
            credentials <- AbsCredentials,
            records     <- AbsRecords,
            answered    <- AbsAnswered,
            failed      <- AbsFailed

\* The flow implements the ledger: verdict, credential, row, answer, in that
\* order, whatever fails on the way.
RefinesLedger == Ledger!Spec

-----------------------------------------------------------------------------
\* docs/spec/dva-api.yaml: the data is "any JSON value" and the JWS is null
\* when checks failed.  Contradicted: a payload that is no JSON object is
\* replaced by {} for the evaluation and attested as it is.
AttestedDataMeetsVLA ==
  \A c \in signed : \A q \in doc[c.req] : c.payload \in Meets[q]
=============================================================================
