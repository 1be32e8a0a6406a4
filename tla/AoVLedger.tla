----------------------------- MODULE AoVLedger -----------------------------
(***************************************************************************)
(* What POST /attestation promises, without its steps: a call gets a       *)
(* verdict once, only a passing verdict yields a credential, a passing     *)
(* verdict is recorded only when its credential exists, and only recorded  *)
(* calls are answered.  A call may fail at any time before its answer, and *)
(* the credential of a failed call may still come into existence.          *)
(***************************************************************************)
CONSTANT Request    \* the calls of POST /attestation

VARIABLES
  verdict,     \* verdict[r]: none, pass or fail
  credentials, \* calls for which a credential exists
  records,     \* calls with an audit row
  answered,    \* calls answered 200
  failed       \* calls answered with an error, or lost

vars == <<verdict, credentials, records, answered, failed>>

Init ==
  /\ verdict = [r \in Request |-> "none"]
  /\ credentials = {}
  /\ records = {}
  /\ answered = {}
  /\ failed = {}

Open(r) == r \notin answered \cup failed

Decide(r) ==
  /\ Open(r)
  /\ verdict[r] = "none"
  /\ \E v \in {"pass", "fail"} : verdict' = [verdict EXCEPT ![r] = v]
  /\ UNCHANGED <<credentials, records, answered, failed>>

\* Not guarded by Open: the signer may act after the caller has given up.
Credential(r) ==
  /\ verdict[r] = "pass"
  /\ r \notin credentials \cup answered
  /\ credentials' = credentials \cup {r}
  /\ UNCHANGED <<verdict, records, answered, failed>>

\* The commit may succeed although the caller is told that it failed.
Record(r) ==
  /\ Open(r)
  /\ r \notin records
  /\ verdict[r] = "fail" \/ (verdict[r] = "pass" /\ r \in credentials)
  /\ records' = records \cup {r}
  /\ failed' \in {failed, failed \cup {r}}
  /\ UNCHANGED <<verdict, credentials, answered>>

Answer(r) ==
  /\ Open(r)
  /\ r \in records
  /\ answered' = answered \cup {r}
  /\ UNCHANGED <<verdict, credentials, records, failed>>

Fail(S) ==
  /\ \A r \in S : Open(r)
  /\ failed' = failed \cup S
  /\ UNCHANGED <<verdict, credentials, records, answered>>

Next ==
  \/ \E r \in Request : Decide(r) \/ Credential(r) \/ Record(r) \/ Answer(r)
  \/ \E S \in SUBSET Request : Fail(S)

Spec == Init /\ [][Next]_vars
=============================================================================
