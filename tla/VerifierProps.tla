---------------------------- MODULE VerifierProps ---------------------------
(***************************************************************************)
(* What the verify side of the VC manager must guarantee (module Verifier),*)
(* and the refinement of the abstract registry.                            *)
(***************************************************************************)
EXTENDS Verifier

\* A removal of d that may have taken effect.
MayHaveRemoved(d) ==
  \E c \in Call :
    /\ call[c].op = "remove" /\ call[c].did = d
    /\ answer[c] \in {"204", "500"}

\* Unless the key was removed, everyone who was told that it is registered
\* was told the id it is stored under, and nobody met a vanished row
\* (whitelist.py:104-108 reads None, a 500): racing additions agree on one
\* row, and only a removal of the same key undoes one or breaks it, or the end
\* of a process that keeps the whitelist in its memory.
AdditionsAgree ==
  \A c \in Call :
    \/ answer[c] \notin {"201", "gone"}
    \/ answer[c] = "201" /\ table[call[c].did] = id[c]
    \/ MayHaveRemoved(call[c].did)
    \/ ~durable /\ \E d \in Call : pc[d] = "lost"

\* Every verification that reached the gateway is told something, and every
\* request that reached the VC manager comes to a result or dies with it.
EveryRequestSettled ==
  \A c \in Call :
    /\ Waiting(c) ~> (told[c] # "none")
    /\ (pc[c] \in Running) ~> (answer[c] # "none" \/ pc[c] = "lost")

-----------------------------------------------------------------------------
AbsAsked(c) ==
  [op    |-> call[c].op,
   did   |-> call[c].did,
   sound |-> /\ call[c].op = "verify"
             /\ call[c].did \in ValidDid
             /\ call[c].jws \in {call[c].did, Unreadable}]

AbsOutcome(c) ==
  IF answer[c] \in {"201", "204"} THEN "ok"
  ELSE IF answer[c] = "404" THEN "missing"
  ELSE IF answer[c] \in {"invalidDid", "400", "mismatch"} THEN "badSignature"
  ELSE IF answer[c] \in {"401", "500", "gone"} \/ pc[c] = "lost" THEN "failed"
  ELSE answer[c]

Registry == INSTANCE TrustRegistry WITH
              asked   <- [c \in Call |-> AbsAsked(c)],
              trusted <- {d \in Did : Listed(d)},
              outcome <- [c \in Call |-> AbsOutcome(c)]

\* The two reads of a verification and the insert-then-select of an addition
\* behave as if each request took effect in one instant: no credential is
\* verified unless its attester was trusted at that instant, and a refusal
\* gives a reason that was true.
RefinesRegistry == Registry!Spec
=============================================================================
