----------------------------- MODULE AcaPyProps ------------------------------
(***************************************************************************)
(* What the ACA-Py controller must guarantee (module AcaPyController).     *)
(***************************************************************************)
EXTENDS AcaPyController

Issued(c) == \E x \in creds : x.call = c
Logs(c, r) == Generates(c) /\ request[c].row = r

\* The log and the agent agree: a row names a credential only if the agent
\* issued it for that very request, and a credential for a request whose row
\* is still empty belongs to a call under way, to one that was told 500 or to
\* one that died with the process - never to one that was answered 200.
LogAgrees ==
  \A r \in Row :
    /\ rows[r] # None => Issued(rows[r]) /\ Logs(rows[r], r)
    /\ rows[r] = None =>
         \A c \in Call : (Logs(c, r) /\ (Issued(c) \/ answer[c] = "200")) =>
           pc[c] \in {"update", "lost"} \/ answer[c] = "500"

\* SELF_CONNECTION_ID and SELF_CRED_DEF_ID are set at two steps of
\* init_all_self: a credential mixes those of two runs only after the later
\* run failed in between, never because a request came in between.
MixedPairNeedsFailure ==
  \A x \in creds :
    x.credDef \in Run => x.conn.of = x.credDef \/ x.conn.of \in failed

\* Every request is answered or dies with the process: a connection that never
\* becomes active does not hold the event loop for ever.
EveryRequestAnswered ==
  \A c \in Call : (pc[c] = "queued") ~> (pc[c] \in {"done", "lost"})
=============================================================================
