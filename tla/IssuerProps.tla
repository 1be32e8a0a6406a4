----------------------------- MODULE IssuerProps ----------------------------
(***************************************************************************)
(* What the key store of the VC manager must guarantee (module Issuer).    *)
(***************************************************************************)
EXTENDS Issuer

\* The service has one identity for as long as its key file is not removed:
\* every key it answered with in that time is the one in the file, crashes
\* and failed writes notwithstanding.  So no credential and no GET
\* /admin/keys ever names a key that a restart would lose.
IssuerIsStable ==
  \A c \in Call : answer[c] \in Key \ retired => file = answer[c]

\* Only a removal makes room for a new key: of requests that all find no file
\* one generates the key, and nobody opens a stored key for writing.
KeyFileIsNotReplaced == [][(file \in Key) => file' \in {file, Absent}]_vars

\* Every request that reached the service is answered, unless it dies with it.
EveryRequestAnswered ==
  \A c \in Call : (pc[c] = "queued") ~> (pc[c] \in {"done", "lost"})
=============================================================================
