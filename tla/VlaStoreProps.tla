---------------------------- MODULE VlaStoreProps ---------------------------
(***************************************************************************)
(* What the VLA store, and every lazily built repository, must guarantee   *)
(* (module VlaStore).                                                      *)
(***************************************************************************)
EXTENDS VlaStore

\* A request is given an open pool whose tables were ensured, however many
\* requests build repositories at once (dependencies.py of either service: the
\* global is set only after the builder has returned).
NoStatementBeforeTables ==
  \A c \in Call : pc[c] \in {"acquire", "statement"} =>
    repo[c] \in ready /\ KindOf(repo[c]) = KindOf(c)

\* A process has a second pool of a kind only if two requests came while there
\* was none, or if the building of one of them failed or has not ended: a burst of
\* requests adds pools, a steady load does not.
PoolsNeedOverlap ==
  \A p, q \in pools : (p # q /\ KindOf(p) = KindOf(q)) =>
    \/ {p, q} \cap ready # {p, q}
    \/ p \notin before[q] /\ q \notin before[p]

\* A VLA whose id was told to a client stays there, restarts included, until
\* DELETE /vla, or until a process that keeps VLAs in its memory ends: only
\* then may GET /vla/{id} answer 404, and only then a gateway that attests
\* under it.
CreatedVlaIsKept ==
  \A c \in Call : (answer[c] = "201" /\ c \notin vlas) =>
    \E d \in Call :
      /\ request[d] # NoRepo /\ d \notin before[c]
      /\ \/ request[d].op = "removeAll" /\ answer[d] \in {"204", "500"}
         \/ "vlaManager" \notin durable /\ At(d, "vlaManager") /\ pc[d] = "lost"

\* Every request that reached the service comes to an answer or dies with it:
\* no failing request keeps its connection, and nobody waits for a second one
\* while holding one.
EveryRequestAnswered ==
  \A c \in Call : (pc[c] \in Running) ~> Ended(c)
=============================================================================
