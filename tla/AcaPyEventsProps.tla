--------------------------- MODULE AcaPyEventsProps --------------------------
(***************************************************************************)
(* What the event streams and the log of the ACA-Py controller guarantee   *)
(* (module AcaPyEvents).                                                   *)
(***************************************************************************)
EXTENDS AcaPyEvents

Received == UNION {Range(got[s]) : s \in Stream}

\* What was taken from the queue for the client of s, and not lost.
Taken(s) == Range(got[s]) \cup ({holds[s]} \ {0})

\* Every event that was put into the queue is at one place, and a client sees
\* events in the order in which they were put: the one queue that all streams
\* take from (controller.py, event_generator) gives an event to one client
\* only, to none only if the connection or the process that held it ended, and
\* the get of a client that leaves takes nothing.
EachEventOnce ==
  LET taken == UNION {Taken(s) : s \in Stream}
  IN  /\ Range(put) = Range(queue) \cup taken \cup gone
      /\ \A s, t \in Stream : s # t => Taken(s) \cap Taken(t) = {}
      /\ \A s \in Stream : holds[s] \notin Range(got[s])
      /\ Range(queue) \cap (taken \cup gone) = {} /\ taken \cap gone = {}
      /\ \E n \in 0..Len(put) : queue = SubSeq(put, n + 1, Len(put))
      /\ \A i, j \in DOMAIN put : put[i] = put[j] => i = j
      /\ \A s \in Stream : \A k, l \in DOMAIN got[s] : \A i, j \in DOMAIN put :
           (k < l /\ got[s][k] = put[i] /\ got[s][l] = put[j]) => i < j

\* A webhook that was answered "received" is in the log file as long as the
\* process that answered it is the last one, whatever became of its event,
\* unless a write was cut short and none came after it (webhook_listener, which
\* writes the file before it answers, and from its own memory only).
LogKeepsAnswered ==
  \A w \in Hook :
    answered[w] # 0 => \/ file = Torn
                       \/ Contains(file, w)
                       \/ answered[w] < starts

\* If some stream stays open, every event that waits is sent to a client, or
\* goes with the connection or the process that holds it.
EventReachesReader ==
  \A s \in Stream, e \in Event :
    <>[](s \in open) =>
      ((e \in Range(queue) \/ holds[s] = e) ~> (e \in Received \cup gone))
=============================================================================
