----------------------------- MODULE AcaPyEvents -----------------------------
(***************************************************************************)
(* The events of the ACA-Py controller: webhooks of the agent are appended *)
(* to a log in memory, which is written to a file as a whole, and put into *)
(* an unbounded queue, from which every open /events/ stream takes.  A     *)
(* process starts with an empty log and an event of its own.               *)
(***************************************************************************)
EXTENDS Naturals, Sequences, SequencesExt

CONSTANTS
  Hook,      \* webhooks that the agent posts
  Stream,    \* clients of /events/
  MaxStarts, \* bound on the processes of the controller
  Torn       \* a log file that was cut short

ASSUME EventsAssumption ==
  /\ MaxStarts \in Nat
  /\ Torn \notin Seq(Hook)
  /\ Hook \cap (0..MaxStarts) = {}

VARIABLES
  server,  \* "down", "starting" or "serving"
  starts,  \* processes so far; the last one's number names its own event
  answered,\* answered[w]: the process that answered webhook w with 200, or 0
  logs,    \* webhook_logs
  file,    \* LOG_FILE
  queue,   \* presentation_queue
  put,     \* history: the events that were ever put into a queue
  open,    \* streams that are open
  holds,   \* holds[s]: the event s has taken and not yet sent, or none: 0
  got,     \* got[s]: the events that reached the client of s
  gone     \* history: events that went with a connection or a process

events  == <<queue, put>>
streams == <<open, holds, got>>
eventsVars == <<server, starts, answered, logs, file, events, streams, gone>>

Event == Hook \cup 1..MaxStarts

EventsInit ==
  /\ server = "down" /\ starts = 0
  /\ answered = [w \in Hook |-> 0]
  /\ logs = <<>> /\ file = <<>>
  /\ queue = <<>> /\ put = <<>>
  /\ open = {} /\ holds = [s \in Stream |-> 0] /\ got = [s \in Stream |-> <<>>]
  /\ gone = {}

Put(e) == queue' = Append(queue, e) /\ put' = Append(put, e)

\* The lifespan handler up to init_all_self, and its end.
Start ==
  /\ server = "down" /\ starts < MaxStarts
  /\ server' = "starting" /\ starts' = starts + 1 /\ logs' = <<>>
  /\ Put(starts')
  /\ UNCHANGED <<answered, file, streams, gone>>

Serve ==
  /\ server = "starting" /\ server' = "serving"
  /\ UNCHANGED <<starts, answered, logs, file, events, streams, gone>>

Posted(w) == server = "serving" /\ answered[w] = 0

\* Mutant: the log is left to the shutdown.
WebhookUnwritten(w) ==
  /\ Posted(w)
  /\ logs' = Append(logs, w)
  /\ Put(w)
  /\ answered' = [answered EXCEPT ![w] = starts]
  /\ UNCHANGED <<server, starts, file, streams, gone>>

\* From the body of the request to the answer, nothing is awaited that blocks.
WebhookListener(w) ==
  /\ Posted(w)
  /\ logs' = Append(logs, w)
  /\ file' = logs'
  /\ Put(w)
  /\ answered' = [answered EXCEPT ![w] = starts]
  /\ UNCHANGED <<server, starts, streams, gone>>

\* The file cannot be opened, or not be written to its end: 500, and no event.
\* The agent may post again.  Bound: a webhook fails once in a process.
WebhookFails(w) ==
  /\ Posted(w) /\ ~Contains(logs, w)
  /\ logs' = Append(logs, w)
  /\ file' \in {file, Torn}
  /\ UNCHANGED <<server, starts, answered, events, streams, gone>>

-----------------------------------------------------------------------------
Connect(s) ==
  /\ server = "serving" /\ s \notin open
  /\ open' = open \cup {s}
  /\ UNCHANGED <<server, starts, answered, logs, file, events, holds, got, gone>>

Get(s) ==
  /\ s \in open /\ holds[s] = 0 /\ queue # <<>>
  /\ holds' = [holds EXCEPT ![s] = Head(queue)]
  /\ queue' = Tail(queue)
  /\ UNCHANGED <<server, starts, answered, logs, file, put, open, got, gone>>

\* Mutant: the generator ends with its first event.
YieldOnce(s) ==
  /\ holds[s] # 0 /\ got[s] = <<>>
  /\ got' = [got EXCEPT ![s] = Append(@, holds[s])]
  /\ UNCHANGED <<server, starts, answered, logs, file, events, open, holds, gone>>

Yield(s) ==
  /\ holds[s] # 0
  /\ got' = [got EXCEPT ![s] = Append(@, holds[s])]
  /\ holds' = [holds EXCEPT ![s] = 0]
  /\ UNCHANGED <<server, starts, answered, logs, file, events, open, gone>>

\* Mutant: the get of a client that leaves still takes its event.
DisconnectTaking(s) ==
  /\ s \in open
  /\ open' = open \ {s}
  /\ holds' = [holds EXCEPT ![s] = 0]
  /\ queue' = IF holds[s] = 0 /\ queue # <<>> THEN Tail(queue) ELSE queue
  /\ gone' = gone \cup ({holds[s]} \ {0})
  /\ UNCHANGED <<server, starts, answered, logs, file, put, got>>

\* The client leaves: a get that waits is cancelled and takes nothing; an
\* event that was taken goes with the connection.
Disconnect(s) ==
  /\ s \in open
  /\ open' = open \ {s}
  /\ holds' = [holds EXCEPT ![s] = 0]
  /\ gone' = gone \cup ({holds[s]} \ {0})
  /\ UNCHANGED <<server, starts, answered, logs, file, events, got>>

Ended ==
  /\ server # "down" /\ server' = "down" /\ logs' = <<>> /\ queue' = <<>> /\ open' = {}
  /\ holds' = [s \in Stream |-> 0]
  /\ gone' = gone \cup Range(queue) \cup (Range(holds) \ {0})
  /\ UNCHANGED <<starts, answered, put, got>>

\* The server waits for its streams to be closed; the lifespan handler writes
\* the log to another file, which nobody reads.
Shutdown == server = "serving" /\ open = {} /\ Ended /\ UNCHANGED file

\* The process dies, in the middle of a write maybe.
Die ==
  /\ Ended
  /\ file' \in {file} \cup {f \in {Torn} : server = "serving"}

Streams(s) == Get(s) \/ Yield(s)

EventsNext ==
  \/ Start \/ Serve \/ Shutdown \/ Die
  \/ \E w \in Hook : WebhookListener(w) \/ WebhookFails(w)
  \/ \E s \in Stream : Connect(s) \/ Streams(s) \/ Disconnect(s)

EventsSpec == EventsInit /\ [][EventsNext]_eventsVars

\* The event loop resumes a generator whose get has an event, or whose client
\* reads.
FairEventsSpec ==
  EventsSpec /\ \A s \in Stream : WF_eventsVars(Get(s)) /\ WF_eventsVars(Yield(s))
=============================================================================
