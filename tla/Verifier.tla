------------------------------ MODULE Verifier ------------------------------
(***************************************************************************)
(* The verify side of the VC manager: POST /aov/verify, with the gateway   *)
(* that relays it (aovRoutes.kt), and the whitelist of trusted attesters   *)
(* that POST and DELETE /admin/whitelist maintain (routes.py,              *)
(* whitelist.py).  With PgWhitelist a handler awaits each statement on the *)
(* table did_key_whitelist; the statements, each a transaction of its own, *)
(* interleave, and may fail, an update on either side of its commit.  The  *)
(* VC manager may die between two of them.  Without a database, its        *)
(* operator gets a FakeWhitelist, which awaits nothing and dies with it.   *)
(***************************************************************************)
CONSTANTS
  Call,       \* requests; an adding one draws a UUID, named by the call
  Did,        \* did:key strings
  Asked,      \* Asked[c]: what c may be
  ValidDid,   \* those that decode to an Ed25519 key
  Forged,     \* a JWS signed by a key that no did:key here names
  Malformed,  \* a string that is no compact JWS
  Unreadable, \* a JWS by the attester it is sent with, not over an object
  NoId,       \* no row
  Prior       \* id of a row that was there before

ASSUME DidAssumption == ValidDid \subseteq Did
ASSUME IdAssumption  == NoId \notin Call \cup {Prior}
ASSUME JwsAssumption == /\ {Forged, Malformed, Unreadable} \cap Did = {}
                        /\ Malformed # Unreadable

VARIABLES
  durable, \* the whitelist is the table of a database
  table,   \* table[d]: id of the row or entry of d
  call,    \* call[c]: the request
  pc,      \* pc[c]: the step its handler is at
  answer,  \* answer[c]: the result its handler came to
  id,      \* id[c]: the entry id in the answer to an adding call
  told     \* told[c]: what the gateway told the client of a verify call

vars == <<durable, table, call, pc, answer, id, told>>

\* A credential is represented by the did:key whose key signed it.
Jws == ValidDid \cup {Forged, Malformed, Unreadable}

Request == [op : {"verify"}, did : Did, jws : Jws]
             \cup
           [op : {"add", "remove"}, did : Did, token : {"valid", "invalid"}]

ASSUME AskedAssumption == \A c \in Call : Asked[c] \subseteq Request

Running == {"authorize", "all", "find", "insert", "select", "delete",
            "memory"}

Refusals == {"notConfigured", "notWhitelisted", "invalidDid", "mismatch"}
Results  == {"none", "verified", "201", "204", "400", "401", "404", "500", "gone"}
              \cup Refusals

Listed(d) == table[d] # NoId

Init ==
  /\ durable \in BOOLEAN
  /\ table \in [Did -> IF durable THEN {NoId, Prior} ELSE {NoId}]
  /\ call \in {f \in [Call -> Request] : \A c \in Call : f[c] \in Asked[c]}
  /\ pc = [c \in Call |-> "idle"]
  /\ answer = [c \in Call |-> "none"]
  /\ id = [c \in Call |-> NoId]
  /\ told = [c \in Call |-> "none"]

Goto(c, step) ==
  /\ pc' = [pc EXCEPT ![c] = step]
  /\ UNCHANGED <<durable, call, told>>

Finish(c, result) ==
  /\ Goto(c, "done")
  /\ answer' = [answer EXCEPT ![c] = result]

\* With a FakeWhitelist, the rest of the handler is one step.
Begin(c, step) == Goto(c, IF durable THEN step ELSE "memory")

Arrive(c) ==
  /\ pc[c] = "idle"
  /\ IF call[c].op = "verify" THEN Begin(c, "all") ELSE Goto(c, "authorize")
  /\ UNCHANGED <<table, answer, id>>

\* require_api_key, before either admin handler.
Authorize(c) ==
  /\ pc[c] = "authorize"
  /\ \/ /\ call[c].token = "invalid"
        /\ Finish(c, "401")
     \/ /\ call[c].token = "valid"
        /\ Begin(c, IF call[c].op = "add" THEN "insert" ELSE "delete")
        /\ UNCHANGED answer
  /\ UNCHANGED <<table, id>>

\* Fail closed on an empty whitelist.
All(c) ==
  /\ pc[c] = "all"
  /\ \/ /\ \A d \in Did : ~Listed(d)
        /\ Finish(c, "notConfigured")
     \/ /\ \E d \in Did : Listed(d)
        /\ Goto(c, "find")
        /\ UNCHANGED answer
  /\ UNCHANGED <<table, id>>

\* What verify_jws and decode_payload make of the JWS of c under the key of
\* the whitelist's record.
Judgement(c) ==
  IF call[c].did \notin ValidDid THEN "invalidDid"
  ELSE IF call[c].jws = Malformed THEN "400"
  ELSE IF call[c].jws = Unreadable THEN "500"
  ELSE IF call[c].jws = call[c].did THEN "verified"
  ELSE "mismatch"

\* Mutant: the entry is looked up in the list that was fetched before.
FindInList(c) ==
  /\ pc[c] = "find"
  /\ Finish(c, Judgement(c))
  /\ UNCHANGED <<table, id>>

Find(c) ==
  /\ pc[c] = "find"
  /\ Finish(c, IF Listed(call[c].did) THEN Judgement(c) ELSE "notWhitelisted")
  /\ UNCHANGED <<table, id>>

\* The UNIQUE constraint on did_key refuses a second row.
Insert(c) ==
  /\ pc[c] = "insert"
  /\ \/ /\ ~Listed(call[c].did)
        /\ table' = [table EXCEPT ![call[c].did] = c]
        /\ id' = [id EXCEPT ![c] = c]
        /\ Finish(c, "201")
     \/ /\ Listed(call[c].did)
        /\ Goto(c, "select")
        /\ UNCHANGED <<table, answer, id>>

\* Mutants: the fresh id is answered instead of the stored one; the key is.
ExistingFresh(c) == c
ExistingKey(c)   == call[c].did

Existing(c) == table[call[c].did]

SelectExisting(c) ==
  /\ pc[c] = "select"
  /\ Listed(call[c].did)
  /\ id' = [id EXCEPT ![c] = Existing(c)]
  /\ Finish(c, "201")
  /\ UNCHANGED table

\* from_row(None): the row that was in the way is gone by now.
SelectGone(c) ==
  /\ pc[c] = "select"
  /\ ~Listed(call[c].did)
  /\ Finish(c, "gone")
  /\ UNCHANGED <<table, id>>

Delete(c) ==
  /\ pc[c] = "delete"
  /\ table' = [table EXCEPT ![call[c].did] = NoId]
  /\ Finish(c, IF Listed(call[c].did) THEN "204" ELSE "404")
  /\ UNCHANGED id

\* all and find of FakeWhitelist, add, or remove.
InMemory(c) ==
  /\ pc[c] = "memory"
  /\ LET d == call[c].did
         entry == IF Listed(d) THEN table[d] ELSE c
     IN  \/ /\ call[c].op = "verify"
            /\ Finish(c, IF \A e \in Did : ~Listed(e) THEN "notConfigured"
                         ELSE IF Listed(d) THEN Judgement(c)
                         ELSE "notWhitelisted")
            /\ UNCHANGED <<table, id>>
         \/ /\ call[c].op = "add"
            /\ table' = [table EXCEPT ![d] = entry]
            /\ id' = [id EXCEPT ![c] = entry]
            /\ Finish(c, "201")
         \/ /\ call[c].op = "remove"
            /\ table' = [table EXCEPT ![d] = NoId]
            /\ Finish(c, IF Listed(d) THEN "204" ELSE "404")
            /\ UNCHANGED id

\* The statement raises; an update may have been committed all the same.
StatementFails(c) ==
  /\ pc[c] \in Running \ {"authorize", "memory"}
  /\ \/ UNCHANGED table
     \/ /\ pc[c] = "insert" /\ ~Listed(call[c].did)
        /\ table' = [table EXCEPT ![call[c].did] = c]
     \/ /\ pc[c] = "delete"
        /\ table' = [table EXCEPT ![call[c].did] = NoId]
  /\ Finish(c, "500")
  /\ UNCHANGED id

Crash ==
  /\ \E c \in Call : pc[c] \in Running
  /\ pc' = [c \in Call |-> IF pc[c] \in Running THEN "lost" ELSE pc[c]]
  /\ table' = IF durable THEN table ELSE [d \in Did |-> NoId]
  /\ UNCHANGED <<durable, call, answer, id, told>>

-----------------------------------------------------------------------------
\* The gateway has forwarded c to /aov/verify and waits.
Waiting(c) ==
  /\ call[c].op = "verify"
  /\ pc[c] # "idle"
  /\ told[c] = "none"

\* It relays the status and the body of the answer.
Relay(c) ==
  /\ Waiting(c)
  /\ answer[c] # "none"
  /\ told' = [told EXCEPT ![c] = answer[c]]
  /\ UNCHANGED <<durable, table, call, pc, answer, id>>

\* Mutant: the gateway waits without a timeout for as long as the VC manager
\* has not answered.
GiveUpAfterAnswer(c) ==
  /\ Waiting(c)
  /\ answer[c] # "none"
  /\ told' = [told EXCEPT ![c] = "502"]
  /\ UNCHANGED <<durable, table, call, pc, answer, id>>

\* Refused, reset, timed out: 502, whatever becomes of the request.
GiveUp(c) ==
  /\ Waiting(c)
  /\ told' = [told EXCEPT ![c] = "502"]
  /\ UNCHANGED <<durable, table, call, pc, answer, id>>

-----------------------------------------------------------------------------
Handler(c) ==
  \/ Authorize(c)
  \/ All(c)
  \/ Find(c)
  \/ Insert(c)
  \/ SelectExisting(c)
  \/ SelectGone(c)
  \/ Delete(c)
  \/ InMemory(c)
  \/ StatementFails(c)

Gateway(c) == Relay(c) \/ GiveUp(c)

Next ==
  \/ \E c \in Call : Arrive(c) \/ Handler(c) \/ Gateway(c)
  \/ Crash

Spec == Init /\ [][Next]_vars

\* A statement returns or raises and its handler is resumed; the gateway's
\* request ends, at the latest by the client's timeout.
FairSpec ==
  /\ Spec
  /\ \A c \in Call : WF_vars(Handler(c)) /\ WF_vars(Gateway(c))

TypeOK ==
  /\ table \in [Did -> Call \cup {NoId, Prior}]
  /\ call \in [Call -> Request]
  /\ durable \in BOOLEAN
  /\ pc \in [Call -> Running \cup {"idle", "done", "lost"}]
  /\ answer \in [Call -> Results]
  /\ id \in [Call -> Call \cup {NoId, Prior}]
  /\ told \in [Call -> Results \cup {"502"}]
=============================================================================
