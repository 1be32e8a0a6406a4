------------------------------- MODULE Issuer -------------------------------
(***************************************************************************)
(* The signing key of the VC manager (keys.py) behind POST /aov/issue and  *)
(* GET /admin/keys (routes.py).  Each handler makes its own key store, so  *)
(* the key lives in the file only; the handlers never await, so on the one *)
(* uvicorn event loop each runs to its end once begun - unless the process *)
(* dies between two of its system calls.  An operator may remove the file, *)
(* by hand or, as /data is on no volume (test-env/compose.yml), with the   *)
(* container.                                                              *)
(***************************************************************************)
CONSTANTS
  Call,    \* requests to the two endpoints
  Key,     \* Ed25519 key pairs, each named by its did:key
  Absent,  \* no key file
  Torn,    \* a key file that does not parse or is inconsistent
  NoCall,  \* the event loop is free
  NoKey

ASSUME IssuerAssumption ==
  /\ Absent \notin Key /\ Torn \notin Key /\ NoKey \notin Key
  /\ Absent # Torn
  /\ NoCall \notin Call

VARIABLES
  file,     \* content of the key file
  drawn,    \* keys SigningKey.generate has drawn: it never draws one twice
  retired,  \* keys drawn before the file was last removed
  pc,       \* pc[c]: the step the handler of c is at
  busy,     \* the call whose handler occupies the event loop
  keypair,  \* keypair[c]: what load_or_generate holds for c
  answer    \* answer[c]: the did:key that c was answered with, or an error

vars == <<file, drawn, retired, pc, busy, keypair, answer>>

Init ==
  /\ file \in {Absent, Torn} \cup Key
  /\ drawn = {file} \cap Key
  /\ retired = {}
  /\ pc = [c \in Call |-> "idle"]
  /\ busy = NoCall
  /\ keypair = [c \in Call |-> NoKey]
  /\ answer = [c \in Call |-> NoKey]

Arrive(c) ==
  /\ pc[c] = "idle"
  /\ pc' = [pc EXCEPT ![c] = "queued"]
  /\ UNCHANGED <<file, drawn, retired, busy, keypair, answer>>

\* Mutant: handlers run on a thread pool, as FastAPI does with plain defs.
BeginThreaded(c) ==
  /\ pc[c] = "queued"
  /\ busy' = c
  /\ pc' = [pc EXCEPT ![c] = "load"]
  /\ UNCHANGED <<file, drawn, retired, keypair, answer>>

\* The handler of c begins, and occupies the loop until it ends.
Begin(c) ==
  /\ pc[c] = "queued"
  /\ busy = NoCall
  /\ busy' = c
  /\ pc' = [pc EXCEPT ![c] = "load"]
  /\ UNCHANGED <<file, drawn, retired, keypair, answer>>

End(c, result) ==
  /\ busy' = NoCall
  /\ pc' = [pc EXCEPT ![c] = "done"]
  /\ answer' = [answer EXCEPT ![c] = result]
  /\ UNCHANGED <<drawn, retired, keypair>>

LoadKey(c) ==
  /\ pc[c] = "load"
  /\ file \in Key
  /\ keypair' = [keypair EXCEPT ![c] = file]
  /\ pc' = [pc EXCEPT ![c] = "answer"]
  /\ UNCHANGED <<file, drawn, retired, busy, answer>>

\* Mutants: the content of the file is passed on as a key; the handler waits
\* for the file to be repaired.
AcceptFile(c) ==
  /\ pc[c] = "load"
  /\ file = Torn
  /\ End(c, file)
  /\ UNCHANGED file

AwaitRepair(c) ==
  /\ pc[c] = "load"
  /\ file = Torn
  /\ busy' = NoCall
  /\ pc' = [pc EXCEPT ![c] = "queued"]
  /\ UNCHANGED <<file, drawn, retired, keypair, answer>>

\* "Refusing to load": the RuntimeError becomes a 500.
RefuseFile(c) ==
  /\ pc[c] = "load"
  /\ file = Torn
  /\ End(c, NoKey)
  /\ UNCHANGED file

\* Mutant: the cached pair is used and never written.
GenerateKeyInMemory(c) ==
  /\ pc[c] = "load"
  /\ file = Absent
  /\ \E k \in Key \ drawn :
       /\ drawn' = drawn \cup {k}
       /\ keypair' = [keypair EXCEPT ![c] = k]
  /\ pc' = [pc EXCEPT ![c] = "answer"]
  /\ UNCHANGED <<file, retired, busy, answer>>

\* The pair is cached in the key store of this handler, not yet on disk.
GenerateKey(c) ==
  /\ pc[c] = "load"
  /\ file = Absent
  /\ \E k \in Key \ drawn :
       /\ drawn' = drawn \cup {k}
       /\ keypair' = [keypair EXCEPT ![c] = k]
  /\ pc' = [pc EXCEPT ![c] = "open"]
  /\ UNCHANGED <<file, retired, busy, answer>>

\* write_text opens the file for writing, which creates it empty ...
OpenFile(c) ==
  /\ pc[c] = "open"
  /\ file' = Torn
  /\ pc' = [pc EXCEPT ![c] = "write"]
  /\ UNCHANGED <<drawn, retired, busy, keypair, answer>>

\* ... and then writes the two segments.
WriteFile(c) ==
  /\ pc[c] = "write"
  /\ file' = keypair[c]
  /\ pc' = [pc EXCEPT ![c] = "answer"]
  /\ UNCHANGED <<drawn, retired, busy, keypair, answer>>

\* mkdir, open or write raises (read-only or full disk): 500.
PersistFails(c) ==
  /\ pc[c] \in {"open", "write"}
  /\ End(c, NoKey)
  /\ UNCHANGED file

\* aov_issue signs with the pair, keys_view shows it.  aov_issue does not look
\* at the evaluation results that came with the call: it signs whatever they
\* say.
Answer(c) ==
  /\ pc[c] = "answer"
  /\ End(c, keypair[c])
  /\ UNCHANGED file

-----------------------------------------------------------------------------
Restart ==
  /\ pc' = [c \in Call |-> IF pc[c] \in {"idle", "done"} THEN pc[c] ELSE "lost"]
  /\ busy' = NoCall
  /\ UNCHANGED <<drawn, keypair, answer>>

\* The process dies: the file stays as it is.
Crash ==
  /\ Restart
  /\ UNCHANGED <<file, retired>>

\* The container is recreated: the file is gone as well.
Recreate ==
  /\ Restart
  /\ file' = Absent
  /\ retired' = drawn

\* The operator removes the file of a running service, between two handlers.
RemoveFile ==
  /\ busy = NoCall
  /\ file # Absent
  /\ file' = Absent
  /\ retired' = drawn
  /\ UNCHANGED <<drawn, pc, busy, keypair, answer>>

Handler(c) ==
  \/ Begin(c)
  \/ LoadKey(c)
  \/ RefuseFile(c)
  \/ GenerateKey(c)
  \/ OpenFile(c)
  \/ WriteFile(c)
  \/ PersistFails(c)
  \/ Answer(c)

Next ==
  \/ \E c \in Call : Arrive(c) \/ Handler(c)
  \/ Crash
  \/ Recreate
  \/ RemoveFile

Spec == Init /\ [][Next]_vars

\* The event loop runs what is ready; no handler awaits anything.
FairSpec == Spec /\ \A c \in Call : WF_vars(Handler(c))

TypeOK ==
  /\ file \in {Absent, Torn} \cup Key
  /\ drawn \in SUBSET Key
  /\ retired \in SUBSET drawn
  /\ pc \in [Call -> {"idle", "queued", "load", "open", "write", "answer",
                      "done", "lost"}]
  /\ busy \in Call \cup {NoCall}
  /\ keypair \in [Call -> Key \cup {NoKey}]
  /\ answer \in [Call -> Key \cup {NoKey}]
=============================================================================
