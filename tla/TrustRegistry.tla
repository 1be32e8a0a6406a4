---------------------------- MODULE TrustRegistry ---------------------------
(***************************************************************************)
(* What the whitelist endpoints and POST /aov/verify of the VC manager     *)
(* promise: every request takes effect in one instant, or not at all.      *)
(***************************************************************************)
CONSTANTS
  Call,    \* requests
  Did      \* did:key strings

VARIABLES
  durable, \* the whitelist outlives the process
  asked,   \* asked[c]: what c is, the did:key it is about and, if it is a
           \* verification, whether that key signed its JWS
  trusted, \* the did:keys on the whitelist
  outcome  \* outcome[c]: none while c is open

vars == <<durable, asked, trusted, outcome>>

Matter == [op : {"verify", "add", "remove"}, did : Did, sound : BOOLEAN]

Init ==
  /\ durable \in BOOLEAN
  /\ asked \in [Call -> Matter]
  /\ trusted \in SUBSET Did
  /\ outcome = [c \in Call |-> "none"]

Settle(c, result) ==
  /\ outcome[c] = "none"
  /\ outcome' = [outcome EXCEPT ![c] = result]

\* Trust and signature are required in one and the same instant; a refusal
\* is told its true reason.
Verify(c) ==
  /\ asked[c].op = "verify"
  /\ \/ asked[c].did \in trusted /\ asked[c].sound /\ Settle(c, "verified")
     \/ asked[c].did \in trusted /\ ~asked[c].sound /\ Settle(c, "badSignature")
     \/ asked[c].did \notin trusted /\ Settle(c, "notWhitelisted")
     \/ trusted = {} /\ Settle(c, "notConfigured")
  /\ UNCHANGED trusted

\* Adding what is there already succeeds as well.
Add(c) ==
  /\ asked[c].op = "add"
  /\ trusted' = trusted \cup {asked[c].did}
  /\ Settle(c, "ok")

Remove(c) ==
  /\ asked[c].op = "remove"
  /\ trusted' = trusted \ {asked[c].did}
  /\ Settle(c, IF asked[c].did \in trusted THEN "ok" ELSE "missing")

\* Calls fail without effect: any number of them when the service dies, and
\* with it a whitelist that is not durable.
Fail(S) ==
  /\ \A c \in S : outcome[c] = "none"
  /\ outcome' = [c \in Call |-> IF c \in S THEN "failed" ELSE outcome[c]]
  /\ \/ UNCHANGED trusted
     \/ ~durable /\ trusted' = {}

\* An update fails towards its caller although it has taken effect.
FailAfterEffect(c) ==
  /\ Settle(c, "failed")
  /\ \/ asked[c].op = "add" /\ trusted' = trusted \cup {asked[c].did}
     \/ asked[c].op = "remove" /\ trusted' = trusted \ {asked[c].did}

Next ==
  /\ \/ \E c \in Call : Verify(c) \/ Add(c) \/ Remove(c) \/ FailAfterEffect(c)
     \/ \E S \in SUBSET Call : Fail(S)
  /\ UNCHANGED <<durable, asked>>

Spec == Init /\ [][Next]_vars
=============================================================================
