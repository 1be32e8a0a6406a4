----------------------------- MODULE AcaPyProofs -----------------------------
(***************************************************************************)
(* Proofs about the ACA-Py controller, for any number of requests, rows and*)
(* runs of init_all_self (properties in AcaPyProps); and, from the section *)
(* about module AcaPyEvents on, about its log and its event streams        *)
(* (properties in AcaPyEventsProps).                                       *)
(***************************************************************************)
EXTENDS AcaPyProps, AcaPyEventsProps, SequenceTheorems, TLAPS

-----------------------------------------------------------------------------
(* The inductive invariant, in parts.                                      *)

\* A handler occupies the event loop from its first call of the agent to its
\* end, but for generate_aov, which awaits the database.
LoopInv ==
  /\ \A h \in Handlers : pc[h] \in InitSteps \cup {"attester"} <=> busy = h
  /\ \A h \in Handlers : pc[h] \in InitSteps => begun # 0
  /\ pc[Startup] \notin {"update", "attester"}

\* The step a call is at tells what was asked, and only a call that has ended
\* has an answer.
RequestInv ==
  \A c \in Call :
    /\ pc[c] = "idle" <=> request[c] = None
    /\ pc[c] \in InitSteps => Initializes(c)
    /\ pc[c] = "attester" => request[c].op = "present"
    /\ answer[c] # None => pc[c] = "done"

\* The agent has issued for whoever awaits the database, and for nobody who
\* has not begun; no other request than generate_aov leaves a credential.
IssuedInv ==
  /\ \A c \in Call : pc[c] = "update" => Generates(c) /\ Issued(c)
  /\ \A x \in creds : Generates(x.call) /\ pc[x.call] \in {"update", "done", "lost"}

\* The two globals are of one run, or of a run that has failed since it set
\* the first one, or that is between the two steps that set them.
PairInv ==
  /\ \A h \in Handlers : pc[h] \in {"credDef", "offer"} => selfConn = Invitee
  /\ \A h \in Handlers : pc[h] = "offer" => credDef = begun
  /\ selfConn # None /\ credDef # None =>
       \/ selfConn.of = credDef
       \/ selfConn.of \in failed
       \/ \E h \in Handlers : pc[h] = "credDef"

IInv ==
  /\ TypeOK
  /\ LoopInv
  /\ RequestInv
  /\ IssuedInv
  /\ LogAgrees
  /\ PairInv
  /\ MixedPairNeedsFailure

-----------------------------------------------------------------------------
\* What a credential may be issued with: both globals, or another connection
\* and the definition of the file.
LEMMA PairsChosen ==
  ASSUME TypeOK, NEW c \in Call, Generates(c), NEW x \in Pairs(c)
  PROVE  /\ x \in [conn : SelfConn \cup PeerConn, credDef : Run \cup {FileCredDef}]
         /\ \/ x.conn = selfConn /\ selfConn # None
               /\ x.credDef = credDef /\ credDef # None
            \/ x.credDef = FileCredDef
  <1> USE DEF TypeOK
  <1>1. CASE request[c].target = "self"
    BY <1>1 DEF Pairs
  <1>2. CASE request[c].target = "peer"
    BY <1>2 DEF Pairs
  <1>3. CASE request[c].target = "other"
    BY <1>3 DEF Pairs
  <1>4. request[c].target \in {"self", "peer", "other"}
    BY DEF Generates, Request
  <1> QED
    BY <1>1, <1>2, <1>3, <1>4

\* A run that is under way is one of the runs.
LEMMA RunUnderWay ==
  ASSUME TypeOK, LoopInv, NEW h \in Handlers, pc[h] \in InitSteps
  PROVE  begun \in Run /\ begun \in 1..begun
  BY ControllerAssumption DEF TypeOK, LoopInv, Run

\* A credential is issued for the call that asked.
LEMMA CredentialType ==
  ASSUME TypeOK, NEW c \in Call, Generates(c), NEW x \in Pairs(c)
  PROVE  CredentialFor(c, x) \in [call : Call, conn : SelfConn \cup PeerConn,
                                  credDef : Run \cup {FileCredDef}]
  BY PairsChosen DEF CredentialFor

\* Every step keeps the types.
LEMMA TypeStep == IInv /\ [Next]_vars => TypeOK'
  <1> SUFFICES ASSUME IInv, [Next]_vars PROVE TypeOK'
    OBVIOUS
  <1> USE ControllerAssumption
      DEF IInv, TypeOK, LoopInv, Run, Handlers, SelfConn, PeerConn, InitSteps, Occupy,
          Finish, Ready, Inviter, Invitee, Result, globals, control, runs
  <1>1. ASSUME NEW h \in Handlers, Invite(h) PROVE TypeOK'
    BY <1>1 DEF Invite
  <1>2. ASSUME NEW h \in Handlers, Receive(h) PROVE TypeOK'
    BY <1>2 DEF Receive
  <1>3. ASSUME NEW h \in Handlers, Activated(h) PROVE TypeOK'
    BY <1>3 DEF Activated
  <1>4. ASSUME NEW h \in Handlers, CreateCredDef(h) PROVE TypeOK'
    BY <1>4 DEF CreateCredDef
  <1>5. ASSUME NEW h \in Handlers, Offer(h) PROVE TypeOK'
    BY <1>5 DEF Offer
  <1>6. ASSUME NEW h \in Handlers, InitFails(h) PROVE TypeOK'
    <2>1. CASE Ready(h) /\ Initializes(h) /\ UNCHANGED <<conns, failed>>
      BY <1>6, <2>1 DEF InitFails
    <2>2. ASSUME pc[h] \in InitSteps PROVE TypeOK'
      <3>1. begun \in 1..begun
        BY <2>2, RunUnderWay
      <3>2. begun' = begun /\ failed' \in SUBSET (1..begun)
        BY <1>6, <3>1 DEF InitFails
      <3>3. conns' \in SUBSET (SelfConn \cup PeerConn)
        BY <1>6, <2>2, RunUnderWay DEF InitFails
      <3> QED
        BY <1>6, <3>2, <3>3 DEF InitFails
    <2> QED
      BY <1>6, <2>1, <2>2 DEF InitFails
  <1>7. ASSUME NEW c \in Call, Arrive(c) PROVE TypeOK'
    BY <1>7 DEF Arrive, Request
  <1>8. ASSUME NEW c \in Call, Refuse(c) PROVE TypeOK'
    BY <1>8 DEF Refuse, Begins, Generates
  <1>9. ASSUME NEW c \in Call, Issue(c) PROVE TypeOK'
    <2>1. creds' \in SUBSET [call : Call, conn : SelfConn \cup PeerConn,
                             credDef : Run \cup {FileCredDef}]
      BY <1>9, CredentialType DEF Issue, Begins
    <2> QED
      BY <1>9, <2>1 DEF Issue
  <1>10. ASSUME NEW c \in Call, IssueFails(c) PROVE TypeOK'
    <2>1. creds' \in SUBSET [call : Call, conn : SelfConn \cup PeerConn,
                             credDef : Run \cup {FileCredDef}]
      BY <1>10, CredentialType DEF IssueFails, Begins
    <2> QED
      BY <1>10, <2>1 DEF IssueFails
  <1>11. ASSUME NEW c \in Call, Update(c) PROVE TypeOK'
    BY <1>11 DEF Update, Awaits, SetVcId
  <1>12. ASSUME NEW c \in Call, UpdateFails(c) PROVE TypeOK'
    BY <1>12 DEF UpdateFails, Awaits, SetVcId
  <1>13. ASSUME NEW c \in Call, InviteAttester(c) PROVE TypeOK'
    BY <1>13 DEF InviteAttester
  <1>14. ASSUME NEW c \in Call, Ask(c) PROVE TypeOK'
    BY <1>14 DEF Ask
  <1>15. ASSUME NEW c \in Call, PresentFails(c) PROVE TypeOK'
    BY <1>15 DEF PresentFails
  <1>16. CASE PeerConnects
    BY <1>16 DEF PeerConnects
  <1>17. CASE Crash
    BY <1>17 DEF Crash
  <1>18. CASE UNCHANGED vars
    BY <1>18 DEF vars
  <1> QED
    BY <1>1, <1>2, <1>3, <1>4, <1>5, <1>6, <1>7, <1>8, <1>9, <1>10, <1>11,
       <1>12, <1>13, <1>14, <1>15, <1>16, <1>17, <1>18
    DEF Next, Handle, Initialize, Generate, Present

\* One handler at a time holds the event loop.
LEMMA LoopStep == IInv /\ [Next]_vars => LoopInv'
  <1> SUFFICES ASSUME IInv, [Next]_vars PROVE LoopInv'
    OBVIOUS
  <1> USE ControllerAssumption
      DEF IInv, TypeOK, Handlers, InitSteps, Occupy, Finish, Ready, Result, globals,
          control, runs, LoopInv
  <1>1. ASSUME NEW h \in Handlers, Invite(h) PROVE LoopInv'
    BY <1>1 DEF Invite
  <1>2. ASSUME NEW h \in Handlers, Receive(h) PROVE LoopInv'
    BY <1>2 DEF Receive
  <1>3. ASSUME NEW h \in Handlers, Activated(h) PROVE LoopInv'
    BY <1>3 DEF Activated
  <1>4. ASSUME NEW h \in Handlers, CreateCredDef(h) PROVE LoopInv'
    BY <1>4 DEF CreateCredDef
  <1>5. ASSUME NEW h \in Handlers, Offer(h) PROVE LoopInv'
    BY <1>5 DEF Offer
  <1>6. ASSUME NEW h \in Handlers, InitFails(h) PROVE LoopInv'
    BY <1>6 DEF InitFails
  <1>7. ASSUME NEW c \in Call, Arrive(c) PROVE LoopInv'
    BY <1>7 DEF Arrive
  <1>8. ASSUME NEW c \in Call, Refuse(c) PROVE LoopInv'
    BY <1>8 DEF Refuse, Begins
  <1>9. ASSUME NEW c \in Call, Issue(c) PROVE LoopInv'
    BY <1>9 DEF Issue, Begins, CredentialFor
  <1>10. ASSUME NEW c \in Call, IssueFails(c) PROVE LoopInv'
    BY <1>10 DEF IssueFails, Begins, CredentialFor
  <1>11. ASSUME NEW c \in Call, Update(c) PROVE LoopInv'
    BY <1>11 DEF Update, Awaits, SetVcId
  <1>12. ASSUME NEW c \in Call, UpdateFails(c) PROVE LoopInv'
    BY <1>12 DEF UpdateFails, Awaits, SetVcId
  <1>13. ASSUME NEW c \in Call, InviteAttester(c) PROVE LoopInv'
    BY <1>13 DEF InviteAttester
  <1>14. ASSUME NEW c \in Call, Ask(c) PROVE LoopInv'
    BY <1>14 DEF Ask
  <1>15. ASSUME NEW c \in Call, PresentFails(c) PROVE LoopInv'
    BY <1>15 DEF PresentFails
  <1>16. CASE PeerConnects
    BY <1>16 DEF PeerConnects
  <1>17. CASE Crash
    BY <1>17 DEF Crash
  <1>18. CASE UNCHANGED vars
    BY <1>18 DEF vars
  <1> QED
    BY <1>1, <1>2, <1>3, <1>4, <1>5, <1>6, <1>7, <1>8, <1>9, <1>10, <1>11,
       <1>12, <1>13, <1>14, <1>15, <1>16, <1>17, <1>18
    DEF Next, Handle, Initialize, Generate, Present

\* Requests do not change once they have arrived.
LEMMA RequestStep == IInv /\ [Next]_vars => RequestInv'
  <1> SUFFICES ASSUME IInv, [Next]_vars PROVE RequestInv'
    OBVIOUS
  <1> USE ControllerAssumption, NoneAssumption
      DEF IInv, TypeOK, Handlers, InitSteps, Occupy, Finish, Ready, Result, globals,
          control, runs, LoopInv, RequestInv, Initializes, Request, Generates
  <1>1. ASSUME NEW h \in Handlers, Invite(h) PROVE RequestInv'
    BY <1>1 DEF Invite
  <1>2. ASSUME NEW h \in Handlers, Receive(h) PROVE RequestInv'
    BY <1>2 DEF Receive
  <1>3. ASSUME NEW h \in Handlers, Activated(h) PROVE RequestInv'
    BY <1>3 DEF Activated
  <1>4. ASSUME NEW h \in Handlers, CreateCredDef(h) PROVE RequestInv'
    BY <1>4 DEF CreateCredDef
  <1>5. ASSUME NEW h \in Handlers, Offer(h) PROVE RequestInv'
    BY <1>5 DEF Offer
  <1>6. ASSUME NEW h \in Handlers, InitFails(h) PROVE RequestInv'
    BY <1>6 DEF InitFails
  <1>7. ASSUME NEW c \in Call, Arrive(c) PROVE RequestInv'
    BY <1>7 DEF Arrive
  <1>8. ASSUME NEW c \in Call, Refuse(c) PROVE RequestInv'
    BY <1>8 DEF Refuse, Begins
  <1>9. ASSUME NEW c \in Call, Issue(c) PROVE RequestInv'
    BY <1>9 DEF Issue, Begins, CredentialFor
  <1>10. ASSUME NEW c \in Call, IssueFails(c) PROVE RequestInv'
    BY <1>10 DEF IssueFails, Begins, CredentialFor
  <1>11. ASSUME NEW c \in Call, Update(c) PROVE RequestInv'
    BY <1>11 DEF Update, Awaits, SetVcId
  <1>12. ASSUME NEW c \in Call, UpdateFails(c) PROVE RequestInv'
    BY <1>12 DEF UpdateFails, Awaits, SetVcId
  <1>13. ASSUME NEW c \in Call, InviteAttester(c) PROVE RequestInv'
    BY <1>13 DEF InviteAttester
  <1>14. ASSUME NEW c \in Call, Ask(c) PROVE RequestInv'
    BY <1>14 DEF Ask
  <1>15. ASSUME NEW c \in Call, PresentFails(c) PROVE RequestInv'
    BY <1>15 DEF PresentFails
  <1>16. CASE PeerConnects
    BY <1>16 DEF PeerConnects
  <1>17. CASE Crash
    BY <1>17 DEF Crash
  <1>18. CASE UNCHANGED vars
    BY <1>18 DEF vars
  <1> QED
    BY <1>1, <1>2, <1>3, <1>4, <1>5, <1>6, <1>7, <1>8, <1>9, <1>10, <1>11,
       <1>12, <1>13, <1>14, <1>15, <1>16, <1>17, <1>18
    DEF Next, Handle, Initialize, Generate, Present

\* Credentials are issued where generate_aov goes on to its update, or ends.
LEMMA IssuedStep == IInv /\ [Next]_vars => IssuedInv'
  <1> SUFFICES ASSUME IInv, [Next]_vars PROVE IssuedInv'
    OBVIOUS
  <1> USE ControllerAssumption
      DEF IInv, TypeOK, Handlers, InitSteps, Occupy, Finish, Ready, Result, globals,
          control, runs, LoopInv, RequestInv, IssuedInv, Issued, Generates, Initializes
  <1>1. ASSUME NEW h \in Handlers, Invite(h) PROVE IssuedInv'
    BY <1>1 DEF Invite
  <1>2. ASSUME NEW h \in Handlers, Receive(h) PROVE IssuedInv'
    BY <1>2 DEF Receive
  <1>3. ASSUME NEW h \in Handlers, Activated(h) PROVE IssuedInv'
    BY <1>3 DEF Activated
  <1>4. ASSUME NEW h \in Handlers, CreateCredDef(h) PROVE IssuedInv'
    BY <1>4 DEF CreateCredDef
  <1>5. ASSUME NEW h \in Handlers, Offer(h) PROVE IssuedInv'
    BY <1>5 DEF Offer
  <1>6. ASSUME NEW h \in Handlers, InitFails(h) PROVE IssuedInv'
    BY <1>6 DEF InitFails
  <1>7. ASSUME NEW c \in Call, Arrive(c) PROVE IssuedInv'
    BY <1>7 DEF Arrive
  <1>8. ASSUME NEW c \in Call, Refuse(c) PROVE IssuedInv'
    <2>1. pc[c] = "queued" /\ pc' = [pc EXCEPT ![c] = "done"]
          /\ UNCHANGED <<creds, request>>
      BY <1>8 DEF Refuse, Begins
    <2>2. \A d \in Call : pc'[d] = "update" => Generates(d)' /\ Issued(d)'
      BY <2>1
    <2>3. \A x \in creds : x.call \in Call /\ x.call # c
      BY <2>1
    <2> QED
      BY <2>1, <2>2, <2>3
  <1>9. ASSUME NEW c \in Call, Issue(c) PROVE IssuedInv'
    <2>1. PICK x \in Pairs(c) : creds' = creds \cup {CredentialFor(c, x)}
      BY <1>9 DEF Issue
    <2>2. Begins(c) /\ pc' = [pc EXCEPT ![c] = "update"] /\ request' = request
      BY <1>9 DEF Issue
    <2>3. CredentialFor(c, x).call = c
      BY DEF CredentialFor
    <2> QED
      BY <2>1, <2>2, <2>3 DEF Begins
  <1>10. ASSUME NEW c \in Call, IssueFails(c) PROVE IssuedInv'
    BY <1>10 DEF IssueFails, Begins, CredentialFor
  <1>11. ASSUME NEW c \in Call, Update(c) PROVE IssuedInv'
    BY <1>11 DEF Update, Awaits, SetVcId
  <1>12. ASSUME NEW c \in Call, UpdateFails(c) PROVE IssuedInv'
    BY <1>12 DEF UpdateFails, Awaits, SetVcId
  <1>13. ASSUME NEW c \in Call, InviteAttester(c) PROVE IssuedInv'
    BY <1>13 DEF InviteAttester
  <1>14. ASSUME NEW c \in Call, Ask(c) PROVE IssuedInv'
    BY <1>14 DEF Ask
  <1>15. ASSUME NEW c \in Call, PresentFails(c) PROVE IssuedInv'
    BY <1>15 DEF PresentFails
  <1>16. CASE PeerConnects
    BY <1>16 DEF PeerConnects
  <1>17. CASE Crash
    BY <1>17 DEF Crash
  <1>18. CASE UNCHANGED vars
    BY <1>18 DEF vars
  <1> QED
    BY <1>1, <1>2, <1>3, <1>4, <1>5, <1>6, <1>7, <1>8, <1>9, <1>10, <1>11,
       <1>12, <1>13, <1>14, <1>15, <1>16, <1>17, <1>18
    DEF Next, Handle, Initialize, Generate, Present

\* A row is written by a call that was issued a credential, and no row is emptied.
LEMMA LogStep == IInv /\ [Next]_vars => LogAgrees'
  <1> SUFFICES ASSUME IInv, [Next]_vars PROVE LogAgrees'
    OBVIOUS
  <1> USE ControllerAssumption, NoneAssumption
      DEF IInv, TypeOK, Handlers, InitSteps, Occupy, Finish, Ready, Result, globals,
          control, runs, RequestInv, IssuedInv, LogAgrees, Logs, Issued, Generates, Initializes
  <1>1. ASSUME NEW h \in Handlers, Invite(h) PROVE LogAgrees'
    BY <1>1 DEF Invite
  <1>2. ASSUME NEW h \in Handlers, Receive(h) PROVE LogAgrees'
    BY <1>2 DEF Receive
  <1>3. ASSUME NEW h \in Handlers, Activated(h) PROVE LogAgrees'
    BY <1>3 DEF Activated
  <1>4. ASSUME NEW h \in Handlers, CreateCredDef(h) PROVE LogAgrees'
    BY <1>4 DEF CreateCredDef
  <1>5. ASSUME NEW h \in Handlers, Offer(h) PROVE LogAgrees'
    BY <1>5 DEF Offer
  <1>6. ASSUME NEW h \in Handlers, InitFails(h) PROVE LogAgrees'
    BY <1>6 DEF InitFails
  <1>7. ASSUME NEW c \in Call, Arrive(c) PROVE LogAgrees'
    <2>1. /\ pc[c] = "idle" /\ request[c] = None
          /\ \A d \in Call \ {c} : request'[d] = request[d] /\ pc'[d] = pc[d]
          /\ UNCHANGED <<creds, rows, answer>>
      BY <1>7 DEF Arrive
    <2>2. ~Issued(c)' /\ answer'[c] # "200"
      <3>1. \A x \in creds : x.call # c
        BY <2>1
      <3>2. answer[c] = None
        BY <2>1
      <3> QED
        BY <2>1, <3>1, <3>2
    <2>3. \A r \in Row : rows[r] # c
      BY <2>1
    <2>4. \A d \in Call \ {c}, r \in Row :
            (Logs(d, r)' <=> Logs(d, r)) /\ (Issued(d)' <=> Issued(d))
      BY <2>1
    <2> QED
      BY <2>1, <2>2, <2>3, <2>4
  <1>8. ASSUME NEW c \in Call, Refuse(c) PROVE LogAgrees'
    BY <1>8 DEF Refuse, Begins
  <1>9. ASSUME NEW c \in Call, Issue(c) PROVE LogAgrees'
    BY <1>9 DEF Issue, Begins, CredentialFor
  <1>10. ASSUME NEW c \in Call, IssueFails(c) PROVE LogAgrees'
    BY <1>10 DEF IssueFails, Begins, CredentialFor
  <1>11. ASSUME NEW c \in Call, Update(c) PROVE LogAgrees'
    BY <1>11 DEF Update, Awaits, SetVcId
  <1>12. ASSUME NEW c \in Call, UpdateFails(c) PROVE LogAgrees'
    BY <1>12 DEF UpdateFails, Awaits, SetVcId
  <1>13. ASSUME NEW c \in Call, InviteAttester(c) PROVE LogAgrees'
    BY <1>13 DEF InviteAttester
  <1>14. ASSUME NEW c \in Call, Ask(c) PROVE LogAgrees'
    BY <1>14 DEF Ask
  <1>15. ASSUME NEW c \in Call, PresentFails(c) PROVE LogAgrees'
    BY <1>15 DEF PresentFails
  <1>16. CASE PeerConnects
    BY <1>16 DEF PeerConnects
  <1>17. CASE Crash
    BY <1>17 DEF Crash
  <1>18. CASE UNCHANGED vars
    BY <1>18 DEF vars
  <1> QED
    BY <1>1, <1>2, <1>3, <1>4, <1>5, <1>6, <1>7, <1>8, <1>9, <1>10, <1>11,
       <1>12, <1>13, <1>14, <1>15, <1>16, <1>17, <1>18
    DEF Next, Handle, Initialize, Generate, Present

\* The globals keep to one run, but for runs that fail between their two steps.
LEMMA PairStep == IInv /\ [Next]_vars => PairInv'
  <1> SUFFICES ASSUME IInv, [Next]_vars PROVE PairInv'
    OBVIOUS
  <1> USE ControllerAssumption, NoneAssumption
      DEF IInv, TypeOK, Handlers, InitSteps, Occupy, Finish, Ready, Result, globals,
          control, runs, Invitee, Inviter, SelfConn, Run, LoopInv, PairInv
  <1>1. ASSUME NEW h \in Handlers, Invite(h) PROVE PairInv'
    BY <1>1 DEF Invite
  <1>2. ASSUME NEW h \in Handlers, Receive(h) PROVE PairInv'
    BY <1>2 DEF Receive
  <1>3. ASSUME NEW h \in Handlers, Activated(h) PROVE PairInv'
    BY <1>3 DEF Activated
  <1>4. ASSUME NEW h \in Handlers, CreateCredDef(h) PROVE PairInv'
    BY <1>4 DEF CreateCredDef
  <1>5. ASSUME NEW h \in Handlers, Offer(h) PROVE PairInv'
    BY <1>5 DEF Offer
  <1>6. ASSUME NEW h \in Handlers, InitFails(h) PROVE PairInv'
    BY <1>6 DEF InitFails
  <1>7. ASSUME NEW c \in Call, Arrive(c) PROVE PairInv'
    BY <1>7 DEF Arrive
  <1>8. ASSUME NEW c \in Call, Refuse(c) PROVE PairInv'
    BY <1>8 DEF Refuse, Begins
  <1>9. ASSUME NEW c \in Call, Issue(c) PROVE PairInv'
    BY <1>9 DEF Issue, Begins, CredentialFor
  <1>10. ASSUME NEW c \in Call, IssueFails(c) PROVE PairInv'
    BY <1>10 DEF IssueFails, Begins, CredentialFor
  <1>11. ASSUME NEW c \in Call, Update(c) PROVE PairInv'
    BY <1>11 DEF Update, Awaits, SetVcId
  <1>12. ASSUME NEW c \in Call, UpdateFails(c) PROVE PairInv'
    BY <1>12 DEF UpdateFails, Awaits, SetVcId
  <1>13. ASSUME NEW c \in Call, InviteAttester(c) PROVE PairInv'
    BY <1>13 DEF InviteAttester
  <1>14. ASSUME NEW c \in Call, Ask(c) PROVE PairInv'
    BY <1>14 DEF Ask
  <1>15. ASSUME NEW c \in Call, PresentFails(c) PROVE PairInv'
    BY <1>15 DEF PresentFails
  <1>16. CASE PeerConnects
    BY <1>16 DEF PeerConnects
  <1>17. CASE Crash
    BY <1>17 DEF Crash
  <1>18. CASE UNCHANGED vars
    BY <1>18 DEF vars
  <1> QED
    BY <1>1, <1>2, <1>3, <1>4, <1>5, <1>6, <1>7, <1>8, <1>9, <1>10, <1>11,
       <1>12, <1>13, <1>14, <1>15, <1>16, <1>17, <1>18
    DEF Next, Handle, Initialize, Generate, Present

\* What a step does to the credentials: generate_aov adds one, when no run of
\* init_all_self is under way; a run that failed has failed for good.
LEMMA CredentialsGrow ==
  ASSUME IInv, [Next]_vars
  PROVE  /\ \/ creds' = creds
            \/ \E c \in Call : \E x \in Pairs(c) :
                 Begins(c) /\ creds' = creds \cup {CredentialFor(c, x)}
         /\ failed \subseteq failed'
  BY DEF Next, Handle, Initialize, Generate, Present, Invite, Receive, Activated,
         CreateCredDef, Offer, InitFails, Arrive, Refuse, Issue, IssueFails, Update,
         UpdateFails, InviteAttester, Ask, PresentFails, PeerConnects, Crash, vars,
         runs, Occupy, Finish

\* A credential takes both globals or neither, and at a time when both are of
\* one run or the first one's run has failed.
LEMMA MixedStep == IInv /\ [Next]_vars => MixedPairNeedsFailure'
  <1> SUFFICES ASSUME IInv, [Next]_vars, NEW y \in creds', y.credDef \in Run
               PROVE  y.conn.of = y.credDef \/ y.conn.of \in failed'
    BY DEF MixedPairNeedsFailure
  <1>1. CASE y \in creds
    BY <1>1, CredentialsGrow DEF IInv, MixedPairNeedsFailure
  <1>2. CASE y \notin creds
    <2>0. PICK c \in Call : \E x \in Pairs(c) : Begins(c) /\ y = CredentialFor(c, x)
      BY <1>2, CredentialsGrow
    <2>1. PICK x \in Pairs(c) : Begins(c) /\ y = CredentialFor(c, x)
      BY <2>0
    <2>2. y.conn = x.conn /\ y.credDef = x.credDef
      BY <2>1 DEF CredentialFor
    <2>3. y.conn = selfConn /\ selfConn # None /\ y.credDef = credDef /\ credDef # None
      BY <2>1, <2>2, PairsChosen, ControllerAssumption DEF IInv, Begins, Run
    <2>4. \A h \in Handlers : pc[h] # "credDef"
      BY <2>1, ControllerAssumption
      DEF Begins, Ready, IInv, TypeOK, LoopInv, InitSteps, Handlers
    <2> QED
      BY <2>3, <2>4, CredentialsGrow DEF IInv, PairInv
  <1> QED
    BY <1>1, <1>2

\* The inductive invariant holds in every reachable state.
LEMMA Invariance == Spec => []IInv
  <1>1. Init => IInv
    BY ControllerAssumption, NoneAssumption
    DEF Init, IInv, TypeOK, LoopInv, RequestInv, IssuedInv, LogAgrees, PairInv,
        MixedPairNeedsFailure, Handlers, InitSteps, Initializes, Logs, Generates,
        Issued
  <1>2. IInv /\ [Next]_vars => IInv'
    BY TypeStep, LoopStep, RequestStep, IssuedStep, LogStep, PairStep, MixedStep
    DEF IInv
  <1> QED
    BY <1>1, <1>2, PTL DEF Spec

-----------------------------------------------------------------------------
\* Every reachable state of the controller has the declared types.
THEOREM AcaPyTypeCorrect == Spec => []TypeOK
  <1>1. IInv => TypeOK
    BY DEF IInv
  <1> QED
    BY <1>1, Invariance, PTL

\* request_logs names a credential only if it was issued for that request, and
\* whoever was told 200 has it in its row (controller.py, generate_aov).
THEOREM LogsAgree == Spec => []LogAgrees
  <1>1. IInv => LogAgrees
    BY DEF IInv
  <1> QED
    BY <1>1, Invariance, PTL

\* No interleaving of runs and requests makes a credential of the connection of
\* one run and the credential definition of another, unless the run of the
\* connection failed (controller.py, init_all_self and generate_aov).
THEOREM MixedPairsNeedFailures == Spec => []MixedPairNeedsFailure
  <1>1. IInv => MixedPairNeedsFailure
    BY DEF IInv
  <1> QED
    BY <1>1, Invariance, PTL

-----------------------------------------------------------------------------
(* The event streams and the log (module AcaPyEvents, properties in        *)
(* AcaPyEventsProps), for any number of webhooks, streams and processes.   *)

\* q is what is left of p when its first events are taken.
Suffix(q, p) == \E n \in 0..Len(p) : q = SubSeq(p, n + 1, Len(p))

Distinct(p) == \A i, j \in DOMAIN p : p[i] = p[j] => i = j

\* The events of g come in the order of p.
Ordered(g, p) ==
  \A k, l \in DOMAIN g : \A i, j \in DOMAIN p :
    (k < l /\ g[k] = p[i] /\ g[l] = p[j]) => i < j

\* In p, the event e comes after those of g.
After(e, g, p) ==
  \A k \in DOMAIN g : \A i, j \in DOMAIN p : (g[k] = p[i] /\ e = p[j]) => i < j

\* The events in P are in Q, with one of the streams, or in Z: in one of them.
Places(P, Q, T, Z) ==
  /\ \A e : e \in P <=> e \in Q \/ e \in Z \/ \E s \in Stream : e \in T[s]
  /\ \A e : e \in Q => e \notin Z /\ \A s \in Stream : e \notin T[s]
  /\ \A s \in Stream : \A e \in T[s] : e \notin Z
  /\ \A s, t \in Stream : \A e : s # t => e \notin T[s] \/ e \notin T[t]

Takes == [s \in Stream |-> Taken(s)]

-----------------------------------------------------------------------------
(* The inductive invariant, in parts.                                      *)

EventsTypeInv ==
  /\ server \in {"down", "starting", "serving"}
  /\ starts \in 0..MaxStarts
  /\ answered \in [Hook -> 0..MaxStarts]
  /\ logs \in Seq(Hook) /\ file \in Seq(Hook) \cup {Torn}
  /\ queue \in Seq(Event) /\ put \in Seq(Event)
  /\ open \subseteq Stream
  /\ holds \in [Stream -> Event \cup {0}] /\ got \in [Stream -> Seq(Event)]
  /\ gone \subseteq Event

\* The log in memory has the webhooks that the running process has answered.
AnsweredInv ==
  /\ server # "down" => starts # 0
  /\ \A w \in Hook :
       /\ answered[w] <= starts
       /\ server = "starting" => answered[w] < starts
       /\ server = "serving" /\ answered[w] = starts => Contains(logs, w)

\* An event comes from a process that was started or from an answered webhook.
OriginInv ==
  \A e \in Range(put) : e \in 1..starts \/ (e \in Hook /\ answered[e] # 0)

\* The queue is the end of what was put, each event is at one place, and a
\* client gets what its stream holds after what it got.
PlacesInv ==
  /\ Distinct(put) /\ Suffix(queue, put)
  /\ Places(Range(put), Range(queue), Takes, gone)

StreamsInv ==
  \A s \in Stream :
    /\ holds[s] \notin Range(got[s])
    /\ Ordered(got[s], put) /\ After(holds[s], got[s], put)

EventsInv ==
  EventsTypeInv /\ AnsweredInv /\ LogKeepsAnswered /\ OriginInv
  /\ PlacesInv /\ StreamsInv

-----------------------------------------------------------------------------
(* Lemmas about the sequences.                                             *)

LEMMA Appending ==
  ASSUME NEW S, NEW f \in Seq(S), NEW e
  PROVE  /\ Len(Append(f, e)) = Len(f) + 1 /\ Len(f) \in Nat
         /\ DOMAIN f = 1..Len(f) /\ DOMAIN Append(f, e) = 1..(Len(f) + 1)
         /\ \A k \in 1..Len(f) : Append(f, e)[k] = f[k]
         /\ Append(f, e)[Len(f) + 1] = e
         /\ Range(Append(f, e)) = Range(f) \cup {e}
         /\ e \in S => Append(f, e) \in Seq(S)
  <1>1. /\ Len(Append(f, e)) = Len(f) + 1 /\ Len(f) \in Nat
        /\ DOMAIN f = 1..Len(f) /\ DOMAIN Append(f, e) = 1..(Len(f) + 1)
        /\ \A k \in 1..Len(f) : Append(f, e)[k] = f[k]
        /\ Append(f, e)[Len(f) + 1] = e
        /\ e \in S => Append(f, e) \in Seq(S)
    OBVIOUS
  <1> DEFINE g == Append(f, e)
             n == Len(f)
  <1>2. ASSUME NEW x PROVE x \in Range(g) <=> x \in Range(f) \cup {e}
    <2>1. \A k \in 1..(n + 1) : k \in 1..n \/ k = n + 1
      BY <1>1
    <2>2. \A k \in 1..n : k \in 1..(n + 1)
      BY <1>1
    <2>3. n + 1 \in 1..(n + 1)
      BY <1>1
    <2> HIDE DEF g, n
    <2>4. /\ DOMAIN g = 1..(n + 1) /\ DOMAIN f = 1..n
          /\ \A k \in 1..n : g[k] = f[k]
          /\ g[n + 1] = e
      BY <1>1 DEF g, n
    <2> QED
      BY <2>1, <2>2, <2>3, <2>4, Zenon DEF Range
  <1> QED
    BY <1>1, <1>2

LEMMA Remaining ==
  ASSUME NEW S, NEW p \in Seq(S), NEW n \in 0..Len(p)
  PROVE  LET q == SubSeq(p, n + 1, Len(p)) IN
         /\ q \in Seq(S) /\ Len(q) = Len(p) - n /\ DOMAIN q = 1..(Len(p) - n)
         /\ \A k \in 1..(Len(p) - n) : q[k] = p[n + k]
  <1> DEFINE m == Len(p)
             q == SubSeq(p, n + 1, m)
  <1>1. m \in Nat /\ n \in Nat /\ n <= m /\ n + 1 \in Int /\ m \in Int
    OBVIOUS
  <1>2. \A k \in (n + 1)..m : p[k] \in S
    BY <1>1
  <1>3. /\ q \in Seq(S)
        /\ Len(q) = IF n + 1 <= m THEN m - (n + 1) + 1 ELSE 0
        /\ \A k \in 1..(m - (n + 1) + 1) : q[k] = p[(n + 1) + (k - 1)]
    <2> HIDE DEF m
    <2> QED
      BY <1>1, <1>2, SubSeqProperties
  <1> HIDE DEF m, q
  <1>4. m - (n + 1) + 1 = m - n
    BY <1>1
  <1>5. Len(q) = m - n
    BY <1>1, <1>3, <1>4
  <1>6. ASSUME NEW k \in 1..(m - n) PROVE (n + 1) + (k - 1) = n + k
    BY <1>1
  <1>7. \A k \in 1..(m - n) : q[k] = p[n + k]
    BY <1>3, <1>4, <1>6
  <1>8. DOMAIN q = 1..(m - n)
    BY <1>3, <1>5
  <1> QED
    BY <1>3, <1>5, <1>7, <1>8 DEF q, m

LEMMA SuffixAppend ==
  ASSUME NEW S, NEW p \in Seq(S), NEW q \in Seq(S), Suffix(q, p), NEW e \in S
  PROVE  Suffix(Append(q, e), Append(p, e))
  <1>1. PICK n \in 0..Len(p) : q = SubSeq(p, n + 1, Len(p))
    BY DEF Suffix
  <1> DEFINE m == Len(p)
             pe == Append(p, e)
             qe == Append(q, e)
             r == SubSeq(pe, n + 1, Len(pe))
  <1>2. m \in Nat /\ n \in Nat /\ n <= m
    OBVIOUS
  <1>3. Len(q) = m - n /\ \A k \in 1..(m - n) : q[k] = p[n + k]
    BY <1>1, Remaining
  <1>4. /\ pe \in Seq(S) /\ Len(pe) = m + 1 /\ pe[m + 1] = e
        /\ \A k \in 1..m : pe[k] = p[k]
    BY Appending
  <1>5. /\ qe \in Seq(S) /\ Len(qe) = (m - n) + 1 /\ qe[(m - n) + 1] = e
        /\ \A k \in 1..(m - n) : qe[k] = q[k]
    <2>1. /\ qe \in Seq(S) /\ Len(qe) = Len(q) + 1 /\ qe[Len(q) + 1] = e
          /\ \A k \in 1..Len(q) : qe[k] = q[k]
      BY Appending
    <2> QED
      BY <2>1, <1>3
  <1> HIDE DEF m, pe, qe
  <1>6. n \in 0..Len(pe) /\ Len(pe) - n = (m - n) + 1
    BY <1>2, <1>4
  <1>7. /\ r \in Seq(S) /\ Len(r) = (m - n) + 1
        /\ \A k \in 1..((m - n) + 1) : r[k] = pe[n + k]
    BY <1>4, <1>6, Remaining
  <1> HIDE DEF r
  <1>8. ASSUME NEW k \in 1..((m - n) + 1) PROVE qe[k] = r[k]
    <2>1. CASE k \in 1..(m - n)
      <3>1. n + k \in 1..m
        BY <1>2, <2>1
      <3> QED
        BY <3>1, <2>1, <1>3, <1>4, <1>5, <1>7
    <2>2. CASE k = (m - n) + 1
      <3>1. n + k = m + 1
        BY <1>2, <2>2
      <3> QED
        BY <3>1, <2>2, <1>4, <1>5, <1>7
    <2> QED
      BY <2>1, <2>2, <1>2
  <1>9. qe = r
    BY <1>5, <1>7, <1>8, SeqEqual
  <1> QED
    BY <1>6, <1>9 DEF Suffix, r, pe, qe

\* Taking the first event.
LEMMA SuffixTaken ==
  ASSUME NEW S, NEW p \in Seq(S), NEW q \in Seq(S), Suffix(q, p), Distinct(p),
         q # <<>>
  PROVE  /\ Suffix(Tail(q), p) /\ Tail(q) \in Seq(S) /\ Head(q) \in S
         /\ \A e : e \in Range(q) <=> e = Head(q) \/ e \in Range(Tail(q))
         /\ Head(q) \notin Range(Tail(q))
         /\ \A i, j \in DOMAIN p :
              (p[i] \notin Range(q) /\ p[j] = Head(q)) => i < j
  <1>1. PICK n \in 0..Len(p) : q = SubSeq(p, n + 1, Len(p))
    BY DEF Suffix
  <1>2. Len(p) \in Nat /\ DOMAIN p = 1..Len(p)
    OBVIOUS
  <1> DEFINE m == Len(p)
             t == Tail(q)
  <1>3. Len(q) = m - n /\ DOMAIN q = 1..(m - n) /\ \A k \in 1..(m - n) : q[k] = p[n + k]
    BY <1>1, Remaining
  <1>4. n + 1 \in 1..m
    <2>1. Len(q) # 0
      OBVIOUS
    <2>2. m - n # 0
      BY <2>1, <1>3
    <2>3. m \in Nat /\ n \in 0..m
      BY <1>2
    <2> HIDE DEF m
    <2> QED
      BY <2>2, <2>3
  <1>5. /\ t = SubSeq(p, (n + 1) + 1, m) /\ Head(q) = p[n + 1]
    <2>1. m \in (n + 1)..m
      BY <1>4
    <2> QED
      BY <1>1, <1>4, <2>1, HeadTailOfSubSeq
  <1>6. Head(q) = p[n + 1] /\ t \in Seq(S) /\ p[n + 1] \in S
    BY <1>4, <1>5, HeadTailProperties
  <1>7. DOMAIN t = 1..(m - (n + 1)) /\ \A k \in 1..(m - (n + 1)) : t[k] = p[(n + 1) + k]
    <2>1. n + 1 \in 0..Len(p)
      BY <1>4
    <2> QED
      BY <1>5, <2>1, Remaining
  <1> HIDE DEF m, t
  <1>8. m \in Nat /\ n \in Nat /\ DOMAIN p = 1..m
    BY <1>1, <1>2 DEF m
  <1>9. ASSUME NEW e, NEW l \in Nat, NEW f, l <= m, DOMAIN f = 1..(m - l),
               \A k \in 1..(m - l) : f[k] = p[l + k]
        PROVE  e \in Range(f) <=> \E i \in 1..m : i > l /\ p[i] = e
    <2>1. ASSUME NEW k \in 1..(m - l) PROVE l + k \in 1..m /\ l + k > l
      BY <1>8, <1>9
    <2>2. ASSUME NEW i \in 1..m, i > l PROVE i - l \in 1..(m - l) /\ l + (i - l) = i
      BY <1>8, <1>9, <2>2
    <2>3. e \in Range(f) <=> \E k \in 1..(m - l) : f[k] = e
      BY <1>9 DEF Range
    <2>4. ASSUME NEW k \in 1..(m - l), f[k] = e PROVE \E i \in 1..m : i > l /\ p[i] = e
      BY <2>1, <2>4, <1>9
    <2>5. ASSUME NEW i \in 1..m, i > l, p[i] = e PROVE \E k \in 1..(m - l) : f[k] = e
      BY <2>2, <2>5, <1>9
    <2> QED
      BY <2>3, <2>4, <2>5
  <1>10. \A e : e \in Range(q) <=> \E i \in 1..m : i > n /\ p[i] = e
    <2>1. n <= m
      BY <1>4, <1>8
    <2> QED
      BY <1>3, <2>1, <1>8, <1>9
  <1>11. \A e : e \in Range(t) <=> \E i \in 1..m : i > n + 1 /\ p[i] = e
    <2>1. n + 1 \in Nat /\ n + 1 <= m
      BY <1>4, <1>8
    <2> QED
      BY <1>7, <2>1, <1>9
  <1>12. \A i \in 1..m : i > n <=> i = n + 1 \/ i > n + 1
    BY <1>8
  <1>13. \A e : e \in Range(q) <=> e = Head(q) \/ e \in Range(t)
    BY <1>10, <1>11, <1>12, <1>4, <1>6
  <1>14. Head(q) \notin Range(t)
    <2> SUFFICES ASSUME NEW i \in 1..m, i > n + 1, p[i] = p[n + 1] PROVE FALSE
      BY <1>11, <1>6
    <2>1. i = n + 1
      BY <1>4, <1>8 DEF Distinct
    <2> QED
      BY <2>1, <1>8
  <1>15. \A i, j \in 1..m : (p[i] \notin Range(q) /\ p[j] = Head(q)) => i < j
    <2> SUFFICES ASSUME NEW i \in 1..m, NEW j \in 1..m, p[i] \notin Range(q),
                        p[j] = p[n + 1]
                 PROVE  i < j
      BY <1>6
    <2>1. j = n + 1
      BY <1>4, <1>8 DEF Distinct
    <2>2. ~(i > n)
      BY <1>10
    <2> QED
      BY <2>1, <2>2, <1>8
  <1>16. Suffix(t, p)
    <2>1. n + 1 \in 0..m
      BY <1>4
    <2> QED
      BY <2>1, <1>5 DEF Suffix, m
  <1> QED
    BY <1>6, <1>8, <1>13, <1>14, <1>15, <1>16 DEF t

\* An event that is new to p comes after the others.
LEMMA PutAgain ==
  ASSUME NEW S, NEW p \in Seq(S), Distinct(p), NEW e, e \notin Range(p)
  PROVE  /\ Distinct(Append(p, e))
         /\ \A g : (Ordered(g, p) /\ Range(g) \subseteq Range(p)) =>
              Ordered(g, Append(p, e))
         /\ \A g, x : (/\ After(x, g, p) /\ x # e
                       /\ Range(g) \subseteq Range(p)) =>
              After(x, g, Append(p, e))
  <1> DEFINE r == Append(p, e)
             n == Len(p)
  <1>1. /\ n \in Nat /\ DOMAIN p = 1..n /\ DOMAIN r = 1..(n + 1)
        /\ \A k \in 1..n : r[k] = p[k]
        /\ r[n + 1] = e
    BY Appending
  <1> HIDE DEF r, n
  <1>2. \A k \in 1..(n + 1) : k \in 1..n \/ k = n + 1
    BY <1>1
  <1>3. \A k \in 1..n : p[k] # e
    BY <1>1 DEF Range
  <1>4. Distinct(r)
    BY <1>1, <1>2, <1>3, Zenon DEF Distinct
  <1>5. ASSUME NEW g, Range(g) \subseteq Range(p), NEW k \in DOMAIN g
        PROVE  g[k] # e
    BY <1>5 DEF Range
  <1>6. ASSUME NEW g, Ordered(g, p), Range(g) \subseteq Range(p)
        PROVE  Ordered(g, r)
    BY <1>1, <1>2, <1>5, <1>6, Zenon DEF Ordered
  <1>7. ASSUME NEW g, NEW x, After(x, g, p), x # e,
               Range(g) \subseteq Range(p)
        PROVE  After(x, g, r)
    BY <1>1, <1>2, <1>5, <1>7, Zenon DEF After
  <1> QED
    BY <1>4, <1>6, <1>7 DEF r

\* An event that comes after the others may follow them.
LEMMA OrderedAppend ==
  ASSUME NEW S, NEW g \in Seq(S), NEW p, NEW e, Ordered(g, p), After(e, g, p)
  PROVE  Ordered(Append(g, e), p)
  <1> DEFINE r == Append(g, e)
             n == Len(g)
  <1>1. /\ n \in Nat /\ DOMAIN g = 1..n /\ DOMAIN r = 1..(n + 1)
        /\ \A k \in 1..n : r[k] = g[k]
        /\ r[n + 1] = e
    BY Appending
  <1> HIDE DEF r, n
  <1>2. ASSUME NEW k \in 1..(n + 1), NEW l \in 1..(n + 1), k < l
        PROVE  k \in 1..n /\ (l \in 1..n \/ l = n + 1)
    BY <1>1, <1>2
  <1> SUFFICES ASSUME NEW k \in DOMAIN r, NEW l \in DOMAIN r,
                      NEW i \in DOMAIN p, NEW j \in DOMAIN p,
                      k < l, r[k] = p[i], r[l] = p[j]
               PROVE  i < j
    BY DEF Ordered, r
  <1>3. k \in 1..n /\ (l \in 1..n \/ l = n + 1)
    BY <1>1, <1>2
  <1>4. CASE l \in 1..n
    BY <1>1, <1>3, <1>4 DEF Ordered
  <1>5. CASE l = n + 1
    BY <1>1, <1>3, <1>5 DEF After
  <1> QED
    BY <1>3, <1>4, <1>5

-----------------------------------------------------------------------------
(* Lemmas about the places of events.                                      *)

LEMMA PlacePut ==
  ASSUME NEW P, NEW Q, NEW T, NEW Z, Places(P, Q, T, Z), NEW e, e \notin P
  PROVE  Places(P \cup {e}, Q \cup {e}, T, Z)
  BY DEF Places

LEMMA PlaceTaken ==
  ASSUME NEW P, NEW Q, NEW T, NEW Z, Places(P, Q, T, Z),
         NEW e, NEW R, e \notin R, \A x : x \in Q <=> x = e \/ x \in R,
         NEW s \in Stream, NEW U, U[s] = T[s] \cup {e},
         \A t \in Stream \ {s} : U[t] = T[t]
  PROVE  Places(P, R, U, Z)
  BY Zenon DEF Places

-----------------------------------------------------------------------------
(* The steps.                                                              *)

\* 0, which stands for no event, is none.
LEMMA NoEvent ==
  /\ 0 \notin Event /\ Hook \subseteq Event
  /\ \A f \in Seq(Event) : Range(f) \subseteq Event
  /\ \A p \in Seq(Event) : \A g : After(0, g, p)
  <1>1. 0 \notin Event /\ Hook \subseteq Event
    BY EventsAssumption DEF Event
  <1>2. ASSUME NEW f \in Seq(Event) PROVE \A k \in DOMAIN f : f[k] \in Event
    BY ElementOfSeq
  <1>3. \A f \in Seq(Event) : Range(f) \subseteq Event
    BY <1>2 DEF Range
  <1>4. \A p \in Seq(Event) : \A g : After(0, g, p)
    BY <1>1, <1>2, Zenon DEF After
  <1> QED
    BY <1>1, <1>3, <1>4

LEMMA EventsTypeStep ==
  ASSUME EventsTypeInv, [EventsNext]_eventsVars
  PROVE  EventsTypeInv'
  <1> USE NoEvent DEF EventsTypeInv
  <1>1. CASE Start
    <2>1. starts' \in 1..MaxStarts /\ starts' \in Event
      BY <1>1, EventsAssumption DEF Start, Event
    <2> QED
      BY <1>1, <2>1
      DEF Start, Put, streams
  <1>2. CASE Serve
    BY <1>2 DEF Serve, events, streams
  <1>3. ASSUME NEW w \in Hook, WebhookListener(w) PROVE EventsTypeInv'
    BY <1>3 DEF WebhookListener, Put, streams
  <1>4. ASSUME NEW w \in Hook, WebhookFails(w) PROVE EventsTypeInv'
    BY <1>4 DEF WebhookFails, events, streams
  <1>5. ASSUME NEW s \in Stream, Connect(s) PROVE EventsTypeInv'
    BY <1>5 DEF Connect, events
  <1>6. ASSUME NEW s \in Stream, Get(s) PROVE EventsTypeInv'
    BY <1>6, HeadTailProperties DEF Get
  <1>7. ASSUME NEW s \in Stream, Yield(s) PROVE EventsTypeInv'
    <2>1. Append(got[s], holds[s]) \in Seq(Event)
      BY <1>7 DEF Yield
    <2> QED
      BY <1>7, <2>1 DEF Yield, events
  <1>8. ASSUME NEW s \in Stream, Disconnect(s) PROVE EventsTypeInv'
    BY <1>8 DEF Disconnect, events
  <1>9. CASE Ended /\ file' \in {file, Torn}
    <2>1. /\ Range(queue) \subseteq Event
          /\ Range(holds) \subseteq Event \cup {0}
      BY DEF Range
    <2> QED
      BY <1>9, <2>1 DEF Ended
  <1>10. CASE UNCHANGED eventsVars
    BY <1>10 DEF eventsVars, events, streams
  <1> QED
    BY <1>1, <1>2, <1>3, <1>4, <1>5, <1>6, <1>7, <1>8, <1>9, <1>10
    DEF EventsNext, Streams, Shutdown, Die

\* The log grows while a process lives, and is written as a whole.
LEMMA LogsAppend ==
  ASSUME NEW w \in Hook, logs \in Seq(Hook), logs' = Append(logs, w)
  PROVE  /\ Contains(logs, w)'
         /\ \A v : Contains(logs, v) => Contains(logs, v)'
  BY Appending DEF Contains

LEMMA AnsweredStep ==
  ASSUME EventsTypeInv, AnsweredInv,
         LogKeepsAnswered, [EventsNext]_eventsVars
  PROVE  AnsweredInv' /\ LogKeepsAnswered'
  <1> USE DEF EventsTypeInv, AnsweredInv, LogKeepsAnswered
  <1>1. CASE Start
    BY <1>1, EventsAssumption DEF Start
  <1>2. CASE Serve
    BY <1>2 DEF Serve
  <1>3. ASSUME NEW w \in Hook, WebhookListener(w)
        PROVE AnsweredInv' /\ LogKeepsAnswered'
    <2>1. /\ server = "serving" /\ server' = server /\ starts' = starts
          /\ logs' = Append(logs, w) /\ file' = logs'
          /\ \A v \in Hook : answered'[v] = IF v = w THEN starts ELSE answered[v]
      BY <1>3 DEF WebhookListener, Posted
    <2>2. /\ Contains(logs, w)' /\ Contains(file, w)'
          /\ \A v : Contains(logs, v) =>
                      Contains(logs, v)' /\ Contains(file, v)'
      BY <2>1, LogsAppend DEF Contains
    <2>3. AnsweredInv'
      BY <2>1, <2>2
    <2>4. ASSUME NEW v \in Hook, answered'[v] # 0
          PROVE  Contains(file, v)' \/ answered'[v] < starts'
      <3>1. CASE v = w
        BY <2>2, <3>1
      <3>2. CASE v # w
        <4>1. answered'[v] = answered[v] /\ answered[v] \in Nat /\ starts \in Nat
          BY <2>1, <3>2
        <4>2. answered[v] <= starts /\ (answered[v] = starts => Contains(logs, v))
          BY <2>1
        <4>3. CASE answered[v] = starts
          BY <4>2, <4>3, <2>2
        <4>4. CASE answered[v] # starts
          <5>1. answered[v] < starts
            BY <4>1, <4>2, <4>4
          <5> QED
            BY <5>1, <4>1, <2>1
        <4> QED
          BY <4>3, <4>4
      <3> QED
        BY <3>1, <3>2
    <2> QED
      BY <2>3, <2>4
  <1>4. ASSUME NEW w \in Hook, WebhookFails(w)
        PROVE AnsweredInv' /\ LogKeepsAnswered'
    <2>1. \A v : Contains(logs, v) => Contains(logs, v)'
      BY <1>4, LogsAppend DEF WebhookFails
    <2>2. /\ server' = server /\ starts' = starts /\ answered' = answered
          /\ file' = file \/ file' = Torn
      BY <1>4 DEF WebhookFails
    <2>3. AnsweredInv'
      BY <2>1, <2>2
    <2>4. LogKeepsAnswered'
      BY <2>2 DEF Contains
    <2> QED
      BY <2>3, <2>4
  <1>5. CASE Ended /\ file' \in {file, Torn}
    BY <1>5 DEF Ended, Contains
  <1>6. CASE UNCHANGED <<server, starts, answered, logs, file>>
    BY <1>6 DEF Contains
  <1> QED
    BY <1>1, <1>2, <1>3, <1>4, <1>5, <1>6
    DEF EventsNext, Streams, Shutdown, Die, Connect,
        Get, Yield, Disconnect, eventsVars

\* A process or a webhook brings an event of its own.
LEMMA NewEvent ==
  ASSUME EventsTypeInv, OriginInv
  PROVE  /\ starts + 1 \in 1..MaxStarts => starts + 1 \notin Range(put)
         /\ \A w \in Hook : answered[w] = 0 => w \notin Range(put)
  <1>1. \A n \in 0..MaxStarts : n \notin Hook
    BY EventsAssumption
  <1>2. /\ starts \in Nat /\ 1..starts \subseteq 0..MaxStarts
        /\ 1..MaxStarts \subseteq 0..MaxStarts
    BY EventsAssumption DEF EventsTypeInv
  <1>3. starts + 1 \notin 1..starts
    BY <1>2
  <1> QED
    BY <1>1, <1>2, <1>3 DEF OriginInv

LEMMA OriginStep ==
  ASSUME EventsTypeInv, AnsweredInv, OriginInv,
         [EventsNext]_eventsVars
  PROVE  OriginInv'
  <1> USE DEF EventsTypeInv, OriginInv
  <1>1. CASE Start
    <2>1. starts' = starts + 1 /\ answered' = answered /\ put' = Append(put, starts')
      BY <1>1 DEF Start, Put
    <2>2. Range(put)' = Range(put) \cup {starts'}
      <3>1. Range(Append(put, starts')) = Range(put) \cup {starts'}
        BY Appending
      <3> QED
        BY <2>1, <3>1
    <2> QED
      BY <2>1, <2>2
  <1>2. ASSUME NEW w \in Hook, WebhookListener(w) PROVE OriginInv'
    <2>1. /\ starts' = starts /\ put' = Append(put, w) /\ server = "serving"
          /\ \A v \in Hook : answered'[v] = IF v = w THEN starts ELSE answered[v]
      BY <1>2 DEF WebhookListener, Put, Posted
    <2>2. Range(put)' = Range(put) \cup {w}
      <3>1. Range(Append(put, w)) = Range(put) \cup {w}
        BY Appending
      <3> QED
        BY <2>1, <3>1
    <2>3. starts # 0
      BY <2>1 DEF AnsweredInv
    <2> QED
      BY <2>1, <2>2, <2>3
  <1>3. CASE UNCHANGED <<starts, answered, put>>
    BY <1>3 DEF Range
  <1> QED
    BY <1>1, <1>2, <1>3
    DEF EventsNext, Streams, Shutdown, Die, Connect,
        Get, Yield, Disconnect, eventsVars, Serve,
        WebhookFails, Ended, events

\* What the stream s has taken.
LEMMA Taking ==
  ASSUME NEW s \in Stream
  PROVE  /\ Takes[s] = Range(got[s]) \cup ({holds[s]} \ {0})
         /\ Takes'[s] = Range(got'[s]) \cup ({holds'[s]} \ {0})
  BY DEF Takes, Taken, Range

LEMMA PlacesPrimed ==
  ASSUME Distinct(put'), Suffix(queue', put'),
         Places(Range(put'), Range(queue'), Takes', gone')
  PROVE  PlacesInv'
  BY DEF PlacesInv, Distinct, Suffix, Range, Places

LEMMA StreamsPrimed ==
  ASSUME \A s \in Stream :
           /\ holds'[s] \notin Range(got'[s])
           /\ Ordered(got'[s], put') /\ After(holds'[s], got'[s], put')
  PROVE  StreamsInv'
  BY DEF StreamsInv, Ordered, After, Range

\* A new event, at the end of the queue.
LEMMA EventPut ==
  ASSUME EventsTypeInv, PlacesInv, StreamsInv,
         NEW e \in Event, e \notin Range(put), Put(e),
         UNCHANGED <<holds, got, gone>>
  PROVE  PlacesInv' /\ StreamsInv'
  <1>1. put' = Append(put, e) /\ queue' = Append(queue, e)
    BY DEF Put
  <1>2. /\ Range(put)' = Range(put) \cup {e}
        /\ Range(queue)' = Range(queue) \cup {e}
    <2>1. /\ Range(Append(put, e)) = Range(put) \cup {e}
          /\ Range(Append(queue, e)) = Range(queue) \cup {e}
      BY Appending DEF EventsTypeInv
    <2> QED
      BY <1>1, <2>1
  <1>3. Takes' = Takes
    BY DEF Takes, Taken, Range
  <1>4. Places(Range(put), Range(queue), Takes, gone)'
    <2>1. Places(Range(put) \cup {e}, Range(queue) \cup {e}, Takes, gone)
      BY PlacePut DEF PlacesInv
    <2> QED
      BY <2>1, <1>2, <1>3 DEF Places
  <1>5. Suffix(queue, put)'
    <2>1. Suffix(Append(queue, e), Append(put, e))
      BY SuffixAppend DEF PlacesInv, EventsTypeInv
    <2> QED
      BY <1>1, <2>1 DEF Suffix
  <1>6. Distinct(put)'
    BY <1>1, PutAgain DEF PlacesInv, EventsTypeInv, Distinct
  <1>7. ASSUME NEW s \in Stream
        PROVE  /\ Ordered(got'[s], put') /\ After(holds'[s], got'[s], put')
    <2>1. Range(got[s]) \subseteq Range(put) /\ holds[s] # e
      BY Taking, NoEvent DEF PlacesInv, Places
    <2> QED
      BY <1>1, <2>1, PutAgain DEF PlacesInv, StreamsInv, EventsTypeInv
  <1> QED
    BY <1>4, <1>5, <1>6, <1>7 DEF PlacesInv, StreamsInv, Ordered,
       After, Range

\* A stream takes the first event of the queue.
LEMMA EventTaken ==
  ASSUME EventsTypeInv, PlacesInv, StreamsInv,
         NEW s \in Stream, Get(s)
  PROVE  PlacesInv' /\ StreamsInv'
  <1> DEFINE e == Head(queue)
  <1>1. /\ queue # <<>> /\ queue' = Tail(queue) /\ holds[s] = 0
        /\ put' = put /\ got' = got /\ gone' = gone
        /\ \A t \in Stream : holds'[t] = IF t = s THEN e ELSE holds[t]
    BY DEF Get, EventsTypeInv
  <1>2. /\ Suffix(Tail(queue), put) /\ e \in Event /\ e \notin Range(Tail(queue))
        /\ \A x : x \in Range(queue) <=> x = e \/ x \in Range(Tail(queue))
        /\ \A i, j \in DOMAIN put :
             (put[i] \notin Range(queue) /\ put[j] = e) => i < j
    BY <1>1, SuffixTaken DEF PlacesInv, EventsTypeInv
  <1>3. /\ e # 0 /\ e \in Range(queue)
    BY <1>2, NoEvent
  <1> HIDE DEF e
  <1>4. /\ Takes'[s] = Takes[s] \cup {e}
        /\ \A t \in Stream \ {s} : Takes'[t] = Takes[t]
    <2>1. Takes'[s] = Takes[s] \cup {e}
      BY <1>1, <1>3, Taking
    <2>2. ASSUME NEW t \in Stream, t # s PROVE Takes'[t] = Takes[t]
      BY <1>1, <2>2, Taking
    <2> QED
      BY <2>1, <2>2
  <1>5. Places(Range(put), Range(Tail(queue)), Takes', gone)
    BY <1>2, <1>4, PlaceTaken DEF PlacesInv
  <1>6. PlacesInv'
    BY <1>1, <1>2, <1>5, PlacesPrimed DEF PlacesInv
  <1>7. ASSUME NEW x \in Range(got[s]) PROVE x \notin Range(queue)
    BY <1>7, Taking DEF PlacesInv, Places
  <1>8. \A k \in DOMAIN got[s] : got[s][k] \notin Range(queue)
    BY <1>7 DEF Range
  <1>9. e \notin Range(got[s])
    BY <1>3, <1>7
  <1>10. After(e, got[s], put)
    BY <1>2, <1>8 DEF After
  <1> QED
    BY <1>1, <1>6, <1>9, <1>10, StreamsPrimed DEF StreamsInv

\* The client gets what its stream holds.
LEMMA EventYielded ==
  ASSUME EventsTypeInv, PlacesInv, StreamsInv,
         NEW s \in Stream, Yield(s)
  PROVE  PlacesInv' /\ StreamsInv'
  <1>1. /\ holds[s] \in Event /\ got[s] \in Seq(Event)
        /\ put' = put /\ queue' = queue /\ gone' = gone
        /\ \A t \in Stream : holds'[t] = IF t = s THEN 0 ELSE holds[t]
        /\ \A t \in Stream : got'[t] = IF t = s THEN Append(got[s], holds[s]) ELSE got[t]
    BY DEF Yield, events, EventsTypeInv
  <1>2. Range(got'[s]) = Range(got[s]) \cup {holds[s]}
    BY <1>1, Appending
  <1>3. holds[s] # 0
    BY DEF Yield
  <1>4. \A t \in Stream : Takes'[t] = Takes[t]
    <2>1. Takes'[s] = Takes[s]
      <3>1. holds'[s] = 0
        BY <1>1
      <3>2. /\ Takes[s] = Range(got[s]) \cup ({holds[s]} \ {0})
            /\ Takes'[s] = Range(got'[s]) \cup ({holds'[s]} \ {0})
        BY Taking
      <3> QED
        BY <1>2, <1>3, <3>1, <3>2
    <2>2. ASSUME NEW t \in Stream, t # s PROVE Takes'[t] = Takes[t]
      BY <1>1, <2>2, Taking
    <2> QED
      BY <2>1, <2>2
  <1>5. PlacesInv'
    <2>1. Places(Range(put), Range(queue), Takes', gone)
      BY <1>4 DEF PlacesInv, Places
    <2> QED
      BY <1>1, <2>1, PlacesPrimed DEF PlacesInv
  <1>6. Ordered(got'[s], put)
    BY <1>1, OrderedAppend DEF StreamsInv
  <1>7. 0 \notin Range(got'[s]) /\ After(0, got'[s], put)
    <2>1. Append(got[s], holds[s]) \in Seq(Event) /\ put \in Seq(Event)
      BY <1>1 DEF EventsTypeInv
    <2>2. got'[s] \in Seq(Event)
      BY <1>1, <2>1
    <2> QED
      BY <2>1, <2>2, NoEvent
  <1> QED
    BY <1>1, <1>5, <1>6, <1>7, StreamsPrimed DEF StreamsInv

\* Streams let go of what they hold, and the queue may be lost.
LEMMA EventLost ==
  ASSUME EventsTypeInv, PlacesInv, StreamsInv,
         UNCHANGED <<put, got>>,
         queue' = queue \/ queue' = <<>>,
         \A s \in Stream : holds'[s] = holds[s] \/ holds'[s] = 0,
         \A e : e \in gone' <=>
           \/ e \in gone
           \/ e \in Range(queue) /\ queue' # queue
           \/ \E s \in Stream : e = holds[s] /\ e # 0 /\ holds'[s] # holds[s]
  PROVE  PlacesInv' /\ StreamsInv'
  <1>1. Suffix(<<>>, put)
    <2>1. Len(put) \in Nat
      BY DEF EventsTypeInv
    <2>2. Len(put) \in 0..Len(put) /\ <<>> = SubSeq(put, Len(put) + 1, Len(put))
      BY <2>1, SubSeqEmpty
    <2> QED
      BY <2>2 DEF Suffix
  <1>2. Suffix(queue', put)
    BY <1>1 DEF PlacesInv
  <1>3. \A e : e \notin Range(<<>>)
    BY DEF Range
  <1>4. /\ Range(queue') \subseteq Range(queue)
        /\ \A e : e \in Range(queue) /\ e \notin Range(queue') <=>
                    e \in Range(queue) /\ queue' # queue
    BY <1>3
  <1>5. ASSUME NEW s \in Stream
        PROVE  /\ Takes'[s] \subseteq Takes[s]
               /\ \A e : e \in Takes[s] /\ e \notin Takes'[s] <=>
                           e = holds[s] /\ e # 0 /\ holds'[s] # holds[s]
    BY Taking DEF StreamsInv
  <1>6. Places(Range(put), Range(queue'), Takes', gone')
    <2>1. \A e : e \in gone' <=>
             \/ e \in gone
             \/ e \in Range(queue) /\ e \notin Range(queue')
             \/ \E s \in Stream : e \in Takes[s] /\ e \notin Takes'[s]
      BY <1>4, <1>5
    <2>2. Places(Range(put), Range(queue), Takes, gone)
      BY DEF PlacesInv
    <2>3. \A s \in Stream : Takes'[s] \subseteq Takes[s]
      BY <1>5
    <2>4. Range(queue') \subseteq Range(queue)
      BY <1>4
    <2> QED
      BY <2>1, <2>2, <2>3, <2>4, Zenon DEF Places
  <1>7. PlacesInv'
    BY <1>2, <1>6, PlacesPrimed DEF PlacesInv
  <1>8. ASSUME NEW s \in Stream
        PROVE  holds'[s] \notin Range(got[s]) /\ After(holds'[s], got[s], put)
    <2>1. 0 \notin Range(got[s]) /\ After(0, got[s], put)
      BY NoEvent DEF EventsTypeInv
    <2> QED
      BY <2>1 DEF StreamsInv
  <1> QED
    BY <1>7, <1>8, StreamsPrimed DEF StreamsInv

LEMMA PlacesStep ==
  ASSUME EventsTypeInv, OriginInv, PlacesInv, StreamsInv,
         [EventsNext]_eventsVars
  PROVE  PlacesInv' /\ StreamsInv'
  <1>1. CASE Start
    <2>1. starts' = starts + 1 /\ starts' \in 1..MaxStarts
      BY <1>1, EventsAssumption DEF Start, EventsTypeInv
    <2>2. starts' \in Event /\ starts' \notin Range(put)
      BY <2>1, NewEvent DEF Event
    <2> QED
      BY <1>1, <2>2, EventPut DEF Start, streams
  <1>2. ASSUME NEW w \in Hook, WebhookListener(w) PROVE PlacesInv' /\ StreamsInv'
    <2>1. w \in Event /\ w \notin Range(put)
      BY <1>2, NoEvent, NewEvent DEF WebhookListener, Posted
    <2> QED
      BY <1>2, <2>1, EventPut DEF WebhookListener, streams
  <1>3. ASSUME NEW s \in Stream, Disconnect(s) PROVE PlacesInv' /\ StreamsInv'
    <2>1. /\ put' = put /\ queue' = queue /\ got' = got
          /\ gone' = gone \cup ({holds[s]} \ {0})
          /\ \A t \in Stream : holds'[t] = IF t = s THEN 0 ELSE holds[t]
      BY <1>3 DEF Disconnect, events, EventsTypeInv
    <2>2. \A e : e \in gone' <=>
             \/ e \in gone
             \/ e \in Range(queue) /\ queue' # queue
             \/ \E t \in Stream : e = holds[t] /\ e # 0 /\ holds'[t] # holds[t]
      BY <2>1
    <2> QED
      BY <2>1, <2>2, EventLost
  <1>4. CASE Ended
    <2>1. /\ put' = put /\ queue' = <<>> /\ got' = got
          /\ gone' = (gone \cup Range(queue)) \cup (Range(holds) \ {0})
          /\ \A t \in Stream : holds'[t] = 0
      BY <1>4 DEF Ended
    <2>2. \A e : e \in Range(holds) <=> \E t \in Stream : e = holds[t]
      BY DEF Range, EventsTypeInv
    <2>3. \A e : e \in Range(queue) => queue # <<>>
      BY DEF Range
    <2>4. \A e : e \in gone' <=>
             \/ e \in gone
             \/ e \in Range(queue) /\ queue' # queue
             \/ \E t \in Stream : e = holds[t] /\ e # 0 /\ holds'[t] # holds[t]
      BY <2>1, <2>2, <2>3 DEF Range
    <2> QED
      BY <2>1, <2>4, EventLost
  <1>5. CASE UNCHANGED <<put, queue, holds, got, gone>>
    <2>1. Takes' = Takes
      BY <1>5 DEF Takes, Taken, Range
    <2> QED
      BY <1>5, <2>1, PlacesPrimed, StreamsPrimed DEF PlacesInv, StreamsInv
  <1> QED
    BY <1>1, <1>2, <1>3, <1>4, <1>5, EventTaken, EventYielded
    DEF EventsNext, Streams, Shutdown, Die, Connect,
        Serve, WebhookFails, eventsVars, events, streams

\* The inductive invariant holds in every reachable state.
LEMMA EventsInvariance == EventsSpec => []EventsInv
  <1>1. EventsInit => EventsInv
    <2> SUFFICES ASSUME EventsInit PROVE EventsInv
      OBVIOUS
    <2> USE DEF EventsInit
    <2>1. EventsTypeInv
      BY EventsAssumption DEF EventsTypeInv
    <2>2. AnsweredInv /\ LogKeepsAnswered
      BY DEF AnsweredInv, LogKeepsAnswered
    <2>3. \A e : e \notin Range(<<>>)
      BY DEF Range
    <2>4. OriginInv
      BY <2>3 DEF OriginInv
    <2>5. \A s \in Stream : Takes[s] = {}
      BY <2>3, Taking
    <2>6. PlacesInv
      <3>1. Suffix(<<>>, <<>>)
        <4>1. Len(<<>>) = 0 /\ <<>> = SubSeq(<<>>, 1, 0) /\ 0 \in 0..0 /\ 0 + 1 = 1
          BY SubSeqEmpty
        <4> QED
          BY <4>1 DEF Suffix
      <3> QED
        BY <2>3, <2>5, <3>1 DEF PlacesInv, Distinct, Places
    <2>7. StreamsInv
      BY <2>3 DEF StreamsInv, Ordered, After
    <2> QED
      BY <2>1, <2>2, <2>4, <2>6, <2>7 DEF EventsInv
  <1>2. EventsInv /\ [EventsNext]_eventsVars => EventsInv'
    BY EventsTypeStep, AnsweredStep, OriginStep, PlacesStep DEF EventsInv
  <1> QED
    BY <1>1, <1>2, PTL DEF EventsSpec

-----------------------------------------------------------------------------
\* An event that was put into the queue is at one place, and a client gets its
\* events in the order in which they were put, however many streams, webhooks
\* and processes there are (controller.py, event_generator).
THEOREM EachEventIsOnce == EventsSpec => []EachEventOnce
  <1>1. EventsInv => EachEventOnce
    <2> SUFFICES ASSUME EventsInv PROVE EachEventOnce
      OBVIOUS
    <2> DEFINE taken == UNION {Taken(s) : s \in Stream}
    <2>1. \A s \in Stream : Takes[s] = Taken(s)
      BY DEF Takes
    <2>2. \A e : e \in taken <=> \E s \in Stream : e \in Takes[s]
      BY <2>1
    <2> HIDE DEF taken
    <2>3. /\ Range(put) = (Range(queue) \cup taken) \cup gone
          /\ Range(queue) \cap (taken \cup gone) = {}
          /\ taken \cap gone = {}
      BY <2>2 DEF EventsInv, PlacesInv, Places, Range
    <2>4. \A s, t \in Stream : s # t => Taken(s) \cap Taken(t) = {}
      BY <2>1 DEF EventsInv, PlacesInv, Places
    <2>5. \A s \in Stream : holds[s] \notin Range(got[s])
      BY DEF EventsInv, StreamsInv, Range
    <2>6. \E n \in 0..Len(put) : queue = SubSeq(put, n + 1, Len(put))
      BY DEF EventsInv, PlacesInv, Suffix
    <2>7. \A i, j \in DOMAIN put : put[i] = put[j] => i = j
      BY DEF EventsInv, PlacesInv, Distinct
    <2>8. \A s \in Stream : \A k, l \in DOMAIN got[s] : \A i, j \in DOMAIN put :
            (k < l /\ got[s][k] = put[i] /\ got[s][l] = put[j]) => i < j
      BY DEF EventsInv, StreamsInv, Ordered
    <2> QED
      BY <2>3, <2>4, <2>5, <2>6, <2>7, <2>8 DEF EachEventOnce, taken
  <1> QED
    BY <1>1, EventsInvariance, PTL

\* A webhook that was answered "received" is in the log file while the process
\* that answered it is the last one, whatever was written, lost or cut short
\* before (controller.py, webhook_listener).
THEOREM LogKeepsWhatWasAnswered == EventsSpec => []LogKeepsAnswered
  <1>1. EventsInv => LogKeepsAnswered
    BY DEF EventsInv
  <1> QED
    BY <1>1, EventsInvariance, PTL
=============================================================================
