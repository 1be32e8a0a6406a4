--------------------------- MODULE VerifierProofs ---------------------------
(***************************************************************************)
(* Proofs about the whitelist, for any number of requests and did:keys     *)
(* (properties in VerifierProps).                                          *)
(***************************************************************************)
EXTENDS VerifierProps, TLAPS

\* Only a handler that has ended has answered; one at a statement has a
\* database, and the statement is one of its operation.
HandlerInv ==
  \A c \in Call :
    /\ pc[c] # "done" => answer[c] = "none"
    /\ pc[c] \in {"all", "find", "insert", "select", "delete"} => durable
    /\ pc[c] = "authorize" => call[c].op # "verify"
    /\ pc[c] \in {"all", "find"} => call[c].op = "verify"
    /\ pc[c] \in {"insert", "select"} => call[c].op = "add"
    /\ pc[c] = "delete" => call[c].op = "remove"

\* Whoever was refused a row, or told of one, has met one.
MetInv ==
  \A c \in Call :
    /\ pc[c] = "select" => Listed(call[c].did) \/ MayHaveRemoved(call[c].did)
    /\ answer[c] = "201" => id[c] # NoId

IInv == TypeOK /\ HandlerInv /\ MetInv /\ AdditionsAgree

\* What a request is made of, by its operation (models.py).
LEMMA RequestFields ==
  ASSUME NEW req \in Request
  PROVE  req.op \in {"verify", "add", "remove"} /\ req.did \in Did
  BY DEF Request

\* What verify_jws and decode_payload come to is an answer.
LEMMA JudgementType ==
  ASSUME NEW c \in Call
  PROVE  Judgement(c) \in Results \ {"none", "201", "204", "gone"}
  BY DEF Judgement, Results, Refusals

\* The invariant holds at the start.
LEMMA InvInit == Init => IInv
  BY IdAssumption
  DEF Init, IInv, TypeOK, HandlerInv, MetInv, AdditionsAgree, Running, Results

\* One statement, or one request in memory, keeps the types.
LEMMA HandlerTypes ==
  ASSUME TypeOK, NEW c \in Call, Handler(c)
  PROVE  TypeOK'
  <1> USE RequestFields DEF TypeOK, Goto, Finish
  <1>1. CASE Authorize(c)
    BY <1>1 DEF Authorize, Begin, Running, Results
  <1>2. CASE All(c)
    BY <1>2 DEF All, Running, Results, Refusals
  <1>3. CASE Find(c)
    BY <1>3, JudgementType DEF Find, Results, Refusals
  <1>4. CASE Insert(c)
    BY <1>4 DEF Insert, Running, Results
  <1>5. CASE SelectExisting(c)
    BY <1>5 DEF SelectExisting, Existing, Running, Results
  <1>6. CASE SelectGone(c)
    BY <1>6 DEF SelectGone, Running, Results
  <1>7. CASE Delete(c)
    BY <1>7 DEF Delete, Running, Results
  <1>8. CASE InMemory(c)
    BY <1>8, JudgementType DEF InMemory, Running, Results, Refusals
  <1>9. CASE StatementFails(c)
    BY <1>9 DEF StatementFails, Running, Results
  <1> QED
    BY <1>1, <1>2, <1>3, <1>4, <1>5, <1>6, <1>7, <1>8, <1>9 DEF Handler

\* A removal that may have taken effect has ended, and stays so; so do the
\* requests that a dying process took with it.
LEMMA HandlerMoves ==
  ASSUME IInv, NEW c \in Call, Handler(c)
  PROVE  /\ pc[c] \in Running /\ answer[c] = "none" /\ pc'[c] # "lost"
         /\ \A d \in Call \ {c} :
              pc'[d] = pc[d] /\ answer'[d] = answer[d] /\ id'[d] = id[d]
         /\ UNCHANGED <<durable, call>>
         /\ \A k \in Did : MayHaveRemoved(k) => MayHaveRemoved(k)'
  <1>1. /\ pc[c] \in Running /\ pc'[c] # "lost"
        /\ \A d \in Call \ {c} :
             pc'[d] = pc[d] /\ answer'[d] = answer[d] /\ id'[d] = id[d]
        /\ UNCHANGED <<durable, call>>
    BY DEF Handler, Authorize, All, Find, Insert, SelectExisting, SelectGone,
           Delete, InMemory, StatementFails, Goto, Finish, Begin, IInv, TypeOK,
           Running
  <1>2. answer[c] = "none"
    BY <1>1 DEF IInv, HandlerInv, Running
  <1> QED
    BY <1>1, <1>2 DEF MayHaveRemoved

\* The one row that a step may touch: an insert finds none, and whoever takes
\* one away is a removal that counts as such.
LEMMA TableMoves ==
  ASSUME IInv, NEW c \in Call, Handler(c), NEW k \in Did
  PROVE  \/ table'[k] = table[k]
         \/ ~Listed(k)
         \/ table'[k] = NoId /\ MayHaveRemoved(k)'
  <1> USE DEF IInv, TypeOK, HandlerInv, Goto, Finish
  <1>1. CASE Insert(c)
    BY <1>1 DEF Insert
  <1>2. CASE Delete(c)
    BY <1>2 DEF Delete, MayHaveRemoved, Listed
  <1>3. CASE StatementFails(c)
    BY <1>3 DEF StatementFails, MayHaveRemoved
  <1>4. CASE InMemory(c)
    BY <1>4 DEF InMemory, MayHaveRemoved, Listed
  <1>5. CASE UNCHANGED table
    BY <1>5
  <1> QED
    BY <1>1, <1>2, <1>3, <1>4, <1>5
    DEF Handler, Authorize, All, Find, SelectExisting, SelectGone

\* What the call itself comes to.
LEMMA OwnOutcome ==
  ASSUME IInv, NEW c \in Call, Handler(c)
  PROVE  /\ answer'[c] = "201" =>
              id'[c] # NoId /\ table'[call[c].did] = id'[c]
         /\ answer'[c] = "gone" =>
              MayHaveRemoved(call[c].did)
         /\ pc'[c] = "select" =>
              Listed(call[c].did) /\ UNCHANGED table
         /\ pc'[c] # "done" => answer'[c] = "none"
         /\ pc'[c] \in {"all", "find", "insert", "select", "delete"} => durable
         /\ pc'[c] # "authorize"
         /\ pc'[c] \in {"all", "find"} => call[c].op = "verify"
         /\ pc'[c] \in {"insert", "select"} => call[c].op = "add"
         /\ pc'[c] = "delete" => call[c].op = "remove"
  <1> USE RequestFields, IdAssumption
      DEF IInv, TypeOK, HandlerInv, MetInv, Goto, Finish, Running
  <1>1. CASE Authorize(c)
    BY <1>1 DEF Authorize, Begin
  <1>2. CASE All(c)
    BY <1>2 DEF All
  <1>3. CASE Find(c)
    BY <1>3, JudgementType DEF Find
  <1>4. CASE Insert(c)
    BY <1>4 DEF Insert
  <1>5. CASE SelectExisting(c)
    BY <1>5 DEF SelectExisting, Existing, Listed
  <1>6. CASE SelectGone(c)
    BY <1>6 DEF SelectGone
  <1>7. CASE Delete(c)
    BY <1>7 DEF Delete
  <1>8. CASE InMemory(c)
    BY <1>8, JudgementType DEF InMemory, Listed
  <1>9. CASE StatementFails(c)
    BY <1>9 DEF StatementFails
  <1> QED
    BY <1>1, <1>2, <1>3, <1>4, <1>5, <1>6, <1>7, <1>8, <1>9 DEF Handler

\* Every step of a handler preserves the inductive invariant.
LEMMA HandlerStep ==
  ASSUME IInv, NEW c \in Call, Handler(c)
  PROVE  IInv'
  <1> USE DEF IInv
  <1>1. /\ pc[c] \in Running /\ answer[c] = "none"
        /\ \A d \in Call \ {c} :
             pc'[d] = pc[d] /\ answer'[d] = answer[d] /\ id'[d] = id[d]
        /\ UNCHANGED <<durable, call>>
        /\ \A k \in Did : MayHaveRemoved(k) => MayHaveRemoved(k)'
    BY HandlerMoves
  <1>2. \A d \in Call : call[d].did \in Did
    BY RequestFields DEF TypeOK
  <1>3. TypeOK'
    BY HandlerTypes
  <1>4. HandlerInv'
    BY <1>1, OwnOutcome DEF HandlerInv
  <1>5. MetInv'
    <2> SUFFICES ASSUME NEW d \in Call
                 PROVE  /\ pc'[d] = "select" => \/ table'[call[d].did] # NoId
                                                \/ MayHaveRemoved(call[d].did)'
                        /\ answer'[d] = "201" => id'[d] # NoId
      BY <1>1 DEF MetInv, Listed
    <2>1. CASE d = c
      BY <2>1, OwnOutcome DEF Listed
    <2>2. CASE d # c
      BY <1>1, <1>2, <2>2, TableMoves DEF MetInv, Listed
    <2> QED
      BY <2>1, <2>2
  <1>6. AdditionsAgree'
    <2> SUFFICES ASSUME NEW d \in Call, answer'[d] \in {"201", "gone"}
                 PROVE  \/ /\ answer'[d] = "201"
                           /\ table'[call[d].did] = id'[d]
                        \/ MayHaveRemoved(call[d].did)'
                        \/ ~durable /\ \E e \in Call : pc'[e] = "lost"
      BY <1>1 DEF AdditionsAgree
    <2>1. CASE d = c
      BY <1>1, <1>2, <2>1, OwnOutcome
    <2>2. CASE d # c
      <3>1. answer[d] = answer'[d] /\ id[d] = id'[d]
        BY <1>1, <2>2
      <3>2. CASE answer[d] = "201" /\ table[call[d].did] = id[d]
        BY <1>1, <1>2, <3>1, <3>2, TableMoves DEF MetInv, Listed
      <3>3. CASE MayHaveRemoved(call[d].did)
        BY <1>1, <1>2, <3>3
      <3>4. CASE ~durable /\ \E e \in Call : pc[e] = "lost"
        BY <1>1, <3>4 DEF Running
      <3> QED
        BY <3>1, <3>2, <3>3, <3>4 DEF AdditionsAgree
    <2> QED
      BY <2>1, <2>2
  <1> QED
    BY <1>3, <1>4, <1>5, <1>6

\* So do an arrival, the gateway, a crash and a stutter.
LEMMA InvStep == IInv /\ [Next]_vars => IInv'
  <1> SUFFICES ASSUME IInv, [Next]_vars PROVE IInv'
    OBVIOUS
  <1> USE DEF IInv, TypeOK
  <1>1. ASSUME NEW c \in Call, Arrive(c) PROVE IInv'
    BY <1>1, RequestFields
    DEF Arrive, Begin, Goto, Running, HandlerInv, MetInv, AdditionsAgree,
        MayHaveRemoved, Listed
  <1>2. ASSUME NEW c \in Call, Handler(c) PROVE IInv'
    BY <1>2, HandlerStep
  <1>3. ASSUME NEW c \in Call, Gateway(c) PROVE IInv'
    BY <1>3
    DEF Gateway, Relay, GiveUp, HandlerInv, MetInv, AdditionsAgree,
        MayHaveRemoved, Listed
  <1>4. CASE Crash
    BY <1>4
    DEF Crash, Running, HandlerInv, MetInv, AdditionsAgree, MayHaveRemoved,
        Listed
  <1>5. CASE UNCHANGED vars
    BY <1>5
    DEF vars, HandlerInv, MetInv, AdditionsAgree, MayHaveRemoved, Listed
  <1> QED
    BY <1>1, <1>2, <1>3, <1>4, <1>5 DEF Next

\* The inductive invariant always holds.
LEMMA Inductive == Spec => []IInv
  BY InvInit, InvStep, PTL DEF Spec

-----------------------------------------------------------------------------
\* The state of the whitelist and of its requests keeps its types.
THEOREM VerifierTypeCorrect == Spec => []TypeOK
  BY Inductive, PTL DEF IInv

\* However many additions, removals and verifications interleave: who was told
\* that a key is registered was told the id it is stored under, unless the key
\* was removed or the memory that held it ended (PgWhitelist.add, whose
\* conflicting insert is followed by a select of its own transaction).
THEOREM AdditionsAgreeOnOne == Spec => []AdditionsAgree
  BY Inductive, PTL DEF IInv

-----------------------------------------------------------------------------
(* The whitelist implements the registry *)

\* The whitelist as it is found is a registry's.
LEMMA InitRefines == Init => Registry!Init
  <1> SUFFICES ASSUME Init PROVE Registry!Init
    OBVIOUS
  <1>1. TypeOK
    BY InvInit DEF IInv
  <1>2. \A c \in Call : AbsAsked(c) \in Registry!Matter
    BY <1>1, RequestFields DEF AbsAsked, TypeOK, Registry!Matter
  <1>3. \A c \in Call : AbsOutcome(c) = "none"
    BY DEF Init, AbsOutcome
  <1> QED
    BY <1>1, <1>2, <1>3 DEF Registry!Init, TypeOK

\* A handler settles its own request, if any.
LEMMA Settles ==
  ASSUME IInv, NEW c \in Call, Handler(c)
  PROVE  Registry!Settle(c, AbsOutcome(c)')
  <1>1. AbsOutcome(c) = "none"
    BY HandlerMoves DEF AbsOutcome, Running
  <1>2. \A d \in Call \ {c} : AbsOutcome(d)' = AbsOutcome(d)
    BY HandlerMoves DEF AbsOutcome
  <1> QED
    BY <1>1, <1>2 DEF Registry!Settle

\* No step changes what was asked.
LEMMA AskedStays ==
  ASSUME UNCHANGED call
  PROVE  UNCHANGED [c \in Call |-> AbsAsked(c)]
  BY DEF AbsAsked

\* A step that neither answers nor writes is none of the registry's.
LEMMA QuietStep ==
  ASSUME IInv, NEW c \in Call, Handler(c), AbsOutcome(c)' = "none",
         UNCHANGED table
  PROVE  UNCHANGED Registry!vars
  <1>1. UNCHANGED [d \in Call |-> AbsOutcome(d)]
    BY Settles DEF Registry!Settle
  <1>2. UNCHANGED {d \in Did : Listed(d)}
    BY DEF Listed
  <1> QED
    BY <1>1, <1>2, HandlerMoves, AskedStays DEF Registry!vars

\* A step that fails without effect.
LEMMA FailStep ==
  ASSUME IInv, NEW c \in Call, Handler(c), AbsOutcome(c)' = "failed",
         UNCHANGED table
  PROVE  Registry!Next
  <1>1. Registry!Settle(c, "failed")
    BY Settles
  <1>2. UNCHANGED {d \in Did : Listed(d)}
    BY DEF Listed
  <1>3. Registry!Fail({c})
    BY <1>1, <1>2 DEF Registry!Fail, Registry!Settle
  <1> QED
    BY <1>3, HandlerMoves, AskedStays DEF Registry!Next

\* A verification that answers from what is listed at that instant.
LEMMA VerifyStep ==
  ASSUME IInv, NEW c \in Call, Handler(c), UNCHANGED table,
         call[c].op = "verify",
         \/ Listed(call[c].did) /\ answer'[c] = Judgement(c)
         \/ ~Listed(call[c].did) /\ answer'[c] = "notWhitelisted"
         \/ (\A d \in Did : ~Listed(d)) /\ answer'[c] = "notConfigured"
  PROVE  Registry!Next
  <1> DEFINE did == call[c].did
  <1>1. UNCHANGED {d \in Did : Listed(d)}
    BY DEF Listed
  <1>2. did \in Did
    BY RequestFields DEF IInv, TypeOK
  <1>3. AbsAsked(c).op = "verify" /\ AbsAsked(c).did = did
    BY DEF AbsAsked
  <1>4. CASE Listed(did) /\ Judgement(c) = "500" /\ answer'[c] = "500"
    BY <1>4, FailStep DEF AbsOutcome
  <1>5. CASE Listed(did) /\ Judgement(c) # "500" /\ answer'[c] = Judgement(c)
    <2>1. AbsAsked(c).sound <=> Judgement(c) = "verified"
      BY <1>2, <1>5, JwsAssumption DEF AbsAsked, Judgement
    <2>2. AbsOutcome(c)' =
            IF Judgement(c) = "verified" THEN "verified" ELSE "badSignature"
      BY <1>5, HandlerMoves DEF Judgement, AbsOutcome
    <2>3. Registry!Verify(c)
      BY <1>1, <1>2, <1>3, <1>5, <2>1, <2>2, Settles DEF Registry!Verify
    <2> QED
      BY <2>3, HandlerMoves, AskedStays DEF Registry!Next
  <1>6. CASE ~Listed(did) /\ answer'[c] = "notWhitelisted"
    <2>1. AbsOutcome(c)' = "notWhitelisted"
      BY <1>6, HandlerMoves DEF AbsOutcome
    <2>2. Registry!Verify(c)
      BY <1>1, <1>3, <1>6, <2>1, Settles DEF Registry!Verify
    <2> QED
      BY <2>2, HandlerMoves, AskedStays DEF Registry!Next
  <1>7. CASE (\A d \in Did : ~Listed(d)) /\ answer'[c] = "notConfigured"
    <2>1. AbsOutcome(c)' = "notConfigured"
      BY <1>7, HandlerMoves DEF AbsOutcome
    <2>2. Registry!Verify(c)
      BY <1>1, <1>3, <1>7, <2>1, Settles DEF Registry!Verify
    <2> QED
      BY <2>2, HandlerMoves, AskedStays DEF Registry!Next
  <1> QED
    BY <1>4, <1>5, <1>6, <1>7

\* An addition, from the insert or from the entry that was there.
LEMMA AddStep ==
  ASSUME IInv, NEW c \in Call, Handler(c), call[c].op = "add",
         NEW did \in Did, did = call[c].did,
         \A d \in Did : Listed(d)' <=> (Listed(d) \/ d = did),
         answer'[c] \in {"201", "500"}
  PROVE  Registry!Next
  <1>1. {d \in Did : Listed(d)}' = {d \in Did : Listed(d)} \cup {did}
    OBVIOUS
  <1>2. AbsAsked(c).op = "add" /\ AbsAsked(c).did = did
    BY DEF AbsAsked
  <1>3. CASE answer'[c] = "201"
    <2>1. AbsOutcome(c)' = "ok"
      BY <1>3 DEF AbsOutcome
    <2>2. Registry!Add(c)
      BY <1>1, <1>2, <2>1, Settles DEF Registry!Add
    <2> QED
      BY <2>2, HandlerMoves, AskedStays DEF Registry!Next
  <1>4. CASE answer'[c] = "500"
    <2>1. AbsOutcome(c)' = "failed"
      BY <1>4 DEF AbsOutcome
    <2>2. Registry!FailAfterEffect(c)
      BY <1>1, <1>2, <2>1, Settles DEF Registry!FailAfterEffect
    <2> QED
      BY <2>2, HandlerMoves, AskedStays DEF Registry!Next
  <1> QED
    BY <1>3, <1>4

\* A removal, whatever it finds.
LEMMA RemoveStep ==
  ASSUME IInv, NEW c \in Call, Handler(c), call[c].op = "remove",
         NEW did \in Did, did = call[c].did,
         \A d \in Did : Listed(d)' <=> (Listed(d) /\ d # did),
         \/ answer'[c] = IF Listed(did) THEN "204" ELSE "404"
         \/ answer'[c] = "500"
  PROVE  Registry!Next
  <1>1. {d \in Did : Listed(d)}' = {d \in Did : Listed(d)} \ {did}
    OBVIOUS
  <1>2. AbsAsked(c).op = "remove" /\ AbsAsked(c).did = did
    BY DEF AbsAsked
  <1>3. CASE answer'[c] = IF Listed(did) THEN "204" ELSE "404"
    <2>1. AbsOutcome(c)' = IF Listed(did) THEN "ok" ELSE "missing"
      BY <1>3 DEF AbsOutcome
    <2>2. Registry!Remove(c)
      BY <1>1, <1>2, <2>1, Settles DEF Registry!Remove
    <2> QED
      BY <2>2, HandlerMoves, AskedStays DEF Registry!Next
  <1>4. CASE answer'[c] = "500"
    <2>1. AbsOutcome(c)' = "failed"
      BY <1>4 DEF AbsOutcome
    <2>2. Registry!FailAfterEffect(c)
      BY <1>1, <1>2, <2>1, Settles DEF Registry!FailAfterEffect
    <2> QED
      BY <2>2, HandlerMoves, AskedStays DEF Registry!Next
  <1> QED
    BY <1>3, <1>4

\* Every step of a handler is one of the registry, or none.
LEMMA HandlerRefines ==
  ASSUME IInv, NEW c \in Call, Handler(c)
  PROVE  Registry!Next \/ UNCHANGED Registry!vars
  <1> DEFINE did == call[c].did
  <1> USE DEF IInv, TypeOK, Goto, Finish
  <1>1. did \in Did /\ call[c].op \in {"verify", "add", "remove"}
    BY RequestFields
  <1>2. answer[c] = "none" /\ pc'[c] # "lost"
    BY HandlerMoves
  <1>3. CASE UNCHANGED table /\ answer'[c] \in {"401", "500", "gone"}
    <2>1. AbsOutcome(c)' = "failed"
      BY <1>3 DEF AbsOutcome
    <2> QED
      BY <1>3, <2>1, FailStep
  <1>4. CASE UNCHANGED table /\ answer'[c] = "none"
    <2>1. AbsOutcome(c)' = "none"
      BY <1>2, <1>4 DEF AbsOutcome
    <2> QED
      BY <1>4, <2>1, QuietStep
  <1>5. CASE Authorize(c)
    BY <1>2, <1>3, <1>4, <1>5 DEF Authorize, Begin
  <1>6. CASE All(c)
    <2>1. call[c].op = "verify" /\ UNCHANGED table
      BY <1>6 DEF All, HandlerInv
    <2>2. CASE (\A d \in Did : ~Listed(d)) /\ answer'[c] = "notConfigured"
      BY <2>1, <2>2, VerifyStep
    <2> QED
      BY <1>2, <1>4, <1>6, <2>1, <2>2 DEF All
  <1>7. CASE Find(c)
    BY <1>7, VerifyStep DEF Find, HandlerInv
  <1>8. CASE Insert(c)
    <2>1. call[c].op = "add"
      BY <1>8 DEF Insert, HandlerInv
    <2>2. CASE table' = [table EXCEPT ![did] = c] /\ answer'[c] = "201"
      <3>1. \A d \in Did : Listed(d)' <=> (Listed(d) \/ d = did)
        BY <1>1, <2>2, IdAssumption DEF Listed
      <3> QED
        BY <1>1, <2>1, <2>2, <3>1, AddStep
    <2> QED
      BY <1>2, <1>4, <1>8, <2>2 DEF Insert
  <1>9. CASE SelectExisting(c)
    <2>1. call[c].op = "add" /\ Listed(did) /\ UNCHANGED table
          /\ answer'[c] = "201"
      BY <1>9 DEF SelectExisting, HandlerInv
    <2>2. \A d \in Did : Listed(d)' <=> (Listed(d) \/ d = did)
      BY <2>1 DEF Listed
    <2> QED
      BY <1>1, <2>1, <2>2, AddStep
  <1>10. CASE SelectGone(c)
    BY <1>3, <1>10 DEF SelectGone
  <1>11. ASSUME call[c].op = "remove", table' = [table EXCEPT ![did] = NoId],
                \/ answer'[c] = IF Listed(did) THEN "204" ELSE "404"
                \/ answer'[c] = "500"
         PROVE  Registry!Next
    <2>1. \A d \in Did : Listed(d)' <=> (Listed(d) /\ d # did)
      BY <1>1, <1>11 DEF Listed
    <2> QED
      BY <1>1, <1>11, <2>1, RemoveStep
  <1>12. CASE Delete(c)
    BY <1>11, <1>12 DEF Delete, HandlerInv
  <1>13. CASE InMemory(c)
    <2>1. CASE call[c].op = "verify"
      BY <1>13, <2>1, VerifyStep DEF InMemory
    <2>2. CASE call[c].op = "add"
      <3>1. /\ table' = [table EXCEPT ![did] = IF Listed(did) THEN table[did]
                                                ELSE c]
            /\ answer'[c] = "201"
        BY <1>13, <2>2 DEF InMemory
      <3>2. \A d \in Did : Listed(d)' <=> (Listed(d) \/ d = did)
        BY <1>1, <3>1, IdAssumption DEF Listed
      <3> QED
        BY <1>1, <2>2, <3>1, <3>2, AddStep
    <2>3. CASE call[c].op = "remove"
      BY <1>11, <1>13, <2>3 DEF InMemory
    <2> QED
      BY <1>1, <2>1, <2>2, <2>3
  <1>14. CASE StatementFails(c)
    <2>1. answer'[c] = "500"
      BY <1>14 DEF StatementFails
    <2>2. CASE pc[c] = "insert" /\ table' = [table EXCEPT ![did] = c]
      <3>1. \A d \in Did : Listed(d)' <=> (Listed(d) \/ d = did)
        BY <1>1, <2>2, IdAssumption DEF Listed
      <3> QED
        BY <1>1, <2>1, <2>2, <3>1, AddStep DEF HandlerInv
    <2>3. CASE pc[c] = "delete" /\ table' = [table EXCEPT ![did] = NoId]
      BY <1>11, <2>1, <2>3 DEF HandlerInv
    <2> QED
      BY <1>3, <1>14, <2>1, <2>2, <2>3 DEF StatementFails
  <1> QED
    BY <1>5, <1>6, <1>7, <1>8, <1>9, <1>10, <1>12, <1>13, <1>14 DEF Handler

\* The end of the process fails what is open, and empties a dictionary.
LEMMA CrashRefines == IInv /\ Crash => Registry!Next
  <1> SUFFICES ASSUME IInv, Crash PROVE Registry!Next
    OBVIOUS
  <1> DEFINE S == {c \in Call : pc[c] \in Running}
  <1>1. \A c \in Call :
          /\ c \in S => AbsOutcome(c) = "none"
          /\ AbsOutcome(c)' = IF c \in S THEN "failed" ELSE AbsOutcome(c)
    BY DEF IInv, HandlerInv, Crash, AbsOutcome, Running
  <1>2. \/ UNCHANGED {d \in Did : Listed(d)}
        \/ ~durable /\ {d \in Did : Listed(d)}' = {}
    BY DEF Crash, Listed
  <1>3. Registry!Fail(S)
    BY <1>1, <1>2 DEF Registry!Fail
  <1>4. UNCHANGED <<durable, call>>
    BY DEF Crash
  <1> QED
    BY <1>3, <1>4, AskedStays DEF Registry!Next

\* Every step of the whitelist is one of the registry, or none.
LEMMA StepRefines ==
  IInv /\ [Next]_vars => [Registry!Next]_(Registry!vars)
  <1> SUFFICES ASSUME IInv, [Next]_vars
               PROVE  Registry!Next \/ UNCHANGED Registry!vars
    OBVIOUS
  <1>1. ASSUME UNCHANGED <<durable, table, call>>,
               \A c \in Call : AbsOutcome(c)' = AbsOutcome(c)
        PROVE  UNCHANGED Registry!vars
    BY <1>1, AskedStays DEF Registry!vars, Listed
  <1>2. ASSUME NEW c \in Call, Arrive(c) PROVE UNCHANGED Registry!vars
    BY <1>1, <1>2 DEF Arrive, Begin, Goto, AbsOutcome, IInv, TypeOK
  <1>3. ASSUME NEW c \in Call, Gateway(c) PROVE UNCHANGED Registry!vars
    BY <1>1, <1>3 DEF Gateway, Relay, GiveUp, AbsOutcome
  <1>4. CASE UNCHANGED vars
    BY <1>1, <1>4 DEF vars, AbsOutcome
  <1> QED
    BY <1>2, <1>3, <1>4, HandlerRefines, CrashRefines DEF Next

\* However its statements interleave with those of others, every whitelist
\* request and every verification takes effect in one instant or not at all.
THEOREM WhitelistIsRegistry == Spec => RefinesRegistry
  BY InitRefines, StepRefines, Inductive, PTL
  DEF Spec, RefinesRegistry, Registry!Spec
=============================================================================
