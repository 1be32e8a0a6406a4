---------------------------- MODULE IssuerProofs ----------------------------
(***************************************************************************)
(* Proofs about the key store of the VC manager, for every set of requests *)
(* and of keys (properties in IssuerProps).                                *)
(***************************************************************************)
EXTENDS IssuerProps, TLAPS

\* The steps of a handler that occupies the event loop.
Occupied == {"load", "open", "write", "answer"}

\* One handler at a time is between its first and its last system call.
LoopInv == \A c \in Call : pc[c] \in Occupied => busy = c

\* How far the handler of c has come with the key it holds.
ProgressInv ==
  \A c \in Call :
    /\ pc[c] \in {"open", "write", "answer"} =>
         keypair[c] \in drawn \ retired
    /\ pc[c] = "open" => file = Absent
    /\ pc[c] = "write" => file = Torn
    /\ pc[c] = "answer" => file = keypair[c]

\* A key in the file or in an answer has been drawn, so a new one differs.
DrawnInv ==
  /\ file \in Key => file \in drawn \ retired
  /\ \A c \in Call : answer[c] \in Key => answer[c] \in drawn

IInv == TypeOK /\ LoopInv /\ ProgressInv /\ DrawnInv /\ IssuerIsStable

-----------------------------------------------------------------------------
\* Every step of the handlers, of a crash and of the operator preserves the
\* inductive invariant: the file a handler writes is written while no answer
\* that still counts has been given, and under no other handler's feet.
LEMMA InvStep == IInv /\ [Next]_vars => IInv'
  <1> SUFFICES ASSUME IInv, [Next]_vars PROVE IInv'
    OBVIOUS
  <1> USE IssuerAssumption
      DEF IInv, TypeOK, LoopInv, ProgressInv, DrawnInv, IssuerIsStable, Occupied
  <1>1. ASSUME NEW c \in Call, Arrive(c) PROVE IInv'
    <2>1. TypeOK' /\ LoopInv' BY <1>1 DEF Arrive
    <2>2. ProgressInv' BY <1>1 DEF Arrive
    <2>3. DrawnInv' /\ IssuerIsStable' BY <1>1 DEF Arrive
    <2> QED BY <2>1, <2>2, <2>3
  <1>2. ASSUME NEW c \in Call, Begin(c) PROVE IInv'
    <2>1. TypeOK' /\ LoopInv' BY <1>2 DEF Begin
    <2>2. ProgressInv' BY <1>2 DEF Begin
    <2>3. DrawnInv' /\ IssuerIsStable' BY <1>2 DEF Begin
    <2> QED BY <2>1, <2>2, <2>3
  <1>3. ASSUME NEW c \in Call, LoadKey(c) PROVE IInv'
    <2>1. TypeOK' /\ LoopInv' BY <1>3 DEF LoadKey
    <2>2. ProgressInv' BY <1>3 DEF LoadKey
    <2>3. DrawnInv' /\ IssuerIsStable' BY <1>3 DEF LoadKey
    <2> QED BY <2>1, <2>2, <2>3
  <1>4. ASSUME NEW c \in Call, RefuseFile(c) PROVE IInv'
    <2>1. TypeOK' /\ LoopInv' BY <1>4 DEF RefuseFile, End
    <2>2. ProgressInv' BY <1>4 DEF RefuseFile, End
    <2>3. DrawnInv' /\ IssuerIsStable' BY <1>4 DEF RefuseFile, End
    <2> QED BY <2>1, <2>2, <2>3
  <1>5. ASSUME NEW c \in Call, GenerateKey(c) PROVE IInv'
    <2>1. TypeOK' /\ LoopInv' BY <1>5 DEF GenerateKey
    <2>2. ProgressInv' BY <1>5 DEF GenerateKey
    <2>3. DrawnInv' /\ IssuerIsStable' BY <1>5 DEF GenerateKey
    <2> QED BY <2>1, <2>2, <2>3
  <1>6. ASSUME NEW c \in Call, OpenFile(c) PROVE IInv'
    <2>1. TypeOK' /\ LoopInv' BY <1>6 DEF OpenFile
    <2>2. ProgressInv' BY <1>6 DEF OpenFile
    <2>3. DrawnInv' /\ IssuerIsStable' BY <1>6 DEF OpenFile
    <2> QED BY <2>1, <2>2, <2>3
  <1>7. ASSUME NEW c \in Call, WriteFile(c) PROVE IInv'
    <2>1. TypeOK' /\ LoopInv' BY <1>7 DEF WriteFile
    <2>2. ProgressInv' BY <1>7 DEF WriteFile
    <2>3. DrawnInv' /\ IssuerIsStable' BY <1>7 DEF WriteFile
    <2> QED BY <2>1, <2>2, <2>3
  <1>8. ASSUME NEW c \in Call, PersistFails(c) PROVE IInv'
    <2>1. TypeOK' /\ LoopInv' BY <1>8 DEF PersistFails, End
    <2>2. ProgressInv' BY <1>8 DEF PersistFails, End
    <2>3. DrawnInv' /\ IssuerIsStable' BY <1>8 DEF PersistFails, End
    <2> QED BY <2>1, <2>2, <2>3
  <1>9. ASSUME NEW c \in Call, Answer(c) PROVE IInv'
    <2>1. TypeOK' /\ LoopInv' BY <1>9 DEF Answer, End
    <2>2. ProgressInv' BY <1>9 DEF Answer, End
    <2>3. DrawnInv' /\ IssuerIsStable' BY <1>9 DEF Answer, End
    <2> QED BY <2>1, <2>2, <2>3
  <1>10. CASE Crash
    <2>1. TypeOK' /\ LoopInv' BY <1>10 DEF Crash, Restart
    <2>2. ProgressInv' BY <1>10 DEF Crash, Restart
    <2>3. DrawnInv' /\ IssuerIsStable' BY <1>10 DEF Crash, Restart
    <2> QED BY <2>1, <2>2, <2>3
  <1>11. CASE Recreate
    <2>1. TypeOK' /\ LoopInv' BY <1>11 DEF Recreate, Restart
    <2>2. ProgressInv' BY <1>11 DEF Recreate, Restart
    <2>3. DrawnInv' /\ IssuerIsStable' BY <1>11 DEF Recreate, Restart
    <2> QED BY <2>1, <2>2, <2>3
  <1>12. CASE RemoveFile
    <2>1. TypeOK' /\ LoopInv' BY <1>12 DEF RemoveFile
    <2>2. ProgressInv' BY <1>12 DEF RemoveFile
    <2>3. DrawnInv' /\ IssuerIsStable' BY <1>12 DEF RemoveFile
    <2> QED BY <2>1, <2>2, <2>3
  <1>13. CASE UNCHANGED vars
    <2>1. TypeOK' /\ LoopInv' BY <1>13 DEF vars
    <2>2. ProgressInv' BY <1>13 DEF vars
    <2>3. DrawnInv' /\ IssuerIsStable' BY <1>13 DEF vars
    <2> QED BY <2>1, <2>2, <2>3
  <1> HIDE DEF IInv
  <1> QED
    BY <1>1, <1>2, <1>3, <1>4, <1>5, <1>6, <1>7, <1>8, <1>9, <1>10, <1>11, <1>12, <1>13 DEF Next, Handler

\* The inductive invariant holds in every reachable state of the key store.
LEMMA Invariance == Spec => []IInv
  <1>1. Init => IInv
    BY IssuerAssumption
    DEF Init, IInv, TypeOK, LoopInv, ProgressInv, DrawnInv, IssuerIsStable,
        Occupied
  <1> QED
    BY <1>1, InvStep, PTL DEF Spec

\* Every reachable state of the key store has the declared types.
THEOREM IssuerTypeCorrect == Spec => []TypeOK
  <1>1. IInv => TypeOK
    BY DEF IInv
  <1> QED
    BY <1>1, Invariance, PTL

\* The service never shows two identities between two removals of its key
\* file, whatever number of requests, crashes and failed writes there are.
THEOREM IdentityIsStable == Spec => []IssuerIsStable
  <1>1. IInv => IssuerIsStable
    BY DEF IInv
  <1> QED
    BY <1>1, Invariance, PTL

-----------------------------------------------------------------------------
\* A step never replaces a stored key.
KeepsKeyFile == file \in Key => file' \in {file, Absent}

\* Only a removal makes room for a new key, in every instance.
THEOREM KeyFileIsKept == Spec => KeyFileIsNotReplaced
  <1>1. IInv /\ [Next]_vars => KeepsKeyFile
    <2> SUFFICES ASSUME IInv, [Next]_vars PROVE KeepsKeyFile
      OBVIOUS
    <2> USE IssuerAssumption
        DEF IInv, TypeOK, LoopInv, ProgressInv, Occupied, KeepsKeyFile
    <2>1. ASSUME NEW c \in Call, OpenFile(c) \/ WriteFile(c)
          PROVE KeepsKeyFile
      BY <2>1 DEF OpenFile, WriteFile
    <2>2. CASE file' \in {file, Absent}
      BY <2>2
    <2> QED
      BY <2>1, <2>2
      DEF Next, Handler, Arrive, Begin, LoadKey, RefuseFile, GenerateKey,
          PersistFails, Answer, Crash, Recreate, RemoveFile, vars
  <1> QED
    BY <1>1, Invariance, PTL DEF Spec, KeyFileIsNotReplaced, KeepsKeyFile
=============================================================================
