------------------------- MODULE VlaManagerUiProofs -------------------------
(***************************************************************************)
(* Proofs about the two views of the user interface, for any number of     *)
(* elements, templates, VLAs, fragments and calls (properties in           *)
(* VlaManagerUiProps).                                                     *)
(***************************************************************************)
EXTENDS VlaManagerUiProps, SequenceTheorems, TLAPS

-----------------------------------------------------------------------------
(* The inductive invariant, in parts.                                      *)

Dialog == {"sample", "test", "req", "try"}

Kind == {"options", "evaluate", "create", "attest"}

CallRecord ==
  [kind : Kind,
   of : Nat \cup Vla \cup {None}, meant : Vla \cup {None},
   overlapped : BOOLEAN, status : {"pending", "ok", "failed", "dropped"}]

Fragment ==
  [template : Template \cup {None}, element : Element \cup {None},
   shown : Element \cup {None}, escaped : BOOLEAN]

TypeInv ==
  /\ page \in {"create", "list"}
  /\ dialogs \in Seq(Dialog)
  /\ element \in Element \cup {None}
  /\ chosen \in Template \cup {None}
  /\ property \in Element \cup {None}
  /\ escaped \in BOOLEAN
  /\ fragments \in Seq(Fragment)
  /\ tested \in Nat /\ result \in Nat \cup Vla \cup {None}
  /\ vla \in Vla \cup {None}
  /\ tried \in [vla : Vla \cup {None}, busy : BOOLEAN]
  /\ calls \in Seq(CallRecord)

\* Only ReqModal opens over another dialog, when its options have come.
StackInv == \A i \in DOMAIN dialogs : i # 1 => dialogs[i] = "req"

\* A template that is chosen, and did not outlive its dialog, is of the dialog
\* on top, with the values for the element that the page shows.
ChoiceInv ==
  chosen # None /\ ~escaped => OnTop("req") /\ property = element

Evaluations == {i \in DOMAIN calls : calls[i].kind = "evaluate"}

Latest(i) == i \in Evaluations /\ \A j \in Evaluations : j <= i

\* The latest evaluation, if it overlapped none, is the only one that can still
\* change the result; a result that is there stems from an evaluation.
ResultInv ==
  /\ \A i \in DOMAIN calls : Latest(i) =>
       /\ ~calls[i].overlapped => Pending("evaluate") \subseteq {i}
       /\ calls[i].status = "ok" /\ ~calls[i].overlapped =>
            result \in {0, calls[i].of}
       /\ calls[i].status = "dropped" => result = 0 /\ Pending("evaluate") = {}
  /\ result # 0 \/ Evaluations # {} => \E i \in DOMAIN calls : Latest(i)

\* While a VLA is tried, its fields are kept, or cleared by the answer to an
\* attestation that was pending when it was clicked.
TryInv ==
  (\E i \in DOMAIN dialogs : dialogs[i] = "try") =>
    /\ vla = tried.vla \/ (vla = None /\ tried.busy)
    /\ Pending("attest") # {} => tried.busy

IInv ==
  /\ TypeInv
  /\ StackInv
  /\ ChoiceInv
  /\ MismatchNeedsEscape
  /\ ResultInv
  /\ CreationMatchesPage
  /\ TryInv
  /\ LostVlaNeedsOverlap

-----------------------------------------------------------------------------
(* What the helpers do to the calls and to the dialogs.                    *)


\* A call that is sent is the last of the calls.
LEMMA Appending ==
  ASSUME calls \in Seq(CallRecord), NEW call \in CallRecord,
         calls' = Append(calls, call)
  PROVE  LET n == Len(calls) + 1 IN
         /\ calls' \in Seq(CallRecord)
         /\ n \in Nat /\ DOMAIN calls' = DOMAIN calls \cup {n}
         /\ n \notin DOMAIN calls /\ \A i \in DOMAIN calls : i \in Nat /\ i <= n
         /\ \A i \in DOMAIN calls : calls'[i] = calls[i]
         /\ calls'[n] = call
  <1>1. /\ Len(calls) \in Nat
        /\ DOMAIN calls = 1..Len(calls)
        /\ calls' \in Seq(CallRecord)
        /\ Len(calls') = Len(calls) + 1
        /\ DOMAIN calls' = 1..Len(calls')
        /\ \A i \in 1..Len(calls) : calls'[i] = calls[i]
        /\ calls'[Len(calls) + 1] = call
    BY AppendProperties, LenProperties
  <1> QED
    BY <1>1


\* The step sends a call of a kind, and changes no other call.
Sends(kind) ==
  LET n == Len(calls) + 1 IN
  /\ calls' \in Seq(CallRecord)
  /\ n \in Nat /\ DOMAIN calls' = DOMAIN calls \cup {n}
  /\ n \notin DOMAIN calls /\ \A i \in DOMAIN calls : i \in Nat /\ i <= n
  /\ \A i \in DOMAIN calls : calls'[i] = calls[i]
  /\ calls'[n].kind = kind /\ calls'[n].status = "pending"

LEMMA EvaluationSent ==
  ASSUME TypeInv, HandleTestDataSelected
  PROVE  /\ Sends("evaluate")
         /\ calls'[Len(calls) + 1].overlapped = (Pending("evaluate") # {})
  <1> DEFINE call == [kind |-> "evaluate", of |-> tested, meant |-> None,
                      overlapped |-> Pending("evaluate") # {},
                      status |-> "pending"]
  <1>1. call \in CallRecord
    BY DEF CallRecord, Kind, TypeInv
  <1>2. calls' = Append(calls, call) /\ calls \in Seq(CallRecord)
    BY DEF HandleTestDataSelected, Send, TypeInv
  <1>3. /\ call.kind = "evaluate" /\ call.status = "pending"
        /\ call.overlapped = (Pending("evaluate") # {})
    OBVIOUS
  <1> HIDE DEF call
  <1> QED
    BY <1>1, <1>2, <1>3, Appending DEF Sends

LEMMA OptionsSent ==
  ASSUME TypeInv, ShowReqModal
  PROVE  Sends("options")
  <1> DEFINE call == [kind |-> "options", of |-> None, meant |-> None,
                      overlapped |-> FALSE, status |-> "pending"]
  <1>1. call \in CallRecord /\ call.kind = "options" /\ call.status = "pending"
    BY DEF CallRecord, Kind
  <1>2. calls' = Append(calls, call) /\ calls \in Seq(CallRecord)
    BY DEF ShowReqModal, Send, TypeInv
  <1> HIDE DEF call
  <1> QED
    BY <1>1, <1>2, Appending DEF Sends

LEMMA CreationSent ==
  ASSUME TypeInv, HandleCreateVLA
  PROVE  Sends("create") /\ calls'[Len(calls) + 1].of = Len(fragments)
  <1> DEFINE call == [kind |-> "create", of |-> Len(fragments), meant |-> None,
                      overlapped |-> FALSE, status |-> "pending"]
  <1>1. call \in CallRecord /\ call.kind = "create" /\ call.status = "pending"
    BY LenProperties DEF CallRecord, Kind, TypeInv
  <1>2. calls' = Append(calls, call) /\ calls \in Seq(CallRecord)
    BY DEF HandleCreateVLA, Send, TypeInv
  <1>3. call.of = Len(fragments)
    OBVIOUS
  <1> HIDE DEF call
  <1> QED
    BY <1>1, <1>2, <1>3, Appending DEF Sends

LEMMA AttestationSent ==
  ASSUME TypeInv, OnDataSelected
  PROVE  LET call == calls'[Len(calls) + 1] IN
         /\ Sends("attest")
         /\ call.of = vla /\ call.meant = tried.vla
         /\ call.overlapped = tried.busy
  <1> DEFINE call == [kind |-> "attest", of |-> vla, meant |-> tried.vla,
                      overlapped |-> tried.busy, status |-> "pending"]
  <1>1. call \in CallRecord
    BY DEF CallRecord, Kind, TypeInv
  <1>2. calls' = Append(calls, call) /\ calls \in Seq(CallRecord)
    BY DEF OnDataSelected, Send, TypeInv
  <1>3. /\ call.kind = "attest" /\ call.status = "pending"
        /\ call.of = vla /\ call.meant = tried.vla
        /\ call.overlapped = tried.busy
    OBVIOUS
  <1> HIDE DEF call
  <1> QED
    BY <1>1, <1>2, <1>3, Appending DEF Sends

\* An answer changes the status of one call.
LEMMA Answered ==
  ASSUME calls \in Seq(CallRecord),
         NEW i \in DOMAIN calls, NEW status \in {"ok", "failed"}
  PROVE  LET cs == [calls EXCEPT ![i].status = status] IN
         /\ cs \in Seq(CallRecord)
         /\ DOMAIN cs = DOMAIN calls
         /\ \A j \in DOMAIN calls : cs[j] =
              IF j = i THEN [calls[i] EXCEPT !.status = status] ELSE calls[j]
  <1>1. calls \in [1..Len(calls) -> CallRecord] /\ DOMAIN calls = 1..Len(calls)
    BY LenProperties
  <1>2. [calls[i] EXCEPT !.status = status] \in CallRecord
    BY <1>1 DEF CallRecord
  <1> QED
    BY <1>1, <1>2, ExceptSeq

LEMMA Answering ==
  ASSUME calls \in Seq(CallRecord),
         NEW i \in DOMAIN calls, NEW status \in {"ok", "failed"},
         Answer(i, status)
  PROVE  /\ calls' \in Seq(CallRecord)
         /\ DOMAIN calls' = DOMAIN calls
         /\ \A j \in DOMAIN calls : calls'[j] =
              IF j = i THEN [calls[i] EXCEPT !.status = status] ELSE calls[j]
  BY Answered DEF Answer

\* Overtaking changes no more than the history of a pending creation.
LEMMA Overtaking ==
  ASSUME NEW cs \in Seq(CallRecord)
  PROVE  /\ Overtaken(cs) \in Seq(CallRecord)
         /\ DOMAIN Overtaken(cs) = DOMAIN cs
         /\ \A i \in DOMAIN cs : Overtaken(cs)[i] =
              IF Creating(cs[i]) THEN [cs[i] EXCEPT !.overlapped = TRUE] ELSE cs[i]
  <1>1. cs \in [1..Len(cs) -> CallRecord] /\ Len(cs) \in Nat
    BY LenProperties
  <1>2. \A i \in DOMAIN cs : Overtaken(cs)[i] \in CallRecord
    BY <1>1 DEF Overtaken, CallRecord
  <1>3. Overtaken(cs) \in [1..Len(cs) -> CallRecord]
    BY <1>1, <1>2 DEF Overtaken
  <1> QED
    BY <1>1, <1>3 DEF Overtaken

\* What a change of page does to a call.
LEMMA Mounting ==
  ASSUME NEW p, NEW cs \in Seq(CallRecord), Mount(p, cs)
  PROVE  /\ calls' \in Seq(CallRecord)
         /\ DOMAIN calls' = DOMAIN cs
         /\ \A i \in DOMAIN cs :
              /\ calls'[i].kind = cs[i].kind
              /\ calls'[i].of = cs[i].of
              /\ calls'[i].meant = cs[i].meant
              /\ cs[i].overlapped => calls'[i].overlapped
              /\ Creating(cs[i]) => calls'[i].overlapped
              /\ calls'[i].status = "pending" => Creating(cs[i])
              /\ calls'[i].status = "ok" => cs[i].status = "ok"
  <1>1. cs \in [1..Len(cs) -> CallRecord] /\ Len(cs) \in Nat
    BY LenProperties
  <1>2. /\ DOMAIN calls' = 1..Len(cs)
        /\ \A i \in 1..Len(cs) : calls'[i] =
             IF cs[i].status = "pending" /\ ~Creating(cs[i])
               THEN [cs[i] EXCEPT !.status = "dropped"]
             ELSE IF Creating(cs[i]) THEN [cs[i] EXCEPT !.overlapped = TRUE]
             ELSE cs[i]
    BY <1>1, Overtaking DEF Mount
  <1>3. ASSUME NEW i \in 1..Len(cs) PROVE calls'[i] \in CallRecord
    <2>1. /\ cs[i] \in CallRecord
          /\ [cs[i] EXCEPT !.status = "dropped"] \in CallRecord
          /\ [cs[i] EXCEPT !.overlapped = TRUE] \in CallRecord
      BY <1>1 DEF CallRecord
    <2> QED
      BY <1>2, <2>1
  <1>4. calls' \in [1..Len(cs) -> CallRecord]
    BY <1>1, <1>2, <1>3 DEF Mount
  <1>5. calls' \in Seq(CallRecord)
    BY <1>1, <1>4
  <1> QED
    BY <1>1, <1>2, <1>5 DEF CallRecord, Creating

LEMMA MountingTypes ==
  ASSUME NEW p \in {"create", "list"}, NEW cs \in Seq(CallRecord), Mount(p, cs)
  PROVE  TypeInv'
  <1>1. calls' \in Seq(CallRecord)
    BY Mounting
  <1>2. /\ page' = p /\ dialogs' = <<>>
        /\ element' = None /\ chosen' = None /\ property' = None
        /\ escaped' = FALSE /\ fragments' = <<>> /\ tested' = 0 /\ result' = 0
        /\ vla' = None /\ tried' = Untried
    BY DEF Mount
  <1>3. /\ dialogs' \in Seq(Dialog) /\ fragments' \in Seq(Fragment)
        /\ tried' \in [vla : Vla \cup {None}, busy : BOOLEAN]
    BY <1>2, EmptySeq DEF Untried
  <1> QED
    BY <1>1, <1>2, <1>3 DEF TypeInv

\* A dialog opens on top of the others.
LEMMA Opening ==
  ASSUME dialogs \in Seq(Dialog), NEW d \in Dialog, Open(d)
  PROVE  /\ dialogs' \in Seq(Dialog)
         /\ Len(dialogs) \in Nat /\ DOMAIN dialogs = 1..Len(dialogs)
         /\ DOMAIN dialogs' = 1..Len(dialogs) + 1
         /\ \A i \in DOMAIN dialogs : dialogs'[i] = dialogs[i]
         /\ dialogs'[Len(dialogs) + 1] = d
  BY AppendProperties, LenProperties DEF Open

\* The dialog on top closes.
LEMMA Closing ==
  ASSUME dialogs \in Seq(Dialog), dialogs # <<>>, CloseTop
  PROVE  /\ dialogs' \in Seq(Dialog)
         /\ Len(dialogs) \in Nat \ {0} /\ DOMAIN dialogs = 1..Len(dialogs)
         /\ DOMAIN dialogs' = 1..Len(dialogs) - 1
         /\ \A i \in DOMAIN dialogs' : dialogs'[i] = dialogs[i]
  <1> DEFINE n == Len(dialogs) - 1
  <1>1. /\ Len(dialogs) \in Nat \ {0} /\ DOMAIN dialogs = 1..Len(dialogs)
        /\ \A i \in 1..n : dialogs[i] \in Dialog
    BY LenProperties, EmptySeq, ElementOfSeq
  <1>2. /\ dialogs' \in Seq(Dialog) /\ Len(dialogs') = n
        /\ \A i \in 1..n : dialogs'[i] = dialogs[i]
    BY <1>1, SubSeqProperties DEF CloseTop
  <1> QED
    BY <1>1, <1>2, LenProperties

-----------------------------------------------------------------------------
\* Every step keeps the types.
LEMMA TypeStep == IInv /\ [Next]_vars => TypeInv'
  <1> SUFFICES ASSUME IInv, [Next]_vars PROVE TypeInv'
    OBVIOUS
  <1> USE UiAssumption DEF IInv, TypeInv, create, list, req
  <1>1. CASE OpenSample
    BY <1>1, Opening DEF OpenSample, Dialog
  <1>2. CASE SelectSample
    BY <1>2, Closing DEF SelectSample, OnTop
  <1>3. ASSUME NEW e \in Element, OnNodeClick(e) PROVE TypeInv'
    BY <1>3 DEF OnNodeClick
  <1>4. ASSUME NEW i \in DOMAIN fragments, ShowTestModal(i) PROVE TypeInv'
    BY <1>4, Opening, LenProperties DEF ShowTestModal, Dialog
  <1>5. CASE HandleTestDataSelected
    BY <1>5, Closing, EvaluationSent DEF HandleTestDataSelected, OnTop, Sends
  <1>6. CASE ShowReqModal
    BY <1>6, OptionsSent DEF ShowReqModal, Sends
  <1>7. ASSUME NEW t \in Template, Choose(t) PROVE TypeInv'
    BY <1>7 DEF Choose
  <1>8. CASE AddRequirement
    BY <1>8, Closing, Overtaking, AppendProperties DEF AddRequirement, OnTop, Fragment
  <1>9. CASE HandleBackdropClick
    BY <1>9, Closing DEF HandleBackdropClick, Forgotten
  <1>10. CASE Escape
    BY <1>10, Closing DEF Escape
  <1>11. CASE HandleCreateVLA
    BY <1>11, CreationSent DEF HandleCreateVLA, Sends
  <1>12. ASSUME NEW p \in {"create", "list"}, Navigate(p) PROVE TypeInv'
    <2>1. Mount(p, calls)
      BY <1>12 DEF Navigate
    <2> QED
      BY <2>1, MountingTypes
  <1>13. ASSUME NEW v \in Vla, ShowModalAndSetFields(v) PROVE TypeInv'
    BY <1>13, Opening DEF ShowModalAndSetFields, Dialog
  <1>14. CASE OnDataSelected
    <2>1. dialogs' \in Seq(Dialog)
      BY <1>14, Closing DEF OnDataSelected, OnTop
    <2>2. calls' \in Seq(CallRecord)
      BY <1>14, AttestationSent DEF Sends
    <2> QED
      BY <1>14, <2>1, <2>2 DEF OnDataSelected
  <1>15. ASSUME NEW i \in DOMAIN calls, NEW status \in {"ok", "failed"},
             Evaluated(i, status)
      PROVE  TypeInv'
    <2>1. calls' \in Seq(CallRecord)
      BY <1>15, Answering DEF Evaluated
    <2>2. calls[i] \in CallRecord
      BY LenProperties
    <2>3. calls[i].of \in Nat \cup Vla \cup {None}
      BY <2>2 DEF CallRecord
    <2> QED
      BY <1>15, <2>1, <2>3 DEF Evaluated, Shown
  <1>16. ASSUME NEW i \in DOMAIN calls, NEW status \in {"ok", "failed"},
             OptionsFetched(i, status)
      PROVE  TypeInv'
    BY <1>16, Answering, Opening DEF OptionsFetched, Dialog
  <1>17. ASSUME NEW i \in DOMAIN calls, NEW status \in {"ok", "failed"},
             Created(i, status)
      PROVE  TypeInv'
    <2>1. Answer(i, status) => calls' \in Seq(CallRecord)
      BY Answering
    <2>2. CASE page = "list"
      BY <1>17, <2>1, <2>2 DEF Created, Answer
    <2>3. CASE page # "list"
      <3>1. Mount("list", [calls EXCEPT ![i].status = status])
        BY <1>17, <2>3 DEF Created
      <3>2. [calls EXCEPT ![i].status = status] \in Seq(CallRecord)
        BY Answered
      <3> QED
        BY <3>1, <3>2, MountingTypes
    <2> QED
      BY <2>2, <2>3
  <1>18. ASSUME NEW i \in DOMAIN calls, NEW status \in {"ok", "failed"},
             Attested(i, status)
      PROVE  TypeInv'
    BY <1>18, Answering DEF Attested
  <1>19. CASE UNCHANGED vars
    BY <1>19 DEF vars
  <1> QED
    BY <1>1, <1>2, <1>3, <1>4, <1>5, <1>6, <1>7, <1>8, <1>9, <1>10, <1>11, <1>12,
       <1>13, <1>14, <1>15, <1>16, <1>17, <1>18, <1>19
    DEF Next, User, Backend
\* Only ReqModal opens over another dialog.
LEMMA StackStep == IInv /\ [Next]_vars => StackInv'
  <1> SUFFICES ASSUME IInv, [Next]_vars PROVE StackInv'
    OBVIOUS
  <1> USE DEF IInv, TypeInv, StackInv
  <1>1. CASE UNCHANGED dialogs
    BY <1>1
  <1>2. ASSUME NEW d \in Dialog, Open(d), dialogs = <<>> \/ d = "req"
        PROVE  StackInv'
    BY <1>2, Opening, EmptySeq
  <1>3. CASE dialogs # <<>> /\ CloseTop
    BY <1>3, Closing
  <1>4. CASE dialogs' = <<>>
    BY <1>4
  <1>5. ASSUME User
        PROVE  \/ UNCHANGED dialogs \/ dialogs' = <<>>
               \/ dialogs # <<>> /\ CloseTop
               \/ dialogs = <<>> /\ \E d \in Dialog : Open(d)
    BY <1>5 DEF User, OpenSample, SelectSample, OnNodeClick, ShowTestModal,
         HandleTestDataSelected, ShowReqModal, Choose, AddRequirement,
         HandleBackdropClick, Escape, HandleCreateVLA, Navigate, Mount,
         ShowModalAndSetFields, OnDataSelected, OnPage, OnTop, Dialog
  <1>6. ASSUME Backend
        PROVE  UNCHANGED dialogs \/ dialogs' = <<>> \/ Open("req")
    BY <1>6 DEF Backend, Evaluated, OptionsFetched, Created, Mount, Attested
  <1> QED
    BY <1>1, <1>2, <1>3, <1>4, <1>5, <1>6 DEF Next, Dialog, vars

\* A template is chosen for the element that the page shows, which stays while
\* ReqModal is on top; whatever closes it forgets the choice, but for Esc.
LEMMA ChoiceStep == IInv /\ [Next]_vars => ChoiceInv'
  <1> SUFFICES ASSUME IInv, [Next]_vars PROVE ChoiceInv'
    OBVIOUS
  <1> USE DEF IInv, ChoiceInv, OnTop, create, list, req
  <1>1. CASE UNCHANGED <<dialogs, element, chosen, property, escaped>>
    BY <1>1
  <1>2. ASSUME dialogs = <<>>, UNCHANGED <<chosen, escaped>> PROVE ChoiceInv'
    BY <1>2
  <1>3. CASE SelectSample \/ HandleTestDataSelected \/ OnDataSelected
    BY <1>3 DEF SelectSample, HandleTestDataSelected, OnDataSelected
  <1>4. ASSUME NEW t \in Template, Choose(t) PROVE ChoiceInv'
    BY <1>4 DEF Choose
  <1>5. CASE AddRequirement
    BY <1>5 DEF AddRequirement
  <1>6. CASE HandleBackdropClick
    BY <1>6 DEF HandleBackdropClick, Forgotten
  <1>7. CASE Escape
    BY <1>7 DEF Escape
  <1>8. CASE chosen' = None
    BY <1>8
  <1>9. ASSUME NEW i, NEW status, OptionsFetched(i, status) PROVE ChoiceInv'
    <2>1. CASE UNCHANGED dialogs
      BY <1>9, <2>1 DEF OptionsFetched
    <2>2. CASE \A j \in DOMAIN dialogs : dialogs[j] # "req"
      <3>1. dialogs # <<>> => Len(dialogs) \in DOMAIN dialogs
        BY EmptySeq, LenProperties DEF TypeInv
      <3> QED
        BY <1>9, <2>2, <3>1 DEF OptionsFetched
    <2> QED
      BY <1>9, <2>1, <2>2 DEF OptionsFetched
  <1> QED
    BY <1>1, <1>2, <1>3, <1>4, <1>5, <1>6, <1>7, <1>8, <1>9
    DEF Next, User, OpenSample, OnNodeClick, ShowTestModal, ShowReqModal,
        HandleCreateVLA, Navigate, Mount, ShowModalAndSetFields, Backend,
        Evaluated, Created, Attested, OnPage, vars

\* A fragment is about the element its dialog shows, or its choice has outlived
\* a dialog.
LEMMA MismatchStep == IInv /\ [Next]_vars => MismatchNeedsEscape'
  <1> SUFFICES ASSUME IInv, [Next]_vars PROVE MismatchNeedsEscape'
    OBVIOUS
  <1> USE DEF IInv, MismatchNeedsEscape
  <1>1. CASE UNCHANGED fragments
    BY <1>1
  <1>2. CASE fragments' = <<>>
    BY <1>2
  <1>3. CASE AddRequirement
    <2> DEFINE f == [template |-> chosen, element |-> property,
                     shown |-> element, escaped |-> escaped]
    <2>1. f \in Fragment
      BY DEF Fragment, TypeInv
    <2>2. f.element # f.shown => f.escaped
      BY <1>3 DEF AddRequirement, ChoiceInv
    <2>3. fragments' = Append(fragments, f) /\ fragments \in Seq(Fragment)
      BY <1>3 DEF AddRequirement, TypeInv
    <2> HIDE DEF f
    <2> QED
      BY <2>1, <2>2, <2>3, AppendProperties, LenProperties
  <1> QED
    BY <1>1, <1>2, <1>3
    DEF Next, User, OpenSample, SelectSample, OnNodeClick, ShowTestModal,
        HandleTestDataSelected, ShowReqModal, Choose, HandleBackdropClick,
        Escape, HandleCreateVLA, Navigate, Mount, ShowModalAndSetFields,
        OnDataSelected, Backend, Evaluated, OptionsFetched, Created, Attested,
        create, list, vars
-----------------------------------------------------------------------------
(* The calls.                                                              *)

\* No call is sent: each stays what it is, and comes no closer to its start.
Proceeds ==
  /\ DOMAIN calls' = DOMAIN calls
  /\ \A i \in DOMAIN calls :
       /\ calls'[i].kind = calls[i].kind /\ calls'[i].of = calls[i].of
       /\ calls'[i].meant = calls[i].meant
       /\ calls[i].overlapped => calls'[i].overlapped
       /\ calls'[i].status = "pending" => calls[i].status = "pending"

LEMMA AnsweredFields ==
  ASSUME TypeInv, NEW i \in DOMAIN calls, NEW status \in {"ok", "failed"}
  PROVE  LET call == [calls[i] EXCEPT !.status = status] IN
         /\ call.kind = calls[i].kind /\ call.of = calls[i].of
         /\ call.meant = calls[i].meant
         /\ call.overlapped <=> calls[i].overlapped
         /\ call.status = status
  <1>1. calls[i] \in CallRecord
    BY LenProperties, ElementOfSeq DEF TypeInv
  <1> QED
    BY <1>1 DEF CallRecord

LEMMA Remounting ==
  ASSUME TypeInv, NEW i \in DOMAIN calls, NEW status \in {"ok", "failed"},
         Mount("list", [calls EXCEPT ![i].status = status])
  PROVE  /\ Proceeds
         /\ \A j \in DOMAIN calls' : calls'[j].status = "pending" =>
              calls'[j].kind = "create" /\ calls'[j].overlapped
  <1> DEFINE cs == [calls EXCEPT ![i].status = status]
  <1>1. /\ cs \in Seq(CallRecord) /\ DOMAIN cs = DOMAIN calls
        /\ \A j \in DOMAIN calls :
             /\ cs[j].kind = calls[j].kind /\ cs[j].of = calls[j].of
             /\ cs[j].meant = calls[j].meant
             /\ cs[j].overlapped <=> calls[j].overlapped
             /\ cs[j].status = "pending" => calls[j].status = "pending"
    BY Answered, AnsweredFields DEF TypeInv
  <1>2. Mount("list", cs)
    OBVIOUS
  <1> HIDE DEF cs
  <1>3. /\ DOMAIN calls' = DOMAIN calls
        /\ \A j \in DOMAIN calls :
             /\ calls'[j].kind = calls[j].kind /\ calls'[j].of = calls[j].of
             /\ calls'[j].meant = calls[j].meant
    BY <1>1, <1>2, Mounting
  <1>4. \A j \in DOMAIN calls : calls[j].overlapped => calls'[j].overlapped
    BY <1>1, <1>2, Mounting
  <1>5. \A j \in DOMAIN calls : calls'[j].status = "pending" =>
           Creating(cs[j]) /\ calls[j].status = "pending"
    BY <1>1, <1>2, Mounting DEF Creating
  <1>6. \A j \in DOMAIN calls : Creating(cs[j]) => calls'[j].overlapped
    BY <1>1, <1>2, Mounting
  <1> QED
    BY <1>1, <1>3, <1>4, <1>5, <1>6 DEF Proceeds, Creating

LEMMA Leaving ==
  ASSUME TypeInv, NEW p, Mount(p, calls)
  PROVE  /\ Proceeds
         /\ \A j \in DOMAIN calls' : calls'[j].status = "pending" =>
              calls'[j].kind = "create" /\ calls'[j].overlapped
  BY Mounting DEF TypeInv, Proceeds, Creating

LEMMA Adding ==
  ASSUME TypeInv, calls' = Overtaken(calls)
  PROVE  /\ Proceeds
         /\ \A j \in DOMAIN calls : calls[j].kind # "create" => calls'[j] = calls[j]
         /\ \A j \in DOMAIN calls' :
              (calls'[j].status = "pending" /\ calls'[j].kind = "create") =>
                calls'[j].overlapped
  <1>1. \A j \in DOMAIN calls : calls[j] \in CallRecord
    BY LenProperties, ElementOfSeq DEF TypeInv
  <1>2. \A j \in DOMAIN calls :
          LET call == [calls[j] EXCEPT !.overlapped = TRUE] IN
          /\ call.kind = calls[j].kind /\ call.of = calls[j].of
          /\ call.meant = calls[j].meant
          /\ call.status = calls[j].status /\ call.overlapped
    BY <1>1 DEF CallRecord
  <1>3. /\ DOMAIN calls' = DOMAIN calls
        /\ \A j \in DOMAIN calls : calls'[j] =
             IF Creating(calls[j]) THEN [calls[j] EXCEPT !.overlapped = TRUE]
             ELSE calls[j]
    BY Overtaking DEF TypeInv
  <1>4. ASSUME NEW j \in DOMAIN calls
        PROVE  /\ calls'[j].kind = calls[j].kind /\ calls'[j].of = calls[j].of
               /\ calls'[j].meant = calls[j].meant
               /\ calls'[j].status = calls[j].status
               /\ calls[j].overlapped => calls'[j].overlapped
               /\ Creating(calls[j]) => calls'[j].overlapped
               /\ ~Creating(calls[j]) => calls'[j] = calls[j]
    <2>1. CASE Creating(calls[j])
      BY <1>2, <1>3, <2>1
    <2>2. CASE ~Creating(calls[j])
      BY <1>3, <2>2
    <2> QED
      BY <2>1, <2>2
  <1>5. Proceeds
    BY <1>3, <1>4 DEF Proceeds
  <1> QED
    BY <1>3, <1>4, <1>5 DEF Creating

LEMMA AnswerProceeds ==
  ASSUME TypeInv, NEW i \in DOMAIN calls, NEW status \in {"ok", "failed"},
         Answer(i, status)
  PROVE  Proceeds /\ \A j \in DOMAIN calls \ {i} : calls'[j] = calls[j]
  <1>1. DOMAIN calls' = DOMAIN calls /\ \A j \in DOMAIN calls \ {i} : calls'[j] = calls[j]
    BY Answering DEF TypeInv
  <1>2. calls'[i] = [calls[i] EXCEPT !.status = status]
    BY Answering DEF TypeInv
  <1>3. /\ calls'[i].kind = calls[i].kind /\ calls'[i].of = calls[i].of
        /\ calls'[i].meant = calls[i].meant
    BY <1>2, AnsweredFields 
  <1>4. calls'[i].status = "pending" => calls[i].status = "pending"
    BY <1>2, AnsweredFields 
  <1>5. calls[i].overlapped => calls'[i].overlapped
    BY <1>2, AnsweredFields 
  <1> QED
    BY <1>1, <1>3, <1>4, <1>5 DEF Proceeds

\* A call is sent by one of four handlers.
LEMMA CallsProceed ==
  ASSUME TypeInv, [Next]_vars
  PROVE  \/ Proceeds
         \/ HandleTestDataSelected \/ ShowReqModal \/ HandleCreateVLA
         \/ OnDataSelected
  <1>1. CASE UNCHANGED calls
    BY <1>1 DEF Proceeds
  <1>2. CASE AddRequirement
    BY <1>2, Adding DEF AddRequirement
  <1>3. ASSUME NEW p, Navigate(p) PROVE Proceeds
    BY <1>3, Leaving DEF Navigate
  <1>4. ASSUME NEW i \in DOMAIN calls, NEW status \in {"ok", "failed"},
               \/ Evaluated(i, status) \/ OptionsFetched(i, status)
               \/ Created(i, status) \/ Attested(i, status)
        PROVE  Proceeds
    <2>1. CASE Answer(i, status)
      BY <2>1, AnswerProceeds
    <2>2. CASE Mount("list", [calls EXCEPT ![i].status = status])
      BY <2>2, Remounting
    <2> QED
      BY <1>4, <2>1, <2>2
      DEF Evaluated, OptionsFetched, Created, Attested, Answer
  <1> QED
    BY <1>1, <1>2, <1>3, <1>4
    DEF Next, User, OpenSample, SelectSample, OnNodeClick, ShowTestModal,
        Choose, HandleBackdropClick, Escape, ShowModalAndSetFields, Backend,
        vars

-----------------------------------------------------------------------------
\* A request for an attestation is about the VLA whose Try was clicked, or
\* about none, after another request that was pending by then.
LEMMA LostStep == IInv /\ [Next]_vars => LostVlaNeedsOverlap'
  <1> SUFFICES ASSUME IInv, [Next]_vars PROVE LostVlaNeedsOverlap'
    OBVIOUS
  <1> USE DEF IInv, LostVlaNeedsOverlap
  <1>1. CASE Proceeds
    BY <1>1 DEF Proceeds
  <1>2. ASSUME NEW kind \in Kind \ {"attest"}, Sends(kind)
        PROVE  LostVlaNeedsOverlap'
    BY <1>2 DEF Sends
  <1>3. CASE OnDataSelected
    <2>1. \E i \in DOMAIN dialogs : dialogs[i] = "try"
      BY <1>3, EmptySeq, LenProperties DEF OnDataSelected, OnTop, TypeInv
    <2>2. vla = tried.vla \/ (vla = None /\ tried.busy)
      BY <2>1 DEF TryInv
    <2> QED
      BY <1>3, <2>2, AttestationSent DEF Sends
  <1> QED
    BY <1>1, <1>2, <1>3, CallsProceed, EvaluationSent, OptionsSent, CreationSent
    DEF Kind

\* The fields of the VLA being tried are cleared only by an answer.
LEMMA TryStep == IInv /\ [Next]_vars => TryInv'
  <1> SUFFICES ASSUME IInv, [Next]_vars PROVE TryInv'
    OBVIOUS
  <1> USE DEF IInv, TypeInv, TryInv, create, list, req
  <1> DEFINE Trying == \E i \in DOMAIN dialogs : dialogs[i] = "try"
  <1>1. \/ Pending("attest")' \subseteq Pending("attest")
        \/ OnDataSelected
    <2>1. CASE Proceeds
      BY <2>1 DEF Proceeds, Pending
    <2>2. ASSUME NEW kind \in Kind \ {"attest"}, Sends(kind)
          PROVE  Pending("attest")' \subseteq Pending("attest")
      BY <2>2 DEF Sends, Pending
    <2> QED
      BY <2>1, <2>2, CallsProceed, EvaluationSent, OptionsSent, CreationSent
      DEF Kind
  <1>2. CASE OnDataSelected
    <2>1. Len(dialogs) = 1
      <3>1. Len(dialogs) \in DOMAIN dialogs /\ dialogs[Len(dialogs)] = "try"
        BY <1>2, EmptySeq, LenProperties DEF OnDataSelected, OnTop
      <3> QED
        BY <3>1 DEF StackInv
    <2>2. ~Trying'
      BY <1>2, <2>1, Closing DEF OnDataSelected, OnTop
    <2> QED
      BY <2>2
  <1>3. ASSUME NEW v \in Vla, ShowModalAndSetFields(v) PROVE TryInv'
    BY <1>3 DEF ShowModalAndSetFields, Pending
  <1>4. ASSUME UNCHANGED <<vla, tried>>, Trying' => Trying, ~OnDataSelected
        PROVE  TryInv'
    BY <1>1, <1>4
  <1>5. ASSUME NEW i, NEW status, Attested(i, status) PROVE TryInv'
    BY <1>1, <1>2, <1>5 DEF Attested
  <1>6. ASSUME User, ~OnDataSelected
        PROVE  \/ Trying' => Trying /\ UNCHANGED <<vla, tried>>
               \/ \E v \in Vla : ShowModalAndSetFields(v)
    <2>1. CASE UNCHANGED <<dialogs, vla, tried>>
      BY <2>1
    <2>2. CASE dialogs' = <<>>
      BY <2>2
    <2>3. CASE dialogs # <<>> /\ CloseTop /\ UNCHANGED <<vla, tried>>
      BY <2>3, Closing
    <2>4. CASE (OpenSample \/ \E i \in DOMAIN fragments : ShowTestModal(i))
      <3>1. PICK d \in {"sample", "test"} : Open(d) /\ UNCHANGED <<vla, tried>>
        BY <2>4 DEF OpenSample, ShowTestModal
      <3> QED
        BY <3>1, Opening, LenProperties DEF Dialog
    <2> QED
      BY <1>6, <2>1, <2>2, <2>3, <2>4
      DEF User, SelectSample, OnNodeClick, HandleTestDataSelected, ShowReqModal,
          Choose, AddRequirement, HandleBackdropClick, Escape, HandleCreateVLA,
          Navigate, Mount, OnTop
  <1>7. ASSUME Backend
        PROVE  \/ Trying' => Trying /\ UNCHANGED <<vla, tried>>
               \/ \E i \in DOMAIN calls, status \in {"ok", "failed"} :
                    Attested(i, status)
    <2>1. CASE UNCHANGED <<dialogs, vla, tried>>
      BY <2>1
    <2>2. CASE dialogs' = <<>>
      BY <2>2
    <2>3. CASE Open("req") /\ UNCHANGED <<vla, tried>>
      BY <2>3, Opening, LenProperties DEF Dialog
    <2> QED
      BY <1>7, <2>1, <2>2, <2>3
      DEF Backend, Evaluated, OptionsFetched, Created, Mount
  <1> QED
    BY <1>2, <1>3, <1>4, <1>5, <1>6, <1>7 DEF Next, vars
\* A creation that is pending is about the page as it is, or is overtaken.
LEMMA CreationStep == IInv /\ [Next]_vars => CreationMatchesPage'
  <1> SUFFICES ASSUME IInv, [Next]_vars PROVE CreationMatchesPage'
    OBVIOUS
  <1> USE DEF IInv, CreationMatchesPage, Pending
  <1>1. CASE UNCHANGED <<page, fragments>> /\ Proceeds
    BY <1>1 DEF Proceeds
  <1>2. ASSUME NEW kind \in Kind \ {"create"}, Sends(kind),
               UNCHANGED <<page, fragments>>
        PROVE  CreationMatchesPage'
    BY <1>2 DEF Sends
  <1>3. CASE HandleCreateVLA
    BY <1>3, CreationSent
    DEF Sends, HandleCreateVLA, OnPage, create, list
  <1>4. CASE AddRequirement
    BY <1>4, Adding DEF AddRequirement
  <1>5. ASSUME NEW p, Navigate(p) PROVE CreationMatchesPage'
    BY <1>5, Leaving DEF Navigate
  <1>6. ASSUME NEW i \in DOMAIN calls, NEW status \in {"ok", "failed"},
               Created(i, status)
        PROVE  UNCHANGED <<page, fragments>> \/ CreationMatchesPage'
    <2>1. CASE Mount("list", [calls EXCEPT ![i].status = status])
      BY <2>1, Remounting
    <2> QED
      BY <1>6, <2>1 DEF Created, create
  <1>7. \/ UNCHANGED <<page, fragments>> \/ AddRequirement
        \/ \E p : Navigate(p)
        \/ \E i \in DOMAIN calls, status \in {"ok", "failed"} : Created(i, status)
    BY DEF Next, User, OpenSample, SelectSample, OnNodeClick, ShowTestModal,
         HandleTestDataSelected, ShowReqModal, Choose, HandleBackdropClick,
         Escape, HandleCreateVLA, ShowModalAndSetFields, OnDataSelected, Backend,
         Evaluated, OptionsFetched, Attested, create, list, vars
  <1>8. CASE UNCHANGED <<page, fragments>>
    BY <1>1, <1>2, <1>3, <1>8, CallsProceed, EvaluationSent, OptionsSent,
       AttestationSent DEF Kind
  <1> QED
    BY <1>4, <1>5, <1>6, <1>7, <1>8

\* The step leaves the evaluations and the result as they were.
NotEvaluating ==
  /\ UNCHANGED result
  /\ \A i \in DOMAIN calls :
       i \in DOMAIN calls' /\ calls'[i].kind = calls[i].kind
  /\ \A i \in Evaluations : calls'[i] = calls[i]
  /\ \A i \in DOMAIN calls' \ DOMAIN calls : calls'[i].kind # "evaluate"

\* Only evaluations, their answers and a change of page are about the result.
LEMMA EvaluationSteps ==
  ASSUME IInv, [Next]_vars
  PROVE  \/ NotEvaluating
         \/ HandleTestDataSelected
         \/ \E i \in DOMAIN calls, status \in {"ok", "failed"} : Evaluated(i, status)
         \/ \E p : Navigate(p)
         \/ \E i \in DOMAIN calls, status \in {"ok", "failed"} :
              Mount("list", [calls EXCEPT ![i].status = status])
  <1> USE DEF IInv, NotEvaluating, Evaluations
  <1>1. CASE UNCHANGED <<calls, result>>
    BY <1>1
  <1>2. ASSUME NEW kind \in Kind \ {"evaluate"}, Sends(kind), UNCHANGED result
        PROVE  NotEvaluating
    BY <1>2 DEF Sends
  <1>3. CASE AddRequirement
    BY <1>3, Adding DEF AddRequirement, Proceeds
  <1>4. ASSUME NEW i \in DOMAIN calls, NEW status \in {"ok", "failed"},
               Answer(i, status), UNCHANGED result, calls[i].kind # "evaluate"
        PROVE  NotEvaluating
    BY <1>4, AnswerProceeds DEF Proceeds
  <1>5. CASE User
    <2>1. CASE ShowReqModal
      BY <1>2, <2>1, OptionsSent DEF ShowReqModal, create, Kind
    <2>2. CASE HandleCreateVLA
      BY <1>2, <2>2, CreationSent DEF HandleCreateVLA, create, Kind
    <2>3. CASE OnDataSelected
      BY <1>2, <2>3, AttestationSent DEF OnDataSelected, create, Kind
    <2> QED
      BY <1>1, <1>3, <1>5, <2>1, <2>2, <2>3
      DEF User, OpenSample, SelectSample, OnNodeClick, ShowTestModal, Choose,
          HandleBackdropClick, Escape, ShowModalAndSetFields, create, list, req
  <1>6. ASSUME NEW i \in DOMAIN calls, NEW status \in {"ok", "failed"},
               \/ OptionsFetched(i, status) \/ Created(i, status)
               \/ Attested(i, status)
        PROVE  \/ NotEvaluating
               \/ Mount("list", [calls EXCEPT ![i].status = status])
    <2>1. calls[i].kind # "evaluate"
      BY <1>6 DEF OptionsFetched, Created, Attested, Pending
    <2> QED
      BY <1>4, <1>6, <2>1
      DEF OptionsFetched, Created, Attested, Answer, create, list, req
  <1> QED
    BY <1>1, <1>5, <1>6 DEF Next, Backend, vars, create

\* The latest evaluation decides what the result is about.
LEMMA ResultStep == IInv /\ [Next]_vars => ResultInv'
  <1> SUFFICES ASSUME IInv, [Next]_vars PROVE ResultInv'
    OBVIOUS
  <1> USE DEF IInv, ResultInv, Latest, Evaluations, Pending
  <1>0. \A i \in DOMAIN calls : i \in Nat
    BY LenProperties DEF TypeInv
  <1>1. CASE NotEvaluating
    <2>1. Evaluations' = Evaluations
      BY <1>1 DEF NotEvaluating
    <2>2. Pending("evaluate")' = Pending("evaluate")
      BY <1>1 DEF NotEvaluating
    <2>3. \A i : Latest(i)' <=> Latest(i)
      BY <2>1
    <2>4. \A i \in Evaluations : i \in DOMAIN calls' /\ calls'[i] = calls[i]
      BY <1>1 DEF NotEvaluating
    <2>5. \A i : Latest(i) => i \in Evaluations
      OBVIOUS
    <2>6. result' = result
      BY <1>1 DEF NotEvaluating
    <2>7. \A i \in DOMAIN calls' : Latest(i)' =>
            i \in DOMAIN calls /\ Latest(i) /\ calls'[i] = calls[i]
      BY <2>3, <2>4, <2>5
    <2> HIDE DEF Latest, Evaluations, Pending
    <2> QED
      BY <2>1, <2>2, <2>3, <2>4, <2>5, <2>6, <2>7
  <1>2. CASE HandleTestDataSelected
    <2> DEFINE n == Len(calls) + 1
    <2>1. /\ Sends("evaluate") /\ UNCHANGED result
          /\ calls'[n].overlapped = (Pending("evaluate") # {})
      BY <1>2, EvaluationSent DEF HandleTestDataSelected, create
    <2>2. \A i \in DOMAIN calls' : Latest(i)' <=> i = n
      BY <1>0, <2>1 DEF Sends
    <2>3. Pending("evaluate")' = Pending("evaluate") \cup {n}
      BY <2>1 DEF Sends
    <2>4. calls'[n].status = "pending" /\ n \in DOMAIN calls'
      BY <2>1 DEF Sends
    <2> HIDE DEF Latest, Evaluations, Pending
    <2> QED
      BY <2>1, <2>2, <2>3, <2>4
  <1>3. ASSUME NEW i \in DOMAIN calls, NEW status \in {"ok", "failed"},
               Evaluated(i, status)
        PROVE  ResultInv'
    <2>1. /\ Proceeds /\ \A j \in DOMAIN calls \ {i} : calls'[j] = calls[j]
          /\ i \in Pending("evaluate")
          /\ result' = IF status = "ok" THEN calls[i].of ELSE result
          /\ calls'[i].status = status
      <3>1. Answer(i, status)
        BY <1>3 DEF Evaluated
      <3>2. calls'[i] = [calls[i] EXCEPT !.status = status]
        BY <3>1, Answering DEF TypeInv
      <3>3. Proceeds /\ \A j \in DOMAIN calls \ {i} : calls'[j] = calls[j]
        BY <3>1, AnswerProceeds
      <3> QED
        BY <1>3, <3>2, <3>3, AnsweredFields DEF Evaluated, Shown
    <2>2. Evaluations' = Evaluations
      BY <2>1 DEF Proceeds
    <2>3. \A j : Latest(j)' <=> Latest(j)
      BY <2>2
    <2>4. Pending("evaluate")' = Pending("evaluate") \ {i}
      BY <2>1 DEF Proceeds
    <2>5. \E j \in DOMAIN calls : Latest(j)
      BY <2>1
    <2>6. ASSUME NEW j \in DOMAIN calls, Latest(j), ~calls'[j].overlapped
          PROVE  /\ Pending("evaluate")' = {}
                 /\ j = i
                 /\ calls'[j].of = calls[j].of
      BY <2>1, <2>4, <2>6 DEF Proceeds
    <2>7. ASSUME NEW j \in DOMAIN calls, Latest(j)
          PROVE  calls'[j].status # "dropped"
      BY <2>1, <2>7
    <2>8. DOMAIN calls' = DOMAIN calls
      BY <2>1 DEF Proceeds
    <2> HIDE DEF Latest, Evaluations, Pending
    <2> QED
      BY <2>1, <2>2, <2>3, <2>5, <2>6, <2>7, <2>8
  <1>4. ASSUME result' = 0, Proceeds,
               \A j \in DOMAIN calls' : calls'[j].status = "pending" =>
                 calls'[j].kind = "create"
        PROVE  ResultInv'
    <2>1. Evaluations' = Evaluations /\ DOMAIN calls' = DOMAIN calls
      BY <1>4 DEF Proceeds
    <2>2. \A j : Latest(j)' <=> Latest(j)
      BY <2>1
    <2>3. Pending("evaluate")' = {}
      BY <1>4
    <2> HIDE DEF Latest, Evaluations, Pending
    <2> QED
      BY <1>4, <2>1, <2>2, <2>3
  <1>5. ASSUME NEW p, Navigate(p) PROVE ResultInv'
    BY <1>4, <1>5, Leaving DEF Navigate, Mount
  <1>6. ASSUME NEW i \in DOMAIN calls, NEW status \in {"ok", "failed"},
               Mount("list", [calls EXCEPT ![i].status = status])
        PROVE  ResultInv'
    <2>1. result' = 0
      BY <1>6 DEF Mount
    <2> QED
      BY <1>4, <1>6, <2>1, Remounting
  <1> HIDE DEF ResultInv, Latest, Evaluations, Pending
  <1> QED
    BY <1>1, <1>2, <1>3, <1>5, <1>6, EvaluationSteps

-----------------------------------------------------------------------------
(* The theorems.                                                           *)

LEMMA Initially == Init => IInv
  <1> SUFFICES ASSUME Init PROVE IInv
    OBVIOUS
  <1>1. /\ dialogs = <<>> /\ calls = <<>> /\ fragments = <<>>
        /\ DOMAIN dialogs = {} /\ DOMAIN calls = {} /\ DOMAIN fragments = {}
    BY DEF Init
  <1>2. TypeInv
    BY <1>1, EmptySeq DEF Init, TypeInv, Untried
  <1> QED
    BY <1>1, <1>2
    DEF Init, IInv, StackInv, ChoiceInv, MismatchNeedsEscape, ResultInv,
        Evaluations, CreationMatchesPage, Pending, TryInv, LostVlaNeedsOverlap

LEMMA Invariance == Spec => []IInv
  <1>1. IInv /\ [Next]_vars => IInv'
    BY TypeStep, StackStep, ChoiceStep, MismatchStep, ResultStep, CreationStep,
       TryStep, LostStep DEF IInv
  <1> QED
    BY <1>1, Initially, PTL DEF Spec

\* However the user mixes gestures with answers of the backend, a requirement
\* is about another element than its dialog displayed only after the Esc key
\* (ReqModal.vue).
THEOREM MismatchesNeedEscapes == Spec => []MismatchNeedsEscape
  BY Invariance, PTL DEF IInv

\* With no evaluation pending, the result displayed is that of the fragment
\* tested last, or the latest evaluation failed, overlapped another or was of
\* another fragment (CreateView.vue, handleTestDataSelected).
THEOREM WrongResultsNeedTrouble == Spec => []WrongResultNeedsTrouble
  <1>1. IInv => WrongResultNeedsTrouble
    <2> SUFFICES ASSUME IInv, result \notin {0, tested}, Pending("evaluate") = {}
                 PROVE  \E i \in Evaluations :
                          /\ \A j \in Evaluations : j <= i
                          /\ \/ calls[i].of # tested
                             \/ calls[i].status = "failed"
                             \/ calls[i].overlapped
      BY DEF WrongResultNeedsTrouble, Evaluations
    <2>1. PICK i \in DOMAIN calls : Latest(i)
      BY DEF IInv, ResultInv
    <2>2. calls[i].status \in {"ok", "failed", "dropped"}
      <3>1. calls[i] \in CallRecord
        BY LenProperties, ElementOfSeq DEF IInv, TypeInv
      <3> QED
        BY <2>1, <3>1 DEF Latest, Evaluations, Pending, CallRecord
    <2> QED
      BY <2>1, <2>2 DEF IInv, ResultInv, Latest
  <1> QED
    BY <1>1, Invariance, PTL

\* The page that a user is taken away from when a creation is answered holds
\* what was sent, unless it was changed or left meanwhile (CreateView.vue).
THEOREM CreationsMatchPages == Spec => []CreationMatchesPage
  BY Invariance, PTL DEF IInv

\* An attestation is requested of the VLA whose Try was clicked, or of none,
\* and of none only after an earlier request (ListView.vue).
THEOREM LostVlasNeedOverlaps == Spec => []LostVlaNeedsOverlap
  BY Invariance, PTL DEF IInv
=============================================================================
