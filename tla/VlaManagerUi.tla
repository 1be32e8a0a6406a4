---------------------------- MODULE VlaManagerUi -----------------------------
(***************************************************************************)
(* The two views of the VLA manager's user interface: CreateView, where a  *)
(* VLA is put together from fragments of templates with ReqModal, each to  *)
(* be tested on data from a SampleModal, and ListView, where a VLA is      *)
(* tried on such data.  What the user may do is what the dialog on top, or *)
(* else the page, offers; what a handler reads from the page's refs, the   *)
(* user may change while it awaits the backend.                            *)
(***************************************************************************)
EXTENDS Naturals, Sequences

CONSTANTS
  Element,      \* JSON paths of the sample
  Template,     \* templates, all about one element
  Vla,          \* VLAs of the list
  MaxFragments, \* bound on the fragments of a page
  MaxCalls,     \* bound on the calls to the backend
  None

ASSUME UiAssumption ==
  /\ MaxFragments \in Nat /\ MaxCalls \in Nat
  /\ None \notin Element \cup Template \cup Vla \cup Nat

VARIABLES
  page,      \* the view that is mounted
  dialogs,   \* open dialogs, the last one on top
  sample,    \* whether there is sample data to edit a VLA on
  element,   \* lastPath: the element clicked last, which ReqModal displays
  options,   \* whether ReqModal has templates to choose from
  chosen,    \* chosenFragment
  property,  \* values.property, set when the template was chosen
  escaped,   \* history: whether the chosen template outlived its dialog
  fragments, \* the requirements put together, and the element shown for each
  tested,    \* index of testedFragment, or 0
  result,    \* index of the fragment whose evaluation testResult is, or 0
  vla,       \* vlaID, which quality goes with
  tried,     \* history: the VLA whose Try was clicked last, and whether an
             \* attestation was pending then
  calls      \* calls to the backend, in the order in which they were made

req    == <<options, chosen, property, escaped>>
create == <<sample, element, req, fragments, tested, result>>
list   == <<vla, tried>>
vars   == <<page, dialogs, create, list, calls>>

\* A call has a kind (options, evaluate, create, attest), "of", the fragment,
\* number of fragments or VLA that it is about, "meant", the VLA that the user
\* tried, a status (pending, ok, failed, dropped), and a history "overlapped":
\* another of its kind was pending before, or the page has changed since a
\* creation was sent.  A fragment has its template, the element in the model of
\* the template, the one shown by the dialog it was added with, and "escaped".

Pending(kind) ==
  {i \in DOMAIN calls : calls[i].kind = kind /\ calls[i].status = "pending"}

\* Bound: the number of calls.
Send(kind, of, meant, overlapped) ==
  /\ Len(calls) < MaxCalls
  /\ calls' = Append(calls, [kind |-> kind, of |-> of, meant |-> meant,
                             overlapped |-> overlapped, status |-> "pending"])

Creating(call) == call.kind = "create" /\ call.status = "pending"

\* History: the page is no longer what a pending creation was made from.
Overtaken(cs) ==
  [i \in DOMAIN cs |->
     IF Creating(cs[i]) THEN [cs[i] EXCEPT !.overlapped = TRUE] ELSE cs[i]]

Answer(i, status) == calls' = [calls EXCEPT ![i].status = status]

OnPage(p)  == page = p /\ dialogs = <<>>
OnTop(d)   == dialogs # <<>> /\ dialogs[Len(dialogs)] = d
Open(d)    == dialogs' = Append(dialogs, d)
CloseTop   == dialogs' = SubSeq(dialogs, 1, Len(dialogs) - 1)

Untried == [vla |-> None, busy |-> FALSE]

Init ==
  /\ page = "create" /\ dialogs = <<>> /\ calls = <<>>
  /\ sample = FALSE /\ element = None
  /\ options = FALSE /\ chosen = None /\ property = None /\ escaped = FALSE
  /\ fragments = <<>> /\ tested = 0 /\ result = 0
  /\ vla = None /\ tried = Untried

-----------------------------------------------------------------------------
(* CreateView and its SampleModals *)

OpenSample ==
  /\ OnPage("create") /\ ~sample
  /\ Open("sample")
  /\ UNCHANGED <<page, create, list, calls>>

\* Text that does not parse is selected as null.
SelectSample ==
  /\ OnTop("sample")
  /\ sample' \in BOOLEAN
  /\ CloseTop
  /\ UNCHANGED <<page, element, req, fragments, tested, result, list, calls>>

OnNodeClick(e) ==
  /\ OnPage("create") /\ sample
  /\ element' = e
  /\ UNCHANGED <<page, dialogs, sample, req, fragments, tested, result, list,
                 calls>>

ShowTestModal(i) ==
  /\ OnPage("create") /\ sample
  /\ Open("test")
  /\ tested' = i
  /\ UNCHANGED <<page, sample, element, req, fragments, result, list, calls>>

HandleTestDataSelected ==
  /\ OnTop("test")
  /\ CloseTop
  /\ Send("evaluate", tested, None, Pending("evaluate") # {})
  /\ UNCHANGED <<page, create, list>>

\* Mutant: a result that is there is kept.
ShownOnce(i, status) ==
  IF status = "ok" /\ result = 0 THEN calls[i].of ELSE result

\* The page shows the result under testedFragment, whichever that is by now.
Shown(i, status) == IF status = "ok" THEN calls[i].of ELSE result

Evaluated(i, status) ==
  /\ i \in Pending("evaluate")
  /\ Answer(i, status)
  /\ result' = Shown(i, status)
  /\ UNCHANGED <<page, dialogs, sample, element, req, fragments, tested, list>>

-----------------------------------------------------------------------------
(* ReqModal *)

\* The dialog opens when the templates are here, or not to be had.
ShowReqModal ==
  /\ OnPage("create") /\ sample
  /\ Send("options", None, None, FALSE)
  /\ UNCHANGED <<page, dialogs, create, list>>

OptionsFetched(i, status) ==
  /\ i \in Pending("options")
  /\ Answer(i, status)
  /\ options' = (options \/ status = "ok")
  /\ IF \E j \in DOMAIN dialogs : dialogs[j] = "req"
       THEN UNCHANGED dialogs
       ELSE Open("req")
  /\ UNCHANGED <<page, sample, element, chosen, property, escaped, fragments,
                 tested, result, list>>

\* The watcher sets the values of a newly chosen template.
Choose(t) ==
  /\ OnTop("req") /\ options
  /\ t # chosen
  /\ chosen' = t
  /\ property' = element
  /\ escaped' = FALSE
  /\ UNCHANGED <<page, dialogs, sample, element, options, fragments, tested,
                 result, list, calls>>

AddRequirement ==
  /\ OnTop("req")
  /\ chosen # None
  /\ Len(fragments) < MaxFragments
  /\ fragments' = Append(fragments, [template |-> chosen, element |-> property,
                                     shown |-> element, escaped |-> escaped])
  /\ property' = None
  /\ chosen' = None
  /\ escaped' = FALSE
  /\ CloseTop
  /\ calls' = Overtaken(calls)
  /\ UNCHANGED <<page, sample, element, options, tested, result, list>>

\* Mutant: a click on the backdrop only closes the dialog.
ForgottenNot == chosen

Forgotten == IF OnTop("req") THEN None ELSE chosen

\* A click on the backdrop closes the dialog; ReqModal forgets the choice.
HandleBackdropClick ==
  /\ dialogs # <<>>
  /\ CloseTop
  /\ chosen' = Forgotten
  /\ UNCHANGED <<page, sample, element, options, property, escaped, fragments,
                 tested, result, list, calls>>

\* The browser closes a dialog on Esc, which no handler listens to.
Escape ==
  /\ dialogs # <<>>
  /\ CloseTop
  /\ escaped' = (escaped \/ (OnTop("req") /\ chosen # None))
  /\ UNCHANGED <<page, sample, element, options, chosen, property, fragments,
                 tested, result, list, calls>>

-----------------------------------------------------------------------------
(* Pages: what a view awaits is dropped with it, but for the answer to a     *)
(* creation, which leads to the list from wherever the user is.              *)

Mount(p, cs) ==
  /\ page' = p /\ dialogs' = <<>>
  /\ sample' = FALSE /\ element' = None
  /\ options' = FALSE /\ chosen' = None /\ property' = None /\ escaped' = FALSE
  /\ fragments' = <<>> /\ tested' = 0 /\ result' = 0
  /\ vla' = None /\ tried' = Untried
  /\ calls' = [i \in DOMAIN cs |->
                 IF cs[i].status = "pending" /\ ~Creating(cs[i])
                   THEN [cs[i] EXCEPT !.status = "dropped"]
                   ELSE Overtaken(cs)[i]]

\* By a link or the browser's history.
Navigate(p) == page # p /\ Mount(p, calls)

\* Mutant: the page is cleared for the next VLA.
HandleCreateVLACleared ==
  /\ OnPage("create") /\ sample
  /\ Send("create", Len(fragments), None, FALSE)
  /\ fragments' = <<>> /\ tested' = 0 /\ result' = 0
  /\ UNCHANGED <<page, dialogs, sample, element, req, list>>

HandleCreateVLA ==
  /\ OnPage("create") /\ sample
  /\ Send("create", Len(fragments), None, FALSE)
  /\ UNCHANGED <<page, dialogs, create, list>>

\* Errors are swallowed; either way the user is told that the VLA was created
\* and taken to the list.
Created(i, status) ==
  /\ i \in Pending("create")
  /\ LET cs == [calls EXCEPT ![i].status = status]
     IN  IF page = "list"
           THEN calls' = cs /\ UNCHANGED <<page, dialogs, create, list>>
           ELSE Mount("list", cs)

-----------------------------------------------------------------------------
(* ListView *)

ShowModalAndSetFields(v) ==
  /\ OnPage("list")
  /\ Open("try")
  /\ vla' = v
  /\ tried' = [vla |-> v, busy |-> Pending("attest") # {}]
  /\ UNCHANGED <<page, create, calls>>

\* Mutant: the fields are cleared before the call is made.
OnDataSelectedCleared ==
  /\ OnTop("try")
  /\ CloseTop
  /\ Send("attest", None, tried.vla, tried.busy)
  /\ vla' = None
  /\ UNCHANGED <<page, create, tried>>

OnDataSelected ==
  /\ OnTop("try")
  /\ CloseTop
  /\ Send("attest", vla, tried.vla, tried.busy)
  /\ UNCHANGED <<page, create, list>>

\* The fields are cleared, whichever VLA they are about by now.
Attested(i, status) ==
  /\ i \in Pending("attest")
  /\ Answer(i, status)
  /\ vla' = None
  /\ UNCHANGED <<page, dialogs, create, tried>>

-----------------------------------------------------------------------------
User ==
  \/ OpenSample
  \/ SelectSample
  \/ \E e \in Element : OnNodeClick(e)
  \/ \E i \in DOMAIN fragments : ShowTestModal(i)
  \/ HandleTestDataSelected
  \/ ShowReqModal
  \/ \E t \in Template : Choose(t)
  \/ AddRequirement
  \/ HandleBackdropClick
  \/ Escape
  \/ HandleCreateVLA
  \/ \E p \in {"create", "list"} : Navigate(p)
  \/ \E v \in Vla : ShowModalAndSetFields(v)
  \/ OnDataSelected

Backend ==
  \E i \in DOMAIN calls, status \in {"ok", "failed"} :
    \/ Evaluated(i, status)
    \/ OptionsFetched(i, status)
    \/ Created(i, status)
    \/ Attested(i, status)

Next == User \/ Backend

Spec == Init /\ [][Next]_vars
=============================================================================
