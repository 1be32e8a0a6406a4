-------------------------- MODULE VlaManagerUiProps --------------------------
(***************************************************************************)
(* What holds of the VLA manager's user interface: which of the user's     *)
(* gestures must have coincided for the page to mix up what it is about.   *)
(***************************************************************************)
EXTENDS VlaManagerUi

\* A requirement is about another element than the one its dialog displayed
\* only when the dialog was left with the Esc key in between, which forgets
\* neither the template nor the values taken for it (ReqModal.vue, the watcher
\* and handleBackdropClick).
MismatchNeedsEscape ==
  \A i \in DOMAIN fragments :
    fragments[i].element # fragments[i].shown => fragments[i].escaped

\* With no evaluation pending, the result displayed under the fragment that
\* was tested last is that fragment's, unless its evaluation failed or
\* overlapped another, or no data was selected for it (CreateView.vue,
\* handleTestDataSelected, which never resets testResult).
WrongResultNeedsTrouble ==
  LET evaluations == {i \in DOMAIN calls : calls[i].kind = "evaluate"}
  IN  (result \notin {0, tested} /\ Pending("evaluate") = {}) =>
        \E i \in evaluations :
          /\ \A j \in evaluations : j <= i
          /\ \/ calls[i].of # tested
             \/ calls[i].status = "failed"
             \/ calls[i].overlapped

\* When a creation is answered, the page that the user is taken away from, and
\* whose fragments the alert counts, holds what was sent, unless the user added
\* a fragment or went elsewhere meanwhile (CreateView.vue:195-196, which reads
\* the page and routes after its await, errors or not).
CreationMatchesPage ==
  \A i \in Pending("create") : ~calls[i].overlapped =>
    page = "create" /\ Len(fragments) = calls[i].of

\* An attestation is requested of the VLA whose Try the user clicked, or of
\* none at all; of none only when an earlier request was pending as the user
\* clicked, whose answer then cleared the fields of the new one
\* (ListView.vue, onDataSelected).
LostVlaNeedsOverlap ==
  \A i \in DOMAIN calls :
    (calls[i].kind = "attest" /\ calls[i].of # calls[i].meant) =>
      calls[i].of = None /\ calls[i].overlapped
=============================================================================
