----------------------------- MODULE MCVerifier -----------------------------
(***************************************************************************)
(* The instance of Verifier for TLC: a request of any kind, about a        *)
(* did:key or one that does not decode, beside two that each add or remove *)
(* the former.  Verifications change nothing that another could notice.    *)
(***************************************************************************)
EXTENDS VerifierProps

CONSTANTS c1, d1, bad

Updates == [op : {"add", "remove"}, did : {d1}, token : {"valid"}]

MCAsked ==
  [c \in Call |->
     IF c # c1 THEN Updates
     ELSE Updates
            \cup [op : {"verify"}, did : {d1}, jws : Jws]
            \cup [op : {"verify"}, did : {bad}, jws : {Forged}]
            \cup [op : {"add"}, did : {d1}, token : {"invalid"}]]
=============================================================================
