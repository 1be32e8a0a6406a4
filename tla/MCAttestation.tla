--------------------------- MODULE MCAttestation ---------------------------
(***************************************************************************)
(* Instances of Attestation for TLC.  VLA va asks for q1 only, vb for q1   *)
(* and q2, vn is a document without requirements.  {} satisfies q1 (as a   *)
(* jq program without output does) but not q2; the array satisfies neither.*)
(***************************************************************************)
EXTENDS AttestationProps, TLC

CONSTANTS r1, r2, va, vb, vn, q1, q2, good, empty, array

MCContent == (va :> {q1}) @@ (vb :> {q1, q2}) @@ (vn :> {})
MCMeets   == (q1 :> {good, empty}) @@ (q2 :> {good})
OneVLA    == va :> {q1}
OneMeets  == q1 :> {good, empty}

Symmetry == Permutations(Request)
=============================================================================
