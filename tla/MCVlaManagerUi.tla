--------------------------- MODULE MCVlaManagerUi ---------------------------
(***************************************************************************)
(* Instances of VlaManagerUi for TLC: elements and VLAs are interchangeable*)
(* and no property is a liveness property.                                 *)
(***************************************************************************)
EXTENDS VlaManagerUiProps, TLC

Symmetry == Permutations(Element) \cup Permutations(Vla)
=============================================================================
