--------------------------- MODULE MCTemplateRepo ---------------------------
(***************************************************************************)
(* Instances of TemplateRepo for TLC: one column of templates stands for   *)
(* the four that a patch may name, two of evaluation_methods for its three.*)
(***************************************************************************)
EXTENDS TemplateRepoProps, TLC

Symmetry == Permutations(Call)
=============================================================================
