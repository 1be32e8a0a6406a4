----------------------------- MODULE MCVlaStore -----------------------------
(***************************************************************************)
(* Instances of VlaStore for TLC: pools of a single connection, so that    *)
(* two requests suffice to exhaust one.                                    *)
(***************************************************************************)
EXTENDS VlaStoreProps
=============================================================================
