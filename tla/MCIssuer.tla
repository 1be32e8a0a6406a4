------------------------------ MODULE MCIssuer ------------------------------
(***************************************************************************)
(* Instances of Issuer for TLC.  A key is drawn per generation, so the     *)
(* number of keys bounds how often the file is generated anew; when they   *)
(* run out GenerateKey is disabled, which the liveness run excludes by     *)
(* having a key for every call and one for the initial file.               *)
(***************************************************************************)
EXTENDS IssuerProps
=============================================================================
