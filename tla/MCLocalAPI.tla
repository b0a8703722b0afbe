----------------------------- MODULE MCLocalAPI -----------------------------
(* The instances of LocalAPI that TLC checks. *)
EXTENDS LocalAPI
=============================================================================
