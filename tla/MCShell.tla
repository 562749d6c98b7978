------------------------------- MODULE MCShell -------------------------------
(***************************************************************************)
(* The model-checking runs of Shell: their constants are in the cfg files. *)
(***************************************************************************)
EXTENDS Shell
=============================================================================
