------------------------------ MODULE MCConsole ------------------------------
(***************************************************************************)
(* Constants for the model-checking run of Console.                        *)
(***************************************************************************)
EXTENDS Console

MCIdentify == <<"i">>
=============================================================================
