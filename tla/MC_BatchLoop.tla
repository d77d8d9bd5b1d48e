------------------------------ MODULE MC_BatchLoop ------------------------------
(* Constants for BatchLoop: the values of MC_PyJaql. *)
EXTENDS BatchLoop, MC_PyJaql
=============================================================================
