------------------------------ MODULE MCHeader ------------------------------
(* Instances of Header for TLC. *)
EXTENDS Header
=============================================================================
