------------------------------ MODULE MCOwnership ------------------------------
(* Small instances of Ownership for TLC. *)
EXTENDS Ownership
================================================================================
