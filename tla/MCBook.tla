------------------------------- MODULE MCBook -------------------------------
(* Instances of Book for TLC. *)
EXTENDS Book

CONSTANTS v, w, blank
=============================================================================
