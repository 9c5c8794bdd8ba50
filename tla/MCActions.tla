----------------------------- MODULE MCActions ------------------------------
(* Actions on small instances. *)
EXTENDS Actions

=============================================================================
