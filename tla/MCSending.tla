----------------------------- MODULE MCSending ------------------------------
(* Sending on small instances. *)
EXTENDS Sending
=============================================================================
