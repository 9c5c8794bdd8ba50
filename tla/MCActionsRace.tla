--------------------------- MODULE MCActionsRace ----------------------------
(* ActionsRace on small instances. *)
EXTENDS ActionsRace, TLC

\* Handlers are told apart by what they do only.
HandlerSymmetry == Permutations(Handlers)
=============================================================================
