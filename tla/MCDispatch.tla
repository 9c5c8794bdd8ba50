----------------------------- MODULE MCDispatch -----------------------------
(* Dispatch on small instances. *)
EXTENDS Dispatch

\* The built-in implement-and-review: implement, review, fix.
ImplementAndReview == <<"commits", "verdict", "commits">>
OneStep            == <<"commits">>
PushAndRequest     == {"push", "request"}
TwoTasks           == 1 .. 2
=============================================================================
