------------------------------ MODULE Approval ------------------------------
(***************************************************************************)
(* What approval promises, and all it promises: words are handed to an     *)
(* executor only on the strength of a live approval of exactly those       *)
(* words, an approval is good for one hand-out, a new draft voids it, and  *)
(* no draft is ever handed out twice.                                      *)
(*                                                                         *)
(* The abstract specification of Actions and of whatever else decides over *)
(* drafts.  It knows no tokens, no nonces, no clock and no reports.        *)
(***************************************************************************)
EXTENDS Naturals, Sequences

CONSTANT Ids

VARIABLES
  draft,    \* the newest draft, 0 before there is one
  credit,   \* the draft a live approval is for, 0 when there is none
  taken     \* the drafts handed out, oldest first

vars == <<draft, credit, taken>>

Init ==
  /\ draft  = [i \in Ids |-> 0]
  /\ credit = [i \in Ids |-> 0]
  /\ taken  = [i \in Ids |-> <<>>]

WasTaken(i, d) == \E k \in 1 .. Len(taken[i]) : taken[i][k] = d

Draft(i) ==
  /\ draft'  = [draft EXCEPT ![i] = @ + 1]
  /\ credit' = [credit EXCEPT ![i] = 0]
  /\ UNCHANGED taken

\* Only the newest draft, and never one that was handed out before.
Approve(i) ==
  /\ draft[i] # 0
  /\ ~WasTaken(i, draft[i])
  /\ credit' = [credit EXCEPT ![i] = draft[i]]
  /\ UNCHANGED <<draft, taken>>

\* Taken back, lapsed, or overtaken by a report.
Void(i) ==
  /\ credit' = [credit EXCEPT ![i] = 0]
  /\ UNCHANGED <<draft, taken>>

HandOut(i) ==
  /\ credit[i] # 0
  /\ taken'  = [taken EXCEPT ![i] = Append(@, credit[i])]
  /\ credit' = [credit EXCEPT ![i] = 0]
  /\ UNCHANGED draft

Next == \E i \in Ids : Draft(i) \/ Approve(i) \/ Void(i) \/ HandOut(i)

Spec == Init /\ [][Next]_vars
=============================================================================
