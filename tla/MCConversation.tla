---------------------------- MODULE MCConversation ----------------------------
EXTENDS Conversation, TLC
CONSTANTS m1, m2, b1, l1, l2
\* They share one attachment.
MCAttached == (m1 :> {b1}) @@ (m2 :> {b1})
MCWeight == (m1 :> 2) @@ (m2 :> 1)
MCFloor == (m1 :> Personal) @@ (m2 :> Public)

\* Files by itself, as far as two are at work; after a clash no more trouble.
TwoAtATime ==
  /\ Cardinality({p \in Takers : taking[p].pc # "idle"})
     + Cardinality({q \in Removers : removing[q].pc # "idle"}) <= 2
  /\ Cardinality(contested) + trouble <= 1

\* The passes and a page, with mail that comes in or is removed in the meantime.
Waiting == pass.at \in {"asleep", "asked", "reading"} /\ page.at = "idle"

FilesAlone ==
  /\ words = 0 /\ pass.at = "asleep" /\ pass = Asleep /\ page = NoPage /\ judgedAt = {}
  /\ note = [m \in Mails |-> NoNote] /\ cache = [m \in Mails |-> NewItem]
  /\ promise = [m \in Mails |-> {}] /\ behind = {} /\ silent = {} /\ again = {}
  /\ TwoAtATime

Alone ==
  /\ Free("command") /\ cut = {} /\ contested = {} /\ ~marked
  /\ taking["core"].pc \in {"idle", "insert"} \/ Waiting
  /\ removing["page"].pc \in {"idle", "remove"} \/ Waiting
  /\ taking["core"].pc = "idle" \/ removing["page"].pc = "idle"

\* One of the passes at a time.
Sorts ==
  /\ pass.at \in {"asleep", "count"} \cup Sorting
  /\ \A m \in Mails : ~note[m].rule /\ ~note[m].read /\ note[m].user = {} /\ promise[m] = {}

Judges ==
  /\ pass.at \in {"asleep", "sort", "count", "list", "judge", "settle", "write", "ask", "asked", "label", "promises"}
  /\ ~said /\ \A m \in Mails : ~note[m].sorted /\ ~note[m].read /\ promise[m] = {}

Reads ==
  /\ pass.at \in {"asleep", "sort", "count", "list", "promises", "set aside", "read", "reading", "keep", "mark"}
  /\ \A m \in Mails : ~note[m].rule /\ (note[m].sorted => said)
  /\ note[m1].user = {} /\ promise[m2] = {} /\ behind = {}

OneOfThem == Sorts \/ Judges \/ Reads

PassesAlone == Alone /\ OneOfThem

\* A question, with a page that raises a level and items that are removed.  Which
\* of the two lookups comes first makes no difference, and when the words typed are
\* secret the question's level can rise no further.
TalkAlone ==
  /\ l2 \in talk.made => l1 \in talk.made
  /\ talk.typed = Secret => talk.round <= 1
  /\ Free("command") /\ taking["core"].pc = "idle" /\ trouble = 0 /\ cut = {} /\ contested = {} /\ ~marked
  /\ removing["page"].pc \in {"idle", "remove"} \/ talk.at = "asked"
  /\ blob = Attachments /\ raw = item
  /\ pass = Asleep /\ judgedAt = {} /\ ~said
  /\ \A m \in Mails :
       note[m] \in {NoNote, [NoNote EXCEPT !.user = {Secret}]} /\ promise[m] = {}
  /\ page.at = "idle" \/ talk.at \in {"idle", "asked"}
  /\ behind = {} /\ silent = {} /\ again = {}

OneThingAtATime ==
  \/ talk.at = "idle" /\ (FilesAlone \/ PassesAlone)
  \/ TalkAlone
=============================================================================
