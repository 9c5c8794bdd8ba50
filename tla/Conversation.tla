---------------------------- MODULE Conversation ----------------------------
(***************************************************************************)
(* A question to the conversation: crates/daemon/src/conversation.rs.      *)
(*                                                                         *)
(* The model is asked for a tool call or an answer, a bounded number of    *)
(* times.  What a tool finds is put into the material, oldest out first    *)
(* when it grows too large; each request says which items its material is  *)
(* about and how sensitive the most sensitive of them is, and an answer    *)
(* may cite what was in it.  While the model is waited for, levels are     *)
(* set, items come in and go, and the core may stop.                       *)
(***************************************************************************)
EXTENDS Passes, Sequences

CONSTANTS
  Lookups,    \* calls of the tools that read, by their arguments
  MaxSteps,   \* how often one question asks the model
  Weight,     \* by mail: what its excerpt takes of the material's budget
  ZoneBudget  \* of which a note takes one

ASSUME ConversationAssumption ==
  /\ Lookups \cap Mails = {}
  /\ MaxSteps \in Nat \ {0} /\ ZoneBudget \in Nat
  /\ Weight \in [Mails -> Nat]

VARIABLE talk
conversationVars == <<filesVars, passesVars, talk>>

Sequence == INSTANCE SequencesExt

\* A draft is asked for by the mail it answers.
Calls == Lookups \cup Mails

\* sources: the material, oldest first; known: what of it is an item, for the
\* levels and the cites; read: in which round it was put there, which tells
\* an item from one taken in again; gone: sources removed from the store since.
Source(m, round) == [of |-> m, read |-> round, level |-> cache[m].level]
Note == [of |-> "note", read |-> 0, level |-> Public]

NoTalk == [at |-> "idle", round |-> 0, repeats |-> 0, made |-> {}, call |-> "none",
           typed |-> Public, sources |-> <<>>, known |-> {}, gone |-> {},
           level |-> Public, cited |-> {}]

ConversationInit == PassesInit /\ talk = NoTalk

-----------------------------------------------------------------------------
(* The material.                                                           *)

Weighs(s) ==
  LET sum[i \in 0 .. Len(s)] ==
        IF i = 0 THEN 0 ELSE sum[i - 1] + (IF s[i] = Note THEN 1 ELSE Weight[s[i].of])
  IN  sum[Len(s)]

\* As few of the oldest as will make it fit, and never the last.
Dropped(s) ==
  Min({d \in 0 .. Len(s) : Len(s) - d <= 1 \/ Weighs(SubSeq(s, d + 1, Len(s))) <= ZoneBudget})

\* What is dropped is no longer known.
\* Bug: only the envelopes are dropped.
TrimKeepsItems(t) ==
  [t EXCEPT !.sources = SubSeq(@, Dropped(@) + 1, Len(@))]

Trim(t) ==
  LET d == Dropped(t.sources)
  IN  [t EXCEPT !.sources = SubSeq(@, d + 1, Len(@)),
                !.known = @ \ {t.sources[i] : i \in 1 .. d}]

\* An item is put there once, as it was then.
\* Bug: it is put there again.
AddAnyway(t, m) ==
  LET had == {s \in t.known \ t.gone : s.of = m}
      s   == IF had = {} THEN Source(m, t.round) ELSE CHOOSE h \in had : TRUE
  IN  [t EXCEPT !.sources = Append(@, s), !.known = @ \cup {s}]

AddItem(t, m) ==
  LET s == Source(m, t.round)
  IN  IF \E h \in t.known \ t.gone : h.of = m THEN t
      ELSE [t EXCEPT !.sources = Append(@, s), !.known = @ \cup {s}]

AddItems(t, ms) ==
  LET add[i \in 0 .. Len(ms)] == IF i = 0 THEN t ELSE AddItem(add[i - 1], ms[i])
  IN  add[Len(ms)]

AddNote(t) == [t EXCEPT !.sources = Append(@, Note)]

-----------------------------------------------------------------------------
(* A question.                                                             *)

\* The words typed have a level of their own.
AskQuestion ==
  /\ talk.at = "idle"
  /\ \E l \in {Personal, Secret} :
       talk' = [NoTalk EXCEPT !.at = "ask", !.round = 1, !.typed = l]

\* The last time, or after two repeats, only an answer will do.
FinalTurn == talk.round = MaxSteps \/ talk.repeats >= 2

Plan ==
  LET t == Trim(talk)
  IN  /\ talk.at = "ask"
      /\ talk' = [t EXCEPT !.at = "asked", !.level = Max({t.typed} \cup {s.level : s \in t.known})]

\* The run is closed and said to have stopped, or that cannot be written and
\* there is no reply at all.
Stops(t) == talk' \in {[t EXCEPT !.at = "stopped"], [t EXCEPT !.at = "lost"]}

Onwards(t) == [t EXCEPT !.at = IF t.round = MaxSteps THEN "stopped" ELSE "ask",
                        !.call = "none",
                        !.round = IF t.round = MaxSteps THEN @ ELSE @ + 1]

\* Anything may be cited, and what was not in the material is left out.
Answer ==
  /\ talk.at = "asked"
  /\ \E cites \in SUBSET Mails :
       talk' = [talk EXCEPT !.at = "answered", !.cited = {s \in talk.known : s.of \in cites}]

Wants(c) ==
  /\ talk.at = "asked" /\ ~FinalTurn /\ c \notin talk.made
  /\ talk' = [talk EXCEPT !.at = "tool", !.call = c, !.made = @ \cup {c}]

\* What was run before is not run again.
Repeats(c) ==
  /\ talk.at = "asked" /\ ~FinalTurn /\ c \in talk.made
  /\ talk' = Onwards(AddNote([talk EXCEPT !.repeats = @ + 1]))

\* A search, a conversation or a person, with a card or without; or nothing.
Lookup ==
  /\ talk.at = "tool" /\ talk.call \in Lookups
  /\ \E found \in SUBSET item, card \in BOOLEAN :
       \E ms \in Sequence!SetToSeqs(found) :
         talk' = Onwards(AddItems(IF card \/ found = {} THEN AddNote(talk) ELSE talk, ms))

\* A reply is drafted by the model, if the message is there.
Draft ==
  /\ talk.at = "tool" /\ talk.call \in Mails
  /\ talk' = IF talk.call \in item THEN [talk EXCEPT !.at = "drafting"] ELSE Onwards(AddNote(talk))

\* It is proposed, and waits for approval like any other (Actions), or could not
\* be made; the model is told which.
Drafted ==
  /\ talk.at = "drafting"
  /\ talk' = Onwards(AddNote(talk))

\* The model, the store or the ledger fails, or the run is out of steps.
TalkFails ==
  /\ talk.at \in {"asked", "tool", "drafting"}
  /\ Stops(talk)

Replied ==
  /\ talk.at \in {"answered", "stopped", "lost"}
  /\ talk' = NoTalk

\* A stop of the core ends it; what is removed stays in the material.
TalkFollows ==
  talk' = IF up /\ ~up' THEN NoTalk
          ELSE [talk EXCEPT !.gone = @ \cup {s \in talk.known : s.of \in item \ item'}]

Converse ==
  \/ AskQuestion \/ Plan \/ Answer \/ Lookup \/ Draft \/ Drafted \/ TalkFails \/ Replied
  \/ \E c \in Calls : Wants(c) \/ Repeats(c)

ConversationNext ==
  \/ PassesNext /\ TalkFollows
  \/ up /\ Converse /\ UNCHANGED <<filesVars, passesVars>>

ConversationSpec == ConversationInit /\ [][ConversationNext]_conversationVars

-----------------------------------------------------------------------------
(* What holds.                                                             *)

Shown == {talk.sources[i] : i \in DOMAIN talk.sources} \ {Note}

\* Design 02: a request is as sensitive as the most sensitive of what is in it.
\* Every message whose words are in the material of a request is among the items
\* the request names, and none is above its level, whatever was looked up twice,
\* dropped and found again; each as it was when it was read.
PromptIsCovered ==
  talk.at = "asked" =>
    Shown \subseteq talk.known /\ \A s \in Shown : s.level <= talk.level

\* Design 03: a cite that was not in the context is not a cite.  What an answer
\* cites is in the material it was made from.
CitesAreShown == talk.at = "answered" => talk.cited \subseteq Shown

=============================================================================
