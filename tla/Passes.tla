------------------------------- MODULE Passes -------------------------------
(***************************************************************************)
(* What is worked out about the items Files keeps: crates/daemon/src/      *)
(* pipeline/categorize.rs, classify.rs and commitments.rs, in the order    *)
(* main.rs runs them (pipelines_as_mail_arrives), and the user's own word  *)
(* about an item, a sender and a promise (web/api.rs, web/quiet.rs).       *)
(*                                                                         *)
(* A judgement is a row of its own, and the item's level and category are  *)
(* a cache of what its judgements add up to; the row and the cache are     *)
(* written by separate statements.  One pass over the items runs at a      *)
(* time, waits for the model in between, and works on the items as it      *)
(* listed them, while mail comes in, is removed, and a page writes too.    *)
(***************************************************************************)
EXTENDS Files, FiniteSetsExt

CONSTANTS
  Floor,   \* by mail: the level the rules give it
  Matched, \* mails a rule recognised; the others' level is the default
  Sender,  \* mails from somebody the user may say it is all advertising of
  Batch,   \* how many items one question to the model is about
  Most,    \* how many items classification lists at most
  MaxWords \* bound: what the user says

Public == 0
Personal == 1
Secret == 2
Levels == {Public, Personal, Secret}

ASSUME PassesAssumption ==
  /\ Floor \in [Mails -> Levels] /\ Matched \subseteq Mails
  /\ \A m \in Mails \ Matched : Floor[m] = Personal
  /\ Sender \subseteq Mails
  /\ Batch \in Nat \ {0} /\ Most \in Nat /\ MaxWords \in Nat

VARIABLES
  note,     \* by mail: the judgements of its item, and the labels of passes
  cache,    \* by mail: the level and the category on its item
  promise,  \* by mail: the promises drawn from it, by their state
  said,     \* the user has said what Sender's mail is
  judgedAt, \* at how many items the last finished classification was counted
  pass,     \* the loop over the items
  page,     \* a page where the user speaks
  words,
  behind,   \* caches left behind by a cut, or written by two at once
  shrunk,   \* an item was removed since judgedAt was counted
  silent,   \* mails the model was asked about and gave no label
  again     \* mails with a promise on record, cut short before they were marked

passesVars == <<note, cache, promise, said, judgedAt, pass, page, words,
                behind, shrunk, silent, again>>

NoNote == [rule |-> FALSE, model |-> {}, user |-> {}, sorted |-> FALSE, read |-> FALSE]
NewItem == [level |-> Personal, category |-> "unsorted"]

\* at: where the pass stands; todo: the items of this stretch; pending: the ones
\* for the model after it; of: the one it is at; saw: the level it worked out;
\* back: where it goes on; answer: what the model said; word: the user's word as
\* this pass read it; gone: listed items that were removed since.
Asleep == [at |-> "asleep", todo |-> {}, pending |-> {}, of |-> "none", saw |-> Personal,
           back |-> "none", answer |-> <<>>, word |-> "unread", gone |-> {}, counted |-> 0]
NoPage == [at |-> "idle", of |-> "none", saw |-> Personal, left |-> {}, gone |-> {}]

\* The user's judgement wins; otherwise machines only raise (annotation.rs).
Effective(m) ==
  LET n == note[m]
      machine == n.model \cup (IF n.rule THEN {Floor[m]} ELSE {})
  IN  IF n.user # {} THEN Max(n.user)
      ELSE IF machine # {} THEN Max(machine) ELSE Personal

\* The rules settle it without the model.
ByRule(m) == m \in Matched \/ Floor[m] = Secret

\* What a sorted item's category should be.
Category(m) == IF m \in Sender /\ said THEN "said" ELSE "rule"

PassesInit ==
  /\ Init
  /\ note = [m \in Mails |-> NoNote] /\ cache = [m \in Mails |-> NewItem]
  /\ promise = [m \in Mails |-> {}] /\ said = FALSE /\ judgedAt = {}
  /\ pass = Asleep /\ page = NoPage /\ words = 0
  /\ behind = {} /\ shrunk = FALSE /\ silent = {} /\ again = {}

-----------------------------------------------------------------------------
(* Where one is cut short.                                                 *)

\* A judgement is written, the cache is not.  What the rules settle is settled
\* by every pass, so only what the model has judged stays behind.
PassCut ==
  CASE pass.at \in {"settle", "write"} /\ note[pass.of].model # {} -> {<<pass.of, "level">>}
    [] pass.at = "sort write" -> {<<pass.of, "category">>}
    [] OTHER -> {}

PageCut ==
  CASE page.at \in {"noted", "seen"} -> {<<page.of, "level">>}
    [] page.at = "sender" -> (item \cap Sender) \X {"category"}
    [] page.at \in {"each", "each write"} -> page.left \X {"category"}
    [] OTHER -> {}

\* A promise is on record and its message will be read again.
Unmarked == IF pass.at \in {"keep", "mark"} THEN {m \in pass.todo : promise[m] # {}} ELSE {}

-----------------------------------------------------------------------------
(* Sorting.                                                                *)

Wake ==
  /\ pass.at = "asleep"
  /\ pass' = [Asleep EXCEPT !.at = "sort", !.todo = {m \in item : ~note[m].sorted}]
  /\ UNCHANGED <<note, cache, promise, said, judgedAt, page, words, behind, shrunk, silent, again>>

\* The word about a sender is looked up once a pass.
SortLook ==
  /\ pass.at = "sort"
  /\ \E m \in pass.todo :
       pass' = [pass EXCEPT !.at = "sort note", !.of = m, !.todo = @ \ {m},
                  !.word = IF m \in Sender /\ @ = "unread" THEN IF said THEN "said" ELSE "rule" ELSE @]
  /\ UNCHANGED <<note, cache, promise, said, judgedAt, page, words, behind, shrunk, silent, again>>

SortNote ==
  /\ pass.at = "sort note" /\ pass.of \notin pass.gone
  /\ note' = [note EXCEPT ![pass.of].sorted = TRUE]
  /\ pass' = [pass EXCEPT !.at = "sort write"]
  /\ UNCHANGED <<cache, promise, said, judgedAt, page, words, behind, shrunk, silent, again>>

SortWrite ==
  /\ pass.at = "sort write"
  /\ cache' = IF pass.of \in pass.gone THEN cache
              ELSE [cache EXCEPT ![pass.of].category = IF pass.of \in Sender THEN pass.word ELSE "rule"]
  /\ pass' = [pass EXCEPT !.at = "sort"]
  /\ UNCHANGED <<note, promise, said, judgedAt, page, words, behind, shrunk, silent, again>>

Sorting == {"sort", "sort note", "sort write"}

\* The passes after it go on when the model is ready, whatever became of this one.
SortEnds ==
  /\ pass.at = "sort" /\ pass.todo = {}
  /\ pass' \in {Asleep, [Asleep EXCEPT !.at = "count"]}
  /\ UNCHANGED <<note, cache, promise, said, judgedAt, page, words, behind, shrunk, silent, again>>

\* The store refuses, as it does for an item that is gone; or it does not count.
SortFails ==
  /\ pass.at \in Sorting \cup {"count"}
  /\ pass' \in {Asleep, [Asleep EXCEPT !.at = "count"]}
  /\ behind' = behind \cup PassCut
  /\ UNCHANGED <<note, cache, promise, said, judgedAt, page, words, shrunk, silent, again>>

-----------------------------------------------------------------------------
(* Classification.                                                         *)

\* Nothing to do as long as there are as many items as there were.
Count ==
  /\ pass.at = "count"
  /\ pass' = IF judgedAt = {Cardinality(item)} THEN [Asleep EXCEPT !.at = "promises"]
             ELSE [Asleep EXCEPT !.at = "list", !.counted = Cardinality(item)]
  /\ UNCHANGED <<note, cache, promise, said, judgedAt, page, words, behind, shrunk, silent, again>>

\* All fit into one listing.
Few == Cardinality(item) <= Most

\* The newest of them; which those are does not matter here.
List ==
  /\ pass.at = "list"
  /\ \E ms \in SUBSET item :
       /\ IF Few THEN ms = item ELSE Cardinality(ms) = Most
       /\ pass' = [pass EXCEPT !.at = "judge", !.todo = ms]
  /\ UNCHANGED <<note, cache, promise, said, judgedAt, page, words, behind, shrunk, silent, again>>

\* Settled every time, because a pass cut short may have left the cache behind.
\* Bug: settled when its rule is noted only.
SettlesOnce(m) == ByRule(m) /\ ~note[m].rule
Settles(m) == ByRule(m) /\ note[m].model = {}

Judge ==
  /\ pass.at = "judge"
  /\ \E m \in pass.todo \ pass.gone :
       /\ note' = [note EXCEPT ![m].rule = TRUE]
       /\ pass' = [pass EXCEPT
            !.at = IF Settles(m) THEN "settle" ELSE @,
            !.of = m, !.back = "judge", !.todo = @ \ {m},
            !.pending = IF ~ByRule(m) /\ note[m].model = {} THEN @ \cup {m} ELSE @]
  /\ UNCHANGED <<cache, promise, said, judgedAt, page, words, behind, shrunk, silent, again>>

SettleRead ==
  /\ pass.at = "settle" /\ pass.of \notin pass.gone
  /\ pass' = [pass EXCEPT !.at = "write", !.saw = Effective(pass.of)]
  /\ behind' = behind \ {<<pass.of, "level">>}
  /\ UNCHANGED <<note, cache, promise, said, judgedAt, page, words, shrunk, silent, again>>

SettleWrite ==
  /\ pass.at = "write" /\ pass.of \notin pass.gone
  /\ cache' = [cache EXCEPT ![pass.of].level = pass.saw]
  /\ pass' = [pass EXCEPT !.at = pass.back]
  /\ UNCHANGED <<note, promise, said, judgedAt, page, words, behind, shrunk, silent, again>>

JudgeEnds ==
  /\ pass.at = "judge" /\ pass.todo = {}
  /\ pass' = [pass EXCEPT !.at = "ask"]
  /\ UNCHANGED <<note, cache, promise, said, judgedAt, page, words, behind, shrunk, silent, again>>

Batches(ms) == {b \in SUBSET ms : Cardinality(b) = Batch} \cup (IF Cardinality(ms) < Batch THEN {ms} ELSE {})

\* The model is asked about a few, and the pass waits.
Ask ==
  /\ pass.at = "ask" /\ pass.pending # {}
  /\ \E b \in Batches(pass.pending) :
       pass' = [pass EXCEPT !.at = "asked", !.todo = b, !.pending = @ \ b]
  /\ UNCHANGED <<note, cache, promise, said, judgedAt, page, words, behind, shrunk, silent, again>>

\* It need not answer for each, but for one of them.
Answered ==
  /\ pass.at = "asked"
  /\ \E a \in [pass.todo -> {{}} \cup {{l} : l \in Levels}] :
       /\ \E m \in pass.todo : a[m] # {}
       /\ pass' = [pass EXCEPT !.at = "label", !.answer = a]
  /\ UNCHANGED <<note, cache, promise, said, judgedAt, page, words, behind, shrunk, silent, again>>

\* The model only raises.
Label ==
  /\ pass.at = "label"
  /\ \E m \in pass.todo \ pass.gone :
       /\ note' = [note EXCEPT ![m].model = {Max({l, Floor[m]}) : l \in pass.answer[m]}]
       /\ silent' = IF pass.answer[m] = {} THEN silent \cup {m} ELSE silent
       /\ pass' = [pass EXCEPT !.at = "settle", !.of = m, !.back = "label", !.todo = @ \ {m}]
  /\ UNCHANGED <<cache, promise, said, judgedAt, page, words, behind, shrunk, again>>

LabelEnds ==
  /\ pass.at = "label" /\ pass.todo = {}
  /\ pass' = [pass EXCEPT !.at = "ask"]
  /\ UNCHANGED <<note, cache, promise, said, judgedAt, page, words, behind, shrunk, silent, again>>

\* It was counted before it began.
\* Bug: it is counted when it is done.
CountedAfter == Cardinality(item)
Counted == pass.counted

ClassifyEnds ==
  /\ pass.at = "ask" /\ pass.pending = {}
  /\ judgedAt' = {Counted} /\ shrunk' = (pass.gone # {})
  /\ pass' = [Asleep EXCEPT !.at = "promises"]
  /\ UNCHANGED <<note, cache, promise, said, page, words, behind, silent, again>>

\* The store refuses, the model does not answer or makes no sense, or the steps
\* of the run are used up.
ClassifyFails ==
  /\ pass.at \in {"list", "judge", "settle", "write", "ask", "asked", "label"}
  /\ pass' = [Asleep EXCEPT !.at = "promises"]
  /\ behind' = behind \cup PassCut
  /\ UNCHANGED <<note, cache, promise, said, judgedAt, page, words, shrunk, silent, again>>

-----------------------------------------------------------------------------
(* Promises.                                                               *)

\* What is quiet is not looked at.
Unread == {m \in item : ~note[m].read /\ cache[m].category # "said"}

\* What is public is set aside; the levels are the ones in the listing.
ListUnread ==
  /\ pass.at = "promises"
  /\ pass' = [Asleep EXCEPT !.at = "set aside",
                !.todo = {m \in Unread : cache[m].level = Public},
                !.pending = {m \in Unread : cache[m].level # Public}]
  /\ UNCHANGED <<note, cache, promise, said, judgedAt, page, words, behind, shrunk, silent, again>>

Mark ==
  /\ pass.at \in {"set aside", "mark"}
  /\ \E m \in pass.todo \ pass.gone :
       /\ note' = [note EXCEPT ![m].read = TRUE]
       /\ pass' = [pass EXCEPT !.todo = @ \ {m}]
  /\ UNCHANGED <<cache, promise, said, judgedAt, page, words, behind, shrunk, silent, again>>

Marked ==
  /\ pass.at \in {"set aside", "mark"} /\ pass.todo = {}
  /\ pass' = [pass EXCEPT !.at = "read"]
  /\ UNCHANGED <<note, cache, promise, said, judgedAt, page, words, behind, shrunk, silent, again>>

Read ==
  /\ pass.at = "read" /\ pass.pending # {}
  /\ \E b \in Batches(pass.pending) :
       pass' = [pass EXCEPT !.at = "reading", !.todo = b, !.pending = @ \ b]
  /\ UNCHANGED <<note, cache, promise, said, judgedAt, page, words, behind, shrunk, silent, again>>

\* The model finds promises in some.
Found ==
  /\ pass.at = "reading"
  /\ \E f \in SUBSET pass.todo :
       pass' = [pass EXCEPT !.at = "keep", !.answer = [m \in f |-> {}]]
  /\ UNCHANGED <<note, cache, promise, said, judgedAt, page, words, behind, shrunk, silent, again>>

\* An open one in the same words is the same one.  A promise names its message
\* and does not need it to be there.
Keep ==
  /\ pass.at = "keep"
  /\ \E m \in DOMAIN pass.answer :
       /\ pass' = [pass EXCEPT !.answer = [k \in DOMAIN @ \ {m} |-> {}]]
       /\ promise' = IF promise[m] \cap {"open", "stray"} # {} THEN promise
                     ELSE [promise EXCEPT ![m] = @ \cup {IF m \in pass.gone THEN "stray" ELSE "open"}]
  /\ UNCHANGED <<note, cache, said, judgedAt, page, words, behind, shrunk, silent, again>>

Kept ==
  /\ pass.at = "keep" /\ DOMAIN pass.answer = {}
  /\ pass' = [pass EXCEPT !.at = "mark"]
  /\ UNCHANGED <<note, cache, promise, said, judgedAt, page, words, behind, shrunk, silent, again>>

ReadEnds ==
  /\ pass.at = "read" /\ pass.pending = {}
  /\ pass' = Asleep
  /\ UNCHANGED <<note, cache, promise, said, judgedAt, page, words, behind, shrunk, silent, again>>

ReadFails ==
  /\ pass.at \in {"promises", "set aside", "read", "reading", "keep", "mark"}
  /\ pass' = Asleep
  /\ again' = again \cup Unmarked
  /\ UNCHANGED <<note, cache, promise, said, judgedAt, page, words, behind, shrunk, silent>>

-----------------------------------------------------------------------------
(* The user's word.                                                        *)

Says == words < MaxWords /\ words' = words + 1

\* About an item: noted, then added up and cached.
SayLevel(m, l) ==
  /\ page.at = "idle" /\ m \in item /\ Says
  /\ note' = [note EXCEPT ![m].user = {l}]
  /\ page' = [NoPage EXCEPT !.at = "noted", !.of = m]
  /\ behind' = IF pass.at = "write" /\ pass.of = m THEN behind \cup {<<m, "level">>} ELSE behind
  /\ UNCHANGED <<cache, promise, said, judgedAt, pass, shrunk, silent, again>>

LevelRead ==
  /\ page.at = "noted"
  /\ page' = IF page.of \in page.gone THEN NoPage
             ELSE [page EXCEPT !.at = "seen", !.saw = Effective(page.of)]
  /\ UNCHANGED <<note, cache, promise, said, judgedAt, pass, words, behind, shrunk, silent, again>>

LevelWrite ==
  /\ page.at = "seen"
  /\ cache' = IF page.of \in page.gone THEN cache ELSE [cache EXCEPT ![page.of].level = page.saw]
  /\ page' = NoPage
  /\ UNCHANGED <<note, promise, said, judgedAt, pass, words, behind, shrunk, silent, again>>

\* About a sender: for what comes later, then item by item.
SaySender ==
  /\ page.at = "idle" /\ Says
  /\ said' = TRUE
  /\ page' = [NoPage EXCEPT !.at = "sender"]
  /\ behind' = behind \cup (IF pass.at \in Sorting /\ pass.word = "rule"
                            THEN ((pass.todo \cup {pass.of}) \cap Sender) \X {"category"} ELSE {})
  /\ UNCHANGED <<note, cache, promise, judgedAt, pass, shrunk, silent, again>>

SenderFind ==
  /\ page.at = "sender"
  /\ page' = [page EXCEPT !.at = "each", !.left = item \cap Sender]
  /\ UNCHANGED <<note, cache, promise, said, judgedAt, pass, words, behind, shrunk, silent, again>>

SenderNote ==
  /\ page.at = "each"
  /\ \E m \in page.left \ page.gone :
       /\ note' = [note EXCEPT ![m].sorted = TRUE]
       /\ page' = [page EXCEPT !.at = "each write", !.of = m]
  /\ UNCHANGED <<cache, promise, said, judgedAt, pass, words, behind, shrunk, silent, again>>

SenderWrite ==
  /\ page.at = "each write"
  /\ cache' = IF page.of \in page.gone THEN cache ELSE [cache EXCEPT ![page.of].category = "said"]
  /\ page' = [page EXCEPT !.at = "each", !.left = @ \ {page.of}]
  /\ UNCHANGED <<note, promise, said, judgedAt, pass, words, behind, shrunk, silent, again>>

SenderEnds ==
  /\ page.at = "each" /\ page.left = {}
  /\ page' = NoPage
  /\ UNCHANGED <<note, cache, promise, said, judgedAt, pass, words, behind, shrunk, silent, again>>

\* The store refuses, as it does for an item that is gone; the rest is left.
PageFails ==
  /\ page.at # "idle" /\ (Says \/ (page.left \cap page.gone # {} /\ UNCHANGED words))
  /\ page' = NoPage
  /\ behind' = behind \cup PageCut
  /\ UNCHANGED <<note, cache, promise, said, judgedAt, pass, shrunk, silent, again>>

\* About a promise.
Reject(m) ==
  /\ "open" \in promise[m] /\ Says
  /\ promise' = [promise EXCEPT ![m] = (@ \ {"open"}) \cup {"rejected"}]
  /\ UNCHANGED <<note, cache, said, judgedAt, pass, page, behind, shrunk, silent, again>>

-----------------------------------------------------------------------------
(* Items come and go, and with them what was noted about them; a mail      *)
(* taken in again is a new item.                                           *)

\* Bug: promises are not removed with the items they rest on.
PromisesStay(ms) == promise
PromisesWithout(ms) == [m \in Mails |-> IF m \in ms THEN promise[m] \cap {"stray"} ELSE promise[m]]

Follow ==
  LET left == item \ item'
      stopped == up /\ ~up'
      cutNow == IF stopped THEN PassCut \cup PageCut ELSE {}
  IN  /\ note' = [m \in Mails |-> IF m \in left THEN NoNote ELSE note[m]]
      /\ cache' = [m \in Mails |-> IF m \in left THEN NewItem ELSE cache[m]]
      /\ promise' = PromisesWithout(left)
      /\ behind' = {b \in behind \cup cutNow : b[1] \notin left}
      /\ silent' = silent \ left
      /\ again' = (again \cup (IF stopped THEN Unmarked ELSE {})) \ left
      /\ shrunk' = (judgedAt # {} /\ ~stopped /\ (shrunk \/ left # {}))
      /\ pass' = IF stopped THEN Asleep ELSE IF pass.at = "asleep" THEN pass ELSE [pass EXCEPT !.gone = @ \cup left]
      /\ page' = IF stopped THEN NoPage ELSE IF page.at = "idle" THEN page ELSE [page EXCEPT !.gone = @ \cup left]
      /\ judgedAt' = IF stopped THEN {} ELSE judgedAt
      /\ UNCHANGED <<said, words>>

Pass ==
  \/ Wake \/ SortLook \/ SortNote \/ SortWrite \/ SortEnds \/ SortFails
  \/ Count \/ List \/ Judge \/ SettleRead \/ SettleWrite \/ JudgeEnds
  \/ Ask \/ Answered \/ Label \/ LabelEnds \/ ClassifyEnds \/ ClassifyFails
  \/ ListUnread \/ Mark \/ Marked \/ Read \/ Found \/ Keep \/ Kept \/ ReadEnds \/ ReadFails

Speak ==
  \/ \E m \in Mails, l \in Levels : SayLevel(m, l)
  \/ \E m \in Mails : Reject(m)
  \/ LevelRead \/ LevelWrite
  \/ SaySender \/ SenderFind \/ SenderNote \/ SenderWrite \/ SenderEnds \/ PageFails

PassesNext ==
  \/ Next /\ Follow
  \/ up /\ (Pass \/ Speak) /\ UNCHANGED filesVars

PassesSpec == PassesInit /\ [][PassesNext]_<<filesVars, passesVars>>

-----------------------------------------------------------------------------
(* What holds.                                                             *)

Settling(m) == \/ pass.at \in {"settle", "write"} /\ pass.of = m
               \/ page.at \in {"noted", "seen"} /\ page.of = m

Speaking(m) == \/ pass.at = "sort write" /\ pass.of = m
               \/ page.at = "sender"
               \/ page.at \in {"each", "each write"} /\ m \in page.left

UpToDate == judgedAt = {Cardinality(item)} /\ ~shrunk /\ Few

\* The level and the category on an item are what the judgements about it add up
\* to, in whatever order rules, model and user speak and whatever fails: at once,
\* or, for what the model has not judged, when the next classification is done;
\* but for what was cut between a judgement and the cache, or written by a pass
\* and a page at once.
CachesAddUp ==
  \A m \in item :
    /\ \/ cache[m].level = Effective(m)
       \/ <<m, "level">> \in behind \/ Settling(m)
       \/ note[m].model = {} /\ ~UpToDate
    /\ \/ note[m].sorted => cache[m].category = Category(m)
       \/ <<m, "category">> \in behind \/ Speaking(m)

\* When classification sees no reason to run again, every item has been judged,
\* by a rule or by the model, though mail comes in while the model is asked; but
\* for what the model gave no label, and unless an item was removed meanwhile, so
\* that there are as many items and not the same, or there are more than are listed.
AllJudged ==
  UpToDate =>
    \A m \in item : note[m].rule /\ (ByRule(m) \/ note[m].model # {} \/ m \in silent)

\* A promise rests on an item that is there, and one the user has turned down is
\* not made again from the same message, unless the pass was cut short before the
\* message was marked as read.
PromisesStand ==
  \A m \in Mails :
    /\ promise[m] \cap {"open", "rejected"} # {} => m \in item
    /\ "rejected" \in promise[m] /\ m \notin again => "open" \notin promise[m]
=============================================================================
