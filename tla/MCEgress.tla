------------------------------ MODULE MCEgress ------------------------------
EXTENDS Egress

Asking(purpose, level) ==
  [purpose |-> purpose, level |-> level, keptLocal |-> FALSE,
   personalAllowed |-> FALSE, looksSecret |-> FALSE]

MCAsks == {Asking("corpus", "secret"), Asking("ordinary", "public"), Asking("ordinary", "personal"),
           [Asking("ordinary", "personal") EXCEPT !.keptLocal = TRUE],
           [Asking("delegate", "personal") EXCEPT !.personalAllowed = TRUE],
           [Asking("delegate", "public") EXCEPT !.looksSecret = TRUE]}

\* The cloud model first, the local one behind it; and, after an edit that
\* points each name at the other's endpoint, a corpus chain that names both.
MCConfigs ==
  {[cloud |-> TRUE,
    chain |-> [corpus |-> <<"small">>, ordinary |-> <<"large", "small">>],
    location |-> [small |-> "local", large |-> "cloud"]],
   [cloud |-> FALSE,
    chain |-> [corpus |-> <<"small", "large">>, ordinary |-> <<"small", "large">>],
    location |-> [small |-> "cloud", large |-> "local"]]}

Commands == Procs \ {Core}

\* The whole would be too large, so a state is followed when it is one of two
\* kinds.  Commands share the ledger, two of them while it is short, and things
\* happen to the database:
LedgerOnly ==
  /\ proc[Core] = Closed
  /\ \A c \in Calls : call[c] = NoCall
  /\ gateway = [up |-> TRUE, known |-> config, seen |-> {}] /\ restarts = 0 /\ config.cloud
  /\ (\A p \in Commands : proc[p].pc # "closed") => Len(rows) <= 2 /\ mishaps = 0
  /\ crossed => Len(rows) <= 2 /\ mishaps = 0

\* Or the core alone uses it and makes its calls, two of them while nobody edits
\* or restarts anything.
CallsOnly ==
  /\ \A p \in Commands : proc[p] = Closed
  /\ \A n \in DOMAIN rows : rows[n].body[1] # "other"
  /\ mishaps = 0
  /\ (\A c \in Calls : call[c].pc # "new") =>
       /\ \A c \in Calls : call[c].ask \in {NotAsked, Asking("ordinary", "public")}
       /\ restarts = 0 /\ config = gateway.known /\ known \in {config, NoConfig} /\ config.cloud
       /\ proc[Core].pc \in {"open", "begun", "committed", "closed"} /\ verdict[Core] = "none"

OneThingAtATime == LedgerOnly \/ CallsOnly

Symmetry == Permutations(Commands) \cup Permutations(Calls)

MCBodies == AllBodies
MCAltered == <<"altered">>
=============================================================================
