------------------------------ MODULE MCHouse -------------------------------
EXTENDS House, TLC

MCItemLevel == [i \in Items |-> 2]
MCMaxLevel == [a \in Packages |-> 2]
MCMaxWrites == [items |-> 1, message |-> 1, apply |-> 2]

NothingNew ==
  /\ wake = NoWake /\ items \subseteq {1} /\ behind = [a \in Packages |-> 0]
  /\ handed = [a \in Packages |-> [i \in Items |-> 0]]
  /\ \A r \in Runs : run[r] # NoRun => run[r].inv # "items"
  /\ \A a \in Packages : Installed(a) => agent[a].cursor = 0

\* The whole would be too large, so a state is followed when it is one of a few
\* kinds.  Where no agent is, a link is made and followed,
NoAgents == started = 0 /\ NothingNew /\ items = {} /\ staged = {} /\ \A a \in Packages : ~Installed(a)

\* or devices pair, sign in and ask, for codes and, in vain, for agents:
DoorsOnly ==
  NoAgents /\ (codes = 0 \/ \A l \in DOMAIN link : link[l] = "unmade")

\* a device asks for an agent that does nothing to be installed and removed:
BothAsked ==
  /\ started = 0 /\ NothingNew /\ items = {} /\ codes <= 1 /\ admin.passphrase # "other"
  /\ \A l \in DOMAIN link : link[l] = "unmade"
  /\ Cardinality({d \in Devices : device[d] # Unpaired}) <= 1
  /\ Cardinality({a \in Packages : Installed(a)} \cup staged) <= 1

\* or agents live and this machine alone asks.  Then one agent has one effect
\* proposed and carried out, and a write may fail,
OneEffect ==
  /\ NothingNew /\ cut = {}
  /\ started > 0 => staged = {}
  /\ made <= 1 /\ \A x \in ActIds : act[x] # NoAct => act[x].kind = "own"
  /\ started = 2 => Applying(2)

\* or it proposes nothing and its runs may be cut short,
NoEffect ==
  /\ NothingNew /\ made = 0
  /\ started > 0 => staged = {}
  /\ \A a \in Packages : pausing[a] \in {"no", "pause"}

\* or it is only handed what is new,
NewOnly ==
  /\ made = 0 /\ \A a \in Packages : space[a] = EmptySpace /\ pausing[a] \in {"no", "pause"}
  /\ \A r \in Runs : run[r] # NoRun => run[r].inv = "items" /\ run[r].taint = 0 /\ run[r].missed = {}

\* or two agents propose and nothing else happens.
TwoAgents ==
  /\ items = {} /\ cuts = 0
  /\ \A a \in Packages : space[a] = EmptySpace /\ pausing[a] = "no"
  /\ \A x \in ActIds : act[x] # NoAct => act[x].status = "pending" /\ act[x].kind = "own"

LifeOnly ==
  /\ AccessInit
  /\ \/ TwoAgents
     \/ /\ Cardinality({a \in Packages : Installed(a)} \cup staged) <= 1
        /\ OneEffect \/ NoEffect \/ NewOnly

OneThingAtATime == DoorsOnly \/ BothAsked \/ LifeOnly

Symmetry == Permutations(Devices) \cup Permutations(Packages)
=============================================================================
