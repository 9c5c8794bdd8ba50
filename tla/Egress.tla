------------------------------- MODULE Egress -------------------------------
(***************************************************************************)
(* Leaving the core: the gate of crates/gate/src/gate.rs, which chooses a  *)
(* model, redacts, writes the record and mints a ticket; the caller of     *)
(* crates/daemon/src/caller.rs, which sends the prepared bytes and records *)
(* how that ended; and the gateway of crates/llm (server.rs, gateway.rs,   *)
(* ticket.rs, policy.rs, registry.rs), a process of its own, which spends  *)
(* the ticket and decides for itself whether the bytes may go where they   *)
(* are addressed.  A delegation to an executor takes the same gate, and    *)
(* the executor host of crates/exec/src/session.rs checks its ticket.      *)
(*                                                                         *)
(* The core and the gateway each read the configuration when they start,   *)
(* so the two may hold different ones.  This build has no cloud transport: *)
(* what reaches a cloud model here is what the gateway's policy let        *)
(* through.  The records go to the ledger of Ledger.tla, beside what other *)
(* processes append.                                                       *)
(***************************************************************************)
EXTENDS Ledger, SequencesExt

CONSTANTS
  Core,       \* the process that serves
  Calls,      \* model calls and delegations
  Asks,       \* what may be asked for: purpose, level, and what is switched on
  Configs,    \* what the configuration files may say
  Models,     \* names of models
  MaxRestarts \* bound: starts of the gateway after the first

ASSUME EgressAssumption ==
  /\ Core \in Procs
  /\ Altered[1] \notin {"egress", "result"}
  /\ MaxRestarts \in Nat
  /\ \A ask \in Asks : /\ ask.level \in {"public", "personal", "secret"}
                       /\ ask.purpose \in {"corpus", "ordinary", "delegate"}

VARIABLES
  config,  \* on disk: chain by purpose, location by model, whether the cloud is on
  known,   \* the configuration the core started with
  call,    \* by call: where it is, what was asked and what was decided
  gateway, \* whether it runs, the configuration it started with, nonces spent
  visit,   \* by call and attempt: a request on its way through the gateway
  lapsed,  \* calls whose ticket has expired
  admitted,\* memory: by call, times its ticket was admitted by this gateway
  reached, \* memory: what each call's bytes were let through to
  restarts \* starts of the gateway

callVars    == <<known, call>>
gatewayVars == <<config, gateway, visit, lapsed, admitted, reached, restarts>>
vars == <<ledgerVars, callVars, gatewayVars>>

-----------------------------------------------------------------------------
(* Purposes and levels.  A corpus purpose (classify, extract, embed, ...)   *)
(* never uses the cloud; an ordinary one may; delegate is for executors.    *)

MayUseCloud(purpose) == purpose \in {"ordinary", "delegate"}
IsForModels(purpose) == purpose # "delegate"

\* Ticket levels.
MayLeave(level) == level \in {"public", "redacted"}

CloudIsPossible(purpose, level) ==
  IsForModels(purpose) /\ MayUseCloud(purpose) /\ MayLeave(level)

\* policy.rs check_request, for a ticket at a provider.
Permits(location, purpose, level) ==
  /\ IsForModels(purpose)
  /\ location = "cloud" => MayUseCloud(purpose) /\ MayLeave(level)

None == "none"

\* The first of a chain that is among the fitting, as find_map does.
FirstOf(chain, fitting) ==
  LET good == {i \in DOMAIN chain : chain[i] \in fitting}
  IN  IF good = {} THEN None ELSE chain[CHOOSE i \in good : \A j \in good : i <= j]

LocalModels(c) == {m \in Models : c.location[m] = "local"}

Resolve(c, purpose, level) ==
  FirstOf(c.chain[purpose], IF CloudIsPossible(purpose, level) THEN Models ELSE LocalModels(c))

ResolveLocal(c, purpose) == FirstOf(c.chain[purpose], LocalModels(c))

\* What the ticket would say if the request went to the cloud.
Prospective(level) == IF level = "personal" THEN "redacted" ELSE level

\* An agent without a cloud switch of its own is kept local.
Target(c, ask) ==
  LET preferred == Resolve(c, ask.purpose, Prospective(ask.level))
  IN  IF /\ preferred # None
         /\ c.location[preferred] = "cloud"
         /\ ~c.cloud \/ ask.keptLocal
      THEN ResolveLocal(c, ask.purpose)
      ELSE preferred

Leaving(c, ask) == c.location[Target(c, ask)] = "cloud"

\* Bug: personal content is called redacted wherever it goes.
TicketLevelAnywhere(c, ask) == Prospective(ask.level)

TicketLevel(c, ask) ==
  IF ask.level = "personal" /\ Leaving(c, ask) THEN "redacted" ELSE ask.level

Decision(c, ask) ==
  CASE Leaving(c, ask) /\ ask.level = "personal" -> "allowed redacted"
    [] Leaving(c, ask) /\ ask.level # "personal" -> "allowed"
    [] ~Leaving(c, ask) /\ c.cloud /\ \E m \in ToSet(c.chain[ask.purpose]) : c.location[m] = "cloud" -> "fallback local"
    [] OTHER -> "allowed"

\* prepare_delegation: an executor is a cloud target and nothing is local to
\* fall back to.  What the text looks like may raise the level.
DelegatedLevel(ask) == IF ask.looksSecret THEN "secret" ELSE ask.level

DelegationDecision(ask) ==
  CASE DelegatedLevel(ask) = "secret" -> "refused"
    [] DelegatedLevel(ask) = "personal" ->
         IF ask.personalAllowed THEN "allowed redacted" ELSE "refused"
    [] OTHER -> "allowed"

\* What the record and the ticket say.  `redacted` tells what bytes they are for.
Prepared(c, ask) ==
  IF ask.purpose = "delegate"
  THEN LET decision == DelegationDecision(ask) IN
       [target |-> "executor", decision |-> decision,
        redacted |-> decision = "allowed redacted",
        level |-> CASE decision = "refused" -> "secret"
                    [] decision = "allowed redacted" -> "redacted"
                    [] OTHER -> "public"]
  ELSE [target |-> Target(c, ask), decision |-> Decision(c, ask),
        redacted |-> Decision(c, ask) = "allowed redacted",
        level |-> TicketLevel(c, ask)]

NothingPrepared == [target |-> None, decision |-> None, redacted |-> FALSE, level |-> None]
NotAsked == [purpose |-> None]
NoCall == [pc |-> "new", ask |-> NotAsked, made |-> NothingPrepared, outcome |-> None]

EgressRow(c) == <<"egress", c, call[c].made.decision>>
ResultRow(c) == <<"result", c, call[c].outcome>>
OutcomeNames == {"sent", "unknown", "failed"}
DecisionNames == {"allowed", "allowed redacted", "fallback local", "refused"}

\* What the ledger is asked to say, by the gate and by everybody else.
AllBodies == ({"other"} \X Procs) \cup ({"egress"} \X Calls \X DecisionNames)
                           \cup ({"result"} \X Calls \X OutcomeNames)

Attempts == {"own", "again"}
Visit == [pc : {"none", "checked", "through", "gone"}, late : SUBSET Calls]
NoVisit == [pc |-> "none", late |-> {}]
NoConfig == [cloud |-> FALSE, chain |-> <<>>, location |-> <<>>]
NoGateway == [up |-> FALSE, known |-> NoConfig, seen |-> {}]

Init ==
  /\ LedgerInit
  /\ config \in Configs
  /\ known = NoConfig
  /\ call = [c \in Calls |-> NoCall]
  /\ gateway = [up |-> TRUE, known |-> config, seen |-> {}]
  /\ visit = [c \in Calls |-> [a \in Attempts |-> NoVisit]]
  /\ lapsed = {}
  /\ admitted = [c \in Calls |-> 0]
  /\ reached = {}
  /\ restarts = 0

-----------------------------------------------------------------------------
(* The gate and the caller, in the core.                                    *)

CallTo(c, pc) == call' = [call EXCEPT ![c].pc = pc]

\* Everything prepare decides before it writes.
Ask(c, ask) ==
  /\ InUse(Core)
  /\ call[c].pc = "new"
  /\ IF ask.purpose # "delegate" /\ Target(known, ask) = None
     THEN CallTo(c, "over")
     ELSE call' = [call EXCEPT ![c] = [pc |-> "prepared", ask |-> ask,
                                       made |-> Prepared(known, ask), outcome |-> None]]
  /\ UNCHANGED <<ledgerVars, known, gatewayVars>>

\* The append waits for the connection: one of the core's at a time.
Record(c) ==
  /\ \/ call[c].pc = "prepared" /\ Begin(Core, EgressRow(c)) /\ CallTo(c, "recording")
     \/ call[c].pc = "ended" /\ Begin(Core, ResultRow(c)) /\ CallTo(c, "reporting")
  /\ UNCHANGED <<known, gatewayVars>>

\* The record is written: a refused delegation ends here, the rest get a ticket.
Recorded(c) ==
  /\ WriteHead(Core)
  /\ \/ /\ call[c].pc = "recording"
        /\ CallTo(c, IF call[c].made.decision = "refused" THEN "over" ELSE "ticketed")
     \/ call[c].pc = "reporting" /\ CallTo(c, "over")
  /\ UNCHANGED <<known, gatewayVars>>

\* Bug: a ledger that cannot be written does not stop the call.
SentAnyway(c) ==
  /\ call[c].pc \in {"recording", "reporting"}
  /\ CommitFails(Core) \/ HeadFails(Core)
  /\ CallTo(c, IF call[c].pc = "recording" THEN "ticketed" ELSE "over")
  /\ UNCHANGED <<known, gatewayVars>>

\* The append is an error: nothing is sent, or the outcome stays unrecorded.
NotRecorded(c) ==
  /\ call[c].pc \in {"recording", "reporting"}
  /\ CommitFails(Core) \/ HeadFails(Core)
  /\ CallTo(c, "over")
  /\ UNCHANGED <<known, gatewayVars>>

Ended(c, outcome) == call' = [call EXCEPT ![c].pc = "ended", ![c].outcome = outcome]

\* Bug: a call whose answer never came is recorded as answered.
UnreachableAsSent(c) ==
  /\ \/ call[c].pc = "ticketed" /\ ~gateway.up /\ call[c].ask.purpose # "delegate"
     \/ call[c].pc = "sent" /\ visit[c]["own"].pc = "gone"
  /\ Ended(c, "sent")
  /\ UNCHANGED <<ledgerVars, known, gatewayVars>>

\* The request could not be sent, or the connection went before the answer came.
Unreachable(c) ==
  /\ \/ call[c].pc = "ticketed" /\ ~gateway.up /\ call[c].ask.purpose # "delegate"
     \/ call[c].pc = "sent" /\ visit[c]["own"].pc = "gone"
  /\ Ended(c, "unknown")
  /\ UNCHANGED <<ledgerVars, known, gatewayVars>>

\* The executor host checks a delegation's ticket with a store made for this session.
Delegate(c) ==
  /\ call[c].pc = "ticketed"
  /\ call[c].ask.purpose = "delegate"
  /\ reached' = IF c \notin lapsed /\ MayLeave(call[c].made.level)
                THEN reached \cup {[call |-> c, location |-> "cloud"]}
                ELSE reached
  /\ CallTo(c, "over")
  /\ UNCHANGED <<ledgerVars, known, config, gateway, visit, lapsed, admitted, restarts>>

-----------------------------------------------------------------------------
(* The gateway.  The clock is read before the lock on the spent nonces is   *)
(* taken, so a request goes through in two steps.                           *)

\* The first half of admit: the model is known, the ticket has not expired.
\* The own request comes once; another with the same ticket may come any time after.
Present(c, a) ==
  /\ gateway.up
  /\ visit[c][a].pc = "none"
  /\ call[c].ask.purpose \notin {None, "delegate"}
  /\ \/ a = "own" /\ call[c].pc = "ticketed"
     \/ a = "again" /\ visit[c]["own"].pc # "none"
  /\ IF c \in lapsed
     THEN /\ visit' = [visit EXCEPT ![c][a].pc = "gone"]
          /\ IF a = "own" THEN Ended(c, "failed") ELSE UNCHANGED call
     ELSE /\ visit' = [visit EXCEPT ![c][a] = [pc |-> "checked", late |-> lapsed]]
          /\ IF a = "own" THEN CallTo(c, "sent") ELSE UNCHANGED call
  /\ UNCHANGED <<ledgerVars, known, config, gateway, lapsed, admitted, reached, restarts>>

\* Bug: what has expired is kept and the rest forgotten.
KeptExpired(c, a) == gateway.seen \cap visit[c][a].late

\* seen.retain: by the time this request read, not by the time it is now.
Kept(c, a) == gateway.seen \ visit[c][a].late

\* The second half, and the policy.  A refusal has spent the ticket too; a
\* cloud model is answered with 501.
Spend(c, a) ==
  /\ gateway.up
  /\ visit[c][a].pc = "checked"
  /\ gateway' = [gateway EXCEPT !.seen = Kept(c, a) \cup {c}]
  /\ LET made == call[c].made
         fresh == c \notin Kept(c, a)
         location == gateway.known.location[made.target]
         passed == fresh /\ Permits(location, call[c].ask.purpose, made.level)
         forwarded == passed /\ location = "local"
     IN  /\ admitted' = IF fresh THEN [admitted EXCEPT ![c] = @ + 1] ELSE admitted
         /\ reached' = IF passed THEN reached \cup {[call |-> c, location |-> location]}
                                 ELSE reached
         /\ visit' = [visit EXCEPT ![c][a] =
              [pc |-> IF a = "own" /\ forwarded THEN "through" ELSE "gone", late |-> {}]]
         /\ IF a = "own" /\ ~forwarded /\ call[c].pc = "sent" THEN Ended(c, "failed")
                                                              ELSE UNCHANGED call
  /\ UNCHANGED <<ledgerVars, known, config, lapsed, restarts>>

\* What the local model says goes back as it is, an error too.
Answer(c) ==
  /\ visit[c]["own"].pc = "through"
  /\ visit' = [visit EXCEPT ![c]["own"].pc = "gone"]
  /\ IF call[c].pc = "sent" THEN \E outcome \in {"sent", "failed"} : Ended(c, outcome)
                            ELSE UNCHANGED call
  /\ UNCHANGED <<ledgerVars, known, config, gateway, lapsed, admitted, reached, restarts>>

\* Its requests and its spent nonces go with it.
GatewayStops ==
  /\ gateway.up
  /\ gateway' = NoGateway
  /\ visit' = [c \in Calls |-> [a \in Attempts |->
                 IF visit[c][a].pc = "none" THEN NoVisit ELSE [pc |-> "gone", late |-> {}]]]
  /\ admitted' = [c \in Calls |-> 0]
  /\ UNCHANGED <<ledgerVars, callVars, config, lapsed, reached, restarts>>

GatewayStarts ==
  /\ ~gateway.up
  /\ restarts < MaxRestarts
  /\ gateway' = [up |-> TRUE, known |-> config, seen |-> {}]
  /\ restarts' = restarts + 1
  /\ UNCHANGED <<ledgerVars, callVars, config, visit, lapsed, admitted, reached>>

\* The file is edited; whoever runs does not notice.
EditConfig ==
  /\ restarts < MaxRestarts
  /\ config' \in Configs \ {config}
  /\ UNCHANGED <<ledgerVars, callVars, gateway, visit, lapsed, admitted, reached, restarts>>

\* DEFAULT_TTL_SECS have passed since the ticket was minted.
Lapse(c) ==
  /\ c \notin lapsed
  /\ call[c].pc \in {"ticketed", "sent", "ended", "reporting", "over"}
  /\ call[c].made # NothingPrepared
  /\ lapsed' = lapsed \cup {c}
  /\ UNCHANGED <<ledgerVars, callVars, config, gateway, visit, admitted, reached, restarts>>

-----------------------------------------------------------------------------
(* The processes that share the ledger.                                     *)

\* The core reads its configuration before it opens the ledger.
CoreOpens ==
  /\ StartOpening(Core)
  /\ known' = config
  /\ UNCHANGED <<call, gatewayVars>>

CoreSteps ==
  /\ LedgerStep(Core) \/ Commit(Core)
  /\ UNCHANGED <<callVars, gatewayVars>>

\* Calls under way end with the core, unrecorded.
CoreStops ==
  /\ Stop(Core)
  /\ known' = NoConfig
  /\ call' = [c \in Calls |-> IF call[c].pc = "new" THEN call[c] ELSE [call[c] EXCEPT !.pc = "over"]]
  /\ UNCHANGED gatewayVars

\* A command beside the core, which appends what it has to say.
Others ==
  /\ \/ \E p \in Procs \ {Core} :
          \/ StartOpening(p) \/ LedgerStep(p)
          \/ Begin(p, <<"other", p>>)
          \/ Commit(p) \/ CommitFails(p) \/ WriteHead(p) \/ HeadFails(p)
          \/ Stop(p)
     \/ Mishap
  /\ UNCHANGED <<callVars, gatewayVars>>

Next ==
  \/ \E c \in Calls :
       \/ \E ask \in Asks : Ask(c, ask)
       \/ Record(c) \/ Recorded(c) \/ NotRecorded(c) \/ Unreachable(c) \/ Delegate(c)
       \/ Answer(c) \/ Lapse(c)
       \/ \E a \in Attempts : Present(c, a) \/ Spend(c, a)
  \/ GatewayStops \/ GatewayStarts \/ EditConfig
  \/ CoreOpens \/ CoreSteps \/ CoreStops \/ Others

Spec == Init /\ [][Next]_vars

-----------------------------------------------------------------------------
\* What reaches a cloud model or an executor: public content, or personal
\* content whose bytes were redacted, and never a corpus purpose.  Whatever the
\* core and the gateway each believe about where a model runs.
NothingSecretLeaves ==
  \A r \in reached :
    LET ask == call[r.call].ask
        level == IF ask.purpose = "delegate" THEN DelegatedLevel(ask) ELSE ask.level
    IN  r.location = "cloud" =>
          /\ ask.purpose # "corpus"
          /\ level = "public" \/ (level = "personal" /\ call[r.call].made.redacted)

\* Nothing reaches a model or an executor that is not written down first, as
\* what was decided about it.
RecordedFirst ==
  mishaps = 0 =>
    \A r \in reached : \E n \in DOMAIN rows : rows[n].body = EgressRow(r.call)

\* A gateway admits a ticket once, as long as the ticket lives.
OnceWhileItLives == \A c \in Calls : admitted[c] > 1 => c \in lapsed

\* A row that says how a call ended comes after the row that says it was
\* allowed, and one that says it was answered tells of a call that reached a model.
ResultsAreTrue ==
  \A n \in DOMAIN rows :
    rows[n].body[1] = "result" =>
      LET c == rows[n].body[2]
      IN  /\ \E m \in 1 .. (n - 1) : rows[m].body \in {EgressRow(c), Altered}
          /\ rows[n].body[3] = "sent" => \E r \in reached : r.call = c

=============================================================================
