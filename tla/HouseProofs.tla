----------------------------- MODULE HouseProofs -----------------------------
(***************************************************************************)
(* Proofs about the devices and the agents, and about the two together.     *)
(*                                                                         *)
(* Access: the number of wrong tries answered and the one on the admin row  *)
(* are one number, and a device whose passphrase is being compared holds    *)
(* the turn: the lock that the last wrong try sets finds nobody else        *)
(* comparing.                                                               *)
(*                                                                         *)
(* Agents: the invariant has six parts, each with lemmas of its own.        *)
(*   Order     types; runs and proposals are made once (Born); where no     *)
(*             agent is, nothing of one is left (Fresh); a run that was not *)
(*             left by its future holds the turn (OneTurn)                  *)
(*   Reported  an effect's status is what its run knew when it reported     *)
(*   Handing   what is still ahead of the cursor was handed out no more     *)
(*             often than a hand-over was left behind                       *)
(*   Capped    runs count their own proposals, the records the others,      *)
(*             those of runs that settled badly aside                       *)
(*   Covered   a level is covered by the row's, or by a run that has yet to *)
(*             settle or could not write it down                            *)
(*   Whole     an effect under way has all it wrote in its savepoint, and   *)
(*             one that is over is in the space or is not                   *)
(* The steps are first put into kinds (Kinds), by what each does to the     *)
(* variables (the lemmas ...Moves); each part is then kept by every kind.   *)
(* House adds the steps at which a device's request spends an approval and  *)
(* the agents move at once.                                                 *)
(***************************************************************************)
EXTENDS House, FiniteSetTheorems, WellFoundedInduction, TLAPS

-----------------------------------------------------------------------------
(* Access.                                                                  *)

Comparing(d) == asking[d].pc = "comparing"

\* The turn is held by whoever compares, and the count is the row's.
Counting ==
  /\ tries = admin.failures
  /\ admin.failures <= Tries
  /\ admin.failures = Tries => admin.locked
  /\ \A d \in Devices : Comparing(d) => checking = d /\ ~admin.locked

\* A live code has paired nobody yet, nor has one that is not made.
Unspent ==
  /\ code <= codes
  /\ \A c \in 1 .. MaxCodes : paired[c] # {} => c <= codes /\ c # code /\ \E d \in Devices : paired[c] = {d}
  /\ \A l \in 1 .. MaxLinks : /\ signedIn[l] <= 1
                              /\ link[l] \in {"unmade", "live"} => signedIn[l] = 0

AccessInv == AccessTypeOK /\ Counting /\ Unspent

LEMMA AccessStarts == AccessInit => AccessInv
<1> SUFFICES ASSUME AccessInit PROVE AccessInv
  OBVIOUS
<1> USE AccessAssumption DEF AccessInit, NoPassphrase, Nobody, NoCode, Idle, Unpaired
<1>1. AccessTypeOK
  BY DEF AccessTypeOK, Request
<1>2. Counting
  BY DEF Counting, Comparing
<1>3. Unspent
  BY DEF Unspent
<1> QED
  BY <1>1, <1>2, <1>3 DEF AccessInv

-----------------------------------------------------------------------------
(* The helpers keep the rows what they are.                                 *)

LEMMA RowsKeepTheirTypes ==
  /\ \A d \in Devices, role \in BOOLEAN :
       AccessTypeOK => /\ WithRole(device[d], role) \in [state : {"unpaired", "active", "revoked"}, admin : BOOLEAN]
                       /\ Revoked(device[d]) \in [state : {"unpaired", "active", "revoked"}, admin : BOOLEAN]
  /\ \A p \in Passphrases :
       AccessTypeOK => WithPassphrase(admin, p) \in [passphrase : Passphrases \cup {NoPassphrase}, failures : Nat, locked : BOOLEAN]
  /\ AccessTypeOK =>
       \A row \in {Succeeded(admin), Failed(admin), Unlocked(admin)} :
         row \in [passphrase : Passphrases \cup {NoPassphrase}, failures : Nat, locked : BOOLEAN]
<1> USE AccessAssumption DEF AccessTypeOK
<1>1. ASSUME NEW d \in Devices, NEW role \in BOOLEAN, AccessTypeOK
      PROVE  /\ WithRole(device[d], role) \in [state : {"unpaired", "active", "revoked"}, admin : BOOLEAN]
             /\ Revoked(device[d]) \in [state : {"unpaired", "active", "revoked"}, admin : BOOLEAN]
  BY <1>1 DEF WithRole, Revoked
<1>2. ASSUME NEW p \in Passphrases, AccessTypeOK
      PROVE  WithPassphrase(admin, p) \in [passphrase : Passphrases \cup {NoPassphrase}, failures : Nat, locked : BOOLEAN]
  BY <1>2 DEF WithPassphrase
<1>3. ASSUME AccessTypeOK
      PROVE  \A row \in {Succeeded(admin), Failed(admin), Unlocked(admin)} :
               row \in [passphrase : Passphrases \cup {NoPassphrase}, failures : Nat, locked : BOOLEAN]
  <2> USE <1>3
  <2>1. Succeeded(admin) \in [passphrase : Passphrases \cup {NoPassphrase}, failures : Nat, locked : BOOLEAN]
    BY DEF Succeeded
  <2>2. Unlocked(admin) \in [passphrase : Passphrases \cup {NoPassphrase}, failures : Nat, locked : BOOLEAN]
    BY DEF Unlocked
  <2>3. Failed(admin) \in [passphrase : Passphrases \cup {NoPassphrase}, failures : Nat, locked : BOOLEAN]
    <3> DEFINE lock == admin.locked \/ admin.failures + 1 >= Tries
    <3>1. lock \in BOOLEAN
      BY Zenon
    <3>2. Failed(admin) = [admin EXCEPT !.failures = @ + 1, !.locked = lock]
      BY Zenon DEF Failed
    <3> HIDE DEF lock
    <3>3. /\ admin.passphrase \in Passphrases \cup {NoPassphrase}
          /\ admin.failures + 1 \in Nat
      OBVIOUS
    <3>4. Failed(admin) = [passphrase |-> admin.passphrase, failures |-> admin.failures + 1, locked |-> lock]
      BY <3>2
    <3> QED
      BY <3>1, <3>3, <3>4
  <2> QED
    BY <2>1, <2>2, <2>3
<1> QED
  BY <1>1, <1>2, <1>3

-----------------------------------------------------------------------------
(* Codes, links and devices: what these do leaves the count alone.          *)

PairingStep ==
  \/ CodeLapses \/ PairCodeHere
  \/ \E d \in Devices : Revoke(d) \/ PairCodeAsked(d)
  \/ \E d \in Devices, guess \in NoCode .. codes : Pair(d, guess) \/ PairRefused(d, guess)
  \/ \E l \in DOMAIN link : MakeLink(l) \/ LinkLapses(l) \/ Follow(l)
  \/ \E d \in Devices, role \in BOOLEAN : GiveRole(d, role)

LEMMA PairingKeeps == AccessInv /\ PairingStep => AccessInv'
<1> SUFFICES ASSUME AccessInv, PairingStep PROVE AccessInv'
  OBVIOUS
<1> USE AccessAssumption DEF AccessInv, NoCode
<1>1. CASE CodeLapses
  <2> USE <1>1 DEF CodeLapses
  <2>1. AccessTypeOK'
    BY DEF AccessTypeOK
  <2>2. Counting'
    BY DEF Counting, Comparing
  <2>3. Unspent'
    BY DEF Unspent, AccessTypeOK
  <2> QED
    BY <2>1, <2>2, <2>3
<1>2. CASE PairCodeHere
  <2> USE <1>2 DEF PairCodeHere, StartPairing
  <2>1. AccessTypeOK'
    BY DEF AccessTypeOK
  <2>2. Counting'
    BY DEF Counting, Comparing
  <2>3. Unspent'
    BY DEF Unspent, AccessTypeOK
  <2> QED
    BY <2>1, <2>2, <2>3
<1>3. ASSUME NEW d \in Devices, Revoke(d) PROVE AccessInv'
  <2> USE <1>3 DEF Revoke
  <2>1. AccessTypeOK'
    BY RowsKeepTheirTypes DEF AccessTypeOK
  <2>2. Counting'
    BY DEF Counting, Comparing
  <2>3. Unspent'
    BY DEF Unspent
  <2> QED
    BY <2>1, <2>2, <2>3
<1>4. ASSUME NEW d \in Devices, PairCodeAsked(d) PROVE AccessInv'
  <2> USE <1>4 DEF PairCodeAsked, StartPairing, Spend
  <2>1. AccessTypeOK'
    BY DEF AccessTypeOK, Request, Idle
  <2>2. Counting'
    BY DEF Counting, Comparing, Idle, AccessTypeOK
  <2>3. Unspent'
    BY DEF Unspent, AccessTypeOK
  <2> QED
    BY <2>1, <2>2, <2>3
<1>5. ASSUME NEW d \in Devices, NEW guess \in NoCode .. codes, Pair(d, guess) PROVE AccessInv'
  <2> USE <1>5 DEF Pair, AfterTry
  <2>0. guess \in 1 .. MaxCodes
    BY DEF AccessTypeOK
  <2>1. AccessTypeOK'
    BY <2>0 DEF AccessTypeOK, Paired
  <2>2. Counting'
    BY DEF Counting, Comparing
  <2>3. paired[guess] = {}
    BY <2>0 DEF Unspent
  <2>4. Unspent'
    <3>1. ASSUME NEW c \in 1 .. MaxCodes, paired'[c] # {}
          PROVE  c <= codes' /\ c # code' /\ \E e \in Devices : paired'[c] = {e}
      <4>1. CASE c = guess
        BY <2>0, <2>3, <4>1 DEF AccessTypeOK, Unspent
      <4>2. CASE c # guess
        <5>1. paired'[c] = paired[c] /\ code' = 0 /\ codes' = codes
          BY <2>0, <4>2 DEF AccessTypeOK
        <5>2. c <= codes /\ \E e \in Devices : paired[c] = {e}
          BY <3>1, <5>1 DEF Unspent
        <5> QED
          BY <5>1, <5>2
      <4> QED
        BY <4>1, <4>2
    <3>2. code' <= codes' /\ UNCHANGED <<link, signedIn>>
      BY DEF AccessTypeOK
    <3> QED
      BY <3>1, <3>2 DEF Unspent
  <2> QED
    BY <2>1, <2>2, <2>4
<1>6. ASSUME NEW d \in Devices, NEW guess \in NoCode .. codes, PairRefused(d, guess) PROVE AccessInv'
  <2> USE <1>6 DEF PairRefused, AfterTry
  <2>1. AccessTypeOK'
    BY DEF AccessTypeOK
  <2>2. Counting'
    BY DEF Counting, Comparing
  <2>3. Unspent'
    BY DEF Unspent, AccessTypeOK
  <2> QED
    BY <2>1, <2>2, <2>3
<1>7. ASSUME NEW l \in DOMAIN link, MakeLink(l) \/ LinkLapses(l) PROVE AccessInv'
  <2> USE <1>7 DEF MakeLink, LinkLapses
  <2>0. l \in 1 .. MaxLinks
    BY DEF AccessTypeOK
  <2>1. AccessTypeOK'
    <3>1. link' \in [1 .. MaxLinks -> {"unmade", "live", "gone"}]
      BY <2>0 DEF AccessTypeOK
    <3> QED
      BY <3>1 DEF AccessTypeOK
  <2>2. Counting'
    BY DEF Counting, Comparing
  <2>3. Unspent'
    <3>1. ASSUME NEW m \in 1 .. MaxLinks
          PROVE  link'[m] \in {"unmade", "live"} => link[m] \in {"unmade", "live"}
      BY <2>0 DEF AccessTypeOK
    <3> QED
      BY <3>1 DEF Unspent
  <2> QED
    BY <2>1, <2>2, <2>3
<1>9. ASSUME NEW l \in DOMAIN link, Follow(l) PROVE AccessInv'
  <2> USE <1>9 DEF Follow, AfterFollowing
  <2>0. l \in 1 .. MaxLinks /\ signedIn[l] = 0
    BY DEF AccessTypeOK, Unspent
  <2>1. AccessTypeOK'
    BY <2>0 DEF AccessTypeOK
  <2>2. Counting'
    BY DEF Counting, Comparing
  <2>3. Unspent'
    <3>1. ASSUME NEW m \in 1 .. MaxLinks
          PROVE  /\ signedIn'[m] <= 1
                 /\ link'[m] \in {"unmade", "live"} => signedIn'[m] = 0
      <4>1. CASE m = l
        BY <2>0, <4>1 DEF AccessTypeOK
      <4>2. CASE m # l
        BY <2>0, <4>2 DEF AccessTypeOK, Unspent
      <4> QED
        BY <4>1, <4>2
    <3>2. UNCHANGED <<code, codes, paired>>
      OBVIOUS
    <3> QED
      BY <3>1, <3>2 DEF Unspent
  <2> QED
    BY <2>1, <2>2, <2>3
<1>8. ASSUME NEW d \in Devices, NEW role \in BOOLEAN, GiveRole(d, role) PROVE AccessInv'
  <2> USE <1>8 DEF GiveRole
  <2>1. AccessTypeOK'
    BY RowsKeepTheirTypes DEF AccessTypeOK
  <2>2. Counting'
    BY DEF Counting, Comparing
  <2>3. Unspent'
    BY DEF Unspent
  <2> QED
    BY <2>1, <2>2, <2>3
<1> QED
  BY <1>1, <1>2, <1>3, <1>4, <1>5, <1>6, <1>7, <1>8, <1>9 DEF PairingStep

-----------------------------------------------------------------------------
(* The passphrase: what these do leaves codes and links alone.              *)

PassphraseStep ==
  \/ Unlock
  \/ \E p \in Passphrases : SetPassphrase(p)
  \/ \E d \in Devices, what \in Acts, given \in Passphrases \cup {NoPassphrase} : AskFor(d, what, given)
  \/ \E d \in Devices : \/ Compare(d) \/ RefusedOutright(d)
                        \/ Right(d) \/ Wrong(d) \/ GoesAway(d)

LEMMA PassphraseKeepsTheRest ==
  AccessInv /\ PassphraseStep => Unspent' /\ UNCHANGED <<device, code, codes, link, paired, signedIn>>
<1> SUFFICES ASSUME AccessInv, PassphraseStep
             PROVE  Unspent' /\ UNCHANGED <<device, code, codes, link, paired, signedIn>>
  OBVIOUS
<1>1. UNCHANGED <<device, code, codes, link, paired, signedIn>>
  BY DEF PassphraseStep, Unlock, SetPassphrase, AskFor, Compare, RefusedOutright, Right, Wrong, GoesAway
<1> QED
  BY <1>1 DEF AccessInv, Unspent

LEMMA PassphraseKeeps == AccessInv /\ PassphraseStep => AccessInv'
<1> SUFFICES ASSUME AccessInv, PassphraseStep PROVE AccessTypeOK' /\ Counting'
  BY PassphraseKeepsTheRest DEF AccessInv
<1> USE AccessAssumption DEF AccessInv
<1>1. CASE Unlock
  <2> USE <1>1 DEF Unlock
  <2>1. AccessTypeOK'
    BY RowsKeepTheirTypes DEF AccessTypeOK
  <2>2. Counting'
    BY DEF Counting, Comparing, Unlocked, AccessTypeOK
  <2> QED
    BY <2>1, <2>2
<1>2. ASSUME NEW p \in Passphrases, SetPassphrase(p) PROVE AccessTypeOK' /\ Counting'
  <2> USE <1>2 DEF SetPassphrase
  <2>1. AccessTypeOK'
    BY RowsKeepTheirTypes DEF AccessTypeOK
  <2>2. Counting'
    BY DEF Counting, Comparing, WithPassphrase, AccessTypeOK
  <2> QED
    BY <2>1, <2>2
<1>3. ASSUME NEW d \in Devices, NEW a \in Acts, NEW given \in Passphrases \cup {NoPassphrase}, AskFor(d, a, given)
      PROVE  AccessTypeOK' /\ Counting'
  <2> USE <1>3 DEF AskFor
  <2>1. AccessTypeOK'
    BY DEF AccessTypeOK, Request
  <2>2. Counting'
    BY DEF Counting, Comparing, AccessTypeOK
  <2> QED
    BY <2>1, <2>2
<1>4. ASSUME NEW d \in Devices, Compare(d) PROVE AccessTypeOK' /\ Counting'
  <2> USE <1>4 DEF Compare, TurnIsFree, Nobody
  <2>1. asking[d] \in [pc : {"waiting"}, act : Acts, given : Passphrases \cup {NoPassphrase}]
    BY DEF AccessTypeOK, Request
  <2>2. admin.passphrase \in Passphrases
    BY DEF AccessTypeOK
  <2>3. AccessTypeOK'
    BY <2>1, <2>2 DEF AccessTypeOK, Request
  <2>4. \A e \in Devices : ~Comparing(e)
    BY DEF Counting
  <2>5. Counting'
    BY <2>4 DEF Counting, Comparing, AccessTypeOK
  <2> QED
    BY <2>3, <2>5
<1>5. ASSUME NEW d \in Devices, RefusedOutright(d) PROVE AccessTypeOK' /\ Counting'
  <2> USE <1>5 DEF RefusedOutright, Idle
  <2>1. AccessTypeOK'
    BY DEF AccessTypeOK, Request
  <2>2. Counting'
    BY DEF Counting, Comparing, AccessTypeOK
  <2> QED
    BY <2>1, <2>2
<1>6. ASSUME NEW d \in Devices, Right(d) PROVE AccessTypeOK' /\ Counting'
  <2> USE <1>6 DEF Right, Nobody
  <2>1. asking[d].act \in Acts
    BY DEF AccessTypeOK, Request
  <2>2. AccessTypeOK'
    <3>1. admin' \in [passphrase : Passphrases \cup {NoPassphrase}, failures : Nat, locked : BOOLEAN]
      BY RowsKeepTheirTypes
    <3>2. asking' \in [Devices -> Request]
      BY <2>1 DEF AccessTypeOK, Request
    <3> QED
      BY <3>1, <3>2 DEF AccessTypeOK, Nobody
  <2>3. \A e \in Devices : Comparing(e) => e = d
    BY DEF Counting, Comparing
  <2>4. Counting'
    BY <2>3 DEF Counting, Comparing, AccessTypeOK, Succeeded
  <2> QED
    BY <2>2, <2>4
<1>7. ASSUME NEW d \in Devices, Wrong(d) PROVE AccessTypeOK' /\ Counting'
  <2> USE <1>7 DEF Wrong, Nobody, Idle
  <2>1. AccessTypeOK'
    <3>1. admin' \in [passphrase : Passphrases \cup {NoPassphrase}, failures : Nat, locked : BOOLEAN]
      BY RowsKeepTheirTypes
    <3>2. asking' \in [Devices -> Request]
      BY DEF AccessTypeOK, Request
    <3> QED
      BY <3>1, <3>2 DEF AccessTypeOK
  <2>2. \A e \in Devices : Comparing(e) => e = d
    BY DEF Counting, Comparing
  <2>3. admin.failures < Tries
    BY DEF Counting, Comparing, AccessTypeOK
  <2>4. /\ admin'.failures = admin.failures + 1
        /\ admin.failures + 1 >= Tries => admin'.locked
    BY DEF Failed, AccessTypeOK
  <2>5. \A e \in Devices : ~Comparing(e)'
    BY <2>2 DEF Comparing, AccessTypeOK
  <2>6. Counting'
    BY <2>3, <2>4, <2>5 DEF Counting, AccessTypeOK
  <2> QED
    BY <2>1, <2>6
<1>8. ASSUME NEW d \in Devices, GoesAway(d) PROVE AccessTypeOK' /\ Counting'
  <2> USE <1>8 DEF GoesAway, Idle
  <2>1. AccessTypeOK'
    BY DEF AccessTypeOK, Request
  <2>2. Counting'
    BY DEF Counting, Comparing, AccessTypeOK
  <2> QED
    BY <2>1, <2>2
<1> QED
  BY <1>1, <1>2, <1>3, <1>4, <1>5, <1>6, <1>7, <1>8 DEF PassphraseStep

-----------------------------------------------------------------------------

LEMMA AccessRestartKeeps == AccessInv /\ AccessRestart => AccessInv'
<1> SUFFICES ASSUME AccessInv, AccessRestart PROVE AccessInv'
  OBVIOUS
<1> USE AccessAssumption DEF AccessInv, AccessRestart, Idle, NoCode
<1>1. AccessTypeOK'
  BY DEF AccessTypeOK, Request
<1>2. Counting'
  BY DEF Counting, Comparing
<1>3. Unspent'
  <2>1. ASSUME NEW l \in 1 .. MaxLinks
        PROVE  signedIn'[l] <= 1 /\ (link'[l] \in {"unmade", "live"} => signedIn'[l] = 0)
    BY DEF AccessTypeOK, Unspent
  <2>2. ASSUME NEW c \in 1 .. MaxCodes, paired'[c] # {}
        PROVE  c <= codes' /\ c # code' /\ \E d \in Devices : paired'[c] = {d}
    BY <2>2 DEF Unspent
  <2> QED
    BY <2>1, <2>2 DEF Unspent, AccessTypeOK
<1> QED
  BY <1>1, <1>2, <1>3

LEMMA AccessStaysSo == AccessInv /\ [AccessNext \/ AccessRestart]_accessVars => AccessInv'
<1> SUFFICES ASSUME AccessInv, [AccessNext \/ AccessRestart]_accessVars PROVE AccessInv'
  OBVIOUS
<1>1. CASE AccessNext
  BY <1>1, PairingKeeps, PassphraseKeeps DEF AccessNext, PairingStep, PassphraseStep
<1>2. CASE AccessRestart
  BY <1>2, AccessRestartKeeps
<1>3. CASE UNCHANGED accessVars
  BY <1>3 DEF accessVars, AccessInv, AccessTypeOK, Counting, Comparing, Unspent
<1> QED
  BY <1>1, <1>2, <1>3

LEMMA AccessAlways == AccessSpec => []AccessInv
  BY AccessStarts, AccessStaysSo, PTL DEF AccessSpec

\* The rows, the memory and the requests keep their types, whoever asks and
\* whenever the core starts again.
THEOREM AccessTypesHold == AccessSpec => []AccessTypeOK
  BY AccessAlways, PTL DEF AccessInv

LEMMA TriesAreCounted == AccessInv => FiveTries
  BY AccessAssumption DEF AccessInv, Counting, Comparing, FiveTries, AccessTypeOK

LEMMA CodesAreSpent == AccessInv => OnceOnly
<1>1. ASSUME AccessInv PROVE OnceOnly
  <2>1. ASSUME NEW c \in DOMAIN paired PROVE Cardinality(paired[c]) <= 1
    <3>1. c \in 1 .. MaxCodes
      BY <1>1 DEF AccessInv, AccessTypeOK
    <3>2. CASE paired[c] = {}
      BY <3>2, FS_EmptySet
    <3>3. ASSUME NEW d \in Devices, paired[c] = {d} PROVE Cardinality(paired[c]) <= 1
      BY <3>3, FS_Singleton
    <3> QED
      BY <1>1, <3>1, <3>2, <3>3 DEF AccessInv, Unspent
  <2>2. ASSUME NEW l \in DOMAIN signedIn PROVE signedIn[l] <= 1
    BY <1>1 DEF AccessInv, Unspent, AccessTypeOK
  <2> QED
    BY <2>1, <2>2 DEF OnceOnly
<1> QED
  BY <1>1

\* However many devices ask at once, and through restarts, no more wrong
\* passphrases are looked at in a row than Tries (admin.rs, high).
THEOREM NoSixthTry == AccessSpec => []FiveTries
  BY AccessAlways, TriesAreCounted, PTL

\* A pairing code pairs one device and a link signs one browser in
\* (devices.rs, take; local.rs, spend).
THEOREM SpentOnce == AccessSpec => []OnceOnly
  BY AccessAlways, CodesAreSpent, PTL

-----------------------------------------------------------------------------
(* Agents: the rows, the runs and the proposals.                            *)

AgentRow == [state : {"active", "paused"}, level : Levels, cursor : Nat]

RunRow ==
  [pc : {"running", "over", "settled", "raised", "done", "reported", "lost"}, agent : Packages,
   inv : {"items", "message", "apply"}, act : Nat, left : BOOLEAN,
   taint : Levels, proposed : Nat, writes : Nat, well : BOOLEAN,
   missed : SUBSET {"space", "level", "record", "ledger"}]

ActRow ==
  [status : {"pending", "approved", "executing", "executed", "failed", "declined"},
   agent : Packages, kind : {"own", "mail"}, run : Nat, level : Levels]

WakeRow == [pc : {"found", "placed", "waiting"}, agent : Packages, items : SUBSET Items, next : Nat]

SpaceIsWell(s) ==
  /\ DOMAIN s = {"kept", "txn"}
  /\ DOMAIN s.txn = {"open", "begun", "marked", "writes", "mark"}
  /\ s.txn.open \in BOOLEAN /\ s.txn.begun \in BOOLEAN /\ s.txn.marked \in BOOLEAN

AgentsTypes ==
  /\ staged \subseteq Packages
  /\ agent \in [Packages -> AgentRow \cup {NoAgent}]
  /\ DOMAIN space = Packages /\ \A a \in Packages : SpaceIsWell(space[a])
  /\ items \subseteq Items
  /\ run \in [Runs -> RunRow \cup {NoRun}] /\ started \in 0 .. MaxRuns /\ turn \in 0 .. MaxRuns
  /\ records \subseteq Runs
  /\ wake \in WakeRow \cup {NoWake}
  /\ act \in [ActIds -> ActRow \cup {NoAct}] /\ made \in 0 .. MaxActs
  /\ hands \subseteq ActIds
  /\ pausing \in [Packages -> {"no", "pause", "uninstall", "remove"}]
  /\ handed \in [Packages -> [Items -> Nat]] /\ behind \in [Packages -> Nat]

\* What the helpers make of a space.
LEMMA Spaces ==
  ASSUME NEW s, SpaceIsWell(s)
  PROVE  /\ SpaceIsWell(EmptySpace) /\ EmptySpace.kept = {} /\ EmptySpace.txn = Closed
         /\ Closed.open = FALSE /\ Closed.writes = {} /\ Closed.mark = {}
         /\ SpaceIsWell(Begun(s)) /\ Begun(s).kept = s.kept
         /\ Begun(s).txn.writes = s.txn.writes /\ Begun(s).txn.mark = s.txn.mark
         /\ SpaceIsWell(Committed(s)) /\ Committed(s).kept = s.kept \cup s.txn.writes
         /\ Committed(s).txn = Closed
         /\ SpaceIsWell(RolledBack(s)) /\ RolledBack(s).kept = s.kept /\ RolledBack(s).txn = Closed
         /\ SpaceIsWell(ApplyBegun(s)) /\ ApplyBegun(s).kept = s.kept
         /\ ApplyBegun(s).txn.open /\ ApplyBegun(s).txn.marked
         /\ ApplyBegun(s).txn.begun = s.txn.begun
         /\ ApplyBegun(s).txn.writes = s.txn.writes /\ ApplyBegun(s).txn.mark = s.txn.writes
<1> USE DEF SpaceIsWell, Closed
<1>1. SpaceIsWell(EmptySpace) /\ EmptySpace.kept = {} /\ EmptySpace.txn = Closed
  BY DEF EmptySpace
<1>3. /\ SpaceIsWell(Begun(s)) /\ Begun(s).kept = s.kept
      /\ Begun(s).txn.writes = s.txn.writes /\ Begun(s).txn.mark = s.txn.mark
  BY DEF Begun
<1>4. /\ SpaceIsWell(Committed(s)) /\ Committed(s).kept = s.kept \cup s.txn.writes
      /\ Committed(s).txn = Closed
  BY DEF Committed
<1>5. SpaceIsWell(RolledBack(s)) /\ RolledBack(s).kept = s.kept /\ RolledBack(s).txn = Closed
  BY DEF RolledBack
<1>6. /\ SpaceIsWell(ApplyBegun(s)) /\ ApplyBegun(s).kept = s.kept
      /\ ApplyBegun(s).txn.open /\ ApplyBegun(s).txn.marked
      /\ ApplyBegun(s).txn.begun = s.txn.begun
      /\ ApplyBegun(s).txn.writes = s.txn.writes /\ ApplyBegun(s).txn.mark = s.txn.writes
  BY DEF ApplyBegun
<1>7. QED
  BY <1>1, <1>3, <1>4, <1>5, <1>6

\* A statement is written into the transaction, or into the space at once.
LEMMA Wrote ==
  ASSUME NEW s, SpaceIsWell(s), NEW w
  PROVE  /\ SpaceIsWell(Written(s, w))
         /\ s.txn.open => /\ Written(s, w).kept = s.kept
                          /\ Written(s, w).txn.open
                          /\ Written(s, w).txn.begun = s.txn.begun
                          /\ Written(s, w).txn.marked = s.txn.marked
                          /\ Written(s, w).txn.writes = s.txn.writes \cup {w}
                          /\ Written(s, w).txn.mark = s.txn.mark
         /\ ~s.txn.open => Written(s, w).kept = s.kept \cup {w} /\ Written(s, w).txn = s.txn
BY DEF Written, SpaceIsWell

\* Ending an apply: what it wrote stays, or goes.
LEMMA Endings ==
  ASSUME NEW s, SpaceIsWell(s), NEW keep \in BOOLEAN
  PROVE  /\ SpaceIsWell(ApplyEnded(s, keep))
         /\ ApplyEnded(s, keep).kept \subseteq s.kept \cup s.txn.writes \cup s.txn.mark
         /\ s.txn.marked /\ ~s.txn.begun =>
              ApplyEnded(s, keep).kept = s.kept \cup (IF keep THEN s.txn.writes ELSE s.txn.mark)
<1> USE DEF SpaceIsWell
<1> DEFINE left == [s EXCEPT !.txn.writes = IF keep THEN @ ELSE s.txn.mark]
           then == [left EXCEPT !.txn.marked = FALSE, !.txn.mark = {}]
<1>1. /\ SpaceIsWell(left) /\ left.kept = s.kept
      /\ left.txn.writes = IF keep THEN s.txn.writes ELSE s.txn.mark
  OBVIOUS
<1>2. SpaceIsWell(then) /\ then.kept = s.kept
  OBVIOUS
<1>3. ApplyEnded(s, keep) = IF ~s.txn.marked THEN s ELSE IF s.txn.begun THEN then ELSE Committed(left)
  BY DEF ApplyEnded
<1> HIDE DEF left, then, SpaceIsWell
<1>4. SpaceIsWell(Committed(left)) /\ Committed(left).kept = left.kept \cup left.txn.writes
  BY <1>1, Spaces
<1>5. QED
  BY <1>1, <1>2, <1>3, <1>4

\* Runs and proposals are made once and keep what they are.
Born ==
  /\ \A r \in Runs : run[r] # NoRun <=> r <= started
  /\ \A x \in ActIds : act[x] # NoAct <=> x <= made
  /\ \A x \in 1 .. made : /\ act[x].run \in 1 .. started
                          /\ run[act[x].run].agent = act[x].agent
                          /\ ~Applying(act[x].run)
  /\ hands \subseteq 1 .. made
  /\ records \subseteq 1 .. started
  /\ \A r \in 1 .. started :
       Applying(r) => run[r].act \in 1 .. made /\ act[run[r].act].agent = run[r].agent

\* Where no agent is, nothing of one is left; and none comes back.
Fresh ==
  /\ \A a \in staged : ~Installed(a) /\ \A r \in 1 .. started : run[r].agent # a
  /\ \A a \in Packages : ~Installed(a) => space[a] = EmptySpace

\* A run that was not left by its future holds the turn.
OneTurn ==
  /\ turn # 0 => turn \in 1 .. started /\ UnderWay(turn) /\ ~run[turn].left
  /\ \A r \in 1 .. started :
       /\ UnderWay(r) /\ ~run[r].left => turn = r /\ r \notin records
       /\ run[r].left => run[r].agent \in cut
       /\ run[r].pc \in {"over", "settled", "raised"} => ~run[r].left

Order == AgentsTypes /\ Born /\ Fresh /\ OneTurn

LEMMA RunsAndActs ==
  ASSUME AgentsTypes, Born
  PROVE  /\ \A r \in Runs : run[r].pc # "none" => run[r] \in RunRow /\ r \in 1 .. started
         /\ \A r \in 1 .. started : r \in Runs /\ run[r] \in RunRow
         /\ \A x \in ActIds : act[x].status # "none" => act[x] \in ActRow /\ x \in 1 .. made
         /\ \A x \in 1 .. made : x \in ActIds /\ act[x] \in ActRow
         /\ \A a \in Packages : Installed(a) => agent[a] \in AgentRow
<1>1. ASSUME NEW r \in Runs, run[r].pc # "none" PROVE run[r] \in RunRow /\ r \in 1 .. started
  <2>1. run[r] # NoRun
    BY <1>1 DEF NoRun
  <2>2. QED
    BY <2>1 DEF AgentsTypes, Born, Runs
<1>2. ASSUME NEW r \in 1 .. started PROVE r \in Runs /\ run[r] \in RunRow
  <2>1. r \in Runs
    BY AgentsAssumption DEF AgentsTypes, Runs
  <2>2. QED
    BY <2>1 DEF AgentsTypes, Born
<1>3. ASSUME NEW x \in ActIds, act[x].status # "none" PROVE act[x] \in ActRow /\ x \in 1 .. made
  <2>1. act[x] # NoAct
    BY <1>3 DEF NoAct
  <2>2. QED
    BY <2>1 DEF AgentsTypes, Born, ActIds
<1>4. ASSUME NEW x \in 1 .. made PROVE x \in ActIds /\ act[x] \in ActRow
  <2>1. x \in ActIds
    BY AgentsAssumption DEF AgentsTypes, ActIds
  <2>2. QED
    BY <2>1 DEF AgentsTypes, Born
<1>5. \A a \in Packages : Installed(a) => agent[a] \in AgentRow
  BY DEF AgentsTypes, Installed
<1>6. QED
  BY <1>1, <1>2, <1>3, <1>4, <1>5

-----------------------------------------------------------------------------
(* What the steps do, one kind after the other.                             *)

SameAgent(a) ==
  /\ Installed(a)' <=> Installed(a)
  /\ Installed(a) => agent'[a].level = agent[a].level

SameCursors == \A a \in Packages : Installed(a) => agent'[a].cursor = agent[a].cursor

SameAct(x) ==
  /\ act'[x].agent = act[x].agent /\ act'[x].run = act[x].run /\ act'[x].level = act[x].level
  /\ act[x].status \in {"executed", "failed"} => act'[x].status = act[x].status

SameActs ==
  /\ made' = made
  /\ \A x \in ActIds : (act'[x] = NoAct <=> act[x] = NoAct) /\ SameAct(x)

\* What happens to the items and to the loop's hand-over before its run begins.
Passes ==
  \/ Arrive \/ WakeFinds \/ WakeIsLate
  \/ \E i \in Items : Purge(i)
  \/ \E a \in Packages : WakeQueries(a)

\* Steps at which no run moves and no space is touched.
Calm ==
  /\ AgentsTypes'
  /\ UNCHANGED <<space, run, started, turn, records, cut>>
  /\ \A a \in Packages : SameAgent(a)
  /\ SameActs
  /\ hands' \subseteq hands \cup 1 .. made
  /\ \A a \in staged' : a \in staged \/ (~Installed(a) /\ \A r \in Runs : run[r] # NoRun => run[r].agent # a)
  /\ WakeMoves \/ (SameCursors /\ (UNCHANGED itemVars \/ Passes))

LEMMA AgentMoves ==
  ASSUME AgentsTypes, NEW a \in Packages, NEW row \in AgentRow \cup {NoAgent},
         agent' = [agent EXCEPT ![a] = row]
  PROVE  /\ agent' \in [Packages -> AgentRow \cup {NoAgent}]
         /\ agent'[a] = row /\ \A b \in Packages \ {a} : agent'[b] = agent[b]
BY DEF AgentsTypes

LEMMA AgentStateMoves ==
  ASSUME AgentsTypes, NEW a \in Packages, Installed(a), NEW state \in {"active", "paused"},
         agent' = [agent EXCEPT ![a].state = state]
  PROVE  /\ agent' \in [Packages -> AgentRow \cup {NoAgent}] /\ SameCursors
         /\ \A b \in Packages : SameAgent(b)
<1> DEFINE row == [agent[a] EXCEPT !.state = state]
<1>1. agent[a] \in AgentRow
  BY DEF AgentsTypes, Installed
<1>2. row \in AgentRow /\ row.level = agent[a].level /\ row.cursor = agent[a].cursor /\ row # NoAgent
  BY <1>1 DEF AgentRow, NoAgent
<1>3. agent' = [agent EXCEPT ![a] = row]
  OBVIOUS
<1> HIDE DEF row
<1>4. QED
  BY <1>2, <1>3, AgentMoves DEF SameAgent, SameCursors, Installed

LEMMA ActMoves ==
  ASSUME AgentsTypes, NEW x \in ActIds, act[x].status \in {"pending", "approved", "executing"},
         NEW status \in {"pending", "approved", "executing", "executed", "failed", "declined"},
         act' = [act EXCEPT ![x].status = status]
  PROVE  /\ act' \in [ActIds -> ActRow \cup {NoAct}]
         /\ \A y \in ActIds : (act'[y] = NoAct <=> act[y] = NoAct) /\ SameAct(y)
<1> DEFINE row == [act[x] EXCEPT !.status = status]
<1>1. act[x] \in ActRow
  BY DEF AgentsTypes, NoAct
<1>2. /\ row \in ActRow /\ row # NoAct /\ act[x] # NoAct
      /\ row.agent = act[x].agent /\ row.run = act[x].run /\ row.level = act[x].level
  BY <1>1 DEF ActRow, NoAct
<1>3. act' = [act EXCEPT ![x] = row]
  OBVIOUS
<1> HIDE DEF row
<1>4. act' \in [ActIds -> ActRow \cup {NoAct}] /\ act'[x] = row /\ \A y \in ActIds \ {x} : act'[y] = act[y]
  BY <1>2, <1>3 DEF AgentsTypes
<1>5. QED
  BY <1>2, <1>4 DEF SameAct

LEMMA SameStays ==
  /\ agent' = agent => SameCursors /\ \A a \in Packages : SameAgent(a)
  /\ act' = act /\ made' = made => SameActs
BY DEF SameAgent, SameCursors, Installed, SameActs, SameAct

LEMMA Least ==
  ASSUME NEW T, T \subseteq Nat, T # {}
  PROVE  \E x \in T : \A y \in T : x <= y
<1> DEFINE R == OpToRel(<, Nat)
<1>1. IsWellFoundedOn(R, Nat)
  BY NatLessThanWellFounded
<1>2. \A x, y \in Nat : y < x => <<y, x>> \in R
  BY DEF OpToRel
<1> HIDE DEF R
<1>3. \E x \in T : \A y \in T : ~ (<<y, x>> \in R)
  BY <1>1, WFMin
<1>4. PICK x \in T : \A y \in T : ~ (<<y, x>> \in R)
  BY <1>3
<1>5. x \in Nat /\ \A y \in T : y \in Nat
  OBVIOUS
<1>6. ASSUME NEW y \in T PROVE x <= y
  <2>1. ~ (y < x)
    BY <1>2, <1>4, <1>5, Zenon
  <2> QED
    BY <2>1, <1>5
<1> QED
  BY <1>6

\* Of some items, one came last.
LEMMA Greatest ==
  ASSUME MaxItems \in Nat, NEW S \in SUBSET Items, S # {}
  PROVE  Max(S) \in S /\ \A j \in S : j <= Max(S)
<1> DEFINE T == {MaxItems - i : i \in S}
<1>1. T \subseteq Nat /\ T # {}
  <2>1. \A i \in S : MaxItems - i \in Nat
    <3>1. ASSUME NEW i \in S PROVE MaxItems - i \in Nat
      <4>1. i \in 1 .. MaxItems
        BY DEF Items
      <4>2. QED
        BY ONLY <4>1, MaxItems \in Nat
    <3>2. QED
      BY <3>1
  <2>2. QED
    BY <2>1
<1>2. \A i \in S : MaxItems - i \in T
  OBVIOUS
<1>3. \A u \in T : \E i \in S : u = MaxItems - i
  OBVIOUS
<1> HIDE DEF T
<1>4. PICK u \in T : \A v \in T : u <= v
  BY <1>1, Least
<1>5. PICK i \in S : u = MaxItems - i
  BY <1>3
<1>6. \A j \in S : i >= j
  <2>1. ASSUME NEW j \in S PROVE i >= j
    <3>1. MaxItems - i <= MaxItems - j
      BY <1>2, <1>4, <1>5
    <3>2. i \in 1 .. MaxItems /\ j \in 1 .. MaxItems
      BY DEF Items
    <3>3. QED
      BY <3>1, <3>2
  <2>2. QED
    BY <2>1
<1>7. Max(S) \in S /\ \A j \in S : Max(S) >= j
  BY <1>6 DEF Max
<1>8. \A j \in S : j \in Nat
  BY DEF Items
<1>9. QED
  BY <1>7, <1>8

LEMMA PassTypes ==
  ASSUME AgentsTypes, Passes
  PROVE  /\ items' \subseteq Items /\ wake' \in WakeRow \cup {NoWake}
         /\ handed' \in [Packages -> [Items -> Nat]] /\ behind' \in [Packages -> Nat]
         /\ UNCHANGED <<agent, space, packageVars, runVars, actVars, cut>>
<1> USE DEF packageVars, itemVars, runVars, actVars, cutVars
<1>1. CASE Arrive
  BY <1>1 DEF Arrive, AgentsTypes
<1>2. CASE WakeFinds
  <2>1. wake \in WakeRow
    BY <1>2 DEF WakeFinds, AgentsTypes, NoWake
  <2>2. wake' \in WakeRow
    BY <1>2, <2>1 DEF WakeFinds, WakeRow
  <2>3. behind' \in [Packages -> Nat]
    BY <1>2, <2>1 DEF WakeFinds, WakeRow, AgentsTypes
  <2>4. QED
    BY <1>2, <2>2, <2>3 DEF WakeFinds, AgentsTypes
<1>3. CASE WakeIsLate
  BY <1>3 DEF WakeIsLate, AgentsTypes
<1>4. ASSUME NEW i \in Items, Purge(i)
      PROVE  /\ items' \subseteq Items /\ wake' \in WakeRow \cup {NoWake}
             /\ handed' \in [Packages -> [Items -> Nat]] /\ behind' \in [Packages -> Nat]
             /\ UNCHANGED <<agent, space, packageVars, runVars, actVars, cut>>
  <2>1. \A a \in Packages : [handed[a] EXCEPT ![i] = 0] \in [Items -> Nat]
    BY DEF AgentsTypes
  <2>2. handed' \in [Packages -> [Items -> Nat]]
    BY <1>4, <2>1 DEF Purge
  <2>3. wake' \in {[wake EXCEPT !.items = @ \ {i}, !.next = 0], [wake EXCEPT !.items = @ \ {i}]}
    BY <1>4 DEF Purge
  <2>4. wake' \in WakeRow \cup {NoWake}
    <3>1. CASE wake = NoWake
      <4>1. wake' \in {[NoWake EXCEPT !.items = @ \ {i}, !.next = 0], [NoWake EXCEPT !.items = @ \ {i}]}
        BY <2>3, <3>1
      <4>2. QED
        BY <4>1 DEF NoWake
    <3>2. CASE wake \in WakeRow
      <4>1. wake.items \ {i} \in SUBSET Items
        BY <3>2 DEF WakeRow
      <4>2. [wake EXCEPT !.items = @ \ {i}, !.next = 0] \in WakeRow /\ [wake EXCEPT !.items = @ \ {i}] \in WakeRow
        BY <3>2, <4>1 DEF WakeRow
      <4>3. QED
        BY <2>3, <4>2
    <3>3. QED
      BY <3>1, <3>2 DEF AgentsTypes
  <2>5. QED
    BY <1>4, <2>2, <2>4 DEF Purge, AgentsTypes
<1>5. ASSUME NEW a \in Packages, WakeQueries(a)
      PROVE  /\ items' \subseteq Items /\ wake' \in WakeRow \cup {NoWake}
             /\ handed' \in [Packages -> [Items -> Nat]] /\ behind' \in [Packages -> Nat]
             /\ UNCHANGED <<agent, space, packageVars, runVars, actVars, cut>>
  <2>1. NewItems(a) \in SUBSET Items /\ NewItems(a) # {}
    BY <1>5 DEF WakeQueries, NewItems, AgentsTypes
  <2>2. Max(NewItems(a)) \in Items /\ \A i \in NewItems(a) : i <= Max(NewItems(a))
    BY <2>1, Greatest, AgentsAssumption
  <2>3. Max(NewItems(a)) \in Nat
    BY <2>2 DEF Items
  <2>4. wake' = [pc |-> "found", agent |-> a, items |-> NewItems(a), next |-> Max(NewItems(a))]
    BY <1>5 DEF WakeQueries
  <2>5. wake' \in WakeRow
    BY <2>1, <2>3, <2>4 DEF WakeRow
  <2>6. QED
    BY <1>5, <2>5 DEF WakeQueries, AgentsTypes
<1>6. QED
  BY <1>1, <1>2, <1>3, <1>4, <1>5 DEF Passes

LEMMA CalmSteps ==
  ASSUME AgentsTypes, Born,
         \/ Passes \/ WakeMoves
         \/ \E a \in Packages :
              \/ Stage(a) \/ GoesStale(a) \/ PauseWithdraws(a) \/ Resume(a)
              \/ \E why \in {"pause", "uninstall"} : PauseBegins(a, why)
         \/ \E r \in Runs : ProposeTooMuch(r)
         \/ \E x \in ActIds : Approve(x) \/ Decline(x) \/ Take(x) \/ ApplyHasNoAgent(x)
         \/ UNCHANGED agentsVars
  PROVE  Calm
<1> USE DEF packageVars, itemVars, runVars, actVars, cutVars
<1>1. CASE Passes
  <2>1. /\ items' \subseteq Items /\ wake' \in WakeRow \cup {NoWake}
        /\ handed' \in [Packages -> [Items -> Nat]] /\ behind' \in [Packages -> Nat]
        /\ UNCHANGED <<agent, space, packageVars, runVars, actVars, cut>>
    BY <1>1, PassTypes
  <2>2. AgentsTypes'
    BY <2>1 DEF AgentsTypes
  <2>3. QED
    BY <1>1, <2>1, <2>2, SameStays DEF Calm, AgentsTypes
<1>2. CASE WakeMoves
  <2>1. /\ wake \in WakeRow /\ wake.agent \in Packages /\ wake.next \in Nat
        /\ wake' \in WakeRow
        /\ UNCHANGED <<space, packageVars, items, handed, behind, runVars, actVars, cutVars>>
    <3>1. wake \in WakeRow /\ wake' = [wake EXCEPT !.pc = "waiting"]
      BY <1>2 DEF WakeMoves, AgentsTypes, NoWake
    <3>2. wake' \in WakeRow /\ wake.agent \in Packages /\ wake.next \in Nat
      BY <3>1 DEF WakeRow
    <3>3. QED
      BY <1>2, <3>1, <3>2 DEF WakeMoves
  <2>2. /\ agent' \in [Packages -> AgentRow \cup {NoAgent}]
        /\ \A b \in Packages : SameAgent(b)
    <3>1. CASE Installed(wake.agent)
      <4> DEFINE c == CursorAfter(wake.agent)
                 row == [agent[wake.agent] EXCEPT !.cursor = c]
      <4>1. agent[wake.agent] \in AgentRow
        BY <2>1, <3>1 DEF AgentsTypes, Installed
      <4>2. c \in Nat
        BY <2>1, <4>1 DEF CursorAfter, AgentRow
      <4> HIDE DEF c
      <4>3. row \in AgentRow /\ row.level = agent[wake.agent].level /\ row # NoAgent
        BY <4>1, <4>2 DEF AgentRow, NoAgent
      <4>4. agent' = [agent EXCEPT ![wake.agent] = row]
        BY <1>2, <3>1 DEF WakeMoves, c
      <4> HIDE DEF row
      <4>5. QED
        BY <2>1, <3>1, <4>3, <4>4, AgentMoves DEF SameAgent, Installed
    <3>2. CASE ~Installed(wake.agent)
      <4>1. agent' = agent
        BY <1>2, <3>2 DEF WakeMoves
      <4>2. QED
        BY <4>1, SameStays DEF AgentsTypes
    <3>3. QED
      BY <3>1, <3>2
  <2>3. AgentsTypes'
    BY <2>1, <2>2 DEF AgentsTypes
  <2>4. QED
    BY <1>2, <2>1, <2>2, <2>3, SameStays DEF Calm, AgentsTypes
<1>3. ASSUME NEW a \in Packages, Stage(a) \/ GoesStale(a) PROVE Calm
  <2>1. AgentsTypes'
    BY <1>3 DEF Stage, GoesStale, AgentsTypes
  <2>2. QED
    BY <1>3, <2>1, SameStays DEF Stage, GoesStale, Calm, AgentsTypes
<1>4. ASSUME NEW a \in Packages, PauseWithdraws(a) PROVE Calm
  <2> DEFINE left(x) == [act[x] EXCEPT !.status = "declined"]
  <2>1. ASSUME NEW x \in OpenActions(a)
        PROVE  /\ x \in ActIds /\ left(x) \in ActRow /\ left(x) # NoAct /\ act[x] # NoAct
               /\ left(x).agent = act[x].agent /\ left(x).run = act[x].run /\ left(x).level = act[x].level
               /\ act[x].status \notin {"executed", "failed"}
    <3>1. x \in ActIds /\ act[x].status \in {"pending", "approved"}
      BY <2>1 DEF OpenActions
    <3>2. act[x] \in ActRow
      BY <3>1 DEF AgentsTypes, NoAct
    <3>3. QED
      BY <3>1, <3>2 DEF ActRow, NoAct
  <2>2. act' = [x \in ActIds |-> IF x \in OpenActions(a) THEN left(x) ELSE act[x]]
    BY <1>4 DEF PauseWithdraws
  <2> HIDE DEF left
  <2>3. /\ act' \in [ActIds -> ActRow \cup {NoAct}]
        /\ \A y \in ActIds : (act'[y] = NoAct <=> act[y] = NoAct) /\ SameAct(y)
    BY <2>1, <2>2 DEF AgentsTypes, SameAct
  <2>4. pausing' \in [Packages -> {"no", "pause", "uninstall", "remove"}]
    BY <1>4 DEF PauseWithdraws, AgentsTypes
  <2>5. AgentsTypes'
    BY <1>4, <2>3, <2>4 DEF PauseWithdraws, AgentsTypes
  <2>6. QED
    BY <1>4, <2>3, <2>5, SameStays DEF PauseWithdraws, Calm, AgentsTypes, SameActs
<1>5. ASSUME NEW a \in Packages,
             Resume(a) \/ \E why \in {"pause", "uninstall"} : PauseBegins(a, why)
      PROVE  Calm
  <2>1. /\ agent' \in [Packages -> AgentRow \cup {NoAgent}]
        /\ SameCursors /\ \A b \in Packages : SameAgent(b)
    BY <1>5, AgentStateMoves DEF Resume, PauseBegins
  <2>2. pausing' \in [Packages -> {"no", "pause", "uninstall", "remove"}]
    <3>1. CASE Resume(a)
      BY <3>1 DEF Resume, AgentsTypes
    <3>2. ASSUME NEW why \in {"pause", "uninstall"}, PauseBegins(a, why)
          PROVE  pausing' \in [Packages -> {"no", "pause", "uninstall", "remove"}]
      BY <3>2 DEF PauseBegins, AgentsTypes
    <3>3. QED
      BY <1>5, <3>1, <3>2
  <2>3. UNCHANGED <<space, staged, items, wake, handed, behind, run, started, turn, records, act, made, hands, cut>>
    BY <1>5 DEF Resume, PauseBegins
  <2>4. AgentsTypes'
    BY <2>1, <2>2, <2>3 DEF AgentsTypes
  <2>5. QED
    BY <2>1, <2>3, <2>4, SameStays DEF Calm, AgentsTypes
<1>6. ASSUME NEW r \in Runs, ProposeTooMuch(r) PROVE Calm
  <2>1. run[r].agent \in Packages
    BY <1>6, RunsAndActs DEF ProposeTooMuch, Running, RunRow
  <2>2. /\ agent' \in [Packages -> AgentRow \cup {NoAgent}]
        /\ SameCursors /\ \A b \in Packages : SameAgent(b)
    <3>1. CASE Installed(run[r].agent)
      <4>1. agent' = [agent EXCEPT ![run[r].agent].state = "paused"]
        BY <1>6, <3>1 DEF ProposeTooMuch
      <4>2. QED
        BY <2>1, <3>1, <4>1, AgentStateMoves
    <3>2. CASE ~Installed(run[r].agent)
      <4>1. agent' = agent
        BY <1>6, <3>2 DEF ProposeTooMuch, AgentsTypes
      <4>2. QED
        BY <4>1, SameStays DEF AgentsTypes
    <3>3. QED
      BY <3>1, <3>2
  <2>3. AgentsTypes'
    BY <1>6, <2>2 DEF ProposeTooMuch, AgentsTypes
  <2>4. QED
    BY <1>6, <2>2, <2>3, SameStays DEF ProposeTooMuch, Calm, AgentsTypes
<1>7. ASSUME NEW x \in ActIds, Approve(x) \/ Decline(x) \/ Take(x) \/ ApplyHasNoAgent(x) PROVE Calm
  <2>1. PICK status \in {"approved", "declined", "executing", "failed"} :
          /\ act[x].status \in {"pending", "approved", "executing"}
          /\ act' = [act EXCEPT ![x].status = status]
          /\ hands' \subseteq hands \cup {x}
          /\ UNCHANGED <<agent, space, packageVars, itemVars, started, turn, records, made, cutVars, run>>
    BY <1>7 DEF Approve, Decline, Take, ApplyHasNoAgent, Moved
  <2>2. /\ act' \in [ActIds -> ActRow \cup {NoAct}]
        /\ \A y \in ActIds : (act'[y] = NoAct <=> act[y] = NoAct) /\ SameAct(y)
    BY <2>1, ActMoves
  <2>3. x \in 1 .. made
    BY <2>1, RunsAndActs
  <2>4. AgentsTypes'
    BY <2>1, <2>2 DEF AgentsTypes
  <2>5. QED
    BY <2>1, <2>2, <2>3, <2>4, SameStays DEF Calm, AgentsTypes, SameActs
<1>8. CASE UNCHANGED agentsVars
  <2>1. AgentsTypes'
    BY <1>8 DEF agentsVars, AgentsTypes
  <2>2. QED
    BY <1>8, <2>1, SameStays DEF agentsVars, Calm, AgentsTypes
<1>9. QED
  BY <1>1, <1>2, <1>3, <1>4, <1>5, <1>6, <1>7, <1>8

LEMMA RunMoves ==
  ASSUME AgentsTypes, NEW r \in Runs, NEW row \in RunRow, run' = [run EXCEPT ![r] = row]
  PROVE  /\ run' \in [Runs -> RunRow \cup {NoRun}]
         /\ run'[r] = row /\ \A s \in Runs \ {r} : run'[s] = run[s]
BY DEF AgentsTypes

SpacesAreWell == DOMAIN space = Packages /\ \A a \in Packages : SpaceIsWell(space[a])

LEMMA SpaceMoves ==
  ASSUME AgentsTypes, NEW a \in Packages, NEW s, SpaceIsWell(s), space' = [space EXCEPT ![a] = s]
  PROVE  SpacesAreWell' /\ space'[a] = s /\ \A b \in Packages \ {a} : space'[b] = space[b]
<1>1. DOMAIN space' = Packages /\ space'[a] = s /\ \A b \in Packages \ {a} : space'[b] = space[b]
  BY DEF AgentsTypes
<1>2. \A b \in Packages : SpaceIsWell(space'[b])
  BY <1>1 DEF AgentsTypes
<1>3. QED
  BY <1>1, <1>2 DEF SpacesAreWell

\* A run goes on: of all runs only this one moves, and it stays what it is.
GoesOn(r) ==
  /\ r \in 1 .. started /\ r \in Runs /\ run[r] \in RunRow /\ run'[r] \in RunRow
  /\ \A s \in Runs \ {r} : run'[s] = run[s]
  /\ run'[r].agent = run[r].agent /\ run'[r].inv = run[r].inv /\ run'[r].act = run[r].act
  /\ started' = started

LEMMA ReadMoves ==
  ASSUME AgentsTypes, Born, NEW r \in Runs, NEW i \in Items, Read(r, i)
  PROVE  /\ AgentsTypes' /\ GoesOn(r)
         /\ run[r].pc = "running" /\ run[r].inv # "apply"
         /\ run'[r].pc = run[r].pc /\ run'[r].left = run[r].left /\ run'[r].proposed = run[r].proposed
         /\ run'[r].writes = run[r].writes /\ run'[r].well = run[r].well /\ run'[r].missed = run[r].missed
         /\ run'[r].taint >= run[r].taint
         /\ UNCHANGED <<agent, space, staged, turn, records, wake, handed, behind, items, act, made, hands, cut>>
<1> USE DEF packageVars, itemVars, runVars, actVars, cutVars
<1> DEFINE high == Higher(run[r].taint, ItemLevel[i])
           row == [run[r] EXCEPT !.taint = high]
<1>1. run[r] \in RunRow /\ r \in 1 .. started
  BY RunsAndActs DEF Read, Running
<1>2. high \in Levels /\ high >= run[r].taint
  BY <1>1, AgentsAssumption DEF Higher, Levels, RunRow
<1> HIDE DEF high
<1>3. /\ row \in RunRow /\ row.pc = run[r].pc /\ row.left = run[r].left /\ row.proposed = run[r].proposed
      /\ row.writes = run[r].writes /\ row.well = run[r].well /\ row.missed = run[r].missed /\ row.taint = high
      /\ row.agent = run[r].agent /\ row.inv = run[r].inv /\ row.act = run[r].act
  BY <1>1, <1>2 DEF RunRow
<1>4. run' = [run EXCEPT ![r] = row]
  BY DEF Read, high
<1> HIDE DEF row
<1>5. run' \in [Runs -> RunRow \cup {NoRun}] /\ run'[r] = row /\ \A s \in Runs \ {r} : run'[s] = run[s]
  BY <1>3, <1>4, RunMoves
<1>6. /\ UNCHANGED <<agent, space, staged, turn, records, wake, handed, behind, items, act, made, hands, cut>>
      /\ UNCHANGED <<started, pausing>> /\ run[r].pc = "running" /\ run[r].inv # "apply"
  BY DEF Read, Running, Applying
<1>7. AgentsTypes'
  BY <1>5, <1>6 DEF AgentsTypes
<1>8. GoesOn(r)
  BY <1>1, <1>3, <1>5, <1>6 DEF GoesOn
<1>9. QED
  BY <1>2, <1>3, <1>5, <1>6, <1>7, <1>8

LEMMA ExecuteMoves ==
  ASSUME AgentsTypes, Born, NEW r \in Runs, Execute(r)
  PROVE  /\ AgentsTypes' /\ GoesOn(r)
         /\ run[r].pc = "running"
         /\ run'[r].pc = run[r].pc /\ run'[r].left = run[r].left /\ run'[r].proposed = run[r].proposed
         /\ run'[r].writes = run[r].writes + 1 /\ run'[r].well = run[r].well /\ run'[r].missed = run[r].missed
         /\ run'[r].taint = run[r].taint
         /\ \A a \in Packages \ {run[r].agent} : space'[a] = space[a]
         /\ space'[run[r].agent] = IF Installed(run[r].agent) THEN Written(space[run[r].agent], WriteOf(r))
                                                             ELSE space[run[r].agent]
         /\ UNCHANGED <<agent, staged, turn, records, wake, handed, behind, items, act, made, hands, cut>>
<1> USE DEF packageVars, itemVars, runVars, actVars, cutVars
<1> DEFINE row == [run[r] EXCEPT !.writes = run[r].writes + 1]
           a == run[r].agent
           s == IF Installed(a) THEN Written(space[a], WriteOf(r)) ELSE space[a]
<1>1. run[r] \in RunRow /\ r \in 1 .. started
  BY RunsAndActs DEF Execute, Running
<1>2. run[r].writes + 1 \in Nat /\ a \in Packages
  BY <1>1 DEF RunRow
<1>3. /\ row \in RunRow /\ row.pc = run[r].pc /\ row.left = run[r].left /\ row.proposed = run[r].proposed
      /\ row.writes = run[r].writes + 1 /\ row.well = run[r].well /\ row.missed = run[r].missed /\ row.taint = run[r].taint
      /\ row.agent = run[r].agent /\ row.inv = run[r].inv /\ row.act = run[r].act
  BY <1>1, <1>2 DEF RunRow
<1>4. run' = [run EXCEPT ![r] = row]
  BY DEF Execute
<1> HIDE DEF row
<1>5. run' \in [Runs -> RunRow \cup {NoRun}] /\ run'[r] = row /\ \A q \in Runs \ {r} : run'[q] = run[q]
  BY <1>3, <1>4, RunMoves
<1>6. /\ UNCHANGED <<agent, staged, turn, records, wake, handed, behind, items, act, made, hands, cut>>
      /\ UNCHANGED <<started, pausing>> /\ run[r].pc = "running"
  BY DEF Execute, Running
<1>7. SpaceIsWell(s)
  BY <1>2, Wrote DEF AgentsTypes
<1>8. space' = [space EXCEPT ![a] = s]
  BY DEF Execute
<1>9. SpacesAreWell' /\ space'[a] = s /\ \A b \in Packages \ {a} : space'[b] = space[b]
  <2> HIDE DEF a, s
  <2>1. QED
    BY <1>2, <1>7, <1>8, SpaceMoves
<1>10. AgentsTypes'
  BY <1>5, <1>6, <1>9 DEF AgentsTypes, SpacesAreWell
<1>11. GoesOn(r)
  BY <1>1, <1>3, <1>5, <1>6 DEF GoesOn
<1>12. QED
  BY <1>3, <1>5, <1>6, <1>9, <1>10, <1>11

\* An agent begins or ends a transaction of its own.
LEMMA TransactionMoves ==
  ASSUME AgentsTypes, Born, NEW r \in Runs, ExecuteBegin(r) \/ ExecuteCommit(r)
  PROVE  /\ AgentsTypes' /\ r \in 1 .. started /\ run[r] \in RunRow
         /\ run[r].pc = "running" /\ run[r].inv # "apply"
         /\ \A a \in Packages \ {run[r].agent} : space'[a] = space[a]
         /\ \/ /\ Installed(run[r].agent)
               /\ space'[run[r].agent] = Begun(space[run[r].agent])
            \/ /\ space[run[r].agent].txn.open
               /\ space'[run[r].agent] = Committed(space[run[r].agent])
         /\ UNCHANGED <<run, started, agent, staged, turn, records, wake, handed, behind, items, act, made, hands, cut>>
<1> USE DEF packageVars, itemVars, runVars, actVars, cutVars
<1> DEFINE a == run[r].agent
<1>1. run[r] \in RunRow /\ r \in 1 .. started
  BY RunsAndActs DEF ExecuteBegin, ExecuteCommit, Running
<1>2. a \in Packages
  BY <1>1 DEF RunRow
<1>3. PICK s : /\ \/ s = Begun(space[a]) /\ Installed(a)
                  \/ s = Committed(space[a]) /\ space[a].txn.open
               /\ space' = [space EXCEPT ![a] = s]
  BY DEF ExecuteBegin, ExecuteCommit
<1>4. SpaceIsWell(s)
  <2> HIDE DEF a
  <2>1. SpaceIsWell(space[a])
    BY <1>2 DEF AgentsTypes
  <2>2. SpaceIsWell(Begun(space[a])) /\ SpaceIsWell(Committed(space[a]))
    BY <2>1, Spaces
  <2>3. QED
    BY <1>3, <2>2
<1>5. /\ UNCHANGED <<run, started, agent, staged, turn, records, wake, handed, behind, items, act, made, hands, cut>>
      /\ UNCHANGED pausing /\ run[r].pc = "running" /\ run[r].inv # "apply"
  BY DEF ExecuteBegin, ExecuteCommit, Running, Applying
<1> HIDE DEF a
<1>6. SpacesAreWell' /\ space'[a] = s /\ \A b \in Packages \ {a} : space'[b] = space[b]
  BY <1>2, <1>3, <1>4, SpaceMoves
<1>7. AgentsTypes'
  BY <1>5, <1>6 DEF AgentsTypes, SpacesAreWell
<1>8. QED
  BY <1>1, <1>3, <1>5, <1>6, <1>7 DEF a

LEMMA ProposeMoves ==
  ASSUME AgentsTypes, Born, NEW r \in Runs, NEW kind \in {"own", "mail"}, Propose(r, kind)
  PROVE  /\ AgentsTypes' /\ GoesOn(r)
         /\ run[r].pc = "running" /\ run[r].inv # "apply" /\ WithinCap(r)
         /\ run'[r].pc = run[r].pc /\ run'[r].left = run[r].left /\ run'[r].proposed = run[r].proposed + 1
         /\ run'[r].writes = run[r].writes /\ run'[r].well = run[r].well /\ run'[r].missed = run[r].missed
         /\ run'[r].taint = run[r].taint
         /\ made' = made + 1 /\ made + 1 \in ActIds
         /\ act'[made + 1] = [status |-> "pending", agent |-> run[r].agent, kind |-> kind, run |-> r, level |-> run[r].taint]
         /\ act'[made + 1] # NoAct
         /\ \A x \in ActIds \ {made + 1} : act'[x] = act[x]
         /\ UNCHANGED <<agent, space, staged, turn, records, wake, handed, behind, items, hands, cut>>
<1> USE DEF packageVars, itemVars, runVars, actVars, cutVars
<1> DEFINE row == [run[r] EXCEPT !.proposed = run[r].proposed + 1]
           new == [status |-> "pending", agent |-> run[r].agent, kind |-> kind, run |-> r, level |-> run[r].taint]
<1>1. run[r] \in RunRow /\ r \in 1 .. started
  BY RunsAndActs DEF Propose, Running
<1>2. run[r].proposed + 1 \in Nat
  BY <1>1 DEF RunRow
<1>3. /\ row \in RunRow /\ row.pc = run[r].pc /\ row.left = run[r].left /\ row.proposed = run[r].proposed + 1
      /\ row.writes = run[r].writes /\ row.well = run[r].well /\ row.missed = run[r].missed /\ row.taint = run[r].taint
      /\ row.agent = run[r].agent /\ row.inv = run[r].inv /\ row.act = run[r].act
  BY <1>1, <1>2 DEF RunRow
<1>4. run' = [run EXCEPT ![r] = row]
  BY DEF Propose
<1> HIDE DEF row
<1>5. run' \in [Runs -> RunRow \cup {NoRun}] /\ run'[r] = row /\ \A q \in Runs \ {r} : run'[q] = run[q]
  BY <1>3, <1>4, RunMoves
<1>6. /\ UNCHANGED <<agent, space, staged, turn, records, wake, handed, behind, items, hands, cut>>
      /\ UNCHANGED <<started, pausing>> /\ run[r].pc = "running" /\ run[r].inv # "apply" /\ WithinCap(r)
      /\ made < MaxActs /\ made' = made + 1 /\ act' = [act EXCEPT ![made + 1] = new]
  BY DEF Propose, Running, Applying
<1>7. made + 1 \in ActIds /\ made' \in 0 .. MaxActs
  BY <1>6, AgentsAssumption DEF AgentsTypes, ActIds
<1>8. new \in ActRow /\ new # NoAct
  BY <1>1 DEF RunRow, ActRow, NoAct
<1>9. /\ act' \in [ActIds -> ActRow \cup {NoAct}] /\ act'[made + 1] = new
      /\ \A x \in ActIds \ {made + 1} : act'[x] = act[x]
  <2> HIDE DEF new
  <2>1. QED
    BY <1>6, <1>7, <1>8 DEF AgentsTypes
<1>10. AgentsTypes'
  BY <1>5, <1>6, <1>7, <1>9 DEF AgentsTypes
<1>11. GoesOn(r)
  BY <1>1, <1>3, <1>5, <1>6 DEF GoesOn
<1>12. QED
  BY <1>3, <1>5, <1>6, <1>7, <1>8, <1>9, <1>10, <1>11

LEMMA EndMoves ==
  ASSUME AgentsTypes, Born, NEW r \in Runs, NEW well \in BOOLEAN, End(r, well)
  PROVE  /\ AgentsTypes' /\ GoesOn(r)
         /\ run[r].pc = "running"
         /\ run'[r].pc = (IF run[r].left THEN "done" ELSE "over") /\ run'[r].left = run[r].left
         /\ run'[r].proposed = run[r].proposed /\ run'[r].writes = run[r].writes
         /\ run'[r].taint = run[r].taint /\ run'[r].missed = run[r].missed
         /\ UNCHANGED <<agent, space, staged, turn, records, wake, handed, behind, items, act, made, hands, cut>>
<1> USE DEF packageVars, itemVars, runVars, actVars, cutVars
<1> DEFINE pc == IF run[r].left THEN "done" ELSE "over"
           row == [run[r] EXCEPT !.pc = pc, !.well = well]
<1>1. run[r] \in RunRow /\ r \in 1 .. started
  BY RunsAndActs DEF End, Running
<1>2. pc \in {"done", "over"}
  OBVIOUS
<1>3. run' = [run EXCEPT ![r] = row] /\ run[r].pc = "running"
  BY DEF End, Running
<1> HIDE DEF pc
<1>4. /\ row \in RunRow /\ row.pc = pc /\ row.left = run[r].left /\ row.proposed = run[r].proposed
      /\ row.writes = run[r].writes /\ row.taint = run[r].taint /\ row.missed = run[r].missed
      /\ row.agent = run[r].agent /\ row.inv = run[r].inv /\ row.act = run[r].act
  BY <1>1, <1>2 DEF RunRow
<1> HIDE DEF row
<1>5. run' \in [Runs -> RunRow \cup {NoRun}] /\ run'[r] = row /\ \A q \in Runs \ {r} : run'[q] = run[q]
  BY <1>3, <1>4, RunMoves
<1>6. /\ UNCHANGED <<agent, space, staged, turn, records, wake, handed, behind, items, act, made, hands, cut>>
      /\ UNCHANGED <<started, pausing>>
  BY DEF End
<1>7. AgentsTypes'
  BY <1>5, <1>6 DEF AgentsTypes
<1>8. GoesOn(r)
  BY <1>1, <1>4, <1>5, <1>6 DEF GoesOn
<1>9. QED
  BY <1>3, <1>4, <1>5, <1>6, <1>7, <1>8 DEF pc

\* A step of the settling of a run: what the run did stays.
Settling(r) ==
  /\ AgentsTypes' /\ GoesOn(r)
  /\ run'[r].left = run[r].left /\ run'[r].proposed = run[r].proposed
  /\ run'[r].writes = run[r].writes /\ run'[r].taint = run[r].taint /\ run'[r].well = run[r].well
  /\ \A a \in Packages : Installed(a)' <=> Installed(a)
  /\ SameCursors
  /\ UNCHANGED <<staged, itemVars, act, made, hands, cut>>

LEMMA SettlingRow ==
  ASSUME NEW q \in RunRow, NEW pc \in {"settled", "raised", "done"},
         NEW missed \in SUBSET {"space", "level", "record", "ledger"},
         NEW row, row = [q EXCEPT !.pc = pc, !.missed = missed]
  PROVE  /\ row \in RunRow /\ row.pc = pc /\ row.left = q.left /\ row.proposed = q.proposed
         /\ row.writes = q.writes /\ row.taint = q.taint /\ row.well = q.well
         /\ row.missed = missed /\ row.agent = q.agent /\ row.inv = q.inv /\ row.act = q.act
         /\ [q EXCEPT !.pc = pc] = [q EXCEPT !.pc = pc, !.missed = q.missed]
BY DEF RunRow

\* The row of a run that settles.
LEMMA SettlingRun ==
  ASSUME AgentsTypes, Born, NEW r \in Runs, run[r].pc \in {"over", "settled", "raised"},
         NEW pc \in {"settled", "raised", "done"},
         NEW missed \in SUBSET {"space", "level", "record", "ledger"},
         \/ run' = [run EXCEPT ![r].pc = pc, ![r].missed = missed]
         \/ run' = [run EXCEPT ![r].pc = pc] /\ missed = run[r].missed,
         started' = started
  PROVE  /\ GoesOn(r) /\ run[r].agent \in Packages /\ run[r].missed \subseteq {"space", "level", "record", "ledger"}
         /\ run' \in [Runs -> RunRow \cup {NoRun}]
         /\ run'[r].pc = pc /\ run'[r].missed = missed
         /\ run'[r].left = run[r].left /\ run'[r].proposed = run[r].proposed
         /\ run'[r].writes = run[r].writes /\ run'[r].taint = run[r].taint /\ run'[r].well = run[r].well
<1> DEFINE row == [run[r] EXCEPT !.pc = pc, !.missed = missed]
<1>1. run[r] \in RunRow /\ r \in 1 .. started
  BY RunsAndActs
<1>2. run[r].agent \in Packages /\ run[r].missed \in SUBSET {"space", "level", "record", "ledger"}
  BY <1>1 DEF RunRow
<1>8. row = [run[r] EXCEPT !.pc = pc, !.missed = missed]
  OBVIOUS
<1> HIDE DEF row
<1>3. /\ row \in RunRow /\ row.pc = pc /\ row.left = run[r].left /\ row.proposed = run[r].proposed
      /\ row.writes = run[r].writes /\ row.taint = run[r].taint /\ row.well = run[r].well
      /\ row.missed = missed /\ row.agent = run[r].agent /\ row.inv = run[r].inv /\ row.act = run[r].act
  <2>1. PICK q \in RunRow : q = run[r]
    BY <1>1
  <2>2. row = [q EXCEPT !.pc = pc, !.missed = missed]
    BY <1>8, <2>1
  <2>3. /\ row \in RunRow /\ row.pc = pc /\ row.left = q.left /\ row.proposed = q.proposed
        /\ row.writes = q.writes /\ row.taint = q.taint /\ row.well = q.well
        /\ row.missed = missed /\ row.agent = q.agent /\ row.inv = q.inv /\ row.act = q.act
    BY ONLY <2>2, q \in RunRow, pc \in {"settled", "raised", "done"},
            missed \in SUBSET {"space", "level", "record", "ledger"} DEF RunRow
  <2>4. QED
    BY <2>1, <2>3
<1>4. run' = [run EXCEPT ![r] = row]
  <2>1. CASE run' = [run EXCEPT ![r].pc = pc, ![r].missed = missed]
    BY <1>8, <2>1 DEF AgentsTypes
  <2>2. CASE run' = [run EXCEPT ![r].pc = pc] /\ missed = run[r].missed
    <3>1. [run[r] EXCEPT !.pc = pc] = row
      BY <1>1, <1>2, <1>8, <2>2, SettlingRow
    <3>2. QED
      BY <2>2, <3>1
  <2>3. QED
    BY <2>1, <2>2
<1>5. run' \in [Runs -> RunRow \cup {NoRun}] /\ run'[r] = row /\ \A q \in Runs \ {r} : run'[q] = run[q]
  BY <1>3, <1>4, RunMoves
<1>6. GoesOn(r)
  BY <1>1, <1>3, <1>5 DEF GoesOn
<1>7. QED
  BY <1>2, <1>3, <1>5, <1>6

\* What an agent's space comes to be when the run is over.
SpaceSettles(r) ==
  /\ run[r].pc = "over" /\ run'[r].pc = "settled" /\ UNCHANGED <<agent, turn, records>>
  /\ \A a \in Packages \ {run[r].agent} : space'[a] = space[a]
  /\ \/ /\ run'[r].missed = run[r].missed
        /\ space'[run[r].agent] = IF Installed(run[r].agent) THEN SettledSpace(r) ELSE space[run[r].agent]
     \/ /\ run'[r].missed = run[r].missed \cup {"space"} /\ Applying(r) /\ Installed(run[r].agent)
        /\ space'[run[r].agent] = RolledBack(space[run[r].agent])

LEMMA SettleSpaceMoves ==
  ASSUME AgentsTypes, Born, NEW r \in Runs, SettleSpace(r) \/ SpaceFails(r)
  PROVE  Settling(r) /\ SpaceSettles(r)
<1> USE DEF packageVars, itemVars, runVars, actVars, cutVars
<1> DEFINE a == run[r].agent
<1>1. run[r] \in RunRow /\ run[r].pc = "over" /\ a \in Packages
  <2>1. run[r].pc = "over"
    BY DEF SettleSpace, SpaceFails
  <2>2. QED
    BY <2>1, RunsAndActs DEF RunRow
<1>2. /\ UNCHANGED <<agent, staged, pausing, items, wake, handed, behind, started, turn, records, act, made, hands, cut>>
  BY DEF SettleSpace, SpaceFails, Misses
<1>10. PICK missed \in SUBSET {"space", "level", "record", "ledger"} :
        /\ \/ run' = [run EXCEPT ![r].pc = "settled", ![r].missed = missed]
           \/ run' = [run EXCEPT ![r].pc = "settled"] /\ missed = run[r].missed
        /\ \/ /\ missed = run[r].missed
              /\ space' = [space EXCEPT ![a] = IF Installed(a) THEN SettledSpace(r) ELSE space[a]]
           \/ /\ missed = run[r].missed \cup {"space"} /\ Applying(r) /\ Installed(a)
              /\ space' = [space EXCEPT ![a] = RolledBack(space[a])]
  <2>1. run[r].missed \in SUBSET {"space", "level", "record", "ledger"}
    BY <1>1 DEF RunRow
  <2>2. CASE SettleSpace(r)
    <3>1. /\ run' = [run EXCEPT ![r].pc = "settled"]
          /\ space' = [space EXCEPT ![a] = IF Installed(a) THEN SettledSpace(r) ELSE space[a]]
      BY <2>2 DEF SettleSpace
    <3> HIDE DEF a
    <3>2. QED
      BY <2>1, <3>1
  <2>3. CASE SpaceFails(r)
    <3>1. /\ run' = [run EXCEPT ![r].pc = "settled", ![r].missed = run[r].missed \cup {"space"}]
          /\ space' = [space EXCEPT ![a] = RolledBack(space[a])]
          /\ Applying(r) /\ Installed(a)
      BY <2>3 DEF SpaceFails, Misses
    <3>2. run[r].missed \cup {"space"} \in SUBSET {"space", "level", "record", "ledger"}
      BY <2>1
    <3> HIDE DEF a
    <3>3. QED
      BY <3>1, <3>2
  <2>4. QED
    BY <2>2, <2>3
<1>3. PICK s :
        /\ space' = [space EXCEPT ![a] = s]
        /\ \/ missed = run[r].missed /\ s = IF Installed(a) THEN SettledSpace(r) ELSE space[a]
           \/ /\ missed = run[r].missed \cup {"space"} /\ Applying(r) /\ Installed(a)
              /\ s = RolledBack(space[a])
  <2> HIDE DEF a
  <2>1. QED
    BY <1>10
<1>4. SpaceIsWell(s)
  <2>1. SpaceIsWell(space[a])
    BY <1>1 DEF AgentsTypes
  <2>2. run[r].well \in BOOLEAN
    BY <1>1 DEF RunRow
  <2> DEFINE z == IF Applying(r) THEN ApplyEnded(space[a], run[r].well) ELSE space[a]
  <2>3. SpaceIsWell(z)
    BY <2>1, <2>2, Endings
  <2>4. SettledSpace(r) = RolledBack(z)
    BY DEF SettledSpace
  <2> HIDE DEF z, a
  <2>5. SpaceIsWell(RolledBack(z)) /\ SpaceIsWell(RolledBack(space[a]))
    BY <2>1, <2>3, Spaces
  <2>6. QED
    BY <1>3, <2>1, <2>4, <2>5
<1> HIDE DEF a
<1>5. SpacesAreWell' /\ space'[a] = s /\ \A b \in Packages \ {a} : space'[b] = space[b]
  BY <1>1, <1>3, <1>4, SpaceMoves
<1>6. /\ GoesOn(r) /\ run' \in [Runs -> RunRow \cup {NoRun}]
      /\ run'[r].pc = "settled" /\ run'[r].missed = missed
      /\ run'[r].left = run[r].left /\ run'[r].proposed = run[r].proposed
      /\ run'[r].writes = run[r].writes /\ run'[r].taint = run[r].taint /\ run'[r].well = run[r].well
  BY <1>1, <1>2, <1>10, SettlingRun
<1>7. AgentsTypes'
  BY <1>2, <1>5, <1>6 DEF AgentsTypes, SpacesAreWell
<1>8. Settling(r)
  BY <1>2, <1>6, <1>7, SameStays DEF Settling, Installed
<1>9. QED
  BY <1>1, <1>2, <1>3, <1>5, <1>6, <1>8 DEF SpaceSettles, a

\* What the row of an agent comes to say.
LevelSettles(r) ==
  /\ run[r].pc = "settled" /\ UNCHANGED <<space, records>>
  /\ \A a \in Packages \ {run[r].agent} : agent'[a] = agent[a]
  /\ \/ /\ Installed(run[r].agent) /\ run'[r].pc = "raised" /\ turn' = turn
        /\ run'[r].missed = run[r].missed
        /\ agent'[run[r].agent].level = Higher(agent[run[r].agent].level, run[r].taint)
     \/ /\ run'[r].pc = "done" /\ turn' = 0 /\ agent' = agent
        /\ run'[r].missed = run[r].missed \cup {"level"}

LEMMA SettleLevelMoves ==
  ASSUME AgentsTypes, Born, NEW r \in Runs, RaiseLevel(r) \/ LevelFails(r)
  PROVE  Settling(r) /\ LevelSettles(r)
<1> USE DEF packageVars, itemVars, runVars, actVars, cutVars
<1> DEFINE a == run[r].agent
<1>1. run[r] \in RunRow /\ run[r].pc = "settled" /\ a \in Packages
  <2>1. run[r].pc = "settled"
    BY DEF RaiseLevel, LevelFails
  <2>2. QED
    BY <2>1, RunsAndActs DEF RunRow
<1>2. UNCHANGED <<space, staged, pausing, items, wake, handed, behind, started, records, act, made, hands, cut>>
  BY DEF RaiseLevel, LevelFails, Misses
<1>3. CASE RaiseLevel(r)
  <2> DEFINE row == [agent[a] EXCEPT !.level = SettledLevel(r)]
  <2>1. Installed(a) /\ turn' = turn /\ run' = [run EXCEPT ![r].pc = "raised"]
    BY <1>3 DEF RaiseLevel
  <2>2. agent[a] \in AgentRow
    BY <1>1, <2>1, RunsAndActs
  <2>3. SettledLevel(r) \in Levels
    BY <1>1, <2>2 DEF SettledLevel, Higher, RunRow, AgentRow, Levels
  <2>4. row \in AgentRow /\ row # NoAgent /\ row.cursor = agent[a].cursor /\ row.level = SettledLevel(r)
    BY <2>2, <2>3 DEF AgentRow, NoAgent
  <2>5. agent' = [agent EXCEPT ![a] = row]
    BY <1>3 DEF RaiseLevel
  <2> HIDE DEF row
  <2>6. agent' \in [Packages -> AgentRow \cup {NoAgent}] /\ agent'[a] = row
        /\ \A b \in Packages \ {a} : agent'[b] = agent[b]
    BY <1>1, <2>4, <2>5, AgentMoves
  <2>7. run[r].missed \in SUBSET {"space", "level", "record", "ledger"}
    BY <1>1 DEF RunRow
  <2>8. /\ GoesOn(r) /\ run' \in [Runs -> RunRow \cup {NoRun}]
        /\ run'[r].pc = "raised" /\ run'[r].missed = run[r].missed
        /\ run'[r].left = run[r].left /\ run'[r].proposed = run[r].proposed
        /\ run'[r].writes = run[r].writes /\ run'[r].taint = run[r].taint /\ run'[r].well = run[r].well
    <3> DEFINE m == run[r].missed
    <3>1. m \in SUBSET {"space", "level", "record", "ledger"} /\ m = run[r].missed
      BY <2>7
    <3> HIDE DEF m
    <3>2. QED
      BY <1>1, <1>2, <2>1, <3>1, SettlingRun
  <2>9. AgentsTypes'
    BY <1>2, <2>1, <2>6, <2>8 DEF AgentsTypes
  <2>10. Settling(r)
    <3> HIDE DEF a
    <3>1. (\A b \in Packages : Installed(b)' <=> Installed(b)) /\ SameCursors
      BY <1>1, <2>1, <2>4, <2>6 DEF Installed, SameCursors
    <3>2. QED
      BY <1>2, <2>8, <2>9, <3>1 DEF Settling
  <2>11. QED
    BY <1>1, <1>2, <2>1, <2>4, <2>6, <2>8, <2>10 DEF LevelSettles, SettledLevel
<1>4. CASE LevelFails(r)
  <2> DEFINE m == run[r].missed \cup {"level"}
  <2>1. run' = [run EXCEPT ![r].pc = "done", ![r].missed = m] /\ turn' = 0 /\ agent' = agent
    BY <1>4 DEF LevelFails, Misses
  <2>2. m \in SUBSET {"space", "level", "record", "ledger"}
    BY <1>1 DEF RunRow
  <2> HIDE DEF m
  <2>3. /\ GoesOn(r) /\ run' \in [Runs -> RunRow \cup {NoRun}]
        /\ run'[r].pc = "done" /\ run'[r].missed = m
        /\ run'[r].left = run[r].left /\ run'[r].proposed = run[r].proposed
        /\ run'[r].writes = run[r].writes /\ run'[r].taint = run[r].taint /\ run'[r].well = run[r].well
    BY <1>1, <1>2, <2>1, <2>2, SettlingRun
  <2>4. turn' \in 0 .. MaxRuns
    BY <2>1, AgentsAssumption
  <2>5. AgentsTypes'
    BY <1>2, <2>1, <2>3, <2>4 DEF AgentsTypes
  <2>6. Settling(r)
    BY <1>2, <2>1, <2>3, <2>5, SameStays DEF Settling, Installed
  <2>7. QED
    BY <1>1, <1>2, <2>1, <2>3, <2>6 DEF LevelSettles, m
<1>5. QED
  BY <1>3, <1>4

\* What is put on record of a run.
RecordSettles(r) ==
  /\ run[r].pc = "raised" /\ run'[r].pc = "done" /\ turn' = 0 /\ UNCHANGED <<agent, space>>
  /\ \/ /\ records' = records \cup {r} /\ Installed(run[r].agent)
        /\ run'[r].missed \in {run[r].missed, run[r].missed \cup {"ledger"}}
     \/ records' = records /\ run'[r].missed = run[r].missed \cup {"record"}

LEMMA SettleRecordMoves ==
  ASSUME AgentsTypes, Born, NEW r \in Runs, Record(r) \/ RecordFails(r) \/ LedgerFails(r)
  PROVE  Settling(r) /\ RecordSettles(r)
<1> USE DEF packageVars, itemVars, runVars, actVars, cutVars
<1>1. run[r] \in RunRow /\ run[r].pc = "raised"
  <2>1. run[r].pc = "raised"
    BY DEF Record, RecordFails, LedgerFails
  <2>2. QED
    BY <2>1, RunsAndActs
<1>2. /\ UNCHANGED <<agent, space, staged, pausing, items, wake, handed, behind, started, act, made, hands, cut>>
      /\ turn' = 0
  BY DEF Record, RecordFails, LedgerFails, Misses
<1>3. run[r].missed \in SUBSET {"space", "level", "record", "ledger"}
  BY <1>1 DEF RunRow
<1>4. PICK missed \in SUBSET {"space", "level", "record", "ledger"} :
        /\ \/ run' = [run EXCEPT ![r].pc = "done", ![r].missed = missed]
           \/ run' = [run EXCEPT ![r].pc = "done"] /\ missed = run[r].missed
        /\ \/ /\ records' = records \cup {r} /\ Installed(run[r].agent)
              /\ missed \in {run[r].missed, run[r].missed \cup {"ledger"}}
           \/ records' = records /\ missed = run[r].missed \cup {"record"}
  <2>1. CASE Record(r)
    BY <1>3, <2>1 DEF Record
  <2>2. CASE RecordFails(r)
    BY <1>3, <2>2 DEF RecordFails, Misses
  <2>3. CASE LedgerFails(r)
    BY <1>3, <2>3 DEF LedgerFails, Misses
  <2>4. QED
    BY <2>1, <2>2, <2>3
<1>5. /\ GoesOn(r) /\ run' \in [Runs -> RunRow \cup {NoRun}]
      /\ run'[r].pc = "done" /\ run'[r].missed = missed
      /\ run'[r].left = run[r].left /\ run'[r].proposed = run[r].proposed
      /\ run'[r].writes = run[r].writes /\ run'[r].taint = run[r].taint /\ run'[r].well = run[r].well
  BY <1>1, <1>2, <1>4, SettlingRun
<1>6. turn' \in 0 .. MaxRuns /\ records' \subseteq Runs
  BY <1>2, <1>4, AgentsAssumption DEF AgentsTypes
<1>7. AgentsTypes'
  BY <1>2, <1>5, <1>6 DEF AgentsTypes
<1>8. Settling(r)
  BY <1>2, <1>5, <1>7, SameStays DEF Settling, Installed
<1>9. QED
  BY <1>1, <1>2, <1>4, <1>5, <1>8 DEF RecordSettles

LEMMA LeaveMoves ==
  ASSUME AgentsTypes, Born, NEW r \in Runs, ClientLeaves(r)
  PROVE  /\ AgentsTypes' /\ GoesOn(r)
         /\ turn = r /\ turn' = 0 /\ run[r].pc \in {"running", "over"} /\ run[r].inv = "message"
         /\ run'[r].pc = (IF run[r].pc = "running" THEN "running" ELSE "done") /\ run'[r].left = TRUE
         /\ run'[r].proposed = run[r].proposed /\ run'[r].writes = run[r].writes
         /\ run'[r].taint = run[r].taint /\ run'[r].well = run[r].well /\ run'[r].missed = run[r].missed
         /\ cut' = cut \cup {run[r].agent}
         /\ UNCHANGED <<agent, space, staged, records, wake, handed, behind, items, act, made, hands>>
<1> USE DEF packageVars, itemVars, runVars, actVars, cutVars
<1> DEFINE pc == IF run[r].pc = "running" THEN "running" ELSE "done"
           row == [run[r] EXCEPT !.left = TRUE, !.pc = pc]
<1>1. run[r] \in RunRow /\ r \in 1 .. started
  BY RunsAndActs DEF ClientLeaves
<1>2. pc \in {"running", "done"}
  OBVIOUS
<1>3. [run[r] EXCEPT !.left = TRUE, !.pc = IF Running(r) THEN @ ELSE "done"] = row
  BY <1>1 DEF Running, RunRow
<1>4. run' = [run EXCEPT ![r] = row]
  BY <1>3 DEF ClientLeaves
<1> HIDE DEF pc
<1>5. /\ row \in RunRow /\ row.pc = pc /\ row.left = TRUE /\ row.proposed = run[r].proposed
      /\ row.writes = run[r].writes /\ row.taint = run[r].taint /\ row.well = run[r].well /\ row.missed = run[r].missed
      /\ row.agent = run[r].agent /\ row.inv = run[r].inv /\ row.act = run[r].act
  BY <1>1, <1>2 DEF RunRow
<1> HIDE DEF row
<1>6. run' \in [Runs -> RunRow \cup {NoRun}] /\ run'[r] = row /\ \A q \in Runs \ {r} : run'[q] = run[q]
  BY <1>4, <1>5, RunMoves
<1>7. /\ UNCHANGED <<agent, space, staged, records, wake, handed, behind, items, act, made, hands>>
      /\ UNCHANGED <<started, pausing>> /\ turn = r /\ turn' = 0 /\ run[r].pc \in {"running", "over"} /\ run[r].inv = "message"
      /\ cut' = cut \cup {run[r].agent}
  BY DEF ClientLeaves
<1>8. AgentsTypes'
  <2>1. turn' \in 0 .. MaxRuns
    BY <1>7, AgentsAssumption DEF AgentsTypes
  <2>2. QED
    BY <1>6, <1>7, <2>1 DEF AgentsTypes
<1>9. GoesOn(r)
  BY <1>1, <1>5, <1>6, <1>7 DEF GoesOn
<1>10. QED
  BY <1>5, <1>6, <1>7, <1>8, <1>9 DEF pc

LEMMA ReportMoves ==
  ASSUME AgentsTypes, Born, NEW r \in Runs, Report(r)
  PROVE  /\ AgentsTypes' /\ GoesOn(r)
         /\ run[r].pc = "done" /\ run[r].inv = "apply"
         /\ run'[r].pc = "reported" /\ run'[r].left = run[r].left
         /\ run'[r].proposed = run[r].proposed /\ run'[r].writes = run[r].writes
         /\ run'[r].taint = run[r].taint /\ run'[r].well = run[r].well /\ run'[r].missed = run[r].missed
         /\ SameActs /\ run[r].act \in ActIds
         /\ act'[run[r].act].status = (IF WentWell(r) THEN "executed" ELSE "failed")
         /\ UNCHANGED <<agent, space, staged, turn, records, wake, handed, behind, items, hands, cut>>
<1> USE DEF packageVars, itemVars, runVars, actVars, cutVars
<1> DEFINE row == [run[r] EXCEPT !.pc = "reported"]
           status == IF WentWell(r) THEN "executed" ELSE "failed"
           x == run[r].act
<1>1. run[r] \in RunRow /\ r \in 1 .. started
  BY RunsAndActs DEF Report
<1>2. /\ row \in RunRow /\ row.pc = "reported" /\ row.left = run[r].left /\ row.proposed = run[r].proposed
      /\ row.writes = run[r].writes /\ row.taint = run[r].taint /\ row.well = run[r].well /\ row.missed = run[r].missed
      /\ row.agent = run[r].agent /\ row.inv = run[r].inv /\ row.act = run[r].act
  BY <1>1 DEF RunRow
<1>3. run' = [run EXCEPT ![r] = row]
  BY DEF Report
<1> HIDE DEF row
<1>4. run' \in [Runs -> RunRow \cup {NoRun}] /\ run'[r] = row /\ \A q \in Runs \ {r} : run'[q] = run[q]
  BY <1>2, <1>3, RunMoves
<1>5. /\ UNCHANGED <<agent, space, staged, turn, records, wake, handed, behind, items, hands, cut>>
      /\ UNCHANGED <<started, pausing, made>> /\ run[r].pc = "done" /\ run[r].inv = "apply"
      /\ act[x].status \in {"executing"} /\ act' = [act EXCEPT ![x].status = status]
  BY DEF Report, Moved, Applying
<1>6. x \in ActIds
  <2>1. run[r].act \in 1 .. made
    BY <1>1, <1>5 DEF Born, Applying
  <2>2. QED
    BY <2>1, RunsAndActs
<1>7. status \in {"executed", "failed"}
  OBVIOUS
<1>8. /\ act' \in [ActIds -> ActRow \cup {NoAct}]
      /\ \A y \in ActIds : (act'[y] = NoAct <=> act[y] = NoAct) /\ SameAct(y)
      /\ act'[x].status = status
  <2> HIDE DEF x, status
  <2>1. /\ act' \in [ActIds -> ActRow \cup {NoAct}]
        /\ \A y \in ActIds : (act'[y] = NoAct <=> act[y] = NoAct) /\ SameAct(y)
    BY <1>5, <1>6, <1>7, ActMoves
  <2>2. act'[x].status = status
    <3>1. act[x] \in ActRow
      BY <1>5, <1>6 DEF AgentsTypes, NoAct
    <3>2. [act[x] EXCEPT !.status = status].status = status
      BY <3>1 DEF ActRow
    <3>3. QED
      BY <1>5, <1>6, <3>2 DEF AgentsTypes
  <2>3. QED
    BY <2>1, <2>2
<1>9. AgentsTypes'
  BY <1>4, <1>5, <1>8 DEF AgentsTypes
<1>10. GoesOn(r)
  BY <1>1, <1>2, <1>4, <1>5 DEF GoesOn
<1>11. QED
  BY <1>2, <1>4, <1>5, <1>6, <1>8, <1>9, <1>10 DEF SameActs

LEMMA NewestItem ==
  ASSUME items \subseteq Items
  PROVE  Newest \in Nat /\ \A i \in items : i <= Newest
<1>1. MaxItems \in Nat
  BY AgentsAssumption
<1>2. CASE items = {}
  BY <1>2 DEF Newest
<1>3. CASE items # {}
  <2>1. Max(items) \in items /\ \A i \in items : i <= Max(items)
    BY <1>1, <1>3, Greatest
  <2>2. Newest = Max(items)
    BY <1>3 DEF Newest
  <2>3. Newest \in 1 .. MaxItems
    BY <2>1, <2>2 DEF Items
  <2>4. Newest \in Nat
    BY <1>1, <2>3
  <2>5. QED
    BY <2>1, <2>2, <2>4
<1>4. QED
  BY <1>2, <1>3

LEMMA InstallMoves ==
  ASSUME AgentsTypes, NEW a \in Packages, Install(a)
  PROVE  /\ AgentsTypes' /\ a \in staged /\ staged' = staged \ {a}
         /\ \A b \in Packages \ {a} : agent'[b] = agent[b]
         /\ Installed(a)' /\ agent'[a].level = 0 /\ agent'[a].cursor = Newest
         /\ UNCHANGED <<space, run, started, turn, records, wake, handed, behind, items, act, made, hands, cut>>
<1> USE DEF packageVars, itemVars, runVars, actVars, cutVars
<1> DEFINE row == [state |-> "active", level |-> 0, cursor |-> Newest]
<1>0. Newest \in Nat
  BY NewestItem DEF AgentsTypes
<1>1. row \in AgentRow /\ row # NoAgent /\ row.level = 0 /\ row.cursor = Newest
  BY <1>0, AgentsAssumption DEF AgentsTypes, AgentRow, NoAgent, Levels
<1>2. /\ agent' = [agent EXCEPT ![a] = row] /\ a \in staged /\ staged' = staged \ {a}
      /\ UNCHANGED <<space, pausing, run, started, turn, records, wake, handed, behind, items, act, made, hands, cut>>
  BY DEF Install
<1> HIDE DEF row
<1>3. /\ agent' \in [Packages -> AgentRow \cup {NoAgent}] /\ agent'[a] = row
      /\ \A b \in Packages \ {a} : agent'[b] = agent[b]
  BY <1>1, <1>2, AgentMoves
<1>4. AgentsTypes'
  BY <1>2, <1>3 DEF AgentsTypes
<1>5. QED
  BY <1>1, <1>2, <1>3, <1>4 DEF Installed

LEMMA RemoveMoves ==
  ASSUME AgentsTypes, NEW a \in Packages, Remove(a)
  PROVE  /\ AgentsTypes'
         /\ \A b \in Packages \ {a} : agent'[b] = agent[b] /\ space'[b] = space[b]
         /\ ~Installed(a)' /\ space'[a] = EmptySpace
         /\ records' = {r \in records : run[r].agent # a}
         /\ UNCHANGED <<staged, run, started, turn, wake, handed, behind, items, act, made, hands, cut>>
<1> USE DEF packageVars, itemVars, runVars, actVars, cutVars
<1>1. /\ agent' = [agent EXCEPT ![a] = NoAgent] /\ pausing' = [pausing EXCEPT ![a] = "no"]
      /\ space' = [space EXCEPT ![a] = EmptySpace]
      /\ records' = {r \in records : run[r].agent # a}
      /\ UNCHANGED <<staged, run, started, turn, wake, handed, behind, items, act, made, hands, cut>>
  BY DEF Remove
<1>2. /\ agent' \in [Packages -> AgentRow \cup {NoAgent}] /\ agent'[a] = NoAgent
      /\ \A b \in Packages \ {a} : agent'[b] = agent[b]
  BY <1>1, AgentMoves
<1>3. SpaceIsWell(EmptySpace)
  BY DEF SpaceIsWell, EmptySpace, Closed
<1>4. SpacesAreWell' /\ space'[a] = EmptySpace /\ \A b \in Packages \ {a} : space'[b] = space[b]
  BY <1>1, <1>3, SpaceMoves
<1>5. pausing' \in [Packages -> {"no", "pause", "uninstall", "remove"}]
  BY <1>1 DEF AgentsTypes
<1>6. records' \subseteq Runs
  BY <1>1 DEF AgentsTypes
<1>7. AgentsTypes'
  BY <1>1, <1>2, <1>4, <1>5, <1>6 DEF AgentsTypes, SpacesAreWell
<1>8. QED
  BY <1>1, <1>2, <1>4, <1>7 DEF Installed

\* The items that waited are handed to a run, or none are.
HandsOver ==
  \/ wake' = wake /\ handed' = handed
  \/ /\ wake' = NoWake /\ wake.agent \in Packages /\ wake.pc = "waiting"
     /\ \A b \in Packages, i \in Items :
          handed'[b][i] = IF b = wake.agent /\ i \in wake.items THEN handed[b][i] + 1 ELSE handed[b][i]

\* A run of an agent begins, for a wake, a message or an approved action.
Starts(a, inv, x) ==
  /\ AgentsTypes'
  /\ Installed(a) /\ turn = 0
  /\ started + 1 \in Runs /\ started' = started + 1 /\ turn' = started + 1
  /\ run'[started + 1] \in RunRow
  /\ run'[started + 1] =
       [pc |-> "running", agent |-> a, inv |-> inv, act |-> x, left |-> FALSE,
        taint |-> agent[a].level, proposed |-> 0, writes |-> 0, well |-> FALSE, missed |-> {}]
  /\ \A r \in Runs \ {started + 1} : run'[r] = run[r]
  /\ \A b \in Packages \ {a} : space'[b] = space[b]
  /\ space'[a] = IF inv = "apply" THEN ApplyBegun(space[a]) ELSE space[a]
  /\ inv = "apply" => x \in hands /\ act[x].agent = a
  /\ UNCHANGED <<agent, staged, items, behind, records, act, made, cut>>
  /\ hands' \subseteq hands
  /\ HandsOver

LEMMA BeginMoves ==
  ASSUME AgentsTypes, NEW a \in Packages, NEW inv \in {"items", "message", "apply"}, NEW x \in Nat,
         MayRun(a, inv), Begin(a, inv, x),
         inv = "apply" => x \in hands /\ act[x].agent = a,
         UNCHANGED <<agent, packageVars, items, behind, records, act, made, cutVars>>,
         HandsOver, handed' \in [Packages -> [Items -> Nat]],
         hands' \subseteq hands
  PROVE  Starts(a, inv, x)
<1> USE DEF packageVars, itemVars, runVars, actVars, cutVars
<1> DEFINE row == [pc |-> "running", agent |-> a, inv |-> inv, act |-> x, left |-> FALSE,
                   taint |-> agent[a].level, proposed |-> 0, writes |-> 0, well |-> FALSE, missed |-> {}]
           s == IF inv = "apply" THEN ApplyBegun(space[a]) ELSE space[a]
<1>1. started + 1 \in Runs
  BY AgentsAssumption DEF AgentsTypes, Begin, Runs
<1>2. agent[a].level \in Levels /\ Installed(a)
  BY DEF MayRun, AgentsTypes, Installed, AgentRow
<1>3. row \in RunRow
  BY <1>2 DEF RunRow
<1>4. SpaceIsWell(s)
  <2>1. SpaceIsWell(space[a])
    BY DEF AgentsTypes
  <2>2. SpaceIsWell(ApplyBegun(space[a]))
    BY <2>1, Spaces
  <2>3. QED
    BY <2>1, <2>2
<1>5. /\ turn = 0 /\ started' = started + 1 /\ turn' = started + 1
      /\ run' = [run EXCEPT ![started + 1] = row] /\ space' = [space EXCEPT ![a] = s]
  BY DEF Begin
<1> HIDE DEF s
<1>6. SpacesAreWell' /\ space'[a] = s /\ \A b \in Packages \ {a} : space'[b] = space[b]
  BY <1>4, <1>5, SpaceMoves
<1>7. /\ run' \in [Runs -> RunRow \cup {NoRun}]
      /\ run'[started + 1] = row /\ \A q \in Runs \ {started + 1} : run'[q] = run[q]
  <2> HIDE DEF row
  <2>1. QED
    BY <1>1, <1>3, <1>5, RunMoves
<1>8. AgentsTypes'
  <2>1. started' \in 0 .. MaxRuns /\ turn' \in 0 .. MaxRuns
    BY <1>1, <1>5, AgentsAssumption DEF Runs
  <2>2. wake' \in WakeRow \cup {NoWake}
    BY DEF AgentsTypes, HandsOver
  <2>3. hands' \subseteq ActIds /\ staged' = staged /\ agent' = agent /\ items' = items /\ behind' = behind /\ records' = records
        /\ act' = act /\ made' = made /\ pausing' = pausing
    BY DEF AgentsTypes
  <2>4. QED
    BY <1>6, <1>7, <2>1, <2>2, <2>3 DEF AgentsTypes, SpacesAreWell
<1>9. QED
  BY <1>1, <1>2, <1>3, <1>5, <1>6, <1>7, <1>8 DEF Starts, s

LEMMA StartMoves ==
  ASSUME AgentsTypes, Born,
         \/ WakeRuns
         \/ \E a \in Packages : Ask(a)
         \/ \E x \in ActIds : ApplyRuns(x)
  PROVE  \E a \in Packages, inv \in {"items", "message", "apply"}, x \in Nat : Starts(a, inv, x)
<1> USE DEF packageVars, itemVars, runVars, actVars, cutVars
<1>1. CASE WakeRuns
  <2>1. wake.agent \in Packages /\ wake.items \subseteq Items /\ wake.pc = "waiting"
    BY <1>1 DEF WakeRuns, AgentsTypes, NoWake, WakeRow
  <2>2. handed' \in [Packages -> [Items -> Nat]] /\ HandsOver
    <3> DEFINE a == wake.agent
               h == [i \in Items |-> handed[a][i] + (IF i \in wake.items THEN 1 ELSE 0)]
    <3>1. h \in [Items -> Nat]
      BY <2>1 DEF AgentsTypes
    <3>2. handed' = [handed EXCEPT ![a] = h]
      BY <1>1 DEF WakeRuns
    <3>3. h \in [Items -> Nat] => \A i \in Items : h[i] = IF i \in wake.items THEN handed[a][i] + 1 ELSE handed[a][i]
      BY <2>1 DEF AgentsTypes
    <3> HIDE DEF h
    <3>4. handed'[a] = h /\ \A b \in Packages \ {a} : handed'[b] = handed[b]
      BY <2>1, <3>2 DEF AgentsTypes
    <3>5. handed' \in [Packages -> [Items -> Nat]]
      BY <2>1, <3>1, <3>2 DEF AgentsTypes
    <3>6. wake' = NoWake
      BY <1>1 DEF WakeRuns
    <3>7. QED
      BY <2>1, <3>1, <3>3, <3>4, <3>5, <3>6 DEF HandsOver
  <2>3. /\ MayRun(wake.agent, "items") /\ Begin(wake.agent, "items", 0)
        /\ UNCHANGED <<agent, packageVars, items, behind, records, act, made, cutVars>>
        /\ hands' \subseteq hands
    BY <1>1 DEF WakeRuns
  <2>4. Starts(wake.agent, "items", 0)
    BY <2>1, <2>2, <2>3, BeginMoves
  <2>5. QED
    BY <2>1, <2>4
<1>2. ASSUME NEW a \in Packages, Ask(a)
      PROVE  \E b \in Packages, inv \in {"items", "message", "apply"}, x \in Nat : Starts(b, inv, x)
  <2>1. /\ MayRun(a, "message") /\ Begin(a, "message", 0)
        /\ UNCHANGED <<agent, packageVars, items, behind, records, act, made, cutVars>>
        /\ hands' \subseteq hands /\ handed' = handed /\ wake' = wake
    BY <1>2 DEF Ask
  <2>2. handed' \in [Packages -> [Items -> Nat]] /\ HandsOver
    BY <2>1 DEF AgentsTypes, HandsOver
  <2>3. Starts(a, "message", 0)
    BY <2>1, <2>2, BeginMoves
  <2>4. QED
    BY <2>3
<1>3. ASSUME NEW x \in ActIds, ApplyRuns(x)
      PROVE  \E b \in Packages, inv \in {"items", "message", "apply"}, y \in Nat : Starts(b, inv, y)
  <2>1. x \in hands /\ x \in Nat /\ act[x].agent \in Packages
    <3>1. x \in hands /\ x \in 1 .. made /\ x \in Nat
      BY <1>3 DEF ApplyRuns, ActIds, Born
    <3>2. act[x] \in ActRow
      BY <3>1, RunsAndActs
    <3>3. QED
      BY <3>1, <3>2 DEF ActRow
  <2>2. /\ MayRun(act[x].agent, "apply") /\ Begin(act[x].agent, "apply", x)
        /\ UNCHANGED <<agent, packageVars, items, behind, records, act, made, cutVars>>
        /\ hands' \subseteq hands /\ handed' = handed /\ wake' = wake
    BY <1>3 DEF ApplyRuns
  <2>3. handed' \in [Packages -> [Items -> Nat]] /\ HandsOver
    BY <2>2 DEF AgentsTypes, HandsOver
  <2>4. Starts(act[x].agent, "apply", x)
    BY <2>1, <2>2, <2>3, BeginMoves
  <2>5. QED
    BY <2>1, <2>4
<1>4. QED
  BY <1>1, <1>2, <1>3

LEMMA RestartMoves ==
  ASSUME AgentsTypes, Born, AgentsRestart
  PROVE  /\ AgentsTypes'
         /\ staged' = {} /\ turn' = 0 /\ wake' = NoWake /\ hands' = {}
         /\ \A a \in Packages : space'[a] = RolledBack(space[a])
         /\ \A r \in Runs : run'[r] # NoRun <=> run[r] # NoRun
         /\ \A r \in 1 .. started :
              /\ run'[r] \in RunRow
              /\ run'[r].pc = (IF run[r].pc = "reported" THEN "reported" ELSE "lost")
              /\ run'[r].agent = run[r].agent /\ run'[r].inv = run[r].inv /\ run'[r].act = run[r].act
              /\ run'[r].left = run[r].left /\ run'[r].taint = run[r].taint
              /\ run'[r].proposed = run[r].proposed /\ run'[r].writes = run[r].writes
              /\ run'[r].well = run[r].well /\ run'[r].missed = run[r].missed
              /\ UnderWay(r) => run[r].agent \in cut'
         /\ cut \subseteq cut'
         /\ UNCHANGED <<agent, items, handed, behind, started, records, act, made>>
<1> USE DEF packageVars, itemVars, runVars, actVars, cutVars
<1> DEFINE row(r) == [run[r] EXCEPT !.pc = IF @ = "reported" THEN @ ELSE "lost"]
<1>1. ASSUME NEW r \in 1 .. started
      PROVE  /\ r \in Runs /\ run[r] # NoRun /\ run[r] \in RunRow
             /\ row(r) \in RunRow /\ row(r) # NoRun
             /\ row(r).pc = (IF run[r].pc = "reported" THEN "reported" ELSE "lost")
             /\ row(r).agent = run[r].agent /\ row(r).inv = run[r].inv /\ row(r).act = run[r].act
             /\ row(r).left = run[r].left /\ row(r).taint = run[r].taint
             /\ row(r).proposed = run[r].proposed /\ row(r).writes = run[r].writes
             /\ row(r).well = run[r].well /\ row(r).missed = run[r].missed
  <2>1. r \in Runs /\ run[r] \in RunRow
    BY RunsAndActs
  <2>2. QED
    BY <2>1 DEF RunRow, NoRun
<1>2. run' = [r \in Runs |-> IF run[r] = NoRun THEN NoRun ELSE row(r)]
  BY DEF AgentsRestart
<1>3. \A r \in Runs : run[r] # NoRun <=> r \in 1 .. started
  BY DEF Born, Runs
<1> HIDE DEF row
<1>4. /\ \A r \in 1 .. started : run'[r] = row(r)
      /\ run' \in [Runs -> RunRow \cup {NoRun}]
      /\ \A r \in Runs : run'[r] # NoRun <=> run[r] # NoRun
  BY <1>1, <1>2, <1>3
<1>5. /\ staged' = {} /\ turn' = 0 /\ wake' = NoWake /\ hands' = {}
      /\ pausing' = [a \in Packages |-> "no"]
      /\ space' = [a \in Packages |-> RolledBack(space[a])]
      /\ cut' = cut \cup {run[r].agent : r \in {s \in Runs : UnderWay(s)}}
      /\ UNCHANGED <<agent, items, handed, behind, started, records, act, made>>
  BY DEF AgentsRestart
<1>6. \A a \in Packages : space'[a] = RolledBack(space[a]) /\ SpaceIsWell(space'[a])
  <2>1. ASSUME NEW a \in Packages PROVE SpaceIsWell(RolledBack(space[a]))
    <3>1. SpaceIsWell(space[a])
      BY DEF AgentsTypes
    <3>2. QED
      BY <3>1, Spaces
  <2>2. QED
    BY <1>5, <2>1
<1>7. \A r \in 1 .. started : UnderWay(r) => run[r].agent \in cut'
  BY <1>1, <1>5
<1>8. AgentsTypes'
  <2>1. turn' \in 0 .. MaxRuns /\ DOMAIN space' = Packages
    BY <1>5, AgentsAssumption
  <2>2. pausing' \in [Packages -> {"no", "pause", "uninstall", "remove"}]
    BY <1>5
  <2>3. QED
    BY <1>4, <1>5, <1>6, <2>1, <2>2 DEF AgentsTypes
<1>9. QED
  BY <1>1, <1>4, <1>5, <1>6, <1>7, <1>8

AgentsMove ==
  \/ AgentsStep \/ AgentsRestart
  \/ \E a \in Packages : Install(a) \/ PauseBegins(a, "uninstall")
  \/ UNCHANGED agentsVars

\* The kinds of step there are.
Kinds ==
  \/ Calm
  \/ \E a \in Packages : Install(a)
  \/ \E a \in Packages : Remove(a)
  \/ \E a \in Packages, inv \in {"items", "message", "apply"}, x \in Nat : Starts(a, inv, x)
  \/ \E r \in Runs, i \in Items : Read(r, i)
  \/ \E r \in Runs : Execute(r)
  \/ \E r \in Runs : ExecuteBegin(r) \/ ExecuteCommit(r)
  \/ \E r \in Runs, kind \in {"own", "mail"} : Propose(r, kind)
  \/ \E r \in Runs, well \in BOOLEAN : End(r, well)
  \/ \E r \in Runs : SettleSpace(r) \/ SpaceFails(r)
  \/ \E r \in Runs : RaiseLevel(r) \/ LevelFails(r)
  \/ \E r \in Runs : Record(r) \/ RecordFails(r) \/ LedgerFails(r)
  \/ \E r \in Runs : ClientLeaves(r)
  \/ \E r \in Runs : Report(r)
  \/ AgentsRestart

LEMMA EveryStep ==
  ASSUME AgentsTypes, Born, AgentsMove
  PROVE  Kinds
<1>1. CASE AgentsStep
  <2>1. CASE \/ Arrive \/ WakeFinds \/ WakeMoves \/ WakeIsLate
             \/ \E i \in Items : Purge(i)
             \/ \E a \in Packages : WakeQueries(a)
    <3>1. Calm
      BY <2>1, CalmSteps DEF Passes
    <3>2. QED
      BY <3>1 DEF Kinds
  <2>2. CASE WakeRuns
    BY <2>2, StartMoves DEF Kinds
  <2>3. ASSUME NEW a \in Packages,
               \/ Stage(a) \/ GoesStale(a) \/ Ask(a) \/ PauseBegins(a, "pause")
               \/ PauseWithdraws(a) \/ Remove(a) \/ Resume(a)
        PROVE  Kinds
    <3>1. CASE Stage(a) \/ GoesStale(a) \/ PauseBegins(a, "pause") \/ PauseWithdraws(a) \/ Resume(a)
      <4>1. Calm
        BY <3>1, CalmSteps
      <4>2. QED
        BY <4>1 DEF Kinds
    <3>2. CASE Ask(a)
      BY <3>2, StartMoves DEF Kinds
    <3>3. QED
      BY <2>3, <3>1, <3>2 DEF Kinds
  <2>4. ASSUME NEW r \in Runs,
               \/ Execute(r) \/ ExecuteBegin(r) \/ ExecuteCommit(r) \/ ProposeTooMuch(r)
               \/ SettleSpace(r) \/ SpaceFails(r) \/ RaiseLevel(r) \/ LevelFails(r)
               \/ Record(r) \/ RecordFails(r) \/ LedgerFails(r) \/ ClientLeaves(r) \/ Report(r)
        PROVE  Kinds
    <3>1. CASE ProposeTooMuch(r)
      <4>1. Calm
        BY <3>1, CalmSteps
      <4>2. QED
        BY <4>1 DEF Kinds
    <3>2. QED
      BY <2>4, <3>1 DEF Kinds
  <2>5. ASSUME NEW x \in ActIds, Approve(x) \/ Decline(x) \/ Take(x) \/ ApplyRuns(x) \/ ApplyHasNoAgent(x)
        PROVE  Kinds
    <3>1. CASE ApplyRuns(x)
      BY <3>1, StartMoves DEF Kinds
    <3>2. CASE Approve(x) \/ Decline(x) \/ Take(x) \/ ApplyHasNoAgent(x)
      <4>1. Calm
        BY <3>2, CalmSteps
      <4>2. QED
        BY <4>1 DEF Kinds
    <3>3. QED
      BY <2>5, <3>1, <3>2
  <2>6. CASE \/ \E r \in Runs, i \in Items : Read(r, i)
             \/ \E r \in Runs, kind \in {"own", "mail"} : Propose(r, kind)
             \/ \E r \in Runs, well \in BOOLEAN : End(r, well)
    BY <2>6 DEF Kinds
  <2>7. QED
    BY <1>1, <2>1, <2>2, <2>3, <2>4, <2>5, <2>6 DEF AgentsStep
<1>2. CASE AgentsRestart
  BY <1>2 DEF Kinds
<1>3. ASSUME NEW a \in Packages, Install(a) \/ PauseBegins(a, "uninstall") PROVE Kinds
  <2>1. CASE Install(a)
    BY <2>1 DEF Kinds
  <2>2. CASE PauseBegins(a, "uninstall")
    <3>1. Calm
      BY <2>2, CalmSteps
    <3>2. QED
      BY <3>1 DEF Kinds
  <2>3. QED
    BY <1>3, <2>1, <2>2
<1>4. CASE UNCHANGED agentsVars
  <2>1. Calm
    BY <1>4, CalmSteps
  <2>2. QED
    BY <2>1 DEF Kinds
<1>5. QED
  BY <1>1, <1>2, <1>3, <1>4 DEF AgentsMove

-----------------------------------------------------------------------------

LEMMA TypesStay ==
  ASSUME AgentsTypes, Born, Kinds
  PROVE  AgentsTypes'
<1>1. CASE Calm
  BY <1>1 DEF Calm
<1>2. QED
  BY <1>1, InstallMoves, RemoveMoves, ReadMoves, ExecuteMoves, TransactionMoves, ProposeMoves,
     EndMoves, SettleSpaceMoves, SettleLevelMoves, SettleRecordMoves, LeaveMoves, ReportMoves, RestartMoves
     DEF Kinds, Starts, Settling

\* What a step at which at most one run goes on leaves of the bookkeeping.
LEMMA BornGoesOn ==
  ASSUME Order, NEW r, GoesOn(r), SameActs, hands' \subseteq hands, records' \subseteq records \cup {r}
  PROVE  Born'
<1>1. \A s \in Runs : run'[s] # NoRun <=> run[s] # NoRun
  BY DEF GoesOn, RunRow, NoRun
<1>2. \A s \in 1 .. started : s \in Runs /\ run'[s].agent = run[s].agent /\ run'[s].inv = run[s].inv /\ run'[s].act = run[s].act
  BY RunsAndActs DEF GoesOn, Order
<1>3. \A x \in 1 .. made : x \in ActIds /\ SameAct(x)
  BY RunsAndActs DEF SameActs, Order
<1>4. started' = started /\ made' = made
  BY DEF GoesOn, SameActs
<1>5. \A x \in ActIds : act'[x] # NoAct <=> x <= made
  BY DEF Order, Born, SameActs
<1>6. ASSUME NEW x \in 1 .. made
      PROVE  /\ act'[x].run \in 1 .. started
             /\ run'[act'[x].run].agent = act'[x].agent
             /\ run'[act'[x].run].inv # "apply"
  <2>1. act[x].run \in 1 .. started /\ run[act[x].run].agent = act[x].agent /\ ~Applying(act[x].run)
    BY DEF Order, Born
  <2>2. act'[x].run = act[x].run /\ act'[x].agent = act[x].agent
    BY <1>3 DEF SameAct
  <2>3. QED
    BY <1>2, <2>1, <2>2 DEF Applying
<1>7. ASSUME NEW s \in 1 .. started, Applying(s)'
      PROVE  run'[s].act \in 1 .. made /\ act'[run'[s].act].agent = run'[s].agent
  <2>1. Applying(s)
    BY <1>2, <1>7 DEF Applying
  <2>2. run[s].act \in 1 .. made /\ act[run[s].act].agent = run[s].agent
    BY <2>1 DEF Order, Born
  <2>3. QED
    BY <1>2, <1>3, <2>2 DEF SameAct
<1>8. hands' \subseteq 1 .. made /\ records' \subseteq 1 .. started
  BY DEF Order, Born, GoesOn
<1>9. \A s \in Runs : run'[s] # NoRun <=> s <= started'
  BY <1>1, <1>4 DEF Order, Born
<1>10. QED
  BY <1>4, <1>5, <1>6, <1>7, <1>8, <1>9 DEF Born, Applying

-----------------------------------------------------------------------------
(* The order of runs and proposals is kept.                                 *)

LEMMA FreshGoesOn ==
  ASSUME Order, NEW r, GoesOn(r), staged' \subseteq staged,
         \A a \in Packages : Installed(a)' <=> Installed(a),
         \A a \in Packages : ~Installed(a) => space'[a] = space[a]
  PROVE  Fresh'
<1>1. \A s \in 1 .. started : run'[s].agent = run[s].agent
  BY RunsAndActs DEF GoesOn, Order
<1>2. started' = started /\ staged \subseteq Packages
  BY DEF GoesOn, Order, AgentsTypes
<1>3. \A a \in staged' : ~Installed(a)' /\ \A s \in 1 .. started' : run'[s].agent # a
  BY <1>1, <1>2 DEF Order, Fresh
<1>4. \A a \in Packages : ~Installed(a)' => space'[a] = EmptySpace
  BY DEF Order, Fresh
<1>5. QED
  BY <1>3, <1>4 DEF Fresh

\* The turn, if the run neither ends nor loses its future.
LEMMA TurnGoesOn ==
  ASSUME Order, NEW r, GoesOn(r), run'[r].pc = run[r].pc, run'[r].left = run[r].left,
         turn' = turn, records' \subseteq records, cut' = cut
  PROVE  OneTurn'
<1>1. \A s \in 1 .. started : /\ run'[s].pc = run[s].pc /\ run'[s].left = run[s].left
                              /\ run'[s].agent = run[s].agent
  BY RunsAndActs DEF GoesOn, Order
<1>2. started' = started
  BY DEF GoesOn
<1>3. QED
  BY <1>1, <1>2 DEF Order, OneTurn, UnderWay

LEMMA OrderCalm ==
  ASSUME Order, Calm
  PROVE  Order'
<1>1. /\ AgentsTypes' /\ UNCHANGED <<space, run, started, turn, records, cut, made>>
      /\ \A a \in Packages : Installed(a)' <=> Installed(a)
      /\ \A x \in ActIds : (act'[x] = NoAct <=> act[x] = NoAct) /\ SameAct(x)
  BY DEF Calm, SameActs, SameAgent
<1>2. \A x \in 1 .. made : x \in ActIds
  BY RunsAndActs DEF Order
<1>3. Born'
  <2>1. hands' \subseteq 1 .. made
    BY DEF Calm, Order, Born
  <2>2. \A x \in 1 .. made : act'[x].run = act[x].run /\ act'[x].agent = act[x].agent
    BY <1>1, <1>2 DEF SameAct
  <2>3. QED
    BY <1>1, <1>2, <2>1, <2>2 DEF Order, Born, Applying
<1>4. Fresh'
  <2>1. \A a \in staged' : a \in Packages
    BY <1>1 DEF AgentsTypes
  <2>2. \A s \in 1 .. started : s \in Runs /\ run[s] # NoRun
    BY RunsAndActs DEF Order, RunRow, NoRun
  <2>3. \A a \in staged' : ~Installed(a)' /\ \A s \in 1 .. started : run[s].agent # a
    BY <1>1, <2>1, <2>2 DEF Calm, Order, Fresh
  <2>4. QED
    BY <1>1, <2>3 DEF Order, Fresh
<1>5. OneTurn'
  BY <1>1 DEF Order, OneTurn, UnderWay
<1>6. QED
  BY <1>1, <1>3, <1>4, <1>5 DEF Order

LEMMA OrderInstall ==
  ASSUME Order, NEW a \in Packages, Install(a)
  PROVE  Order'
<1>1. /\ AgentsTypes' /\ UNCHANGED <<space, run, started, turn, records, cut, made, act, hands>>
      /\ Installed(a)' /\ \A b \in Packages \ {a} : agent'[b] = agent[b]
      /\ staged' \subseteq staged /\ (a \in staged' => Installed(a) /\ a \in staged)
  BY InstallMoves DEF Order
<1>2. \A b \in Packages : Installed(b)' <=> (Installed(b) \/ b = a)
  BY <1>1 DEF Installed
<1>3. Born'
  BY <1>1 DEF Order, Born, Applying
<1>4. Fresh'
  <2>1. staged \subseteq Packages
    BY DEF Order, AgentsTypes
  <2>2. QED
    BY <1>1, <1>2, <2>1 DEF Order, Fresh
<1>5. OneTurn'
  BY <1>1 DEF Order, OneTurn, UnderWay
<1>6. QED
  BY <1>1, <1>3, <1>4, <1>5 DEF Order

LEMMA OrderRemove ==
  ASSUME Order, NEW a \in Packages, Remove(a)
  PROVE  Order'
<1>1. /\ AgentsTypes' /\ UNCHANGED <<staged, run, started, turn, cut, made, act, hands>>
      /\ \A b \in Packages \ {a} : agent'[b] = agent[b] /\ space'[b] = space[b]
      /\ ~Installed(a)' /\ space'[a] = EmptySpace
      /\ records' \subseteq records
  BY RemoveMoves DEF Order
<1>2. \A b \in Packages : Installed(b)' <=> (Installed(b) /\ b # a)
  BY <1>1 DEF Installed
<1>3. Born'
  BY <1>1 DEF Order, Born, Applying
<1>4. Fresh'
  <2>1. staged \subseteq Packages
    BY DEF Order, AgentsTypes
  <2>2. QED
    BY <1>1, <1>2, <2>1 DEF Order, Fresh
<1>5. OneTurn'
  BY <1>1 DEF Order, OneTurn, UnderWay
<1>6. QED
  BY <1>1, <1>3, <1>4, <1>5 DEF Order

LEMMA OrderStart ==
  ASSUME Order, NEW a \in Packages, NEW inv \in {"items", "message", "apply"}, NEW x \in Nat, Starts(a, inv, x)
  PROVE  Order'
<1>0. PICK s \in Nat : s = started + 1
  BY DEF Order, AgentsTypes
<1>1. /\ AgentsTypes' /\ UNCHANGED <<agent, staged, records, act, made, cut>>
      /\ s \in Runs /\ started' = s /\ turn' = s /\ turn = 0 /\ Installed(a)
      /\ run'[s] \in RunRow /\ run'[s].agent = a /\ run'[s].inv = inv /\ run'[s].act = x
      /\ run'[s].pc = "running" /\ run'[s].left = FALSE
      /\ \A r \in Runs \ {s} : run'[r] = run[r]
      /\ \A b \in Packages \ {a} : space'[b] = space[b]
      /\ hands' \subseteq hands
      /\ inv = "apply" => x \in hands /\ act[x].agent = a
  BY <1>0 DEF Starts
<1>2. started \in Nat /\ made \in Nat
  BY DEF Order, AgentsTypes
<1>3. s \in Nat /\ s \notin 1 .. started /\ 1 .. s = 1 .. started \cup {s}
  BY <1>0, <1>2
<1>4. \A r \in 1 .. started : r \in Runs /\ run'[r] = run[r]
  BY <1>1, <1>3, RunsAndActs DEF Order
<1>5. \A r \in Runs : r <= s <=> r <= started \/ r = s
  BY <1>0, <1>2 DEF Runs
<1>6. Born'
  <2>1. \A r \in Runs : run'[r] # NoRun <=> r <= s
    <3>1. run'[s] # NoRun
      BY <1>1 DEF RunRow, NoRun
    <3>2. QED
      BY <1>1, <1>5, <3>1 DEF Order, Born
  <2>2. \A y \in 1 .. made : /\ act[y].run \in 1 .. s
                             /\ run'[act[y].run].agent = act[y].agent
                             /\ run'[act[y].run].inv # "apply"
    BY <1>3, <1>4 DEF Order, Born, Applying
  <2>3. hands' \subseteq 1 .. made /\ records' \subseteq 1 .. s
    BY <1>1, <1>3 DEF Order, Born
  <2>4. \A r \in 1 .. s : run'[r].inv = "apply" => run'[r].act \in 1 .. made /\ act[run'[r].act].agent = run'[r].agent
    BY <1>1, <1>3, <1>4 DEF Order, Born, Applying
  <2>5. \A y \in ActIds : act[y] # NoAct <=> y <= made
    BY DEF Order, Born
  <2>6. act' = act /\ made' = made /\ started' = s
    BY <1>1
  <2>7. QED
    BY <2>1, <2>2, <2>3, <2>4, <2>5, <2>6 DEF Born, Applying
<1>7. Fresh'
  <2>1. staged \subseteq Packages /\ \A b \in Packages : Installed(b)' <=> Installed(b)
    BY <1>1 DEF Order, AgentsTypes, Installed
  <2>2. QED
    BY <1>1, <1>3, <1>4, <2>1 DEF Order, Fresh
<1>8. OneTurn'
  <2>1. s # 0 /\ s \in 1 .. s
    BY <1>0, <1>2
  <2>2. s \notin records
    BY <1>3 DEF Order, Born
  <2>3. UnderWay(s)' /\ ~run'[s].left
    BY <1>1 DEF UnderWay
  <2>4. \A r \in 1 .. started : UnderWay(r) => run[r].left
    BY <1>1, <1>3 DEF Order, OneTurn
  <2>5. \A r \in 1 .. started :
          /\ UnderWay(r)' => run'[r].left
          /\ run'[r].left => run'[r].agent \in cut
          /\ run'[r].pc \in {"over", "settled", "raised"} => ~run'[r].left
    BY <1>4, <2>4 DEF Order, OneTurn, UnderWay
  <2>6. QED
    BY <1>1, <1>3, <2>1, <2>2, <2>3, <2>5 DEF OneTurn
<1>9. QED
  BY <1>1, <1>6, <1>7, <1>8 DEF Order

LEMMA OrderRead ==
  ASSUME Order, NEW r \in Runs, NEW i \in Items, Read(r, i)
  PROVE  Order'
<1>1. /\ AgentsTypes' /\ GoesOn(r) /\ run'[r].pc = run[r].pc /\ run'[r].left = run[r].left
      /\ UNCHANGED <<agent, space, staged, turn, records, act, made, hands, cut>>
  BY ReadMoves DEF Order
<1>2. SameActs /\ \A a \in Packages : Installed(a)' <=> Installed(a)
  BY <1>1, SameStays DEF Installed
<1>3. Born' /\ Fresh' /\ OneTurn'
  BY <1>1, <1>2, BornGoesOn, FreshGoesOn, TurnGoesOn
<1>4. QED
  BY <1>1, <1>3 DEF Order

LEMMA OrderExecute ==
  ASSUME Order, NEW r \in Runs, Execute(r)
  PROVE  Order'
<1>1. /\ AgentsTypes' /\ GoesOn(r) /\ run'[r].pc = run[r].pc /\ run'[r].left = run[r].left
      /\ UNCHANGED <<agent, staged, turn, records, act, made, hands, cut>>
      /\ \A a \in Packages : ~Installed(a) => space'[a] = space[a]
  BY ExecuteMoves DEF Order
<1>2. SameActs /\ \A a \in Packages : Installed(a)' <=> Installed(a)
  BY <1>1, SameStays DEF Installed
<1>3. Born' /\ Fresh' /\ OneTurn'
  BY <1>1, <1>2, BornGoesOn, FreshGoesOn, TurnGoesOn
<1>4. QED
  BY <1>1, <1>3 DEF Order

LEMMA OrderTransaction ==
  ASSUME Order, NEW r \in Runs, ExecuteBegin(r) \/ ExecuteCommit(r)
  PROVE  Order'
<1>1. /\ AgentsTypes' /\ r \in 1 .. started /\ run[r] \in RunRow
      /\ UNCHANGED <<run, started, agent, staged, turn, records, act, made, hands, cut>>
      /\ \A a \in Packages \ {run[r].agent} : space'[a] = space[a]
      /\ Installed(run[r].agent) \/ space[run[r].agent].txn.open
  BY TransactionMoves DEF Order
<1>2. GoesOn(r)
  BY <1>1, RunsAndActs DEF GoesOn, Order
<1>3. SameActs /\ \A a \in Packages : Installed(a)' <=> Installed(a)
  BY <1>1, SameStays DEF Installed
<1>4. ~EmptySpace.txn.open
  BY DEF EmptySpace, Closed
<1>5. \A a \in Packages : ~Installed(a) => space'[a] = space[a]
  BY <1>1, <1>4 DEF Order, Fresh
<1>6. Born' /\ Fresh' /\ OneTurn'
  BY <1>1, <1>2, <1>3, <1>5, BornGoesOn, FreshGoesOn, TurnGoesOn
<1>7. QED
  BY <1>1, <1>6 DEF Order

LEMMA OrderPropose ==
  ASSUME Order, NEW r \in Runs, NEW kind \in {"own", "mail"}, Propose(r, kind)
  PROVE  Order'
<1>0. PICK y \in Nat : y = made + 1
  BY DEF Order, AgentsTypes
<1>1. /\ AgentsTypes' /\ GoesOn(r) /\ run'[r].pc = run[r].pc /\ run'[r].left = run[r].left
      /\ run[r].inv # "apply"
      /\ UNCHANGED <<agent, space, staged, turn, records, hands, cut>>
      /\ made' = y /\ y \in ActIds /\ act'[y].run = r /\ act'[y].agent = run[r].agent /\ act'[y] # NoAct
      /\ \A x \in ActIds \ {y} : act'[x] = act[x]
  <2>1. act'[made + 1] = [status |-> "pending", agent |-> run[r].agent, kind |-> kind, run |-> r, level |-> run[r].taint]
    BY ProposeMoves DEF Order
  <2>2. act'[y].run = r /\ act'[y].agent = run[r].agent
    BY <1>0, <2>1
  <2>3. QED
    BY <1>0, <2>2, ProposeMoves DEF Order
<1>2. \A a \in Packages : Installed(a)' <=> Installed(a)
  BY <1>1 DEF Installed
<1>3. Fresh' /\ OneTurn'
  BY <1>1, <1>2, FreshGoesOn, TurnGoesOn
<1>4. made \in Nat /\ y \notin 1 .. made /\ 1 .. y = 1 .. made \cup {y}
  <2>1. made \in Nat
    BY DEF Order, AgentsTypes
  <2>2. y \notin 1 .. made /\ 1 .. y = 1 .. made \cup {y}
    BY ONLY <1>0, <2>1
  <2>3. QED
    BY <2>1, <2>2
<1>5. \A x \in 1 .. made : x \in ActIds /\ act'[x] = act[x]
  BY <1>1, <1>4, RunsAndActs DEF Order
<1>6. /\ \A s \in 1 .. started : s \in Runs /\ run'[s].agent = run[s].agent /\ run'[s].inv = run[s].inv /\ run'[s].act = run[s].act
      /\ \A s \in Runs : run'[s] # NoRun <=> run[s] # NoRun
      /\ started' = started /\ r \in 1 .. started
  BY <1>1, RunsAndActs DEF GoesOn, Order, RunRow, NoRun
<1>7. Born'
  <2>1. \A s \in Runs : run'[s] # NoRun <=> s <= started'
    BY <1>6 DEF Order, Born
  <2>2. \A x \in ActIds : act'[x] # NoAct <=> x <= y
    <3>1. \A x \in ActIds : x <= y <=> x <= made \/ x = y
      BY <1>0, <1>4 DEF ActIds
    <3>2. QED
      BY <1>1, <3>1 DEF Order, Born
  <2>3. \A x \in 1 .. made : /\ act[x].run \in 1 .. started
                             /\ run[act[x].run].agent = act[x].agent
                             /\ run[act[x].run].inv # "apply"
    BY DEF Order, Born, Applying
  <2>4. \A x \in 1 .. y : /\ act'[x].run \in 1 .. started
                          /\ run'[act'[x].run].agent = act'[x].agent
                          /\ run'[act'[x].run].inv # "apply"
    BY <1>1, <1>4, <1>5, <1>6, <2>3
  <2>5. hands' \subseteq 1 .. y /\ records' \subseteq 1 .. started
    BY <1>1, <1>4 DEF Order, Born
  <2>6. \A s \in 1 .. started : run'[s].inv = "apply" => run'[s].act \in 1 .. y /\ act'[run'[s].act].agent = run'[s].agent
    BY <1>4, <1>5, <1>6 DEF Order, Born, Applying
  <2>7. QED
    BY <1>1, <1>6, <2>1, <2>2, <2>4, <2>5, <2>6 DEF Born, Applying
<1>8. QED
  BY <1>1, <1>3, <1>7 DEF Order

\* A run that ends, settles, is left or reports: who holds the turn.
LEMMA OrderEnd ==
  ASSUME Order, NEW r \in Runs,
         \/ \E well \in BOOLEAN : End(r, well)
         \/ SettleSpace(r) \/ SpaceFails(r) \/ RaiseLevel(r) \/ LevelFails(r)
         \/ Record(r) \/ RecordFails(r) \/ LedgerFails(r)
         \/ ClientLeaves(r) \/ Report(r)
  PROVE  Order'
<1>1. /\ AgentsTypes' /\ GoesOn(r) /\ UNCHANGED <<staged, made, hands>>
      /\ \A a \in Packages : Installed(a)' <=> Installed(a)
      /\ \A a \in Packages : ~Installed(a) => space'[a] = space[a]
      /\ SameActs
  <2>1. ASSUME NEW well \in BOOLEAN, End(r, well) PROVE <1>1!:
    <3>1. /\ AgentsTypes' /\ GoesOn(r)
          /\ UNCHANGED <<agent, space, staged, act, made, hands>>
      BY <2>1, EndMoves DEF Order
    <3>2. SameActs
      BY <3>1, SameStays
    <3>3. QED
      BY <3>1, <3>2 DEF Installed
  <2>2. CASE \/ SettleSpace(r) \/ SpaceFails(r) \/ RaiseLevel(r) \/ LevelFails(r)
             \/ Record(r) \/ RecordFails(r) \/ LedgerFails(r)
    <3>1. Settling(r)
      BY <2>2, SettleSpaceMoves, SettleLevelMoves, SettleRecordMoves DEF Order
    <3>2. /\ AgentsTypes' /\ GoesOn(r) /\ UNCHANGED <<staged, act, made, hands>>
          /\ \A a \in Packages : Installed(a)' <=> Installed(a)
      BY <3>1 DEF Settling
    <3>3. SameActs
      BY <3>2, SameStays
    <3>4. \A a \in Packages : ~Installed(a) => space'[a] = space[a]
      BY <2>2, SettleSpaceMoves, SettleLevelMoves, SettleRecordMoves
         DEF SpaceSettles, LevelSettles, RecordSettles, Order
    <3>5. QED
      BY <3>2, <3>3, <3>4
  <2>3. CASE ClientLeaves(r)
    <3>1. /\ AgentsTypes' /\ GoesOn(r)
          /\ UNCHANGED <<agent, space, staged, act, made, hands>>
      BY <2>3, LeaveMoves DEF Order
    <3>2. SameActs
      BY <3>1, SameStays
    <3>3. QED
      BY <3>1, <3>2 DEF Installed
  <2>4. CASE Report(r)
    <3>1. /\ AgentsTypes' /\ GoesOn(r) /\ SameActs
          /\ UNCHANGED <<agent, space, staged, hands>>
      BY <2>4, ReportMoves DEF Order
    <3>2. QED
      BY <3>1 DEF Installed, SameActs
  <2>5. QED
    BY <2>1, <2>2, <2>3, <2>4
<1>2. \/ /\ run[r].pc = "running" /\ run'[r].pc = (IF run[r].left THEN "done" ELSE "over")
         /\ run'[r].left = run[r].left /\ UNCHANGED <<turn, records, cut>>
      \/ /\ run[r].pc \in {"over", "settled"} /\ run'[r].pc \in {"settled", "raised"}
         /\ run'[r].left = run[r].left /\ UNCHANGED <<turn, records, cut>>
      \/ /\ run[r].pc \in {"settled", "raised"} /\ run'[r].pc = "done" /\ run'[r].left = run[r].left
         /\ turn' = 0 /\ records' \in {records, records \cup {r}} /\ cut' = cut
      \/ /\ run[r].pc \in {"running", "over"} /\ turn = r /\ turn' = 0 /\ run'[r].left = TRUE
         /\ run'[r].pc = (IF run[r].pc = "running" THEN "running" ELSE "done")
         /\ cut' = cut \cup {run[r].agent} /\ records' = records
      \/ /\ run[r].pc = "done" /\ run'[r].pc = "reported" /\ run'[r].left = run[r].left
         /\ UNCHANGED <<turn, records, cut>>
  <2>1. ASSUME NEW well \in BOOLEAN, End(r, well) PROVE <1>2!:
    BY <2>1, EndMoves DEF Order
  <2>2. CASE \/ SettleSpace(r) \/ SpaceFails(r) \/ RaiseLevel(r) \/ LevelFails(r)
             \/ Record(r) \/ RecordFails(r) \/ LedgerFails(r)
    <3>1. Settling(r) /\ (SpaceSettles(r) \/ LevelSettles(r) \/ RecordSettles(r))
      BY <2>2, SettleSpaceMoves, SettleLevelMoves, SettleRecordMoves DEF Order
    <3>2. run'[r].left = run[r].left /\ cut' = cut
      BY <3>1 DEF Settling
    <3>3. QED
      BY <3>1, <3>2 DEF SpaceSettles, LevelSettles, RecordSettles
  <2>3. CASE ClientLeaves(r)
    BY <2>3, LeaveMoves DEF Order
  <2>4. CASE Report(r)
    BY <2>4, ReportMoves DEF Order
  <2>5. QED
    BY <2>1, <2>2, <2>3, <2>4
<1>3. Born' /\ Fresh'
  <2>1. hands' \subseteq hands /\ records' \subseteq records \cup {r} /\ staged' \subseteq staged
    BY <1>1, <1>2
  <2>2. QED
    BY <1>1, <2>1, BornGoesOn, FreshGoesOn
<1>4. OneTurn'
  <2>1. /\ r \in 1 .. started /\ started' = started /\ run[r].left \in BOOLEAN /\ run'[r].agent = run[r].agent
        /\ \A s \in 1 .. started \ {r} : s \in Runs /\ run'[s] = run[s]
    BY <1>1, RunsAndActs DEF GoesOn, RunRow, Order
  <2>2. /\ turn # 0 => turn \in 1 .. started /\ UnderWay(turn) /\ ~run[turn].left
        /\ \A s \in 1 .. started :
             /\ UnderWay(s) /\ ~run[s].left => turn = s /\ s \notin records
             /\ run[s].left => run[s].agent \in cut
             /\ run[s].pc \in {"over", "settled", "raised"} => ~run[s].left
    BY DEF Order, OneTurn
  <2>3. \A s \in 1 .. started \ {r} :
             /\ UnderWay(s)' /\ ~run'[s].left => turn = s /\ s \notin records
             /\ run'[s].left => run'[s].agent \in cut
             /\ run'[s].pc \in {"over", "settled", "raised"} => ~run'[s].left
    BY <2>1, <2>2 DEF UnderWay
  <2>4. CASE /\ run[r].pc = "running" /\ run'[r].pc = (IF run[r].left THEN "done" ELSE "over")
             /\ run'[r].left = run[r].left /\ UNCHANGED <<turn, records, cut>>
    <3>1. turn # 0 => turn \in 1 .. started /\ run'[turn].pc \in {"running", "over", "settled", "raised"} /\ ~run'[turn].left
      BY <2>1, <2>2, <2>4 DEF UnderWay
    <3>2. /\ run'[r].pc \in {"running", "over", "settled", "raised"} /\ ~run'[r].left => turn = r /\ r \notin records
          /\ run'[r].left => run'[r].agent \in cut
          /\ run'[r].pc \in {"over", "settled", "raised"} => ~run'[r].left
      BY <2>1, <2>2, <2>4 DEF UnderWay
    <3>3. QED
      BY <2>1, <2>3, <2>4, <3>1, <3>2 DEF OneTurn, UnderWay
  <2>5. CASE /\ run[r].pc \in {"settled", "raised"} /\ run'[r].pc = "done" /\ run'[r].left = run[r].left
             /\ turn' = 0 /\ records' \in {records, records \cup {r}} /\ cut' = cut
    <3>1. turn = r /\ ~run[r].left
      BY <2>1, <2>2, <2>5 DEF UnderWay
    <3>2. \A s \in 1 .. started \ {r} : ~(UnderWay(s)' /\ ~run'[s].left)
      BY <2>3, <3>1
    <3>3. QED
      BY <2>1, <2>3, <2>5, <3>1, <3>2 DEF OneTurn, UnderWay
  <2>6. CASE /\ run[r].pc \in {"running", "over"} /\ turn = r /\ turn' = 0 /\ run'[r].left = TRUE
             /\ run'[r].pc = (IF run[r].pc = "running" THEN "running" ELSE "done")
             /\ cut' = cut \cup {run[r].agent} /\ records' = records
    <3>1. \A s \in 1 .. started \ {r} : ~(UnderWay(s)' /\ ~run'[s].left)
      BY <2>3, <2>6
    <3>2. QED
      BY <2>1, <2>3, <2>6, <3>1 DEF OneTurn, UnderWay
  <2>7. CASE /\ run[r].pc = "done" /\ run'[r].pc = "reported" /\ run'[r].left = run[r].left
             /\ UNCHANGED <<turn, records, cut>>
    <3>1. turn # r
      BY <2>1, <2>2, <2>7 DEF UnderWay
    <3>2. turn # 0 => turn \in 1 .. started /\ run'[turn].pc \in {"running", "over", "settled", "raised"} /\ ~run'[turn].left
      BY <2>1, <2>2, <3>1 DEF UnderWay
    <3>3. QED
      BY <2>1, <2>2, <2>3, <2>7, <3>2 DEF OneTurn, UnderWay
  <2>8. CASE /\ run[r].pc \in {"over", "settled"} /\ run'[r].pc \in {"settled", "raised"}
             /\ run'[r].left = run[r].left /\ UNCHANGED <<turn, records, cut>>
    <3>1. turn # 0 => turn \in 1 .. started /\ run'[turn].pc \in {"running", "over", "settled", "raised"} /\ ~run'[turn].left
      BY <2>1, <2>2, <2>8 DEF UnderWay
    <3>2. /\ run'[r].pc \in {"running", "over", "settled", "raised"} /\ ~run'[r].left => turn = r /\ r \notin records
          /\ run'[r].left => run'[r].agent \in cut
          /\ run'[r].pc \in {"over", "settled", "raised"} => ~run'[r].left
      BY <2>1, <2>2, <2>8 DEF UnderWay
    <3>3. QED
      BY <2>1, <2>3, <2>8, <3>1, <3>2 DEF OneTurn, UnderWay
  <2>9. QED
    BY <1>2, <2>4, <2>5, <2>6, <2>7, <2>8
<1>5. QED
  BY <1>1, <1>3, <1>4 DEF Order

LEMMA OrderRestart ==
  ASSUME Order, AgentsRestart
  PROVE  Order'
<1>1. /\ AgentsTypes' /\ staged' = {} /\ turn' = 0 /\ hands' = {} /\ cut \subseteq cut'
      /\ \A a \in Packages : space'[a] = RolledBack(space[a])
      /\ \A r \in Runs : run'[r] # NoRun <=> run[r] # NoRun
      /\ \A r \in 1 .. started :
              /\ run'[r].pc \in {"reported", "lost"} /\ run'[r].left = run[r].left
              /\ run'[r].agent = run[r].agent /\ run'[r].inv = run[r].inv /\ run'[r].act = run[r].act
      /\ UNCHANGED <<agent, started, records, act, made>>
  BY RestartMoves DEF Order
<1>2. Born'
  BY <1>1 DEF Order, Born, Applying
<1>3. Fresh'
  <2>1. RolledBack(EmptySpace) = EmptySpace
    BY DEF RolledBack, EmptySpace
  <2>2. QED
    BY <1>1, <2>1 DEF Order, Fresh, Installed
<1>4. OneTurn'
  BY <1>1 DEF Order, OneTurn, UnderWay
<1>5. QED
  BY <1>1, <1>2, <1>3, <1>4 DEF Order

LEMMA OrderStays ==
  ASSUME Order, Kinds
  PROVE  Order'
BY OrderCalm, OrderInstall, OrderRemove, OrderStart, OrderRead, OrderExecute, OrderTransaction, OrderPropose,
   OrderEnd, OrderRestart DEF Kinds

-----------------------------------------------------------------------------
(* New items.                                                               *)

\* An item was handed to an agent as often as hand-overs left its cursor behind,
\* and once more if it lies behind the cursor; of what a hand-over holds the
\* same is true before it.  All that was handed out is stored.
Few(a, i) == handed[a][i] <= behind[a]

Handing ==
  /\ wake.items \subseteq items
  /\ \A a \in Packages, i \in Items :
       /\ handed[a][i] # 0 => i \in items
       /\ handed[a][i] <= 1 + behind[a]
       /\ Installed(a) /\ i > agent[a].cursor => Few(a, i)
  /\ wake # NoWake => \A i \in Items :
       /\ i \in wake.items => Few(wake.agent, i)
       /\ wake.pc \in {"found", "placed"} /\ wake.next # 0 =>
            (i \in wake.items => i <= wake.next) /\ (i > wake.next => Few(wake.agent, i))
       /\ wake.pc = "placed" /\ wake.next = 0 /\ i \in wake.items =>
            handed[wake.agent][i] + 1 <= behind[wake.agent]
       /\ wake.pc = "waiting" /\ i \in wake.items /\ Installed(wake.agent) /\ i > agent[wake.agent].cursor =>
            handed[wake.agent][i] + 1 <= behind[wake.agent]

LEMMA HandingNumbers ==
  ASSUME AgentsTypes
  PROVE  /\ \A a \in Packages, i \in Items : handed[a][i] \in Nat
         /\ \A a \in Packages : behind[a] \in Nat /\ (Installed(a) => agent[a].cursor \in Nat)
         /\ \A i \in Items : i \in Nat \ {0}
         /\ wake # NoWake => /\ wake \in WakeRow /\ wake.agent \in Packages /\ wake.next \in Nat
                             /\ wake.items \subseteq Items /\ wake.pc \in {"found", "placed", "waiting"}
         /\ NoWake.items = {} /\ NoWake.pc = "idle"
<1>1. \A a \in Packages, i \in Items : handed[a][i] \in Nat
  BY DEF AgentsTypes
<1>2. \A a \in Packages : behind[a] \in Nat /\ (Installed(a) => agent[a].cursor \in Nat)
  BY DEF AgentsTypes, AgentRow, Installed
<1>3. \A i \in Items : i \in Nat \ {0}
  BY AgentsAssumption DEF Items
<1>4. wake # NoWake => /\ wake \in WakeRow /\ wake.agent \in Packages /\ wake.next \in Nat
                       /\ wake.items \subseteq Items /\ wake.pc \in {"found", "placed", "waiting"}
  BY DEF AgentsTypes, WakeRow
<1>5. NoWake.items = {} /\ NoWake.pc = "idle"
  BY DEF NoWake
<1>6. QED
  BY <1>1, <1>2, <1>3, <1>4, <1>5

\* Where the loop does not move.
LEMMA HandingKept ==
  ASSUME Order, Handing, UNCHANGED <<items, handed, behind>>, wake' \in {wake, NoWake},
         \A a \in Packages : Installed(a)' => Installed(a) /\ agent'[a].cursor = agent[a].cursor
  PROVE  Handing'
<1>1. NoWake.items = {} /\ (wake # NoWake => wake.agent \in Packages)
  BY HandingNumbers DEF Order
<1>2. CASE wake' = wake
  BY <1>1, <1>2 DEF Handing, Few
<1>3. CASE wake' = NoWake
  BY <1>1, <1>3 DEF Handing, Few
<1>4. QED
  BY <1>2, <1>3

\* All there is lies behind a new agent's cursor.
LEMMA HandingInstall ==
  ASSUME Order, Handing, NEW a \in Packages, Install(a)
  PROVE  Handing'
<1>1. /\ UNCHANGED <<wake, handed, behind, items>> /\ Installed(a)' /\ agent'[a].cursor = Newest
      /\ \A b \in Packages \ {a} : agent'[b] = agent[b]
  BY InstallMoves DEF Order
<1>2. items \subseteq Items /\ Newest \in Nat /\ \A i \in items : i <= Newest
  BY NewestItem DEF Order, AgentsTypes
<1>3. /\ \A b \in Packages, i \in Items : handed[b][i] \in Nat
      /\ \A b \in Packages : behind[b] \in Nat
      /\ \A i \in Items : i \in Nat
      /\ wake # NoWake => wake.agent \in Packages
  BY HandingNumbers DEF Order
<1>4. \A i \in Items : i > agent'[a].cursor => i \notin items
  BY <1>1, <1>2, <1>3
<1>5. \A i \in Items : i > agent'[a].cursor => Few(a, i)
  BY <1>3, <1>4 DEF Handing, Few
<1>6. \A b \in Packages, i \in Items : Installed(b)' /\ i > agent'[b].cursor => Few(b, i)
  BY <1>1, <1>5 DEF Handing, Installed
<1>7. \A i \in wake.items : ~(i > agent'[a].cursor)
  BY <1>2, <1>4 DEF Handing
<1>8. wake # NoWake => \A i \in Items :
        wake.pc = "waiting" /\ i \in wake.items /\ Installed(wake.agent)' /\ i > agent'[wake.agent].cursor =>
            handed[wake.agent][i] + 1 <= behind[wake.agent]
  BY <1>1, <1>3, <1>7 DEF Handing, Installed
<1>9. QED
  BY <1>1, <1>6, <1>8 DEF Handing, Few

LEMMA HandingPasses ==
  ASSUME Order, Handing, AgentsTypes', Passes,
         \A a \in Packages : (Installed(a)' <=> Installed(a)) /\ (Installed(a) => agent'[a].cursor = agent[a].cursor)
  PROVE  Handing'
<1> USE DEF itemVars
<1>1. /\ \A a \in Packages, i \in Items : handed[a][i] \in Nat
      /\ \A a \in Packages : behind[a] \in Nat /\ (Installed(a) => agent[a].cursor \in Nat)
      /\ \A i \in Items : i \in Nat \ {0}
      /\ wake # NoWake => /\ wake \in WakeRow /\ wake.agent \in Packages /\ wake.next \in Nat
                          /\ wake.items \subseteq Items /\ wake.pc \in {"found", "placed", "waiting"}
      /\ NoWake.items = {} /\ NoWake.pc = "idle"
  BY HandingNumbers DEF Order
<1>2. CASE Arrive
  BY <1>1, <1>2 DEF Arrive, Handing, Few
<1>3. CASE WakeIsLate
  <2>1. UNCHANGED <<items, handed, behind>> /\ wake' = NoWake
    BY <1>3 DEF WakeIsLate
  <2>2. QED
    BY <1>1, <2>1, HandingKept
<1>4. CASE WakeFinds
  <2>1. wake.pc = "found" /\ wake # NoWake /\ UNCHANGED <<items, handed>>
    BY <1>1, <1>4 DEF WakeFinds
  <2>2. PICK a \in Packages : a = wake.agent /\ wake \in WakeRow
    BY <1>1, <2>1
  <2>3. /\ wake'.pc = "placed" /\ wake'.agent = a /\ wake'.items = wake.items /\ wake'.next = wake.next
        /\ wake' # NoWake
    <3>1. wake' = [wake EXCEPT !.pc = "placed"]
      BY <1>4 DEF WakeFinds
    <3>2. QED
      BY <2>2, <3>1 DEF WakeRow, NoWake
  <2>4. /\ \A b \in Packages \ {a} : behind'[b] = behind[b]
        /\ behind'[a] = IF wake.next = 0 THEN behind[a] + 1 ELSE behind[a]
    BY <1>4, <2>2 DEF WakeFinds, Order, AgentsTypes
  <2>5. \A b \in Packages : behind[b] <= behind'[b] /\ behind'[b] \in Nat
    BY <1>1, <2>2, <2>4
  <2>6. \A b \in Packages, i \in Items : handed[b][i] <= 1 + behind[b] => handed[b][i] <= 1 + behind'[b]
    BY <1>1, <2>5
  <2>7. \A b \in Packages, i \in Items : Few(b, i) => Few(b, i)'
    BY <1>1, <2>1, <2>5 DEF Few
  <2>8. \A b \in Packages, i \in Items :
          /\ handed[b][i] # 0 => i \in items
          /\ handed[b][i] <= 1 + behind'[b]
          /\ Installed(b)' /\ i > agent'[b].cursor => Few(b, i)'
    BY <2>6, <2>7 DEF Handing
  <2>9. \A i \in Items :
          /\ i \in wake.items => Few(a, i)
          /\ wake.next # 0 => (i \in wake.items => i <= wake.next) /\ (i > wake.next => Few(a, i))
    BY <2>1, <2>2 DEF Handing
  <2>10. \A i \in Items : wake.next = 0 /\ i \in wake.items => handed[a][i] + 1 <= behind'[a]
    BY <1>1, <2>2, <2>4, <2>9 DEF Few
  <2>11. \A i \in Items :
          /\ i \in wake.items => Few(a, i)'
          /\ wake.next # 0 => (i \in wake.items => i <= wake.next) /\ (i > wake.next => Few(a, i)')
    BY <2>2, <2>7, <2>9
  <2>15. \A i \in Items : Few(a, i)' <=> handed'[a][i] <= behind'[a]
    BY DEF Few
  <2>12. \A i \in Items :
       /\ i \in wake'.items => handed'[wake'.agent][i] <= behind'[wake'.agent]
       /\ wake'.pc \in {"found", "placed"} /\ wake'.next # 0 =>
            (i \in wake'.items => i <= wake'.next) /\ (i > wake'.next => handed'[wake'.agent][i] <= behind'[wake'.agent])
       /\ wake'.pc = "placed" /\ wake'.next = 0 /\ i \in wake'.items =>
            handed[wake'.agent][i] + 1 <= behind'[wake'.agent]
       /\ wake'.pc # "waiting"
    BY <2>1, <2>3, <2>10, <2>11, <2>15
  <2>13. wake'.items \subseteq items
    BY <2>3 DEF Handing
  <2>14. QED
    BY <2>1, <2>8, <2>12, <2>13 DEF Handing, Few
<1>5. ASSUME NEW q \in Items, Purge(q) PROVE Handing'
  <2>1. /\ items' = items \ {q} /\ behind' = behind
        /\ handed' = [a \in Packages |-> [handed[a] EXCEPT ![q] = 0]]
        /\ \/ wake' = [wake EXCEPT !.items = @ \ {q}, !.next = 0] /\ wake.pc = "found"
           \/ wake' = [wake EXCEPT !.items = @ \ {q}]
    BY <1>5 DEF Purge
  <2>2. \A a \in Packages, i \in Items : handed'[a][i] = IF i = q THEN 0 ELSE handed[a][i]
    BY <2>1 DEF Order, AgentsTypes
  <2>3. \A a \in Packages, i \in Items : handed'[a][i] <= handed[a][i] /\ handed'[a][i] \in Nat
    BY <1>1, <2>2
  <2>4. \A a \in Packages, i \in Items : Few(a, i) => Few(a, i)'
    BY <1>1, <2>1, <2>3 DEF Few
  <2>5. \A a \in Packages, i \in Items :
          /\ handed'[a][i] # 0 => i \in items'
          /\ handed'[a][i] <= 1 + behind[a]
          /\ Installed(a)' /\ i > agent'[a].cursor => Few(a, i)'
    <3>1. \A a \in Packages, i \in Items : handed'[a][i] # 0 => i \in items'
      BY <2>1, <2>2 DEF Handing
    <3>2. \A a \in Packages, i \in Items : handed[a][i] <= 1 + behind[a]
      BY DEF Handing
    <3>3. \A a \in Packages, i \in Items : handed'[a][i] <= 1 + behind[a]
      BY <1>1, <2>3, <3>2
    <3>4. \A a \in Packages, i \in Items : Installed(a)' /\ i > agent'[a].cursor => Few(a, i)'
      BY <2>4 DEF Handing
    <3>5. QED
      BY <3>1, <3>3, <3>4
  <2>6. CASE wake = NoWake
    <3>1. wake' = NoWake
      BY <2>1, <2>6 DEF NoWake
    <3>2. QED
      BY <1>1, <2>1, <2>5, <3>1 DEF Handing
  <2>7. CASE wake # NoWake
    <3>1. PICK a \in Packages : a = wake.agent /\ wake \in WakeRow
      BY <1>1, <2>7
    <3>2. /\ wake'.pc = wake.pc /\ wake'.agent = a /\ wake'.items = wake.items \ {q}
          /\ wake'.next = wake.next \/ (wake'.next = 0 /\ wake.pc = "found")
      BY <2>1, <3>1 DEF WakeRow
    <3>3. \A i \in Items :
       /\ i \in wake.items => Few(a, i)
       /\ wake.pc \in {"found", "placed"} /\ wake.next # 0 =>
            (i \in wake.items => i <= wake.next) /\ (i > wake.next => Few(a, i))
       /\ wake.pc = "placed" /\ wake.next = 0 /\ i \in wake.items =>
            handed[a][i] + 1 <= behind[a]
       /\ wake.pc = "waiting" /\ i \in wake.items /\ Installed(a) /\ i > agent[a].cursor =>
            handed[a][i] + 1 <= behind[a]
      BY <2>7, <3>1 DEF Handing
    <3>4. \A i \in Items : handed[a][i] + 1 <= behind[a] => handed'[a][i] + 1 <= behind[a]
      BY <1>1, <2>3, <3>1
    <3>5. /\ Installed(a)' <=> Installed(a)
          /\ Installed(a) => agent'[a].cursor = agent[a].cursor
      BY <3>1
    <3>6. \A i \in Items : Few(a, i) => Few(a, i)'
      BY <2>4, <3>1
    <3>7. \A i \in Items :
       /\ i \in wake'.items => Few(a, i)'
       /\ wake'.pc \in {"found", "placed"} /\ wake'.next # 0 =>
            (i \in wake'.items => i <= wake'.next) /\ (i > wake'.next => Few(a, i)')
       /\ wake'.pc = "placed" /\ wake'.next = 0 /\ i \in wake'.items =>
            handed'[a][i] + 1 <= behind[a]
       /\ wake'.pc = "waiting" /\ i \in wake'.items /\ Installed(a)' /\ i > agent'[a].cursor =>
            handed'[a][i] + 1 <= behind[a]
      BY <3>2, <3>3, <3>4, <3>5, <3>6
    <3>8. wake'.items \subseteq items'
      BY <2>1, <3>2 DEF Handing
    <3>9. QED
      BY <2>1, <2>5, <3>2, <3>7, <3>8 DEF Handing
  <2>8. QED
    BY <2>6, <2>7
<1>6. ASSUME NEW a \in Packages, WakeQueries(a) PROVE Handing'
  <2> DEFINE N == NewItems(a)
  <2>1. /\ Installed(a) /\ N # {} /\ wake' = [pc |-> "found", agent |-> a, items |-> N, next |-> Max(N)]
        /\ UNCHANGED <<items, handed, behind>>
    BY <1>6 DEF WakeQueries
  <2>2. N \subseteq items /\ N \in SUBSET Items /\ \A i \in N : i > agent[a].cursor
    BY DEF NewItems, Order, AgentsTypes
  <2>3. Max(N) \in N /\ \A i \in N : i <= Max(N)
    BY <2>1, <2>2, Greatest, AgentsAssumption
  <2>4. wake'.pc = "found" /\ wake'.agent = a /\ wake'.items = N /\ wake'.next = Max(N)
    BY <2>1
  <2> HIDE DEF N
  <2>5. \A i \in Items : i > Max(N) => i > agent[a].cursor
    BY <1>1, <2>1, <2>2, <2>3
  <2>6. \A i \in Items :
       /\ i \in N => Few(a, i)
       /\ (i \in N => i <= Max(N)) /\ (i > Max(N) => Few(a, i))
    BY <2>1, <2>2, <2>3, <2>5 DEF Handing
  <2>7. \A i \in Items : Few(a, i)' <=> Few(a, i)
    BY <2>1 DEF Few
  <2>8. \A i \in Items :
       /\ i \in wake'.items => handed'[wake'.agent][i] <= behind'[wake'.agent]
       /\ (i \in wake'.items => i <= wake'.next) /\ (i > wake'.next => handed'[wake'.agent][i] <= behind'[wake'.agent])
       /\ wake'.pc = "found"
    BY <2>1, <2>4, <2>6 DEF Few
  <2>9. \A b \in Packages, i \in Items :
       /\ handed[b][i] # 0 => i \in items
       /\ handed[b][i] <= 1 + behind[b]
       /\ Installed(b)' /\ i > agent'[b].cursor => Few(b, i)'
    BY <2>1 DEF Handing, Few
  <2>10. wake'.items \subseteq items
    BY <2>2, <2>4
  <2>11. QED
    BY <2>1, <2>8, <2>9, <2>10 DEF Handing, Few
<1>7. QED
  BY <1>2, <1>3, <1>4, <1>5, <1>6 DEF Passes

LEMMA HandingMoves ==
  ASSUME Order, Handing, WakeMoves
  PROVE  Handing'
<1> USE DEF itemVars
<1>1. /\ \A b \in Packages, i \in Items : handed[b][i] \in Nat
      /\ \A b \in Packages : behind[b] \in Nat /\ (Installed(b) => agent[b].cursor \in Nat)
      /\ \A i \in Items : i \in Nat \ {0}
      /\ wake # NoWake => /\ wake \in WakeRow /\ wake.agent \in Packages /\ wake.next \in Nat
                          /\ wake.items \subseteq Items /\ wake.pc \in {"found", "placed", "waiting"}
      /\ NoWake.items = {} /\ NoWake.pc = "idle"
  BY HandingNumbers DEF Order
<1>2. PICK a \in Packages : a = wake.agent /\ wake # NoWake /\ wake.pc = "placed" /\ UNCHANGED <<items, handed, behind>>
  BY <1>1 DEF WakeMoves
<1>3. wake'.pc = "waiting" /\ wake'.agent = a /\ wake'.items = wake.items
  <2>1. wake' = [wake EXCEPT !.pc = "waiting"]
    BY DEF WakeMoves
  <2>2. QED
    BY <1>1, <1>2, <2>1 DEF WakeRow
<1>4. /\ \A b \in Packages \ {a} : agent'[b] = agent[b]
      /\ Installed(a)' <=> Installed(a)
      /\ Installed(a) => agent'[a].cursor = IF wake.next = 0 THEN agent[a].cursor ELSE wake.next
  <2>1. CASE Installed(a)
    <3> DEFINE c == CursorAfter(a)
               row == [agent[a] EXCEPT !.cursor = c]
    <3>1. agent[a] \in AgentRow
      BY <1>2, <2>1 DEF Order, AgentsTypes, Installed
    <3>2. c \in Nat /\ c = IF wake.next = 0 THEN agent[a].cursor ELSE wake.next
      BY <1>1, <1>2, <3>1 DEF CursorAfter, AgentRow
    <3> HIDE DEF c
    <3>3. row \in AgentRow /\ row.cursor = c /\ row # NoAgent
      BY <3>1, <3>2 DEF AgentRow, NoAgent
    <3>4. agent' = [agent EXCEPT ![a] = row]
      BY <1>2, <2>1 DEF WakeMoves, c
    <3> HIDE DEF row
    <3>5. QED
      BY <1>2, <2>1, <3>2, <3>3, <3>4, AgentMoves DEF Installed, Order
  <2>2. CASE ~Installed(a)
    BY <1>2, <2>2 DEF WakeMoves, Installed
  <2>3. QED
    BY <2>1, <2>2
<1>5. \A i \in Items :
       /\ i \in wake.items => Few(a, i)
       /\ wake.next # 0 => (i \in wake.items => i <= wake.next) /\ (i > wake.next => Few(a, i))
       /\ wake.next = 0 /\ i \in wake.items => handed[a][i] + 1 <= behind[a]
  BY <1>2 DEF Handing
<1>6. \A i \in Items : Installed(a)' /\ i > agent'[a].cursor => Few(a, i)
  BY <1>1, <1>2, <1>4, <1>5 DEF Handing
<1>7. \A b \in Packages, i \in Items : Installed(b)' /\ i > agent'[b].cursor => Few(b, i)
  BY <1>4, <1>6 DEF Handing, Installed
<1>8. \A i \in Items : i \in wake.items /\ Installed(a)' /\ i > agent'[a].cursor => handed[a][i] + 1 <= behind[a]
  <2>1. CASE wake.next = 0
    BY <1>5, <2>1
  <2>2. CASE wake.next # 0
    <3>1. wake.next \in Nat
      BY <1>1, <1>2
    <3>2. QED
      BY <1>1, <1>4, <1>5, <2>2, <3>1
  <2>3. QED
    BY <2>1, <2>2
<1>9. wake'.items \subseteq items
  BY <1>3 DEF Handing
<1>10. \A b \in Packages, i \in Items : Few(b, i)' <=> Few(b, i)
  BY <1>2 DEF Few
<1>11. \A i \in Items :
       /\ i \in wake'.items => handed'[wake'.agent][i] <= behind'[wake'.agent]
       /\ wake'.pc = "waiting" /\ i \in wake'.items /\ agent'[wake'.agent] # NoAgent /\ i > agent'[wake'.agent].cursor =>
            handed[wake'.agent][i] + 1 <= behind[wake'.agent]
  BY <1>2, <1>3, <1>5, <1>8 DEF Installed, Few
<1>12. QED
  BY <1>2, <1>3, <1>7, <1>9, <1>10, <1>11 DEF Handing, Installed, Few

LEMMA HandingStart ==
  ASSUME Order, Handing, NEW a \in Packages, NEW inv \in {"items", "message", "apply"}, NEW x \in Nat, Starts(a, inv, x)
  PROVE  Handing'
<1>1. UNCHANGED <<agent, items, behind>> /\ HandsOver
  BY DEF Starts
<1>2. CASE wake' = wake /\ handed' = handed
  BY <1>1, <1>2 DEF Handing, Few, Installed
<1>3. CASE /\ wake' = NoWake /\ wake.agent \in Packages /\ wake.pc = "waiting"
           /\ \A b \in Packages, i \in Items :
                handed'[b][i] = IF b = wake.agent /\ i \in wake.items THEN handed[b][i] + 1 ELSE handed[b][i]
  <2>1. /\ \A b \in Packages, i \in Items : handed[b][i] \in Nat
        /\ \A b \in Packages : behind[b] \in Nat
        /\ NoWake.items = {} /\ wake # NoWake
    BY <1>3, HandingNumbers DEF Order
  <2>2. \A i \in Items :
          /\ i \in wake.items => Few(wake.agent, i)
          /\ i \in wake.items /\ Installed(wake.agent) /\ i > agent[wake.agent].cursor =>
               handed[wake.agent][i] + 1 <= behind[wake.agent]
    BY <1>3, <2>1 DEF Handing
  <2>3. ASSUME NEW b \in Packages, NEW i \in Items
        PROVE  /\ handed'[b][i] # 0 => i \in items
               /\ handed'[b][i] <= 1 + behind[b]
               /\ Installed(b) /\ i > agent[b].cursor => handed'[b][i] <= behind[b]
    <3>1. CASE b = wake.agent /\ i \in wake.items
      BY <1>3, <2>1, <2>2, <3>1 DEF Handing, Few
    <3>2. CASE ~(b = wake.agent /\ i \in wake.items)
      BY <1>3, <3>2 DEF Handing, Few
    <3>3. QED
      BY <3>1, <3>2
  <2>4. QED
    BY <1>1, <1>3, <2>1, <2>3 DEF Handing, Few, Installed
<1>4. QED
  BY <1>1, <1>2, <1>3 DEF HandsOver

LEMMA HandingStays ==
  ASSUME Order, Handing, Kinds
  PROVE  Handing'
<1> USE DEF itemVars
<1>1. CASE Calm
  <2>1. CASE WakeMoves
    BY <2>1, HandingMoves
  <2>2. CASE SameCursors /\ (UNCHANGED itemVars \/ Passes)
    <3>1. \A a \in Packages : (Installed(a)' <=> Installed(a)) /\ (Installed(a) => agent'[a].cursor = agent[a].cursor)
      BY <1>1, <2>2 DEF Calm, SameAgent, SameCursors
    <3>2. CASE UNCHANGED itemVars
      BY <3>1, <3>2, HandingKept
    <3>3. CASE Passes
      BY <1>1, <3>1, <3>3, HandingPasses DEF Calm
    <3>4. QED
      BY <2>2, <3>2, <3>3
  <2>3. QED
    BY <1>1, <2>1, <2>2 DEF Calm
<1>2. ASSUME NEW a \in Packages, Remove(a) PROVE Handing'
  <2>1. \A b \in Packages : Installed(b)' => Installed(b) /\ agent'[b].cursor = agent[b].cursor
    BY <1>2, RemoveMoves DEF Order, Installed
  <2>2. UNCHANGED <<items, handed, behind>> /\ wake' \in {wake, NoWake}
    BY <1>2, RemoveMoves DEF Order
  <2>3. QED
    BY <2>1, <2>2, HandingKept
<1>3. ASSUME NEW r \in Runs, Settling(r) PROVE Handing'
  <2>1. \A b \in Packages : Installed(b)' => Installed(b) /\ agent'[b].cursor = agent[b].cursor
    BY <1>3 DEF Settling, SameCursors
  <2>2. UNCHANGED <<items, handed, behind>> /\ wake' \in {wake, NoWake}
    BY <1>3 DEF Settling
  <2>3. QED
    BY <2>1, <2>2, HandingKept
<1>4. CASE \/ \E r \in Runs, i \in Items : Read(r, i)
           \/ \E r \in Runs : Execute(r)
           \/ \E r \in Runs : ExecuteBegin(r) \/ ExecuteCommit(r)
           \/ \E r \in Runs, kind \in {"own", "mail"} : Propose(r, kind)
           \/ \E r \in Runs, well \in BOOLEAN : End(r, well)
           \/ \E r \in Runs : ClientLeaves(r)
           \/ \E r \in Runs : Report(r)
           \/ AgentsRestart
  <2>1. UNCHANGED <<items, handed, behind>> /\ wake' \in {wake, NoWake} /\ agent' = agent
    BY <1>4, ReadMoves, ExecuteMoves, TransactionMoves, ProposeMoves, EndMoves, LeaveMoves, ReportMoves, RestartMoves DEF Order
  <2>2. \A b \in Packages : Installed(b)' => Installed(b) /\ agent'[b].cursor = agent[b].cursor
    BY <2>1 DEF Installed
  <2>3. QED
    BY <2>1, <2>2, HandingKept
<1>5. ASSUME NEW r \in Runs,
             \/ SettleSpace(r) \/ SpaceFails(r) \/ RaiseLevel(r) \/ LevelFails(r)
             \/ Record(r) \/ RecordFails(r) \/ LedgerFails(r)
      PROVE  Settling(r)
  BY <1>5, SettleSpaceMoves, SettleLevelMoves, SettleRecordMoves DEF Order
<1>6. QED
  BY <1>1, <1>2, <1>3, <1>4, <1>5, HandingInstall, HandingStart DEF Kinds

-----------------------------------------------------------------------------
(* The day's limits.                                                        *)

Made(r) == {x \in 1 .. made : act[x].run = r}
Unseen(r) == run[r].missed \cap {"level", "record"} # {}
Seen(r) == r \in records \/ UnderWay(r) \/ Unseen(r)

\* The day's limits are counted right: a run knows its own proposals, and those
\* of every other run of an agent are on record, those aside of which nothing is.
Capped ==
  /\ \A r \in 1 .. started : run[r].proposed = Cardinality(Made(r))
  /\ \A x \in 1 .. made : act[x].agent \notin cut /\ Installed(act[x].agent) => Seen(act[x].run)
  /\ CapHolds

\* Subsets of the proposals are finite, and proposals are counted one by one.
LEMMA ActSets ==
  ASSUME NEW S, S \subseteq ActIds
  PROVE  IsFiniteSet(S) /\ Cardinality(S) \in Nat
<1>1. IsFiniteSet(ActIds)
  BY AgentsAssumption, FS_Interval DEF ActIds
<1>2. QED
  BY <1>1, FS_Subset, FS_CardinalityType

LEMMA MadeAreActs ==
  ASSUME Order
  PROVE  /\ 1 .. made \subseteq ActIds
         /\ \A x \in ActIds : act[x] # NoAct <=> x \in 1 .. made
         /\ \A x \in 1 .. made : /\ act[x].run \in 1 .. started /\ act[x].agent \in Packages
                                 /\ act[x].agent = run[act[x].run].agent
         /\ \A rs : Proposals(rs) = {x \in 1 .. made : act[x].run \in rs}
<1>1. 1 .. made \subseteq ActIds
  BY RunsAndActs DEF Order
<1>2. \A x \in ActIds : act[x] # NoAct <=> x \in 1 .. made
  BY DEF Order, Born, AgentsTypes, ActIds
<1>3. \A x \in 1 .. made : /\ act[x].run \in 1 .. started /\ act[x].agent \in Packages
                           /\ act[x].agent = run[act[x].run].agent
  <2>1. \A x \in 1 .. made : act[x].agent \in Packages
    BY RunsAndActs DEF Order, ActRow
  <2>2. QED
    BY <2>1 DEF Order, Born
<1>4. QED
  BY <1>1, <1>2, <1>3 DEF Proposals

LEMMA ProposedAre ==
  ASSUME Order, NEW as
  PROVE  /\ Proposed(as) = {x \in 1 .. made : act[x].agent \in as /\ ~Unseen(act[x].run)}
         /\ Proposed(as) \subseteq ActIds
BY MadeAreActs DEF Proposed, Unseen

\* The same after a step.
LEMMA ProposedAfter ==
  ASSUME Order', NEW as
  PROVE  Proposed(as)' = {x \in 1 .. made' : act'[x].agent \in as /\ run'[act'[x].run].missed \cap {"level", "record"} = {}}
<1>1. 1 .. made' \subseteq ActIds
  BY AgentsAssumption DEF Order, AgentsTypes, ActIds
<1>2. \A x \in ActIds : act'[x] # NoAct <=> x \in 1 .. made'
  BY DEF Order, Born, AgentsTypes, ActIds
<1>3. QED
  BY <1>1, <1>2 DEF Proposed

\* Fewer proposals keep within a limit.
LEMMA FewerHold ==
  ASSUME Order, Order', NEW as, Proposed(as)' \subseteq Proposed(as), NEW l \in Nat,
         Cardinality(Proposed(as)) <= l
  PROVE  Cardinality(Proposed(as)') <= l
<1> DEFINE P == Proposed(as)
           Q == Proposed(as)'
<1>1. P \subseteq ActIds /\ Q \subseteq P /\ Q \subseteq ActIds
  BY ProposedAre
<1> HIDE DEF P, Q
<1>2. IsFiniteSet(P) /\ Cardinality(P) \in Nat /\ Cardinality(Q) \in Nat
  BY <1>1, ActSets
<1>3. Cardinality(Q) <= Cardinality(P)
  BY <1>1, <1>2, FS_Subset
<1>4. Cardinality(P) <= l
  BY DEF P
<1>5. Cardinality(Q) <= l
  BY ONLY <1>2, <1>3, <1>4, l \in Nat
<1>6. QED
  BY <1>5 DEF Q

\* Where nothing is proposed and no run loses its record.
LEMMA CappedKept ==
  ASSUME Order, Order', Capped, made' = made, started' = started,
         \A x \in 1 .. made : SameAct(x),
         \A r \in 1 .. started : run'[r].proposed = run[r].proposed /\ run[r].missed \subseteq run'[r].missed,
         \A a \in Packages : Installed(a)' => Installed(a),
         cut \subseteq cut',
         \A r \in 1 .. started : run[r].agent \notin cut' /\ agent'[run[r].agent] # NoAgent /\ Seen(r) => Seen(r)'
  PROVE  Capped'
<1>1. \A x \in 1 .. made : /\ act'[x].agent = act[x].agent /\ act'[x].run = act[x].run
                           /\ act[x].run \in 1 .. started /\ act[x].agent \in Packages
                           /\ act[x].agent = run[act[x].run].agent
  BY MadeAreActs DEF SameAct
<1>2. \A r \in 1 .. started : run'[r].proposed = Cardinality({x \in 1 .. made : act'[x].run = r})
  <2>1. \A r : {x \in 1 .. made : act'[x].run = r} = Made(r)
    BY <1>1 DEF Made
  <2>2. QED
    BY <2>1 DEF Capped
<1>3. \A x \in 1 .. made : act'[x].agent \notin cut' /\ agent'[act'[x].agent] # NoAgent => Seen(act[x].run)'
  <2>1. ASSUME NEW x \in 1 .. made, act'[x].agent \notin cut', agent'[act'[x].agent] # NoAgent
        PROVE  Seen(act[x].run)'
    <3>1. PICK r \in 1 .. started : r = act[x].run
      BY <1>1
    <3>2. /\ act'[x].run = r /\ act'[x].agent = act[x].agent
          /\ act[x].agent \in Packages /\ act[x].agent = run[r].agent
      BY <1>1, <3>1
    <3>3. Installed(act[x].agent) /\ agent'[act[x].agent] # NoAgent /\ act[x].agent \notin cut
      BY <1>1, <2>1, <3>2 DEF Installed
    <3>4. Seen(r)
      BY <3>1, <3>3 DEF Capped
    <3>5. Seen(r)'
      BY <2>1, <3>2, <3>3, <3>4
    <3>6. act'[x].run = act[x].run
      BY <3>1, <3>2
    <3>7. QED
      BY <3>1, <3>2, <3>5 DEF Seen, UnderWay, Unseen
  <2>2. QED
    BY <2>1
<1>4. ASSUME NEW as PROVE Proposed(as)' \subseteq Proposed(as)
  <2>1. Proposed(as) = {x \in 1 .. made : act[x].agent \in as /\ ~Unseen(act[x].run)}
    BY ProposedAre
  <2>2. Proposed(as)' = {x \in 1 .. made : act'[x].agent \in as /\ run'[act'[x].run].missed \cap {"level", "record"} = {}}
    BY ProposedAfter
  <2>3. ASSUME NEW x \in 1 .. made, act'[x].agent \in as, run'[act'[x].run].missed \cap {"level", "record"} = {}
        PROVE  act[x].agent \in as /\ ~Unseen(act[x].run)
    <3>1. PICK r \in 1 .. started : r = act[x].run /\ r = act'[x].run
      BY <1>1
    <3>2. run[r].missed \subseteq run'[r].missed
      OBVIOUS
    <3>3. QED
      BY <1>1, <2>3, <3>1, <3>2 DEF Unseen
  <2>4. QED
    BY <2>1, <2>2, <2>3
<1>5. CapHolds'
  <2>1. ASSUME NEW a \in Packages \ cut', Installed(a)' PROVE Cardinality(Proposed({a})') <= PerDay
    <3>1. Cardinality(Proposed({a})) <= PerDay
      BY <2>1 DEF Capped, CapHolds
    <3>2. QED
      BY <1>4, <3>1, FewerHold, AgentsAssumption
  <2>2. ASSUME cut' = {}, \A x \in 1 .. made : agent'[act'[x].agent] # NoAgent
        PROVE  Cardinality(Proposed(Packages)') <= Ceiling
    <3>1. cut = {} /\ \A x \in 1 .. made : Installed(act[x].agent)
      BY <1>1, <2>2 DEF Installed
    <3>2. Cardinality(Proposed(Packages)) <= Ceiling
      BY <3>1 DEF Capped, CapHolds
    <3>3. QED
      BY <1>4, <3>2, FewerHold, AgentsAssumption
  <2>3. QED
    BY <2>1, <2>2 DEF CapHolds, Installed
<1>6. \A x \in 1 .. made : act'[x].agent \notin cut' /\ agent'[act'[x].agent] # NoAgent =>
        \/ act'[x].run \in records' \/ run'[act'[x].run].pc \in {"running", "over", "settled", "raised"}
        \/ run'[act'[x].run].missed \cap {"level", "record"} # {}
  <2>1. \A x \in 1 .. made : Seen(act[x].run)' <=>
          \/ act'[x].run \in records' \/ run'[act'[x].run].pc \in {"running", "over", "settled", "raised"}
          \/ run'[act'[x].run].missed \cap {"level", "record"} # {}
    BY DEF Seen, UnderWay, Unseen
  <2>2. QED
    BY <1>3, <2>1
<1>7. QED
  BY <1>2, <1>5, <1>6 DEF Capped, Made, Installed, Seen, UnderWay, Unseen

\* An agent that comes has no past.
LEMMA CappedInstall ==
  ASSUME Order, Order', Capped, NEW a \in Packages, Install(a)
  PROVE  Capped'
<1>1. /\ a \in staged
      /\ \A b \in Packages \ {a} : agent'[b] = agent[b]
      /\ Installed(a)' /\ UNCHANGED <<run, started, turn, records, act, made, cut>>
  BY InstallMoves DEF Order
<1>2. \A r \in 1 .. started : run[r].agent # a
  BY <1>1 DEF Order, Fresh
<1>3. \A x \in 1 .. made : act[x].agent # a /\ act[x].agent \in Packages
  BY <1>2, MadeAreActs
<1>4. \A x \in 1 .. made : act[x].agent \notin cut /\ agent'[act[x].agent] # NoAgent => Seen(act[x].run)
  BY <1>1, <1>3 DEF Capped, Installed
<1>5. CapHolds'
  <2>1. \A b \in Packages \ cut : agent'[b] # NoAgent => Cardinality(Proposed({b})) <= PerDay
    <3>1. ASSUME a \notin cut PROVE Cardinality(Proposed({a})) <= PerDay
      <4>1. Proposed({a}) = {}
        BY <1>3, ProposedAre
      <4>2. QED
        BY <4>1, FS_EmptySet, AgentsAssumption
    <3>2. QED
      BY <1>1, <3>1 DEF Capped, CapHolds, Installed
  <2>2. cut = {} /\ (\A x \in 1 .. made : agent'[act[x].agent] # NoAgent) => Cardinality(Proposed(Packages)) <= Ceiling
    BY <1>1, <1>3 DEF Capped, CapHolds, Installed
  <2>3. \A as : Proposed(as)' = Proposed(as)
    BY <1>1 DEF Proposed
  <2>4. QED
    BY <1>1, <2>1, <2>2, <2>3 DEF CapHolds, Installed
<1>6. QED
  BY <1>1, <1>4, <1>5 DEF Capped, Made, Installed, Seen, UnderWay, Unseen

LEMMA CappedStart ==
  ASSUME Order, Order', Capped, NEW a \in Packages, NEW inv \in {"items", "message", "apply"}, NEW x \in Nat,
         Starts(a, inv, x)
  PROVE  Capped'
<1>0. PICK s \in Nat : s = started + 1
  BY DEF Order, AgentsTypes
<1>1. /\ UNCHANGED <<agent, records, act, made, cut>> /\ started' = s
      /\ s \in Runs /\ \A r \in Runs \ {s} : run'[r] = run[r]
      /\ run'[s].proposed = 0
  BY <1>0 DEF Starts
<1>2. started \in Nat /\ 1 .. s = 1 .. started \cup {s} /\ s \notin 1 .. started
  <2>1. started \in Nat
    BY DEF Order, AgentsTypes
  <2>2. QED
    BY ONLY <1>0, <2>1
<1>3. \A r \in 1 .. started : run'[r] = run[r]
  BY <1>1, <1>2, RunsAndActs DEF Order
<1>4. \A y \in 1 .. made : act[y].run \in 1 .. started /\ act[y].run # s
  BY <1>2 DEF Order, Born
<1>5. Made(s) = {} /\ Cardinality(Made(s)) = 0
  <2>1. Made(s) = {}
    BY <1>4 DEF Made
  <2>2. QED
    BY <2>1, FS_EmptySet
<1>6. \A r \in 1 .. s : run'[r].proposed = Cardinality(Made(r))
  BY <1>1, <1>2, <1>3, <1>5 DEF Capped
<1>7. \A y \in 1 .. made : act[y].agent \notin cut /\ agent[act[y].agent] # NoAgent =>
        \/ act[y].run \in records \/ run'[act[y].run].pc \in {"running", "over", "settled", "raised"}
        \/ run'[act[y].run].missed \cap {"level", "record"} # {}
  BY <1>3, <1>4 DEF Capped, Installed, Seen, UnderWay, Unseen
<1>8. CapHolds'
  <2>1. ASSUME NEW as PROVE Proposed(as)' = Proposed(as)
    <3>1. Proposed(as) = {y \in 1 .. made : act[y].agent \in as /\ ~Unseen(act[y].run)}
      BY ProposedAre
    <3>2. Proposed(as)' = {y \in 1 .. made : act[y].agent \in as /\ run'[act[y].run].missed \cap {"level", "record"} = {}}
      BY <1>1, ProposedAfter
    <3>3. \A y \in 1 .. made : Unseen(act[y].run) <=> run'[act[y].run].missed \cap {"level", "record"} # {}
      BY <1>3, <1>4 DEF Unseen
    <3>4. QED
      BY <3>1, <3>2, <3>3
  <2>2. QED
    BY <1>1, <2>1 DEF Capped, CapHolds, Installed
<1>9. QED
  BY <1>1, <1>6, <1>7, <1>8 DEF Capped, Made, Installed, Seen, UnderWay, Unseen

\* One more than a set counts.
LEMMA OneMore ==
  ASSUME NEW S, S \subseteq ActIds, NEW y \in ActIds, y \notin S
  PROVE  Cardinality(S \cup {y}) = Cardinality(S) + 1
BY ActSets, FS_AddElement

\* Two sets of proposals that share none, and a set within their union.
LEMMA Together ==
  ASSUME NEW S, NEW T, NEW Q, S \subseteq ActIds, T \subseteq ActIds, Q \subseteq S \cup T, S \cap T = {}
  PROVE  Cardinality(Q) <= Cardinality(S) + Cardinality(T)
<1>1. /\ IsFiniteSet(S) /\ IsFiniteSet(T) /\ Cardinality(S) \in Nat /\ Cardinality(T) \in Nat
      /\ IsFiniteSet(S \cup T) /\ Cardinality(S \cup T) \in Nat
      /\ Cardinality(Q) \in Nat
  <2>1. S \cup T \subseteq ActIds /\ Q \subseteq ActIds
    OBVIOUS
  <2>2. QED
    BY <2>1, ActSets
<1>2. Cardinality(S \cup T) = Cardinality(S) + Cardinality(T) - Cardinality(S \cap T)
  BY <1>1, FS_Union
<1>3. Cardinality(S \cap T) = 0
  BY FS_EmptySet
<1>4. Cardinality(Q) <= Cardinality(S \cup T)
  BY <1>1, FS_Subset
<1>5. QED
  BY <1>1, <1>2, <1>3, <1>4

LEMMA CappedPropose ==
  ASSUME Order, Order', Capped, NEW r \in Runs, NEW kind \in {"own", "mail"}, Propose(r, kind)
  PROVE  Capped'
<1>0. PICK y \in Nat : y = made + 1
  BY DEF Order, AgentsTypes
<1>1. /\ GoesOn(r) /\ run[r].pc = "running" /\ run'[r].pc = "running"
      /\ WithinCap(r) /\ run'[r].proposed = run[r].proposed + 1
      /\ UNCHANGED <<agent, space, turn, records, cut>>
      /\ made' = y /\ y \in ActIds
      /\ \A x \in ActIds \ {y} : act'[x] = act[x]
  BY <1>0, ProposeMoves DEF Order
<1>2. act'[y].run = r /\ act'[y].agent = run[r].agent
  <2>1. act'[made + 1] = [status |-> "pending", agent |-> run[r].agent, kind |-> kind, run |-> r, level |-> run[r].taint]
    BY ProposeMoves DEF Order
  <2>2. QED
    BY <1>0, <2>1
<1>3. made \in Nat /\ y \notin 1 .. made /\ 1 .. y = 1 .. made \cup {y}
  <2>1. made \in Nat
    BY DEF Order, AgentsTypes
  <2>2. QED
    BY ONLY <1>0, <2>1
<1>4. 1 .. made \subseteq ActIds /\ \A x \in 1 .. made : act'[x] = act[x]
  BY <1>1, <1>3, MadeAreActs
<1>5. /\ r \in 1 .. started /\ run[r] \in RunRow /\ run[r].proposed \in Nat /\ run[r].agent \in Packages
      /\ \A s \in 1 .. started \ {r} : s \in Runs /\ run'[s] = run[s]
      /\ run'[r].agent = run[r].agent /\ started' = started
  BY <1>1, RunsAndActs DEF GoesOn, RunRow, Order
<1>6. \A s \in 1 .. started : run'[s].proposed = Cardinality({x \in 1 .. y : act'[x].run = s})
  <2>1. ASSUME NEW s \in 1 .. started PROVE run'[s].proposed = Cardinality({x \in 1 .. y : act'[x].run = s})
    <3>1. run[s].proposed = Cardinality(Made(s))
      BY DEF Capped
    <3>2. {x \in 1 .. y : act'[x].run = s} = IF s = r THEN Made(s) \cup {y} ELSE Made(s)
      BY <1>2, <1>3, <1>4 DEF Made
    <3>3. CASE s = r
      <4>1. Made(s) \subseteq ActIds /\ y \notin Made(s)
        BY <1>3, <1>4 DEF Made
      <4>2. Cardinality(Made(s) \cup {y}) = Cardinality(Made(s)) + 1
        BY <1>1, <4>1, OneMore
      <4>3. QED
        BY <1>1, <3>1, <3>2, <3>3, <4>2
    <3>4. CASE s # r
      BY <1>5, <3>1, <3>2, <3>4
    <3>5. QED
      BY <3>3, <3>4
  <2>2. QED
    BY <2>1
<1>7. \A x \in 1 .. y : act'[x].agent \notin cut /\ agent[act'[x].agent] # NoAgent =>
        \/ act'[x].run \in records \/ run'[act'[x].run].pc \in {"running", "over", "settled", "raised"}
        \/ run'[act'[x].run].missed \cap {"level", "record"} # {}
  <2>1. \A x \in 1 .. made : act[x].run \in 1 .. started
    BY DEF Order, Born
  <2>2. \A s \in 1 .. started : Seen(s) =>
          \/ s \in records \/ run'[s].pc \in {"running", "over", "settled", "raised"}
          \/ run'[s].missed \cap {"level", "record"} # {}
    BY <1>1, <1>5 DEF UnderWay, Seen, Unseen
  <2>3. ASSUME NEW x \in 1 .. made, act[x].agent \notin cut, agent[act[x].agent] # NoAgent
        PROVE  \/ act[x].run \in records \/ run'[act[x].run].pc \in {"running", "over", "settled", "raised"}
               \/ run'[act[x].run].missed \cap {"level", "record"} # {}
    BY <2>1, <2>2, <2>3 DEF Capped, Installed
  <2>4. QED
    BY <1>1, <1>2, <1>3, <1>4, <2>3
\* Of an agent no run of which was cut short, what is under way is this run.
<1>8. ASSUME NEW s \in 1 .. started, UnderWay(s), run[s].agent \notin cut, run[r].agent \notin cut PROVE s = r
  <2>1. run[s].left \in BOOLEAN /\ run[r].left \in BOOLEAN
    BY <1>5, RunsAndActs DEF Order, RunRow
  <2>2. ~run[s].left /\ ~run[r].left
    BY <1>5, <1>8, <2>1 DEF Order, OneTurn
  <2>3. turn = s /\ turn = r
    BY <1>1, <1>5, <1>8, <2>2 DEF Order, OneTurn, UnderWay
  <2>4. QED
    BY <2>3
<1>9. ASSUME run[r].agent \notin cut PROVE r \notin records
  BY <1>1, <1>5, <1>9, RunsAndActs DEF Order, OneTurn, UnderWay, RunRow
<1>10. Made(r) \subseteq ActIds /\ run[r].proposed = Cardinality(Made(r))
  BY <1>4, <1>5 DEF Made, Capped
\* With what it has proposed and what is on record a run counts them all.
<1>11. ASSUME NEW as, NEW rs \in SUBSET records, NEW l \in Nat, r \notin records, Counted(r, rs) < l,
              \A x \in Proposed(as) : act[x].run \in rs \/ act[x].run = r
       PROVE  Cardinality(Proposed(as)') <= l
  <2> DEFINE P == Proposed(as)
             Q == Proposed(as)'
             S == Proposals(rs)
  <2>1. /\ P = {x \in 1 .. made : act[x].agent \in as /\ ~Unseen(act[x].run)}
        /\ P \subseteq ActIds
    BY ProposedAre
  <2>2. Q = {x \in 1 .. y : act'[x].agent \in as /\ run'[act'[x].run].missed \cap {"level", "record"} = {}}
    BY <1>1, ProposedAfter
  <2>3. S = {x \in 1 .. made : act[x].run \in rs}
    BY MadeAreActs
  <2>4. \A x \in P : act[x].run \in rs \/ act[x].run = r
    BY <1>11
  <2>5. Cardinality(S) + Cardinality(Made(r)) < l
    BY <1>10, <1>11 DEF Counted
  <2> HIDE DEF P, Q, S
  <2>6. P \subseteq S \cup Made(r) /\ S \cap Made(r) = {} /\ S \subseteq ActIds
    BY <1>4, <1>11, <2>1, <2>3, <2>4 DEF Made
  <2>7. Q \subseteq P \cup {y} /\ y \notin P
    <3>1. \A x \in 1 .. made : act[x].run \in 1 .. started
      BY DEF Order, Born
    <3>2. run'[r].missed = run[r].missed
      BY ProposeMoves DEF Order
    <3>3. \A x \in 1 .. made : Unseen(act[x].run) <=> run'[act[x].run].missed \cap {"level", "record"} # {}
      BY <1>5, <3>1, <3>2 DEF Unseen
    <3>4. QED
      BY <1>3, <1>4, <2>1, <2>2, <3>3
  <2>8. /\ Cardinality(P) \in Nat /\ Cardinality(S) \in Nat /\ Cardinality(Made(r)) \in Nat
        /\ P \cup {y} \subseteq ActIds /\ IsFiniteSet(P \cup {y})
        /\ Cardinality(Q) \in Nat
    <3>1. P \cup {y} \subseteq ActIds /\ Q \subseteq ActIds
      BY <1>1, <2>1, <2>7
    <3>2. QED
      BY <1>10, <2>1, <2>6, <3>1, ActSets
  <2>9. Cardinality(P) <= Cardinality(S) + Cardinality(Made(r))
    BY <1>10, <2>6, Together
  <2>10. Cardinality(P \cup {y}) = Cardinality(P) + 1
    BY <1>1, <2>1, <2>7, OneMore
  <2>11. Cardinality(Q) <= Cardinality(P \cup {y})
    BY <2>7, <2>8, FS_Subset
  <2>12. Cardinality(Q) <= l
    BY ONLY <2>5, <2>8, <2>9, <2>10, <2>11, l \in Nat
  <2>13. QED
    BY <2>12 DEF Q
<1>13. PerDay \in Nat /\ Ceiling \in Nat
  BY AgentsAssumption
<1>14. CapHolds'
  <2>1. ASSUME NEW a \in Packages \ cut, Installed(a)
        PROVE  Cardinality(Proposed({a})') <= PerDay
    <3>1. CASE a # run[r].agent
      <4>1. Cardinality(Proposed({a})) <= PerDay
        BY <2>1 DEF Capped, CapHolds
      <4>2. Proposed({a})' \subseteq Proposed({a})
        <5>1. Proposed({a}) = {x \in 1 .. made : act[x].agent = a /\ ~Unseen(act[x].run)}
          BY ProposedAre
        <5>2. Proposed({a})' = {x \in 1 .. y : act'[x].agent = a /\ run'[act'[x].run].missed \cap {"level", "record"} = {}}
          BY <1>1, ProposedAfter
        <5>3. \A x \in 1 .. made : act[x].run \in 1 .. started
          BY DEF Order, Born
        <5>4. run'[r].missed = run[r].missed
          BY ProposeMoves DEF Order
        <5>5. \A x \in 1 .. made : Unseen(act[x].run) <=> run'[act[x].run].missed \cap {"level", "record"} # {}
          BY <1>5, <5>3, <5>4 DEF Unseen
        <5>6. QED
          BY <1>2, <1>3, <1>4, <3>1, <5>1, <5>2, <5>5
      <4>3. QED
        BY <1>13, <4>1, <4>2, FewerHold
    <3>2. CASE a = run[r].agent
      <4>1. PICK rs \in SUBSET records : rs = {s \in records : run[s].agent = a}
        OBVIOUS
      <4>2. Counted(r, rs) < PerDay
        BY <1>1, <3>2, <4>1 DEF WithinCap
      <4>3. r \notin records
        BY <1>9, <2>1, <3>2
      <4>4. ASSUME NEW x \in Proposed({a}) PROVE act[x].run \in rs \/ act[x].run = r
        <5>1. x \in 1 .. made /\ act[x].agent = a /\ ~Unseen(act[x].run)
          BY ProposedAre
        <5>2. act[x].run \in 1 .. started /\ run[act[x].run].agent = a
          BY <5>1 DEF Order, Born
        <5>3. act[x].run \in records \/ UnderWay(act[x].run)
          BY <2>1, <5>1 DEF Capped, Seen
        <5>4. QED
          BY <1>8, <2>1, <3>2, <4>1, <5>2, <5>3
      <4>5. QED
        BY <1>11, <1>13, <4>2, <4>3, <4>4
    <3>3. QED
      BY <3>1, <3>2
  <2>2. ASSUME cut = {}, \A x \in 1 .. y : agent[act'[x].agent] # NoAgent
        PROVE  Cardinality(Proposed(Packages)') <= Ceiling
    <3>1. Counted(r, records) < Ceiling
      BY <1>1 DEF WithinCap
    <3>2. r \notin records
      BY <1>9, <2>2
    <3>3. ASSUME NEW x \in Proposed(Packages) PROVE act[x].run \in records \/ act[x].run = r
      <4>1. x \in 1 .. made /\ ~Unseen(act[x].run)
        BY ProposedAre
      <4>2. act[x].run \in 1 .. started /\ Installed(act[x].agent)
        BY <1>3, <1>4, <2>2, <4>1 DEF Order, Born, Installed
      <4>3. act[x].run \in records \/ UnderWay(act[x].run)
        BY <2>2, <4>1, <4>2 DEF Capped, Seen
      <4>4. QED
        BY <1>8, <2>2, <4>2, <4>3
    <3>4. QED
      BY <1>11, <1>13, <3>1, <3>2, <3>3
  <2>3. QED
    BY <1>1, <2>1, <2>2 DEF CapHolds, Installed
<1>12. QED
  BY <1>1, <1>5, <1>6, <1>7, <1>14 DEF Capped, Made, Installed, Seen, UnderWay, Unseen

LEMMA SameActStays ==
  ASSUME Order
  PROVE  /\ act' = act => \A x \in 1 .. made : SameAct(x)
         /\ SameActs => \A x \in 1 .. made : SameAct(x)
BY RunsAndActs DEF SameAct, SameActs, Order

\* A run goes on, and does not end without a trace.
LEMMA CappedGoesOn ==
  ASSUME Order, Order', Capped, NEW r \in Runs, GoesOn(r), made' = made,
         act' = act \/ SameActs,
         run'[r].proposed = run[r].proposed, run[r].missed \subseteq run'[r].missed,
         \A a \in Packages : Installed(a)' => Installed(a),
         cut \subseteq cut', records \subseteq records',
         run[r].agent \notin cut' /\ agent'[run[r].agent] # NoAgent /\ UnderWay(r) =>
           \/ r \in records' \/ run'[r].pc \in {"running", "over", "settled", "raised"}
           \/ run'[r].missed \cap {"level", "record"} # {}
  PROVE  Capped'
<1>1. /\ r \in 1 .. started /\ started' = started
      /\ \A s \in 1 .. started \ {r} : s \in Runs /\ run'[s] = run[s]
  BY RunsAndActs DEF GoesOn, Order
<1>2. \A x \in 1 .. made : SameAct(x)
  BY SameActStays
<1>3. \A s \in 1 .. started : run'[s].proposed = run[s].proposed /\ run[s].missed \subseteq run'[s].missed
  BY <1>1
<1>4. \A s \in 1 .. started : run[s].agent \notin cut' /\ agent'[run[s].agent] # NoAgent /\ Seen(s) => Seen(s)'
  BY <1>1, <1>3 DEF UnderWay, Seen, Unseen
<1>5. QED
  BY <1>1, <1>2, <1>3, <1>4, CappedKept

\* No run moves.
LEMMA CappedStill ==
  ASSUME Order, Order', Capped, made' = made, act' = act \/ SameActs,
         UNCHANGED <<run, started, cut>>,
         \A a \in Packages : Installed(a)' => Installed(a),
         \A r \in records : agent'[run[r].agent] # NoAgent => r \in records'
  PROVE  Capped'
<1>1. \A x \in 1 .. made : SameAct(x)
  BY SameActStays
<1>2. \A s \in 1 .. started : run[s].agent \notin cut' /\ agent'[run[s].agent] # NoAgent /\ Seen(s) => Seen(s)'
  BY DEF UnderWay, Seen, Unseen
<1>3. QED
  BY <1>1, <1>2, CappedKept

LEMMA CappedStays ==
  ASSUME Order, Order', Capped, Kinds
  PROVE  Capped'
<1>1. CASE Calm
  <2>1. /\ UNCHANGED <<run, started, cut, records>> /\ made' = made /\ SameActs
        /\ \A a \in Packages : Installed(a)' => Installed(a)
    BY <1>1 DEF Calm, SameAgent, SameActs
  <2>2. QED
    BY <2>1, CappedStill
<1>3. ASSUME NEW a \in Packages, Remove(a) PROVE Capped'
  <2>1. /\ UNCHANGED <<run, started, cut, act, made>> /\ agent'[a] = NoAgent
        /\ \A b \in Packages \ {a} : agent'[b] = agent[b]
        /\ records' = {r \in records : run[r].agent # a}
    BY <1>3, RemoveMoves DEF Order, Installed
  <2>2. \A b \in Packages : Installed(b)' => Installed(b)
    BY <2>1 DEF Installed
  <2>3. \A r \in records : agent'[run[r].agent] # NoAgent => r \in records'
    BY <2>1
  <2>4. QED
    BY <2>1, <2>2, <2>3, CappedStill
<1>4. ASSUME NEW r \in Runs, NEW i \in Items, Read(r, i) PROVE Capped'
  <2>1. /\ GoesOn(r) /\ UNCHANGED <<agent, records, act, made, cut>>
        /\ run'[r].proposed = run[r].proposed /\ run'[r].missed = run[r].missed /\ run[r].pc = "running" /\ run'[r].pc = "running"
    BY <1>4, ReadMoves DEF Order
  <2>2. \A b \in Packages : Installed(b)' => Installed(b)
    BY <2>1 DEF Installed
  <2>3. QED
    BY <2>1, <2>2, CappedGoesOn
<1>5. ASSUME NEW r \in Runs, Execute(r) PROVE Capped'
  <2>1. /\ GoesOn(r) /\ UNCHANGED <<agent, records, act, made, cut>>
        /\ run'[r].proposed = run[r].proposed /\ run'[r].missed = run[r].missed /\ run[r].pc = "running" /\ run'[r].pc = "running"
    BY <1>5, ExecuteMoves DEF Order
  <2>2. \A b \in Packages : Installed(b)' => Installed(b)
    BY <2>1 DEF Installed
  <2>3. QED
    BY <2>1, <2>2, CappedGoesOn
<1>6. ASSUME NEW r \in Runs, ExecuteBegin(r) \/ ExecuteCommit(r) PROVE Capped'
  <2>1. UNCHANGED <<run, started, agent, records, act, made, cut>>
    BY <1>6, TransactionMoves DEF Order
  <2>2. \A b \in Packages : Installed(b)' => Installed(b)
    BY <2>1 DEF Installed
  <2>3. QED
    BY <2>1, <2>2, CappedStill
<1>7. ASSUME NEW r \in Runs, NEW well \in BOOLEAN, End(r, well) PROVE Capped'
  <2>1. /\ GoesOn(r) /\ UNCHANGED <<agent, records, act, made, cut>>
        /\ run'[r].proposed = run[r].proposed /\ run'[r].missed = run[r].missed
        /\ run'[r].pc = (IF run[r].left THEN "done" ELSE "over")
        /\ run[r].left => run[r].agent \in cut
    BY <1>7, EndMoves DEF Order, OneTurn, GoesOn
  <2>2. \A b \in Packages : Installed(b)' => Installed(b)
    BY <2>1 DEF Installed
  <2>3. QED
    BY <2>1, <2>2, CappedGoesOn
<1>8. ASSUME NEW r \in Runs,
             \/ SettleSpace(r) \/ SpaceFails(r) \/ RaiseLevel(r) \/ LevelFails(r)
             \/ Record(r) \/ RecordFails(r) \/ LedgerFails(r)
      PROVE  Capped'
  <2>1. Settling(r) /\ (SpaceSettles(r) \/ LevelSettles(r) \/ RecordSettles(r))
    BY <1>8, SettleSpaceMoves, SettleLevelMoves, SettleRecordMoves DEF Order
  <2>2. /\ GoesOn(r) /\ UNCHANGED <<act, made, cut>>
        /\ run'[r].proposed = run[r].proposed
        /\ \A b \in Packages : Installed(b)' => Installed(b)
    BY <2>1 DEF Settling
  <2>3. /\ records \subseteq records' /\ run[r].missed \subseteq run'[r].missed
        /\ \/ r \in records' \/ run'[r].pc \in {"running", "over", "settled", "raised"}
           \/ run'[r].missed \cap {"level", "record"} # {}
    BY <2>1 DEF SpaceSettles, LevelSettles, RecordSettles
  <2>4. QED
    BY <2>2, <2>3, CappedGoesOn
<1>9. ASSUME NEW r \in Runs, ClientLeaves(r) PROVE Capped'
  <2>1. /\ GoesOn(r) /\ UNCHANGED <<agent, records, act, made>> /\ cut' = cut \cup {run[r].agent}
        /\ run'[r].proposed = run[r].proposed /\ run'[r].missed = run[r].missed
    BY <1>9, LeaveMoves DEF Order
  <2>2. \A b \in Packages : Installed(b)' => Installed(b)
    BY <2>1 DEF Installed
  <2>3. QED
    BY <2>1, <2>2, CappedGoesOn
<1>10. ASSUME NEW r \in Runs, Report(r) PROVE Capped'
  <2>1. /\ GoesOn(r) /\ UNCHANGED <<agent, records, cut>> /\ SameActs /\ made' = made
        /\ run'[r].proposed = run[r].proposed /\ run'[r].missed = run[r].missed /\ run[r].pc = "done"
    BY <1>10, ReportMoves DEF Order, SameActs
  <2>2. (\A b \in Packages : Installed(b)' => Installed(b)) /\ ~UnderWay(r)
    BY <2>1 DEF Installed, UnderWay
  <2>3. QED
    BY <2>1, <2>2, CappedGoesOn
<1>11. CASE AgentsRestart
  <2>1. /\ UNCHANGED <<agent, records, act, made, started>> /\ cut \subseteq cut'
        /\ \A r \in 1 .. started : run'[r].proposed = run[r].proposed /\ run'[r].missed = run[r].missed
             /\ (UnderWay(r) => run[r].agent \in cut')
    BY <1>11, RestartMoves DEF Order
  <2>2. \A b \in Packages : Installed(b)' => Installed(b)
    BY <2>1 DEF Installed
  <2>3. \A x \in 1 .. made : SameAct(x)
    BY <2>1, SameActStays
  <2>4. \A s \in 1 .. started : run[s].agent \notin cut' /\ agent'[run[s].agent] # NoAgent /\ Seen(s) => Seen(s)'
    BY <2>1 DEF Seen, Unseen
  <2>5. QED
    BY <2>1, <2>2, <2>3, <2>4, CappedKept
<1>12. QED
  BY <1>1, <1>3, <1>4, <1>5, <1>6, <1>7, <1>8, <1>9, <1>10, <1>11, CappedInstall, CappedStart, CappedPropose
     DEF Kinds

-----------------------------------------------------------------------------
(* Levels.                                                                  *)

\* A run that is under way, or whose level could not be written down.
Keeps(r) == UnderWay(r) \/ "level" \in run[r].missed

\* A level is covered by the agent's, or by that of a run which keeps its own.
Under(a, l) ==
  \/ l <= agent[a].level
  \/ \E r \in 1 .. started : Keeps(r) /\ run[r].agent = a /\ l <= run[r].taint

KeepsAfter(r) == run'[r].pc \in {"running", "over", "settled", "raised"} \/ "level" \in run'[r].missed
UnderAfter(a, l) ==
  \/ l <= agent'[a].level
  \/ \E r \in 1 .. started' : KeepsAfter(r) /\ run'[r].agent = a /\ l <= run'[r].taint

Writes(a) == space[a].kept \cup space[a].txn.writes \cup space[a].txn.mark

\* All that is or may come to be in a space is covered, and so is what was
\* proposed; a run that has raised the level has raised it to its own.
Covered ==
  \A a \in Packages \ cut : Installed(a) =>
    /\ \A w \in Writes(a) : w.run \in 1 .. started /\ w.level \in Levels /\ Under(a, w.level)
    /\ \A x \in 1 .. made : act[x].agent = a => Under(a, act[x].level)
    /\ \A r \in 1 .. started : run[r].agent = a /\ run[r].pc = "raised" => run[r].taint <= agent[a].level

LEMMA CoveredMeans ==
  ASSUME NEW m, NEW s,
         \A a \in Packages \ cut' : agent'[a] # NoAgent =>
           /\ \A w \in Writes(a)' : w.run \in 1 .. s /\ w.level \in Levels /\ UnderAfter(a, w.level)
           /\ \A x \in 1 .. m : act'[x].agent = a => UnderAfter(a, act'[x].level)
           /\ \A r \in 1 .. s : run'[r].agent = a /\ run'[r].pc = "raised" => run'[r].taint <= agent'[a].level,
         made' = m, started' = s
  PROVE  Covered'
<1>1. \A a \in Packages : \A l : UnderAfter(a, l) <=> (l <= agent'[a].level
           \/ \E r \in 1 .. s : (run'[r].pc \in {"running", "over", "settled", "raised"} \/ "level" \in run'[r].missed)
                                /\ run'[r].agent = a /\ l <= run'[r].taint)
  BY DEF UnderAfter, KeepsAfter
<1>2. QED
  BY <1>1 DEF Covered, Under, Keeps, UnderWay, Installed

LEMMA CoveredKept ==
  ASSUME Order, Order', Covered, cut \subseteq cut', started <= started',
         \A a \in Packages : agent'[a] # NoAgent => Installed(a) /\ agent[a].level <= agent'[a].level,
         \A r \in 1 .. started : Keeps(r) /\ run[r].agent \notin cut' /\ agent'[run[r].agent] # NoAgent =>
           \/ KeepsAfter(r) /\ run'[r].agent = run[r].agent /\ run[r].taint <= run'[r].taint
           \/ run[r].taint <= agent'[run[r].agent].level,
         \A r \in 1 .. started' : run'[r].pc = "raised" =>
           \/ r \in 1 .. started /\ run[r].pc = "raised" /\ run'[r].agent = run[r].agent /\ run'[r].taint = run[r].taint
           \/ run'[r].taint <= agent'[run'[r].agent].level,
         \A a \in Packages \ cut' : agent'[a] # NoAgent => \A w \in Writes(a)' :
           w \in Writes(a) \/ (w.run \in 1 .. started' /\ w.level \in Levels /\ UnderAfter(a, w.level)),
         \A x \in 1 .. made' :
           \/ x \in 1 .. made /\ SameAct(x)
           \/ act'[x].agent \in Packages \ cut' /\ agent'[act'[x].agent] # NoAgent =>
                UnderAfter(act'[x].agent, act'[x].level)
  PROVE  Covered'
<1>1. started \in Nat /\ started' \in Nat /\ \A r \in 1 .. started : r \in 1 .. started'
  <2>1. started \in Nat /\ started' \in Nat
    BY DEF Order, AgentsTypes
  <2>2. QED
    BY <2>1
<1>2. \A a \in Packages : agent'[a] # NoAgent =>
        Installed(a) /\ agent[a].level \in Levels /\ agent'[a].level \in Levels /\ agent[a].level <= agent'[a].level
  <2>1. \A a \in Packages : agent'[a] # NoAgent => agent[a] \in AgentRow
    BY RunsAndActs DEF Order
  <2>2. \A a \in Packages : agent'[a] # NoAgent => agent'[a] \in AgentRow
    BY DEF Order, AgentsTypes
  <2>3. QED
    BY <2>1, <2>2 DEF AgentRow
<1>3. ASSUME NEW a \in Packages \ cut', agent'[a] # NoAgent, NEW l \in Levels, Under(a, l)
      PROVE  UnderAfter(a, l)
  <2>1. CASE l <= agent[a].level
    BY <1>2, <1>3, <2>1 DEF UnderAfter, Levels
  <2>2. ASSUME NEW r \in 1 .. started, Keeps(r), run[r].agent = a, l <= run[r].taint
        PROVE  UnderAfter(a, l)
    <3>1. run[r].taint \in Levels /\ r \in 1 .. started' /\ r \in Runs
      BY <1>1, RunsAndActs DEF Order, RunRow
    <3>2. CASE run[r].taint <= agent'[a].level
      BY <1>2, <1>3, <2>2, <3>1, <3>2 DEF UnderAfter, Levels
    <3>3. CASE KeepsAfter(r) /\ run'[r].agent = run[r].agent /\ run[r].taint <= run'[r].taint
      <4>1. run'[r].taint \in Levels
        <5>1. run'[r] # NoRun
          <6>1. run[r] # NoRun
            BY RunsAndActs DEF Order, RunRow, NoRun
          <6>2. QED
            BY <1>1, <3>1 DEF Order, Born
        <5>2. QED
          BY <3>1, <5>1 DEF Order, AgentsTypes, RunRow
      <4>2. QED
        BY <2>2, <3>1, <3>3, <4>1 DEF UnderAfter, Levels
    <3>4. QED
      BY <1>3, <2>2, <3>2, <3>3
  <2>3. QED
    BY <1>3, <2>1, <2>2 DEF Under
<1>4. ASSUME NEW a \in Packages \ cut', agent'[a] # NoAgent
      PROVE  /\ \A w \in Writes(a)' : w.run \in 1 .. started' /\ w.level \in Levels /\ UnderAfter(a, w.level)
             /\ \A x \in 1 .. made' : act'[x].agent = a => UnderAfter(a, act'[x].level)
             /\ \A r \in 1 .. started' : run'[r].agent = a /\ run'[r].pc = "raised" => run'[r].taint <= agent'[a].level
  <2>1. Installed(a) /\ a \notin cut
    BY <1>4
  <2>2. ASSUME NEW w \in Writes(a)
        PROVE  w.run \in 1 .. started' /\ w.level \in Levels /\ UnderAfter(a, w.level)
    <3>1. w.run \in 1 .. started /\ w.level \in Levels /\ Under(a, w.level)
      BY <2>1 DEF Covered
    <3>2. QED
      BY <1>1, <1>3, <1>4, <3>1
  <2>3. ASSUME NEW x \in 1 .. made, SameAct(x), act'[x].agent = a
        PROVE  UnderAfter(a, act'[x].level)
    <3>1. act[x].level \in Levels
      BY RunsAndActs DEF Order, ActRow
    <3>2. Under(a, act[x].level)
      BY <2>1, <2>3 DEF Covered, SameAct
    <3>3. UnderAfter(a, act[x].level)
      BY <1>3, <1>4, <3>1, <3>2
    <3>4. QED
      BY <2>3, <3>3 DEF SameAct
  <2>4. ASSUME NEW r \in 1 .. started', run'[r].agent = a, run'[r].pc = "raised"
        PROVE  run'[r].taint <= agent'[a].level
    <3>1. CASE r \in 1 .. started /\ run[r].pc = "raised" /\ run'[r].agent = run[r].agent /\ run'[r].taint = run[r].taint
      <4>1. run[r].taint \in Levels
        BY <3>1, RunsAndActs DEF Order, RunRow
      <4>2. run[r].taint <= agent[a].level
        BY <2>1, <2>4, <3>1 DEF Covered
      <4>3. QED
        BY <1>2, <1>4, <3>1, <4>1, <4>2 DEF Levels
    <3>2. QED
      BY <2>4, <3>1
  <2>5. QED
    BY <1>4, <2>2, <2>3, <2>4
<1>5. QED
  BY <1>4, CoveredMeans

LEMMA CoveredInstall ==
  ASSUME Order, Order', Covered, NEW a \in Packages, Install(a)
  PROVE  Covered'
<1>1. /\ a \in staged
      /\ \A b \in Packages \ {a} : agent'[b] = agent[b]
      /\ UNCHANGED <<space, run, started, act, made, cut>>
  BY InstallMoves DEF Order
<1>2. \A r \in 1 .. started : run[r].agent # a
  BY <1>1 DEF Order, Fresh
<1>3. \A x \in 1 .. made : act[x].agent # a
  BY <1>2 DEF Order, Born
<1>4. Writes(a) = {}
  <2>1. space[a] = EmptySpace
    BY <1>1 DEF Order, Fresh
  <2>2. QED
    BY <2>1 DEF Writes, EmptySpace, Closed
<1>5. ASSUME NEW b \in Packages \ cut, agent'[b] # NoAgent
      PROVE  /\ \A w \in Writes(b) : w.run \in 1 .. started /\ w.level \in Levels /\ UnderAfter(b, w.level)
             /\ \A x \in 1 .. made : act[x].agent = b => UnderAfter(b, act[x].level)
             /\ \A r \in 1 .. started : run[r].agent = b /\ run[r].pc = "raised" => run[r].taint <= agent'[b].level
  <2>1. CASE b = a
    BY <1>2, <1>3, <1>4, <2>1
  <2>2. CASE b # a
    <3>1. Installed(b) /\ agent'[b] = agent[b]
      BY <1>1, <1>5, <2>2 DEF Installed
    <3>2. \A l : Under(b, l) => UnderAfter(b, l)
      BY <1>1, <3>1 DEF Under, UnderAfter, Keeps, KeepsAfter, UnderWay
    <3>3. QED
      BY <1>5, <3>1, <3>2 DEF Covered
  <2>3. QED
    BY <2>1, <2>2
<1>6. Writes(a)' = Writes(a) /\ \A b \in Packages : Writes(b)' = Writes(b)
  BY <1>1 DEF Writes
<1>7. QED
  BY <1>1, <1>5, <1>6, CoveredMeans

WritesOf(s) == s.kept \cup s.txn.writes \cup s.txn.mark

\* What the helpers do to what is, or may come to be, in a space.
LEMMA NoNewWrites ==
  ASSUME NEW s, SpaceIsWell(s)
  PROVE  /\ WritesOf(Begun(s)) \subseteq WritesOf(s)
         /\ WritesOf(Committed(s)) \subseteq WritesOf(s)
         /\ WritesOf(RolledBack(s)) \subseteq WritesOf(s)
         /\ WritesOf(ApplyBegun(s)) \subseteq WritesOf(s)
         /\ \A keep \in BOOLEAN : WritesOf(RolledBack(ApplyEnded(s, keep))) \subseteq WritesOf(s)
         /\ \A w : WritesOf(Written(s, w)) \subseteq WritesOf(s) \cup {w}
<1>1. Closed.writes = {} /\ Closed.mark = {}
  BY DEF Closed
<1>2. /\ WritesOf(Begun(s)) \subseteq WritesOf(s)
      /\ WritesOf(Committed(s)) \subseteq WritesOf(s)
      /\ WritesOf(RolledBack(s)) \subseteq WritesOf(s)
      /\ WritesOf(ApplyBegun(s)) \subseteq WritesOf(s)
  BY <1>1, Spaces DEF WritesOf
<1>3. ASSUME NEW keep \in BOOLEAN
      PROVE  WritesOf(RolledBack(ApplyEnded(s, keep))) \subseteq WritesOf(s)
  <2>1. SpaceIsWell(ApplyEnded(s, keep)) /\ ApplyEnded(s, keep).kept \subseteq WritesOf(s)
    BY Endings DEF WritesOf
  <2>2. RolledBack(ApplyEnded(s, keep)).kept = ApplyEnded(s, keep).kept /\ RolledBack(ApplyEnded(s, keep)).txn = Closed
    BY <2>1, Spaces
  <2>3. QED
    BY <1>1, <2>1, <2>2 DEF WritesOf
<1>4. ASSUME NEW w PROVE WritesOf(Written(s, w)) \subseteq WritesOf(s) \cup {w}
  <2>1. CASE s.txn.open
    <3>1. /\ Written(s, w).kept = s.kept
          /\ Written(s, w).txn.writes = s.txn.writes \cup {w}
          /\ Written(s, w).txn.mark = s.txn.mark
      BY <2>1, Wrote
    <3>2. QED
      BY <3>1 DEF WritesOf
  <2>2. CASE ~s.txn.open
    <3>1. Written(s, w).kept = s.kept \cup {w} /\ Written(s, w).txn = s.txn
      BY <2>2, Wrote
    <3>2. QED
      BY <3>1 DEF WritesOf
  <2>3. QED
    BY <2>1, <2>2
<1>5. QED
  BY <1>2, <1>3, <1>4

\* Of an agent no run of which was cut short, only the run with the turn is
\* under way.
LEMMA OneUnderWay ==
  ASSUME Order
  PROVE  \A r \in 1 .. started : UnderWay(r) /\ run[r].agent \notin cut => turn = r /\ ~run[r].left /\ r \notin records
BY RunsAndActs DEF Order, OneTurn, RunRow

\* A run goes on and its agent's level is not touched.
LEMMA CoveredGoesOn ==
  ASSUME Order, Order', Covered, NEW r \in Runs, GoesOn(r), UNCHANGED <<agent, space>>,
         made' = made, act' = act \/ SameActs, cut \subseteq cut',
         run[r].taint <= run'[r].taint, run[r].missed \subseteq run'[r].missed,
         run'[r].pc = "raised" => run[r].pc = "raised" /\ run'[r].taint = run[r].taint,
         run[r].agent \notin cut' /\ agent[run[r].agent] # NoAgent /\ UnderWay(r) =>
            KeepsAfter(r) \/ run[r].taint <= agent[run[r].agent].level
  PROVE  Covered'
<1>1. started' = started /\ started \in Nat /\ r \in 1 .. started
  BY DEF GoesOn, Order, AgentsTypes
<1>2. \A a \in Packages : agent'[a] # NoAgent => Installed(a) /\ agent[a].level <= agent'[a].level
  <2>1. \A a \in Packages : agent'[a] # NoAgent => Installed(a) /\ agent[a] \in AgentRow
    BY RunsAndActs DEF Order, Installed
  <2>2. QED
    BY <2>1 DEF AgentRow, Levels
<1>3. \A s \in 1 .. started : Keeps(s) /\ run[s].agent \notin cut' /\ agent'[run[s].agent] # NoAgent =>
           \/ KeepsAfter(s) /\ run'[s].agent = run[s].agent /\ run[s].taint <= run'[s].taint
           \/ run[s].taint <= agent'[run[s].agent].level
  <2>1. \A s \in 1 .. started : s \in Runs /\ run[s].taint \in Nat
    BY RunsAndActs DEF Order, RunRow, Levels
  <2>2. QED
    BY <2>1 DEF GoesOn, Keeps, KeepsAfter, UnderWay
<1>4. \A a \in Packages : Writes(a)' = Writes(a)
  BY DEF Writes
<1>5. \A x \in 1 .. made : SameAct(x)
  BY SameActStays
<1>6. \A s \in 1 .. started : run'[s].pc = "raised" =>
        s \in 1 .. started /\ run[s].pc = "raised" /\ run'[s].agent = run[s].agent /\ run'[s].taint = run[s].taint
  BY RunsAndActs DEF GoesOn, Order
<1>7. QED
  BY <1>1, <1>2, <1>3, <1>4, <1>5, <1>6, CoveredKept


\* A step that does not touch a run, and no level goes down.
LEMMA CoveredStill ==
  ASSUME Order, Order', Covered, UNCHANGED <<run, started, cut>>, made' = made, act' = act \/ SameActs,
         \A a \in Packages : agent'[a] # NoAgent => /\ Installed(a) /\ agent[a].level = agent'[a].level
                                                    /\ Writes(a)' \subseteq Writes(a)
  PROVE  Covered'
<1>1. started \in Nat
  BY DEF Order, AgentsTypes
<1>2. \A a \in Packages : agent'[a] # NoAgent => Installed(a) /\ agent[a].level <= agent'[a].level
  <2>1. \A a \in Packages : agent'[a] # NoAgent => Installed(a) /\ agent[a] \in AgentRow
    BY RunsAndActs DEF Order
  <2>2. QED
    BY <2>1 DEF AgentRow, Levels
<1>3. \A s \in 1 .. started : Keeps(s) => KeepsAfter(s) /\ run'[s].agent = run[s].agent /\ run[s].taint <= run'[s].taint
  <2>1. \A s \in 1 .. started : run[s].taint \in Nat
    BY RunsAndActs DEF Order, RunRow, Levels
  <2>2. QED
    BY <2>1 DEF Keeps, KeepsAfter, UnderWay
<1>4. \A x \in 1 .. made : SameAct(x)
  BY SameActStays
<1>5. QED
  BY <1>1, <1>2, <1>3, <1>4, CoveredKept

LEMMA CoveredStart ==
  ASSUME Order, Order', Covered, NEW a \in Packages, NEW inv \in {"items", "message", "apply"}, NEW x \in Nat,
         Starts(a, inv, x)
  PROVE  Covered'
<1>1. /\ UNCHANGED <<agent, act, made, cut>> /\ started' = started + 1 /\ started \in Nat
      /\ \A r \in Runs \ {started + 1} : run'[r] = run[r]
      /\ \A b \in Packages \ {a} : space'[b] = space[b]
      /\ space'[a] = IF inv = "apply" THEN ApplyBegun(space[a]) ELSE space[a]
  BY DEF Starts, Order, AgentsTypes
<1>2. \A b \in Packages : agent'[b] # NoAgent => Installed(b) /\ agent[b].level <= agent'[b].level
  <2>1. \A b \in Packages : agent'[b] # NoAgent => Installed(b) /\ agent[b] \in AgentRow
    BY <1>1, RunsAndActs DEF Order, Installed
  <2>2. QED
    BY <1>1, <2>1 DEF AgentRow, Levels
<1>3. \A s \in 1 .. started : s \in Runs /\ run[s].taint \in Nat /\ run'[s] = run[s]
  <2>1. \A s \in 1 .. started : s \in Runs /\ run[s].taint \in Nat
    BY RunsAndActs DEF Order, RunRow, Levels
  <2>2. \A s \in 1 .. started : s # started + 1
    BY <1>1
  <2>3. QED
    BY <1>1, <2>1, <2>2
<1>8. \A s \in 1 .. started : Keeps(s) => KeepsAfter(s) /\ run'[s].agent = run[s].agent /\ run[s].taint <= run'[s].taint
  BY <1>3 DEF Keeps, KeepsAfter, UnderWay
<1>9. \A s \in 1 .. started' : run'[s].pc = "raised" =>
        s \in 1 .. started /\ run[s].pc = "raised" /\ run'[s].agent = run[s].agent /\ run'[s].taint = run[s].taint
  <2>1. run'[started + 1].pc = "running"
    BY DEF Starts
  <2>2. \A s \in 1 .. started' : s \in 1 .. started \/ s = started + 1
    BY <1>1
  <2>3. QED
    BY <1>3, <2>1, <2>2
<1>4. \A b \in Packages : Writes(b)' \subseteq Writes(b)
  <2>1. SpaceIsWell(space[a])
    BY DEF Order, AgentsTypes
  <2>2. \A b \in Packages : Writes(b) = WritesOf(space[b]) /\ Writes(b)' = WritesOf(space'[b])
    BY DEF Writes, WritesOf
  <2>3. QED
    BY <1>1, <2>1, <2>2, NoNewWrites
<1>5. \A y \in 1 .. made : SameAct(y)
  BY <1>1, SameActStays
<1>6. started <= started' /\ cut \subseteq cut' /\ made' = made
  BY <1>1
<1>7. QED
  BY <1>2, <1>4, <1>5, <1>6, <1>8, <1>9, CoveredKept

LEMMA CoveredExecute ==
  ASSUME Order, Order', Covered, NEW r \in Runs, Execute(r)
  PROVE  Covered'
<1> DEFINE a == run[r].agent
           w == WriteOf(r)
<1>1. /\ GoesOn(r) /\ run[r].pc = "running" /\ run'[r].pc = "running" /\ run'[r].taint = run[r].taint
      /\ run'[r].missed = run[r].missed
      /\ UNCHANGED <<agent, act, made, cut>>
      /\ \A b \in Packages \ {a} : space'[b] = space[b]
      /\ space'[a] = IF Installed(a) THEN Written(space[a], w) ELSE space[a]
  BY ExecuteMoves DEF Order
<1>2. started' = started /\ started \in Nat /\ r \in 1 .. started /\ a \in Packages /\ run[r].taint \in Levels
  BY <1>1 DEF GoesOn, Order, AgentsTypes, RunRow
<1>3. \A b \in Packages : agent'[b] # NoAgent => Installed(b) /\ agent[b].level <= agent'[b].level
  <2>1. \A b \in Packages : agent'[b] # NoAgent => Installed(b) /\ agent[b] \in AgentRow
    BY <1>1, RunsAndActs DEF Order, Installed
  <2>2. QED
    BY <1>1, <2>1 DEF AgentRow, Levels
<1>4. \A s \in 1 .. started : /\ s \in Runs /\ run[s].taint \in Nat
                              /\ run'[s].agent = run[s].agent /\ run'[s].taint = run[s].taint /\ run'[s].pc = run[s].pc
                              /\ Keeps(s) => KeepsAfter(s)
  <2>1. \A s \in 1 .. started : s \in Runs /\ run[s].taint \in Nat
    BY RunsAndActs DEF Order, RunRow, Levels
  <2>2. \A s \in 1 .. started : run'[s].pc = run[s].pc /\ run'[s].missed = run[s].missed
    BY <1>1, <2>1 DEF GoesOn
  <2>3. QED
    BY <1>1, <2>1, <2>2 DEF GoesOn, Keeps, KeepsAfter, UnderWay
<1>13. \A s \in 1 .. started : Keeps(s) => KeepsAfter(s) /\ run'[s].agent = run[s].agent /\ run[s].taint <= run'[s].taint
  BY <1>4
<1>14. \A s \in 1 .. started' : run'[s].pc = "raised" =>
         s \in 1 .. started /\ run[s].pc = "raised" /\ run'[s].agent = run[s].agent /\ run'[s].taint = run[s].taint
  BY <1>2, <1>4
\* What is written carries the run's level, or that of the proposal.
<1>5. ASSUME a \notin cut, Installed(a) PROVE w.run = r /\ w.level \in Levels /\ UnderAfter(a, w.level)
  <2>1. w.run = r /\ w.level = IF Applying(r) THEN Higher(run[r].taint, act[run[r].act].level) ELSE run[r].taint
    BY DEF WriteOf
  <2>2. UnderAfter(a, run[r].taint)
    BY <1>1, <1>2, <1>4 DEF UnderAfter, KeepsAfter, Levels
  <2>3. CASE ~Applying(r)
    BY <1>2, <2>1, <2>2, <2>3
  <2>4. CASE Applying(r)
    <3> DEFINE x == run[r].act
    <3>1. x \in 1 .. made /\ act[x].agent = a
      BY <1>2, <2>4 DEF Order, Born
    <3>2. act[x].level \in Levels
      BY <3>1, RunsAndActs DEF Order, ActRow
    <3>3. Under(a, act[x].level)
      BY <1>2, <1>5, <3>1 DEF Covered
    <3> DEFINE l == act[x].level
    <3>4. UnderAfter(a, l)
      <4> HIDE DEF l
      <4>1. Under(a, l)
        BY <3>3 DEF l
      <4>2. QED
        BY <1>1, <1>2, <1>4, <4>1 DEF Under, UnderAfter
    <3>5. w.level \in {run[r].taint, l}
      BY <2>1, <2>4 DEF Higher
    <3>6. QED
      BY <1>2, <2>1, <2>2, <3>2, <3>4, <3>5
  <2>5. QED
    BY <2>3, <2>4
<1>6. \A b \in Packages : Writes(b) = WritesOf(space[b]) /\ Writes(b)' = WritesOf(space'[b])
  BY DEF Writes, WritesOf
<1>7. SpaceIsWell(space[a])
  BY <1>2 DEF Order, AgentsTypes
<1>8. WritesOf(Written(space[a], w)) \subseteq WritesOf(space[a]) \cup {w}
  BY <1>7, NoNewWrites
<1> HIDE DEF w
<1>9. ASSUME NEW b \in Packages \ cut', agent'[b] # NoAgent, NEW v \in Writes(b)'
      PROVE  v \in Writes(b) \/ (v.run \in 1 .. started' /\ v.level \in Levels /\ UnderAfter(b, v.level))
  <2>1. CASE b # a
    BY <1>1, <1>6, <1>9, <2>1
  <2>2. CASE b = a
    <3>1. Installed(a) /\ a \notin cut
      BY <1>1, <1>9, <2>2 DEF Installed
    <3>2. v \in Writes(a) \/ v = w
      <4>1. v \in WritesOf(space'[a]) /\ space'[a] = Written(space[a], w) /\ Writes(a) = WritesOf(space[a])
        BY <1>1, <1>2, <1>6, <1>9, <2>2, <3>1
      <4>2. QED
        BY <1>8, <4>1
    <3>3. QED
      BY <1>2, <1>5, <2>2, <3>1, <3>2
  <2>3. QED
    BY <2>1, <2>2
<1>10. \A y \in 1 .. made : SameAct(y)
  BY <1>1, SameActStays
<1>11. started <= started' /\ cut \subseteq cut' /\ made' = made
  BY <1>1, <1>2
<1>12. QED
  BY <1>2, <1>3, <1>9, <1>10, <1>11, <1>13, <1>14, CoveredKept

LEMMA CoveredPropose ==
  ASSUME Order, Order', Covered, NEW r \in Runs, NEW kind \in {"own", "mail"}, Propose(r, kind)
  PROVE  Covered'
<1>0. PICK y \in Nat : y = made + 1
  BY DEF Order, AgentsTypes
<1>1. /\ GoesOn(r) /\ run[r].pc = "running" /\ run'[r].pc = "running" /\ run'[r].taint = run[r].taint
      /\ run'[r].missed = run[r].missed
      /\ UNCHANGED <<agent, space, cut>> /\ made' = y
      /\ \A x \in ActIds \ {y} : act'[x] = act[x]
  BY <1>0, ProposeMoves DEF Order
<1>2. act'[y].run = r /\ act'[y].agent = run[r].agent /\ act'[y].level = run[r].taint
  <2>1. act'[made + 1] = [status |-> "pending", agent |-> run[r].agent, kind |-> kind, run |-> r, level |-> run[r].taint]
    BY ProposeMoves DEF Order
  <2>2. QED
    BY <1>0, <2>1
<1>3. started' = started /\ started \in Nat /\ r \in 1 .. started /\ run[r].taint \in Levels
  BY <1>1 DEF GoesOn, Order, AgentsTypes, RunRow
<1>4. \A b \in Packages : agent'[b] # NoAgent => Installed(b) /\ agent[b].level <= agent'[b].level
  <2>1. \A b \in Packages : agent'[b] # NoAgent => Installed(b) /\ agent[b] \in AgentRow
    BY <1>1, RunsAndActs DEF Order, Installed
  <2>2. QED
    BY <1>1, <2>1 DEF AgentRow, Levels
<1>5. \A s \in 1 .. started : /\ run'[s].agent = run[s].agent /\ run'[s].taint = run[s].taint /\ run'[s].pc = run[s].pc
                              /\ Keeps(s) => KeepsAfter(s) /\ run[s].taint <= run'[s].taint
  <2>1. \A s \in 1 .. started : s \in Runs /\ run[s].taint \in Nat
    BY RunsAndActs DEF Order, RunRow, Levels
  <2>2. \A s \in 1 .. started : run'[s].pc = run[s].pc /\ run'[s].missed = run[s].missed
    BY <1>1, <2>1 DEF GoesOn
  <2>3. QED
    BY <1>1, <2>1, <2>2 DEF GoesOn, Keeps, KeepsAfter, UnderWay
<1>10. \A s \in 1 .. started : Keeps(s) => KeepsAfter(s) /\ run'[s].agent = run[s].agent /\ run[s].taint <= run'[s].taint
  BY <1>5
<1>11. \A s \in 1 .. started' : run'[s].pc = "raised" =>
         s \in 1 .. started /\ run[s].pc = "raised" /\ run'[s].agent = run[s].agent /\ run'[s].taint = run[s].taint
  BY <1>3, <1>5
<1>6. \A b \in Packages : Writes(b)' = Writes(b)
  BY <1>1 DEF Writes
<1>7. \A x \in 1 .. y : \/ x \in 1 .. made /\ SameAct(x)
                        \/ UnderAfter(act'[x].agent, act'[x].level)
  <2>1. \A x \in 1 .. y : x = y \/ (x \in 1 .. made /\ x \in ActIds /\ x # y)
    <3>1. made \in Nat
      BY DEF Order, AgentsTypes
    <3>2. \A x \in 1 .. y : x = y \/ (x \in 1 .. made /\ x # y)
      BY ONLY <1>0, <3>1
    <3>3. QED
      BY <3>2, RunsAndActs DEF Order
  <2>2. UnderAfter(run[r].agent, run[r].taint)
    BY <1>1, <1>3, <1>5 DEF UnderAfter, KeepsAfter, Levels
  <2>3. QED
    BY <1>1, <1>2, <2>1, <2>2 DEF SameAct
<1>8. started <= started' /\ cut \subseteq cut' /\ made' = y
  BY <1>1, <1>3
<1>9. QED
  BY <1>3, <1>4, <1>6, <1>7, <1>8, <1>10, <1>11, CoveredKept

\* A settled space holds nothing new.
LEMMA CoveredSpace ==
  ASSUME Order, Order', Covered, NEW r \in Runs, Settling(r), SpaceSettles(r)
  PROVE  Covered'
<1>1. /\ GoesOn(r) /\ run'[r].taint = run[r].taint /\ run[r].well \in BOOLEAN
      /\ run'[r].pc = "settled" /\ run[r].missed \subseteq run'[r].missed
      /\ UNCHANGED <<agent, act, made, cut>>
  BY DEF Settling, SpaceSettles, GoesOn, RunRow
<1>2. started' = started /\ started \in Nat /\ r \in 1 .. started
  BY <1>1 DEF GoesOn, Order, AgentsTypes
<1>3. PICK a \in Packages : a = run[r].agent
  BY <1>1 DEF GoesOn, RunRow
<1>4. \A b \in Packages : agent'[b] # NoAgent => Installed(b) /\ agent[b].level <= agent'[b].level
  <2>1. \A b \in Packages : agent'[b] # NoAgent => Installed(b) /\ agent[b] \in AgentRow
    BY <1>1, RunsAndActs DEF Order, Installed
  <2>2. QED
    BY <1>1, <2>1 DEF AgentRow, Levels
<1>5. \A s \in 1 .. started : /\ s \in Runs /\ run[s].taint \in Nat
                              /\ s # r => run'[s] = run[s]
  BY <1>1, RunsAndActs DEF GoesOn, Order, RunRow, Levels
<1>6. \A s \in 1 .. started : Keeps(s) => KeepsAfter(s) /\ run'[s].agent = run[s].agent /\ run[s].taint <= run'[s].taint
  BY <1>1, <1>5 DEF GoesOn, Keeps, KeepsAfter, UnderWay
<1>7. \A s \in 1 .. started' : run'[s].pc = "raised" =>
        s \in 1 .. started /\ run[s].pc = "raised" /\ run'[s].agent = run[s].agent /\ run'[s].taint = run[s].taint
  BY <1>1, <1>2, <1>5
<1>8. \A b \in Packages : Writes(b)' \subseteq Writes(b)
  <2>1. SpaceIsWell(space[a])
    BY DEF Order, AgentsTypes
  <2>2. \A b \in Packages : Writes(b) = WritesOf(space[b]) /\ Writes(b)' = WritesOf(space'[b])
    BY DEF Writes, WritesOf
  <2>3. space'[a] \in {space[a], RolledBack(space[a]), RolledBack(ApplyEnded(space[a], run[r].well))}
    BY <1>3 DEF SpaceSettles, SettledSpace
  <2>4. WritesOf(space'[a]) \subseteq WritesOf(space[a])
    BY <1>1, <2>1, <2>3, NoNewWrites
  <2>5. \A b \in Packages \ {a} : space'[b] = space[b]
    BY <1>3 DEF SpaceSettles
  <2>6. QED
    BY <2>2, <2>4, <2>5
<1>9. \A y \in 1 .. made : SameAct(y)
  BY <1>1, SameActStays
<1>10. started <= started' /\ cut \subseteq cut' /\ made' = made
  BY <1>1, <1>2
<1>11. QED
  BY <1>4, <1>6, <1>7, <1>8, <1>9, <1>10, CoveredKept

\* The agent rises to what the run read, or the run goes on keeping it.
LEMMA CoveredLevel ==
  ASSUME Order, Order', Covered, NEW r \in Runs, Settling(r), LevelSettles(r)
  PROVE  Covered'
<1>1. /\ GoesOn(r) /\ run'[r].taint = run[r].taint /\ UNCHANGED <<space, act, made, cut>>
      /\ run[r].missed \subseteq run'[r].missed
      /\ \A b \in Packages : agent'[b] # NoAgent <=> Installed(b)
  BY DEF Settling, LevelSettles, Installed
<1>2. started' = started /\ started \in Nat /\ r \in 1 .. started
  BY <1>1 DEF GoesOn, Order, AgentsTypes
<1>3. PICK a \in Packages : a = run[r].agent
  BY <1>1 DEF GoesOn, RunRow
<1>4. run[r].taint \in Levels /\ run'[r].agent = a
  BY <1>1, <1>3 DEF GoesOn, RunRow
<1>5. \A b \in Packages : agent'[b] # NoAgent =>
         /\ Installed(b) /\ agent[b].level <= agent'[b].level
         /\ b = a /\ run'[r].pc = "raised" => run[r].taint <= agent'[b].level
  <2>1. \A b \in Packages : agent'[b] # NoAgent => Installed(b) /\ agent[b].level \in Levels
    BY <1>1, RunsAndActs DEF Order, AgentRow
  <2>2. \A b \in Packages \ {a} : agent'[b] = agent[b]
    BY <1>3 DEF LevelSettles
  <2>3. \/ agent'[a].level = Higher(agent[a].level, run[r].taint)
        \/ agent' = agent /\ run'[r].pc = "done"
    BY <1>3 DEF LevelSettles
  <2>4. QED
    BY <1>4, <2>1, <2>2, <2>3 DEF Higher, Levels
<1>6. KeepsAfter(r)
  BY DEF LevelSettles, KeepsAfter
<1>7. \A s \in 1 .. started : /\ s \in Runs /\ run[s].taint \in Nat
                              /\ s # r => run'[s] = run[s]
  BY <1>1, RunsAndActs DEF GoesOn, Order, RunRow, Levels
<1>8. \A s \in 1 .. started : Keeps(s) => KeepsAfter(s) /\ run'[s].agent = run[s].agent /\ run[s].taint <= run'[s].taint
  BY <1>1, <1>6, <1>7 DEF GoesOn, Keeps, KeepsAfter, UnderWay
<1>9. ASSUME NEW s \in 1 .. started', run'[s].pc = "raised"
      PROVE  \/ s \in 1 .. started /\ run[s].pc = "raised" /\ run'[s].agent = run[s].agent /\ run'[s].taint = run[s].taint
             \/ run'[s].taint <= agent'[run'[s].agent].level
  <2>1. CASE s = r
    <3>1. Installed(a)
      BY <1>3, <1>9, <2>1 DEF LevelSettles
    <3>2. QED
      BY <1>1, <1>4, <1>5, <1>9, <2>1, <3>1
  <2>2. CASE s # r
    BY <1>2, <1>7, <1>9, <2>2
  <2>3. QED
    BY <2>1, <2>2
<1>10. \A b \in Packages : Writes(b)' = Writes(b)
  BY <1>1 DEF Writes
<1>11. \A y \in 1 .. made : SameAct(y)
  BY <1>1, SameActStays
<1>12. started <= started' /\ cut \subseteq cut' /\ made' = made
  BY <1>1, <1>2
<1>13. QED
  BY <1>5, <1>8, <1>9, <1>10, <1>11, <1>12, CoveredKept

\* When the run is recorded the agent has its level.
LEMMA CoveredRecord ==
  ASSUME Order, Order', Covered, NEW r \in Runs, Settling(r), RecordSettles(r)
  PROVE  Covered'
<1>1. /\ GoesOn(r) /\ UNCHANGED <<agent, space, act, made, cut>>
      /\ run'[r].taint = run[r].taint /\ run[r].missed \subseteq run'[r].missed
      /\ run'[r].pc = "done" /\ run[r].pc = "raised"
  BY DEF Settling, RecordSettles
<1>2. run[r].agent \in Packages /\ r \in 1 .. started /\ run[r].taint \in Nat
  BY <1>1 DEF GoesOn, RunRow, Levels
<1>3. run[r].agent \notin cut /\ agent[run[r].agent] # NoAgent => run[r].taint <= agent[run[r].agent].level
  BY <1>1, <1>2 DEF Covered, Installed
<1>4. run[r].taint <= run'[r].taint
  BY <1>1, <1>2
<1>5. QED
  BY <1>1, <1>3, <1>4, CoveredGoesOn

LEMMA CoveredRestart ==
  ASSUME Order, Order', Covered, AgentsRestart
  PROVE  Covered'
<1>1. /\ UNCHANGED <<agent, started, act, made>> /\ started \in Nat /\ cut \subseteq cut'
      /\ \A a \in Packages : space'[a] = RolledBack(space[a])
      /\ \A r \in 1 .. started : UnderWay(r) => run[r].agent \in cut'
      /\ \A r \in 1 .. started : /\ run'[r].missed = run[r].missed /\ run'[r].agent = run[r].agent
                                 /\ run'[r].taint = run[r].taint /\ run'[r].pc # "raised"
  BY RestartMoves DEF Order, AgentsTypes
<1>2. \A b \in Packages : agent'[b] # NoAgent => Installed(b) /\ agent[b].level <= agent'[b].level
  <2>1. \A b \in Packages : agent'[b] # NoAgent => Installed(b) /\ agent[b] \in AgentRow
    BY <1>1, RunsAndActs DEF Order, Installed
  <2>2. QED
    BY <1>1, <2>1 DEF AgentRow, Levels
<1>3. \A b \in Packages : Writes(b)' \subseteq Writes(b)
  <2>1. \A b \in Packages : SpaceIsWell(space[b])
    BY DEF Order, AgentsTypes
  <2>2. \A b \in Packages : Writes(b) = WritesOf(space[b]) /\ Writes(b)' = WritesOf(space'[b])
    BY DEF Writes, WritesOf
  <2>3. QED
    BY <1>1, <2>1, <2>2, NoNewWrites
<1>4. \A y \in 1 .. made : SameAct(y)
  BY <1>1, SameActStays
<1>5. started <= started' /\ made' = made
  BY <1>1
<1>6. \A r \in 1 .. started : Keeps(r) /\ run[r].agent \notin cut' =>
        KeepsAfter(r) /\ run'[r].agent = run[r].agent /\ run[r].taint <= run'[r].taint
  <2>1. \A r \in 1 .. started : run[r].taint \in Nat
    BY RunsAndActs DEF Order, RunRow, Levels
  <2>2. QED
    BY <1>1, <2>1 DEF Keeps, KeepsAfter
<1>7. QED
  BY <1>1, <1>2, <1>3, <1>4, <1>5, <1>6, CoveredKept

LEMMA CoveredStays ==
  ASSUME Order, Order', Covered, Kinds
  PROVE  Covered'
<1>1. CASE Calm
  <2>1. /\ UNCHANGED <<space, run, started, cut>> /\ made' = made /\ SameActs
        /\ \A a \in Packages : agent'[a] # NoAgent => Installed(a) /\ agent[a].level = agent'[a].level
    BY <1>1 DEF Calm, SameAgent, SameActs, Installed
  <2>2. \A a \in Packages : Writes(a)' = Writes(a)
    BY <2>1 DEF Writes
  <2>3. QED
    BY <2>1, <2>2, CoveredStill
<1>3. ASSUME NEW a \in Packages, Remove(a) PROVE Covered'
  <2>1. /\ UNCHANGED <<run, started, cut, act, made>> /\ agent'[a] = NoAgent
        /\ \A b \in Packages \ {a} : agent'[b] = agent[b] /\ space'[b] = space[b]
    BY <1>3, RemoveMoves DEF Order, Installed
  <2>2. \A b \in Packages : agent'[b] # NoAgent => /\ Installed(b) /\ agent[b].level = agent'[b].level
                                                   /\ Writes(b)' = Writes(b)
    BY <2>1 DEF Installed, Writes
  <2>3. QED
    BY <2>1, <2>2, CoveredStill
<1>4. ASSUME NEW r \in Runs, NEW i \in Items, Read(r, i) PROVE Covered'
  <2>1. /\ GoesOn(r) /\ UNCHANGED <<agent, space, act, made, cut>>
        /\ run[r].taint <= run'[r].taint /\ run[r].pc = "running" /\ run'[r].pc = "running"
        /\ run'[r].missed = run[r].missed
    <3>1. /\ GoesOn(r) /\ UNCHANGED <<agent, space, act, made, cut>>
          /\ run'[r].taint >= run[r].taint /\ run[r].pc = "running" /\ run'[r].pc = "running"
          /\ run'[r].missed = run[r].missed
      BY <1>4, ReadMoves DEF Order
    <3>2. run[r].taint \in Nat /\ run'[r].taint \in Nat
      BY <3>1 DEF GoesOn, RunRow, Levels
    <3>3. QED
      BY <3>1, <3>2
  <2>2. QED
    BY <2>1, CoveredGoesOn DEF KeepsAfter
<1>5. ASSUME NEW r \in Runs, ExecuteBegin(r) \/ ExecuteCommit(r) PROVE Covered'
  <2>1. /\ UNCHANGED <<run, started, agent, act, made, cut>>
        /\ run[r].agent \in Packages
        /\ \A a \in Packages \ {run[r].agent} : space'[a] = space[a]
        /\ space'[run[r].agent] \in {Begun(space[run[r].agent]), Committed(space[run[r].agent])}
    BY <1>5, TransactionMoves DEF Order, RunRow
  <2>2. SpaceIsWell(space[run[r].agent])
    BY <2>1 DEF Order, AgentsTypes
  <2>3. \A b \in Packages : Writes(b) = WritesOf(space[b]) /\ Writes(b)' = WritesOf(space'[b])
    BY DEF Writes, WritesOf
  <2>4. \A b \in Packages : Writes(b)' \subseteq Writes(b)
    BY <2>1, <2>2, <2>3, NoNewWrites
  <2>5. \A b \in Packages : agent'[b] # NoAgent => Installed(b) /\ agent[b].level = agent'[b].level
    BY <2>1 DEF Installed
  <2>6. QED
    BY <2>1, <2>4, <2>5, CoveredStill
<1>6. ASSUME NEW r \in Runs,
             \/ \E well \in BOOLEAN : End(r, well)
             \/ ClientLeaves(r)
             \/ Report(r)
      PROVE  Covered'
  <2>1. /\ GoesOn(r) /\ UNCHANGED <<agent, space>> /\ made' = made /\ (act' = act \/ SameActs)
        /\ cut \subseteq cut' /\ run'[r].taint = run[r].taint /\ run'[r].missed = run[r].missed /\ run'[r].pc # "raised"
        /\ run[r].agent \notin cut' /\ UnderWay(r) => run'[r].pc \in {"running", "over", "settled", "raised"}
    <3>1. ASSUME NEW well \in BOOLEAN, End(r, well) PROVE <2>1!:
      <4>1. /\ GoesOn(r) /\ UNCHANGED <<agent, space, act, made, cut>> /\ run'[r].taint = run[r].taint
            /\ run'[r].missed = run[r].missed /\ run[r].pc = "running" /\ run'[r].pc = (IF run[r].left THEN "done" ELSE "over")
        BY <3>1, EndMoves DEF Order
      <4>2. run[r].left => run[r].agent \in cut
        BY <4>1 DEF GoesOn, Order, OneTurn
      <4>3. QED
        BY <4>1, <4>2
    <3>2. CASE ClientLeaves(r)
      BY <3>2, LeaveMoves DEF Order
    <3>3. CASE Report(r)
      BY <3>3, ReportMoves DEF Order, SameActs, UnderWay
    <3>4. QED
      BY <1>6, <3>1, <3>2, <3>3
  <2>2. run[r].taint <= run'[r].taint
    BY <2>1 DEF GoesOn, RunRow, Levels
  <2>3. QED
    BY <2>1, <2>2, CoveredGoesOn DEF KeepsAfter
<1>7. ASSUME NEW r \in Runs,
             \/ SettleSpace(r) \/ SpaceFails(r) \/ RaiseLevel(r) \/ LevelFails(r)
             \/ Record(r) \/ RecordFails(r) \/ LedgerFails(r)
      PROVE  Covered'
  <2>1. Settling(r) /\ (SpaceSettles(r) \/ LevelSettles(r) \/ RecordSettles(r))
    BY <1>7, SettleSpaceMoves, SettleLevelMoves, SettleRecordMoves DEF Order
  <2>2. QED
    BY <2>1, CoveredSpace, CoveredLevel, CoveredRecord
<1>8. QED
  BY <1>1, <1>3, <1>4, <1>5, <1>6, <1>7, CoveredInstall, CoveredStart, CoveredExecute, CoveredPropose,
     CoveredRestart DEF Kinds

-----------------------------------------------------------------------------
(* Reports.                                                                 *)

\* A run misses nothing before it settles, and only the run of an approved
\* effect reports to one, what it knows.
Reported ==
  \A r \in 1 .. started :
    /\ run[r].pc \in {"running", "over"} => run[r].missed = {}
    /\ run[r].pc = "reported" =>
         Applying(r) /\ act[run[r].act].status = IF WentWell(r) THEN "executed" ELSE "failed"

\* Where it says so of a run after the step.
ReportedAfter(r) ==
  /\ run'[r].pc \in {"running", "over"} => run'[r].missed = {}
  /\ run'[r].pc = "reported" =>
       /\ run'[r].inv = "apply"
       /\ act'[run'[r].act].status =
            IF run'[r].well /\ run'[r].missed \subseteq {"space"} THEN "executed" ELSE "failed"

\* What an effect has come to stays, and so does what its run knew.
LEMMA ReportedKept ==
  ASSUME Order, Reported, \A x \in 1 .. made : SameAct(x),
         \A r \in 1 .. started' :
           \/ /\ r \in 1 .. started
              /\ run'[r].inv = run[r].inv /\ run'[r].act = run[r].act
              /\ run'[r].well = run[r].well /\ run'[r].missed = run[r].missed
              /\ run'[r].pc \in {"running", "over"} => run[r].pc \in {"running", "over"}
              /\ run'[r].pc = "reported" => run[r].pc = "reported"
           \/ ReportedAfter(r)
  PROVE  Reported'
<1>1. ASSUME NEW r \in 1 .. started,
             run'[r].inv = run[r].inv, run'[r].act = run[r].act,
             run'[r].well = run[r].well, run'[r].missed = run[r].missed,
             run'[r].pc \in {"running", "over"} => run[r].pc \in {"running", "over"},
             run'[r].pc = "reported" => run[r].pc = "reported"
      PROVE  ReportedAfter(r)
  <2>1. ASSUME run'[r].pc = "reported"
        PROVE  /\ run'[r].inv = "apply"
               /\ act'[run'[r].act].status =
                    IF run'[r].well /\ run'[r].missed \subseteq {"space"} THEN "executed" ELSE "failed"
    <3>1. /\ run[r].inv = "apply"
          /\ act[run[r].act].status = IF run[r].well /\ run[r].missed \subseteq {"space"} THEN "executed" ELSE "failed"
      BY <1>1, <2>1 DEF Reported, Applying, WentWell
    <3>2. run[r].act \in 1 .. made
      BY <3>1 DEF Order, Born, Applying
    <3>3. act'[run[r].act].status = act[run[r].act].status
      BY <3>1, <3>2 DEF SameAct
    <3>4. QED
      BY <1>1, <3>1, <3>3
  <2>2. QED
    BY <1>1, <2>1 DEF ReportedAfter, Reported
<1>2. \A r \in 1 .. started' : ReportedAfter(r)
  BY <1>1
<1>3. QED
  BY <1>2 DEF Reported, ReportedAfter, Applying, WentWell

\* A run goes on.
LEMMA ReportedGoesOn ==
  ASSUME Order, Reported, NEW r, GoesOn(r), \A x \in 1 .. made : SameAct(x),
         \/ /\ run'[r].well = run[r].well /\ run'[r].missed = run[r].missed
            /\ run'[r].pc \in {"running", "over"} => run[r].pc \in {"running", "over"}
            /\ run'[r].pc = "reported" => run[r].pc = "reported"
         \/ ReportedAfter(r)
  PROVE  Reported'
<1>1. \A s \in 1 .. started' : s \in 1 .. started /\ (s # r => run'[s] = run[s])
  BY RunsAndActs DEF GoesOn, Order
<1>2. run'[r].inv = run[r].inv /\ run'[r].act = run[r].act
  BY DEF GoesOn
<1>3. QED
  BY <1>1, <1>2, ReportedKept

LEMMA ReportedStays ==
  ASSUME Order, Order', Reported, Kinds
  PROVE  Reported'
<1>1. ASSUME UNCHANGED <<run, started>>, act' = act \/ SameActs PROVE Reported'
  BY <1>1, SameActStays, ReportedKept
<1>2. CASE Calm
  BY <1>1, <1>2 DEF Calm
<1>3. CASE \E a \in Packages : Install(a) \/ Remove(a)
  BY <1>1, <1>3, InstallMoves, RemoveMoves DEF Order
<1>4. ASSUME NEW a \in Packages, NEW inv \in {"items", "message", "apply"}, NEW x \in Nat, Starts(a, inv, x)
      PROVE  Reported'
  <2>0. PICK s \in Nat : s = started + 1
    BY DEF Order, AgentsTypes
  <2>1. /\ started' = s /\ run'[s].pc = "running" /\ run'[s].missed = {} /\ act' = act
        /\ \A r \in Runs \ {s} : run'[r] = run[r]
    BY <1>4, <2>0 DEF Starts
  <2>2. started \in Nat
    BY DEF Order, AgentsTypes
  <2>3. 1 .. s = 1 .. started \cup {s} /\ s \notin 1 .. started
    BY ONLY <2>0, <2>2
  <2>4. \A r \in 1 .. started : run'[r] = run[r]
    BY <2>1, <2>3, RunsAndActs DEF Order
  <2>5. ReportedAfter(s)
    BY <2>1 DEF ReportedAfter
  <2>6. \A y \in 1 .. made : SameAct(y)
    BY <2>1, SameActStays
  <2>7. QED
    BY <2>1, <2>3, <2>4, <2>5, <2>6, ReportedKept
<1>5. ASSUME NEW r \in Runs, Execute(r) \/ \E i \in Items : Read(r, i) PROVE Reported'
  <2>1. /\ GoesOn(r) /\ act' = act /\ run[r].pc = "running" /\ run'[r].pc = "running"
        /\ run'[r].missed = run[r].missed
    BY <1>5, ReadMoves, ExecuteMoves DEF Order
  <2>2. ReportedAfter(r)
    BY <2>1 DEF ReportedAfter, Reported, GoesOn
  <2>3. QED
    BY <2>1, <2>2, SameActStays, ReportedGoesOn
<1>6. CASE \E r \in Runs : ExecuteBegin(r) \/ ExecuteCommit(r)
  BY <1>1, <1>6, TransactionMoves DEF Order
<1>7. ASSUME NEW r \in Runs, NEW kind \in {"own", "mail"}, Propose(r, kind) PROVE Reported'
  <2>0. PICK y \in Nat : y = made + 1
    BY DEF Order, AgentsTypes
  <2>1. /\ GoesOn(r) /\ run[r].pc = "running" /\ run'[r].pc = "running" /\ run'[r].missed = run[r].missed
        /\ \A x \in ActIds \ {y} : act'[x] = act[x]
    BY <1>7, <2>0, ProposeMoves DEF Order
  <2>2. made \in Nat
    BY DEF Order, AgentsTypes
  <2>3. y \notin 1 .. made
    BY ONLY <2>0, <2>2
  <2>4. \A x \in 1 .. made : act'[x] = act[x]
    BY <2>1, <2>3, RunsAndActs DEF Order
  <2>5. ReportedAfter(r)
    BY <2>1 DEF ReportedAfter, Reported, GoesOn
  <2>6. QED
    BY <2>1, <2>4, <2>5, ReportedGoesOn DEF SameAct
<1>8. ASSUME NEW r \in Runs, NEW well \in BOOLEAN, End(r, well) PROVE Reported'
  <2>1. /\ GoesOn(r) /\ act' = act /\ run[r].pc = "running" /\ run'[r].pc \in {"over", "done"}
        /\ run'[r].missed = run[r].missed
    BY <1>8, EndMoves DEF Order
  <2>2. ReportedAfter(r)
    BY <2>1 DEF ReportedAfter, Reported, GoesOn
  <2>3. QED
    BY <2>1, <2>2, SameActStays, ReportedGoesOn
<1>9. ASSUME NEW r \in Runs,
             \/ SettleSpace(r) \/ SpaceFails(r) \/ RaiseLevel(r) \/ LevelFails(r)
             \/ Record(r) \/ RecordFails(r) \/ LedgerFails(r)
      PROVE  Reported'
  <2>1. Settling(r) /\ (SpaceSettles(r) \/ LevelSettles(r) \/ RecordSettles(r))
    BY <1>9, SettleSpaceMoves, SettleLevelMoves, SettleRecordMoves DEF Order
  <2>2. GoesOn(r) /\ act' = act /\ run'[r].pc \in {"settled", "raised", "done"}
    BY <2>1 DEF Settling, SpaceSettles, LevelSettles, RecordSettles
  <2>3. ReportedAfter(r)
    BY <2>2 DEF ReportedAfter
  <2>4. QED
    BY <2>2, <2>3, SameActStays, ReportedGoesOn
<1>10. ASSUME NEW r \in Runs, ClientLeaves(r) PROVE Reported'
  <2>1. /\ GoesOn(r) /\ act' = act /\ run[r].pc \in {"running", "over"} /\ run'[r].pc \in {"running", "done"}
        /\ run'[r].missed = run[r].missed /\ run'[r].well = run[r].well
    BY <1>10, LeaveMoves DEF Order
  <2>2. QED
    BY <2>1, SameActStays, ReportedGoesOn
<1>11. ASSUME NEW r \in Runs, Report(r) PROVE Reported'
  <2>1. /\ GoesOn(r) /\ SameActs /\ run[r].inv = "apply" /\ run'[r].pc = "reported"
        /\ run'[r].missed = run[r].missed /\ run'[r].well = run[r].well
        /\ act'[run[r].act].status = IF WentWell(r) THEN "executed" ELSE "failed"
    BY <1>11, ReportMoves DEF Order
  <2>2. run'[r].inv = run[r].inv /\ run'[r].act = run[r].act
    BY <2>1 DEF GoesOn
  <2>3. ReportedAfter(r)
    BY <2>1, <2>2 DEF ReportedAfter, WentWell
  <2>4. QED
    BY <2>1, <2>3, SameActStays, ReportedGoesOn
<1>12. CASE AgentsRestart
  <2>1. act' = act /\ started' = started
    BY <1>12 DEF AgentsRestart
  <2>2. QED
    BY <1>12, <2>1, RestartMoves, SameActStays, ReportedKept DEF Order
<1>13. QED
  BY <1>2, <1>3, <1>4, <1>5, <1>6, <1>7, <1>8, <1>9, <1>10, <1>11, <1>12 DEF Kinds

-----------------------------------------------------------------------------
(* Effects.                                                                 *)

\* A run that applies an effect holds all it wrote in the savepoint.
Held(s, r, n) ==
  /\ \A w \in s.kept : w.run # r
  /\ s.txn.open /\ ~s.txn.begun /\ s.txn.marked /\ s.txn.mark = {}
  /\ {w.n : w \in s.txn.writes} = 1 .. n

\* What a run has left in the space, and what it should have.
LandedIn(s, r) == {w.n : w \in {v \in s.kept : v.run = r}}
Effect(r) == IF run[r].well /\ "space" \notin run[r].missed THEN 1 .. run[r].writes ELSE {}

\* A run that has not settled its space, and one that has.
Unsettled(r) == run[r].pc \in {"running", "over"}
Settled(r) == run[r].pc \in {"settled", "raised", "done", "reported"}
Busy(a) == turn # 0 /\ run[turn].agent = a /\ Unsettled(turn)

WholeAt(a) ==
  /\ ~Busy(a) => space[a].txn = Closed
  /\ \A w \in space[a].txn.writes : w.run = turn
  /\ Installed(a) => \A r \in 1 .. started : run[r].agent = a /\ Applying(r) =>
       /\ Unsettled(r) => Held(space[a], r, run[r].writes)
       /\ Settled(r) => LandedIn(space[a], r) = Effect(r)

\* Nobody's transaction outlives its turn, and an effect is held back until it
\* has ended.
Whole == \A a \in Packages \ cut : WholeAt(a)

EffectAfter(r) == IF run'[r].well /\ "space" \notin run'[r].missed THEN 1 .. run'[r].writes ELSE {}

LEMMA WholeMeans ==
  ASSUME NEW a \in Packages, NEW s,
         ~(turn' # 0 /\ run'[turn'].agent = a /\ run'[turn'].pc \in {"running", "over"}) => space'[a].txn = Closed,
         \A w \in space'[a].txn.writes : w.run = turn',
         agent'[a] # NoAgent => \A r \in 1 .. s : run'[r].agent = a /\ run'[r].inv = "apply" =>
           /\ run'[r].pc \in {"running", "over"} => Held(space'[a], r, run'[r].writes)
           /\ run'[r].pc \in {"settled", "raised", "done", "reported"} => LandedIn(space'[a], r) = EffectAfter(r),
         started' = s
  PROVE  WholeAt(a)'
BY DEF WholeAt, Installed, Busy, Unsettled, Settled, Applying, EffectAfter, Effect

LEMMA WholeSame ==
  ASSUME Order, Order', Whole, NEW a \in Packages \ cut', cut \subseteq cut', space'[a] = space[a],
         agent'[a] # NoAgent => Installed(a) \/ \A r \in 1 .. started : run[r].agent # a,
         \A r \in 1 .. started' : run'[r].agent = a =>
           /\ r \in 1 .. started /\ run[r].agent = a /\ run'[r].inv = run[r].inv /\ run'[r].writes = run[r].writes
           /\ run'[r].pc \in {"running", "over"} => Unsettled(r)
           /\ run'[r].pc \in {"settled", "raised", "done", "reported"} =>
                Settled(r) /\ run'[r].well = run[r].well /\ ("space" \in run'[r].missed <=> "space" \in run[r].missed),
         Busy(a) => turn' = turn /\ run'[turn].agent = a /\ run'[turn].pc \in {"running", "over"}
  PROVE  WholeAt(a)'
<1>1. WholeAt(a)
  BY DEF Whole
<1>2. /\ ~(turn' # 0 /\ run'[turn'].agent = a /\ run'[turn'].pc \in {"running", "over"}) => space'[a].txn = Closed
      /\ \A w \in space'[a].txn.writes : w.run = turn'
  <2>1. CASE Busy(a)
    BY <1>1, <2>1 DEF WholeAt, Busy
  <2>2. CASE ~Busy(a)
    BY <1>1, <2>2 DEF WholeAt, Closed
  <2>3. QED
    BY <2>1, <2>2
<1>3. ASSUME agent'[a] # NoAgent, NEW r \in 1 .. started', run'[r].agent = a, run'[r].inv = "apply"
      PROVE  /\ run'[r].pc \in {"running", "over"} => Held(space'[a], r, run'[r].writes)
             /\ run'[r].pc \in {"settled", "raised", "done", "reported"} => LandedIn(space'[a], r) = EffectAfter(r)
  <2>1. /\ r \in 1 .. started /\ run[r].agent = a /\ run[r].inv = "apply" /\ run'[r].writes = run[r].writes
        /\ run'[r].pc \in {"running", "over"} => Unsettled(r)
        /\ run'[r].pc \in {"settled", "raised", "done", "reported"} =>
             Settled(r) /\ run'[r].well = run[r].well /\ ("space" \in run'[r].missed <=> "space" \in run[r].missed)
    BY <1>3
  <2>2. Installed(a)
    BY <1>3, <2>1
  <2>3. /\ Unsettled(r) => Held(space[a], r, run[r].writes)
        /\ Settled(r) => LandedIn(space[a], r) = Effect(r)
    BY <1>1, <2>1, <2>2 DEF WholeAt, Applying
  <2>4. run'[r].pc \in {"settled", "raised", "done", "reported"} => EffectAfter(r) = Effect(r)
    BY <2>1 DEF EffectAfter, Effect
  <2>5. QED
    BY <2>1, <2>3, <2>4
<1>4. QED
  BY <1>2, <1>3, WholeMeans

LEMMA WholeStart ==
  ASSUME Order, Order', Covered, Whole,
         NEW a \in Packages, NEW inv \in {"items", "message", "apply"}, NEW x \in Nat,
         Starts(a, inv, x), a \notin cut
  PROVE  WholeAt(a)'
<1>0. PICK s \in Nat : s = started + 1
  BY DEF Order, AgentsTypes
<1>1. /\ UNCHANGED <<agent, act, made, cut>> /\ started' = s /\ turn' = s /\ turn = 0 /\ s \in Runs
      /\ \A r \in Runs \ {s} : run'[r] = run[r]
      /\ space'[a] = IF inv = "apply" THEN ApplyBegun(space[a]) ELSE space[a]
      /\ Installed(a)
      /\ run'[s].agent = a /\ run'[s].inv = inv /\ run'[s].pc = "running" /\ run'[s].writes = 0
  BY <1>0 DEF Starts
<1>2. 1 .. s = 1 .. started \cup {s} /\ s \notin 1 .. started /\ s # 0
  <2>1. started \in Nat
    BY DEF Order, AgentsTypes
  <2>2. QED
    BY ONLY <1>0, <2>1
<1>3. \A r \in 1 .. started : run'[r] = run[r]
  BY <1>1, <1>2, RunsAndActs DEF Order
<1>4. space[a].txn = Closed /\ WholeAt(a) /\ SpaceIsWell(space[a])
  BY <1>1 DEF Whole, WholeAt, Busy, Order, AgentsTypes
<1>5. /\ space'[a].kept = space[a].kept /\ space'[a].txn.writes = {}
      /\ inv = "apply" => /\ space'[a].txn.open /\ space'[a].txn.marked /\ ~space'[a].txn.begun
                          /\ space'[a].txn.mark = {}
  <2>1. CASE inv = "apply"
    BY <1>1, <1>4, <2>1, Spaces DEF Closed
  <2>2. CASE inv # "apply"
    BY <1>1, <1>4, <2>2 DEF Closed
  <2>3. QED
    BY <2>1, <2>2
<1>6. ASSUME NEW r \in 1 .. s, run'[r].agent = a, run'[r].inv = "apply"
      PROVE  /\ run'[r].pc \in {"running", "over"} => Held(space'[a], r, run'[r].writes)
             /\ run'[r].pc \in {"settled", "raised", "done", "reported"} => LandedIn(space'[a], r) = EffectAfter(r)
  <2>1. CASE r = s
    <3>1. \A w \in space[a].kept : w.run \in 1 .. started
      BY <1>1 DEF Covered, Writes
    <3>2. {w.n : w \in space'[a].txn.writes} = 1 .. 0
      BY <1>5
    <3>3. Held(space'[a], s, 0)
      BY <1>1, <1>2, <1>5, <1>6, <2>1, <3>1, <3>2 DEF Held
    <3>4. QED
      BY <1>1, <2>1, <3>3
  <2>2. CASE r # s
    <3>1. r \in 1 .. started /\ run'[r] = run[r]
      BY <1>2, <1>3, <2>2
    <3>2. ~UnderWay(r)
      <4>1. UnderWay(r) => turn = r
        BY <1>6, <3>1, OneUnderWay
      <4>2. r # 0
        BY <3>1
      <4>3. QED
        BY <1>1, <4>1, <4>2
    <3>3. Settled(r) => LandedIn(space[a], r) = Effect(r)
      BY <1>1, <1>4, <1>6, <3>1 DEF WholeAt, Applying
    <3>4. LandedIn(space'[a], r) = LandedIn(space[a], r) /\ EffectAfter(r) = Effect(r)
      BY <1>5, <3>1 DEF LandedIn, EffectAfter, Effect
    <3>5. QED
      BY <3>1, <3>2, <3>3, <3>4 DEF UnderWay, Settled
  <2>3. QED
    BY <2>1, <2>2
<1>7. \A w \in space'[a].txn.writes : w.run = s
  BY <1>5
<1>8. turn' # 0 /\ run'[turn'].agent = a /\ run'[turn'].pc \in {"running", "over"}
  BY <1>1, <1>2
<1>9. \A w \in space'[a].txn.writes : w.run = turn'
  BY <1>1, <1>7
<1>10. QED
  BY <1>1, <1>6, <1>8, <1>9, WholeMeans

LEMMA WholeExecute ==
  ASSUME Order, Order', Covered, Whole, NEW r \in Runs, Execute(r), run[r].agent \notin cut
  PROVE  WholeAt(run[r].agent)'
<1>0. PICK a \in Packages : a = run[r].agent
  BY ExecuteMoves DEF GoesOn, RunRow, Order
<1> DEFINE w == WriteOf(r)
<1>1. /\ GoesOn(r) /\ run[r].pc = "running" /\ run'[r].pc = "running"
      /\ run'[r].writes = run[r].writes + 1
      /\ UNCHANGED <<agent, turn, cut>>
      /\ space'[a] = IF Installed(a) THEN Written(space[a], w) ELSE space[a]
  BY <1>0, ExecuteMoves DEF Order
<1>2. /\ r \in 1 .. started /\ started' = started /\ run'[r].agent = a /\ run'[r].inv = run[r].inv
      /\ run[r].writes \in Nat
      /\ \A q \in 1 .. started \ {r} : q \in Runs /\ run'[q] = run[q]
  BY <1>0, <1>1, RunsAndActs DEF GoesOn, RunRow, Order
<1>3. w.run = r /\ w.n = run[r].writes + 1
  BY DEF WriteOf
<1> HIDE DEF w
<1>4. turn = r
  BY <1>0, <1>1, <1>2, OneUnderWay DEF UnderWay
<1>5. WholeAt(a) /\ SpaceIsWell(space[a])
  BY <1>0 DEF Whole, Order, AgentsTypes
<1>6. turn' # 0 /\ run'[turn'].agent = a /\ run'[turn'].pc \in {"running", "over"}
  BY <1>1, <1>2, <1>4
<1>7. CASE ~Installed(a)
  <2>1. agent'[a] = NoAgent /\ \A v \in space'[a].txn.writes : v.run = turn'
    BY <1>1, <1>5, <1>7 DEF WholeAt, Installed
  <2>2. QED
    BY <1>0, <1>2, <1>6, <2>1, WholeMeans
<1>8. CASE Installed(a)
  <2>1. space'[a] = Written(space[a], w)
    BY <1>1, <1>8
  <2>2. /\ space[a].txn.open => /\ space'[a].kept = space[a].kept
                                /\ space'[a].txn.open
                                /\ space'[a].txn.begun = space[a].txn.begun
                                /\ space'[a].txn.marked = space[a].txn.marked
                                /\ space'[a].txn.writes = space[a].txn.writes \cup {w}
                                /\ space'[a].txn.mark = space[a].txn.mark
        /\ ~space[a].txn.open => space'[a].kept = space[a].kept \cup {w} /\ space'[a].txn = space[a].txn
    BY <1>5, <2>1, Wrote
  <2>3. \A v \in space'[a].txn.writes : v.run = turn
    BY <1>3, <1>4, <1>5, <2>2 DEF WholeAt
  <2>4. ASSUME run[r].inv = "apply"
        PROVE  Held(space'[a], r, run[r].writes + 1)
    <3>1. Held(space[a], r, run[r].writes)
      BY <1>0, <1>1, <1>2, <1>5, <1>8, <2>4 DEF WholeAt, Applying, Unsettled
    <3>2. {v.n : v \in space'[a].txn.writes} = {v.n : v \in space[a].txn.writes} \cup {w.n}
      BY <2>2, <3>1 DEF Held
    <3>3. 1 .. run[r].writes + 1 = 1 .. run[r].writes \cup {run[r].writes + 1}
      BY <1>2
    <3>4. {v.n : v \in space'[a].txn.writes} = 1 .. run[r].writes + 1
      BY <1>3, <3>1, <3>2, <3>3 DEF Held
    <3>5. QED
      BY <2>2, <3>1, <3>4 DEF Held
  <2>5. ASSUME NEW q \in 1 .. started, run'[q].agent = a, run'[q].inv = "apply"
        PROVE  /\ run'[q].pc \in {"running", "over"} => Held(space'[a], q, run'[q].writes)
               /\ run'[q].pc \in {"settled", "raised", "done", "reported"} => LandedIn(space'[a], q) = EffectAfter(q)
    <3>1. CASE q = r
      BY <1>1, <1>2, <2>4, <2>5, <3>1
    <3>2. CASE q # r
      <4>1. run'[q] = run[q]
        BY <1>2, <3>2
      <4>2. ~UnderWay(q)
        BY <1>0, <1>4, <2>5, <3>2, <4>1, OneUnderWay
      <4>3. Settled(q) => LandedIn(space[a], q) = Effect(q)
        BY <1>5, <1>8, <2>5, <4>1 DEF WholeAt, Applying
      <4>4. LandedIn(space'[a], q) = LandedIn(space[a], q)
        BY <1>3, <2>2, <3>2 DEF LandedIn
      <4>5. EffectAfter(q) = Effect(q)
        BY <4>1 DEF EffectAfter, Effect
      <4>6. QED
        BY <4>1, <4>2, <4>3, <4>4, <4>5 DEF UnderWay, Settled
    <3>3. QED
      BY <3>1, <3>2
  <2>6. \A v \in space'[a].txn.writes : v.run = turn'
    BY <1>1, <2>3
  <2>7. QED
    BY <1>0, <1>2, <1>6, <2>5, <2>6, WholeMeans
<1>9. QED
  BY <1>7, <1>8

LEMMA WholeTransaction ==
  ASSUME Order, Order', Whole, NEW r \in Runs, ExecuteBegin(r) \/ ExecuteCommit(r), run[r].agent \notin cut
  PROVE  WholeAt(run[r].agent)'
<1>1. /\ r \in 1 .. started /\ run[r] \in RunRow /\ run[r].pc = "running" /\ run[r].inv # "apply"
      /\ UNCHANGED <<run, started, agent, turn, cut>>
  BY TransactionMoves DEF Order
<1>2. PICK a \in Packages : a = run[r].agent
  BY <1>1 DEF RunRow
<1>3. turn = r /\ turn # 0
  BY <1>1, <1>2, OneUnderWay DEF UnderWay
<1>4. WholeAt(a) /\ SpaceIsWell(space[a])
  BY <1>2 DEF Whole, Order, AgentsTypes
<1>5. space'[a] \in {Begun(space[a]), Committed(space[a])}
  BY <1>2, TransactionMoves DEF Order
<1>6. /\ space'[a].kept = space[a].kept \/ space'[a].kept = space[a].kept \cup space[a].txn.writes
      /\ space'[a].txn.writes \subseteq space[a].txn.writes
  <2>1. CASE space'[a] = Begun(space[a])
    <3>1. Begun(space[a]).kept = space[a].kept /\ Begun(space[a]).txn.writes = space[a].txn.writes
      BY <1>4, Spaces
    <3>2. QED
      BY <2>1, <3>1
  <2>2. CASE space'[a] = Committed(space[a])
    <3>1. Committed(space[a]).kept = space[a].kept \cup space[a].txn.writes /\ Committed(space[a]).txn = Closed
      BY <1>4, Spaces
    <3>2. QED
      BY <2>2, <3>1 DEF Closed
  <2>3. QED
    BY <1>5, <2>1, <2>2
<1>7. \A w \in space'[a].txn.writes : w.run = turn
  BY <1>4, <1>6 DEF WholeAt
<1>8. ASSUME Installed(a), NEW q \in 1 .. started, run[q].agent = a, run[q].inv = "apply"
      PROVE  /\ run[q].pc \in {"running", "over"} => Held(space'[a], q, run[q].writes)
             /\ run[q].pc \in {"settled", "raised", "done", "reported"} => LandedIn(space'[a], q) = EffectAfter(q)
  <2>1. q # r /\ ~UnderWay(q)
    BY <1>1, <1>2, <1>3, <1>8, OneUnderWay
  <2>2. Settled(q) => LandedIn(space[a], q) = Effect(q)
    BY <1>4, <1>8 DEF WholeAt, Applying
  <2>3. \A w \in space[a].txn.writes : w.run # q
    BY <1>3, <1>4, <2>1 DEF WholeAt
  <2>4. LandedIn(space'[a], q) = LandedIn(space[a], q)
    BY <1>6, <2>3 DEF LandedIn
  <2>5. EffectAfter(q) = Effect(q)
    BY <1>1 DEF EffectAfter, Effect
  <2>6. QED
    BY <2>1, <2>2, <2>4, <2>5 DEF UnderWay, Settled
<1>9. /\ turn' # 0 /\ run'[turn'].agent = a /\ run'[turn'].pc \in {"running", "over"}
      /\ \A w \in space'[a].txn.writes : w.run = turn'
  BY <1>1, <1>2, <1>3, <1>7
<1>10. agent'[a] # NoAgent => \A q \in 1 .. started : run'[q].agent = a /\ run'[q].inv = "apply" =>
         /\ run'[q].pc \in {"running", "over"} => Held(space'[a], q, run'[q].writes)
         /\ run'[q].pc \in {"settled", "raised", "done", "reported"} => LandedIn(space'[a], q) = EffectAfter(q)
  BY <1>1, <1>8 DEF Installed
<1>11. QED
  BY <1>1, <1>2, <1>9, <1>10, WholeMeans

LEMMA WholeSettle ==
  ASSUME Order, Order', Whole, NEW r \in Runs, Settling(r), SpaceSettles(r), run[r].missed = {}, run[r].agent \notin cut
  PROVE  WholeAt(run[r].agent)'
<1>0. PICK a \in Packages : a = run[r].agent
  BY DEF Settling, GoesOn, RunRow
<1>1. /\ GoesOn(r) /\ run[r].pc = "over" /\ run'[r].pc = "settled" /\ run'[r].writes = run[r].writes
      /\ run'[r].well = run[r].well
      /\ agent' = agent /\ turn' = turn /\ cut' = cut
  BY DEF Settling, SpaceSettles
<1>2. /\ r \in 1 .. started /\ started' = started /\ run'[r].agent = a /\ run'[r].inv = run[r].inv
      /\ run[r].well \in BOOLEAN
      /\ \A q \in 1 .. started \ {r} : q \in Runs /\ run'[q] = run[q]
  BY <1>0, <1>1, RunsAndActs DEF GoesOn, RunRow, Order
<1>3. turn = r
  BY <1>0, <1>1, <1>2, OneUnderWay DEF UnderWay
<1>4. WholeAt(a) /\ SpaceIsWell(space[a])
  BY <1>0 DEF Whole, Order, AgentsTypes
<1>5. CASE ~Installed(a)
  <2>1. space'[a] = space[a] /\ space[a] = EmptySpace
    BY <1>0, <1>5 DEF Order, Fresh, SpaceSettles
  <2>2. space'[a].txn = Closed /\ Closed.writes = {} /\ agent'[a] = NoAgent
    BY <1>1, <1>5, <2>1 DEF EmptySpace, Closed, Installed
  <2>3. QED
    BY <1>0, <1>2, <2>2, WholeMeans
<1>6. CASE Installed(a)
  <2>1. \/ "space" \notin run'[r].missed /\ space'[a] = RolledBack(IF Applying(r) THEN ApplyEnded(space[a], run[r].well) ELSE space[a])
        \/ "space" \in run'[r].missed /\ Applying(r) /\ space'[a] = RolledBack(space[a])
    BY <1>0, <1>6 DEF SettledSpace, SpaceSettles
  <2>2. PICK t : /\ space'[a] = RolledBack(t)
                 /\ \/ "space" \notin run'[r].missed /\ t = IF Applying(r) THEN ApplyEnded(space[a], run[r].well) ELSE space[a]
                    \/ "space" \in run'[r].missed /\ Applying(r) /\ t = space[a]
    BY <2>1
  <2>3. SpaceIsWell(t)
    BY <1>2, <1>4, <2>2, Endings
  <2>4. space'[a].kept = t.kept /\ space'[a].txn = Closed
    <3>1. RolledBack(t).kept = t.kept /\ RolledBack(t).txn = Closed
      BY <2>3, Spaces
    <3>2. QED
      BY <2>2, <3>1
  <2>5. ASSUME run[r].inv = "apply" PROVE Held(space[a], r, run[r].writes)
    BY <1>0, <1>1, <1>2, <1>4, <1>6, <2>5 DEF WholeAt, Applying, Unsettled
  <2>6. ASSUME run[r].inv = "apply"
        PROVE  t.kept = space[a].kept \cup (IF run[r].well /\ "space" \notin run'[r].missed THEN space[a].txn.writes ELSE {})
    BY <1>2, <1>4, <2>2, <2>5, <2>6, Endings DEF Held, Applying
  <2>7. run[r].inv # "apply" => t = space[a]
    BY <2>2 DEF Applying
  <2>8. \A w \in space[a].txn.writes : w.run = r
    BY <1>3, <1>4 DEF WholeAt
  <2>9. ASSUME run[r].inv = "apply" PROVE LandedIn(space'[a], r) = EffectAfter(r)
    <3>1. CASE run[r].well /\ "space" \notin run'[r].missed
      <4>1. {v \in space'[a].kept : v.run = r} = space[a].txn.writes
        BY <2>4, <2>5, <2>6, <2>8, <2>9, <3>1 DEF Held
      <4>2. QED
        BY <1>1, <2>5, <2>9, <3>1, <4>1 DEF LandedIn, EffectAfter, Held
    <3>2. CASE ~(run[r].well /\ "space" \notin run'[r].missed)
      BY <1>1, <2>4, <2>5, <2>6, <2>9, <3>2 DEF LandedIn, EffectAfter, Held
    <3>3. QED
      BY <3>1, <3>2
  <2>10. ASSUME NEW q \in 1 .. started, run'[q].agent = a, run'[q].inv = "apply"
        PROVE  /\ run'[q].pc \in {"running", "over"} => Held(space'[a], q, run'[q].writes)
               /\ run'[q].pc \in {"settled", "raised", "done", "reported"} => LandedIn(space'[a], q) = EffectAfter(q)
    <3>1. CASE q = r
      BY <1>1, <1>2, <2>9, <2>10, <3>1
    <3>2. CASE q # r
      <4>1. run'[q] = run[q]
        BY <1>2, <3>2
      <4>2. ~UnderWay(q)
        BY <1>0, <1>3, <2>10, <3>2, <4>1, OneUnderWay
      <4>3. Settled(q) => LandedIn(space[a], q) = Effect(q)
        BY <1>4, <1>6, <2>10, <4>1 DEF WholeAt, Applying
      <4>4. t.kept = space[a].kept \/ t.kept = space[a].kept \cup space[a].txn.writes
        BY <2>6, <2>7
      <4>5. LandedIn(space'[a], q) = LandedIn(space[a], q)
        BY <2>4, <2>8, <3>2, <4>4 DEF LandedIn
      <4>6. EffectAfter(q) = Effect(q)
        BY <4>1 DEF EffectAfter, Effect
      <4>7. QED
        BY <4>1, <4>2, <4>3, <4>5, <4>6 DEF UnderWay, Settled
    <3>3. QED
      BY <3>1, <3>2
  <2>11. \A w \in space'[a].txn.writes : w.run = turn'
    BY <2>4 DEF Closed
  <2>12. QED
    BY <1>0, <1>2, <2>4, <2>10, <2>11, WholeMeans
<1>7. QED
  BY <1>5, <1>6

LEMMA WholeRestart ==
  ASSUME Order, Order', Whole, AgentsRestart
  PROVE  Whole'
<1>1. /\ turn' = 0 /\ cut \subseteq cut' /\ UNCHANGED <<agent, started>>
      /\ \A a \in Packages : space'[a] = RolledBack(space[a])
      /\ \A r \in 1 .. started :
              /\ run'[r].pc = (IF run[r].pc = "reported" THEN "reported" ELSE "lost")
              /\ run'[r].agent = run[r].agent /\ run'[r].inv = run[r].inv
              /\ run'[r].writes = run[r].writes /\ run'[r].well = run[r].well
              /\ run'[r].missed = run[r].missed
  BY RestartMoves DEF Order
<1>2. ASSUME NEW a \in Packages \ cut' PROVE WholeAt(a)'
  <2>1. WholeAt(a) /\ SpaceIsWell(space[a])
    BY <1>1 DEF Whole, Order, AgentsTypes
  <2>2. space'[a].kept = space[a].kept /\ space'[a].txn = Closed /\ space'[a].txn.writes = {}
    BY <1>1, <2>1, Spaces DEF Closed
  <2>3. ASSUME Installed(a), NEW r \in 1 .. started, run'[r].agent = a, run'[r].inv = "apply"
        PROVE  /\ run'[r].pc \notin {"running", "over"}
               /\ run'[r].pc \in {"settled", "raised", "done", "reported"} => LandedIn(space'[a], r) = EffectAfter(r)
    <3>1. /\ run[r].agent = a /\ Applying(r)
          /\ run'[r].pc \in {"settled", "raised", "done", "reported"} => Settled(r)
          /\ EffectAfter(r) = Effect(r)
      BY <1>1, <2>3 DEF Applying, Settled, EffectAfter, Effect
    <3>2. Settled(r) => LandedIn(space[a], r) = Effect(r)
      BY <2>1, <2>3, <3>1 DEF WholeAt
    <3>3. LandedIn(space'[a], r) = LandedIn(space[a], r)
      BY <2>2 DEF LandedIn
    <3>4. QED
      BY <1>1, <3>1, <3>2, <3>3
  <2>4. QED
    BY <1>1, <2>2, <2>3, WholeMeans DEF Installed
<1>3. QED
  BY <1>2 DEF Whole

\* Where no space is touched.
LEMMA WholeCalm ==
  ASSUME Order, Order', Whole, UNCHANGED <<space, run, started, turn, cut>>,
         \A a \in Packages : agent'[a] # NoAgent => Installed(a) \/ \A r \in 1 .. started : run[r].agent # a
  PROVE  Whole'
<1>1. ASSUME NEW a \in Packages \ cut' PROVE WholeAt(a)'
  BY WholeSame DEF Unsettled, Settled, Busy
<1>2. QED
  BY <1>1 DEF Whole

\* Of the other agents, whose runs do not move.
LEMMA WholeOthers ==
  ASSUME Order, Order', Whole, NEW r \in Runs, GoesOn(r), NEW a \in Packages \ cut', a # run[r].agent,
         space'[a] = space[a], agent'[a] = agent[a], cut \subseteq cut',
         turn' = turn \/ turn = r
  PROVE  WholeAt(a)'
<1>1. /\ started' = started /\ \A s \in 1 .. started : run'[s].agent = run[s].agent
      /\ \A s \in 1 .. started \ {r} : run'[s] = run[s]
  BY RunsAndActs DEF GoesOn, Order
<1>2. Busy(a) => turn' = turn /\ run'[turn].agent = a /\ run'[turn].pc \in {"running", "over"}
  <2>1. Busy(a) => turn \in 1 .. started /\ turn # r /\ turn' = turn
    BY DEF Busy, Order, OneTurn
  <2>2. QED
    BY <1>1, <2>1 DEF Busy, Unsettled
<1>3. \A s \in 1 .. started' : run'[s].agent = a => s \in 1 .. started /\ run'[s] = run[s]
  BY <1>1
<1>4. QED
  BY <1>2, <1>3, WholeSame DEF Unsettled, Settled, Installed

\* A run goes on in a step that does not touch its space.
LEMMA WholeGoesOn ==
  ASSUME Order, Order', Whole, NEW r \in Runs, GoesOn(r), space' = space, cut \subseteq cut',
         \A a \in Packages : agent'[a] # NoAgent <=> Installed(a),
         run'[r].writes = run[r].writes,
         run[r].agent \notin cut' =>
           /\ run'[r].pc \in {"running", "over"} <=> Unsettled(r)
           /\ run'[r].pc \in {"settled", "raised", "done", "reported"} =>
                Settled(r) /\ run'[r].well = run[r].well /\ ("space" \in run'[r].missed <=> "space" \in run[r].missed),
         turn' = turn \/ (turn = r /\ ~Unsettled(r))
  PROVE  Whole'
<1>1. /\ started' = started /\ \A s \in 1 .. started : run'[s].agent = run[s].agent
      /\ \A s \in 1 .. started \ {r} : run'[s] = run[s]
      /\ run'[r].inv = run[r].inv
  BY RunsAndActs DEF GoesOn, Order
<1>2. ASSUME NEW a \in Packages \ cut' PROVE WholeAt(a)'
  <2>1. \A s \in 1 .. started : run'[s].agent = a =>
           /\ run[s].agent = a /\ run'[s].inv = run[s].inv /\ run'[s].writes = run[s].writes
           /\ run'[s].pc \in {"running", "over"} <=> Unsettled(s)
           /\ run'[s].pc \in {"settled", "raised", "done", "reported"} =>
                Settled(s) /\ run'[s].well = run[s].well /\ ("space" \in run'[s].missed <=> "space" \in run[s].missed)
    BY <1>1, <1>2 DEF Unsettled, Settled
  <2>2. Busy(a) => turn' = turn /\ run'[turn].agent = a /\ run'[turn].pc \in {"running", "over"}
    <3>1. Busy(a) => turn \in 1 .. started /\ turn' = turn /\ run'[turn].agent = a
      BY <1>1 DEF Busy, Order, OneTurn
    <3>2. QED
      BY <2>1, <3>1 DEF Busy
  <2>3. QED
    BY <1>1, <1>2, <2>1, <2>2, WholeSame DEF Installed
<1>3. QED
  BY <1>2 DEF Whole

LEMMA WholeStays ==
  ASSUME Order, Order', Reported, Covered, Whole, Kinds
  PROVE  Whole'
<1>1. CASE Calm
  BY <1>1, WholeCalm DEF Calm, SameAgent, Installed
<1>2. ASSUME NEW a \in Packages, Install(a) PROVE Whole'
  <2>1. /\ UNCHANGED <<space, run, started, turn, cut>> /\ a \in staged
        /\ \A b \in Packages \ {a} : agent'[b] = agent[b]
    BY <1>2, InstallMoves DEF Order
  <2>2. \A r \in 1 .. started : run[r].agent # a
    BY <2>1 DEF Order, Fresh
  <2>3. QED
    BY <2>1, <2>2, WholeCalm DEF Installed
<1>4. ASSUME NEW a \in Packages, Remove(a) PROVE Whole'
  <2>1. /\ UNCHANGED <<run, started, turn, cut>> /\ agent'[a] = NoAgent /\ space'[a] = EmptySpace
        /\ \A b \in Packages \ {a} : agent'[b] = agent[b] /\ space'[b] = space[b]
    BY <1>4, RemoveMoves DEF Order, Installed
  <2>2. ASSUME NEW b \in Packages \ cut', b # a PROVE WholeAt(b)'
    BY <2>1, <2>2, WholeSame DEF Unsettled, Settled, Busy, Installed
  <2>3. WholeAt(a)'
    <3>1. space'[a].txn = Closed /\ space'[a].txn.writes = {} /\ started' = started
      BY <2>1 DEF EmptySpace, Closed
    <3>2. QED
      BY <2>1, <3>1, WholeMeans
  <2>4. QED
    BY <2>2, <2>3 DEF Whole
<1>5. ASSUME NEW a \in Packages, NEW inv \in {"items", "message", "apply"}, NEW x \in Nat, Starts(a, inv, x)
      PROVE  Whole'
  <2>0. PICK s \in Nat : s = started + 1
    BY DEF Order, AgentsTypes
  <2>1. /\ UNCHANGED <<agent, cut>> /\ started' = s /\ turn = 0 /\ run'[s].agent = a
        /\ \A r \in Runs \ {s} : run'[r] = run[r]
        /\ \A b \in Packages \ {a} : space'[b] = space[b]
    BY <1>5, <2>0 DEF Starts
  <2>2. 1 .. s = 1 .. started \cup {s} /\ s \notin 1 .. started
    <3>1. started \in Nat
      BY DEF Order, AgentsTypes
    <3>2. QED
      BY ONLY <2>0, <3>1
  <2>3. \A r \in 1 .. started : run'[r] = run[r]
    BY <2>1, <2>2, RunsAndActs DEF Order
  <2>4. ASSUME NEW b \in Packages \ cut', b # a PROVE WholeAt(b)'
    <3>1. \A r \in 1 .. s : run'[r].agent = b => r \in 1 .. started /\ run'[r] = run[r]
      BY <2>1, <2>2, <2>3, <2>4
    <3>2. ~Busy(b)
      BY <2>1 DEF Busy
    <3>3. QED
      BY <2>1, <2>4, <3>1, <3>2, WholeSame DEF Unsettled, Settled, Installed
  <2>5. a \notin cut => WholeAt(a)'
    BY <1>5, WholeStart
  <2>6. QED
    BY <2>1, <2>4, <2>5 DEF Whole
<1>6. ASSUME NEW r \in Runs, NEW i \in Items, Read(r, i) PROVE Whole'
  <2>1. /\ GoesOn(r) /\ UNCHANGED <<space, agent, turn, cut>> /\ run[r].pc = "running" /\ run'[r].pc = "running"
        /\ run'[r].writes = run[r].writes
    BY <1>6, ReadMoves DEF Order
  <2>2. QED
    BY <2>1, WholeGoesOn DEF Unsettled, Installed
<1>7. ASSUME NEW r \in Runs, Execute(r) PROVE Whole'
  <2>1. /\ GoesOn(r) /\ UNCHANGED <<agent, turn, cut>>
        /\ \A b \in Packages \ {run[r].agent} : space'[b] = space[b]
        /\ run'[r].agent = run[r].agent
    BY <1>7, ExecuteMoves DEF Order, GoesOn
  <2>2. ASSUME NEW b \in Packages \ cut', b # run[r].agent PROVE WholeAt(b)'
    BY <2>1, <2>2, WholeOthers
  <2>3. run[r].agent \notin cut' => WholeAt(run[r].agent)'
    BY <1>7, <2>1, WholeExecute
  <2>4. QED
    BY <2>1, <2>2, <2>3 DEF Whole
<1>8. ASSUME NEW r \in Runs, ExecuteBegin(r) \/ ExecuteCommit(r) PROVE Whole'
  <2>1. /\ r \in 1 .. started /\ run[r] \in RunRow /\ UNCHANGED <<run, started, agent, turn, cut>>
        /\ \A b \in Packages \ {run[r].agent} : space'[b] = space[b]
    BY <1>8, TransactionMoves DEF Order
  <2>2. GoesOn(r)
    BY <2>1 DEF GoesOn
  <2>3. ASSUME NEW b \in Packages \ cut', b # run[r].agent PROVE WholeAt(b)'
    BY <2>1, <2>2, <2>3, WholeOthers
  <2>4. run[r].agent \notin cut' => WholeAt(run[r].agent)'
    BY <1>8, <2>1, WholeTransaction
  <2>5. QED
    BY <2>1, <2>3, <2>4 DEF Whole
<1>9. ASSUME NEW r \in Runs, NEW kind \in {"own", "mail"}, Propose(r, kind) PROVE Whole'
  <2>1. /\ GoesOn(r) /\ UNCHANGED <<space, agent, turn, cut>> /\ run[r].pc = "running" /\ run'[r].pc = "running"
        /\ run'[r].writes = run[r].writes
    BY <1>9, ProposeMoves DEF Order
  <2>2. QED
    BY <2>1, WholeGoesOn DEF Unsettled, Installed
<1>10. ASSUME NEW r \in Runs, NEW well \in BOOLEAN, End(r, well) PROVE Whole'
  <2>1. /\ GoesOn(r) /\ UNCHANGED <<space, agent, turn, cut>> /\ run[r].pc = "running"
        /\ run'[r].pc = (IF run[r].left THEN "done" ELSE "over")
        /\ run'[r].writes = run[r].writes
    BY <1>10, EndMoves DEF Order
  <2>2. run[r].left => run[r].agent \in cut
    BY <2>1 DEF GoesOn, Order, OneTurn
  <2>3. QED
    BY <2>1, <2>2, WholeGoesOn DEF Unsettled, Installed
<1>11. ASSUME NEW r \in Runs, SettleSpace(r) \/ SpaceFails(r) PROVE Whole'
  <2>1. Settling(r) /\ SpaceSettles(r)
    BY <1>11, SettleSpaceMoves DEF Order
  <2>2. /\ GoesOn(r) /\ cut' = cut /\ turn' = turn /\ run[r].missed = {} /\ run'[r].agent = run[r].agent
        /\ \A b \in Packages \ {run[r].agent} : space'[b] = space[b] /\ agent'[b] = agent[b]
    BY <2>1 DEF Settling, SpaceSettles, GoesOn, Reported
  <2>3. ASSUME NEW b \in Packages \ cut', b # run[r].agent PROVE WholeAt(b)'
    BY <2>2, <2>3, WholeOthers
  <2>4. run[r].agent \notin cut' => WholeAt(run[r].agent)'
    BY <2>1, <2>2, WholeSettle
  <2>5. QED
    BY <2>2, <2>3, <2>4 DEF Whole
<1>15. ASSUME NEW r \in Runs,
              \/ RaiseLevel(r) \/ LevelFails(r)
              \/ Record(r) \/ RecordFails(r) \/ LedgerFails(r)
       PROVE  Whole'
  <2>1. Settling(r) /\ (LevelSettles(r) \/ RecordSettles(r))
    BY <1>15, SettleLevelMoves, SettleRecordMoves DEF Order
  <2>2. /\ GoesOn(r) /\ space' = space /\ cut \subseteq cut'
        /\ run'[r].writes = run[r].writes /\ run'[r].well = run[r].well
        /\ \A a \in Packages : agent'[a] # NoAgent <=> Installed(a)
        /\ ~Unsettled(r) /\ Settled(r) /\ run'[r].pc \in {"raised", "done"}
        /\ "space" \in run'[r].missed <=> "space" \in run[r].missed
    BY <2>1 DEF Settling, LevelSettles, RecordSettles, Unsettled, Settled, Installed
  <2>3. turn' = turn \/ turn = r
    <3>1. r \in 1 .. started /\ UnderWay(r) /\ ~run[r].left
      BY <2>1 DEF Settling, GoesOn, RunRow, LevelSettles, RecordSettles, UnderWay, Order, OneTurn
    <3>2. QED
      BY <3>1 DEF Order, OneTurn
  <2>4. QED
    BY <2>2, <2>3, WholeGoesOn
<1>12. ASSUME NEW r \in Runs, ClientLeaves(r) PROVE Whole'
  <2>1. /\ GoesOn(r) /\ cut' = cut \cup {run[r].agent} /\ UNCHANGED <<space, agent>> /\ turn = r
    BY <1>12, LeaveMoves DEF Order
  <2>2. ASSUME NEW b \in Packages \ cut' PROVE WholeAt(b)'
    BY <2>1, <2>2, WholeOthers
  <2>3. QED
    BY <2>2 DEF Whole
<1>13. ASSUME NEW r \in Runs, Report(r) PROVE Whole'
  <2>1. /\ GoesOn(r) /\ UNCHANGED <<space, agent, turn, cut>> /\ run[r].pc = "done" /\ run'[r].pc = "reported"
        /\ run'[r].writes = run[r].writes /\ run'[r].well = run[r].well /\ run'[r].missed = run[r].missed
    BY <1>13, ReportMoves DEF Order
  <2>2. QED
    BY <2>1, WholeGoesOn DEF Unsettled, Settled, Installed
<1>14. QED
  BY <1>1, <1>2, <1>4, <1>5, <1>6, <1>7, <1>8, <1>9, <1>10, <1>11, <1>12, <1>13, <1>15, WholeRestart DEF Kinds

-----------------------------------------------------------------------------
(* The agents as a whole.                                                   *)

AgentsInv == Order /\ Reported /\ Handing /\ Capped /\ Covered /\ Whole

LEMMA AgentsStart == AgentsInit => AgentsInv
<1> SUFFICES ASSUME AgentsInit PROVE AgentsInv
  OBVIOUS
<1> USE AgentsAssumption DEF AgentsInit
<1>1. \A a \in Packages : ~Installed(a) /\ space[a] = EmptySpace
  BY DEF Installed
<1>2. \A r \in Runs : run[r] = NoRun
  OBVIOUS
<1>3. AgentsTypes
  <2>1. SpaceIsWell(EmptySpace)
    BY DEF SpaceIsWell, EmptySpace, Closed
  <2>2. agent \in [Packages -> AgentRow \cup {NoAgent}] /\ run \in [Runs -> RunRow \cup {NoRun}]
        /\ act \in [ActIds -> ActRow \cup {NoAct}]
    OBVIOUS
  <2>3. handed \in [Packages -> [Items -> Nat]]
    OBVIOUS
  <2>4. pausing \in [Packages -> {"no", "pause", "uninstall", "remove"}]
    OBVIOUS
  <2>5. DOMAIN space = Packages /\ \A a \in Packages : SpaceIsWell(space[a])
    BY <2>1
  <2>6. /\ staged \subseteq Packages /\ items \subseteq Items /\ behind \in [Packages -> Nat] /\ started \in 0 .. MaxRuns /\ turn \in 0 .. MaxRuns
        /\ made \in 0 .. MaxActs /\ records \subseteq Runs /\ hands \subseteq ActIds /\ wake = NoWake
    OBVIOUS
  <2>7. QED
    BY <2>2, <2>3, <2>4, <2>5, <2>6 DEF AgentsTypes
<1>4. Born
  BY <1>2 DEF Born, Runs, ActIds
<1>5. Fresh
  BY <1>1 DEF Fresh
<1>6. OneTurn
  BY DEF OneTurn
<1>7. Handing
  <2>1. wake = NoWake /\ NoWake.items = {}
    BY DEF NoWake
  <2>2. \A a \in Packages, i \in Items : handed[a][i] = 0 /\ behind[a] = 0 /\ ~Installed(a)
    BY <1>1
  <2>3. QED
    BY <2>1, <2>2 DEF Handing
<1>8. Capped
  <2>1. \A a \in Packages : ~Installed(a)
    BY <1>1
  <2>2. CapHolds
    <3>1. Proposed(Packages) = {}
      BY DEF Proposed
    <3>2. Cardinality(Proposed(Packages)) = 0
      BY <3>1, FS_EmptySet
    <3>3. QED
      BY <2>1, <3>2 DEF CapHolds
  <2>3. QED
    BY <2>2 DEF Capped
<1>9. Covered
  BY <1>1 DEF Covered
<1>10. Whole
  <2>1. \A a \in Packages : space[a].txn = Closed /\ space[a].txn.writes = {}
    BY <1>1 DEF EmptySpace, Closed
  <2>2. QED
    BY <1>1, <2>1 DEF Whole, WholeAt
<1>11. Reported
  BY DEF Reported
<1>12. QED
  BY <1>3, <1>4, <1>5, <1>6, <1>7, <1>8, <1>9, <1>10, <1>11 DEF AgentsInv, Order

LEMMA AgentsStay == AgentsInv /\ AgentsMove => AgentsInv'
<1> SUFFICES ASSUME AgentsInv, AgentsMove PROVE AgentsInv'
  OBVIOUS
<1>1. Kinds
  BY EveryStep DEF AgentsInv, Order
<1>2. Order'
  BY <1>1, OrderStays DEF AgentsInv
<1>3. QED
  BY <1>1, <1>2, ReportedStays, HandingStays, CappedStays, CoveredStays, WholeStays DEF AgentsInv

-----------------------------------------------------------------------------
(* Both together.                                                           *)

HouseInv == AccessInv /\ AgentsInv

LEMMA SpendKeeps ==
  ASSUME AccessInv, NEW d \in Devices, NEW what \in Acts, Spend(d, what), AccessKept
  PROVE  AccessInv'
<1> USE DEF AccessInv, AccessKept, Spend, Idle
<1>1. AccessTypeOK'
  BY DEF AccessTypeOK, Request
<1>2. Counting'
  BY DEF Counting, Comparing, AccessTypeOK
<1>3. Unspent'
  BY DEF Unspent
<1>4. QED
  BY <1>1, <1>2, <1>3

LEMMA HouseStays == HouseInv /\ [HouseNext]_vars => HouseInv'
<1> SUFFICES ASSUME HouseInv, [HouseNext]_vars PROVE HouseInv'
  OBVIOUS
<1>1. UNCHANGED accessVars => AccessInv'
  BY AccessStaysSo DEF HouseInv
<1>2. AgentsMove => AgentsInv'
  BY AgentsStay DEF HouseInv
<1>3. UNCHANGED agentsVars => AgentsInv'
  BY <1>2 DEF AgentsMove
<1>4. CASE AccessNext /\ UNCHANGED agentsVars
  BY <1>3, <1>4, AccessStaysSo DEF HouseInv
<1>5. CASE AgentsStep /\ UNCHANGED accessVars
  BY <1>1, <1>2, <1>5 DEF HouseInv, AgentsMove
<1>6. ASSUME NEW a \in Packages, InstallHere(a) \/ UninstallHere(a) PROVE HouseInv'
  <2>1. AgentsMove /\ UNCHANGED accessVars
    BY <1>6 DEF InstallHere, UninstallHere, AgentsMove
  <2>2. QED
    BY <1>1, <1>2, <2>1 DEF HouseInv
<1>7. ASSUME NEW d \in Devices, NEW a \in Packages,
             InstallAsked(d, a) \/ InstallTooLate(d, a) \/ UninstallAsked(d, a) \/ UninstallOfNone(d, a)
      PROVE  HouseInv'
  <2>1. (\E what \in Acts : Spend(d, what)) /\ AccessKept
    BY <1>7, HouseAssumption DEF InstallAsked, InstallTooLate, UninstallAsked, UninstallOfNone
  <2>2. AgentsMove
    BY <1>7 DEF InstallAsked, InstallTooLate, UninstallAsked, UninstallOfNone, AgentsMove
  <2>3. AccessInv'
    BY <2>1, SpendKeeps DEF HouseInv
  <2>4. QED
    BY <1>2, <2>2, <2>3 DEF HouseInv
<1>8. CASE Restart
  BY <1>2, <1>8, AccessStaysSo DEF Restart, HouseInv, AgentsMove
<1>9. CASE UNCHANGED vars
  BY <1>1, <1>3, <1>9 DEF vars, HouseInv
<1>10. QED
  BY <1>4, <1>5, <1>6, <1>7, <1>8, <1>9 DEF HouseNext

LEMMA HouseAlways == HouseSpec => []HouseInv
<1>1. Init => HouseInv
  BY AccessStarts, AgentsStart DEF Init, HouseInv
<1>2. QED
  BY <1>1, HouseStays, PTL DEF HouseSpec

\* The rows, the runs, the proposals and the spaces keep their types, through
\* every interleaving of runs, pauses, removals, proposals and restarts.
THEOREM AgentsKeepTheirTypes == HouseSpec => []AgentsTypes
<1>1. HouseInv => AgentsTypes
  BY DEF HouseInv, AgentsInv, Order
<1>2. QED
  BY <1>1, HouseAlways, PTL

\* The loop hands no item to an agent as new more often than once, and once more
\* for each hand-over it left behind because the last item was gone (life.rs,
\* new_items).
THEOREM HandedOnce == HouseSpec => []NewItemsOnce
<1>1. HouseInv => NewItemsOnce
  BY DEF HouseInv, AgentsInv, Handing, NewItemsOnce
<1>2. QED
  BY <1>1, HouseAlways, PTL

\* The day's limits hold for each agent and for all together, the proposals aside
\* of a run nothing was recorded of (doors.rs, within_cap).
THEOREM LimitsHold == HouseSpec => []CapHolds
<1>1. HouseInv => CapHolds
  BY DEF HouseInv, AgentsInv, Capped
<1>2. QED
  BY <1>1, HouseAlways, PTL

\* What a space holds is at most at its agent's level, or at that of a run that is
\* still to raise it or failed to (mod.rs, run).
THEOREM SpacesAreCovered == HouseSpec => []LevelCovers
<1>1. ASSUME HouseInv PROVE LevelCovers
  <2>1. ASSUME NEW a \in Packages \ cut, NEW w \in space[a].kept
        PROVE  \/ w.level <= agent[a].level
               \/ \E r \in Runs : /\ UnderWay(r) \/ (run[r] # NoRun /\ "level" \in run[r].missed)
                                  /\ run[r].agent = a /\ w.level <= run[r].taint
    <3>1. Installed(a)
      <4>1. EmptySpace.kept = {}
        BY DEF EmptySpace
      <4>2. QED
        BY <1>1, <2>1, <4>1 DEF HouseInv, AgentsInv, Order, Fresh
    <3>2. Under(a, w.level)
      BY <1>1, <2>1, <3>1 DEF HouseInv, AgentsInv, Covered, Writes
    <3>3. \A r \in 1 .. started : r \in Runs /\ run[r] # NoRun
      BY <1>1, RunsAndActs DEF HouseInv, AgentsInv, Order, RunRow, NoRun
    <3>4. QED
      BY <3>2, <3>3 DEF Under, Keeps
  <2>2. QED
    BY <2>1 DEF LevelCovers
<1>2. QED
  BY <1>1, HouseAlways, PTL

\* Of an approved effect everything lands or nothing; everything where it was
\* reported as carried out and its commit did not fail, nothing where it was
\* reported as failed and no write failed after it (space.rs, end_apply; mod.rs,
\* execute_approved).
THEOREM EffectsLandWhole == HouseSpec => []LandsWhole
<1>1. ASSUME HouseInv PROVE LandsWhole
  <2>1. ASSUME NEW r \in Runs, run[r].pc = "reported", run[r].agent \notin cut, Installed(run[r].agent)
        PROVE  /\ Landed(r) \in {{}, 1 .. run[r].writes}
               /\ act[run[r].act].status = "executed" /\ "space" \notin run[r].missed => Landed(r) = 1 .. run[r].writes
               /\ act[run[r].act].status = "failed" /\ run[r].missed = {} => Landed(r) = {}
    <3>1. r \in 1 .. started /\ run[r].agent \in Packages
      BY <1>1, <2>1, RunsAndActs DEF HouseInv, AgentsInv, Order, RunRow
    <3>2. Applying(r) /\ act[run[r].act].status = IF WentWell(r) THEN "executed" ELSE "failed"
      BY <1>1, <2>1, <3>1 DEF HouseInv, AgentsInv, Reported
    <3>3. LandedIn(space[run[r].agent], r) = Effect(r)
      BY <1>1, <2>1, <3>1, <3>2 DEF HouseInv, AgentsInv, Whole, WholeAt, Settled
    <3>4. Landed(r) = Effect(r)
      BY <3>3 DEF Landed, LandedIn
    <3>5. QED
      BY <3>2, <3>4 DEF Effect, WentWell
  <2>2. QED
    BY <2>1 DEF LandsWhole
<1>2. QED
  BY <1>1, HouseAlways, PTL

\* The two promises of Access hold where what is asked for is done as well.
THEOREM NoSixthTryInTheHouse == HouseSpec => [](FiveTries /\ OnceOnly)
<1>1. HouseInv => FiveTries /\ OnceOnly
  BY TriesAreCounted, CodesAreSpent DEF HouseInv
<1>2. QED
  BY <1>1, HouseAlways, PTL
=============================================================================
