------------------------------- MODULE Access -------------------------------
(***************************************************************************)
(* Who may ask for what over HTTP: the guard and the paired devices of     *)
(* crates/daemon/src/web/access.rs and devices.rs, the one-time links of   *)
(* local.rs, the high-privilege requests of admin.rs, with the device and  *)
(* admin rows of crates/store/src/device.rs and admin.rs.                  *)
(*                                                                         *)
(* This machine is whoever comes from loopback with the local key, and is  *)
(* asked for nothing more.  A device is named by its cookie; one that the  *)
(* user made an admin device asks for a high-privilege act with the admin  *)
(* passphrase, and passphrases are looked at one at a time.  Handlers run  *)
(* side by side, and one whose client goes away is dropped where it waits. *)
(***************************************************************************)
EXTENDS Naturals, FiniteSets

CONSTANTS
  Devices,     \* browsers that may be paired, each at most once
  Acts,        \* high-privilege acts
  Passphrases, \* what may be set and what may be given
  Tries,       \* ADMIN_TRIES
  MaxCodes,    \* bound: pairing codes made
  MaxLinks,    \* bound: sign-in links made
  MaxAsked     \* bound: high-privilege requests made by devices

ASSUME AccessAssumption ==
  /\ Tries \in Nat \ {0}
  /\ MaxCodes \in Nat /\ MaxLinks \in Nat /\ MaxAsked \in Nat
  /\ "nobody" \notin Devices /\ "none" \notin Passphrases

VARIABLES
  device,   \* the device rows
  admin,    \* the admin row: the passphrase, the wrong tries, the lock
  code,     \* memory: the pairing code that is live, 0 when none is
  codes,    \* pairing codes made
  link,     \* memory: the sign-in links
  asking,   \* by device: its high-privilege request, and where that stands
  checking, \* whose passphrase is being looked at
  asked,    \* requests made
  tries,    \* wrong tries answered since the count last began again
  paired,   \* by code: the devices it paired
  signedIn  \* by link: the browsers it signed in

accessVars == <<device, admin, code, codes, link, asking, checking, asked, tries, paired, signedIn>>

NoPassphrase == "none"
Nobody == "nobody"
NoCode == 0
Idle == [pc |-> "idle"]

-----------------------------------------------------------------------------
(* The rows.                                                               *)

Unpaired == [state |-> "unpaired", admin |-> FALSE]
Paired == [state |-> "active", admin |-> FALSE]

IsActive(d) == device[d].state = "active"
IsAdmin(d) == IsActive(d) /\ device[d].admin

\* Both leave a row that is revoked already as it is.
WithRole(row, role) == IF row.state = "active" THEN [row EXCEPT !.admin = role] ELSE row
Revoked(row) == IF row.state = "active" THEN [state |-> "revoked", admin |-> FALSE] ELSE row

\* The count starts again; a lock stays until it is lifted on its own.
WithPassphrase(row, p) == [row EXCEPT !.passphrase = p, !.failures = 0]
Succeeded(row) == [row EXCEPT !.failures = 0]
Failed(row) ==
  [row EXCEPT !.failures = @ + 1, !.locked = @ \/ row.failures + 1 >= Tries]
Unlocked(row) == [row EXCEPT !.failures = 0, !.locked = FALSE]

AccessInit ==
  /\ device = [d \in Devices |-> Unpaired]
  /\ admin = [passphrase |-> NoPassphrase, failures |-> 0, locked |-> FALSE]
  /\ code = NoCode /\ codes = 0
  /\ link = [l \in 1 .. MaxLinks |-> "unmade"]
  /\ asking = [d \in Devices |-> Idle]
  /\ checking = Nobody
  /\ asked = 0 /\ tries = 0
  /\ paired = [c \in 1 .. MaxCodes |-> {}]
  /\ signedIn = [l \in 1 .. MaxLinks |-> 0]

-----------------------------------------------------------------------------
(* Pairing.  A new code replaces the live one, and one try spends it, right *)
(* or wrong.  A code that lapsed and none at all are refused alike.         *)

\* Bug: only a wrong try spends the code.
AfterTryIfWrong(guess) == IF guess = code THEN code ELSE NoCode
AfterTry(guess) == NoCode

StartPairing ==
  /\ codes < MaxCodes
  /\ codes' = codes + 1
  /\ code' = codes + 1

CodeLapses ==
  /\ code # NoCode
  /\ code' = NoCode
  /\ UNCHANGED <<device, admin, codes, link, asking, checking, asked, tries, paired, signedIn>>

Pair(d, guess) ==
  /\ device[d] = Unpaired
  /\ guess = code /\ code # NoCode
  /\ code' = AfterTry(guess)
  /\ device' = [device EXCEPT ![d] = Paired]
  /\ paired' = [paired EXCEPT ![guess] = @ \cup {d}]
  /\ UNCHANGED <<admin, codes, link, asking, checking, asked, tries, signedIn>>

\* A wrong guess; or a right one whose device cannot be stored.
PairRefused(d, guess) ==
  /\ device[d] = Unpaired
  /\ code # NoCode
  /\ code' = AfterTry(guess)
  /\ UNCHANGED <<device, admin, codes, link, asking, checking, asked, tries, paired, signedIn>>

\* Any paired device, and this machine, may revoke one.
Revoke(d) ==
  /\ IsActive(d)
  /\ device' = [device EXCEPT ![d] = Revoked(@)]
  /\ UNCHANGED <<admin, code, codes, link, asking, checking, asked, tries, paired, signedIn>>

-----------------------------------------------------------------------------
(* Signing a browser on this machine in.                                   *)

\* Position found under the lock, and removed there.
AfterFollowing(l) == [link EXCEPT ![l] = "gone"]

MakeLink(l) ==
  /\ link[l] = "unmade"
  /\ link' = [link EXCEPT ![l] = "live"]
  /\ UNCHANGED <<device, admin, code, codes, asking, checking, asked, tries, paired, signedIn>>

LinkLapses(l) ==
  /\ link[l] = "live"
  /\ link' = [link EXCEPT ![l] = "gone"]
  /\ UNCHANGED <<device, admin, code, codes, asking, checking, asked, tries, paired, signedIn>>

Follow(l) ==
  /\ link[l] = "live"
  /\ link' = AfterFollowing(l)
  /\ signedIn' = [signedIn EXCEPT ![l] = @ + 1]
  /\ UNCHANGED <<device, admin, code, codes, asking, checking, asked, tries, paired>>

-----------------------------------------------------------------------------
(* What only this machine does: the passphrase, the lock, the role.         *)

SetPassphrase(p) ==
  /\ admin' = WithPassphrase(admin, p)
  /\ tries' = 0
  /\ UNCHANGED <<device, code, codes, link, asking, checking, asked, paired, signedIn>>

Unlock ==
  /\ admin' = Unlocked(admin)
  /\ tries' = 0
  /\ UNCHANGED <<device, code, codes, link, asking, checking, asked, paired, signedIn>>

GiveRole(d, role) ==
  /\ role => admin.passphrase # NoPassphrase
  /\ device' = [device EXCEPT ![d] = WithRole(@, role)]
  /\ UNCHANGED <<admin, code, codes, link, asking, checking, asked, tries, paired, signedIn>>

-----------------------------------------------------------------------------
(* A high-privilege request of a device: its cookie and its role are looked *)
(* at, it waits for its turn, the admin row is read, the passphrase is       *)
(* compared with the one that row held, which takes a while, and the answer  *)
(* is counted and recorded.                                                 *)

AskFor(d, act, given) ==
  /\ asking[d] = Idle /\ asked < MaxAsked
  /\ IsAdmin(d)
  /\ asked' = asked + 1
  /\ asking' = [asking EXCEPT ![d] = [pc |-> "waiting", act |-> act, given |-> given]]
  /\ UNCHANGED <<device, admin, code, codes, link, checking, tries, paired, signedIn>>

\* Bug: the turn is not waited for.
TurnIsAlwaysFree == TRUE
TurnIsFree == checking = Nobody

Compare(d) ==
  /\ asking[d].pc = "waiting" /\ TurnIsFree
  /\ ~admin.locked /\ admin.passphrase # NoPassphrase /\ asking[d].given # NoPassphrase
  /\ checking' = d
  /\ asking' = [asking EXCEPT ![d] = [pc |-> "comparing", act |-> @.act, given |-> @.given,
                                     stored |-> admin.passphrase]]
  /\ UNCHANGED <<device, admin, code, codes, link, asked, tries, paired, signedIn>>

RefusedOutright(d) ==
  /\ asking[d].pc = "waiting" /\ TurnIsFree
  /\ admin.locked \/ admin.passphrase = NoPassphrase \/ asking[d].given = NoPassphrase
  /\ asking' = [asking EXCEPT ![d] = Idle]
  /\ UNCHANGED <<device, admin, code, codes, link, checking, asked, tries, paired, signedIn>>

Right(d) ==
  /\ asking[d].pc = "comparing" /\ asking[d].given = asking[d].stored
  /\ checking' = Nobody
  /\ admin' = Succeeded(admin)
  /\ tries' = 0
  /\ asking' = [asking EXCEPT ![d] = [pc |-> "allowed", act |-> @.act]]
  /\ UNCHANGED <<device, code, codes, link, asked, paired, signedIn>>

Wrong(d) ==
  /\ asking[d].pc = "comparing" /\ asking[d].given # asking[d].stored
  /\ checking' = Nobody
  /\ admin' = Failed(admin)
  /\ tries' = tries + 1
  /\ asking' = [asking EXCEPT ![d] = Idle]
  /\ UNCHANGED <<device, code, codes, link, asked, paired, signedIn>>

\* The handler is dropped while it waits or compares; its turn ends with it,
\* and a try that was not answered is not counted.
GoesAway(d) ==
  /\ asking[d].pc \in {"waiting", "comparing"}
  /\ asking' = [asking EXCEPT ![d] = Idle]
  /\ checking' = IF checking = d THEN Nobody ELSE checking
  /\ UNCHANGED <<device, admin, code, codes, link, asked, tries, paired, signedIn>>

\* The rest of an allowed request's handler; what it does is another's step.
Spend(d, act) ==
  /\ asking[d] = [pc |-> "allowed", act |-> act]
  /\ asking' = [asking EXCEPT ![d] = Idle]

PairCodeHere ==
  /\ StartPairing
  /\ UNCHANGED <<device, admin, link, asking, checking, asked, tries, paired, signedIn>>

PairCodeAsked(d) ==
  /\ Spend(d, "pair_code")
  /\ StartPairing
  /\ UNCHANGED <<device, admin, link, checking, asked, tries, paired, signedIn>>

\* The core starts again: the rows stay, the memory does not.
AccessRestart ==
  /\ code' = NoCode
  /\ link' = [l \in 1 .. MaxLinks |-> IF link[l] = "live" THEN "gone" ELSE link[l]]
  /\ asking' = [d \in Devices |-> Idle]
  /\ checking' = Nobody
  /\ UNCHANGED <<device, admin, codes, asked, tries, paired, signedIn>>

AccessNext ==
  \/ CodeLapses \/ Unlock \/ PairCodeHere
  \/ \E d \in Devices : Revoke(d) \/ PairCodeAsked(d)
  \/ \E d \in Devices, guess \in NoCode .. codes : Pair(d, guess) \/ PairRefused(d, guess)
  \/ \E l \in DOMAIN link : MakeLink(l) \/ LinkLapses(l) \/ Follow(l)
  \/ \E p \in Passphrases : SetPassphrase(p)
  \/ \E d \in Devices, role \in BOOLEAN : GiveRole(d, role)
  \/ \E d \in Devices, act \in Acts, given \in Passphrases \cup {NoPassphrase} : AskFor(d, act, given)
  \/ \E d \in Devices : \/ Compare(d) \/ RefusedOutright(d)
                        \/ Right(d) \/ Wrong(d) \/ GoesAway(d)

AccessSpec == AccessInit /\ [][AccessNext \/ AccessRestart]_accessVars

-----------------------------------------------------------------------------

Request ==
  [pc : {"idle"}]
  \cup [pc : {"waiting"}, act : Acts, given : Passphrases \cup {NoPassphrase}]
  \cup [pc : {"comparing"}, act : Acts, given : Passphrases \cup {NoPassphrase}, stored : Passphrases]
  \cup [pc : {"allowed"}, act : Acts]

\* The device and admin rows, what the core keeps in memory, and the requests.
AccessTypeOK ==
  /\ device \in [Devices -> [state : {"unpaired", "active", "revoked"}, admin : BOOLEAN]]
  /\ admin \in [passphrase : Passphrases \cup {NoPassphrase}, failures : Nat, locked : BOOLEAN]
  /\ code \in 0 .. MaxCodes /\ codes \in 0 .. MaxCodes
  /\ link \in [1 .. MaxLinks -> {"unmade", "live", "gone"}]
  /\ asking \in [Devices -> Request]
  /\ checking \in Devices \cup {Nobody}
  /\ asked \in Nat /\ tries \in Nat
  /\ paired \in [1 .. MaxCodes -> SUBSET Devices]
  /\ signedIn \in [1 .. MaxLinks -> Nat]

\* Five wrong passphrases in a row and no sixth is looked at, whoever asks at
\* the same time and however often the core is started again: only a right one,
\* a new passphrase or an unlock lets the count begin again (admin.rs, high).
FiveTries ==
  /\ tries <= Tries
  /\ tries = Tries => admin.locked
  /\ admin.locked => \A d \in Devices : asking[d].pc # "comparing"

\* A code pairs one device and a link signs one browser in, however many try
\* at once (devices.rs, take; local.rs, spend).
OnceOnly ==
  /\ \A c \in DOMAIN paired : Cardinality(paired[c]) <= 1
  /\ \A l \in DOMAIN signedIn : signedIn[l] <= 1
=============================================================================
