------------------------------- MODULE House --------------------------------
(***************************************************************************)
(* The two together: agents are installed and removed by this machine, or  *)
(* by an admin device whose request Access let through (web/agents.rs),    *)
(* and both start again when the core does.                                *)
(***************************************************************************)
EXTENDS Access, Agents

vars == <<accessVars, agentsVars>>

ASSUME HouseAssumption == {"pair_code", "install_agent", "uninstall_agent"} \subseteq Acts

Init == AccessInit /\ AgentsInit

\* This machine is let through at once.
InstallHere(a) == Install(a) /\ UNCHANGED accessVars
UninstallHere(a) == PauseBegins(a, "uninstall") /\ UNCHANGED accessVars

AccessKept == UNCHANGED <<device, admin, code, codes, link, checking, asked, tries, paired, signedIn>>

InstallAsked(d, a) == Spend(d, "install_agent") /\ Install(a) /\ AccessKept
\* What it would install is waiting no longer.
InstallTooLate(d, a) ==
  Spend(d, "install_agent") /\ a \notin staged /\ AccessKept /\ UNCHANGED agentsVars
UninstallAsked(d, a) == Spend(d, "uninstall_agent") /\ PauseBegins(a, "uninstall") /\ AccessKept
UninstallOfNone(d, a) ==
  Spend(d, "uninstall_agent") /\ ~Installed(a) /\ AccessKept /\ UNCHANGED agentsVars

Restart == AccessRestart /\ AgentsRestart

HouseNext ==
  \/ AccessNext /\ UNCHANGED agentsVars
  \/ AgentsStep /\ UNCHANGED accessVars
  \/ \E a \in Packages : InstallHere(a) \/ UninstallHere(a)
  \/ \E d \in Devices, a \in Packages : \/ InstallAsked(d, a) \/ InstallTooLate(d, a)
                                        \/ UninstallAsked(d, a) \/ UninstallOfNone(d, a)
  \/ Restart

HouseSpec == Init /\ [][HouseNext]_vars
=============================================================================
