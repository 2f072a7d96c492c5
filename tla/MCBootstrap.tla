----------------------------- MODULE MCBootstrap -----------------------------
(***************************************************************************)
(* What the controller does with a borrowed authority before the overlay   *)
(* is online: the bootstrap of the renderer (Injection) and the start of   *)
(* the controller up to the sampler's reads (Authority).  The two run one  *)
(* after the other in one thread and share no state but the authority,     *)
(* which each of them takes as it finds it; a behaviour is one of either,  *)
(* while the other rests in an initial state.                              *)
(***************************************************************************)
EXTENDS Injection

CONSTANTS LauncherFaults,  \* MaxFaults and
          LauncherStarts   \* MaxStarts of Authority

VARIABLES part,
          apc, starts, afaults, aauth, asaved,
          present, icon, param, registered, base, restoreLost

Launcher == INSTANCE Authority WITH
    MaxFaults <- LauncherFaults, MaxStarts <- LauncherStarts,
    pc <- apc, faults <- afaults, auth <- aauth, saved <- asaved

launcher == <<apc, starts, afaults, aauth, asaved, present, icon, param, registered,
              base, restoreLost>>

ASSUME LauncherConstants == Launcher!AuthorityConstants

SuiteInit ==
    /\ part \in {"injection", "launcher"}
    /\ Init /\ Launcher!Init
    /\ part = "injection" => icon = "none" /\ param = "none"

\* A behaviour of the injection may stop where an attempt ended, nowhere else.
Over == part = "injection" /\ pc \in Ends /\ UNCHANGED <<part, vars, launcher>>

SuiteNext ==
    \/ part = "injection" /\ Next /\ UNCHANGED <<part, launcher>>
    \/ part = "launcher" /\ Launcher!Next /\ UNCHANGED <<part, vars>>
    \/ Over

\* The loop of the controller and a ShellUI that is not stopped keep running.
SuiteSpec ==
    /\ SuiteInit /\ [][SuiteNext]_<<part, vars, launcher>>
    /\ WF_vars(part = "injection" /\ Controller)
    /\ WF_vars(part = "injection" /\ Stager)

------------------------------------------------------------------------------
\* The loop samples with its own authority, or a module lookup has said that
\* it could not give the borrowed one back: the launcher never lets the loop
\* begin with the installer's authority.  The settings title is registered only
\* from both of its own files, whichever write failed and wherever an earlier
\* start was cut off.
AuthorityInv == Launcher!AuthorityInv
==============================================================================
