----------------------------- MODULE RendererGate -----------------------------
(***************************************************************************)
(* How the controller decides to put its renderer into SceShellUI: the two *)
(* observation gates of run_tracked_worker (src/ps5/commonfps_ps5_main.cpp) *)
(* and ensure_shellui_renderer (src/ps5/shellui_injector.cpp) with its     *)
(* marker file, retry state and quarantine.                                *)
(*                                                                         *)
(* The console runs beside the controller: ShellUI and the game may stop   *)
(* or restart between any two steps of a loop iteration, a lookup may miss *)
(* a live process, the injection may fail at each of its stages, and the   *)
(* injected renderer becomes ready, fails to, or is never heard of again.  *)
(* Process ids are not reused; 0 stands for no process (the code's -1).    *)
(***************************************************************************)
EXTENDS Naturals

CONSTANTS kShellUiGate,   \* identical ShellUI observations required (10)
          kGameGate,      \* identical game observations required (3)
          kRetryTicks,    \* calls skipped after a failed bootstrap (5)
          kMarkerPolls,   \* polls of the marker before giving up (3500)
          kLookupEvery,   \* polls between two ShellUI lookups (50)
          MaxShellUi,     \* bound: ShellUI processes ever started
          MaxGames,       \* bound: game processes ever started
          MaxFaults       \* bound: missed lookups and failed bootstraps

ASSUME GateConstants ==
    /\ kShellUiGate \in Nat \ {0}
    /\ kGameGate \in Nat \ {0}
    /\ kRetryTicks \in Nat
    /\ kMarkerPolls \in Nat
    /\ kLookupEvery \in Nat \ {0}
    /\ MaxShellUi \in Nat
    /\ MaxGames \in Nat
    /\ MaxFaults \in Nat

VARIABLES
    \* The console.
    shellui,            \* the live ShellUI process
    lastShellUi,        \* the newest ShellUI process id given out
    game, lastGame,     \* the same for the game
    faults,             \* faults left
    \* What the injections left in each ShellUI process.
    images,             \* renderer images mapped into it
    renderer,           \* state of the renderer thread in it
    marker,             \* process id in the marker file
    \* Locals of run_tracked_worker.
    pc, stableShellUi, shelluiObs, stableGame, gameObs, rendererOnline,
    \* Statics and locals of ensure_shellui_renderer.
    attemptedPid, attemptedResult, retryAllowed, retryDelay, quarantined,
    target, polls,
    \* Observation: how the controller left each ShellUI process it injected,
    \* and the calls since the last injection, up to kRetryTicks + 1.
    outcome, idle

console == <<shellui, lastShellUi, game, lastGame>>
remote == <<images, renderer, marker>>
gates == <<stableShellUi, shelluiObs, stableGame, gameObs>>
statics == <<attemptedPid, attemptedResult, retryAllowed, retryDelay, quarantined>>
wait == <<target, polls>>
observed == <<outcome, idle>>
vars == <<console, faults, remote, pc, gates, rendererOnline, statics, wait, observed>>

NoProcess == 0
ShellUis == 1 .. MaxShellUi
Games == 1 .. MaxGames

Init ==
    /\ shellui = NoProcess /\ lastShellUi = 0
    /\ game = NoProcess /\ lastGame = 0
    /\ faults = MaxFaults
    /\ images = [p \in ShellUis |-> 0]
    /\ renderer = [p \in ShellUis |-> "absent"]
    /\ marker = NoProcess
    /\ pc = "shellui"
    /\ stableShellUi = NoProcess /\ shelluiObs = 0
    /\ stableGame = NoProcess /\ gameObs = 0
    /\ rendererOnline = FALSE
    /\ attemptedPid = NoProcess /\ attemptedResult = FALSE
    /\ retryAllowed = TRUE /\ retryDelay = 0
    /\ quarantined = FALSE
    /\ target = NoProcess /\ polls = 0
    /\ outcome = [p \in ShellUis |-> "none"]
    /\ idle = 0

------------------------------------------------------------------------------
(***************************************************************************)
(* The console and the injected renderer.                                  *)
(***************************************************************************)
ShellUiStart ==
    /\ shellui = NoProcess /\ lastShellUi < MaxShellUi
    /\ shellui' = lastShellUi + 1 /\ lastShellUi' = lastShellUi + 1
    /\ UNCHANGED <<game, lastGame>>

ShellUiStop ==
    /\ shellui # NoProcess
    /\ shellui' = NoProcess
    /\ UNCHANGED <<lastShellUi, game, lastGame>>

GameStart ==
    /\ game = NoProcess /\ lastGame < MaxGames
    /\ game' = lastGame + 1 /\ lastGame' = lastGame + 1
    /\ UNCHANGED <<shellui, lastShellUi>>

GameExit ==
    /\ game # NoProcess
    /\ game' = NoProcess
    /\ UNCHANGED <<lastGame, shellui, lastShellUi>>

\* elf_main: ready and the marker written, or parked for good.  The marker
\* file may also fail to open, which write_online_marker ignores.
RendererReady(marked) ==
    /\ shellui # NoProcess /\ renderer[shellui] = "running"
    /\ renderer' = [renderer EXCEPT ![shellui] = "online"]
    /\ marker' = IF marked THEN shellui ELSE marker
    /\ UNCHANGED images

RendererParks ==
    /\ shellui # NoProcess /\ renderer[shellui] = "running"
    /\ renderer' = [renderer EXCEPT ![shellui] = "parked"]
    /\ UNCHANGED <<images, marker>>

Console ==
    \/ /\ ShellUiStart \/ ShellUiStop \/ GameStart \/ GameExit
       /\ UNCHANGED <<faults, remote, pc, gates, rendererOnline, statics, wait, observed>>
    \/ /\ RendererParks \/ \E marked \in BOOLEAN : RendererReady(marked)
       /\ UNCHANGED <<console, faults, pc, gates, rendererOnline, statics, wait, observed>>

------------------------------------------------------------------------------
\* A lookup returns the live process or, as a fault, nothing.
Lookup(live, found) ==
    \/ found = live /\ faults' = faults
    \/ found = NoProcess /\ live # NoProcess /\ faults > 0 /\ faults' = faults - 1

(***************************************************************************)
(* The gates at the top of the loop.                                       *)
(***************************************************************************)
ObserveShellUi(found) ==
    /\ pc = "shellui"
    /\ Lookup(shellui, found)
    /\ IF found # NoProcess /\ found = stableShellUi
       THEN /\ shelluiObs' = IF shelluiObs < kShellUiGate THEN shelluiObs + 1 ELSE shelluiObs
            /\ UNCHANGED <<stableShellUi, rendererOnline>>
       ELSE /\ stableShellUi' = found
            /\ shelluiObs' = IF found = NoProcess THEN 0 ELSE 1
            /\ rendererOnline' = FALSE
    /\ pc' = "game"
    /\ UNCHANGED <<console, remote, stableGame, gameObs, statics, wait, observed>>

ObserveGame(found) ==
    /\ pc = "game"
    /\ Lookup(game, found)
    /\ IF found # NoProcess /\ found = stableGame
       THEN /\ gameObs' = IF gameObs < kGameGate THEN gameObs + 1 ELSE gameObs
            /\ stableGame' = stableGame
       ELSE /\ gameObs' = IF found = NoProcess THEN 0 ELSE 1
            /\ stableGame' = found
    /\ pc' = "ensure"
    /\ UNCHANGED <<console, remote, stableShellUi, shelluiObs, rendererOnline,
                   statics, wait, observed>>

GatesOpen ==
    /\ ~ rendererOnline
    /\ gameObs >= kGameGate
    /\ shelluiObs >= kShellUiGate

\* The iteration ends: the packet is sent and the loop sleeps.
EndTick(online) == rendererOnline' = online /\ pc' = "shellui"

SkipEnsure ==
    /\ pc = "ensure" /\ ~ GatesOpen
    /\ EndTick(rendererOnline)
    /\ UNCHANGED <<console, faults, remote, gates, statics, wait, observed>>

MarkerExists(pid) == marker # NoProcess
MarkerMatches(pid) == marker = pid

(***************************************************************************)
(* ensure_shellui_renderer up to the injection.  It looks ShellUI up for   *)
(* itself.                                                                 *)
(***************************************************************************)
Idle == idle' = IF idle <= kRetryTicks THEN idle + 1 ELSE idle

EnsureQuarantined ==
    /\ pc = "ensure" /\ GatesOpen
    /\ quarantined
    /\ EndTick(FALSE)
    /\ UNCHANGED <<console, faults, remote, gates, statics, wait, observed>>

EnsureReturns(found) ==
    /\ pc = "ensure" /\ GatesOpen /\ ~ quarantined
    /\ Lookup(shellui, found)
    /\ \/ found = NoProcess /\ EndTick(FALSE) /\ UNCHANGED retryDelay
       \/ /\ found # NoProcess
          /\ \/ MarkerMatches(found) /\ EndTick(TRUE) /\ UNCHANGED retryDelay
             \/ /\ ~ MarkerMatches(found) /\ attemptedPid = found
                /\ \/ attemptedResult /\ EndTick(TRUE) /\ UNCHANGED retryDelay
                   \/ /\ ~ attemptedResult /\ ~ retryAllowed
                      /\ EndTick(FALSE) /\ UNCHANGED retryDelay
                   \/ /\ ~ attemptedResult /\ retryAllowed /\ retryDelay # 0
                      /\ retryDelay' = retryDelay - 1
                      /\ EndTick(FALSE)
    /\ Idle
    /\ UNCHANGED <<console, remote, gates, attemptedPid, attemptedResult,
                   retryAllowed, quarantined, wait, outcome>>

EnsureAttempts(found) ==
    /\ pc = "ensure" /\ GatesOpen /\ ~ quarantined
    /\ Lookup(shellui, found)
    /\ found # NoProcess /\ ~ MarkerMatches(found)
    /\ \/ /\ attemptedPid # found
          /\ attemptedPid' = found /\ attemptedResult' = FALSE
          /\ retryAllowed' = TRUE /\ retryDelay' = 0
       \/ /\ attemptedPid = found /\ ~ attemptedResult
          /\ retryAllowed /\ retryDelay = 0
          /\ UNCHANGED <<attemptedPid, attemptedResult, retryAllowed, retryDelay>>
    /\ target' = found
    /\ pc' = "inject"
    /\ UNCHANGED <<console, remote, gates, rendererOnline, quarantined, polls, observed>>

(***************************************************************************)
(* inject_shellui_stable, by what it leaves behind and what it reports.    *)
(* A failure to attach or load leaves nothing; later stages may leave an   *)
(* image with or without a running thread, and the report may miss a       *)
(* thread that runs (read-back or authority restoration failed).           *)
(***************************************************************************)
Bootstrap(loaded, started, reported) ==
    /\ started => loaded
    /\ reported => started
    /\ loaded => shellui = target
    /\ images' = IF loaded THEN [images EXCEPT ![target] = @ + 1] ELSE images
    /\ renderer' = IF ~ loaded THEN renderer
                   ELSE [renderer EXCEPT ![target] = IF started THEN "running" ELSE "loaded"]
    /\ marker' = marker

RetryWithImage(loaded) == retryAllowed' = TRUE /\ retryDelay' = kRetryTicks
RetryAtOnce(loaded) == retryAllowed' = ~ loaded /\ retryDelay' = 0

\* A retry only while no image may exist, and only after kRetryTicks calls.
RetryState(loaded) ==
    /\ retryAllowed' = ~ loaded
    /\ retryDelay' = IF loaded THEN 0 ELSE kRetryTicks

InjectFails(loaded, started) ==
    /\ pc = "inject"
    /\ faults > 0 \/ shellui # target
    /\ faults' = IF shellui = target THEN faults - 1 ELSE faults
    /\ Bootstrap(loaded, started, FALSE)
    /\ RetryState(loaded)
    /\ outcome' = IF loaded THEN [outcome EXCEPT ![target] = "bootstrapFailed"] ELSE outcome
    /\ idle' = 0
    /\ EndTick(FALSE)
    /\ UNCHANGED <<console, gates, attemptedPid, attemptedResult, quarantined, wait>>

InjectSucceeds ==
    /\ pc = "inject"
    /\ Bootstrap(TRUE, TRUE, TRUE)
    /\ outcome' = [outcome EXCEPT ![target] = "waiting"]
    /\ idle' = 0
    /\ polls' = 0
    /\ pc' = "wait"
    /\ UNCHANGED <<console, faults, gates, rendererOnline, statics, target>>

(***************************************************************************)
(* The wait for the marker.  Every kLookupEvery polls ShellUI is looked up *)
(* again; a changed process and a timeout quarantine the renderer.         *)
(***************************************************************************)
WaitOnline ==
    /\ pc = "wait" /\ polls < kMarkerPolls
    /\ MarkerMatches(target)
    /\ attemptedResult' = TRUE
    /\ outcome' = [outcome EXCEPT ![target] = "online"]
    /\ EndTick(TRUE)
    /\ UNCHANGED <<console, faults, remote, gates, attemptedPid, retryAllowed,
                   retryDelay, quarantined, wait, idle>>

RefuseThisShellUiOnly(why) ==
    /\ retryAllowed' = FALSE
    /\ outcome' = [outcome EXCEPT ![target] = why]
    /\ EndTick(FALSE)
    /\ UNCHANGED <<console, remote, gates, attemptedPid, attemptedResult,
                   retryDelay, quarantined, wait, idle>>

Quarantine(why) ==
    /\ quarantined' = TRUE /\ retryAllowed' = FALSE
    /\ outcome' = [outcome EXCEPT ![target] = why]
    /\ EndTick(FALSE)
    /\ UNCHANGED <<console, remote, gates, attemptedPid, attemptedResult,
                   retryDelay, wait, idle>>

LookupDue == polls # 0 /\ polls % kLookupEvery = 0

WaitShellUiChanged(found) ==
    /\ pc = "wait" /\ polls < kMarkerPolls
    /\ ~ MarkerMatches(target)
    /\ LookupDue
    /\ Lookup(shellui, found)
    /\ found # NoProcess /\ found # target
    /\ Quarantine("changed")

WaitPollOnceMore(found) ==
    /\ pc = "wait" /\ polls <= kMarkerPolls
    /\ ~ MarkerMatches(target)
    /\ IF LookupDue
       THEN Lookup(shellui, found) /\ found \in {NoProcess, target}
       ELSE found = NoProcess /\ faults' = faults
    /\ polls' = polls + 1
    /\ UNCHANGED <<console, remote, pc, gates, rendererOnline, statics, target, observed>>

WaitPollForever(found) ==
    /\ pc = "wait" /\ polls < kMarkerPolls
    /\ ~ MarkerMatches(target)
    /\ IF LookupDue
       THEN Lookup(shellui, found) /\ found \in {NoProcess, target}
       ELSE found = NoProcess /\ faults' = faults
    /\ UNCHANGED <<console, remote, pc, gates, rendererOnline, statics, wait, observed>>

WaitPoll(found) ==
    /\ pc = "wait" /\ polls < kMarkerPolls
    /\ ~ MarkerMatches(target)
    /\ IF LookupDue
       THEN Lookup(shellui, found) /\ found \in {NoProcess, target}
       ELSE found = NoProcess /\ faults' = faults
    /\ polls' = polls + 1
    /\ UNCHANGED <<console, remote, pc, gates, rendererOnline, statics, target, observed>>

WaitTimeout ==
    /\ pc = "wait" /\ polls = kMarkerPolls
    /\ faults' = faults
    /\ Quarantine("timeout")

Found == 0 .. MaxShellUi

Controller ==
    \/ \E found \in Found : ObserveShellUi(found)
    \/ \E found \in Games \cup {NoProcess} : ObserveGame(found)
    \/ SkipEnsure
    \/ EnsureQuarantined
    \/ \E found \in Found : EnsureReturns(found)
    \/ \E found \in Found : EnsureAttempts(found)
    \/ \E loaded, started \in BOOLEAN : InjectFails(loaded, started)
    \/ InjectSucceeds
    \/ WaitOnline
    \/ \E found \in Found : WaitShellUiChanged(found)
    \/ \E found \in Found : WaitPoll(found)
    \/ WaitTimeout

Next == Controller \/ Console

Spec == Init /\ [][Next]_vars

\* The tracked process is never stopped: its loop keeps running.
FairSpec == Spec /\ WF_vars(Controller)

Values ==
    /\ shellui \in Found /\ lastShellUi \in Found /\ shellui \in {NoProcess, lastShellUi}
    /\ game \in 0 .. MaxGames /\ lastGame \in 0 .. MaxGames /\ game \in {NoProcess, lastGame}
    /\ faults \in 0 .. MaxFaults
    /\ images \in [ShellUis -> Nat]
    /\ renderer \in [ShellUis -> {"absent", "loaded", "running", "online", "parked"}]
    /\ marker \in Found
    /\ pc \in {"shellui", "game", "ensure", "inject", "wait"}
    /\ stableShellUi \in Found /\ shelluiObs \in 0 .. kShellUiGate
    /\ stableGame \in 0 .. MaxGames /\ gameObs \in 0 .. kGameGate
    /\ attemptedPid \in Found /\ retryDelay \in 0 .. kRetryTicks
    /\ target \in Found /\ polls \in 0 .. kMarkerPolls
    /\ outcome \in [ShellUis -> {"none", "bootstrapFailed", "waiting", "online",
                                 "changed", "timeout"}]
    /\ idle \in 0 .. kRetryTicks + 1

Flags ==
    /\ rendererOnline \in BOOLEAN
    /\ attemptedResult \in BOOLEAN
    /\ retryAllowed \in BOOLEAN
    /\ quarantined \in BOOLEAN

TypeOK == Values /\ Flags

------------------------------------------------------------------------------
(***************************************************************************)
(* "Once a remote image/thread may exist, do not stack a second copy in    *)
(* the same ShellUI process" (shellui_injector.cpp 619-624).               *)
(***************************************************************************)
AtMostOneImage == \A p \in ShellUis : images[p] <= 1

(***************************************************************************)
(* While the loop believes the renderer online, and ShellUI is still the   *)
(* process it believes in, the renderer of that process is ready: packets  *)
(* are sent to somebody.                                                   *)
(***************************************************************************)
OnlineIsReal ==
    rendererOnline /\ shellui # NoProcess /\ shellui = stableShellUi =>
        renderer[shellui] = "online"

(***************************************************************************)
(* A renderer whose marker wait failed (timeout, or ShellUI restarted      *)
(* while it was awaited) is the last one injected: no later ShellUI        *)
(* process receives the image (shellui_injector.cpp 649-663, 711-718).     *)
(***************************************************************************)
FailedWaitIsLast ==
    \A p, q \in ShellUis :
        p < q /\ images[q] > 0 => outcome[p] \notin {"waiting", "changed", "timeout"}

(***************************************************************************)
(* A second attempt on one ShellUI process comes only after kRetryTicks    *)
(* further calls returned without one (shellui_injector.cpp 357-360,       *)
(* 624-625), whatever lookups missed in between.                           *)
(***************************************************************************)
RetryPaced ==
    [][ pc = "ensure" /\ pc' = "inject" /\ target = target' => idle >= kRetryTicks ]_vars

(***************************************************************************)
(* With finitely many faults and restarts the loop settles: ShellUI or the *)
(* game is gone, the overlay is online, or the controller gave the         *)
(* injection up for good; it never hangs in the marker wait and never      *)
(* leaves a live game without an answer.                                   *)
(***************************************************************************)
Settles ==
    <>[](\/ shellui = NoProcess \/ game = NoProcess
         \/ rendererOnline
         \/ quarantined
         \/ attemptedPid = shellui /\ ~ retryAllowed)

(***************************************************************************)
(* "Stage 8 requires ten identical one-second ShellUI observations before  *)
(* the first injection. A changed PID after rest mode restarts the same    *)
(* gate" (commonfps_ps5_main.cpp 361-366): the process an image is loaded  *)
(* into is the one the gate counted.                                       *)
(***************************************************************************)
InjectionIsGated == pc = "inject" => target = stableShellUi

(***************************************************************************)
(* "A restarted ShellUI must not receive the same failing image"           *)
(* (shellui_injector.cpp 649): when a started renderer never came online   *)
(* in its process, no later ShellUI process receives the image.            *)
(***************************************************************************)
FailingImageNotRepeated ==
    \A p, q \in ShellUis :
        p < q /\ images[q] > 0 => renderer[p] # "running"
==============================================================================
