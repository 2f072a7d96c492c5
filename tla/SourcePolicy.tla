----------------------------- MODULE SourcePolicy -----------------------------
(***************************************************************************)
(* Where the controller takes its FPS from, once a second: the game gate,  *)
(* the VideoOut counter of the game process (FpsSampler attach, reset and  *)
(* sample, src/core/fps_sampler.cpp) and the DCE fallback with its standby *)
(* that suppresses VideoOut discovery (run_tracked_worker,                 *)
(* src/ps5/commonfps_ps5_main.cpp).                                        *)
(*                                                                         *)
(* The game may start, exit or change between iterations and a lookup may  *)
(* miss it.  What the memory reads and the device return is an input: a    *)
(* discovery finds no module, finds no counter or resolves one; a sample   *)
(* loses the process, meets a bad time window, a burst or a rate; the DCE  *)
(* names its backend or has nothing.  Game process ids are not reused; 0   *)
(* stands for no process.  Times are in loop periods.                      *)
(***************************************************************************)
EXTENDS Naturals

CONSTANTS kGameGate,     \* identical game observations before the DCE is read (3)
          kStandby,      \* kDceVideoOutStandbyUs (60 s)
          kMisses,       \* kDceMissesBeforeVideoOutWake (3)
          kBackoff,      \* discovery retry delay of FpsSampler (10 s)
          kWarmup,       \* kWarmupDeltasToDiscard (1)
          MaxGames,      \* bound: game processes ever observed
          Periods,       \* how long one iteration may take
          MaxTime        \* bound of the clock

ASSUME PolicyConstants ==
    /\ kGameGate \in Nat \ {0}
    /\ kStandby \in Nat
    /\ kMisses \in Nat \ {0}
    /\ kBackoff \in Nat
    /\ kWarmup \in Nat
    /\ MaxGames \in Nat
    /\ Periods \subseteq Nat \ {0}
    /\ MaxTime \in Nat

VARIABLES
    now, pc,
    lastGame,                 \* the newest game process id given out
    observedGame, stableGame, gameObs,
    \* FpsSampler.
    samplerPid,               \* the attached process
    haveBaseline, warmup,
    failedPid, retryAfter,    \* discovery_failed_pid_, discovery_retry_after_us_
    \* Locals of the loop.
    processFps,               \* sampler.sample() returned a rate
    standbyActive, standbyPid, missStreak, nextProbe,
    haveFps, source,
    \* Observation: iterations in a row that saw the game and no rate, up to
    \* kMisses; whether the last iteration's miss ended the standby; the last
    \* discovery that ran, and the last that failed to resolve; when VideoOut
    \* was last given a chance.
    dark, woken, lastScan, lastFailedScan, lastChance

game == <<lastGame, observedGame, stableGame, gameObs>>
sampler == <<samplerPid, haveBaseline, warmup>>
discovery == <<failedPid, retryAfter>>
standby == <<standbyActive, standbyPid, missStreak>>
display == <<haveFps, source>>
misses == <<dark, woken>>
scans == <<lastScan, lastFailedScan>>
vars == <<now, pc, game, sampler, discovery, processFps, standby, nextProbe,
          display, misses, scans, lastChance>>

NoProcess == 0
NoSource == "None"
DceBackends == {"SharedHen", "DceFixed", "DceAdaptive"}
NoScan == [pid |-> NoProcess, at |-> 0]

Init ==
    /\ now = 0 /\ pc = "game"
    /\ lastGame = 0
    /\ observedGame = NoProcess /\ stableGame = NoProcess /\ gameObs = 0
    /\ samplerPid = NoProcess /\ haveBaseline = FALSE /\ warmup = kWarmup
    /\ failedPid = NoProcess /\ retryAfter = 0
    /\ processFps = FALSE
    /\ standbyActive = FALSE /\ standbyPid = NoProcess /\ missStreak = 0
    /\ nextProbe = 0
    /\ haveFps = FALSE /\ source = NoSource
    /\ dark = 0 /\ woken = FALSE
    /\ lastScan = NoScan /\ lastFailedScan = NoScan /\ lastChance = 0

------------------------------------------------------------------------------
Attached == samplerPid # NoProcess

ResetBaselineOnly ==
    /\ haveBaseline' = FALSE
    /\ warmup' = kWarmup
    /\ UNCHANGED samplerPid

ResetSampler ==
    /\ samplerPid' = NoProcess
    /\ haveBaseline' = FALSE
    /\ warmup' = kWarmup

EndStandby ==
    /\ standbyActive' = FALSE
    /\ standbyPid' = NoProcess
    /\ missStreak' = 0

\* The game lookup returns the newest process, a new one, or nothing.
FindGame(found) ==
    /\ found \in {NoProcess, lastGame, lastGame + 1} \cap 0 .. MaxGames
    /\ lastGame' = IF found > lastGame THEN found ELSE lastGame

ObserveGame(found) ==
    /\ pc = "game"
    /\ FindGame(found)
    /\ observedGame' = found
    /\ IF found # NoProcess /\ found = stableGame
       THEN /\ gameObs' = IF gameObs < kGameGate THEN gameObs + 1 ELSE gameObs
            /\ UNCHANGED <<stableGame, sampler, standby, nextProbe>>
       ELSE /\ gameObs' = IF found = NoProcess THEN 0 ELSE 1
            /\ stableGame' = found
            /\ ResetSampler
            /\ EndStandby
            /\ nextProbe' = 0
    /\ processFps' = FALSE
    /\ pc' = "videoout"
    /\ UNCHANGED <<now, discovery, display, misses, scans, lastChance>>

(***************************************************************************)
(* The VideoOut source: sample when attached, discover when due.           *)
(***************************************************************************)
WarmedUnguarded == IF haveBaseline THEN warmup - 1 ELSE warmup

\* One delta of the warm-up is discarded.
Warmed == IF haveBaseline /\ warmup > 0 THEN warmup - 1 ELSE warmup

SampleVideoOut(outcome) ==
    /\ pc = "videoout" /\ Attached
    /\ \/ outcome = "lost" /\ ResetSampler /\ processFps' = FALSE
       \/ /\ outcome = "short"  \* less than the minimum window since the last read
          /\ haveBaseline
          /\ processFps' = FALSE /\ UNCHANGED sampler
       \/ /\ outcome = "gap"    \* time stood still or jumped
          /\ haveBaseline
          /\ processFps' = FALSE
          /\ warmup' = kWarmup /\ UNCHANGED <<samplerPid, haveBaseline>>
       \/ /\ outcome \in {"burst", "rate"}
          /\ haveBaseline' = TRUE
          /\ warmup' = Warmed
          /\ processFps' = (haveBaseline /\ warmup = 0 /\ outcome = "rate")
          /\ UNCHANGED samplerPid
    /\ lastChance' = now
    /\ pc' = "select"
    /\ UNCHANGED <<now, game, discovery, standby, nextProbe, display, misses, scans>>

ProbeDue == ~ standbyActive \/ now >= nextProbe
BackingOffInStandby == standbyActive /\ observedGame = failedPid /\ now < retryAfter
BackingOff == observedGame = failedPid /\ now < retryAfter

SkipVideoOut ==
    /\ pc = "videoout" /\ ~ Attached
    /\ observedGame = NoProcess \/ ~ ProbeDue
    /\ pc' = "select"
    /\ UNCHANGED <<now, game, sampler, discovery, processFps, standby, nextProbe,
                   display, misses, scans, lastChance>>

\* attach() failed: a probe made in standby is put off again.
PutOffProbe == nextProbe' = IF standbyActive THEN now + kStandby ELSE nextProbe

AttachRefused ==
    /\ pc = "videoout" /\ ~ Attached /\ observedGame # NoProcess /\ ProbeDue
    /\ BackingOff
    /\ PutOffProbe
    /\ lastChance' = now
    /\ pc' = "select"
    /\ UNCHANGED <<now, game, sampler, discovery, processFps, standby, display, misses, scans>>

\* find_module and resolve_counter_address: the discovery itself.
Discover(result) ==
    /\ pc = "videoout" /\ ~ Attached /\ observedGame # NoProcess /\ ProbeDue
    /\ ~ BackingOff
    /\ haveBaseline' = FALSE /\ warmup' = kWarmup
    /\ \/ /\ result = "noModule"
          /\ samplerPid' = NoProcess
          /\ PutOffProbe
          /\ UNCHANGED <<discovery, scans>>
       \/ /\ result = "unresolved"
          /\ samplerPid' = NoProcess
          /\ failedPid' = observedGame /\ retryAfter' = now + kBackoff
          /\ PutOffProbe
          /\ lastScan' = [pid |-> observedGame, at |-> now]
          /\ lastFailedScan' = lastScan'
       \/ /\ result = "resolved"
          /\ samplerPid' = observedGame
          /\ failedPid' = NoProcess /\ retryAfter' = 0
          /\ lastScan' = [pid |-> observedGame, at |-> now]
          /\ UNCHANGED <<nextProbe, lastFailedScan>>
    /\ lastChance' = now
    /\ pc' = "select"
    /\ UNCHANGED <<now, game, processFps, standby, display, misses>>

(***************************************************************************)
(* The choice of the source, and the end of the iteration.                 *)
(***************************************************************************)
EndTick(period) ==
    /\ now + period <= MaxTime
    /\ now' = now + period
    /\ pc' = "game"
    /\ UNCHANGED <<game, sampler, discovery, processFps, scans, lastChance>>

UseVideoOut(period) ==
    /\ pc = "select" /\ processFps
    /\ haveFps' = TRUE /\ source' = "VideoOut"
    /\ EndStandby /\ nextProbe' = 0
    /\ dark' = 0 /\ woken' = FALSE
    /\ EndTick(period)

UseDceRefreshing(backend, period) ==
    /\ pc = "select" /\ ~ processFps
    /\ gameObs >= kGameGate
    /\ haveFps' = TRUE /\ source' = backend
    /\ missStreak' = 0
    /\ IF Attached
       THEN UNCHANGED <<standbyActive, standbyPid, nextProbe>>
       ELSE /\ standbyActive' = TRUE /\ standbyPid' = observedGame
            /\ nextProbe' = now + kStandby
    /\ dark' = 0 /\ woken' = FALSE
    /\ EndTick(period)

\* The DCE is read only for a game that passed the gate.
UseDce(backend, period) ==
    /\ pc = "select" /\ ~ processFps
    /\ gameObs >= kGameGate
    /\ haveFps' = TRUE /\ source' = backend
    /\ missStreak' = 0
    /\ IF Attached
       THEN UNCHANGED <<standbyActive, standbyPid, nextProbe>>
       ELSE /\ standbyActive' = TRUE /\ standbyPid' = observedGame
            /\ nextProbe' = IF standbyActive /\ standbyPid = observedGame
                            THEN nextProbe ELSE now + kStandby
    /\ dark' = 0 /\ woken' = FALSE
    /\ EndTick(period)

MissesWakeLate == missStreak >= kMisses
MissesWake == missStreak + 1 >= kMisses

NoRate(period) ==
    /\ pc = "select" /\ ~ processFps
    /\ haveFps' = FALSE /\ source' = NoSource
    /\ IF standbyActive /\ observedGame # NoProcess
       THEN IF MissesWake
            THEN EndStandby /\ nextProbe' = 0
            ELSE /\ missStreak' = missStreak + 1
                 /\ UNCHANGED <<standbyActive, standbyPid, nextProbe>>
       ELSE UNCHANGED <<standby, nextProbe>>
    /\ woken' = (standbyActive /\ ~ standbyActive')
    /\ dark' = IF observedGame = NoProcess THEN 0
               ELSE IF dark < kMisses THEN dark + 1 ELSE dark
    /\ EndTick(period)

Next ==
    \/ \E found \in 0 .. MaxGames : ObserveGame(found)
    \/ \E outcome \in {"lost", "short", "gap", "burst", "rate"} : SampleVideoOut(outcome)
    \/ SkipVideoOut
    \/ AttachRefused
    \/ \E result \in {"noModule", "unresolved", "resolved"} : Discover(result)
    \/ \E period \in Periods :
           \/ UseVideoOut(period)
           \/ \E backend \in DceBackends : UseDce(backend, period)
           \/ NoRate(period)

Spec == Init /\ [][Next]_vars

Processes == 0 .. MaxGames

TypeOK ==
    /\ now \in 0 .. MaxTime /\ pc \in {"game", "videoout", "select"}
    /\ lastGame \in Processes /\ observedGame \in Processes
    /\ stableGame \in Processes /\ gameObs \in 0 .. kGameGate
    /\ samplerPid \in Processes /\ haveBaseline \in BOOLEAN /\ warmup \in 0 .. kWarmup
    /\ failedPid \in Processes /\ retryAfter \in Nat
    /\ processFps \in BOOLEAN
    /\ standbyActive \in BOOLEAN /\ standbyPid \in Processes
    /\ missStreak \in 0 .. kMisses /\ nextProbe \in Nat
    /\ haveFps \in BOOLEAN /\ source \in DceBackends \cup {"VideoOut", NoSource}
    /\ dark \in 0 .. kMisses /\ woken \in BOOLEAN
    /\ lastScan \in [pid : Processes, at : Nat]
    /\ lastFailedScan \in [pid : Processes, at : Nat]
    /\ lastChance \in 0 .. MaxTime

------------------------------------------------------------------------------
(***************************************************************************)
(* Nothing of an earlier game survives the lookup of the next one: the     *)
(* attached counter and the standby belong to the game the loop counts,    *)
(* and a rate is claimed only while there is one (lines 394-426).          *)
(***************************************************************************)
StateFollowsGame ==
    /\ Attached => samplerPid = stableGame
    /\ standbyActive => standbyPid = stableGame /\ stableGame # NoProcess
    /\ pc = "game" /\ haveFps => stableGame # NoProcess

(***************************************************************************)
(* The standby puts the preferred source off, it does not starve it: once  *)
(* an iteration in standby is past the VideoOut step, a sample or a probe  *)
(* was made within the last kStandby, however often the DCE delivered and  *)
(* however the probes failed (lines 430-444, 494-511).                     *)
(***************************************************************************)
ReprobedInTime ==
    pc = "select" /\ standbyActive => now - lastChance <= kStandby

(***************************************************************************)
(* kMisses iterations in a row that see the game and no rate end the       *)
(* standby: a dead DCE can not keep VideoOut suppressed (lines 521-538).   *)
(***************************************************************************)
DarknessWakes == dark >= kMisses => ~ standbyActive

(***************************************************************************)
(* Two discoveries that fail for one game are kBackoff apart, whatever the *)
(* standby does in between (fps_sampler.cpp 50-76).                        *)
(***************************************************************************)
FailedScansPaced ==
    [][ (/\ lastFailedScan' # lastFailedScan
         /\ lastFailedScan'.pid = lastFailedScan.pid) =>
            lastFailedScan'.at >= lastFailedScan.at + kBackoff ]_vars

(***************************************************************************)
(* "once the DCE fallback has produced a valid FPS sample it suppresses    *)
(* expensive read-only VideoOut discovery for 60 seconds"                  *)
(* (commonfps_ps5_main.cpp 446-449): two discoveries made for one game     *)
(* while the standby is active are kStandby apart.                         *)
(***************************************************************************)
StandbySuppressesDiscovery ==
    [][ (/\ standbyActive /\ lastScan' # lastScan
         /\ lastScan'.pid = lastScan.pid) =>
            lastScan'.at >= lastScan.at + kStandby ]_vars

(***************************************************************************)
(* "immediate recovery after repeated DCE misses" (src/ps5/README.md 14):  *)
(* in the iteration after the misses that ended the standby a discovery    *)
(* is not refused.                                                         *)
(***************************************************************************)
MissesRecoverAtOnce ==
    [][ ~ (woken /\ AttachRefused) ]_vars
==============================================================================
