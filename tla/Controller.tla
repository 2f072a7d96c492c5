------------------------------ MODULE Controller ------------------------------
(***************************************************************************)
(* The iterations of run_tracked_worker (src/ps5/commonfps_ps5_main.cpp)   *)
(* from the two lookups to the packet: gates, measurement, the call of     *)
(* ensure_shellui_renderer that may block the loop for a long time, the    *)
(* display filter (module DisplayFilter) and the frame that is sent.  The  *)
(* measurement and the filter read the clock at different times; the       *)
(* blocking call stands between them.                                      *)
(*                                                                         *)
(* Which source measures and how the renderer gets online are the subjects *)
(* of SourcePolicy and RendererGate: here they are inputs.  0 stands for   *)
(* the code's process id -1.  The observation variable lastAt records when *)
(* each rate was last measured of the current game.                        *)
(***************************************************************************)
EXTENDS DisplayFilter

CONSTANTS kShellUiGate,  \* observations before the renderer is started
          kGameGate,     \* observations before a game counts as ready
          MaxShellUi,    \* bound: ShellUI processes
          MaxGames,      \* bound: game processes
          Measurable,    \* rates a source can report
          Sources,       \* the sources that can report them
          Blocking,      \* how long ensure_shellui_renderer may take
          Scanning,      \* how long the measurement may take
          MaxClock       \* bound of the clock

ASSUME ControllerConstants ==
    /\ {kShellUiGate, kGameGate, MaxShellUi, MaxGames, MaxClock} \subseteq Nat
    /\ Measurable \subseteq Rates /\ Sources \subseteq FpsDisplaySource \ {NoSource}
    /\ Blocking \subseteq Nat /\ Scanning \subseteq Nat

VARIABLES
    clock,                         \* now, of the sample and of the filter
    pc,
    stableShellUi, shellUiCount,   \* stable_shellui_pid and its observations
    stableGame, gameCount,         \* stable_game_pid and its observations
    online,                        \* renderer_online
    measured, source,              \* latest_fps when have_fps, display_source
    frame,                         \* the number sent in this iteration, or None
    lastAt

gates == <<stableShellUi, shellUiCount, stableGame, gameCount>>
loopVars == <<filter, clock, pc, gates, online, measured, source, frame, lastAt>>

Nobody == 0
Never == -1
Unmeasured == [rate \in Measurable |-> Never]

LoopInit ==
    /\ filter = Fresh /\ clock = 0 /\ pc = "shellui"
    /\ stableShellUi = Nobody /\ shellUiCount = 0
    /\ stableGame = Nobody /\ gameCount = 0
    /\ online = FALSE
    /\ measured = None /\ source = NoSource
    /\ frame = None
    /\ lastAt = Unmeasured

AtMost(n, limit) == IF n < limit THEN n ELSE limit

\* observe_shellui_once: a process, or none because there is none or it is missed.
ObserveShellUi(pid) ==
    /\ pc = "shellui" /\ pc' = "game"
    /\ frame' = None
    /\ stableShellUi' = pid
    /\ IF pid # Nobody /\ pid = stableShellUi
       THEN /\ shellUiCount' = AtMost(shellUiCount + 1, kShellUiGate)
            /\ UNCHANGED <<online, filter>>
       ELSE /\ shellUiCount' = IF pid = Nobody THEN 0 ELSE 1
            /\ online' = FALSE
            /\ filter' = IF pid = Nobody THEN filter ELSE Fresh
    /\ UNCHANGED <<clock, stableGame, gameCount, measured, source, lastAt>>

ObserveGame(pid) ==
    /\ pc = "game" /\ pc' = "measure"
    /\ stableGame' = pid
    /\ IF pid # Nobody /\ pid = stableGame
       THEN /\ gameCount' = AtMost(gameCount + 1, kGameGate)
            /\ UNCHANGED lastAt
       ELSE /\ gameCount' = IF pid = Nobody THEN 0 ELSE 1
            /\ lastAt' = Unmeasured
    /\ UNCHANGED <<filter, clock, stableShellUi, shellUiCount, online, measured, source, frame>>

GameReady == stableGame # Nobody /\ gameCount >= kGameGate

\* A rate of the attached VideoOut counter (not in the iteration that found
\* the game) or of the DCE (only for a ready game), or none at all.  The
\* time the step takes passes after the value was read.
Measure(rate, from, duration) ==
    /\ pc = "measure" /\ pc' = "ensure"
    /\ clock + duration <= MaxClock
    /\ from = "VideoOut" => stableGame # Nobody /\ gameCount > 1
    /\ from \in Sources \ {"VideoOut"} => GameReady
    /\ measured' = rate /\ source' = from
    /\ clock' = clock + duration
    /\ lastAt' = [r \in Measurable |-> IF r = rate THEN clock ELSE lastAt[r]]
    /\ UNCHANGED <<filter, gates, online, frame>>

\* ensure_shellui_renderer returns TRUE or FALSE after up to 70 seconds.
EnsureRenderer(answer, duration) ==
    /\ pc = "ensure" /\ pc' = "send"
    /\ ~ online /\ GameReady /\ shellUiCount >= kShellUiGate
    /\ clock + duration <= MaxClock
    /\ online' = answer
    /\ clock' = clock + duration
    /\ UNCHANGED <<filter, gates, measured, source, frame, lastAt>>

SkipEnsure ==
    /\ pc = "ensure" /\ pc' = "send"
    /\ online \/ ~ GameReady \/ shellUiCount < kShellUiGate
    /\ UNCHANGED <<filter, clock, gates, online, measured, source, frame, lastAt>>

\* The filter at the present time, the packet, one second of sleep.
Send ==
    /\ pc = "send" /\ pc' = "shellui"
    /\ clock < MaxClock
    /\ Sample(measured, clock, stableGame, source)
    /\ frame' = IF online THEN filter'.displayed ELSE None
    /\ clock' = clock + 1
    /\ measured' = None /\ source' = NoSource   \* assigned again before they are read
    /\ UNCHANGED <<gates, online, lastAt>>

LoopNext ==
    \/ \E pid \in 0 .. MaxShellUi : ObserveShellUi(pid)
    \/ \E pid \in 0 .. MaxGames : ObserveGame(pid)
    \/ \E rate \in Measurable, from \in Sources, duration \in Scanning :
           Measure(rate, from, duration)
    \/ \E duration \in Scanning : Measure(None, NoSource, duration)
    \/ \E answer \in BOOLEAN, duration \in Blocking : EnsureRenderer(answer, duration)
    \/ SkipEnsure
    \/ Send

LoopSpec == LoopInit /\ [][LoopNext]_loopVars

------------------------------------------------------------------------------
\* Measured within the last four windows.
Backs(r) == lastAt[r] # Never /\ clock - lastAt[r] <= 4 * kMaxFpsWindow

(***************************************************************************)
(* A number that is sent is backed by present measurements of the game on  *)
(* screen: it lies between two rates measured within the last four windows *)
(* of the filter, although ensure_shellui_renderer may hold the loop for   *)
(* much longer between a measurement and the filter, and although the      *)
(* filter settles on a median and holds back rises.                        *)
(***************************************************************************)
SentIsBacked ==
    [][ pc = "send" /\ online /\ frame' # None =>
            \E low, high \in {r \in Measurable : Backs(r)} :
                low <= frame' /\ frame' <= high ]_loopVars
==============================================================================
