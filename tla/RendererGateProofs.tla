-------------------------- MODULE RendererGateProofs --------------------------
(***************************************************************************)
(* The safety of the injection gate for every value of the constants: type *)
(* correctness, at most one image per ShellUI process, the truth of        *)
(* renderer_online, the finality of a failed marker wait and the pacing of *)
(* retries, all from one inductive invariant.                              *)
(***************************************************************************)
EXTENDS RendererGate, TLAPS

\* Process ids only grow, so what the controller remembers is not newer
\* than the newest ShellUI, and no image is newer than the last attempt.
Ordered ==
    /\ stableShellUi <= lastShellUi
    /\ attemptedPid <= lastShellUi
    /\ target = attemptedPid
    /\ \A p \in ShellUis : images[p] > 0 => p <= attemptedPid

\* An unused process is untouched; the marker names a ready renderer.
Remote ==
    /\ \A p \in ShellUis : images[p] = 0 => renderer[p] = "absent" /\ outcome[p] = "none"
    /\ marker # NoProcess => renderer[marker] = "online"
    /\ attemptedResult => attemptedPid # NoProcess /\ renderer[attemptedPid] = "online"

\* Between attempts an image forbids another one; within one it is pending.
Attempts ==
    /\ attemptedPid # NoProcess /\ pc \notin {"inject", "wait"} =>
           \/ attemptedResult
           \/ ~ retryAllowed
           \/ images[attemptedPid] = 0 /\ idle + retryDelay >= kRetryTicks
    /\ pc \in {"inject", "wait"} =>
           /\ target # NoProcess
           /\ ~ quarantined
           /\ ~ attemptedResult
           /\ stableShellUi # NoProcess /\ stableShellUi <= target
    /\ pc = "inject" => images[target] = 0
    /\ pc = "wait" => images[target] = 1

Observing ==
    /\ shelluiObs > 0 => stableShellUi # NoProcess
    /\ rendererOnline =>
           /\ stableShellUi # NoProcess
           /\ stableShellUi < lastShellUi \/ renderer[stableShellUi] = "online"

Outcomes ==
    \A p \in ShellUis :
        /\ outcome[p] = "waiting" => pc = "wait" /\ p = target
        /\ outcome[p] \in {"changed", "timeout"} => quarantined

GateInv ==
    /\ Values
    /\ Flags
    /\ AtMostOneImage
    /\ FailedWaitIsLast
    /\ Ordered
    /\ Remote
    /\ Attempts
    /\ Observing
    /\ Outcomes

------------------------------------------------------------------------------
USE GateConstants DEF NoProcess, ShellUis, Found, Games, console, remote, gates,
                      statics, wait, observed, MarkerMatches, RetryState

\* Nothing is running, injected or remembered at first.
LEMMA GateInit == Init => GateInv
<1> SUFFICES ASSUME Init PROVE GateInv
    OBVIOUS
<1>1. Values
    BY DEF Init, Values
<1>2. Flags
    BY DEF Init, Flags
<1>3. AtMostOneImage /\ FailedWaitIsLast
    BY DEF Init, AtMostOneImage, FailedWaitIsLast
<1>4. Ordered /\ Remote /\ Attempts
    BY DEF Init, Ordered, Remote, Attempts
<1>5. Observing /\ Outcomes
    BY DEF Init, Observing, Outcomes
<1>6. QED
    BY <1>1, <1>2, <1>3, <1>4, <1>5 DEF GateInv

\* The console and the renderer leave the controller's state alone.
LEMMA ConsoleStep == GateInv /\ Console => GateInv'
<1> SUFFICES ASSUME GateInv, Console PROVE GateInv'
    OBVIOUS
<1> USE DEF GateInv, Values, Flags, AtMostOneImage, FailedWaitIsLast, Ordered, Remote,
            Attempts, Observing, Outcomes
<1>1. CASE /\ ShellUiStart
           /\ UNCHANGED <<faults, remote, pc, gates, rendererOnline, statics, wait, observed>>
    BY <1>1 DEF ShellUiStart
<1>2. CASE /\ ShellUiStop \/ GameStart \/ GameExit
           /\ UNCHANGED <<faults, remote, pc, gates, rendererOnline, statics, wait, observed>>
    BY <1>2 DEF ShellUiStop, GameStart, GameExit
<1>3. CASE /\ RendererParks \/ \E marked \in BOOLEAN : RendererReady(marked)
           /\ UNCHANGED <<console, faults, pc, gates, rendererOnline, statics, wait, observed>>
    BY <1>3 DEF RendererParks, RendererReady
<1>4. QED
    BY <1>1, <1>2, <1>3 DEF Console

\* The gates forget renderer_online with the process they counted.
LEMMA ObserveStep ==
    ASSUME GateInv,
           \/ \E found \in Found : ObserveShellUi(found)
           \/ \E found \in Games \cup {NoProcess} : ObserveGame(found)
    PROVE  GateInv'
<1>0. /\ Values /\ Flags /\ AtMostOneImage /\ FailedWaitIsLast
      /\ Ordered /\ Remote /\ Attempts /\ Observing /\ Outcomes
    BY DEF GateInv
<1> USE <1>0
<1>1. ASSUME NEW found \in Found, ObserveShellUi(found) PROVE GateInv'
  <2>1. Values'
    BY <1>1 DEF Values, ObserveShellUi, Lookup, Ordered, Remote, Attempts
  <2>2. Flags'
    BY <1>1 DEF Flags, ObserveShellUi
  <2>3. AtMostOneImage'
    BY <1>1 DEF AtMostOneImage, ObserveShellUi, Lookup, Values, Ordered, Remote,
           Attempts
  <2>4. FailedWaitIsLast'
    BY <1>1 DEF FailedWaitIsLast, ObserveShellUi, Lookup, Values, Ordered, Remote,
           Attempts
  <2>5. Ordered'
    BY <1>1 DEF Ordered, ObserveShellUi, Lookup, Values, Remote, Attempts
  <2>6. Remote'
    BY <1>1 DEF Remote, ObserveShellUi, Lookup, Values, Ordered, Attempts
  <2>7. Attempts'
    BY <1>1 DEF Attempts, ObserveShellUi, Lookup, Values, Ordered, Remote
  <2>8. Observing'
    BY <1>1 DEF Observing, ObserveShellUi, Lookup, Values, Ordered, Remote, Attempts
  <2>9. Outcomes'
    BY <1>1 DEF Outcomes, ObserveShellUi, Lookup, Values, Ordered, Remote, Attempts
  <2>10. QED
    BY <2>1, <2>2, <2>3, <2>4, <2>5, <2>6, <2>7, <2>8, <2>9 DEF GateInv
<1>2. ASSUME NEW found \in Games \cup {NoProcess}, ObserveGame(found) PROVE GateInv'
    BY <1>2 DEF ObserveGame, Lookup, GateInv, Values, Flags, AtMostOneImage,
           FailedWaitIsLast, Ordered, Remote, Attempts, Observing, Outcomes
<1>3. QED
    BY <1>1, <1>2

\* An attempt is made only on a process without an image: a new one, which
\* is newer than every image, or the last one while its retry is allowed.
LEMMA EnsureStep ==
    ASSUME GateInv,
           \/ SkipEnsure
           \/ EnsureQuarantined
           \/ \E found \in Found : EnsureReturns(found)
           \/ \E found \in Found : EnsureAttempts(found)
    PROVE  GateInv'
<1>0. /\ Values /\ Flags /\ AtMostOneImage /\ FailedWaitIsLast
      /\ Ordered /\ Remote /\ Attempts /\ Observing /\ Outcomes
    BY DEF GateInv
<1> USE <1>0
<1>1. CASE SkipEnsure
    BY <1>1 DEF SkipEnsure, EndTick, GateInv, Values, Flags, AtMostOneImage,
           FailedWaitIsLast, Ordered, Remote, Attempts, Observing, Outcomes
<1>2. CASE EnsureQuarantined
    BY <1>2 DEF EnsureQuarantined, EndTick, GateInv, Values, Flags, AtMostOneImage,
           FailedWaitIsLast, Ordered, Remote, Attempts, Observing, Outcomes
<1>3. ASSUME NEW found \in Found, EnsureReturns(found) PROVE GateInv'
  <2>1. Values'
    BY <1>3 DEF Values, EnsureReturns, EndTick, Idle, Lookup, GatesOpen, Ordered,
           Remote, Attempts
  <2>2. Flags'
    BY <1>3 DEF Flags, EnsureReturns, EndTick
  <2>3. AtMostOneImage'
    BY <1>3 DEF AtMostOneImage, EnsureReturns, EndTick, Idle, Lookup, GatesOpen,
           Values, Ordered, Remote, Attempts
  <2>4. FailedWaitIsLast'
    BY <1>3 DEF FailedWaitIsLast, EnsureReturns, EndTick, Idle, Lookup, GatesOpen,
           Values, Ordered, Remote, Attempts
  <2>5. Ordered'
    BY <1>3 DEF Ordered, EnsureReturns, EndTick, Idle, Lookup, GatesOpen, Values,
           Remote, Attempts
  <2>6. Remote'
    BY <1>3 DEF Remote, EnsureReturns, EndTick, Idle, Lookup, GatesOpen, Values,
           Ordered, Attempts
  <2>7. Attempts'
    BY <1>3 DEF Attempts, EnsureReturns, EndTick, Idle, Lookup, GatesOpen, Values,
           Ordered, Remote
  <2>8. Observing'
    BY <1>3 DEF Observing, EnsureReturns, EndTick, Idle, Lookup, GatesOpen, Values,
           Ordered, Remote, Attempts
  <2>9. Outcomes'
    BY <1>3 DEF Outcomes, EnsureReturns, EndTick, Idle, Lookup, GatesOpen, Values,
           Ordered, Remote, Attempts
  <2>10. QED
    BY <2>1, <2>2, <2>3, <2>4, <2>5, <2>6, <2>7, <2>8, <2>9 DEF GateInv
<1>4. ASSUME NEW found \in Found, EnsureAttempts(found) PROVE GateInv'
  <2>1. Values'
    BY <1>4 DEF Values, EnsureAttempts, Lookup, GatesOpen, Ordered, Remote, Attempts,
           Observing
  <2>2. Flags'
    BY <1>4 DEF Flags, EnsureAttempts
  <2>3. AtMostOneImage'
    BY <1>4 DEF AtMostOneImage, EnsureAttempts, Lookup, GatesOpen, Values, Ordered,
           Remote, Attempts, Observing
  <2>4. FailedWaitIsLast'
    BY <1>4 DEF FailedWaitIsLast, EnsureAttempts, Lookup, GatesOpen, Values, Ordered,
           Remote, Attempts, Observing
  <2>5. Ordered'
    BY <1>4 DEF Ordered, EnsureAttempts, Lookup, GatesOpen, Values, Remote, Attempts,
           Observing
  <2>6. Remote'
    BY <1>4 DEF Remote, EnsureAttempts, Lookup, GatesOpen, Values, Ordered, Attempts,
           Observing
  <2>7. Attempts'
    BY <1>4 DEF Attempts, EnsureAttempts, Lookup, GatesOpen, Values, Ordered, Remote,
           Observing
  <2>8. Observing'
    BY <1>4 DEF Observing, EnsureAttempts, Lookup, GatesOpen, Values, Ordered, Remote,
           Attempts
  <2>9. Outcomes'
    BY <1>4 DEF Outcomes, EnsureAttempts, Lookup, GatesOpen, Values, Ordered, Remote,
           Attempts, Observing
  <2>10. QED
    BY <2>1, <2>2, <2>3, <2>4, <2>5, <2>6, <2>7, <2>8, <2>9 DEF GateInv
<1>5. QED
    BY <1>1, <1>2, <1>3, <1>4

\* The bootstrap adds the first image of its target, the newest process.
LEMMA InjectStep ==
    ASSUME GateInv,
           \/ \E loaded, started \in BOOLEAN : InjectFails(loaded, started)
           \/ InjectSucceeds
    PROVE  GateInv'
<1>0. /\ Values /\ Flags /\ AtMostOneImage /\ FailedWaitIsLast
      /\ Ordered /\ Remote /\ Attempts /\ Observing /\ Outcomes
    BY DEF GateInv
<1> USE <1>0
<1>1. ASSUME NEW loaded \in BOOLEAN, NEW started \in BOOLEAN, InjectFails(loaded, started)
      PROVE  GateInv'
  <2>1. Values'
    BY <1>1 DEF Values, InjectFails, Bootstrap, EndTick, Ordered, Remote, Attempts
  <2>2. Flags'
    BY <1>1 DEF Flags, InjectFails, EndTick
  <2>3. AtMostOneImage'
    BY <1>1 DEF AtMostOneImage, InjectFails, Bootstrap, EndTick, Values, Ordered,
           Remote, Attempts
  <2>4. FailedWaitIsLast'
    BY <1>1 DEF FailedWaitIsLast, InjectFails, Bootstrap, EndTick, Values, Ordered,
           Remote, Attempts, Outcomes
  <2>5. Ordered'
    BY <1>1 DEF Ordered, InjectFails, Bootstrap, EndTick, Values, Remote, Attempts
  <2>6. Remote'
    BY <1>1 DEF Remote, InjectFails, Bootstrap, EndTick, Values, Ordered, Attempts
  <2>7. Attempts'
    <3>1. CASE loaded
      BY <1>1, <3>1 DEF InjectFails, EndTick, Attempts
    <3>2. CASE ~ loaded
      BY <1>1, <3>2 DEF InjectFails, Bootstrap, EndTick, Values, Ordered, Attempts
    <3>3. QED
      BY <3>1, <3>2
  <2>8. Observing'
    BY <1>1 DEF Observing, InjectFails, Bootstrap, EndTick, Values, Ordered, Remote,
           Attempts
  <2>9. Outcomes'
    BY <1>1 DEF Outcomes, InjectFails, Bootstrap, EndTick, Values, Ordered, Remote,
           Attempts
  <2>10. QED
    BY <2>1, <2>2, <2>3, <2>4, <2>5, <2>6, <2>7, <2>8, <2>9 DEF GateInv
<1>2. CASE InjectSucceeds
  <2>1. Values'
    BY <1>2 DEF Values, InjectSucceeds, Bootstrap, Ordered, Remote, Attempts
  <2>2. Flags'
    BY <1>2 DEF Flags, InjectSucceeds
  <2>3. AtMostOneImage'
    BY <1>2 DEF AtMostOneImage, InjectSucceeds, Bootstrap, Values, Ordered, Remote,
           Attempts
  <2>4. FailedWaitIsLast'
    BY <1>2 DEF FailedWaitIsLast, InjectSucceeds, Bootstrap, Values, Ordered, Remote,
           Attempts, Outcomes
  <2>5. Ordered'
    BY <1>2 DEF Ordered, InjectSucceeds, Bootstrap, Values, Remote, Attempts
  <2>6. Remote'
    BY <1>2 DEF Remote, InjectSucceeds, Bootstrap, Values, Ordered, Attempts
  <2>7. Attempts'
    BY <1>2 DEF Attempts, InjectSucceeds, Bootstrap, Values, Ordered, Remote
  <2>8. Observing'
    BY <1>2 DEF Observing, InjectSucceeds, Bootstrap, Values, Ordered, Remote, Attempts
  <2>9. Outcomes'
    BY <1>2 DEF Outcomes, InjectSucceeds, Bootstrap, Values, Ordered, Remote, Attempts
  <2>10. QED
    BY <2>1, <2>2, <2>3, <2>4, <2>5, <2>6, <2>7, <2>8, <2>9 DEF GateInv
<1>3. QED
    BY <1>1, <1>2

\* The wait ends with the marker of the target, or for good.
LEMMA WaitStep ==
    ASSUME GateInv,
           \/ WaitOnline
           \/ \E found \in Found : WaitShellUiChanged(found)
           \/ \E found \in Found : WaitPoll(found)
           \/ WaitTimeout
    PROVE  GateInv'
<1>0. /\ Values /\ Flags /\ AtMostOneImage /\ FailedWaitIsLast
      /\ Ordered /\ Remote /\ Attempts /\ Observing /\ Outcomes
    BY DEF GateInv
<1> USE <1>0
<1>1. CASE WaitOnline
    BY <1>1 DEF WaitOnline, EndTick, GateInv, Values, Flags, AtMostOneImage,
           FailedWaitIsLast, Ordered, Remote, Attempts, Observing, Outcomes
<1>2. ASSUME NEW found \in Found, WaitShellUiChanged(found) PROVE GateInv'
  <2>1. Values'
    BY <1>2 DEF Values, WaitShellUiChanged, Quarantine, EndTick, Lookup, Ordered,
           Remote, Attempts
  <2>2. Flags'
    BY <1>2 DEF Flags, WaitShellUiChanged, Quarantine, EndTick
  <2>3. AtMostOneImage'
    BY <1>2 DEF AtMostOneImage, WaitShellUiChanged, Quarantine, EndTick, Lookup,
           Values, Ordered, Remote, Attempts
  <2>4. FailedWaitIsLast'
    BY <1>2 DEF FailedWaitIsLast, WaitShellUiChanged, Quarantine, EndTick, Lookup,
           Values, Ordered, Remote, Attempts
  <2>5. Ordered'
    BY <1>2 DEF Ordered, WaitShellUiChanged, Quarantine, EndTick, Lookup, Values,
           Remote, Attempts
  <2>6. Remote'
    BY <1>2 DEF Remote, WaitShellUiChanged, Quarantine, EndTick, Lookup, Values,
           Ordered, Attempts
  <2>7. Attempts'
    BY <1>2 DEF Attempts, WaitShellUiChanged, Quarantine, EndTick, Lookup, Values,
           Ordered, Remote
  <2>8. Observing'
    BY <1>2 DEF Observing, WaitShellUiChanged, Quarantine, EndTick, Lookup, Values,
           Ordered, Remote, Attempts
  <2>9. Outcomes'
    BY <1>2 DEF Outcomes, WaitShellUiChanged, Quarantine, EndTick, Lookup, Values,
           Ordered, Remote, Attempts
  <2>10. QED
    BY <2>1, <2>2, <2>3, <2>4, <2>5, <2>6, <2>7, <2>8, <2>9 DEF GateInv
<1>3. ASSUME NEW found \in Found, WaitPoll(found) PROVE GateInv'
    BY <1>3 DEF WaitPoll, Lookup, GateInv, Values, Flags, AtMostOneImage,
           FailedWaitIsLast, Ordered, Remote, Attempts, Observing, Outcomes
<1>4. CASE WaitTimeout
  <2>1. Values'
    BY <1>4 DEF Values, WaitTimeout, Quarantine, EndTick, Ordered, Remote, Attempts
  <2>2. Flags'
    BY <1>4 DEF Flags, WaitTimeout, Quarantine, EndTick
  <2>3. AtMostOneImage'
    BY <1>4 DEF AtMostOneImage, WaitTimeout, Quarantine, EndTick, Values, Ordered,
           Remote, Attempts
  <2>4. FailedWaitIsLast'
    BY <1>4 DEF FailedWaitIsLast, WaitTimeout, Quarantine, EndTick, Values, Ordered,
           Remote, Attempts
  <2>5. Ordered'
    BY <1>4 DEF Ordered, WaitTimeout, Quarantine, EndTick, Values, Remote, Attempts
  <2>6. Remote'
    BY <1>4 DEF Remote, WaitTimeout, Quarantine, EndTick, Values, Ordered, Attempts
  <2>7. Attempts'
    BY <1>4 DEF Attempts, WaitTimeout, Quarantine, EndTick, Values, Ordered, Remote
  <2>8. Observing'
    BY <1>4 DEF Observing, WaitTimeout, Quarantine, EndTick, Values, Ordered, Remote,
           Attempts
  <2>9. Outcomes'
    BY <1>4 DEF Outcomes, WaitTimeout, Quarantine, EndTick, Values, Ordered, Remote,
           Attempts
  <2>10. QED
    BY <2>1, <2>2, <2>3, <2>4, <2>5, <2>6, <2>7, <2>8, <2>9 DEF GateInv
<1>5. QED
    BY <1>1, <1>2, <1>3, <1>4

\* Every step of the console and of the controller preserves the invariant.
LEMMA GateInduction == GateInv /\ [Next]_vars => GateInv'
<1> SUFFICES ASSUME GateInv, [Next]_vars PROVE GateInv'
    OBVIOUS
<1>1. CASE Console
    BY <1>1, ConsoleStep
<1>2. CASE Controller
    BY <1>2, ObserveStep, EnsureStep, InjectStep, WaitStep DEF Controller
<1>3. CASE UNCHANGED vars
    BY <1>3 DEF vars, GateInv, Values, Flags, AtMostOneImage, FailedWaitIsLast,
           Ordered, Remote, Attempts, Observing, Outcomes
<1>4. QED
    BY <1>1, <1>2, <1>3 DEF Next

(***************************************************************************)
(* The inductive invariant of the gates and of ensure_shellui_renderer     *)
(* holds in every reachable state.                                         *)
(***************************************************************************)
THEOREM GateInvariant == Spec => []GateInv
BY GateInit, GateInduction, PTL DEF Spec

------------------------------------------------------------------------------
(***************************************************************************)
(* Every variable of the gate keeps its type, for every length of the      *)
(* gates, waits and retries and every number of restarts and faults.       *)
(***************************************************************************)
THEOREM GateTypeOK == Spec => []TypeOK
<1>1. GateInv => TypeOK
    BY DEF GateInv, TypeOK
<1>2. QED
    BY <1>1, GateInvariant, PTL

(***************************************************************************)
(* No ShellUI process ever holds two renderer images, whatever injections  *)
(* fail and however often ShellUI restarts (shellui_injector.cpp 340-360,  *)
(* 618-631).                                                               *)
(***************************************************************************)
THEOREM OneImagePerShellUi == Spec => []AtMostOneImage
<1>1. GateInv => AtMostOneImage
    BY DEF GateInv
<1>2. QED
    BY <1>1, GateInvariant, PTL

(***************************************************************************)
(* renderer_online is never believed of a live ShellUI whose renderer is   *)
(* not ready (commonfps_ps5_main.cpp 367-383, 541-545).                    *)
(***************************************************************************)
THEOREM OnlineBelief == Spec => []OnlineIsReal
<1>1. GateInv => OnlineIsReal
    BY DEF GateInv, Values, Observing, OnlineIsReal
<1>2. QED
    BY <1>1, GateInvariant, PTL

(***************************************************************************)
(* After a failed marker wait no ShellUI process receives an image any     *)
(* more (shellui_injector.cpp 649-663, 711-718).                           *)
(***************************************************************************)
THEOREM FailedWaitFinal == Spec => []FailedWaitIsLast
<1>1. GateInv => FailedWaitIsLast
    BY DEF GateInv
<1>2. QED
    BY <1>1, GateInvariant, PTL

(***************************************************************************)
(* Two attempts on one ShellUI process are kRetryTicks calls apart         *)
(* (shellui_injector.cpp 357-360, 624-625).                                *)
(***************************************************************************)
THEOREM RetriesPaced == Spec => RetryPaced
<1>1. ASSUME GateInv, [Next]_vars, pc = "ensure", pc' = "inject", target = target'
      PROVE  idle >= kRetryTicks
  <2>1. PICK found \in Found : EnsureAttempts(found)
    BY <1>1 DEF Next, Controller, Console, vars, ShellUiStart, ShellUiStop, GameStart,
       GameExit, ObserveShellUi, ObserveGame, SkipEnsure, EnsureQuarantined,
       EnsureReturns, InjectFails, InjectSucceeds, WaitOnline, WaitShellUiChanged,
       WaitPoll, WaitTimeout, Quarantine, EndTick
  <2>2. attemptedPid # NoProcess /\ ~ attemptedResult /\ retryAllowed /\ retryDelay = 0
    BY <1>1, <2>1 DEF EnsureAttempts, GateInv, Ordered
  <2>3. QED
    BY <1>1, <2>2 DEF GateInv, Attempts, Values
<1>2. GateInv /\ [Next]_vars =>
         [pc = "ensure" /\ pc' = "inject" /\ target = target' => idle >= kRetryTicks]_vars
    BY <1>1
<1>3. QED
    BY <1>2, GateInvariant, PTL DEF Spec, RetryPaced
==============================================================================
