-------------------------- MODULE SourcePolicyProofs --------------------------
(***************************************************************************)
(* The choice of the FPS source for every gate length, standby, backoff,   *)
(* number of misses and any clock: nothing of an earlier game survives,    *)
(* the standby neither starves VideoOut nor survives a dead DCE, and       *)
(* failed discoveries of one game keep their distance.                     *)
(***************************************************************************)
EXTENDS SourcePolicy, TLAPS

\* The game that is looked up is the game that is counted; it is the newest
\* one, because process ids are not reused.
GameInv ==
    /\ observedGame = stableGame
    /\ observedGame \in {NoProcess, lastGame}
    /\ gameObs > 0 => stableGame # NoProcess
    /\ failedPid <= lastGame
    /\ lastFailedScan.pid <= lastGame

\* A rate of VideoOut comes from an attached sampler of this iteration.
RateInv ==
    /\ pc = "videoout" => ~ processFps
    /\ pc = "select" /\ processFps => Attached

\* The next probe of a standby is at most kStandby after the last chance of
\* VideoOut; an iteration outside a standby gives it one.
ProbeInv ==
    /\ lastChance <= now
    /\ standbyActive => nextProbe <= lastChance + kStandby
    /\ pc = "select" /\ ~ standbyActive /\ observedGame # NoProcess => lastChance = now

\* A standby has missed at least as often as the loop was dark, and not yet
\* often enough to end.
MissInv == standbyActive => dark <= missStreak /\ missStreak < kMisses

\* The last failed discovery of the current game is remembered until its
\* backoff is over.
BackoffInv ==
    lastFailedScan.pid # NoProcess /\ lastFailedScan.pid = lastGame =>
        IF failedPid = lastGame THEN retryAfter = lastFailedScan.at + kBackoff
        ELSE now >= lastFailedScan.at + kBackoff

PolicyInv ==
    /\ TypeOK
    /\ StateFollowsGame
    /\ ReprobedInTime
    /\ GameInv
    /\ RateInv
    /\ ProbeInv
    /\ MissInv
    /\ BackoffInv

------------------------------------------------------------------------------
USE PolicyConstants DEF NoProcess, NoSource, DceBackends, Processes, NoScan, Attached, game,
    sampler, discovery, standby, display, misses, scans

\* At first there is no game.
LEMMA PolicyInit == Init => PolicyInv
<1> SUFFICES ASSUME Init PROVE PolicyInv
    OBVIOUS
<1>1. TypeOK
  <2>1. now \in 0 .. MaxTime /\ pc \in {"game", "videoout", "select"}
    BY DEF Init
  <2>2. /\ lastGame \in Processes /\ observedGame \in Processes
        /\ stableGame \in Processes /\ gameObs \in 0 .. kGameGate
    BY DEF Init
  <2>3. samplerPid \in Processes /\ warmup \in 0 .. kWarmup
    BY DEF Init
  <2>4. failedPid \in Processes /\ retryAfter \in Nat
    BY DEF Init
  <2>5. standbyPid \in Processes /\ missStreak \in 0 .. kMisses /\ nextProbe \in Nat
    BY DEF Init
  <2>6. source \in DceBackends \cup {"VideoOut", NoSource} /\ dark \in 0 .. kMisses
    BY DEF Init
  <2>7. /\ lastScan \in [pid : Processes, at : Nat] /\ lastFailedScan \in [pid : Processes, at : Nat]
        /\ lastChance \in 0 .. MaxTime
    BY DEF Init
  <2>8. /\ haveBaseline \in BOOLEAN /\ processFps \in BOOLEAN /\ standbyActive \in BOOLEAN
        /\ haveFps \in BOOLEAN /\ woken \in BOOLEAN
    BY DEF Init
  <2> QED
    BY <2>1, <2>2, <2>3, <2>4, <2>5, <2>6, <2>7, <2>8 DEF TypeOK
<1>2. StateFollowsGame /\ ReprobedInTime /\ GameInv /\ RateInv
    BY DEF Init, StateFollowsGame, ReprobedInTime, GameInv, RateInv
<1>3. ProbeInv /\ MissInv /\ BackoffInv
    BY DEF Init, ProbeInv, MissInv, BackoffInv
<1> QED
    BY <1>1, <1>2, <1>3 DEF PolicyInv

\* A lookup that does not repeat the game forgets the sampler and the standby.
LEMMA ObserveStep ==
    ASSUME PolicyInv, NEW found \in 0 .. MaxGames, ObserveGame(found)
    PROVE  PolicyInv'
<1> USE DEF PolicyInv
<1>1. TypeOK'
  <2>1. now' \in 0 .. MaxTime /\ pc' \in {"game", "videoout", "select"}
    BY DEF TypeOK, ObserveGame, FindGame, ResetSampler, EndStandby
  <2>2. /\ lastGame' \in Processes /\ observedGame' \in Processes
        /\ stableGame' \in Processes /\ gameObs' \in 0 .. kGameGate
    BY DEF TypeOK, ObserveGame, FindGame, ResetSampler, EndStandby
  <2>3. samplerPid' \in Processes /\ warmup' \in 0 .. kWarmup
    BY DEF TypeOK, ObserveGame, FindGame, ResetSampler, EndStandby
  <2>4. failedPid' \in Processes /\ retryAfter' \in Nat
    BY DEF TypeOK, ObserveGame, FindGame, ResetSampler, EndStandby
  <2>5. standbyPid' \in Processes /\ missStreak' \in 0 .. kMisses /\ nextProbe' \in Nat
    BY DEF TypeOK, ObserveGame, FindGame, ResetSampler, EndStandby
  <2>6. source' \in DceBackends \cup {"VideoOut", NoSource} /\ dark' \in 0 .. kMisses
    BY DEF TypeOK, ObserveGame, FindGame, ResetSampler, EndStandby
  <2>7. /\ lastScan' \in [pid : Processes, at : Nat] /\ lastFailedScan' \in [pid : Processes, at : Nat]
        /\ lastChance' \in 0 .. MaxTime
    BY DEF TypeOK, ObserveGame, FindGame, ResetSampler, EndStandby
  <2>8. /\ haveBaseline' \in BOOLEAN /\ processFps' \in BOOLEAN /\ standbyActive' \in BOOLEAN
        /\ haveFps' \in BOOLEAN /\ woken' \in BOOLEAN
    BY DEF TypeOK, ObserveGame, FindGame, ResetSampler, EndStandby
  <2> QED
    BY <2>1, <2>2, <2>3, <2>4, <2>5, <2>6, <2>7, <2>8 DEF TypeOK
<1>2. StateFollowsGame'
    BY DEF StateFollowsGame, ObserveGame, FindGame, ResetSampler, EndStandby
<1>3. ReprobedInTime'
    BY DEF ReprobedInTime, ObserveGame, FindGame, ResetSampler, EndStandby
<1>4. GameInv'
    BY DEF GameInv, TypeOK, ObserveGame, FindGame, ResetSampler, EndStandby
<1>5. RateInv'
    BY DEF RateInv, ObserveGame, FindGame, ResetSampler, EndStandby
<1>6. ProbeInv'
    BY DEF ProbeInv, ObserveGame, FindGame, ResetSampler, EndStandby
<1>7. MissInv'
    BY DEF MissInv, ObserveGame, FindGame, ResetSampler, EndStandby
<1>8. BackoffInv'
    BY DEF BackoffInv, TypeOK, GameInv, StateFollowsGame, ObserveGame, FindGame,
        ResetSampler, EndStandby
<1> QED
    BY <1>1, <1>2, <1>3, <1>4, <1>5, <1>6, <1>7, <1>8

\* A sample is a chance of VideoOut.
LEMMA SampleStep ==
    ASSUME PolicyInv, NEW outcome \in {"lost", "short", "gap", "burst", "rate"}, SampleVideoOut(outcome)
    PROVE  PolicyInv'
<1> USE DEF PolicyInv
<1>1. TypeOK'
  <2>1. now' \in 0 .. MaxTime /\ pc' \in {"game", "videoout", "select"}
    BY DEF TypeOK, SampleVideoOut, ResetSampler, Warmed
  <2>2. /\ lastGame' \in Processes /\ observedGame' \in Processes
        /\ stableGame' \in Processes /\ gameObs' \in 0 .. kGameGate
    BY DEF TypeOK, SampleVideoOut, ResetSampler, Warmed
  <2>3. samplerPid' \in Processes /\ warmup' \in 0 .. kWarmup
    BY DEF TypeOK, SampleVideoOut, ResetSampler, Warmed
  <2>4. failedPid' \in Processes /\ retryAfter' \in Nat
    BY DEF TypeOK, SampleVideoOut, ResetSampler, Warmed
  <2>5. standbyPid' \in Processes /\ missStreak' \in 0 .. kMisses /\ nextProbe' \in Nat
    BY DEF TypeOK, SampleVideoOut, ResetSampler, Warmed
  <2>6. source' \in DceBackends \cup {"VideoOut", NoSource} /\ dark' \in 0 .. kMisses
    BY DEF TypeOK, SampleVideoOut, ResetSampler, Warmed
  <2>7. /\ lastScan' \in [pid : Processes, at : Nat] /\ lastFailedScan' \in [pid : Processes, at : Nat]
        /\ lastChance' \in 0 .. MaxTime
    BY DEF TypeOK, SampleVideoOut, ResetSampler, Warmed
  <2>8. /\ haveBaseline' \in BOOLEAN /\ processFps' \in BOOLEAN /\ standbyActive' \in BOOLEAN
        /\ haveFps' \in BOOLEAN /\ woken' \in BOOLEAN
    BY DEF TypeOK, SampleVideoOut, ResetSampler, Warmed
  <2> QED
    BY <2>1, <2>2, <2>3, <2>4, <2>5, <2>6, <2>7, <2>8 DEF TypeOK
<1>2. StateFollowsGame'
    BY DEF StateFollowsGame, SampleVideoOut, ResetSampler, Warmed
<1>3. ReprobedInTime'
    BY DEF ReprobedInTime, TypeOK, SampleVideoOut, ResetSampler, Warmed
<1>4. GameInv'
    BY DEF GameInv, SampleVideoOut, ResetSampler, Warmed
<1>5. RateInv'
    BY DEF RateInv, SampleVideoOut, ResetSampler, Warmed
<1>6. ProbeInv'
    BY DEF ProbeInv, TypeOK, SampleVideoOut, ResetSampler, Warmed
<1>7. MissInv'
    BY DEF MissInv, SampleVideoOut, ResetSampler, Warmed
<1>8. BackoffInv'
    BY DEF BackoffInv, SampleVideoOut, ResetSampler, Warmed
<1> QED
    BY <1>1, <1>2, <1>3, <1>4, <1>5, <1>6, <1>7, <1>8

\* VideoOut is skipped without a game, or before the next probe is due.
LEMMA SkipStep ==
    ASSUME PolicyInv, SkipVideoOut
    PROVE  PolicyInv'
<1> USE DEF PolicyInv
<1>1. TypeOK'
    BY DEF TypeOK, SkipVideoOut, ProbeDue
<1>2. StateFollowsGame'
    BY DEF StateFollowsGame, SkipVideoOut, ProbeDue
<1>3. ReprobedInTime'
    BY DEF ReprobedInTime, TypeOK, GameInv, StateFollowsGame, RateInv, ProbeInv,
        SkipVideoOut, ProbeDue
<1>4. GameInv'
    BY DEF GameInv, SkipVideoOut, ProbeDue
<1>5. RateInv'
    BY DEF RateInv, SkipVideoOut, ProbeDue
<1>6. ProbeInv'
    BY DEF ProbeInv, SkipVideoOut, ProbeDue
<1>7. MissInv'
    BY DEF MissInv, SkipVideoOut, ProbeDue
<1>8. BackoffInv'
    BY DEF BackoffInv, SkipVideoOut, ProbeDue
<1> QED
    BY <1>1, <1>2, <1>3, <1>4, <1>5, <1>6, <1>7, <1>8

\* A probe that is refused is put off from now.
LEMMA RefusedStep ==
    ASSUME PolicyInv, AttachRefused
    PROVE  PolicyInv'
<1> USE DEF PolicyInv
<1>1. TypeOK'
    BY DEF TypeOK, AttachRefused, ProbeDue, BackingOff, PutOffProbe
<1>2. StateFollowsGame'
    BY DEF StateFollowsGame, AttachRefused, ProbeDue, BackingOff, PutOffProbe
<1>3. ReprobedInTime'
    BY DEF ReprobedInTime, TypeOK, AttachRefused, ProbeDue, BackingOff, PutOffProbe
<1>4. GameInv'
    BY DEF GameInv, AttachRefused, ProbeDue, BackingOff, PutOffProbe
<1>5. RateInv'
    BY DEF RateInv, AttachRefused, ProbeDue, BackingOff, PutOffProbe
<1>6. ProbeInv'
    BY DEF ProbeInv, TypeOK, AttachRefused, ProbeDue, BackingOff, PutOffProbe
<1>7. MissInv'
    BY DEF MissInv, AttachRefused, ProbeDue, BackingOff, PutOffProbe
<1>8. BackoffInv'
    BY DEF BackoffInv, AttachRefused, ProbeDue, BackingOff, PutOffProbe
<1> QED
    BY <1>1, <1>2, <1>3, <1>4, <1>5, <1>6, <1>7, <1>8

\* A discovery runs after the backoff of the last failed one.
LEMMA DiscoverStep ==
    ASSUME PolicyInv, NEW result \in {"noModule", "unresolved", "resolved"}, Discover(result)
    PROVE  PolicyInv'
<1> USE DEF PolicyInv
<1>1. TypeOK'
  <2>1. now' \in 0 .. MaxTime /\ pc' \in {"game", "videoout", "select"}
    BY DEF TypeOK, Discover, PutOffProbe
  <2>2. /\ lastGame' \in Processes /\ observedGame' \in Processes
        /\ stableGame' \in Processes /\ gameObs' \in 0 .. kGameGate
    BY DEF TypeOK, Discover, PutOffProbe
  <2>3. samplerPid' \in Processes /\ warmup' \in 0 .. kWarmup
    BY DEF TypeOK, Discover, PutOffProbe
  <2>4. failedPid' \in Processes /\ retryAfter' \in Nat
    BY DEF TypeOK, Discover, PutOffProbe
  <2>5. standbyPid' \in Processes /\ missStreak' \in 0 .. kMisses /\ nextProbe' \in Nat
    BY DEF TypeOK, Discover, PutOffProbe
  <2>6. source' \in DceBackends \cup {"VideoOut", NoSource} /\ dark' \in 0 .. kMisses
    BY DEF TypeOK, Discover, PutOffProbe
  <2>7. /\ lastScan' \in [pid : Processes, at : Nat] /\ lastFailedScan' \in [pid : Processes, at : Nat]
        /\ lastChance' \in 0 .. MaxTime
    BY DEF TypeOK, Discover, PutOffProbe
  <2>8. /\ haveBaseline' \in BOOLEAN /\ processFps' \in BOOLEAN /\ standbyActive' \in BOOLEAN
        /\ haveFps' \in BOOLEAN /\ woken' \in BOOLEAN
    BY DEF TypeOK, Discover, PutOffProbe
  <2> QED
    BY <2>1, <2>2, <2>3, <2>4, <2>5, <2>6, <2>7, <2>8 DEF TypeOK
<1>2. StateFollowsGame'
    BY DEF StateFollowsGame, TypeOK, GameInv, Discover, ProbeDue, BackingOff, PutOffProbe
<1>3. ReprobedInTime'
    BY DEF ReprobedInTime, TypeOK, Discover, ProbeDue, BackingOff, PutOffProbe
<1>4. GameInv'
    BY DEF GameInv, TypeOK, Discover, ProbeDue, BackingOff, PutOffProbe
<1>5. RateInv'
    BY DEF RateInv, Discover, ProbeDue, BackingOff, PutOffProbe
<1>6. ProbeInv'
    BY DEF ProbeInv, TypeOK, Discover, ProbeDue, BackingOff, PutOffProbe
<1>7. MissInv'
    BY DEF MissInv, Discover, ProbeDue, BackingOff, PutOffProbe
<1>8. BackoffInv'
    BY DEF BackoffInv, TypeOK, GameInv, StateFollowsGame, Discover, ProbeDue, BackingOff,
        PutOffProbe
<1> QED
    BY <1>1, <1>2, <1>3, <1>4, <1>5, <1>6, <1>7, <1>8

\* A rate of VideoOut ends the standby.
LEMMA VideoOutStep ==
    ASSUME PolicyInv, NEW period \in Periods, UseVideoOut(period)
    PROVE  PolicyInv'
<1> USE DEF PolicyInv
<1>1. TypeOK'
  <2>1. now' \in 0 .. MaxTime /\ pc' \in {"game", "videoout", "select"}
    BY DEF TypeOK, UseVideoOut, EndStandby, EndTick
  <2>2. /\ lastGame' \in Processes /\ observedGame' \in Processes
        /\ stableGame' \in Processes /\ gameObs' \in 0 .. kGameGate
    BY DEF TypeOK, UseVideoOut, EndStandby, EndTick
  <2>3. samplerPid' \in Processes /\ warmup' \in 0 .. kWarmup
    BY DEF TypeOK, UseVideoOut, EndStandby, EndTick
  <2>4. failedPid' \in Processes /\ retryAfter' \in Nat
    BY DEF TypeOK, UseVideoOut, EndStandby, EndTick
  <2>5. standbyPid' \in Processes /\ missStreak' \in 0 .. kMisses /\ nextProbe' \in Nat
    BY DEF TypeOK, UseVideoOut, EndStandby, EndTick
  <2>6. source' \in DceBackends \cup {"VideoOut", NoSource} /\ dark' \in 0 .. kMisses
    BY DEF TypeOK, UseVideoOut, EndStandby, EndTick
  <2>7. /\ lastScan' \in [pid : Processes, at : Nat] /\ lastFailedScan' \in [pid : Processes, at : Nat]
        /\ lastChance' \in 0 .. MaxTime
    BY DEF TypeOK, UseVideoOut, EndStandby, EndTick
  <2>8. /\ haveBaseline' \in BOOLEAN /\ processFps' \in BOOLEAN /\ standbyActive' \in BOOLEAN
        /\ haveFps' \in BOOLEAN /\ woken' \in BOOLEAN
    BY DEF TypeOK, UseVideoOut, EndStandby, EndTick
  <2> QED
    BY <2>1, <2>2, <2>3, <2>4, <2>5, <2>6, <2>7, <2>8 DEF TypeOK
<1>2. StateFollowsGame'
    BY DEF StateFollowsGame, TypeOK, GameInv, RateInv, ProbeInv, UseVideoOut, EndStandby,
        EndTick
<1>3. ReprobedInTime'
    BY DEF ReprobedInTime, UseVideoOut, EndStandby, EndTick
<1>4. GameInv'
    BY DEF GameInv, UseVideoOut, EndStandby, EndTick
<1>5. RateInv'
    BY DEF RateInv, UseVideoOut, EndStandby, EndTick
<1>6. ProbeInv'
    BY DEF ProbeInv, TypeOK, UseVideoOut, EndStandby, EndTick
<1>7. MissInv'
    BY DEF MissInv, UseVideoOut, EndStandby, EndTick
<1>8. BackoffInv'
    BY DEF BackoffInv, TypeOK, UseVideoOut, EndStandby, EndTick
<1> QED
    BY <1>1, <1>2, <1>3, <1>4, <1>5, <1>6, <1>7, <1>8

\* A standby starts in an iteration that gave VideoOut a chance.
LEMMA DceStep ==
    ASSUME PolicyInv, NEW backend \in DceBackends, NEW period \in Periods, UseDce(backend, period)
    PROVE  PolicyInv'
<1> USE DEF PolicyInv
<1>1. TypeOK'
  <2>1. now' \in 0 .. MaxTime /\ pc' \in {"game", "videoout", "select"}
    BY DEF TypeOK, UseDce, EndTick
  <2>2. /\ lastGame' \in Processes /\ observedGame' \in Processes
        /\ stableGame' \in Processes /\ gameObs' \in 0 .. kGameGate
    BY DEF TypeOK, UseDce, EndTick
  <2>3. samplerPid' \in Processes /\ warmup' \in 0 .. kWarmup
    BY DEF TypeOK, UseDce, EndTick
  <2>4. failedPid' \in Processes /\ retryAfter' \in Nat
    BY DEF TypeOK, UseDce, EndTick
  <2>5. standbyPid' \in Processes /\ missStreak' \in 0 .. kMisses /\ nextProbe' \in Nat
    BY DEF TypeOK, UseDce, EndTick
  <2>6. source' \in DceBackends \cup {"VideoOut", NoSource} /\ dark' \in 0 .. kMisses
    BY DEF TypeOK, UseDce, EndTick
  <2>7. /\ lastScan' \in [pid : Processes, at : Nat] /\ lastFailedScan' \in [pid : Processes, at : Nat]
        /\ lastChance' \in 0 .. MaxTime
    BY DEF TypeOK, UseDce, EndTick
  <2>8. /\ haveBaseline' \in BOOLEAN /\ processFps' \in BOOLEAN /\ standbyActive' \in BOOLEAN
        /\ haveFps' \in BOOLEAN /\ woken' \in BOOLEAN
    BY DEF TypeOK, UseDce, EndTick
  <2> QED
    BY <2>1, <2>2, <2>3, <2>4, <2>5, <2>6, <2>7, <2>8 DEF TypeOK
<1>2. StateFollowsGame'
    BY DEF StateFollowsGame, TypeOK, GameInv, UseDce, EndTick
<1>3. ReprobedInTime'
    BY DEF ReprobedInTime, UseDce, EndTick
<1>4. GameInv'
    BY DEF GameInv, UseDce, EndTick
<1>5. RateInv'
    BY DEF RateInv, UseDce, EndTick
<1>6. ProbeInv'
    BY DEF ProbeInv, TypeOK, GameInv, StateFollowsGame, UseDce, EndTick
<1>7. MissInv'
    BY DEF MissInv, UseDce, EndTick
<1>8. BackoffInv'
    BY DEF BackoffInv, TypeOK, UseDce, EndTick
<1> QED
    BY <1>1, <1>2, <1>3, <1>4, <1>5, <1>6, <1>7, <1>8

\* A miss counts for the standby whenever the loop is dark.
LEMMA NoRateStep ==
    ASSUME PolicyInv, NEW period \in Periods, NoRate(period)
    PROVE  PolicyInv'
<1> USE DEF PolicyInv
<1>1. TypeOK'
  <2>1. now' \in 0 .. MaxTime /\ pc' \in {"game", "videoout", "select"}
    BY DEF TypeOK, NoRate, EndStandby, EndTick, MissesWake
  <2>2. /\ lastGame' \in Processes /\ observedGame' \in Processes
        /\ stableGame' \in Processes /\ gameObs' \in 0 .. kGameGate
    BY DEF TypeOK, NoRate, EndStandby, EndTick, MissesWake
  <2>3. samplerPid' \in Processes /\ warmup' \in 0 .. kWarmup
    BY DEF TypeOK, NoRate, EndStandby, EndTick, MissesWake
  <2>4. failedPid' \in Processes /\ retryAfter' \in Nat
    BY DEF TypeOK, NoRate, EndStandby, EndTick, MissesWake
  <2>5. standbyPid' \in Processes /\ missStreak' \in 0 .. kMisses /\ nextProbe' \in Nat
    BY DEF TypeOK, NoRate, EndStandby, EndTick, MissesWake
  <2>6. source' \in DceBackends \cup {"VideoOut", NoSource} /\ dark' \in 0 .. kMisses
    BY DEF TypeOK, NoRate, EndStandby, EndTick, MissesWake
  <2>7. /\ lastScan' \in [pid : Processes, at : Nat] /\ lastFailedScan' \in [pid : Processes, at : Nat]
        /\ lastChance' \in 0 .. MaxTime
    BY DEF TypeOK, NoRate, EndStandby, EndTick, MissesWake
  <2>8. /\ haveBaseline' \in BOOLEAN /\ processFps' \in BOOLEAN /\ standbyActive' \in BOOLEAN
        /\ haveFps' \in BOOLEAN /\ woken' \in BOOLEAN
    BY DEF TypeOK, NoRate, EndStandby, EndTick, MissesWake
  <2> QED
    BY <2>1, <2>2, <2>3, <2>4, <2>5, <2>6, <2>7, <2>8 DEF TypeOK
<1>2. StateFollowsGame'
    BY DEF StateFollowsGame, NoRate, EndStandby, EndTick, MissesWake
<1>3. ReprobedInTime'
    BY DEF ReprobedInTime, NoRate, EndStandby, EndTick, MissesWake
<1>4. GameInv'
    BY DEF GameInv, NoRate, EndStandby, EndTick, MissesWake
<1>5. RateInv'
    BY DEF RateInv, NoRate, EndStandby, EndTick, MissesWake
<1>6. ProbeInv'
    BY DEF ProbeInv, TypeOK, NoRate, EndStandby, EndTick, MissesWake
<1>7. MissInv'
  <2> SUFFICES ASSUME standbyActive' PROVE dark' <= missStreak' /\ missStreak' < kMisses
    BY DEF MissInv
  <2>1. standbyActive /\ observedGame # NoProcess /\ ~ MissesWake
    BY DEF NoRate, EndStandby, StateFollowsGame, GameInv
  <2>2. missStreak' = missStreak + 1 /\ dark' = IF dark < kMisses THEN dark + 1 ELSE dark
    BY <2>1 DEF NoRate
  <2>3. /\ dark \in Nat /\ missStreak \in Nat /\ dark <= missStreak
        /\ missStreak + 1 < kMisses
    BY <2>1 DEF TypeOK, MissInv, MissesWake
  <2> QED
    BY <2>2, <2>3
<1>8. BackoffInv'
    BY DEF BackoffInv, TypeOK, NoRate, EndStandby, EndTick, MissesWake
<1> QED
    BY <1>1, <1>2, <1>3, <1>4, <1>5, <1>6, <1>7, <1>8

------------------------------------------------------------------------------
\* Every step of an iteration keeps the invariant.
LEMMA PolicyStep == PolicyInv /\ [Next]_vars => PolicyInv'
<1> SUFFICES ASSUME PolicyInv, [Next]_vars PROVE PolicyInv'
    OBVIOUS
<1>1. ASSUME NEW found \in 0 .. MaxGames, ObserveGame(found) PROVE PolicyInv'
    BY <1>1, ObserveStep
<1>2. ASSUME NEW outcome \in {"lost", "short", "gap", "burst", "rate"}, SampleVideoOut(outcome)
      PROVE PolicyInv'
    BY <1>2, SampleStep
<1>3. CASE SkipVideoOut \/ AttachRefused
    BY <1>3, SkipStep, RefusedStep
<1>4. ASSUME NEW result \in {"noModule", "unresolved", "resolved"}, Discover(result)
      PROVE PolicyInv'
    BY <1>4, DiscoverStep
<1>5. ASSUME NEW period \in Periods, UseVideoOut(period) \/ NoRate(period) PROVE PolicyInv'
    BY <1>5, VideoOutStep, NoRateStep
<1>6. ASSUME NEW period \in Periods, NEW backend \in DceBackends, UseDce(backend, period)
      PROVE PolicyInv'
    BY <1>6, DceStep
<1>7. CASE UNCHANGED vars
    BY <1>7 DEF vars, PolicyInv, TypeOK, StateFollowsGame, ReprobedInTime, GameInv, RateInv,
       ProbeInv, MissInv, BackoffInv
<1> QED
    BY <1>1, <1>2, <1>3, <1>4, <1>5, <1>6, <1>7 DEF Next

\* The inductive invariant holds in every reachable state.
LEMMA PolicyInvariant == Spec => []PolicyInv
    BY PolicyInit, PolicyStep, PTL DEF Spec

\* Every variable of the loop and of the sampler keeps its type, for every
\* choice of the intervals: counters stay below their limits, no delay is
\* negative.
THEOREM PolicyTypeOK == Spec => []TypeOK
<1>1. PolicyInv => TypeOK
    BY DEF PolicyInv
<1> QED
    BY <1>1, PolicyInvariant, PTL

\* The attached counter and the standby always belong to the game the loop
\* counts, and a rate is claimed only while there is a game.
THEOREM NothingSurvivesTheGame == Spec => []StateFollowsGame
<1>1. PolicyInv => StateFollowsGame
    BY DEF PolicyInv
<1> QED
    BY <1>1, PolicyInvariant, PTL

\* In standby, VideoOut was sampled or probed within the last kStandby, however
\* often the DCE delivered, however the probes failed and however long an
\* iteration took.
THEOREM StandbyReprobes == Spec => []ReprobedInTime
<1>1. PolicyInv => ReprobedInTime
    BY DEF PolicyInv
<1> QED
    BY <1>1, PolicyInvariant, PTL

\* kMisses iterations in a row that see the game and no rate leave no standby,
\* for every kMisses.
THEOREM DarkStandbyEnds == Spec => []DarknessWakes
<1>1. PolicyInv => DarknessWakes
    BY DEF PolicyInv, TypeOK, MissInv, DarknessWakes
<1> QED
    BY <1>1, PolicyInvariant, PTL

\* Two failed discoveries of one game are kBackoff apart: the loop does not
\* scan a game's memory again before that, whatever the standby, lost samplers
\* and later successes do in between.
THEOREM ScansKeepDistance == Spec => FailedScansPaced
<1> DEFINE Paced == lastFailedScan' # lastFailedScan /\ lastFailedScan'.pid = lastFailedScan.pid
                        => lastFailedScan'.at >= lastFailedScan.at + kBackoff
<1>1. PolicyInv /\ [Next]_vars => [Paced]_vars
  <2> SUFFICES ASSUME PolicyInv, Next,
                      lastFailedScan' # lastFailedScan, lastFailedScan'.pid = lastFailedScan.pid
               PROVE  lastFailedScan'.at >= lastFailedScan.at + kBackoff
    OBVIOUS
  <2>1. PICK result \in {"noModule", "unresolved", "resolved"} : Discover(result)
    BY DEF Next, ObserveGame, SampleVideoOut, SkipVideoOut, AttachRefused, UseVideoOut, UseDce,
       NoRate, EndTick
  <2>2. /\ lastFailedScan' = [pid |-> observedGame, at |-> now]
        /\ observedGame # NoProcess /\ ~ BackingOff
    BY <2>1 DEF Discover
  <2>3. observedGame = lastGame /\ lastFailedScan.pid = lastGame /\ lastGame # NoProcess
    BY <2>2 DEF PolicyInv, GameInv
  <2>4. now >= lastFailedScan.at + kBackoff
    BY <2>2, <2>3 DEF PolicyInv, TypeOK, BackoffInv, BackingOff
  <2> QED
    BY <2>2, <2>4
<1> QED
    BY <1>1, PolicyInvariant, PTL DEF Spec, FailedScansPaced
==============================================================================
