--------------------------- MODULE VideoOutSampler ---------------------------
(***************************************************************************)
(* The VideoOut sampler (src/core/fps_sampler.cpp): it searches the game's *)
(* memory for the flip counter, watches the candidates for two windows,    *)
(* picks the one that counts most like a display, and then turns its       *)
(* 32-bit values into rates.                                               *)
(*                                                                         *)
(* The memory of the game is a set of cells, each a counter modulo         *)
(* 2^Width.  The game runs on its own: between two reads cells advance,    *)
(* the game may set one back, and it may end.  Time is counted in tenths   *)
(* of a second.                                                            *)
(***************************************************************************)
EXTENDS Integers, Sequences

CONSTANTS Cells,          \* addresses a record of the module may lead to
          Width,          \* bits of a counter (32)
          MaxCandidates,  \* size of the candidate table (256)
          Starts,         \* values a cell may have when the search begins
          Steps,          \* advances of a cell in a quarter of a second
          Frames,         \* advances of the counter between two samples
          Pauses          \* time between two samples

Modulus == 2 ^ Width
NoCell == "none"
MinWindow == 2
MaxWindow == 30
MaxTenths == 1300
MaxDisplay == 120

\* A game flips its display fewer than 2^(Width - 1) times between two samples.
ASSUME VideoOutConstants ==
    /\ Width \in Nat /\ Modulus \in Nat \ {0} /\ MaxCandidates \in Nat
    /\ NoCell \notin Cells
    /\ \A s \in Starts \cup Steps \cup Frames : s \in 0 .. Modulus - 1
    /\ \A f \in Frames : 2 * f < Modulus
    /\ Pauses \subseteq Nat \ {0}

VARIABLES
    stage,                         \* "idle", "scan", the two waits, "select", "attached", "failed"
    memory,                        \* the value of every cell
    candidates,                    \* the table: [cell, first, second, third]
    voCounter,                     \* the chosen cell
    voBaseline, voWarmup, previous, \* of FpsSampler
    elapsed,                       \* time since the baseline, capped above MaxWindow
    voReading,                     \* what the last sample() returned; -1 for none
    passed, setBack,               \* frames since the baseline; whether the game set it back
    window                         \* what the last reading was taken over

search == <<stage, candidates, voCounter>>
sampler == <<voBaseline, voWarmup, previous>>
truth == <<passed, setBack, window>>
videoOut == <<memory, search, sampler, elapsed, voReading, truth>>

None == 0 - 1
NoWindow == [frames |-> 0, time |-> 1, setBack |-> FALSE, from |-> 0]
Unread == 0 - 1
Dist(a, b) == IF a > b THEN a - b ELSE b - a
Least(a, b) == IF a < b THEN a ELSE b
DeltaUnwrapped(now, then) == IF now > then THEN now - then ELSE 0
Delta(now, then) == (now - then + Modulus) % Modulus

VideoOutInit ==
    /\ stage = "idle" /\ memory \in [Cells -> Starts]
    /\ candidates = <<>> /\ voCounter = NoCell
    /\ voBaseline = FALSE /\ voWarmup = 1 /\ previous = 0 /\ elapsed = 0
    /\ voReading = None /\ passed = 0 /\ setBack = FALSE /\ window = NoWindow

------------------------------------------------------------------------------
(***************************************************************************)
(* resolve_counter_address.                                                *)
(***************************************************************************)
\* The fixed table of the firmware where it is proven: the first record that
\* leads to a root.
ResolveFixed ==
    /\ stage = "idle"
    /\ voCounter' \in Cells /\ stage' = "attached"
    /\ UNCHANGED <<memory, candidates, sampler, elapsed, voReading, truth>>

AddEvery(cell, table) ==
    IF Len(table) = MaxCandidates THEN table
    ELSE Append(table, [cell |-> cell, first |-> memory[cell], second |-> Unread, third |-> Unread])

\* A record leads to a new counter, to one that is in the table already, or
\* finds the table full.
AddCandidate(cell, table) ==
    IF (\E i \in DOMAIN table : table[i].cell = cell) \/ Len(table) = MaxCandidates THEN table
    ELSE Append(table, [cell |-> cell, first |-> memory[cell], second |-> Unread, third |-> Unread])

\* The scan: any records in any order, some of them leading to the same cell.
BeginScan ==
    /\ stage = "idle" /\ stage' = "scan"
    /\ UNCHANGED <<memory, candidates, voCounter, sampler, elapsed, voReading, truth>>

ScanRecord ==
    /\ stage = "scan"
    /\ \E cell \in Cells : candidates' = AddCandidate(cell, candidates)
    /\ UNCHANGED <<memory, stage, voCounter, sampler, elapsed, voReading, truth>>

EndScan ==
    /\ stage = "scan" /\ stage' = IF candidates = <<>> THEN "failed" ELSE "second"
    /\ UNCHANGED <<memory, candidates, voCounter, sampler, elapsed, voReading, truth>>

\* A quarter of a second passes and the candidates are read again; a read may
\* fail, and a candidate that could not be read is not tried a third time.
Advance(step) == memory' = [c \in Cells |-> (memory[c] + step[c]) % Modulus]

ReadSecond ==
    /\ stage = "second" /\ stage' = "third"
    /\ \E step \in [Cells -> Steps], gone \in SUBSET Cells :
          /\ Advance(step)
          /\ candidates' = [i \in DOMAIN candidates |->
                [candidates[i] EXCEPT !.second =
                    IF candidates[i].cell \in gone THEN Unread ELSE memory'[candidates[i].cell]]]
    /\ UNCHANGED <<voCounter, sampler, elapsed, voReading, truth>>

ReadThird ==
    /\ stage = "third" /\ stage' = "select"
    /\ \E step \in [Cells -> Steps], gone \in SUBSET Cells :
          /\ Advance(step)
          /\ candidates' = [i \in DOMAIN candidates |->
                [candidates[i] EXCEPT !.third =
                    IF candidates[i].second = Unread \/ candidates[i].cell \in gone THEN Unread
                    ELSE memory'[candidates[i].cell]]]
    /\ UNCHANGED <<voCounter, sampler, elapsed, voReading, truth>>

\* How little a candidate counts like a display: its two windows differ, or its
\* rate lies off 30, 60 and 120.
Jitter(c) == Dist(Delta(c.second, c.first), Delta(c.third, c.second))
Plausible(c) ==
    /\ c.second # Unread /\ c.third # Unread
    /\ Delta(c.second, c.first) \in 1 .. 45 /\ Delta(c.third, c.second) \in 1 .. 45
    /\ Jitter(c) <= 4
ScoreOfRate(c) ==
    LET rate == 2 * (Delta(c.second, c.first) + Delta(c.third, c.second))
    IN  10 * Least(Dist(rate, 30), Least(Dist(rate, 60), Dist(rate, 120)))
Score(c) ==
    LET rate == 2 * (Delta(c.second, c.first) + Delta(c.third, c.second))
    IN  1000 * Jitter(c) + 10 * Least(Dist(rate, 30), Least(Dist(rate, 60), Dist(rate, 120)))

Winner ==
    LET good == {i \in DOMAIN candidates : Plausible(candidates[i])}
    IN  IF good = {} THEN NoCell
        ELSE candidates[CHOOSE i \in good : \A j \in good :
                \/ Score(candidates[i]) < Score(candidates[j])
                \/ Score(candidates[i]) = Score(candidates[j]) /\ i <= j].cell

Select ==
    /\ stage = "select"
    /\ voCounter' = Winner
    /\ stage' = IF Winner = NoCell THEN "failed" ELSE "attached"
    /\ candidates' = <<>>
    /\ UNCHANGED <<memory, sampler, elapsed, voReading, truth>>

------------------------------------------------------------------------------
(***************************************************************************)
(* sample(), after the game has run for a while.  A gap makes the last     *)
(* value the new baseline and asks for a new warm-up; a window that is too *)
(* short leaves the old one.                                               *)
(***************************************************************************)
Tenths(delta, time) == (delta * 100) \div time
RoundedUncapped(tenths) == (tenths + 5) \div 10
Rounded(tenths) == Least((tenths + 5) \div 10, MaxDisplay)

Measured(delta, time) ==
    IF voWarmup # 0 \/ Tenths(delta, time) > MaxTenths THEN None
    ELSE Rounded(Tenths(delta, time))

Rebase(now) ==
    /\ previous' = now /\ elapsed' = 0 /\ passed' = 0 /\ setBack' = FALSE
    /\ voBaseline' = TRUE

Take(now, time, frames, back) ==
    IF ~ voBaseline
    THEN Rebase(now) /\ voReading' = None /\ UNCHANGED <<voWarmup, window>>
    ELSE IF time > MaxWindow
    THEN Rebase(now) /\ voReading' = None /\ voWarmup' = 1 /\ UNCHANGED window
    ELSE IF time < MinWindow
    THEN /\ elapsed' = time /\ passed' = frames /\ setBack' = back /\ voReading' = None
         /\ UNCHANGED <<sampler, window>>
    ELSE /\ voReading' = Measured(Delta(now, previous), time)
         /\ window' = [frames |-> frames, time |-> time, setBack |-> back, from |-> previous]
         /\ voWarmup' = 0 /\ Rebase(now)

SampleCounter ==
    /\ stage = "attached"
    /\ \E pause \in Pauses, frames \in Frames, back \in BOOLEAN :
          LET now == IF back THEN frames ELSE (memory[voCounter] + frames) % Modulus
          IN  /\ memory' = [memory EXCEPT ![voCounter] = now]
              /\ Take(now, Least(elapsed + pause, MaxWindow + 1), passed + frames, setBack \/ back)
    /\ UNCHANGED search

\* The game is gone or cannot be read: everything is forgotten (reset).
SampleFails ==
    /\ stage \in {"attached", "failed"}
    /\ stage' = "idle" /\ candidates' = <<>> /\ voCounter' = NoCell
    /\ voBaseline' = FALSE /\ voWarmup' = 1 /\ previous' = 0 /\ elapsed' = 0
    /\ voReading' = None /\ passed' = 0 /\ setBack' = FALSE /\ window' = NoWindow
    /\ memory' \in [Cells -> Starts]

VideoOutNext ==
    \/ ResolveFixed \/ BeginScan \/ ScanRecord \/ EndScan
    \/ ReadSecond \/ ReadThird \/ Select
    \/ SampleCounter \/ SampleFails

VideoOutSpec == VideoOutInit /\ [][VideoOutNext]_videoOut

------------------------------------------------------------------------------
\* The variables stay in their types.
VideoOutTypeOK ==
    /\ stage \in {"idle", "scan", "second", "third", "select", "attached", "failed"}
    /\ memory \in [Cells -> 0 .. Modulus - 1] /\ voCounter \in Cells \cup {NoCell}
    /\ Len(candidates) <= MaxCandidates
    /\ voBaseline \in BOOLEAN /\ voWarmup \in 0 .. 1 /\ previous \in 0 .. Modulus - 1
    /\ elapsed \in 0 .. MaxWindow + 1 /\ voReading \in None .. MaxDisplay

\* A reading is the rate at which the game really flipped since the baseline,
\* also when the counter wrapped or samples came too soon to count.  A counter
\* that the game set back in between gives no reading at all, unless it stood so
\* low that it has reached its old value again, or less than one window's flips
\* below the wrap (delta and tenths in sample()).
ReadingIsTrueRate ==
    voReading # None =>
        IF window.setBack
        THEN \/ window.from <= window.frames
             \/ window.from + (MaxTenths * window.time) \div 100 + 1 >= Modulus
        ELSE voReading = Rounded(Tenths(window.frames, window.time))

\* Each counter is watched once: a counter that many records lead to does not
\* push another out of the table.
DistinctCandidates ==
    \A i, j \in DOMAIN candidates : candidates[i].cell = candidates[j].cell => i = j

\* Types, the candidate table and the arithmetic: a table without repetitions
\* and readings that are true rates.
SamplerInv == VideoOutTypeOK /\ DistinctCandidates /\ ReadingIsTrueRate

\* The search does not end with another counter while one that was read in
\* every window flips exactly like a display: then the winner does, too.
SteadyCounterWins ==
    [][stage = "select" =>
         \A i \in DOMAIN candidates :
            (Plausible(candidates[i]) /\ Score(candidates[i]) = 0) =>
                \E j \in DOMAIN candidates :
                    candidates[j].cell = voCounter' /\ Jitter(candidates[j]) = 0]_videoOut
=============================================================================
