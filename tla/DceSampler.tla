------------------------------ MODULE DceSampler ------------------------------
(***************************************************************************)
(* The fallback sampler: src/ps5/dce_fps_sampler.cpp, which queries the    *)
(* display device (borrowing authority when it must) or reads a sample     *)
(* another payload shares, and src/core/dce_counter_sampler.cpp, which     *)
(* finds the flip counter among the words of the answer.                   *)
(*                                                                         *)
(* The device is outside the program: in each window every word yields a   *)
(* rate, 0 where it went backwards, stood still or lies out of range.  Two *)
(* rates of the model are the same or differ by more than the tolerance of *)
(* twelve.                                                                 *)
(***************************************************************************)
EXTENDS Integers, FiniteSets, FiniteSetsExt

CONSTANTS Words,         \* indices of the words; 1 is the known place
          Rates,         \* rates a word may show besides 0
          FailureLimit   \* queries that fail in a row before the device is closed

FixedWord == 1
NoWord == 0 - 1
Tolerance == 12
InvalidLimit == 3

ASSUME DceConstants ==
    /\ Words \subseteq Nat /\ IsFiniteSet(Words) /\ FixedWord \in Words
    /\ Rates \subseteq Nat \ {0}
    /\ FailureLimit \in Nat \ {0}

VARIABLES
    opened, failures,              \* the device and its failures in a row
    authority,                     \* "own" or "ptrace"
    baseline, warmup,              \* counter_sampler_
    streak, lastFps, selected, invalid,
    reading,                       \* what the last sample() returned, 0 for none
    outcome,                       \* how it ended
    rates,                         \* the words' rates in the last window
    dark,                          \* windows in a row in which a word showed nothing
    turn                           \* alternates, so that a repeated sample is a step

device == <<opened, failures, authority>>
counter == <<baseline, warmup, streak, lastFps, selected, invalid>>
observed == <<rates, dark>>
vars == <<device, counter, reading, outcome, observed, turn>>

Nothing == [w \in Words |-> 0]

Init ==
    /\ opened = FALSE /\ failures = 0 /\ authority = "own"
    /\ baseline = FALSE /\ warmup = 1
    /\ streak = Nothing /\ lastFps = Nothing /\ selected = NoWord /\ invalid = 0
    /\ reading = 0 /\ outcome = "none"
    /\ rates = Nothing /\ dark = Nothing /\ turn = 0

------------------------------------------------------------------------------
(***************************************************************************)
(* begin_auth_window and end_auth_window: raising or returning the         *)
(* authority may fail; a process that has it already returns nothing.      *)
(***************************************************************************)
Windows ==
    IF authority = "ptrace" THEN {[ready |-> TRUE, restored |-> TRUE, authority |-> "ptrace"]}
    ELSE {[ready |-> FALSE, restored |-> FALSE, authority |-> "own"],
          [ready |-> TRUE, restored |-> TRUE, authority |-> "own"],
          [ready |-> TRUE, restored |-> FALSE, authority |-> "ptrace"]}

OpensUnrestored ==
    {[ok |-> TRUE, failures |-> IF opened THEN failures ELSE 0, authority |-> authority]} \cup
    (IF opened THEN {}
     ELSE {[ok |-> TRUE, failures |-> 0, authority |-> w.authority] :
              w \in {v \in Windows : v.ready}}
          \cup {[ok |-> FALSE, failures |-> Min({failures + 1, FailureLimit}),
                 authority |-> w.authority] : w \in Windows})

\* ensure_open: the outcomes, and what they leave.
Opens ==
    {[ok |-> TRUE, failures |-> IF opened THEN failures ELSE 0, authority |-> authority]} \cup
    (IF opened THEN {}
     ELSE {[ok |-> w.restored, failures |-> IF w.restored THEN 0 ELSE failures,
            authority |-> w.authority] : w \in {v \in Windows : v.ready}}
          \cup {[ok |-> FALSE, failures |-> Min({failures + 1, FailureLimit}),
                 authority |-> w.authority] : w \in Windows})

\* The query itself, tried without authority first.
Queries(auth) ==
    {[ok |-> TRUE, authority |-> auth]} \cup
    {[ok |-> w.ready /\ w.restored, authority |-> w.authority] : w \in Windows} \cup
    {[ok |-> FALSE, authority |-> w.authority] : w \in Windows}

------------------------------------------------------------------------------
(***************************************************************************)
(* counter_sampler_.                                                       *)
(***************************************************************************)
Reset ==
    /\ streak' = Nothing /\ lastFps' = Nothing /\ selected' = NoWord /\ invalid' = 0
    /\ warmup' = 1
    /\ rates' = Nothing /\ dark' = Nothing

ResetKeepingBaseline == baseline' = TRUE /\ Reset

\* The known place counts first, then the selected word.
DropsSelected(r) == r[FixedWord] = 0 /\ selected # NoWord /\ r[selected] = 0

DropLate == invalid >= InvalidLimit
DropLimit == invalid + 1 >= InvalidLimit

\* The selected word's windows without a rate, one after the other.
MissesForgotten(r) == 0
Misses(r) == IF r[selected] = 0 THEN invalid + 1 ELSE 0

\* Streaks are only compared with one another and with two.  They grow together,
\* so the model may keep the order of those from two on in place of their length.
MaxRank == 1 + Cardinality(Words)
Ranked(s) ==
    [w \in Words |->
        IF s[w] < 2 THEN s[w]
        ELSE 1 + Cardinality({s[v] : v \in {u \in Words : s[u] \in 2 .. s[w]}})]

\* The candidates, scanned while no word is selected.
StreakOfOne(r) == [w \in Words |-> IF r[w] = 0 THEN 0 ELSE 1]

Streak(r) ==
    Ranked([w \in Words |->
        IF r[w] = 0 THEN 0
        ELSE IF lastFps[w] # 0 /\ r[w] - lastFps[w] \in 0 - Tolerance .. Tolerance
             THEN streak[w] + 1
             ELSE 1])

Best(s) ==
    LET steady == {w \in Words : s[w] >= 2}
    IN  IF steady = {} THEN NoWord
        ELSE CHOOSE w \in steady : \A v \in steady : s[w] > s[v] \/ (s[w] = s[v] /\ w <= v)

Measure(r) ==
    IF r[FixedWord] # 0
    THEN /\ selected' = FixedWord /\ invalid' = 0 /\ reading' = r[FixedWord]
         /\ UNCHANGED <<streak, lastFps>>
    ELSE IF selected # NoWord /\ ~ (DropsSelected(r) /\ DropLimit)
    THEN /\ reading' = r[selected]
         /\ invalid' = Misses(r)
         /\ UNCHANGED <<selected, streak, lastFps>>
    ELSE LET s == Streak(r) IN
         /\ invalid' = IF selected # NoWord THEN 0 ELSE invalid
         /\ streak' = s /\ lastFps' = r
         /\ selected' = Best(s)
         /\ reading' = IF Best(s) = NoWord THEN 0 ELSE r[Best(s)]

\* One call with an answer of the device: the first one, one too soon, one too
\* late, the warm-up, or a window that is measured.
CountFirst ==
    /\ ~ baseline /\ baseline' = TRUE /\ reading' = 0
    /\ UNCHANGED <<warmup, streak, lastFps, selected, invalid, observed>>
CountTooSoon ==
    /\ baseline /\ reading' = 0 /\ UNCHANGED <<counter, observed>>
CountAfterGap ==
    /\ baseline /\ reading' = 0 /\ ResetKeepingBaseline
CountWarmup ==
    /\ baseline /\ warmup # 0 /\ warmup' = warmup - 1 /\ reading' = 0
    /\ UNCHANGED <<baseline, streak, lastFps, selected, invalid, observed>>
CountWindow ==
    /\ baseline /\ warmup = 0
    /\ rates' \in [Words -> Rates \cup {0}]
    /\ dark' = [w \in Words |-> IF rates'[w] = 0 THEN Min({dark[w] + 1, InvalidLimit}) ELSE 0]
    /\ Measure(rates')
    /\ UNCHANGED <<baseline, warmup>>

------------------------------------------------------------------------------
(***************************************************************************)
(* DceFpsSampler::sample.                                                  *)
(***************************************************************************)
SampleShared ==
    /\ reading' \in Rates /\ outcome' = "shared"
    /\ UNCHANGED <<device, counter, observed>>

SampleCannotOpen ==
    \E o \in Opens :
       /\ ~ o.ok
       /\ authority' = o.authority /\ failures' = o.failures /\ opened' = FALSE
       /\ reading' = 0 /\ outcome' = "failed"
       /\ UNCHANGED <<counter, observed>>

\* After too many failed queries the device is closed and everything measured
\* so far is forgotten.
SampleCannotQuery ==
    \E o \in Opens : \E q \in Queries(o.authority) :
       /\ o.ok /\ ~ q.ok
       /\ authority' = q.authority
       /\ IF o.failures + 1 >= FailureLimit
          THEN /\ opened' = FALSE /\ failures' = FailureLimit
               /\ baseline' = FALSE /\ Reset
          ELSE /\ opened' = TRUE /\ failures' = o.failures + 1
               /\ UNCHANGED <<counter, observed>>
       /\ reading' = 0 /\ outcome' = "failed"

SampleCounts ==
    \E o \in Opens : \E q \in Queries(o.authority) :
       /\ o.ok /\ q.ok
       /\ authority' = q.authority /\ opened' = TRUE /\ failures' = 0
       /\ \/ outcome' = "counted" /\ (CountFirst \/ CountTooSoon \/ CountAfterGap \/ CountWarmup)
          \/ outcome' = "measured" /\ CountWindow

\* The controller's reset when the game changes.
ControllerReset ==
    /\ baseline' = FALSE /\ Reset /\ reading' = 0 /\ outcome' = "none"
    /\ UNCHANGED device

Sample == SampleShared \/ SampleCannotOpen \/ SampleCannotQuery \/ SampleCounts
Next == (Sample \/ ControllerReset) /\ turn' = 1 - turn

Spec == Init /\ [][Next]_vars

\* The controller samples once a second.
LiveSpec == Spec /\ WF_vars(Next)

------------------------------------------------------------------------------
\* The variables stay in their types.
TypeOK ==
    /\ opened \in BOOLEAN /\ failures \in 0 .. FailureLimit
    /\ authority \in {"own", "ptrace"} /\ outcome \in {"none", "shared", "failed", "counted", "measured"}
    /\ baseline \in BOOLEAN /\ warmup \in 0 .. 1
    /\ streak \in [Words -> 0 .. MaxRank] /\ lastFps \in [Words -> Rates \cup {0}]
    /\ selected \in Words \cup {NoWord} /\ invalid \in 0 .. InvalidLimit
    /\ reading \in Rates \cup {0}

\* The sampler never holds on to a counter that has shown nothing for three
\* windows in a row, however the known place came and went in between.
DarkWordDropped == selected # NoWord => dark[selected] < InvalidLimit

\* Types and selection: no dead counter is kept.
SelectionInv == TypeOK /\ DarkWordDropped

\* A sample that raised the authority and could not return it is no reading:
\* the authority stays raised only behind a failure that was reported.
LeakIsReported == [][authority' # authority => outcome' = "failed" /\ reading' = 0]_vars

\* A counter that runs at a steady rate is found, and then it is the one that is
\* read, for good: if it is the known place, at once; if it is another word and
\* the known place is dark, if each of the others is dark for three windows again
\* and again, however they pulse in between and whichever was selected.
SteadyWordWins ==
    \A w \in Words : \A r \in Rates :
        /\ <>[](outcome = "measured" /\ rates[w] = r /\ (w = FixedWord \/ rates[FixedWord] = 0))
        /\ \A v \in Words \ {w} : []<>(w = FixedWord \/ dark[v] = InvalidLimit)
        => <>[](selected = w /\ reading = r)

\* While any word runs at a steady rate, the sampler does not fall silent,
\* whatever the others show: a selected word that stops is given up, and one that
\* only pulses may keep its place but is read when it does.
SilenceEnds ==
    \A w \in Words : \A r \in Rates :
        <>[](outcome = "measured" /\ rates[w] = r) => []<>(reading # 0)

\* What DceCounterSampler::sample makes of a word that runs at a steady rate: it
\* is selected and read for good when no pulsing word is in its way, and where
\* one is, there are readings nevertheless.
SteadyWordIsRead == SteadyWordWins /\ SilenceEnds
=============================================================================
