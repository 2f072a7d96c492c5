---------------------------- MODULE DisplayFilter ----------------------------
(***************************************************************************)
(* FpsDisplayFilter (include/common_fps/fps_display_filter.hpp): the       *)
(* presentation filter between the measured FPS of the controller loop and *)
(* the number the overlay shows.  It settles before showing anything,      *)
(* shows drops at once and holds an upward jump until it is confirmed.     *)
(*                                                                         *)
(* The object is the record "filter"; optional<int> is an integer with     *)
(* None for nullopt; the three-entry rings are functions on 0..2.  Every   *)
(* return of sample() returns displayed_, so the result of a call is       *)
(* filter'.displayed.  Times are in any unit, uint64 in the code.          *)
(***************************************************************************)
EXTENDS Integers

CONSTANTS kMaxDisplayFps,  \* largest displayable rate (constants.hpp)
          kMaxFpsWindow,   \* longest gap between two samples of an epoch
          kStartup,        \* settling time before the first number
          kRise            \* time an upward jump must last

ASSUME FilterConstants ==
    /\ kMaxDisplayFps \in Nat
    /\ kMaxFpsWindow \in Nat
    /\ kStartup \in Nat
    /\ kRise \in Nat
    /\ kRise <= kMaxFpsWindow

VARIABLE filter

kWindow == 3
Slots == 0 .. kWindow - 1
None == -1
NoPid == -1
NoSource == "None"
FpsDisplaySource == {NoSource, "VideoOut", "DceFixed", "DceAdaptive", "SharedHen"}
Rates == 0 .. kMaxDisplayFps

Fresh ==
    [haveEpoch |-> FALSE, pid |-> NoPid, source |-> NoSource,
     started |-> 0, previous |-> 0, elevatedSince |-> 0,
     displayed |-> None,
     recent |-> [i \in Slots |-> 0], recentCount |-> 0, recentCursor |-> 0,
     accepted |-> [i \in Slots |-> 0], acceptedCursor |-> 0,
     elevated |-> [i \in Slots |-> 0], elevatedCount |-> 0, elevatedCursor |-> 0]

Median(ring) ==
    ring[CHOOSE j \in Slots : \E i, k \in Slots \ {j} :
             i # k /\ ring[i] <= ring[j] /\ ring[j] <= ring[k]]

Reference(ring) == ring[CHOOSE i \in Slots : \A j \in Slots : ring[j] <= ring[i]]

UpwardThreshold(rate) == rate + (IF rate \div 5 > 8 THEN rate \div 5 ELSE 8)

NextSlot(cursor) == (cursor + 1) % kWindow
CountedUncapped(n) == n + 1
Counted(n) == IF n < kWindow THEN n + 1 ELSE kWindow
Filled(rate) == [i \in Slots |-> rate]

(***************************************************************************)
(* The guards of sample(measured, now, pid, source).                       *)
(***************************************************************************)
Displayable(measured, pid, source) ==
    pid > 0 /\ source # NoSource /\ measured \in Rates

SameEpochAnySource(now, pid, source) ==
    /\ filter.haveEpoch
    /\ pid = filter.pid
    /\ now >= filter.previous
    /\ now - filter.previous <= kMaxFpsWindow

SameEpochAnyGap(now, pid, source) ==
    /\ filter.haveEpoch
    /\ pid = filter.pid
    /\ source = filter.source
    /\ now >= filter.previous

SameEpoch(now, pid, source) ==
    /\ filter.haveEpoch
    /\ pid = filter.pid
    /\ source = filter.source
    /\ now >= filter.previous
    /\ now - filter.previous <= kMaxFpsWindow

\* The filter after the epoch checks: the same epoch, or a new one.
Current(now, pid, source) ==
    IF SameEpoch(now, pid, source)
    THEN [filter EXCEPT !.previous = now]
    ELSE [Fresh EXCEPT !.haveEpoch = TRUE, !.pid = pid, !.source = source,
                       !.started = now, !.previous = now]

(***************************************************************************)
(* The outcomes of sample().                                               *)
(***************************************************************************)
Reset == filter' = Fresh

Rejected(measured, pid, source) ==
    /\ ~ Displayable(measured, pid, source)
    /\ Reset

\* One timestamp cannot confirm two samples.
Repeated(now, pid, source) ==
    /\ SameEpoch(now, pid, source)
    /\ now = filter.previous
    /\ UNCHANGED filter

SettleOnCount(f, measured) ==
    LET ring == [f.recent EXCEPT ![f.recentCursor] = measured]
        count == Counted(f.recentCount)
    IN  [f EXCEPT
            !.recent = ring,
            !.recentCursor = NextSlot(f.recentCursor),
            !.recentCount = count,
            !.displayed = IF count = kWindow THEN Median(ring) ELSE None,
            !.accepted = IF count = kWindow THEN Filled(Median(ring)) ELSE f.accepted]

\* Before the first number: collect, then show the median of the last three.
Settle(f, measured) ==
    LET ring == [f.recent EXCEPT ![f.recentCursor] = measured]
        count == Counted(f.recentCount)
        settled == f.previous - f.started >= kStartup /\ count = kWindow
    IN  [f EXCEPT
            !.recent = ring,
            !.recentCursor = NextSlot(f.recentCursor),
            !.recentCount = count,
            !.displayed = IF settled THEN Median(ring) ELSE None,
            !.accepted = IF settled THEN Filled(Median(ring)) ELSE f.accepted]

AcceptForgetsHistory(f, measured) ==
    [f EXCEPT
        !.displayed = measured,
        !.accepted = Filled(measured),
        !.elevatedCount = 0,
        !.elevatedCursor = 0]

\* At or below the threshold the sample is shown at once.
Accept(f, measured) ==
    [f EXCEPT
        !.displayed = measured,
        !.accepted = [f.accepted EXCEPT ![f.acceptedCursor] = measured],
        !.acceptedCursor = NextSlot(f.acceptedCursor),
        !.elevatedCount = 0,
        !.elevatedCursor = 0]

RiseSinceNeverSet(f) == f.elevatedSince
RiseHeldByCount(f) == Counted(f.elevatedCount) < kWindow

\* Above it the old number is held until three samples over kRise agree.
RiseSince(f) == IF f.elevatedCount = 0 THEN f.previous ELSE f.elevatedSince

RiseHeld(f) ==
    \/ Counted(f.elevatedCount) < kWindow
    \/ f.previous - RiseSince(f) < kRise

Elevate(f, measured) ==
    LET ring == [f.elevated EXCEPT ![f.elevatedCursor] = measured]
    IN  IF RiseHeld(f)
        THEN [f EXCEPT
                !.elevatedSince = RiseSince(f),
                !.elevated = ring,
                !.elevatedCursor = NextSlot(f.elevatedCursor),
                !.elevatedCount = Counted(f.elevatedCount)]
        ELSE [f EXCEPT
                !.elevatedSince = RiseSince(f),
                !.elevated = ring,
                !.displayed = Median(ring),
                !.accepted = Filled(Median(ring)),
                !.acceptedCursor = 0,
                !.elevatedCount = 0,
                !.elevatedCursor = 0]

Elevated(f, measured) == measured > UpwardThreshold(Reference(f.accepted))

Measured(measured, now, pid, source) ==
    /\ Displayable(measured, pid, source)
    /\ ~ (SameEpoch(now, pid, source) /\ now = filter.previous)
    /\ LET f == Current(now, pid, source)
       IN  \/ f.displayed = None /\ filter' = Settle(f, measured)
           \/ f.displayed # None /\ Elevated(f, measured) /\ filter' = Elevate(f, measured)
           \/ f.displayed # None /\ ~ Elevated(f, measured) /\ filter' = Accept(f, measured)

Sample(measured, now, pid, source) ==
    \/ Rejected(measured, pid, source)
    \/ Displayable(measured, pid, source) /\ Repeated(now, pid, source)
    \/ Measured(measured, now, pid, source)

FilterType ==
    [haveEpoch : BOOLEAN, pid : Int, source : FpsDisplaySource,
     started : Nat, previous : Nat, elevatedSince : Nat,
     displayed : Rates \cup {None},
     recent : [Slots -> Rates], recentCount : 0 .. kWindow, recentCursor : Slots,
     accepted : [Slots -> Rates], acceptedCursor : Slots,
     elevated : [Slots -> Rates], elevatedCount : 0 .. kWindow, elevatedCursor : Slots]
==============================================================================
