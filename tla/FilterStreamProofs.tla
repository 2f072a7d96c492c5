-------------------------- MODULE FilterStreamProofs --------------------------
(***************************************************************************)
(* The promises of the display filter for every clock, every stream of     *)
(* samples and every value of its constants, from one inductive invariant  *)
(* that ties the filter's rings, counters and timestamps to what it was    *)
(* given (FilterInv).  Then the controller loop that feeds the filter: an  *)
(* invariant (LoopInv) that says when the samples in the rings and the     *)
(* number on screen were measured, and from it that a number sent is       *)
(* backed by present measurements.                                         *)
(***************************************************************************)
EXTENDS FilterStream, Controller, TLAPS

\* The filter's epoch is the observed feed, up to the last call.
Tracking ==
    /\ filter.haveEpoch =>
           /\ feed = <<filter.pid, filter.source>>
           /\ filter.previous = now
           /\ filter.started <= filter.previous
    /\ ~ filter.haveEpoch => filter = Fresh /\ feed = NoFeed

\* Before the first number the ring holds the last samples and nothing rises.
Settling ==
    filter.displayed = None =>
        /\ filter.elevatedCount = 0 /\ filter.elevatedCursor = 0
        /\ filter.acceptedCursor = 0
        /\ filter.recentCount < kWindow => filter.recentCursor = filter.recentCount
        /\ \A i \in Slots : i < filter.recentCount => filter.recent[i] \in stream
        /\ filter.recentCount >= 1 => seen[3] # None
        /\ filter.recentCount >= 2 => seen[2] # None
        /\ filter.recentCount >= 3 => seen[1] # None

\* The number shown is the newest accepted one, and the one before it is not
\* above what was accepted lately; at least three samples were seen.
Accepted ==
    filter.displayed # None =>
        /\ filter.displayed = filter.accepted[(filter.acceptedCursor + 2) % kWindow]
        /\ before <= Reference(filter.accepted)
        /\ seen[2] # None /\ seen[3] # None

\* While a jump is held its samples, and as many of the last ones observed,
\* are above the threshold.
Rising ==
    LET n == filter.elevatedCount
        threshold == UpwardThreshold(Reference(filter.accepted))
    IN  /\ n < kWindow => filter.elevatedCursor = n
        /\ \A i \in Slots : i < n =>
               filter.elevated[i] \in stream /\ filter.elevated[i] > threshold
        /\ n >= 1 => seen[3] > threshold
        /\ n >= 2 => seen[2] > threshold
        /\ n >= 3 => seen[1] > threshold

\* How long a jump has been held, and that nothing has agreed with the screen
\* since it began.
Holding ==
    /\ agreedAt <= now
    /\ filter.elevatedCount >= 1 =>
           agreedAt < filter.elevatedSince /\ filter.elevatedSince <= filter.previous
    /\ filter.elevatedCount = 1 => filter.elevatedSince = filter.previous
    /\ filter.elevatedCount = 2 => filter.previous - filter.elevatedSince <= kMaxFpsWindow
    /\ filter.elevatedCount = 3 => filter.previous - filter.elevatedSince < kRise

FilterInv ==
    /\ TypeOK
    /\ Tracking
    /\ Settling
    /\ SettledBeforeShown
    /\ ShownFromCurrentFeed
    /\ Accepted
    /\ Rising
    /\ Holding

------------------------------------------------------------------------------
(***************************************************************************)
(* What a call does to an epoch, one predicate per outcome.                *)
(***************************************************************************)
\* A new epoch, of a new feed or of the same one after a break in time.
Opens(m, pid, by) ==
    /\ m \in Rates /\ pid \in Int /\ by \in FpsDisplaySource /\ now' \in 0 .. MaxTime
    /\ filter' = Settle([Fresh EXCEPT !.haveEpoch = TRUE, !.pid = pid, !.source = by,
                                      !.started = now', !.previous = now'], m)
    /\ feed' = <<pid, by>>
    /\ m \in stream' /\ stream' \subseteq Rates
    /\ seen'[3] = m /\ seen' \in Shown \X Shown \X Shown
    /\ before' \in Shown
    /\ Agree(m)

\* One more sample of the epoch, at a later time.
Advances(m) ==
    /\ m \in Rates /\ now' \in 0 .. MaxTime
    /\ filter.haveEpoch
    /\ now' > now /\ now' - now <= kMaxFpsWindow
    /\ feed' = feed
    /\ seen' = <<seen[2], seen[3], m>>
    /\ stream' = stream \cup {m}
    /\ before' = filter.displayed
    /\ Agree(m)

At == [filter EXCEPT !.previous = now']

Collects(m) ==
    Advances(m) /\ filter.displayed = None /\ filter' = Settle(At, m)
Accepts(m) ==
    Advances(m) /\ filter.displayed # None /\ ~ Elevated(At, m) /\ filter' = Accept(At, m)
Holds(m) ==
    /\ Advances(m) /\ filter.displayed # None /\ Elevated(At, m)
    /\ RiseHeld(At) /\ filter' = Elevate(At, m)
Rises(m) ==
    /\ Advances(m) /\ filter.displayed # None /\ Elevated(At, m)
    /\ ~ RiseHeld(At) /\ filter' = Elevate(At, m)
Restarts == filter' = Fresh /\ Forget /\ now' \in 0 .. MaxTime

USE FilterConstants, StreamConstants
    DEF kWindow, Slots, None, NoPid, NoSource, FpsDisplaySource, Rates, Shown

\* An entry of a ring between the two others.
LEMMA MedianExists ==
    ASSUME NEW ring \in [Slots -> Int]
    PROVE  \E j \in Slots : \E i, k \in Slots \ {j} :
               i # k /\ ring[i] <= ring[j] /\ ring[j] <= ring[k]
<1>1. 0 \in Slots /\ 1 \in Slots /\ 2 \in Slots /\ ring[0] \in Int /\ ring[1] \in Int
      /\ ring[2] \in Int
    OBVIOUS
<1>2. CASE \/ ring[1] <= ring[0] /\ ring[0] <= ring[2]
           \/ ring[2] <= ring[0] /\ ring[0] <= ring[1]
    BY <1>1, <1>2
<1>3. CASE \/ ring[0] <= ring[1] /\ ring[1] <= ring[2]
           \/ ring[2] <= ring[1] /\ ring[1] <= ring[0]
    BY <1>1, <1>3
<1>4. CASE \/ ring[0] <= ring[2] /\ ring[2] <= ring[1]
           \/ ring[1] <= ring[2] /\ ring[2] <= ring[0]
    BY <1>1, <1>4
<1> QED
    BY <1>1, <1>2, <1>3, <1>4

\* The median of a ring is one of its entries.
LEMMA MedianIsEntry ==
    ASSUME NEW ring \in [Slots -> Int]
    PROVE  \E j \in Slots : Median(ring) = ring[j]
BY MedianExists DEF Median

\* Of any two entries of a ring, one is at most the median and one at least.
LEMMA MedianBetween ==
    ASSUME NEW ring \in [Slots -> Int], NEW a \in Slots, NEW b \in Slots, a # b
    PROVE  /\ Median(ring) \in Int
           /\ ring[a] <= Median(ring) \/ ring[b] <= Median(ring)
           /\ Median(ring) <= ring[a] \/ Median(ring) <= ring[b]
<1>1. \E j \in Slots : \E i, k \in Slots \ {j} :
          i # k /\ ring[i] <= ring[j] /\ ring[j] <= ring[k]
    BY MedianExists
<1> DEFINE j == CHOOSE j \in Slots : \E i, k \in Slots \ {j} :
                    i # k /\ ring[i] <= ring[j] /\ ring[j] <= ring[k]
<1>2. /\ j \in Slots /\ Median(ring) = ring[j]
      /\ \E i, k \in Slots \ {j} : i # k /\ ring[i] <= ring[j] /\ ring[j] <= ring[k]
    BY <1>1 DEF Median
<1> HIDE DEF j
<1>3. PICK i \in Slots \ {j}, k \in Slots \ {j} : i # k /\ ring[i] <= ring[j] /\ ring[j] <= ring[k]
    BY <1>2
<1>4. (a = i \/ a = j \/ a = k) /\ (b = i \/ b = j \/ b = k)
    BY <1>2, <1>3
<1>5. ring[i] \in Int /\ ring[j] \in Int /\ ring[k] \in Int
    BY <1>2, <1>3
<1> QED
    BY <1>2, <1>3, <1>4, <1>5

\* The reference is the largest entry, and the threshold lies above it.
LEMMA ReferenceIsMax ==
    ASSUME NEW ring \in [Slots -> Rates]
    PROVE  /\ Reference(ring) \in Rates
           /\ \A j \in Slots : ring[j] <= Reference(ring)
           /\ UpwardThreshold(Reference(ring)) \in Int
           /\ UpwardThreshold(Reference(ring)) >= Reference(ring) + 8
<1>1. \E i \in Slots : \A j \in Slots : ring[j] <= ring[i]
    <2>1. 0 \in Slots /\ 1 \in Slots /\ 2 \in Slots /\ ring[0] \in Int /\ ring[1] \in Int
          /\ ring[2] \in Int
        OBVIOUS
    <2>2. CASE ring[1] <= ring[0] /\ ring[2] <= ring[0]
        BY <2>1, <2>2
    <2>3. CASE ring[0] <= ring[1] /\ ring[2] <= ring[1]
        BY <2>1, <2>3
    <2>4. CASE ring[0] <= ring[2] /\ ring[1] <= ring[2]
        BY <2>1, <2>4
    <2>5. QED
        BY <2>1, <2>2, <2>3, <2>4
<1>2. Reference(ring) \in Rates /\ \A j \in Slots : ring[j] <= Reference(ring)
    BY <1>1 DEF Reference
<1>3. QED
    BY <1>2 DEF UpwardThreshold

\* The epoch and the recording start empty.
LEMMA FilterInit == Init => FilterInv
<1> SUFFICES ASSUME Init PROVE FilterInv
    OBVIOUS
<1>1. TypeOK
    <2>1. Fresh \in FilterType
        BY DEF FilterType, Fresh
    <2>2. QED
        BY <2>1 DEF Init, TypeOK, NoFeed, Unseen
<1>2. Tracking /\ Settling /\ SettledBeforeShown /\ ShownFromCurrentFeed
    BY DEF Init, Tracking, Settling, SettledBeforeShown, ShownFromCurrentFeed, Fresh
<1>3. Accepted /\ Rising /\ Holding
    BY DEF Init, Accepted, Rising, Holding, Fresh
<1>4. QED
    BY <1>1, <1>2, <1>3 DEF FilterInv

\* A rejected call and a changed ShellUI leave nothing.
LEMMA RestartStep ==
    ASSUME FilterInv, Restarts
    PROVE  FilterInv'
<1> USE DEF Restarts, Forget
<1>1. TypeOK'
    <2>1. Fresh \in FilterType
        BY DEF FilterType, Fresh
    <2>2. QED
        BY <2>1 DEF TypeOK, NoFeed, Unseen
<1>2. (Tracking /\ Settling /\ SettledBeforeShown /\ ShownFromCurrentFeed)'
    BY DEF Tracking, Settling, SettledBeforeShown, ShownFromCurrentFeed, Fresh
<1>3. (Accepted /\ Rising /\ Holding)'
    BY DEF Accepted, Rising, Holding, Fresh
<1>4. QED
    BY <1>1, <1>2, <1>3 DEF FilterInv

\* A new epoch holds one sample and shows nothing.
LEMMA OpenStep ==
    ASSUME FilterInv, NEW m, NEW pid, NEW by, Opens(m, pid, by)
    PROVE  FilterInv' /\ filter'.displayed = None
<1> DEFINE f == [Fresh EXCEPT !.haveEpoch = TRUE, !.pid = pid, !.source = by,
                              !.started = now', !.previous = now']
           ring == [f.recent EXCEPT ![0] = m]
<1>0. /\ f.haveEpoch /\ f.pid = pid /\ f.source = by
      /\ f.started = now' /\ f.previous = now' /\ f.displayed = None
      /\ f.recent = Filled(0) /\ f.recentCount = 0 /\ f.recentCursor = 0
      /\ f.accepted = Filled(0) /\ f.acceptedCursor = 0
      /\ f.elevatedCount = 0 /\ f.elevatedCursor = 0
    BY DEF Fresh, Filled
<1>t. f \in FilterType
    <2>1. Fresh \in FilterType
        BY DEF FilterType, Fresh
    <2>2. now' \in Nat /\ pid \in Int /\ by \in FpsDisplaySource
        BY DEF Opens
    <2>3. QED
        BY <2>1, <2>2 DEF FilterType
<1> HIDE DEF f
<1>1. /\ filter' = [f EXCEPT !.recent = ring, !.recentCursor = 1, !.recentCount = 1,
                             !.displayed = None, !.accepted = f.accepted]
      /\ ring \in [Slots -> Rates] /\ ring[0] = m
    <2>1. Counted(f.recentCount) = 1 /\ NextSlot(f.recentCursor) = 1
        BY <1>0 DEF Counted, NextSlot
    <2>2. filter' = Settle(f, m)
        BY DEF Opens, f
    <2>3. ring \in [Slots -> Rates] /\ ring[0] = m
        BY <1>0 DEF Opens, Filled
    <2>4. QED
        BY <1>0, <2>1, <2>2, <2>3 DEF Settle
<1> HIDE DEF ring
<1>o. /\ m \in Rates /\ now' \in 0 .. MaxTime
      /\ feed' = <<pid, by>> /\ pid \in Int /\ by \in FpsDisplaySource
      /\ m \in stream' /\ stream' \subseteq Rates
      /\ seen'[3] = m /\ seen' \in Shown \X Shown \X Shown
      /\ before' \in Shown
      /\ Agree(m)
    BY DEF Opens
<1>f. /\ filter' \in FilterType
      /\ filter'.haveEpoch /\ filter'.pid = pid /\ filter'.source = by
      /\ filter'.started = now' /\ filter'.previous = now' /\ filter'.displayed = None
      /\ filter'.recent = ring /\ filter'.recentCount = 1 /\ filter'.recentCursor = 1
      /\ filter'.acceptedCursor = 0
      /\ filter'.elevatedCount = 0 /\ filter'.elevatedCursor = 0
    <2>0. f.accepted \in [Slots -> Rates] /\ None \in Rates \cup {None} /\ 1 \in Slots
          /\ 1 \in 0 .. kWindow
        BY <1>t DEF FilterType
    <2>1. filter' \in FilterType
        BY <1>t, <1>1, <2>0 DEF FilterType
    <2>2. /\ filter'.haveEpoch = f.haveEpoch /\ filter'.pid = f.pid
          /\ filter'.source = f.source /\ filter'.started = f.started
          /\ filter'.previous = f.previous /\ filter'.acceptedCursor = f.acceptedCursor
          /\ filter'.elevatedCount = f.elevatedCount
          /\ filter'.elevatedCursor = f.elevatedCursor
        BY <1>t, <1>1 DEF FilterType
    <2>3. /\ filter'.displayed = None /\ filter'.recent = ring
          /\ filter'.recentCount = 1 /\ filter'.recentCursor = 1
        BY <1>t, <1>1 DEF FilterType
    <2>4. QED
        BY <1>0, <2>1, <2>2, <2>3
<1>2. TypeOK'
    BY <1>o, <1>f DEF TypeOK, Agree
<1>3. (Tracking /\ SettledBeforeShown /\ ShownFromCurrentFeed)'
    BY <1>o, <1>f DEF Tracking, SettledBeforeShown, ShownFromCurrentFeed
<1>4. Settling'
    BY <1>o, <1>1, <1>f DEF Settling
<1>5. (Accepted /\ Rising /\ Holding)'
    BY <1>o, <1>f DEF Accepted, Rising, Holding, Agree
<1>6. QED
    BY <1>f, <1>2, <1>3, <1>4, <1>5 DEF FilterInv

\* One more sample while the filter settles, the first number included.
LEMMA CollectStep ==
    ASSUME FilterInv, NEW m, Collects(m)
    PROVE  FilterInv'
<1>0. TypeOK /\ Tracking /\ Settling /\ Accepted /\ Rising /\ Holding
    BY DEF FilterInv
<1>t. filter \in FilterType /\ filter.recent \in [Slots -> Rates]
    BY <1>0 DEF TypeOK, FilterType
<1> DEFINE ring == [filter.recent EXCEPT ![filter.recentCursor] = m]
           count == Counted(filter.recentCount)
           settled == now' - filter.started >= kStartup /\ count = kWindow
           shown == IF settled THEN Median(ring) ELSE None
           accepted == IF settled THEN Filled(Median(ring)) ELSE filter.accepted
<1>1. ring \in [Slots -> Rates] /\ count \in 0 .. kWindow
    BY <1>t DEF Collects, Advances, FilterType, Counted
<1>2. PICK j \in Slots : Median(ring) = ring[j]
    BY <1>1, MedianIsEntry
<1>3. filter' = [filter EXCEPT
            !.previous = now',
            !.recent = ring,
            !.recentCursor = NextSlot(filter.recentCursor),
            !.recentCount = count,
            !.displayed = shown,
            !.accepted = accepted]
    BY <1>t DEF Collects, Settle, At, FilterType
<1>4. /\ Filled(Median(ring)) \in [Slots -> Rates] /\ Median(ring) \in Rates
      /\ shown \in Rates \cup {None}
      /\ accepted \in [Slots -> Rates]
    BY <1>t, <1>1, <1>2 DEF Filled, FilterType
<1> HIDE DEF ring, count, settled, shown, accepted
<1>5. TypeOK'
    <2>0. NextSlot(filter.recentCursor) \in Slots /\ now' \in Nat
        BY <1>t DEF FilterType, NextSlot, Collects, Advances
    <2>1. filter' \in FilterType
        BY <1>t, <1>1, <1>3, <1>4, <2>0 DEF FilterType
    <2>2. QED
        BY <1>0, <2>1 DEF TypeOK, Collects, Advances, Agree, FilterType
<1>6. Tracking'
    BY <1>0, <1>t, <1>3 DEF Tracking, Collects, Advances, FilterType
<1>7. \A i \in Slots : i < count => ring[i] \in stream'
    BY <1>0, <1>t DEF ring, count, Counted, Settling, Collects, Advances, FilterType
<1>8. /\ count >= 1 => seen'[3] # None
      /\ count >= 2 => seen'[2] # None
      /\ count >= 3 => seen'[1] # None
    BY <1>0, <1>t DEF count, Counted, Settling, Collects, Advances, FilterType, TypeOK
<1>9. Settling'
    BY <1>0, <1>t, <1>1, <1>3, <1>4, <1>7, <1>8
       DEF Settling, Collects, FilterType, NextSlot, count, Counted, shown
<1>10. (SettledBeforeShown /\ ShownFromCurrentFeed)'
    BY <1>0, <1>t, <1>1, <1>2, <1>3, <1>4, <1>7, <1>8
       DEF SettledBeforeShown, ShownFromCurrentFeed, FilterType, settled, shown
<1>11. Accepted'
    <2>1. ASSUME settled
          PROVE  /\ filter'.accepted = Filled(Median(ring))
                 /\ filter'.displayed = Median(ring)
                 /\ filter'.acceptedCursor \in Slots
                 /\ before' = None
                 /\ Reference(filter'.accepted) \in Rates
                 /\ seen'[2] # None /\ seen'[3] # None
        BY <1>0, <1>t, <1>3, <1>4, <1>8, <2>1, ReferenceIsMax
           DEF FilterType, Collects, Advances, shown, accepted, settled
    <2>2. QED
        BY <1>3, <1>t, <2>1 DEF Accepted, Filled, FilterType, shown
<1>12. (Rising /\ Holding)'
    BY <1>0, <1>t, <1>3
       DEF Settling, Rising, Holding, Collects, Advances, Agree, FilterType, TypeOK
<1>13. QED
    BY <1>5, <1>6, <1>9, <1>10, <1>11, <1>12 DEF FilterInv

\* A sample at or below the threshold.
LEMMA AcceptStep ==
    ASSUME FilterInv, NEW m, Accepts(m)
    PROVE  /\ FilterInv' /\ filter'.displayed = m
           /\ m <= UpwardThreshold(Reference(filter.accepted))
<1>0. /\ TypeOK /\ Tracking /\ SettledBeforeShown /\ ShownFromCurrentFeed
      /\ Accepted /\ Holding
    BY DEF FilterInv
<1>t. filter \in FilterType /\ filter.accepted \in [Slots -> Rates]
      /\ filter.acceptedCursor \in Slots
    BY <1>0 DEF TypeOK, FilterType
<1>a. Advances(m) /\ filter.displayed # None
    BY DEF Accepts
<1> DEFINE ring == [filter.accepted EXCEPT ![filter.acceptedCursor] = m]
           cursor == NextSlot(filter.acceptedCursor)
<1>1. ring \in [Slots -> Rates] /\ cursor \in Slots /\ now' \in Nat /\ m \in Rates
    BY <1>t, <1>a DEF Advances, NextSlot
<1>2. /\ ring[(cursor + 2) % kWindow] = m
      /\ filter.displayed \in {ring[i] : i \in Slots}
    BY <1>0, <1>t, <1>1, <1>a DEF NextSlot, Accepted
<1>3. filter' = [filter EXCEPT !.previous = now', !.displayed = m, !.accepted = ring,
                   !.acceptedCursor = cursor, !.elevatedCount = 0, !.elevatedCursor = 0]
    BY <1>t DEF Accepts, Accept, At, FilterType
<1> HIDE DEF ring, cursor
<1>4. filter' \in FilterType
    <2>1. m \in Rates \cup {None} /\ 0 \in Slots /\ 0 \in 0 .. kWindow
        BY <1>1
    <2>2. QED
        BY <1>t, <1>1, <1>3, <2>1 DEF FilterType
<1>5. /\ filter'.previous = now' /\ filter'.displayed = m /\ filter'.accepted = ring
      /\ filter'.acceptedCursor = cursor
      /\ filter'.elevatedCount = 0 /\ filter'.elevatedCursor = 0
      /\ filter'.haveEpoch = filter.haveEpoch /\ filter'.pid = filter.pid
      /\ filter'.source = filter.source /\ filter'.started = filter.started
    BY <1>t, <1>3 DEF FilterType
<1>6. TypeOK'
    BY <1>0, <1>4, <1>a DEF TypeOK, Advances, Agree, FilterType
<1>7. Tracking'
    BY <1>0, <1>t, <1>5, <1>a DEF Tracking, Advances, FilterType
<1>8. (Settling /\ SettledBeforeShown /\ ShownFromCurrentFeed)'
    BY <1>0, <1>t, <1>1, <1>5, <1>a
       DEF Tracking, Settling, SettledBeforeShown, ShownFromCurrentFeed, Accepted,
           Advances, FilterType
<1>9. Accepted'
    <2>1. before' <= Reference(ring)
        BY <1>1, <1>2, <1>a, ReferenceIsMax DEF Advances
    <2>2. QED
        BY <1>0, <1>1, <1>2, <1>5, <1>a, <2>1 DEF Accepted, Advances
<1>10. (Rising /\ Holding)'
    BY <1>0, <1>5, <1>a DEF TypeOK, Rising, Holding, Advances, Agree
<1>11. m <= UpwardThreshold(Reference(filter.accepted))
    <2>1. At.accepted = filter.accepted
        BY <1>t DEF At, FilterType
    <2>2. QED
        BY <1>t, <1>1, <2>1, ReferenceIsMax DEF Accepts, Elevated
<1>12. QED
    BY <1>5, <1>6, <1>7, <1>8, <1>9, <1>10, <1>11 DEF FilterInv

\* What every sample above the threshold does to the ring of the jump.
LEMMA ElevatedStep ==
    ASSUME FilterInv, NEW m, Advances(m), filter.displayed # None, Elevated(At, m),
           NEW ring, ring = [filter.elevated EXCEPT ![filter.elevatedCursor] = m],
           NEW n, n = Counted(filter.elevatedCount)
    PROVE  LET threshold == UpwardThreshold(Reference(filter.accepted))
           IN  /\ m > threshold /\ threshold > filter.displayed /\ threshold \in Int
               /\ before <= threshold
               /\ ring \in [Slots -> Rates] /\ n \in 1 .. kWindow
               /\ \A i \in Slots : i < n => ring[i] \in stream' /\ ring[i] > threshold
               /\ seen'[3] > threshold
               /\ n >= 2 => seen'[2] > threshold
               /\ n >= 3 => seen'[1] > threshold
               /\ RiseSince(At) \in Nat /\ RiseSince(At) <= now' /\ agreedAt < RiseSince(At)
               /\ n = 1 => RiseSince(At) = now'
               /\ n = 2 => now' - RiseSince(At) <= kMaxFpsWindow
<1>0. TypeOK /\ Tracking /\ Accepted /\ Rising /\ Holding
    BY DEF FilterInv
<1>t. /\ filter \in FilterType /\ filter.accepted \in [Slots -> Rates]
      /\ filter.acceptedCursor \in Slots
      /\ filter.elevated \in [Slots -> Rates]
      /\ filter.elevatedCursor \in Slots /\ filter.elevatedCount \in 0 .. kWindow
      /\ filter.elevatedSince \in Nat /\ filter.previous \in Nat
    BY <1>0 DEF TypeOK, FilterType
<1> DEFINE threshold == UpwardThreshold(Reference(filter.accepted))
<1>1. /\ At.accepted = filter.accepted /\ At.previous = now'
      /\ At.elevatedCount = filter.elevatedCount /\ At.elevatedSince = filter.elevatedSince
    BY <1>t DEF At, FilterType
<1>2. m > threshold
    BY <1>1 DEF Elevated
<1>3. threshold \in Int /\ threshold > filter.displayed /\ before <= threshold
    BY <1>0, <1>t, ReferenceIsMax DEF Accepted, TypeOK
<1>4. ring \in [Slots -> Rates] /\ n \in 1 .. kWindow
    BY <1>t DEF Advances, Counted
<1> HIDE DEF threshold
<1>5. \A i \in Slots : i < n => ring[i] \in stream' /\ ring[i] > threshold
    BY <1>0, <1>t, <1>2 DEF Advances, Counted, Rising, threshold
<1>6. /\ seen'[3] > threshold
      /\ n >= 2 => seen'[2] > threshold
      /\ n >= 3 => seen'[1] > threshold
    BY <1>0, <1>t, <1>2 DEF Advances, Counted, Rising, threshold, TypeOK
<1>7. /\ RiseSince(At) \in Nat /\ RiseSince(At) <= now' /\ agreedAt < RiseSince(At)
      /\ n = 1 => RiseSince(At) = now'
      /\ n = 2 => now' - RiseSince(At) <= kMaxFpsWindow
    <2>0. /\ now \in Nat /\ now' \in Nat /\ now < now' /\ now' - now <= kMaxFpsWindow
          /\ agreedAt \in Nat /\ agreedAt <= now /\ filter.previous = now
        <3>1. now \in Nat /\ agreedAt \in Nat /\ agreedAt <= now
            BY <1>0 DEF TypeOK, Holding
        <3>2. now' \in Nat /\ now < now' /\ now' - now <= kMaxFpsWindow /\ filter.haveEpoch
            BY <3>1 DEF Advances
        <3> QED
            BY <1>0, <3>1, <3>2 DEF Tracking
    <2>1. CASE filter.elevatedCount = 0
        <3>1. n = 1 /\ RiseSince(At) = now'
            BY <1>1, <2>1 DEF Counted, RiseSince
        <3>2. QED
            BY <2>0, <3>1
    <2>2. CASE filter.elevatedCount # 0
        <3>1. n # 1 /\ (n = 2 => filter.elevatedCount = 1)
            BY <1>t, <2>2 DEF Counted
        <3>2. RiseSince(At) = filter.elevatedSince
            BY <1>1, <2>2 DEF RiseSince
        <3>3. /\ agreedAt < filter.elevatedSince /\ filter.elevatedSince <= now
              /\ filter.elevatedCount = 1 => filter.elevatedSince = now
            BY <1>0, <1>t, <2>0, <2>2 DEF Holding
        <3>4. /\ filter.elevatedSince \in Nat /\ filter.elevatedSince <= now'
              /\ n = 2 => now' - filter.elevatedSince <= kMaxFpsWindow
            <4>1. n = 2 => filter.elevatedSince = now
                BY <3>1, <3>3
            <4>2. filter.elevatedSince \in Nat /\ filter.elevatedSince <= now'
                BY <1>t, <2>0, <3>3
            <4>3. QED
                BY <2>0, <4>1, <4>2
        <3>5. QED
            BY <3>1, <3>2, <3>3, <3>4
    <2>3. QED
        BY <2>1, <2>2
<1>8. QED
    BY <1>2, <1>3, <1>4, <1>5, <1>6, <1>7 DEF threshold

\* A jump is held.
LEMMA HoldStep ==
    ASSUME FilterInv, NEW m, Holds(m)
    PROVE  /\ FilterInv' /\ filter'.displayed = filter.displayed
           /\ m > UpwardThreshold(Reference(filter.accepted))
<1>0. /\ TypeOK /\ Tracking /\ SettledBeforeShown /\ ShownFromCurrentFeed
      /\ Accepted /\ Rising /\ Holding
    BY DEF FilterInv
<1>a. Advances(m) /\ filter.displayed # None /\ Elevated(At, m) /\ RiseHeld(At)
    BY DEF Holds
<1>t. /\ filter \in FilterType /\ filter.accepted \in [Slots -> Rates]
      /\ filter.acceptedCursor \in Slots /\ filter.elevatedCursor \in Slots
      /\ filter.elevatedCount \in 0 .. kWindow
      /\ filter.displayed \in Rates \cup {None} /\ filter.started \in Nat
    BY <1>0 DEF TypeOK, FilterType
<1> DEFINE ring == [filter.elevated EXCEPT ![filter.elevatedCursor] = m]
           n == Counted(filter.elevatedCount)
           cursor == NextSlot(filter.elevatedCursor)
           threshold == UpwardThreshold(Reference(filter.accepted))
           since == RiseSince(At)
<1>1. /\ m > threshold /\ threshold > filter.displayed /\ threshold \in Int
      /\ ring \in [Slots -> Rates] /\ n \in 1 .. kWindow
      /\ \A i \in Slots : i < n => ring[i] \in stream' /\ ring[i] > threshold
      /\ seen'[3] > threshold
      /\ n >= 2 => seen'[2] > threshold
      /\ n >= 3 => seen'[1] > threshold
      /\ since \in Nat /\ since <= now' /\ agreedAt < since
      /\ n = 1 => since = now'
      /\ n = 2 => now' - since <= kMaxFpsWindow
    BY <1>a, ElevatedStep
<1>2. /\ At.previous = now' /\ At.elevatedCount = filter.elevatedCount
      /\ At.elevated = filter.elevated /\ At.elevatedCursor = filter.elevatedCursor
    BY <1>t DEF At, FilterType
<1>3. n = 3 => now' - since < kRise
    BY <1>a, <1>2 DEF RiseHeld
<1>4. cursor \in Slots /\ (n < kWindow => cursor = n) /\ n \in 0 .. kWindow
    BY <1>0, <1>t DEF Rising, NextSlot, Counted
<1>5. filter' = [filter EXCEPT !.previous = now', !.elevatedSince = since,
                   !.elevated = ring, !.elevatedCursor = cursor, !.elevatedCount = n]
    BY <1>a, <1>t, <1>2 DEF Holds, Elevate, At, FilterType
<1> HIDE DEF ring, cursor, n, threshold, since
<1>6. filter' \in FilterType
    <2>1. now' \in Nat
        BY <1>a DEF Advances
    <2>2. QED
        BY <1>t, <1>1, <1>4, <1>5, <2>1 DEF FilterType
<1>7. /\ filter'.previous = now' /\ filter'.displayed = filter.displayed
      /\ filter'.accepted = filter.accepted
      /\ filter'.acceptedCursor = filter.acceptedCursor
      /\ filter'.elevatedSince = since /\ filter'.elevated = ring
      /\ filter'.elevatedCount = n /\ filter'.elevatedCursor = cursor
      /\ filter'.haveEpoch = filter.haveEpoch /\ filter'.pid = filter.pid
      /\ filter'.source = filter.source /\ filter'.started = filter.started
    BY <1>t, <1>5 DEF FilterType
<1>8. TypeOK'
    BY <1>0, <1>6, <1>a DEF TypeOK, Advances, Agree, FilterType
<1>9. Tracking'
    BY <1>0, <1>t, <1>7, <1>a DEF Tracking, Advances, TypeOK
<1>10. (Settling /\ SettledBeforeShown /\ ShownFromCurrentFeed)'
    BY <1>0, <1>t, <1>7, <1>a
       DEF TypeOK, Tracking, Settling, SettledBeforeShown, ShownFromCurrentFeed,
           Accepted, Advances
<1>11. Accepted'
    <2>1. before' <= Reference(filter.accepted)
        <3>1. (filter.acceptedCursor + 2) % kWindow \in Slots
            BY <1>t
        <3>2. QED
            BY <1>0, <1>t, <1>a, <3>1, ReferenceIsMax DEF Advances, Accepted
    <2>2. QED
        BY <1>0, <1>1, <1>7, <1>a, <2>1 DEF Accepted, Advances
<1>12. Rising'
    BY <1>1, <1>4, <1>7 DEF Rising, threshold
<1>13. Holding'
    <2>1. agreedAt' = agreedAt
        BY <1>1, <1>7, <1>a DEF Advances, Agree
    <2>2. now' \in Nat /\ agreedAt \in Nat /\ agreedAt <= now'
        BY <1>0, <1>a DEF Holding, Advances, TypeOK
    <2>3. QED
        BY <1>1, <1>3, <1>7, <2>1, <2>2 DEF Holding
<1>14. QED
    BY <1>1, <1>7, <1>8, <1>9, <1>10, <1>11, <1>12, <1>13 DEF FilterInv, threshold

\* A jump is confirmed.
LEMMA RiseStep ==
    ASSUME FilterInv, NEW m, Rises(m)
    PROVE  LET threshold == UpwardThreshold(Reference(filter.accepted))
           IN  /\ FilterInv'
               /\ m > threshold
               /\ \A i \in 1 .. 3 : seen'[i] > threshold
               /\ now' - agreedAt > kRise
<1>0. /\ TypeOK /\ Tracking /\ SettledBeforeShown /\ Accepted
    BY DEF FilterInv
<1>a. Advances(m) /\ filter.displayed # None /\ Elevated(At, m) /\ ~ RiseHeld(At)
    BY DEF Rises
<1>t. /\ filter \in FilterType /\ filter.elevatedCount \in 0 .. kWindow
      /\ filter.displayed \in Rates \cup {None}
      /\ filter.started \in Nat /\ filter.accepted \in [Slots -> Rates]
    BY <1>0 DEF TypeOK, FilterType
<1> DEFINE ring == [filter.elevated EXCEPT ![filter.elevatedCursor] = m]
           n == Counted(filter.elevatedCount)
           threshold == UpwardThreshold(Reference(filter.accepted))
           since == RiseSince(At)
<1>1. /\ m > threshold /\ threshold > filter.displayed /\ threshold \in Int
      /\ ring \in [Slots -> Rates] /\ n \in 1 .. kWindow
      /\ \A i \in Slots : i < n => ring[i] \in stream' /\ ring[i] > threshold
      /\ seen'[3] > threshold
      /\ n >= 2 => seen'[2] > threshold
      /\ n >= 3 => seen'[1] > threshold
      /\ since \in Nat /\ since <= now' /\ agreedAt < since
    BY <1>a, ElevatedStep
<1>2. /\ At.previous = now' /\ At.elevatedCount = filter.elevatedCount
      /\ At.elevated = filter.elevated /\ At.elevatedCursor = filter.elevatedCursor
    BY <1>t DEF At, FilterType
<1>3. n = 3 /\ now' - since >= kRise
    BY <1>1, <1>a, <1>2 DEF RiseHeld, Advances
<1>4. PICK j \in Slots : Median(ring) = ring[j]
    BY <1>1, MedianIsEntry
<1> DEFINE median == Median(ring)
<1>5. /\ median \in Rates /\ median \in stream' /\ median > threshold
      /\ Filled(median) \in [Slots -> Rates]
    BY <1>1, <1>3, <1>4 DEF Filled
<1>6. filter' = [filter EXCEPT !.previous = now', !.elevatedSince = since,
                   !.elevated = ring, !.displayed = median, !.accepted = Filled(median),
                   !.acceptedCursor = 0, !.elevatedCount = 0, !.elevatedCursor = 0]
    BY <1>a, <1>t, <1>2 DEF Rises, Elevate, At, FilterType
<1> HIDE DEF ring, n, threshold, since, median
<1>7. filter' \in FilterType
    <2>1. now' \in Nat /\ 0 \in Slots /\ 0 \in 0 .. kWindow /\ median \in Rates \cup {None}
        BY <1>a, <1>5 DEF Advances
    <2>2. QED
        BY <1>t, <1>1, <1>5, <1>6, <2>1 DEF FilterType
<1>8. /\ filter'.previous = now' /\ filter'.displayed = median
      /\ filter'.accepted = Filled(median) /\ filter'.acceptedCursor = 0
      /\ filter'.elevatedCount = 0 /\ filter'.elevatedCursor = 0
      /\ filter'.haveEpoch = filter.haveEpoch /\ filter'.pid = filter.pid
      /\ filter'.source = filter.source /\ filter'.started = filter.started
    BY <1>t, <1>6 DEF FilterType
<1>9. TypeOK'
    BY <1>0, <1>7, <1>a DEF TypeOK, Advances, Agree, FilterType
<1>10. Tracking'
    BY <1>0, <1>t, <1>8, <1>a DEF Tracking, Advances, TypeOK
<1>11. (Settling /\ SettledBeforeShown /\ ShownFromCurrentFeed)'
    BY <1>0, <1>t, <1>5, <1>8, <1>a
       DEF TypeOK, Tracking, Settling, SettledBeforeShown, ShownFromCurrentFeed,
           Accepted, Advances
<1>12. Accepted'
    <2>1. Reference(Filled(median)) >= median
        <3>1. 0 \in Slots /\ Filled(median)[0] = median
            BY DEF Filled
        <3>2. QED
            BY <1>5, <3>1, ReferenceIsMax
    <2>2. before' <= Reference(Filled(median))
        BY <1>1, <1>5, <1>t, <1>a, <2>1, ReferenceIsMax DEF Advances
    <2>3. filter'.displayed = filter'.accepted[(filter'.acceptedCursor + 2) % kWindow]
        BY <1>8 DEF Filled
    <2>4. QED
        BY <1>0, <1>8, <1>a, <2>2, <2>3 DEF Accepted, Advances
<1>13. (Rising /\ Holding)'
    BY <1>0, <1>1, <1>8, <1>a DEF TypeOK, Rising, Holding, Advances, Agree
<1>14. /\ \A i \in 1 .. 3 : seen'[i] > threshold
       /\ now' - agreedAt > kRise
    <2>1. now' \in Nat /\ agreedAt \in Nat
        BY <1>0, <1>a DEF TypeOK, Advances
    <2>2. seen'[1] > threshold /\ seen'[2] > threshold /\ seen'[3] > threshold
        BY <1>1, <1>3
    <2>3. now' - agreedAt > kRise
        <3>1. since \in Nat /\ agreedAt < since /\ now' - since >= kRise /\ kRise \in Nat
            BY <1>1, <1>3
        <3>2. \A a, b, c, d \in Nat : a < b /\ c - b >= d => c - a > d
            OBVIOUS
        <3> HIDE DEF since
        <3> QED
            BY <2>1, <3>1, <3>2
    <2>4. \A i \in 1 .. 3 : i = 1 \/ i = 2 \/ i = 3
        OBVIOUS
    <2>5. QED
        BY <2>2, <2>3, <2>4
<1>15. QED
    BY <1>1, <1>9, <1>10, <1>11, <1>12, <1>13, <1>14 DEF FilterInv, threshold

\* Every call has one of the outcomes above.
LEMMA CallCases ==
    ASSUME FilterInv, NEW m \in Inputs, NEW gap \in Gaps, NEW pid, NEW by,
           <<pid, by>> \in Feeds, Call(m, gap, pid, by)
    PROVE  \/ Restarts
           \/ UNCHANGED vars
           \/ Opens(m, pid, by)
           \/ Collects(m) \/ Accepts(m) \/ Holds(m) \/ Rises(m)
<1>0. TypeOK /\ Tracking /\ filter \in FilterType
    BY DEF FilterInv, TypeOK
<1>1. /\ pid \in Int /\ by \in FpsDisplaySource
      /\ now' = now + gap /\ now' \in 0 .. MaxTime /\ now \in 0 .. MaxTime
      /\ Sample(m, now', pid, by) /\ Observe(m, pid, by)
    BY <1>0 DEF Call, TypeOK
<1>2. CASE ~ Displayable(m, pid, by)
    BY <1>1, <1>2 DEF Sample, Rejected, Repeated, Measured, Reset, Observe, Restarts
<1>3. CASE Displayable(m, pid, by) /\ ~ SameEpoch(now', pid, by)
    <2>1. m \in Rates
        BY <1>3 DEF Displayable
    <2>2. feed = <<pid, by>> => now' # now
        BY <1>0, <1>1, <1>3 DEF SameEpoch, Tracking, Displayable, NoFeed
    <2>3. /\ feed' = <<pid, by>>
          /\ m \in stream' /\ stream' \subseteq Rates
          /\ seen'[3] = m /\ seen' \in Shown \X Shown \X Shown
          /\ before' \in Shown
          /\ Agree(m)
        <3>1. filter.displayed \in Shown
            BY <1>0 DEF FilterType
        <3>2. CASE feed # <<pid, by>>
            BY <1>1, <1>3, <2>1, <3>2 DEF Observe
        <3>3. CASE feed = <<pid, by>>
            <4>1. /\ feed' = feed /\ seen' = <<seen[2], seen[3], m>>
                  /\ stream' = stream \cup {m} /\ before' = filter.displayed /\ Agree(m)
                BY <1>1, <1>3, <2>2, <3>3 DEF Observe
            <4>2. QED
                BY <1>0, <2>1, <3>1, <3>3, <4>1 DEF TypeOK
        <3>4. QED
            BY <3>2, <3>3
    <2>4. Current(now', pid, by) =
              [Fresh EXCEPT !.haveEpoch = TRUE, !.pid = pid, !.source = by,
                            !.started = now', !.previous = now']
        BY <1>3 DEF Current
    <2>5. Current(now', pid, by).displayed = None
        BY <2>4 DEF Fresh
    <2>6. filter' = Settle(Current(now', pid, by), m)
        BY <1>1, <1>3, <2>5 DEF Sample, Rejected, Repeated, Measured
    <2>7. QED
        BY <1>1, <2>1, <2>3, <2>4, <2>6 DEF Opens
<1>4. CASE Displayable(m, pid, by) /\ SameEpoch(now', pid, by)
    <2>1. /\ m \in Rates /\ filter.haveEpoch /\ filter.previous = now
          /\ feed = <<pid, by>> /\ now' >= now /\ now' - now <= kMaxFpsWindow
        BY <1>0, <1>4 DEF Displayable, SameEpoch, Tracking
    <2>2. CASE now' = now
        BY <1>1, <1>4, <2>1, <2>2
           DEF Sample, Rejected, Repeated, Measured, Observe, vars, history
    <2>3. CASE now' # now
        <3>1. Advances(m)
            BY <1>1, <1>4, <2>1, <2>3 DEF Observe, Advances
        <3>2. Current(now', pid, by) = At
            BY <1>4 DEF Current, At
        <3>3. At.displayed = filter.displayed
            BY <1>0 DEF At, FilterType
        <3>4. \/ At.displayed = None /\ filter' = Settle(At, m)
              \/ At.displayed # None /\ Elevated(At, m) /\ filter' = Elevate(At, m)
              \/ At.displayed # None /\ ~ Elevated(At, m) /\ filter' = Accept(At, m)
            BY <1>1, <1>4, <2>1, <2>3, <3>2 DEF Sample, Rejected, Repeated, Measured
        <3>5. QED
            BY <3>1, <3>3, <3>4 DEF Collects, Accepts, Holds, Rises
    <2>4. QED
        BY <2>2, <2>3
<1>5. QED
    BY <1>2, <1>3, <1>4

\* The same for every step of the specification.
LEMMA StepCases ==
    ASSUME FilterInv, [Next]_vars
    PROVE  \/ Restarts
           \/ UNCHANGED vars
           \/ \E m, pid, by : Opens(m, pid, by)
           \/ \E m : Collects(m) \/ Accepts(m) \/ Holds(m) \/ Rises(m)
<1>1. CASE UNCHANGED vars
    BY <1>1
<1>2. CASE ShellUiChanged
    BY <1>2 DEF ShellUiChanged, Restarts, Reset, FilterInv, TypeOK
<1>3. CASE \E m \in Inputs, gap \in Gaps, from \in Feeds : Call(m, gap, from[1], from[2])
    <2>1. PICK m \in Inputs, gap \in Gaps, from \in Feeds : Call(m, gap, from[1], from[2])
        BY <1>3
    <2>2. <<from[1], from[2]>> \in Feeds
        OBVIOUS
    <2>3. QED
        BY <2>1, <2>2, CallCases
<1>4. QED
    BY <1>1, <1>2, <1>3 DEF Next

\* Every step preserves the invariant.
LEMMA FilterInduction == FilterInv /\ [Next]_vars => FilterInv'
<1> SUFFICES ASSUME FilterInv, [Next]_vars PROVE FilterInv'
    OBVIOUS
<1>1. CASE UNCHANGED vars
    BY <1>1 DEF vars, history, FilterInv, TypeOK, Tracking, Settling,
           SettledBeforeShown,
                ShownFromCurrentFeed, Accepted, Rising, Holding
<1>2. QED
    BY <1>1, StepCases, RestartStep, OpenStep, CollectStep, AcceptStep, HoldStep, RiseStep

(***************************************************************************)
(* The inductive invariant holds in every state of every stream of calls.  *)
(***************************************************************************)
THEOREM FilterInvariant == Spec => []FilterInv
BY FilterInit, FilterInduction, PTL DEF Spec

(***************************************************************************)
(* Type correctness: the ring cursors and counters of FpsDisplayFilter     *)
(* stay within the three-entry arrays and every entry is displayable.      *)
(***************************************************************************)
THEOREM FilterTypeOK == Spec => []TypeOK
<1>1. FilterInv => TypeOK
    BY DEF FilterInv
<1>2. QED
    BY <1>1, FilterInvariant, PTL

(***************************************************************************)
(* Nothing is displayed before the epoch settled, for every kStartup.      *)
(***************************************************************************)
THEOREM FilterSettles == Spec => []SettledBeforeShown
<1>1. FilterInv => SettledBeforeShown
    BY DEF FilterInv
<1>2. QED
    BY <1>1, FilterInvariant, PTL

(***************************************************************************)
(* A displayed number was measured for the current process and source,     *)
(* whatever the clock and the stream did.                                  *)
(***************************************************************************)
THEOREM FilterShowsCurrentFeed == Spec => []ShownFromCurrentFeed
<1>1. FilterInv => ShownFromCurrentFeed
    BY DEF FilterInv
<1>2. QED
    BY <1>1, FilterInvariant, PTL

(***************************************************************************)
(* A jump is held for at most kMaxFpsWindow, whatever the sampling period. *)
(***************************************************************************)
THEOREM FilterHoldBounded == Spec => []HoldBounded
<1>1. FilterInv => HoldBounded
    <2> SUFFICES ASSUME FilterInv, filter.elevatedCount > 0
                 PROVE  filter.previous - filter.elevatedSince <= kMaxFpsWindow
        BY DEF HoldBounded
    <2>1. /\ filter.elevatedCount \in 0 .. 3
          /\ filter.previous \in Nat /\ filter.elevatedSince \in Nat
        BY DEF FilterInv, TypeOK, FilterType
    <2>2. \/ filter.elevatedSince = filter.previous
          \/ filter.previous - filter.elevatedSince <= kMaxFpsWindow
          \/ filter.previous - filter.elevatedSince < kRise
        BY <2>1 DEF FilterInv, Holding
    <2>3. QED
        BY <2>1, <2>2
<1>2. QED
    BY <1>1, FilterInvariant, PTL

(***************************************************************************)
(* A number rises past the threshold only on three confirming samples and  *)
(* kRise after the screen last agreed with a sample.                       *)
(***************************************************************************)
THEOREM FilterRiseConfirmed == Spec => RiseConfirmed
<1>1. FilterInv /\ [Next]_vars =>
          [ (/\ filter.displayed # None
             /\ filter'.displayed > UpwardThreshold(Reference(filter.accepted))) =>
                /\ \A i \in 1 .. 3 : seen'[i] > UpwardThreshold(Reference(filter.accepted))
                /\ now' - agreedAt > kRise ]_vars
    <2> SUFFICES ASSUME FilterInv, [Next]_vars, ~ UNCHANGED vars, filter.displayed # None,
                        filter'.displayed > UpwardThreshold(Reference(filter.accepted))
                 PROVE  /\ \A i \in 1 .. 3 :
                               seen'[i] > UpwardThreshold(Reference(filter.accepted))
                        /\ now' - agreedAt > kRise
        OBVIOUS
    <2>1. /\ filter.accepted \in [Slots -> Rates] /\ filter.displayed \in Rates \cup {None}
          /\ filter.acceptedCursor \in Slots
        BY DEF FilterInv, TypeOK, FilterType
    <2>2. /\ UpwardThreshold(Reference(filter.accepted)) \in Int
          /\ UpwardThreshold(Reference(filter.accepted)) > 0
          /\ UpwardThreshold(Reference(filter.accepted)) > filter.displayed
        BY <2>1, ReferenceIsMax DEF FilterInv, Accepted
    <2>3. CASE Restarts
        BY <2>2, <2>3 DEF Restarts, Fresh
    <2>4. CASE \E m, pid, by : Opens(m, pid, by)
        BY <2>2, <2>4, OpenStep
    <2>5. ASSUME NEW m, Collects(m) PROVE FALSE
        BY <2>5 DEF Collects
    <2>6. ASSUME NEW m, Accepts(m) PROVE FALSE
        <3>1. m \in Int
            BY <2>6 DEF Accepts, Advances
        <3>2. QED
            BY <2>2, <2>6, <3>1, AcceptStep
    <2>7. ASSUME NEW m, Holds(m) PROVE FALSE
        BY <2>1, <2>2, <2>7, HoldStep
    <2>8. CASE \E m : Rises(m)
        BY <2>8, RiseStep
    <2>9. QED
        BY <2>3, <2>4, <2>5, <2>6, <2>7, <2>8, StepCases
<1>2. QED
    BY <1>1, FilterInvariant, PTL DEF Spec, RiseConfirmed

(***************************************************************************)
(* A sample no higher than one of the last two displayed numbers is shown  *)
(* at once.                                                                *)
(***************************************************************************)
THEOREM FilterRecoversAtOnce == Spec => DropAndRecoveryAtOnce
<1>1. FilterInv /\ [Next]_vars =>
          [ (/\ filter.displayed # None /\ filter'.displayed # None
             /\ filter'.previous # filter.previous
             /\ seen'[3] <= filter.displayed \/ seen'[3] <= before) =>
                filter'.displayed = seen'[3] ]_vars
    <2> SUFFICES ASSUME FilterInv, [Next]_vars, ~ UNCHANGED vars,
                        filter.displayed # None, filter'.displayed # None,
                        seen'[3] <= filter.displayed \/ seen'[3] <= before
                 PROVE  filter'.displayed = seen'[3]
        OBVIOUS
    <2>1. /\ filter.accepted \in [Slots -> Rates] /\ filter.displayed \in Rates \cup {None}
          /\ filter.acceptedCursor \in Slots /\ before \in Shown
        BY DEF FilterInv, TypeOK, FilterType
    <2>2. /\ UpwardThreshold(Reference(filter.accepted)) \in Int
          /\ UpwardThreshold(Reference(filter.accepted)) > filter.displayed
          /\ UpwardThreshold(Reference(filter.accepted)) > before
        BY <2>1, ReferenceIsMax DEF FilterInv, Accepted
    <2>3. CASE Restarts
        BY <2>3 DEF Restarts, Fresh
    <2>4. CASE \E m, pid, by : Opens(m, pid, by)
        BY <2>4, OpenStep
    <2>5. ASSUME NEW m, Collects(m) PROVE FALSE
        BY <2>5 DEF Collects
    <2>6. ASSUME NEW m, Accepts(m) PROVE filter'.displayed = seen'[3]
        BY <2>6, AcceptStep DEF Accepts, Advances
    <2>7. ASSUME NEW m, Holds(m) PROVE FALSE
        BY <2>1, <2>2, <2>7, HoldStep DEF Holds, Advances
    <2>8. ASSUME NEW m, Rises(m) PROVE FALSE
        BY <2>1, <2>2, <2>8, RiseStep DEF Rises, Advances
    <2>9. QED
        BY <2>3, <2>4, <2>5, <2>6, <2>7, <2>8, StepCases
<1>2. QED
    BY <1>1, FilterInvariant, PTL DEF Spec, DropAndRecoveryAtOnce

------------------------------------------------------------------------------
(***************************************************************************)
(* The loop.  When a number is sent its filter may have held it back, and  *)
(* before that it was the median of samples; the invariant says how old    *)
(* each of them can be.  The first sample of an epoch may be of any age    *)
(* (ensure_shellui_renderer stands between its measurement and the         *)
(* filter), the later ones are younger than the sample before them.        *)
(***************************************************************************)
\* The slot that was written last.
Newest(cursor) == (cursor + 2) % kWindow

\* The rate was measured of the current game after the time t.
After(r, t) == r \in Measurable /\ lastAt[r] # Never /\ lastAt[r] > t

Between(n, t) == \E low, high \in Measurable :
                    low <= n /\ n <= high /\ After(low, t) /\ After(high, t)

\* A number held back has been measured a window and more before the rise.
Age(f) == IF f.elevatedCount = 0 THEN f.previous - 2 * kMaxFpsWindow
          ELSE f.elevatedSince - 3 * kMaxFpsWindow

\* The newest entry of each ring was measured less than a window before the last
\* sample, and what is shown lies between rates of the age that allows.
RingsAreRecent(f) ==
    /\ f.displayed = None /\ f.recentCount >= 2 =>
           After(f.recent[Newest(f.recentCursor)], f.previous - kMaxFpsWindow)
    /\ f.elevatedCount >= 1 =>
           After(f.elevated[Newest(f.elevatedCursor)], f.previous - kMaxFpsWindow)
    /\ f.displayed # None => Between(f.displayed, Age(f))

\* How long a number has been held back.
HeldBriefly(f) ==
    /\ f.displayed = None => f.elevatedCount = 0
    /\ f.elevatedCount = 1 => f.previous = f.elevatedSince
    /\ f.elevatedCount = 2 => f.previous - f.elevatedSince <= kMaxFpsWindow
    /\ f.elevatedCount = 3 => f.previous - f.elevatedSince < kRise

\* The types, and no measurement lies in the future.
LoopType ==
    /\ filter \in FilterType
    /\ clock \in Nat /\ stableGame \in Nat
    /\ pc \in {"shellui", "game", "measure", "ensure", "send"}
    /\ measured \in Measurable \cup {None} /\ source \in FpsDisplaySource
    /\ lastAt \in [Measurable -> Nat \cup {Never}]
    /\ \A r \in Measurable : lastAt[r] <= clock

\* The epoch of the filter is one of the game of the last iteration and ended
\* before the present one, and the rate under way was measured since.
LoopEpoch ==
    /\ filter.haveEpoch => filter.pid > 0 /\ filter.previous < clock
    /\ ~ filter.haveEpoch => filter.displayed = None
    /\ pc \in {"shellui", "game"} /\ filter.haveEpoch => filter.pid = stableGame
    /\ pc \in {"ensure", "send"} /\ measured # None =>
           /\ lastAt[measured] # Never
           /\ filter.haveEpoch => lastAt[measured] > filter.previous

LoopInv ==
    /\ LoopType
    /\ LoopEpoch
    /\ HeldBriefly(filter)
    /\ filter.haveEpoch /\ filter.pid = stableGame => RingsAreRecent(filter)

USE ControllerConstants DEF Never, Nobody

\* The slot written last, before and after the cursor moves on.
LEMMA RingTurns ==
    ASSUME NEW c \in Slots
    PROVE  /\ Newest(c) \in Slots /\ Newest(c) # c
           /\ NextSlot(c) \in Slots /\ Newest(NextSlot(c)) = c
           /\ Newest(0) = 2
<1>1. c = 0 \/ c = 1 \/ c = 2
    OBVIOUS
<1>2. CASE c = 0
    BY <1>2 DEF Newest, NextSlot
<1>3. CASE c = 1
    BY <1>3 DEF Newest, NextSlot
<1>4. CASE c = 2
    BY <1>4 DEF Newest, NextSlot
<1> QED
    BY <1>1, <1>2, <1>3, <1>4

\* The median of a ring lies between its two newest entries.
LEMMA MedianIsRecent ==
    ASSUME lastAt \in [Measurable -> Nat \cup {Never}],
           NEW old \in [Slots -> Rates], NEW c \in Slots, NEW m \in Rates, NEW t \in Int,
           After(m, t), After(old[Newest(c)], t)
    PROVE  /\ Median([old EXCEPT ![c] = m]) \in Rates
           /\ Between(Median([old EXCEPT ![c] = m]), t)
<1> DEFINE ring == [old EXCEPT ![c] = m]
           n == Newest(c)
           med == Median(ring)
<1>1. n \in Slots /\ n # c
    BY RingTurns
<1>2. ring \in [Slots -> Int] /\ ring \in [Slots -> Rates] /\ ring[c] = m /\ ring[n] = old[n]
    BY <1>1
<1>3. /\ med \in Int
      /\ m <= med \/ old[n] <= med
      /\ med <= m \/ med <= old[n]
    BY <1>1, <1>2, MedianBetween
<1>4. m \in Measurable /\ old[n] \in Measurable
    BY DEF After
<1>5. med \in Rates
    <2>1. PICK j \in Slots : med = ring[j]
        BY <1>2, MedianIsEntry
    <2> QED
        BY <1>2, <2>1
<1>6. m \in Int /\ old[n] \in Int
    BY <1>1
<1>7. After(m, t) /\ After(old[n], t)
    OBVIOUS
<1> HIDE DEF med, ring, n
<1>8. PICK low \in {m, old[n]}, high \in {m, old[n]} : low <= med /\ med <= high
    BY <1>3
<1>9. Between(med, t)
    BY <1>4, <1>7, <1>8 DEF Between
<1> QED
    BY <1>5, <1>9 DEF med, ring


\* What was measured after t was measured after every earlier time.
LEMMA OlderAfter ==
    ASSUME lastAt \in [Measurable -> Nat \cup {Never}], NEW t \in Int, NEW s \in Int, s <= t
    PROVE  /\ \A r : After(r, t) => After(r, s)
           /\ \A n : Between(n, t) => Between(n, s)
<1>1. ASSUME NEW r, After(r, t) PROVE After(r, s)
    <2>1. lastAt[r] \in Nat /\ lastAt[r] > t
        BY <1>1 DEF After
    <2> QED
        BY <1>1, <2>1 DEF After
<1>2. ASSUME NEW n, Between(n, t) PROVE Between(n, s)
    BY <1>1, <1>2 DEF Between
<1> QED
    BY <1>1, <1>2

\* One more sample of the epoch: m was measured after the sample before it.
Fed(m) ==
    /\ filter \in FilterType /\ lastAt \in [Measurable -> Nat \cup {Never}] /\ clock \in Nat
    /\ m \in Rates /\ After(m, filter.previous)
    /\ filter.previous < clock /\ clock - filter.previous <= kMaxFpsWindow
    /\ HeldBriefly(filter) /\ RingsAreRecent(filter)

\* The filter with the time of the present sample.
Moved == [filter EXCEPT !.previous = clock]

\* What the filter is after the sample.
Kept(f) ==
    /\ f \in FilterType /\ f.haveEpoch = filter.haveEpoch /\ f.pid = filter.pid
    /\ f.previous = clock
    /\ HeldBriefly(f) /\ RingsAreRecent(f)

\* Ages as seen from the present sample.
LEMMA FedAges ==
    ASSUME NEW m, Fed(m)
    PROVE  /\ filter.previous \in Nat /\ kMaxFpsWindow \in Nat
           /\ After(m, clock - kMaxFpsWindow) /\ After(m, clock - 2 * kMaxFpsWindow)
           /\ m \in Measurable
           /\ \A r : After(r, filter.previous - kMaxFpsWindow) => After(r, clock - 2 * kMaxFpsWindow)
<1>1. filter.previous \in Nat /\ kMaxFpsWindow \in Nat /\ clock \in Nat
    BY DEF Fed, FilterType
<1>2. clock - kMaxFpsWindow <= filter.previous /\ clock - kMaxFpsWindow \in Int
    BY <1>1 DEF Fed
<1>3. /\ clock - 2 * kMaxFpsWindow <= filter.previous - kMaxFpsWindow
      /\ clock - 2 * kMaxFpsWindow <= filter.previous
      /\ clock - 2 * kMaxFpsWindow \in Int /\ filter.previous - kMaxFpsWindow \in Int
    BY <1>1, <1>2
<1>4. After(m, filter.previous) /\ lastAt \in [Measurable -> Nat \cup {Never}]
    BY DEF Fed
<1>5. After(m, clock - kMaxFpsWindow)
    BY <1>1, <1>2, <1>4, OlderAfter
<1>6. After(m, clock - 2 * kMaxFpsWindow)
    BY <1>1, <1>3, <1>4, OlderAfter
<1>7. \A r : After(r, filter.previous - kMaxFpsWindow) => After(r, clock - 2 * kMaxFpsWindow)
    BY <1>1, <1>3, <1>4, OlderAfter
<1> QED
    BY <1>1, <1>4, <1>5, <1>6, <1>7 DEF After

\* Still settling, or the first number: the median of three samples.
LEMMA SettleKeeps ==
    ASSUME NEW m, Fed(m), filter.displayed = None
    PROVE  Kept(Settle(Moved, m))
<1>t. /\ filter \in FilterType /\ filter.recent \in [Slots -> Rates]
      /\ filter.recentCursor \in Slots /\ filter.recentCount \in 0 .. kWindow
      /\ clock \in Nat /\ m \in Rates /\ filter.elevatedCount = 0
      /\ lastAt \in [Measurable -> Nat \cup {Never}]
    BY DEF Fed, FilterType, HeldBriefly
<1> DEFINE cursor == filter.recentCursor
           ring == [filter.recent EXCEPT ![cursor] = m]
           count == Counted(filter.recentCount)
           settled == clock - filter.started >= kStartup /\ count = kWindow
           shown == IF settled THEN Median(ring) ELSE None
           acc == IF settled THEN Filled(Median(ring)) ELSE filter.accepted
           g == Settle(Moved, m)
<1>1. ring \in [Slots -> Rates] /\ count \in 0 .. kWindow /\ NextSlot(cursor) \in Slots
    BY <1>t, RingTurns DEF Counted
<1>2. PICK j \in Slots : Median(ring) = ring[j]
    BY <1>1, MedianIsEntry
<1>3. g = [filter EXCEPT !.previous = clock, !.recent = ring, !.recentCursor = NextSlot(cursor),
                         !.recentCount = count, !.displayed = shown, !.accepted = acc]
    BY <1>t DEF Settle, Moved, FilterType
<1>4. shown \in Rates \cup {None} /\ acc \in [Slots -> Rates]
    BY <1>t, <1>1, <1>2 DEF Filled, FilterType
<1>5. count = kWindow => filter.recentCount >= 2
    BY <1>t DEF Counted
<1>6. ASSUME settled PROVE Between(Median(ring), clock - 2 * kMaxFpsWindow)
    <2>1. filter.recentCount >= 2
        BY <1>5, <1>6
    <2>2. After(filter.recent[Newest(cursor)], filter.previous - kMaxFpsWindow)
        BY <2>1 DEF Fed, RingsAreRecent
    <2>3. After(filter.recent[Newest(cursor)], clock - 2 * kMaxFpsWindow)
        BY <2>2, FedAges
    <2>4. After(m, clock - 2 * kMaxFpsWindow) /\ clock - 2 * kMaxFpsWindow \in Int
        BY <1>t, FedAges
    <2> QED
        BY <1>t, <2>3, <2>4, MedianIsRecent
<1>7. ring[Newest(NextSlot(cursor))] = m
    BY <1>t, RingTurns
<1> HIDE DEF ring, count, settled, shown, acc, cursor, g
<1>8. g \in FilterType
    <2>1. filter \in FilterType /\ clock \in Nat
        BY <1>t
    <2> QED
        BY <1>1, <1>3, <1>4, <2>1 DEF FilterType
<1>9. /\ g.haveEpoch = filter.haveEpoch /\ g.pid = filter.pid /\ g.previous = clock
      /\ g.recent = ring /\ g.recentCursor = NextSlot(cursor) /\ g.displayed = shown
      /\ g.elevatedCount = 0
    BY <1>t, <1>3 DEF FilterType
<1>10. HeldBriefly(g)
    BY <1>9 DEF HeldBriefly
<1>11. g.displayed # None => Between(g.displayed, Age(g))
    <2>1. g.displayed # None => settled /\ g.displayed = Median(ring)
        BY <1>9 DEF shown
    <2>2. Age(g) = clock - 2 * kMaxFpsWindow
        BY <1>9 DEF Age
    <2> QED
        BY <1>6, <2>1, <2>2
<1>12. After(g.recent[Newest(g.recentCursor)], g.previous - kMaxFpsWindow)
    BY <1>7, <1>9, FedAges
<1>13. RingsAreRecent(g)
    BY <1>9, <1>11, <1>12 DEF RingsAreRecent
<1>14. Kept(g)
    BY <1>8, <1>9, <1>10, <1>13 DEF Kept
<1> QED
    BY <1>14 DEF g

\* A sample that is shown at once backs itself.
LEMMA AcceptKeeps ==
    ASSUME NEW m, Fed(m), filter.displayed # None
    PROVE  Kept(Accept(Moved, m))
<1>t. /\ filter \in FilterType /\ filter.accepted \in [Slots -> Rates]
      /\ filter.acceptedCursor \in Slots /\ clock \in Nat /\ m \in Rates
    BY DEF Fed, FilterType
<1> DEFINE ring == [filter.accepted EXCEPT ![filter.acceptedCursor] = m]
           cursor == NextSlot(filter.acceptedCursor)
           g == Accept(Moved, m)
<1>1. ring \in [Slots -> Rates] /\ cursor \in Slots /\ m \in Rates \cup {None}
    BY <1>t, RingTurns
<1>2. g = [filter EXCEPT !.previous = clock, !.displayed = m, !.accepted = ring,
                         !.acceptedCursor = cursor, !.elevatedCount = 0, !.elevatedCursor = 0]
    BY <1>t DEF Accept, Moved, FilterType
<1> HIDE DEF ring, cursor, g
<1>3. g \in FilterType
    <2>1. 0 \in Slots /\ 0 \in 0 .. kWindow
        OBVIOUS
    <2> QED
        BY <1>t, <1>1, <1>2, <2>1 DEF FilterType
<1>4. /\ g.haveEpoch = filter.haveEpoch /\ g.pid = filter.pid /\ g.previous = clock
      /\ g.displayed = m /\ g.elevatedCount = 0
    BY <1>t, <1>2 DEF FilterType
<1>5. m # None /\ m \in Int
    BY <1>t
<1>6. HeldBriefly(g)
    BY <1>4 DEF HeldBriefly
<1>7. Age(g) = clock - 2 * kMaxFpsWindow
    BY <1>4 DEF Age
<1>8. Between(m, clock - 2 * kMaxFpsWindow)
    <2>1. m \in Measurable /\ After(m, clock - 2 * kMaxFpsWindow) /\ m <= m
        BY <1>5, FedAges
    <2> QED
        BY <2>1 DEF Between
<1>9. RingsAreRecent(g)
    BY <1>4, <1>5, <1>7, <1>8 DEF RingsAreRecent
<1>10. Kept(g)
    BY <1>3, <1>4, <1>6, <1>9 DEF Kept
<1> QED
    BY <1>10 DEF g

\* A rise: the old number is held, or the median of the rise is shown.
LEMMA ElevateKeeps ==
    ASSUME NEW m, Fed(m), filter.displayed # None
    PROVE  Kept(Elevate(Moved, m))
<1>t. /\ filter \in FilterType /\ filter.elevated \in [Slots -> Rates]
      /\ filter.elevatedCursor \in Slots /\ filter.elevatedCount \in 0 .. kWindow
      /\ filter.elevatedSince \in Nat /\ filter.previous \in Nat
      /\ clock \in Nat /\ m \in Rates /\ filter.displayed \in Rates
      /\ lastAt \in [Measurable -> Nat \cup {Never}]
      /\ filter.previous < clock /\ clock - filter.previous <= kMaxFpsWindow
    BY DEF Fed, FilterType
<1>h. HeldBriefly(filter) /\ RingsAreRecent(filter)
    BY DEF Fed
<1> DEFINE cursor == filter.elevatedCursor
           ring == [filter.elevated EXCEPT ![cursor] = m]
           count == Counted(filter.elevatedCount)
           since == IF filter.elevatedCount = 0 THEN clock ELSE filter.elevatedSince
           g == Elevate(Moved, m)
<1>1. /\ Moved.elevatedCount = filter.elevatedCount /\ Moved.previous = clock
      /\ Moved.elevatedSince = filter.elevatedSince /\ Moved.elevated = filter.elevated
      /\ Moved.elevatedCursor = cursor
    BY <1>t DEF Moved, FilterType
<1>2. RiseSince(Moved) = since /\ since \in Nat
    BY <1>t, <1>1 DEF RiseSince
<1>3. RiseHeld(Moved) <=> count < kWindow \/ clock - since < kRise
    BY <1>1, <1>2 DEF RiseHeld
<1>4. /\ ring \in [Slots -> Rates] /\ count \in 1 .. kWindow /\ NextSlot(cursor) \in Slots
      /\ ring[Newest(NextSlot(cursor))] = m
    BY <1>t, RingTurns DEF Counted
<1>5. PICK j \in Slots : Median(ring) = ring[j]
    BY <1>4, MedianIsEntry
<1>6. After(m, clock - kMaxFpsWindow) /\ After(m, clock - 2 * kMaxFpsWindow)
    BY FedAges
<1>7. CASE RiseHeld(Moved)
    <2>1. g = [filter EXCEPT !.previous = clock, !.elevatedSince = since, !.elevated = ring,
                             !.elevatedCursor = NextSlot(cursor), !.elevatedCount = count]
        BY <1>t, <1>1, <1>2, <1>7 DEF Elevate, Moved, FilterType
    <2>2. /\ count = 1 => since = clock
          /\ count = 2 => clock - since <= kMaxFpsWindow
          /\ count = 3 => clock - since < kRise
        <3>1. count = 1 => filter.elevatedCount = 0
            BY <1>t DEF Counted
        <3>2. count = 2 => filter.elevatedCount = 1
            BY <1>t DEF Counted
        <3>3. filter.elevatedCount = 1 => filter.elevatedSince = filter.previous
            BY <1>h DEF HeldBriefly
        <3> QED
            BY <1>t, <1>3, <1>7, <3>1, <3>2, <3>3
    <2>3. Between(filter.displayed, since - 3 * kMaxFpsWindow)
        <3>1. Between(filter.displayed, Age(filter))
            BY <1>h, <1>t DEF RingsAreRecent
        <3>2. Age(filter) \in Int /\ since - 3 * kMaxFpsWindow \in Int
            BY <1>t, <1>2 DEF Age
        <3>3. since - 3 * kMaxFpsWindow <= Age(filter)
            BY <1>t DEF Age
        <3> QED
            BY <1>t, <3>1, <3>2, <3>3, OlderAfter
    <2> HIDE DEF ring, count, since, cursor, g
    <2>4. g \in FilterType
        <3>1. filter \in FilterType /\ clock \in Nat /\ since \in Nat /\ count \in 0 .. kWindow
            BY <1>t, <1>2, <1>4
        <3> QED
            BY <1>4, <2>1, <3>1 DEF FilterType
    <2>5. /\ g.haveEpoch = filter.haveEpoch /\ g.pid = filter.pid /\ g.previous = clock
          /\ g.displayed = filter.displayed /\ g.elevatedCount = count
          /\ g.elevatedSince = since /\ g.elevated = ring
          /\ g.elevatedCursor = NextSlot(cursor)
        BY <1>t, <2>1 DEF FilterType
    <2>6. filter.displayed # None /\ count # 0
        BY <1>t, <1>4
    <2>7. HeldBriefly(g)
        BY <2>2, <2>5, <2>6 DEF HeldBriefly
    <2>8. Age(g) = since - 3 * kMaxFpsWindow
        BY <2>5, <2>6 DEF Age
    <2>9. RingsAreRecent(g)
        BY <1>4, <1>6, <2>3, <2>5, <2>6, <2>8 DEF RingsAreRecent
    <2>10. Kept(g)
        BY <2>4, <2>5, <2>7, <2>9 DEF Kept
    <2> QED
        BY <2>10 DEF g
<1>8. CASE ~ RiseHeld(Moved)
    <2>1. g = [filter EXCEPT !.previous = clock, !.elevatedSince = since, !.elevated = ring,
                             !.displayed = Median(ring), !.accepted = Filled(Median(ring)),
                             !.acceptedCursor = 0, !.elevatedCount = 0, !.elevatedCursor = 0]
        BY <1>t, <1>1, <1>2, <1>8 DEF Elevate, Moved, FilterType
    <2>2. filter.elevatedCount >= 1
        BY <1>t, <1>3, <1>8 DEF Counted
    <2>3. After(filter.elevated[Newest(cursor)], filter.previous - kMaxFpsWindow)
        BY <1>h, <2>2 DEF RingsAreRecent
    <2>4. After(filter.elevated[Newest(cursor)], clock - 2 * kMaxFpsWindow)
        BY <2>3, FedAges
    <2>5. clock - 2 * kMaxFpsWindow \in Int
        BY <1>t
    <2>6. Median(ring) \in Rates /\ Between(Median(ring), clock - 2 * kMaxFpsWindow)
        BY <1>t, <1>6, <2>4, <2>5, MedianIsRecent
    <2>7. Filled(Median(ring)) \in [Slots -> Rates] /\ 0 \in Slots /\ 0 \in 0 .. kWindow
        BY <2>6 DEF Filled
    <2> HIDE DEF ring, count, since, cursor, g
    <2>8. g \in FilterType
        BY <1>t, <1>2, <1>4, <2>1, <2>6, <2>7 DEF FilterType
    <2>9. /\ g.haveEpoch = filter.haveEpoch /\ g.pid = filter.pid /\ g.previous = clock
          /\ g.displayed = Median(ring) /\ g.elevatedCount = 0
        BY <1>t, <2>1 DEF FilterType
    <2>10. Median(ring) # None
        BY <2>6
    <2>11. HeldBriefly(g)
        BY <2>9, <2>10 DEF HeldBriefly
    <2>12. Age(g) = clock - 2 * kMaxFpsWindow
        BY <2>9 DEF Age
    <2>13. RingsAreRecent(g)
        BY <2>6, <2>9, <2>10, <2>12 DEF RingsAreRecent
    <2>14. Kept(g)
        BY <2>8, <2>9, <2>11, <2>13 DEF Kept
    <2> QED
        BY <2>14 DEF g
<1> QED
    BY <1>7, <1>8

\* The filter after a reset.
LEMMA FreshKeeps ==
    /\ Fresh \in FilterType /\ ~ Fresh.haveEpoch /\ Fresh.displayed = None
    /\ Fresh.elevatedCount = 0 /\ Fresh.recentCount = 0
    /\ HeldBriefly(Fresh)
<1>1. Fresh \in FilterType
    <2>1. /\ 0 \in Rates /\ [i \in Slots |-> 0] \in [Slots -> Rates]
          /\ 0 \in Slots /\ 0 \in 0 .. kWindow
        OBVIOUS
    <2> QED
        BY <2>1 DEF Fresh, FilterType
<1>2. /\ ~ Fresh.haveEpoch /\ Fresh.displayed = None
      /\ Fresh.elevatedCount = 0 /\ Fresh.recentCount = 0
    BY DEF Fresh
<1> QED
    BY <1>1, <1>2 DEF HeldBriefly

\* The first sample of an epoch shows nothing yet.
Opened(pid, by) == [Fresh EXCEPT !.haveEpoch = TRUE, !.pid = pid, !.source = by,
                                 !.started = clock, !.previous = clock]

LEMMA OpenKeeps ==
    ASSUME NEW m \in Rates, NEW pid \in Int, NEW by \in FpsDisplaySource, clock \in Nat
    PROVE  LET g == Settle(Opened(pid, by), m)
           IN  /\ Opened(pid, by).displayed = None
               /\ g \in FilterType /\ g.haveEpoch /\ g.pid = pid /\ g.previous = clock
               /\ g.displayed = None
               /\ HeldBriefly(g) /\ RingsAreRecent(g)
<1> DEFINE f == Opened(pid, by)
           g == Settle(f, m)
           ring == [f.recent EXCEPT ![0] = m]
<1>1. /\ f.haveEpoch /\ f.pid = pid /\ f.previous = clock /\ f.displayed = None
      /\ f.recent = Filled(0) /\ f.recentCount = 0 /\ f.recentCursor = 0
      /\ f.accepted = Filled(0) /\ f.elevatedCount = 0
    BY DEF Opened, Fresh, Filled
<1>2. f \in FilterType
    BY FreshKeeps DEF Opened, FilterType
<1> HIDE DEF f
<1>3. /\ g = [f EXCEPT !.recent = ring, !.recentCursor = 1, !.recentCount = 1,
                       !.displayed = None, !.accepted = f.accepted]
      /\ ring \in [Slots -> Rates]
    <2>1. Counted(f.recentCount) = 1 /\ NextSlot(f.recentCursor) = 1
        BY <1>1 DEF Counted, NextSlot
    <2>2. ring \in [Slots -> Rates]
        BY <1>1 DEF Filled
    <2>3. ~ (f.previous - f.started >= kStartup /\ Counted(f.recentCount) = kWindow)
        BY <2>1
    <2>4. Settle(f, m) = [f EXCEPT !.recent = [f.recent EXCEPT ![f.recentCursor] = m],
                                   !.recentCursor = NextSlot(f.recentCursor),
                                   !.recentCount = Counted(f.recentCount),
                                   !.displayed = None, !.accepted = f.accepted]
        BY <2>3, Zenon DEF Settle
    <2> QED
        BY <1>1, <2>1, <2>2, <2>4
<1> HIDE DEF g, ring
<1>4. g \in FilterType
    <2>1. f.accepted \in [Slots -> Rates] /\ None \in Rates \cup {None} /\ 1 \in Slots
          /\ 1 \in 0 .. kWindow
        BY <1>2 DEF FilterType
    <2> QED
        BY <1>2, <1>3, <2>1 DEF FilterType
<1>5. /\ g.haveEpoch = f.haveEpoch /\ g.pid = f.pid /\ g.previous = f.previous
      /\ g.displayed = None /\ g.recentCount = 1 /\ g.elevatedCount = f.elevatedCount
    BY <1>2, <1>3 DEF FilterType
<1>6. HeldBriefly(g) /\ RingsAreRecent(g)
    BY <1>1, <1>5 DEF HeldBriefly, RingsAreRecent
<1>7. /\ f.displayed = None /\ g \in FilterType /\ g.haveEpoch /\ g.pid = pid
      /\ g.previous = clock /\ g.displayed = None /\ HeldBriefly(g) /\ RingsAreRecent(g)
    BY <1>1, <1>4, <1>5, <1>6
<1> QED
    BY <1>7 DEF f, g

\* The filter after the loop's call of it.
LEMMA SampleKeeps ==
    ASSUME LoopInv, pc = "send", Sample(measured, clock, stableGame, source)
    PROVE  /\ filter' \in FilterType /\ HeldBriefly(filter')
           /\ filter'.haveEpoch =>
                  /\ filter'.pid = stableGame /\ filter'.pid > 0
                  /\ filter'.previous = clock /\ RingsAreRecent(filter')
           /\ ~ filter'.haveEpoch => filter'.displayed = None
<1>0. LoopType /\ LoopEpoch /\ HeldBriefly(filter)
    BY DEF LoopInv
<1>t. /\ filter \in FilterType /\ clock \in Nat /\ stableGame \in Int
      /\ source \in FpsDisplaySource /\ lastAt \in [Measurable -> Nat \cup {Never}]
      /\ measured \in Measurable \cup {None}
    BY <1>0 DEF LoopType
<1>1. CASE filter' = Fresh
    BY <1>1, FreshKeeps
<1>2. CASE ~ Displayable(measured, stableGame, source)
    BY <1>1, <1>2 DEF Sample, Rejected, Reset, Measured
<1>3. CASE Displayable(measured, stableGame, source) /\ ~ SameEpoch(clock, stableGame, source)
    <2> DEFINE f == Opened(stableGame, source)
    <2>1. measured \in Rates /\ stableGame > 0
        BY <1>3 DEF Displayable
    <2>2. Current(clock, stableGame, source) = f
        BY <1>3 DEF Current, Opened
    <2>3. /\ f.displayed = None
          /\ Settle(f, measured) \in FilterType /\ Settle(f, measured).haveEpoch
          /\ Settle(f, measured).pid = stableGame /\ Settle(f, measured).previous = clock
          /\ Settle(f, measured).displayed = None
          /\ HeldBriefly(Settle(f, measured)) /\ RingsAreRecent(Settle(f, measured))
        BY <1>t, <2>1, OpenKeeps
    <2> HIDE DEF f
    <2>4. filter' = Settle(f, measured)
        BY <1>3, <2>2, <2>3 DEF Sample, Rejected, Repeated, Measured
    <2> QED
        BY <2>1, <2>3, <2>4
<1>4. CASE Displayable(measured, stableGame, source) /\ SameEpoch(clock, stableGame, source)
    <2>1. /\ filter.haveEpoch /\ filter.pid = stableGame /\ filter.pid > 0
          /\ filter.previous < clock /\ clock - filter.previous <= kMaxFpsWindow
        BY <1>0, <1>4 DEF SameEpoch, LoopEpoch
    <2>2. measured \in Rates /\ measured # None /\ measured \in Measurable
        BY <1>t, <1>4 DEF Displayable
    <2>3. After(measured, filter.previous)
        BY <1>0, <2>1, <2>2 DEF LoopEpoch, After
    <2>4. RingsAreRecent(filter)
        BY <2>1 DEF LoopInv
    <2>5. Fed(measured)
        BY <1>0, <1>t, <2>1, <2>2, <2>3, <2>4 DEF Fed
    <2>6. Current(clock, stableGame, source) = Moved /\ Moved.displayed = filter.displayed
        BY <1>t, <1>4 DEF Current, Moved, FilterType
    <2>7. clock # filter.previous
        BY <1>t, <2>1 DEF FilterType
    <2>8. \/ filter.displayed = None /\ filter' = Settle(Moved, measured)
          \/ filter.displayed # None /\ filter' = Elevate(Moved, measured)
          \/ filter.displayed # None /\ filter' = Accept(Moved, measured)
        BY <1>4, <2>6, <2>7 DEF Sample, Rejected, Repeated, Measured
    <2>9. Kept(filter')
        BY <2>5, <2>8, SettleKeeps, ElevateKeeps, AcceptKeeps
    <2> QED
        BY <2>1, <2>9 DEF Kept
<1> QED
    BY <1>2, <1>3, <1>4

\* Measured again, a rate is measured later.
LEMMA AfterStays ==
    ASSUME lastAt \in [Measurable -> Nat \cup {Never}], lastAt' \in [Measurable -> Nat \cup {Never}],
           \A r \in Measurable : lastAt'[r] >= lastAt[r],
           RingsAreRecent(filter), filter' = filter, filter \in FilterType
    PROVE  RingsAreRecent(filter)'
<1>1. ASSUME NEW r, NEW t \in Int, After(r, t) PROVE r \in Measurable /\ lastAt'[r] # Never /\ lastAt'[r] > t
    <2>1. r \in Measurable /\ lastAt[r] \in Nat /\ lastAt[r] > t
        BY <1>1 DEF After
    <2>2. lastAt'[r] \in Nat \cup {Never} /\ lastAt'[r] >= lastAt[r]
        BY <2>1
    <2> QED
        BY <2>1, <2>2
<1> DEFINE f == filter
           t == f.previous - kMaxFpsWindow
<1>2. t \in Int /\ Age(f) \in Int
    BY DEF FilterType, Age
<1>3. filter'.displayed = None /\ filter'.recentCount >= 2 =>
           After(filter.recent[Newest(filter.recentCursor)], filter.previous - kMaxFpsWindow)'
    BY <1>1, <1>2 DEF RingsAreRecent, After
<1>4. filter'.elevatedCount >= 1 =>
           After(filter.elevated[Newest(filter.elevatedCursor)], filter.previous - kMaxFpsWindow)'
    BY <1>1, <1>2 DEF RingsAreRecent, After
<1>5. filter'.displayed # None => Between(filter.displayed, Age(filter))'
    <2> SUFFICES ASSUME filter.displayed # None PROVE Between(filter.displayed, Age(filter))'
        OBVIOUS
    <2>1. PICK low \in Measurable, high \in Measurable :
              /\ low <= filter.displayed /\ filter.displayed <= high
              /\ After(low, Age(f)) /\ After(high, Age(f))
        BY DEF RingsAreRecent, Between
    <2>2. /\ lastAt'[low] # Never /\ lastAt'[low] > Age(f)
          /\ lastAt'[high] # Never /\ lastAt'[high] > Age(f)
        BY <1>1, <1>2, <2>1
    <2>3. Age(filter)' = Age(f)
        BY DEF Age
    <2> QED
        BY <2>1, <2>2, <2>3 DEF Between, After
<1> QED
    BY <1>3, <1>4, <1>5 DEF RingsAreRecent

\* Before the first iteration nothing is measured and nothing is shown.
LEMMA LoopStarts == LoopInit => LoopInv
<1> SUFFICES ASSUME LoopInit PROVE LoopInv
    OBVIOUS
<1>1. LoopType
    BY FreshKeeps DEF LoopInit, LoopType, Unmeasured
<1>2. ~ filter.haveEpoch /\ filter.displayed = None /\ HeldBriefly(filter)
    BY FreshKeeps DEF LoopInit
<1>3. LoopEpoch
    BY <1>2 DEF LoopInit, LoopEpoch
<1> QED
    BY <1>1, <1>2, <1>3 DEF LoopInv

\* One step per action of the loop.
LEMMA LoopStep == LoopInv /\ [LoopNext]_loopVars => LoopInv'
<1> SUFFICES ASSUME LoopInv, [LoopNext]_loopVars PROVE LoopInv'
    OBVIOUS
<1>0. LoopType /\ LoopEpoch /\ HeldBriefly(filter)
      /\ (filter.haveEpoch /\ filter.pid = stableGame => RingsAreRecent(filter))
    BY DEF LoopInv
<1>t. /\ filter \in FilterType /\ clock \in Nat /\ stableGame \in Nat
      /\ lastAt \in [Measurable -> Nat \cup {Never}] /\ \A r \in Measurable : lastAt[r] <= clock
      /\ filter.pid \in Int /\ filter.previous \in Nat
    BY <1>0 DEF LoopType, FilterType
<1>1. ASSUME NEW pid \in 0 .. MaxShellUi, ObserveShellUi(pid) PROVE LoopInv'
    <2>1. /\ pc = "shellui" /\ pc' = "game" /\ (filter' = filter \/ filter' = Fresh)
          /\ UNCHANGED <<clock, stableGame, gameCount, measured, source, lastAt>>
        BY <1>1 DEF ObserveShellUi
    <2>2. filter' \in FilterType /\ HeldBriefly(filter)'
        BY <1>0, <1>t, <2>1, FreshKeeps DEF HeldBriefly
    <2>3. LoopType'
        BY <1>0, <2>1, <2>2 DEF LoopType
    <2>4. CASE filter' = Fresh
        <3>1. ~ filter'.haveEpoch /\ filter'.displayed = None
            BY <2>4, FreshKeeps
        <3>2. LoopEpoch'
            BY <2>1, <3>1 DEF LoopEpoch
        <3> QED
            BY <2>2, <2>3, <3>1, <3>2 DEF LoopInv
    <2>5. CASE filter' = filter
        <3>1. LoopEpoch'
            BY <1>0, <2>1, <2>5 DEF LoopEpoch
        <3>2. filter.haveEpoch /\ filter.pid = stableGame => RingsAreRecent(filter)'
            BY <1>0, <2>1, <2>5 DEF RingsAreRecent, After, Between, Age
        <3> QED
            BY <2>1, <2>2, <2>3, <2>5, <3>1, <3>2 DEF LoopInv
    <2> QED
        BY <2>1, <2>4, <2>5
<1>2. ASSUME NEW pid \in 0 .. MaxGames, ObserveGame(pid) PROVE LoopInv'
    <2>1. /\ pc = "game" /\ pc' = "measure" /\ stableGame' = pid /\ pid \in Nat
          /\ UNCHANGED <<filter, clock, measured, source>>
        BY <1>2 DEF ObserveGame
    <2>2. \/ pid = stableGame /\ pid # 0 /\ lastAt' = lastAt
          \/ (pid = 0 \/ pid # stableGame) /\ lastAt' = Unmeasured
        BY <1>2 DEF ObserveGame
    <2>3. LoopType'
        <3>1. lastAt' \in [Measurable -> Nat \cup {Never}] /\ \A r \in Measurable : lastAt'[r] <= clock
            BY <1>t, <2>2 DEF Unmeasured
        <3> QED
            BY <1>0, <2>1, <3>1 DEF LoopType
    <2>4. LoopEpoch'
        BY <1>0, <2>1 DEF LoopEpoch
    <2>5. HeldBriefly(filter)'
        BY <1>0, <2>1 DEF HeldBriefly
    <2>6. ASSUME filter'.haveEpoch, filter'.pid = stableGame' PROVE RingsAreRecent(filter)'
        <3>1. filter.haveEpoch /\ filter.pid = stableGame /\ filter.pid > 0 /\ filter.pid = pid
            BY <1>0, <2>1, <2>6 DEF LoopEpoch
        <3>2. lastAt' = lastAt
            BY <1>t, <2>2, <3>1
        <3> QED
            BY <1>0, <2>1, <3>1, <3>2 DEF RingsAreRecent, After, Between, Age
    <2> QED
        BY <2>3, <2>4, <2>5, <2>6 DEF LoopInv
<1>3. ASSUME NEW rate \in Measurable \cup {None}, NEW from \in FpsDisplaySource,
             NEW duration \in Scanning, Measure(rate, from, duration)
      PROVE  LoopInv'
    <2>1. /\ pc' = "ensure" /\ measured' = rate /\ source' = from
          /\ clock' = clock + duration /\ duration \in Nat
          /\ lastAt' = [r \in Measurable |-> IF r = rate THEN clock ELSE lastAt[r]]
          /\ UNCHANGED <<filter, gates>>
        BY <1>3 DEF Measure
    <2>2. stableGame' = stableGame
        BY <2>1 DEF gates
    <2>3. clock' \in Nat /\ clock <= clock'
        BY <1>t, <2>1
    <2>4. /\ lastAt' \in [Measurable -> Nat \cup {Never}]
          /\ \A r \in Measurable : lastAt'[r] >= lastAt[r] /\ lastAt'[r] <= clock
        BY <1>t, <2>1
    <2>5. LoopType'
        <3>1. \A r \in Measurable : lastAt'[r] <= clock'
            BY <1>t, <2>3, <2>4
        <3> QED
            BY <1>0, <2>1, <2>2, <2>3, <2>4, <3>1 DEF LoopType
    <2>6. LoopEpoch'
        <3>1. rate # None => lastAt'[rate] = clock
            BY <2>1
        <3>2. filter.haveEpoch => filter.pid > 0 /\ filter.previous < clock /\ filter.previous < clock'
            BY <1>0, <1>t, <2>3 DEF LoopEpoch
        <3>3. rate # None => lastAt'[rate] # Never /\ (filter.haveEpoch => lastAt'[rate] > filter.previous)
            BY <1>t, <3>1, <3>2
        <3> QED
            BY <1>0, <2>1, <2>2, <3>2, <3>3 DEF LoopEpoch
    <2>7. HeldBriefly(filter)'
        BY <1>0, <2>1 DEF HeldBriefly
    <2>8. filter'.haveEpoch /\ filter'.pid = stableGame' => RingsAreRecent(filter)'
        BY <1>0, <1>t, <2>1, <2>2, <2>4, AfterStays
    <2> QED
        BY <2>5, <2>6, <2>7, <2>8 DEF LoopInv
<1>4. CASE SkipEnsure \/ \E answer \in BOOLEAN, duration \in Blocking : EnsureRenderer(answer, duration)
    <2>1. /\ pc = "ensure" /\ pc' = "send" /\ clock' \in Nat /\ clock <= clock'
          /\ UNCHANGED <<filter, gates, measured, source, lastAt>>
        BY <1>4, <1>t DEF SkipEnsure, EnsureRenderer
    <2>2. stableGame' = stableGame
        BY <2>1 DEF gates
    <2>3. LoopType'
        <3>1. \A r \in Measurable : lastAt'[r] <= clock'
            BY <1>t, <2>1
        <3> QED
            BY <1>0, <2>1, <2>2, <3>1 DEF LoopType
    <2>4. LoopEpoch'
        <3>1. filter.haveEpoch => filter.pid > 0 /\ filter.previous < clock'
            BY <1>0, <1>t, <2>1 DEF LoopEpoch
        <3> QED
            BY <1>0, <2>1, <2>2, <3>1 DEF LoopEpoch
    <2>5. HeldBriefly(filter)'
        BY <1>0, <2>1 DEF HeldBriefly
    <2>6. filter'.haveEpoch /\ filter'.pid = stableGame' => RingsAreRecent(filter)'
        BY <1>0, <2>1, <2>2 DEF RingsAreRecent, After, Between, Age
    <2> QED
        BY <2>3, <2>4, <2>5, <2>6 DEF LoopInv
<1>5. CASE Send
    <2>1. /\ pc = "send" /\ pc' = "shellui" /\ clock' = clock + 1 /\ measured' = None
          /\ source' = NoSource /\ UNCHANGED <<gates, lastAt>>
          /\ Sample(measured, clock, stableGame, source)
        BY <1>5 DEF Send
    <2>2. stableGame' = stableGame
        BY <2>1 DEF gates
    <2>3. /\ filter' \in FilterType /\ HeldBriefly(filter')
          /\ filter'.haveEpoch =>
                 /\ filter'.pid = stableGame /\ filter'.pid > 0
                 /\ filter'.previous = clock /\ RingsAreRecent(filter')
          /\ ~ filter'.haveEpoch => filter'.displayed = None
        BY <2>1, SampleKeeps
    <2>4. LoopType'
        <3>1. clock' \in Nat /\ clock <= clock'
            BY <1>t, <2>1
        <3>2. \A r \in Measurable : lastAt'[r] <= clock'
            <4> SUFFICES ASSUME NEW r \in Measurable PROVE lastAt[r] <= clock'
                BY <2>1
            <4>1. lastAt[r] \in Int /\ lastAt[r] <= clock
                BY <1>t
            <4> QED
                BY <1>t, <3>1, <4>1
        <3> QED
            BY <1>0, <2>1, <2>2, <2>3, <3>1, <3>2 DEF LoopType
    <2>5. LoopEpoch'
        <3>1. filter'.haveEpoch => filter'.previous < clock'
            BY <1>t, <2>1, <2>3
        <3> QED
            BY <2>1, <2>2, <2>3, <3>1 DEF LoopEpoch
    <2>6. HeldBriefly(filter)'
        BY <2>3 DEF HeldBriefly
    <2>7. filter'.haveEpoch => RingsAreRecent(filter)'
        BY <2>1, <2>3 DEF RingsAreRecent, After, Between, Age
    <2> QED
        BY <2>4, <2>5, <2>6, <2>7 DEF LoopInv
<1>6. CASE UNCHANGED loopVars
    <2>1. /\ UNCHANGED <<filter, clock, pc, measured, source, lastAt>> /\ stableGame' = stableGame
        BY <1>6 DEF loopVars, gates
    <2>2. LoopType' /\ LoopEpoch' /\ HeldBriefly(filter)'
        BY <1>0, <2>1 DEF LoopType, LoopEpoch, HeldBriefly
    <2>3. filter'.haveEpoch /\ filter'.pid = stableGame' => RingsAreRecent(filter)'
        BY <1>0, <2>1 DEF RingsAreRecent, After, Between, Age
    <2> QED
        BY <2>2, <2>3 DEF LoopInv
<1>7. Sources \subseteq FpsDisplaySource /\ NoSource \in FpsDisplaySource
    OBVIOUS
<1> QED
    BY <1>1, <1>2, <1>3, <1>4, <1>5, <1>6, <1>7 DEF LoopNext

(***************************************************************************)
(* However long the measurement and ensure_shellui_renderer take, whatever *)
(* games and ShellUI processes come and go: a number that run_tracked_     *)
(* worker sends lies between two rates measured of the game on screen      *)
(* within the last four windows of the filter.                             *)
(***************************************************************************)
THEOREM SentNumbersAreBacked == LoopSpec => SentIsBacked
<1>1. LoopInv /\ LoopNext =>
          (pc = "send" /\ online /\ frame' # None =>
              \E low, high \in {r \in Measurable : Backs(r)} : low <= frame' /\ frame' <= high)
    <2> SUFFICES ASSUME LoopInv, LoopNext, pc = "send", online, frame' # None
                 PROVE  \E low, high \in {r \in Measurable : Backs(r)} :
                            low <= frame' /\ frame' <= high
        OBVIOUS
    <2>0. LoopType /\ kMaxFpsWindow \in Nat /\ kRise \in Nat /\ kRise <= kMaxFpsWindow
        BY DEF LoopInv
    <2>1. CASE Send
        <3>1. /\ frame' = filter'.displayed /\ filter'.displayed # None
              /\ Sample(measured, clock, stableGame, source)
            BY <2>1 DEF Send
        <3>2. /\ filter' \in FilterType /\ HeldBriefly(filter') /\ filter'.haveEpoch
              /\ filter'.previous = clock /\ RingsAreRecent(filter')
            BY <3>1, SampleKeeps
        <3>3. Between(filter'.displayed, Age(filter'))
            BY <3>1, <3>2 DEF RingsAreRecent
        <3>4. /\ filter'.elevatedCount \in 0 .. kWindow /\ filter'.elevatedSince \in Nat
              /\ clock \in Nat /\ lastAt \in [Measurable -> Nat \cup {Never}]
            BY <2>0, <3>2 DEF FilterType, LoopType
        <3>5. filter'.elevatedCount # 0 => clock - filter'.elevatedSince <= kMaxFpsWindow
            BY <2>0, <3>2, <3>4 DEF HeldBriefly
        <3>6. Age(filter') \in Int /\ clock - 4 * kMaxFpsWindow \in Int
              /\ clock - 4 * kMaxFpsWindow <= Age(filter')
            <4>1. CASE filter'.elevatedCount = 0
                BY <2>0, <3>2, <3>4, <4>1 DEF Age
            <4>2. CASE filter'.elevatedCount # 0
                BY <2>0, <3>2, <3>4, <3>5, <4>2 DEF Age
            <4> QED
                BY <4>1, <4>2
        <3>7. Between(filter'.displayed, clock - 4 * kMaxFpsWindow)
            BY <3>3, <3>4, <3>6, OlderAfter
        <3>8. \A r : After(r, clock - 4 * kMaxFpsWindow) => r \in Measurable /\ Backs(r)
            <4> SUFFICES ASSUME NEW r, After(r, clock - 4 * kMaxFpsWindow)
                         PROVE  r \in Measurable /\ Backs(r)
                OBVIOUS
            <4>1. r \in Measurable /\ lastAt[r] \in Nat /\ lastAt[r] > clock - 4 * kMaxFpsWindow
                BY <3>4 DEF After
            <4>2. clock - lastAt[r] <= 4 * kMaxFpsWindow
                BY <2>0, <3>4, <4>1
            <4> QED
                BY <4>1, <4>2 DEF Backs
        <3> QED
            BY <3>1, <3>7, <3>8 DEF Between
    <2> QED
        BY <2>1 DEF LoopNext, ObserveShellUi, ObserveGame, Measure, EnsureRenderer, SkipEnsure
<1> QED
    BY <1>1, LoopStarts, LoopStep, PTL DEF LoopSpec, SentIsBacked
==============================================================================
