----------------------------- MODULE FilterStream -----------------------------
(***************************************************************************)
(* The display filter driven by an arbitrary stream of calls: any game     *)
(* process, any source, any measured value (absent and out of range ones   *)
(* too) and a clock that stands still, advances, jumps past the epoch      *)
(* window or steps back.  Observation variables record what the filter was *)
(* given and showed, independently of its own bookkeeping:                 *)
(*   feed      the process and source of the last call;                    *)
(*   seen      the last three samples, one per timestamp, since the feed   *)
(*             last changed or was interrupted, None before the third;     *)
(*   stream    all samples since then;                                     *)
(*   before    what was displayed one sample earlier;                      *)
(*   agreedAt  when a sample last equalled what was displayed after it,    *)
(*             or nothing was displayed.                                   *)
(***************************************************************************)
EXTENDS DisplayFilter

CONSTANTS Feeds,     \* the pairs of process id and source handed in
          Inputs,    \* measured values handed in
          Gaps,      \* clock advances between two calls
          MaxTime    \* bound of the clock

ASSUME StreamConstants ==
    /\ Feeds \subseteq Int \X FpsDisplaySource
    /\ Inputs \subseteq Int
    /\ Gaps \subseteq Int
    /\ MaxTime \in Nat

VARIABLES now, feed, seen, stream, before, agreedAt

history == <<feed, seen, stream, before, agreedAt>>
vars == <<filter, now, history>>

NoFeed == <<NoPid, NoSource>>
Unseen == <<None, None, None>>

Init ==
    /\ filter = Fresh
    /\ now = 0
    /\ feed = NoFeed
    /\ seen = Unseen
    /\ stream = {}
    /\ before = None
    /\ agreedAt = 0

Forget ==
    /\ feed' = NoFeed /\ seen' = Unseen /\ stream' = {}
    /\ before' = None /\ agreedAt' = now'

Agree(measured) ==
    agreedAt' = IF filter'.displayed \in {None, measured} THEN now' ELSE agreedAt

Observe(measured, pid, source) ==
    \/ /\ ~ Displayable(measured, pid, source)
       /\ Forget
    \/ /\ Displayable(measured, pid, source)
       /\ feed # <<pid, source>>
       /\ feed' = <<pid, source>>
       /\ seen' = <<None, None, measured>>
       /\ stream' = {measured}
       /\ before' = None
       /\ Agree(measured)
    \/ /\ Displayable(measured, pid, source)
       /\ feed = <<pid, source>> /\ now' = now
       /\ UNCHANGED history
    \/ /\ Displayable(measured, pid, source)
       /\ feed = <<pid, source>> /\ now' # now
       /\ feed' = feed
       /\ seen' = <<seen[2], seen[3], measured>>
       /\ stream' = stream \cup {measured}
       /\ before' = filter.displayed
       /\ Agree(measured)

Call(measured, gap, pid, source) ==
    /\ now + gap \in 0 .. MaxTime
    /\ now' = now + gap
    /\ Sample(measured, now + gap, pid, source)
    /\ Observe(measured, pid, source)

\* The controller resets the filter when the ShellUI process changes.
ShellUiChanged ==
    /\ Reset
    /\ now' = now
    /\ Forget

Next ==
    \/ \E measured \in Inputs, gap \in Gaps, from \in Feeds :
           Call(measured, gap, from[1], from[2])
    \/ ShellUiChanged

Spec == Init /\ [][Next]_vars

Shown == Rates \cup {None}

TypeOK ==
    /\ filter \in FilterType
    /\ now \in 0 .. MaxTime
    /\ feed \in Int \X FpsDisplaySource
    /\ seen \in Shown \X Shown \X Shown
    /\ stream \subseteq Rates
    /\ before \in Shown
    /\ agreedAt \in 0 .. MaxTime

------------------------------------------------------------------------------
(***************************************************************************)
(* Nothing is displayed before an epoch of the current feed has lasted     *)
(* kStartup and has delivered three samples (lines 35-44).                 *)
(***************************************************************************)
SettledBeforeShown ==
    filter.displayed # None =>
        /\ filter.previous - filter.started >= kStartup
        /\ seen[1] # None

(***************************************************************************)
(* A displayed number was measured for the process and by the source that  *)
(* feed the filter now: a change of game or of counter can not leave a     *)
(* number of the old one on screen (lines 18-29).                          *)
(***************************************************************************)
ShownFromCurrentFeed ==
    filter.displayed # None => filter.displayed \in stream

(***************************************************************************)
(* While a jump is held the number on screen is at most kMaxFpsWindow      *)
(* older than the first sample that contradicted it: a genuine rise is     *)
(* not suppressed for ever (lines 50-62).                                  *)
(***************************************************************************)
HoldBounded ==
    filter.elevatedCount > 0 =>
        filter.previous - filter.elevatedSince <= kMaxFpsWindow

(***************************************************************************)
(* A displayed number rises past the threshold of everything accepted      *)
(* lately only when the last three samples all lie above it and the last   *)
(* sample the screen agreed with is more than kRise old: one spike or two, *)
(* or a burst of samples, never reach the screen (lines 48-62).            *)
(***************************************************************************)
RiseConfirmed ==
    [][ (/\ filter.displayed # None
         /\ filter'.displayed > UpwardThreshold(Reference(filter.accepted))) =>
            /\ \A i \in 1 .. 3 : seen'[i] > UpwardThreshold(Reference(filter.accepted))
            /\ now' - agreedAt > kRise ]_vars

(***************************************************************************)
(* "A one-sample drop remains visible. Retaining the last three accepted   *)
(* values lets recovery from that drop appear immediately as well" (lines  *)
(* 46-47): a sample no higher than one of the last two displayed numbers   *)
(* is displayed at once.                                                   *)
(***************************************************************************)
DropAndRecoveryAtOnce ==
    [][ (/\ filter.displayed # None /\ filter'.displayed # None
         /\ filter'.previous # filter.previous
         /\ seen'[3] <= filter.displayed \/ seen'[3] <= before) =>
            filter'.displayed = seen'[3] ]_vars
==============================================================================
