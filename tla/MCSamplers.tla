------------------------------ MODULE MCSamplers ------------------------------
(***************************************************************************)
(* The two sources of the frame rate and the reads they rest on: the       *)
(* fallback through the display device (DceSampler), the search for the    *)
(* VideoOut counter and the rates taken from it (VideoOutSampler), and the *)
(* direct-map reader of firmware 9.60 (PageWalk).  They share no state     *)
(* (which of them is asked is the subject of SourcePolicy): a behaviour is *)
(* one of a single part, while the others rest in an initial state.        *)
(***************************************************************************)
EXTENDS DceSampler, VideoOutSampler, PageWalk

VARIABLE part

(***************************************************************************)
(* Page tables of two entries per level.  The frames are multiples of      *)
(* their page size in another order than the pages they back, so that      *)
(* neighbouring pages never lie next to each other in memory; no frame is  *)
(* at address 0.  The second half of the address space is one large page   *)
(* or nothing.                                                             *)
(***************************************************************************)
NoEntry == [kind |-> "absent"]
PageAt(frame) == [kind |-> "page", frame |-> frame]
TableOf(table) == [kind |-> "table", table |-> table]

\* Two small pages in reverse order at "at", each of them present or not.
SmallTables(at) ==
    {[i \in {0, 1} |-> IF i \in present THEN PageAt(at + Page * (3 - 2 * i)) ELSE NoEntry] :
        present \in SUBSET {0, 1}}

Directories(at) ==
    {<<low, high>> : low \in {NoEntry, PageAt(at + 4 * Page)} \cup {TableOf(t) : t \in SmallTables(at)},
                     high \in {NoEntry, PageAt(at + 2 * Page2M + 2 * Page1G)}
                                 \cup {TableOf(t) : t \in SmallTables(at + 8 * Page)}}

Halves == {NoEntry, PageAt(8 * Page1G)}
             \cup {TableOf([i \in {0, 1} |-> d[i + 1]]) : d \in Directories(16 * Page1G)}

MCTrees ==
    {[i \in {0, 1} |-> IF i = 0 THEN TableOf([j \in {0, 1} |-> IF j = 0 THEN low ELSE high])
                       ELSE top] :
        low \in Halves, high \in {NoEntry, PageAt(4 * Page1G)},
        top \in {NoEntry, TableOf([j \in {0, 1} |-> PageAt((2 - j) * Page1G)])}}

------------------------------------------------------------------------------
Parts == {"device", "search", "reading", "walk"}

\* The search: every cell just below the wrap, no samples after it.
NearWrap == [c \in Cells |-> 1020]
SearchInit == VideoOutInit /\ memory = NearWrap
SearchNext ==
    /\ VideoOutNext
    /\ stage = "attached" => stage' = "idle"
    /\ stage' = "idle" => memory' = NearWrap

\* The samples: one counter, which the table of the firmware leads to, from 0 or
\* from a value that wraps soon.
OneCounter == {[NearWrap EXCEPT !["a"] = v] : v \in {0, 900}}
ReadingInit == VideoOutInit /\ memory \in OneCounter
ReadingNext ==
    /\ VideoOutNext
    /\ stage' \in {"idle", "attached"} /\ voCounter' \in {NoCell, "a"}
    /\ stage' = "idle" => memory' \in OneCounter

SuiteInit ==
    /\ part \in Parts
    /\ Init
    /\ IF part = "reading" THEN ReadingInit ELSE SearchInit
    /\ IF part = "walk" THEN WalkInit
       ELSE /\ tree = [i \in {0, 1} |-> NoEntry] /\ address = 1 /\ size = 1
            /\ remote = 1 /\ remaining = 1
            /\ output = <<>> /\ result = "running" /\ refused = FALSE

\* A read is a single call.
Over == part = "walk" /\ result # "running" /\ UNCHANGED <<part, vars, videoOut, walk>>

SuiteNext ==
    \/ part = "device" /\ Next /\ UNCHANGED <<part, videoOut, walk>>
    \/ part = "search" /\ SearchNext /\ UNCHANGED <<part, vars, walk>>
    \/ part = "reading" /\ ReadingNext /\ UNCHANGED <<part, vars, walk>>
    \/ part = "walk" /\ WalkNext /\ UNCHANGED <<part, vars, videoOut>>
    \/ Over

\* The controller samples once a second.
SuiteSpec ==
    /\ SuiteInit /\ [][SuiteNext]_<<part, vars, videoOut, walk>>
    /\ WF_vars(part = "device" /\ Next)
==============================================================================
