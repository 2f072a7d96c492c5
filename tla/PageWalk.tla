------------------------------- MODULE PageWalk -------------------------------
(***************************************************************************)
(* The direct-map reader of firmware 9.60                                  *)
(* (src/ps5/stable_sampler/proc_rw_v960.cpp): translate walks the four     *)
(* levels of the game's page tables with their three page sizes, proc_read *)
(* copies a range chunk by chunk, each chunk up to the end of its page.    *)
(*                                                                         *)
(* The index of a level has one bit here (nine in the code) and the        *)
(* smallest page Page addresses (4096): what matters is which bits of the  *)
(* address come from the frame and which from the request at each size.    *)
(* The tables below an entry are the nested functions of its "table"; an   *)
(* entry is absent, a table or a page with its frame.  The memory at a     *)
(* physical address is the address itself, so that what was read says      *)
(* where it was read.                                                      *)
(***************************************************************************)
EXTENDS Naturals, Sequences

CONSTANTS Page,       \* size of the smallest page
          Trees,      \* page tables of the game: functions on {0, 1}
          MaxSize     \* bound: bytes of a request

VARIABLES
    tree, address, size,  \* the game's tables and the request, fixed
    remote, remaining,    \* of proc_read's loop
    output, result,       \* what was copied; "running", "ok", "failed"
    refused               \* a read of kernel memory failed

walk == <<tree, address, size, remote, remaining, output, result, refused>>

\* kPage4K, kPage2M and kPage1G; the span of the whole tree.
Page2M == 2 * Page
Page1G == 2 * Page2M
Space == 4 * Page1G

\* The tables of a process: a page lies at a multiple of its size, never at 0.
IsPage(entry, span) ==
    entry.kind = "page" /\ entry.frame \in Nat \ {0} /\ entry.frame % span = 0
IsAbsent(entry) == entry.kind = "absent"
IsPt(table) == \A i \in {0, 1} : IsAbsent(table[i]) \/ IsPage(table[i], Page)
IsPd(table) == \A i \in {0, 1} :
    \/ IsAbsent(table[i]) \/ IsPage(table[i], Page2M)
    \/ table[i].kind = "table" /\ IsPt(table[i].table)
IsPdpt(table) == \A i \in {0, 1} :
    \/ IsAbsent(table[i]) \/ IsPage(table[i], Page1G)
    \/ table[i].kind = "table" /\ IsPd(table[i].table)
IsPml4(table) == \A i \in {0, 1} :
    IsAbsent(table[i]) \/ (table[i].kind = "table" /\ IsPdpt(table[i].table))

ASSUME WalkConstants ==
    /\ Page \in Nat \ {0} /\ MaxSize \in Nat
    /\ \A t \in Trees : IsPml4(t)

Failed == [physical |-> 0, size |-> 0]

Index(a, span) == (a \div span) % 2

\* A page: the frame with the low bits cleared, and those bits of the address.
FrameMasked4K(entry, span, a) ==
    [physical |-> entry.frame - (entry.frame % Page) + (a % Page), size |-> span]
Frame(entry, span, a) ==
    [physical |-> entry.frame - (entry.frame % span) + (a % span), size |-> span]

TranslateSmallOnly(a) ==
    LET pdpte == tree[Index(a, 2 * Page1G)].table[Index(a, Page1G)]
        pde == pdpte.table[Index(a, Page2M)]
        pte == pde.table[Index(a, Page)]
    IN  IF tree[Index(a, 2 * Page1G)].kind = "absent" \/ pdpte.kind # "table" THEN Failed
        ELSE IF pde.kind # "table" \/ pte.kind = "absent" THEN Failed
        ELSE Frame(pte, Page, a)

\* translate: a level that is not present ends it; a large page ends it early.
Translate(a) ==
    LET pml4e == tree[Index(a, 2 * Page1G)]
        pdpte == pml4e.table[Index(a, Page1G)]
        pde == pdpte.table[Index(a, Page2M)]
        pte == pde.table[Index(a, Page)]
    IN  IF pml4e.kind = "absent" \/ pdpte.kind = "absent" THEN Failed
        ELSE IF pdpte.kind = "page" THEN Frame(pdpte, Page1G, a)
        ELSE IF pde.kind = "absent" THEN Failed
        ELSE IF pde.kind = "page" THEN Frame(pde, Page2M, a)
        ELSE IF pte.kind = "absent" THEN Failed
        ELSE Frame(pte, Page, a)

Shorter(m, n) == IF m < n THEN m ELSE n

Chunk(page) == Shorter(remaining, page.size - (remote % page.size))

WalkInit ==
    /\ tree \in Trees
    /\ address \in 1 .. Space - 1 /\ size \in 1 .. MaxSize
    /\ address + size <= Space
    /\ remote = address /\ remaining = size
    /\ output = <<>> /\ result = "running" /\ refused = FALSE

\* One turn of proc_read's loop: translate, then kernel_copyout of the chunk.
CopyChunk ==
    /\ result = "running"
    /\ LET page == Translate(remote)
           n == Chunk(page)
       IN  /\ page.physical # 0 /\ page.size # 0
           /\ output' = output \o [i \in 1 .. n |-> page.physical + i - 1]
           /\ remote' = remote + n
           /\ remaining' = remaining - n
           /\ result' = IF remaining = n THEN "ok" ELSE "running"
    /\ UNCHANGED <<tree, address, size, refused>>

NotMapped == Translate(remote).physical = 0

GiveUp ==
    /\ result = "running"
    /\ NotMapped
    /\ result' = "failed"
    /\ UNCHANGED <<tree, address, size, remote, remaining, output, refused>>

\* The process is not found, or one of the reads of the walk or the copy fails.
KernelRefuses ==
    /\ result = "running"
    /\ result' = "failed" /\ refused' = TRUE
    /\ UNCHANGED <<tree, address, size, remote, remaining, output>>

WalkNext == CopyChunk \/ GiveUp \/ KernelRefuses

WalkSpec == WalkInit /\ [][WalkNext]_walk

------------------------------------------------------------------------------
(***************************************************************************)
(* The reference: the pages of the tree with the range each one maps.      *)
(***************************************************************************)
PagesIn(tables, span) ==
    UNION {{[from |-> t.from + i * span, span |-> span, frame |-> t.table[i].frame] :
                i \in {j \in {0, 1} : t.table[j].kind = "page"}} : t \in tables}

TablesIn(tables, span) ==
    UNION {{[table |-> t.table[i].table, from |-> t.from + i * span] :
                i \in {j \in {0, 1} : t.table[j].kind = "table"}} : t \in tables}

Pages ==
    LET pdpts == TablesIn({[table |-> tree, from |-> 0]}, 2 * Page1G)
        pds == TablesIn(pdpts, Page1G)
        pts == TablesIn(pds, Page2M)
    IN  PagesIn(pdpts, Page1G) \cup PagesIn(pds, Page2M) \cup PagesIn(pts, Page)

Maps(p, a) == p.from <= a /\ a < p.from + p.span

(***************************************************************************)
(* What proc_read has copied is, byte for byte, the memory the game's      *)
(* pages map to the requested addresses, across the boundaries of pages of *)
(* different sizes, and it never copies more than was asked for.           *)
(***************************************************************************)
ReadIsExact ==
    /\ Len(output) <= size
    /\ \A i \in 1 .. Len(output) : \E p \in Pages :
           Maps(p, address + i - 1) /\ output[i] = p.frame + (address + i - 1 - p.from)
    /\ result = "ok" => Len(output) = size

(***************************************************************************)
(* As long as the kernel can be read, proc_read fails only for a range     *)
(* with an address that no page maps, and it never succeeds for such a     *)
(* range.                                                                  *)
(***************************************************************************)
FailsForHole ==
    LET hole == \E a \in address .. address + size - 1 : \A p \in Pages : ~ Maps(p, a)
    IN  /\ result = "failed" => hole \/ refused
        /\ result = "ok" => ~ hole

(***************************************************************************)
(* proc_read delivers exactly what is mapped: the right bytes where every  *)
(* address has a page, a failure where one has none.                       *)
(***************************************************************************)
ReadInv == ReadIsExact /\ FailsForHole
==============================================================================
