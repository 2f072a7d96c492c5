--------------------------- MODULE HookTransaction ---------------------------
(***************************************************************************)
(* One hook request as the controller carries it out                       *)
(* (poll_and_apply_shellui_hook, src/ps5/shellui_hook_controller.cpp, with *)
(* shellui_write_guard_byte, the debugger transfer and read_shellui_code): *)
(* validate, borrow the ptrace authority, stop ShellUI, compare, write,    *)
(* verify, roll back, resume, return the authority, answer.                *)
(*                                                                         *)
(* Every kernel call may fail.  A call that changes something and fails    *)
(* may have changed it nevertheless, a write that succeeds may have had no *)
(* or part of its effect (the code re-reads for that reason), a debugger   *)
(* transfer may leave the credentials it borrowed.  While ShellUI runs,    *)
(* another program may hook the same method.                               *)
(*                                                                         *)
(* The sixteen bytes of the method are one of: the native ones, another    *)
(* program's jump ("foreign", the eta chain), what the request wants       *)
(* ("ours"), or a mixture ("torn", only for writes of more than a byte).   *)
(***************************************************************************)
EXTENDS Naturals

CONSTANTS Families,   \* firmware families (sdk_version >> 16) considered
          MaxPolls    \* bound: requests taken

ASSUME TransactionConstants ==
    /\ Families \subseteq Nat
    /\ MaxPolls \in Nat

VARIABLES
    fw,                      \* the console's firmware family
    code, prot, stopped,     \* ShellUI: the method, its page, ptrace stop
    auth, caps,              \* the controller's credentials
    pc, polls, request, report,
    savedAuth,               \* original_auth
    savedProt, protRestored, \* ShellUiGuardWriteState
    attempt,                 \* which bytes are written: the patch or the rollback
    widened, writeOk,        \* protect_rc and rc of the write in progress
    \* Observation: the code and protection when ShellUI was stopped and when
    \* it was resumed, the credentials when the request was taken.
    codeBefore, codeLeft, protBefore, protLeft, authBefore, capsBefore

shellui == <<code, prot, stopped>>
credentials == <<auth, caps>>
guard == <<savedProt, protRestored>>
writing == <<attempt, widened, writeOk>>
stopObs == <<codeBefore, codeLeft, protBefore, protLeft>>
credObs == <<authBefore, capsBefore>>
vars == <<fw, shellui, credentials, pc, polls, request, report, savedAuth,
          guard, writing, stopObs, credObs>>

Bytes == {"native", "foreign", "ours", "torn"}
Kinds == {"probe", "guard", "patch"}
Flags == {"R", "W", "X"}
NoProt == {"unknown"}
Answers == {"done", "failed", "touched"}  \* of a call that changes something
Request == [kind : Kinds, expected : Bytes \ {"ours"}, ourPid : BOOLEAN, intact : BOOLEAN]
Statuses == {"InvalidRequest", "UnsupportedFirmware", "AuthFailure", "AttachFailure",
             "ExpectedBytesMismatch", "WriteFailure", "VerifyFailure",
             "DetachFailure", "AuthRestoreFailure", "Success"}
Report == [status : Statuses, matched : BOOLEAN, verified : BOOLEAN,
           restored : BOOLEAN, detached : BOOLEAN, authRestored : BOOLEAN]
UnsetReport == [status |-> "none", matched |-> FALSE, verified |-> FALSE,
                restored |-> FALSE, detached |-> FALSE, authRestored |-> FALSE]

FreshReport == [status |-> "InvalidRequest", matched |-> FALSE, verified |-> FALSE,
                restored |-> FALSE, detached |-> FALSE, authRestored |-> FALSE]
NoRequest == [kind |-> "probe", expected |-> "native", ourPid |-> FALSE, intact |-> FALSE]

------------------------------------------------------------------------------
(***************************************************************************)
(* Which backend serves a request.  Families are decimal: 256 is 1.00,     *)
(* 768 is 3.00, 2080 is 8.20, 2096 is 8.30, 2304 is 9.00, 2400 is 9.60,    *)
(* 4351 is 10.ff and 4448 is 11.60.                                        *)
(***************************************************************************)
FirmwareIsFw1160 == fw = 4448

ShellUiHookBackend(etaChain) ==
    CASE fw \in 768 .. 2080 -> "Mdbg"
      [] fw = 2400 /\ etaChain -> "PtraceIo"
      [] OTHER -> "Unsupported"

MainThreadGuardBackend ==
    CASE fw \in 256 .. 2080 \/ fw = 2304 -> "Mdbg"
      [] fw \in 2096 .. 4351 \ {2304, 2400} \/ fw = 4448 -> "PtraceIo"
      [] OTHER -> "Unsupported"

ProbeBackend ==
    CASE fw \in 256 .. 2080 \/ fw = 2304 -> "Mdbg"
      [] fw \in 2096 .. 4351 \ {2304} \/ fw = 4448 -> "PtraceIo"
      [] OTHER -> "Unsupported"

Backend(r) ==
    CASE r.kind = "probe" -> ProbeBackend
      [] r.kind = "guard" -> MainThreadGuardBackend
      [] OTHER -> ShellUiHookBackend(r.expected = "foreign")

\* Magic, version, checksum, nonce, addresses and the shape of the bytes are
\* "intact"; the process must be the one the renderer was injected into.
RequestIsValid(r) == r.ourPid /\ r.intact

RwxWrite == request.kind = "guard" /\ fw = 2304
WindowWrite == request.kind = "guard" /\ FirmwareIsFw1160
PlainWrite == ~ RwxWrite /\ ~ WindowWrite

Init ==
    /\ fw \in Families
    /\ code \in {"native", "foreign"}
    /\ prot \in {{"R", "X"}, {"X"}} /\ (fw = 2304 => prot = {"R", "X"})
    /\ stopped = FALSE
    /\ auth = "own" /\ caps = "own"
    /\ pc = "idle" /\ polls = 0
    /\ request = NoRequest /\ report = FreshReport
    /\ savedAuth = "own" /\ savedProt = NoProt /\ protRestored = FALSE
    /\ attempt = "patch" /\ widened = FALSE /\ writeOk = FALSE
    /\ codeBefore = code /\ codeLeft = code
    /\ protBefore = prot /\ protLeft = prot
    /\ authBefore = auth /\ capsBefore = caps

------------------------------------------------------------------------------
Poll(r) ==
    /\ pc = "idle" /\ polls < MaxPolls
    /\ polls' = polls + 1
    /\ request' = r
    /\ \/ /\ ~ RequestIsValid(r)
          /\ report' = FreshReport
          /\ UNCHANGED pc
       \/ /\ RequestIsValid(r) /\ Backend(r) = "Unsupported"
          /\ report' = [FreshReport EXCEPT !.status = "UnsupportedFirmware"]
          /\ UNCHANGED pc
       \/ /\ RequestIsValid(r) /\ Backend(r) # "Unsupported"
          /\ report' = FreshReport
          /\ pc' = "auth"
    /\ savedProt' = NoProt /\ protRestored' = FALSE
    /\ codeBefore' = code /\ codeLeft' = code
    /\ protBefore' = prot /\ protLeft' = prot
    /\ authBefore' = auth /\ capsBefore' = caps
    /\ UNCHANGED <<fw, shellui, credentials, savedAuth, writing>>

\* A call that fails ends the request at once: what it raised stays raised.
BorrowAuthority(a) ==
    /\ pc = "auth"
    /\ auth' = IF a = "failed" THEN auth ELSE "ptrace"
    /\ IF a = "done"
       THEN /\ savedAuth' = auth
            /\ pc' = "attach"
            /\ UNCHANGED report
       ELSE /\ report' = [report EXCEPT !.status = "AuthFailure"]
            /\ pc' = "idle"
            /\ UNCHANGED savedAuth
    /\ UNCHANGED <<fw, shellui, caps, polls, request, guard, writing, stopObs, credObs>>

Attach(ok) ==
    /\ pc = "attach"
    /\ IF ok
       THEN /\ stopped' = TRUE
            /\ codeBefore' = code /\ codeLeft' = code
            /\ protBefore' = prot /\ protLeft' = prot
            /\ pc' = "read"
            /\ UNCHANGED report
       ELSE /\ report' = [report EXCEPT !.status = "AttachFailure"]
            /\ pc' = "return"
            /\ UNCHANGED <<stopped, stopObs>>
    /\ UNCHANGED <<fw, code, prot, credentials, polls, request, savedAuth, guard,
                   writing, credObs>>

\* A debugger transfer borrows the core-dump authority and all capabilities;
\* what it cannot give back makes it fail, whatever was transferred.
TransferIgnoringLoss(ok) ==
    /\ auth' \in {auth, "coredump"} /\ caps' \in {caps, "all"}
    /\ ok => auth' = auth

Transfer(ok) ==
    /\ auth' \in {auth, "coredump"} /\ caps' \in {caps, "all"}
    /\ ok => auth' = auth /\ caps' = caps

\* On FW 11.60 a faulting ptrace read is repeated through the debugger.
ReadShellUiCode(ok) ==
    \/ UNCHANGED credentials
    \/ FirmwareIsFw1160 /\ Transfer(ok)

\* Where a write begins: inside a protection window, or at once.
WriteFrom == IF PlainWrite THEN "write" ELSE "open"

ReadExpected(ok) ==
    /\ pc = "read"
    /\ ReadShellUiCode(ok)
    /\ \/ /\ request.kind = "probe" /\ ok
          /\ report' = [report EXCEPT !.matched = TRUE, !.verified = TRUE, !.status = "Success"]
          /\ pc' = "detach"
          /\ UNCHANGED attempt
       \/ /\ request.kind # "probe" /\ ok /\ code = request.expected
          /\ report' = [report EXCEPT !.matched = TRUE]
          /\ attempt' = "patch"
          /\ pc' = WriteFrom
       \/ /\ ~ ok \/ (request.kind # "probe" /\ code # request.expected)
          /\ report' = [report EXCEPT !.status = "ExpectedBytesMismatch"]
          /\ pc' = "detach"
          /\ UNCHANGED attempt
    /\ UNCHANGED <<fw, shellui, polls, request, savedAuth, guard, widened, writeOk,
                   stopObs, credObs>>

------------------------------------------------------------------------------
\* After the write: the verification of the patch or of the rollback.
CheckAt == IF attempt = "patch" THEN "verify" ELSE "check"

\* The protection after a kernel_mprotect that was answered by a.
Protected(p, want, a) == IF a = "failed" THEN p ELSE want

\* FW 9.00: no look at the protection, RX is assumed.
OpenRwx(a) ==
    /\ pc = "open" /\ RwxWrite
    /\ prot' = Protected(prot, Flags, a)
    /\ widened' = (a = "done") /\ writeOk' = FALSE
    /\ pc' = IF a = "done" THEN "write" ELSE CheckAt
    /\ UNCHANGED <<fw, code, stopped, credentials, polls, request, report, savedAuth,
                   guard, attempt, stopObs, credObs>>

Saved == savedProt # NoProt

\* FW 11.60, first half: the protection could not be read.  A rollback puts
\* the saved one back first; the first attempt gives up.
OpenUnseen(a, seen) ==
    /\ pc = "open" /\ WindowWrite
    /\ IF Saved
       THEN /\ prot' = Protected(prot, savedProt, a)
            /\ protRestored' = (a = "done" /\ seen)
       ELSE /\ protRestored' = FALSE
            /\ UNCHANGED prot
    /\ widened' = FALSE /\ writeOk' = FALSE
    /\ pc' = IF protRestored' THEN "widen" ELSE CheckAt
    /\ UNCHANGED <<fw, code, stopped, credentials, polls, request, report, savedAuth,
                   savedProt, attempt, stopObs, credObs>>

Writable(p) == p \cup {"R", "W"}

\* The protection was read; it is saved the first time.
SaveEachTime == prot

ProtToRestore == IF Saved THEN savedProt ELSE prot

OpenSeen ==
    /\ pc = "open" /\ WindowWrite
    /\ protRestored' = FALSE
    /\ widened' = FALSE /\ writeOk' = FALSE
    /\ savedProt' = IF "X" \in prot THEN ProtToRestore ELSE savedProt
    /\ pc' = IF "X" \in prot /\ prot \in {savedProt', Writable(savedProt')}
             THEN "widen" ELSE CheckAt
    /\ UNCHANGED <<fw, shellui, credentials, polls, request, report, savedAuth,
                   attempt, stopObs, credObs>>

\* FW 11.60, second half: make the page writable and look again.
Widen(a, seen) ==
    /\ pc = "widen"
    /\ LET already == prot = Writable(savedProt)
           done == already \/ a = "done"
       IN  /\ prot' = IF already THEN prot ELSE Protected(prot, Writable(savedProt), a)
           /\ widened' = done
           /\ pc' = IF done /\ seen THEN "write" ELSE "close"
    /\ UNCHANGED <<fw, code, stopped, credentials, polls, request, report, savedAuth,
                   guard, attempt, writeOk, stopObs, credObs>>

Target == IF attempt = "patch" THEN "ours" ELSE request.expected

\* The copy itself, through ptrace or the debugger.  Its answer and its
\* effect are independent; only a patch writes more than one byte.
WriteBytes(ok, effect) ==
    /\ pc = "write"
    /\ code' = CASE effect = "all" -> Target
                 [] effect = "none" -> code
                 [] effect = "part" -> IF request.kind = "patch" THEN "torn" ELSE code
    /\ writeOk' = ok
    /\ \/ UNCHANGED credentials
       \/ WindowWrite /\ Transfer(ok)
    /\ pc' = IF PlainWrite THEN CheckAt ELSE "close"
    /\ UNCHANGED <<fw, prot, stopped, polls, request, report, savedAuth, guard,
                   attempt, widened, stopObs, credObs>>

CloseRwx(a) ==
    /\ pc = "close" /\ RwxWrite
    /\ prot' = Protected(prot, {"R", "X"}, a)
    /\ writeOk' = (writeOk /\ a = "done")
    /\ pc' = CheckAt
    /\ UNCHANGED <<fw, code, stopped, credentials, polls, request, report, savedAuth,
                   guard, attempt, widened, stopObs, credObs>>

\* A write whose protection was not put back counts as one that failed.
WriteCounts(closed) == writeOk

WindowWriteOk(closed) == writeOk /\ widened /\ closed

CloseWindow(a, seen) ==
    /\ pc = "close" /\ WindowWrite
    /\ prot' = Protected(prot, savedProt, a)
    /\ protRestored' = (a = "done" /\ seen)
    /\ writeOk' = WindowWriteOk(protRestored')
    /\ pc' = CheckAt
    /\ UNCHANGED <<fw, code, stopped, credentials, polls, request, report, savedAuth,
                   savedProt, attempt, widened, stopObs, credObs>>

------------------------------------------------------------------------------
\* Nothing to roll back: the bytes are the old ones, the protection too.
StillOriginal(ok) ==
    ok /\ code = request.expected /\ (WindowWrite => protRestored)

Verify(ok) ==
    /\ pc = "verify"
    /\ ReadShellUiCode(ok)
    /\ LET verified == ok /\ code = "ours" IN
       \/ /\ verified /\ writeOk
          /\ report' = [report EXCEPT !.verified = TRUE, !.status = "Success"]
          /\ pc' = "detach"
          /\ UNCHANGED attempt
       \/ /\ ~ (verified /\ writeOk)
          /\ report' = [report EXCEPT !.verified = verified,
                                      !.restored = StillOriginal(ok),
                                      !.status = IF writeOk THEN "VerifyFailure"
                                                            ELSE "WriteFailure"]
          /\ attempt' = "rollback"
          /\ pc' = IF StillOriginal(ok) THEN "detach" ELSE WriteFrom
    /\ UNCHANGED <<fw, shellui, polls, request, savedAuth, guard, widened, writeOk,
                   stopObs, credObs>>

RollbackByAnswer(ok) == writeOk

RolledBack(ok) == writeOk /\ ok /\ code = request.expected

CheckRollback(ok) ==
    /\ pc = "check"
    /\ IF writeOk THEN ReadShellUiCode(ok) ELSE ~ ok /\ UNCHANGED credentials
    /\ report' = [report EXCEPT !.restored = RolledBack(ok)]
    /\ pc' = "detach"
    /\ UNCHANGED <<fw, shellui, polls, request, savedAuth, guard, writing,
                   stopObs, credObs>>

PatchApplied == request.kind # "probe" /\ report.status \in {"Success", "DetachFailure"}

\* A failed detach is followed by SIGCONT, which may resume ShellUI.
Detach(ok, resumed) ==
    /\ pc = "detach"
    /\ ok => resumed
    /\ stopped' = ~ resumed
    /\ codeLeft' = code /\ protLeft' = prot
    /\ report' = [report EXCEPT !.detached = ok,
                     !.status = IF ~ ok /\ PatchApplied THEN "DetachFailure" ELSE @]
    /\ pc' = "return"
    /\ UNCHANGED <<fw, code, prot, credentials, polls, request, savedAuth, guard,
                   writing, codeBefore, protBefore, credObs>>

\* The authority is written back and read again; then the answer is written.
ReturnAuthority(a) ==
    /\ pc = "return"
    /\ auth' = IF a = "failed" THEN auth ELSE savedAuth
    /\ report' = [report EXCEPT !.authRestored = (a = "done"),
                     !.status = IF a # "done" /\ PatchApplied THEN "AuthRestoreFailure" ELSE @]
    /\ pc' = "idle"
    /\ UNCHANGED <<fw, shellui, caps, polls, request, savedAuth, guard, writing,
                   stopObs, credObs>>

\* Another program (etaHEN) hooks the running ShellUI.
ForeignHook ==
    /\ ~ stopped
    /\ code \in {"native", "ours"}
    /\ code' = "foreign"
    /\ UNCHANGED <<fw, prot, stopped, credentials, pc, polls, request, report, savedAuth,
                   guard, writing, stopObs, credObs>>

Next ==
    \/ \E r \in Request : Poll(r)
    \/ \E ok \in BOOLEAN : \/ Attach(ok) \/ ReadExpected(ok)
                           \/ Verify(ok) \/ CheckRollback(ok)
                           \/ \E effect \in {"all", "none", "part"} : WriteBytes(ok, effect)
                           \/ \E resumed \in BOOLEAN : Detach(ok, resumed)
    \/ \E a \in Answers : \/ BorrowAuthority(a) \/ OpenRwx(a) \/ CloseRwx(a) \/ ReturnAuthority(a)
                          \/ \E seen \in BOOLEAN : OpenUnseen(a, seen) \/ Widen(a, seen)
                                                   \/ CloseWindow(a, seen)
    \/ OpenSeen
    \/ ForeignHook

Spec == Init /\ [][Next]_vars

------------------------------------------------------------------------------
Stages == {"idle", "auth", "attach", "read", "open", "widen", "write", "close",
           "verify", "check", "detach", "return"}

\* Every variable has its type (state of poll_and_apply_shellui_hook and of
\* ShellUiGuardWriteState).
TypeOK ==
    /\ fw \in Families
    /\ code \in Bytes /\ prot \in SUBSET Flags /\ stopped \in BOOLEAN
    /\ auth \in {"own", "ptrace", "coredump"} /\ caps \in {"own", "all"}
    /\ pc \in Stages /\ polls \in 0 .. MaxPolls
    /\ request \in Request /\ report \in Report
    /\ savedAuth \in {"own", "ptrace", "coredump"}
    /\ savedProt \in (SUBSET Flags) \cup {NoProt} /\ protRestored \in BOOLEAN
    /\ attempt \in {"patch", "rollback"} /\ widened \in BOOLEAN /\ writeOk \in BOOLEAN
    /\ codeBefore \in Bytes /\ codeLeft \in Bytes
    /\ protBefore \in SUBSET Flags /\ protLeft \in SUBSET Flags
    /\ authBefore \in {"own", "ptrace", "coredump"} /\ capsBefore \in {"own", "all"}

\* What the renderer accepts of an acknowledgement.
Accepted ==
    /\ report.status = "Success"
    /\ report.verified /\ report.detached /\ report.authRestored

\* An answer that the renderer accepts for a patch or a guard leaves nothing
\* behind: ShellUI runs again with the page protection it had (RX on FW 9.00)
\* and the controller has its authority back; no failure of a window, a
\* detach or a credential call on the way is hidden by a later success.
AcceptedIsClean ==
    pc = "idle" /\ Accepted /\ request.kind # "probe" =>
        /\ protLeft = IF RwxWrite THEN {"R", "X"} ELSE protBefore
        /\ ~ stopped
        /\ auth = authBefore

\* An answer that says the old bytes are in place (restored, or never written)
\* also means that the page protection is the old one, even if a window had
\* to be closed by the rollback; except on FW 9.00, whose write never reads
\* the protection.
RestoredIsClean ==
    /\ pc = "idle" /\ ~ RwxWrite
    /\ report.status # "Success" /\ (report.restored \/ ~ report.matched)
    => protLeft = protBefore

\* Credentials that a transaction loses show in its answer: capabilities that
\* stay raised in a status that is not Success, an authority that is not
\* given back in auth_restored.
LossIsReported ==
    pc = "idle" =>
        /\ caps # capsBefore => report.status # "Success"
        /\ auth # authBefore => ~ report.authRestored

\* What every answer of poll_and_apply_shellui_hook tells the renderer is so:
\* an accepted patch left nothing behind, a patch that is said not to be there
\* is undone with its page, and lost credentials show in the answer.
TransactionInv == TypeOK /\ AcceptedIsClean /\ RestoredIsClean /\ LossIsReported

------------------------------------------------------------------------------
(***************************************************************************)
(* Refinement of the promise.                                              *)
(***************************************************************************)
Phase ==
    CASE pc = "idle" -> "rest"
      [] pc \in {"auth", "attach"} -> "taken"
      [] pc = "return" -> IF report.status = "AttachFailure" THEN "taken" ELSE "resumed"
      [] OTHER -> "stopped"

Verdict ==
    IF pc # "idle" \/ polls = 0 THEN "none"
    ELSE IF request.kind # "probe" /\ Accepted THEN "accepted"
    ELSE IF request.kind = "probe" \/ report.restored \/ ~ report.matched THEN "unchanged"
    ELSE "unknown"

Promise == INSTANCE HookPatch WITH
    Wanted <- "ours",
    Others <- {"foreign"},
    visible <- IF Phase = "stopped" THEN codeBefore ELSE code,
    before <- codeBefore,
    left <- codeLeft,
    expected <- request.expected,
    phase <- Phase,
    verdict <- Verdict

\* The transaction implements HookPatch: whatever fails, ShellUI never
\* executes an intermediate content, bytes other than the expected ones are
\* never replaced, and the answer is true of what ShellUI resumed with.
ImplementsPromise == Promise!Spec
=============================================================================
