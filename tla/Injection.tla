------------------------------ MODULE Injection ------------------------------
(***************************************************************************)
(* One bootstrap of the renderer into ShellUI, step by step:               *)
(* inject_shellui_stable (src/ps5/stable_shellui_injector.cpp), the loader *)
(* it calls (stable_elfldr_bridge.c) and the remote call that runs the     *)
(* stager on a borrowed ShellUI thread (remote_call.cpp), up to the        *)
(* decision whether the attempt may be repeated (shellui_injector.cpp).    *)
(*                                                                         *)
(* ShellUI is the second actor: it runs while the loader builds its local  *)
(* mirror, it may be stopped by a signal other than the one sent, and the  *)
(* stager runs as long as nothing stops it.  Every system call may fail.   *)
(* A ptrace request to a process that is not stopped fails.                *)
(***************************************************************************)
EXTENDS Naturals, FiniteSets

CONSTANTS MaxAttempts,  \* bound: calls of inject_shellui_stable
          MaxFaults     \* bound: failed system calls and stray signals

ASSUME InjectionConstants == MaxAttempts \in Nat \ {0} /\ MaxFaults \in Nat

VARIABLES
    pc, attempt, faults,
    auth, saved,          \* the controller's authority, original_auth
    error,                \* the loader's error
    continued, halted,    \* g_trace_continued, g_trace_stopped
    image,                \* of each attempt, what is done to it in ShellUI
    rc,                   \* pthread_create_rc in ShellUI's memory
    run, traced,          \* ShellUI: running, stopped or dead; under ptrace
    pending,              \* a SIGSTOP that has been sent but not delivered
    regs, stage,          \* the attempt whose stager it runs; how far that is
    threads,              \* attempts whose renderer thread exists
    report                \* StableInjectionResult

loader == <<error, continued, halted, image>>
shell == <<run, traced, pending, regs, stage, threads, rc>>
vars == <<pc, attempt, faults, auth, saved, loader, shell, report>>

Attempts == 1..MaxAttempts
Parts == {"mapped", "relocated", "copied", "protected"}
FreshReport == [attached |-> FALSE, elf_loaded |-> FALSE, created |-> FALSE,
                detached |-> FALSE, auth_restored |-> FALSE]
Report == [attached : BOOLEAN, elf_loaded : BOOLEAN, created : BOOLEAN,
           detached : BOOLEAN, auth_restored : BOOLEAN]
Own == 0                \* ShellUI's own registers
NoRc == "-777"
Codes == {NoRc, "0", "error"}

Init ==
    /\ pc = "idle" /\ attempt = 1 /\ faults = 0
    /\ auth = "own" /\ saved = "own"
    /\ error = FALSE /\ continued = FALSE /\ halted = FALSE
    /\ image = [a \in Attempts |-> {}]
    /\ rc = NoRc
    /\ run = "running" /\ traced = FALSE /\ pending = FALSE
    /\ regs = Own /\ stage = "none"
    /\ threads = {}
    /\ report = FreshReport

\* A system call: it succeeds, or one of the bounded faults is spent.
Call(ok) ==
    /\ ~ ok => faults < MaxFaults
    /\ faults' = IF ok THEN faults ELSE faults + 1

\* A ptrace request also needs a stopped process.
Request(ok) == (ok => run = "stopped") /\ IF run = "stopped" THEN Call(ok)
                                          ELSE UNCHANGED faults

Goto(next) == pc' = next

------------------------------------------------------------------------------
(***************************************************************************)
(* Authority, attachment, resolution of pthread_create.                    *)
(***************************************************************************)
RaiseAuthority ==
    /\ pc = "idle"
    /\ \E ok \in BOOLEAN :
          /\ Call(ok)
          /\ saved' = auth
          /\ auth' = IF ok THEN "ptrace" ELSE auth
          /\ Goto(IF ok THEN "attach" ELSE "judge")
    /\ report' = FreshReport
    /\ UNCHANGED <<attempt, loader, shell>>

Attach ==
    /\ pc = "attach"
    /\ \E ok \in BOOLEAN :
          /\ ok => ~ traced
          /\ IF traced THEN UNCHANGED faults ELSE Call(ok)
          /\ report' = [report EXCEPT !.attached = ok]
          /\ traced' = (ok \/ traced)
          /\ run' = IF ok THEN "stopped" ELSE run
          /\ Goto(IF ok THEN "resolve" ELSE "restore")
    /\ UNCHANGED <<attempt, auth, saved, loader, pending, regs, stage,
                   threads, rc>>

\* pt_resolve, then the checks of the header and of the program segments
\* (commonfps_validate_shared_renderer), which reset the loader's state.
ResolveAndValidate ==
    /\ pc = "resolve"
    /\ \E ok \in BOOLEAN : Request(ok) /\ Goto(IF ok THEN "map" ELSE "detach")
    /\ error' = FALSE /\ continued' = FALSE /\ halted' = FALSE
    /\ UNCHANGED <<attempt, auth, saved, image, shell, report>>

------------------------------------------------------------------------------
(***************************************************************************)
(* commonfps_stable_elfldr_load.                                           *)
(***************************************************************************)
Add(part) == image' = [image EXCEPT ![attempt] = @ \cup {part}]

MapImage ==
    /\ pc = "map"
    /\ \E ok \in BOOLEAN :
          /\ Request(ok)
          /\ IF ok THEN Add("mapped") ELSE UNCHANGED image
          /\ Goto(IF ok THEN "continue" ELSE "detach")
    /\ UNCHANGED <<attempt, auth, saved, error, continued, halted, shell, report>>

TraceContinue ==
    /\ pc = "continue"
    /\ \E ok \in BOOLEAN :
          /\ Request(ok)
          /\ run' = IF ok THEN "running" ELSE run
          /\ continued' = ok
          /\ error' = ~ ok
    /\ Goto("mirror")
    /\ UNCHANGED <<attempt, auth, saved, halted, image, traced, pending, regs,
                   stage, threads, rc, report>>

\* The local mirror is filled and relocated while ShellUI runs.  An import
\* that no library of ShellUI exports ends it with an error.
ApplyRelocations ==
    /\ pc = "mirror"
    /\ \E ok \in BOOLEAN :
          /\ ok => ~ error
          /\ IF error THEN UNCHANGED faults ELSE Call(ok)
          /\ error' = ~ ok
          /\ IF ok THEN Add("relocated") ELSE UNCHANGED image
    /\ Goto("stop")
    /\ UNCHANGED <<attempt, auth, saved, continued, halted, shell, report>>

\* commonfps_trace_stop: SIGSTOP, then the next stop is waited for, whatever
\* its signal is.  `failed` is the result.
TraceStop(failed) ==
    \/ /\ ~ continued \/ halted
       /\ failed = FALSE
       /\ UNCHANGED <<faults, run, pending, halted>>
    \/ /\ continued /\ ~ halted
       /\ \/ failed /\ Call(FALSE) /\ UNCHANGED <<run, pending, halted>>  \* kill
          \/ /\ Call(~ failed)                                           \* waitpid
             /\ run' = "stopped" /\ pending' = (pending \/ run = "stopped")
             /\ halted' = ~ failed
          \/ /\ ~ failed /\ Call(FALSE)                     \* another signal's stop
             /\ run' = "stopped" /\ pending' = TRUE /\ halted' = TRUE

\* MUTANT: the result of the stop replaces the earlier error.
LastError(failed) == failed

\* The stop only adds to the errors so far.
ErrorAfterStop(failed) == error \/ failed

StopShellUi ==
    /\ pc = "stop"
    /\ \E failed \in BOOLEAN :
          /\ TraceStop(failed)
          /\ error' = ErrorAfterStop(failed)
    /\ Goto("copy")
    /\ UNCHANGED <<attempt, auth, saved, continued, image, traced, regs, stage,
                   threads, rc, report>>

\* One of the loader's writes to ShellUI; an earlier error skips it.
Write(part) ==
    \E ok \in BOOLEAN :
       /\ ok => ~ error
       /\ IF error THEN UNCHANGED faults ELSE Request(ok)
       /\ error' = ~ ok
       /\ IF ok THEN Add(part) ELSE UNCHANGED image

CopyImage ==
    /\ pc = "copy" /\ Write("copied") /\ Goto("protect")
    /\ UNCHANGED <<attempt, auth, saved, continued, halted, shell, report>>

\* The segments' protections, set by the kernel or by ptrace, and pt_msync, which
\* needs a stopped process in either case.
ProtectImage ==
    /\ pc = "protect" /\ Write("protected") /\ Goto("finish")
    /\ UNCHANGED <<attempt, auth, saved, continued, halted, shell, report>>

LoadSucceeds ==
    /\ pc = "finish" /\ ~ error
    /\ report' = [report EXCEPT !.elf_loaded = TRUE]
    /\ Goto("prepare")
    /\ UNCHANGED <<attempt, faults, auth, saved, loader, shell>>

\* The error path stops ShellUI if it still runs, ...
LoadFails ==
    /\ pc = "finish" /\ error
    /\ \E failed \in BOOLEAN : TraceStop(failed)
    /\ Goto("unmap")
    /\ UNCHANGED <<attempt, auth, saved, error, continued, image, traced, regs,
                   stage, threads, rc, report>>

\* ... and unmaps the image without looking at the result.
UnmapImage ==
    /\ pc = "unmap"
    /\ \E ok \in BOOLEAN :
          /\ Request(ok)
          /\ image' = IF ok THEN [image EXCEPT ![attempt] = {}] ELSE image
    /\ Goto("detach")
    /\ UNCHANGED <<attempt, auth, saved, error, continued, halted, shell, report>>

------------------------------------------------------------------------------
(***************************************************************************)
(* The remote call.  The arguments, the stager and its function table are  *)
(* mapped and copied first.                                                *)
(***************************************************************************)
\* MUTANT: the table is sent with a return code of zero.
SentZero == "0"

\* MUTANT: the code in the table is not initialised.
SentUnset == "garbage"

SentRc == NoRc

PrepareCall ==
    /\ pc = "prepare"
    /\ \E ok \in BOOLEAN :
          /\ Request(ok)
          /\ rc' = IF ok THEN SentRc ELSE rc
          /\ Goto(IF ok THEN "enter" ELSE "detach")
    /\ UNCHANGED <<attempt, auth, saved, loader, run, traced, pending, regs,
                   stage, threads, report>>

SetRegs ==
    /\ pc = "enter"
    /\ \E ok \in BOOLEAN :
          /\ Request(ok)
          /\ regs' = IF ok THEN attempt ELSE regs
          /\ stage' = IF ok THEN "entry" ELSE stage
          /\ Goto(IF ok THEN "go" ELSE "readback")
    /\ UNCHANGED <<attempt, auth, saved, loader, run, traced, pending,
                   threads, rc, report>>

\* A SIGSTOP left from the loader's wait is delivered at once.
ContinueStager ==
    /\ pc = "go"
    /\ \E ok \in BOOLEAN :
          /\ Request(ok)
          /\ run' = IF ok /\ ~ pending THEN "running" ELSE run
          /\ pending' = (pending /\ ~ ok)
          /\ Goto(IF ok THEN "wait" ELSE "regs")
    /\ UNCHANGED <<attempt, auth, saved, loader, traced, regs, stage,
                   threads, rc, report>>

\* MUTANT: only the stager's own breakpoint ends the wait.
WaitForBreakpoint ==
    /\ pc = "wait"
    /\ run = "stopped" /\ stage = "stored" /\ Goto("regs")
    /\ UNCHANGED <<attempt, faults, auth, saved, loader, shell, report>>

\* waitpid returns at any stop; a failure of it goes to the same restore.
WaitStop ==
    /\ pc = "wait"
    /\ \/ run \in {"stopped", "dead"} /\ UNCHANGED faults
       \/ Call(FALSE)
    /\ Goto("regs")
    /\ UNCHANGED <<attempt, auth, saved, loader, shell, report>>

\* pt_setregs of the original registers; the caller ignores its result.
RestoreRegs ==
    /\ pc = "regs"
    /\ \E ok \in BOOLEAN :
          /\ Request(ok)
          /\ regs' = IF ok THEN Own ELSE regs
          /\ stage' = IF ok THEN "none" ELSE stage
    /\ Goto("readback")
    /\ UNCHANGED <<attempt, auth, saved, loader, run, traced, pending,
                   threads, rc, report>>

Readback ==
    /\ pc = "readback"
    /\ \E ok \in BOOLEAN :
          /\ Request(ok)
          /\ report' = [report EXCEPT !.created = (ok /\ rc = "0")]
    /\ Goto("detach")
    /\ UNCHANGED <<attempt, auth, saved, loader, shell>>

\* MUTANT: no SIGCONT after the detach.
DetachOnly ==
    /\ pc = "detach"
    /\ \E ok \in BOOLEAN :
          /\ Request(ok)
          /\ report' = [report EXCEPT !.detached = ok]
          /\ traced' = (traced /\ ~ ok)
          /\ run' = IF ok /\ ~ pending THEN "running" ELSE run
    /\ Goto("restore")
    /\ UNCHANGED <<attempt, auth, saved, loader, pending, regs, stage,
                   threads, rc>>

\* pt_detach, then SIGCONT, which also discards a pending SIGSTOP.
Detach ==
    /\ pc = "detach"
    /\ \E ok \in BOOLEAN :
          /\ Request(ok)
          /\ report' = [report EXCEPT !.detached = ok]
          /\ traced' = (traced /\ ~ ok)
          /\ run' = IF ok THEN "running" ELSE run
    /\ pending' = FALSE
    /\ Goto("restore")
    /\ UNCHANGED <<attempt, auth, saved, loader, regs, stage, threads, rc>>

RestoreAuthority ==
    /\ pc = "restore"
    /\ \E ok \in BOOLEAN :
          /\ Call(ok)
          /\ auth' = IF ok THEN saved ELSE auth
          /\ report' = [report EXCEPT !.auth_restored = ok]
    /\ Goto("judge")
    /\ UNCHANGED <<attempt, saved, loader, shell>>

\* MUTANT: whatever did not end in a created thread is repeated.
RetryUncreated == ~ report.created

\* retry_allowed of ensure_shellui_renderer.
RetryAllowed == ~ report.elf_loaded

Judge ==
    /\ pc = "judge"
    /\ LET failed == ~ report.created \/ ~ report.auth_restored
       IN Goto(IF ~ failed THEN "started" ELSE IF RetryAllowed THEN "retry" ELSE "over")
    /\ UNCHANGED <<attempt, faults, auth, saved, loader, shell, report>>

\* The next call, after the delay.
Retry ==
    /\ pc = "retry" /\ attempt < MaxAttempts
    /\ attempt' = attempt + 1
    /\ Goto("idle")
    /\ UNCHANGED <<faults, auth, saved, loader, shell, report>>

------------------------------------------------------------------------------
(***************************************************************************)
(* ShellUI.                                                                *)
(***************************************************************************)
StagerRuns == run = "running" /\ regs # Own

StagerCreates ==
    /\ StagerRuns /\ stage = "entry"
    /\ \/ stage' = "created" /\ threads' = threads \cup {regs} /\ UNCHANGED faults
       \/ stage' = "failed" /\ Call(FALSE) /\ UNCHANGED threads
    /\ UNCHANGED <<pc, attempt, auth, saved, loader, run, traced, pending, regs,
                   rc, report>>

StagerStores ==
    /\ StagerRuns /\ stage \in {"created", "failed"}
    /\ rc' = IF stage = "created" THEN "0" ELSE "error"
    /\ stage' = "stored"
    /\ UNCHANGED <<pc, attempt, faults, auth, saved, loader, run, traced, pending,
                   regs, threads, report>>

\* int3 stops a traced process and kills one that nobody traces.
StagerTraps ==
    /\ StagerRuns /\ stage = "stored"
    /\ run' = IF traced THEN "stopped" ELSE "dead"
    /\ UNCHANGED <<pc, attempt, faults, auth, saved, loader, traced, pending, regs,
                   stage, threads, rc, report>>

\* Any other signal stops the traced process wherever it is.
StraySignal ==
    /\ StagerRuns /\ traced /\ Call(FALSE)
    /\ run' = "stopped"
    /\ UNCHANGED <<pc, attempt, auth, saved, loader, traced, pending, regs, stage,
                   threads, rc, report>>

Controller ==
    \/ RaiseAuthority \/ Attach \/ ResolveAndValidate
    \/ MapImage \/ TraceContinue \/ ApplyRelocations \/ StopShellUi
    \/ CopyImage \/ ProtectImage \/ LoadSucceeds \/ LoadFails \/ UnmapImage
    \/ PrepareCall \/ SetRegs \/ ContinueStager \/ WaitStop \/ RestoreRegs
    \/ Readback \/ Detach \/ RestoreAuthority \/ Judge \/ Retry

Stager == StagerCreates \/ StagerStores \/ StagerTraps

Next == Controller \/ Stager \/ StraySignal

Spec == Init /\ [][Next]_vars

\* The controller's thread is scheduled, and so is a ShellUI that runs.
LiveSpec == Spec /\ WF_vars(Controller) /\ WF_vars(Stager)

------------------------------------------------------------------------------
Ends == {"retry", "over", "started"}

TypeOK ==
    /\ pc \in {"idle", "attach", "resolve", "map", "continue", "mirror", "stop",
               "copy", "protect", "finish", "unmap", "prepare", "enter", "go",
               "wait", "regs", "readback", "detach", "restore", "judge"} \cup Ends
    /\ attempt \in Attempts /\ faults \in 0..MaxFaults
    /\ auth \in {"own", "ptrace"} /\ saved \in {"own", "ptrace"}
    /\ error \in BOOLEAN /\ continued \in BOOLEAN /\ halted \in BOOLEAN
    /\ image \in [Attempts -> SUBSET Parts]
    /\ rc \in Codes
    /\ run \in {"running", "stopped", "dead"}
    /\ traced \in BOOLEAN /\ pending \in BOOLEAN
    /\ regs \in {Own} \cup Attempts
    /\ stage \in {"none", "entry", "created", "failed", "stored"}
    /\ threads \subseteq Attempts
    /\ report \in Report

(***************************************************************************)
(* ShellUI never gets two renderer threads, however the attempts fail: not *)
(* when the stager was stopped after pthread_create and before it stored   *)
(* the return code, so that the report says nothing was started            *)
(* (shellui_injector.cpp:624).                                             *)
(***************************************************************************)
OneRendererThread == Cardinality(threads) <= 1

(***************************************************************************)
(* A renderer thread runs an image that is mapped, relocated, copied and   *)
(* protected: an error in the middle of the load, while ShellUI runs, is   *)
(* still known when the entry is returned (stable_elfldr_bridge.c:326).    *)
(***************************************************************************)
ThreadRunsWholeImage == \A a \in threads : image[a] = Parts

(***************************************************************************)
(* An attempt that is reported as started did start its own thread, also   *)
(* when a stray signal or a SIGSTOP left over from the loader stopped      *)
(* ShellUI before the stager ran (stable_shellui_injector.cpp:231).        *)
(***************************************************************************)
StartedIsTrue == pc = "started" => attempt \in threads

(***************************************************************************)
(* However the attempts fail, there is one renderer thread at most, it     *)
(* runs a whole image, and it exists when the report says so.              *)
(***************************************************************************)
InjectionInv ==
    TypeOK /\ OneRendererThread /\ ThreadRunsWholeImage /\ StartedIsTrue

(***************************************************************************)
(* Once detached with its own registers, ShellUI runs: no SIGSTOP of the   *)
(* loader is left to stop it (stable_shellui_injector.cpp:247).            *)
(***************************************************************************)
ReleasedRuns ==
    pc \in Ends /\ report.detached /\ regs = Own => run = "running" /\ ~ pending

(***************************************************************************)
(* Every attempt ends: the wait for the stager ends whatever stops ShellUI *)
(* and whichever call fails (remote_call.cpp:62).                          *)
(***************************************************************************)
AttemptEnds == (pc = "attach") ~> (pc \in Ends)
==============================================================================
