--------------------------- MODULE BootstrapProofs ---------------------------
(***************************************************************************)
(* What the controller does with a borrowed authority, for any bounds.     *)
(* The bootstrap of the renderer, for any number of attempts, failed calls *)
(* and stray signals: one renderer thread at most, on a whole image,       *)
(* reported as started only when it exists (InjectionInv), and a ShellUI   *)
(* that runs once it is released (ReleasedRuns).  The launcher, for any    *)
(* number of starts and failed calls, in the composition with the          *)
(* bootstrap (AuthorityInv).                                               *)
(***************************************************************************)
EXTENDS MCBootstrap, FiniteSetTheorems, TLAPS

\* Where the loader has succeeded.
Prepared == {"prepare", "enter", "go", "wait", "regs", "readback"}
Loaded == Prepared \cup {"detach", "restore", "judge", "over", "started"}
Released == {"restore", "judge"} \cup Ends

\* The stager and its thread belong to the current attempt, whose image was
\* loaded; an attempt that loaded its image is the last one, because only the
\* others are repeated.
StagerInv ==
    /\ regs \in {Own, attempt}
    /\ threads \subseteq {attempt}
    /\ regs # Own \/ threads # {} => report.elf_loaded
    /\ report.elf_loaded => pc \in Loaded
    /\ pc \in Prepared => report.elf_loaded

\* What has been done to the image at each stage of the load, unless there was
\* an error; the loader reports success only for all of it.
ImageInv ==
    /\ report.elf_loaded => image[attempt] = Parts
    /\ pc \in {"continue", "mirror", "stop", "copy", "protect", "finish"} =>
           "mapped" \in image[attempt]
    /\ pc \in {"stop", "copy", "protect", "finish"} /\ ~ error => "relocated" \in image[attempt]
    /\ pc \in {"protect", "finish"} /\ ~ error => "copied" \in image[attempt]
    /\ pc = "finish" /\ ~ error => "protected" \in image[attempt]

\* A return code of zero, in ShellUI or in the report, stands for a thread.
CreatedInv ==
    /\ regs # Own /\ stage = "created" => attempt \in threads
    /\ rc = "0" => attempt \in threads
    /\ report.created => attempt \in threads
    /\ pc = "started" => report.created

\* From the detach on, ShellUI runs unless a stager is left in it.
ReleaseInv ==
    /\ report.detached => pc \in Released \cup {"idle"}
    /\ pc \in Released /\ report.detached /\ regs = Own => run = "running" /\ ~ pending

BootInv ==
    /\ TypeOK
    /\ StagerInv
    /\ ImageInv
    /\ CreatedInv
    /\ ReleaseInv

------------------------------------------------------------------------------
USE InjectionConstants DEF Attempts, Parts, Report, Own, NoRc, Codes, Ends, Goto, Prepared,
    Loaded, Released, loader, shell

\* The report of an attempt that has done nothing.
LEMMA Fresh ==
    /\ FreshReport \in Report
    /\ ~ FreshReport.elf_loaded /\ ~ FreshReport.created /\ ~ FreshReport.detached
    BY DEF FreshReport

\* At first there is no attempt, no image and no thread.
LEMMA BootInit == Init => BootInv
<1> SUFFICES ASSUME Init PROVE BootInv
    OBVIOUS
<1>1. TypeOK
  <2>1. report \in Report /\ image \in [Attempts -> SUBSET Parts]
    BY Fresh DEF Init
  <2>2. attempt \in Attempts /\ faults \in 0 .. MaxFaults
    BY DEF Init
  <2> QED
    BY <2>1, <2>2 DEF Init, TypeOK
<1>2. StagerInv /\ ImageInv /\ CreatedInv /\ ReleaseInv
    BY Fresh DEF Init, StagerInv, ImageInv, CreatedInv, ReleaseInv
<1> QED
    BY <1>1, <1>2 DEF BootInv

\* A new attempt starts with a fresh report; nothing of the old one was loaded.
LEMMA RaiseStep == BootInv /\ RaiseAuthority => BootInv'
<1> SUFFICES ASSUME BootInv, RaiseAuthority PROVE BootInv'
    OBVIOUS
<1> USE DEF BootInv
<1>1. TypeOK'
    BY Fresh DEF TypeOK, RaiseAuthority, Call
<1>2. StagerInv'
    BY Fresh DEF StagerInv, RaiseAuthority, Call
<1>3. ImageInv'
    BY Fresh DEF ImageInv, RaiseAuthority, Call
<1>4. CreatedInv'
    BY Fresh DEF CreatedInv, RaiseAuthority, Call
<1>5. ReleaseInv'
    BY Fresh DEF ReleaseInv, RaiseAuthority, Call
<1> QED
    BY <1>1, <1>2, <1>3, <1>4, <1>5

\* Attachment only stops ShellUI.
LEMMA AttachStep == BootInv /\ Attach => BootInv'
<1> SUFFICES ASSUME BootInv, Attach PROVE BootInv'
    OBVIOUS
<1> USE DEF BootInv
<1>1. TypeOK'
    BY DEF TypeOK, Attach, Call
<1>2. StagerInv'
    BY DEF StagerInv, Attach, Call
<1>3. ImageInv'
    BY DEF ImageInv, Attach, Call
<1>4. CreatedInv'
    BY DEF CreatedInv, Attach, Call
<1>5. ReleaseInv'
    BY DEF ReleaseInv, Attach, Call
<1> QED
    BY <1>1, <1>2, <1>3, <1>4, <1>5

\* The checks of the renderer reset the loader.
LEMMA ResolveStep == BootInv /\ ResolveAndValidate => BootInv'
<1> SUFFICES ASSUME BootInv, ResolveAndValidate PROVE BootInv'
    OBVIOUS
<1> USE DEF BootInv
<1>1. TypeOK'
  <2>1. faults' \in 0 .. MaxFaults
    BY DEF TypeOK, ResolveAndValidate, Request, Call
  <2>2. /\ error' \in BOOLEAN /\ continued' \in BOOLEAN /\ halted' \in BOOLEAN
        /\ traced' \in BOOLEAN /\ pending' \in BOOLEAN
    BY DEF TypeOK, ResolveAndValidate, Request, Call
  <2>3. run' \in {"running", "stopped", "dead"} /\ report' \in Report
    BY DEF TypeOK, ResolveAndValidate, Request, Call
  <2> QED
    BY <2>1, <2>2, <2>3 DEF TypeOK, ResolveAndValidate
<1>2. StagerInv'
    BY DEF StagerInv, ResolveAndValidate, Request, Call
<1>3. ImageInv'
    BY DEF ImageInv, ResolveAndValidate, Request, Call
<1>4. CreatedInv'
    BY DEF CreatedInv, ResolveAndValidate, Request, Call
<1>5. ReleaseInv'
    BY DEF ReleaseInv, ResolveAndValidate, Request, Call
<1> QED
    BY <1>1, <1>2, <1>3, <1>4, <1>5

\* An attempt that is still being loaded has neither stager nor thread, so that
\* its image may change.
LEMMA MapStep == BootInv /\ MapImage => BootInv'
<1> SUFFICES ASSUME BootInv, MapImage PROVE BootInv'
    OBVIOUS
<1> USE DEF BootInv
<1>1. TypeOK'
    BY DEF TypeOK, MapImage, Request, Call, Add
<1>2. StagerInv'
    BY DEF StagerInv, MapImage, Request, Call, Add
<1>3. ImageInv'
    BY DEF ImageInv, TypeOK, StagerInv, MapImage, Request, Call, Add
<1>4. CreatedInv'
    BY DEF CreatedInv, MapImage, Request, Call, Add
<1>5. ReleaseInv'
    BY DEF ReleaseInv, MapImage, Request, Call, Add
<1> QED
    BY <1>1, <1>2, <1>3, <1>4, <1>5

\* ShellUI runs on while the image is built.
LEMMA ContinueStep == BootInv /\ TraceContinue => BootInv'
<1> SUFFICES ASSUME BootInv, TraceContinue PROVE BootInv'
    OBVIOUS
<1> USE DEF BootInv
<1>1. TypeOK'
    BY DEF TypeOK, TraceContinue, Request, Call
<1>2. StagerInv'
    BY DEF StagerInv, TraceContinue, Request, Call
<1>3. ImageInv'
    BY DEF ImageInv, TraceContinue, Request, Call
<1>4. CreatedInv'
    BY DEF CreatedInv, TraceContinue, Request, Call
<1>5. ReleaseInv'
    BY DEF ReleaseInv, TraceContinue, Request, Call
<1> QED
    BY <1>1, <1>2, <1>3, <1>4, <1>5

\* Relocation adds its part or leaves an error.
LEMMA RelocateStep == BootInv /\ ApplyRelocations => BootInv'
<1> SUFFICES ASSUME BootInv, ApplyRelocations PROVE BootInv'
    OBVIOUS
<1> USE DEF BootInv
<1>1. TypeOK'
    BY DEF TypeOK, ApplyRelocations, Call, Add
<1>2. StagerInv'
    BY DEF StagerInv, ApplyRelocations, Call, Add
<1>3. ImageInv'
  <2>1. /\ pc = "mirror" /\ pc' = "stop" /\ attempt' = attempt /\ report' = report
        /\ attempt \in Attempts /\ image \in [Attempts -> SUBSET Parts]
    BY DEF TypeOK, ApplyRelocations
  <2>2. ~ report.elf_loaded
    BY <2>1 DEF StagerInv
  <2>3. \/ ~ error /\ ~ error' /\ image' = [image EXCEPT ![attempt] = @ \cup {"relocated"}]
        \/ error' /\ image' = image
    BY DEF TypeOK, ApplyRelocations, Add
  <2> QED
    BY <2>1, <2>2, <2>3 DEF ImageInv
<1>4. CreatedInv'
    BY DEF CreatedInv, ApplyRelocations, Call, Add
<1>5. ReleaseInv'
    BY DEF ReleaseInv, ApplyRelocations, Call, Add
<1> QED
    BY <1>1, <1>2, <1>3, <1>4, <1>5

\* The stop forgets no earlier error.
LEMMA StopStep == BootInv /\ StopShellUi => BootInv'
<1> SUFFICES ASSUME BootInv, StopShellUi PROVE BootInv'
    OBVIOUS
<1> USE DEF BootInv
<1>1. TypeOK'
  <2>1. faults' \in 0 .. MaxFaults
    BY DEF TypeOK, StopShellUi, TraceStop, ErrorAfterStop, Call
  <2>2. /\ error' \in BOOLEAN /\ continued' \in BOOLEAN /\ halted' \in BOOLEAN
        /\ traced' \in BOOLEAN /\ pending' \in BOOLEAN
    BY DEF TypeOK, StopShellUi, TraceStop, ErrorAfterStop, Call
  <2>3. run' \in {"running", "stopped", "dead"} /\ report' \in Report
    BY DEF TypeOK, StopShellUi, TraceStop, ErrorAfterStop, Call
  <2> QED
    BY <2>1, <2>2, <2>3 DEF TypeOK, StopShellUi
<1>2. StagerInv'
    BY DEF StagerInv, StopShellUi, TraceStop, ErrorAfterStop, Call
<1>3. ImageInv'
    BY DEF ImageInv, StopShellUi, TraceStop, ErrorAfterStop, Call
<1>4. CreatedInv'
    BY DEF CreatedInv, StopShellUi, TraceStop, ErrorAfterStop, Call
<1>5. ReleaseInv'
    BY DEF ReleaseInv, StopShellUi, TraceStop, ErrorAfterStop, Call
<1> QED
    BY <1>1, <1>2, <1>3, <1>4, <1>5

\* The copy adds its part or leaves an error.
LEMMA CopyStep == BootInv /\ CopyImage => BootInv'
<1> SUFFICES ASSUME BootInv, CopyImage PROVE BootInv'
    OBVIOUS
<1> USE DEF BootInv
<1>1. TypeOK'
    BY DEF TypeOK, CopyImage, Write, Request, Call, Add
<1>2. StagerInv'
    BY DEF StagerInv, CopyImage, Write, Request, Call, Add
<1>3. ImageInv'
  <2>1. /\ pc = "copy" /\ pc' = "protect" /\ attempt' = attempt /\ report' = report
        /\ attempt \in Attempts /\ image \in [Attempts -> SUBSET Parts]
    BY DEF TypeOK, CopyImage
  <2>2. ~ report.elf_loaded
    BY <2>1 DEF StagerInv
  <2>3. \/ ~ error /\ ~ error' /\ image' = [image EXCEPT ![attempt] = @ \cup {"copied"}]
        \/ error' /\ image' = image
    BY DEF TypeOK, CopyImage, Write, Add
  <2> QED
    BY <2>1, <2>2, <2>3 DEF ImageInv
<1>4. CreatedInv'
    BY DEF CreatedInv, CopyImage, Write, Request, Call, Add
<1>5. ReleaseInv'
    BY DEF ReleaseInv, CopyImage, Write, Request, Call, Add
<1> QED
    BY <1>1, <1>2, <1>3, <1>4, <1>5

\* So does the protection.
LEMMA ProtectStep == BootInv /\ ProtectImage => BootInv'
<1> SUFFICES ASSUME BootInv, ProtectImage PROVE BootInv'
    OBVIOUS
<1> USE DEF BootInv
<1>1. TypeOK'
    BY DEF TypeOK, ProtectImage, Write, Request, Call, Add
<1>2. StagerInv'
    BY DEF StagerInv, ProtectImage, Write, Request, Call, Add
<1>3. ImageInv'
  <2>1. /\ pc = "protect" /\ pc' = "finish" /\ attempt' = attempt /\ report' = report
        /\ attempt \in Attempts /\ image \in [Attempts -> SUBSET Parts]
    BY DEF TypeOK, ProtectImage
  <2>2. ~ report.elf_loaded
    BY <2>1 DEF StagerInv
  <2>3. \/ ~ error /\ ~ error' /\ image' = [image EXCEPT ![attempt] = @ \cup {"protected"}]
        \/ error' /\ image' = image
    BY DEF TypeOK, ProtectImage, Write, Add
  <2> QED
    BY <2>1, <2>2, <2>3 DEF ImageInv
<1>4. CreatedInv'
    BY DEF CreatedInv, ProtectImage, Write, Request, Call, Add
<1>5. ReleaseInv'
    BY DEF ReleaseInv, ProtectImage, Write, Request, Call, Add
<1> QED
    BY <1>1, <1>2, <1>3, <1>4, <1>5

\* Without an error all parts are there.
LEMMA SucceedStep == BootInv /\ LoadSucceeds => BootInv'
<1> SUFFICES ASSUME BootInv, LoadSucceeds PROVE BootInv'
    OBVIOUS
<1> USE DEF BootInv
<1>1. TypeOK'
  <2>1. report' \in Report
    BY DEF TypeOK, LoadSucceeds
  <2> QED
    BY <2>1 DEF TypeOK, LoadSucceeds
<1>2. StagerInv'
    BY DEF StagerInv, LoadSucceeds
<1>3. ImageInv'
    BY DEF ImageInv, TypeOK, StagerInv, LoadSucceeds
<1>4. CreatedInv'
    BY DEF CreatedInv, LoadSucceeds
<1>5. ReleaseInv'
    BY DEF ReleaseInv, LoadSucceeds
<1> QED
    BY <1>1, <1>2, <1>3, <1>4, <1>5

\* An error ends the load.
LEMMA FailStep == BootInv /\ LoadFails => BootInv'
<1> SUFFICES ASSUME BootInv, LoadFails PROVE BootInv'
    OBVIOUS
<1> USE DEF BootInv
<1>1. TypeOK'
  <2>1. faults' \in 0 .. MaxFaults
    BY DEF TypeOK, LoadFails, TraceStop, Call
  <2>2. /\ error' \in BOOLEAN /\ continued' \in BOOLEAN /\ halted' \in BOOLEAN
        /\ traced' \in BOOLEAN /\ pending' \in BOOLEAN
    BY DEF TypeOK, LoadFails, TraceStop, Call
  <2>3. run' \in {"running", "stopped", "dead"} /\ report' \in Report
    BY DEF TypeOK, LoadFails, TraceStop, Call
  <2> QED
    BY <2>1, <2>2, <2>3 DEF TypeOK, LoadFails
<1>2. StagerInv'
    BY DEF StagerInv, LoadFails, TraceStop, Call
<1>3. ImageInv'
    BY DEF ImageInv, LoadFails, TraceStop, Call
<1>4. CreatedInv'
    BY DEF CreatedInv, LoadFails, TraceStop, Call
<1>5. ReleaseInv'
    BY DEF ReleaseInv, LoadFails, TraceStop, Call
<1> QED
    BY <1>1, <1>2, <1>3, <1>4, <1>5

\* The image of a failed load is not in use.
LEMMA UnmapStep == BootInv /\ UnmapImage => BootInv'
<1> SUFFICES ASSUME BootInv, UnmapImage PROVE BootInv'
    OBVIOUS
<1> USE DEF BootInv
<1>1. TypeOK'
    BY DEF TypeOK, UnmapImage, Request, Call
<1>2. StagerInv'
    BY DEF StagerInv, UnmapImage, Request, Call
<1>3. ImageInv'
    BY DEF ImageInv, TypeOK, StagerInv, UnmapImage, Request, Call
<1>4. CreatedInv'
    BY DEF CreatedInv, UnmapImage, Request, Call
<1>5. ReleaseInv'
    BY DEF ReleaseInv, UnmapImage, Request, Call
<1> QED
    BY <1>1, <1>2, <1>3, <1>4, <1>5

\* The table is sent with a code that is not a success.
LEMMA PrepareStep == BootInv /\ PrepareCall => BootInv'
<1> SUFFICES ASSUME BootInv, PrepareCall PROVE BootInv'
    OBVIOUS
<1> USE DEF BootInv
<1>1. TypeOK'
    BY DEF TypeOK, PrepareCall, Request, Call, SentRc
<1>2. StagerInv'
    BY DEF StagerInv, PrepareCall, Request, Call, SentRc
<1>3. ImageInv'
    BY DEF ImageInv, PrepareCall, Request, Call, SentRc
<1>4. CreatedInv'
    BY DEF CreatedInv, PrepareCall, Request, Call, SentRc
<1>5. ReleaseInv'
    BY DEF ReleaseInv, PrepareCall, Request, Call, SentRc
<1> QED
    BY <1>1, <1>2, <1>3, <1>4, <1>5

\* The stager belongs to the attempt that was loaded.
LEMMA EnterStep == BootInv /\ SetRegs => BootInv'
<1> SUFFICES ASSUME BootInv, SetRegs PROVE BootInv'
    OBVIOUS
<1> USE DEF BootInv
<1>1. TypeOK'
    BY DEF TypeOK, SetRegs, Request, Call
<1>2. StagerInv'
    BY DEF StagerInv, SetRegs, Request, Call
<1>3. ImageInv'
    BY DEF ImageInv, SetRegs, Request, Call
<1>4. CreatedInv'
    BY DEF CreatedInv, SetRegs, Request, Call
<1>5. ReleaseInv'
    BY DEF ReleaseInv, SetRegs, Request, Call
<1> QED
    BY <1>1, <1>2, <1>3, <1>4, <1>5

\* ShellUI is continued.
LEMMA GoStep == BootInv /\ ContinueStager => BootInv'
<1> SUFFICES ASSUME BootInv, ContinueStager PROVE BootInv'
    OBVIOUS
<1> USE DEF BootInv
<1>1. TypeOK'
    BY DEF TypeOK, ContinueStager, Request, Call
<1>2. StagerInv'
    BY DEF StagerInv, ContinueStager, Request, Call
<1>3. ImageInv'
    BY DEF ImageInv, ContinueStager, Request, Call
<1>4. CreatedInv'
    BY DEF CreatedInv, ContinueStager, Request, Call
<1>5. ReleaseInv'
    BY DEF ReleaseInv, ContinueStager, Request, Call
<1> QED
    BY <1>1, <1>2, <1>3, <1>4, <1>5

\* Waiting changes nothing.
LEMMA WaitStep == BootInv /\ WaitStop => BootInv'
<1> SUFFICES ASSUME BootInv, WaitStop PROVE BootInv'
    OBVIOUS
<1> USE DEF BootInv
<1>1. TypeOK'
    BY DEF TypeOK, WaitStop, Call
<1>2. StagerInv'
    BY DEF StagerInv, WaitStop, Call
<1>3. ImageInv'
    BY DEF ImageInv, WaitStop, Call
<1>4. CreatedInv'
    BY DEF CreatedInv, WaitStop, Call
<1>5. ReleaseInv'
    BY DEF ReleaseInv, WaitStop, Call
<1> QED
    BY <1>1, <1>2, <1>3, <1>4, <1>5

\* With its own registers ShellUI has no stager.
LEMMA RegsStep == BootInv /\ RestoreRegs => BootInv'
<1> SUFFICES ASSUME BootInv, RestoreRegs PROVE BootInv'
    OBVIOUS
<1> USE DEF BootInv
<1>1. TypeOK'
    BY DEF TypeOK, RestoreRegs, Request, Call
<1>2. StagerInv'
    BY DEF StagerInv, RestoreRegs, Request, Call
<1>3. ImageInv'
    BY DEF ImageInv, RestoreRegs, Request, Call
<1>4. CreatedInv'
    BY DEF CreatedInv, RestoreRegs, Request, Call
<1>5. ReleaseInv'
    BY DEF ReleaseInv, RestoreRegs, Request, Call
<1> QED
    BY <1>1, <1>2, <1>3, <1>4, <1>5

\* The report repeats the code that ShellUI's memory holds.
LEMMA ReadbackStep == BootInv /\ Readback => BootInv'
<1> SUFFICES ASSUME BootInv, Readback PROVE BootInv'
    OBVIOUS
<1> USE DEF BootInv
<1>1. TypeOK'
    BY DEF TypeOK, StagerInv, ImageInv, CreatedInv, ReleaseInv, Readback, Request, Call
<1>2. StagerInv'
    BY DEF StagerInv, Readback, Request, Call
<1>3. ImageInv'
    BY DEF ImageInv, Readback, Request, Call
<1>4. CreatedInv'
    BY DEF CreatedInv, TypeOK, StagerInv, Readback, Request, Call
<1>5. ReleaseInv'
    BY DEF ReleaseInv, Readback, Request, Call
<1> QED
    BY <1>1, <1>2, <1>3, <1>4, <1>5

\* A detach that succeeds lets ShellUI run, without a pending stop.
LEMMA DetachStep == BootInv /\ Detach => BootInv'
<1> SUFFICES ASSUME BootInv, Detach PROVE BootInv'
    OBVIOUS
<1> USE DEF BootInv
<1>1. TypeOK'
  <2>1. faults' \in 0 .. MaxFaults
    BY DEF TypeOK, Detach, Request, Call
  <2>2. /\ error' \in BOOLEAN /\ continued' \in BOOLEAN /\ halted' \in BOOLEAN
        /\ traced' \in BOOLEAN /\ pending' \in BOOLEAN
    BY DEF TypeOK, Detach, Request, Call
  <2>3. run' \in {"running", "stopped", "dead"} /\ report' \in Report
    BY DEF TypeOK, Detach, Request, Call
  <2> QED
    BY <2>1, <2>2, <2>3 DEF TypeOK, Detach
<1>2. StagerInv'
    BY DEF StagerInv, Detach, Request, Call
<1>3. ImageInv'
    BY DEF ImageInv, Detach, Request, Call
<1>4. CreatedInv'
    BY DEF CreatedInv, Detach, Request, Call
<1>5. ReleaseInv'
    BY DEF ReleaseInv, Detach, Request, Call
<1> QED
    BY <1>1, <1>2, <1>3, <1>4, <1>5

\* Returning the authority leaves ShellUI alone.
LEMMA RestoreStep == BootInv /\ RestoreAuthority => BootInv'
<1> SUFFICES ASSUME BootInv, RestoreAuthority PROVE BootInv'
    OBVIOUS
<1> USE DEF BootInv
<1>1. TypeOK'
    BY DEF TypeOK, RestoreAuthority, Call
<1>2. StagerInv'
    BY DEF StagerInv, RestoreAuthority, Call
<1>3. ImageInv'
    BY DEF ImageInv, RestoreAuthority, Call
<1>4. CreatedInv'
    BY DEF CreatedInv, RestoreAuthority, Call
<1>5. ReleaseInv'
    BY DEF ReleaseInv, RestoreAuthority, Call
<1> QED
    BY <1>1, <1>2, <1>3, <1>4, <1>5

\* Only an attempt that loaded nothing is repeated, only one that created its
\* thread has started.
LEMMA JudgeStep == BootInv /\ Judge => BootInv'
<1> SUFFICES ASSUME BootInv, Judge PROVE BootInv'
    OBVIOUS
<1> USE DEF BootInv
<1>1. TypeOK'
    BY DEF TypeOK, Judge, RetryAllowed
<1>2. StagerInv'
    BY DEF StagerInv, Judge, RetryAllowed
<1>3. ImageInv'
    BY DEF ImageInv, Judge, RetryAllowed
<1>4. CreatedInv'
    BY DEF CreatedInv, Judge, RetryAllowed
<1>5. ReleaseInv'
    BY DEF ReleaseInv, Judge, RetryAllowed
<1> QED
    BY <1>1, <1>2, <1>3, <1>4, <1>5

\* What is repeated left neither stager nor thread.
LEMMA RetryStep == BootInv /\ Retry => BootInv'
<1> SUFFICES ASSUME BootInv, Retry PROVE BootInv'
    OBVIOUS
<1> USE DEF BootInv
<1>1. TypeOK'
    BY DEF TypeOK, Retry
<1>2. StagerInv'
    BY DEF StagerInv, Retry
<1>3. ImageInv'
    BY DEF ImageInv, TypeOK, StagerInv, Retry
<1>4. CreatedInv'
    BY DEF CreatedInv, TypeOK, StagerInv, Retry
<1>5. ReleaseInv'
    BY DEF ReleaseInv, Retry
<1> QED
    BY <1>1, <1>2, <1>3, <1>4, <1>5

\* The stager creates the thread of the current attempt.
LEMMA CreatesStep == BootInv /\ StagerCreates => BootInv'
<1> SUFFICES ASSUME BootInv, StagerCreates PROVE BootInv'
    OBVIOUS
<1> USE DEF BootInv
<1>1. TypeOK'
  <2>1. faults' \in 0 .. MaxFaults
    BY DEF TypeOK, StagerCreates, Call
  <2>2. threads' \subseteq Attempts /\ stage' \in {"none", "entry", "created", "failed", "stored"}
    BY DEF TypeOK, StagerCreates, StagerRuns
  <2> QED
    BY <2>1, <2>2 DEF TypeOK, StagerCreates
<1>2. StagerInv'
    BY DEF StagerInv, StagerCreates, Call, StagerRuns
<1>3. ImageInv'
    BY DEF ImageInv, StagerCreates, Call, StagerRuns
<1>4. CreatedInv'
    BY DEF CreatedInv, TypeOK, StagerInv, StagerCreates, Call, StagerRuns
<1>5. ReleaseInv'
    BY DEF ReleaseInv, StagerCreates, Call, StagerRuns
<1> QED
    BY <1>1, <1>2, <1>3, <1>4, <1>5

\* It stores zero after it created the thread.
LEMMA StoresStep == BootInv /\ StagerStores => BootInv'
<1> SUFFICES ASSUME BootInv, StagerStores PROVE BootInv'
    OBVIOUS
<1> USE DEF BootInv
<1>1. TypeOK'
    BY DEF TypeOK, StagerStores, StagerRuns
<1>2. StagerInv'
    BY DEF StagerInv, StagerStores, StagerRuns
<1>3. ImageInv'
    BY DEF ImageInv, StagerStores, StagerRuns
<1>4. CreatedInv'
    BY DEF CreatedInv, StagerStores, StagerRuns
<1>5. ReleaseInv'
    BY DEF ReleaseInv, StagerStores, StagerRuns
<1> QED
    BY <1>1, <1>2, <1>3, <1>4, <1>5

\* It traps only where there is a stager.
LEMMA TrapsStep == BootInv /\ StagerTraps => BootInv'
<1> SUFFICES ASSUME BootInv, StagerTraps PROVE BootInv'
    OBVIOUS
<1> USE DEF BootInv
<1>1. TypeOK'
    BY DEF TypeOK, StagerTraps, StagerRuns
<1>2. StagerInv'
    BY DEF StagerInv, StagerTraps, StagerRuns
<1>3. ImageInv'
    BY DEF ImageInv, StagerTraps, StagerRuns
<1>4. CreatedInv'
    BY DEF CreatedInv, StagerTraps, StagerRuns
<1>5. ReleaseInv'
    BY DEF ReleaseInv, StagerTraps, StagerRuns
<1> QED
    BY <1>1, <1>2, <1>3, <1>4, <1>5

\* A stray signal meets a running stager.
LEMMA StrayStep == BootInv /\ StraySignal => BootInv'
<1> SUFFICES ASSUME BootInv, StraySignal PROVE BootInv'
    OBVIOUS
<1> USE DEF BootInv
<1>1. TypeOK'
    BY DEF TypeOK, StraySignal, Call, StagerRuns
<1>2. StagerInv'
    BY DEF StagerInv, StraySignal, Call, StagerRuns
<1>3. ImageInv'
    BY DEF ImageInv, StraySignal, Call, StagerRuns
<1>4. CreatedInv'
    BY DEF CreatedInv, StraySignal, Call, StagerRuns
<1>5. ReleaseInv'
    BY DEF ReleaseInv, StraySignal, Call, StagerRuns
<1> QED
    BY <1>1, <1>2, <1>3, <1>4, <1>5

------------------------------------------------------------------------------
\* Every step of the controller, of the stager and of a stray signal keeps the
\* invariant.
LEMMA BootStep == BootInv /\ [Next]_vars => BootInv'
<1> SUFFICES ASSUME BootInv, [Next]_vars PROVE BootInv'
    OBVIOUS
<1>1. CASE RaiseAuthority \/ Attach \/ ResolveAndValidate
    BY <1>1, RaiseStep, AttachStep, ResolveStep
<1>2. CASE \/ MapImage \/ TraceContinue \/ ApplyRelocations \/ StopShellUi \/ CopyImage
           \/ ProtectImage \/ LoadSucceeds \/ LoadFails \/ UnmapImage
    BY <1>2, MapStep, ContinueStep, RelocateStep, StopStep, CopyStep, ProtectStep, SucceedStep,
       FailStep, UnmapStep
<1>3. CASE PrepareCall \/ SetRegs \/ ContinueStager \/ WaitStop \/ RestoreRegs \/ Readback
    BY <1>3, PrepareStep, EnterStep, GoStep, WaitStep, RegsStep, ReadbackStep
<1>4. CASE Detach \/ RestoreAuthority \/ Judge \/ Retry
    BY <1>4, DetachStep, RestoreStep, JudgeStep, RetryStep
<1>5. CASE StagerCreates \/ StagerStores \/ StagerTraps \/ StraySignal
    BY <1>5, CreatesStep, StoresStep, TrapsStep, StrayStep
<1>6. CASE UNCHANGED vars
    BY <1>6 DEF vars, BootInv, TypeOK, StagerInv, ImageInv, CreatedInv, ReleaseInv
<1> QED
    BY <1>1, <1>2, <1>3, <1>4, <1>5, <1>6 DEF Next, Controller, Stager

\* The inductive invariant holds in every reachable state.
LEMMA BootInvariant == Spec => []BootInv
    BY BootInit, BootStep, PTL DEF Spec

\* However the attempts to inject the renderer fail, whichever system call
\* fails and whatever stops ShellUI: it gets one renderer thread at most, the
\* thread runs an image that is mapped, relocated, copied and protected, and an
\* attempt reported as started did start its thread.  For any number of
\* attempts and faults.
THEOREM InjectionIsSafe == Spec => []InjectionInv
<1>1. ASSUME BootInv PROVE OneRendererThread
  <2>1. threads = {} \/ threads = {attempt}
    BY <1>1 DEF BootInv, StagerInv
  <2>2. Cardinality({}) = 0 /\ Cardinality({attempt}) = 1
    BY FS_EmptySet, FS_Singleton
  <2> QED
    BY <2>1, <2>2 DEF OneRendererThread
<1>2. ASSUME BootInv PROVE ThreadRunsWholeImage
    BY <1>2 DEF BootInv, StagerInv, ImageInv, ThreadRunsWholeImage
<1>3. ASSUME BootInv PROVE StartedIsTrue
    BY <1>3 DEF BootInv, CreatedInv, StartedIsTrue
<1>4. BootInv => InjectionInv
    BY <1>1, <1>2, <1>3 DEF BootInv, InjectionInv
<1> QED
    BY <1>4, BootInvariant, PTL

\* A ShellUI that was detached with its own registers runs, and no SIGSTOP of
\* the loader is left to stop it, after any number of attempts.
THEOREM ReleaseIsFinal == Spec => []ReleasedRuns
<1>1. BootInv => ReleasedRuns
    BY DEF BootInv, ReleaseInv, ReleasedRuns
<1> QED
    BY <1>1, BootInvariant, PTL

\* An image in use is never touched: once the loader has succeeded for an
\* attempt, that attempt is the last one and its image stays as it is
\* (RetryAllowed, shellui_injector.cpp; stable_elfldr_bridge.c).
THEOREM LoadedIsLast == Spec => [][report.elf_loaded => UNCHANGED <<attempt, image>>]_vars
<1>1. BootInv /\ [Next]_vars => [report.elf_loaded => UNCHANGED <<attempt, image>>]_vars
  <2> SUFFICES ASSUME BootInv, Next, report.elf_loaded PROVE UNCHANGED <<attempt, image>>
    OBVIOUS
  <2>1. pc \in Loaded
    BY DEF BootInv, StagerInv
  <2>2. CASE RaiseAuthority \/ Attach \/ ResolveAndValidate
    BY <2>1, <2>2 DEF RaiseAuthority, Attach, ResolveAndValidate
  <2>3. CASE \/ MapImage \/ TraceContinue \/ ApplyRelocations \/ StopShellUi \/ CopyImage
             \/ ProtectImage \/ LoadSucceeds \/ LoadFails \/ UnmapImage
    BY <2>1, <2>3 DEF MapImage, TraceContinue, ApplyRelocations, StopShellUi, CopyImage,
       ProtectImage, LoadSucceeds, LoadFails, UnmapImage
  <2>4. CASE PrepareCall \/ SetRegs \/ ContinueStager \/ WaitStop \/ RestoreRegs \/ Readback
    BY <2>4 DEF PrepareCall, SetRegs, ContinueStager, WaitStop, RestoreRegs, Readback
  <2>5. CASE Detach \/ RestoreAuthority \/ Judge \/ Retry
    BY <2>1, <2>5 DEF Detach, RestoreAuthority, Judge, Retry
  <2>6. CASE StagerCreates \/ StagerStores \/ StagerTraps \/ StraySignal
    BY <2>6 DEF StagerCreates, StagerStores, StagerTraps, StraySignal
  <2> QED
    BY <2>2, <2>3, <2>4, <2>5, <2>6 DEF Next, Controller, Stager
<1> QED
    BY <1>1, BootInvariant, PTL DEF Spec

------------------------------------------------------------------------------
(***************************************************************************)
(* The launcher.  That the loop begins with its own authority rests on     *)
(* what was saved before the installer's was borrowed, and that the title  *)
(* is registered whole on what the stages before Install have written.     *)
(***************************************************************************)
LaunchStages == {"exists", "icon", "param", "install", "restore"}

SavedInv ==
    /\ apc = "start" => aauth = Launcher!Own
    /\ apc \in LaunchStages => asaved = Launcher!Own
    /\ apc = "list" /\ ~ restoreLost => asaved = Launcher!Own

StagedInv ==
    /\ apc \in {"param", "install"} => icon = "ours"
    /\ apc = "install" => param = "ours"

LauncherInv == AuthorityInv /\ SavedInv /\ StagedInv

LEMMA LauncherInit == SuiteInit => LauncherInv
<1> SUFFICES ASSUME Launcher!Init PROVE LauncherInv
  BY DEF SuiteInit
<1> USE DEF Launcher!Init, Launcher!Own, Launcher!Raised, Launcher!Unregistered, Launcher!Files
<1>1. Launcher!TypeOK
  <2>1. starts \in 1 .. LauncherStarts /\ afaults \in 0 .. LauncherFaults
    BY LauncherConstants DEF Launcher!AuthorityConstants
  <2> QED BY <2>1 DEF Launcher!TypeOK
<1>2. Launcher!LoopAuthorityKnown /\ Launcher!RegisteredIsWhole
  BY DEF Launcher!LoopAuthorityKnown, Launcher!RegisteredIsWhole
<1>3. SavedInv /\ StagedInv
  BY DEF SavedInv, StagedInv, LaunchStages
<1> QED BY <1>1, <1>2, <1>3 DEF LauncherInv, AuthorityInv, Launcher!AuthorityInv

\* A kernel call counts its failures up to the bound.
LEMMA CallCounts ==
    ASSUME afaults \in 0 .. LauncherFaults, NEW ok \in BOOLEAN, Launcher!Call(ok)
    PROVE  afaults' \in 0 .. LauncherFaults
  BY LauncherConstants DEF Launcher!Call, Launcher!AuthorityConstants


LEMMA SkipLauncherKeeps ==
    ASSUME LauncherInv, Launcher!SkipLauncher PROVE LauncherInv'
<1> USE DEF LauncherInv, AuthorityInv, Launcher!AuthorityInv, Launcher!Own, Launcher!Raised, Launcher!title
<1>3. Launcher!TypeOK'
  BY DEF Launcher!TypeOK, Launcher!SkipLauncher
<1>4. Launcher!LoopAuthorityKnown' /\ Launcher!RegisteredIsWhole'
  BY DEF Launcher!LoopAuthorityKnown, Launcher!RegisteredIsWhole, SavedInv, StagedInv,
         LaunchStages, Launcher!SkipLauncher
<1>5. SavedInv' /\ StagedInv'
  BY DEF Launcher!LoopAuthorityKnown, SavedInv, StagedInv, LaunchStages, Launcher!SkipLauncher
<1> QED BY <1>3, <1>4, <1>5

LEMMA BorrowInstallerKeeps ==
    ASSUME LauncherInv, Launcher!BorrowInstaller PROVE LauncherInv'
<1> USE DEF LauncherInv, AuthorityInv, Launcher!AuthorityInv, Launcher!Own, Launcher!Raised, Launcher!title
<1>1. PICK outcome \in Launcher!Outcomes :
        /\ Launcher!Call(outcome = "done")
        /\ aauth' = IF outcome \in {"done", "unread"} THEN Launcher!Raised ELSE aauth
        /\ apc' = IF Launcher!Verified(Launcher!Raised, outcome) THEN "exists" ELSE "restore"
  BY DEF Launcher!BorrowInstaller, Launcher!SetTo
<1>2. afaults' \in 0 .. LauncherFaults
  BY <1>1, CallCounts DEF Launcher!TypeOK
<1>3. Launcher!TypeOK'
  BY <1>1, <1>2 DEF Launcher!TypeOK, Launcher!BorrowInstaller, Launcher!Snapshot
<1>4. Launcher!LoopAuthorityKnown' /\ Launcher!RegisteredIsWhole'
  BY <1>1 DEF Launcher!LoopAuthorityKnown, Launcher!RegisteredIsWhole, SavedInv, StagedInv,
         LaunchStages, Launcher!BorrowInstaller, Launcher!Snapshot
<1>5. SavedInv' /\ StagedInv'
  BY <1>1 DEF Launcher!LoopAuthorityKnown, SavedInv, StagedInv, LaunchStages, Launcher!BorrowInstaller, Launcher!Snapshot
<1> QED BY <1>3, <1>4, <1>5

LEMMA AskPresentKeeps ==
    ASSUME LauncherInv, Launcher!AskPresent PROVE LauncherInv'
<1> USE DEF LauncherInv, AuthorityInv, Launcher!AuthorityInv, Launcher!Own, Launcher!Raised, Launcher!title
<1>1. PICK ok \in BOOLEAN :
        /\ Launcher!Call(ok)
        /\ present' = IF ok THEN registered # Launcher!Unregistered ELSE present
        /\ apc' \in {"icon", "restore"}
  BY DEF Launcher!AskPresent
<1>2. afaults' \in 0 .. LauncherFaults
  BY <1>1, CallCounts DEF Launcher!TypeOK
<1>3. Launcher!TypeOK'
  BY <1>1, <1>2 DEF Launcher!TypeOK, Launcher!AskPresent
<1>4. Launcher!LoopAuthorityKnown' /\ Launcher!RegisteredIsWhole'
  BY <1>1 DEF Launcher!LoopAuthorityKnown, Launcher!RegisteredIsWhole, SavedInv, StagedInv,
         LaunchStages, Launcher!AskPresent
<1>5. SavedInv' /\ StagedInv'
  BY <1>1 DEF Launcher!LoopAuthorityKnown, SavedInv, StagedInv, LaunchStages, Launcher!AskPresent
<1> QED BY <1>3, <1>4, <1>5

LEMMA StageIconKeeps ==
    ASSUME LauncherInv, Launcher!StageIcon PROVE LauncherInv'
<1> USE DEF LauncherInv, AuthorityInv, Launcher!AuthorityInv, Launcher!Own, Launcher!Raised, Launcher!title
<1>1. PICK ok \in BOOLEAN :
        /\ Launcher!Call(ok)
        /\ icon' = IF ok THEN "ours" ELSE icon
        /\ apc' = IF ok THEN "param" ELSE "restore"
  BY DEF Launcher!StageIcon
<1>2. afaults' \in 0 .. LauncherFaults
  BY <1>1, CallCounts DEF Launcher!TypeOK
<1>3. Launcher!TypeOK'
  BY <1>1, <1>2 DEF Launcher!TypeOK, Launcher!StageIcon, Launcher!Files
<1>4. Launcher!LoopAuthorityKnown' /\ Launcher!RegisteredIsWhole'
  BY <1>1 DEF Launcher!LoopAuthorityKnown, Launcher!RegisteredIsWhole, SavedInv, StagedInv,
         LaunchStages, Launcher!StageIcon, Launcher!Files
<1>5. SavedInv' /\ StagedInv'
  BY <1>1 DEF Launcher!LoopAuthorityKnown, SavedInv, StagedInv, LaunchStages, Launcher!StageIcon, Launcher!Files
<1> QED BY <1>3, <1>4, <1>5

LEMMA StageParamKeeps ==
    ASSUME LauncherInv, Launcher!StageParam PROVE LauncherInv'
<1> USE DEF LauncherInv, AuthorityInv, Launcher!AuthorityInv, Launcher!Own, Launcher!Raised, Launcher!title
<1>1. PICK ok \in BOOLEAN :
        /\ Launcher!Call(ok)
        /\ param' = IF ok THEN "ours" ELSE param
        /\ apc' = IF ok THEN "install" ELSE "restore"
  BY DEF Launcher!StageParam
<1>2. afaults' \in 0 .. LauncherFaults
  BY <1>1, CallCounts DEF Launcher!TypeOK
<1>3. Launcher!TypeOK'
  BY <1>1, <1>2 DEF Launcher!TypeOK, Launcher!StageParam, Launcher!Files
<1>4. Launcher!LoopAuthorityKnown' /\ Launcher!RegisteredIsWhole'
  BY <1>1 DEF Launcher!LoopAuthorityKnown, Launcher!RegisteredIsWhole, SavedInv, StagedInv,
         LaunchStages, Launcher!StageParam, Launcher!Files
<1>5. SavedInv' /\ StagedInv'
  BY <1>1 DEF Launcher!LoopAuthorityKnown, SavedInv, StagedInv, LaunchStages, Launcher!StageParam, Launcher!Files
<1> QED BY <1>3, <1>4, <1>5

LEMMA InstallTitleKeeps ==
    ASSUME LauncherInv, Launcher!Install PROVE LauncherInv'
<1> USE DEF LauncherInv, AuthorityInv, Launcher!AuthorityInv, Launcher!Own, Launcher!Raised, Launcher!title
<1>1. PICK ok \in BOOLEAN :
        /\ Launcher!Call(ok)
        /\ registered' = IF ok THEN <<icon, param>> ELSE registered
        /\ present' = ok
  BY DEF Launcher!Install
<1>2. afaults' \in 0 .. LauncherFaults
  BY <1>1, CallCounts DEF Launcher!TypeOK
<1>3. Launcher!TypeOK'
  BY <1>1, <1>2 DEF Launcher!TypeOK, Launcher!Install
<1>4. Launcher!LoopAuthorityKnown' /\ Launcher!RegisteredIsWhole'
  BY <1>1 DEF Launcher!LoopAuthorityKnown, Launcher!RegisteredIsWhole, SavedInv, StagedInv,
         LaunchStages, Launcher!Install
<1>5. SavedInv' /\ StagedInv'
  BY <1>1 DEF Launcher!LoopAuthorityKnown, SavedInv, StagedInv, LaunchStages, Launcher!Install
<1> QED BY <1>3, <1>4, <1>5

LEMMA ReturnInstallerKeeps ==
    ASSUME LauncherInv, Launcher!ReturnInstaller PROVE LauncherInv'
<1> USE DEF LauncherInv, AuthorityInv, Launcher!AuthorityInv, Launcher!Own, Launcher!Raised, Launcher!title
<1>1. PICK outcome \in Launcher!Outcomes :
        /\ Launcher!Call(outcome = "done")
        /\ aauth' = IF outcome \in {"done", "unread"} THEN asaved ELSE aauth
        /\ apc' = IF Launcher!Verified(asaved, outcome) THEN "loop" ELSE "quarantine"
  BY DEF Launcher!ReturnInstaller, Launcher!SetTo
<1>2. afaults' \in 0 .. LauncherFaults
  BY <1>1, CallCounts DEF Launcher!TypeOK
<1>3. Launcher!TypeOK'
  BY <1>1, <1>2 DEF Launcher!TypeOK, Launcher!ReturnInstaller, Launcher!Verified
<1>4. Launcher!LoopAuthorityKnown' /\ Launcher!RegisteredIsWhole'
  BY <1>1 DEF Launcher!LoopAuthorityKnown, Launcher!RegisteredIsWhole, SavedInv, StagedInv,
         LaunchStages, Launcher!ReturnInstaller, Launcher!Verified
<1>5. SavedInv' /\ StagedInv'
  BY <1>1 DEF Launcher!LoopAuthorityKnown, SavedInv, StagedInv, LaunchStages, Launcher!ReturnInstaller, Launcher!Verified
<1> QED BY <1>3, <1>4, <1>5

LEMMA ModuleRefusedKeeps ==
    ASSUME LauncherInv, Launcher!ModuleRefused PROVE LauncherInv'
<1> USE DEF LauncherInv, AuthorityInv, Launcher!AuthorityInv, Launcher!Own, Launcher!Raised, Launcher!title
<1>2. afaults' \in 0 .. LauncherFaults
  BY CallCounts DEF Launcher!TypeOK, Launcher!ModuleRefused
<1>3. Launcher!TypeOK'
  BY <1>2 DEF Launcher!TypeOK, Launcher!ModuleRefused
<1>4. Launcher!LoopAuthorityKnown' /\ Launcher!RegisteredIsWhole'
  BY DEF Launcher!LoopAuthorityKnown, Launcher!RegisteredIsWhole, SavedInv, StagedInv,
         LaunchStages, Launcher!ModuleRefused
<1>5. SavedInv' /\ StagedInv'
  BY DEF Launcher!LoopAuthorityKnown, SavedInv, StagedInv, LaunchStages, Launcher!ModuleRefused
<1> QED BY <1>3, <1>4, <1>5

LEMMA BorrowDebuggerKeeps ==
    ASSUME LauncherInv, Launcher!BorrowDebugger PROVE LauncherInv'
<1> USE DEF LauncherInv, AuthorityInv, Launcher!AuthorityInv, Launcher!Own, Launcher!Raised, Launcher!title
<1>3. Launcher!TypeOK'
  BY DEF Launcher!TypeOK, Launcher!BorrowDebugger
<1>4. Launcher!LoopAuthorityKnown' /\ Launcher!RegisteredIsWhole'
  BY DEF Launcher!LoopAuthorityKnown, Launcher!RegisteredIsWhole, SavedInv, StagedInv,
         LaunchStages, Launcher!BorrowDebugger
<1>5. SavedInv' /\ StagedInv'
  BY DEF Launcher!LoopAuthorityKnown, SavedInv, StagedInv, LaunchStages, Launcher!BorrowDebugger
<1> QED BY <1>3, <1>4, <1>5

LEMMA ReturnDebuggerKeeps ==
    ASSUME LauncherInv, NEW found \in BOOLEAN, Launcher!ReturnDebugger(found) PROVE LauncherInv'
<1> USE DEF LauncherInv, AuthorityInv, Launcher!AuthorityInv, Launcher!Own, Launcher!Raised, Launcher!title
<1>1. PICK ok \in BOOLEAN :
        /\ Launcher!Call(ok)
        /\ aauth' = IF ok THEN asaved ELSE aauth
        /\ base' = Launcher!BaseAfter(found, ok)
        /\ restoreLost' = (restoreLost \/ ~ ok)
  BY DEF Launcher!ReturnDebugger
<1>2. afaults' \in 0 .. LauncherFaults
  BY <1>1, CallCounts DEF Launcher!TypeOK
<1>3. Launcher!TypeOK'
  <2>1. base' \in BOOLEAN /\ restoreLost' \in BOOLEAN
    BY <1>1 DEF Launcher!BaseAfter
  <2>2. aauth' \in {"own", "raised"}
    BY <1>1 DEF Launcher!TypeOK
  <2> QED BY <1>2, <2>1, <2>2 DEF Launcher!TypeOK, Launcher!ReturnDebugger
<1>4. Launcher!LoopAuthorityKnown' /\ Launcher!RegisteredIsWhole'
  BY <1>1 DEF Launcher!LoopAuthorityKnown, Launcher!RegisteredIsWhole, SavedInv, StagedInv,
         LaunchStages, Launcher!ReturnDebugger
<1>5. SavedInv' /\ StagedInv'
  BY <1>1 DEF Launcher!LoopAuthorityKnown, SavedInv, StagedInv, LaunchStages, Launcher!ReturnDebugger
<1> QED BY <1>3, <1>4, <1>5

LEMMA ResetSamplerKeeps ==
    ASSUME LauncherInv, Launcher!ResetSampler PROVE LauncherInv'
<1> USE DEF LauncherInv, AuthorityInv, Launcher!AuthorityInv, Launcher!Own, Launcher!Raised, Launcher!title
<1>3. Launcher!TypeOK'
  BY DEF Launcher!TypeOK, Launcher!ResetSampler
<1>4. Launcher!LoopAuthorityKnown' /\ Launcher!RegisteredIsWhole'
  BY DEF Launcher!LoopAuthorityKnown, Launcher!RegisteredIsWhole, SavedInv, StagedInv,
         LaunchStages, Launcher!ResetSampler
<1>5. SavedInv' /\ StagedInv'
  BY DEF Launcher!LoopAuthorityKnown, SavedInv, StagedInv, LaunchStages, Launcher!ResetSampler
<1> QED BY <1>3, <1>4, <1>5

LEMMA RestartControllerKeeps ==
    ASSUME LauncherInv, Launcher!Restart PROVE LauncherInv'
<1> USE DEF LauncherInv, AuthorityInv, Launcher!AuthorityInv, Launcher!Own, Launcher!Raised, Launcher!title
<1>2. starts' \in 1 .. LauncherStarts
  BY LauncherConstants DEF Launcher!TypeOK, Launcher!Restart, Launcher!AuthorityConstants
<1>3. Launcher!TypeOK'
  BY <1>2 DEF Launcher!TypeOK, Launcher!Restart
<1>4. Launcher!LoopAuthorityKnown' /\ Launcher!RegisteredIsWhole'
  BY DEF Launcher!LoopAuthorityKnown, Launcher!RegisteredIsWhole, SavedInv, StagedInv,
         LaunchStages, Launcher!Restart
<1>5. SavedInv' /\ StagedInv'
  BY DEF Launcher!LoopAuthorityKnown, SavedInv, StagedInv, LaunchStages, Launcher!Restart
<1> QED BY <1>3, <1>4, <1>5

LEMMA QuarantinedKeeps ==
    ASSUME LauncherInv, Launcher!Quarantined PROVE LauncherInv'
<1> USE DEF LauncherInv, AuthorityInv, Launcher!AuthorityInv, Launcher!Own, Launcher!Raised, Launcher!title
<1>3. Launcher!TypeOK'
  BY DEF Launcher!TypeOK, Launcher!Quarantined, Launcher!vars
<1>4. Launcher!LoopAuthorityKnown' /\ Launcher!RegisteredIsWhole'
  BY DEF Launcher!LoopAuthorityKnown, Launcher!RegisteredIsWhole, SavedInv, StagedInv,
         LaunchStages, Launcher!Quarantined, Launcher!vars
<1>5. SavedInv' /\ StagedInv'
  BY DEF Launcher!LoopAuthorityKnown, SavedInv, StagedInv, LaunchStages, Launcher!Quarantined, Launcher!vars
<1> QED BY <1>3, <1>4, <1>5

LEMMA LauncherNext == LauncherInv /\ [SuiteNext]_<<part, vars, launcher>> => LauncherInv'
<1> SUFFICES ASSUME LauncherInv, [SuiteNext]_<<part, vars, launcher>> PROVE LauncherInv'
  OBVIOUS
<1>1. CASE Launcher!Next
  BY <1>1, SkipLauncherKeeps, BorrowInstallerKeeps, AskPresentKeeps, StageIconKeeps,
     StageParamKeeps, InstallTitleKeeps, ReturnInstallerKeeps, ModuleRefusedKeeps,
     BorrowDebuggerKeeps, ReturnDebuggerKeeps, ResetSamplerKeeps, RestartControllerKeeps,
     QuarantinedKeeps DEF Launcher!Next
<1>2. CASE UNCHANGED launcher
  <2>1. Launcher!AuthorityInv'
    BY <1>2 DEF LauncherInv, AuthorityInv, Launcher!AuthorityInv, Launcher!TypeOK,
                Launcher!LoopAuthorityKnown, Launcher!RegisteredIsWhole, launcher
  <2>2. SavedInv' /\ StagedInv'
    BY <1>2 DEF LauncherInv, SavedInv, StagedInv, launcher
  <2> QED BY <2>1, <2>2 DEF LauncherInv, AuthorityInv
<1> QED BY <1>1, <1>2 DEF SuiteNext, Over

\* Whatever kernel calls fail or do nothing and wherever the controller is ended,
\* the loop that ensure_media_launcher lets begin has its own authority until a
\* module lookup reports otherwise, and the settings title is registered from
\* both of its own files or not at all.
THEOREM LauncherIsAllOrNothing == SuiteSpec => []AuthorityInv
<1>1. LauncherInv => AuthorityInv
  BY DEF LauncherInv
<1> QED BY <1>1, LauncherInit, LauncherNext, PTL DEF SuiteSpec
==============================================================================
