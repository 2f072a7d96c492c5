------------------------------ MODULE Authority ------------------------------
(***************************************************************************)
(* The controller's own authority (its ucred auth id) from its start to    *)
(* the reads of the VideoOut sampler: ensure_media_launcher                *)
(* (src/ps5/media_launcher.cpp), which borrows the installer's authority   *)
(* to stage and register the settings title before the loop begins, the    *)
(* quarantine when it cannot be given back (commonfps_ps5_main.cpp), and   *)
(* in the loop find_module (ps5_platform.cpp, videoout_module.cpp), which  *)
(* borrows the debugger's authority.                                       *)
(*                                                                         *)
(* kernel_set_ucred_authid may fail or, as the launcher's read-backs       *)
(* provide for, report success without effect; kernel_copyin either writes *)
(* or fails.  The controller may be ended at any step and is then started  *)
(* again with a new authority of its own; the staged files and the         *)
(* registration survive.  Each asset is replaced atomically (temporary     *)
(* file, fsync, rename): it is written whole or not at all.  The authority *)
(* windows of the injection, the hook and the DCE sampler are those of     *)
(* modules Injection, HookTransaction and DceSampler.                      *)
(***************************************************************************)
EXTENDS Naturals

CONSTANTS MaxFaults,   \* bound: failed or ineffective kernel calls
          MaxStarts    \* bound: starts of the controller

AuthorityConstants == MaxFaults \in Nat /\ MaxStarts \in Nat \ {0}

VARIABLES
    pc, starts, faults,
    auth, saved,       \* the authority; original (launcher), saved_auth (module)
    present,           \* sceAppInstUtilAppExists
    icon, param,       \* the staged files: "none", "foreign", "ours"
    registered,        \* what the title was registered from, or nothing
    base,              \* what find_module returned: module_base_ # 0
    restoreLost        \* some borrower saw its restoration fail

title == <<present, icon, param, registered>>
vars == <<pc, starts, faults, auth, saved, title, base, restoreLost>>

Own == "own"
Raised == "raised"   \* 0x4800000000000006, for the launcher and for the module lookup
Unregistered == <<>>
Files == {"none", "foreign", "ours"}

Init ==
    /\ pc = "start" /\ starts = 1 /\ faults = 0
    /\ auth = Own /\ saved = Own
    /\ present = FALSE /\ registered = Unregistered
    /\ icon \in {"none", "foreign"} /\ param \in {"none", "foreign"}
    /\ base = FALSE /\ restoreLost = FALSE

Call(ok) ==
    /\ ~ ok => faults < MaxFaults
    /\ faults' = IF ok THEN faults ELSE faults + 1

\* kernel_set_ucred_authid: done, failed, reported done without effect, or done
\* with a read-back that fails.
SetTo(value, outcome) ==
    /\ Call(outcome = "done")
    /\ auth' = IF outcome \in {"done", "unread"} THEN value ELSE auth
Outcomes == {"done", "failed", "ineffective", "unread"}

\* The set call answered 0 and kernel_get_ucred_authid reads the value back.
VerifiedBlindly(value, outcome) == outcome # "failed"
Verified(value, outcome) == outcome \notin {"failed", "unread"} /\ auth' = value

------------------------------------------------------------------------------
(***************************************************************************)
(* ensure_media_launcher.                                                  *)
(***************************************************************************)
\* FW 12, a missing symbol or no snapshot of the credentials: nothing is borrowed.
SkipLauncher ==
    /\ pc = "start" /\ pc' = "loop"
    /\ UNCHANGED <<starts, faults, auth, saved, title, base, restoreLost>>

\* A snapshot of 0 or -1 ends the launcher (SkipLauncher).
SnapshotUnchecked == IF faults < MaxFaults THEN "invalid" ELSE auth
Snapshot == auth

BorrowInstaller ==
    /\ pc = "start"
    /\ saved' = Snapshot
    /\ \E outcome \in Outcomes :
          /\ SetTo(Raised, outcome)
          /\ pc' = IF Verified(Raised, outcome) THEN "exists" ELSE "restore"
    /\ UNCHANGED <<starts, title, base, restoreLost>>

CanStageOwnedTitle == param \in {"none", "ours"}

\* sceAppInstUtilInitialize, AppExists, can_stage_owned_title, the directories.
AskPresent ==
    /\ pc = "exists"
    /\ \E ok \in BOOLEAN :
          /\ Call(ok)
          /\ present' = IF ok THEN registered # Unregistered ELSE present
          /\ pc' = IF ok /\ ~ present' /\ CanStageOwnedTitle THEN "icon" ELSE "restore"
    /\ UNCHANGED <<starts, auth, saved, icon, param, registered, base, restoreLost>>

StageIconCarelessly ==
    /\ pc = "icon" /\ pc' = "param"
    /\ \E ok \in BOOLEAN : Call(ok) /\ icon' = IF ok THEN "ours" ELSE icon
    /\ UNCHANGED <<starts, auth, saved, present, param, registered, base, restoreLost>>

StageIcon ==
    /\ pc = "icon"
    /\ \E ok \in BOOLEAN :
          /\ Call(ok)
          /\ icon' = IF ok THEN "ours" ELSE icon
          /\ pc' = IF ok THEN "param" ELSE "restore"
    /\ UNCHANGED <<starts, auth, saved, present, param, registered, base, restoreLost>>

StageParam ==
    /\ pc = "param"
    /\ \E ok \in BOOLEAN :
          /\ Call(ok)
          /\ param' = IF ok THEN "ours" ELSE param
          /\ pc' = IF ok THEN "install" ELSE "restore"
    /\ UNCHANGED <<starts, auth, saved, present, icon, registered, base, restoreLost>>

\* sceAppInstUtilAppInstallTitleDir and, when it succeeds, AppExists again.
Install ==
    /\ pc = "install" /\ pc' = "restore"
    /\ \E ok \in BOOLEAN :
          /\ Call(ok)
          /\ registered' = IF ok THEN <<icon, param>> ELSE registered
          /\ present' = ok
    /\ UNCHANGED <<starts, auth, saved, icon, param, base, restoreLost>>

\* The restoration, and the endless sleep when it does not read back.
ReturnInstaller ==
    /\ pc = "restore"
    /\ \E outcome \in Outcomes :
          /\ SetTo(saved, outcome)
          /\ pc' = IF Verified(saved, outcome) THEN "loop" ELSE "quarantine"
    /\ UNCHANGED <<starts, saved, title, base, restoreLost>>

------------------------------------------------------------------------------
(***************************************************************************)
(* The sampler: find_videoout_module and read_memory.                      *)
(***************************************************************************)
\* The auth id cannot be read or written: find_module fails untouched.
ModuleRefused ==
    /\ pc = "loop" /\ ~ base
    /\ Call(FALSE)
    /\ UNCHANGED <<pc, starts, auth, saved, title, base, restoreLost>>

BorrowDebugger ==
    /\ pc = "loop" /\ ~ base /\ pc' = "list"
    /\ saved' = auth
    /\ auth' = Raised
    /\ UNCHANGED <<starts, faults, title, base, restoreLost>>

BaseAfter(found, restored) == found /\ restored

\* The module list, then the mandatory restoration: without it no base.
ReturnDebugger(found) ==
    /\ pc = "list" /\ pc' = "loop"
    /\ \E ok \in BOOLEAN :
          /\ Call(ok)
          /\ auth' = IF ok THEN saved ELSE auth
          /\ base' = BaseAfter(found, ok)
          /\ restoreLost' = (restoreLost \/ ~ ok)
    /\ UNCHANGED <<starts, saved, title>>

\* The sampler that got a base reads with it until it is reset (another game, a
\* lost counter); a read borrows nothing.
ResetSampler ==
    /\ pc = "loop" /\ base
    /\ base' = FALSE
    /\ UNCHANGED <<pc, starts, faults, auth, saved, title, restoreLost>>

\* The console ends the controller at any step; autoload starts it again.
Restart ==
    /\ starts < MaxStarts /\ starts' = starts + 1
    /\ pc' = "start"
    /\ auth' = Own /\ saved' = Own
    /\ present' = FALSE
    /\ base' = FALSE /\ restoreLost' = FALSE
    /\ UNCHANGED <<faults, icon, param, registered>>

Quarantined == pc = "quarantine" /\ UNCHANGED vars

Next ==
    \/ SkipLauncher \/ BorrowInstaller \/ AskPresent
    \/ StageIcon \/ StageParam \/ Install \/ ReturnInstaller
    \/ ModuleRefused \/ BorrowDebugger
    \/ \E found \in BOOLEAN : ReturnDebugger(found)
    \/ ResetSampler
    \/ Restart \/ Quarantined

Spec == Init /\ [][Next]_vars

------------------------------------------------------------------------------
(***************************************************************************)
(* Type correctness of the launcher's and the sampler's state.             *)
(***************************************************************************)
TypeOK ==
    /\ pc \in {"start", "exists", "icon", "param", "install", "restore",
               "loop", "list", "quarantine"}
    /\ starts \in 1 .. MaxStarts /\ faults \in 0 .. MaxFaults
    /\ auth \in {Own, Raised} /\ saved \in {Own, Raised}
    /\ present \in BOOLEAN /\ icon \in Files /\ param \in Files
    /\ registered \in {Unregistered} \cup (Files \X Files)
    /\ base \in BOOLEAN /\ restoreLost \in BOOLEAN

(***************************************************************************)
(* The loop samples with its own authority, or a module lookup has said    *)
(* that it could not give the borrowed one back: the launcher never lets   *)
(* the loop begin with the installer's authority.                          *)
(***************************************************************************)
LoopAuthorityKnown == pc = "loop" /\ ~ restoreLost => auth = Own

(***************************************************************************)
(* The title is registered only from both of its own files, whichever      *)
(* write failed and wherever an earlier start was cut off.                 *)
(***************************************************************************)
RegisteredIsWhole == registered \in {Unregistered, <<"ours", "ours">>}

(***************************************************************************)
(* The start of the controller is all or nothing: the loop begins with its *)
(* own authority, and the title is registered whole or not at all.         *)
(***************************************************************************)
AuthorityInv == TypeOK /\ LoopAuthorityKnown /\ RegisteredIsWhole
==============================================================================
