----------------------------- MODULE HookProofs -----------------------------
(***************************************************************************)
(* One hook request, for every set of firmware families and any number of  *)
(* requests: what an answer tells the renderer is so (TransactionInv), and *)
(* the transaction implements the promise HookPatch.  Both rest on one     *)
(* inductive invariant that says, stage by stage, what is known of the     *)
(* code, of its page and of the borrowed credentials.                      *)
(*                                                                         *)
(* Then the handshakes of MCHook, with and without the guard: what         *)
(* HookHandshakeProofs proves of one handshake holds of the suite.  At the *)
(* end the contents of a request (RequestIsSound), for every run of        *)
(* instructions.                                                           *)
(***************************************************************************)
EXTENDS MCHook, TLAPS

Writing == pc \in {"open", "widen", "write", "close", "verify", "check"}
Held == pc \in {"read", "detach"} \/ Writing

\* A request that is under way was counted, ShellUI is stopped from the
\* attachment to the detach, and the verification belongs to the patch as the
\* check belongs to the rollback.
StageInv ==
    /\ pc # "idle" => polls > 0
    /\ Held => stopped
    /\ Writing => request.kind # "probe"
    /\ pc = "verify" => attempt = "patch"
    /\ pc = "check" => attempt = "rollback"
    /\ pc \in {"open", "widen", "close"} => ~ PlainWrite
    /\ pc = "widen" => WindowWrite

\* How far the report is filled in at each stage.
ReportInv ==
    /\ pc # "idle" => ~ report.authRestored
    /\ report.detached => pc \in {"return", "idle"} /\ ~ stopped
    /\ pc \in {"auth", "attach", "read"} => ~ report.matched /\ report.status = "InvalidRequest"
    /\ Held /\ pc # "detach" => ~ report.restored
    /\ Writing => /\ report.matched
                  /\ attempt = "patch" => report.status = "InvalidRequest"
                  /\ attempt = "rollback" =>
                        report.status \in {"WriteFailure", "VerifyFailure"}
    /\ pc = "detach" => report.status \in {"Success", "ExpectedBytesMismatch",
                                           "WriteFailure", "VerifyFailure"}
    /\ pc \in {"detach", "return", "idle"} =>
           (report.status = "Success" => report.matched /\ report.verified)
    /\ report.restored => report.matched /\ report.status # "Success"
    /\ report.status = "AttachFailure" => ~ report.matched

\* Credentials: what is to be given back is what the controller had, and
\* capabilities are lost only on a way that does not end in Success.
CredentialInv ==
    /\ pc \notin {"idle", "auth"} => savedAuth = authBefore
    /\ pc = "auth" => auth = authBefore
    /\ pc = "idle" /\ report.authRestored => auth = authBefore
    /\ pc \in {"auth", "attach", "read"} => caps = capsBefore
    /\ pc \in {"open", "widen", "write"} /\ attempt = "patch" => caps = capsBefore
    /\ pc \in {"close", "verify"} /\ attempt = "patch" /\ writeOk => caps = capsBefore
    /\ pc \in {"detach", "return", "idle"} /\ report.status = "Success" => caps = capsBefore

\* The protection of the page while ShellUI is stopped.  On FW 11.60 it is the
\* old one or the old one made writable, a protection once saved is the old one,
\* and a write that counts is one whose window was closed.
PageInv ==
    /\ pc \in {"auth", "attach", "read"} =>
           prot = protBefore /\ protLeft = protBefore /\ savedProt = NoProt
           /\ ~ protRestored
    /\ Held /\ PlainWrite => prot = protBefore
    /\ Held /\ WindowWrite =>
           /\ savedProt \in {NoProt, protBefore}
           /\ savedProt = NoProt => prot = protBefore
           /\ pc \in {"widen", "write", "close"} => savedProt = protBefore
           /\ pc \notin {"write", "close"} /\ protRestored => prot = protBefore
           /\ pc \in {"verify", "check"} /\ writeOk => protRestored
    /\ pc \in {"verify", "check"} /\ RwxWrite /\ writeOk => prot = {"R", "X"}

\* The page as it is left with the answer.
LeftPageInv ==
    LET left == IF pc = "detach" THEN prot ELSE protLeft
    IN  pc \in {"detach", "return", "idle"} =>
           /\ ~ RwxWrite /\ (report.restored \/ ~ report.matched \/ report.status = "Success")
                 => left = protBefore
           /\ RwxWrite /\ report.status = "Success" => left = {"R", "X"}

\* The code: only expected bytes are replaced, and what the report says of them
\* is so while ShellUI is stopped and of what it resumes with.
CodeInv ==
    /\ pc \in {"auth", "attach"} \/ (pc = "return" /\ report.status = "AttachFailure")
           => codeBefore = codeLeft
    /\ pc = "read" => code = codeBefore
    /\ Writing => codeBefore = request.expected
    /\ pc \in {"detach", "return"} =>
           LET now == IF pc = "detach" THEN code ELSE codeLeft
           IN  /\ request.kind # "probe" /\ report.matched => codeBefore = request.expected
               /\ request.kind = "probe" \/ ~ report.matched \/ report.restored
                      => now = codeBefore
               /\ request.kind # "probe" /\ report.status = "Success" => now = "ours"

PatchInv ==
    /\ TypeOK
    /\ StageInv
    /\ ReportInv
    /\ CredentialInv
    /\ PageInv
    /\ LeftPageInv
    /\ CodeInv

------------------------------------------------------------------------------
USE TransactionConstants DEF Bytes, Kinds, Flags, NoProt, Answers, Request, Statuses,
    Report, Stages, Writing, Held, PlainWrite, WindowWrite, RwxWrite,
    FirmwareIsFw1160, shellui, credentials, guard, writing, stopObs, credObs

\* The report of an answer that says nothing yet.
LEMMA Fresh ==
    /\ FreshReport \in Report /\ FreshReport.status = "InvalidRequest"
    /\ ~ FreshReport.matched /\ ~ FreshReport.verified /\ ~ FreshReport.restored
    /\ ~ FreshReport.detached /\ ~ FreshReport.authRestored
    BY DEF FreshReport

\* Nothing is under way at first.
LEMMA PatchInit == Init => PatchInv
<1> SUFFICES ASSUME Init PROVE PatchInv
    OBVIOUS
<1>1. TypeOK
  <2>1. request \in Request
    BY DEF Init, NoRequest
  <2>2. report \in Report
    BY Fresh DEF Init
  <2>3. /\ prot \in SUBSET Flags /\ savedProt \in (SUBSET Flags) \cup {NoProt}
        /\ protBefore \in SUBSET Flags /\ protLeft \in SUBSET Flags
    BY DEF Init
  <2>4. polls \in 0 .. MaxPolls
    BY DEF Init
  <2> QED
    BY <2>1, <2>2, <2>3, <2>4 DEF Init, TypeOK
<1>2. StageInv /\ ReportInv /\ CredentialInv
    BY Fresh DEF Init, StageInv, ReportInv, CredentialInv
<1>3. PageInv /\ LeftPageInv /\ CodeInv
    BY Fresh DEF Init, PageInv, LeftPageInv, CodeInv
<1> QED
    BY <1>1, <1>2, <1>3 DEF PatchInv

\* Taking a request changes nothing but the notes about it.
LEMMA PollStep ==
    ASSUME PatchInv, NEW r \in Request, Poll(r)
    PROVE  PatchInv'
<1> USE DEF PatchInv
<1>1. TypeOK'
  <2>0. \/ report' = FreshReport
        \/ report' = [FreshReport EXCEPT !.status = "UnsupportedFirmware"]
    BY DEF Poll
  <2>1. report' \in Report
    BY <2>0, Fresh
  <2>2. /\ prot' \in SUBSET Flags /\ savedProt' \in (SUBSET Flags) \cup {NoProt}
        /\ protBefore' \in SUBSET Flags /\ protLeft' \in SUBSET Flags
    BY DEF TypeOK, Poll
  <2>3. /\ stopped' \in BOOLEAN /\ protRestored' \in BOOLEAN /\ widened' \in BOOLEAN
        /\ writeOk' \in BOOLEAN
    BY DEF TypeOK, Poll
  <2>4. /\ pc' \in Stages /\ fw' \in Families /\ polls' \in 0 .. MaxPolls /\ request' \in Request
        /\ attempt' \in {"patch", "rollback"} /\ code' \in Bytes /\ codeBefore' \in Bytes
        /\ codeLeft' \in Bytes
    BY DEF TypeOK, Poll
  <2>5. /\ auth' \in {"own", "ptrace", "coredump"} /\ savedAuth' \in {"own", "ptrace", "coredump"}
        /\ authBefore' \in {"own", "ptrace", "coredump"}
        /\ caps' \in {"own", "all"} /\ capsBefore' \in {"own", "all"}
    BY DEF TypeOK, Poll
  <2> QED
    BY <2>1, <2>2, <2>3, <2>4, <2>5 DEF TypeOK
<1>2. StageInv'
    BY Fresh DEF StageInv, TypeOK, ReportInv, Poll
<1>3. ReportInv'
    BY Fresh DEF ReportInv, Poll
<1>4. CredentialInv'
    BY Fresh DEF CredentialInv, Poll
<1>5. PageInv'
    BY Fresh DEF PageInv, Poll
<1>6. LeftPageInv'
    BY Fresh DEF LeftPageInv, Poll
<1>7. CodeInv'
    BY Fresh DEF CodeInv, Poll
<1> QED
    BY <1>1, <1>2, <1>3, <1>4, <1>5, <1>6, <1>7

\* The authority that is saved is the one the controller had.
LEMMA BorrowStep ==
    ASSUME PatchInv, NEW a \in Answers, BorrowAuthority(a)
    PROVE  PatchInv'
<1> USE DEF PatchInv
<1>1. TypeOK'
    BY DEF TypeOK, BorrowAuthority
<1>2. StageInv'
    BY DEF StageInv, BorrowAuthority
<1>3. ReportInv'
    BY DEF ReportInv, TypeOK, StageInv, BorrowAuthority
<1>4. CredentialInv'
    BY DEF CredentialInv, ReportInv, TypeOK, BorrowAuthority
<1>5. PageInv'
    BY DEF PageInv, BorrowAuthority
<1>6. LeftPageInv'
    BY DEF LeftPageInv, TypeOK, StageInv, PageInv, BorrowAuthority
<1>7. CodeInv'
    BY DEF CodeInv, BorrowAuthority
<1> QED
    BY <1>1, <1>2, <1>3, <1>4, <1>5, <1>6, <1>7

\* ShellUI is stopped as it is.
LEMMA AttachStep ==
    ASSUME PatchInv, NEW ok \in BOOLEAN, Attach(ok)
    PROVE  PatchInv'
<1> USE DEF PatchInv
<1>1. TypeOK'
  <2>1. report' \in Report
    BY DEF TypeOK, Attach
  <2>2. /\ prot' \in SUBSET Flags /\ savedProt' \in (SUBSET Flags) \cup {NoProt}
        /\ protBefore' \in SUBSET Flags /\ protLeft' \in SUBSET Flags
    BY DEF TypeOK, Attach
  <2>3. /\ stopped' \in BOOLEAN /\ protRestored' \in BOOLEAN /\ widened' \in BOOLEAN
        /\ writeOk' \in BOOLEAN
    BY DEF TypeOK, Attach
  <2>4. /\ pc' \in Stages /\ fw' \in Families /\ polls' \in 0 .. MaxPolls /\ request' \in Request
        /\ attempt' \in {"patch", "rollback"} /\ code' \in Bytes /\ codeBefore' \in Bytes
        /\ codeLeft' \in Bytes
    BY DEF TypeOK, Attach
  <2>5. /\ auth' \in {"own", "ptrace", "coredump"} /\ savedAuth' \in {"own", "ptrace", "coredump"}
        /\ authBefore' \in {"own", "ptrace", "coredump"}
        /\ caps' \in {"own", "all"} /\ capsBefore' \in {"own", "all"}
    BY DEF TypeOK, Attach
  <2> QED
    BY <2>1, <2>2, <2>3, <2>4, <2>5 DEF TypeOK
<1>2. StageInv'
    BY DEF StageInv, Attach
<1>3. ReportInv'
    BY DEF ReportInv, TypeOK, StageInv, Attach
<1>4. CredentialInv'
    BY DEF CredentialInv, Attach
<1>5. PageInv'
    BY DEF PageInv, Attach
<1>6. LeftPageInv'
    BY DEF LeftPageInv, TypeOK, StageInv, PageInv, Attach
<1>7. CodeInv'
    BY DEF CodeInv, TypeOK, StageInv, ReportInv, Attach
<1> QED
    BY <1>1, <1>2, <1>3, <1>4, <1>5, <1>6, <1>7

\* Only expected bytes lead to a write; a read that loses credentials fails.
LEMMA ReadStep ==
    ASSUME PatchInv, NEW ok \in BOOLEAN, ReadExpected(ok)
    PROVE  PatchInv'
<1> USE DEF PatchInv
<1>0. /\ pc = "read" /\ report \in Report /\ report.status = "InvalidRequest"
      /\ ~ report.matched /\ ~ report.restored /\ ~ report.detached /\ ~ report.authRestored
    BY DEF ReadExpected, TypeOK, ReportInv
<1>a. CASE request.kind = "probe" /\ ok
  <2>1. /\ report' = [report EXCEPT !.matched = TRUE, !.verified = TRUE, !.status = "Success"]
        /\ pc' = "detach" /\ attempt' = attempt
    BY <1>a DEF ReadExpected
  <2>2. /\ report' \in Report /\ report'.status = "Success" /\ report'.matched
        /\ report'.verified /\ ~ report'.restored /\ ~ report'.detached
        /\ ~ report'.authRestored
    BY <1>0, <2>1
  <2>4. auth' \in {"own", "ptrace", "coredump"} /\ caps' \in {"own", "all"}
    BY DEF TypeOK, ReadExpected, ReadShellUiCode, Transfer
  <2>5. TypeOK'
    BY <1>0, <1>a, <2>1, <2>2, <2>4 DEF TypeOK, ReadExpected, WriteFrom
  <2>6. StageInv'
    BY <1>0, <1>a, <2>1, <2>2 DEF StageInv, ReadExpected, ReadShellUiCode, Transfer,
        WriteFrom
  <2>7. ReportInv'
    BY <1>0, <1>a, <2>1, <2>2 DEF ReportInv, ReadExpected, ReadShellUiCode, Transfer,
        WriteFrom
  <2>8. CredentialInv'
    BY <1>0, <1>a, <2>1, <2>2 DEF CredentialInv, ReadExpected, ReadShellUiCode, Transfer,
        WriteFrom
  <2>9. PageInv'
    BY <1>0, <1>a, <2>1, <2>2 DEF PageInv, ReadExpected, ReadShellUiCode, Transfer,
        WriteFrom
  <2>10. LeftPageInv'
    BY <1>0, <1>a, <2>1, <2>2 DEF LeftPageInv, TypeOK, StageInv, PageInv, ReadExpected,
        ReadShellUiCode, Transfer, WriteFrom
  <2>11. CodeInv'
    BY <1>0, <1>a, <2>1, <2>2 DEF CodeInv, ReadExpected, ReadShellUiCode, Transfer,
        WriteFrom
  <2> QED
    BY <2>5, <2>6, <2>7, <2>8, <2>9, <2>10, <2>11
<1>b. CASE request.kind # "probe" /\ ok /\ code = request.expected
  <2>1. /\ report' = [report EXCEPT !.matched = TRUE]
        /\ pc' = WriteFrom /\ attempt' = "patch"
    BY <1>b DEF ReadExpected
  <2>2. /\ report' \in Report /\ report'.status = "InvalidRequest" /\ report'.matched
        /\ ~ report'.restored /\ ~ report'.detached /\ ~ report'.authRestored
    BY <1>0, <2>1
  <2>4. auth' \in {"own", "ptrace", "coredump"} /\ caps' \in {"own", "all"}
    BY DEF TypeOK, ReadExpected, ReadShellUiCode, Transfer
  <2>5. TypeOK'
    BY <1>0, <1>b, <2>1, <2>2, <2>4 DEF TypeOK, ReadExpected, WriteFrom
  <2>6. StageInv'
    BY <1>0, <1>b, <2>1, <2>2 DEF StageInv, ReadExpected, ReadShellUiCode, Transfer,
        WriteFrom
  <2>7. ReportInv'
    BY <1>0, <1>b, <2>1, <2>2 DEF ReportInv, ReadExpected, ReadShellUiCode, Transfer,
        WriteFrom
  <2>8. CredentialInv'
    BY <1>0, <1>b, <2>1, <2>2 DEF CredentialInv, ReadExpected, ReadShellUiCode, Transfer,
        WriteFrom
  <2>9. PageInv'
    BY <1>0, <1>b, <2>1, <2>2 DEF PageInv, ReadExpected, ReadShellUiCode, Transfer,
        WriteFrom
  <2>10. LeftPageInv'
    BY <1>0, <1>b, <2>1, <2>2 DEF LeftPageInv, ReadExpected, ReadShellUiCode, Transfer,
        WriteFrom
  <2>11. CodeInv'
    BY <1>0, <1>b, <2>1, <2>2 DEF CodeInv, ReadExpected, ReadShellUiCode, Transfer,
        WriteFrom
  <2> QED
    BY <2>5, <2>6, <2>7, <2>8, <2>9, <2>10, <2>11
<1>c. CASE ~ ok \/ (request.kind # "probe" /\ code # request.expected)
  <2>1. /\ report' = [report EXCEPT !.status = "ExpectedBytesMismatch"]
        /\ pc' = "detach" /\ attempt' = attempt
    BY <1>c DEF ReadExpected
  <2>2. /\ report' \in Report /\ report'.status = "ExpectedBytesMismatch" /\ ~ report'.matched
        /\ ~ report'.restored /\ ~ report'.detached /\ ~ report'.authRestored
    BY <1>0, <2>1
  <2>4. auth' \in {"own", "ptrace", "coredump"} /\ caps' \in {"own", "all"}
    BY DEF TypeOK, ReadExpected, ReadShellUiCode, Transfer
  <2>5. TypeOK'
    BY <1>0, <1>c, <2>1, <2>2, <2>4 DEF TypeOK, ReadExpected, WriteFrom
  <2>6. StageInv'
    BY <1>0, <1>c, <2>1, <2>2 DEF StageInv, ReadExpected, ReadShellUiCode, Transfer,
        WriteFrom
  <2>7. ReportInv'
    BY <1>0, <1>c, <2>1, <2>2 DEF ReportInv, ReadExpected, ReadShellUiCode, Transfer,
        WriteFrom
  <2>8. CredentialInv'
    BY <1>0, <1>c, <2>1, <2>2 DEF CredentialInv, ReadExpected, ReadShellUiCode, Transfer,
        WriteFrom
  <2>9. PageInv'
    BY <1>0, <1>c, <2>1, <2>2 DEF PageInv, ReadExpected, ReadShellUiCode, Transfer,
        WriteFrom
  <2>10. LeftPageInv'
    BY <1>0, <1>c, <2>1, <2>2 DEF LeftPageInv, TypeOK, StageInv, PageInv, ReadExpected,
        ReadShellUiCode, Transfer, WriteFrom
  <2>11. CodeInv'
    BY <1>0, <1>c, <2>1, <2>2 DEF CodeInv, ReadExpected, ReadShellUiCode, Transfer,
        WriteFrom
  <2> QED
    BY <2>5, <2>6, <2>7, <2>8, <2>9, <2>10, <2>11
<1> QED
    BY <1>a, <1>b, <1>c

\* FW 9.00: a page that could not be opened is a write that failed.
LEMMA OpenRwxStep ==
    ASSUME PatchInv, NEW a \in Answers, OpenRwx(a)
    PROVE  PatchInv'
<1> USE DEF PatchInv
<1>1. TypeOK'
  <2>1. report' \in Report
    BY DEF TypeOK, Protected, CheckAt, OpenRwx
  <2>2. /\ prot' \in SUBSET Flags /\ savedProt' \in (SUBSET Flags) \cup {NoProt}
        /\ protBefore' \in SUBSET Flags /\ protLeft' \in SUBSET Flags
    BY DEF TypeOK, Protected, CheckAt, OpenRwx
  <2>3. widened' \in BOOLEAN
    BY DEF OpenRwx
  <2>6. stopped' \in BOOLEAN /\ protRestored' \in BOOLEAN /\ writeOk' \in BOOLEAN
    BY DEF TypeOK, OpenRwx
  <2>4. /\ pc' \in Stages /\ fw' \in Families /\ polls' \in 0 .. MaxPolls /\ request' \in Request
        /\ attempt' \in {"patch", "rollback"} /\ code' \in Bytes /\ codeBefore' \in Bytes
        /\ codeLeft' \in Bytes
    BY DEF TypeOK, Protected, CheckAt, OpenRwx
  <2>5. /\ auth' \in {"own", "ptrace", "coredump"} /\ savedAuth' \in {"own", "ptrace", "coredump"}
        /\ authBefore' \in {"own", "ptrace", "coredump"}
        /\ caps' \in {"own", "all"} /\ capsBefore' \in {"own", "all"}
    BY DEF TypeOK, Protected, CheckAt, OpenRwx
  <2> QED
    BY <2>1, <2>2, <2>3, <2>4, <2>5, <2>6 DEF TypeOK
<1>2. StageInv'
    BY DEF StageInv, TypeOK, ReportInv, Protected, CheckAt, OpenRwx
<1>3. ReportInv'
    BY DEF ReportInv, Protected, CheckAt, OpenRwx
<1>4. CredentialInv'
    BY DEF CredentialInv, Protected, CheckAt, OpenRwx
<1>5. PageInv'
    BY DEF PageInv, Protected, CheckAt, OpenRwx
<1>6. LeftPageInv'
    BY DEF LeftPageInv, Protected, CheckAt, OpenRwx
<1>7. CodeInv'
    BY DEF CodeInv, Protected, CheckAt, OpenRwx
<1> QED
    BY <1>1, <1>2, <1>3, <1>4, <1>5, <1>6, <1>7

\* FW 11.60: without a look at the page only a saved protection is put back.
LEMMA OpenUnseenStep ==
    ASSUME PatchInv, NEW a \in Answers, NEW seen \in BOOLEAN, OpenUnseen(a, seen)
    PROVE  PatchInv'
<1> USE DEF PatchInv
<1>1. TypeOK'
  <2>1. report' \in Report
    BY DEF TypeOK, Protected, CheckAt, Saved, OpenUnseen
  <2>2. prot' \in SUBSET Flags
    <3>1. prot' = prot \/ (Saved /\ prot' = savedProt)
      BY DEF OpenUnseen, Protected
    <3>2. prot \in SUBSET Flags /\ savedProt \in (SUBSET Flags) \cup {NoProt}
      BY DEF TypeOK
    <3> QED
      BY <3>1, <3>2 DEF Saved
  <2>3. protRestored' \in BOOLEAN
    <3>1. CASE Saved
      BY <3>1 DEF OpenUnseen
    <3>2. CASE ~ Saved
      BY <3>2 DEF OpenUnseen
    <3> QED
      BY <3>1, <3>2
  <2>6. stopped' \in BOOLEAN /\ widened' \in BOOLEAN /\ writeOk' \in BOOLEAN
    BY DEF TypeOK, OpenUnseen
  <2>7. /\ savedProt' \in (SUBSET Flags) \cup {NoProt}
        /\ protBefore' \in SUBSET Flags /\ protLeft' \in SUBSET Flags
    BY DEF TypeOK, OpenUnseen
  <2>4. /\ pc' \in Stages /\ fw' \in Families /\ polls' \in 0 .. MaxPolls /\ request' \in Request
        /\ attempt' \in {"patch", "rollback"} /\ code' \in Bytes /\ codeBefore' \in Bytes
        /\ codeLeft' \in Bytes
    BY DEF TypeOK, Protected, CheckAt, Saved, OpenUnseen
  <2>5. /\ auth' \in {"own", "ptrace", "coredump"} /\ savedAuth' \in {"own", "ptrace", "coredump"}
        /\ authBefore' \in {"own", "ptrace", "coredump"}
        /\ caps' \in {"own", "all"} /\ capsBefore' \in {"own", "all"}
    BY DEF TypeOK, Protected, CheckAt, Saved, OpenUnseen
  <2> QED
    BY <2>1, <2>2, <2>3, <2>4, <2>5, <2>6, <2>7 DEF TypeOK
<1>2. StageInv'
    BY DEF StageInv, TypeOK, ReportInv, Protected, CheckAt, Saved, OpenUnseen
<1>3. ReportInv'
    BY DEF ReportInv, Protected, CheckAt, Saved, OpenUnseen
<1>4. CredentialInv'
    BY DEF CredentialInv, Protected, CheckAt, Saved, OpenUnseen
<1>5. PageInv'
    BY DEF PageInv, TypeOK, StageInv, ReportInv, Protected, CheckAt, Saved, OpenUnseen
<1>6. LeftPageInv'
    BY DEF LeftPageInv, Protected, CheckAt, Saved, OpenUnseen
<1>7. CodeInv'
    BY DEF CodeInv, Protected, CheckAt, Saved, OpenUnseen
<1> QED
    BY <1>1, <1>2, <1>3, <1>4, <1>5, <1>6, <1>7

\* The protection saved first is the old one, and stays it in the rollback.
LEMMA OpenSeenStep ==
    ASSUME PatchInv, OpenSeen
    PROVE  PatchInv'
<1> USE DEF PatchInv
<1>1. TypeOK'
  <2>1. report' \in Report
    BY DEF TypeOK, CheckAt, Saved, Writable, ProtToRestore, OpenSeen
  <2>2. /\ prot' \in SUBSET Flags /\ savedProt' \in (SUBSET Flags) \cup {NoProt}
        /\ protBefore' \in SUBSET Flags /\ protLeft' \in SUBSET Flags
    BY DEF TypeOK, CheckAt, Saved, Writable, ProtToRestore, OpenSeen
  <2>3. /\ stopped' \in BOOLEAN /\ protRestored' \in BOOLEAN /\ widened' \in BOOLEAN
        /\ writeOk' \in BOOLEAN
    BY DEF TypeOK, CheckAt, Saved, Writable, ProtToRestore, OpenSeen
  <2>4. /\ pc' \in Stages /\ fw' \in Families /\ polls' \in 0 .. MaxPolls /\ request' \in Request
        /\ attempt' \in {"patch", "rollback"} /\ code' \in Bytes /\ codeBefore' \in Bytes
        /\ codeLeft' \in Bytes
    BY DEF TypeOK, CheckAt, Saved, Writable, ProtToRestore, OpenSeen
  <2>5. /\ auth' \in {"own", "ptrace", "coredump"} /\ savedAuth' \in {"own", "ptrace", "coredump"}
        /\ authBefore' \in {"own", "ptrace", "coredump"}
        /\ caps' \in {"own", "all"} /\ capsBefore' \in {"own", "all"}
    BY DEF TypeOK, CheckAt, Saved, Writable, ProtToRestore, OpenSeen
  <2> QED
    BY <2>1, <2>2, <2>3, <2>4, <2>5 DEF TypeOK
<1>2. StageInv'
    BY DEF StageInv, TypeOK, ReportInv, CheckAt, Saved, Writable, ProtToRestore, OpenSeen
<1>3. ReportInv'
    BY DEF ReportInv, CheckAt, Saved, Writable, ProtToRestore, OpenSeen
<1>4. CredentialInv'
    BY DEF CredentialInv, CheckAt, Saved, Writable, ProtToRestore, OpenSeen
<1>5. PageInv'
    BY DEF PageInv, CheckAt, Saved, Writable, ProtToRestore, OpenSeen
<1>6. LeftPageInv'
    BY DEF LeftPageInv, CheckAt, Saved, Writable, ProtToRestore, OpenSeen
<1>7. CodeInv'
    BY DEF CodeInv, CheckAt, Saved, Writable, ProtToRestore, OpenSeen
<1> QED
    BY <1>1, <1>2, <1>3, <1>4, <1>5, <1>6, <1>7

\* The page becomes writable after the old protection is known.
LEMMA WidenStep ==
    ASSUME PatchInv, NEW a \in Answers, NEW seen \in BOOLEAN, Widen(a, seen)
    PROVE  PatchInv'
<1> USE DEF PatchInv
<1>1. TypeOK'
    BY DEF TypeOK, StageInv, PageInv, Protected, Writable, Widen
<1>2. StageInv'
    BY DEF StageInv, Protected, Writable, Widen
<1>3. ReportInv'
    BY DEF ReportInv, Protected, Writable, Widen
<1>4. CredentialInv'
    BY DEF CredentialInv, Protected, Writable, Widen
<1>5. PageInv'
    BY DEF PageInv, TypeOK, StageInv, ReportInv, Protected, Writable, Widen
<1>6. LeftPageInv'
    BY DEF LeftPageInv, Protected, Writable, Widen
<1>7. CodeInv'
    BY DEF CodeInv, Protected, Writable, Widen
<1> QED
    BY <1>1, <1>2, <1>3, <1>4, <1>5, <1>6, <1>7

\* A write that loses credentials is one that failed.
LEMMA WriteStep ==
    ASSUME PatchInv, NEW ok \in BOOLEAN, NEW effect \in {"all", "none", "part"}, WriteBytes(ok, effect)
    PROVE  PatchInv'
<1> USE DEF PatchInv
<1>1. TypeOK'
    BY DEF TypeOK, Target, Transfer, CheckAt, WriteBytes
<1>2. StageInv'
    BY DEF StageInv, TypeOK, ReportInv, Target, Transfer, CheckAt, WriteBytes
<1>3. ReportInv'
    BY DEF ReportInv, Target, Transfer, CheckAt, WriteBytes
<1>4. CredentialInv'
    BY DEF CredentialInv, Target, Transfer, CheckAt, WriteBytes
<1>5. PageInv'
    BY DEF PageInv, Target, Transfer, CheckAt, WriteBytes
<1>6. LeftPageInv'
    BY DEF LeftPageInv, Target, Transfer, CheckAt, WriteBytes
<1>7. CodeInv'
    BY DEF CodeInv, Target, Transfer, CheckAt, WriteBytes
<1> QED
    BY <1>1, <1>2, <1>3, <1>4, <1>5, <1>6, <1>7

\* FW 9.00: a write counts only with the page back at RX.
LEMMA CloseRwxStep ==
    ASSUME PatchInv, NEW a \in Answers, CloseRwx(a)
    PROVE  PatchInv'
<1> USE DEF PatchInv
<1>1. TypeOK'
    BY DEF TypeOK, Protected, CheckAt, CloseRwx
<1>2. StageInv'
    BY DEF StageInv, TypeOK, ReportInv, Protected, CheckAt, CloseRwx
<1>3. ReportInv'
    BY DEF ReportInv, Protected, CheckAt, CloseRwx
<1>4. CredentialInv'
    BY DEF CredentialInv, Protected, CheckAt, CloseRwx
<1>5. PageInv'
    BY DEF PageInv, TypeOK, StageInv, ReportInv, Protected, CheckAt, CloseRwx
<1>6. LeftPageInv'
    BY DEF LeftPageInv, Protected, CheckAt, CloseRwx
<1>7. CodeInv'
    BY DEF CodeInv, Protected, CheckAt, CloseRwx
<1> QED
    BY <1>1, <1>2, <1>3, <1>4, <1>5, <1>6, <1>7

\* FW 11.60: a write counts only with the old protection seen again.
LEMMA CloseWindowStep ==
    ASSUME PatchInv, NEW a \in Answers, NEW seen \in BOOLEAN, CloseWindow(a, seen)
    PROVE  PatchInv'
<1> USE DEF PatchInv
<1>1. TypeOK'
    BY DEF TypeOK, StageInv, PageInv, Protected, CheckAt, WindowWriteOk, CloseWindow
<1>2. StageInv'
    BY DEF StageInv, TypeOK, ReportInv, Protected, CheckAt, WindowWriteOk, CloseWindow
<1>3. ReportInv'
    BY DEF ReportInv, Protected, CheckAt, WindowWriteOk, CloseWindow
<1>4. CredentialInv'
    BY DEF CredentialInv, Protected, CheckAt, WindowWriteOk, CloseWindow
<1>5. PageInv'
    BY DEF PageInv, TypeOK, StageInv, ReportInv, Protected, CheckAt, WindowWriteOk,
        CloseWindow
<1>6. LeftPageInv'
    BY DEF LeftPageInv, Protected, CheckAt, WindowWriteOk, CloseWindow
<1>7. CodeInv'
    BY DEF CodeInv, Protected, CheckAt, WindowWriteOk, CloseWindow
<1> QED
    BY <1>1, <1>2, <1>3, <1>4, <1>5, <1>6, <1>7

\* Success needs the wanted bytes and a write that counts; a rollback is skipped
\* only where bytes and page are the old ones.
LEMMA VerifyStep ==
    ASSUME PatchInv, NEW ok \in BOOLEAN, Verify(ok)
    PROVE  PatchInv'
<1> USE DEF PatchInv
<1> DEFINE verified == ok /\ code = "ours"
           still == StillOriginal(ok)
           failure == IF writeOk THEN "VerifyFailure" ELSE "WriteFailure"
<1>0. /\ pc = "verify" /\ attempt = "patch" /\ request.kind # "probe"
      /\ report \in Report /\ report.matched /\ ~ report.restored /\ ~ report.detached
      /\ ~ report.authRestored /\ writeOk \in BOOLEAN
    BY DEF Verify, TypeOK, StageInv, ReportInv
<1>a. CASE verified /\ writeOk
  <2>1. /\ report' = [report EXCEPT !.verified = TRUE, !.status = "Success"]
        /\ pc' = "detach" /\ attempt' = attempt
    BY <1>a DEF Verify
  <2>2. /\ report' \in Report /\ report'.status = "Success" /\ report'.matched
        /\ report'.verified /\ ~ report'.restored /\ ~ report'.detached
        /\ ~ report'.authRestored
    BY <1>0, <2>1
  <2>4. auth' \in {"own", "ptrace", "coredump"} /\ caps' \in {"own", "all"}
    BY DEF TypeOK, Verify, ReadShellUiCode, Transfer
  <2>5. TypeOK'
    BY <1>0, <1>a, <2>1, <2>2, <2>4 DEF TypeOK, Verify
  <2>6. StageInv'
    BY <1>0, <1>a, <2>1, <2>2 DEF StageInv, Verify, ReadShellUiCode, Transfer
  <2>7. ReportInv'
    BY <1>0, <1>a, <2>1, <2>2 DEF ReportInv, Verify, ReadShellUiCode, Transfer
  <2>8. CredentialInv'
    BY <1>0, <1>a, <2>1, <2>2 DEF CredentialInv, Verify, ReadShellUiCode, Transfer
  <2>9. PageInv'
    BY <1>0, <1>a, <2>1, <2>2 DEF PageInv, Verify, ReadShellUiCode, Transfer
  <2>10. LeftPageInv'
    BY <1>0, <1>a, <2>1, <2>2 DEF LeftPageInv, TypeOK, StageInv, PageInv, Verify,
        ReadShellUiCode, Transfer
  <2>11. CodeInv'
    BY <1>0, <1>a, <2>1, <2>2 DEF CodeInv, Verify, ReadShellUiCode, Transfer
  <2> QED
    BY <2>5, <2>6, <2>7, <2>8, <2>9, <2>10, <2>11
<1>b. CASE ~ (verified /\ writeOk)
  <2> HIDE DEF failure
  <2>1. /\ report' = [report EXCEPT !.verified = verified, !.restored = still,
                                    !.status = failure]
        /\ pc' = IF still THEN "detach" ELSE WriteFrom
        /\ attempt' = "rollback"
    BY <1>b DEF Verify, failure
  <2>2. verified \in BOOLEAN /\ still \in BOOLEAN /\ failure \in {"VerifyFailure", "WriteFailure"}
    BY <1>0 DEF StillOriginal, failure
  <2> HIDE DEF verified, still
  <2>3. /\ report' \in Report /\ report'.status = failure /\ report'.matched
        /\ report'.restored = still /\ ~ report'.detached /\ ~ report'.authRestored
    BY <1>0, <2>1, <2>2
  <2>4. auth' \in {"own", "ptrace", "coredump"} /\ caps' \in {"own", "all"}
    BY DEF TypeOK, Verify, ReadShellUiCode, Transfer
  <2>5. TypeOK'
    BY <1>0, <1>b, <2>1, <2>2, <2>3, <2>4 DEF TypeOK, Verify, WriteFrom
  <2>6. StageInv'
    BY <1>0, <1>b, <2>1, <2>2, <2>3 DEF StageInv, Verify, ReadShellUiCode, Transfer,
        WriteFrom, StillOriginal, still
  <2>7. ReportInv'
    BY <1>0, <1>b, <2>1, <2>2, <2>3 DEF ReportInv, Verify, ReadShellUiCode, Transfer,
        WriteFrom, StillOriginal, still
  <2>8. CredentialInv'
    BY <1>0, <1>b, <2>1, <2>2, <2>3 DEF CredentialInv, Verify, ReadShellUiCode, Transfer,
        WriteFrom, StillOriginal, still
  <2>9. PageInv'
    BY <1>0, <1>b, <2>1, <2>2, <2>3 DEF PageInv, Verify, ReadShellUiCode, Transfer,
        WriteFrom, StillOriginal, still
  <2>10. LeftPageInv'
    BY <1>0, <1>b, <2>1, <2>2, <2>3 DEF LeftPageInv, TypeOK, StageInv, PageInv, Verify,
        ReadShellUiCode, Transfer, WriteFrom, StillOriginal, still
  <2>11. CodeInv'
    BY <1>0, <1>b, <2>1, <2>2, <2>3 DEF CodeInv, Verify, ReadShellUiCode, Transfer,
        WriteFrom, StillOriginal, still
  <2> QED
    BY <2>5, <2>6, <2>7, <2>8, <2>9, <2>10, <2>11
<1> QED
    BY <1>a, <1>b

\* The old bytes count as restored only after a write that counts.
LEMMA CheckStep ==
    ASSUME PatchInv, NEW ok \in BOOLEAN, CheckRollback(ok)
    PROVE  PatchInv'
<1> USE DEF PatchInv
<1>1. TypeOK'
    BY DEF TypeOK, StageInv, ReportInv, ReadShellUiCode, Transfer, RolledBack, CheckRollback
<1>2. StageInv'
    BY DEF StageInv, ReadShellUiCode, Transfer, RolledBack, CheckRollback
<1>3. ReportInv'
    BY DEF ReportInv, TypeOK, StageInv, ReadShellUiCode, Transfer, RolledBack, CheckRollback
<1>4. CredentialInv'
    BY DEF CredentialInv, TypeOK, StageInv, ReportInv, ReadShellUiCode, Transfer,
        RolledBack, CheckRollback
<1>5. PageInv'
    BY DEF PageInv, ReadShellUiCode, Transfer, RolledBack, CheckRollback
<1>6. LeftPageInv'
    BY DEF LeftPageInv, TypeOK, StageInv, ReportInv, PageInv, ReadShellUiCode, Transfer,
        RolledBack, CheckRollback
<1>7. CodeInv'
    BY DEF CodeInv, TypeOK, StageInv, ReportInv, ReadShellUiCode, Transfer, RolledBack,
        CheckRollback
<1> QED
    BY <1>1, <1>2, <1>3, <1>4, <1>5, <1>6, <1>7

\* What ShellUI resumes with is what the report was made of.
LEMMA DetachStep ==
    ASSUME PatchInv, NEW ok \in BOOLEAN, NEW resumed \in BOOLEAN, Detach(ok, resumed)
    PROVE  PatchInv'
<1> USE DEF PatchInv
<1>1. TypeOK'
  <2>1. report' \in Report
    BY DEF TypeOK, PatchApplied, Detach
  <2>2. /\ prot' \in SUBSET Flags /\ savedProt' \in (SUBSET Flags) \cup {NoProt}
        /\ protBefore' \in SUBSET Flags /\ protLeft' \in SUBSET Flags
    BY DEF TypeOK, PatchApplied, Detach
  <2>3. /\ stopped' \in BOOLEAN /\ protRestored' \in BOOLEAN /\ widened' \in BOOLEAN
        /\ writeOk' \in BOOLEAN
    BY DEF TypeOK, PatchApplied, Detach
  <2>4. /\ pc' \in Stages /\ fw' \in Families /\ polls' \in 0 .. MaxPolls /\ request' \in Request
        /\ attempt' \in {"patch", "rollback"} /\ code' \in Bytes /\ codeBefore' \in Bytes
        /\ codeLeft' \in Bytes
    BY DEF TypeOK, PatchApplied, Detach
  <2>5. /\ auth' \in {"own", "ptrace", "coredump"} /\ savedAuth' \in {"own", "ptrace", "coredump"}
        /\ authBefore' \in {"own", "ptrace", "coredump"}
        /\ caps' \in {"own", "all"} /\ capsBefore' \in {"own", "all"}
    BY DEF TypeOK, PatchApplied, Detach
  <2> QED
    BY <2>1, <2>2, <2>3, <2>4, <2>5 DEF TypeOK
<1>2. StageInv'
    BY DEF StageInv, PatchApplied, Detach
<1>3. ReportInv'
    BY DEF ReportInv, TypeOK, StageInv, PatchApplied, Detach
<1>4. CredentialInv'
    BY DEF CredentialInv, PatchApplied, Detach
<1>5. PageInv'
    BY DEF PageInv, PatchApplied, Detach
<1>6. LeftPageInv'
    BY DEF LeftPageInv, PatchApplied, Detach
<1>7. CodeInv'
    BY DEF CodeInv, TypeOK, StageInv, ReportInv, PatchApplied, Detach
<1> QED
    BY <1>1, <1>2, <1>3, <1>4, <1>5, <1>6, <1>7

\* The authority counts as restored only when the saved one is read back.
LEMMA ReturnStep ==
    ASSUME PatchInv, NEW a \in Answers, ReturnAuthority(a)
    PROVE  PatchInv'
<1> USE DEF PatchInv
<1>1. TypeOK'
  <2>1. report' \in Report
    BY DEF TypeOK, PatchApplied, ReturnAuthority
  <2>2. /\ prot' \in SUBSET Flags /\ savedProt' \in (SUBSET Flags) \cup {NoProt}
        /\ protBefore' \in SUBSET Flags /\ protLeft' \in SUBSET Flags
    BY DEF TypeOK, PatchApplied, ReturnAuthority
  <2>3. /\ stopped' \in BOOLEAN /\ protRestored' \in BOOLEAN /\ widened' \in BOOLEAN
        /\ writeOk' \in BOOLEAN
    BY DEF TypeOK, PatchApplied, ReturnAuthority
  <2>4. /\ pc' \in Stages /\ fw' \in Families /\ polls' \in 0 .. MaxPolls /\ request' \in Request
        /\ attempt' \in {"patch", "rollback"} /\ code' \in Bytes /\ codeBefore' \in Bytes
        /\ codeLeft' \in Bytes
    BY DEF TypeOK, PatchApplied, ReturnAuthority
  <2>5. /\ auth' \in {"own", "ptrace", "coredump"} /\ savedAuth' \in {"own", "ptrace", "coredump"}
        /\ authBefore' \in {"own", "ptrace", "coredump"}
        /\ caps' \in {"own", "all"} /\ capsBefore' \in {"own", "all"}
    BY DEF TypeOK, PatchApplied, ReturnAuthority
  <2> QED
    BY <2>1, <2>2, <2>3, <2>4, <2>5 DEF TypeOK
<1>2. StageInv'
    BY DEF StageInv, PatchApplied, ReturnAuthority
<1>3. ReportInv'
    BY DEF ReportInv, PatchApplied, ReturnAuthority
<1>4. CredentialInv'
    BY DEF CredentialInv, TypeOK, StageInv, ReportInv, PatchApplied, ReturnAuthority
<1>5. PageInv'
    BY DEF PageInv, PatchApplied, ReturnAuthority
<1>6. LeftPageInv'
    BY DEF LeftPageInv, PatchApplied, ReturnAuthority
<1>7. CodeInv'
    BY DEF CodeInv, PatchApplied, ReturnAuthority
<1> QED
    BY <1>1, <1>2, <1>3, <1>4, <1>5, <1>6, <1>7

\* Another program changes the code of a running ShellUI only.
LEMMA ForeignStep ==
    ASSUME PatchInv, ForeignHook
    PROVE  PatchInv'
<1> USE DEF PatchInv
<1>1. TypeOK'
    BY DEF TypeOK, ForeignHook
<1>2. StageInv'
    BY DEF StageInv, ForeignHook
<1>3. ReportInv'
    BY DEF ReportInv, ForeignHook
<1>4. CredentialInv'
    BY DEF CredentialInv, ForeignHook
<1>5. PageInv'
    BY DEF PageInv, ForeignHook
<1>6. LeftPageInv'
    BY DEF LeftPageInv, ForeignHook
<1>7. CodeInv'
    BY DEF CodeInv, TypeOK, StageInv, ReportInv, ForeignHook
<1> QED
    BY <1>1, <1>2, <1>3, <1>4, <1>5, <1>6, <1>7

------------------------------------------------------------------------------
\* Every step of the controller, of the kernel's answers and of the other
\* program keeps the invariant.
LEMMA PatchStep == PatchInv /\ [Next]_vars => PatchInv'
<1> SUFFICES ASSUME PatchInv, [Next]_vars PROVE PatchInv'
    OBVIOUS
<1>1. ASSUME NEW ok \in BOOLEAN,
             \/ Attach(ok) \/ ReadExpected(ok) \/ Verify(ok) \/ CheckRollback(ok)
      PROVE PatchInv'
    BY <1>1, AttachStep, ReadStep, VerifyStep, CheckStep
<1>2. ASSUME NEW ok \in BOOLEAN, NEW effect \in {"all", "none", "part"}, WriteBytes(ok, effect)
      PROVE PatchInv'
    BY <1>2, WriteStep
<1>3. ASSUME NEW ok \in BOOLEAN, NEW resumed \in BOOLEAN, Detach(ok, resumed)
      PROVE PatchInv'
    BY <1>3, DetachStep
<1>4. ASSUME NEW a \in Answers,
             BorrowAuthority(a) \/ OpenRwx(a) \/ CloseRwx(a) \/ ReturnAuthority(a)
      PROVE PatchInv'
    BY <1>4, BorrowStep, OpenRwxStep, CloseRwxStep, ReturnStep
<1>5. ASSUME NEW a \in Answers, NEW seen \in BOOLEAN,
             OpenUnseen(a, seen) \/ Widen(a, seen) \/ CloseWindow(a, seen)
      PROVE PatchInv'
    BY <1>5, OpenUnseenStep, WidenStep, CloseWindowStep
<1>6. ASSUME NEW r \in Request, Poll(r)
      PROVE PatchInv'
    BY <1>6, PollStep
<1>7. CASE OpenSeen \/ ForeignHook
    BY <1>7, OpenSeenStep, ForeignStep
<1>8. CASE UNCHANGED vars
    BY <1>8 DEF vars, PatchInv, TypeOK, StageInv, ReportInv, CredentialInv, PageInv, LeftPageInv,
           CodeInv
<1> QED
    BY <1>1, <1>2, <1>3, <1>4, <1>5, <1>6, <1>7, <1>8 DEF Next

\* The inductive invariant holds in every reachable state.
LEMMA PatchInvariant == Spec => []PatchInv
    BY PatchInit, PatchStep, PTL DEF Spec

\* What an answer of poll_and_apply_shellui_hook tells the renderer is so: an
\* accepted patch left the page, the process and the authority as they were, a
\* patch that is said not to be there left the old page, and lost credentials
\* show in the answer.  For every set of firmware families, any number of
\* requests, and whichever kernel calls fail or only half succeed.
THEOREM AnswersAreTrue == Spec => []TransactionInv
<1>1. ASSUME PatchInv PROVE AcceptedIsClean
    BY <1>1 DEF PatchInv, TypeOK, ReportInv, CredentialInv, LeftPageInv, AcceptedIsClean, Accepted
<1>2. ASSUME PatchInv PROVE RestoredIsClean
    BY <1>2 DEF PatchInv, LeftPageInv, RestoredIsClean
<1>3. ASSUME PatchInv PROVE LossIsReported
    BY <1>3 DEF PatchInv, CredentialInv, LossIsReported
<1>4. PatchInv => TransactionInv
    BY <1>1, <1>2, <1>3 DEF PatchInv, TransactionInv
<1> QED
    BY <1>4, PatchInvariant, PTL

------------------------------------------------------------------------------
(***************************************************************************)
(* The refinement, one abstract step or stutter per stage.                 *)
(***************************************************************************)
\* Initially nothing is asked for and the code is what it is.
LEMMA PromiseInit == Init => Promise!Init
<1> SUFFICES ASSUME Init PROVE Promise!Init
    OBVIOUS
<1>1. Phase = "rest" /\ Verdict = "none"
    BY DEF Init, Phase, Verdict
<1>2. request.expected \in Bytes
    BY DEF Init, NoRequest
<1>3. code \in Bytes /\ codeBefore = code /\ codeLeft = code
    BY DEF Init
<1> QED
    BY <1>1, <1>2, <1>3 DEF Promise!Init, Promise!NoVerdict

\* A request that is refused is answered "unchanged", one that is taken starts.
LEMMA PollPromise ==
    ASSUME PatchInv, NEW r \in Request, Poll(r)
    PROVE  Promise!Next
<1>1. pc = "idle" /\ polls \in Nat /\ polls' # 0 /\ code' = code
    BY DEF PatchInv, TypeOK, Poll
<1>2. codeBefore' = code /\ codeLeft' = code /\ request'.expected \in Bytes
    BY DEF Poll
<1>3. Phase = "rest"
    BY <1>1 DEF Phase
<1>4. CASE pc' = "auth"
  <2>1. Phase' = "taken" /\ Verdict' = "none"
    BY <1>4 DEF Phase, Verdict
  <2> QED
    BY <1>1, <1>2, <1>3, <2>1 DEF Promise!Next, Promise!Take, Promise!NoVerdict
<1>5. CASE pc' = pc
  <2>1. ~ Accepted' /\ ~ report'.matched
    <3>1. \/ report' = FreshReport
          \/ report' = [FreshReport EXCEPT !.status = "UnsupportedFirmware"]
      BY DEF Poll
    <3> QED
      BY <3>1, Fresh DEF Accepted
  <2>2. Phase' = "rest" /\ Verdict' = "unchanged"
    BY <1>1, <1>5, <2>1 DEF Phase, Verdict
  <2> QED
    BY <1>1, <1>2, <1>3, <2>2 DEF Promise!Next, Promise!Refuse
<1> QED
    BY <1>4, <1>5 DEF Poll

\* Without the authority the request is refused, with it nothing is seen yet.
LEMMA BorrowPromise ==
    ASSUME PatchInv, NEW a \in Answers, BorrowAuthority(a)
    PROVE  [Promise!Next]_(Promise!vars)
<1>1. /\ pc = "auth" /\ polls' # 0 /\ code' = code /\ codeBefore' = codeBefore
      /\ codeLeft' = codeLeft /\ codeBefore = codeLeft /\ request' = request
      /\ request.expected \in Bytes
    BY DEF PatchInv, TypeOK, StageInv, CodeInv, BorrowAuthority
<1>2. Phase = "taken" /\ Verdict = "none"
    BY <1>1 DEF Phase, Verdict
<1>3. CASE a = "done"
  <2>1. Phase' = "taken" /\ Verdict' = "none"
    BY <1>3 DEF BorrowAuthority, Phase, Verdict
  <2> QED
    BY <1>1, <1>2, <2>1 DEF Promise!vars
<1>4. CASE a # "done"
  <2>1. report' = [report EXCEPT !.status = "AuthFailure"] /\ pc' = "idle"
    BY <1>4 DEF BorrowAuthority
  <2>2. report'.status = "AuthFailure" /\ ~ report'.matched
    BY <1>1, <2>1 DEF PatchInv, TypeOK, ReportInv
  <2>3. Phase' = "rest" /\ Verdict' = "unchanged"
    BY <1>1, <2>1, <2>2 DEF Phase, Verdict, Accepted
  <2> QED
    BY <1>1, <1>2, <2>3 DEF Promise!Next, Promise!Refuse
<1> QED
    BY <1>3, <1>4

\* ShellUI stops with the code it executed.
LEMMA AttachPromise ==
    ASSUME PatchInv, NEW ok \in BOOLEAN, Attach(ok)
    PROVE  [Promise!Next]_(Promise!vars)
<1>1. pc = "attach" /\ code' = code /\ request' = request
    BY DEF Attach
<1>2. Phase = "taken" /\ Verdict = "none"
    BY <1>1 DEF Phase, Verdict
<1>3. CASE ok
  <2>1. pc' = "read" /\ codeBefore' = code /\ codeLeft' = code
    BY <1>3 DEF Attach
  <2>2. Phase' = "stopped" /\ Verdict' = "none"
    BY <2>1 DEF Phase, Verdict
  <2> QED
    BY <1>1, <1>2, <2>1, <2>2 DEF Promise!Next, Promise!Stop
<1>4. CASE ~ ok
  <2>1. /\ report' = [report EXCEPT !.status = "AttachFailure"] /\ pc' = "return"
        /\ codeBefore' = codeBefore /\ codeLeft' = codeLeft
    BY <1>4 DEF Attach
  <2>2. report'.status = "AttachFailure"
    BY <2>1 DEF PatchInv, TypeOK
  <2>3. Phase' = "taken" /\ Verdict' = "none"
    BY <2>1, <2>2 DEF Phase, Verdict
  <2> QED
    BY <1>1, <1>2, <2>1, <2>3 DEF Promise!vars
<1> QED
    BY <1>3, <1>4

\* Between the stop and the detach nothing is seen of reads, writes, windows,
\* verification and rollback.
LEMMA HeldPromise ==
    ASSUME PatchInv, Held, Held', request' = request, codeBefore' = codeBefore,
           codeLeft' = codeLeft
    PROVE  UNCHANGED Promise!vars
<1>1. Phase = "stopped" /\ Verdict = "none"
    BY DEF Phase, Verdict
<1>2. Phase' = "stopped" /\ Verdict' = "none"
    BY DEF Phase, Verdict
<1> QED
    BY <1>1, <1>2 DEF Promise!vars

\* ShellUI resumes with whatever code the transaction leaves.
LEMMA DetachPromise ==
    ASSUME PatchInv, NEW ok \in BOOLEAN, NEW resumed \in BOOLEAN, Detach(ok, resumed)
    PROVE  Promise!Next
<1>1. /\ pc = "detach" /\ pc' = "return" /\ code' = code /\ code \in Bytes
      /\ codeLeft' = code /\ codeBefore' = codeBefore /\ request' = request
    BY DEF PatchInv, TypeOK, Detach
<1>2. report'.status # "AttachFailure"
  <2>1. report' = [report EXCEPT !.detached = ok,
                     !.status = IF ~ ok /\ PatchApplied THEN "DetachFailure" ELSE @]
    BY DEF Detach
  <2>2. report \in Report /\ report.status # "AttachFailure"
    BY <1>1 DEF PatchInv, TypeOK, ReportInv
  <2> QED
    BY <2>1, <2>2
<1>3. Phase = "stopped" /\ Verdict = "none" /\ Phase' = "resumed" /\ Verdict' = "none"
    BY <1>1, <1>2 DEF Phase, Verdict
<1> QED
    BY <1>1, <1>3 DEF Promise!Next, Promise!Resume

\* The answer: after a failed attachment it refuses, otherwise its verdict is
\* true of the code ShellUI was resumed with.
LEMMA ReturnPromise ==
    ASSUME PatchInv, NEW a \in Answers, ReturnAuthority(a)
    PROVE  Promise!Next
<1>1. /\ pc = "return" /\ pc' = "idle" /\ code' = code /\ codeBefore' = codeBefore
      /\ codeLeft' = codeLeft /\ request' = request /\ polls' = polls /\ polls # 0
      /\ request.expected \in Bytes /\ report \in Report /\ Phase' = "rest"
    BY DEF PatchInv, TypeOK, StageInv, ReturnAuthority, Phase
<1>2. /\ report'.matched = report.matched /\ report'.restored = report.restored
      /\ report'.status \in {report.status, "AuthRestoreFailure"}
  <2>1. report' = [report EXCEPT !.authRestored = (a = "done"),
                     !.status = IF a # "done" /\ PatchApplied THEN "AuthRestoreFailure" ELSE @]
    BY DEF ReturnAuthority
  <2> QED
    BY <1>1, <2>1
<1>3. CASE report.status = "AttachFailure"
  <2>1. Phase = "taken" /\ codeBefore = codeLeft
    BY <1>1, <1>3 DEF PatchInv, CodeInv, Phase
  <2>2. ~ report.matched
    BY <1>1, <1>3 DEF PatchInv, ReportInv
  <2>3. Verdict' = "unchanged"
    BY <1>1, <1>2, <1>3, <2>2 DEF Verdict, Accepted
  <2> QED
    BY <1>1, <2>1, <2>3 DEF Promise!Next, Promise!Refuse
<1>4. CASE report.status # "AttachFailure"
  <2>1. Phase = "resumed"
    BY <1>1, <1>4 DEF Phase
  <2>2. /\ request.kind # "probe" /\ report.matched => codeBefore = request.expected
        /\ request.kind = "probe" \/ ~ report.matched \/ report.restored => codeLeft = codeBefore
        /\ request.kind # "probe" /\ report.status = "Success" =>
               codeLeft = "ours" /\ report.matched
    BY <1>1 DEF PatchInv, CodeInv, ReportInv
  <2>3. /\ Verdict' \in {"accepted", "unchanged", "unknown"}
        /\ Verdict' = "accepted" => request.kind # "probe" /\ report.status = "Success"
        /\ Verdict' = "unchanged" =>
               request.kind = "probe" \/ report.restored \/ ~ report.matched
        /\ Verdict' = "unknown" => request.kind # "probe" /\ report.matched
    BY <1>1, <1>2 DEF Verdict, Accepted
  <2> QED
    BY <1>1, <2>1, <2>2, <2>3
       DEF Promise!Next, Promise!Answer, Promise!Truthful, Promise!Verdicts
<1> QED
    BY <1>3, <1>4

\* Another program is seen at once, which is why it needs a running ShellUI.
LEMMA ForeignPromise ==
    ASSUME PatchInv, ForeignHook
    PROVE  Promise!Next
<1>1. /\ pc' = pc /\ report' = report /\ polls' = polls /\ request' = request
      /\ codeBefore' = codeBefore /\ codeLeft' = codeLeft /\ code' = "foreign" /\ ~ stopped
    BY DEF ForeignHook
<1>2. ~ Held /\ pc \in Stages
    BY <1>1 DEF PatchInv, TypeOK, StageInv
<1>3. Phase # "stopped" /\ Phase' = Phase
    BY <1>1, <1>2 DEF Phase
<1>4. Verdict' = Verdict
    BY <1>1 DEF Verdict, Accepted
<1> QED
    BY <1>1, <1>3, <1>4 DEF Promise!Next, Promise!Foreign

\* Which steps are taken while ShellUI is stopped.
LEMMA HeldSteps ==
    ASSUME PatchInv,
           \/ \E ok \in BOOLEAN : \/ ReadExpected(ok) \/ Verify(ok) \/ CheckRollback(ok)
                                  \/ \E effect \in {"all", "none", "part"} : WriteBytes(ok, effect)
           \/ \E a \in Answers : \/ OpenRwx(a) \/ CloseRwx(a)
                                 \/ \E seen \in BOOLEAN : OpenUnseen(a, seen) \/ Widen(a, seen)
                                                          \/ CloseWindow(a, seen)
           \/ OpenSeen
    PROVE  /\ Held /\ Held' /\ request' = request
           /\ codeBefore' = codeBefore /\ codeLeft' = codeLeft
<1>1. ASSUME NEW ok \in BOOLEAN, ReadExpected(ok)
      PROVE Held /\ Held' /\ UNCHANGED <<request, codeBefore, codeLeft>>
    BY <1>1 DEF ReadExpected, WriteFrom
<1>2. ASSUME NEW ok \in BOOLEAN, Verify(ok) \/ CheckRollback(ok)
      PROVE Held /\ Held' /\ UNCHANGED <<request, codeBefore, codeLeft>>
    BY <1>2 DEF Verify, CheckRollback, WriteFrom
<1>3. ASSUME NEW ok \in BOOLEAN, NEW effect \in {"all", "none", "part"}, WriteBytes(ok, effect)
      PROVE Held /\ Held' /\ UNCHANGED <<request, codeBefore, codeLeft>>
    BY <1>3 DEF WriteBytes, CheckAt
<1>4. ASSUME NEW a \in Answers, OpenRwx(a) \/ CloseRwx(a)
      PROVE Held /\ Held' /\ UNCHANGED <<request, codeBefore, codeLeft>>
    BY <1>4 DEF OpenRwx, CloseRwx, CheckAt
<1>5. ASSUME NEW a \in Answers, NEW seen \in BOOLEAN,
             OpenUnseen(a, seen) \/ Widen(a, seen) \/ CloseWindow(a, seen)
      PROVE Held /\ Held' /\ UNCHANGED <<request, codeBefore, codeLeft>>
    BY <1>5 DEF OpenUnseen, Widen, CloseWindow, CheckAt
<1>6. ASSUME OpenSeen
      PROVE Held /\ Held' /\ UNCHANGED <<request, codeBefore, codeLeft>>
    BY <1>6 DEF OpenSeen, CheckAt
<1> QED
    BY <1>1, <1>2, <1>3, <1>4, <1>5, <1>6

\* Every step is a step of the promise or is not seen.
LEMMA PromiseStep == PatchInv /\ [Next]_vars => [Promise!Next]_(Promise!vars)
<1> SUFFICES ASSUME PatchInv, [Next]_vars PROVE [Promise!Next]_(Promise!vars)
    OBVIOUS
<1>1. /\ \A a \in Answers : BorrowAuthority(a) => [Promise!Next]_(Promise!vars)
      /\ \A ok \in BOOLEAN : Attach(ok) => [Promise!Next]_(Promise!vars)
    BY BorrowPromise, AttachPromise
<1>2. ASSUME NEW ok \in BOOLEAN, NEW resumed \in BOOLEAN, Detach(ok, resumed)
      PROVE Promise!Next
    BY <1>2, DetachPromise
<1>3. ASSUME NEW a \in Answers, ReturnAuthority(a)
      PROVE Promise!Next
    BY <1>3, ReturnPromise
<1>4. ASSUME NEW r \in Request, Poll(r)
      PROVE Promise!Next
    BY <1>4, PollPromise
<1>5. CASE ForeignHook
    BY <1>5, ForeignPromise
<1>6. CASE /\ Held /\ Held' /\ request' = request
           /\ codeBefore' = codeBefore /\ codeLeft' = codeLeft
    BY <1>6, HeldPromise
<1>7. CASE UNCHANGED vars
    BY <1>7 DEF vars, Promise!vars, Phase, Verdict, Accepted
<1> QED
    BY <1>1, <1>2, <1>3, <1>4, <1>5, <1>6, <1>7, HeldSteps DEF Next

\* The transaction implements HookPatch: ShellUI never executes a content that
\* is neither the old one nor the one it is resumed with, bytes other than the
\* expected ones are never replaced, and the verdict the renderer reads from
\* the answer is true of the code ShellUI resumed with.
THEOREM KeepsPromise == Spec => ImplementsPromise
<1>1. Init => Promise!Init
    BY PromiseInit
<1>2. PatchInv /\ [Next]_vars => [Promise!Next]_(Promise!vars)
    BY PromiseStep
<1> QED
    BY <1>1, <1>2, PatchInvariant, PTL DEF Spec, ImplementsPromise, Promise!Spec

------------------------------------------------------------------------------
(***************************************************************************)
(* The handshakes.                                                         *)
(***************************************************************************)
NoGuard == INSTANCE HookHandshakeProofs WITH
    Supported <- FALSE, stopped <- halted, guard <- guardByte
WithGuard == INSTANCE HookHandshakeProofs WITH
    Supported <- TRUE, stopped <- halted, guard <- guardByte

\* The two names of each action are one.
LEMMA UnguardedSteps ==
    /\ Unguarded!Init => NoGuard!Init
    /\ Unguarded!Next => NoGuard!Next
    /\ UNCHANGED handshake => UNCHANGED NoGuard!vars
    /\ NoGuard!HandshakeInv => Unguarded!HandshakeInv
    /\ NoGuard!ReadyIsPatched => Guarded!ReadyIsPatched
<1>1. Unguarded!Init => NoGuard!Init
    BY DEF Unguarded!Init, Unguarded!NoFile, NoGuard!Init, NoGuard!NoFile
<1>2. Unguarded!Next => NoGuard!Next
    BY DEF
         Unguarded!files, Unguarded!renderer, Unguarded!controller,
         Unguarded!console, Unguarded!NoFile, Unguarded!Short, Unguarded!Contents,
         Unguarded!GuardBytes, Unguarded!Stages, Unguarded!Ended, Unguarded!Site,
         Unguarded!IsProbe, Unguarded!Nonce, Unguarded!Running,
         Unguarded!BeginPublish, Unguarded!EndPublish, Unguarded!Fail,
         Unguarded!PublishFails, Unguarded!AckTimeout, Unguarded!AckIsMine,
         Unguarded!Enter, Unguarded!SeeGuardProbe, Unguarded!SeeGuard,
         Unguarded!SeeUpdateProbe, Unguarded!SeeUpdate, Unguarded!SeeAck,
         Unguarded!WriteMarker, Unguarded!Inject, Unguarded!EndWait,
         Unguarded!ReadRequest, Unguarded!GuardSupported, Unguarded!ConsumeRequest,
         Unguarded!StopShellUi, Unguarded!Truthful, Unguarded!Transact,
         Unguarded!Answer, Unguarded!Restart, Unguarded!ForeignHook,
         Unguarded!RendererStep, Unguarded!ControllerStep, Unguarded!Next,
         Unguarded!Patch!Truthful, NoGuard!files, NoGuard!renderer,
         NoGuard!controller, NoGuard!console, NoGuard!NoFile, NoGuard!Short,
         NoGuard!Contents, NoGuard!GuardBytes, NoGuard!Stages, NoGuard!Ended,
         NoGuard!Site, NoGuard!IsProbe, NoGuard!Nonce, NoGuard!Running,
         NoGuard!BeginPublish, NoGuard!EndPublish, NoGuard!Fail,
         NoGuard!PublishFails, NoGuard!AckTimeout, NoGuard!AckIsMine, NoGuard!Enter,
         NoGuard!SeeGuardProbe, NoGuard!SeeGuard, NoGuard!SeeUpdateProbe,
         NoGuard!SeeUpdate, NoGuard!SeeAck, NoGuard!WriteMarker, NoGuard!Inject,
         NoGuard!EndWait, NoGuard!ReadRequest, NoGuard!GuardSupported,
         NoGuard!ConsumeRequest, NoGuard!StopShellUi, NoGuard!Truthful,
         NoGuard!Transact, NoGuard!Answer, NoGuard!Restart, NoGuard!ForeignHook,
         NoGuard!RendererStep, NoGuard!ControllerStep, NoGuard!Next,
         NoGuard!Patch!Truthful
<1>3. UNCHANGED handshake => UNCHANGED NoGuard!vars
    BY DEF handshake, NoGuard!vars, NoGuard!files, NoGuard!renderer, NoGuard!controller, NoGuard!console
<1>4. NoGuard!HandshakeInv => Unguarded!HandshakeInv
    BY DEF
         Unguarded!HandshakeInv, Unguarded!TypeOK, Unguarded!HooksCallThrough,
         Unguarded!GuardModeLeavesUpdate, Unguarded!Reaches, Unguarded!Calls,
         Unguarded!Callable, Unguarded!Contents, Unguarded!GuardBytes,
         Unguarded!Stages, Unguarded!Ended, NoGuard!HandshakeInv, NoGuard!TypeOK,
         NoGuard!HooksCallThrough, NoGuard!GuardModeLeavesUpdate, NoGuard!Reaches,
         NoGuard!Calls, NoGuard!Callable, NoGuard!Contents, NoGuard!GuardBytes,
         NoGuard!Stages, NoGuard!Ended
<1>5. NoGuard!ReadyIsPatched => Guarded!ReadyIsPatched
    BY DEF
         Guarded!ReadyIsPatched, Guarded!Reaches, Guarded!Calls, Guarded!Callable,
         Guarded!Contents, NoGuard!ReadyIsPatched, NoGuard!Reaches, NoGuard!Calls,
         NoGuard!Callable, NoGuard!Contents
<1> QED
    BY <1>1, <1>2, <1>3, <1>4, <1>5

LEMMA GuardedSteps ==
    /\ Guarded!Init => WithGuard!Init
    /\ Guarded!Next => WithGuard!Next
    /\ UNCHANGED handshake => UNCHANGED WithGuard!vars
    /\ WithGuard!HandshakeInv => Guarded!HandshakeInv
    /\ WithGuard!ReadyIsPatched => Guarded!ReadyIsPatched
<1>1. Guarded!Init => WithGuard!Init
    BY DEF Guarded!Init, Guarded!NoFile, WithGuard!Init, WithGuard!NoFile
<1>2. Guarded!Next => WithGuard!Next
    BY DEF
         Guarded!files, Guarded!renderer, Guarded!controller, Guarded!console,
         Guarded!NoFile, Guarded!Short, Guarded!Contents, Guarded!GuardBytes,
         Guarded!Stages, Guarded!Ended, Guarded!Site, Guarded!IsProbe,
         Guarded!Nonce, Guarded!Running, Guarded!BeginPublish, Guarded!EndPublish,
         Guarded!Fail, Guarded!PublishFails, Guarded!AckTimeout, Guarded!AckIsMine,
         Guarded!Enter, Guarded!SeeGuardProbe, Guarded!SeeGuard,
         Guarded!SeeUpdateProbe, Guarded!SeeUpdate, Guarded!SeeAck,
         Guarded!WriteMarker, Guarded!Inject, Guarded!EndWait, Guarded!ReadRequest,
         Guarded!GuardSupported, Guarded!ConsumeRequest, Guarded!StopShellUi,
         Guarded!Truthful, Guarded!Transact, Guarded!Answer, Guarded!Restart,
         Guarded!ForeignHook, Guarded!RendererStep, Guarded!ControllerStep,
         Guarded!Next, Guarded!Patch!Truthful, WithGuard!files, WithGuard!renderer,
         WithGuard!controller, WithGuard!console, WithGuard!NoFile, WithGuard!Short,
         WithGuard!Contents, WithGuard!GuardBytes, WithGuard!Stages,
         WithGuard!Ended, WithGuard!Site, WithGuard!IsProbe, WithGuard!Nonce,
         WithGuard!Running, WithGuard!BeginPublish, WithGuard!EndPublish,
         WithGuard!Fail, WithGuard!PublishFails, WithGuard!AckTimeout,
         WithGuard!AckIsMine, WithGuard!Enter, WithGuard!SeeGuardProbe,
         WithGuard!SeeGuard, WithGuard!SeeUpdateProbe, WithGuard!SeeUpdate,
         WithGuard!SeeAck, WithGuard!WriteMarker, WithGuard!Inject,
         WithGuard!EndWait, WithGuard!ReadRequest, WithGuard!GuardSupported,
         WithGuard!ConsumeRequest, WithGuard!StopShellUi, WithGuard!Truthful,
         WithGuard!Transact, WithGuard!Answer, WithGuard!Restart,
         WithGuard!ForeignHook, WithGuard!RendererStep, WithGuard!ControllerStep,
         WithGuard!Next, WithGuard!Patch!Truthful
<1>3. UNCHANGED handshake => UNCHANGED WithGuard!vars
    BY DEF handshake, WithGuard!vars, WithGuard!files, WithGuard!renderer, WithGuard!controller, WithGuard!console
<1>4. WithGuard!HandshakeInv => Guarded!HandshakeInv
    BY DEF
         Guarded!HandshakeInv, Guarded!TypeOK, Guarded!HooksCallThrough,
         Guarded!GuardModeLeavesUpdate, Guarded!Reaches, Guarded!Calls,
         Guarded!Callable, Guarded!Contents, Guarded!GuardBytes, Guarded!Stages,
         Guarded!Ended, WithGuard!HandshakeInv, WithGuard!TypeOK,
         WithGuard!HooksCallThrough, WithGuard!GuardModeLeavesUpdate,
         WithGuard!Reaches, WithGuard!Calls, WithGuard!Callable, WithGuard!Contents,
         WithGuard!GuardBytes, WithGuard!Stages, WithGuard!Ended
<1>5. WithGuard!ReadyIsPatched => Guarded!ReadyIsPatched
    BY DEF
         Guarded!ReadyIsPatched, Guarded!Reaches, Guarded!Calls, Guarded!Callable,
         Guarded!Contents, WithGuard!ReadyIsPatched, WithGuard!Reaches,
         WithGuard!Calls, WithGuard!Callable, WithGuard!Contents
<1> QED
    BY <1>1, <1>2, <1>3, <1>4, <1>5

\* The part whose protocol runs keeps its inductive invariant, the others rest.
HandshakesInv == IF part = "guarded" THEN WithGuard!ProtocolInv ELSE NoGuard!ProtocolInv

LEMMA HandshakesInit == SuiteInit => HandshakesInv
<1> SUFFICES ASSUME SuiteInit PROVE HandshakesInv
    OBVIOUS
<1>1. WithGuard!HandshakeConstants /\ NoGuard!HandshakeConstants
    BY FileConstants DEF Guarded!HandshakeConstants, Unguarded!HandshakeConstants,
                         WithGuard!HandshakeConstants, NoGuard!HandshakeConstants
<1>2. WithGuard!Init
    BY GuardedSteps DEF SuiteInit
<1>3. NoGuard!Init
    BY <1>2 DEF WithGuard!Init, NoGuard!Init, WithGuard!NoFile, NoGuard!NoFile
<1> QED
    BY <1>1, <1>2, <1>3, WithGuard!HandshakeInit, NoGuard!HandshakeInit DEF HandshakesInv

LEMMA HandshakesStep ==
    HandshakesInv /\ [SuiteNext]_<<part, vars, handshake, message>> => HandshakesInv'
<1> SUFFICES ASSUME HandshakesInv, [SuiteNext]_<<part, vars, handshake, message>>
             PROVE  HandshakesInv'
    OBVIOUS
<1>1. /\ part' = part
      /\ \/ UNCHANGED handshake
         \/ part = "guarded" /\ Guarded!Next
         \/ part = "unguarded" /\ Unguarded!Next
    BY DEF SuiteNext, Over
<1>2. CASE part = "guarded"
    <2>1. [WithGuard!Next]_(WithGuard!vars)
        BY <1>1, <1>2, GuardedSteps
    <2>2. WithGuard!ProtocolInv'
        BY <1>2, <2>1, WithGuard!HandshakeStep DEF HandshakesInv
    <2> QED
        BY <1>1, <1>2, <2>2 DEF HandshakesInv
<1>3. CASE part # "guarded"
    <2>1. [NoGuard!Next]_(NoGuard!vars)
        BY <1>1, <1>3, UnguardedSteps
    <2>2. NoGuard!ProtocolInv'
        BY <1>3, <2>1, NoGuard!HandshakeStep DEF HandshakesInv
    <2> QED
        BY <1>1, <1>3, <2>2 DEF HandshakesInv
<1> QED
    BY <1>2, <1>3

\* Any number of renderers, restarts of the controller and a foreign program
\* work on Application.Update through separate steps of publishing, serving and
\* answering: as long as it is not torn, a call of it ends in native code, and
\* on firmware with the main-thread guard nobody changes it ("fail-closed
\* without Application.Update write").
THEOREM UpdateIsSound == SuiteSpec => []HandshakeInv
<1>1. HandshakesInv => HandshakeInv
    BY WithGuard!ProtocolIsSound, NoGuard!ProtocolIsSound, GuardedSteps, UnguardedSteps
       DEF HandshakesInv, HandshakeInv
<1> QED
    BY <1>1, HandshakesInit, HandshakesStep, PTL DEF SuiteSpec

\* A renderer that initialize_runtime declared ready renders where it may: the
\* guard of the UI thread is off, or Application.Update reaches its hook, or was
\* torn by a later transaction; whoever asked for the patch whose
\* acknowledgement it accepted.
THEOREM ReadyMayRender == SuiteSpec => []ReadyIsPatched
<1>1. HandshakesInv => ReadyIsPatched
    BY WithGuard!ProtocolIsSound, NoGuard!ProtocolIsSound, GuardedSteps, UnguardedSteps
       DEF HandshakesInv, ReadyIsPatched
<1> QED
    BY <1>1, HandshakesInit, HandshakesStep, PTL DEF SuiteSpec

------------------------------------------------------------------------------
(***************************************************************************)
(* The contents of a request.                                              *)
(***************************************************************************)
\* The four requests that the renderer publishes, with what it knew then.
Published ==
    \/ kind = "probe" /\ wire = ProbeMessage
    \/ kind = "guard" /\ bytes[1] # RET /\ wire = GuardMessage
    \/ /\ kind = "update" /\ IsJump(bytes)
       /\ TargetOf(bytes) # "hook" /\ UserAddress(TargetOf(bytes)) /\ TargetOf(bytes) # method
       /\ wire = PatchMessage(TargetOf(bytes), JumpSize)
    \/ /\ kind = "update" /\ ~ IsJump(bytes) /\ length \in JumpSize .. 16
       /\ wire = PatchMessage("trampoline", length)

\* The decoder's length is the true one and every instruction it has passed may
\* move; what is on the wire is one of the four requests, and an answer is the
\* controller's judgement of it.
MessageInv ==
    /\ kind \in Purposes /\ method \in Methods
    /\ DOMAIN bytes = Positions /\ insns \in [1 .. JumpSize -> Insns]
    /\ taken \in Nat /\ length \in Nat /\ taken <= length /\ length <= 16
    /\ trueEnd = length
    /\ \A j \in 1 .. taken : TrulyRelocatable(insns[j])
    /\ wire = NoMessage => answer = "none"
    /\ wire # NoMessage => Published
    /\ answer # "none" => answer = Judgement(wire)

\* A prefix that widens is last where it is there at all.
LEMMA RexIsLast ==
    ASSUME NEW p \in PrefixRuns
    PROVE  /\ RexW(p) <=> (p # <<>> /\ p[Len(p)] = "rexW")
           /\ RexW(p) => ~ Has(p, "66")
           /\ Len(p) \in Nat
<1> DEFINE Names == {"66", "67", "other", "rex", "rexW"}
<1>1. p \in Seq(Names) /\ Canonical(p)
    BY MessageConstants
<1>2. Len(p) \in Nat /\ DOMAIN p = 1 .. Len(p) /\ (p # <<>> => Len(p) \in DOMAIN p)
    BY <1>1
<1>3. ASSUME RexW(p) PROVE p # <<>> /\ p[Len(p)] = "rexW" /\ ~ Has(p, "66")
    <2>1. PICK i \in DOMAIN p : p[i] = "rexW"
        BY <1>3 DEF RexW
    <2>2. i = Len(p)
        BY <1>1, <2>1 DEF Canonical
    <2>3. Has(p, "rexW")
        BY <2>1 DEF Has
    <2>4. p # <<>>
        BY <1>2, <2>1
    <2> QED
        BY <1>1, <2>1, <2>2, <2>3, <2>4 DEF Canonical
<1>4. ASSUME p # <<>>, p[Len(p)] = "rexW" PROVE RexW(p)
    <2>1. Len(p) \in DOMAIN p /\ \A j \in DOMAIN p : ~ (j > Len(p))
        BY <1>2, <1>4
    <2> QED
        BY <1>4, <2>1 DEF RexW
<1> QED
    BY <1>2, <1>3, <1>4

\* The bytes of an operand that is not relative to the instruction.
LEMMA OperandIsTrue ==
    ASSUME NEW f \in Forms, ~ (f.mod = 0 /\ f.rm = 5)
    PROVE  Operand(f) = TrueOperand(f) /\ Operand(f) \in Nat \ {0}
<1>1. f.mod \in 0 .. 3 /\ f.rm \in {0, 4, 5} /\ f.base \in {0, 5}
    BY DEF Forms
<1>2. (f.mod = 3 => f.rm = 0) /\ (f.base = 5 => f.rm = 4)
    BY DEF Forms
<1>3. f.mod = 0 \/ f.mod = 1 \/ f.mod = 2 \/ f.mod = 3
    BY <1>1
<1> QED
    BY <1>1, <1>2, <1>3 DEF Operand, TrueOperand

\* An instruction that the decoder does not refuse may move, and is as long as
\* the decoder says.
LEMMA SizeIsTrue ==
    ASSUME NEW i \in Insns, ~ Refused(i)
    PROVE  Size(i) = TrueSize(i) /\ Size(i) \in Nat \ {0} /\ TrulyRelocatable(i)
<1>1. i.prefixes \in PrefixRuns /\ i.form \in Forms /\ i.op \in Opcodes
    BY DEF Insns
<1> DEFINE p == i.prefixes
           wide == p # <<>> /\ p[Len(p)] = "rexW"
           short == Has(p, "66")
<1>2. (RexW(p) <=> wide) /\ (wide => ~ short) /\ Len(p) \in Nat
    BY <1>1, RexIsLast
<1>3. i.op \notin {"branch", "unknown"} /\ ~ (HasOperand(i.op) /\ i.form.mod = 0 /\ i.form.rm = 5)
    BY DEF Refused
<1>4. HasOperand(i.op) => Operand(i.form) = TrueOperand(i.form) /\ Operand(i.form) \in Nat \ {0}
    BY <1>1, <1>3, OperandIsTrue
<1>5. TrulyRelocatable(i)
    BY <1>3 DEF TrulyRelocatable
<1> DEFINE word == IF short THEN 2 ELSE 4
<1>6. word = (IF short /\ ~ wide THEN 2 ELSE 4)
    BY <1>2
<1> DEFINE im == Immediate(i)
           tb == TrueBody(i)
           o == Operand(i.form)
           n == Len(p)
<1>7. /\ i.op \in {"push8", "alu8"} => im = 1
      /\ i.op \in {"push32", "alu32"} => im = word
      /\ i.op = "mov" => im = (IF wide THEN 8 ELSE word)
      /\ i.op \notin {"push8", "alu8", "push32", "alu32", "mov"} => im = 0
    BY <1>2 DEF Immediate
<1>8. /\ i.op = "push8" => tb = 2
      /\ i.op = "push32" => tb = 1 + word
      /\ i.op = "mov" => tb = 1 + (IF wide THEN 8 ELSE word)
      /\ i.op = "alu" => tb = 1 + o
      /\ i.op = "alu32" => tb = 1 + word + o
      /\ i.op \in {"alu8", "two_byte"} => tb = 2 + o
      /\ i.op \notin {"push8", "push32", "mov", "alu", "alu32", "alu8", "two_byte"} => tb = 1
    BY <1>3, <1>4, <1>6 DEF TrueBody, HasOperand
<1>9. /\ Size(i) = n + (IF i.op = "two_byte" THEN 2 ELSE 1) + (IF HasOperand(i.op) THEN o ELSE 0) + im
      /\ TrueSize(i) = n + tb
    BY DEF Size, TrueSize
<1>10. word \in {2, 4} /\ n \in Nat
    BY <1>2
<1> HIDE DEF word, im, tb, o, n, wide, short, p
<1>11. Size(i) = TrueSize(i) /\ Size(i) \in Nat \ {0}
    <2>1. CASE HasOperand(i.op)
        BY <1>4, <1>7, <1>8, <1>9, <1>10, <2>1 DEF HasOperand, o
    <2>2. CASE ~ HasOperand(i.op)
        BY <1>4, <1>7, <1>8, <1>9, <1>10, <2>2 DEF HasOperand
    <2> QED
        BY <2>1, <2>2
<1> QED
    BY <1>5, <1>11

\* The controller's judgement of the four requests.
LEMMA JudgedAsMeant ==
    ASSUME kind \in Purposes, method \in Methods, DOMAIN bytes = Positions, Published
    PROVE  Judgement(wire) = IF UserAddress(method) THEN kind ELSE "invalid"
<1>1. /\ UserAddress("hook") /\ UserAddress("trampoline")
      /\ UserAddress(method) <=> method = "method"
      /\ method \in {"method", "low"}
    BY DEF UserAddress, Addresses, Methods
<1>2. CASE kind = "probe" /\ wire = ProbeMessage
    BY <1>1, <1>2 DEF ProbeMessage, Judgement, IsProbe, ProbeIsValid, CommonIsValid
<1>3. CASE kind = "guard" /\ bytes[1] # RET /\ wire = GuardMessage
    <2>1. /\ wire.displaced = 1 /\ wire.original = "null" /\ wire.hook = method
          /\ wire.method = method /\ wire.expected = bytes
          /\ wire.desired = [bytes EXCEPT ![1] = RET]
        BY <1>3 DEF GuardMessage
    <2>2. wire.desired[1] = RET /\ \A j \in 2 .. 16 : wire.desired[j] = wire.expected[j]
        BY <2>1 DEF Positions
    <2>3. IsMainThreadGuard(wire) /\ ~ IsProbe(wire)
        BY <2>1 DEF IsMainThreadGuard, IsProbe
    <2>4. GuardIsValid(wire) <=> UserAddress(method)
        BY <1>3, <2>1, <2>2, <2>3 DEF GuardIsValid, CommonIsValid
    <2> QED
        BY <1>3, <2>3, <2>4 DEF Judgement
<1>4. ASSUME NEW callee, NEW displaced \in JumpSize .. 16, kind = "update",
             wire = PatchMessage(callee, displaced),
             UserAddress(callee), callee \notin {"hook", method},
             IF IsJump(bytes) THEN displaced = JumpSize /\ TargetOf(bytes) = callee ELSE TRUE
      PROVE  Judgement(wire) = IF UserAddress(method) THEN kind ELSE "invalid"
    <2>1. /\ wire.displaced = displaced /\ wire.original = callee /\ wire.hook = "hook"
          /\ wire.method = method /\ wire.expected = bytes
          /\ wire.desired = Desired(displaced)
        BY <1>4 DEF PatchMessage
    <2>2. displaced \in 14 .. 16
        BY <1>4 DEF JumpSize
    <2>3. /\ \A j \in 1 .. 6 : wire.desired[j] = <<"jump", j>>
          /\ wire.desired[7] = <<"hook", 7>>
        BY <2>1 DEF Desired, Positions, JumpSize, JumpByte
    <2>4. IsJump(wire.desired) /\ TargetOf(wire.desired) = "hook"
        BY <2>3 DEF IsJump, TargetOf
    <2>5. /\ \A j \in JumpSize + 1 .. displaced : wire.desired[j] = NOP
          /\ \A j \in displaced + 1 .. 16 : wire.desired[j] = bytes[j]
        BY <2>1, <2>2 DEF Desired, Positions, JumpSize
    <2>6. ~ IsProbe(wire) /\ ~ IsMainThreadGuard(wire)
        BY <2>1, <2>2 DEF IsProbe, IsMainThreadGuard
    <2>7. PatchIsValid(wire) <=> UserAddress(method)
        BY <1>1, <1>4, <2>1, <2>2, <2>4, <2>5 DEF PatchIsValid, CommonIsValid
    <2> QED
        BY <1>4, <2>6, <2>7 DEF Judgement
<1>5. JumpSize \in JumpSize .. 16
    BY DEF JumpSize
<1> QED
    BY <1>1, <1>2, <1>3, <1>4, <1>5 DEF Published

LEMMA MessageStarts == MessageInit => MessageInv
<1> SUFFICES ASSUME MessageInit PROVE MessageInv
    OBVIOUS
<1>1. DOMAIN bytes = Positions
    BY DEF MessageInit, Codes
<1> QED
    BY <1>1 DEF MessageInit, MessageInv

\* One step per action: the decoder's turn keeps the lengths equal, a request
\* published is one of the four, a judgement is the controller's.
LEMMA MessageStep == MessageInv /\ [MessageNext]_message => MessageInv'
<1> SUFFICES ASSUME MessageInv, [MessageNext]_message PROVE MessageInv'
    OBVIOUS
<1>1. CASE TakeInstruction
    <2> DEFINE next == insns[taken + 1]
               decoded == DecodeRelocatable(next, 16 - length)
    <2>1. /\ decoded # 0 /\ length' = length + decoded /\ taken' = taken + 1
          /\ trueEnd' = trueEnd + TrueSize(next)
          /\ length < 14 /\ wire = NoMessage
          /\ UNCHANGED <<kind, method, bytes, insns, wire, answer>>
        BY <1>1 DEF TakeInstruction, JumpSize
    <2>2. taken + 1 \in 1 .. JumpSize /\ next \in Insns
        BY <2>1 DEF MessageInv, JumpSize
    <2>3. ~ Refused(next) /\ ~ (Size(next) > 16 - length) /\ decoded = Size(next)
        BY <2>1 DEF DecodeRelocatable
    <2>4. decoded = TrueSize(next) /\ decoded \in Nat \ {0} /\ TrulyRelocatable(next)
        BY <2>2, <2>3, SizeIsTrue
    <2>5. decoded <= 16 - length
        BY <2>3, <2>4 DEF MessageInv
    <2> HIDE DEF decoded
    <2>6. /\ taken' \in Nat /\ length' \in Nat /\ taken' <= length' /\ length' <= 16
          /\ trueEnd' = length'
        BY <2>1, <2>4, <2>5 DEF MessageInv
    <2>7. \A j \in 1 .. taken' : TrulyRelocatable(insns'[j])
        <3> SUFFICES ASSUME NEW j \in 1 .. taken' PROVE TrulyRelocatable(insns[j])
            BY <2>1
        <3>1. j \in 1 .. taken \/ j = taken + 1
            BY <2>1 DEF MessageInv
        <3> QED
            BY <2>4, <3>1 DEF MessageInv
    <2>8. wire' = NoMessage /\ answer' = "none"
        BY <2>1 DEF MessageInv
    <2> QED
        BY <2>1, <2>6, <2>7, <2>8 DEF MessageInv
<1>2. CASE Publish
    <2>1. /\ wire = NoMessage
          /\ UNCHANGED <<kind, method, bytes, insns, taken, length, answer, trueEnd>>
          /\ PublishProbe \/ PublishGuard \/ PublishChain \/ PublishNative
        BY <1>2 DEF Publish
    <2>2. Published'
        <3>1. /\ ProbeMessage' = ProbeMessage /\ GuardMessage' = GuardMessage
              /\ PatchMessage(TargetOf(bytes), JumpSize)' = PatchMessage(TargetOf(bytes), JumpSize)
              /\ PatchMessage("trampoline", length)' = PatchMessage("trampoline", length)
            BY <2>1 DEF ProbeMessage, GuardMessage, PatchMessage, Desired, TargetOf
        <3>2. PublishNative => length \in JumpSize .. 16
            BY DEF PublishNative, MessageInv, JumpSize
        <3>3. CASE PublishProbe
            BY <2>1, <3>1, <3>3 DEF PublishProbe, Published
        <3>4. CASE PublishGuard
            BY <2>1, <3>1, <3>4 DEF PublishGuard, Published
        <3>5. CASE PublishChain
            BY <2>1, <3>1, <3>5 DEF PublishChain, Published, IsJump, TargetOf, UserAddress
        <3>6. CASE PublishNative
            BY <2>1, <3>1, <3>2, <3>6 DEF PublishNative, Published, IsJump
        <3> QED
            BY <2>1, <3>3, <3>4, <3>5, <3>6
    <2>3. wire' # NoMessage
        <3>1. NoMessage.displaced = 99 /\ length # 99
            BY DEF NoMessage, MessageInv
        <3>2. /\ ProbeMessage.displaced = 0 /\ GuardMessage.displaced = 1
              /\ PatchMessage(TargetOf(bytes), JumpSize).displaced = 14
              /\ PatchMessage("trampoline", length).displaced = length
            BY DEF ProbeMessage, GuardMessage, PatchMessage, JumpSize
        <3> QED
            BY <2>1, <3>1, <3>2 DEF PublishProbe, PublishGuard, PublishChain, PublishNative
    <2>4. answer' = "none"
        BY <2>1 DEF MessageInv
    <2> QED
        BY <2>1, <2>2, <2>3, <2>4 DEF MessageInv
<1>3. CASE Judge
    <2>1. /\ UNCHANGED <<kind, method, bytes, insns, taken, length, wire, trueEnd>>
          /\ answer' = Judgement(wire) /\ wire # NoMessage
        BY <1>3 DEF Judge
    <2>2. Published => Published'
        BY <2>1 DEF Published, ProbeMessage, GuardMessage, PatchMessage, Desired,
                    IsJump, TargetOf, UserAddress
    <2>3. Judgement(wire)' = Judgement(wire)
        BY <2>1
    <2> QED
        BY <2>1, <2>2, <2>3 DEF MessageInv
<1>4. CASE UNCHANGED message
    <2>1. Published => Published'
        BY <1>4 DEF message, Published, ProbeMessage, GuardMessage, PatchMessage, Desired,
                    IsJump, TargetOf, UserAddress
    <2> QED
        BY <1>4, <2>1 DEF message, MessageInv
<1> QED
    BY <1>1, <1>2, <1>3, <1>4 DEF MessageNext

LEMMA MessageIsSound == MessageInv => RequestIsSound
<1> SUFFICES ASSUME MessageInv PROVE RequestIsSound
    OBVIOUS
<1>1. answer # "none" => wire # NoMessage /\ Published /\ answer = Judgement(wire)
    BY DEF MessageInv
<1>2. answer # "none" => answer = IF UserAddress(method) THEN kind ELSE "invalid"
    BY <1>1, JudgedAsMeant DEF MessageInv
<1>3. ASSUME answer = "update", ~ IsJump(bytes)
      PROVE  /\ \A i \in Positions : wire.desired[i] # bytes[i] => i <= wire.displaced
             /\ wire.displaced = trueEnd
    <2>1. kind = "update"
        BY <1>2, <1>3 DEF MessageInv, Purposes
    <2>2. length \in JumpSize .. 16 /\ wire = PatchMessage("trampoline", length)
        BY <1>1, <1>3, <2>1 DEF Published
    <2>3. wire.displaced = length /\ wire.desired = Desired(length)
        BY <2>2 DEF PatchMessage
    <2>4. ASSUME NEW i \in Positions, ~ (i <= length) PROVE Desired(length)[i] = bytes[i]
        BY <2>2, <2>4 DEF Desired, Positions, JumpSize
    <2> QED
        BY <2>3, <2>4 DEF MessageInv
<1> QED
    BY <1>2, <1>3 DEF RequestIsSound, PublishedIsUnderstood, WholeInstructionsDisplaced, MessageInv

\* Whatever instructions a method begins with, with any opcodes and any prefixes
\* that keep to the compiler's order: the controller (poll_and_apply_shellui_hook) takes a request
\* that the renderer publishes for what it was meant to be, and a native patch
\* that it applies displaces whole instructions that mean the same at their new
\* address (native_patch_length, decode_relocatable_instruction).
THEOREM RequestsAreSound == MessageSpec => []RequestIsSound
<1> QED
    BY MessageStarts, MessageStep, MessageIsSound, PTL DEF MessageSpec
==============================================================================
