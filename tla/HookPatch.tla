------------------------------ MODULE HookPatch ------------------------------
(***************************************************************************)
(* What the controller promises about one hook request, without the steps  *)
(* by which it keeps the promise: the code of the stopped ShellUI is       *)
(* replaced at one moment (the moment it resumes), and the verdict the     *)
(* answer carries is true of the code ShellUI resumed with.                *)
(* HookTransaction implements this specification; HookHandshake uses the   *)
(* verdicts in place of the transaction.                                   *)
(***************************************************************************)
CONSTANTS Bytes,     \* the contents a patched method may have
          Wanted,    \* the content a request asks for
          Others     \* the contents other programs put there

VARIABLES visible,   \* the code as ShellUI executes it
          before,    \* what it was when the transaction stopped ShellUI
          left,      \* what it was when ShellUI resumed
          expected,  \* what the request says it is
          phase,     \* "rest", "taken", "stopped", "resumed"
          verdict    \* of the last answer

vars == <<visible, before, left, expected, phase, verdict>>

NoVerdict == "none"
Verdicts == {"accepted", "unchanged", "unknown"}

\* A verdict is true of a patch.  Only bytes that are the expected ones are
\* ever replaced.  "unknown" admits that the rollback or the release of the
\* process failed, and promises nothing more.
Truthful(v, exp, want, was, is) ==
    \/ v = "accepted" /\ was = exp /\ is = want
    \/ v = "unchanged" /\ is = was
    \/ v = "unknown" /\ was = exp

Init ==
    /\ visible \in Bytes
    /\ before = visible
    /\ left = visible
    /\ expected \in Bytes
    /\ phase = "rest"
    /\ verdict = NoVerdict

Take ==
    /\ phase = "rest"
    /\ before' = visible /\ left' = visible
    /\ expected' \in Bytes
    /\ phase' = "taken" /\ verdict' = NoVerdict
    /\ UNCHANGED visible

\* The request is answered without stopping ShellUI.
Refuse ==
    /\ phase \in {"rest", "taken"}
    /\ before' = left'
    /\ expected' \in Bytes
    /\ phase' = "rest" /\ verdict' = "unchanged"
    /\ UNCHANGED visible

Stop ==
    /\ phase = "taken"
    /\ before' = visible /\ left' = visible
    /\ phase' = "stopped"
    /\ UNCHANGED <<visible, expected, verdict>>

Resume ==
    /\ phase = "stopped"
    /\ visible' \in Bytes
    /\ left' = visible'
    /\ phase' = "resumed"
    /\ UNCHANGED <<before, expected, verdict>>

Answer ==
    /\ phase = "resumed"
    /\ verdict' \in Verdicts
    /\ Truthful(verdict', expected, Wanted, before, left)
    /\ phase' = "rest"
    /\ UNCHANGED <<visible, before, left, expected>>

\* Another program hooks the running ShellUI.
Foreign ==
    /\ phase # "stopped"
    /\ visible' \in Others
    /\ UNCHANGED <<before, left, expected, phase, verdict>>

Next == Take \/ Refuse \/ Stop \/ Resume \/ Answer \/ Foreign

Spec == Init /\ [][Next]_vars
=============================================================================
