---------------------------- MODULE HookHandshake ----------------------------
(***************************************************************************)
(* The renderer inside ShellUI and the controller agree on a patch through *)
(* two files.  The renderer (initialize_runtime, install_main_thread_guard *)
(* and install_update_hook, src/ps5/shellui_payload/commonfps_shellui.cpp) *)
(* probes a method, asks for the one-byte guard and, where the firmware    *)
(* does not support it, for a hook of Application.Update; it polls for the *)
(* acknowledgement with its nonce and gives up after 20 seconds.  The      *)
(* controller (shellui_hook_controller.cpp) serves requests while it waits *)
(* for the marker.  What one transaction does is given by the verdicts of  *)
(* HookPatch.                                                              *)
(*                                                                         *)
(* The acknowledgement may not be written, the renderer may time out while *)
(* its request is being served, another program may hook the method        *)
(* between probe and patch, and the controller may be restarted: it then   *)
(* injects a second renderer into the same process, whose files are the    *)
(* same.  Nonces are the XOR of addresses; they are modelled as tuples of  *)
(* what is combined, that is, without accidental collisions.               *)
(***************************************************************************)
EXTENDS Naturals

CONSTANTS Renderers,    \* injected images, in any order
          Supported,    \* whether the firmware supports the guard
          MaxRestarts   \* bound: controller restarts

HandshakeConstants ==
    /\ Renderers \cap {"native", "foreign", "torn", "none"} = {}
    /\ Supported \in BOOLEAN
    /\ MaxRestarts \in Nat

VARIABLES
    requestFile, ackFile,
    at, step,               \* where each renderer is
    expected, original,     \* probed bytes; g_application_update_original
    online,                 \* the marker names this process
    cpc, held, verdict, observed, injecting, restarts,   \* the controller
    stopped,                \* ShellUI, and with it every renderer thread
    guard, update,          \* first bytes of the two methods
    foreignNext             \* what the other program's hook calls

files == <<requestFile, ackFile>>
renderer == <<at, step, expected, original, online>>
controller == <<cpc, held, verdict, observed, injecting, restarts>>
console == <<stopped, guard, update, foreignNext>>
vars == <<files, renderer, controller, console>>

NoFile == [kind |-> "none"]
Short == [kind |-> "short"]       \* opened for writing, nothing written yet
Contents == {"native", "foreign", "torn"} \cup Renderers  \* a renderer: its hook
GuardBytes == {"check", "ret"}

\* The stages of initialize_runtime that publish a request and wait.
Stages == {"guardProbe", "guard", "updateProbe", "update"}
Ended == {"ready", "failed"}
Site(kind) == IF kind \in {"guardProbe", "guard"} THEN "guard" ELSE "update"
IsProbe(kind) == kind \in {"guardProbe", "updateProbe"}

\* The guard's nonce contains neither the hook nor the original target.
Nonce(r, kind) ==
    IF kind = "guard" THEN <<"guard", "guard", "none", "none">>
    ELSE <<"hook", Site(kind), r, IF IsProbe(kind) THEN "none" ELSE original[r]>>

Init ==
    /\ requestFile = NoFile /\ ackFile = NoFile
    /\ at = [r \in Renderers |-> "absent"] /\ step = [r \in Renderers |-> "idle"]
    /\ expected = [r \in Renderers |-> "none"]
    /\ original = [r \in Renderers |-> "none"]
    /\ online = FALSE
    /\ cpc = "away" /\ held = NoFile /\ verdict = "none" /\ observed = "none"
    /\ injecting = TRUE /\ restarts = 0
    /\ stopped = FALSE
    /\ guard = "check" /\ update = "native" /\ foreignNext = "none"

------------------------------------------------------------------------------
(***************************************************************************)
(* The renderer thread.                                                    *)
(***************************************************************************)
Running(r) == ~ stopped /\ at[r] \in Stages

\* fopen(..., "wb") empties the file before the request is in it.
BeginPublish(r) ==
    /\ Running(r) /\ step[r] = "publish"
    /\ requestFile' = Short
    /\ step' = [step EXCEPT ![r] = "writing"]
    /\ UNCHANGED <<ackFile, at, expected, original, online, controller, console>>

EndPublish(r) ==
    /\ Running(r) /\ step[r] = "writing"
    /\ requestFile' = [kind |-> at[r], from |-> r, expected |-> expected[r],
                       nonce |-> Nonce(r, at[r])]
    /\ step' = [step EXCEPT ![r] = "waiting"]
    /\ UNCHANGED <<ackFile, at, expected, original, online, controller, console>>

Fail(r) ==
    /\ at' = [at EXCEPT ![r] = "failed"]
    /\ step' = [step EXCEPT ![r] = "idle"]
    /\ UNCHANGED <<expected, original>>

\* The file cannot be written, or no acknowledgement came in time.
PublishFails(r) ==
    /\ Running(r) /\ step[r] \in {"publish", "writing"}
    /\ Fail(r)
    /\ UNCHANGED <<files, online, controller, console>>

WaitForever(r) == FALSE

AckTimeout(r) ==
    /\ Running(r) /\ step[r] = "waiting"
    /\ Fail(r)
    /\ UNCHANGED <<files, online, controller, console>>

AckIsMine(r) == ackFile # NoFile /\ ackFile.nonce = Nonce(r, at[r])

EnterUnstarted(r, stage) ==
    /\ at' = [at EXCEPT ![r] = stage]
    /\ step' = [step EXCEPT ![r] = stage]

Enter(r, stage) ==
    /\ at' = [at EXCEPT ![r] = stage]
    /\ step' = [step EXCEPT ![r] = IF stage \in Ended THEN "idle" ELSE "publish"]

\* After the probe of the guard: already disabled, or ask for it.
SeeGuardProbe(r) ==
    /\ at[r] = "guardProbe"
    /\ \/ ackFile.verdict # "read" /\ Fail(r)
       \/ /\ ackFile.verdict = "read"
          /\ expected' = [expected EXCEPT ![r] = ackFile.observed]
          /\ Enter(r, IF ackFile.observed = "ret" THEN "ready" ELSE "guard")
          /\ UNCHANGED original

FailureAsUnsupported(r) ==
    /\ at[r] = "guard"
    /\ Enter(r, IF ackFile.verdict = "accepted" THEN "ready" ELSE "updateProbe")
    /\ UNCHANGED <<expected, original>>

SeeGuard(r) ==
    /\ at[r] = "guard"
    /\ \/ ackFile.verdict = "unsupported" /\ Enter(r, "updateProbe")
                                          /\ UNCHANGED <<expected, original>>
       \/ ackFile.verdict = "accepted" /\ Enter(r, "ready")
                                       /\ UNCHANGED <<expected, original>>
       \/ ackFile.verdict \notin {"unsupported", "accepted"} /\ Fail(r)

PublishOriginalLater(r) ==
    /\ at[r] = "updateProbe"
    /\ ackFile.verdict = "read" /\ ackFile.observed \notin {r, "torn"}
    /\ expected' = [expected EXCEPT ![r] = ackFile.observed]
    /\ Enter(r, "update")
    /\ UNCHANGED original

\* After the probe of Application.Update: its own hook, an unusable target or
\* a prologue that cannot be moved end the attempt; otherwise the original
\* target is published before the request.
SeeUpdateProbe(r) ==
    /\ at[r] = "updateProbe"
    /\ \/ Fail(r)
       \/ /\ ackFile.verdict = "read" /\ ackFile.observed \notin {r, "torn"}
          /\ expected' = [expected EXCEPT ![r] = ackFile.observed]
          /\ original' = [original EXCEPT ![r] = ackFile.observed]
          /\ Enter(r, "update")

SeeUpdate(r) ==
    /\ at[r] = "update"
    /\ \/ ackFile.verdict = "accepted" /\ Enter(r, "ready")
                                       /\ UNCHANGED <<expected, original>>
       \/ ackFile.verdict # "accepted" /\ Fail(r)

SeeAck(r) ==
    /\ Running(r) /\ step[r] = "waiting" /\ AckIsMine(r)
    /\ SeeGuardProbe(r) \/ SeeGuard(r) \/ SeeUpdateProbe(r) \/ SeeUpdate(r)
    /\ UNCHANGED <<files, online, controller, console>>

WriteMarker(r) ==
    /\ ~ stopped /\ at[r] = "ready" /\ ~ online
    /\ online' = TRUE
    /\ UNCHANGED <<files, at, step, expected, original, controller, console>>

------------------------------------------------------------------------------
(***************************************************************************)
(* The controller.                                                         *)
(***************************************************************************)
\* The protocol files are removed before the image is loaded.
Inject(r) ==
    /\ cpc = "away" /\ injecting /\ ~ online
    /\ at[r] = "absent"
    /\ requestFile' = NoFile /\ ackFile' = NoFile
    /\ at' = [at EXCEPT ![r] = "guardProbe"]
    /\ step' = [step EXCEPT ![r] = "publish"]
    /\ cpc' = "poll" /\ injecting' = FALSE
    /\ UNCHANGED <<expected, original, online, held, verdict, observed, restarts, console>>

\* The marker was found or the wait is over.
EndWait ==
    /\ cpc = "poll"
    /\ cpc' = "away"
    /\ UNCHANGED <<files, renderer, held, verdict, observed, injecting, restarts, console>>

ReadRequest ==
    /\ cpc = "poll" /\ requestFile \notin {NoFile, Short}
    /\ held' = requestFile
    /\ cpc' = "consume"
    /\ UNCHANGED <<files, renderer, verdict, observed, injecting, restarts, console>>

GuardSupported == Supported

ConsumeRequest ==
    /\ cpc = "consume"
    /\ requestFile' = NoFile
    /\ IF held.kind = "guard" /\ ~ GuardSupported
       THEN verdict' = "unsupported" /\ cpc' = "answer"
       ELSE verdict' = "none" /\ cpc' = "stop"
    /\ observed' = "none"
    /\ UNCHANGED <<ackFile, renderer, held, injecting, restarts, console>>

StopShellUi(ok) ==
    /\ cpc = "stop"
    /\ stopped' = ok
    /\ IF ok THEN cpc' = "patch" /\ UNCHANGED verdict
             ELSE cpc' = "answer" /\ verdict' = "unchanged"
    /\ UNCHANGED <<files, renderer, held, observed, injecting, restarts,
                   guard, update, foreignNext>>

Patch == INSTANCE HookPatch WITH
    Bytes <- Contents \cup GuardBytes, Wanted <- "ret", Others <- {"foreign"},
    visible <- update, before <- update, left <- update, expected <- held.expected,
    phase <- cpc

\* A transaction that does not compare with the expected bytes first.
TruthfulBlindly(v, want, was, is) == Patch!Truthful(v, was, want, was, is)

Truthful(v, want, was, is) == Patch!Truthful(v, held.expected, want, was, is)

\* The stopped process is probed or patched, and resumed.
Transact(v, is) ==
    /\ cpc = "patch"
    /\ \/ /\ IsProbe(held.kind)
          /\ v \in {"read", "unchanged"}
          /\ is = IF Site(held.kind) = "guard" THEN guard ELSE update
          /\ observed' = is
          /\ UNCHANGED <<guard, update>>
       \/ /\ held.kind = "guard" /\ is \in GuardBytes
          /\ Truthful(v, "ret", guard, is)
          /\ guard' = is
          /\ UNCHANGED <<update, observed>>
       \/ /\ held.kind = "update" /\ is \in {update, held.from, "torn"}
          /\ Truthful(v, held.from, update, is)
          /\ update' = is
          /\ UNCHANGED <<guard, observed>>
    /\ verdict' = v
    /\ stopped' = FALSE
    /\ cpc' = "answer"
    /\ UNCHANGED <<files, renderer, held, injecting, restarts, foreignNext>>

Answer(ok) ==
    /\ cpc = "answer"
    /\ IF ok THEN ackFile' = [kind |-> held.kind, nonce |-> held.nonce,
                              verdict |-> verdict, observed |-> observed]
             ELSE UNCHANGED ackFile
    /\ cpc' = "poll"
    /\ UNCHANGED <<requestFile, renderer, held, verdict, observed, injecting, restarts,
                   console>>

\* The controller is started anew; it remembers nothing.
Restart ==
    /\ restarts < MaxRestarts /\ ~ stopped
    /\ restarts' = restarts + 1
    /\ cpc' = "away" /\ injecting' = TRUE
    /\ held' = NoFile /\ verdict' = "none" /\ observed' = "none"
    /\ UNCHANGED <<files, renderer, console>>

ForeignHook ==
    /\ ~ stopped /\ foreignNext = "none"
    /\ update \in {"native"} \cup Renderers
    /\ foreignNext' = update /\ update' = "foreign"
    /\ UNCHANGED <<files, renderer, controller, stopped, guard>>

RendererStep(r) ==
    \/ BeginPublish(r) \/ EndPublish(r) \/ PublishFails(r)
    \/ AckTimeout(r) \/ SeeAck(r) \/ WriteMarker(r)

ControllerStep ==
    \/ EndWait \/ ReadRequest \/ ConsumeRequest
    \/ \E ok \in BOOLEAN : StopShellUi(ok) \/ Answer(ok)
    \/ \E v \in {"read", "accepted", "unchanged", "unknown"},
          is \in Contents \cup GuardBytes : Transact(v, is)
    \/ \E r \in Renderers : Inject(r)

Next ==
    \/ \E r \in Renderers : RendererStep(r)
    \/ ControllerStep
    \/ Restart
    \/ ForeignHook

Spec == Init /\ [][Next]_vars

\* Both sides keep running: the waits of the renderer are counted loops, and
\* so is the controller's.
LiveSpec ==
    /\ Spec
    /\ \A r \in Renderers : WF_vars(RendererStep(r))
    /\ WF_vars(ControllerStep)

------------------------------------------------------------------------------
\* Every variable has its type (the two files, the renderers' globals and the
\* controller's locals).
TypeOK ==
    /\ requestFile.kind \in Stages \cup {"none", "short"}
    /\ ackFile.kind \in Stages \cup {"none"}
    /\ at \in [Renderers -> Stages \cup Ended \cup {"absent"}]
    /\ step \in [Renderers -> {"idle", "publish", "writing", "waiting"}]
    /\ expected \in [Renderers -> Contents \cup GuardBytes \cup {"none"}]
    /\ original \in [Renderers -> Contents \cup {"none"}]
    /\ online \in BOOLEAN /\ stopped \in BOOLEAN /\ injecting \in BOOLEAN
    /\ cpc \in {"away", "poll", "consume", "stop", "patch", "answer"}
    /\ guard \in GuardBytes /\ update \in Contents
    /\ foreignNext \in Contents \cup {"none"}

\* What a call of x calls in turn.
Calls(x) ==
    IF x = "foreign" THEN foreignNext
    ELSE IF x \in Renderers THEN original[x] ELSE x

\* A call of x gets to y, through any number of hooks: y is in every set that
\* contains x and whatever its members call.
Callable == Contents \cup {"none"}
Reaches(x, y) ==
    \A S \in SUBSET Callable : x \in S /\ (\A z \in S : Calls(z) \in S) => y \in S

\* As long as Application.Update is not torn, calling it ends in the native
\* code: every hook that has become reachable knows its predecessor, and no
\* two of them call each other, although probe, publication and patch are
\* separate steps and another hook or another renderer may come in between.
HooksCallThrough == update # "torn" => Reaches(update, "native")

\* A renderer that considers itself ready renders where it may: the guard of
\* the UI thread is off, or Application.Update reaches its hook (unless torn
\* by a later transaction).  Holds even when a renderer accepts the
\* acknowledgement of another one's guard request, whose nonce is the same.
ReadyIsPatched ==
    \A r \in Renderers : at[r] = "ready" =>
        \/ guard = "ret"
        \/ update = "torn"
        \/ Reaches(update, r)

\* "fail-closed without Application.Update write": where the guard is
\* supported, no renderer, ready or failed, early or late, gets
\* Application.Update changed.
GuardModeLeavesUpdate == Supported => update \in {"native", "foreign"}

\* Application.Update stays sound while renderers, controller and a foreign
\* program work on it: a call of it ends in native code, and where the guard is
\* supported nobody changes it.
HandshakeInv == TypeOK /\ HooksCallThrough /\ GuardModeLeavesUpdate

\* The two sides do not wait for each other forever: an injected renderer
\* becomes ready or gives up, whatever happens to its files.
HandshakeEnds ==
    \A r \in Renderers : at[r] \in Stages ~> at[r] \in Ended
=============================================================================
