------------------------------- MODULE MCHook -------------------------------
(***************************************************************************)
(* The hook protocol in its three parts: what a request contains           *)
(* (HookRequest), how requests and answers travel through the two files    *)
(* (HookHandshake, on firmware with and without the main-thread guard) and *)
(* how the controller carries one out (HookTransaction).  The parts meet   *)
(* in HookPatch, whose promise the transaction implements and the          *)
(* handshake builds on; so a behaviour is one of a single part, while the  *)
(* other two rest in an initial state.                                     *)
(***************************************************************************)
EXTENDS HookTransaction, HookRequest

CONSTANTS Renderers,     \* of HookHandshake, and
          MaxRestarts    \* its bound on controller restarts

VARIABLES part,
          requestFile, ackFile, at, step, expected, original, online,
          cpc, held, verdict, observed, injecting, restarts,
          halted, guardByte, update, foreignNext

handshake == <<requestFile, ackFile, at, step, expected, original, online,
               cpc, held, verdict, observed, injecting, restarts,
               halted, guardByte, update, foreignNext>>

\* Firmware without and with the main-thread guard.
Unguarded == INSTANCE HookHandshake WITH
    Supported <- FALSE, stopped <- halted, guard <- guardByte
Guarded == INSTANCE HookHandshake WITH
    Supported <- TRUE, stopped <- halted, guard <- guardByte

\* The prefixes that the JIT compiler emits, every opcode class in the first
\* two instructions, short ones after them.
MCPrefixRuns == {<<>>, <<"66">>, <<"rexW">>, <<"67">>}
Push == [prefixes |-> <<>>, op |-> "push", form |-> Short]
MCPrograms ==
    {[k \in 1 .. JumpSize |-> IF k = 1 THEN a ELSE IF k = 2 THEN b ELSE Push] : a, b \in Insns}
Pushes == [k \in 1 .. JumpSize |-> Push]

ASSUME FileConstants == Guarded!HandshakeConstants /\ Unguarded!HandshakeConstants

Parts == {"transaction", "unguarded", "guarded", "message"}

SuiteInit ==
    /\ part \in Parts
    /\ Init
    /\ part # "transaction" =>
          fw = (CHOOSE f \in Families : TRUE) /\ code = "native" /\ prot = {"R", "X"}
    /\ Guarded!Init
    /\ kind \in Purposes /\ method \in Methods /\ bytes \in Codes
    /\ part # "message" => kind = "probe" /\ method = "low" /\ bytes[1] = RET
    /\ insns \in IF kind = "update" /\ method = "method" /\ bytes[1] = Other
                THEN MCPrograms ELSE {Pushes}
    /\ MessageInit

\* Where a behaviour may stop: after the last request, after the handshakes,
\* and with a message that was judged or that the renderer did not send.
Over == /\ \/ part = "transaction" /\ pc = "idle" /\ polls = MaxPolls
           \/ part = "message"
           \/ part \in {"guarded", "unguarded"} /\ cpc = "away"
                /\ \A r \in Renderers : at[r] \in {"absent", "ready", "failed"}
        /\ UNCHANGED <<part, vars, handshake, message>>

SuiteNext ==
    \/ part = "transaction" /\ Next /\ UNCHANGED <<part, handshake, message>>
    \/ part = "unguarded" /\ Unguarded!Next /\ UNCHANGED <<part, vars, message>>
    \/ part = "guarded" /\ Guarded!Next /\ UNCHANGED <<part, vars, message>>
    \/ part = "message" /\ MessageNext /\ UNCHANGED <<part, vars, handshake>>
    \/ Over

\* Both sides of the handshake keep running: their waits are counted loops.
SuiteSpec ==
    /\ SuiteInit /\ [][SuiteNext]_<<part, vars, handshake, message>>
    /\ \A r \in Renderers :
          /\ WF_handshake(part = "unguarded" /\ Unguarded!RendererStep(r))
          /\ WF_handshake(part = "guarded" /\ Guarded!RendererStep(r))
    /\ WF_handshake(part = "unguarded" /\ Unguarded!ControllerStep)
    /\ WF_handshake(part = "guarded" /\ Guarded!ControllerStep)

------------------------------------------------------------------------------
\* Application.Update stays sound while renderers, a controller that may be
\* restarted and a foreign program work on it through separate steps: as long
\* as it is not torn, a call of it ends in native code, and where the guard is
\* supported nobody changes it ("fail-closed without Application.Update write").
HandshakeInv == IF part = "guarded" THEN Guarded!HandshakeInv ELSE Unguarded!HandshakeInv

\* A renderer that considers itself ready renders where it may: the guard of
\* the UI thread is off, or Application.Update reaches its hook (unless torn
\* by a later transaction).  Holds even when a renderer accepts the
\* acknowledgement of another one's guard request, whose nonce is the same.
ReadyIsPatched == Guarded!ReadyIsPatched

\* The two sides do not wait for each other forever: an injected renderer
\* becomes ready or gives up, whatever happens to its files.
HandshakeEnds == Guarded!HandshakeEnds
==============================================================================
