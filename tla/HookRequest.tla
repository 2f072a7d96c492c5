----------------------------- MODULE HookRequest -----------------------------
(***************************************************************************)
(* The request the renderer builds (install_update_hook, publish_* and     *)
(* native_patch_length, src/ps5/shellui_payload/commonfps_shellui.cpp)     *)
(* and the checks the controller makes of it before it touches ShellUI     *)
(* (shellui_hook_protocol.hpp).  The two are separate programs and must    *)
(* agree on every shape a method can have.                                 *)
(*                                                                         *)
(* Sixteen bytes are a function on 1..16.  The bytes of an absolute jump   *)
(* are six prefix bytes, which carry their position, and eight target      *)
(* bytes <<target, i>>; the other bytes are told apart only as far as the  *)
(* two programs do.  A method that does not start with a jump is a run of  *)
(* instructions, each given by what the decoder looks at: its prefixes,    *)
(* the class of its opcode and its addressing form.                        *)
(***************************************************************************)
EXTENDS Naturals, Sequences

CONSTANTS PrefixRuns,    \* the runs of prefix bytes an instruction may have
          Opcodes        \* the opcode classes

VARIABLES
    kind, method, bytes,    \* what is wanted, where, and the code there
    insns,                  \* the same as instructions
    taken, length,          \* of native_patch_length: instructions and bytes so far
    wire, answer,           \* the request and the controller's verdict
    trueEnd                 \* where the instruction taken last really ends

message == <<kind, method, bytes, insns, taken, length, wire, answer, trueEnd>>

Purposes == {"probe", "guard", "update"}
Methods == {"method", "low"}
Addresses == {"method", "hook", "trampoline", "other", "low"}
UserAddress(a) == a \in Addresses \ {"low"}
Positions == 1 .. 16
JumpSize == 14

JumpByte(target, i) == IF i <= 6 THEN <<"jump", i>> ELSE <<target, i>>
RET == <<"ret", 0>>
NOP == <<"nop", 0>>
Other == <<"byte", 0>>
Zero == <<"zero", 0>>
Zeros == [i \in Positions |-> Zero]
IsJump(b) == \A i \in 1 .. 6 : b[i] = <<"jump", i>>
TargetOf(b) == b[7][1]

NoMessage == [displaced |-> 99]

Codes ==
    {[i \in Positions |-> IF i <= JumpSize THEN JumpByte(t, i) ELSE e] :
        t \in Addresses, e \in {Other, NOP}} \cup
    {[i \in Positions |-> IF i = 1 THEN first ELSE Other] : first \in {RET, NOP, Other}}

\* An instruction.  The forms of an operand in memory or in a register: mod is
\* the addressing mode, rm = 4 announces a further byte with a base, and
\* mod 0 with rm 5 is relative to the instruction itself.
Forms == {f \in [mod : 0 .. 3, rm : {0, 4, 5}, base : {0, 5}] :
            (f.mod = 3 => f.rm = 0) /\ (f.base = 5 => f.rm = 4)}
Short == [mod |-> 3, rm |-> 0, base |-> 0]
HasOperand(op) == op \in {"alu", "alu8", "alu32", "two_byte"}
Insns == {i \in [prefixes : PrefixRuns, op : Opcodes, form : Forms] :
            HasOperand(i.op) \/ i.form = Short}

Has(prefixes, p) == \E i \in DOMAIN prefixes : prefixes[i] = p

\* The compiler writes a REX prefix last and does not combine one that widens
\* the operand with one that shortens it.
Canonical(prefixes) ==
    /\ \A i \in DOMAIN prefixes : prefixes[i] \in {"rex", "rexW"} => i = Len(prefixes)
    /\ ~ (Has(prefixes, "66") /\ Has(prefixes, "rexW"))

ASSUME MessageConstants ==
    \A p \in PrefixRuns : p \in Seq({"66", "67", "other", "rex", "rexW"}) /\ Canonical(p)

MessageInit ==
    /\ kind \in Purposes /\ method \in Methods
    /\ bytes \in Codes /\ insns \in [1 .. JumpSize -> Insns]
    /\ taken = 0 /\ length = 0 /\ trueEnd = 0
    /\ wire = NoMessage /\ answer = "none"

------------------------------------------------------------------------------
(***************************************************************************)
(* The renderer.                                                           *)
(***************************************************************************)
\* The decoder's length of an instruction, 0 if it must not or cannot be
\* moved: a changed address size, relative control flow, an operand relative to
\* the instruction, an opcode it does not know, or no room.
RexW(prefixes) ==
    \E i \in DOMAIN prefixes :
        /\ prefixes[i] = "rexW"
        /\ \A j \in DOMAIN prefixes : j > i => prefixes[j] \notin {"rex", "rexW"}

Immediate(i) ==
    LET word == IF Has(i.prefixes, "66") THEN 2 ELSE 4
    IN  IF i.op \in {"push8", "alu8"} THEN 1
        ELSE IF i.op \in {"push32", "alu32"} THEN word
        ELSE IF i.op = "mov" THEN (IF RexW(i.prefixes) THEN 8 ELSE word)
        ELSE 0

Operand(f) ==
    LET sib == f.mod # 3 /\ f.rm = 4 IN
    1 + (IF sib THEN 1 ELSE 0)
      + (IF f.mod = 1 THEN 1
         ELSE IF f.mod = 2 \/ (f.mod = 0 /\ sib /\ f.base = 5) THEN 4 ELSE 0)

Size(i) ==
    Len(i.prefixes) + (IF i.op = "two_byte" THEN 2 ELSE 1)
        + (IF HasOperand(i.op) THEN Operand(i.form) ELSE 0) + Immediate(i)

MovesRelative(i) == Has(i.prefixes, "67") \/ i.op = "unknown"

Refused(i) ==
    \/ Has(i.prefixes, "67")
    \/ i.op \in {"branch", "unknown"}
    \/ HasOperand(i.op) /\ i.form.mod = 0 /\ i.form.rm = 5

DecodeRelocatable(i, available) ==
    IF Refused(i) \/ Size(i) > available THEN 0 ELSE Size(i)

\* What the processor makes of the bytes: how long an instruction is by its
\* encoding rules, and whether it means the same at another address.
TrueOperand(f) ==
    IF f.mod = 3 THEN 1
    ELSE IF f.mod = 0
    THEN IF f.rm = 5 THEN 5 ELSE IF f.rm # 4 THEN 1 ELSE IF f.base = 5 THEN 6 ELSE 2
    ELSE (IF f.rm = 4 THEN 2 ELSE 1) + (IF f.mod = 1 THEN 1 ELSE 4)

TrueBody(i) ==
    LET wide == i.prefixes # <<>> /\ i.prefixes[Len(i.prefixes)] = "rexW"
        word == IF Has(i.prefixes, "66") /\ ~ wide THEN 2 ELSE 4
    IN  IF i.op = "push8" THEN 2
        ELSE IF i.op = "push32" THEN 1 + word
        ELSE IF i.op = "mov" THEN 1 + (IF wide THEN 8 ELSE word)
        ELSE IF i.op = "branch" THEN 5
        ELSE IF i.op = "alu" THEN 1 + TrueOperand(i.form)
        ELSE IF i.op = "alu32" THEN 1 + word + TrueOperand(i.form)
        ELSE IF i.op \in {"alu8", "two_byte"} THEN 2 + TrueOperand(i.form)
        ELSE 1

TrueSize(i) == Len(i.prefixes) + TrueBody(i)

TrulyRelocatable(i) ==
    i.op # "branch" /\ ~ (HasOperand(i.op) /\ i.form.mod = 0 /\ i.form.rm = 5)

\* native_patch_length, one turn of its loop: whole instructions are taken
\* until the jump fits.  One that cannot be moved ends the attempt.
TakeInstruction ==
    /\ kind = "update" /\ ~ IsJump(bytes) /\ wire = NoMessage
    /\ length < JumpSize
    /\ LET next == insns[taken + 1]
           decoded == DecodeRelocatable(next, 16 - length)
       IN  /\ decoded # 0
           /\ length' = length + decoded
           /\ taken' = taken + 1
           /\ trueEnd' = trueEnd + TrueSize(next)
    /\ UNCHANGED <<kind, method, bytes, insns, wire, answer>>

\* The patch: an absolute jump, no-operations up to the end of the displaced
\* instructions, and the old bytes after them.
DesiredWithoutFill(displaced) ==
    [i \in Positions |-> IF i <= JumpSize THEN JumpByte("hook", i) ELSE bytes[i]]

Desired(displaced) ==
    [i \in Positions |-> IF i <= JumpSize THEN JumpByte("hook", i)
                         ELSE IF i <= displaced THEN NOP ELSE bytes[i]]

ProbeMessage ==
    [method |-> method, hook |-> "hook", original |-> "null",
     displaced |-> 0, expected |-> Zeros, desired |-> Zeros]

GuardMessage ==
    [method |-> method, hook |-> method, original |-> "null",
     displaced |-> 1, expected |-> bytes, desired |-> [bytes EXCEPT ![1] = RET]]

PatchMessage(callee, displaced) ==
    [method |-> method, hook |-> "hook", original |-> callee,
     displaced |-> displaced, expected |-> bytes, desired |-> Desired(displaced)]

PublishProbe == kind = "probe" /\ wire' = ProbeMessage

\* A guard that is off already needs no request.
PublishGuard == kind = "guard" /\ bytes[1] # RET /\ wire' = GuardMessage

\* The target of a foreign jump is called instead of a trampoline, unless it
\* is this hook, the method itself or no user address.
PublishChain ==
    /\ kind = "update" /\ IsJump(bytes)
    /\ TargetOf(bytes) # "hook" /\ UserAddress(TargetOf(bytes)) /\ TargetOf(bytes) # method
    /\ wire' = PatchMessage(TargetOf(bytes), JumpSize)

PublishNative ==
    /\ kind = "update" /\ ~ IsJump(bytes)
    /\ length >= JumpSize /\ length <= 16
    /\ wire' = PatchMessage("trampoline", length)

Publish ==
    /\ wire = NoMessage
    /\ PublishProbe \/ PublishGuard \/ PublishChain \/ PublishNative
    /\ UNCHANGED <<kind, method, bytes, insns, taken, length, answer, trueEnd>>

------------------------------------------------------------------------------
(***************************************************************************)
(* The controller.                                                         *)
(***************************************************************************)
CommonIsValid(q) == UserAddress(q.method) /\ UserAddress(q.hook)
IsProbe(q) == q.displaced = 0
IsMainThreadGuard(q) == q.displaced = 1 /\ q.original = "null" /\ q.hook = q.method

ProbeIsValid(q) ==
    /\ CommonIsValid(q) /\ q.original = "null" /\ IsProbe(q)
    /\ q.expected = Zeros /\ q.desired = Zeros

GuardIsValid(q) ==
    /\ CommonIsValid(q) /\ IsMainThreadGuard(q)
    /\ q.expected[1] # RET /\ q.desired[1] = RET
    /\ \A i \in 2 .. 16 : q.desired[i] = q.expected[i]

PatchIsValid(q) ==
    /\ CommonIsValid(q)
    /\ UserAddress(q.original) /\ q.original \notin {q.hook, q.method}
    /\ q.displaced \in 14 .. 16
    /\ IsJump(q.desired) /\ TargetOf(q.desired) = q.hook
    /\ IF IsJump(q.expected)
       THEN q.displaced = JumpSize /\ TargetOf(q.expected) = q.original
       ELSE \A i \in JumpSize + 1 .. q.displaced : q.desired[i] = NOP
    /\ \A i \in q.displaced + 1 .. 16 : q.desired[i] = q.expected[i]

Judgement(q) ==
    IF IsProbe(q) THEN (IF ProbeIsValid(q) THEN "probe" ELSE "invalid")
    ELSE IF IsMainThreadGuard(q) THEN (IF GuardIsValid(q) THEN "guard" ELSE "invalid")
    ELSE IF PatchIsValid(q) THEN "update" ELSE "invalid"

Judge ==
    /\ wire # NoMessage /\ answer = "none"
    /\ answer' = Judgement(wire)
    /\ UNCHANGED <<kind, method, bytes, insns, taken, length, wire, trueEnd>>

MessageNext == TakeInstruction \/ Publish \/ Judge

MessageSpec == MessageInit /\ [][MessageNext]_message

------------------------------------------------------------------------------
\* The controller takes every request for a method at a user address for what
\* the renderer meant it to be: none is refused, and none is mistaken for a
\* request of another kind.
PublishedIsUnderstood ==
    answer # "none" => answer = IF UserAddress(method) THEN kind ELSE "invalid"

\* A native patch that the controller applies changes only bytes that the
\* trampoline holds a copy of, every instruction copied there means the same at
\* its new address, and the trampoline continues where an instruction of the
\* method begins: none is cut in two.  (native_patch_length and the decoder,
\* against the processor's own encoding rules.)
WholeInstructionsDisplaced ==
    answer = "update" /\ ~ IsJump(bytes) =>
        /\ \A i \in Positions : wire.desired[i] # bytes[i] => i <= wire.displaced
        /\ wire.displaced = trueEnd
        /\ \A j \in 1 .. taken : TrulyRelocatable(insns[j])

\* A request that the renderer builds is taken by the controller for what it
\* is, and the patch it asks for displaces whole instructions that may move.
RequestIsSound == PublishedIsUnderstood /\ WholeInstructionsDisplaced
=============================================================================
