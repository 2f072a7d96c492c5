--------------------------- MODULE OverlayReceiver ---------------------------
(***************************************************************************)
(* The overlay inside ShellUI (src/ps5/shellui_payload/                    *)
(* commonfps_shellui.cpp): a receiver thread takes the controller's        *)
(* datagrams, the render callback (Application.Update, or the receiver     *)
(* itself on firmware without the hook) applies the latest one to two      *)
(* labels of the game scene's root widget.                                 *)
(*                                                                         *)
(* The packet, its sequence number and the have-packet flag are stored one *)
(* after the other while the callback reads them; the widgets belong to    *)
(* ShellUI, which replaces scenes and roots as it likes, and every managed *)
(* call may fail.  A packet carries its sequence, a configuration and a    *)
(* text; the controller run that sent it is not on the wire and is used by *)
(* the properties only.                                                    *)
(***************************************************************************)
EXTENDS Naturals, Sequences, FiniteSets

CONSTANTS Frames,      \* what a packet may carry: a configuration [font, label,
                       \* value, show, corner] and a text, "Loading" or a rate
          Scenes, Roots,
          MaxSeq,      \* packets per controller run
          MaxRuns,     \* controller runs
          MaxQueue,    \* datagrams the socket holds
          MaxFailing,  \* property setters that fail in one application
          MaxStray     \* second labels, and second values, that a root may come to hold

None == "none"

ASSUME OverlayConstants ==
    /\ None \notin Scenes \cup Roots
    /\ Frames # {}
    /\ MaxSeq \in Nat /\ MaxRuns \in Nat /\ MaxQueue \in Nat /\ MaxFailing \in Nat
    /\ MaxStray \in Nat

VARIABLES
    background,                          \* g_background_render_mode: the receiver renders
    run, next, queue,                    \* controller and socket
    receiver,                            \* where the receiver thread is
    packet, sequence, have,              \* shared with the callback
    render, seen, frame,                 \* the callback and its locals
    newLabel, newValue,
    appliedSequence, applied, styleApplied,
    sceneHandle, rootHandle, labelHandle, valueHandle,
    scene, rootOf, label, value,         \* ShellUI's side: the widgets in use,
    strayLabels, strayValues,            \* and others of the same names
    shownPacket,                         \* the packet last applied in full
    missedIn                             \* roots in which a lookup missed a widget

shared == <<packet, sequence, have>>
locals == <<seen, frame, newLabel, newValue>>
style == <<appliedSequence, applied, styleApplied, shownPacket>>
handles == <<sceneHandle, rootHandle, labelHandle, valueHandle>>
strays == <<strayLabels, strayValues, missedIn>>
ui == <<scene, rootOf, label, value, strays>>
overlay == <<background, run, next, queue, receiver, shared, render, locals, style, handles, ui>>

Packet(kind, r, s, f) == [kind |-> kind, run |-> r, seq |-> s,
                          config |-> f.config, text |-> f.text]
ZeroPacket == Packet("frame", 0, 0, CHOOSE f \in Frames : TRUE)
Packets == {Packet(k, r, s, f) : k \in {"frame", "shutdown"}, r \in 0 .. MaxRuns,
                                 s \in 0 .. MaxSeq, f \in Frames}

\* The layout depends on the text only in so far as "Loading" is wider, and
\* only where the overlay is aligned to the right.
Anchor(p) == IF p.config.corner = "right"
             THEN <<"right", p.config.font, p.config.show, p.text = "Loading">>
             ELSE <<"left", p.config.font>>
Advance(p) == <<p.config.show, p.config.font>>
LabelOf(p) == [font |-> p.config.font, color |-> p.config.label,
               text |-> p.config.show, at |-> Anchor(p)]
ValueOf(p) == [font |-> p.config.font, color |-> p.config.value,
               text |-> p.text, at |-> <<Anchor(p), Advance(p)>>]
NoWidget == [font |-> 0]
Attributes == {"font", "color", "text", "at"}

OverlayInit ==
    /\ background \in BOOLEAN
    /\ run \in 1 .. MaxRuns /\ next = 1 /\ queue = <<>>
    /\ receiver = "recv"
    /\ packet = ZeroPacket /\ sequence = 0 /\ have = FALSE
    /\ render = "idle" /\ seen = 0 /\ frame = ZeroPacket
    /\ newLabel = FALSE /\ newValue = FALSE
    /\ appliedSequence = 0 /\ applied = ZeroPacket /\ styleApplied = FALSE /\ shownPacket = ZeroPacket
    /\ sceneHandle = None /\ rootHandle = None /\ labelHandle = None /\ valueHandle = None
    /\ scene \in Scenes /\ rootOf \in [Scenes -> Roots]
    /\ label = [r \in Roots |-> NoWidget] /\ value = [r \in Roots |-> NoWidget]
    /\ strayLabels = [r \in Roots |-> <<>>] /\ strayValues = [r \in Roots |-> <<>>]
    /\ missedIn = {}

------------------------------------------------------------------------------
(***************************************************************************)
(* The controller sends one packet per tick and ignores the result; a      *)
(* datagram that does not fit is lost.  A restarted controller counts from *)
(* one again.  Shutdown packets of older versions may still arrive.        *)
(***************************************************************************)
Enqueue(p) == queue' \in {queue} \cup (IF Len(queue) < MaxQueue THEN {Append(queue, p)} ELSE {})

Send ==
    /\ next <= MaxSeq
    /\ \E f \in Frames : Enqueue(Packet("frame", run, next, f))
    /\ next' = next + 1
    /\ UNCHANGED <<background, run, receiver, shared, render, locals, style, handles, ui>>

Restart ==
    /\ run < MaxRuns
    /\ run' = run + 1 /\ next' = 1
    /\ \/ queue' = queue
       \/ Len(queue) < MaxQueue /\ queue' = Append(queue, [ZeroPacket EXCEPT !.kind = "shutdown"])
    /\ UNCHANGED <<background, receiver, shared, render, locals, style, handles, ui>>

------------------------------------------------------------------------------
(***************************************************************************)
(* run_receiver_loop.                                                      *)
(***************************************************************************)
Receive ==
    /\ receiver = "recv" /\ queue # <<>>
    /\ queue' = Tail(queue)
    /\ IF Head(queue).kind = "frame"
       THEN packet' = Head(queue) /\ receiver' = "sequence"
       ELSE UNCHANGED <<packet, receiver>>
    /\ UNCHANGED <<background, run, next, sequence, have, render, locals, style, handles, ui>>

StoreNextSequence ==
    /\ receiver = "sequence"
    /\ sequence' = packet.seq + 1 /\ receiver' = "have"
    /\ UNCHANGED <<background, run, next, queue, packet, have, render, locals, style, handles, ui>>

StoreSequence ==
    /\ receiver = "sequence"
    /\ sequence' = packet.seq /\ receiver' = "have"
    /\ UNCHANGED <<background, run, next, queue, packet, have, render, locals, style, handles, ui>>

StoreHave ==
    /\ receiver = "have"
    /\ have' = TRUE /\ receiver' = IF background THEN "render" ELSE "recv"
    /\ UNCHANGED <<background, run, next, queue, packet, sequence, render, locals, style, handles, ui>>

\* Two seconds without a datagram.
ReceiveTimeout ==
    /\ receiver = "recv" /\ queue = <<>> /\ have
    /\ have' = FALSE
    /\ UNCHANGED <<background, run, next, queue, receiver, packet, sequence, render, locals, style, handles, ui>>

------------------------------------------------------------------------------
(***************************************************************************)
(* apply_latest_state_on_render.                                           *)
(***************************************************************************)
LeaveRender ==
    /\ render' = "idle"
    /\ receiver' = IF background THEN "recv" ELSE receiver
    /\ seen' = 0 /\ frame' = ZeroPacket /\ newLabel' = FALSE /\ newValue' = FALSE

MayRender == ~ background \/ receiver = "render"

BeginRender ==
    /\ render = "idle" /\ MayRender
    /\ IF have THEN render' = "sequence" /\ UNCHANGED <<receiver, locals>> ELSE LeaveRender
    /\ UNCHANGED <<background, run, next, queue, shared, style, handles, ui>>

LoadAlways ==
    /\ render = "sequence"
    /\ seen' = sequence /\ render' = "copy"
    /\ UNCHANGED <<background, run, next, queue, receiver, shared, frame, newLabel, newValue,
                   style, handles, ui>>

LoadSequence ==
    /\ render = "sequence"
    /\ IF sequence = appliedSequence THEN LeaveRender
       ELSE seen' = sequence /\ render' = "copy" /\ UNCHANGED <<receiver, frame, newLabel, newValue>>
    /\ UNCHANGED <<background, run, next, queue, shared, style, handles, ui>>

CopyPacket ==
    /\ render = "copy"
    /\ IF packet.seq # seen THEN LeaveRender
       ELSE frame' = packet /\ render' = "scene" /\ UNCHANGED <<receiver, seen, newLabel, newValue>>
    /\ UNCHANGED <<background, run, next, queue, shared, style, handles, ui>>

------------------------------------------------------------------------------
(***************************************************************************)
(* apply_packet_on_render.  Every managed call may fail; the handles pin   *)
(* their targets.                                                          *)
(***************************************************************************)
Forget(change, handle) == IF change THEN None ELSE handle

\* refresh_game_scene and the root check.  A new scene or a new root drops the
\* widgets and the remembered style.
RefreshHandles(scenePinned, rootRead, rootPinned) ==
    LET newScene == sceneHandle # scene
        root == rootOf[scene]
        oldRoot == Forget(newScene, rootHandle)
        newRoot == scenePinned /\ rootRead /\ oldRoot # root /\ rootPinned
    IN  /\ sceneHandle' = IF scenePinned THEN scene ELSE sceneHandle
        /\ rootHandle' = IF newRoot THEN root ELSE oldRoot
        /\ labelHandle' = Forget(newScene \/ newRoot, labelHandle)
        /\ valueHandle' = Forget(newScene \/ newRoot, valueHandle)
        /\ styleApplied' = (styleApplied /\ ~ newScene /\ ~ newRoot)
        /\ IF scenePinned /\ rootRead /\ rootHandle' = root
           THEN render' = "label" /\ UNCHANGED <<receiver, locals>>
           ELSE LeaveRender

SceneNotFound ==
    /\ render = "scene" /\ LeaveRender
    /\ UNCHANGED <<background, run, next, queue, shared, style, handles, ui>>

RefreshScene ==
    /\ render = "scene"
    /\ \E scenePinned, rootRead, rootPinned \in BOOLEAN :
          /\ sceneHandle = scene => scenePinned
          /\ RefreshHandles(scenePinned, rootRead, rootPinned)
    /\ UNCHANGED <<background, run, next, queue, shared, appliedSequence, applied, shownPacket, ui>>

\* The property changes that this frame asks for.
FontChanged == ~ styleApplied \/ frame.config.font # applied.config.font
LabelColorChanged == ~ styleApplied \/ frame.config.label # applied.config.label
ValueColorChanged == ~ styleApplied \/ frame.config.value # applied.config.value
LabelTextChanged == ~ styleApplied \/ frame.config.show # applied.config.show
LayoutChanged ==
    ~ styleApplied \/ Anchor(frame) # Anchor(applied) \/ Advance(frame) # Advance(applied)

\* find_widget, asked only for a widget that is not pinned: the widget in use,
\* another one of its name, or none although there is one, when a managed call
\* of the lookup fails.  "hand" is what it gives, "others" the rest in the root.
Sees(miss, hand, others) == [miss |-> miss, hand |-> hand, others |-> others]

NeverLooks(handle, widget, others) ==
    {IF handle # None \/ widget = NoWidget THEN Sees(FALSE, widget, others)
     ELSE Sees(FALSE, NoWidget, Append(others, widget))}

Lookups(handle, widget, others) ==
    {Sees(FALSE, widget, others)} \cup
    IF handle # None \/ widget = NoWidget THEN {}
    ELSE {Sees(FALSE, others[i], [others EXCEPT ![i] = widget]) : i \in DOMAIN others} \cup
         (IF Len(others) < MaxStray THEN {Sees(TRUE, NoWidget, Append(others, widget))} ELSE {})

Missing(l, at) == missedIn' = IF l.miss THEN missedIn \cup {at} ELSE missedIn

\* A widget that is neither pinned nor found in the root is created, appended
\* and pinned; one that is found is pinned.  Either may stop half-way.
PutLabel ==
    /\ render = "label"
    /\ LET at == IF labelHandle # None THEN labelHandle ELSE rootHandle
       IN  \E l \in Lookups(labelHandle, label[at], strayLabels[at]) :
           LET fresh == l.hand = NoWidget
               Put == /\ label' = [label EXCEPT ![at] = IF fresh THEN LabelOf(frame) ELSE l.hand]
                      /\ strayLabels' = [strayLabels EXCEPT ![at] = l.others]
                      /\ Missing(l, at)
           IN  \/ /\ render' = "value" /\ newLabel' = fresh
                  /\ labelHandle' = at /\ Put
                  /\ UNCHANGED <<receiver, seen, frame, newValue>>
               \/ /\ FontChanged \/ labelHandle = None \/ valueHandle = None
                  /\ LeaveRender
                  /\ Put \/ UNCHANGED <<label, strayLabels, missedIn>>
                  /\ UNCHANGED labelHandle
    /\ UNCHANGED <<background, run, next, queue, shared, style,
                   sceneHandle, rootHandle, valueHandle, scene, rootOf, value, strayValues>>

PutValue ==
    /\ render = "value"
    /\ LET at == IF valueHandle # None THEN valueHandle ELSE rootHandle
       IN  \E l \in Lookups(valueHandle, value[at], strayValues[at]) :
           LET fresh == l.hand = NoWidget
               Put == /\ value' = [value EXCEPT ![at] = IF fresh THEN ValueOf(frame) ELSE l.hand]
                      /\ strayValues' = [strayValues EXCEPT ![at] = l.others]
                      /\ Missing(l, at)
           IN  \/ /\ render' = "style" /\ newValue' = fresh
                  /\ valueHandle' = at /\ Put
                  /\ UNCHANGED <<receiver, seen, frame, newLabel>>
               \/ /\ valueHandle = None
                  /\ LeaveRender
                  /\ Put \/ UNCHANGED <<value, strayValues, missedIn>>
                  /\ UNCHANGED valueHandle
    /\ UNCHANGED <<background, run, next, queue, shared, style,
                   sceneHandle, rootHandle, labelHandle, scene, rootOf, label, strayLabels>>

\* The setters that run: none for a widget that was just created.
LabelSetters ==
    IF newLabel THEN {}
    ELSE {f \in Attributes : \/ (f = "font" /\ FontChanged)     \/ (f = "color" /\ LabelColorChanged)
                             \/ (f = "text" /\ LabelTextChanged) \/ (f = "at" /\ LayoutChanged)}
ValueSetters ==
    IF newValue THEN {}
    ELSE {f \in Attributes : \/ (f = "font" /\ FontChanged)     \/ (f = "color" /\ ValueColorChanged)
                             \/ f = "text"                      \/ (f = "at" /\ LayoutChanged)}

Set(widget, fields, target) ==
    [f \in DOMAIN widget |-> IF f \in fields THEN target[f] ELSE widget[f]]

Remember ==
    /\ applied' = frame /\ styleApplied' = TRUE
    /\ appliedSequence' = frame.seq /\ shownPacket' = frame

ForgetStyleNot == UNCHANGED style
RememberAnyway == appliedSequence' = frame.seq /\ styleApplied' = FALSE /\ UNCHANGED <<applied, shownPacket>>

\* What a failed application leaves: the style is applied again in full.
ForgetStyle ==
    /\ styleApplied' = FALSE
    /\ UNCHANGED <<appliedSequence, applied, shownPacket>>

ApplyStyle ==
    /\ render = "style" /\ LeaveRender
    /\ \E lost \in SUBSET LabelSetters, missed \in SUBSET ValueSetters :
          /\ Cardinality(lost) + Cardinality(missed) <= MaxFailing
          /\ label' = [label EXCEPT ![labelHandle] = Set(@, LabelSetters \ lost, LabelOf(frame))]
          /\ value' = [value EXCEPT ![valueHandle] = Set(@, ValueSetters \ missed, ValueOf(frame))]
          /\ IF lost = {} /\ missed = {} THEN Remember ELSE ForgetStyle
    /\ UNCHANGED <<background, run, next, queue, shared, handles, scene, rootOf, strays>>

\* The label class is not found: nothing is touched and nothing forgotten.
ClassNotFound ==
    /\ render = "style" /\ LeaveRender
    /\ UNCHANGED <<background, run, next, queue, shared, style, handles, ui>>

------------------------------------------------------------------------------
(***************************************************************************)
(* ShellUI.  Its own thread runs Application.Update, so that a scene does  *)
(* not change under a callback; the receiver thread has no such luck.      *)
(***************************************************************************)
ChangeScene ==
    /\ background \/ render = "idle"
    /\ \/ scene' \in Scenes \ {scene} /\ UNCHANGED rootOf
       \/ \E r \in Roots \ {rootOf[scene]} : rootOf' = [rootOf EXCEPT ![scene] = r] /\ UNCHANGED scene
    /\ UNCHANGED <<background, run, next, queue, receiver, shared, render, locals, style, handles,
                   label, value, strays>>

------------------------------------------------------------------------------
Receiver == Receive \/ StoreSequence \/ StoreHave \/ ReceiveTimeout
Render == \/ BeginRender \/ LoadSequence \/ CopyPacket \/ SceneNotFound \/ RefreshScene
          \/ PutLabel \/ PutValue \/ ApplyStyle \/ ClassNotFound
OverlayNext == Send \/ Restart \/ Receiver \/ Render \/ ChangeScene

OverlaySpec == OverlayInit /\ [][OverlayNext]_overlay

\* The threads run, and an application that is tried again and again succeeds
\* in the end.
Shows == /\ RefreshScene /\ render' = "label"
Labels == /\ PutLabel /\ render' = "value"
Values == /\ PutValue /\ render' = "style"
Styles == ApplyStyle /\ styleApplied'

------------------------------------------------------------------------------
\* The variables stay in their types.
OverlayTypeOK ==
    /\ background \in BOOLEAN /\ run \in 1 .. MaxRuns /\ next \in 1 .. MaxSeq + 1 /\ queue \in Seq(Packets)
    /\ receiver \in {"recv", "sequence", "have", "render"}
    /\ packet \in Packets /\ sequence \in 0 .. MaxSeq /\ have \in BOOLEAN
    /\ render \in {"idle", "sequence", "copy", "scene", "label", "value", "style"}
    /\ frame \in Packets /\ seen \in 0 .. MaxSeq
    /\ appliedSequence \in 0 .. MaxSeq /\ applied \in Packets /\ shownPacket \in Packets
    /\ newLabel \in BOOLEAN /\ newValue \in BOOLEAN /\ styleApplied \in BOOLEAN
    /\ scene \in Scenes /\ sceneHandle \in Scenes \cup {None} /\ rootOf \in [Scenes -> Roots]
    /\ {rootHandle, labelHandle, valueHandle} \subseteq Roots \cup {None}

\* Between two applications, a style that counts as applied is the style the
\* widgets in use really have: the pinned labels of the pinned root show the
\* colours, font, place and text of the last packet applied in full, whatever
\* failed before and however scenes and roots were replaced, so that a selective
\* update (apply_packet_on_render) never leaves them with an older attribute.
OverlayShowsFrame ==
    render \in {"idle", "sequence", "copy", "scene"} /\ styleApplied =>
        /\ label[rootHandle] = LabelOf(shownPacket)
        /\ value[rootHandle] = ValueOf(shownPacket)
        /\ labelHandle = rootHandle /\ valueHandle = rootHandle

\* A root holds a second label or value, which keeps the look it had, only if
\* find_widget once missed a widget that was there: neither dropped handles nor
\* widgets that were appended and not pinned lead to one.
SecondOnlyAfterMiss ==
    /\ missedIn \subseteq Roots
    /\ \A r \in Roots \ missedIn : strayLabels[r] = <<>> /\ strayValues[r] = <<>>

\* Types and widgets: what the renderer believes to have applied is what its
\* widgets show, and where no lookup missed one, there are no others.
OverlayInv == OverlayTypeOK /\ OverlayShowsFrame /\ SecondOnlyAfterMiss

Newer(p, q) == p.run > q.run \/ (p.run = q.run /\ p.seq > q.seq)

\* A full application always shows a newer packet than the one before, in the
\* order in which the controllers sent them: no torn combination of packet,
\* sequence and flag makes the overlay go back or redo its work.
AppliedInOrder ==
    [][render = "style" /\ shownPacket' = frame => Newer(frame, shownPacket)]_overlay

\* With one controller and the update hook, a stored packet is shown, unless a
\* later one takes its place or the controller falls silent.
ShownOrSuperseded ==
    \A s \in 1 .. MaxSeq :
        (have /\ packet.seq = s) ~> (shownPacket.seq = s \/ packet.seq # s \/ ~ have)
=============================================================================
