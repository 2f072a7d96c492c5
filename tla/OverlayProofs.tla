---------------------------- MODULE OverlayProofs ----------------------------
(***************************************************************************)
(* Proofs about the way of a setting to the screen: SettingsStore with the *)
(* conversions of OverlayConfig, for any requests and first files of the   *)
(* types that StoreConstants states, any number of connections and any     *)
(* number of crashes; and OverlayReceiver, for any frames, scenes and      *)
(* roots, any number of packets, controller runs and failing setters.      *)
(*                                                                         *)
(* First the conversions: a configuration within its limits is changed     *)
(* neither by the store's limits, nor by config.ini, nor by the wire       *)
(* packet, and is laid out on the screen; what a file or a form yields is  *)
(* within the limits.  Then the store: StoreInv is not inductive, because  *)
(* it says nothing of the temporary file, of what the disk holds for sure, *)
(* or of the request that is being saved; StoreStateInv adds that.  Last   *)
(* the overlay: ScreenInv adds to OverlayInv the order of the packets      *)
(* between the socket and the screen, and what an application that is      *)
(* under way has done to the widgets.                                      *)
(***************************************************************************)
EXTENDS SettingsStore, OverlayReceiver, TLAPS

------------------------------------------------------------------------------
(***************************************************************************)
(* The conversions.                                                        *)
(***************************************************************************)

\* The limits as inequalities: ranges between large literals are beyond the
\* provers.
LEMMA Limits ==
    /\ ColorMask \in Int /\ ColorMask > 16777215
    /\ MinFontSize \in Int /\ MinFontSize >= 14 /\ MinFontSize <= 22
    /\ MaxFontSize \in Int /\ MaxFontSize >= 22 /\ MaxFontSize <= 64
    /\ MaxMargin \in Int /\ MaxMargin >= 10 /\ MaxMargin <= 240
    /\ Junk \in Int /\ Junk > ColorMask /\ Junk > MaxMargin /\ Junk > MaxFontSize
  BY SMT DEF ColorMask, MinFontSize, MaxFontSize, MaxMargin, Junk

\* A colour of 24 bits is kept by the mask, and the mask yields one.
LEMMA MaskKeeps == \A x \in 0 .. ColorMask - 1 : x % ColorMask = x
  BY Limits, SMT

LEMMA MaskLimits == \A x \in Int : x % ColorMask \in 0 .. ColorMask - 1
  BY Limits, SMT

LEMMA DefaultIsConfig == Default \in Configs
  BY Limits, SMT DEF Default, Corners, Configs

\* Whatever numbers a configuration has, sanitize_config brings it within the
\* limits,
LEMMA SanitizeLimits ==
    ASSUME NEW c, c.font \in Int, c.mx \in Int, c.my \in Int, c.show \in BOOLEAN,
           c.label \in Int, c.value \in Int
    PROVE  sanitize_config(c) \in Configs
  BY Limits, MaskLimits, SMT DEF sanitize_config, Configs, Clamp, Default, Corners

\* and leaves alone one that is within them.
LEMMA SanitizeKeeps == \A c \in Configs : sanitize_config(c) = c
  BY Limits, MaskKeeps, SMT DEF sanitize_config, Configs, Clamp, Corners

\* A configuration is the record of its fields.
LEMMA ConfigFields ==
    \A c \in Configs :
        /\ c = [corner |-> c.corner, font |-> c.font, mx |-> c.mx, my |-> c.my,
                show |-> c.show, label |-> c.label, value |-> c.value]
        /\ c.corner \in Corners /\ c.font \in Int /\ c.mx \in Int /\ c.my \in Int
        /\ c.font >= MinFontSize /\ c.font <= MaxFontSize
        /\ c.mx >= 0 /\ c.mx <= MaxMargin /\ c.my >= 0 /\ c.my <= MaxMargin
        /\ c.show \in BOOLEAN
        /\ c.label \in 0 .. ColorMask - 1 /\ c.value \in 0 .. ColorMask - 1
  BY Limits, SMT DEF Configs

\* The reader of config.ini yields a configuration within the limits, whatever
\* the file says (parse_config_text).
LEMMA ParsedIsConfig == \A t \in Texts : parse_config_text(t) \in Configs
<1> SUFFICES ASSUME NEW t \in Texts PROVE parse_config_text(t) \in Configs
  OBVIOUS
<1> DEFINE Number(token, default) == IF token = Junk THEN default ELSE token
           c == [corner |-> t.corner,
                 font   |-> Clamp(Number(t.font, Default.font), MinFontSize, MaxFontSize),
                 mx     |-> Number(t.mx, Default.mx), my |-> Number(t.my, Default.my),
                 show   |-> IF t.show \in {0, 1} THEN t.show = 1 ELSE Default.show,
                 label  |-> Number(t.label, Default.label),
                 value  |-> Number(t.value, Default.value)]
<1>1. c.font \in Int /\ c.mx \in Int /\ c.my \in Int /\ c.label \in Int /\ c.value \in Int
  BY Limits, DefaultIsConfig, ConfigFields, SMT DEF Clamp, Texts
<1>2. c.show \in BOOLEAN
  <2>1. c.show = IF t.show \in {0, 1} THEN t.show = 1 ELSE Default.show
    BY SMT
  <2>2. Default.show \in BOOLEAN
    BY DefaultIsConfig, ConfigFields
  <2> HIDE DEF c
  <2> QED BY <2>1, <2>2
<1>3. parse_config_text(t) = sanitize_config(c)
  BY SMT DEF parse_config_text
<1> HIDE DEF c
<1> QED BY <1>1, <1>2, <1>3, SanitizeLimits

\* The form's own check lets only configurations within the limits through
\* (parse_settings_form).
LEMMA FormIsConfig ==
    \A f \in Forms : FormIsValid(f) => parse_settings_form(f) \in Configs
  BY Limits, SMT DEF FormIsValid, parse_settings_form, Configs, integer, Forms

\* What is saved is read back unchanged: for every configuration within the
\* limits, parse_config_text inverts serialize_config.
THEOREM FileRoundTrip ==
    \A c \in Configs : /\ serialize_config(c) \in Texts
                       /\ parse_config_text(serialize_config(c)) = c
<1> SUFFICES ASSUME NEW c \in Configs
             PROVE  /\ serialize_config(c) \in Texts
                    /\ parse_config_text(serialize_config(c)) = c
  OBVIOUS
<1> DEFINE t == serialize_config(c)
<1>1. /\ t \in Texts
      /\ t.corner = c.corner /\ t.font = c.font /\ t.mx = c.mx /\ t.my = c.my
      /\ t.label = c.label /\ t.value = c.value /\ t.show \in {0, 1} /\ (t.show = 1) = c.show
  <2>1. c.label % ColorMask = c.label /\ c.value % ColorMask = c.value
    BY ConfigFields, MaskKeeps
  <2>2. /\ t.corner = c.corner /\ t.font = c.font /\ t.mx = c.mx /\ t.my = c.my
        /\ t.label = c.label /\ t.value = c.value
    BY <2>1, SMT DEF serialize_config
  <2>3. t.show \in {0, 1} /\ (t.show = 1) = c.show
    BY ConfigFields, SMT DEF serialize_config
  <2>4. t \in Texts
    <3>1. c.corner \in Words
      BY ConfigFields DEF Words
    <3>2. c.label \in Int /\ c.value \in Int
      BY ConfigFields, Limits, SMT
    <3>3. (IF c.show THEN 1 ELSE 0) \in Int
      BY SMT
    <3> QED BY <2>1, <3>1, <3>2, <3>3, ConfigFields, SMT DEF serialize_config, Texts
  <2> QED BY <2>2, <2>3, <2>4
<1>2. /\ t.font # Junk /\ t.mx # Junk /\ t.my # Junk /\ t.label # Junk /\ t.value # Junk
      /\ Clamp(t.font, MinFontSize, MaxFontSize) = c.font
  BY <1>1, ConfigFields, Limits, SMT DEF Clamp
<1> HIDE DEF t
<1>3. parse_config_text(t) = sanitize_config(
        [corner |-> c.corner, font |-> c.font, mx |-> c.mx, my |-> c.my,
         show |-> c.show, label |-> c.label, value |-> c.value])
  BY <1>1, <1>2, SMT DEF parse_config_text
<1> QED BY <1>1, <1>3, ConfigFields, SanitizeKeeps DEF t

\* What is sent is decoded unchanged: for every configuration within the limits
\* the receiver's decode_wire_packet gives back the one that the controller put
\* into make_wire_packet, whatever the rate beside it.
THEOREM WireRoundTrip ==
    \A c \in Configs, fps \in Int, loading \in BOOLEAN :
       decode_wire_packet(make_wire_packet(
          [fps |-> fps, loading |-> loading, config |-> c])).config = c
<1> SUFFICES ASSUME NEW c \in Configs, NEW fps \in Int, NEW loading \in BOOLEAN
             PROVE  decode_wire_packet(make_wire_packet(
                       [fps |-> fps, loading |-> loading, config |-> c])).config = c
  OBVIOUS
<1> DEFINE p == make_wire_packet([fps |-> fps, loading |-> loading, config |-> c])
<1>1. /\ p.corner = CornerCode[c.corner] /\ p.font = Clamp(c.font, MinFontSize, MaxFontSize)
      /\ p.mx = c.mx /\ p.my = c.my /\ p.show = IF c.show THEN 1 ELSE 0
      /\ p.label = c.label % ColorMask /\ p.value = c.value % ColorMask
  BY SMT DEF make_wire_packet
<1> HIDE DEF p
<1>2. decode_corner(p.corner) = c.corner
  BY <1>1, ConfigFields, SMT DEF CornerCode, decode_corner, Corners
<1>3. /\ Clamp(p.font, MinFontSize, MaxFontSize) = c.font
      /\ (IF p.mx < 0 THEN 0 ELSE p.mx) = c.mx /\ (IF p.my < 0 THEN 0 ELSE p.my) = c.my
  BY <1>1, ConfigFields, Limits, SMT DEF Clamp
<1>4. (p.show # 0) = c.show /\ p.label = c.label /\ p.value = c.value
  BY <1>1, ConfigFields, MaskKeeps, SMT
<1>5. decode_wire_packet(p).config = sanitize_config(
        [corner |-> c.corner, font |-> c.font, mx |-> c.mx, my |-> c.my, show |-> c.show,
         label |-> c.label, value |-> c.value])
  BY <1>2, <1>3, <1>4, SMT DEF decode_wire_packet
<1> QED BY <1>5, ConfigFields, SanitizeKeeps DEF p

\* Every configuration within the limits is laid out on the logical screen,
\* also with the wider "Loading" (compute_layout).
THEOREM LayoutFits ==
    \A c \in Configs, loading \in BOOLEAN :
        LET box == compute_layout(c, loading)
        IN  /\ box.x >= 0 /\ box.x + box.width <= Width
            /\ box.y >= 0 /\ box.y + box.height <= Height
<1> SUFFICES ASSUME NEW c \in Configs, NEW loading \in BOOLEAN
             PROVE  LET box == compute_layout(c, loading)
                    IN  /\ box.x >= 0 /\ box.x + box.width <= Width
                        /\ box.y >= 0 /\ box.y + box.height <= Height
  OBVIOUS
<1> DEFINE advance == IF c.show THEN 54 * c.font ELSE 0
           width == advance + c.font * (IF loading THEN 90 ELSE 50)
           height == 29 * c.font
           left == Least(20 * c.mx, Width - width)
           top == Least(20 * c.my, Height - height)
           right == Largest(0, Width - width - left)
           bottom == Largest(0, Height - height - top)
           box == compute_layout(c, loading)
<1>1. /\ c.font \in Int /\ c.font >= 14 /\ c.font <= 64
      /\ c.mx \in Int /\ c.mx >= 0 /\ c.my \in Int /\ c.my >= 0
  BY ConfigFields, Limits, SMT
<1>2. width \in Int /\ width >= 0 /\ width <= 9216 /\ height \in Int /\ height >= 0 /\ height <= 1856
  <2>1. advance \in Int /\ advance >= 0 /\ advance <= 3456
    BY <1>1, SMT
  <2>2. CASE loading
    BY <1>1, <2>1, <2>2, SMT
  <2>3. CASE ~ loading
    BY <1>1, <2>1, <2>3, SMT
  <2> QED BY <2>2, <2>3
<1>3. /\ box.width = width /\ box.height = height
      /\ box.x \in {left, right} /\ box.y \in {top, bottom}
  BY SanitizeKeeps, SMT DEF compute_layout
<1>4. Width \in Int /\ Height \in Int /\ Width > 9216 /\ Height > 1856
  BY SMT DEF Width, Height
<1> HIDE DEF width, height, box
<1>5. /\ left \in Int /\ left >= 0 /\ left <= Width - width
      /\ top \in Int /\ top >= 0 /\ top <= Height - height
  BY <1>1, <1>2, <1>4, SMT DEF Least
<1> HIDE DEF left, top
<1>6. /\ right \in Int /\ right >= 0 /\ right <= Width - width
      /\ bottom \in Int /\ bottom >= 0 /\ bottom <= Height - height
  BY <1>2, <1>4, <1>5, SMT DEF Largest
<1> HIDE DEF right, bottom
<1>7. /\ box.x \in Int /\ box.x >= 0 /\ box.x <= Width - width
      /\ box.y \in Int /\ box.y >= 0 /\ box.y <= Height - height
  BY <1>3, <1>5, <1>6
<1>8. /\ box.x >= 0 /\ box.x + box.width <= Width
      /\ box.y >= 0 /\ box.y + box.height <= Height
  BY <1>2, <1>3, <1>4, <1>7, SMT
<1> QED BY <1>8 DEF box

------------------------------------------------------------------------------
(***************************************************************************)
(* The inductive invariant.                                                *)
(***************************************************************************)
Files == [text : Texts, there : BOOLEAN, synced : BOOLEAN]

\* The texts that are complete: the first ones and those that may be saved.
WholeTexts ==
    FirstFiles \cup {serialize_config(parse_settings_form(q.form)) :
                        q \in {r \in Requests : Saves(r) /\ FormIsValid(r.form)}}

\* A file that a loss of power cannot hurt.
Safe(f) == f \in Files /\ f.synced /\ (f.there => f.text \in WholeTexts)

\* Only a request that may be saved gets to the store.
RequestInv ==
    /\ worker # "accept" => request \in Requests
    /\ Saving => Saves(request) /\ FormIsValid(request.form)

\* The new text is complete before it is synced, and synced before it is renamed,
\* so that config.ini is safe both as seen and as the disk has it.
PendingInv ==
    /\ pending \in Files
    /\ worker = "write" => pending.there
    /\ worker \in {"sync", "rename"} =>
          pending.there /\ pending.text = serialize_config(parse_settings_form(request.form))
    /\ worker = "rename" => pending.synced
PowerInv == Safe(file) /\ Safe(disk)

\* Memory follows the file, but for the one step in which the file is already
\* renamed; and the user knows what is in memory until the answer is on its way.
ConfigInv ==
    /\ worker # "answered" => config = wanted
    /\ worker # "install" => config = Load(file)
    /\ worker = "install" => Load(file) = parse_settings_form(request.form)

StoreStateInv == TypeOK /\ RequestInv /\ PendingInv /\ PowerInv /\ ConfigInv /\ AnswerIsTrue

------------------------------------------------------------------------------
LEMMA RequestTypes ==
    \A q \in Requests : /\ q # NoRequest /\ q.form \in Forms
                        /\ q.body \in Nat /\ q.length \in Nat
<1> SUFFICES ASSUME NEW q \in Requests
             PROVE  /\ q # NoRequest /\ q.form \in Forms
                    /\ q.body \in Nat /\ q.length \in Nat
  OBVIOUS
<1>1. q \in [method : STRING, path : STRING, wellFormed : BOOLEAN, host : BOOLEAN,
             chunked : BOOLEAN, length : Nat, body : Nat, origin : BOOLEAN, form : Forms]
  BY StoreConstants
<1>2. q.form \in Forms /\ q.body \in Nat /\ q.length \in Nat
  BY <1>1
<1>3. DOMAIN q # DOMAIN NoRequest
  BY <1>1 DEF NoRequest
<1> QED BY <1>2, <1>3

LEMMA AbsentIsSafe == Safe(Absent) /\ Absent.there = FALSE
  <1>1. serialize_config(Default) \in Texts
    BY DefaultIsConfig, FileRoundTrip
  <1> QED BY <1>1 DEF Safe, Absent, Files

LEMMA StoredIsSafe == \A t \in FirstFiles : Safe(Stored(t))
  BY StoreConstants DEF Safe, Stored, Files, WholeTexts

LEMMA LoadIsConfig == \A f \in Files : Load(f) \in Configs
  BY ParsedIsConfig, DefaultIsConfig DEF Load, Files

\* A form that passes its check goes through the store's limits and through the
\* file unchanged.
LEMMA SavedForm ==
    ASSUME NEW q \in Requests, FormIsValid(q.form)
    PROVE  LET c == parse_settings_form(q.form)
           IN  /\ c \in Configs /\ sanitize_config(c) = c
               /\ serialize_config(c) \in Texts /\ parse_config_text(serialize_config(c)) = c
               /\ Saves(q) => serialize_config(c) \in WholeTexts
<1> DEFINE c == parse_settings_form(q.form)
<1>1. c \in Configs
  BY RequestTypes, FormIsConfig
<1>2. Saves(q) => serialize_config(c) \in WholeTexts
  BY DEF WholeTexts
<1> HIDE DEF c
<1>3. /\ c \in Configs /\ sanitize_config(c) = c
      /\ serialize_config(c) \in Texts /\ parse_config_text(serialize_config(c)) = c
      /\ Saves(q) => serialize_config(c) \in WholeTexts
  BY <1>1, <1>2, SanitizeKeeps, FileRoundTrip
<1> QED BY <1>3 DEF c

LEMMA StatusCodes ==
    ASSUME NEW q, NEW n
    PROVE  /\ Status(q, n) \in {0, 200, 400, 403, 404, 422, 500}
           /\ Status(q, n) = 0 => Saves(q) /\ FormIsValid(q.form)
           /\ Status(q, n) = 200 => ~ Saves(q)
  BY SMT DEF Status, Saves

LEMMA StoreInitInv == Init => StoreStateInv
<1> SUFFICES ASSUME Init PROVE StoreStateInv
  OBVIOUS
<1> USE DEF Init
<1>1. Safe(file) /\ Safe(disk) /\ pending \in Files
  BY AbsentIsSafe, StoredIsSafe DEF Safe
<1>2. config \in Configs /\ shown \in Configs
  BY <1>1, LoadIsConfig DEF Safe
<1>3. TypeOK
  BY <1>2 DEF TypeOK
<1>4. RequestInv /\ PendingInv /\ PowerInv /\ ConfigInv /\ AnswerIsTrue
  BY <1>1 DEF RequestInv, Saving, PendingInv, PowerInv, ConfigInv, AnswerIsTrue
<1> QED BY <1>3, <1>4 DEF StoreStateInv

LEMMA AcceptKeeps == StoreStateInv /\ Accept => StoreStateInv'
<1> SUFFICES ASSUME StoreStateInv, Accept PROVE StoreStateInv'
  OBVIOUS
<1> USE DEF StoreStateInv, files, bounds
<1>1. TypeOK'
  <2>1. used' \in 0 .. (IF request' = NoRequest THEN 0 ELSE Header + request'.body)
    BY RequestTypes DEF Accept, Header
  <2> QED BY <2>1 DEF TypeOK, Accept
<1>2. RequestInv'
  BY DEF RequestInv, Saving, Saves, TypeOK, Accept
<1>3. PendingInv'
  BY AbsentIsSafe DEF PendingInv, RequestInv, Saving, Safe, Accept
<1>4. PowerInv'
  BY DEF PowerInv, Accept
<1>5. ConfigInv'
  BY DEF ConfigInv, Saving, Saves, AnswerIsTrue, RequestInv, Accept
<1>6. AnswerIsTrue'
  BY DEF AnswerIsTrue, ConfigInv, Saves, Accept
<1> QED BY <1>1, <1>2, <1>3, <1>4, <1>5, <1>6

LEMMA ReceiveSomeKeeps == StoreStateInv /\ ReceiveSome => StoreStateInv'
<1> SUFFICES ASSUME StoreStateInv, ReceiveSome PROVE StoreStateInv'
  OBVIOUS
<1> USE DEF StoreStateInv, files, bounds
<1>1. TypeOK'
  <2>1. request' = request /\ request \in Requests
    BY DEF ReceiveSome, RequestInv
  <2>2. used' \in 0 .. (IF request' = NoRequest THEN 0 ELSE Header + request'.body)
    BY <2>1, RequestTypes DEF TypeOK, ReceiveSome, Header
  <2> QED BY <2>1, <2>2 DEF TypeOK, ReceiveSome
<1>2. RequestInv'
  BY DEF RequestInv, Saving, Saves, TypeOK, ReceiveSome
<1>3. PendingInv'
  BY AbsentIsSafe DEF PendingInv, RequestInv, Saving, Safe, ReceiveSome
<1>4. PowerInv'
  BY DEF PowerInv, ReceiveSome
<1>5. ConfigInv'
  BY DEF ConfigInv, Saving, Saves, AnswerIsTrue, RequestInv, ReceiveSome
<1>6. AnswerIsTrue'
  BY DEF AnswerIsTrue, ConfigInv, Saves, ReceiveSome
<1> QED BY <1>1, <1>2, <1>3, <1>4, <1>5, <1>6

LEMMA ReceiveGivesUpKeeps == StoreStateInv /\ ReceiveGivesUp => StoreStateInv'
<1> SUFFICES ASSUME StoreStateInv, ReceiveGivesUp PROVE StoreStateInv'
  OBVIOUS
<1> USE DEF StoreStateInv, files, bounds
<1>1. TypeOK'
  BY RequestTypes DEF TypeOK, ReceiveGivesUp
<1>2. RequestInv'
  BY DEF RequestInv, Saving, Saves, TypeOK, ReceiveGivesUp
<1>3. PendingInv'
  BY AbsentIsSafe DEF PendingInv, RequestInv, Saving, Safe, ReceiveGivesUp
<1>4. PowerInv'
  BY DEF PowerInv, ReceiveGivesUp
<1>5. ConfigInv'
  BY DEF ConfigInv, Saving, Saves, AnswerIsTrue, RequestInv, ReceiveGivesUp
<1>6. AnswerIsTrue'
  BY DEF AnswerIsTrue, ConfigInv, Saves, ReceiveGivesUp
<1> QED BY <1>1, <1>2, <1>3, <1>4, <1>5, <1>6

LEMMA RespondKeeps == StoreStateInv /\ Respond => StoreStateInv'
<1> SUFFICES ASSUME StoreStateInv, Respond PROVE StoreStateInv'
  OBVIOUS
<1> USE DEF StoreStateInv, files, bounds
<1>0. \/ /\ answer' = Status(request, used) /\ answer' \in {200, 400, 403, 404, 422, 500}
         /\ worker' = "answered" /\ (answer' = 200 => ~ Saves(request))
      \/ /\ worker' = "open" /\ answer' = answer /\ Saves(request)
         /\ FormIsValid(request.form)
  BY StatusCodes DEF Respond, Say
<1>00. UNCHANGED <<request, used, config, files, shown, wanted, bounds>>
  BY DEF Respond
<1>1. TypeOK'
  BY <1>0, <1>00 DEF TypeOK
<1>2. RequestInv'
  BY <1>0, <1>00 DEF RequestInv, Saving, Respond, Saves
<1>3. PendingInv'
  BY AbsentIsSafe DEF PendingInv, RequestInv, Saving, Safe, Respond, Say
<1>4. PowerInv'
  BY DEF PowerInv, Respond, Say
<1>5. ConfigInv'
  BY DEF ConfigInv, Saving, Saves, AnswerIsTrue, RequestInv, Respond, Say
<1>6. AnswerIsTrue'
  BY <1>0, <1>00 DEF AnswerIsTrue, ConfigInv, Saves, Respond
<1> QED BY <1>1, <1>2, <1>3, <1>4, <1>5, <1>6

LEMMA OpenPendingKeeps == StoreStateInv /\ OpenPending => StoreStateInv'
<1> SUFFICES ASSUME StoreStateInv, OpenPending PROVE StoreStateInv'
  OBVIOUS
<1> USE DEF StoreStateInv, files, bounds
<1>1. TypeOK'
  BY RequestTypes DEF TypeOK, OpenPending, Say
<1>2. RequestInv'
  BY DEF RequestInv, Saving, Saves, TypeOK, OpenPending, Say
<1>3. PendingInv'
  <2>1. Absent \in Files
    BY AbsentIsSafe DEF Safe
  <2>2. CASE pending' = [Absent EXCEPT !.there = TRUE, !.synced = FALSE] /\ worker' = "write"
    <3>1. pending' \in Files /\ pending'.there
      BY <2>1, <2>2 DEF Files
    <3> QED BY <2>2, <3>1 DEF PendingInv
  <2>3. CASE Say(500) /\ UNCHANGED pending
    BY <2>3 DEF PendingInv, Say
  <2> QED BY <2>2, <2>3 DEF OpenPending
<1>4. PowerInv'
  BY DEF PowerInv, OpenPending, Say
<1>5. ConfigInv'
  BY DEF ConfigInv, Saving, Saves, AnswerIsTrue, RequestInv, OpenPending, Say
<1>6. AnswerIsTrue'
  BY DEF AnswerIsTrue, ConfigInv, Saves, OpenPending, Say
<1> QED BY <1>1, <1>2, <1>3, <1>4, <1>5, <1>6

LEMMA WritePendingKeeps == StoreStateInv /\ WritePending => StoreStateInv'
<1> SUFFICES ASSUME StoreStateInv, WritePending PROVE StoreStateInv'
  OBVIOUS
<1> USE DEF StoreStateInv, files, bounds
<1>1. TypeOK'
  BY RequestTypes DEF TypeOK, WritePending, Say, GiveUp
<1>2. RequestInv'
  BY DEF RequestInv, Saving, Saves, TypeOK, WritePending, Say, GiveUp
<1>3. PendingInv'
  <2>1. CASE GiveUp
    BY <2>1, AbsentIsSafe DEF PendingInv, GiveUp, Say, Safe
  <2>2. CASE /\ pending' = [pending EXCEPT !.text = serialize_config(Wanted)]
             /\ worker' = "sync" /\ UNCHANGED answer
    <3>1. /\ Wanted = parse_settings_form(request.form)
          /\ serialize_config(Wanted) \in Texts
      BY SavedForm DEF RequestInv, Saving, WritePending, Wanted
    <3>2. pending \in Files /\ pending.there /\ request' = request
      BY DEF PendingInv, WritePending
    <3>3. pending' \in Files /\ pending'.there /\ pending'.text = serialize_config(Wanted)
      BY <2>2, <3>1, <3>2 DEF Files
    <3> QED BY <2>2, <3>1, <3>2, <3>3 DEF PendingInv
  <2> QED BY <2>1, <2>2 DEF WritePending
<1>4. PowerInv'
  BY DEF PowerInv, WritePending, Say, GiveUp
<1>5. ConfigInv'
  BY DEF ConfigInv, Saving, Saves, AnswerIsTrue, RequestInv, WritePending, Say, GiveUp
<1>6. AnswerIsTrue'
  BY DEF AnswerIsTrue, ConfigInv, Saves, WritePending, Say, GiveUp
<1> QED BY <1>1, <1>2, <1>3, <1>4, <1>5, <1>6

LEMMA SyncPendingKeeps == StoreStateInv /\ SyncPending => StoreStateInv'
<1> SUFFICES ASSUME StoreStateInv, SyncPending PROVE StoreStateInv'
  OBVIOUS
<1> USE DEF StoreStateInv, files, bounds
<1>1. TypeOK'
  BY RequestTypes DEF TypeOK, SyncPending, Say, GiveUp
<1>2. RequestInv'
  BY DEF RequestInv, Saving, Saves, TypeOK, SyncPending, Say, GiveUp
<1>3. PendingInv'
  <2>1. CASE GiveUp
    BY <2>1, AbsentIsSafe DEF PendingInv, GiveUp, Say, Safe
  <2>2. CASE pending' = [pending EXCEPT !.synced = TRUE] /\ worker' = "rename" /\ UNCHANGED answer
    <3>1. /\ pending \in Files /\ pending.there /\ request' = request
          /\ pending.text = serialize_config(parse_settings_form(request.form))
      BY DEF PendingInv, SyncPending
    <3>2. pending' \in Files /\ pending'.there /\ pending'.synced /\ pending'.text = pending.text
      BY <2>2, <3>1 DEF Files
    <3> QED BY <2>2, <3>1, <3>2 DEF PendingInv
  <2> QED BY <2>1, <2>2 DEF SyncPending
<1>4. PowerInv'
  BY DEF PowerInv, SyncPending, Say, GiveUp
<1>5. ConfigInv'
  BY DEF ConfigInv, Saving, Saves, AnswerIsTrue, RequestInv, SyncPending, Say, GiveUp
<1>6. AnswerIsTrue'
  BY DEF AnswerIsTrue, ConfigInv, Saves, SyncPending, Say, GiveUp
<1> QED BY <1>1, <1>2, <1>3, <1>4, <1>5, <1>6

LEMMA RenamePendingKeeps == StoreStateInv /\ RenamePending => StoreStateInv'
<1> SUFFICES ASSUME StoreStateInv, RenamePending PROVE StoreStateInv'
  OBVIOUS
<1> USE DEF StoreStateInv, files, bounds
<1>0. /\ Safe(pending) /\ Load(pending) = parse_settings_form(request.form)
      /\ request' = request
  <2>1. /\ request \in Requests /\ Saves(request) /\ FormIsValid(request.form)
        /\ pending \in Files /\ pending.there /\ pending.synced
        /\ pending.text = serialize_config(parse_settings_form(request.form))
    BY DEF RequestInv, Saving, PendingInv, RenamePending
  <2> QED BY <2>1, SavedForm DEF Safe, Load, RenamePending
<1>1. TypeOK'
  BY RequestTypes DEF TypeOK, RenamePending, Say, GiveUp
<1>2. RequestInv'
  BY DEF RequestInv, Saving, Saves, TypeOK, RenamePending, Say, GiveUp
<1>3. PendingInv'
  BY AbsentIsSafe DEF PendingInv, RequestInv, Saving, Safe, RenamePending, Say, GiveUp
<1>4. PowerInv'
  BY <1>0 DEF PowerInv, RenamePending
<1>5. ConfigInv'
  BY <1>0 DEF ConfigInv, RenamePending, Say, GiveUp
<1>6. AnswerIsTrue'
  BY DEF AnswerIsTrue, ConfigInv, Saves, RenamePending, Say, GiveUp
<1> QED BY <1>1, <1>2, <1>3, <1>4, <1>5, <1>6

LEMMA InstallKeeps == StoreStateInv /\ Install => StoreStateInv'
<1> SUFFICES ASSUME StoreStateInv, Install PROVE StoreStateInv'
  OBVIOUS
<1> USE DEF StoreStateInv, files, bounds
<1>0. /\ Wanted = parse_settings_form(request.form) /\ Wanted \in Configs
      /\ Saves(request) /\ Load(file) = Wanted
  BY SavedForm DEF RequestInv, Saving, Install, Wanted, ConfigInv
<1>1. TypeOK'
  BY <1>0 DEF TypeOK, Install, Say
<1>2. RequestInv'
  BY DEF RequestInv, Saving, Saves, TypeOK, Install, Say
<1>3. PendingInv'
  BY AbsentIsSafe DEF PendingInv, RequestInv, Saving, Safe, Install, Say
<1>4. PowerInv'
  BY DEF PowerInv, Install, Say
<1>5. ConfigInv'
  BY <1>0 DEF ConfigInv, Install, Say, Load
<1>6. AnswerIsTrue'
  BY <1>0 DEF AnswerIsTrue, ConfigInv, Install, Say, Load, Saves
<1> QED BY <1>1, <1>2, <1>3, <1>4, <1>5, <1>6

LEMMA CloseKeeps == StoreStateInv /\ Close => StoreStateInv'
<1> SUFFICES ASSUME StoreStateInv, Close PROVE StoreStateInv'
  OBVIOUS
<1> USE DEF StoreStateInv, files, bounds
<1>1. TypeOK'
  BY RequestTypes DEF TypeOK, Close
<1>2. RequestInv'
  BY DEF RequestInv, Saving, Saves, TypeOK, Close
<1>3. PendingInv'
  BY AbsentIsSafe DEF PendingInv, RequestInv, Saving, Safe, Close
<1>4. PowerInv'
  BY DEF PowerInv, Close
<1>5. ConfigInv'
  BY DEF ConfigInv, Saving, Saves, AnswerIsTrue, RequestInv, Close
<1>6. AnswerIsTrue'
  BY DEF AnswerIsTrue, ConfigInv, Saves, Close
<1> QED BY <1>1, <1>2, <1>3, <1>4, <1>5, <1>6

\* The packet of a tick carries the configuration in memory.
LEMMA TickShows == TypeOK /\ Tick => shown' = config
<1> SUFFICES ASSUME TypeOK, Tick PROVE shown' = config
  OBVIOUS
<1>1. config \in Configs /\ 60 \in Int /\ FALSE \in BOOLEAN
  BY DEF TypeOK
<1>2. decode_wire_packet(make_wire_packet(
          [fps |-> 60, loading |-> FALSE, config |-> config])).config = config
  BY <1>1, WireRoundTrip
<1> QED BY <1>2 DEF Tick

LEMMA TickKeeps == StoreStateInv /\ Tick => StoreStateInv'
<1> SUFFICES ASSUME StoreStateInv, Tick PROVE StoreStateInv'
  OBVIOUS
<1> USE DEF StoreStateInv, files, bounds
<1>0. shown' = config
  BY TickShows
<1>1. TypeOK'
  BY <1>0 DEF TypeOK, Tick
<1>2. RequestInv'
  BY DEF RequestInv, Saving, Saves, TypeOK, Tick
<1>3. PendingInv'
  BY AbsentIsSafe DEF PendingInv, RequestInv, Saving, Safe, Tick
<1>4. PowerInv'
  BY DEF PowerInv, Tick
<1>5. ConfigInv'
  BY DEF ConfigInv, Saving, Saves, AnswerIsTrue, RequestInv, Tick
<1>6. AnswerIsTrue'
  BY DEF AnswerIsTrue, ConfigInv, Saves, Tick
<1> QED BY <1>1, <1>2, <1>3, <1>4, <1>5, <1>6

\* A restart with safe files finds memory, user and screen in agreement.
LEMMA RestartKeeps ==
    ASSUME StoreStateInv, NEW f, NEW d, Safe(f), Safe(d), Restarted(f, d)
    PROVE  StoreStateInv'
<1>1. Load(f) \in Configs
  BY LoadIsConfig DEF Safe
<1>2. TypeOK'
  BY <1>1 DEF Restarted, TypeOK
<1>3. RequestInv' /\ PendingInv'
  BY DEF Restarted, RequestInv, Saving, PendingInv, StoreStateInv
<1>4. PowerInv'
  BY DEF Restarted, PowerInv
<1>5. ConfigInv' /\ AnswerIsTrue'
  BY DEF Restarted, ConfigInv, AnswerIsTrue, Load
<1> QED BY <1>2, <1>3, <1>4, <1>5 DEF StoreStateInv

\* A crash keeps the files; a loss of power leaves one of two safe ones, from
\* which nothing can be cut off.
LEMMA RestartsAreSafe ==
    ASSUME StoreStateInv, Crash \/ PowerLoss
    PROVE  \E f, d : Safe(f) /\ Safe(d) /\ Restarted(f, d)
<1>1. CASE Crash
  BY <1>1 DEF Crash, StoreStateInv, PowerInv
<1>2. CASE PowerLoss
  <2>1. PICK f \in {file, disk} :
          \E t \in {f.text} \cup (IF f.synced THEN {} ELSE Truncated(f.text)) :
             Restarted([f EXCEPT !.text = t, !.synced = TRUE], [f EXCEPT !.text = t, !.synced = TRUE])
    BY <1>2 DEF PowerLoss
  <2>2. Safe(f)
    BY DEF StoreStateInv, PowerInv
  <2>3. f.synced /\ [f EXCEPT !.text = f.text, !.synced = TRUE] = f
    BY <2>2 DEF Safe, Files
  <2>4. Restarted(f, f)
    BY <2>1, <2>3
  <2> QED BY <2>2, <2>4
<1> QED BY <1>1, <1>2

LEMMA StoreNextInv == StoreStateInv /\ [Next]_vars => StoreStateInv'
<1> SUFFICES ASSUME StoreStateInv, [Next]_vars PROVE StoreStateInv'
  OBVIOUS
<1>1. CASE Crash \/ PowerLoss
  BY <1>1, RestartsAreSafe, RestartKeeps
<1>2. CASE Worker
  BY <1>2, ReceiveGivesUpKeeps, RespondKeeps, OpenPendingKeeps, WritePendingKeeps,
     SyncPendingKeeps, RenamePendingKeeps, InstallKeeps, CloseKeeps DEF Worker
<1>3. CASE UNCHANGED vars
  <2>1. TypeOK' /\ RequestInv' /\ PendingInv'
    BY <1>3 DEF StoreStateInv, TypeOK, RequestInv, PendingInv, Saving, vars, files, bounds
  <2>2. PowerInv' /\ ConfigInv' /\ AnswerIsTrue'
    BY <1>3 DEF StoreStateInv, PowerInv, ConfigInv, AnswerIsTrue, vars, files, bounds, Load
  <2> QED BY <2>1, <2>2 DEF StoreStateInv
<1> QED BY <1>1, <1>2, <1>3, AcceptKeeps, ReceiveSomeKeeps, TickKeeps DEF Next

LEMMA StoreInvariant == Spec => []StoreStateInv
  BY StoreInitInv, StoreNextInv, PTL DEF Spec

\* The store keeps its word for every request, file and moment of failure:
\* memory is the file, the file is one complete configuration even after a loss
\* of power in the middle of SettingsStore::save, the answer that client() sends
\* is true, and what is drawn fits the screen.
THEOREM StoreKeepsItsWord == Spec => []StoreInv
<1>1. StoreStateInv => StoreInv
  <2> SUFFICES ASSUME StoreStateInv PROVE StoreInv
    OBVIOUS
  <2>1. TypeOK /\ AnswerIsTrue
    BY DEF StoreStateInv
  <2>2. MemoryIsFile
    BY DEF StoreStateInv, MemoryIsFile, ConfigInv, Saving
  <2>3. FileIsWhole
    BY DEF StoreStateInv, FileIsWhole, PowerInv, Safe, WholeTexts
  <2>4. OverlayStaysOnScreen
    BY <2>1, LayoutFits DEF OverlayStaysOnScreen, TypeOK
  <2> QED BY <2>1, <2>2, <2>3, <2>4 DEF StoreInv
<1> QED BY <1>1, StoreInvariant, PTL

\* The overlay is only ever given the configuration that the user was last told
\* of, or the one whose confirmation is on its way: a tick cannot see a save
\* before its outcome is known, and no conversion between the form and the
\* screen changes it.
THEOREM DrawnIsConfirmed == Spec => DrawnAsConfirmed
<1> DEFINE Step == shown' # shown =>
         shown' \in {wanted, wanted'} \cup
            (IF worker = "answered" THEN {parse_settings_form(request.form)} ELSE {})
<1>1. StoreStateInv /\ [Next]_vars => [Step]_vars
  <2> SUFFICES ASSUME StoreStateInv, Next, shown' # shown
               PROVE  shown' \in {wanted, wanted'} \cup
                         (IF worker = "answered" THEN {parse_settings_form(request.form)} ELSE {})
    OBVIOUS
  <2>1. CASE Tick
    <3>1. shown' = config
      BY <2>1, TickShows DEF StoreStateInv
    <3>2. CASE worker # "answered"
      BY <3>1, <3>2 DEF StoreStateInv, ConfigInv
    <3>3. CASE worker = "answered"
      BY <3>1, <3>3 DEF StoreStateInv, AnswerIsTrue
    <3> QED BY <3>2, <3>3
  <2>2. CASE Crash \/ PowerLoss
    BY <2>2 DEF Crash, PowerLoss, Restarted
  <2>3. CASE Accept \/ ReceiveSome \/ Worker
    BY <2>3 DEF Accept, ReceiveSome, Worker, ReceiveGivesUp, Respond, OpenPending, WritePending,
                SyncPending, RenamePending, Install, Close
  <2> QED BY <2>1, <2>2, <2>3 DEF Next
<1> QED BY <1>1, StoreInvariant, PTL DEF Spec, DrawnAsConfirmed

------------------------------------------------------------------------------
(***************************************************************************)
(* The overlay.                                                            *)
(***************************************************************************)

\* p was sent before, or is, q.
Upto(p, q) == p.run < q.run \/ (p.run = q.run /\ p.seq <= q.seq)
Sent(p, r, s) == p.run < r \/ (p.run = r /\ p.seq < s)

\* Packets travel in the order in which they were sent: those in the socket are
\* newer than the one in memory, which is as new as the one last shown.
StreamInv ==
    /\ \A i \in 1 .. Len(queue) :
          queue[i].kind = "frame" => Sent(queue[i], run, next) /\ Newer(queue[i], packet)
    /\ \A i, j \in 1 .. Len(queue) :
          i < j /\ queue[i].kind = "frame" /\ queue[j].kind = "frame" => Newer(queue[j], queue[i])
    /\ Sent(packet, run, next) /\ Upto(shownPacket, packet)

\* The callback copies a packet only if its number is not the one last applied.
CopyInv ==
    /\ applied = shownPacket /\ appliedSequence = shownPacket.seq
    /\ render = "copy" => seen # appliedSequence
    /\ render \in {"scene", "label", "value", "style"} => Newer(frame, shownPacket) /\ Upto(frame, packet)

\* The widgets on their way to the new frame.
IsWidget(w) == w = [f \in Attributes |-> w[f]]
WidgetInv ==
    /\ label = [r \in Roots |-> label[r]] /\ value = [r \in Roots |-> value[r]]
    /\ \A r \in Roots : /\ label[r] = NoWidget \/ IsWidget(label[r])
                        /\ value[r] = NoWidget \/ IsWidget(value[r])
    /\ labelHandle \in {None, rootHandle} /\ valueHandle \in {None, rootHandle}
    /\ render \in {"label", "value", "style"} => rootHandle \in Roots
    /\ render \in {"value", "style"} =>
          /\ labelHandle = rootHandle /\ label[rootHandle] # NoWidget
          /\ newLabel => label[rootHandle] = LabelOf(frame)
    /\ render = "style" =>
          /\ valueHandle = rootHandle /\ value[rootHandle] # NoWidget
          /\ newValue => value[rootHandle] = ValueOf(frame)

\* A style that counts as applied is on the screen, in the middle of an
\* application too.
StyleInv ==
    styleApplied =>
        /\ rootHandle \in Roots /\ labelHandle = rootHandle /\ valueHandle = rootHandle
        /\ label[rootHandle] = LabelOf(shownPacket) /\ value[rootHandle] = ValueOf(shownPacket)

ScreenInv == OverlayTypeOK /\ StreamInv /\ CopyInv /\ WidgetInv /\ StyleInv

\* The other widgets of the same names: real ones, which a lookup may give, and
\* none where no lookup missed a widget.
AreWidgets(s) == \E W : s \in Seq(W) /\ \A w \in W : IsWidget(w)
StrayInv ==
    /\ strayLabels = [r \in Roots |-> strayLabels[r]] /\ strayValues = [r \in Roots |-> strayValues[r]]
    /\ \A r \in Roots : AreWidgets(strayLabels[r]) /\ AreWidgets(strayValues[r])
    /\ SecondOnlyAfterMiss

------------------------------------------------------------------------------
LEMMA ZeroIs == /\ ZeroPacket \in Packets /\ ZeroPacket.run = 0 /\ ZeroPacket.seq = 0
                /\ ZeroPacket.kind = "frame"
                /\ [ZeroPacket EXCEPT !.kind = "shutdown"] \in Packets
                /\ [ZeroPacket EXCEPT !.kind = "shutdown"].kind = "shutdown"
<1> DEFINE f == CHOOSE f \in Frames : TRUE
<1>1. f \in Frames
  BY OverlayConstants
<1>2. 0 \in 0 .. MaxRuns /\ 0 \in 0 .. MaxSeq
  BY OverlayConstants
<1>3. ZeroPacket = Packet("frame", 0, 0, f)
  BY DEF ZeroPacket
<1> HIDE DEF f
<1>4. [ZeroPacket EXCEPT !.kind = "shutdown"] = Packet("shutdown", 0, 0, f)
  BY <1>3 DEF Packet
<1>5. Packet("frame", 0, 0, f) \in Packets /\ Packet("shutdown", 0, 0, f) \in Packets
  BY <1>1, <1>2 DEF Packets
<1> QED BY <1>3, <1>4, <1>5 DEF Packet

LEMMA PacketIs ==
    \A k \in {"frame", "shutdown"}, r \in 0 .. MaxRuns, s \in 0 .. MaxSeq, f \in Frames :
       LET p == Packet(k, r, s, f)
       IN  p \in Packets /\ p.kind = k /\ p.run = r /\ p.seq = s
  BY DEF Packets, Packet

LEMMA PacketHas == \A p \in Packets : p.run \in 0 .. MaxRuns /\ p.seq \in 0 .. MaxSeq
  BY DEF Packets, Packet

LEMMA Ordered ==
    ASSUME NEW p \in Packets, NEW q \in Packets, NEW r \in Packets
    PROVE  /\ Upto(p, p)
           /\ Newer(p, q) => Upto(q, p)
           /\ Upto(p, q) /\ Upto(q, r) => Upto(p, r)
           /\ Newer(p, q) /\ Newer(q, r) => Newer(p, r)
           /\ Upto(p, q) /\ q.seq # p.seq => Newer(q, p)
  BY PacketHas, OverlayConstants DEF Upto, Newer

LEMMA LabelIs == \A p : LabelOf(p) # NoWidget /\ IsWidget(LabelOf(p))
<1> TAKE p
<1>1. DOMAIN LabelOf(p) = Attributes
  BY DEF LabelOf, Attributes
<1>2. LabelOf(p) # NoWidget
  <2>1. "color" \in DOMAIN LabelOf(p) /\ "color" \notin DOMAIN NoWidget
    BY DEF LabelOf, NoWidget
  <2> QED BY <2>1
<1>3. IsWidget(LabelOf(p))
  BY <1>1 DEF IsWidget, LabelOf
<1> QED BY <1>2, <1>3

LEMMA ValueIs == \A p : ValueOf(p) # NoWidget /\ IsWidget(ValueOf(p))
<1> TAKE p
<1>1. DOMAIN ValueOf(p) = Attributes
  BY DEF ValueOf, Attributes
<1>2. ValueOf(p) # NoWidget
  <2>1. "color" \in DOMAIN ValueOf(p) /\ "color" \notin DOMAIN NoWidget
    BY DEF ValueOf, NoWidget
  <2> QED BY <2>1
<1>3. IsWidget(ValueOf(p))
  BY <1>1 DEF IsWidget, ValueOf
<1> QED BY <1>2, <1>3

LEMMA ScreenInit == OverlayInit => ScreenInv /\ StrayInv
<1> SUFFICES ASSUME OverlayInit PROVE ScreenInv /\ StrayInv
  OBVIOUS
<1>0. StrayInv
  <2>1. AreWidgets(<<>>)
    <3> DEFINE W == {LabelOf(ZeroPacket)}
    <3>1. <<>> \in Seq(W) /\ \A w \in W : IsWidget(w)
      BY LabelIs
    <3> HIDE DEF W
    <3> QED BY <3>1 DEF AreWidgets
  <2> QED BY <2>1 DEF OverlayInit, StrayInv, SecondOnlyAfterMiss
<1>1. OverlayTypeOK
  <2>1. /\ run \in 1 .. MaxRuns /\ next \in 1 .. MaxSeq + 1 /\ sequence \in 0 .. MaxSeq
        /\ seen \in 0 .. MaxSeq /\ appliedSequence \in 0 .. MaxSeq
    BY OverlayConstants DEF OverlayInit
  <2>2. queue \in Seq(Packets) /\ packet \in Packets /\ frame \in Packets
        /\ applied \in Packets /\ shownPacket \in Packets
    BY ZeroIs DEF OverlayInit
  <2> QED BY <2>1, <2>2 DEF OverlayInit, OverlayTypeOK
<1>2. StreamInv /\ CopyInv
  BY ZeroIs, OverlayConstants DEF OverlayInit, StreamInv, CopyInv, Sent, Upto
<1>3. WidgetInv /\ StyleInv
  BY DEF OverlayInit, WidgetInv, StyleInv
<1> QED BY <1>0, <1>1, <1>2, <1>3 DEF ScreenInv

------------------------------------------------------------------------------
\* What a step leaves alone.
LEMMA StreamStays ==
    ASSUME StreamInv, UNCHANGED <<run, next, queue, packet, shownPacket>>
    PROVE  StreamInv'
  BY DEF StreamInv, Sent

LEMMA CopyStays ==
    ASSUME CopyInv, UNCHANGED <<applied, shownPacket, appliedSequence, packet>>,
           render' = "idle" \/ UNCHANGED <<render, seen, frame>>
    PROVE  CopyInv'
  BY DEF CopyInv

LEMMA WidgetsStay ==
    ASSUME WidgetInv, UNCHANGED <<rootHandle, labelHandle, valueHandle, label, value>>,
           render' \notin {"label", "value", "style"} \/ UNCHANGED <<render, frame, newLabel, newValue>>
    PROVE  WidgetInv'
  BY DEF WidgetInv

LEMMA StyleStays ==
    ASSUME StyleInv, UNCHANGED <<rootHandle, labelHandle, valueHandle, label, value>>,
           UNCHANGED <<styleApplied, shownPacket>>
    PROVE  StyleInv'
  BY DEF StyleInv

LEMMA ReceiverStays ==
    ASSUME ScreenInv, UNCHANGED <<render, seen, frame, newLabel, newValue>>,
           UNCHANGED <<appliedSequence, applied, styleApplied, shownPacket>>,
           UNCHANGED <<rootHandle, labelHandle, valueHandle, label, value>>
    PROVE  /\ WidgetInv' /\ StyleInv'
           /\ packet' = packet => CopyInv'
  BY CopyStays, WidgetsStay, StyleStays DEF ScreenInv

LEMMA SendKeeps == ScreenInv /\ Send => ScreenInv'
<1> SUFFICES ASSUME ScreenInv, Send PROVE ScreenInv'
  OBVIOUS
<1>1. PICK f \in Frames : Enqueue(Packet("frame", run, next, f))
  BY DEF Send
<1> DEFINE p == Packet("frame", run, next, f)
<1>2. /\ next <= MaxSeq /\ next' = next + 1 /\ UNCHANGED <<background, run, receiver, render>>
      /\ UNCHANGED <<packet, sequence, have, seen, frame, newLabel, newValue>>
      /\ UNCHANGED <<appliedSequence, applied, styleApplied, shownPacket>>
      /\ UNCHANGED <<sceneHandle, rootHandle, labelHandle, valueHandle>>
      /\ UNCHANGED <<scene, rootOf, label, value>>
  BY DEF Send, shared, locals, style, handles, ui
<1>3. queue' = queue \/ queue' = Append(queue, p)
  BY <1>1 DEF Enqueue
<1>4. p \in Packets /\ p.run = run /\ p.seq = next
  BY <1>2, PacketIs, OverlayConstants DEF ScreenInv, OverlayTypeOK
<1> HIDE DEF p
<1>5. OverlayTypeOK'
  BY <1>2, <1>3, <1>4, OverlayConstants DEF ScreenInv, OverlayTypeOK
<1>6. StreamInv'
  <2>1. \A q \in Packets : Sent(q, run, next) => Sent(q, run', next') /\ Newer(p, q)
    BY <1>2, <1>4, PacketHas, OverlayConstants DEF Sent, Newer, ScreenInv, OverlayTypeOK
  <2>2. Sent(p, run', next')
    BY <1>2, <1>4 DEF Sent, ScreenInv, OverlayTypeOK
  <2>3. packet \in Packets /\ \A i \in 1 .. Len(queue) : queue[i] \in Packets
    BY DEF ScreenInv, OverlayTypeOK
  <2>4. CASE queue' = queue
    BY <1>2, <2>1, <2>3, <2>4 DEF ScreenInv, StreamInv
  <2>5. CASE queue' = Append(queue, p)
    <3>1. queue \in Seq(Packets)
      BY DEF ScreenInv, OverlayTypeOK
    <3>2. /\ Len(queue') = Len(queue) + 1 /\ queue'[Len(queue) + 1] = p
          /\ \A i \in 1 .. Len(queue) : queue'[i] = queue[i]
      BY <1>4, <2>5, <3>1
    <3>3. Len(queue) \in Nat
      BY <3>1
    <3>4. ASSUME NEW i \in 1 .. Len(queue'), queue'[i].kind = "frame"
          PROVE  Sent(queue'[i], run', next') /\ Newer(queue'[i], packet)
      BY <2>1, <2>2, <2>3, <3>2, <3>3, <3>4 DEF ScreenInv, StreamInv
    <3>5. ASSUME NEW i \in 1 .. Len(queue'), NEW j \in 1 .. Len(queue'), i < j,
                 queue'[i].kind = "frame", queue'[j].kind = "frame"
          PROVE  Newer(queue'[j], queue'[i])
      <4>1. i \in 1 .. Len(queue) /\ queue'[i] = queue[i] /\ Sent(queue[i], run, next)
        BY <3>2, <3>3, <3>5 DEF ScreenInv, StreamInv
      <4>2. CASE j \in 1 .. Len(queue)
        BY <3>2, <3>5, <4>1, <4>2 DEF ScreenInv, StreamInv
      <4>3. CASE j = Len(queue) + 1
        BY <2>1, <2>3, <3>2, <4>1, <4>3
      <4> QED BY <3>2, <3>3, <4>2, <4>3
    <3>6. Sent(packet, run', next') /\ Upto(shownPacket, packet)
      BY <1>2, <2>1, <2>3 DEF ScreenInv, StreamInv
    <3> QED BY <1>2, <3>4, <3>5, <3>6 DEF StreamInv
  <2> QED BY <1>3, <2>4, <2>5
<1>7. CopyInv' /\ WidgetInv' /\ StyleInv'
  BY <1>2, ReceiverStays
<1> QED BY <1>5, <1>6, <1>7 DEF ScreenInv

LEMMA RestartRunKeeps == ScreenInv /\ Restart => ScreenInv'
<1> SUFFICES ASSUME ScreenInv, Restart PROVE ScreenInv'
  OBVIOUS
<1> DEFINE p == [ZeroPacket EXCEPT !.kind = "shutdown"]
<1>2. /\ run < MaxRuns /\ run' = run + 1 /\ next' = 1 /\ UNCHANGED <<background, receiver, render>>
      /\ UNCHANGED <<packet, sequence, have, seen, frame, newLabel, newValue>>
      /\ UNCHANGED <<appliedSequence, applied, styleApplied, shownPacket>>
      /\ UNCHANGED <<sceneHandle, rootHandle, labelHandle, valueHandle>>
      /\ UNCHANGED <<scene, rootOf, label, value>>
      /\ queue' = queue \/ queue' = Append(queue, p)
  BY DEF Restart, shared, locals, style, handles, ui
<1>4. p \in Packets /\ p.kind = "shutdown"
  BY ZeroIs
<1> HIDE DEF p
<1>5. OverlayTypeOK'
  BY <1>2, <1>4, OverlayConstants DEF ScreenInv, OverlayTypeOK
<1>6. StreamInv'
  <2>1. \A q \in Packets : Sent(q, run, next) => Sent(q, run', next')
    BY <1>2, PacketHas, OverlayConstants DEF Sent, ScreenInv, OverlayTypeOK
  <2>3. /\ packet \in Packets /\ queue \in Seq(Packets) /\ Len(queue) \in Nat
        /\ \A i \in 1 .. Len(queue) : queue[i] \in Packets
    BY DEF ScreenInv, OverlayTypeOK
  <2>4. CASE queue' = queue
    BY <1>2, <2>1, <2>3, <2>4 DEF ScreenInv, StreamInv
  <2>5. CASE queue' = Append(queue, p)
    <3>2. /\ Len(queue') = Len(queue) + 1 /\ queue'[Len(queue) + 1] = p
          /\ \A i \in 1 .. Len(queue) : queue'[i] = queue[i]
      BY <1>4, <2>3, <2>5
    <3>3. \A i \in 1 .. Len(queue') : queue'[i].kind = "frame" =>
             i \in 1 .. Len(queue) /\ queue'[i] = queue[i]
      BY <1>4, <2>3, <3>2
    <3>4. \A i \in 1 .. Len(queue') : queue'[i].kind = "frame" =>
             Sent(queue'[i], run', next') /\ Newer(queue'[i], packet)
      BY <2>1, <2>3, <3>3 DEF ScreenInv, StreamInv
    <3>5. \A i, j \in 1 .. Len(queue') :
             i < j /\ queue'[i].kind = "frame" /\ queue'[j].kind = "frame" =>
                Newer(queue'[j], queue'[i])
      BY <3>3 DEF ScreenInv, StreamInv
    <3>6. Sent(packet, run', next') /\ Upto(shownPacket, packet)
      BY <2>1, <2>3 DEF ScreenInv, StreamInv
    <3> QED BY <1>2, <3>4, <3>5, <3>6 DEF StreamInv
  <2> QED BY <1>2, <2>4, <2>5
<1>7. CopyInv' /\ WidgetInv' /\ StyleInv'
  BY <1>2, ReceiverStays
<1> QED BY <1>5, <1>6, <1>7 DEF ScreenInv

LEMMA ReceiveKeeps == ScreenInv /\ Receive => ScreenInv'
<1> SUFFICES ASSUME ScreenInv, Receive PROVE ScreenInv'
  OBVIOUS
<1> DEFINE h == Head(queue)
<1>2. /\ queue # <<>> /\ queue' = Tail(queue)
      /\ \/ h.kind = "frame" /\ packet' = h /\ receiver' = "sequence"
         \/ UNCHANGED <<packet, receiver>>
      /\ UNCHANGED <<background, run, next, sequence, have>>
      /\ UNCHANGED <<render, seen, frame, newLabel, newValue>>
      /\ UNCHANGED <<appliedSequence, applied, styleApplied, shownPacket>>
      /\ UNCHANGED <<sceneHandle, rootHandle, labelHandle, valueHandle>>
      /\ UNCHANGED <<scene, rootOf, label, value>>
  BY DEF Receive, locals, style, handles, ui
<1>3. /\ packet \in Packets /\ shownPacket \in Packets /\ frame \in Packets
      /\ queue \in Seq(Packets) /\ Len(queue) \in Nat
      /\ \A i \in 1 .. Len(queue) : queue[i] \in Packets
  BY DEF ScreenInv, OverlayTypeOK
<1>4. /\ 1 \in 1 .. Len(queue) /\ h = queue[1] /\ h \in Packets
      /\ queue' \in Seq(Packets) /\ Len(queue') = Len(queue) - 1
      /\ \A i \in 1 .. Len(queue') : i + 1 \in 1 .. Len(queue) /\ queue'[i] = queue[i + 1]
  BY <1>2, <1>3
<1> HIDE DEF h
<1>5. OverlayTypeOK'
  BY <1>2, <1>4 DEF ScreenInv, OverlayTypeOK
<1>6. packet' \in Packets /\ Upto(packet, packet') /\ Sent(packet', run, next)
  BY <1>2, <1>3, <1>4, Ordered DEF ScreenInv, StreamInv
<1>7. Upto(shownPacket, packet')
  BY <1>3, <1>6, Ordered DEF ScreenInv, StreamInv
<1>8. StreamInv'
  <2>1. ASSUME NEW i \in 1 .. Len(queue'), queue'[i].kind = "frame"
        PROVE  Sent(queue'[i], run, next) /\ Newer(queue'[i], packet')
    <3>1. /\ i + 1 \in 1 .. Len(queue) /\ queue'[i] = queue[i + 1] /\ 1 < i + 1
          /\ queue[i + 1].kind = "frame"
      BY <1>4, <2>1
    <3>2. Sent(queue[i + 1], run, next) /\ Newer(queue[i + 1], packet)
      BY <3>1 DEF ScreenInv, StreamInv
    <3>3. h.kind = "frame" => Newer(queue[i + 1], h)
      BY <1>4, <3>1 DEF ScreenInv, StreamInv
    <3> QED BY <1>2, <3>1, <3>2, <3>3
  <2>2. ASSUME NEW i \in 1 .. Len(queue'), NEW j \in 1 .. Len(queue'), i < j,
               queue'[i].kind = "frame", queue'[j].kind = "frame"
        PROVE  Newer(queue'[j], queue'[i])
    <3>1. /\ i + 1 \in 1 .. Len(queue) /\ queue'[i] = queue[i + 1]
          /\ j + 1 \in 1 .. Len(queue) /\ queue'[j] = queue[j + 1] /\ i + 1 < j + 1
      BY <1>3, <1>4, <2>2
    <3> QED BY <2>2, <3>1 DEF ScreenInv, StreamInv
  <2> QED BY <1>2, <1>6, <1>7, <2>1, <2>2 DEF StreamInv
<1>9. CopyInv'
  <2>1. Upto(frame, packet) => Upto(frame, packet')
    BY <1>3, <1>6, Ordered
  <2> QED BY <1>2, <2>1 DEF ScreenInv, CopyInv
<1>10. WidgetInv' /\ StyleInv'
  BY <1>2, ReceiverStays
<1> QED BY <1>5, <1>8, <1>9, <1>10 DEF ScreenInv

\* The receiver's other steps touch only the number and the flag.
LEMMA StoreKeeps == ScreenInv /\ (StoreSequence \/ StoreHave \/ ReceiveTimeout) => ScreenInv'
<1> SUFFICES ASSUME ScreenInv, StoreSequence \/ StoreHave \/ ReceiveTimeout PROVE ScreenInv'
  OBVIOUS
<1>1. /\ sequence' \in {sequence, packet.seq} /\ have' \in BOOLEAN
      /\ receiver' \in {"recv", "have", "render", receiver}
      /\ UNCHANGED <<background, run, next, queue, packet>>
      /\ UNCHANGED <<render, seen, frame, newLabel, newValue>>
      /\ UNCHANGED <<appliedSequence, applied, styleApplied, shownPacket>>
      /\ UNCHANGED <<sceneHandle, rootHandle, labelHandle, valueHandle>>
      /\ UNCHANGED <<scene, rootOf, label, value>>
  BY DEF StoreSequence, StoreHave, ReceiveTimeout, locals, style, handles, ui, ScreenInv, OverlayTypeOK
<1>2. packet.seq \in 0 .. MaxSeq
  BY PacketHas DEF ScreenInv, OverlayTypeOK
<1>3. OverlayTypeOK'
  BY <1>1, <1>2 DEF ScreenInv, OverlayTypeOK
<1>4. StreamInv' /\ CopyInv' /\ WidgetInv' /\ StyleInv'
  BY <1>1, StreamStays, ReceiverStays DEF ScreenInv
<1> QED BY <1>3, <1>4 DEF ScreenInv

------------------------------------------------------------------------------
LEMMA CallbackTypes ==
    ASSUME ScreenInv, UNCHANGED <<background, run, next, queue, packet, sequence, have>>,
           UNCHANGED <<scene, rootOf>>, receiver' \in {receiver, "recv"},
           render' \in {"idle", "sequence", "copy", "scene", "label", "value", "style"},
           seen' \in {seen, sequence, 0}, frame' \in {frame, packet, ZeroPacket},
           newLabel' \in BOOLEAN, newValue' \in BOOLEAN, styleApplied' \in BOOLEAN,
           applied' \in {applied, frame}, shownPacket' \in {shownPacket, frame},
           appliedSequence' \in {appliedSequence, frame.seq},
           sceneHandle' \in {sceneHandle, scene},
           rootHandle' \in Roots \cup {None}, labelHandle' \in Roots \cup {None},
           valueHandle' \in Roots \cup {None}
    PROVE  OverlayTypeOK'
<1>1. OverlayTypeOK /\ 0 \in 0 .. MaxSeq /\ frame.seq \in 0 .. MaxSeq
  BY PacketHas, OverlayConstants DEF ScreenInv, OverlayTypeOK
<1>2. /\ seen' \in 0 .. MaxSeq /\ appliedSequence' \in 0 .. MaxSeq /\ sequence' \in 0 .. MaxSeq
      /\ run' \in 1 .. MaxRuns /\ next' \in 1 .. MaxSeq + 1
  BY <1>1 DEF OverlayTypeOK
<1>3. frame' \in Packets /\ applied' \in Packets /\ shownPacket' \in Packets /\ packet' \in Packets
  BY <1>1, ZeroIs DEF OverlayTypeOK
<1>4. receiver' \in {"recv", "sequence", "have", "render"} /\ queue' \in Seq(Packets)
  BY <1>1 DEF OverlayTypeOK
<1>5. /\ scene' \in Scenes /\ sceneHandle' \in Scenes \cup {None} /\ rootOf' \in [Scenes -> Roots]
      /\ background' \in BOOLEAN /\ have' \in BOOLEAN
  BY <1>1 DEF OverlayTypeOK
<1> QED BY <1>2, <1>3, <1>4, <1>5 DEF OverlayTypeOK

LEMMA BeginRenderKeeps == ScreenInv /\ BeginRender => ScreenInv'
<1> SUFFICES ASSUME ScreenInv, BeginRender PROVE ScreenInv'
  OBVIOUS
<1>1. /\ render' \in {"sequence", "idle"} /\ receiver' \in {receiver, "recv"}
      /\ \/ UNCHANGED <<seen, frame, newLabel, newValue>>
         \/ seen' = 0 /\ frame' = ZeroPacket /\ newLabel' = FALSE /\ newValue' = FALSE
      /\ UNCHANGED <<background, run, next, queue, packet, sequence, have>>
      /\ UNCHANGED <<appliedSequence, applied, styleApplied, shownPacket>>
      /\ UNCHANGED <<sceneHandle, rootHandle, labelHandle, valueHandle>>
      /\ UNCHANGED <<scene, rootOf, label, value>>
  BY DEF BeginRender, LeaveRender, shared, locals, style, handles, ui
<1>2. OverlayTypeOK'
  <2>1. /\ {newLabel, newValue, styleApplied} \subseteq BOOLEAN
        /\ {rootHandle, labelHandle, valueHandle} \subseteq Roots \cup {None}
    BY DEF ScreenInv, OverlayTypeOK
  <2> QED BY <1>1, <2>1, CallbackTypes
<1>3. CopyInv'
  BY <1>1 DEF ScreenInv, CopyInv
<1>4. StreamInv' /\ WidgetInv' /\ StyleInv'
  BY <1>1, StreamStays, WidgetsStay, StyleStays DEF ScreenInv
<1> QED BY <1>2, <1>3, <1>4 DEF ScreenInv

LEMMA LoadSequenceKeeps == ScreenInv /\ LoadSequence => ScreenInv'
<1> SUFFICES ASSUME ScreenInv, LoadSequence PROVE ScreenInv'
  OBVIOUS
<1>1. /\ receiver' \in {receiver, "recv"}
      /\ \/ /\ render' = "copy" /\ seen' = sequence /\ sequence # appliedSequence
            /\ UNCHANGED <<frame, newLabel, newValue>>
         \/ /\ render' = "idle" /\ seen' = 0 /\ frame' = ZeroPacket
            /\ newLabel' = FALSE /\ newValue' = FALSE
      /\ UNCHANGED <<background, run, next, queue, packet, sequence, have>>
      /\ UNCHANGED <<appliedSequence, applied, styleApplied, shownPacket>>
      /\ UNCHANGED <<sceneHandle, rootHandle, labelHandle, valueHandle>>
      /\ UNCHANGED <<scene, rootOf, label, value>>
  BY DEF LoadSequence, LeaveRender, shared, locals, style, handles, ui
<1>2. OverlayTypeOK'
  <2>1. /\ {newLabel, newValue, styleApplied} \subseteq BOOLEAN
        /\ {rootHandle, labelHandle, valueHandle} \subseteq Roots \cup {None}
    BY DEF ScreenInv, OverlayTypeOK
  <2> QED BY <1>1, <2>1, CallbackTypes
<1>3. CopyInv'
  BY <1>1 DEF ScreenInv, CopyInv
<1>4. StreamInv' /\ WidgetInv' /\ StyleInv'
  BY <1>1, StreamStays, WidgetsStay, StyleStays DEF ScreenInv
<1> QED BY <1>2, <1>3, <1>4 DEF ScreenInv

LEMMA CopyPacketKeeps == ScreenInv /\ CopyPacket => ScreenInv'
<1> SUFFICES ASSUME ScreenInv, CopyPacket PROVE ScreenInv'
  OBVIOUS
<1>1. /\ render = "copy" /\ receiver' \in {receiver, "recv"}
      /\ \/ /\ render' = "scene" /\ frame' = packet /\ packet.seq = seen
            /\ UNCHANGED <<seen, newLabel, newValue>>
         \/ /\ render' = "idle" /\ seen' = 0 /\ frame' = ZeroPacket
            /\ newLabel' = FALSE /\ newValue' = FALSE
      /\ UNCHANGED <<background, run, next, queue, packet, sequence, have>>
      /\ UNCHANGED <<appliedSequence, applied, styleApplied, shownPacket>>
      /\ UNCHANGED <<sceneHandle, rootHandle, labelHandle, valueHandle>>
      /\ UNCHANGED <<scene, rootOf, label, value>>
  BY DEF CopyPacket, LeaveRender, shared, locals, style, handles, ui
<1>2. OverlayTypeOK'
  <2>1. /\ {newLabel, newValue, styleApplied} \subseteq BOOLEAN
        /\ {rootHandle, labelHandle, valueHandle} \subseteq Roots \cup {None}
    BY DEF ScreenInv, OverlayTypeOK
  <2> QED BY <1>1, <2>1, CallbackTypes
<1>3. CopyInv'
  <2>1. CASE render' = "idle"
    BY <1>1, <2>1, CopyStays DEF ScreenInv
  <2>2. CASE render' = "scene" /\ frame' = packet /\ packet.seq = seen
    <3>1. packet.seq # shownPacket.seq /\ Upto(shownPacket, packet) /\ packet \in Packets /\ shownPacket \in Packets
      BY <1>1, <2>2 DEF ScreenInv, CopyInv, StreamInv, OverlayTypeOK
    <3>2. Newer(packet, shownPacket) /\ Upto(packet, packet)
      BY <3>1, Ordered
    <3> QED BY <1>1, <2>2, <3>2 DEF ScreenInv, CopyInv
  <2> QED BY <1>1, <2>1, <2>2
<1>4. StreamInv' /\ WidgetInv' /\ StyleInv'
  BY <1>1, StreamStays, WidgetsStay, StyleStays DEF ScreenInv
<1> QED BY <1>2, <1>3, <1>4 DEF ScreenInv

\* The application ends before it touched anything.
LEMMA GivesUpKeeps == ScreenInv /\ (SceneNotFound \/ ClassNotFound) => ScreenInv'
<1> SUFFICES ASSUME ScreenInv, SceneNotFound \/ ClassNotFound PROVE ScreenInv'
  OBVIOUS
<1>1. /\ render' = "idle" /\ seen' = 0 /\ frame' = ZeroPacket
      /\ newLabel' = FALSE /\ newValue' = FALSE /\ receiver' \in {receiver, "recv"}
      /\ UNCHANGED <<background, run, next, queue, packet, sequence, have>>
      /\ UNCHANGED <<appliedSequence, applied, styleApplied, shownPacket>>
      /\ UNCHANGED <<sceneHandle, rootHandle, labelHandle, valueHandle>>
      /\ UNCHANGED <<scene, rootOf, label, value>>
  BY DEF SceneNotFound, ClassNotFound, LeaveRender, shared, style, handles, ui
<1>2. OverlayTypeOK'
  <2>1. /\ {newLabel, newValue, styleApplied} \subseteq BOOLEAN
        /\ {rootHandle, labelHandle, valueHandle} \subseteq Roots \cup {None}
    BY DEF ScreenInv, OverlayTypeOK
  <2> QED BY <1>1, <2>1, CallbackTypes
<1>3. StreamInv' /\ CopyInv' /\ WidgetInv' /\ StyleInv'
  BY <1>1, StreamStays, CopyStays, WidgetsStay, StyleStays DEF ScreenInv
<1> QED BY <1>2, <1>3 DEF ScreenInv

LEMMA ChangeSceneKeeps == ScreenInv /\ ChangeScene => ScreenInv'
<1> SUFFICES ASSUME ScreenInv, ChangeScene PROVE ScreenInv'
  OBVIOUS
<1>1. /\ UNCHANGED <<background, run, next, queue, receiver, packet, sequence, have>>
      /\ UNCHANGED <<render, seen, frame, newLabel, newValue>>
      /\ UNCHANGED <<appliedSequence, applied, styleApplied, shownPacket>>
      /\ UNCHANGED <<sceneHandle, rootHandle, labelHandle, valueHandle, label, value>>
  BY DEF ChangeScene, shared, locals, style, handles
<1>2. scene' \in Scenes /\ rootOf' \in [Scenes -> Roots]
  BY DEF ChangeScene, ScreenInv, OverlayTypeOK
<1>3. OverlayTypeOK'
  BY <1>1, <1>2 DEF ScreenInv, OverlayTypeOK
<1>4. StreamInv' /\ CopyInv' /\ WidgetInv' /\ StyleInv'
  BY <1>1, StreamStays, ReceiverStays DEF ScreenInv
<1> QED BY <1>3, <1>4 DEF ScreenInv

\* refresh_game_scene: a new scene or a new root drops the handles of the labels
\* together with the style.
LEMMA RefreshSceneKeeps == ScreenInv /\ RefreshScene => ScreenInv'
<1> SUFFICES ASSUME ScreenInv, RefreshScene PROVE ScreenInv'
  OBVIOUS
<1>1. /\ render = "scene"
      /\ UNCHANGED <<background, run, next, queue, packet, sequence, have>>
      /\ UNCHANGED <<appliedSequence, applied, shownPacket>>
      /\ UNCHANGED <<scene, rootOf, label, value>>
  BY DEF RefreshScene, shared, ui
<1>2. PICK scenePinned \in BOOLEAN, rootRead \in BOOLEAN, rootPinned \in BOOLEAN :
         RefreshHandles(scenePinned, rootRead, rootPinned)
  BY DEF RefreshScene
<1> DEFINE root == rootOf[scene]
<1>3. root \in Roots /\ root # None
  BY OverlayConstants DEF ScreenInv, OverlayTypeOK
<1> HIDE DEF root
<1>4. /\ \/ render' = "label" /\ rootHandle' = root /\ UNCHANGED <<receiver, seen, frame, newLabel, newValue>>
         \/ /\ render' = "idle" /\ seen' = 0 /\ frame' = ZeroPacket
            /\ newLabel' = FALSE /\ newValue' = FALSE /\ receiver' \in {receiver, "recv"}
      /\ sceneHandle' \in {sceneHandle, scene}
      /\ \/ UNCHANGED <<rootHandle, labelHandle, valueHandle, styleApplied>>
         \/ /\ rootHandle' \in {root, None, rootHandle} /\ labelHandle' = None /\ valueHandle' = None
            /\ styleApplied' = FALSE
  <2>1. \/ UNCHANGED <<rootHandle, labelHandle, valueHandle, styleApplied>>
        \/ /\ rootHandle' \in {root, None, rootHandle} /\ labelHandle' = None /\ valueHandle' = None
           /\ styleApplied' = FALSE
    BY <1>2 DEF RefreshHandles, Forget, root, ScreenInv, OverlayTypeOK
  <2>2. /\ \/ render' = "label" /\ rootHandle' = root /\ UNCHANGED <<receiver, seen, frame, newLabel, newValue>>
           \/ /\ render' = "idle" /\ seen' = 0 /\ frame' = ZeroPacket
              /\ newLabel' = FALSE /\ newValue' = FALSE /\ receiver' \in {receiver, "recv"}
        /\ sceneHandle' \in {sceneHandle, scene}
    BY <1>2 DEF RefreshHandles, LeaveRender, locals, root
  <2> QED BY <2>1, <2>2
<1>5. OverlayTypeOK'
  <2>1. /\ {newLabel, newValue, styleApplied} \subseteq BOOLEAN
        /\ {rootHandle, labelHandle, valueHandle} \subseteq Roots \cup {None}
    BY DEF ScreenInv, OverlayTypeOK
  <2>2. /\ newLabel' \in BOOLEAN /\ newValue' \in BOOLEAN /\ styleApplied' \in BOOLEAN
    BY <1>4, <2>1
  <2>3. /\ rootHandle' \in Roots \cup {None} /\ labelHandle' \in Roots \cup {None}
        /\ valueHandle' \in Roots \cup {None}
    BY <1>3, <1>4, <2>1
  <2>4. /\ seen' \in {seen, sequence, 0} /\ frame' \in {frame, packet, ZeroPacket}
        /\ render' \in {"idle", "sequence", "copy", "scene", "label", "value", "style"}
        /\ receiver' \in {receiver, "recv"}
    BY <1>4
  <2> QED BY <1>1, <1>4, <2>2, <2>3, <2>4, CallbackTypes
<1>6. StreamInv'
  BY <1>1, StreamStays DEF ScreenInv
<1>7. CopyInv'
  BY <1>1, <1>4 DEF ScreenInv, CopyInv
<1>8. WidgetInv'
  <2>1. labelHandle' \in {None, rootHandle'} /\ valueHandle' \in {None, rootHandle'}
    BY <1>4 DEF ScreenInv, WidgetInv
  <2>2. render' \notin {"value", "style"} /\ (render' = "label" => rootHandle' \in Roots)
    BY <1>3, <1>4
  <2> QED BY <1>1, <2>1, <2>2 DEF ScreenInv, WidgetInv
<1>9. StyleInv'
  BY <1>1, <1>4 DEF ScreenInv, StyleInv
<1> QED BY <1>5, <1>6, <1>7, <1>8, <1>9 DEF ScreenInv

\* A lookup gives a real widget or none; a pinned widget is not looked up.
LEMMA LookupGives ==
    ASSUME NEW handle, NEW w, NEW others, w = NoWidget \/ IsWidget(w), AreWidgets(others),
           NEW l \in Lookups(handle, w, others)
    PROVE  /\ l.hand = NoWidget \/ IsWidget(l.hand)
           /\ AreWidgets(l.others)
           /\ handle # None => l.hand = w
           /\ others = <<>> => l.miss \/ l.others = <<>>
<1>1. PICK W : others \in Seq(W) /\ \A v \in W : IsWidget(v)
  BY DEF AreWidgets
<1>3. ASSUME handle = None, w # NoWidget, NEW i \in DOMAIN others,
             l = Sees(FALSE, others[i], [others EXCEPT ![i] = w])
      PROVE  /\ IsWidget(l.hand) /\ AreWidgets(l.others) /\ others # <<>>
  <2>1. others[i] \in W /\ i \in 1 .. Len(others)
    BY <1>1, <1>3
  <2>2. others \in Seq(W \cup {w})
    BY <1>1
  <2>3. [others EXCEPT ![i] = w] \in Seq(W \cup {w})
    BY <2>1, <2>2
  <2>4. AreWidgets([others EXCEPT ![i] = w])
    BY <1>1, <1>3, <2>3 DEF AreWidgets
  <2> QED BY <1>1, <1>3, <2>1, <2>4 DEF Sees
<1>4. ASSUME handle = None, w # NoWidget, l = Sees(TRUE, NoWidget, Append(others, w))
      PROVE  l.hand = NoWidget /\ AreWidgets(l.others) /\ l.miss
  <2>1. others \in Seq(W \cup {w})
    BY <1>1
  <2>2. Append(others, w) \in Seq(W \cup {w})
    BY <2>1
  <2>3. AreWidgets(Append(others, w))
    BY <1>1, <1>4, <2>2 DEF AreWidgets
  <2> QED BY <1>4, <2>3 DEF Sees
<1>5. \/ l = Sees(FALSE, w, others)
      \/ /\ handle = None /\ w # NoWidget
         /\ \/ \E i \in DOMAIN others : l = Sees(FALSE, others[i], [others EXCEPT ![i] = w])
            \/ l = Sees(TRUE, NoWidget, Append(others, w))
  BY DEF Lookups
<1>2. CASE l = Sees(FALSE, w, others)
  BY <1>2 DEF Sees
<1> QED BY <1>2, <1>3, <1>4, <1>5

\* create_or_find_label for the text label.  A label is made as the frame asks;
\* one that is found keeps what it has, and one that an applied style vouches
\* for is found.
LEMMA PutLabelKeeps == ScreenInv /\ StrayInv /\ PutLabel => ScreenInv' /\ StrayInv'
<1> SUFFICES ASSUME ScreenInv, StrayInv, PutLabel PROVE ScreenInv' /\ StrayInv'
  OBVIOUS
<1> DEFINE at == IF labelHandle # None THEN labelHandle ELSE rootHandle
<1>1. /\ render = "label"
      /\ UNCHANGED <<background, run, next, queue, packet, sequence, have>>
      /\ UNCHANGED <<appliedSequence, applied, styleApplied, shownPacket>>
      /\ UNCHANGED <<sceneHandle, rootHandle, valueHandle, scene, rootOf, value, strayValues>>
  BY DEF PutLabel, shared, style
<1>3. at = rootHandle /\ rootHandle \in Roots
  BY <1>1 DEF ScreenInv, WidgetInv
<1> DEFINE fresh(l) == l.hand = NoWidget
           Put(l) == /\ label' = [label EXCEPT ![at] = IF fresh(l) THEN LabelOf(frame) ELSE l.hand]
                     /\ strayLabels' = [strayLabels EXCEPT ![at] = l.others]
                     /\ Missing(l, at)
<1>0. PICK l \in Lookups(labelHandle, label[at], strayLabels[at]) :
      \/ /\ render' = "value" /\ newLabel' = fresh(l)
         /\ labelHandle' = at /\ Put(l)
         /\ UNCHANGED <<receiver, seen, frame, newValue>>
      \/ /\ LeaveRender
         /\ Put(l) \/ UNCHANGED <<label, strayLabels, missedIn>>
         /\ UNCHANGED labelHandle
  BY DEF PutLabel
<1> DEFINE new == l.hand = NoWidget
           put == [label EXCEPT ![rootHandle] = IF new THEN LabelOf(frame) ELSE l.hand]
<1>2. \/ /\ render' = "value" /\ newLabel' = new
         /\ labelHandle' = rootHandle /\ label' = put
         /\ UNCHANGED <<receiver, seen, frame, newValue>>
      \/ /\ render' = "idle" /\ seen' = 0 /\ frame' = ZeroPacket
         /\ newLabel' = FALSE /\ newValue' = FALSE /\ receiver' \in {receiver, "recv"}
         /\ label' \in {label, put} /\ labelHandle' = labelHandle
  BY <1>0, <1>3 DEF LeaveRender
<1>14. \/ UNCHANGED <<strayLabels, missedIn>>
       \/ /\ strayLabels' = [strayLabels EXCEPT ![rootHandle] = l.others]
          /\ missedIn' = IF l.miss THEN missedIn \cup {rootHandle} ELSE missedIn
  BY <1>0, <1>3 DEF Missing
<1>15. /\ l.hand = NoWidget \/ IsWidget(l.hand)
       /\ AreWidgets(l.others)
       /\ labelHandle # None => l.hand = label[rootHandle]
       /\ strayLabels[rootHandle] = <<>> => l.miss \/ l.others = <<>>
  <2>1. label[rootHandle] = NoWidget \/ IsWidget(label[rootHandle])
    BY <1>3 DEF ScreenInv, WidgetInv
  <2>2. AreWidgets(strayLabels[rootHandle]) /\ l \in Lookups(labelHandle, label[rootHandle], strayLabels[rootHandle])
    BY <1>0, <1>3 DEF StrayInv
  <2> QED BY <2>1, <2>2, LookupGives
<1> HIDE DEF at
<1>4. label = [r \in Roots |-> label[r]]
  BY DEF ScreenInv, WidgetInv
<1>5. /\ put = [r \in Roots |-> put[r]]
      /\ \A r \in Roots : put[r] = NoWidget \/ IsWidget(put[r])
      /\ put[rootHandle] # NoWidget
      /\ new => put[rootHandle] = LabelOf(frame)
      /\ labelHandle # None /\ ~ new => put = label
  <2>1. /\ put[rootHandle] = IF new THEN LabelOf(frame) ELSE l.hand
        /\ \A r \in Roots \ {rootHandle} : put[r] = label[r]
    BY <1>3, <1>4
  <2>2. put = [r \in Roots |-> put[r]]
    BY <1>3, <1>4
  <2>3. labelHandle # None /\ ~ new => put = label
    BY <1>3, <1>4, <1>15
  <2> HIDE DEF put
  <2>4. put[rootHandle] # NoWidget /\ IsWidget(put[rootHandle])
    BY <1>15, <2>1, LabelIs
  <2> QED BY <2>1, <2>2, <2>3, <2>4 DEF ScreenInv, WidgetInv
<1>6. styleApplied => ~ new /\ labelHandle # None
  <2>1. styleApplied => labelHandle # None /\ label[rootHandle] = LabelOf(shownPacket)
    BY <1>3, OverlayConstants DEF ScreenInv, StyleInv
  <2> QED BY <1>15, <2>1, LabelIs
<1>7. new \in BOOLEAN
  OBVIOUS
<1> HIDE DEF new, put
<1>8. OverlayTypeOK'
  <2>1. /\ {newLabel, newValue, styleApplied} \subseteq BOOLEAN
        /\ {rootHandle, labelHandle, valueHandle} \subseteq Roots \cup {None}
    BY DEF ScreenInv, OverlayTypeOK
  <2>2. newLabel' \in BOOLEAN /\ newValue' \in BOOLEAN /\ styleApplied' \in BOOLEAN
    BY <1>1, <1>2, <1>7, <2>1
  <2>3. /\ rootHandle' \in Roots \cup {None} /\ labelHandle' \in Roots \cup {None}
        /\ valueHandle' \in Roots \cup {None}
    BY <1>1, <1>2, <1>3, <2>1
  <2>4. /\ seen' \in {seen, sequence, 0} /\ frame' \in {frame, packet, ZeroPacket}
        /\ render' \in {"idle", "sequence", "copy", "scene", "label", "value", "style"}
        /\ receiver' \in {receiver, "recv"}
    BY <1>2
  <2> QED BY <1>1, <2>2, <2>3, <2>4, CallbackTypes
<1>9. StreamInv'
  BY <1>1, StreamStays DEF ScreenInv
<1>10. CopyInv'
  BY <1>1, <1>2 DEF ScreenInv, CopyInv
<1>11. label' \in {label, put}
  BY <1>2
<1>12. WidgetInv'
  <2>1. /\ label' = [r \in Roots |-> label'[r]]
        /\ \A r \in Roots : label'[r] = NoWidget \/ IsWidget(label'[r])
    BY <1>4, <1>5, <1>11 DEF ScreenInv, WidgetInv
  <2>2. /\ value' = [r \in Roots |-> value'[r]]
        /\ \A r \in Roots : value'[r] = NoWidget \/ IsWidget(value'[r])
    BY <1>1 DEF ScreenInv, WidgetInv
  <2>3. labelHandle' \in {None, rootHandle'} /\ valueHandle' \in {None, rootHandle'}
    BY <1>1, <1>2, <1>3 DEF ScreenInv, WidgetInv
  <2>4. render' \in {"label", "value", "style"} =>
           /\ render' = "value" /\ rootHandle' \in Roots /\ labelHandle' = rootHandle'
           /\ label'[rootHandle'] # NoWidget /\ (newLabel' => label'[rootHandle'] = LabelOf(frame'))
    BY <1>1, <1>2, <1>3, <1>5
  <2> QED BY <2>1, <2>2, <2>3, <2>4 DEF WidgetInv
<1>13. StyleInv'
  <2>1. styleApplied => label' = label /\ labelHandle' = labelHandle
    BY <1>2, <1>3, <1>5, <1>6 DEF ScreenInv, StyleInv
  <2> QED BY <1>1, <2>1 DEF ScreenInv, StyleInv
<1>16. StrayInv'
  <2>1. strayLabels = [r \in Roots |-> strayLabels[r]] /\ missedIn \subseteq Roots
    BY DEF StrayInv, SecondOnlyAfterMiss
  <2>2. CASE UNCHANGED <<strayLabels, missedIn>>
    BY <1>1, <2>2 DEF StrayInv, SecondOnlyAfterMiss
  <2>3. CASE /\ strayLabels' = [strayLabels EXCEPT ![rootHandle] = l.others]
             /\ missedIn' = IF l.miss THEN missedIn \cup {rootHandle} ELSE missedIn
    <3>1. /\ strayLabels'[rootHandle] = l.others
          /\ \A r \in Roots \ {rootHandle} : strayLabels'[r] = strayLabels[r]
          /\ strayLabels' = [r \in Roots |-> strayLabels'[r]]
      BY <1>3, <2>1, <2>3
    <3>2. \A r \in Roots : AreWidgets(strayLabels'[r])
      BY <1>15, <3>1 DEF StrayInv
    <3>3. missedIn' \subseteq Roots /\ missedIn \subseteq missedIn'
      BY <1>3, <2>1, <2>3
    <3>4. \A r \in Roots \ missedIn' : strayLabels'[r] = <<>>
      BY <1>3, <1>15, <2>3, <3>1, <3>3 DEF StrayInv, SecondOnlyAfterMiss
    <3> QED BY <1>1, <3>1, <3>2, <3>3, <3>4 DEF StrayInv, SecondOnlyAfterMiss
  <2> QED BY <1>14, <2>2, <2>3
<1> QED BY <1>8, <1>9, <1>10, <1>12, <1>13, <1>16 DEF ScreenInv

LEMMA PutValueKeeps == ScreenInv /\ StrayInv /\ PutValue => ScreenInv' /\ StrayInv'
<1> SUFFICES ASSUME ScreenInv, StrayInv, PutValue PROVE ScreenInv' /\ StrayInv'
  OBVIOUS
<1> DEFINE at == IF valueHandle # None THEN valueHandle ELSE rootHandle
<1>1. /\ render = "value"
      /\ UNCHANGED <<background, run, next, queue, packet, sequence, have>>
      /\ UNCHANGED <<appliedSequence, applied, styleApplied, shownPacket>>
      /\ UNCHANGED <<sceneHandle, rootHandle, labelHandle, scene, rootOf, label, strayLabels>>
  BY DEF PutValue, shared, style
<1>3. at = rootHandle /\ rootHandle \in Roots
  BY <1>1 DEF ScreenInv, WidgetInv
<1> DEFINE fresh(l) == l.hand = NoWidget
           Put(l) == /\ value' = [value EXCEPT ![at] = IF fresh(l) THEN ValueOf(frame) ELSE l.hand]
                     /\ strayValues' = [strayValues EXCEPT ![at] = l.others]
                     /\ Missing(l, at)
<1>0. PICK l \in Lookups(valueHandle, value[at], strayValues[at]) :
      \/ /\ render' = "style" /\ newValue' = fresh(l)
         /\ valueHandle' = at /\ Put(l)
         /\ UNCHANGED <<receiver, seen, frame, newLabel>>
      \/ /\ LeaveRender
         /\ Put(l) \/ UNCHANGED <<value, strayValues, missedIn>>
         /\ UNCHANGED valueHandle
  BY DEF PutValue
<1> DEFINE new == l.hand = NoWidget
           put == [value EXCEPT ![rootHandle] = IF new THEN ValueOf(frame) ELSE l.hand]
<1>2. \/ /\ render' = "style" /\ newValue' = new
         /\ valueHandle' = rootHandle /\ value' = put
         /\ UNCHANGED <<receiver, seen, frame, newLabel>>
      \/ /\ render' = "idle" /\ seen' = 0 /\ frame' = ZeroPacket
         /\ newLabel' = FALSE /\ newValue' = FALSE /\ receiver' \in {receiver, "recv"}
         /\ value' \in {value, put} /\ valueHandle' = valueHandle
  BY <1>0, <1>3 DEF LeaveRender
<1>14. \/ UNCHANGED <<strayValues, missedIn>>
       \/ /\ strayValues' = [strayValues EXCEPT ![rootHandle] = l.others]
          /\ missedIn' = IF l.miss THEN missedIn \cup {rootHandle} ELSE missedIn
  BY <1>0, <1>3 DEF Missing
<1>15. /\ l.hand = NoWidget \/ IsWidget(l.hand)
       /\ AreWidgets(l.others)
       /\ valueHandle # None => l.hand = value[rootHandle]
       /\ strayValues[rootHandle] = <<>> => l.miss \/ l.others = <<>>
  <2>1. value[rootHandle] = NoWidget \/ IsWidget(value[rootHandle])
    BY <1>3 DEF ScreenInv, WidgetInv
  <2>2. AreWidgets(strayValues[rootHandle]) /\ l \in Lookups(valueHandle, value[rootHandle], strayValues[rootHandle])
    BY <1>0, <1>3 DEF StrayInv
  <2> QED BY <2>1, <2>2, LookupGives
<1> HIDE DEF at
<1>4. value = [r \in Roots |-> value[r]]
  BY DEF ScreenInv, WidgetInv
<1>5. /\ put = [r \in Roots |-> put[r]]
      /\ \A r \in Roots : put[r] = NoWidget \/ IsWidget(put[r])
      /\ put[rootHandle] # NoWidget
      /\ new => put[rootHandle] = ValueOf(frame)
      /\ valueHandle # None /\ ~ new => put = value
  <2>1. /\ put[rootHandle] = IF new THEN ValueOf(frame) ELSE l.hand
        /\ \A r \in Roots \ {rootHandle} : put[r] = value[r]
    BY <1>3, <1>4
  <2>2. put = [r \in Roots |-> put[r]]
    BY <1>3, <1>4
  <2>3. valueHandle # None /\ ~ new => put = value
    BY <1>3, <1>4, <1>15
  <2> HIDE DEF put
  <2>4. put[rootHandle] # NoWidget /\ IsWidget(put[rootHandle])
    BY <1>15, <2>1, ValueIs
  <2> QED BY <2>1, <2>2, <2>3, <2>4 DEF ScreenInv, WidgetInv
<1>6. styleApplied => ~ new /\ valueHandle # None
  <2>1. styleApplied => valueHandle # None /\ value[rootHandle] = ValueOf(shownPacket)
    BY <1>3, OverlayConstants DEF ScreenInv, StyleInv
  <2> QED BY <1>15, <2>1, ValueIs
<1>7. new \in BOOLEAN
  OBVIOUS
<1> HIDE DEF new, put
<1>8. OverlayTypeOK'
  <2>1. /\ {newLabel, newValue, styleApplied} \subseteq BOOLEAN
        /\ {rootHandle, labelHandle, valueHandle} \subseteq Roots \cup {None}
    BY DEF ScreenInv, OverlayTypeOK
  <2>2. newLabel' \in BOOLEAN /\ newValue' \in BOOLEAN /\ styleApplied' \in BOOLEAN
    BY <1>1, <1>2, <1>7, <2>1
  <2>3. /\ rootHandle' \in Roots \cup {None} /\ labelHandle' \in Roots \cup {None}
        /\ valueHandle' \in Roots \cup {None}
    BY <1>1, <1>2, <1>3, <2>1
  <2>4. /\ seen' \in {seen, sequence, 0} /\ frame' \in {frame, packet, ZeroPacket}
        /\ render' \in {"idle", "sequence", "copy", "scene", "label", "value", "style"}
        /\ receiver' \in {receiver, "recv"}
    BY <1>2
  <2> QED BY <1>1, <2>2, <2>3, <2>4, CallbackTypes
<1>9. StreamInv'
  BY <1>1, StreamStays DEF ScreenInv
<1>10. CopyInv'
  BY <1>1, <1>2 DEF ScreenInv, CopyInv
<1>11. value' \in {value, put}
  BY <1>2
<1>12. WidgetInv'
  <2>1. /\ value' = [r \in Roots |-> value'[r]]
        /\ \A r \in Roots : value'[r] = NoWidget \/ IsWidget(value'[r])
    BY <1>4, <1>5, <1>11 DEF ScreenInv, WidgetInv
  <2>2. /\ label' = [r \in Roots |-> label'[r]]
        /\ \A r \in Roots : label'[r] = NoWidget \/ IsWidget(label'[r])
    BY <1>1 DEF ScreenInv, WidgetInv
  <2>3. labelHandle' \in {None, rootHandle'} /\ valueHandle' \in {None, rootHandle'}
    BY <1>1, <1>2, <1>3 DEF ScreenInv, WidgetInv
  <2>4. render' \in {"label", "value", "style"} =>
           /\ render' = "style" /\ rootHandle' \in Roots /\ valueHandle' = rootHandle'
           /\ value'[rootHandle'] # NoWidget /\ (newValue' => value'[rootHandle'] = ValueOf(frame'))
    BY <1>1, <1>2, <1>3, <1>5
  <2>5. render' \in {"value", "style"} =>
           /\ labelHandle' = rootHandle' /\ label'[rootHandle'] # NoWidget
           /\ newLabel' => label'[rootHandle'] = LabelOf(frame')
    BY <1>1, <1>2 DEF ScreenInv, WidgetInv
  <2> QED BY <2>1, <2>2, <2>3, <2>4, <2>5 DEF WidgetInv
<1>13. StyleInv'
  <2>1. styleApplied => value' = value /\ valueHandle' = valueHandle
    BY <1>2, <1>3, <1>5, <1>6 DEF ScreenInv, StyleInv
  <2> QED BY <1>1, <2>1 DEF ScreenInv, StyleInv
<1>16. StrayInv'
  <2>1. strayValues = [r \in Roots |-> strayValues[r]] /\ missedIn \subseteq Roots
    BY DEF StrayInv, SecondOnlyAfterMiss
  <2>2. CASE UNCHANGED <<strayValues, missedIn>>
    BY <1>1, <2>2 DEF StrayInv, SecondOnlyAfterMiss
  <2>3. CASE /\ strayValues' = [strayValues EXCEPT ![rootHandle] = l.others]
             /\ missedIn' = IF l.miss THEN missedIn \cup {rootHandle} ELSE missedIn
    <3>1. /\ strayValues'[rootHandle] = l.others
          /\ \A r \in Roots \ {rootHandle} : strayValues'[r] = strayValues[r]
          /\ strayValues' = [r \in Roots |-> strayValues'[r]]
      BY <1>3, <2>1, <2>3
    <3>2. \A r \in Roots : AreWidgets(strayValues'[r])
      BY <1>15, <3>1 DEF StrayInv
    <3>3. missedIn' \subseteq Roots /\ missedIn \subseteq missedIn'
      BY <1>3, <2>1, <2>3
    <3>4. \A r \in Roots \ missedIn' : strayValues'[r] = <<>>
      BY <1>3, <1>15, <2>3, <3>1, <3>3 DEF StrayInv, SecondOnlyAfterMiss
    <3> QED BY <1>1, <3>1, <3>2, <3>3, <3>4 DEF StrayInv, SecondOnlyAfterMiss
  <2> QED BY <1>14, <2>2, <2>3
<1> QED BY <1>8, <1>9, <1>10, <1>12, <1>13, <1>16 DEF ScreenInv

\* The setters give a widget what they are asked for and leave the rest.
LEMMA SetIs ==
    ASSUME NEW w, NEW target, NEW fields, IsWidget(w), IsWidget(target)
    PROVE  /\ IsWidget(Set(w, fields, target)) /\ Set(w, fields, target) # NoWidget
           /\ (\A f \in Attributes \ fields : w[f] = target[f]) => Set(w, fields, target) = target
<1>1. DOMAIN w = Attributes
  BY DEF IsWidget
<1>2. Set(w, fields, target) = [f \in Attributes |-> IF f \in fields THEN target[f] ELSE w[f]]
  BY <1>1 DEF Set
<1>3. IsWidget(Set(w, fields, target))
  BY <1>2 DEF IsWidget
<1>4. Set(w, fields, target) # NoWidget
  <2>1. "color" \in DOMAIN Set(w, fields, target) /\ "color" \notin DOMAIN NoWidget
    BY <1>2 DEF Attributes, NoWidget
  <2> QED BY <2>1
<1>5. ASSUME \A f \in Attributes \ fields : w[f] = target[f]
      PROVE  Set(w, fields, target) = target
  <2>1. Set(w, fields, target) = [f \in Attributes |-> target[f]]
    BY <1>2, <1>5
  <2> QED BY <2>1 DEF IsWidget
<1> QED BY <1>3, <1>4, <1>5

\* apply_packet_on_render sets only what changed since the packet whose style
\* counts as applied; what it skips is already as the frame asks.
LEMMA SettersSuffice ==
    ASSUME ScreenInv, render = "style"
    PROVE  /\ Set(label[rootHandle], LabelSetters, LabelOf(frame)) = LabelOf(frame)
           /\ Set(value[rootHandle], ValueSetters, ValueOf(frame)) = ValueOf(frame)
<1>1. /\ IsWidget(label[rootHandle]) /\ IsWidget(value[rootHandle]) /\ applied = shownPacket
      /\ newLabel => label[rootHandle] = LabelOf(frame)
      /\ newValue => value[rootHandle] = ValueOf(frame)
  BY DEF ScreenInv, WidgetInv, CopyInv
<1>2. styleApplied => label[rootHandle] = LabelOf(shownPacket) /\ value[rootHandle] = ValueOf(shownPacket)
  BY DEF ScreenInv, StyleInv
<1>3. \A f \in Attributes \ LabelSetters : label[rootHandle][f] = LabelOf(frame)[f]
  <2>1. CASE newLabel
    BY <1>1, <2>1
  <2>2. CASE ~ newLabel /\ styleApplied
    <3>1. label[rootHandle] = LabelOf(applied)
      BY <1>1, <1>2, <2>2
    <3>2. ASSUME NEW f \in Attributes \ LabelSetters PROVE LabelOf(applied)[f] = LabelOf(frame)[f]
      <4>1. /\ f = "font" => ~ FontChanged
            /\ f = "color" => ~ LabelColorChanged
            /\ f = "text" => ~ LabelTextChanged
            /\ f = "at" => ~ LayoutChanged
        BY <2>2 DEF LabelSetters
      <4>2. CASE f = "font"
        BY <4>1, <4>2 DEF FontChanged, LabelOf
      <4>3. CASE f = "color"
        BY <4>1, <4>3 DEF LabelColorChanged, LabelOf
      <4>4. CASE f = "text"
        BY <4>1, <4>4 DEF LabelTextChanged, LabelOf
      <4>5. CASE f = "at"
        BY <4>1, <4>5 DEF LayoutChanged, LabelOf
      <4> QED BY <4>2, <4>3, <4>4, <4>5 DEF Attributes
    <3> QED BY <3>1, <3>2
  <2>3. CASE ~ newLabel /\ ~ styleApplied
    BY <2>3 DEF LabelSetters, Attributes, FontChanged, LabelColorChanged, LabelTextChanged, LayoutChanged
  <2> QED BY <2>1, <2>2, <2>3
<1>4. \A f \in Attributes \ ValueSetters : value[rootHandle][f] = ValueOf(frame)[f]
  <2>1. CASE newValue
    BY <1>1, <2>1
  <2>2. CASE ~ newValue /\ styleApplied
    <3>1. value[rootHandle] = ValueOf(applied)
      BY <1>1, <1>2, <2>2
    <3>2. ASSUME NEW f \in Attributes \ ValueSetters PROVE ValueOf(applied)[f] = ValueOf(frame)[f]
      <4>1. /\ f = "font" => ~ FontChanged
            /\ f = "color" => ~ ValueColorChanged
            /\ f # "text"
            /\ f = "at" => ~ LayoutChanged
        BY <2>2 DEF ValueSetters
      <4>2. CASE f = "font"
        BY <4>1, <4>2 DEF FontChanged, ValueOf
      <4>3. CASE f = "color"
        BY <4>1, <4>3 DEF ValueColorChanged, ValueOf
      <4>5. CASE f = "at"
        BY <4>1, <4>5 DEF LayoutChanged, ValueOf
      <4> QED BY <4>1, <4>2, <4>3, <4>5 DEF Attributes
    <3> QED BY <3>1, <3>2
  <2>3. CASE ~ newValue /\ ~ styleApplied
    BY <2>3 DEF ValueSetters, Attributes, FontChanged, ValueColorChanged, LayoutChanged
  <2> QED BY <2>1, <2>2, <2>3
<1> QED BY <1>1, <1>3, <1>4, SetIs, LabelIs, ValueIs

LEMMA ApplyStyleKeeps == ScreenInv /\ ApplyStyle => ScreenInv'
<1> SUFFICES ASSUME ScreenInv, ApplyStyle PROVE ScreenInv'
  OBVIOUS
<1>1. /\ render = "style" /\ render' = "idle" /\ seen' = 0 /\ frame' = ZeroPacket
      /\ newLabel' = FALSE /\ newValue' = FALSE /\ receiver' \in {receiver, "recv"}
      /\ UNCHANGED <<background, run, next, queue, packet, sequence, have>>
      /\ UNCHANGED <<sceneHandle, rootHandle, labelHandle, valueHandle, scene, rootOf>>
  BY DEF ApplyStyle, LeaveRender, shared, handles
<1>2. PICK lost \in SUBSET LabelSetters, missed \in SUBSET ValueSetters :
         /\ label' = [label EXCEPT ![labelHandle] = Set(@, LabelSetters \ lost, LabelOf(frame))]
         /\ value' = [value EXCEPT ![valueHandle] = Set(@, ValueSetters \ missed, ValueOf(frame))]
         /\ IF lost = {} /\ missed = {} THEN Remember ELSE ForgetStyle
  BY DEF ApplyStyle
<1>3. /\ rootHandle \in Roots /\ labelHandle = rootHandle /\ valueHandle = rootHandle
      /\ IsWidget(label[rootHandle]) /\ IsWidget(value[rootHandle])
      /\ label = [r \in Roots |-> label[r]] /\ value = [r \in Roots |-> value[r]]
  BY <1>1 DEF ScreenInv, WidgetInv
<1> DEFINE newL == Set(label[rootHandle], LabelSetters \ lost, LabelOf(frame))
           newV == Set(value[rootHandle], ValueSetters \ missed, ValueOf(frame))
<1>4. IsWidget(newL) /\ newL # NoWidget /\ IsWidget(newV) /\ newV # NoWidget
  BY <1>3, SetIs, LabelIs, ValueIs
<1>5. lost = {} /\ missed = {} => newL = LabelOf(frame) /\ newV = ValueOf(frame)
  <2>1. SUFFICES ASSUME lost = {}, missed = {} PROVE newL = LabelOf(frame) /\ newV = ValueOf(frame)
    OBVIOUS
  <2>2. LabelSetters \ lost = LabelSetters /\ ValueSetters \ missed = ValueSetters
    BY <2>1
  <2> QED BY <1>1, <2>2, SettersSuffice
<1>6. label' = [label EXCEPT ![rootHandle] = newL] /\ value' = [value EXCEPT ![rootHandle] = newV]
  BY <1>2, <1>3
<1> HIDE DEF newL, newV
<1>7. /\ label'[rootHandle] = newL /\ value'[rootHandle] = newV
      /\ \A r \in Roots \ {rootHandle} : label'[r] = label[r] /\ value'[r] = value[r]
      /\ label' = [r \in Roots |-> label'[r]] /\ value' = [r \in Roots |-> value'[r]]
  <2>1. label'[rootHandle] = newL /\ \A r \in Roots \ {rootHandle} : label'[r] = label[r]
    BY <1>3, <1>6
  <2>2. value'[rootHandle] = newV /\ \A r \in Roots \ {rootHandle} : value'[r] = value[r]
    BY <1>3, <1>6
  <2>3. label' = [r \in Roots |-> label'[r]]
    BY <1>3, <1>6
  <2>4. value' = [r \in Roots |-> value'[r]]
    BY <1>3, <1>6
  <2> QED BY <2>1, <2>2, <2>3, <2>4
<1>8. \/ /\ applied' = frame /\ styleApplied' = TRUE /\ appliedSequence' = frame.seq /\ shownPacket' = frame
         /\ newL = LabelOf(frame) /\ newV = ValueOf(frame)
      \/ /\ styleApplied' = FALSE /\ UNCHANGED <<appliedSequence, applied, shownPacket>>
  BY <1>2, <1>5 DEF Remember, ForgetStyle
<1>9. OverlayTypeOK'
  <2>1. {rootHandle, labelHandle, valueHandle} \subseteq Roots \cup {None}
    BY DEF ScreenInv, OverlayTypeOK
  <2> QED BY <1>1, <1>8, <2>1, CallbackTypes
<1>10. StreamInv'
  <2>1. Upto(shownPacket', packet)
    BY <1>1, <1>8 DEF ScreenInv, StreamInv, CopyInv
  <2> QED BY <1>1, <2>1 DEF ScreenInv, StreamInv
<1>11. CopyInv'
  BY <1>1, <1>8 DEF ScreenInv, CopyInv
<1>12. WidgetInv'
  <2>1. \A r \in Roots : /\ label'[r] = NoWidget \/ IsWidget(label'[r])
                         /\ value'[r] = NoWidget \/ IsWidget(value'[r])
    BY <1>4, <1>7 DEF ScreenInv, WidgetInv
  <2> QED BY <1>1, <1>3, <1>7, <2>1 DEF WidgetInv
<1>13. StyleInv'
  BY <1>1, <1>3, <1>7, <1>8 DEF StyleInv
<1> QED BY <1>9, <1>10, <1>11, <1>12, <1>13 DEF ScreenInv

\* No other step touches them.
LEMMA StraysStay == StrayInv /\ UNCHANGED strays => StrayInv'
  BY DEF StrayInv, SecondOnlyAfterMiss, strays

LEMMA StrayStep ==
    ASSUME ScreenInv, StrayInv, [OverlayNext]_overlay PROVE StrayInv'
<1>1. CASE Send \/ Restart \/ Receiver
  BY <1>1, StraysStay DEF Send, Restart, Receiver, Receive, StoreSequence, StoreHave, ReceiveTimeout, ui
<1>2. CASE BeginRender \/ LoadSequence \/ CopyPacket \/ SceneNotFound \/ RefreshScene \/ ClassNotFound
  BY <1>2, StraysStay DEF BeginRender, LoadSequence, CopyPacket, SceneNotFound, RefreshScene,
                          ClassNotFound, ui
<1>3. CASE ApplyStyle \/ ChangeScene
  BY <1>3, StraysStay DEF ApplyStyle, ChangeScene
<1>4. CASE PutLabel \/ PutValue
  BY <1>4, PutLabelKeeps, PutValueKeeps
<1>5. CASE UNCHANGED overlay
  BY <1>5, StraysStay DEF overlay, ui
<1> QED BY <1>1, <1>2, <1>3, <1>4, <1>5 DEF OverlayNext, Render

LEMMA ScreenStep == ScreenInv /\ StrayInv /\ [OverlayNext]_overlay => ScreenInv' /\ StrayInv'
<1> SUFFICES ASSUME ScreenInv, StrayInv, [OverlayNext]_overlay PROVE ScreenInv'
  BY StrayStep
<1>1. CASE OverlayNext
  BY <1>1, SendKeeps, RestartRunKeeps, ReceiveKeeps, StoreKeeps, BeginRenderKeeps, LoadSequenceKeeps,
     CopyPacketKeeps, GivesUpKeeps, RefreshSceneKeeps, PutLabelKeeps, PutValueKeeps,
     ApplyStyleKeeps, ChangeSceneKeeps
     DEF OverlayNext, Receiver, Render
<1>2. CASE UNCHANGED overlay
  <2>1. /\ UNCHANGED <<background, run, next, queue, receiver, packet, sequence, have>>
        /\ UNCHANGED <<render, seen, frame, newLabel, newValue>>
        /\ UNCHANGED <<appliedSequence, applied, styleApplied, shownPacket>>
        /\ UNCHANGED <<sceneHandle, rootHandle, labelHandle, valueHandle, scene, rootOf, label, value>>
    BY <1>2 DEF overlay, shared, locals, style, handles, ui
  <2>2. OverlayTypeOK'
    BY <2>1 DEF ScreenInv, OverlayTypeOK
  <2>3. StreamInv' /\ CopyInv' /\ WidgetInv' /\ StyleInv'
    BY <2>1, StreamStays, ReceiverStays DEF ScreenInv
  <2> QED BY <2>2, <2>3 DEF ScreenInv
<1> QED BY <1>1, <1>2

\* Between two applications, a style that counts as applied is the style the
\* widgets in use really have (apply_packet_on_render), and a root holds second
\* widgets only where find_widget missed one, for all frames, scenes and roots,
\* any number of controller runs and of packets, a socket of any size and any
\* number of failing setters and lookups.
THEOREM ScreenIsAsBelieved == OverlaySpec => []OverlayInv
<1>1. ScreenInv /\ StrayInv => OverlayInv
  BY DEF ScreenInv, StyleInv, StrayInv, OverlayInv, OverlayShowsFrame
<1> QED BY <1>1, ScreenInit, ScreenStep, PTL DEF OverlaySpec

\* A packet that is applied in full is newer than the one before, across
\* controller restarts and whatever the callback reads of a packet, number and
\* flag that the receiver stores one after the other.
THEOREM NeverShowsOlder == OverlaySpec => AppliedInOrder
<1>1. ScreenInv => (render = "style" => Newer(frame, shownPacket))
  BY DEF ScreenInv, CopyInv
<1> QED BY <1>1, ScreenInit, ScreenStep, PTL DEF OverlaySpec, AppliedInOrder
=============================================================================
