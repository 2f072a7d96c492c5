---------------------------- MODULE SettingsStore ----------------------------
(***************************************************************************)
(* The settings service (src/ps5/settings_service.cpp), the store behind   *)
(* it (src/core/settings.cpp) and the controller that reads the store on   *)
(* every tick.  One worker thread serves one connection at a time: it      *)
(* collects the request from its fragments, answers it, and saves a new    *)
(* configuration through a temporary file while it holds the store's       *)
(* mutex.  The process may be killed, and the console may lose power,      *)
(* between any two steps.                                                  *)
(*                                                                         *)
(* A request is Header units long plus its body; the properties are about  *)
(* what is done with it, not about its bytes.                              *)
(***************************************************************************)
EXTENDS OverlayConfig

CONSTANTS Requests,    \* requests that a client may make
          FirstFiles,  \* texts that config.ini may hold at the start
          MaxRequests, \* connections per behaviour
          MaxCrashes   \* crashes and power losses per behaviour

Header == 2
HugeBody == 512
NoRequest == [method |-> "none"]

\* A form and a text hold any numbers at all and any words, where "junk" stands
\* for all that is not a corner.
Words == Corners \cup {"junk"}
Forms == [complete : BOOLEAN, corner : Words, font : Int, mx : Int, my : Int,
          show : Int, label : Int, value : Int]
Texts == [corner : Words, font : Int, mx : Int, my : Int,
          show : Int, label : Int, value : Int]

ASSUME StoreConstants ==
    /\ MaxRequests \in Nat /\ MaxCrashes \in Nat
    /\ Requests \subseteq
         [method : STRING, path : STRING, wellFormed : BOOLEAN, host : BOOLEAN,
          chunked : BOOLEAN, length : Nat, body : Nat, origin : BOOLEAN, form : Forms]
    /\ FirstFiles \subseteq Texts

VARIABLES
    worker,              \* where the worker thread is
    request, used,       \* the connection being served and the units received
    answer,              \* the status of the last answer, 0 before the first
    config,              \* the configuration in memory
    file, disk, pending, \* config.ini as seen, as stored for sure, and config.ini.tmp
    shown,               \* the configuration of the last packet
    wanted,              \* the configuration a user was last told is in force
    served, crashes      \* bounds

files == <<file, disk, pending>>
bounds == <<served, crashes>>
vars == <<worker, request, used, answer, config, files, shown, wanted, bounds>>

Absent == [text |-> serialize_config(Default), there |-> FALSE, synced |-> TRUE]
Stored(t) == [text |-> t, there |-> TRUE, synced |-> TRUE]

\* The constructor of the store: no file, or one that is too large, leaves the
\* defaults.
Load(f) == IF f.there THEN parse_config_text(f.text) ELSE Default

Init ==
    /\ worker = "accept" /\ request = NoRequest /\ used = 0 /\ answer = 0
    /\ file \in {Absent} \cup {Stored(t) : t \in FirstFiles}
    /\ disk = file /\ pending = Absent
    /\ config = Load(file) /\ shown = Load(file) /\ wanted = Load(file)
    /\ served = 0 /\ crashes = 0

------------------------------------------------------------------------------
(***************************************************************************)
(* The worker: accept, and the receive loop of client().                   *)
(***************************************************************************)
Accept ==
    /\ worker = "accept" /\ served < MaxRequests
    /\ request' \in Requests /\ used' = 0
    /\ worker' = "receive" /\ served' = served + 1
    /\ UNCHANGED <<answer, config, files, shown, wanted, crashes>>

\* The announced length as the receive loop reads it, before the parser sees it.
Announced(q) == IF q.length = Junk THEN 0 ELSE q.length

Complete(q, n) == n >= Header /\ (Announced(q) > HugeBody \/ n >= Header + Announced(q))

ReceiveSome ==
    /\ worker = "receive"
    /\ used' \in used + 1 .. Header + request.body
    /\ worker' = IF Complete(request, used') THEN "parse" ELSE "receive"
    /\ UNCHANGED <<request, answer, config, files, shown, wanted, bounds>>

WaitsForMore ==
    /\ worker = "receive" /\ used > 0
    /\ worker' = "parse"
    /\ UNCHANGED <<request, used, answer, config, files, shown, wanted, bounds>>

\* The peer closes, stays silent for a second or exceeds two seconds in all.
ReceiveGivesUp ==
    /\ worker = "receive"
    /\ worker' = "parse"
    /\ UNCHANGED <<request, used, answer, config, files, shown, wanted, bounds>>

------------------------------------------------------------------------------
(***************************************************************************)
(* settings_http_response.                                                 *)
(***************************************************************************)
Saves(q) == q.method = "POST" /\ q.path = "/api/config"

Status(q, n) ==
    IF n < Header \/ ~ q.wellFormed THEN 400
    ELSE IF ~ q.host THEN 403
    ELSE IF q.chunked \/ q.length \notin 0 .. HugeBody THEN 400
    ELSE IF q.length # n - Header THEN 400
    ELSE IF q.method = "GET" /\ q.path \in {"/", "/api/config"} THEN 200
    ELSE IF ~ Saves(q) THEN 404
    ELSE IF ~ q.origin THEN 403
    ELSE IF ~ FormIsValid(q.form) THEN 422
    ELSE 0

Say(status) == answer' = status /\ worker' = "answered"

Respond ==
    /\ worker = "parse"
    /\ IF Status(request, used) # 0 THEN Say(Status(request, used))
       ELSE worker' = "open" /\ UNCHANGED answer
    /\ UNCHANGED <<request, used, config, files, shown, wanted, bounds>>

------------------------------------------------------------------------------
(***************************************************************************)
(* SettingsStore::save and atomic_write, under the mutex.                  *)
(***************************************************************************)
Wanted == sanitize_config(parse_settings_form(request.form))
Saving == worker \in {"open", "write", "sync", "rename", "install"}

InstallFirst ==
    /\ worker = "open"
    /\ config' = Wanted
    /\ \/ /\ pending' = [Absent EXCEPT !.there = TRUE, !.synced = FALSE]
          /\ worker' = "write" /\ UNCHANGED answer
       \/ Say(500) /\ UNCHANGED pending
    /\ UNCHANGED <<request, used, file, disk, shown, wanted, bounds>>

OpenPending ==
    /\ worker = "open"
    /\ \/ /\ pending' = [Absent EXCEPT !.there = TRUE, !.synced = FALSE]
          /\ worker' = "write" /\ UNCHANGED answer
       \/ Say(500) /\ UNCHANGED pending
    /\ UNCHANGED <<request, used, config, file, disk, shown, wanted, bounds>>

GiveUpSilently == Say(200) /\ pending' = Absent

\* A write or a sync that fails removes the temporary file.
GiveUp == Say(500) /\ pending' = Absent

WritePending ==
    /\ worker = "write"
    /\ \/ GiveUp
       \/ /\ pending' = [pending EXCEPT !.text = serialize_config(Wanted)]
          /\ worker' = "sync" /\ UNCHANGED answer
    /\ UNCHANGED <<request, used, config, file, disk, shown, wanted, bounds>>

SyncLater ==
    /\ worker = "sync"
    /\ worker' = "rename" /\ UNCHANGED <<answer, pending>>
    /\ UNCHANGED <<request, used, config, file, disk, shown, wanted, bounds>>

SyncPending ==
    /\ worker = "sync"
    /\ \/ GiveUp
       \/ pending' = [pending EXCEPT !.synced = TRUE] /\ worker' = "rename" /\ UNCHANGED answer
    /\ UNCHANGED <<request, used, config, file, disk, shown, wanted, bounds>>

\* The rename is atomic; when it reaches the disk is up to the file system.
RenamePending ==
    /\ worker = "rename"
    /\ \/ GiveUp /\ UNCHANGED <<file, disk>>
       \/ /\ file' = pending /\ pending' = Absent
          /\ disk' \in {disk, file'}
          /\ worker' = "install" /\ UNCHANGED answer
    /\ UNCHANGED <<request, used, config, shown, wanted, bounds>>

Install ==
    /\ worker = "install"
    /\ config' = Wanted
    /\ Say(200)
    /\ UNCHANGED <<request, used, files, shown, wanted, bounds>>

\* The answer is sent and the connection closed.
Close ==
    /\ worker = "answered"
    /\ worker' = "accept" /\ request' = NoRequest /\ used' = 0
    /\ wanted' = IF answer = 200 /\ Saves(request)
                 THEN parse_settings_form(request.form) ELSE wanted
    /\ UNCHANGED <<answer, config, files, shown, bounds>>

------------------------------------------------------------------------------
\* The controller's tick: the configuration is copied under the mutex and sent.
Tick ==
    /\ ~ Saving
    /\ shown' = decode_wire_packet(make_wire_packet(
                    [fps |-> 60, loading |-> FALSE, config |-> config])).config
    /\ UNCHANGED <<worker, request, used, answer, config, files, wanted, bounds>>

\* The process dies and is started again; after a loss of power the file is
\* what the disk holds, and data that was never synced may be cut off.
Restarted(f, d) ==
    /\ crashes < MaxCrashes /\ crashes' = crashes + 1
    /\ worker' = "accept" /\ request' = NoRequest /\ used' = 0 /\ answer' = 0
    /\ file' = f /\ disk' = d /\ UNCHANGED pending
    /\ config' = Load(f) /\ wanted' = Load(f) /\ shown' = Load(f)
    /\ UNCHANGED served

Crash == Restarted(file, disk)

PowerLoss ==
    \E f \in {file, disk} :
       \E t \in {f.text} \cup (IF f.synced THEN {} ELSE Truncated(f.text)) :
          Restarted([f EXCEPT !.text = t, !.synced = TRUE], [f EXCEPT !.text = t, !.synced = TRUE])

Worker == \/ ReceiveGivesUp \/ Respond \/ OpenPending \/ WritePending
          \/ SyncPending \/ RenamePending \/ Install \/ Close

Next == Accept \/ ReceiveSome \/ Worker \/ Tick \/ Crash \/ PowerLoss

Spec == Init /\ [][Next]_vars

\* The worker thread runs, and a receive ends by its deadline; nothing is
\* assumed of the client.
LiveSpec == Spec /\ WF_vars(Worker)

------------------------------------------------------------------------------
Configs == [corner : Corners, font : MinFontSize .. MaxFontSize, mx : 0 .. MaxMargin,
            my : 0 .. MaxMargin, show : BOOLEAN, label : 0 .. ColorMask - 1,
            value : 0 .. ColorMask - 1]

\* The variables stay in their types; the configurations in memory and on the
\* screen are always within their limits, whatever the file held.
TypeOK ==
    /\ worker \in {"accept", "receive", "parse", "open", "write", "sync", "rename",
                   "install", "answered"}
    /\ request \in Requests \cup {NoRequest}
    /\ used \in 0 .. (IF request = NoRequest THEN 0 ELSE Header + request.body)
    /\ answer \in {0, 200, 400, 403, 404, 422, 500}
    /\ config \in Configs /\ shown \in Configs

\* Outside the mutex, memory and config.ini say the same, so that a restart
\* changes nothing the user sees (SettingsStore::save, after any failed step).
MemoryIsFile == ~ Saving => config = Load(file)

\* config.ini is always one complete configuration: the first one or one that
\* was posted, even when the power fails in the middle of a save.
FileIsWhole ==
    file.there => \/ file.text \in FirstFiles
                  \/ \E q \in Requests : Saves(q) /\ FormIsValid(q.form)
                        /\ file.text = serialize_config(parse_settings_form(q.form))

\* An answer tells the truth: 200 to a save means that exactly the posted
\* configuration is in memory and in the file, any other answer that the
\* configuration the user was last told of is still in force.
AnswerIsTrue ==
    worker = "answered" =>
        LET now == IF answer = 200 /\ Saves(request)
                   THEN parse_settings_form(request.form) ELSE wanted
        IN  config = now /\ Load(file) = now

\* The overlay is drawn with the configuration that was last confirmed, or with
\* the one just being confirmed; no conversion on the way (form, store, wire
\* packet, decoder) changes it.
DrawnAsConfirmed ==
    [][shown' # shown =>
         shown' \in {wanted, wanted'} \cup
            (IF worker = "answered" THEN {parse_settings_form(request.form)} ELSE {})]_vars

\* Whatever is confirmed, the overlay lies on the logical screen, also while it
\* shows the wider "Loading" (compute_layout).
OverlayStaysOnScreen ==
    \A loading \in BOOLEAN :
        LET box == compute_layout(shown, loading)
        IN  /\ box.x >= 0 /\ box.x + box.width <= Width
            /\ box.y >= 0 /\ box.y + box.height <= Height

\* The store keeps its word through failed writes, crashes and power losses:
\* memory is the file, the file is whole, the answer says what happened, and
\* what may be confirmed fits the screen.
StoreInv == TypeOK /\ MemoryIsFile /\ FileIsWhole /\ AnswerIsTrue /\ OverlayStaysOnScreen

\* Every connection is answered and closed, even if the client falls silent.
EveryClientIsServed == worker # "accept" ~> worker = "accept"
=============================================================================
