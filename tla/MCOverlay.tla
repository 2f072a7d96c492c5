------------------------------ MODULE MCOverlay ------------------------------
(***************************************************************************)
(* The way of a setting to the screen: the settings service and its file   *)
(* (SettingsStore), from which the controller takes the configuration of   *)
(* every packet, and the overlay that applies packets (OverlayReceiver).   *)
(* They meet only in the packet, whose configuration is arbitrary for the  *)
(* overlay; so a behaviour is one of a single part, while the other rests  *)
(* in an initial state.                                                    *)
(***************************************************************************)
EXTENDS SettingsStore, OverlayReceiver

VARIABLE part

\* Requests at and beyond every limit of the settings.
Form(corner, font, mx, show, tint) ==
    [complete |-> TRUE, corner |-> corner, font |-> font, mx |-> mx, my |-> 0,
     show |-> show, label |-> tint, value |-> 16777215]
Low  == Form("top_left", 14, 0, 0, 0)
High == Form("bottom_right", 64, 240, 1, 16777215)

Post(form) == [method |-> "POST", path |-> "/api/config", wellFormed |-> TRUE, host |-> TRUE,
               chunked |-> FALSE, length |-> 2, body |-> 2, origin |-> TRUE, form |-> form]
Get(path) == [Post(Low) EXCEPT !.method = "GET", !.path = path, !.length = 0, !.body = 0]

SomeRequests ==
    {Post(Low), Post(High), Post(Form("top_right", 64, 0, 1, 0)), Post(Form("top_right", 65, 0, 1, 0)),
     Post(Form("junk", 22, 0, 1, 0)), Post([High EXCEPT !.mx = 241]),
     Post([Low EXCEPT !.complete = FALSE]), Post([Low EXCEPT !.label = Junk]),
     [Post(High) EXCEPT !.origin = FALSE], [Post(High) EXCEPT !.host = FALSE],
     [Post(High) EXCEPT !.length = 1], [Post(High) EXCEPT !.length = Junk],
     [Post(High) EXCEPT !.length = 513], [Post(High) EXCEPT !.chunked = TRUE],
     [Post(High) EXCEPT !.wellFormed = FALSE], [Post(High) EXCEPT !.path = "/"],
     Get("/"), Get("/api/config")}

\* An edited file: numbers out of range, negative and unreadable.
EditedFiles ==
    {[corner |-> "top_right", font |-> 99, mx |-> 300, my |-> 0 - 5,
      show |-> Junk, label |-> Junk, value |-> 0]}

\* Two configurations that differ in every attribute, and one that shares some
\* attributes with each.
Left  == [font |-> 22, label |-> 1, value |-> 1, show |-> TRUE, corner |-> "left"]
Right == [font |-> 30, label |-> 2, value |-> 2, show |-> FALSE, corner |-> "right"]
Mixed == [font |-> 22, label |-> 2, value |-> 1, show |-> TRUE, corner |-> "right"]
Frame(c, t) == [config |-> c, text |-> t]
SomeFrames == {Frame(Left, "60"), Frame(Mixed, "60"), Frame(Right, "Loading")}

\* The settings; the update hook that renders while ShellUI replaces the root;
\* firmware without the hook, where the receiver thread renders and ShellUI
\* switches scenes and roots under it ("polled"), or switches scenes while the
\* controller is restarted ("resent"); and one root and one controller run, in
\* which every packet that stays must be shown ("quiet").  Lookups miss
\* widgets in "polled" and "quiet", and the label in "resent".
Parts == {"settings", "hooked", "polled", "resent", "quiet"}

SuiteInit ==
    /\ part \in Parts
    /\ Init
    /\ part # "settings" => file = Absent
    /\ OverlayInit
    /\ background = (part \in {"polled", "resent"})
    /\ run = IF part = "resent" THEN 1 ELSE MaxRuns
    /\ scene = (CHOOSE s \in Scenes : TRUE)
    /\ rootOf = [s \in Scenes |-> CHOOSE r \in Roots : TRUE]

SuiteNext ==
    \/ part = "settings" /\ Next /\ UNCHANGED <<part, overlay>>
    \/ part = "hooked" /\ OverlayNext /\ UNCHANGED <<part, vars, scene, strays>>
    \/ part = "polled" /\ OverlayNext /\ UNCHANGED <<part, vars>>
    \/ part = "resent" /\ OverlayNext /\ UNCHANGED <<part, vars, rootOf, strayValues>>
    \/ part = "quiet" /\ OverlayNext /\ UNCHANGED <<part, vars, scene, rootOf>>

\* The worker thread runs, and a receive ends by its deadline; nothing is
\* assumed of the client.  The overlay's threads run, and a managed call that is
\* tried again and again succeeds in the end.
SuiteSpec ==
    /\ SuiteInit /\ [][SuiteNext]_<<part, vars, overlay>>
    /\ WF_vars(part = "settings" /\ Worker)
    /\ WF_overlay(part = "quiet" /\ StoreSequence)
    /\ WF_overlay(part = "quiet" /\ StoreHave)
    /\ WF_overlay(part = "quiet" /\ BeginRender)
    /\ WF_overlay(part = "quiet" /\ LoadSequence)
    /\ WF_overlay(part = "quiet" /\ CopyPacket)
    /\ WF_overlay(part = "quiet" /\ Render)
    /\ SF_overlay(part = "quiet" /\ Shows)
    /\ SF_overlay(part = "quiet" /\ Labels)
    /\ SF_overlay(part = "quiet" /\ Values)
    /\ SF_overlay(part = "quiet" /\ Styles)

------------------------------------------------------------------------------
\* With one controller and the update hook, a stored packet is shown, unless a
\* later one takes its place or the controller falls silent.
QuietShows == part = "quiet" => ShownOrSuperseded
==============================================================================
