---------------------------- MODULE OverlayConfig ----------------------------
(***************************************************************************)
(* The conversions an overlay configuration goes through: the form posted  *)
(* to the settings page, the text of config.ini, the wire packet and the   *)
(* layout (src/core/settings.cpp, config.cpp, overlay_config.cpp, wire.cpp *)
(* and layout.cpp).                                                        *)
(*                                                                         *)
(* A text is a record of tokens, one per key: numbers stand for themselves *)
(* and Junk for a token that the reader of that key rejects or does not    *)
(* find.  Places are counted in twentieths of a logical pixel, in which    *)
(* all factors of the layout are whole.                                    *)
(***************************************************************************)
EXTENDS Integers, Sequences, FiniteSets

Corners == {"top_left", "top_right", "bottom_left", "bottom_right"}
MinFontSize == 14
MaxFontSize == 64
MaxMargin == 240
MaxDisplayFps == 120
ColorMask == 16777216  \* 2^24
Junk == 1073741824     \* 2^30, beyond every number a key may have

Default == [corner |-> "bottom_left", font |-> 22, mx |-> 10, my |-> 4,
            show |-> TRUE, label |-> 11757311, value |-> 16777215]

Clamp(n, low, high) == IF n < low THEN low ELSE IF n > high THEN high ELSE n

sanitize_without_limits(c) ==
    [c EXCEPT !.font = Clamp(@, MinFontSize, MaxFontSize),
              !.label = @ % ColorMask, !.value = @ % ColorMask]

sanitize_config(c) ==
    [corner |-> IF c.corner \in Corners THEN c.corner ELSE "bottom_left",
     font   |-> Clamp(c.font, MinFontSize, MaxFontSize),
     mx     |-> IF c.mx = Junk THEN Default.mx ELSE Clamp(c.mx, 0, MaxMargin),
     my     |-> IF c.my = Junk THEN Default.my ELSE Clamp(c.my, 0, MaxMargin),
     show   |-> c.show, label |-> c.label % ColorMask, value |-> c.value % ColorMask]

------------------------------------------------------------------------------
(***************************************************************************)
(* The form: all keys exactly once, every number in its range.             *)
(***************************************************************************)
integer(token, low, high) == token \in low .. high

FormIsValid(form) ==
    /\ form.complete
    /\ form.corner \in Corners
    /\ integer(form.font, MinFontSize, MaxFontSize)
    /\ integer(form.mx, 0, MaxMargin) /\ integer(form.my, 0, MaxMargin)
    /\ integer(form.show, 0, 1)
    /\ form.label \in 0 .. ColorMask - 1 /\ form.value \in 0 .. ColorMask - 1

parse_settings_form(form) ==
    [corner |-> form.corner, font |-> form.font, mx |-> form.mx, my |-> form.my,
     show |-> form.show # 0, label |-> form.label, value |-> form.value]

------------------------------------------------------------------------------
(***************************************************************************)
(* The file.  A key that is missing or unreadable keeps its default.       *)
(***************************************************************************)
serialize_config(c) ==
    [corner |-> c.corner, font |-> c.font, mx |-> c.mx, my |-> c.my,
     show |-> IF c.show THEN 1 ELSE 0,
     label |-> c.label % ColorMask, value |-> c.value % ColorMask]

parse_config_text(t) ==
    LET Number(token, default) == IF token = Junk THEN default ELSE token
    IN  sanitize_config(
          [corner |-> t.corner,
           font   |-> Clamp(Number(t.font, Default.font), MinFontSize, MaxFontSize),
           mx     |-> Number(t.mx, Default.mx), my |-> Number(t.my, Default.my),
           show   |-> IF t.show \in {0, 1} THEN t.show = 1 ELSE Default.show,
           label  |-> Number(t.label, Default.label), value |-> Number(t.value, Default.value)])

\* What is left of a text that was cut off: the keys after the cut are missing
\* and the number at the cut has lost its last digit.
Keys == <<"corner", "font", "mx", "my", "show", "label", "value">>
Truncated(t) ==
    {[k \in DOMAIN t |->
        LET place == CHOOSE i \in DOMAIN Keys : Keys[i] = k
        IN  IF place < cut THEN t[k]
            ELSE IF place > cut \/ k \notin {"font", "mx", "my"}
            THEN (IF k = "corner" THEN "junk" ELSE Junk)
            ELSE IF t[k] < 10 THEN Junk ELSE t[k] \div 10] : cut \in DOMAIN Keys}

------------------------------------------------------------------------------
(***************************************************************************)
(* The wire packet.                                                        *)
(***************************************************************************)
CornerCode == [top_left |-> 0, top_right |-> 1, bottom_left |-> 2, bottom_right |-> 3]

decode_corner_swapped(code) ==
    IF code = 0 THEN "top_left" ELSE IF code = 1 THEN "top_right"
    ELSE IF code = 2 THEN "bottom_right" ELSE "bottom_left"

decode_corner(code) ==
    IF code = 0 THEN "top_left" ELSE IF code = 1 THEN "top_right"
    ELSE IF code = 3 THEN "bottom_right" ELSE "bottom_left"

ValidRate(fps) == fps \in 0 .. MaxDisplayFps

make_wire_packet(frame) ==
    [fps     |-> IF ValidRate(frame.fps) THEN frame.fps ELSE 0,
     loading |-> IF frame.loading \/ ~ ValidRate(frame.fps) THEN 1 ELSE 0,
     corner  |-> CornerCode[frame.config.corner],
     font    |-> Clamp(frame.config.font, MinFontSize, MaxFontSize),
     mx      |-> frame.config.mx, my |-> frame.config.my,
     show    |-> IF frame.config.show THEN 1 ELSE 0,
     label   |-> frame.config.label % ColorMask, value |-> frame.config.value % ColorMask]

decode_wire_packet(p) ==
    [fps     |-> IF ValidRate(p.fps) THEN p.fps ELSE 0,
     loading |-> p.loading # 0 \/ ~ ValidRate(p.fps),
     config  |-> sanitize_config(
        [corner |-> decode_corner(p.corner), font |-> Clamp(p.font, MinFontSize, MaxFontSize),
         mx |-> IF p.mx < 0 THEN 0 ELSE p.mx, my |-> IF p.my < 0 THEN 0 ELSE p.my,
         show |-> p.show # 0, label |-> p.label, value |-> p.value])]

------------------------------------------------------------------------------
(***************************************************************************)
(* The layout on the logical screen of 1920 by 1080.                       *)
(***************************************************************************)
Width == 20 * 1920
Height == 20 * 1080
Least(a, b) == IF a < b THEN a ELSE b
Largest(a, b) == IF a < b THEN b ELSE a

layout_of_number(input, loading) ==
    LET c == sanitize_config(input)
        advance == IF c.show THEN 54 * c.font ELSE 0
        number == advance + 50 * c.font
    IN  [font |-> c.font, advance |-> advance,
         width |-> advance + c.font * (IF loading THEN 90 ELSE 50), height |-> 29 * c.font,
         x |-> IF c.corner \in {"top_right", "bottom_right"}
               THEN Width - number - 20 * c.mx ELSE 20 * c.mx,
         y |-> IF c.corner \in {"top_left", "top_right"} THEN 20 * c.my
               ELSE Height - 29 * c.font - 20 * c.my]

compute_layout(input, loading) ==
    LET c == sanitize_config(input)
        advance == IF c.show THEN 54 * c.font ELSE 0
        width == advance + c.font * (IF loading THEN 90 ELSE 50)
        height == 29 * c.font
        left == Least(20 * c.mx, Width - width)
        top == Least(20 * c.my, Height - height)
        right == Largest(0, Width - width - left)
        bottom == Largest(0, Height - height - top)
    IN  [font |-> c.font, advance |-> advance, width |-> width, height |-> height,
         x |-> IF c.corner \in {"top_right", "bottom_right"} THEN right ELSE left,
         y |-> IF c.corner \in {"top_left", "top_right"} THEN top ELSE bottom]
=============================================================================
