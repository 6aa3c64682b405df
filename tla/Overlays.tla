------------------------------ MODULE Overlays ------------------------------
(***************************************************************************)
(* What a session window draws over the desktop, and where it answers the  *)
(* pointer: the connection bar (session/src/bar.rs) and the close dialog   *)
(* (session/src/modal.rs), in windows of any size and with any texts.      *)
(*                                                                         *)
(* Every operation of drawing.rs writes the pixels of a box without a look *)
(* at the buffer, so a box outside of the window is a panic, and one       *)
(* outside of what redraw takes for the overlay's area stays on screen.    *)
(* Coordinates are integers: a negative one is an underflow of the code's  *)
(* unsigned ones. Texts are the widths of their built-in glyphs.           *)
(***************************************************************************)
EXTENDS Integers

CONSTANTS
  Sizes,     (* sizes of the window                                        *)
  Titles,    (* widths of the computer's name                              *)
  Labels,    (* widths of the transport's label, 0 as long as there is none*)
  Points,    (* where the pointer may be, inside the window or not         *)
  Nothing    (* the pointer is over nothing of the overlay                 *)

ASSUME OverlaysAssumption ==
  /\ Sizes \subseteq [width : Nat, height : Nat]
  /\ Titles \subseteq Nat /\ Labels \subseteq Nat
  /\ Points \subseteq [x : Int, y : Int]
  /\ Nothing \notin {"Pin", "Restore", "Close", "Body", "Disconnect", "Cancel"}

VARIABLES
  size,       (* of the window                                             *)
  title,      (* the computer's name                                       *)
  transport,  (* the label of the transport                                *)
  pinned,     (* the bar stays                                             *)
  hover,      (* the part of the bar the pointer was seen over             *)
  asked,      (* the close dialog is up                                    *)
  pointer     (* where the pointer was last seen                           *)

overlayVars == <<size, title, transport, pinned, hover, asked, pointer>>
-----------------------------------------------------------------------------
(* Boxes of pixels, the right and the lower edge excluded.                 *)
Area(x0, y0, x1, y1) == [x0 |-> x0, y0 |-> y0, x1 |-> x1, y1 |-> y1]
Filled(x, y, w, h) == Area(x, y, x + w, y + h)
Outline(x, y, w, h) ==
  {Filled(x, y, w, 1), Filled(x, y + h - 1, w, 1), Filled(x, y, 1, h), Filled(x + w - 1, y, 1, h)}

Within(b, c) == c.x0 <= b.x0 /\ b.x1 <= c.x1 /\ c.y0 <= b.y0 /\ b.y1 <= c.y1
Over(p, b) == b.x0 <= p.x /\ p.x < b.x1 /\ b.y0 <= p.y /\ p.y < b.y1
Inset(b, n) == Area(b.x0 + n, b.y0 + n, b.x1 - n, b.y1 - n)

(* rounded_fill clamps between the corners' centres, and clamp panics when *)
(* they are in the wrong order.                                            *)
Roomy(b, radius) == 2 * radius <= b.x1 - b.x0 /\ 2 * radius <= b.y1 - b.y0

Least(a, b) == IF a <= b THEN a ELSE b
SaturatingSub(a, b) == IF a <= b THEN 0 ELSE a - b

Window == Filled(0, 0, size.width, size.height)

(* The built-in glyphs: a text from its upper left corner, clipped on the  *)
(* right and at the bottom.                                                *)
BITMAP_HEIGHT == 14
Clipped(x, y, width, right, bottom) ==
  Area(x, y, Least(x + width, right), Least(y + BITMAP_HEIGHT, bottom))

(* draw_text: centred in a band of `height`, in a part of the window.      *)
Text(x, top, height, width, clip) ==
  Clipped(x, top + SaturatingSub(height, BITMAP_HEIGHT) \div 2, width, Least(clip, size.width), size.height)
-----------------------------------------------------------------------------
(* The connection bar.                                                     *)
HEIGHT == 32
MIN_HEIGHT == 16
BUTTON == 44
TEXT_PAD == 12
TEXT_GAP == 10
BUTTON_RADIUS == 4
BUTTON_INSET == 4

Label == IF transport = 0 THEN 0 ELSE TEXT_GAP + transport

rect ==
  LET width == Least(BUTTON + TEXT_PAD + title + Label + TEXT_PAD + 2 * BUTTON, size.width)
  IN Filled((size.width - width) \div 2, 0, width, Least(HEIGHT, size.height))

(* Seeded fault: the bar draws as soon as there is room for its hover.     *)
BarFitsLow == rect.x1 - rect.x0 >= 3 * BUTTON /\ rect.y1 - rect.y0 >= 2 * BUTTON_INSET
BarFits == rect.x1 - rect.x0 >= 3 * BUTTON /\ rect.y1 - rect.y0 >= MIN_HEIGHT

hit_at(p) ==
  IF ~BarFits \/ ~Over(p, rect) THEN Nothing
  ELSE IF p.x < rect.x0 + BUTTON THEN "Pin"
  ELSE IF p.x >= rect.x1 - BUTTON THEN "Close"
  ELSE IF p.x >= rect.x1 - 2 * BUTTON THEN "Restore"
  ELSE "Body"

Cell(part) ==
  CASE part = "Pin" -> Area(rect.x0, rect.y0, rect.x0 + BUTTON, rect.y1)
    [] part = "Restore" -> Area(rect.x1 - 2 * BUTTON, rect.y0, rect.x1 - BUTTON, rect.y1)
    [] part = "Close" -> Area(rect.x1 - BUTTON, rect.y0, rect.x1, rect.y1)

BarButtons == {"Pin", "Restore", "Close"}
HoverFill == {Inset(Cell(part), BUTTON_INSET) : part \in {hover} \cap BarButtons}

DrawPin(cx, cy) ==
  IF pinned
  THEN {Filled(cx - 4, cy - 8, 9, 5), Filled(cx - 2, cy - 3, 5, 3),
        Filled(cx - 6, cy, 13, 1), Filled(cx, cy + 1, 1, 6)}
  ELSE {Filled(cx - 8, cy, 6, 1), Filled(cx - 2, cy - 6, 1, 13),
        Filled(cx - 1, cy - 2, 3, 5), Filled(cx + 2, cy - 4, 5, 9)}

DrawRestore(cx, cy) ==
  Outline(cx - 2, cy - 6, 9, 9) \cup Outline(cx - 5, cy - 3, 9, 9) \cup {Filled(cx - 5, cy - 3, 9, 9)}

DrawClose(cx, cy) ==
  {Filled(cx - 5 + i, cy - 5 + i, 1, 1) : i \in 0 .. 9}
    \cup {Filled(cx + 4 - i, cy - 5 + i, 1, 1) : i \in 0 .. 9}

BarTexts ==
  LET start == rect.x0 + BUTTON + TEXT_PAD
      height == rect.y1 - rect.y0
  IN {Text(start, rect.y0, height, title, size.width)}
       \cup IF transport = 0 THEN {}
            ELSE {Text(start + title + TEXT_GAP, rect.y0, height, transport, size.width)}

(* paint                                                                   *)
BarDrawn ==
  LET cy == rect.y0 + (rect.y1 - rect.y0) \div 2
  IN IF ~BarFits THEN {}
     ELSE {rect} \cup HoverFill
            \cup DrawPin(rect.x0 + BUTTON \div 2, cy)
            \cup DrawRestore(rect.x1 - BUTTON - BUTTON \div 2, cy)
            \cup DrawClose(rect.x1 - BUTTON \div 2, cy)
            \cup BarTexts
-----------------------------------------------------------------------------
(* The close dialog.                                                       *)
WIDTH == 440
BODY_HEIGHT == 118
FOOTER_HEIGHT == 62
PAD == 22
BUTTON_W == 118
BUTTON_H == 32
BUTTON_GAP == 8
RADIUS == 8

Answers == {"Disconnect", "Cancel"}

(* origin and bounds                                                       *)
Panel ==
  Filled(SaturatingSub(size.width, WIDTH) \div 2,
         SaturatingSub(size.height, BODY_HEIGHT + FOOTER_HEIGHT) \div 2,
         WIDTH, BODY_HEIGHT + FOOTER_HEIGHT)

fits == size.width >= WIDTH + 8 /\ size.height >= BODY_HEIGHT + FOOTER_HEIGHT + 8

Button(choice) ==
  LET cancel == Panel.x0 + WIDTH - PAD - BUTTON_W
      left == IF choice = "Cancel" THEN cancel ELSE cancel - BUTTON_GAP - BUTTON_W
  IN Filled(left, Panel.y0 + BODY_HEIGHT + (FOOTER_HEIGHT - BUTTON_H) \div 2, BUTTON_W, BUTTON_H)

(* A point left of the window or above it counts as one on its edge.       *)
hit(p) ==
  LET q == [x |-> SaturatingSub(p.x, 0), y |-> SaturatingSub(p.y, 0)]
  IN IF ~fits THEN Nothing
     ELSE IF Over(q, Button("Disconnect")) THEN "Disconnect"
     ELSE IF Over(q, Button("Cancel")) THEN "Cancel"
     ELSE Nothing

Footer == Filled(Panel.x0, Panel.y0 + BODY_HEIGHT + 1, WIDTH, FOOTER_HEIGHT - 1)

(* "Disconnect from ...?", the two sentences below it, and the labels.     *)
DialogTexts ==
  LET clip == Panel.x1 - PAD
      Sentence(top, height, width) == Text(Panel.x0 + PAD, Panel.y0 + top, height, width, clip)
      Caption(choice, width) ==
        LET b == Button(choice)
        IN Text(b.x0 + SaturatingSub(BUTTON_W, width) \div 2, b.y0, BUTTON_H, width, clip)
  IN {Sentence(18, 22, 204 + title), Sentence(52, 20, 612), Sentence(74, 20, 624),
      Caption("Disconnect", 120), Caption("Cancel", 72)}

(* paint                                                                   *)
DialogDrawn ==
  IF ~(asked /\ fits) THEN {}
  ELSE {Panel, Footer}
         \cup {Filled(Panel.x0, Panel.y0 + BODY_HEIGHT, WIDTH, 1),
               Filled(Panel.x0, Panel.y0 + BODY_HEIGHT + 1, WIDTH, RADIUS)}
         \cup Outline(Panel.x0, Panel.y0, WIDTH, BODY_HEIGHT + FOOTER_HEIGHT)
         \cup {Button(choice) : choice \in Answers}
         \cup Outline(Button("Cancel").x0, Button("Cancel").y0, BUTTON_W, BUTTON_H)
         \cup DialogTexts
-----------------------------------------------------------------------------
OverlaysInit ==
  /\ size \in Sizes /\ title \in Titles /\ transport = 0
  /\ pinned = TRUE /\ hover = Nothing
  /\ asked = FALSE /\ pointer \in Points

(* The window's size changes before the event that tells of it comes.      *)
WindowResizes ==
  /\ size' \in Sizes
  /\ UNCHANGED <<title, transport, pinned, hover, asked, pointer>>

Resized ==
  /\ asked' = (asked /\ fits)
  /\ UNCHANGED <<size, title, transport, pinned, hover, pointer>>

SetTransport ==
  /\ transport' \in Labels
  /\ UNCHANGED <<size, title, pinned, hover, asked, pointer>>

(* dialog_event comes first: the bar sees no motion while the dialog asks. *)
PointerMoved(p) ==
  /\ pointer' = p
  /\ hover' = IF asked THEN hover ELSE hit_at(p)
  /\ UNCHANGED <<size, title, transport, pinned, asked>>

ClickDialog ==
  /\ asked
  /\ asked' = (hit(pointer) = Nothing)
  /\ UNCHANGED <<size, title, transport, pinned, hover, pointer>>

(* Restore leaves full screen, where the bar begins anew.                  *)
ClickBar ==
  /\ ~asked
  /\ pinned' = IF hover = "Pin" THEN ~pinned ELSE pinned
  /\ hover' = IF hover = "Restore" THEN Nothing ELSE hover
  /\ asked' = (hover = "Close" /\ fits)
  /\ UNCHANGED <<size, title, transport, pointer>>

OverlaysNext == WindowResizes \/ Resized \/ SetTransport \/ (\E p \in Points : PointerMoved(p))
                  \/ ClickDialog \/ ClickBar
OverlaysSpec == OverlaysInit /\ [][OverlaysNext]_overlayVars
-----------------------------------------------------------------------------
OverlaysTypeOK ==
  /\ size \in [width : Nat, height : Nat] /\ title \in Nat /\ transport \in Nat
  /\ pinned \in BOOLEAN /\ asked \in BOOLEAN
  /\ hover \in {"Pin", "Restore", "Close", "Body", Nothing}
  /\ pointer \in [x : Int, y : Int]

(* In a window of any size, also one that shrank under an overlay, what is *)
(* drawn stays in the area that redraw takes for the overlay's and clears  *)
(* again when it goes, and that area in the window; and nothing is rounded *)
(* that is too small for its corners.                                      *)
DrawnInside ==
  /\ Within(rect, Window) /\ \A b \in BarDrawn : Within(b, rect)
  /\ fits => Within(Panel, Window)
  /\ \A b \in DialogDrawn : Within(b, Panel)
  /\ BarFits => \A b \in HoverFill : Roomy(b, BUTTON_RADIUS)
  /\ fits => Roomy(Panel, RADIUS) /\ Roomy(Footer, RADIUS) /\ \A c \in Answers : Roomy(Button(c), 4)

(* A button answers exactly where it is drawn, and not where an overlay    *)
(* without room would have drawn it.                                       *)
LiveWhereDrawn ==
  /\ \A part \in BarButtons : hit_at(pointer) = part <=> BarFits /\ Over(pointer, Cell(part))
  /\ \A c \in Answers : hit(pointer) = c <=> fits /\ Over(pointer, Button(c))

OverlaysRight == DrawnInside /\ LiveWhereDrawn
=============================================================================
