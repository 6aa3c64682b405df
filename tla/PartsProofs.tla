------------------------------ MODULE PartsProofs ------------------------------
(***************************************************************************)
(* Small parts, each proved by itself and for every value of its           *)
(* constants: the overlays' layout, the keyboard, the computer chosen in   *)
(* the box, the dates, and the keyring worker. Every section ends in the   *)
(* part's theorems.                                                        *)
(***************************************************************************)
EXTENDS Overlays, Keyboard, Selection, Dates, Keyring,
        FiniteSetTheorems, SequenceTheorems, WellFoundedInduction, TLAPS
-----------------------------------------------------------------------------
(* The layout: the bar and the close dialog stay inside the window and     *)
(* their own area, and answer where they are drawn, in windows and with    *)
(* texts of any size. All of it is a matter of the state's type: the proof *)
(* is the arithmetic of the layout, part by part.                          *)

(* Every variable keeps its type, whatever the window's size becomes.      *)
LEMMA HitTypes ==
  ASSUME NEW p
  PROVE /\ hit_at(p) \in {"Pin", "Restore", "Close", "Body", Nothing}
        /\ hit(p) \in Answers \cup {Nothing}
BY DEF hit_at, hit, Answers

(* The window's size, the texts' widths, what is under the pointer and     *)
(* what a click answered keep their types through every move and resize.   *)
LEMMA LayoutTyped == OverlaysSpec => []OverlaysTypeOK
<1>1. OverlaysInit => OverlaysTypeOK
  <2> SUFFICES ASSUME OverlaysInit PROVE OverlaysTypeOK
    OBVIOUS
  <2>1. size \in [width : Nat, height : Nat] /\ pointer \in [x : Int, y : Int]
    BY OverlaysAssumption DEF OverlaysInit
  <2>2. title \in Nat /\ transport \in Nat
    BY OverlaysAssumption DEF OverlaysInit
  <2> QED BY <2>1, <2>2 DEF OverlaysInit, OverlaysTypeOK
<1>2. OverlaysTypeOK /\ [OverlaysNext]_overlayVars => OverlaysTypeOK'
  <2> SUFFICES ASSUME OverlaysTypeOK, [OverlaysNext]_overlayVars
               PROVE  OverlaysTypeOK'
    OBVIOUS
  <2>1. CASE WindowResizes
    BY <2>1, OverlaysAssumption DEF OverlaysTypeOK, WindowResizes
  <2>2. CASE Resized
    BY <2>2 DEF OverlaysTypeOK, Resized, fits
  <2>3. CASE SetTransport
    BY <2>3, OverlaysAssumption DEF OverlaysTypeOK, SetTransport
  <2>4. CASE \E p \in Points : PointerMoved(p)
    <3> PICK p \in Points : PointerMoved(p)
      BY <2>4
    <3> QED BY HitTypes, OverlaysAssumption DEF OverlaysTypeOK, PointerMoved
  <2>5. CASE ClickDialog
    BY <2>5 DEF OverlaysTypeOK, ClickDialog
  <2>6. CASE ClickBar
    BY <2>6 DEF OverlaysTypeOK, ClickBar, fits
  <2>7. CASE UNCHANGED overlayVars
    BY <2>7 DEF OverlaysTypeOK, overlayVars
  <2> QED BY <2>1, <2>2, <2>3, <2>4, <2>5, <2>6, <2>7 DEF OverlaysNext
<1> QED BY <1>1, <1>2, PTL DEF OverlaysSpec
-----------------------------------------------------------------------------
(* The area of the bar is a part of the window, at its top; its edges.     *)
LEMMA RectInside ==
  ASSUME OverlaysTypeOK
  PROVE  /\ rect.x0 \in Nat /\ rect.x1 \in Nat /\ rect.y0 = 0 /\ rect.y1 \in Nat
         /\ rect.x0 <= rect.x1 /\ rect.x1 <= size.width /\ rect.y1 <= size.height
         /\ rect.x1 - rect.x0 = Least(BUTTON + TEXT_PAD + title + Label + TEXT_PAD + 2 * BUTTON, size.width)
         /\ Within(rect, Window)
<1> DEFINE want == BUTTON + TEXT_PAD + title + Label + TEXT_PAD + 2 * BUTTON
           width == Least(want, size.width)
           edge == (size.width - width) \div 2
<1>1. size.width \in Nat /\ size.height \in Nat /\ title \in Nat /\ Label \in Nat
  BY DEF OverlaysTypeOK, Label, TEXT_GAP
<1>2. want \in Nat
  BY <1>1 DEF BUTTON, TEXT_PAD
<1>3. width \in Nat /\ width <= size.width
  BY <1>1, <1>2 DEF Least
<1>4. edge \in Nat /\ edge + width <= size.width
  BY <1>1, <1>3
<1>5. Least(HEIGHT, size.height) \in Nat /\ Least(HEIGHT, size.height) <= size.height
  BY <1>1 DEF Least, HEIGHT
<1>6. /\ rect.x0 = edge /\ rect.x1 = edge + width
      /\ rect.y0 = 0 /\ rect.y1 = Least(HEIGHT, size.height)
  <2> HIDE DEF edge, width, want
  <2>1. rect = Filled(edge, 0, width, Least(HEIGHT, size.height))
    BY DEF rect, edge, width, want
  <2> QED BY <2>1, <1>3, <1>4, <1>5 DEF Filled, Area
<1> HIDE DEF edge, width
<1> QED
  <2>1. rect.x1 - rect.x0 = width
    BY <1>3, <1>4, <1>6
  <2>2. width = Least(BUTTON + TEXT_PAD + title + Label + TEXT_PAD + 2 * BUTTON, size.width)
    BY DEF width
  <2> QED BY <1>1, <1>3, <1>4, <1>5, <1>6, <2>1, <2>2 DEF Within, Window, Filled, Area
-----------------------------------------------------------------------------
(* Where drawn text ends: it is clipped on the right and at the bottom.    *)
LEMMA TextInside ==
  ASSUME OverlaysTypeOK, NEW x \in Nat, NEW top \in Nat, NEW height \in Nat, NEW width \in Nat, NEW clip \in Nat,
         NEW b, b = Text(x, top, height, width, clip)
  PROVE  /\ b.x0 \in Nat /\ b.x0 >= x
         /\ b.x1 \in Nat /\ b.x1 <= x + width /\ b.x1 <= clip /\ b.x1 <= size.width
         /\ b.y0 \in Nat /\ b.y0 >= top
         /\ b.y1 \in Nat /\ b.y1 <= top + SaturatingSub(height, BITMAP_HEIGHT) \div 2 + BITMAP_HEIGHT
<1> DEFINE y == top + SaturatingSub(height, BITMAP_HEIGHT) \div 2
           x1 == Least(x + width, Least(clip, size.width))
           y1 == Least(y + BITMAP_HEIGHT, size.height)
<1>1. size.width \in Nat /\ size.height \in Nat
  BY DEF OverlaysTypeOK
<1>2. y \in Nat /\ y >= top
  BY DEF SaturatingSub, BITMAP_HEIGHT
<1>3. x1 \in Nat /\ x1 <= x + width /\ x1 <= clip /\ x1 <= size.width
  BY <1>1 DEF Least
<1>4. y1 \in Nat /\ y1 <= y + BITMAP_HEIGHT /\ y1 <= size.height
  <2> HIDE DEF y
  <2> QED BY <1>1, <1>2 DEF Least, BITMAP_HEIGHT
<1>5. b = [x0 |-> x, y0 |-> y, x1 |-> x1, y1 |-> y1]
  BY DEF Text, Clipped, Area
<1> HIDE DEF y, x1, y1
<1>6. y = top + SaturatingSub(height, BITMAP_HEIGHT) \div 2
  BY DEF y
<1> QED BY <1>2, <1>3, <1>4, <1>5, <1>6

(* Half the bar's height leaves room for the icons above and below.        *)
LEMMA BarMiddle ==
  ASSUME OverlaysTypeOK, BarFits
  PROVE  LET cy == rect.y0 + (rect.y1 - rect.y0) \div 2
         IN cy \in Nat /\ cy >= 8 /\ cy + 8 <= rect.y1
<1>1. rect.y0 = 0 /\ rect.y1 \in Nat /\ rect.y1 >= 16
  BY RectInside DEF BarFits, MIN_HEIGHT
<1>2. ASSUME NEW n \in Nat, n >= 16
      PROVE  0 + (n - 0) \div 2 \in Nat /\ 0 + (n - 0) \div 2 >= 8 /\ 0 + (n - 0) \div 2 + 8 <= n
  BY <1>2
<1> QED BY <1>1, <1>2

(* The icons stay on their buttons, eight pixels around their centres.     *)
LEMMA IconsNear ==
  ASSUME NEW cx \in Int, NEW cy \in Int,
         NEW b \in DrawPin(cx, cy) \cup DrawRestore(cx, cy) \cup DrawClose(cx, cy)
  PROVE  /\ b.x0 \in Int /\ b.x1 \in Int /\ b.y0 \in Int /\ b.y1 \in Int
         /\ cx - 8 <= b.x0 /\ b.x1 <= cx + 8 /\ cy - 8 <= b.y0 /\ b.y1 <= cy + 8
<1>1. CASE b \in DrawPin(cx, cy)
  <2>1. CASE pinned
    BY <1>1, <2>1 DEF DrawPin, Filled, Area
  <2>2. CASE ~pinned
    BY <1>1, <2>2 DEF DrawPin, Filled, Area
  <2> QED BY <2>1, <2>2
<1>2. CASE b \in DrawRestore(cx, cy)
  BY <1>2 DEF DrawRestore, Outline, Filled, Area
<1>3. CASE b \in DrawClose(cx, cy)
  <2>1. CASE \E i \in 0 .. 9 : b = Filled(cx - 5 + i, cy - 5 + i, 1, 1)
    BY <2>1 DEF Filled, Area
  <2>2. CASE \E i \in 0 .. 9 : b = Filled(cx + 4 - i, cy - 5 + i, 1, 1)
    BY <2>2 DEF Filled, Area
  <2> QED BY <1>3, <2>1, <2>2 DEF DrawClose
<1> QED BY <1>1, <1>2, <1>3

(* The bar's texts stay in it: where its width is cut to the window's, it  *)
(* ends where the window does, and so do they.                             *)
LEMMA BarTextsInside ==
  ASSUME OverlaysTypeOK, BarFits, NEW b \in BarTexts
  PROVE  Within(b, rect)
<1> DEFINE start == rect.x0 + BUTTON + TEXT_PAD
           height == rect.y1 - rect.y0
           above == rect.y0 + SaturatingSub(height, BITMAP_HEIGHT) \div 2
<1>1. /\ rect.x0 \in Nat /\ rect.x1 \in Nat /\ rect.y0 = 0 /\ rect.y1 \in Nat
      /\ rect.y1 >= 16 /\ rect.x1 <= size.width /\ rect.y1 <= size.height
      /\ size.width \in Nat /\ title \in Nat /\ transport \in Nat
  BY RectInside DEF BarFits, MIN_HEIGHT, OverlaysTypeOK
<1>2. start \in Nat /\ start >= rect.x0 /\ height \in Nat
  BY <1>1 DEF BUTTON, TEXT_PAD
<1>3. above \in Nat /\ above >= rect.y0 /\ above + BITMAP_HEIGHT <= rect.y1
  <2>1. ASSUME NEW n \in Nat, n >= 16
        PROVE  LET y == 0 + SaturatingSub(n - 0, BITMAP_HEIGHT) \div 2
               IN y \in Nat /\ y >= 0 /\ y + BITMAP_HEIGHT <= n
    BY <2>1 DEF SaturatingSub, BITMAP_HEIGHT
  <2> QED BY <1>1, <2>1
<1>4. ASSUME NEW x \in Nat, NEW width \in Nat, x >= rect.x0,
             x + width <= rect.x1 \/ size.width <= rect.x1
      PROVE  Within(Text(x, rect.y0, height, width, size.width), rect)
  <2> HIDE DEF height
  <2> SUFFICES ASSUME NEW t, t = Text(x, rect.y0, height, width, size.width)
               PROVE  Within(t, rect)
    OBVIOUS
  <2>1. rect.y0 \in Nat /\ size.width \in Nat /\ height \in Nat
    BY <1>1, <1>2
  <2>2. /\ t.x0 \in Nat /\ t.x0 >= x /\ t.x1 \in Nat /\ t.x1 <= x + width /\ t.x1 <= size.width
        /\ t.y0 \in Nat /\ t.y0 >= rect.y0
        /\ t.y1 \in Nat /\ t.y1 <= above + BITMAP_HEIGHT
    BY <2>1, TextInside
  <2> HIDE DEF above
  <2>3. t.y0 >= rect.y0 /\ t.y1 <= rect.y1
    BY <1>1, <1>3, <2>2 DEF BITMAP_HEIGHT
  <2>4. t.x0 >= rect.x0 /\ t.x1 <= rect.x1
    BY <1>1, <1>4, <2>2
  <2> QED BY <2>3, <2>4 DEF Within
<1>5. \/ size.width <= rect.x1
      \/ /\ start + title <= rect.x1
         /\ transport # 0 => start + title + TEXT_GAP + transport <= rect.x1
  BY <1>1, RectInside DEF Least, Label, BUTTON, TEXT_PAD, TEXT_GAP
<1> HIDE DEF start, height, above
<1>6. CASE b = Text(start, rect.y0, height, title, size.width)
  BY <1>1, <1>2, <1>4, <1>5, <1>6
<1>7. CASE transport # 0 /\ b = Text(start + title + TEXT_GAP, rect.y0, height, transport, size.width)
  <2>1. start + title + TEXT_GAP \in Nat /\ start + title + TEXT_GAP >= rect.x0
    BY <1>1, <1>2 DEF TEXT_GAP
  <2>2. start + title + TEXT_GAP + transport <= rect.x1 \/ size.width <= rect.x1
    BY <1>5, <1>7
  <2> QED BY <1>1, <1>4, <1>7, <2>1, <2>2
<1> QED BY <1>6, <1>7 DEF BarTexts, start, height

(* Nothing of the bar is drawn outside of its area.                        *)
LEMMA BarInside ==
  ASSUME OverlaysTypeOK
  PROVE  \A b \in BarDrawn : Within(b, rect)
<1> SUFFICES ASSUME BarFits, NEW b \in BarDrawn
             PROVE  Within(b, rect)
  BY DEF BarDrawn
<1> DEFINE cy == rect.y0 + (rect.y1 - rect.y0) \div 2
           pin == rect.x0 + BUTTON \div 2
           restore == rect.x1 - BUTTON - BUTTON \div 2
           close == rect.x1 - BUTTON \div 2
           icons == DrawPin(pin, cy) \cup DrawRestore(restore, cy) \cup DrawClose(close, cy)
<1>1. /\ rect.x0 \in Nat /\ rect.x1 \in Nat /\ rect.y0 = 0 /\ rect.y1 \in Nat
      /\ rect.x1 - rect.x0 >= 132 /\ rect.y1 >= 16
  BY RectInside DEF BarFits, MIN_HEIGHT, BUTTON
<1>2. /\ BUTTON \div 2 = 22 /\ pin \in Int /\ restore \in Int /\ close \in Int
      /\ pin >= rect.x0 + 8 /\ pin + 8 <= rect.x1
      /\ restore >= rect.x0 + 8 /\ restore + 8 <= rect.x1
      /\ close >= rect.x0 + 8 /\ close + 8 <= rect.x1
  BY <1>1 DEF BUTTON
<1>3. cy \in Nat /\ cy >= 8 /\ cy + 8 <= rect.y1
  BY BarMiddle
<1> HIDE DEF cy, pin, restore, close
<1>4. ASSUME NEW cx \in Int, cx >= rect.x0 + 8, cx + 8 <= rect.x1,
             b \in DrawPin(cx, cy) \cup DrawRestore(cx, cy) \cup DrawClose(cx, cy)
      PROVE  Within(b, rect)
  <2>1. /\ b.x0 \in Int /\ b.x1 \in Int /\ b.y0 \in Int /\ b.y1 \in Int
        /\ cx - 8 <= b.x0 /\ b.x1 <= cx + 8 /\ cy - 8 <= b.y0 /\ b.y1 <= cy + 8
    BY <1>3, <1>4, IconsNear
  <2> QED BY <1>1, <1>3, <1>4, <2>1 DEF Within
<1>5. CASE b = rect
  BY <1>1, <1>5 DEF Within
<1>6. CASE b \in HoverFill
  <2> PICK part \in BarButtons : b = Inset(Cell(part), BUTTON_INSET)
    BY <1>6 DEF HoverFill
  <2>1. part = "Pin" \/ part = "Restore" \/ part = "Close"
    BY DEF BarButtons
  <2> QED BY <1>1, <2>1 DEF Cell, Area, Inset, BUTTON, BUTTON_INSET, Within
<1>7. CASE b \in icons
  BY <1>2, <1>4, <1>7
<1>8. CASE b \in BarTexts
  BY <1>8, BarTextsInside
<1> QED BY <1>5, <1>6, <1>7, <1>8 DEF BarDrawn, icons, cy, pin, restore, close

(* The hover's fill has room for its corners: 36 pixels by 8 at the least. *)
LEMMA HoverRoomy ==
  ASSUME OverlaysTypeOK, BarFits, NEW b \in HoverFill
  PROVE  Roomy(b, BUTTON_RADIUS)
<1>1. /\ rect.x0 \in Nat /\ rect.x1 \in Nat /\ rect.y0 = 0 /\ rect.y1 \in Nat
      /\ rect.x1 - rect.x0 >= 132 /\ rect.y1 >= 16
  BY RectInside DEF BarFits, MIN_HEIGHT, BUTTON
<1> PICK part \in BarButtons : b = Inset(Cell(part), BUTTON_INSET)
  BY DEF HoverFill
<1>2. part = "Pin" \/ part = "Restore" \/ part = "Close"
  BY DEF BarButtons
<1> QED BY <1>1, <1>2 DEF Cell, Area, Inset, BUTTON, BUTTON_INSET, BUTTON_RADIUS, Roomy
-----------------------------------------------------------------------------
(* Where the dialog fits, its panel is inside the window, off its edges.   *)
LEMMA PanelInside ==
  ASSUME OverlaysTypeOK, fits
  PROVE  /\ Panel.x0 \in Nat /\ Panel.y0 \in Nat /\ Panel.x0 >= 4 /\ Panel.y0 >= 4
         /\ Panel.x1 = Panel.x0 + 440 /\ Panel.y1 = Panel.y0 + 180
         /\ Panel.x1 <= size.width /\ Panel.y1 <= size.height
         /\ Within(Panel, Window)
<1> DEFINE edge == SaturatingSub(size.width, 440) \div 2
           top == SaturatingSub(size.height, 180) \div 2
<1>1. size.width \in Nat /\ size.height \in Nat /\ size.width >= 448 /\ size.height >= 188
  BY DEF OverlaysTypeOK, fits, WIDTH, BODY_HEIGHT, FOOTER_HEIGHT
<1>2. edge \in Nat /\ edge >= 4 /\ edge + 440 <= size.width
  BY <1>1 DEF SaturatingSub
<1>3. top \in Nat /\ top >= 4 /\ top + 180 <= size.height
  BY <1>1 DEF SaturatingSub
<1>4. Panel = Filled(edge, top, 440, 180)
  BY DEF Panel, WIDTH, BODY_HEIGHT, FOOTER_HEIGHT
<1> HIDE DEF edge, top
<1> QED BY <1>1, <1>2, <1>3, <1>4 DEF Filled, Area, Within, Window

(* The dialog's buttons are on the lower strip of the panel, side by side. *)
LEMMA ButtonFields ==
  ASSUME OverlaysTypeOK, fits
  PROVE  /\ Button("Disconnect") = Area(Panel.x0 + 174, Panel.y0 + 133, Panel.x0 + 292, Panel.y0 + 165)
         /\ Button("Cancel") = Area(Panel.x0 + 300, Panel.y0 + 133, Panel.x0 + 418, Panel.y0 + 165)
<1>1. Panel.x0 \in Nat /\ Panel.y0 \in Nat
  BY PanelInside
<1> QED BY <1>1 DEF Button, Filled, Area, WIDTH, PAD, BUTTON_W, BUTTON_H, BUTTON_GAP, BODY_HEIGHT, FOOTER_HEIGHT

(* The dialog's texts stay in its panel.                                   *)
LEMMA DialogTextsInside ==
  ASSUME OverlaysTypeOK, fits, NEW b \in DialogTexts
  PROVE  Within(b, Panel)
<1> DEFINE clip == Panel.x1 - PAD
<1>1. /\ Panel.x0 \in Nat /\ Panel.y0 \in Nat /\ Panel.x1 = Panel.x0 + 440 /\ Panel.y1 = Panel.y0 + 180
      /\ clip \in Nat /\ clip <= Panel.x1 /\ title \in Nat
  BY PanelInside DEF PAD, OverlaysTypeOK
<1> HIDE DEF clip
<1>2. ASSUME NEW x \in Nat, NEW top \in Nat, NEW height \in Nat, NEW width \in Nat,
             x >= Panel.x0, top >= Panel.y0,
             top + SaturatingSub(height, BITMAP_HEIGHT) \div 2 + 14 <= Panel.y1
      PROVE  Within(Text(x, top, height, width, clip), Panel)
  <2> SUFFICES ASSUME NEW t, t = Text(x, top, height, width, clip)
               PROVE  Within(t, Panel)
    OBVIOUS
  <2>1. clip \in Nat
    BY <1>1
  <2>2. /\ t.x0 \in Nat /\ t.x0 >= x /\ t.x1 \in Nat /\ t.x1 <= clip
        /\ t.y0 \in Nat /\ t.y0 >= top
        /\ t.y1 \in Nat /\ t.y1 <= top + SaturatingSub(height, BITMAP_HEIGHT) \div 2 + BITMAP_HEIGHT
    BY <2>1, TextInside
  <2>3. top + SaturatingSub(height, BITMAP_HEIGHT) \div 2 + BITMAP_HEIGHT \in Nat
    BY DEF SaturatingSub, BITMAP_HEIGHT
  <2>4. t.y1 <= Panel.y1
    BY <1>1, <1>2, <2>2, <2>3 DEF BITMAP_HEIGHT
  <2> QED BY <1>1, <1>2, <2>2, <2>4 DEF Within
<1>3. CASE b = Text(Panel.x0 + PAD, Panel.y0 + 18, 22, 204 + title, clip)
  <2>1. Panel.x0 + PAD \in Nat /\ Panel.x0 + PAD >= Panel.x0 /\ Panel.y0 + 18 \in Nat /\ Panel.y0 + 18 >= Panel.y0 /\ 204 + title \in Nat
    BY <1>1 DEF PAD
  <2>2. Panel.y0 + 18 + SaturatingSub(22, BITMAP_HEIGHT) \div 2 + 14 <= Panel.y1
    BY <1>1 DEF SaturatingSub, BITMAP_HEIGHT
  <2>3. Within(Text(Panel.x0 + PAD, Panel.y0 + 18, 22, 204 + title, clip), Panel)
    BY <1>2, <2>1, <2>2
  <2> QED BY <1>3, <2>3
<1>4. CASE b = Text(Panel.x0 + PAD, Panel.y0 + 52, 20, 612, clip)
  <2>1. Panel.x0 + PAD \in Nat /\ Panel.x0 + PAD >= Panel.x0 /\ Panel.y0 + 52 \in Nat /\ Panel.y0 + 52 >= Panel.y0 /\ 612 \in Nat
    BY <1>1 DEF PAD
  <2>2. Panel.y0 + 52 + SaturatingSub(20, BITMAP_HEIGHT) \div 2 + 14 <= Panel.y1
    BY <1>1 DEF SaturatingSub, BITMAP_HEIGHT
  <2>3. Within(Text(Panel.x0 + PAD, Panel.y0 + 52, 20, 612, clip), Panel)
    BY <1>2, <2>1, <2>2
  <2> QED BY <1>4, <2>3
<1>5. CASE b = Text(Panel.x0 + PAD, Panel.y0 + 74, 20, 624, clip)
  <2>1. Panel.x0 + PAD \in Nat /\ Panel.x0 + PAD >= Panel.x0 /\ Panel.y0 + 74 \in Nat /\ Panel.y0 + 74 >= Panel.y0 /\ 624 \in Nat
    BY <1>1 DEF PAD
  <2>2. Panel.y0 + 74 + SaturatingSub(20, BITMAP_HEIGHT) \div 2 + 14 <= Panel.y1
    BY <1>1 DEF SaturatingSub, BITMAP_HEIGHT
  <2>3. Within(Text(Panel.x0 + PAD, Panel.y0 + 74, 20, 624, clip), Panel)
    BY <1>2, <2>1, <2>2
  <2> QED BY <1>5, <2>3
<1>6. CASE b = Text(Button("Disconnect").x0 + SaturatingSub(BUTTON_W, 120) \div 2,
                    Button("Disconnect").y0, BUTTON_H, 120, clip)
  <2>4. b = Text(Panel.x0 + 174, Panel.y0 + 133, 32, 120, clip)
    BY <1>1, <1>6, ButtonFields DEF Area, SaturatingSub, BUTTON_W, BUTTON_H
  <2>1. Panel.x0 + 174 \in Nat /\ Panel.x0 + 174 >= Panel.x0 /\ Panel.y0 + 133 \in Nat /\ Panel.y0 + 133 >= Panel.y0 /\ 120 \in Nat
    BY <1>1 DEF PAD
  <2>2. Panel.y0 + 133 + SaturatingSub(32, BITMAP_HEIGHT) \div 2 + 14 <= Panel.y1
    BY <1>1 DEF SaturatingSub, BITMAP_HEIGHT
  <2>3. Within(Text(Panel.x0 + 174, Panel.y0 + 133, 32, 120, clip), Panel)
    BY <1>2, <2>1, <2>2
  <2> QED BY <2>4, <2>3
<1>7. CASE b = Text(Button("Cancel").x0 + SaturatingSub(BUTTON_W, 72) \div 2,
                    Button("Cancel").y0, BUTTON_H, 72, clip)
  <2>4. b = Text(Panel.x0 + 323, Panel.y0 + 133, 32, 72, clip)
    BY <1>1, <1>7, ButtonFields DEF Area, SaturatingSub, BUTTON_W, BUTTON_H
  <2>1. Panel.x0 + 323 \in Nat /\ Panel.x0 + 323 >= Panel.x0 /\ Panel.y0 + 133 \in Nat /\ Panel.y0 + 133 >= Panel.y0 /\ 72 \in Nat
    BY <1>1 DEF PAD
  <2>2. Panel.y0 + 133 + SaturatingSub(32, BITMAP_HEIGHT) \div 2 + 14 <= Panel.y1
    BY <1>1 DEF SaturatingSub, BITMAP_HEIGHT
  <2>3. Within(Text(Panel.x0 + 323, Panel.y0 + 133, 32, 72, clip), Panel)
    BY <1>2, <2>1, <2>2
  <2> QED BY <2>4, <2>3
<1> QED BY <1>3, <1>4, <1>5, <1>6, <1>7 DEF DialogTexts, clip

(* Nothing of the dialog is drawn outside of its panel.                    *)
LEMMA DialogInside ==
  ASSUME OverlaysTypeOK
  PROVE  \A b \in DialogDrawn : Within(b, Panel)
<1> SUFFICES ASSUME fits, NEW b \in DialogDrawn
             PROVE  Within(b, Panel)
  BY DEF DialogDrawn
<1>1. /\ Panel.x0 \in Nat /\ Panel.y0 \in Nat /\ Panel.x1 = Panel.x0 + 440 /\ Panel.y1 = Panel.y0 + 180
  BY PanelInside
<1>2. CASE b \in {Panel, Footer}
  BY <1>1, <1>2 DEF Within, Footer, Filled, Area, BODY_HEIGHT, FOOTER_HEIGHT, WIDTH
<1>3. CASE b \in {Filled(Panel.x0, Panel.y0 + BODY_HEIGHT, WIDTH, 1),
                  Filled(Panel.x0, Panel.y0 + BODY_HEIGHT + 1, WIDTH, RADIUS)}
  BY <1>1, <1>3 DEF Within, Filled, Area, BODY_HEIGHT, WIDTH, RADIUS
<1>4. CASE b \in Outline(Panel.x0, Panel.y0, WIDTH, BODY_HEIGHT + FOOTER_HEIGHT)
  BY <1>1, <1>4 DEF Within, Outline, Filled, Area, BODY_HEIGHT, FOOTER_HEIGHT, WIDTH
<1>5. CASE b \in {Button(choice) : choice \in Answers}
  BY <1>1, <1>5, ButtonFields DEF Within, Area, Answers
<1>6. CASE b \in Outline(Button("Cancel").x0, Button("Cancel").y0, BUTTON_W, BUTTON_H)
  <2>1. Button("Cancel").x0 = Panel.x0 + 300 /\ Button("Cancel").y0 = Panel.y0 + 133
    BY ButtonFields DEF Area
  <2>2. b \in Outline(Panel.x0 + 300, Panel.y0 + 133, 118, 32)
    BY <1>6, <2>1 DEF BUTTON_W, BUTTON_H
  <2> QED BY <1>1, <2>2 DEF Within, Outline, Filled, Area
<1>7. CASE b \in DialogTexts
  BY <1>7, DialogTextsInside
<1> QED BY <1>2, <1>3, <1>4, <1>5, <1>6, <1>7 DEF DialogDrawn

(* All that the dialog rounds has room for its corners.                    *)
LEMMA DialogRoomy ==
  ASSUME OverlaysTypeOK, fits
  PROVE  Roomy(Panel, RADIUS) /\ Roomy(Footer, RADIUS) /\ \A c \in Answers : Roomy(Button(c), 4)
<1>1. /\ Panel.x0 \in Nat /\ Panel.y0 \in Nat /\ Panel.x1 = Panel.x0 + 440 /\ Panel.y1 = Panel.y0 + 180
  BY PanelInside
<1>2. Roomy(Panel, RADIUS) /\ Roomy(Footer, RADIUS)
  BY <1>1 DEF Roomy, Footer, Filled, Area, WIDTH, BODY_HEIGHT, FOOTER_HEIGHT, RADIUS
<1>3. \A c \in Answers : Roomy(Button(c), 4)
  BY <1>1, ButtonFields DEF Roomy, Area, Answers
<1> QED BY <1>2, <1>3
-----------------------------------------------------------------------------
(* The bar's buttons do not overlap and lie in its area.                   *)
LEMMA BarAnswers ==
  ASSUME OverlaysTypeOK, NEW part \in BarButtons
  PROVE  hit_at(pointer) = part <=> BarFits /\ Over(pointer, Cell(part))
<1>1. /\ rect.x0 \in Nat /\ rect.x1 \in Nat /\ rect.y0 = 0 /\ rect.y1 \in Nat
      /\ pointer.x \in Int /\ pointer.y \in Int
  BY RectInside DEF OverlaysTypeOK
<1>2. part # Nothing
  BY OverlaysAssumption DEF BarButtons
<1>3. CASE ~BarFits
  BY <1>2, <1>3 DEF hit_at
<1>4. CASE BarFits
  <2>1. rect.x1 - rect.x0 >= 132
    BY <1>4 DEF BarFits, BUTTON
  <2>2. CASE part = "Pin"
    BY <1>1, <1>2, <1>4, <2>1, <2>2 DEF hit_at, Over, Cell, Area, BUTTON
  <2>3. CASE part = "Restore"
    BY <1>1, <1>2, <1>4, <2>1, <2>3 DEF hit_at, Over, Cell, Area, BUTTON
  <2>4. CASE part = "Close"
    BY <1>1, <1>2, <1>4, <2>1, <2>4 DEF hit_at, Over, Cell, Area, BUTTON
  <2> QED BY <2>2, <2>3, <2>4 DEF BarButtons
<1> QED BY <1>3, <1>4

(* A point taken to the window's edge is on no button: they are off it.    *)
LEMMA DialogAnswers ==
  ASSUME OverlaysTypeOK, NEW c \in Answers
  PROVE  hit(pointer) = c <=> fits /\ Over(pointer, Button(c))
<1>1. c # Nothing
  BY OverlaysAssumption DEF Answers
<1>2. CASE ~fits
  BY <1>1, <1>2 DEF hit
<1>3. CASE fits
  <2> DEFINE q == [x |-> SaturatingSub(pointer.x, 0), y |-> SaturatingSub(pointer.y, 0)]
  <2>1. Panel.x0 \in Nat /\ Panel.y0 \in Nat /\ pointer.x \in Int /\ pointer.y \in Int
    BY <1>3, PanelInside DEF OverlaysTypeOK
  <2>2. /\ Over(q, Button("Disconnect")) <=> Over(pointer, Button("Disconnect"))
        /\ Over(q, Button("Cancel")) <=> Over(pointer, Button("Cancel"))
    BY <1>3, <2>1, ButtonFields DEF Over, Area, SaturatingSub
  <2>3. ~(Over(pointer, Button("Disconnect")) /\ Over(pointer, Button("Cancel")))
    BY <1>3, <2>1, ButtonFields DEF Over, Area
  <2>4. hit(pointer) = IF Over(q, Button("Disconnect")) THEN "Disconnect"
                       ELSE IF Over(q, Button("Cancel")) THEN "Cancel" ELSE Nothing
    BY <1>3 DEF hit
  <2> HIDE DEF q
  <2> QED BY <1>1, <1>3, <2>2, <2>3, <2>4 DEF Answers
<1> QED BY <1>2, <1>3

(* What the bar and the dialog draw stays inside, and their buttons answer *)
(* where they are drawn, in windows and with texts of every size.          *)
THEOREM OverlaysRightHolds == OverlaysSpec => []OverlaysRight
<1>1. ASSUME OverlaysTypeOK PROVE DrawnInside
  <2>1. Within(rect, Window)
    BY <1>1, RectInside
  <2>2. fits => Within(Panel, Window)
    BY <1>1, PanelInside
  <2> QED BY <1>1, <2>1, <2>2, BarInside, DialogInside, HoverRoomy, DialogRoomy DEF DrawnInside
<1>2. ASSUME OverlaysTypeOK PROVE LiveWhereDrawn
  BY <1>2, BarAnswers, DialogAnswers DEF LiveWhereDrawn
<1>3. OverlaysTypeOK => OverlaysRight
  BY <1>1, <1>2 DEF OverlaysRight
<1> QED BY <1>3, LayoutTyped, PTL
-----------------------------------------------------------------------------
(* The keyboard: what the remote desktop holds down is the keys held down  *)
(* here that make a sound there, each by its own code.                     *)

(* The keys the remote desktop should hold down, and their codes.          *)
Sounding == {key \in down : key \in Mapped /\ ~Silent(key)}
CodeOf(key) == MapKeyCode(key).code

KeyInv ==
  /\ IsFiniteSet(down)
  /\ remote = {CodeOf(key) : key \in Sounding}
  /\ unheard = {}

(* Codes are apart on every platform.                                      *)
LEMMA CodesApart ==
  ASSUME NEW one \in Mapped, NEW other \in Mapped, CodeOf(one) = CodeOf(other)
  PROVE  one = other
<1>1. \A key : CodeOf(key) = IF key \in Language /\ platform # "other" THEN Native(key) ELSE Codes[key]
  BY DEF CodeOf, MapKeyCode
<1>2. \A key \in Language : Native(key) \in LanguageCodes
  BY DEF Language, Native, LanguageCodes
<1>3. CASE platform = "other"
  BY <1>1, <1>3, KeyboardAssumption
<1>4. CASE platform # "other" /\ one \in Language /\ other \in Language
  <2>1. Native("Lang1") # Native("Lang2")
    BY DEF Native
  <2> QED BY <1>1, <1>4, <2>1 DEF Language
<1>5. CASE platform # "other" /\ (one \notin Language \/ other \notin Language)
  BY <1>1, <1>2, <1>5, KeyboardAssumption
<1> QED BY <1>3, <1>4, <1>5

(* A key reported only when it goes up is one of the silent ones.          *)
LEMMA ReleaseOnly ==
  ASSUME NEW key
  PROVE  MapKeyCode(key).release_only <=> Silent(key)
<1>1. MapKeyCode(key).release_only <=>
        key \in Language /\ platform # "other" /\ Native(key) \in {<<TRUE, 241>>, <<TRUE, 242>>}
  BY DEF MapKeyCode
<1>2. ASSUME key \in Language
      PROVE  Native(key) \in {<<TRUE, 241>>, <<TRUE, 242>>} <=> platform = "windows-korean"
  BY <1>2 DEF Language, Native
<1> QED BY <1>1, <1>2 DEF Silent

LEMMA KeyInvApart == KeyInv => KeysApart
<1> SUFFICES ASSUME KeyInv PROVE KeysApart
  OBVIOUS
<1>1. IsFiniteSet(Sounding) /\ Sounding \subseteq Mapped
  BY FS_Subset DEF KeyInv, Sounding
<1> DEFINE f == [key \in Sounding |-> CodeOf(key)]
<1>2. f \in Injection(Sounding, remote)
  <2>1. f \in [Sounding -> remote]
    BY DEF KeyInv
  <2>2. \A one, other \in Sounding : f[one] = f[other] => one = other
    BY <1>1, CodesApart
  <2> QED BY <2>1, <2>2 DEF Injection, IsInjective
<1>3. f \in Surjection(Sounding, remote)
  BY DEF KeyInv, Surjection
<1>4. Cardinality(remote) = Cardinality(Sounding)
  BY <1>1, <1>2, <1>3, FS_Surjection
<1> QED BY <1>4 DEF KeyInv, KeysApart, Sounding

LEMMA KeyDownKeeps ==
  ASSUME KeyInv, NEW key \in Keys, KeyDown(key)
  PROVE  KeyInv'
<1>1. IsFiniteSet(down')
  BY FS_AddElement DEF KeyInv, KeyDown
<1>2. \A k : Silent(k)' <=> Silent(k)
  BY DEF KeyDown, Silent
<1>3. \A k : CodeOf(k)' = CodeOf(k)
  BY DEF KeyDown, CodeOf, MapKeyCode, Native
<1>4. CASE key \in Mapped /\ ~Silent(key)
  <2>1. Sounding' = Sounding \cup {key} /\ remote' = remote \cup {CodeOf(key)}
    BY <1>2, <1>4 DEF KeyDown, Sounding, CodeOf
  <2> QED BY <1>1, <1>3, <2>1 DEF KeyInv, KeyDown
<1>5. CASE ~(key \in Mapped /\ ~Silent(key))
  <2>1. Sounding' = Sounding /\ remote' = remote
    BY <1>2, <1>5 DEF KeyDown, Sounding
  <2> QED BY <1>1, <1>3, <2>1 DEF KeyInv, KeyDown
<1> QED BY <1>4, <1>5

LEMMA KeyUpKeeps ==
  ASSUME KeyInv, NEW key \in Keys, KeyUp(key)
  PROVE  KeyInv'
<1>1. IsFiniteSet(down')
  BY FS_RemoveElement DEF KeyInv, KeyUp
<1>2. \A k : Silent(k)' <=> Silent(k)
  BY DEF KeyUp, Silent
<1>3. \A k : CodeOf(k)' = CodeOf(k)
  BY DEF KeyUp, CodeOf, MapKeyCode, Native
<1>4. CASE key \notin Mapped
  <2>1. Sounding' = Sounding /\ remote' = remote /\ unheard' = unheard
    BY <1>2, <1>4 DEF KeyUp, Sounding
  <2> QED BY <1>1, <1>3, <2>1 DEF KeyInv
<1>5. CASE key \in Mapped
  <2> DEFINE sent == IF Silent(key) THEN remote \cup {CodeOf(key)} ELSE remote
  <2>1. /\ remote' = sent \ {CodeOf(key)}
        /\ unheard' = IF CodeOf(key) \in sent THEN unheard ELSE unheard \cup {key}
    BY <1>5, ReleaseOnly DEF KeyUp, CodeOf
  <2>2. CodeOf(key) \in sent
    BY <1>5 DEF KeyInv, KeyUp, Sounding
  <2>3. Sounding' = Sounding \ {key}
    BY <1>2 DEF KeyUp, Sounding
  <2>4. remote' = {CodeOf(k) : k \in Sounding \ {key}}
    <3>1. \A k \in Sounding : CodeOf(k) = CodeOf(key) => k = key
      BY <1>5, CodesApart DEF Sounding
    <3>2. remote' = remote \ {CodeOf(key)}
      BY <2>1
    <3> QED BY <3>1, <3>2 DEF KeyInv
  <2>5. remote' = {CodeOf(k)' : k \in Sounding'}
    BY <1>3, <2>3, <2>4
  <2> QED BY <1>1, <2>1, <2>2, <2>5 DEF KeyInv
<1> QED BY <1>4, <1>5

(* On every platform, whatever keys go down and up, the remote desktop     *)
(* holds as many as the user, and hears every key that is used, as long as *)
(* the table gives no two keys one code (KeyboardAssumption, which TLC     *)
(* evaluates on the table of the code).                                    *)
THEOREM KeysApartHolds == KeySpec => []KeysApart
<1>1. KeyInit => KeyInv
  BY FS_EmptySet DEF KeyInit, KeyInv, Sounding
<1>2. KeyInv /\ [KeyNext]_keyVars => KeyInv'
  <2>1. ASSUME KeyInv, UNCHANGED keyVars PROVE KeyInv'
    BY <2>1 DEF keyVars, KeyInv, Sounding, Silent, CodeOf, MapKeyCode, Native
  <2> QED BY <2>1, KeyDownKeeps, KeyUpKeeps DEF KeyNext
<1> QED BY <1>1, <1>2, KeyInvApart, PTL DEF KeySpec
-----------------------------------------------------------------------------
(* Choosing a computer: no two have the same identifier, a text means the  *)
(* same computer as long as it is in the box, and the options shown differ *)
(* from the chosen computer's own only by what was edited since.           *)

Records == [id : Ids, name : Names, address : Addresses, options : SUBSET Options]

(* No two computers of a library have the same identifier.                 *)
IsLibrary(list) ==
  /\ list \in Seq(Records)
  /\ \A m, n \in DOMAIN list : list[m].id = list[n].id => m = n

(* The options shown differ from a chosen computer's by what was edited.   *)
Held(list, choice, opts, held) ==
  \A n \in DOMAIN list : choice = <<list[n].id>> => SymDiff(opts, list[n].options) \subseteq held

Picked ==
  picked # <<>> =>
    /\ chosen = picked
    /\ \E n \in DOMAIN computers : picked = <<computers[n].id>> /\ computer_box = computers[n].name

OptionsShown == options \in SUBSET Options /\ draft_options \in SUBSET Options

SelectionInv == IsLibrary(computers) /\ OptionsShown /\ OwnOptions /\ Picked
-----------------------------------------------------------------------------
LEMMA LibraryFacts ==
  ASSUME NEW list, IsLibrary(list)
  PROVE  /\ Len(list) \in Nat /\ DOMAIN list = 1 .. Len(list)
         /\ \A n \in DOMAIN list :
              /\ list[n] \in Records /\ n \in Nat
              /\ list[n].name # Empty /\ list[n].address # Empty
<1>1. list \in Seq(Records)
  BY DEF IsLibrary
<1>2. Len(list) \in Nat /\ DOMAIN list = 1 .. Len(list)
  BY <1>1, LenProperties
<1>3. ASSUME NEW n \in DOMAIN list
      PROVE  list[n] \in Records /\ n \in Nat /\ list[n].name # Empty /\ list[n].address # Empty
  <2>1. list[n] \in Records
    BY <1>1, <1>2, ElementOfSeq
  <2>2. list[n].name \in Names /\ list[n].address \in Addresses
    BY <2>1 DEF Records
  <2> QED BY <1>2, <2>1, <2>2, SelectionAssumption DEF Texts
<1> QED BY <1>2, <1>3

Less == OpToRel(<, Nat)

LEMMA LessWellFounded == IsWellFoundedOn(Less, Nat)
  BY NatLessThanWellFounded DEF Less

LEMMA InLess ==
  ASSUME NEW m \in Nat, NEW n \in Nat, m < n
  PROVE  <<m, n>> \in Less
  BY DEF Less, OpToRel

LEMMA MinFound ==
  ASSUME NEW found \in SUBSET Nat, found # {}
  PROVE  Min(found) \in found
<1>0. found \subseteq Nat
  OBVIOUS
<1>1. PICK x \in found : \A y \in found : <<y, x>> \notin Less
  BY <1>0, LessWellFounded, WFMin
<1>2. \A y \in found : x <= y
  <2>1. ASSUME NEW y \in found PROVE x <= y
    <3>1. x \in Nat /\ y \in Nat
      BY <1>0
    <3>2. ~(y < x)
      BY <1>1, <3>1, InLess
    <3> QED BY <3>1, <3>2
  <2> QED BY <2>1
<1> QED BY <1>2 DEF Min

LEMMA FirstFound ==
  ASSUME NEW list, IsLibrary(list), NEW found \in SUBSET DOMAIN list, found # {}
  PROVE  \E n \in found : First(list, found) = <<list[n]>>
<1>1. found \subseteq Nat
  BY LibraryFacts
<1>2. Min(found) \in found
  BY <1>1, MinFound
<1> QED BY <1>2 DEF First

LEMMA NamedInside ==
  ASSUME NEW list, NEW box
  PROVE  Named(list, box) \in SUBSET DOMAIN list
  BY DEF Named

(* What a text means: the chosen computer if it has that name, some other  *)
(* one of that name, or the only one that contains the text.               *)
LEMMA MatchCases ==
  ASSUME NEW list, IsLibrary(list), NEW box, NEW choice
  PROVE  /\ \A n \in Named(list, box) : choice = <<list[n].id>> => Match(list, box, choice) = <<list[n]>>
         /\ Named(list, box) # {} => \E n \in Named(list, box) : Match(list, box, choice) = <<list[n]>>
         /\ Named(list, box) = {} => Match(list, box, choice) = SoleMatch(list, box)
<1> DEFINE named == Named(list, box)
           kept == {n \in named : choice = <<list[n].id>>}
<1>0. named \in SUBSET DOMAIN list
  BY NamedInside
<1>m. Match(list, box, choice) =
        IF First(list, kept) # <<>> THEN First(list, kept)
        ELSE IF First(list, named) # <<>> THEN First(list, named) ELSE SoleMatch(list, box)
  BY DEF Match, ProfileByName
<1>e. First(list, {}) = <<>>
  BY DEF First
<1> HIDE DEF named
<1>1. ASSUME NEW n \in named, choice = <<list[n].id>>
      PROVE  Match(list, box, choice) = <<list[n]>>
  <2>1. \A k \in kept : k = n
    BY <1>0, <1>1 DEF IsLibrary
  <2>2. n \in kept
    BY <1>1
  <2> HIDE DEF kept
  <2>3. kept = {n}
    BY <2>1, <2>2
  <2>4. First(list, kept) = <<list[n]>>
    BY <1>0, <2>3, FirstFound
  <2> QED BY <1>m, <2>4
<1>2. ASSUME named # {}
      PROVE  \E n \in named : Match(list, box, choice) = <<list[n]>>
  <2>1. CASE kept # {}
    <3>1. PICK n \in kept : First(list, kept) = <<list[n]>>
      BY <1>0, <2>1, FirstFound
    <3>2. n \in named
      OBVIOUS
    <3> HIDE DEF kept
    <3> QED BY <1>m, <3>1, <3>2
  <2>2. CASE kept = {}
    <3>1. PICK n \in named : First(list, named) = <<list[n]>>
      BY <1>0, <1>2, FirstFound
    <3>2. First(list, kept) = <<>>
      BY <1>e, <2>2
    <3> QED BY <1>m, <3>1, <3>2
  <2> QED BY <2>1, <2>2
<1>3. ASSUME named = {}
      PROVE  Match(list, box, choice) = SoleMatch(list, box)
  <2>1. kept = {}
    BY <1>3
  <2> QED BY <1>e, <1>m, <1>3, <2>1
<1> QED BY <1>1, <1>2, <1>3 DEF named

LEMMA SoleFound ==
  ASSUME NEW list, IsLibrary(list), NEW box
  PROVE  SoleMatch(list, box) = <<>> \/ \E n \in DOMAIN list : SoleMatch(list, box) = <<list[n]>>
<1> DEFINE found == {n \in DOMAIN list :
                       <<list[n].name, box>> \in Includes \/ <<list[n].address, box>> \in Includes}
<1>1. SoleMatch(list, box) = <<>> \/ SoleMatch(list, box) = First(list, found)
  BY DEF SoleMatch
<1>2. found \in SUBSET DOMAIN list
  OBVIOUS
<1> HIDE DEF found
<1>3. CASE found = {}
  BY <1>1, <1>3 DEF First
<1>4. CASE found # {}
  BY <1>1, <1>2, <1>4, FirstFound
<1> QED BY <1>3, <1>4

LEMMA MatchFound ==
  ASSUME NEW list, IsLibrary(list), NEW box, NEW choice
  PROVE  Match(list, box, choice) = <<>> \/ \E n \in DOMAIN list : Match(list, box, choice) = <<list[n]>>
<1>1. CASE Named(list, box) = {}
  BY <1>1, MatchCases, SoleFound
<1>2. CASE Named(list, box) # {}
  BY <1>2, MatchCases, NamedInside
<1> QED BY <1>1, <1>2

(* A text means the same computer once that is the chosen one.             *)
LEMMA MatchAgain ==
  ASSUME NEW list, IsLibrary(list), NEW box, NEW choice
  PROVE  LET m == Match(list, box, choice) IN
         /\ m # <<>> => Match(list, box, <<m[1].id>>) = m
         /\ m = <<>> => Match(list, box, <<>>) = m
<1> DEFINE m == Match(list, box, choice)
<1>1. CASE Named(list, box) = {}
  BY <1>1, MatchCases
<1>2. CASE Named(list, box) # {}
  <2>1. PICK n \in Named(list, box) : m = <<list[n]>>
    BY <1>2, MatchCases
  <2>2. m # <<>> /\ m[1] = list[n]
    BY <2>1
  <2> HIDE DEF m
  <2>3. Match(list, box, <<list[n].id>>) = <<list[n]>>
    BY MatchCases
  <2> QED BY <2>1, <2>2, <2>3 DEF m
<1> QED BY <1>1, <1>2

LEMMA EmptyMeansNone ==
  ASSUME NEW list, IsLibrary(list), NEW choice
  PROVE  Match(list, Empty, choice) = <<>>
<1>1. Named(list, Empty) = {}
  BY LibraryFacts DEF Named
<1>2. SoleMatch(list, Empty) = <<>>
  BY DEF SoleMatch
<1> QED BY <1>1, <1>2, MatchCases
-----------------------------------------------------------------------------
(* sync_simple and resync leave the text and choose what it means; options *)
(* shown before stay only with the choice they were shown for.             *)

LEMMA ShownFields ==
  ASSUME NEW b, NEW c, NEW o
  PROVE  Shown(b, c, o).box = b /\ Shown(b, c, o).choice = c /\ Shown(b, c, o).options = o
  BY DEF Shown

LEMMA SyncNone ==
  ASSUME NEW list, NEW b, NEW c, NEW o, Match(list, b, c) = <<>>
  PROVE  Sync(list, Shown(b, c, o)) = Shown(b, <<>>, IF c = <<>> THEN o ELSE draft_options)
  BY DEF Sync, Shown

LEMMA SyncSome ==
  ASSUME NEW list, NEW b, NEW c, NEW o, NEW p, Match(list, b, c) = <<p>>
  PROVE  Sync(list, Shown(b, c, o)) = Shown(b, <<p.id>>, IF c = <<p.id>> THEN o ELSE p.options)
<1>1. Match(list, b, c) # <<>> /\ Match(list, b, c)[1] = p
  OBVIOUS
<1>2. Sync(list, Shown(b, c, o)) =
        IF c = <<p.id>> THEN Shown(b, c, o)
        ELSE Shown(b, <<p.id>>, p.options)
  BY <1>1, ShownFields DEF Sync
<1> QED BY <1>2

LEMMA ResyncIsSync ==
  ASSUME NEW list, IsLibrary(list), NEW b, NEW c, NEW o
  PROVE  Resync(list, Shown(b, c, o))
           = Sync(list, Shown(b, IF c # <<>> /\ Profile(list, c[1]) = <<>> THEN <<>> ELSE c, o))
<1> DEFINE present == IF c # <<>> /\ Profile(list, c[1]) = <<>> THEN <<>> ELSE c
           synced == Sync(list, Shown(b, present, o))
<1>1. Resync(list, Shown(b, c, o)) =
        IF synced.box = Empty /\ synced.choice # <<>>
        THEN Shown(Profile(list, synced.choice[1])[1].name, synced.choice, synced.options) ELSE synced
  BY ShownFields DEF Resync
<1> HIDE DEF present
<1>2. synced.box = b /\ (b = Empty => synced.choice = <<>>)
  <2>1. CASE Match(list, b, present) = <<>>
    BY <2>1, SyncNone, ShownFields
  <2>2. CASE Match(list, b, present) # <<>>
    <3>1. PICK n \in DOMAIN list : Match(list, b, present) = <<list[n]>>
      BY <2>2, MatchFound
    <3>2. synced = Shown(b, <<list[n].id>>, IF present = <<list[n].id>> THEN o ELSE list[n].options)
      BY <3>1, SyncSome
    <3>3. synced.box = b
      BY <3>2, ShownFields
    <3>4. b # Empty
      BY <2>2, EmptyMeansNone
    <3> QED BY <3>3, <3>4
  <2> QED BY <2>1, <2>2
<1> HIDE DEF synced
<1> QED BY <1>1, <1>2 DEF synced, present

LEMMA ProfileFound ==
  ASSUME NEW list, IsLibrary(list), NEW n \in DOMAIN list
  PROVE  Profile(list, list[n].id) = <<list[n]>>
<1> DEFINE found == {k \in DOMAIN list : list[k].id = list[n].id}
<1>1. found = {n}
  BY DEF IsLibrary
<1>2. found \in SUBSET DOMAIN list /\ Profile(list, list[n].id) = First(list, found)
  BY DEF Profile
<1> HIDE DEF found
<1> QED BY <1>1, <1>2, FirstFound

LEMMA ProfileCases ==
  ASSUME NEW list, IsLibrary(list), NEW id
  PROVE  \/ Profile(list, id) = <<>> /\ \A n \in DOMAIN list : list[n].id # id
         \/ \E n \in DOMAIN list : list[n].id = id /\ Profile(list, id) = <<list[n]>>
<1>1. CASE \E n \in DOMAIN list : list[n].id = id
  BY <1>1, ProfileFound
<1>2. CASE \A n \in DOMAIN list : list[n].id # id
  <2>1. {n \in DOMAIN list : list[n].id = id} = {}
    BY <1>2
  <2> QED BY <1>2, <2>1 DEF Profile, First
<1> QED BY <1>1, <1>2

Right(list, r, c, o, held) ==
  LET m == Match(list, r.box, r.choice) IN
  /\ m # <<>> <=> r.choice # <<>>
  /\ m # <<>> =>
       /\ r.choice = <<m[1].id>>
       /\ SymDiff(r.options, m[1].options) \subseteq IF r.choice = c /\ r.options = o THEN held ELSE {}

LEMMA NoDifference ==
  ASSUME NEW o
  PROVE  SymDiff(o, o) = {}
  BY DEF SymDiff

LEMMA SyncRight ==
  ASSUME NEW list, IsLibrary(list), NEW b, NEW c, NEW o, NEW held, Held(list, c, o, held)
  PROVE  Right(list, Sync(list, Shown(b, c, o)), c, o, held)
<1> DEFINE m == Match(list, b, c)
           r == Sync(list, Shown(b, c, o))
<1>1. CASE m = <<>>
  <2>1. r.box = b /\ r.choice = <<>>
    BY <1>1, SyncNone, ShownFields
  <2>2. Match(list, b, <<>>) = <<>>
    BY <1>1, MatchAgain
  <2> HIDE DEF r
  <2>3. Right(list, r, c, o, held)
    BY <2>1, <2>2 DEF Right
  <2> QED BY <2>3 DEF r
<1>2. CASE m # <<>>
  <2>1. PICK n \in DOMAIN list : m = <<list[n]>>
    BY <1>2, MatchFound
  <2>2. m[1] = list[n]
    BY <2>1
  <2>3. Match(list, b, <<list[n].id>>) = <<list[n]>>
    BY <1>2, <2>1, <2>2, MatchAgain
  <2>4. r = Shown(b, <<list[n].id>>, IF c = <<list[n].id>> THEN o ELSE list[n].options)
    BY <2>1, SyncSome
  <2>5. /\ r.box = b /\ r.choice = <<list[n].id>>
        /\ r.options = IF c = <<list[n].id>> THEN o ELSE list[n].options
    BY <2>4, ShownFields
  <2>6. SymDiff(r.options, list[n].options) \subseteq IF r.choice = c /\ r.options = o THEN held ELSE {}
    <3> HIDE DEF r
    <3>1. CASE c = <<list[n].id>>
      <4>1. SymDiff(o, list[n].options) \subseteq held
        BY <3>1 DEF Held
      <4> QED BY <2>5, <3>1, <4>1
    <3>2. CASE c # <<list[n].id>>
      BY <2>5, <3>2, NoDifference
    <3> QED BY <3>1, <3>2
  <2> HIDE DEF r, m
  <2>7. Right(list, r, c, o, held)
    BY <2>3, <2>5, <2>6 DEF Right
  <2> QED BY <2>7 DEF r
<1> QED BY <1>1, <1>2

LEMMA ResyncRight ==
  ASSUME NEW list, IsLibrary(list), NEW b, NEW c, NEW o, NEW held, Held(list, c, o, held)
  PROVE  Right(list, Resync(list, Shown(b, c, o)), c, o, held)
<1> DEFINE gone == c # <<>> /\ Profile(list, c[1]) = <<>>
<1>1. CASE ~gone
  BY <1>1, ResyncIsSync, SyncRight
<1>2. CASE gone
  <2> DEFINE r == Sync(list, Shown(b, <<>>, o))
  <2>1. Resync(list, Shown(b, c, o)) = r
    BY <1>2, ResyncIsSync
  <2>2. Held(list, <<>>, o, {})
    BY DEF Held
  <2>3. Right(list, r, <<>>, o, {})
    BY <2>2, SyncRight
  <2> HIDE DEF r
  <2>4. Right(list, r, c, o, held)
    <3> DEFINE m == Match(list, r.box, r.choice)
    <3>1. m # <<>> => r.choice # <<>>
      BY <2>3 DEF Right
    <3>2. m # <<>> => SymDiff(r.options, m[1].options) \subseteq {}
      BY <2>3, <3>1 DEF Right
    <3> QED BY <2>3, <3>2 DEF Right
  <2> QED BY <2>1, <2>4
<1> QED BY <1>1, <1>2
-----------------------------------------------------------------------------
(* What an action shows is right if what it asks for is, and the computer  *)
(* picked stays picked if it is still saved under its name.                *)

LEMMA ShowRight ==
  ASSUME NEW list, computers' = list, NEW r, Show(r), Right(list, r, chosen, options, edited)
  PROVE  OwnOptions'
<1>1. computer_box' = r.box /\ chosen' = r.choice /\ options' = r.options
      /\ edited' = IF r.choice = chosen /\ r.options = options THEN edited ELSE {}
  BY DEF Show
<1> DEFINE m == Match(list, r.box, r.choice)
<1>2. /\ m # <<>> <=> r.choice # <<>>
      /\ m # <<>> => r.choice = <<m[1].id>> /\ SymDiff(r.options, m[1].options) \subseteq edited'
  BY <1>1 DEF Right
<1>3. Match(computers', computer_box', chosen') = m
  BY <1>1
<1>4. Match(computers, computer_box, chosen)' = m
  BY <1>3 DEF Match, Named, First, ProfileByName, SoleMatch
<1> HIDE DEF m
<1> QED BY <1>1, <1>2, <1>4 DEF OwnOptions

LEMMA SyncOptions ==
  ASSUME NEW list, IsLibrary(list), NEW b, NEW c, NEW o \in SUBSET Options, draft_options \in SUBSET Options
  PROVE  /\ Sync(list, Shown(b, c, o)).options \in SUBSET Options
         /\ Resync(list, Shown(b, c, o)).options \in SUBSET Options
<1>1. ASSUME NEW choice PROVE Sync(list, Shown(b, choice, o)).options \in SUBSET Options
  <2>1. CASE Match(list, b, choice) = <<>>
    BY <2>1, SyncNone, ShownFields
  <2>2. CASE Match(list, b, choice) # <<>>
    <3>1. PICK n \in DOMAIN list : Match(list, b, choice) = <<list[n]>>
      BY <2>2, MatchFound
    <3>2. list[n].options \in SUBSET Options
      BY LibraryFacts DEF Records
    <3>3. Sync(list, Shown(b, choice, o))
            = Shown(b, <<list[n].id>>, IF choice = <<list[n].id>> THEN o ELSE list[n].options)
      BY <3>1, SyncSome
    <3> QED BY <3>2, <3>3, ShownFields
  <2> QED BY <2>1, <2>2
<1> QED BY <1>1, ResyncIsSync

LEMMA ShowOptions ==
  ASSUME NEW r, Show(r), r.options \in SUBSET Options, draft_options \in SUBSET Options, UNCHANGED draft_options
  PROVE  OptionsShown'
  BY DEF Show, OptionsShown

LEMMA ChosenStays ==
  ASSUME NEW list, IsLibrary(list), NEW n \in DOMAIN list, NEW o
  PROVE  Resync(list, Shown(list[n].name, <<list[n].id>>, o)) = Shown(list[n].name, <<list[n].id>>, o)
<1>1. Profile(list, list[n].id) = <<list[n]>>
  BY ProfileFound
<1>2. Resync(list, Shown(list[n].name, <<list[n].id>>, o)) = Sync(list, Shown(list[n].name, <<list[n].id>>, o))
  BY <1>1, ResyncIsSync
<1>3. n \in Named(list, list[n].name)
  BY DEF Named
<1>4. Match(list, list[n].name, <<list[n].id>>) = <<list[n]>>
  BY <1>3, MatchCases
<1> QED BY <1>2, <1>4, SyncSome

(* sync_simple for the state of before.                                    *)
LEMMA CurrentHeld ==
  ASSUME SelectionInv
  PROVE  /\ Held(computers, chosen, options, edited)
         /\ chosen = <<>> \/ \E n \in DOMAIN computers : chosen = <<computers[n].id>>
<1> DEFINE m == Match(computers, computer_box, chosen)
<1>0. IsLibrary(computers) /\ OwnOptions
  BY DEF SelectionInv
<1>1. CASE m = <<>>
  <2>1. chosen = <<>>
    BY <1>0, <1>1 DEF OwnOptions
  <2> QED BY <2>1 DEF Held
<1>2. CASE m # <<>>
  <2>1. PICK k \in DOMAIN computers : m = <<computers[k]>>
    BY <1>0, <1>2, MatchFound
  <2>2. chosen = <<m[1].id>> /\ SymDiff(options, m[1].options) \subseteq edited
    BY <1>0, <1>2 DEF OwnOptions
  <2>3. m[1] = computers[k]
    BY <2>1
  <2> HIDE DEF m
  <2>4. chosen = <<computers[k].id>> /\ SymDiff(options, computers[k].options) \subseteq edited
    BY <2>2, <2>3
  <2>5. ASSUME NEW n \in DOMAIN computers, chosen = <<computers[n].id>> PROVE n = k
    BY <1>0, <2>4, <2>5 DEF IsLibrary
  <2> QED BY <2>4, <2>5 DEF Held
<1> QED BY <1>1, <1>2

(* The list changed, but not the computer that is chosen.                  *)
LEMMA CurrentShown ==
  ASSUME SelectionInv, NEW list, IsLibrary(list), computers' = list,
         \A n \in DOMAIN list : chosen = <<list[n].id>> => \E k \in DOMAIN computers : list[n] = computers[k],
         \A k \in DOMAIN computers :
           chosen = <<computers[k].id>> => \E n \in DOMAIN list : list[n] = computers[k],
         Show(Resync(list, Current)), picked' \in {picked, <<>>}, UNCHANGED draft_options
  PROVE  SelectionInv'
<1> DEFINE r == Resync(list, Current)
<1>1. Held(list, chosen, options, edited)
  BY CurrentHeld DEF Held
<1>2. Right(list, r, chosen, options, edited)
  BY <1>1, ResyncRight DEF Current
<1>3. OwnOptions'
  BY <1>2, ShowRight
<1>4. ASSUME picked' # <<>>
      PROVE  chosen' = picked' /\ \E n \in DOMAIN list : picked' = <<list[n].id>> /\ computer_box' = list[n].name
  <2>1. chosen = picked /\ picked' = picked
    BY <1>4 DEF SelectionInv, Picked
  <2>2. PICK k \in DOMAIN computers : picked = <<computers[k].id>> /\ computer_box = computers[k].name
    BY <1>4, <2>1 DEF SelectionInv, Picked
  <2>3. PICK n \in DOMAIN list : list[n] = computers[k]
    BY <2>1, <2>2
  <2>4. r = Shown(list[n].name, <<list[n].id>>, options)
    BY <2>1, <2>2, <2>3, ChosenStays DEF Current
  <2> HIDE DEF r
  <2>5. r.choice = <<list[n].id>> /\ r.box = list[n].name
    BY <2>4, ShownFields
  <2> QED BY <2>1, <2>2, <2>3, <2>5 DEF r, Show
<1>5. Picked'
  BY <1>4 DEF Picked
<1>6. IsLibrary(computers)'
  BY DEF IsLibrary
<1>7. OptionsShown'
  BY SyncOptions, ShowOptions DEF SelectionInv, OptionsShown, Current
<1> QED BY <1>3, <1>5, <1>6, <1>7 DEF SelectionInv

(* A computer is chosen.                                                   *)
LEMMA ChoosingShown ==
  ASSUME SelectionInv, NEW list, IsLibrary(list), computers' = list, NEW n \in DOMAIN list, UNCHANGED draft_options,
         Show(Shown(list[n].name, <<list[n].id>>, list[n].options)), picked' = <<list[n].id>>
  PROVE  SelectionInv'
<1> DEFINE r == Shown(list[n].name, <<list[n].id>>, list[n].options)
<1>1. r.box = list[n].name /\ r.choice = <<list[n].id>> /\ r.options = list[n].options
  BY ShownFields
<1>2. n \in Named(list, list[n].name)
  BY DEF Named
<1>3. Match(list, list[n].name, <<list[n].id>>) = <<list[n]>>
  BY <1>2, MatchCases
<1> HIDE DEF r
<1>4. Right(list, r, chosen, options, edited)
  BY <1>1, <1>3, NoDifference DEF Right
<1>5. OwnOptions'
  BY <1>4, ShowRight DEF r
<1>6. chosen' = r.choice /\ computer_box' = r.box
  BY DEF Show, r
<1>7. Picked'
  BY <1>1, <1>6 DEF Picked
<1>8. IsLibrary(computers)'
  BY DEF IsLibrary
<1>9. list[n].options \in SUBSET Options
  BY LibraryFacts DEF Records
<1>10. OptionsShown'
  BY <1>1, <1>9, ShowOptions DEF r, SelectionInv, OptionsShown
<1> QED BY <1>5, <1>7, <1>8, <1>10 DEF SelectionInv

LEMMA ChoosingIs ==
  ASSUME NEW list, IsLibrary(list), NEW n \in DOMAIN list
  PROVE  /\ Choosing(list, list[n].id) = Shown(list[n].name, <<list[n].id>>, list[n].options)
         /\ Resync(list, Choosing(list, list[n].id)) = Choosing(list, list[n].id)
<1>1. Profile(list, list[n].id)[1] = list[n]
  BY ProfileFound
<1>2. Choosing(list, list[n].id) = Resync(list, Shown(list[n].name, <<list[n].id>>, list[n].options))
  BY <1>1 DEF Choosing
<1> QED BY <1>2, ChosenStays
-----------------------------------------------------------------------------
(* Lists with a computer changed, added or removed are libraries again.    *)

LEMMA ReplacedLibrary ==
  ASSUME NEW list, IsLibrary(list), NEW p \in Records
  PROVE  /\ IsLibrary(Replaced(list, p)) /\ DOMAIN Replaced(list, p) = DOMAIN list
         /\ \A n \in DOMAIN list : Replaced(list, p)[n] = IF list[n].id = p.id THEN p ELSE list[n]
<1> DEFINE new == Replaced(list, p)
<1>1. DOMAIN new = DOMAIN list /\ \A n \in DOMAIN list : new[n] = IF list[n].id = p.id THEN p ELSE list[n]
  BY DEF Replaced
<1>2. DOMAIN list = 1 .. Len(list) /\ Len(list) \in Nat /\ \A n \in DOMAIN list : list[n] \in Records
  BY LibraryFacts
<1>3. new \in Seq(Records)
  <2>1. new = [n \in 1 .. Len(list) |-> IF list[n].id = p.id THEN p ELSE list[n]]
    BY <1>2 DEF Replaced
  <2>2. \A n \in 1 .. Len(list) : (IF list[n].id = p.id THEN p ELSE list[n]) \in Records
    BY <1>2
  <2> HIDE DEF new
  <2>3. new \in [1 .. Len(list) -> Records]
    BY <2>1, <2>2
  <2> QED BY <1>2, <2>3, SeqDef
<1>4. \A n \in DOMAIN list : new[n].id = list[n].id
  BY <1>1
<1> HIDE DEF new
<1>5. IsLibrary(new)
  BY <1>1, <1>3, <1>4 DEF IsLibrary
<1> QED BY <1>1, <1>5 DEF new

LEMMA AppendedLibrary ==
  ASSUME NEW list, IsLibrary(list), NEW p \in Records, Profile(list, p.id) = <<>>
  PROVE  /\ IsLibrary(Append(list, p)) /\ DOMAIN Append(list, p) = 1 .. Len(list) + 1
         /\ \A n \in DOMAIN list : Append(list, p)[n] = list[n]
         /\ Append(list, p)[Len(list) + 1] = p
<1> DEFINE new == Append(list, p)
<1>1. list \in Seq(Records) /\ DOMAIN list = 1 .. Len(list) /\ Len(list) \in Nat
  BY LibraryFacts DEF IsLibrary
<1>2. /\ new \in Seq(Records) /\ Len(new) = Len(list) + 1
      /\ \A n \in DOMAIN list : new[n] = list[n]
      /\ new[Len(list) + 1] = p
  BY <1>1, AppendProperties
<1> HIDE DEF new
<1>3. DOMAIN new = 1 .. Len(list) + 1
  BY <1>2, LenProperties
<1>4. \A n \in DOMAIN list : list[n].id # p.id
  <2> DEFINE id == p.id
  <2>1. Profile(list, id) = <<>>
    OBVIOUS
  <2> HIDE DEF id
  <2>2. ASSUME NEW n \in DOMAIN list PROVE list[n].id # id
    <3>1. Profile(list, list[n].id) # <<>>
      BY ProfileFound
    <3> QED BY <2>1, <3>1
  <2> QED BY <2>2 DEF id
<1>5. ASSUME NEW m \in DOMAIN new, NEW n \in DOMAIN new, new[m].id = new[n].id
      PROVE  m = n
  <2>1. (m \in DOMAIN list \/ m = Len(list) + 1) /\ (n \in DOMAIN list \/ n = Len(list) + 1)
    BY <1>1, <1>3
  <2> QED BY <1>2, <1>4, <1>5, <2>1 DEF IsLibrary
<1>6. IsLibrary(new)
  BY <1>2, <1>5 DEF IsLibrary
<1> QED BY <1>2, <1>3, <1>6 DEF new

LEMMA WithoutLibrary ==
  ASSUME NEW list, IsLibrary(list), NEW x \in DOMAIN list
  PROVE  /\ IsLibrary(Without(list, list[x].id))
         /\ \A n \in DOMAIN Without(list, list[x].id) :
              \E k \in DOMAIN list : Without(list, list[x].id)[n] = list[k]
         /\ \A k \in DOMAIN list \ {x} :
              \E n \in DOMAIN Without(list, list[x].id) : Without(list, list[x].id)[n] = list[k]
<1> DEFINE found == {n \in DOMAIN list : list[n].id = list[x].id}
           new == RemoveAt(list, x)
           before == SubSeq(list, 1, x - 1)
           after == SubSeq(list, x + 1, Len(list))
           At(n) == IF n < x THEN n ELSE n + 1
<1>1. list \in Seq(Records) /\ DOMAIN list = 1 .. Len(list) /\ Len(list) \in Nat /\ x \in 1 .. Len(list)
  BY LibraryFacts DEF IsLibrary
<1>2. found = {x}
  BY DEF IsLibrary
<1>3. Min({x}) = x
  <2>1. x \in Nat
    BY <1>1
  <2> QED BY <2>1, MinFound
<1>4. Without(list, list[x].id) = new
  BY <1>2, <1>3 DEF Without
<1>5. /\ before \in Seq(Records) /\ Len(before) = x - 1
      /\ \A i \in 1 .. x - 1 : before[i] = list[i]
  <2>1. \A i \in 1 .. x - 1 : list[i] \in Records
    BY <1>1, LibraryFacts
  <2>2. x - 1 \in Int /\ (x - 1) - 1 + 1 = x - 1 /\ \A i \in 1 .. x - 1 : 1 + i - 1 = i
    BY <1>1
  <2>3. /\ before \in Seq(Records) /\ Len(before) = IF 1 <= x - 1 THEN (x - 1) - 1 + 1 ELSE 0
        /\ \A i \in 1 .. (x - 1) - 1 + 1 : before[i] = list[1 + i - 1]
    BY <2>1, <2>2, SubSeqProperties
  <2> HIDE DEF before
  <2> QED BY <1>1, <2>2, <2>3
<1>6. /\ after \in Seq(Records) /\ Len(after) = Len(list) - x
      /\ \A i \in 1 .. Len(list) - x : after[i] = list[x + i]
  <2>1. \A i \in x + 1 .. Len(list) : list[i] \in Records
    <3>1. \A i \in x + 1 .. Len(list) : i \in 1 .. Len(list)
      BY <1>1
    <3> QED BY <1>1, <3>1, LibraryFacts
  <2>2. /\ x + 1 \in Int /\ Len(list) \in Int /\ Len(list) - (x + 1) + 1 = Len(list) - x
        /\ \A i \in 1 .. Len(list) - x : (x + 1) + i - 1 = x + i
    BY <1>1
  <2>3. /\ after \in Seq(Records) /\ Len(after) = IF x + 1 <= Len(list) THEN Len(list) - (x + 1) + 1 ELSE 0
        /\ \A i \in 1 .. Len(list) - (x + 1) + 1 : after[i] = list[(x + 1) + i - 1]
    BY <2>1, <2>2, SubSeqProperties
  <2> HIDE DEF after
  <2> QED BY <1>1, <2>2, <2>3
<1>7. new = before \o after
  BY DEF RemoveAt
<1> HIDE DEF new, before, after
<1>8. /\ new \in Seq(Records) /\ Len(new) = Len(list) - 1
      /\ \A n \in 1 .. Len(list) - 1 : new[n] = list[At(n)]
  <2>1. /\ new \in Seq(Records) /\ Len(new) = Len(before) + Len(after)
        /\ \A n \in 1 .. Len(before) + Len(after) : new[n] = IF n <= Len(before) THEN before[n] ELSE after[n - Len(before)]
    BY <1>5, <1>6, <1>7, ConcatProperties
  <2>2. Len(before) + Len(after) = Len(list) - 1
    BY <1>1, <1>5, <1>6
  <2>3. ASSUME NEW n \in 1 .. Len(list) - 1 PROVE new[n] = list[At(n)]
    <3>1. CASE n < x
      <4>1. n <= x - 1 /\ n \in 1 .. x - 1
        BY <1>1, <3>1
      <4> QED BY <1>5, <2>1, <2>2, <3>1, <4>1
    <3>2. CASE ~(n < x)
      <4>1. ~(n <= x - 1) /\ n - (x - 1) \in 1 .. Len(list) - x /\ x + (n - (x - 1)) = n + 1
        BY <1>1, <3>2
      <4> QED BY <1>5, <1>6, <2>1, <2>2, <3>2, <4>1
    <3> QED BY <3>1, <3>2
  <2> QED BY <2>1, <2>2, <2>3
<1>9. DOMAIN new = 1 .. Len(list) - 1
  BY <1>8, LenProperties
<1>10. \A n \in DOMAIN new : At(n) \in DOMAIN list /\ new[n] = list[At(n)]
  <2>1. ASSUME NEW n \in 1 .. Len(list) - 1 PROVE At(n) \in 1 .. Len(list)
    BY <1>1
  <2> QED BY <1>1, <1>8, <1>9, <2>1
<1>11. \A m, n \in DOMAIN new : At(m) = At(n) => m = n
  <2>1. ASSUME NEW m \in DOMAIN new, NEW n \in DOMAIN new, At(m) = At(n) PROVE m = n
    <3>1. m \in Int /\ n \in Int /\ x \in Int
      BY <1>1, <1>9
    <3> QED BY <2>1, <3>1
  <2> QED BY <2>1
<1>12. \A k \in DOMAIN list \ {x} : \E n \in DOMAIN new : At(n) = k
  <2>1. ASSUME NEW k \in DOMAIN list \ {x} PROVE \E n \in DOMAIN new : At(n) = k
    <3>1. CASE k < x
      <4>1. k \in DOMAIN new /\ At(k) = k
        BY <1>1, <1>9, <3>1
      <4> QED BY <4>1
    <3>2. CASE ~(k < x)
      <4>1. k - 1 \in DOMAIN new /\ At(k - 1) = k
        BY <1>1, <1>9, <3>2
      <4> QED BY <4>1
    <3> QED BY <3>1, <3>2
  <2> QED BY <2>1
<1> HIDE DEF At
<1>13. IsLibrary(new)
  BY <1>8, <1>10, <1>11 DEF IsLibrary
<1> QED BY <1>4, <1>10, <1>12, <1>13
-----------------------------------------------------------------------------
LEMMA BoxInputInv ==
  ASSUME SelectionInv, NEW entered, BoxInput(entered)
  PROVE  SelectionInv'
<1> DEFINE r == Sync(computers, Shown(entered, chosen, options))
<1>1. Show(r) /\ picked' = <<>> /\ computers' = computers /\ draft_options' = draft_options
  BY DEF BoxInput
<1>2. IsLibrary(computers) /\ Held(computers, chosen, options, edited)
  BY CurrentHeld DEF SelectionInv
<1>3. Right(computers, r, chosen, options, edited)
  BY <1>2, SyncRight
<1>4. OwnOptions'
  BY <1>1, <1>3, ShowRight
<1>5. Picked' /\ IsLibrary(computers)'
  BY <1>1, <1>2 DEF Picked, IsLibrary
<1>6. OptionsShown'
  BY <1>1, <1>2, SyncOptions, ShowOptions DEF SelectionInv, OptionsShown
<1> QED BY <1>4, <1>5, <1>6 DEF SelectionInv

LEMMA ChooseInv ==
  ASSUME SelectionInv, NEW id, Choose(id)
  PROVE  SelectionInv'
<1>1. IsLibrary(computers) /\ computers' = computers /\ Show(Choosing(computers, id)) /\ picked' = <<id>>
      /\ draft_options' = draft_options
  BY DEF Choose, SelectionInv
<1>2. PICK n \in DOMAIN computers : computers[n].id = id
  BY <1>1, ProfileCases DEF Choose
<1>3. Show(Shown(computers[n].name, <<computers[n].id>>, computers[n].options))
  BY <1>1, <1>2, ChoosingIs
<1> QED BY <1>1, <1>2, <1>3, ChoosingShown

LEMMA SetOptionInv ==
  ASSUME SelectionInv, NEW option \in Options, SetOption(option)
  PROVE  SelectionInv'
<1> DEFINE m == Match(computers, computer_box, chosen)
<1>1. /\ options' = SymDiff(options, {option}) /\ edited' = edited \cup {option}
      /\ draft_options' = (IF chosen = <<>> THEN SymDiff(options, {option}) ELSE draft_options)
      /\ UNCHANGED <<computers, computer_box, chosen, picked>>
  BY DEF SetOption
<1>2. /\ m # <<>> <=> chosen # <<>>
      /\ m # <<>> => chosen = <<m[1].id>> /\ SymDiff(options, m[1].options) \subseteq edited
  BY DEF SelectionInv, OwnOptions
<1>3. m' = m
  BY <1>1 DEF Match, Named, First, ProfileByName, SoleMatch
<1> HIDE DEF m
<1>4. \A own : SymDiff(options, own) \subseteq edited => SymDiff(SymDiff(options, {option}), own) \subseteq edited \cup {option}
  BY DEF SymDiff
<1>5. /\ m' # <<>> <=> chosen' # <<>>
      /\ m' # <<>> => chosen' = <<m'[1].id>> /\ SymDiff(options', m'[1].options) \subseteq edited'
  BY <1>1, <1>2, <1>3, <1>4
<1>6. OwnOptions'
  BY <1>5 DEF OwnOptions, m
<1>7. Picked' /\ IsLibrary(computers)'
  BY <1>1 DEF SelectionInv, Picked, IsLibrary
<1>8. SymDiff(options, {option}) \in SUBSET Options
  BY DEF SelectionInv, OptionsShown, SymDiff
<1>9. OptionsShown'
  BY <1>1, <1>8 DEF SelectionInv, OptionsShown
<1> QED BY <1>6, <1>7, <1>9 DEF SelectionInv

LEMMA SetLayoutInv ==
  ASSUME SelectionInv, SetLayout
  PROVE  SelectionInv'
<1>1. IsLibrary(computers) /\ computers' = computers /\ Show(Resync(computers, Current)) /\ picked' = picked
      /\ draft_options' = draft_options
  BY DEF SetLayout, SelectionInv
<1> QED BY <1>1, CurrentShown

(* Saving a computer, new or not: the others are what they were.           *)
LEMMA SavedInv ==
  ASSUME SelectionInv, NEW list, IsLibrary(list), computers' = list, NEW x \in DOMAIN list, Saved(list, list[x].id),
         UNCHANGED draft_options,
         \A n \in DOMAIN list : list[n].id # list[x].id => \E k \in DOMAIN computers : list[n] = computers[k],
         \A k \in DOMAIN computers : computers[k].id # list[x].id => \E n \in DOMAIN list : list[n] = computers[k]
  PROVE  SelectionInv'
<1> DEFINE id == list[x].id
<1>1. CASE layout = "Simple" \/ chosen = <<id>>
  <2>1. Show(Resync(list, Choosing(list, id))) /\ picked' = <<id>>
    BY <1>1 DEF Saved
  <2>2. Show(Shown(list[x].name, <<list[x].id>>, list[x].options))
    BY <2>1, ChoosingIs
  <2> QED BY <2>1, <2>2, ChoosingShown
<1>2. CASE ~(layout = "Simple" \/ chosen = <<id>>)
  <2>1. Show(Resync(list, Current)) /\ picked' = picked /\ chosen # <<id>>
    BY <1>2 DEF Saved
  <2>2. \A n \in DOMAIN list : chosen = <<list[n].id>> => \E k \in DOMAIN computers : list[n] = computers[k]
    BY <2>1
  <2>3. \A k \in DOMAIN computers : chosen = <<computers[k].id>> => \E n \in DOMAIN list : list[n] = computers[k]
    BY <2>1
  <2> QED BY <2>1, <2>2, <2>3, CurrentShown
<1> QED BY <1>1, <1>2

LEMMA EditComputerInv ==
  ASSUME SelectionInv, NEW id \in Ids, NEW name \in Names, NEW address \in Addresses, NEW opts \in SUBSET Options,
         EditComputer(id, name, address, opts)
  PROVE  SelectionInv'
<1> DEFINE p == [id |-> id, name |-> name, address |-> address, options |-> opts]
           list == Replaced(computers, p)
<1>1. p \in Records /\ p.id = id /\ IsLibrary(computers)
  BY DEF Records, SelectionInv
<1>2. Profile(computers, id) # <<>> /\ computers' = list /\ Saved(list, id) /\ draft_options' = draft_options
  BY DEF EditComputer
<1> HIDE DEF p
<1>3. /\ IsLibrary(list) /\ DOMAIN list = DOMAIN computers
      /\ \A n \in DOMAIN computers : list[n] = IF computers[n].id = id THEN p ELSE computers[n]
  BY <1>1, ReplacedLibrary
<1>4. PICK x \in DOMAIN computers : computers[x].id = id
  BY <1>1, <1>2, ProfileCases
<1> HIDE DEF list
<1>5. list[x].id = id
  BY <1>1, <1>3, <1>4
<1>6. \A n \in DOMAIN list : list[n].id # id => list[n] = computers[n]
  BY <1>1, <1>3
<1>7. \A n \in DOMAIN computers : computers[n].id # id => list[n] = computers[n]
  BY <1>3
<1> QED BY <1>2, <1>3, <1>4, <1>5, <1>6, <1>7, SavedInv

LEMMA NewComputerInv ==
  ASSUME SelectionInv, NEW id \in Ids, NEW name \in Names, NEW address \in Addresses, NEW opts \in SUBSET Options,
         NewComputer(id, name, address, opts)
  PROVE  SelectionInv'
<1> DEFINE p == [id |-> id, name |-> name, address |-> address, options |-> opts]
           list == Append(computers, p)
           x == Len(computers) + 1
<1>1. p \in Records /\ p.id = id /\ IsLibrary(computers)
  BY DEF Records, SelectionInv
<1>2. Profile(computers, id) = <<>> /\ computers' = list /\ Saved(list, id) /\ draft_options' = draft_options
  BY DEF NewComputer
<1>3. DOMAIN computers = 1 .. Len(computers) /\ Len(computers) \in Nat
  BY <1>1, LibraryFacts
<1> HIDE DEF p
<1>4. /\ IsLibrary(list) /\ DOMAIN list = 1 .. x
      /\ \A n \in DOMAIN computers : list[n] = computers[n]
      /\ list[x] = p
  BY <1>1, <1>2, AppendedLibrary
<1>5. x \in 1 .. x /\ \A n \in 1 .. x : n \in DOMAIN computers \/ n = x
  BY <1>3
<1>6. \A n \in DOMAIN computers : n \in 1 .. x
  BY <1>3
<1> HIDE DEF list, x
<1> QED BY <1>1, <1>2, <1>4, <1>5, <1>6, SavedInv

LEMMA RemoveComputerInv ==
  ASSUME SelectionInv, NEW id, RemoveComputer(id)
  PROVE  SelectionInv'
<1> DEFINE list == Without(computers, id)
<1>1. IsLibrary(computers) /\ Profile(computers, id) # <<>>
  BY DEF RemoveComputer, SelectionInv
<1>2. PICK x \in DOMAIN computers : computers[x].id = id
  BY <1>1, ProfileCases
<1>3. /\ IsLibrary(list)
      /\ \A n \in DOMAIN list : \E k \in DOMAIN computers : list[n] = computers[k]
      /\ \A k \in DOMAIN computers \ {x} : \E n \in DOMAIN list : list[n] = computers[k]
  BY <1>1, <1>2, WithoutLibrary
<1>4. /\ computers' = list /\ picked' = (IF picked = <<id>> THEN <<>> ELSE picked) /\ draft_options' = draft_options
      /\ Show(Resync(list, IF chosen = <<id>> THEN Shown(Empty, <<>>, options) ELSE Current))
  BY DEF RemoveComputer
<1> HIDE DEF list
<1>5. CASE chosen = <<id>>
  <2> DEFINE r == Resync(list, Shown(Empty, <<>>, options))
  <2>1. Show(r)
    BY <1>4, <1>5
  <2>2. r = Sync(list, Shown(Empty, <<>>, options))
    BY <1>3, ResyncIsSync
  <2>3. r = Shown(Empty, <<>>, options)
    BY <1>3, <2>2, EmptyMeansNone, SyncNone
  <2> HIDE DEF r
  <2>4. Right(list, r, chosen, options, edited)
    BY <1>3, <2>3, ShownFields, EmptyMeansNone DEF Right
  <2>5. OwnOptions'
    BY <1>4, <2>1, <2>4, ShowRight
  <2>6. Picked'
    BY <1>4, <1>5 DEF SelectionInv, Picked
  <2>7. IsLibrary(computers)'
    BY <1>3, <1>4 DEF IsLibrary
  <2>8. OptionsShown'
    BY <1>4, <2>1, <2>3, ShownFields, ShowOptions DEF SelectionInv, OptionsShown
  <2> QED BY <2>5, <2>6, <2>7, <2>8 DEF SelectionInv
<1>6. CASE chosen # <<id>>
  <2>1. Show(Resync(list, Current)) /\ picked' \in {picked, <<>>}
    BY <1>4, <1>6
  <2>2. \A k \in DOMAIN computers : chosen = <<computers[k].id>> => \E n \in DOMAIN list : list[n] = computers[k]
    BY <1>2, <1>3, <1>6
  <2> QED BY <1>3, <1>4, <2>1, <2>2, CurrentShown
<1> QED BY <1>5, <1>6

(* What a text means is told by identifiers, names and addresses.          *)
LEMMA MatchMoves ==
  ASSUME NEW list, IsLibrary(list), NEW new, IsLibrary(new), NEW box, NEW choice, DOMAIN new = DOMAIN list,
         \A n \in DOMAIN new : new[n].id = list[n].id /\ new[n].name = list[n].name /\ new[n].address = list[n].address,
         NEW x \in DOMAIN list, Match(list, box, choice) = <<list[x]>>, choice = <<list[x].id>>
  PROVE  Match(new, box, choice) = <<new[x]>>
<1>1. Named(new, box) = Named(list, box)
  BY DEF Named
<1>2. Named(list, box) \subseteq DOMAIN list
  BY NamedInside
<1>3. CASE Named(list, box) # {}
  <2>1. PICK n \in Named(list, box) : Match(list, box, choice) = <<list[n]>>
    BY <1>3, MatchCases
  <2>2. n = x
    BY <1>2, <2>1 DEF IsLibrary
  <2>3. x \in Named(new, box) /\ choice = <<new[x].id>>
    BY <1>1, <2>1, <2>2
  <2> QED BY <2>3, MatchCases
<1>4. CASE Named(list, box) = {}
  <2> DEFINE Rows(l) == {n \in DOMAIN l : <<l[n].name, box>> \in Includes \/ <<l[n].address, box>> \in Includes}
  <2>1. SoleMatch(list, box) = <<list[x]>> /\ Match(new, box, choice) = SoleMatch(new, box)
    BY <1>1, <1>4, MatchCases
  <2>2. Rows(new) = Rows(list) /\ Rows(list) \in SUBSET DOMAIN list
    OBVIOUS
  <2>3. ASSUME NEW l
        PROVE  SoleMatch(l, box) = IF box \notin Addresses \cup {Empty} /\ Cardinality(Rows(l)) = 1
                                   THEN First(l, Rows(l)) ELSE <<>>
    BY DEF SoleMatch
  <2> HIDE DEF Rows
  <2>4. First(list, Rows(list)) = <<list[x]>>
    BY <2>1, <2>3
  <2>5. SoleMatch(new, box) = First(new, Rows(list))
    BY <2>1, <2>2, <2>3
  <2>6. Rows(list) # {}
    BY <2>4 DEF First
  <2>7. First(list, Rows(list)) = <<list[Min(Rows(list))]>> /\ First(new, Rows(list)) = <<new[Min(Rows(list))]>>
    BY <2>6 DEF First
  <2>8. Min(Rows(list)) \in DOMAIN list
    BY <2>2, <2>6, LibraryFacts, MinFound
  <2>9. Min(Rows(list)) = x
    BY <2>4, <2>7, <2>8 DEF IsLibrary
  <2> QED BY <2>1, <2>5, <2>7, <2>9
<1> QED BY <1>3, <1>4

(* connect_chosen: identifiers, names and addresses stay, so the text      *)
(* means the computer whose options were saved.                            *)
LEMMA ConnectChosenInv ==
  ASSUME SelectionInv, ConnectChosen
  PROVE  SelectionInv'
<1> DEFINE m == Match(computers, computer_box, chosen)
<1>1. IsLibrary(computers) /\ OwnOptions
  BY DEF SelectionInv
<1>2. m # <<>> /\ UNCHANGED <<computer_box, chosen, options, edited, picked>>
      /\ computers' = Replaced(computers, [m[1] EXCEPT !.options = options])
  BY DEF ConnectChosen
<1>3. PICK x \in DOMAIN computers : m = <<computers[x]>>
  BY <1>1, <1>2, MatchFound
<1> DEFINE p == [computers[x] EXCEPT !.options = options]
           list == Replaced(computers, p)
<1>4. m[1] = computers[x] /\ computers' = list
  BY <1>2, <1>3
<1>5. computers[x] \in Records
  BY <1>1, LibraryFacts
<1>6. /\ p.id = computers[x].id /\ p.name = computers[x].name /\ p.address = computers[x].address
      /\ p.options = options
  BY <1>5 DEF Records
<1>7. chosen = <<computers[x].id>>
  BY <1>1, <1>2, <1>4 DEF OwnOptions
<1>8. options \in SUBSET Options
  BY DEF SelectionInv, OptionsShown
<1>9. p \in Records
  BY <1>5, <1>8 DEF Records
<1> HIDE DEF p
<1>10. /\ IsLibrary(list) /\ DOMAIN list = DOMAIN computers
       /\ \A n \in DOMAIN computers : list[n] = IF computers[n].id = computers[x].id THEN p ELSE computers[n]
  BY <1>1, <1>6, <1>9, ReplacedLibrary
<1> HIDE DEF list
<1>11. /\ \A n \in DOMAIN list : list[n].id = computers[n].id /\ list[n].name = computers[n].name
                                  /\ list[n].address = computers[n].address
       /\ list[x].options = options
  <2>1. \A n \in DOMAIN computers : computers[n].id = computers[x].id => n = x
    BY <1>1 DEF IsLibrary
  <2> QED BY <1>6, <1>10, <2>1
<1>12. Match(list, computer_box, chosen) = <<list[x]>>
  BY <1>1, <1>3, <1>7, <1>10, <1>11, MatchMoves
<1>13. OwnOptions'
  <2>1. Match(computers, computer_box, chosen)' = <<list[x]>>
    BY <1>2, <1>4, <1>12 DEF Match, Named, First, ProfileByName, SoleMatch
  <2>2. list[x].id = computers[x].id
    BY <1>10, <1>11
  <2>3. SymDiff(options, list[x].options) = {}
    BY <1>11, NoDifference
  <2>4. chosen' = <<list[x].id>> /\ options' = options
    BY <1>2, <1>7, <2>2
  <2> QED BY <2>1, <2>3, <2>4 DEF OwnOptions
<1>14. IsLibrary(computers)'
  BY <1>4, <1>10 DEF IsLibrary
<1>15. Picked'
  BY <1>2, <1>4, <1>10, <1>11 DEF SelectionInv, Picked
<1>16. OptionsShown'
  BY <1>2 DEF ConnectChosen, SelectionInv, OptionsShown
<1> QED BY <1>13, <1>14, <1>15, <1>16 DEF SelectionInv

-----------------------------------------------------------------------------
LEMMA SelectionStep ==
  ASSUME SelectionInv, [SelectionNext]_selectionVars
  PROVE  SelectionInv'
<1>1. CASE UNCHANGED selectionVars
  <2>1. UNCHANGED <<computers, computer_box, chosen, options, draft_options, edited, picked>>
    BY <1>1 DEF selectionVars
  <2>2. OwnOptions'
    BY <2>1 DEF SelectionInv, OwnOptions
  <2> QED BY <2>1, <2>2 DEF SelectionInv, IsLibrary, OptionsShown, Picked
<1>2. CASE SelectionNext
  BY <1>2, BoxInputInv, ChooseInv, RemoveComputerInv, SetOptionInv, EditComputerInv, NewComputerInv,
     ConnectChosenInv, SetLayoutInv DEF SelectionNext
<1> QED BY <1>1, <1>2

LEMMA SelectionBegins ==
  ASSUME SelectionInit
  PROVE  SelectionInv
<1>1. computers = <<>> /\ chosen = <<>> /\ picked = <<>> /\ options = {} /\ draft_options = {}
  BY DEF SelectionInit, Default
<1>2. IsLibrary(computers)
  BY <1>1, EmptySeq DEF IsLibrary
<1>3. OptionsShown /\ Picked
  BY <1>1 DEF OptionsShown, Picked
<1>4. Match(computers, computer_box, chosen) = <<>>
  BY <1>1, <1>2, MatchFound
<1>5. OwnOptions
  BY <1>1, <1>4 DEF OwnOptions
<1> QED BY <1>2, <1>3, <1>5 DEF SelectionInv

LEMMA SelectionAlways == SelectionSpec => []SelectionInv
<1> QED BY SelectionBegins, SelectionStep, PTL DEF SelectionSpec

(* However many computers there are, and whatever is typed, picked, saved, *)
(* renamed or removed: what connecting would save to the computer the text *)
(* means are its own options, but for those the user has set since it was  *)
(* chosen.                                                                 *)
THEOREM OwnOptionsHolds == SelectionSpec => []OwnOptions
<1>1. SelectionInv => OwnOptions
  BY DEF SelectionInv
<1> QED BY <1>1, SelectionAlways, PTL

(* A computer picked from the list stays the chosen one until another text *)
(* is typed, whatever happens to the library, two computers of one name    *)
(* included.                                                               *)
THEOREM PickedStaysHolds == SelectionSpec => []PickedStays
<1>1. SelectionInv => PickedStays
  BY DEF SelectionInv, Picked, PickedStays
<1> QED BY <1>1, SelectionAlways, PTL
-----------------------------------------------------------------------------
(* Dates: a day's number is that of whole years that begin in March, whole *)
(* months and days; civil_from_days takes it apart by century, four years, *)
(* year and month, and the next day's date is the calendar's.              *)

(* Years that begin in March, counted from the one of year 0; the days     *)
(* before such a year and before its months, and a date's day in its year. *)
Shifted(y, m) == IF m <= 2 THEN y - 1 ELSE y
March(m) == IF m > 2 THEN m - 3 ELSE m + 9
Whole(y) == 365 * y + y \div 4 - y \div 100 + y \div 400
Before(n) == (153 * n + 2) \div 5
OfYear(m, d) == Before(March(m)) + d - 1

Valid(y, m, d) == y \in Nat /\ m \in 1 .. 12 /\ d \in Nat /\ 1 <= d /\ d <= Length(y, m)

LEMMA Eras ==
  ASSUME NEW y \in Int
  PROVE  LET era == y \div 400 yoe == y - era * 400 IN
         /\ era \in Int /\ yoe \in Int /\ 0 <= yoe /\ yoe < 400
         /\ Whole(y) = era * 146097 + yoe * 365 + yoe \div 4 - yoe \div 100
  BY SMT DEF Whole

(* days_from_civil adds up whole years, whole months and days.             *)
LEMMA DaysAre ==
  ASSUME NEW y \in Int, NEW m \in 1 .. 12, NEW d \in Int
  PROVE  DaysFromCivil(y, m, d) = Whole(Shifted(y, m)) + OfYear(m, d) - 719468
<1> DEFINE s == Shifted(y, m)
<1>1. s \in Int /\ March(m) \in 0 .. 11
  BY SMT DEF Shifted, March
<1>2. DaysFromCivil(y, m, d) =
        (s \div 400) * 146097 + (s - (s \div 400) * 400) * 365 + (s - (s \div 400) * 400) \div 4
          - (s - (s \div 400) * 400) \div 100 + OfYear(m, d) - 719468
  BY SMT DEF DaysFromCivil, OfYear, Before, March, Shifted
<1> HIDE DEF s
<1>3. OfYear(m, d) \in Int
  BY <1>1, SMT DEF OfYear, Before
<1>4. Whole(s) = (s \div 400) * 146097 + (s - (s \div 400) * 400) * 365 + (s - (s \div 400) * 400) \div 4
                  - (s - (s \div 400) * 400) \div 100
  BY <1>1, SMT DEF Whole
<1>5. DaysFromCivil(y, m, d) = Whole(s) + OfYear(m, d) - 719468
  BY <1>2, <1>4
<1> QED BY <1>5 DEF s

LEMMA MonthsAre ==
  /\ Before(0) = 0 /\ Before(1) = 31 /\ Before(2) = 61 /\ Before(3) = 92 /\ Before(4) = 122 /\ Before(5) = 153
  /\ Before(6) = 184 /\ Before(7) = 214 /\ Before(8) = 245 /\ Before(9) = 275 /\ Before(10) = 306
  /\ Before(11) = 337
  BY SMT DEF Before

LEMMA YearsAre ==
  ASSUME NEW y \in Int
  PROVE  Whole(y + 1) = Whole(y) + 365 + IF Leap(y + 1) THEN 1 ELSE 0
  BY SMT DEF Whole, Leap

LEMMA LengthsAre ==
  ASSUME NEW y, NEW m
  PROVE  Length(y, m) \in 28 .. 31
  BY SMT DEF Length

(* The date after one is the day after it.                                 *)
LEMMA TomorrowIs ==
  ASSUME NEW y, NEW m, NEW d, Valid(y, m, d)
  PROVE  LET t == Tomorrow(y, m, d) IN
         /\ Valid(t[1], t[2], t[3])
         /\ DaysFromCivil(t[1], t[2], t[3]) = DaysFromCivil(y, m, d) + 1
<1> DEFINE t == Tomorrow(y, m, d)
<1>1. y \in Nat /\ m \in 1 .. 12 /\ d \in Nat /\ 1 <= d /\ d <= Length(y, m)
  BY DEF Valid
<1>2. Length(y, m) \in Nat /\ Length(y, m + 1) \in 28 .. 31 /\ Length(y + 1, 1) \in 28 .. 31
  BY LengthsAre, SMT
<1>3. CASE d < Length(y, m)
  <2>1. t = <<y, m, d + 1>>
    BY <1>3, SMT DEF Tomorrow
  <2>2. OfYear(m, d + 1) = OfYear(m, d) + 1 /\ OfYear(m, d) \in Int /\ Shifted(y, m) \in Int
    BY <1>1, SMT DEF OfYear, March, Before, Shifted
  <2>3. Whole(Shifted(y, m)) \in Int
    BY <2>2, SMT DEF Whole
  <2>4. DaysFromCivil(y, m, d + 1) = DaysFromCivil(y, m, d) + 1
    BY <1>1, <2>2, <2>3, DaysAre, SMT
  <2>5. Valid(y, m, d + 1)
    BY <1>1, <1>2, <1>3, SMT DEF Valid
  <2> QED BY <2>1, <2>4, <2>5, SMT
<1>4. CASE d = Length(y, m) /\ m < 12
  <2>1. t = <<y, m + 1, 1>>
    BY <1>1, <1>4, SMT DEF Tomorrow
  <2>2. Valid(y, m + 1, 1)
    BY <1>1, <1>2, <1>4, SMT DEF Valid
  <2>3. DaysFromCivil(y, m + 1, 1) = DaysFromCivil(y, m, d) + 1
    <3>1. CASE m = 2
      <4>1. Shifted(y, m) = y - 1 /\ Shifted(y, m + 1) = y /\ OfYear(m, d) = 337 + Length(y, 2) - 1 /\ OfYear(m + 1, 1) = 0
        BY <1>1, <1>4, <3>1, MonthsAre, SMT DEF Shifted, OfYear, March
      <4>2. Length(y, 2) = 28 + IF Leap(y) THEN 1 ELSE 0
        BY SMT DEF Length
      <4>3. Whole(y) = Whole(y - 1) + 365 + IF Leap(y) THEN 1 ELSE 0
        BY <1>1, YearsAre, SMT
      <4>4. Whole(y - 1) \in Int
        BY <1>1, SMT DEF Whole
      <4> QED BY <1>1, <3>1, <4>1, <4>2, <4>3, <4>4, DaysAre, SMT
    <3>2. CASE m # 2
      <4>1. Shifted(y, m + 1) = Shifted(y, m) /\ Shifted(y, m) \in Int
        BY <1>1, <1>4, <3>2, SMT DEF Shifted
      <4>2. OfYear(m + 1, 1) = OfYear(m, d) + 1 /\ OfYear(m, d) \in Int
        BY <1>1, <1>4, <3>2, MonthsAre, SMT DEF OfYear, March, Length
      <4>3. Whole(Shifted(y, m)) \in Int
        BY <4>1, SMT DEF Whole
      <4> QED BY <1>1, <1>4, <4>1, <4>2, <4>3, DaysAre, SMT
    <3> QED BY <3>1, <3>2
  <2> QED BY <2>1, <2>2, <2>3, SMT
<1>5. CASE d = Length(y, m) /\ m = 12
  <2>1. t = <<y + 1, 1, 1>>
    BY <1>1, <1>5, SMT DEF Tomorrow
  <2>2. Valid(y + 1, 1, 1)
    BY <1>1, <1>2, SMT DEF Valid
  <2>3. Shifted(y, m) = y /\ Shifted(y + 1, 1) = y /\ OfYear(m, d) = 305 /\ OfYear(1, 1) = 306
    BY <1>1, <1>5, MonthsAre, SMT DEF Shifted, OfYear, March, Length
  <2>4. Whole(y) \in Int
    BY <1>1, SMT DEF Whole
  <2>5. DaysFromCivil(y + 1, 1, 1) = DaysFromCivil(y, m, d) + 1
    BY <1>1, <2>3, <2>4, DaysAre, SMT
  <2> QED BY <2>1, <2>2, <2>5, SMT
<1> QED BY <1>1, <1>2, <1>3, <1>4, <1>5, SMT
-----------------------------------------------------------------------------
(* civil_from_days takes the number of a day apart: the era, the year of   *)
(* the era (of a century, of four years, of those), the day of the year.   *)

DayOfEra(c, q, r, doy) == 36524 * c + 1461 * q + 365 * r + doy
YearIn(doe) == (doe - doe \div 1460 + doe \div 36524 - doe \div 146096) \div 365

LEMMA DayInEra ==
  ASSUME NEW c \in Nat, NEW q \in Nat, NEW r \in Nat, NEW doy \in Nat,
         c <= 3, q <= 24, r <= 3, doy <= 365, doy = 365 => r = 3 /\ (q # 24 \/ c = 3)
  PROVE  0 <= DayOfEra(c, q, r, doy) /\ DayOfEra(c, q, r, doy) < 146097
  BY SMT DEF DayOfEra

LEMMA YearOfEra ==
  ASSUME NEW c \in Nat, NEW q \in Nat, NEW r \in Nat, NEW doy \in Nat,
         c <= 3, q <= 24, r <= 3, doy <= 365, doy = 365 => r = 3 /\ (q # 24 \/ c = 3)
  PROVE  YearIn(DayOfEra(c, q, r, doy)) = 100 * c + 4 * q + r
<1> DEFINE doe == 36524 * c + 1461 * q + 365 * r + doy
           rest == 24 * c + q + 365 * r + doy
           late == IF rest >= 1460 THEN 1 ELSE 0
<1>0. doe \in Int /\ rest \in Int
  BY SMT
<1>2. doe \div 36524 - doe \div 146096 = c
  BY SMT
<1>3. 0 <= rest /\ rest < 2920 /\ doe = 1460 * (25 * c + q) + rest
  BY SMT
<1>4. doe \div 1460 = 25 * c + q + late
  <2> HIDE DEF doe, rest
  <2> QED BY <1>0, <1>3, SMT
<1>5. late \in {0, 1} /\ 0 <= doy - late /\ doy - late < 365
  BY SMT
<1>6. doe - doe \div 1460 + doe \div 36524 - doe \div 146096 = 365 * (100 * c + 4 * q + r) + (doy - late)
  <2>1. doe - (25 * c + q + late) + c = 365 * (100 * c + 4 * q + r) + (doy - late)
    <3> HIDE DEF late
    <3> QED BY <1>5, SMT
  <2> HIDE DEF doe, late
  <2> QED BY <1>0, <1>2, <1>4, <1>5, <2>1, SMT
<1>7. 100 * c + 4 * q + r \in Int
  BY SMT
<1> HIDE DEF doe, late
<1>8. (doe - doe \div 1460 + doe \div 36524 - doe \div 146096) \div 365 = 100 * c + 4 * q + r
  <2> DEFINE n == 100 * c + 4 * q + r
             k == doy - late
  <2>1. n \in Int /\ k \in Int /\ 0 <= k /\ k < 365
    BY <1>5, <1>7, SMT
  <2> HIDE DEF n, k
  <2>2. (365 * n + k) \div 365 = n
    BY <2>1, SMT
  <2> QED BY <1>6, <2>2 DEF n, k
<1>9. DayOfEra(c, q, r, doy) = doe
  BY DEF DayOfEra, doe
<1> QED BY <1>8, <1>9 DEF YearIn

LEMMA CenturyIs ==
  ASSUME NEW yoe \in Int, 0 <= yoe, yoe < 400
  PROVE  \E c, q, r \in Nat :
           /\ c <= 3 /\ q <= 24 /\ r <= 3
           /\ yoe = 100 * c + 4 * q + r
           /\ yoe \div 4 = 25 * c + q /\ yoe \div 100 = c
           /\ ((yoe + 1) % 4 = 0 /\ ((yoe + 1) % 100 # 0 \/ (yoe + 1) % 400 = 0)) => r = 3 /\ (q # 24 \/ c = 3)
<1> DEFINE c == yoe \div 100
           q == (yoe % 100) \div 4
           r == yoe % 4
<1>1. c \in Nat /\ q \in Nat /\ r \in Nat /\ c <= 3 /\ q <= 24 /\ r <= 3
  BY SMT
<1>2. yoe = (100 * c) + (4 * q) + r
  BY SMT
<1>3. yoe \div 4 = (25 * c) + q
  BY SMT
<1>4. ((yoe + 1) % 4 = 0 /\ ((yoe + 1) % 100 # 0 \/ (yoe + 1) % 400 = 0)) => r = 3 /\ (q # 24 \/ c = 3)
  BY SMT
<1>5. yoe \div 100 = c
  OBVIOUS
<1> HIDE DEF c, q, r
<1> QED BY <1>1, <1>2, <1>3, <1>4, <1>5

(* The last day of a year that begins in March is a leap day.              *)
LEMMA OfYearIs ==
  ASSUME NEW y, NEW m, NEW d, Valid(y, m, d)
  PROVE  /\ OfYear(m, d) \in Nat /\ OfYear(m, d) <= 365
         /\ OfYear(m, d) = 365 => Leap(Shifted(y, m) + 1)
         /\ (5 * OfYear(m, d) + 2) \div 153 = March(m)
<1>1. y \in Nat /\ m \in 1 .. 12 /\ d \in Nat /\ 1 <= d /\ d <= Length(y, m)
  BY DEF Valid
<1>2. CASE m = 2
  <2>1. Length(y, m) = (IF Leap(y) THEN 29 ELSE 28) /\ Shifted(y, m) = y - 1 /\ March(m) = 11
    BY <1>2, SMT DEF Length, Shifted, March
  <2>2. OfYear(m, d) = 337 + d - 1
    BY <2>1, MonthsAre, SMT DEF OfYear
  <2>3. (y - 1) + 1 = y
    BY <1>1, SMT
  <2> HIDE DEF Leap
  <2> QED BY <1>1, <2>1, <2>2, <2>3, SMT
<1>3. CASE m # 2
  <2>1. Length(y, m) = IF m \in {4, 6, 9, 11} THEN 30 ELSE 31
    BY <1>3, SMT DEF Length
  <2> QED BY <1>1, <1>3, <2>1, MonthsAre, SMT DEF OfYear, March
<1> QED BY <1>2, <1>3

LEMMA CivilIs ==
  ASSUME NEW y, NEW m, NEW d, Valid(y, m, d)
  PROVE  CivilFromDays(DaysFromCivil(y, m, d)) = <<y, m, d>>
<1> DEFINE s == Shifted(y, m)
           doy == OfYear(m, d)
           era == s \div 400
           yoe == s - era * 400
           z == DaysFromCivil(y, m, d) + 719468
           doe == z - era * 146097
<1>1. y \in Nat /\ m \in 1 .. 12 /\ d \in Nat
  BY DEF Valid
<1>2. s \in Int
  BY <1>1, SMT DEF Shifted
<1>3. doy \in Nat /\ doy <= 365 /\ (doy = 365 => Leap(s + 1)) /\ (5 * doy + 2) \div 153 = March(m)
  BY OfYearIs
<1>4. z = Whole(s) + doy
  <2>1. Whole(s) \in Int
    BY <1>2, SMT DEF Whole
  <2>2. DaysFromCivil(y, m, d) = Whole(s) + doy - 719468
    BY <1>1, DaysAre
  <2> HIDE DEF s, doy
  <2> QED BY <1>3, <2>1, <2>2, SMT
<1> HIDE DEF s, doy
<1>5. /\ era \in Int /\ yoe \in Int /\ 0 <= yoe /\ yoe < 400
      /\ Whole(s) = era * 146097 + yoe * 365 + yoe \div 4 - yoe \div 100
      /\ Leap(s + 1) => (yoe + 1) % 4 = 0 /\ ((yoe + 1) % 100 # 0 \/ (yoe + 1) % 400 = 0)
  <2>1. /\ era \in Int /\ yoe \in Int /\ 0 <= yoe /\ yoe < 400
        /\ Whole(s) = era * 146097 + yoe * 365 + yoe \div 4 - yoe \div 100
    BY <1>2, SMT DEF Whole
  <2>2. Leap(s + 1) => (yoe + 1) % 4 = 0 /\ ((yoe + 1) % 100 # 0 \/ (yoe + 1) % 400 = 0)
    BY <1>2, SMT DEF Leap
  <2> QED BY <2>1, <2>2
<1> HIDE DEF era, yoe, z
<1>6. doe = yoe * 365 + yoe \div 4 - yoe \div 100 + doy
  <2>1. z = era * 146097 + yoe * 365 + yoe \div 4 - yoe \div 100 + doy
    BY <1>4, <1>5
  <2>2. yoe \div 4 \in Int /\ yoe \div 100 \in Int
    BY <1>5, SMT
  <2> QED BY <1>3, <1>5, <2>1, <2>2, SMT
<1>7. PICK c \in Nat, q \in Nat, r \in Nat :
        /\ c <= 3 /\ q <= 24 /\ r <= 3
        /\ yoe = 100 * c + 4 * q + r
        /\ yoe \div 4 = 25 * c + q /\ yoe \div 100 = c
        /\ ((yoe + 1) % 4 = 0 /\ ((yoe + 1) % 100 # 0 \/ (yoe + 1) % 400 = 0)) => r = 3 /\ (q # 24 \/ c = 3)
  BY <1>5, CenturyIs
<1>8. doe = DayOfEra(c, q, r, doy)
  BY <1>3, <1>6, <1>7, SMT DEF DayOfEra
<1>9. 0 <= doe /\ doe < 146097 /\ YearIn(doe) = yoe
  <2>1. doy = 365 => r = 3 /\ (q # 24 \/ c = 3)
    BY <1>3, <1>5, <1>7
  <2> HIDE DEF doe
  <2>2. 0 <= doe /\ doe < 146097 /\ YearIn(doe) = 100 * c + 4 * q + r
    <3>1. doy \in Nat /\ doy <= 365
      BY <1>3
    <3>2. 0 <= DayOfEra(c, q, r, doy) /\ DayOfEra(c, q, r, doy) < 146097
      BY <1>7, <2>1, <3>1, DayInEra
    <3>3. YearIn(DayOfEra(c, q, r, doy)) = 100 * c + 4 * q + r
      BY <1>7, <2>1, <3>1, YearOfEra
    <3> QED BY <1>8, <3>2, <3>3
  <2> QED BY <1>7, <2>2
<1>10. doe \in Int /\ z \in Int
  BY <1>3, <1>4, <1>5, <1>6, SMT
<1>11. z \div 146097 = era
  BY <1>5, <1>9, <1>10, SMT
<1> DEFINE mp == (5 * doy + 2) \div 153
           month == IF mp < 10 THEN mp + 3 ELSE mp - 9
<1>12. mp = March(m) /\ month = m /\ s + (IF month <= 2 THEN 1 ELSE 0) = y /\ doy - (153 * mp + 2) \div 5 + 1 = d
  <2>1. mp = March(m)
    BY <1>3
  <2> HIDE DEF mp
  <2>2. month = m
    BY <1>1, <2>1, SMT DEF March
  <2> HIDE DEF month
  <2>3. s + (IF month <= 2 THEN 1 ELSE 0) = y
    BY <1>1, <2>2, SMT DEF s, Shifted
  <2>4. March(m) \in 0 .. 11
    BY <1>1, SMT DEF March
  <2>5. doy = Before(mp) + d - 1
    BY <2>1 DEF doy, OfYear
  <2>6. doy - (153 * mp + 2) \div 5 + 1 = d
    BY <1>1, <2>1, <2>4, <2>5, SMT DEF Before
  <2> QED BY <2>1, <2>2, <2>3, <2>6
<1>13. doe - (365 * yoe + yoe \div 4 - yoe \div 100) = doy
  BY <1>3, <1>5, <1>6, SMT
<1>14. yoe + era * 400 = s
  BY <1>2, <1>5, SMT DEF yoe
<1>15. CivilFromDays(DaysFromCivil(y, m, d)) =
         <<yoe + era * 400 + (IF month <= 2 THEN 1 ELSE 0), month, doy - (153 * mp + 2) \div 5 + 1>>
  <2>1. CivilFromDays(DaysFromCivil(y, m, d)) =
          LET e == z \div 146097
              n == z - e * 146097
              yo == YearIn(n)
              of == n - (365 * yo + yo \div 4 - yo \div 100)
              mo == (5 * of + 2) \div 153
              mm == IF mo < 10 THEN mo + 3 ELSE mo - 9
          IN <<yo + e * 400 + (IF mm <= 2 THEN 1 ELSE 0), mm, of - (153 * mo + 2) \div 5 + 1>>
    BY DEF CivilFromDays, YearIn, z
  <2> HIDE DEF doe
  <2>2. z - era * 146097 = doe
    BY DEF doe
  <2> QED BY <1>9, <1>11, <1>13, <2>1, <2>2
<1> QED BY <1>12, <1>14, <1>15
-----------------------------------------------------------------------------
(* A day of the calendar: its date is the one civil_from_days gives.       *)
Dated(k, civil) ==
  /\ k \in Int /\ Valid(civil[1], civil[2], civil[3]) /\ civil = <<civil[1], civil[2], civil[3]>>
  /\ DaysFromCivil(civil[1], civil[2], civil[3]) = k /\ CivilFromDays(k) = civil

(* One date is later than another.                                         *)
After(a, b) ==
  \/ a[1] > b[1]
  \/ a[1] = b[1] /\ a[2] > b[2]
  \/ a[1] = b[1] /\ a[2] = b[2] /\ a[3] > b[3]

LEMMA NextDated ==
  ASSUME NEW k, NEW civil, Dated(k, civil)
  PROVE  LET t == Tomorrow(civil[1], civil[2], civil[3]) IN Dated(k + 1, t) /\ After(t, civil)
<1> DEFINE y == civil[1]
           m == civil[2]
           d == civil[3]
           t == Tomorrow(y, m, d)
<1>1. k \in Int /\ Valid(y, m, d) /\ DaysFromCivil(y, m, d) = k
  BY DEF Dated
<1>2. y \in Nat /\ m \in 1 .. 12 /\ d \in Nat
  BY <1>1 DEF Valid
<1> HIDE DEF y, m, d
<1>3. t = <<t[1], t[2], t[3]>>
  BY DEF Tomorrow
<1>4. t[1] > y \/ (t[1] = y /\ t[2] > m) \/ (t[1] = y /\ t[2] = m /\ t[3] > d)
  BY <1>2, SMT DEF Tomorrow
<1>5. Valid(t[1], t[2], t[3]) /\ DaysFromCivil(t[1], t[2], t[3]) = k + 1
  BY <1>1, TomorrowIs
<1> HIDE DEF t
<1>6. CivilFromDays(k + 1) = t
  BY <1>3, <1>5, CivilIs
<1>7. Dated(k + 1, t)
  BY <1>1, <1>3, <1>5, <1>6 DEF Dated
<1>8. After(t, civil)
  BY <1>4 DEF After, y, m, d
<1> QED BY <1>7, <1>8 DEF t, y, m, d

LEMMA AfterAgain ==
  ASSUME NEW a, NEW b, NEW c, NEW j, NEW k, NEW l, Dated(j, a), Dated(k, b), Dated(l, c), After(a, b), After(b, c)
  PROVE  After(a, c)
<1>1. /\ a[1] \in Int /\ a[2] \in Int /\ a[3] \in Int
      /\ b[1] \in Int /\ b[2] \in Int /\ b[3] \in Int
      /\ c[1] \in Int /\ c[2] \in Int /\ c[3] \in Int
  BY DEF Dated, Valid
<1> QED BY <1>1, SMT DEF After

(* So many days on there is a later date.                                  *)
Ahead(n) == \A k, civil : Dated(k, civil) => \E t : Dated(k + n, t) /\ After(t, civil)

LEMMA AheadAgain ==
  ASSUME NEW m \in Nat, NEW n \in Nat, Ahead(m), Ahead(n)
  PROVE  Ahead(m + n)
<1> SUFFICES ASSUME NEW k, NEW civil, Dated(k, civil)
             PROVE  \E t : Dated(k + (m + n), t) /\ After(t, civil)
  BY DEF Ahead
<1>1. PICK b : Dated(k + m, b) /\ After(b, civil)
  BY DEF Ahead
<1>2. PICK a : Dated((k + m) + n, a) /\ After(a, b)
  BY <1>1 DEF Ahead
<1>3. (k + m) + n = k + (m + n)
  BY SMT DEF Dated
<1>4. After(a, civil)
  BY <1>1, <1>2, AfterAgain
<1> QED BY <1>2, <1>3, <1>4

LEMMA MonthAhead == Ahead(1) /\ Ahead(2) /\ Ahead(30)
<1>1. Ahead(1)
  BY NextDated DEF Ahead
<1>2. Ahead(2)
  BY <1>1, AheadAgain
<1>4. Ahead(4)
  BY <1>2, AheadAgain
<1>8. Ahead(8)
  BY <1>4, AheadAgain
<1>16. Ahead(16)
  BY <1>8, AheadAgain
<1>24. Ahead(24)
  BY <1>8, <1>16, AheadAgain
<1>28. Ahead(28)
  BY <1>4, <1>24, AheadAgain
<1>30. Ahead(30)
  BY <1>2, <1>28, AheadAgain
<1> QED BY <1>1, <1>2, <1>30
-----------------------------------------------------------------------------
(* The time of day in parts, and back; of two times the later has the      *)
(* first greater part.                                                     *)
Hour(ms) == ms \div 3600000
Minute(ms) == (ms \div 60000) % 60
Second(ms) == (ms \div 1000) % 60
Rest(ms) == ms % 1000

IsTime(ms) == ms \in Nat /\ ms < DAY

LEMMA PartsAre ==
  ASSUME NEW ms, IsTime(ms)
  PROVE  /\ Hour(ms) \in Int /\ Minute(ms) \in Int /\ Second(ms) \in Int /\ Rest(ms) \in Int
         /\ Hour(ms) <= 23 /\ Minute(ms) <= 59 /\ Second(ms) <= 60
         /\ ((Hour(ms) * 60 + Minute(ms)) * 60 + Second(ms)) * 1000 + Rest(ms) = ms
         /\ ms \div DAY = 0 /\ ms % DAY = ms
  BY SMT DEF Hour, Minute, Second, Rest, IsTime, DAY

LEMMA PartsIn ==
  ASSUME NEW ms, IsTime(ms)
  PROVE  /\ 0 <= Minute(ms) /\ Minute(ms) < 60 /\ 0 <= Second(ms) /\ Second(ms) < 60
         /\ 0 <= Rest(ms) /\ Rest(ms) < 1000
  BY SMT DEF Minute, Second, Rest, IsTime

(* Of two numbers of two digits, to the base 60 or 1000, the greater has   *)
(* the greater first digit, or the same one and the greater second.        *)
Sixties(x, p) == x * 60 + p
Thousands(x, p) == x * 1000 + p

LEMMA MinutesOrdered ==
  ASSUME NEW x \in Int, NEW y \in Int, NEW p \in Int, NEW q \in Int, 0 <= p, p < 60, 0 <= q, q < 60
  PROVE  /\ Sixties(x, p) > Sixties(y, q) <=> x > y \/ (x = y /\ p > q)
         /\ Sixties(x, p) = Sixties(y, q) <=> x = y /\ p = q
<1>1. CASE x > y
  BY <1>1, SMT DEF Sixties, Thousands
<1>2. CASE y > x
  BY <1>2, SMT DEF Sixties, Thousands
<1>3. CASE x = y
  BY <1>3, SMT DEF Sixties, Thousands
<1> QED BY <1>1, <1>2, <1>3, SMT

LEMMA RestsOrdered ==
  ASSUME NEW x \in Int, NEW y \in Int, NEW p \in Int, NEW q \in Int, 0 <= p, p < 1000, 0 <= q, q < 1000
  PROVE  Thousands(x, p) > Thousands(y, q) <=> x > y \/ (x = y /\ p > q)
<1>1. CASE x > y
  BY <1>1, SMT DEF Sixties, Thousands
<1>2. CASE y > x
  BY <1>2, SMT DEF Sixties, Thousands
<1>3. CASE x = y
  BY <1>3, SMT DEF Sixties, Thousands
<1> QED BY <1>1, <1>2, <1>3, SMT

LEMMA PartsOrdered ==
  ASSUME NEW a, NEW b, IsTime(a), IsTime(b)
  PROVE  b > a <=> \/ Hour(b) > Hour(a)
                   \/ Hour(b) = Hour(a) /\ Minute(b) > Minute(a)
                   \/ Hour(b) = Hour(a) /\ Minute(b) = Minute(a) /\ Second(b) > Second(a)
                   \/ Hour(b) = Hour(a) /\ Minute(b) = Minute(a) /\ Second(b) = Second(a) /\ Rest(b) > Rest(a)
<1> DEFINE M(ms) == Sixties(Hour(ms), Minute(ms))
           S(ms) == Sixties(M(ms), Second(ms))
<1>1. /\ Hour(a) \in Int /\ Minute(a) \in Int /\ Second(a) \in Int /\ Rest(a) \in Int
      /\ Hour(b) \in Int /\ Minute(b) \in Int /\ Second(b) \in Int /\ Rest(b) \in Int
      /\ Thousands(S(a), Rest(a)) = a /\ Thousands(S(b), Rest(b)) = b
  BY PartsAre DEF Sixties, Thousands
<1>2. M(a) \in Int /\ M(b) \in Int
  BY <1>1, SMT DEF Sixties
<1>3. /\ 0 <= Minute(a) /\ Minute(a) < 60 /\ 0 <= Second(a) /\ Second(a) < 60 /\ 0 <= Rest(a) /\ Rest(a) < 1000
      /\ 0 <= Minute(b) /\ Minute(b) < 60 /\ 0 <= Second(b) /\ Second(b) < 60 /\ 0 <= Rest(b) /\ Rest(b) < 1000
  BY PartsIn
<1>4. /\ M(b) > M(a) <=> Hour(b) > Hour(a) \/ (Hour(b) = Hour(a) /\ Minute(b) > Minute(a))
      /\ M(b) = M(a) <=> Hour(b) = Hour(a) /\ Minute(b) = Minute(a)
  BY <1>1, <1>3, MinutesOrdered
<1> HIDE DEF M
<1>5. S(a) \in Int /\ S(b) \in Int
  BY <1>1, <1>2, SMT DEF Sixties
<1>6. /\ S(b) > S(a) <=> M(b) > M(a) \/ (M(b) = M(a) /\ Second(b) > Second(a))
      /\ S(b) = S(a) <=> M(b) = M(a) /\ Second(b) = Second(a)
  BY <1>1, <1>2, <1>3, MinutesOrdered
<1> HIDE DEF S
<1>7. b > a <=> S(b) > S(a) \/ (S(b) = S(a) /\ Rest(b) > Rest(a))
  <2>1. Thousands(S(b), Rest(b)) > Thousands(S(a), Rest(a)) <=> S(b) > S(a) \/ (S(b) = S(a) /\ Rest(b) > Rest(a))
    BY <1>1, <1>3, <1>5, RestsOrdered
  <2> QED BY <1>1, <2>1
<1> QED BY <1>4, <1>6, <1>7, Zenon

Written(civil, ms) == <<civil[1], civil[2], civil[3], Hour(ms), Minute(ms), Second(ms), Rest(ms)>>

LEMMA WrittenIs ==
  ASSUME NEW k, NEW civil, Dated(k, civil), NEW ms
  PROVE  FormatIso(<<k, ms>>) = Written(civil, ms)
<1>1. CivilFromDays(k) = civil
  BY DEF Dated
<1> QED BY <1>1 DEF FormatIso, Written, Hour, Minute, Second, Rest

LEMMA ReadBack ==
  ASSUME NEW k, NEW civil, Dated(k, civil), NEW ms, IsTime(ms)
  PROVE  ParseIso(Written(civil, ms)) = << <<k, ms>> >>
<1> DEFINE iso == Written(civil, ms)
<1>1. /\ iso[1] = civil[1] /\ iso[2] = civil[2] /\ iso[3] = civil[3]
      /\ iso[4] = Hour(ms) /\ iso[5] = Minute(ms) /\ iso[6] = Second(ms) /\ iso[7] = Rest(ms)
  BY DEF Written
<1>2. civil[2] \in 1 .. 12 /\ civil[3] \in 1 .. 31
  <2>1. Valid(civil[1], civil[2], civil[3])
    BY DEF Dated
  <2> QED BY <2>1, LengthsAre, SMT DEF Valid
<1>3. DaysFromCivil(civil[1], civil[2], civil[3]) = k /\ k \in Int
  BY DEF Dated
<1>4. /\ Hour(ms) <= 23 /\ Minute(ms) <= 59 /\ Second(ms) <= 60
      /\ ((Hour(ms) * 60 + Minute(ms)) * 60 + Second(ms)) * 1000 + Rest(ms) = ms
      /\ ms \div DAY = 0 /\ ms % DAY = ms
  BY PartsAre
<1> HIDE DEF iso
<1>5. ((iso[4] * 60 + iso[5]) * 60 + iso[6]) * 1000 + iso[7] = ms
  BY <1>1, <1>4
<1>6. iso[2] \in 1 .. 12 /\ iso[3] \in 1 .. 31 /\ iso[4] <= 23 /\ iso[5] <= 59 /\ iso[6] <= 60
  BY <1>1, <1>2, <1>4
<1>7. ParseIso(iso) = << <<DaysFromCivil(iso[1], iso[2], iso[3]) + ms \div DAY, ms % DAY>> >>
  BY <1>5, <1>6 DEF ParseIso
<1>8. DaysFromCivil(iso[1], iso[2], iso[3]) + ms \div DAY = k
  BY <1>1, <1>3, <1>4, SMT
<1>9. ParseIso(iso) = << <<k, ms>> >>
  BY <1>4, <1>7, <1>8
<1> QED BY <1>9 DEF iso

LEMMA LaterIs ==
  ASSUME NEW k, NEW civil, Dated(k, civil), NEW l, NEW next, Dated(l, next),
         NEW a, IsTime(a), NEW b, IsTime(b)
  PROVE  /\ After(next, civil) => Later(Written(next, b), Written(civil, a))
         /\ next = civil => (Later(Written(next, b), Written(civil, a)) <=> b > a)
<1> DEFINE x == Written(next, b)
           z == Written(civil, a)
<1>1. /\ x[1] = next[1] /\ x[2] = next[2] /\ x[3] = next[3]
      /\ x[4] = Hour(b) /\ x[5] = Minute(b) /\ x[6] = Second(b) /\ x[7] = Rest(b)
  BY DEF Written
<1>2. /\ z[1] = civil[1] /\ z[2] = civil[2] /\ z[3] = civil[3]
      /\ z[4] = Hour(a) /\ z[5] = Minute(a) /\ z[6] = Second(a) /\ z[7] = Rest(a)
  BY DEF Written
<1> HIDE DEF x, z
<1>3. Later(x, z) <=> \/ x[1] > z[1]
                      \/ x[1] = z[1] /\ x[2] > z[2]
                      \/ x[1] = z[1] /\ x[2] = z[2] /\ x[3] > z[3]
                      \/ x[1] = z[1] /\ x[2] = z[2] /\ x[3] = z[3] /\ x[4] > z[4]
                      \/ x[1] = z[1] /\ x[2] = z[2] /\ x[3] = z[3] /\ x[4] = z[4] /\ x[5] > z[5]
                      \/ x[1] = z[1] /\ x[2] = z[2] /\ x[3] = z[3] /\ x[4] = z[4] /\ x[5] = z[5] /\ x[6] > z[6]
                      \/ x[1] = z[1] /\ x[2] = z[2] /\ x[3] = z[3] /\ x[4] = z[4] /\ x[5] = z[5] /\ x[6] = z[6]
                         /\ x[7] > z[7]
  BY SMT DEF Later
<1>4. After(next, civil) => Later(x, z)
  BY <1>1, <1>2, <1>3 DEF After
<1>5. ASSUME next = civil
      PROVE  Later(x, z) <=> b > a
  <2>1. x[1] = z[1] /\ x[2] = z[2] /\ x[3] = z[3] /\ ~(x[1] > z[1]) /\ ~(x[2] > z[2]) /\ ~(x[3] > z[3])
    <3>1. civil[1] \in Int /\ civil[2] \in Int /\ civil[3] \in Int
      BY SMT DEF Dated, Valid
    <3> QED BY <1>1, <1>2, <1>5, <3>1, SMT
  <2> QED BY <1>1, <1>2, <1>3, <2>1, PartsOrdered
<1> QED BY <1>4, <1>5 DEF x, z

LEMMA TwoNotOne == ASSUME NEW x, NEW y, NEW z PROVE <<x, y>> # <<z>>
<1>1. Len(<<x, y>>) = 2 /\ Len(<<z>>) = 1
  OBVIOUS
<1> QED BY <1>1

LEMMA ToldIs ==
  ASSUME NEW k \in Int, NEW iso, NEW a, IsTime(a), NEW b, IsTime(b), ParseIso(iso) = << <<k, a>> >>,
         NEW n \in {0, 1, 2, 30}
  PROVE  RelativeDate(iso, <<k + n, b>>) = <<"today">> <=> n = 0 \/ (n = 1 /\ b < a)
<1> DEFINE elapsed == (k + n) - k - (IF b < a THEN 1 ELSE 0)
<1>1. elapsed = n - (IF b < a THEN 1 ELSE 0)
  BY SMT
<1>2. RelativeDate(iso, <<k + n, b>>) =
        IF elapsed <= 0 THEN <<"today">>
        ELSE IF elapsed = 1 THEN <<"yesterday">>
        ELSE IF elapsed <= 29 THEN <<elapsed, "days ago">>
        ELSE <<"on", iso[1], iso[2], iso[3]>>
  BY DEF RelativeDate
<1> HIDE DEF elapsed
<1>3. elapsed <= 0 <=> n = 0 \/ (n = 1 /\ b < a)
  BY <1>1, SMT
<1> DEFINE says == RelativeDate(iso, <<k + n, b>>)
<1>4. CASE elapsed <= 0
  <2>1. says = <<"today">>
    BY <1>2, <1>4
  <2> QED BY <1>3, <1>4, <2>1
<1>5. CASE ~(elapsed <= 0)
  <2>1. CASE elapsed = 1
    <3>1. says[1] = "yesterday"
      BY <1>2, <1>5, <2>1
    <3> QED BY <1>3, <1>5, <3>1
  <2>2. CASE elapsed # 1 /\ elapsed <= 29
    <3>1. says = <<elapsed, "days ago">>
      BY <1>2, <1>5, <2>2
    <3>2. <<elapsed, "days ago">> # <<"today">>
      BY TwoNotOne
    <3> QED BY <1>3, <1>5, <3>1, <3>2
  <2>3. CASE elapsed # 1 /\ ~(elapsed <= 29)
    <3>1. says[1] = "on"
      BY <1>2, <1>5, <2>3
    <3> QED BY <1>3, <1>5, <3>1
  <2> QED BY <2>1, <2>2, <2>3
<1> QED BY <1>4, <1>5
-----------------------------------------------------------------------------
LEMMA FirstDated ==
  ASSUME NEW y \in Nat
  PROVE  Dated(NewYear(y), <<y, 1, 1>>)
<1>1. Valid(y, 1, 1)
  BY SMT DEF Valid, Length
<1>2. Shifted(y, 1) = y - 1 /\ OfYear(1, 1) = 306
  BY SMT DEF Shifted, OfYear, Before, March
<1>3. DaysFromCivil(y, 1, 1) = Whole(y - 1) + 306 - 719468
  BY <1>2, DaysAre, SMT
<1>4. Whole(y - 1) + 306 - 719468 = NewYear(y)
  BY SMT DEF Whole, NewYear
<1>5. NewYear(y) \in Int
  BY SMT DEF NewYear
<1>6. DaysFromCivil(y, 1, 1) = NewYear(y)
  BY <1>3, <1>4
<1>7. CivilFromDays(NewYear(y)) = <<y, 1, 1>>
  BY <1>1, <1>5, <1>6, CivilIs
<1> QED BY <1>1, <1>5, <1>6, <1>7 DEF Dated

(* On a day of the calendar everything said of the texts is so.            *)
LEMMA DatedRight ==
  ASSUME Dated(day, date)
  PROVE  CalendarRight
<1>1. CivilFromDays(day) = date /\ day \in Int
  BY DEF Dated
<1> SUFFICES ASSUME NEW a \in Times, NEW b \in Times
             PROVE  LET opened == FormatIso(<<day, a>>)
                    IN  /\ ParseIso(opened) = << <<day, a>> >>
                        /\ \A n \in {0, 1, 2, 30} :
                             /\ Later(FormatIso(<<day + n, b>>), opened) <=> n > 0 \/ b > a
                             /\ RelativeDate(opened, <<day + n, b>>) = <<"today">> <=> n = 0 \/ (n = 1 /\ b < a)
  BY <1>1 DEF CalendarRight
<1>2. IsTime(a) /\ IsTime(b)
  <2>1. DAY \in Nat
    BY SMT DEF DAY
  <2> QED BY <2>1, DatesAssumption, SMT DEF IsTime
<1> DEFINE opened == FormatIso(<<day, a>>)
<1>3. opened = Written(date, a)
  BY WrittenIs
<1> HIDE DEF opened
<1>4. ParseIso(opened) = << <<day, a>> >>
  BY <1>2, <1>3, ReadBack
<1>5. ASSUME NEW n \in {0, 1, 2, 30}
      PROVE  /\ Later(FormatIso(<<day + n, b>>), opened) <=> n > 0 \/ b > a
             /\ RelativeDate(opened, <<day + n, b>>) = <<"today">> <=> n = 0 \/ (n = 1 /\ b < a)
  <2>1. RelativeDate(opened, <<day + n, b>>) = <<"today">> <=> n = 0 \/ (n = 1 /\ b < a)
    BY <1>1, <1>2, <1>4, ToldIs
  <2>2. CASE n = 0
    <3>1. day + n = day
      BY <1>1, <2>2, SMT
    <3>2. FormatIso(<<day + n, b>>) = Written(date, b)
      BY <3>1, WrittenIs
    <3>3. Later(FormatIso(<<day + n, b>>), opened) <=> b > a
      BY <1>2, <1>3, <3>2, LaterIs
    <3>4. ~(n > 0)
      BY <2>2, SMT
    <3> QED BY <2>1, <3>3, <3>4
  <2>3. CASE n # 0
    <3>1. Ahead(n)
      BY <1>5, <2>3, MonthAhead
    <3>2. PICK next : Dated(day + n, next) /\ After(next, date)
      BY <3>1 DEF Ahead
    <3>3. FormatIso(<<day + n, b>>) = Written(next, b)
      BY <3>2, WrittenIs
    <3>4. Later(FormatIso(<<day + n, b>>), opened)
      BY <1>2, <1>3, <3>2, <3>3, LaterIs
    <3>5. n > 0
      BY <2>3, SMT
    <3> QED BY <2>1, <3>4, <3>5
  <2> QED BY <2>2, <2>3
<1> QED BY <1>4, <1>5 DEF opened

(* CalendarRight holds of every walk: every date civil_from_days gives is  *)
(* the calendar's, what format_iso writes parse_iso reads back as the same *)
(* moment, the texts sort as the moments do, and relative_date says        *)
(* "today" of just what is less than a day old.                            *)
THEOREM CalendarRightHolds == DateSpec => []CalendarRight
<1>1. DateInit => Dated(day, date)
  BY DatesAssumption, FirstDated DEF DateInit
<1>2. Dated(day, date) /\ [DateNext]_dateVars => Dated(day, date)'
  <2> SUFFICES ASSUME Dated(day, date), [DateNext]_dateVars
               PROVE  Dated(day', date')
    BY DEF Dated, Valid, Length, Leap, DaysFromCivil, CivilFromDays
  <2>1. CASE NextDay
    BY <2>1, NextDated DEF NextDay
  <2>2. CASE UNCHANGED dateVars
    BY <2>2 DEF dateVars
  <2> QED BY <2>1, <2>2 DEF DateNext
<1> QED BY <1>1, <1>2, DatedRight, PTL DEF DateSpec
-----------------------------------------------------------------------------
(* The keyring worker keeps its promise (PasswordStore) for any number of  *)
(* computers, places and passwords and any length of the queue. The promise *)
(* counts a change as made when it is asked for: what is kept is the       *)
(* outcome of the queue. So the proof is about runs of requests: what one  *)
(* more at the end does to the outcome, and that carrying out the first of *)
(* them leaves it as it was.                                               *)

(* A nonempty set of indices has a last one.                               *)
LEMMA LastExists ==
  ASSUME NEW L \in Nat, NEW S \in SUBSET (1 .. L), S # {}
  PROVE  \E n \in S : \A m \in S : m <= n
<1> DEFINE T == {L - n : n \in S}
<1>1. T # {}
  OBVIOUS
<1>2. ASSUME NEW n \in S PROVE L - n \in Nat /\ n \in Int
  <2>1. n \in 1 .. L
    OBVIOUS
  <2> QED BY <2>1
<1>3. T \subseteq Nat
  BY <1>2
<1>4. PICK x \in T : \A y \in T : <<y, x>> \notin Less
  <2> HIDE DEF T
  <2> QED BY <1>1, <1>3, LessWellFounded, WFMin
<1>5. PICK n \in S : x = L - n
  OBVIOUS
<1>6. ASSUME NEW m \in S PROVE m <= n
  <2>1. L - m \in T /\ L - m \in Nat /\ L - n \in Nat /\ m \in Int /\ n \in Int
    BY <1>2
  <2>2. ~(L - m < L - n)
    BY <1>4, <1>5, <2>1, InLess
  <2> QED BY <2>1, <2>2
<1> QED BY <1>6

-----------------------------------------------------------------------------
(* Requests and the outcome of a run of them.                              *)

LEMMA RequestFields ==
  ASSUME NEW r \in Request
  PROVE  /\ r.key \in Credentials /\ r.secret \in Secrets \cup {None} /\ r.ticket \in Tickets
         /\ r.key.profile \in Profiles
         /\ r.op \in {"get", "has", "set", "delete"}
  BY DEF Request, Credentials

(* Outcome and LegacyOutcome, of any run of requests and any keyring.      *)
ChangesOf(p, key) == {n \in DOMAIN p : Changes(p[n]) /\ p[n].key = key}
IsLast(n, S) == n \in S /\ \A m \in S : m <= n
OutcomeOf(p, it, key) ==
  IF ChangesOf(p, key) = {} THEN it[key]
  ELSE p[CHOOSE n \in ChangesOf(p, key) : \A m \in ChangesOf(p, key) : m <= n].secret
LegacyOf(p, old) == {q \in old : \A n \in DOMAIN p : Changes(p[n]) => p[n].key.profile # q}

LEMMA IndicesAreNumbers ==
  ASSUME NEW p \in Seq(Request), NEW key
  PROVE  /\ Len(p) \in Nat /\ DOMAIN p = 1 .. Len(p)
         /\ ChangesOf(p, key) \in SUBSET (1 .. Len(p))
  BY DEF ChangesOf

LEMMA OutcomeOfLast ==
  ASSUME NEW p \in Seq(Request), NEW it, NEW key, NEW n, IsLast(n, ChangesOf(p, key))
  PROVE  OutcomeOf(p, it, key) = p[n].secret
<1> DEFINE S == ChangesOf(p, key)
           c == CHOOSE i \in S : \A m \in S : m <= i
<1>1. c \in S /\ \A m \in S : m <= c
  BY DEF IsLast
<1>2. n \in S /\ \A m \in S : m <= n
  BY DEF IsLast
<1>3. c \in 1 .. Len(p) /\ n \in 1 .. Len(p) /\ Len(p) \in Nat
  BY <1>1, <1>2, IndicesAreNumbers
<1>4. c <= n /\ n <= c
  BY <1>1, <1>2
<1>5. c = n
  BY <1>3, <1>4
<1> QED BY <1>2, <1>5 DEF OutcomeOf

LEMMA LastOfChanges ==
  ASSUME NEW p \in Seq(Request), NEW key, ChangesOf(p, key) # {}
  PROVE  \E n \in 1 .. Len(p) : IsLast(n, ChangesOf(p, key))
<1>1. \E n \in ChangesOf(p, key) : \A m \in ChangesOf(p, key) : m <= n
  <2> DEFINE S == ChangesOf(p, key)
  <2>1. S \in SUBSET (1 .. Len(p)) /\ Len(p) \in Nat /\ S # {}
    BY IndicesAreNumbers
  <2> HIDE DEF S
  <2>2. \E n \in S : \A m \in S : m <= n
    BY <2>1, LastExists
  <2> QED BY <2>2 DEF S
<1> QED BY <1>1, IndicesAreNumbers DEF IsLast

(* An outcome is a password, or none.                                      *)
LEMMA OutcomeType ==
  ASSUME NEW p \in Seq(Request), NEW it \in [Credentials -> Secrets \cup {None}], NEW key \in Credentials
  PROVE  OutcomeOf(p, it, key) \in Secrets \cup {None}
<1>1. CASE ChangesOf(p, key) = {}
  BY <1>1 DEF OutcomeOf
<1>2. CASE ChangesOf(p, key) # {}
  <2>1. PICK n \in 1 .. Len(p) : IsLast(n, ChangesOf(p, key))
    BY <1>2, LastOfChanges
  <2>2. p[n] \in Request
    BY ElementOfSeq
  <2> QED BY <2>1, <2>2, OutcomeOfLast, RequestFields
<1> QED BY <1>1, <1>2

(* One more request decides the outcome of the password it changes.        *)
LEMMA OutcomeAppend ==
  ASSUME NEW p \in Seq(Request), NEW r \in Request, NEW it, NEW key
  PROVE  OutcomeOf(Append(p, r), it, key) =
           IF Changes(r) /\ r.key = key THEN r.secret ELSE OutcomeOf(p, it, key)
<1> DEFINE q == Append(p, r)
           S == ChangesOf(p, key)
<1>1. /\ q \in Seq(Request) /\ Len(p) \in Nat
      /\ DOMAIN p = 1 .. Len(p) /\ DOMAIN q = 1 .. (Len(p) + 1)
      /\ q[Len(p) + 1] = r /\ \A n \in 1 .. Len(p) : q[n] = p[n]
  BY AppendProperties
<1>2. S \subseteq 1 .. Len(p)
  BY IndicesAreNumbers
<1> HIDE DEF q
<1>3. CASE Changes(r) /\ r.key = key
  <2>1. Len(p) + 1 \in ChangesOf(q, key)
    BY <1>1, <1>3 DEF ChangesOf
  <2>2. ASSUME NEW m \in ChangesOf(q, key) PROVE m <= Len(p) + 1
    BY <1>1 DEF ChangesOf
  <2>3. IsLast(Len(p) + 1, ChangesOf(q, key))
    BY <2>1, <2>2 DEF IsLast
  <2>4. OutcomeOf(q, it, key) = q[Len(p) + 1].secret
    BY <1>1, <2>3, OutcomeOfLast
  <2> QED BY <1>1, <1>3, <2>4 DEF q
<1>4. CASE ~(Changes(r) /\ r.key = key)
  <2>1. ChangesOf(q, key) = S
    <3>1. ASSUME NEW n \in ChangesOf(q, key) PROVE n \in S
      <4>1. n \in 1 .. (Len(p) + 1) /\ Changes(q[n]) /\ q[n].key = key
        BY <1>1 DEF ChangesOf
      <4>2. n # Len(p) + 1
        BY <1>1, <1>4, <4>1
      <4>3. n \in 1 .. Len(p)
        BY <1>1, <4>1, <4>2
      <4> QED BY <1>1, <4>1, <4>3 DEF ChangesOf
    <3>2. ASSUME NEW n \in S PROVE n \in ChangesOf(q, key)
      <4>1. n \in 1 .. Len(p) /\ n \in 1 .. (Len(p) + 1) /\ q[n] = p[n]
        BY <1>1, <1>2
      <4> QED BY <1>1, <4>1 DEF ChangesOf
    <3> QED BY <3>1, <3>2
  <2>2. CASE S = {}
    BY <1>4, <2>1, <2>2 DEF OutcomeOf, q
  <2>3. CASE S # {}
    <3>1. PICK n \in 1 .. Len(p) : IsLast(n, S)
      BY <2>3, LastOfChanges
    <3>2. OutcomeOf(p, it, key) = p[n].secret
      BY <3>1, OutcomeOfLast
    <3>3. OutcomeOf(q, it, key) = q[n].secret
      BY <1>1, <2>1, <3>1, OutcomeOfLast
    <3> QED BY <1>1, <1>4, <3>1, <3>2, <3>3 DEF q
  <2> QED BY <2>2, <2>3
<1> QED BY <1>3, <1>4

(* A run of requests with one put before it.                               *)
LEMMA HeadOfRun ==
  ASSUME NEW p \in Seq(Request), NEW r \in Request
  PROVE  /\ <<r>> \o p \in Seq(Request) /\ Len(p) \in Nat
         /\ DOMAIN p = 1 .. Len(p) /\ DOMAIN (<<r>> \o p) = 1 .. (Len(p) + 1)
         /\ (<<r>> \o p)[1] = r /\ \A n \in 1 .. Len(p) : (<<r>> \o p)[n + 1] = p[n]
<1> DEFINE q == <<r>> \o p
<1>1. <<r>> \in Seq(Request) /\ Len(<<r>>) = 1 /\ <<r>>[1] = r /\ Len(p) \in Nat
  OBVIOUS
<1>2. q \in Seq(Request) /\ Len(q) = 1 + Len(p)
  BY <1>1, ConcatProperties
<1>3. \A n \in 1 .. Len(q) : q[n] = IF n <= 1 THEN <<r>>[n] ELSE p[n - 1]
  BY <1>1, ConcatProperties
<1> HIDE DEF q
<1>4. DOMAIN p = 1 .. Len(p) /\ DOMAIN q = 1 .. (Len(p) + 1)
  BY <1>1, <1>2
<1>5. q[1] = r
  BY <1>1, <1>2, <1>3
<1>6. ASSUME NEW n \in 1 .. Len(p) PROVE q[n + 1] = p[n]
  BY <1>1, <1>2, <1>3
<1> QED BY <1>1, <1>2, <1>4, <1>5, <1>6 DEF q

(* A request has the same outcome carried out as waiting.                  *)
Carry(r, it) == IF Changes(r) THEN [it EXCEPT ![r.key] = r.secret] ELSE it

LEMMA OutcomeHead ==
  ASSUME NEW p \in Seq(Request), NEW r \in Request,
         NEW it \in [Credentials -> Secrets \cup {None}], NEW key \in Credentials
  PROVE  OutcomeOf(<<r>> \o p, it, key) = OutcomeOf(p, Carry(r, it), key)
<1> DEFINE q == <<r>> \o p
           S == ChangesOf(p, key)
<1>1. /\ q \in Seq(Request) /\ Len(p) \in Nat
      /\ DOMAIN p = 1 .. Len(p) /\ DOMAIN q = 1 .. (Len(p) + 1)
      /\ q[1] = r /\ \A n \in 1 .. Len(p) : q[n + 1] = p[n]
  BY HeadOfRun
<1> HIDE DEF q
<1>2. S \subseteq 1 .. Len(p)
  BY IndicesAreNumbers
<1>3. ASSUME NEW n \in 1 .. Len(p) PROVE n \in S <=> n + 1 \in ChangesOf(q, key)
  <2>1. n + 1 \in 1 .. (Len(p) + 1) /\ q[n + 1] = p[n]
    BY <1>1
  <2> QED BY <1>1, <2>1 DEF ChangesOf
<1>4. CASE S # {}
  <2>1. PICK n \in 1 .. Len(p) : IsLast(n, S)
    BY <1>4, LastOfChanges
  <2>2. n + 1 \in ChangesOf(q, key)
    BY <1>3, <2>1 DEF IsLast
  <2>3. ASSUME NEW m \in ChangesOf(q, key) PROVE m <= n + 1
    <3>1. m \in 1 .. (Len(p) + 1)
      BY <1>1 DEF ChangesOf
    <3>2. CASE m = 1
      BY <1>1, <3>2
    <3>3. CASE m # 1
      <4>1. m - 1 \in 1 .. Len(p) /\ (m - 1) + 1 = m
        BY <1>1, <3>1, <3>3
      <4>2. m - 1 \in S
        BY <1>3, <4>1
      <4>3. m - 1 <= n
        BY <2>1, <4>2 DEF IsLast
      <4> QED BY <1>1, <3>1, <4>3
    <3> QED BY <3>2, <3>3
  <2>4. IsLast(n + 1, ChangesOf(q, key))
    BY <2>2, <2>3 DEF IsLast
  <2>5. OutcomeOf(q, it, key) = q[n + 1].secret
    BY <1>1, <2>4, OutcomeOfLast
  <2>6. OutcomeOf(p, Carry(r, it), key) = p[n].secret
    BY <2>1, OutcomeOfLast
  <2> QED BY <1>1, <2>5, <2>6 DEF q
<1>5. CASE S = {} /\ Changes(r) /\ r.key = key
  <2>1. 1 \in ChangesOf(q, key)
    BY <1>1, <1>5 DEF ChangesOf
  <2>2. ASSUME NEW m \in ChangesOf(q, key) PROVE m <= 1
    <3>1. m \in 1 .. (Len(p) + 1)
      BY <1>1 DEF ChangesOf
    <3>2. CASE m # 1
      <4>1. m - 1 \in 1 .. Len(p) /\ (m - 1) + 1 = m
        BY <1>1, <3>1, <3>2
      <4> QED BY <1>3, <1>5, <4>1
    <3> QED BY <3>2
  <2>3. OutcomeOf(q, it, key) = q[1].secret
    BY <1>1, <2>1, <2>2, OutcomeOfLast DEF IsLast
  <2>4. OutcomeOf(p, Carry(r, it), key) = r.secret
    BY <1>5 DEF OutcomeOf, Carry
  <2> QED BY <1>1, <2>3, <2>4 DEF q
<1>6. CASE S = {} /\ ~(Changes(r) /\ r.key = key)
  <2>1. ChangesOf(q, key) = {}
    <3> SUFFICES ASSUME NEW m \in ChangesOf(q, key) PROVE FALSE
      OBVIOUS
    <3>1. m \in 1 .. (Len(p) + 1) /\ Changes(q[m]) /\ q[m].key = key
      BY <1>1 DEF ChangesOf
    <3>2. m # 1
      BY <1>1, <1>6, <3>1
    <3>3. m - 1 \in 1 .. Len(p) /\ (m - 1) + 1 = m
      BY <1>1, <3>1, <3>2
    <3> QED BY <1>3, <1>6, <3>3
  <2>2. OutcomeOf(q, it, key) = it[key]
    BY <2>1 DEF OutcomeOf
  <2>3. Carry(r, it)[key] = it[key]
    BY <1>6 DEF Carry
  <2> QED BY <1>6, <2>2, <2>3 DEF OutcomeOf, q
<1> QED BY <1>4, <1>5, <1>6

LEMMA LegacyAppend ==
  ASSUME NEW p \in Seq(Request), NEW r \in Request, NEW old
  PROVE  LegacyOf(Append(p, r), old) =
           IF Changes(r) THEN LegacyOf(p, old) \ {r.key.profile} ELSE LegacyOf(p, old)
<1> DEFINE q == Append(p, r)
<1>1. /\ Len(p) \in Nat /\ DOMAIN p = 1 .. Len(p) /\ DOMAIN q = 1 .. (Len(p) + 1)
      /\ q[Len(p) + 1] = r /\ \A n \in 1 .. Len(p) : q[n] = p[n]
  BY AppendProperties
<1>2. DOMAIN q = DOMAIN p \cup {Len(p) + 1}
  BY <1>1
<1> HIDE DEF q
<1>3. ASSUME NEW x
      PROVE  (\A n \in DOMAIN q : Changes(q[n]) => q[n].key.profile # x)
               <=> /\ \A n \in DOMAIN p : Changes(p[n]) => p[n].key.profile # x
                   /\ Changes(r) => r.key.profile # x
  BY <1>1, <1>2
<1>4. LegacyOf(q, old) = IF Changes(r) THEN LegacyOf(p, old) \ {r.key.profile} ELSE LegacyOf(p, old)
  BY <1>3 DEF LegacyOf
<1> QED BY <1>4 DEF q

LEMMA LegacyHead ==
  ASSUME NEW p \in Seq(Request), NEW r \in Request, NEW old
  PROVE  LegacyOf(<<r>> \o p, old) =
           LegacyOf(p, IF Changes(r) THEN old \ {r.key.profile} ELSE old)
<1> DEFINE q == <<r>> \o p
<1>1. /\ Len(p) \in Nat /\ DOMAIN p = 1 .. Len(p) /\ DOMAIN q = 1 .. (Len(p) + 1)
      /\ q[1] = r /\ \A n \in 1 .. Len(p) : q[n + 1] = p[n]
  BY HeadOfRun
<1> HIDE DEF q
<1>2. ASSUME NEW x
      PROVE  (\A n \in DOMAIN q : Changes(q[n]) => q[n].key.profile # x)
               <=> /\ \A n \in DOMAIN p : Changes(p[n]) => p[n].key.profile # x
                   /\ Changes(r) => r.key.profile # x
  <2>1. ASSUME \A n \in DOMAIN q : Changes(q[n]) => q[n].key.profile # x
        PROVE  /\ \A n \in DOMAIN p : Changes(p[n]) => p[n].key.profile # x
               /\ Changes(r) => r.key.profile # x
    <3>1. ASSUME NEW n \in DOMAIN p, Changes(p[n]) PROVE p[n].key.profile # x
      <4>1. n + 1 \in DOMAIN q /\ q[n + 1] = p[n]
        BY <1>1
      <4> QED BY <2>1, <3>1, <4>1
    <3>2. 1 \in DOMAIN q
      BY <1>1
    <3> QED BY <1>1, <2>1, <3>1, <3>2
  <2>2. ASSUME \A n \in DOMAIN p : Changes(p[n]) => p[n].key.profile # x,
               Changes(r) => r.key.profile # x,
               NEW m \in DOMAIN q, Changes(q[m])
        PROVE  q[m].key.profile # x
    <3>1. CASE m = 1
      BY <1>1, <2>2, <3>1
    <3>2. CASE m # 1
      <4>1. m - 1 \in DOMAIN p /\ (m - 1) + 1 = m
        BY <1>1, <3>2
      <4>2. q[m] = p[m - 1]
        BY <1>1, <4>1
      <4> QED BY <2>2, <4>1, <4>2
    <3> QED BY <3>1, <3>2
  <2> QED BY <2>1, <2>2
<1>3. LegacyOf(q, old) = LegacyOf(p, IF Changes(r) THEN old \ {r.key.profile} ELSE old)
  BY <1>2 DEF LegacyOf
<1> QED BY <1>3 DEF q

-----------------------------------------------------------------------------
(* Type correctness.                                                       *)

(* Every variable of the worker keeps its type, and the queue its limit    *)
(* (keyring.rs, run): it is the base of the refinement below.              *)
THEOREM TypeCorrect == Spec => []TypeOK
<1>1. Init => TypeOK
  <2> SUFFICES ASSUME Init PROVE TypeOK
    OBVIOUS
  <2>1. queue \in Seq(Request) /\ Len(queue) = 0
    BY DEF Init
  <2> QED BY <2>1, KeyringAssumption DEF Init, TypeOK
<1>2. TypeOK /\ [Next]_vars => TypeOK'
  <2> SUFFICES ASSUME TypeOK, [Next]_vars PROVE TypeOK'
    OBVIOUS
  <2>1. ASSUME NEW request \in Request, Submit(request) PROVE TypeOK'
    <3>1. queue' \in Seq(Request) /\ Len(queue') = Len(queue) + 1
      BY <2>1, AppendProperties DEF Submit, TypeOK
    <3>2. Len(queue) \in Nat /\ Len(queue) < MAX_PENDING_REQUESTS
      BY <2>1, LenProperties DEF Submit, TypeOK
    <3>3. Len(queue') <= MAX_PENDING_REQUESTS
      BY <3>1, <3>2, KeyringAssumption
    <3> QED BY <2>1, <3>1, <3>3 DEF Submit, TypeOK
  <2>2. ASSUME NEW request \in Request, SubmitBusy(request) PROVE TypeOK'
    <3>1. ReplyTo(request, Failed) \in Reply
      BY RequestFields DEF ReplyTo, Reply
    <3>2. Troubled(request) \subseteq Credentials
      BY RequestFields DEF Troubled
    <3> QED BY <2>2, <3>1, <3>2 DEF SubmitBusy, TypeOK
  <2>3. CASE Receive
    BY <2>3 DEF Receive, TypeOK
  <2>4. CASE Take
    <3>1. /\ Head(queue) \in Request /\ Tail(queue) \in Seq(Request)
          /\ Len(Tail(queue)) = Len(queue) - 1 /\ Len(queue) \in Nat
      BY <2>4, HeadTailProperties, LenProperties DEF Take, TypeOK
    <3>2. Len(Tail(queue)) <= MAX_PENDING_REQUESTS
      BY <3>1, KeyringAssumption DEF TypeOK
    <3> QED BY <2>4, <3>1, <3>2 DEF Take, TypeOK
  <2>5. ASSUME working \in Request, NEW result \in Secrets \cup {None, Done, Failed}, Answer(result)
        PROVE  /\ working' \in Request \cup {None} /\ replies' \subseteq Reply
               /\ queue' \in Seq(Request) /\ Len(queue') <= MAX_PENDING_REQUESTS
    <3>1. ReplyTo(working, result) \in Reply
      BY <2>5, RequestFields DEF ReplyTo, Reply
    <3> QED BY <2>5, <3>1 DEF Answer, TypeOK
  <2>6. ASSUME working \in Request, Carried(working)
        PROVE  items' \in [Credentials -> Secrets \cup {None}] /\ legacy' \subseteq Profiles
    <3>1. working.key \in Credentials /\ working.secret \in Secrets \cup {None}
      BY <2>6, RequestFields
    <3> QED BY <2>6, <3>1 DEF Carried, TypeOK
  <2>7. CASE Perform
    <3>1. working \in Request
      BY <2>7 DEF Perform, TypeOK
    <3>2. Found(working) \in Secrets \cup {None, Done, Failed}
      <4>1. items[working.key] \in Secrets \cup {None}
        BY <3>1, RequestFields DEF TypeOK
      <4>2. CASE working.op = "get"
        BY <4>1, <4>2 DEF Found
      <4>3. CASE working.op = "has"
        BY <4>3 DEF Found
      <4>4. CASE working.op # "get" /\ working.op # "has"
        BY <4>4 DEF Found
      <4> QED BY <4>2, <4>3, <4>4
    <3>3. Answer(Found(working)) /\ UNCHANGED trouble
      BY <2>7 DEF Perform
    <3>4. items' \in [Credentials -> Secrets \cup {None}] /\ legacy' \subseteq Profiles
      BY <2>6, <2>7, <3>1 DEF Perform, TypeOK
    <3>5. trouble' \subseteq Credentials
      BY <3>3 DEF TypeOK
    <3> QED BY <2>5, <3>1, <3>2, <3>3, <3>4, <3>5 DEF TypeOK
  <2>8. CASE Fail
    <3>1. working \in Request /\ working.key \in Credentials
      BY <2>8, RequestFields DEF Fail, TypeOK
    <3>2. Answer(Failed)
      BY <2>8 DEF Fail
    <3>3. items' \in [Credentials -> Secrets \cup {None}] /\ legacy' \subseteq Profiles
      <4>1. CASE UNCHANGED <<items, legacy>>
        BY <4>1 DEF TypeOK
      <4>2. CASE legacy' = legacy \ {working.key.profile} /\ UNCHANGED items
        BY <4>2 DEF TypeOK
      <4>3. CASE items' = [items EXCEPT ![working.key] = None] /\ UNCHANGED legacy
        BY <3>1, <4>3 DEF TypeOK
      <4>4. CASE Carried(working)
        BY <2>6, <3>1, <4>4
      <4> QED BY <2>8, <4>1, <4>2, <4>3, <4>4 DEF Fail
    <3>4. trouble' \subseteq Credentials
      <4>1. Troubled(working) \subseteq Credentials
        BY <3>1 DEF Troubled
      <4> QED BY <2>8, <4>1 DEF Fail, TypeOK
    <3> QED BY <2>5, <3>1, <3>2, <3>3, <3>4 DEF TypeOK
  <2>9. CASE UNCHANGED vars
    BY <2>9 DEF vars, TypeOK
  <2> QED BY <2>1, <2>2, <2>3, <2>4, <2>7, <2>8, <2>9 DEF Next
<1> QED BY <1>1, <1>2, PTL DEF Spec

-----------------------------------------------------------------------------
(* Refinement.                                                             *)

Kept == [key \in Credentials |-> Outcome(key)]

LEMMA OutcomeNow == \A key : Outcome(key) = OutcomeOf(Pending, items, key)
  BY DEF Outcome, Words, OutcomeOf, ChangesOf

LEMMA LegacyNow == LegacyOutcome = LegacyOf(Pending, legacy)
  BY DEF LegacyOutcome, LegacyOf

LEMMA OutcomeThen == \A key : Outcome(key)' = OutcomeOf(Pending', items', key)
  BY DEF Outcome, Words, OutcomeOf, ChangesOf

LEMMA LegacyThen == LegacyOutcome' = LegacyOf(Pending', legacy')
  BY DEF LegacyOutcome, LegacyOf

LEMMA PendingType ==
  ASSUME TypeOK
  PROVE  /\ Pending \in Seq(Request)
         /\ working # None => working \in Request /\ Pending = <<working>> \o queue
         /\ working = None => Pending = queue
<1>1. queue \in Seq(Request) /\ working \in Request \cup {None}
  BY DEF TypeOK
<1>2. CASE working = None
  BY <1>1, <1>2, EmptySeq, ConcatEmptySeq DEF Pending
<1>3. CASE working # None
  BY <1>1, <1>3, HeadOfRun DEF Pending
<1> QED BY <1>2, <1>3

(* What the window sees stays as it is when nothing it depends on changes. *)
LEMMA Unmoved ==
  ASSUME Pending' = Pending, UNCHANGED <<items, legacy, trouble>>
  PROVE  UNCHANGED Store!storeVars
<1>1. \A key : Outcome(key)' = Outcome(key)
  BY OutcomeNow, OutcomeThen
<1>2. LegacyOutcome' = LegacyOutcome
  BY LegacyNow, LegacyThen
<1>3. Kept' = Kept
  BY <1>1 DEF Kept
<1> QED BY <1>2, <1>3 DEF Store!storeVars, Kept

(* A change is made when it is asked for, and a question changes nothing.  *)
LEMMA SubmitStep ==
  ASSUME TypeOK, NEW request \in Request, Submit(request)
  PROVE  StoreStep
<1>1. Pending \in Seq(Request) /\ queue \in Seq(Request) /\ working \in Request \cup {None}
  BY PendingType DEF TypeOK
<1>2. /\ queue' = Append(queue, request)
      /\ UNCHANGED <<items, legacy, working, trouble>>
  BY DEF Submit
<1>3. Pending' = Append(Pending, request)
  <2>1. CASE working = None
    <3>1. Pending' = queue' /\ Pending = queue
      BY <1>1, <1>2, <2>1, PendingType, AppendProperties, EmptySeq, ConcatEmptySeq DEF Pending
    <3> QED BY <1>2, <3>1
  <2>2. CASE working # None
    <3>1. Pending' = <<working>> \o Append(queue, request) /\ Pending = <<working>> \o queue
      BY <1>2, <2>2 DEF Pending
    <3>2. working \in Request /\ <<working>> \in Seq(Request)
      BY <1>1, <2>2
    <3>3. <<working>> \o Append(queue, request) = Append(<<working>> \o queue, request)
      BY <1>1, <3>2, AppendIsConcat, ConcatAssociative, ConcatProperties
    <3> QED BY <3>1, <3>3
  <2> QED BY <2>1, <2>2
<1>4. \A key : Outcome(key)' = IF Changes(request) /\ request.key = key
                               THEN request.secret ELSE Outcome(key)
  BY <1>1, <1>2, <1>3, OutcomeNow, OutcomeThen, OutcomeAppend
<1>5. LegacyOutcome' = IF Changes(request) THEN LegacyOutcome \ {request.key.profile} ELSE LegacyOutcome
  BY <1>1, <1>2, <1>3, LegacyNow, LegacyThen, LegacyAppend
<1>6. CASE Changes(request)
  <2>1. Kept' = [Kept EXCEPT ![request.key] = request.secret]
    BY <1>4, <1>6 DEF Kept
  <2>2. Store!Word(request.key, request.secret)
    BY <1>2, <1>5, <1>6, <2>1 DEF Store!Word, Kept
  <2> QED BY <1>3, <1>6, <2>2 DEF StoreStep, Asked
<1>7. CASE ~Changes(request)
  <2>1. Kept' = Kept
    BY <1>4, <1>7 DEF Kept
  <2> QED BY <1>2, <1>5, <1>7, <2>1 DEF StoreStep, Store!storeVars, Kept
<1> QED BY <1>6, <1>7

(* A refused change fails at once: the window is told, so it is a loss.    *)
LEMMA BusyStep ==
  ASSUME TypeOK, NEW request \in Request, SubmitBusy(request)
  PROVE  StoreStep
<1>1. Pending' = Pending /\ UNCHANGED <<items, legacy>> /\ trouble' = trouble \cup Troubled(request)
  BY DEF SubmitBusy, Pending
<1>2. /\ \A key : Outcome(key)' = Outcome(key)
      /\ LegacyOutcome' = LegacyOutcome
  BY <1>1, OutcomeNow, OutcomeThen, LegacyNow, LegacyThen
<1>3. Kept' = Kept
  BY <1>2 DEF Kept
<1>4. CASE Changes(request)
  <2>1. request.key \in Credentials /\ trouble' = trouble \cup {request.key}
    BY <1>1, <1>4, RequestFields DEF Troubled
  <2>2. Outcome(request.key) \in Secrets \cup {None}
    BY <2>1, PendingType, OutcomeNow, OutcomeType DEF TypeOK
  <2>3. Kept' = [Kept EXCEPT ![request.key] = Outcome(request.key)]
    BY <1>3, <2>1 DEF Kept
  <2>4. Store!Lose(request.key)
    BY <1>2, <2>1, <2>2, <2>3 DEF Store!Lose, Kept
  <2> QED BY <2>1, <2>4 DEF StoreStep
<1>5. CASE ~Changes(request)
  <2>1. trouble' = trouble
    BY <1>1, <1>5 DEF Troubled
  <2> QED BY <1>2, <1>3, <2>1 DEF StoreStep, Store!storeVars, Kept
<1> QED BY <1>4, <1>5

(* A request moves from the queue to the worker without changing anything. *)
LEMMA TakeStep ==
  ASSUME TypeOK, Take
  PROVE  StoreStep
<1>1. queue \in Seq(Request) /\ queue # <<>> /\ working = None
  BY DEF Take, TypeOK
<1>2. Head(queue) \in Request /\ working' = Head(queue) /\ queue' = Tail(queue)
  BY <1>1, HeadTailProperties DEF Take
<1>3. working' # None
  BY <1>2, NoneAssumption
<1>4. Pending' = <<Head(queue)>> \o Tail(queue)
  BY <1>2, <1>3 DEF Pending
<1>5. queue = <<Head(queue)>> \o Tail(queue)
  <2>1. /\ <<Head(queue)>> \in Seq(Request) /\ Tail(queue) \in Seq(Request)
        /\ Len(Tail(queue)) = Len(queue) - 1 /\ Len(queue) \in Nat /\ Len(queue) >= 1
        /\ \A n \in 1 .. Len(Tail(queue)) : Tail(queue)[n] = queue[n + 1]
        /\ Head(queue) = queue[1]
    BY <1>1, <1>2, HeadTailProperties, LenProperties, EmptySeq
  <2> DEFINE q == <<Head(queue)>> \o Tail(queue)
  <2>2. /\ q \in Seq(Request) /\ Len(Tail(queue)) \in Nat
        /\ DOMAIN q = 1 .. (Len(Tail(queue)) + 1)
        /\ q[1] = Head(queue) /\ \A n \in 1 .. Len(Tail(queue)) : q[n + 1] = Tail(queue)[n]
    BY <1>2, <2>1, HeadOfRun
  <2> HIDE DEF q
  <2>3. Len(q) = Len(queue)
    BY <2>1, <2>2, LenProperties
  <2>4. ASSUME NEW n \in 1 .. Len(queue) PROVE q[n] = queue[n]
    <3>1. CASE n = 1
      BY <2>1, <2>2, <3>1
    <3>2. CASE n # 1
      <4>1. n - 1 \in 1 .. Len(Tail(queue)) /\ (n - 1) + 1 = n
        BY <2>1, <3>2
      <4> QED BY <2>1, <2>2, <4>1
    <3> QED BY <3>1, <3>2
  <2>5. q = queue
    BY <1>1, <2>2, <2>3, <2>4, SeqEqual
  <2> QED BY <2>5 DEF q
<1>6. Pending = queue
  BY <1>1, PendingType
<1> QED BY <1>4, <1>5, <1>6, Unmoved DEF Take, StoreStep

(* A request the keyring carries out changes nothing either: what it does  *)
(* to the keyring is what was expected of it.                              *)
LEMMA PerformStep ==
  ASSUME TypeOK, Perform
  PROVE  StoreStep
<1>1. /\ working \in Request /\ queue \in Seq(Request) /\ Pending = <<working>> \o queue
      /\ items \in [Credentials -> Secrets \cup {None}]
  BY PendingType DEF Perform, TypeOK
<1>2. working' = None /\ queue' = queue /\ trouble' = trouble
  BY DEF Perform, Answer
<1>3. Pending' = queue
  BY <1>1, <1>2, EmptySeq, ConcatEmptySeq DEF Pending
<1>4. items' = Carry(working, items)
  BY DEF Perform, Carried, Carry
<1>5. legacy' = IF Changes(working) THEN legacy \ {working.key.profile} ELSE legacy
  BY DEF Perform, Carried
<1>6. \A key \in Credentials : Outcome(key)' = Outcome(key)
  BY <1>1, <1>3, <1>4, OutcomeNow, OutcomeThen, OutcomeHead
<1>7. LegacyOutcome' = LegacyOutcome
  BY <1>1, <1>3, <1>5, LegacyNow, LegacyThen, LegacyHead
<1>8. Kept' = Kept
  BY <1>6 DEF Kept
<1> QED BY <1>2, <1>7, <1>8 DEF StoreStep, Store!storeVars, Kept

(* A request that fails is a loss of the password it was for, whatever the *)
(* keyring did of it, and of no other.                                     *)
LEMMA FailStep ==
  ASSUME TypeOK, Fail
  PROVE  StoreStep
<1>1. /\ working \in Request /\ queue \in Seq(Request) /\ Pending = <<working>> \o queue
      /\ items \in [Credentials -> Secrets \cup {None}]
      /\ working.key \in Credentials
  BY PendingType, RequestFields DEF Fail, TypeOK
<1>2. working' = None /\ queue' = queue /\ trouble' = trouble \cup Troubled(working)
  BY DEF Fail, Answer
<1>3. Pending' = queue
  BY <1>1, <1>2, EmptySeq, ConcatEmptySeq DEF Pending
<1>4. \A key \in Credentials : Outcome(key) = OutcomeOf(queue, Carry(working, items), key)
  BY <1>1, OutcomeNow, OutcomeHead
<1>5. \A key : Outcome(key)' = OutcomeOf(queue, items', key)
  BY <1>3, OutcomeThen
<1>6. LegacyOutcome = LegacyOf(queue, IF Changes(working) THEN legacy \ {working.key.profile} ELSE legacy)
  BY <1>1, LegacyNow, LegacyHead
<1>7. LegacyOutcome' = LegacyOf(queue, legacy')
  BY <1>3, LegacyThen
<1>8. CASE ~Changes(working)
  <2>1. UNCHANGED <<items, legacy>>
    BY <1>8 DEF Fail, Changes
  <2>2. trouble' = trouble
    BY <1>2, <1>8 DEF Troubled
  <2>3. LegacyOutcome' = LegacyOutcome
    BY <1>6, <1>7, <1>8, <2>1
  <2>4. Kept' = Kept
    BY <1>4, <1>5, <1>8, <2>1 DEF Kept, Carry
  <2> QED BY <2>2, <2>3, <2>4 DEF StoreStep, Store!storeVars, Kept
<1>9. CASE Changes(working)
  <2>1. trouble' = trouble \cup {working.key}
    BY <1>2, <1>9 DEF Troubled
  <2>2. legacy' \in {legacy, legacy \ {working.key.profile}}
    BY DEF Fail, Carried
  <2>3. items' \in [Credentials -> Secrets \cup {None}]
        /\ \A key \in Credentials \ {working.key} : items'[key] = items[key]
    <3>1. CASE UNCHANGED items
      BY <1>1, <3>1
    <3>2. CASE items' = [items EXCEPT ![working.key] = None]
      BY <1>1, <3>2
    <3>3. CASE items' = [items EXCEPT ![working.key] = working.secret]
      BY <1>1, <3>3, RequestFields
    <3> QED BY <3>1, <3>2, <3>3 DEF Fail, Carried
  <2>4. ASSUME NEW key \in Credentials, key # working.key PROVE Outcome(key)' = Outcome(key)
    <3>1. items'[key] = Carry(working, items)[key]
      BY <1>1, <2>3, <2>4 DEF Carry
    <3>2. OutcomeOf(queue, items', key) = OutcomeOf(queue, Carry(working, items), key)
      BY <3>1 DEF OutcomeOf
    <3> QED BY <1>4, <1>5, <3>2
  <2> DEFINE word == OutcomeOf(queue, items', working.key)
  <2>5. word \in Secrets \cup {None}
    BY <1>1, <2>3, OutcomeType
  <2> HIDE DEF word
  <2>6. Kept' = [Kept EXCEPT ![working.key] = word]
    <3>1. \A key \in Credentials : Outcome(key)' = IF key = working.key THEN word ELSE Outcome(key)
      BY <1>5, <2>4 DEF word
    <3> QED BY <3>1 DEF Kept
  <2>7. LegacyOutcome' \in {LegacyOutcome, LegacyOutcome \cup {working.key.profile},
                            LegacyOutcome \ {working.key.profile}}
    <3>1. LegacyOutcome = LegacyOf(queue, legacy \ {working.key.profile})
      BY <1>6, <1>9
    <3>2. CASE legacy' = legacy \ {working.key.profile}
      BY <1>7, <3>1, <3>2
    <3>3. CASE legacy' = legacy
      <4>1. LegacyOutcome = LegacyOutcome' \ {working.key.profile}
        BY <1>7, <3>1, <3>3 DEF LegacyOf
      <4> QED BY <4>1
    <3> QED BY <2>2, <3>2, <3>3
  <2>8. Store!Lose(working.key)
    BY <2>1, <2>5, <2>6, <2>7 DEF Store!Lose, Kept
  <2> QED BY <1>1, <2>8 DEF StoreStep
<1> QED BY <1>8, <1>9

(* As far as the window can tell, passwords change in the order in which it*)
(* asked for it, each change touching the one computer, address and account*)
(* it is for: a late save cannot overtake a later forget (keyring.rs, run  *)
(* and worker).                                                            *)
THEOREM KeepsOrder == Spec => Implements
<1>1. Init => Store!Init
  <2> SUFFICES ASSUME Init PROVE Store!Init
    OBVIOUS
  <2>1. Pending = <<>> /\ items \in [Credentials -> Secrets \cup {None}]
        /\ legacy \in SUBSET Profiles /\ trouble = {}
    BY EmptySeq, ConcatEmptySeq DEF Init, Pending
  <2>2. <<>> \in Seq(Request) /\ DOMAIN <<>> = {}
    BY EmptySeq
  <2>3. \A key \in Credentials : Outcome(key) \in Secrets \cup {None}
    BY <2>1, <2>2, OutcomeNow, OutcomeType
  <2>4. LegacyOutcome = legacy
    BY <2>1, <2>2, LegacyNow DEF LegacyOf
  <2>5. Kept \in [Credentials -> Secrets \cup {None}]
    BY <2>3 DEF Kept
  <2> QED BY <2>1, <2>4, <2>5 DEF Store!Init, Kept, Credentials, Store!Credentials
<1>2. TypeOK /\ [Next]_vars => [StoreStep]_vars
  <2> SUFFICES ASSUME TypeOK, Next PROVE StoreStep
    OBVIOUS
  <2>1. CASE Receive
    BY <2>1, Unmoved DEF Receive, Pending, StoreStep
  <2> QED BY <2>1, SubmitStep, BusyStep, TakeStep, PerformStep, FailStep DEF Next
<1> QED BY <1>1, <1>2, TypeCorrect, PTL DEF Spec, Implements
=============================================================================
