------------------------------- MODULE Damage -------------------------------
(***************************************************************************)
(* The geometry of repainting (session/src/damage.rs): rectangles, what a  *)
(* draw copies and presents, and where a desktop of a fixed size is drawn  *)
(* in a window of another. A size is <<width, height>>, a pixel <<x, y>>.  *)
(* An option is a sequence of at most one element. Sizes are at most 2^16, *)
(* so the 32-bit and 64-bit arithmetic of the code never wraps.            *)
(***************************************************************************)
EXTENDS Integers, Sequences, SequencesExt

DEPTH == 3    (* presents remembered *)

Empty(size) == size[1] = 0 \/ size[2] = 0

Rect(x, y, width, height) == [x |-> x, y |-> y, width |-> width, height |-> height]
Covering(size) == Rect(0, 0, size[1], size[2])

Lesser(a, b) == IF a < b THEN a ELSE b
Greater(a, b) == IF a > b THEN a ELSE b

Pixels(rect) == (rect.x .. rect.x + rect.width - 1) \X (rect.y .. rect.y + rect.height - 1)

Clip(rect, size) ==
  LET right == Lesser(rect.x + rect.width, size[1])
      bottom == Lesser(rect.y + rect.height, size[2])
  IN  IF rect.x < right /\ rect.y < bottom
      THEN <<Rect(rect.x, rect.y, right - rect.x, bottom - rect.y)>> ELSE <<>>

Covers(rect, size) ==
  rect.x = 0 /\ rect.y = 0 /\ rect.width >= size[1] /\ rect.height >= size[2]

Overlap(a, b) ==
  /\ a.x < b.x + b.width /\ b.x < a.x + a.width
  /\ a.y < b.y + b.height /\ b.y < a.y + a.height

Hull(a, b) ==
  LET x == Lesser(a.x, b.x)
      y == Lesser(a.y, b.y)
  IN  Rect(x, y, Greater(a.x + a.width, b.x + b.width) - x,
                 Greater(a.y + a.height, b.y + b.height) - y)

(* simplify's inner loop: at a turn the rectangle takes in the first of the *)
(* others that it overlaps. There are no more turns than others.           *)
Overlapped(merged, rect) == {n \in DOMAIN merged : Overlap(rect, merged[n])}

Grow(merged, rect) ==
  LET first == Min(Overlapped(merged, rect))
  IN  IF Overlapped(merged, rect) = {} THEN <<merged, rect>>
      ELSE <<RemoveAt(merged, first), Hull(rect, merged[first])>>

Turns(merged, rect) ==
  LET grown[turn \in 0 .. Len(merged)] ==
        IF turn = 0 THEN <<merged, rect>> ELSE Grow(grown[turn - 1][1], grown[turn - 1][2])
  IN  grown

Merge(merged, rect) ==
  LET last == Turns(merged, rect)[Len(merged)]
  IN  Append(last[1], last[2])

Merges(damage) ==
  LET merged[n \in 0 .. Len(damage)] == IF n = 0 THEN <<>> ELSE Merge(merged[n - 1], damage[n])
  IN  merged

Simplify(damage, window) ==
  IF \E n \in DOMAIN damage : Covers(damage[n], window)
  THEN <<Covering(window)>>
  ELSE Merges(damage)[Len(damage)]
-----------------------------------------------------------------------------
(* History: what the last presents changed, newest first.                  *)

Layout(window, desktop) == [window |-> window, desktop |-> desktop]

Usable(history, age, layout) ==
  /\ age \in 1 .. Len(history)
  /\ \A n \in 1 .. age : history[n].layout = layout

(* What the last `presents` presents changed, newest first.                *)
Changed(history, presents) ==
  LET damage[n \in 0 .. presents] == IF n = 0 THEN <<>> ELSE damage[n - 1] \o history[n].damage
  IN  damage[presents]

(* Seeded fault: off by one, the present after the buffer's own is missed. *)
StaleShort(history, age) == Changed(history, IF age > 2 THEN age - 2 ELSE 0)

Stale(history, age) == Changed(history, age - 1)

Plan(history, age, layout, changed, everything) ==
  LET whole == <<Covering(layout.window)>>
  IN  IF ~Usable(history, age, layout) THEN [copy |-> whole, present |-> whole]
      ELSE [copy |-> Simplify(Stale(history, age) \o changed, layout.window),
            present |-> IF everything THEN whole ELSE Simplify(changed, layout.window)]

Record(history, layout, presented) ==
  LET presents == <<[layout |-> layout, damage |-> presented]>> \o history
  IN  SubSeq(presents, 1, Lesser(DEPTH, Len(presents)))
-----------------------------------------------------------------------------
(* Fit: the desktop scaled into the window, its shape kept.                *)

Scale(value, to, from) == (value * to) \div from
ScaleUp(value, to, from) == (value * to + from - 1) \div from

Scaled(window, desktop) == ~Empty(window) /\ ~Empty(desktop) /\ window # desktop

Area(window, desktop) ==
  LET byWidth == window[1] * desktop[2] <= window[2] * desktop[1]
      width == IF byWidth THEN window[1]
               ELSE Greater(1, Scale(desktop[1], window[2], desktop[2]))
      height == IF byWidth THEN Greater(1, Scale(desktop[2], window[1], desktop[1]))
                ELSE window[2]
  IN  Rect((window[1] - width) \div 2, (window[2] - height) \div 2, width, height)

InArea(area, at) ==
  /\ at[1] >= area.x /\ at[1] < area.x + area.width
  /\ at[2] >= area.y /\ at[2] < area.y + area.height

(* The desktop pixel at a window position (at the pixel's own corner).     *)
ToDesktop(window, desktop, at) ==
  LET area == Area(window, desktop)
  IN  IF ~InArea(area, at) THEN <<>>
      ELSE << <<Lesser(Scale(at[1] - area.x, desktop[1], area.width), desktop[1] - 1),
                Lesser(Scale(at[2] - area.y, desktop[2], area.height), desktop[2] - 1)>> >>

(* Where a pointer position lands on the desktop, as it was drawn last.    *)
RemotePointer(desktop, at) == IF at[1] < desktop[1] /\ at[2] < desktop[2] THEN <<at>> ELSE <<>>
DesktopPointer(window, desktop, keep, at) ==
  IF keep /\ Scaled(window, desktop) THEN ToDesktop(window, desktop, at) ELSE RemotePointer(desktop, at)

(* Seeded fault: no margin for the neighbours that are blended in.         *)
ToWindowTight(window, desktop, rect) ==
  LET area == Area(window, desktop)
      left == Scale(rect.x, area.width, desktop[1])
      top == Scale(rect.y, area.height, desktop[2])
  IN  Rect(area.x + left, area.y + top,
           ScaleUp(rect.x + rect.width, area.width, desktop[1]) - left,
           ScaleUp(rect.y + rect.height, area.height, desktop[2]) - top)

(* The window area that a change to `rect` of the desktop repaints.        *)
ToWindow(window, desktop, rect) ==
  LET area == Area(window, desktop)
      left == Scale(Greater(rect.x - 1, 0), area.width, desktop[1])
      top == Scale(Greater(rect.y - 1, 0), area.height, desktop[2])
      right == ScaleUp(Lesser(rect.x + rect.width + 1, desktop[1]), area.width, desktop[1])
      bottom == ScaleUp(Lesser(rect.y + rect.height + 1, desktop[2]), area.height, desktop[2])
  IN  Rect(area.x + left, area.y + top,
           Lesser(right, area.width) - left, Lesser(bottom, area.height) - top)

(* The two source pixels an output pixel lies between; the second has no   *)
(* part in it when the weight, in 256ths, is 0.                            *)
Sample(index, output, source) ==
  LET centre == ((2 * index + 1) * source * 128) \div output - 128
      clamped == Greater(0, Lesser(centre, (source - 1) * 256))
      first == clamped \div 256
  IN  IF clamped % 256 = 0 THEN <<first, first>>
      ELSE <<first, Lesser(first + 1, source - 1)>>

(* blit_scaled: the desktop pixels blended into a window pixel, none over  *)
(* the bars.                                                               *)
Blended(window, desktop, at) ==
  LET area == Area(window, desktop)
      columns == Sample(at[1] - area.x, area.width, desktop[1])
      rows == Sample(at[2] - area.y, area.height, desktop[2])
  IN  IF ~InArea(area, at) THEN <<>>
      ELSE << <<columns[1], rows[1]>>, <<columns[2], rows[1]>>,
              <<columns[1], rows[2]>>, <<columns[2], rows[2]>> >>

(* blit: the frame 1:1 from the top-left corner, black beyond it.          *)
Copied(desktop, at) == IF at[1] < desktop[1] /\ at[2] < desktop[2] THEN <<at>> ELSE <<>>
=============================================================================
