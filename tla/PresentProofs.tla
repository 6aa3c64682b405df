---------------------------- MODULE PresentProofs ----------------------------
(***************************************************************************)
(* The screen shows the desktop: proofs about Present, for windows and     *)
(* desktops of every size, any number of buffers and any of them handed    *)
(* out.                                                                    *)
(*                                                                         *)
(* Between two draws the screen may be wrong where the dirty area is, so   *)
(* what holds is about the clean pixels: those that show no desktop pixel  *)
(* of the dirty area. Of these a buffer presented n presents ago is right  *)
(* where nothing presented since, and no overlay, has been.                *)
(***************************************************************************)
EXTENDS Present, DamageProofs, FiniteSetTheorems

(* The pixels of the desktop that a window pixel shows, in some layout.    *)
From(keeping, layout, at) ==
  IF keeping /\ Scaled(layout.window, layout.desktop) THEN Blended(layout.window, layout.desktop, at)
  ELSE Copied(layout.desktop, at)

Clean(keeping, now, area, layout, at) ==
  \A n \in DOMAIN From(keeping, layout, at) :
    /\ layout.desktop = now.size
    /\ area # <<>> => From(keeping, layout, at)[n] \notin Pixels(area[1])

Colouring(keeping, now, layout, at) ==
  [n \in DOMAIN From(keeping, layout, at) |-> now.pixels[From(keeping, layout, at)[n]]]

Grid(size) == Pixels(Covering(size))
Layouts == [window : {size \in Windows : ~Empty(size)}, desktop : Desktops]
-----------------------------------------------------------------------------
(* Sequences and areas.                                                    *)

LEMMA InGrid ==
  ASSUME NEW size \in Nat \X Nat, NEW at
  PROVE  at \in Grid(size) <=>
           /\ at = <<at[1], at[2]>> /\ at[1] \in Int /\ at[2] \in Int
           /\ 0 <= at[1] /\ at[1] < size[1] /\ 0 <= at[2] /\ at[2] < size[2]
<1> DEFINE all == Covering(size)
<1>1. /\ all \in Rects /\ all.x = 0 /\ all.y = 0 /\ all.width = size[1] /\ all.height = size[2]
      /\ size[1] \in Nat /\ size[2] \in Nat
  BY DEF Covering, Rect, Rects
<1> HIDE DEF all
<1>2. at \in Pixels(all) <=>
        /\ at = <<at[1], at[2]>> /\ at[1] \in Int /\ at[2] \in Int
        /\ all.x <= at[1] /\ at[1] < all.x + all.width
        /\ all.y <= at[2] /\ at[2] < all.y + all.height
  BY <1>1, PixelIn
<1> QED BY <1>1, <1>2 DEF Grid, all

LEMMA SizesProper ==
  ASSUME NEW size \in Nat \X Nat, ~Empty(size)
  PROVE  size \in Proper
<1>1. size = <<size[1], size[2]>> /\ size[1] \in Nat \ {0} /\ size[2] \in Nat \ {0}
  BY DEF Empty
<1>2. <<size[1], size[2]>> \in Proper
  BY <1>1 DEF Proper
<1> QED BY <1>1, <1>2

(* What is put in front of a sequence of which only so much is kept.       *)
Pushes(s, e, most, t) == t = SubSeq(<<e>> \o s, 1, Lesser(most, Len(<<e>> \o s)))

LEMMA Pushed ==
  ASSUME NEW S, NEW s \in Seq(S), NEW e \in S, NEW most \in Nat, NEW t,
         Pushes(s, e, most, t)
  PROVE  /\ t \in Seq(S) /\ Len(t) = Lesser(most, Len(s) + 1) /\ Len(t) \in Nat
         /\ Len(t) >= 1 => t[1] = e
         /\ \A n \in 1 .. Len(s) : n + 1 <= Len(t) => t[n + 1] = s[n]
<1> DEFINE long == <<e>> \o s
           kept == Lesser(most, Len(s) + 1)
<1>1. <<e>> \in Seq(S) /\ Len(<<e>>) = 1 /\ <<e>>[1] = e
  OBVIOUS
<1>2. /\ long \in Seq(S) /\ Len(long) = 1 + Len(s)
      /\ \A n \in 1 .. 1 + Len(s) : long[n] = IF n <= 1 THEN <<e>>[n] ELSE s[n - 1]
  BY <1>1, ConcatProperties
<1>3. Len(s) \in Nat
  BY LenProperties
<1>4. kept \in Nat /\ kept <= Len(s) + 1 /\ kept <= most
  BY <1>3 DEF Lesser
<1>5. t = SubSeq(long, 1, kept)
  <2>1. Len(<<e>> \o s) = Len(s) + 1
    BY <1>2, <1>3
  <2> QED BY <2>1 DEF Pushes
<1> HIDE DEF long, kept
<1>6. \A n \in 1 .. kept : long[n] \in S
  BY <1>2, <1>3, <1>4, ElementOfSeq
<1>7. /\ t \in Seq(S) /\ Len(t) = IF 1 <= kept THEN kept - 1 + 1 ELSE 0
      /\ \A n \in 1 .. kept - 1 + 1 : t[n] = long[1 + n - 1]
  <2> DEFINE part == SubSeq(long, 1, kept)
  <2>1. kept \in Int /\ 1 \in Int
    BY <1>4
  <2>2. /\ part \in Seq(S) /\ Len(part) = IF 1 <= kept THEN kept - 1 + 1 ELSE 0
        /\ \A n \in 1 .. kept - 1 + 1 : part[n] = long[1 + n - 1]
    BY <1>6, <2>1, SubSeqProperties
  <2> HIDE DEF part
  <2>3. t = part
    BY <1>5 DEF part
  <2> QED BY <2>2, <2>3
<1>8. Len(t) = kept
  BY <1>4, <1>7
<1>9. ASSUME Len(t) >= 1 PROVE t[1] = e
  <2>1. 1 \in 1 .. kept - 1 + 1 /\ 1 + 1 - 1 = 1 /\ 1 \in 1 .. 1 + Len(s) /\ 1 <= 1
    BY <1>3, <1>4, <1>8, <1>9
  <2>2. t[1] = long[1]
    BY <1>7, <2>1
  <2> QED BY <1>1, <1>2, <2>1, <2>2
<1>10. ASSUME NEW n \in 1 .. Len(s), n + 1 <= Len(t) PROVE t[n + 1] = s[n]
  <2>1. n + 1 \in 1 .. kept - 1 + 1 /\ 1 + (n + 1) - 1 = n + 1
    BY <1>3, <1>4, <1>8, <1>10
  <2>2. t[n + 1] = long[n + 1]
    BY <1>7, <2>1
  <2>3. n + 1 \in 1 .. 1 + Len(s) /\ ~(n + 1 <= 1) /\ n + 1 - 1 = n
    BY <1>3
  <2> QED BY <1>2, <2>2, <2>3
<1> QED BY <1>4, <1>7, <1>8, <1>9, <1>10 DEF kept

LEMMA AmongRegion ==
  ASSUME NEW rects, NEW at
  PROVE  Among(rects, at) = {} <=> at \notin Region(rects)
BY DEF Among, Region

(* Of rectangles apart from each other one at most has a pixel.            *)
LEMMA AmongOne ==
  ASSUME NEW rects, Disjoint(rects), NEW at, at \in Region(rects)
  PROVE  Cardinality(Among(rects, at)) = 1
<1>1. PICK n \in DOMAIN rects : at \in Pixels(rects[n])
  BY DEF Region
<1>2. ASSUME NEW m \in DOMAIN rects, at \in Pixels(rects[m]) PROVE m = n
  BY <1>1, <1>2 DEF Disjoint
<1>3. Among(rects, at) = {n}
  BY <1>1, <1>2 DEF Among
<1> QED BY <1>3, FS_Singleton

LEMMA ClipRight ==
  ASSUME NEW rect \in Rects, NEW size \in Nat \X Nat, NEW clip, clip = Clip(rect, size)
  PROVE  /\ clip \in Seq(Rects)
         /\ Pixels(rect) \cap Grid(size) \subseteq Region(clip)
<1> DEFINE right == Lesser(rect.x + rect.width, size[1])
           bottom == Lesser(rect.y + rect.height, size[2])
           part == Rect(rect.x, rect.y, right - rect.x, bottom - rect.y)
<1>1. /\ rect.x \in Int /\ rect.y \in Int /\ rect.width \in Int /\ rect.height \in Int
      /\ size[1] \in Nat /\ size[2] \in Nat
  BY DEF Rects
<1>2. right \in Int /\ bottom \in Int
  BY <1>1 DEF Lesser
<1>3. part \in Rects
  BY <1>1, <1>2, RectType
<1>4. clip = IF rect.x < right /\ rect.y < bottom THEN <<part>> ELSE <<>>
  BY DEF Clip
<1>5. <<part>> \in Seq(Rects) /\ DOMAIN <<part>> = {1} /\ <<part>>[1] = part
  <2> HIDE DEF part
  <2> QED BY <1>3
<1>6. clip \in Seq(Rects)
  BY <1>4, <1>5
<1>7. ASSUME NEW at, at \in Pixels(rect), at \in Grid(size) PROVE at \in Region(clip)
  <2>1. /\ at = <<at[1], at[2]>> /\ at[1] \in Int /\ at[2] \in Int
        /\ rect.x <= at[1] /\ at[1] < rect.x + rect.width
        /\ rect.y <= at[2] /\ at[2] < rect.y + rect.height
    BY <1>7, PixelIn
  <2>2. at[1] < size[1] /\ at[2] < size[2]
    BY <1>7, InGrid
  <2>3. at[1] < right /\ at[2] < bottom
    BY <1>1, <2>1, <2>2 DEF Lesser
  <2>4. rect.x < right /\ rect.y < bottom
    BY <1>1, <1>2, <2>1, <2>3
  <2>5. clip = <<part>>
    BY <1>4, <2>4
  <2>6. rect.x + (right - rect.x) = right /\ rect.y + (bottom - rect.y) = bottom
    BY <1>1, <1>2
  <2>7. right - rect.x \in Int /\ bottom - rect.y \in Int
    BY <1>1, <1>2
  <2> HIDE DEF right, bottom
  <2>8. at \in Pixels(part)
    <3>1. /\ part.x = rect.x /\ part.y = rect.y
          /\ part.width = right - rect.x /\ part.height = bottom - rect.y
      BY DEF Rect
    <3> HIDE DEF part
    <3>2. at \in Pixels(part) <=>
            /\ at = <<at[1], at[2]>> /\ at[1] \in Int /\ at[2] \in Int
            /\ part.x <= at[1] /\ at[1] < part.x + part.width
            /\ part.y <= at[2] /\ at[2] < part.y + part.height
      BY <1>3, PixelIn
    <3> QED BY <1>1, <2>1, <2>3, <2>6, <3>1, <3>2
  <2> QED BY <1>5, <2>5, <2>8 DEF Region
<1> QED BY <1>6, <1>7
-----------------------------------------------------------------------------
(* What a pixel of the window shows.                                       *)

LEMMA ToWindowRect ==
  ASSUME NEW size \in Proper, NEW desktop \in Proper, NEW rect \in Rects
  PROVE  ToWindow(size, desktop, rect) \in Rects
<1> DEFINE area == Area(size, desktop)
           left == Scale(Greater(rect.x - 1, 0), area.width, desktop[1])
           top == Scale(Greater(rect.y - 1, 0), area.height, desktop[2])
           right == ScaleUp(Lesser(rect.x + rect.width + 1, desktop[1]), area.width, desktop[1])
           bottom == ScaleUp(Lesser(rect.y + rect.height + 1, desktop[2]), area.height, desktop[2])
<1>1. /\ area.x \in Nat /\ area.y \in Nat
      /\ area.width \in Nat \ {0} /\ area.height \in Nat \ {0}
  BY AreaFits
<1>2. /\ rect.x \in Int /\ rect.y \in Int /\ rect.width \in Int /\ rect.height \in Int
      /\ desktop[1] \in Nat \ {0} /\ desktop[2] \in Nat \ {0}
  BY DEF Rects, Proper
<1> HIDE DEF area
<1>3. ASSUME NEW a \in Int, NEW m \in Int, NEW n \in Nat \ {0}
      PROVE  Scale(a, m, n) \in Int /\ ScaleUp(a, m, n) \in Int
  <2>1. a * m \in Int
    BY ProductInt
  <2> QED BY <2>1 DEF Scale, ScaleUp
<1>4. left \in Int /\ top \in Int
  <2>1. Greater(rect.x - 1, 0) \in Int /\ Greater(rect.y - 1, 0) \in Int
    BY <1>2 DEF Greater
  <2>2. area.width \in Int /\ area.height \in Int
    BY <1>1
  <2> QED BY <1>2, <1>3, <2>1, <2>2, Zenon
<1>5. right \in Int /\ bottom \in Int
  <2>1. Lesser(rect.x + rect.width + 1, desktop[1]) \in Int /\ Lesser(rect.y + rect.height + 1, desktop[2]) \in Int
    BY <1>2 DEF Lesser
  <2>2. area.width \in Int /\ area.height \in Int
    BY <1>1
  <2> QED BY <1>2, <1>3, <2>1, <2>2, Zenon
<1>6. ToWindow(size, desktop, rect)
        = Rect(area.x + left, area.y + top, Lesser(right, area.width) - left, Lesser(bottom, area.height) - top)
  BY DEF ToWindow, area
<1> HIDE DEF left, top, right, bottom
<1>7. /\ area.x + left \in Int /\ area.y + top \in Int
      /\ Lesser(right, area.width) - left \in Int /\ Lesser(bottom, area.height) - top \in Int
  BY <1>1, <1>4, <1>5 DEF Lesser
<1> QED BY <1>6, <1>7, RectType

(* Of the desktop.                                                         *)
LEMMA LayoutSizes ==
  ASSUME NEW layout \in Layouts
  PROVE  /\ layout.window \in Nat \X Nat /\ layout.window \in Proper /\ layout.window \in Windows
         /\ layout.desktop \in Nat \X Nat /\ layout.desktop \in Proper /\ layout.desktop \in Desktops
<1>1. /\ layout.window \in Nat \X Nat /\ ~Empty(layout.window) /\ layout.window \in Windows
      /\ layout.desktop \in Nat \X Nat /\ ~Empty(layout.desktop) /\ layout.desktop \in Desktops
  BY PresentAssumption DEF PresentAssumption, Layouts
<1> QED BY <1>1, SizesProper

(* The copied pixel is the window's own.                                   *)
LEMMA CopiedOne ==
  ASSUME NEW desktop, NEW at, NEW n \in DOMAIN Copied(desktop, at)
  PROVE  Copied(desktop, at)[n] = at /\ at[1] < desktop[1] /\ at[2] < desktop[2]
<1>1. Copied(desktop, at) = IF at[1] < desktop[1] /\ at[2] < desktop[2] THEN <<at>> ELSE <<>>
  BY DEF Copied
<1>2. DOMAIN <<at>> = {1} /\ <<at>>[1] = at /\ DOMAIN <<>> = {}
  OBVIOUS
<1> QED BY <1>1, <1>2, Zenon

LEMMA FromDesktop ==
  ASSUME NEW layout \in Layouts, NEW keeping, NEW at \in Grid(layout.window),
         NEW n \in DOMAIN From(keeping, layout, at)
  PROVE  From(keeping, layout, at)[n] \in Grid(layout.desktop)
<1>1. /\ layout.window \in Nat \X Nat /\ layout.window \in Proper
      /\ layout.desktop \in Nat \X Nat /\ layout.desktop \in Proper
  BY LayoutSizes
<1>2. /\ at = <<at[1], at[2]>> /\ at[1] \in Int /\ at[2] \in Int /\ 0 <= at[1] /\ 0 <= at[2]
      /\ at \in Int \X Int
  BY <1>1, InGrid
<1>3. CASE keeping /\ Scaled(layout.window, layout.desktop)
  <2>1. From(keeping, layout, at) = Blended(layout.window, layout.desktop, at)
    BY <1>3 DEF From
  <2>2. Blended(layout.window, layout.desktop, at)[n] \in Pixels(Covering(layout.desktop))
    BY <1>1, <1>2, <2>1, BlendedRepaints
  <2> QED BY <2>1, <2>2 DEF Grid
<1>4. CASE ~(keeping /\ Scaled(layout.window, layout.desktop))
  <2>1. From(keeping, layout, at) = Copied(layout.desktop, at)
    BY <1>4 DEF From
  <2>2. From(keeping, layout, at)[n] = at /\ at[1] < layout.desktop[1] /\ at[2] < layout.desktop[2]
    BY <2>1, CopiedOne
  <2> QED BY <1>1, <1>2, <2>2, InGrid
<1> QED BY <1>3, <1>4

(* What shows a pixel of a rectangle is in the area repainted for it.      *)
Repainted(keeping, layout, rect) ==
  IF keeping /\ Scaled(layout.window, layout.desktop) THEN ToWindow(layout.window, layout.desktop, rect) ELSE rect

LEMMA FromRepainted ==
  ASSUME NEW layout \in Layouts, NEW keeping, NEW at \in Grid(layout.window), NEW rect \in Rects,
         NEW n \in DOMAIN From(keeping, layout, at), From(keeping, layout, at)[n] \in Pixels(rect)
  PROVE  /\ Repainted(keeping, layout, rect) \in Rects
         /\ at \in Pixels(Repainted(keeping, layout, rect))
<1>1. /\ layout.window \in Nat \X Nat /\ layout.window \in Proper
      /\ layout.desktop \in Nat \X Nat /\ layout.desktop \in Proper
  BY LayoutSizes
<1>2. at \in Int \X Int
  <2>1. at = <<at[1], at[2]>> /\ at[1] \in Int /\ at[2] \in Int
    BY <1>1, InGrid
  <2> QED BY <2>1
<1>3. CASE keeping /\ Scaled(layout.window, layout.desktop)
  <2>1. /\ From(keeping, layout, at) = Blended(layout.window, layout.desktop, at)
        /\ Repainted(keeping, layout, rect) = ToWindow(layout.window, layout.desktop, rect)
    BY <1>3 DEF From, Repainted
  <2>2. at \in Pixels(ToWindow(layout.window, layout.desktop, rect))
    BY <1>1, <1>2, <2>1, BlendedRepaints
  <2> QED BY <1>1, <2>1, <2>2, ToWindowRect
<1>4. CASE ~(keeping /\ Scaled(layout.window, layout.desktop))
  <2>1. From(keeping, layout, at) = Copied(layout.desktop, at) /\ Repainted(keeping, layout, rect) = rect
    BY <1>4 DEF From, Repainted
  <2>2. From(keeping, layout, at)[n] = at
    BY <2>1, CopiedOne
  <2> QED BY <2>1, <2>2
<1> QED BY <1>3, <1>4
-----------------------------------------------------------------------------
(* What the RDP thread and the daemon leave as it was, where it is clean.  *)

(* A frame with one pixel changed, which the dirty area has grown to.      *)
OneChanged(old, new, area, wider) ==
  /\ new.size = old.size
  /\ area # <<>> => Pixels(area[1]) \subseteq Pixels(wider[1])
  /\ wider # <<>>
  /\ \E changed \in Pixels(wider[1]) :
       \A pixel \in Grid(old.size) : pixel # changed => new.pixels[pixel] = old.pixels[pixel]

LEMMA UpdateKeeps ==
  ASSUME NEW keeping, NEW layout \in Layouts, NEW at \in Grid(layout.window),
         NEW old, NEW new, NEW area, NEW wider, OneChanged(old, new, area, wider),
         Clean(keeping, new, wider, layout, at)
  PROVE  /\ Clean(keeping, old, area, layout, at)
         /\ Colouring(keeping, new, layout, at) = Colouring(keeping, old, layout, at)
<1> DEFINE from == From(keeping, layout, at)
<1> PICK changed \in Pixels(wider[1]) :
      \A pixel \in Grid(old.size) : pixel # changed => new.pixels[pixel] = old.pixels[pixel]
  BY DEF OneChanged
<1>1. ASSUME NEW n \in DOMAIN from
      PROVE  /\ layout.desktop = old.size /\ from[n] \notin Pixels(wider[1])
             /\ new.pixels[from[n]] = old.pixels[from[n]]
  <2>1. layout.desktop = old.size /\ from[n] \notin Pixels(wider[1]) /\ from[n] # changed
    BY DEF Clean, OneChanged
  <2>2. from[n] \in Grid(layout.desktop)
    BY FromDesktop
  <2> QED BY <2>1, <2>2 DEF OneChanged
<1> HIDE DEF from
<1>2. [n \in DOMAIN from |-> new.pixels[from[n]]] = [n \in DOMAIN from |-> old.pixels[from[n]]]
  BY <1>1
<1> QED BY <1>1, <1>2 DEF Clean, Colouring, OneChanged, from

LEMMA ReplaceKeeps ==
  ASSUME NEW keeping, NEW layout \in Layouts, NEW at \in Grid(layout.window), NEW old, NEW new, NEW area,
         Clean(keeping, new, <<Covering(new.size)>>, layout, at)
  PROVE  /\ Clean(keeping, old, area, layout, at)
         /\ Colouring(keeping, new, layout, at) = Colouring(keeping, old, layout, at)
<1>1. DOMAIN From(keeping, layout, at) = {}
  <2> SUFFICES ASSUME NEW n \in DOMAIN From(keeping, layout, at) PROVE FALSE
    OBVIOUS
  <2>1. From(keeping, layout, at)[n] \in Grid(layout.desktop)
    BY FromDesktop
  <2>2. /\ layout.desktop = new.size
        /\ <<Covering(new.size)>> # <<>> => From(keeping, layout, at)[n] \notin Pixels(<<Covering(new.size)>>[1])
    BY DEF Clean
  <2>3. <<Covering(new.size)>> # <<>> /\ <<Covering(new.size)>>[1] = Covering(new.size)
    OBVIOUS
  <2> QED BY <2>1, <2>2, <2>3 DEF Grid
<1> QED BY <1>1 DEF Clean, Colouring
-----------------------------------------------------------------------------
(* The inductive invariant.                                                *)

Newest == history[1].layout
SameLayout(age) == \A n \in 1 .. age : history[n].layout = Newest
Missed(age, at) == \E n \in 1 .. age - 1 : at \in Region(history[n].damage)
Dims(shown) == IF shown THEN 1 ELSE 0
Presents == [layout : Layouts, damage : Seq(Rects)]

(* What a window pixel should show when the desktop is drawn in a layout,  *)
(* with the dialog or without.                                             *)
Expected(asked, layout, at) ==
  IF asked /\ at \in Pixels(Bounds(window)) THEN Painted(<<"dialog">>, 0)
  ELSE Painted(IF BarShown /\ at \in Pixels(BarRect(bar, window)) THEN <<"bar">>
               ELSE Colouring(keep, frame, layout, at),
               Dims(asked))

Typed ==
  /\ TypeOK
  /\ dirty \in Seq(Rects) /\ overlays \in Seq(Rects)
  /\ history \in Seq(Presents) /\ buffers \in Seq(Range(buffers))
  /\ history # <<>> => ~Empty(frame.size)

CacheRight ==
  scaled_frame.size = frame.size =>
    \A at \in DOMAIN frame.pixels :
      (dirty # <<>> => at \notin Pixels(dirty[1])) => scaled_frame.pixels[at] = frame.pixels[at]

BufferRight(age) ==
  /\ DOMAIN buffers[age] = Grid(Newest.window)
  /\ \A at \in Grid(Newest.window) :
       /\ Clean(keep, frame, dirty, Newest, at)
       /\ at \notin Region(overlays) /\ ~Missed(age, at)
       => buffers[age][at] = Painted(Colouring(keep, frame, Newest, at), Dims(dialog_visible))
BuffersRight == \A age \in 1 .. Len(history) : age <= Len(buffers) /\ SameLayout(age) => BufferRight(age)

ScreenRight ==
  ~redraw /\ ~resized /\ ~filling /\ history # <<>> /\ Newest.window = window =>
    /\ DialogSeen <=> dialog_visible
    /\ \A at \in Grid(window) :
         Clean(keep, frame, dirty, Newest, at) => screen[at] = Expected(dialog_visible, Newest, at)

IInv == Typed /\ CacheRight /\ BuffersRight /\ ScreenRight
-----------------------------------------------------------------------------
(* What a draw works with.                                                 *)

Here == Layout(window, frame.size)
Drawable == Typed /\ ~Empty(window) /\ ~Empty(frame.size)

LEMMA FrameIs ==
  ASSUME NEW f \in Frames
  PROVE  /\ f = [size |-> f.size, pixels |-> f.pixels] /\ f.size \in Desktops
         /\ f.pixels \in [Grid(f.size) -> Colours]
         /\ f.size \in Nat \X Nat /\ ~Empty(f.size) /\ f.size # <<0, 0>>
<1>1. PICK size \in Desktops : f \in [size : {size}, pixels : [Pixels(Covering(size)) -> Colours]]
  BY DEF Frames
<1>2. f = [size |-> f.size, pixels |-> f.pixels] /\ f.size = size /\ f.pixels \in [Pixels(Covering(size)) -> Colours]
  BY <1>1
<1>3. size \in Nat \X Nat /\ ~Empty(size)
  BY PresentAssumption DEF PresentAssumption
<1>4. size # <<0, 0>>
  BY <1>3 DEF Empty
<1> QED BY <1>2, <1>3, <1>4 DEF Grid

LEMMA WindowIs ==
  ASSUME Typed
  PROVE  window \in Windows /\ window \in Nat \X Nat
BY PresentAssumption DEF PresentAssumption, Typed, TypeOK

LEMMA HereIs ==
  ASSUME Drawable
  PROVE  /\ Here \in Layouts /\ Here.window = window /\ Here.desktop = frame.size
         /\ frame \in Frames /\ window \in Proper /\ frame.size \in Proper
<1>1. frame \in Frames
  <2>1. Empty(NoFrame.size)
    BY DEF NoFrame, Empty
  <2> QED BY <2>1 DEF Drawable, Typed, TypeOK
<1>2. window \in Windows /\ window \in Nat \X Nat /\ ~Empty(window)
  BY WindowIs DEF Drawable
<1>3. frame.size \in Desktops /\ frame.size \in Nat \X Nat /\ ~Empty(frame.size)
  BY <1>1, FrameIs
<1>4. Here = [window |-> window, desktop |-> frame.size]
  BY DEF Here, Layout
<1>5. Here \in Layouts
  BY <1>2, <1>3, <1>4 DEF Layouts
<1>6. window \in Proper /\ frame.size \in Proper
  BY <1>2, <1>3, SizesProper
<1> QED BY <1>1, <1>4, <1>5, <1>6

LEMMA ShownIs ==
  ASSUME Drawable, NEW at
  PROVE  Shown(frame, at) = Colouring(keep, frame, Here, at)
<1>1. Here.window = window /\ Here.desktop = frame.size
  BY HereIs
<1> QED BY <1>1 DEF Shown, Colouring, From

LEMMA CompositeIs ==
  ASSUME Drawable, NEW at
  PROVE  Composite(at) = Expected(DialogSeen, Here, at)
BY ShownIs DEF Composite, Expected, Dims

(* The cache the desktop is scaled from is the desktop.                    *)
LEMMA SourceIs ==
  ASSUME Drawable, CacheRight
  PROVE  /\ (IF Fitted THEN Cache ELSE frame) = frame
         /\ Cache \in {frame, NoFrame}
<1>1. frame \in Frames
  BY HereIs
<1>2. CASE ~Fitted
  BY <1>2 DEF Cache
<1>3. CASE Fitted /\ scaled_frame.size # frame.size
  BY <1>3 DEF Cache
<1>4. CASE Fitted /\ scaled_frame.size = frame.size
  <2>1. scaled_frame \in Frames
    <3>1. NoFrame.size = <<0, 0>>
      BY DEF NoFrame
    <3>2. frame.size # <<0, 0>>
      BY <1>1, FrameIs
    <3> QED BY <1>4, <3>1, <3>2 DEF Drawable, Typed, TypeOK
  <2> DEFINE fresh(at) == IF dirty # <<>> /\ at \in Pixels(dirty[1]) THEN frame.pixels[at] ELSE scaled_frame.pixels[at]
  <2>2. /\ scaled_frame = [size |-> scaled_frame.size, pixels |-> scaled_frame.pixels]
        /\ frame = [size |-> frame.size, pixels |-> frame.pixels]
        /\ frame.pixels \in [Grid(frame.size) -> Colours]
        /\ scaled_frame.pixels \in [Grid(frame.size) -> Colours]
    BY <1>1, <1>4, <2>1, FrameIs
  <2>3. Cache = [scaled_frame EXCEPT !.pixels = [at \in DOMAIN scaled_frame.pixels |-> fresh(at)]]
    BY <1>4 DEF Cache
  <2>4. DOMAIN scaled_frame.pixels = Grid(frame.size) /\ DOMAIN frame.pixels = Grid(frame.size)
    BY <2>2
  <2>5. ASSUME NEW at \in Grid(frame.size) PROVE fresh(at) = frame.pixels[at]
    BY <1>4, <2>4 DEF CacheRight
  <2> HIDE DEF fresh
  <2>6. [at \in DOMAIN scaled_frame.pixels |-> fresh(at)] = frame.pixels
    BY <2>2, <2>4, <2>5
  <2>7. Cache = [scaled_frame EXCEPT !.pixels = frame.pixels]
    BY <2>3, <2>6
  <2>8. Cache = frame
    BY <1>4, <2>2, <2>7
  <2> QED BY <1>4, <2>8
<1> QED BY <1>2, <1>3, <1>4

(* Outside the area drawn for the dirty area the window shows no pixel of  *)
(* it.                                                                     *)
LEMMA DirtyAreaRight ==
  ASSUME Drawable
  PROVE  /\ DirtyArea \in Seq(Rects)
         /\ \A at \in Grid(window) : at \notin Region(DirtyArea) => Clean(keep, frame, dirty, Here, at)
<1>1. /\ Here \in Layouts /\ Here.window = window /\ Here.desktop = frame.size
      /\ window \in Proper /\ frame.size \in Proper
  BY HereIs
<1>2. window \in Nat \X Nat /\ dirty \in Seq(Rects)
  BY WindowIs DEF Drawable, Typed
<1>3. CASE dirty = <<>>
  <2>1. DirtyArea = <<>>
    BY <1>3 DEF DirtyArea
  <2> QED BY <1>1, <1>3, <2>1 DEF Clean
<1>4. CASE dirty # <<>>
  <2> DEFINE rect == dirty[1]
             drawn == Repainted(keep, Here, rect)
  <2>1. rect \in Rects
    <3>1. 1 \in 1 .. Len(dirty)
      BY <1>2, <1>4, EmptySeq
    <3> QED BY <1>2, <3>1, ElementOfSeq
  <2>2. DirtyArea = Clip(drawn, window)
    BY <1>1, <1>4 DEF DirtyArea, Fitted, Repainted
  <2>3. drawn \in Rects
    <3>1. ToWindow(window, frame.size, rect) \in Rects
      BY <1>1, <2>1, ToWindowRect
    <3> QED BY <1>1, <2>1, <3>1 DEF Repainted
  <2> HIDE DEF rect, drawn
  <2>4. DirtyArea \in Seq(Rects) /\ Pixels(drawn) \cap Grid(window) \subseteq Region(DirtyArea)
    BY <1>2, <2>2, <2>3, ClipRight
  <2>5. ASSUME NEW at \in Grid(window), at \notin Region(DirtyArea)
        PROVE  Clean(keep, frame, dirty, Here, at)
    <3>1. ASSUME NEW n \in DOMAIN From(keep, Here, at), From(keep, Here, at)[n] \in Pixels(rect) PROVE FALSE
      <4>1. at \in Pixels(drawn)
        BY <1>1, <2>1, <3>1, FromRepainted DEF drawn
      <4> QED BY <2>4, <2>5, <4>1
    <3> QED BY <1>1, <3>1 DEF Clean, rect
  <2> QED BY <2>4, <2>5
<1> QED BY <1>3, <1>4

(* The overlays are where they are said to be.                             *)
LEMMA OverlaysRight ==
  ASSUME Typed, ~Empty(window)
  PROVE  /\ Overlays \in Seq(Rects)
         /\ \A at \in Grid(window) : at \notin Region(Overlays) =>
              /\ ~(BarShown /\ at \in Pixels(BarRect(bar, window)))
              /\ ~(DialogShown /\ at \in Pixels(Bounds(window)))
<1>1. window \in Nat \X Nat /\ bar \in Nat /\ DialogSize \in Nat \X Nat
  BY WindowIs, PresentAssumption DEF PresentAssumption, Typed, TypeOK
<1> DEFINE strip == BarRect(bar, window)
           box == Bounds(window)
           first == IF BarShown THEN Clip(strip, window) ELSE <<>>
           second == IF DialogShown THEN <<box>> ELSE <<>>
<1>2. strip \in Rects
  <2>1. Lesser(bar, window[1]) \in Int /\ (window[1] - Lesser(bar, window[1])) \div 2 \in Int
    BY <1>1 DEF Lesser
  <2> QED BY <2>1, RectType DEF BarRect
<1>3. box \in Rects
  <2>1. /\ (window[1] - DialogSize[1]) \div 2 \in Int /\ (window[2] - DialogSize[2]) \div 2 \in Int
        /\ DialogSize[1] \in Int /\ DialogSize[2] \in Int
    BY <1>1
  <2> QED BY <2>1, RectType DEF Bounds
<1>4. Overlays = first \o second
  BY DEF Overlays
<1> HIDE DEF strip, box
<1>5. Clip(strip, window) \in Seq(Rects) /\ Pixels(strip) \cap Grid(window) \subseteq Region(Clip(strip, window))
  BY <1>1, <1>2, ClipRight
<1>6. first \in Seq(Rects) /\ (BarShown => Pixels(strip) \cap Grid(window) \subseteq Region(first))
  BY <1>5
<1>7. second \in Seq(Rects) /\ (DialogShown => Pixels(box) \subseteq Region(second))
  <2>1. <<box>> \in Seq(Rects) /\ <<>> \in Seq(Rects) /\ 1 \in DOMAIN <<box>> /\ <<box>>[1] = box
    BY <1>3
  <2> QED BY <2>1 DEF Region
<1> HIDE DEF first, second
<1>8. Overlays \in Seq(Rects) /\ Region(Overlays) = Region(first) \cup Region(second)
  BY <1>4, <1>6, <1>7, RegionConcat
<1> QED BY <1>6, <1>7, <1>8 DEF strip, box

LEMMA OverlayDamageRight ==
  ASSUME NEW size \in Nat \X Nat, NEW current \in Seq(Rects), NEW previous \in Seq(Rects),
         NEW dimmed, NEW was_dimmed,
         NEW damage, damage = OverlayDamage(size, current, previous, dimmed, was_dimmed)
  PROVE  /\ damage \in Seq(Rects)
         /\ \A at \in Grid(size) : at \notin Region(damage) =>
              dimmed = was_dimmed /\ at \notin Region(current) /\ at \notin Region(previous)
<1>1. CASE dimmed # was_dimmed
  <2>1. damage = <<Covering(size)>>
    BY <1>1 DEF OverlayDamage
  <2>2. Covering(size) \in Rects
    BY DEF Covering, Rect, Rects
  <2>3. damage \in Seq(Rects) /\ DOMAIN damage = {1} /\ damage[1] = Covering(size)
    BY <2>1, <2>2
  <2> QED BY <2>3 DEF Region, Grid
<1>2. CASE dimmed = was_dimmed
  <2>1. damage = current \o previous
    BY <1>2 DEF OverlayDamage
  <2>2. damage \in Seq(Rects) /\ Region(damage) = Region(current) \cup Region(previous)
    BY <2>1, RegionConcat
  <2> QED BY <1>2, <2>2
<1> QED BY <1>1, <1>2

(* What a draw leaves out of its copies was right in the buffer, and what  *)
(* it does not present was right on the screen.                            *)
LEMMA PlanRight ==
  ASSUME Drawable, NEW changed \in Seq(Rects), NEW age \in Nat, NEW everything,
         NEW plan, plan = Plan(history, age, Here, changed, everything)
  PROVE  /\ plan.copy \in Seq(Rects) /\ Disjoint(plan.copy) /\ plan.present \in Seq(Rects)
         /\ \A at \in Grid(window) : at \notin Region(plan.copy) =>
              Usable(history, age, Here) /\ ~Missed(age, at) /\ at \notin Region(changed)
         /\ \A at \in Grid(window) : at \notin Region(plan.present) =>
              ~everything /\ Usable(history, age, Here) /\ at \notin Region(changed)
<1> DEFINE whole == <<Covering(window)>>
           stale == Stale(history, age)
           missing == stale \o changed
<1>1. Here.window = window /\ window \in Nat \X Nat /\ history \in Seq(Presents)
  BY HereIs, WindowIs DEF Drawable, Typed
<1>2. whole \in Seq(Rects) /\ Disjoint(whole) /\ Region(whole) = Grid(window)
  <2>1. Covering(window) \in Rects
    BY <1>1 DEF Covering, Rect, Rects
  <2>2. whole \in Seq(Rects) /\ DOMAIN whole = {1} /\ whole[1] = Covering(window)
    BY <2>1
  <2> QED BY <2>2 DEF Disjoint, Region, Grid
<1>3. CASE ~Usable(history, age, Here)
  <2>1. plan = [copy |-> whole, present |-> whole]
    BY <1>1, <1>3 DEF Plan
  <2>2. plan.copy = whole /\ plan.present = whole
    BY <2>1
  <2> HIDE DEF whole
  <2> QED BY <1>2, <2>2
<1>4. CASE Usable(history, age, Here)
  <2>1. plan = [copy |-> Simplify(missing, window),
                present |-> IF everything THEN whole ELSE Simplify(changed, window)]
    BY <1>1, <1>4 DEF Plan
  <2>2. plan.copy = Simplify(missing, window) /\ plan.present = IF everything THEN whole ELSE Simplify(changed, window)
    BY <2>1
  <2>3. age - 1 \in Nat /\ \A n \in 1 .. age - 1 : history[n].damage \in Seq(Rects)
    <3>1. age \in 1 .. Len(history) /\ Len(history) \in Nat
      BY <1>1, <1>4, LenProperties DEF Usable
    <3>2. ASSUME NEW n \in 1 .. age - 1 PROVE history[n].damage \in Seq(Rects)
      <4>1. n \in 1 .. Len(history)
        BY <3>1
      <4>2. history[n] \in Presents
        BY <1>1, <4>1, ElementOfSeq
      <4> QED BY <4>2 DEF Presents
    <3> QED BY <3>1, <3>2
  <2>4. stale \in Seq(Rects) /\ \A n \in 1 .. age - 1 : Region(history[n].damage) \subseteq Region(stale)
    BY <2>3, ChangedRight DEF Stale
  <2> HIDE DEF stale, whole
  <2>5. missing \in Seq(Rects) /\ Region(missing) = Region(stale) \cup Region(changed)
    BY <2>4, RegionConcat
  <2> HIDE DEF missing
  <2>6. /\ plan.copy \in Seq(Rects) /\ Disjoint(plan.copy)
        /\ Region(missing) \cap Grid(window) \subseteq Region(plan.copy)
    BY <1>1, <2>2, <2>5, SimplifyRight DEF Grid
  <2>7. /\ Simplify(changed, window) \in Seq(Rects)
        /\ Region(changed) \cap Grid(window) \subseteq Region(Simplify(changed, window))
    BY <1>1, SimplifyRight DEF Grid
  <2>8. ASSUME NEW at \in Grid(window), at \notin Region(plan.copy)
        PROVE  ~Missed(age, at) /\ at \notin Region(changed)
    BY <2>4, <2>5, <2>6, <2>8 DEF Missed
  <2>9. ASSUME NEW at \in Grid(window), at \notin Region(plan.present)
        PROVE  ~everything /\ at \notin Region(changed)
    <3>1. CASE everything
      BY <1>2, <2>2, <2>9, <3>1
    <3>2. CASE ~everything
      BY <2>2, <2>7, <2>9, <3>2
    <3> QED BY <3>1, <3>2
  <2>10. plan.present \in Seq(Rects)
    BY <1>2, <2>2, <2>7
  <2> QED BY <1>4, <2>6, <2>8, <2>9, <2>10
<1> QED BY <1>3, <1>4

(* What a draw finds changed.                                              *)
Changes == DirtyArea \o OverlayDamage(window, Overlays, overlays, DialogShown, dialog_visible)

LEMMA ChangesRight ==
  ASSUME Drawable
  PROVE  /\ Changes \in Seq(Rects)
         /\ \A at \in Grid(window) : at \notin Region(Changes) =>
              /\ Clean(keep, frame, dirty, Here, at)
              /\ DialogShown = dialog_visible
              /\ at \notin Region(Overlays) /\ at \notin Region(overlays)
<1> DEFINE damage == OverlayDamage(window, Overlays, overlays, DialogShown, dialog_visible)
<1>1. window \in Nat \X Nat /\ overlays \in Seq(Rects) /\ Overlays \in Seq(Rects)
  BY WindowIs, OverlaysRight DEF Drawable, Typed
<1>2. /\ damage \in Seq(Rects)
      /\ \A at \in Grid(window) : at \notin Region(damage) =>
           DialogShown = dialog_visible /\ at \notin Region(Overlays) /\ at \notin Region(overlays)
  <2> HIDE DEF damage
  <2>1. damage = OverlayDamage(window, Overlays, overlays, DialogShown, dialog_visible)
    BY DEF damage
  <2> QED BY <1>1, <2>1, OverlayDamageRight
<1>3. Changes = DirtyArea \o damage
  BY DEF Changes
<1> HIDE DEF damage
<1>4. /\ DirtyArea \in Seq(Rects)
      /\ \A at \in Grid(window) : at \notin Region(DirtyArea) => Clean(keep, frame, dirty, Here, at)
  BY DirtyAreaRight
<1>5. Changes \in Seq(Rects) /\ Region(Changes) = Region(DirtyArea) \cup Region(damage)
  BY <1>2, <1>3, <1>4, RegionConcat
<1> QED BY <1>2, <1>4, <1>5

(* The buffer a draw leaves is right all over.                             *)
LEMMA DrawnRight ==
  ASSUME Drawable, CacheRight, BuffersRight, NEW age \in Ages, NEW everything,
         NEW plan, plan = Plan(history, age, Here, Changes, everything),
         NEW buffer, buffer = Buffer(Held(age), plan.copy, IF Fitted THEN Cache ELSE frame)
  PROVE  DOMAIN buffer = Grid(window) /\ \A at \in Grid(window) : buffer[at] = Expected(DialogShown, Here, at)
<1>1. /\ Here \in Layouts /\ Here.window = window /\ Here.desktop = frame.size
      /\ Changes \in Seq(Rects) /\ Overlays \in Seq(Rects)
      /\ (IF Fitted THEN Cache ELSE frame) = frame
  BY HereIs, ChangesRight, OverlaysRight, SourceIs DEF Drawable
<1>2. age \in Nat /\ Len(buffers) \in Nat /\ age <= Len(buffers)
  <2>1. Len(buffers) \in Nat
    BY LenProperties DEF Drawable, Typed
  <2> QED BY <2>1 DEF Ages
<1> DEFINE copied(at) == Among(plan.copy, at) # {}
           base(at) == IF copied(at) THEN Painted(Shown(frame, at), 0) ELSE Held(age)[at]
           over(at) == BarShown /\ at \in Pixels(BarRect(bar, window))
           barred(at) == IF over(at) THEN Painted(<<"bar">>, 0) ELSE base(at)
           boxed(at) == DialogShown /\ at \in Pixels(Bounds(window))
           value(at) == IF boxed(at) THEN Painted(<<"dialog">>, 0)
                        ELSE IF DialogShown
                             THEN [barred(at) EXCEPT !.dimmed = @ + Cardinality(Among(plan.copy, at))]
                             ELSE barred(at)
<1>3. buffer = [at \in Grid(window) |-> value(at)]
  BY <1>1 DEF Buffer, Grid
<1>4. ASSUME NEW at \in Grid(window) PROVE value(at) = Expected(DialogShown, Here, at)
  <2>1. Shown(frame, at) = Colouring(keep, frame, Here, at)
    BY ShownIs
  <2> DEFINE colours == IF over(at) THEN <<"bar">> ELSE Colouring(keep, frame, Here, at)
  <2>2. Expected(DialogShown, Here, at) = IF boxed(at) THEN Painted(<<"dialog">>, 0) ELSE Painted(colours, Dims(DialogShown))
    BY DEF Expected
  <2>3. CASE copied(at)
    <3>1. barred(at) = Painted(colours, 0)
      BY <2>1, <2>3
    <3>2. Cardinality(Among(plan.copy, at)) = 1
      <4>1. Disjoint(plan.copy) /\ at \in Region(plan.copy)
        BY <1>1, <1>2, <2>3, PlanRight, AmongRegion
      <4> QED BY <4>1, AmongOne
    <3> HIDE DEF colours, barred, boxed
    <3>3. [barred(at) EXCEPT !.dimmed = @ + 1] = Painted(colours, 1)
      BY <3>1 DEF Painted
    <3> QED BY <2>2, <3>1, <3>2, <3>3 DEF Dims
  <2>4. CASE ~copied(at)
    <3>1. at \notin Region(plan.copy)
      BY <2>4, AmongRegion
    <3>2. Usable(history, age, Here) /\ ~Missed(age, at) /\ at \notin Region(Changes)
      BY <1>1, <1>2, <3>1, PlanRight
    <3>3. /\ Clean(keep, frame, dirty, Here, at) /\ DialogShown = dialog_visible
          /\ at \notin Region(Overlays) /\ at \notin Region(overlays)
      BY <3>2, ChangesRight
    <3>4. ~over(at) /\ ~boxed(at)
      BY <3>3, OverlaysRight DEF Drawable
    <3>5. age \in 1 .. Len(history) /\ Newest = Here /\ SameLayout(age)
      <4>1. age \in 1 .. Len(history) /\ \A n \in 1 .. age : history[n].layout = Here
        BY <3>2 DEF Usable
      <4>2. 1 \in 1 .. age
        BY <1>2, <4>1
      <4> QED BY <4>1, <4>2 DEF Newest, SameLayout
    <3>6. BufferRight(age)
      BY <1>2, <3>5 DEF BuffersRight
    <3>7. Held(age) = buffers[age]
      <4>1. DOMAIN buffers[age] = Grid(window)
        BY <1>1, <3>5, <3>6 DEF BufferRight
      <4>2. age \in DOMAIN buffers
        <5>1. DOMAIN buffers = 1 .. Len(buffers)
          BY LenProperties DEF Drawable, Typed
        <5>2. age >= 1
          BY <1>2, <3>5
        <5> QED BY <1>2, <5>1, <5>2
      <4> QED BY <4>1, <4>2 DEF Held, Grid
    <3>8. buffers[age][at] = Painted(Colouring(keep, frame, Here, at), Dims(DialogShown))
      BY <1>1, <3>2, <3>3, <3>5, <3>6 DEF BufferRight
    <3>9. barred(at) = Painted(colours, Dims(DialogShown))
      BY <2>4, <3>4, <3>7, <3>8
    <3>10. Cardinality(Among(plan.copy, at)) = 0
      BY <2>4, FS_EmptySet
    <3> HIDE DEF colours, barred, boxed, over
    <3>11. [barred(at) EXCEPT !.dimmed = @ + 0] = barred(at)
      <4>1. Dims(DialogShown) + 0 = Dims(DialogShown)
        BY DEF Dims
      <4> QED BY <3>9, <4>1 DEF Painted
    <3> QED BY <2>2, <3>4, <3>9, <3>10, <3>11
  <2> QED BY <2>3, <2>4
<1> HIDE DEF value
<1> QED BY <1>3, <1>4
-----------------------------------------------------------------------------
(* A draw.                                                                 *)

Unmoved == UNCHANGED <<keep, frame, windowVars>>

LEMMA PaintStep ==
  ASSUME IInv, Drawable, NEW age \in Ages, NEW everything, Paint(everything, age),
         Unmoved, dirty' = <<>>, everything \/ redraw' = redraw
  PROVE  /\ history' \in Seq(Presents) /\ buffers' \in Seq(Range(buffers')) /\ overlays' \in Seq(Rects)
         /\ Len(history') <= DEPTH /\ Len(buffers') <= MaxAge
         /\ scaled_frame' \in {frame, NoFrame} /\ dialog_visible' = DialogShown
         /\ DOMAIN screen' = Grid(window)
         /\ CacheRight' /\ BuffersRight' /\ ScreenRight'
<1> DEFINE plan == Plan(history, age, Here, Changes, everything)
           buffer == Buffer(Held(age), plan.copy, IF Fitted THEN Cache ELSE frame)
           present == [layout |-> Here, damage |-> plan.present]
<1>1. /\ scaled_frame' = Cache /\ overlays' = Overlays /\ dialog_visible' = DialogShown
      /\ Pushes(buffers, buffer, MaxAge, buffers') /\ Pushes(history, present, DEPTH, history')
      /\ screen' = [at \in DOMAIN buffer |-> IF Among(plan.present, at) # {} THEN buffer[at] ELSE screen[at]]
  BY DEF Paint, Record, Pushes, Here, Changes
<1>2. /\ Here \in Layouts /\ Here.window = window /\ Here.desktop = frame.size /\ frame \in Frames
      /\ Changes \in Seq(Rects)
      /\ \A at \in Grid(window) : at \notin Region(Changes) =>
           /\ Clean(keep, frame, dirty, Here, at)
           /\ DialogShown = dialog_visible
           /\ at \notin Region(Overlays) /\ at \notin Region(overlays)
  BY HereIs, ChangesRight
<1>3. /\ plan.present \in Seq(Rects)
      /\ \A at \in Grid(window) : at \notin Region(plan.present) =>
           ~everything /\ Usable(history, age, Here) /\ at \notin Region(Changes)
  <2>1. age \in Nat
    BY LenProperties DEF Ages
  <2> QED BY <1>2, <2>1, PlanRight
<1>4. DOMAIN buffer = Grid(window) /\ \A at \in Grid(window) : buffer[at] = Expected(DialogShown, Here, at)
  BY DrawnRight DEF IInv
<1>5. Cache \in {frame, NoFrame}
  BY SourceIs DEF IInv
<1>6. present \in Presents /\ present.layout = Here /\ present.damage = plan.present
  BY <1>2, <1>3 DEF Presents
<1> HIDE DEF plan, buffer, present
<1>7. history \in Seq(Presents) /\ buffers \in Seq(Range(buffers)) /\ Len(history) \in Nat /\ Len(buffers) \in Nat
  BY LenProperties DEF IInv, Typed
<1>8. /\ history' \in Seq(Presents) /\ Len(history') = Lesser(DEPTH, Len(history) + 1)
      /\ Len(history') >= 1 => history'[1] = present
      /\ \A n \in 1 .. Len(history) : n + 1 <= Len(history') => history'[n + 1] = history[n]
  <2>1. DEPTH \in Nat
    BY DEF DEPTH
  <2>2. Pushes(history, present, DEPTH, history')
    BY <1>1
  <2>3. present \in Presents /\ history \in Seq(Presents)
    BY <1>6, <1>7
  <2> QED BY <2>1, <2>2, <2>3, Pushed
<1>9. /\ buffers' \in Seq(Range(buffers')) /\ Len(buffers') = Lesser(MaxAge, Len(buffers) + 1)
      /\ Len(buffers') >= 1 => buffers'[1] = buffer
      /\ \A n \in 1 .. Len(buffers) : n + 1 <= Len(buffers') => buffers'[n + 1] = buffers[n]
  <2> DEFINE S == Range(buffers) \cup {buffer}
  <2>1. MaxAge \in Nat
    BY PresentAssumption DEF PresentAssumption
  <2>2. buffers \in Seq(S) /\ buffer \in S
    BY <1>7, SeqMonotonic
  <2> HIDE DEF S
  <2>3. /\ buffers' \in Seq(S) /\ Len(buffers') = Lesser(MaxAge, Len(buffers) + 1)
        /\ Len(buffers') >= 1 => buffers'[1] = buffer
        /\ \A n \in 1 .. Len(buffers) : n + 1 <= Len(buffers') => buffers'[n + 1] = buffers[n]
    BY <1>1, <2>1, <2>2, Pushed
  <2> QED BY <2>3, SeqOfRange
<1>10. Len(history') <= DEPTH /\ Len(buffers') <= MaxAge /\ Len(history') <= Len(history) + 1
       /\ Len(buffers') <= Len(buffers) + 1 /\ Len(history') >= 1
  <2>1. MaxAge \in Nat
    BY PresentAssumption DEF PresentAssumption
  <2> QED BY <1>7, <1>8, <1>9, <2>1 DEF Lesser, DEPTH
<1>11. history'[1] = present /\ Newest' = Here
  BY <1>6, <1>8, <1>10 DEF Newest
<1>12. /\ keep' = keep /\ frame' = frame /\ window' = window /\ resized' = resized
       /\ filling' = filling /\ DialogShown' = DialogShown /\ BarShown' = BarShown /\ bar' = bar
       /\ closing' = closing
  BY DEF Unmoved, windowVars, overlayVars, DialogShown, BarShown
<1>13. CacheRight'
  <2>1. NoFrame.size # frame.size
    BY <1>2, FrameIs DEF NoFrame
  <2>2. scaled_frame' = frame \/ scaled_frame' = NoFrame
    BY <1>1, <1>5
  <2> QED BY <1>12, <2>1, <2>2 DEF CacheRight
<1>14. ASSUME NEW at \in Grid(window)
       PROVE  Expected(dialog_visible, Newest, at)' = Expected(DialogShown, Here, at)
  BY <1>1, <1>11, <1>12 DEF Expected
<1>15. ASSUME NEW at \in Grid(window), ~redraw', ~resized', ~filling'
       PROVE  screen'[at] = Expected(DialogShown, Here, at)
  <2>1. screen'[at] = IF at \in Region(plan.present) THEN buffer[at] ELSE screen[at]
    BY <1>1, <1>4, AmongRegion
  <2>2. CASE at \in Region(plan.present)
    BY <1>4, <2>1, <2>2
  <2>3. CASE at \notin Region(plan.present)
    <3>1. ~everything /\ Usable(history, age, Here) /\ at \notin Region(Changes)
      BY <1>3, <2>3
    <3>2. Newest = Here /\ history # <<>>
      <4>1. age \in 1 .. Len(history) /\ \A n \in 1 .. age : history[n].layout = Here
        BY <3>1 DEF Usable
      <4>2. 1 \in 1 .. age /\ Len(history) # 0
        BY <1>7, <4>1
      <4>3. history # <<>>
        BY <1>7, <4>2, EmptySeq
      <4> QED BY <4>1, <4>2, <4>3 DEF Newest
    <3>3. ~redraw /\ ~resized /\ ~filling
      BY <1>12, <1>15, <3>1
    <3>4. Clean(keep, frame, dirty, Newest, at)
      BY <1>2, <3>1, <3>2
    <3>5. screen[at] = Expected(dialog_visible, Newest, at)
      BY <1>2, <3>2, <3>3, <3>4 DEF IInv, ScreenRight
    <3>6. DialogShown = dialog_visible
      BY <1>2, <3>1
    <3> QED BY <2>1, <2>3, <3>2, <3>5, <3>6
  <2> QED BY <2>2, <2>3
<1>16. ScreenRight'
  <2>1. (DialogSeen <=> dialog_visible)'
    BY <1>1, <1>12 DEF DialogSeen
  <2> QED BY <1>11, <1>12, <1>14, <1>15, <2>1 DEF ScreenRight
<1>17. ASSUME NEW at \in Grid(window), at \notin Region(overlays')
       PROVE  Expected(DialogShown, Here, at) = Painted(Colouring(keep, frame, Here, at), Dims(DialogShown))
  <2>1. /\ ~(BarShown /\ at \in Pixels(BarRect(bar, window)))
        /\ ~(DialogShown /\ at \in Pixels(Bounds(window)))
    BY <1>1, <1>17, OverlaysRight DEF Drawable
  <2> QED BY <2>1 DEF Expected
<1>18. ASSUME NEW n \in 1 .. Len(history'), n <= Len(buffers'), SameLayout(n)'
       PROVE  /\ DOMAIN buffers'[n] = Grid(window)
              /\ \A at \in Grid(window) : at \notin Region(overlays') /\ ~Missed(n, at)' =>
                   buffers'[n][at] = Painted(Colouring(keep, frame, Here, at), Dims(DialogShown))
  <2>1. CASE n = 1
    <3>1. buffers'[n] = buffer
      BY <1>7, <1>9, <1>10, <1>18, <2>1
    <3> QED BY <1>4, <1>17, <3>1
  <2>2. CASE n # 1
    <3> DEFINE k == n - 1
    <3>1. k \in Nat /\ k >= 1 /\ k + 1 = n /\ k \in 1 .. Len(history) /\ k \in 1 .. Len(buffers) /\ k <= Len(buffers)
      BY <1>7, <1>8, <1>9, <1>10, <1>18, <2>2
    <3> HIDE DEF k
    <3>2. buffers'[n] = buffers[k]
      BY <1>9, <1>18, <3>1
    <3>3. \A m \in 1 .. k : m \in 1 .. Len(history) /\ m + 1 \in 1 .. n /\ m + 1 <= Len(history') /\ m \in Nat
      BY <1>7, <1>8, <3>1
    <3>4. \A m \in 1 .. k : history'[m + 1] = history[m]
      BY <1>8, <3>3
    <3>5. \A m \in 1 .. k : history[m].layout = Here
      BY <1>11, <1>18, <3>3, <3>4 DEF SameLayout
    <3>6. Newest = Here /\ SameLayout(k)
      BY <3>1, <3>5 DEF Newest, SameLayout
    <3>7. BufferRight(k)
      BY <3>1, <3>6 DEF IInv, BuffersRight
    <3>8. ASSUME NEW at \in Grid(window), at \notin Region(overlays'), ~Missed(n, at)'
          PROVE  buffers[k][at] = Painted(Colouring(keep, frame, Here, at), Dims(DialogShown))
      <4>1. \A m \in 1 .. n - 1 : at \notin Region(history'[m].damage)
        BY <3>8 DEF Missed
      <4>2. at \notin Region(plan.present)
        <5>1. 1 \in 1 .. n - 1
          BY <3>1
        <5> QED BY <1>6, <1>11, <4>1, <5>1
      <4>3. \A m \in 1 .. k - 1 : m \in 1 .. k /\ m + 1 \in 1 .. n - 1
        BY <3>1
      <4>4. ~Missed(k, at)
        BY <3>4, <4>1, <4>3 DEF Missed
      <4>5. /\ Clean(keep, frame, dirty, Here, at) /\ DialogShown = dialog_visible
            /\ at \notin Region(overlays)
        BY <1>2, <1>3, <4>2
      <4> QED BY <1>2, <3>6, <3>7, <4>4, <4>5 DEF BufferRight
    <3>9. DOMAIN buffers[k] = Grid(window)
      BY <1>2, <3>6, <3>7 DEF BufferRight
    <3> QED BY <3>2, <3>8, <3>9
  <2> QED BY <2>1, <2>2
<1>19. BuffersRight'
  <2> SUFFICES ASSUME NEW n \in 1 .. Len(history'), n <= Len(buffers'), SameLayout(n)'
               PROVE  BufferRight(n)'
    BY DEF BuffersRight
  <2> QED BY <1>1, <1>2, <1>11, <1>12, <1>18 DEF BufferRight
<1>20. overlays' \in Seq(Rects)
  BY <1>1, OverlaysRight DEF Drawable
<1>21. DOMAIN screen' = Grid(window)
  BY <1>1, <1>4
<1> QED BY <1>1, <1>5, <1>8, <1>9, <1>10, <1>13, <1>16, <1>19, <1>20, <1>21
-----------------------------------------------------------------------------
(* Steps that draw nothing.                                                *)

LEMMA NewestIs ==
  ASSUME Typed, history # <<>>
  PROVE  Newest \in Layouts /\ Newest.window \in Nat \X Nat /\ ~Empty(Newest.window) /\ ~Empty(frame.size)
<1>1. 1 \in 1 .. Len(history)
  BY EmptySeq DEF Typed
<1>2. history[1] \in Presents
  BY <1>1, ElementOfSeq DEF Typed
<1>3. Newest \in Layouts
  BY <1>2 DEF Presents, Newest
<1>4. Newest.window \in Nat \X Nat /\ ~Empty(Newest.window)
  BY <1>3, LayoutSizes DEF Layouts
<1> QED BY <1>3, <1>4 DEF Typed

LEMMA SomeHistory ==
  ASSUME Typed, NEW age \in 1 .. Len(history)
  PROVE  history # <<>>
BY EmptySeq DEF Typed

Canvas == <<history, overlays, dialog_visible, scaled_frame, buffers>>

LEMMA BuffersKept ==
  ASSUME IInv, UNCHANGED <<keep, frame, dirty, Canvas>>
  PROVE  CacheRight' /\ BuffersRight'
<1>1. /\ keep' = keep /\ frame' = frame /\ dirty' = dirty /\ history' = history /\ overlays' = overlays
      /\ dialog_visible' = dialog_visible /\ scaled_frame' = scaled_frame /\ buffers' = buffers
  BY DEF Canvas
<1>2. CacheRight'
  BY <1>1 DEF IInv, CacheRight
<1>3. Newest' = Newest /\ \A age : SameLayout(age)' = SameLayout(age) /\ BufferRight(age)' = BufferRight(age)
  BY <1>1 DEF Newest, SameLayout, BufferRight, Missed
<1> QED BY <1>1, <1>2, <1>3 DEF IInv, BuffersRight

LEMMA ScreenKept ==
  ASSUME IInv, UNCHANGED <<keep, frame, dirty, windowVars, history, dialog_visible, screen>>,
         history # <<>> /\ Newest.window = window => redraw' = redraw
  PROVE  ScreenRight'
<1>1. /\ keep' = keep /\ frame' = frame /\ dirty' = dirty /\ history' = history /\ screen' = screen
      /\ dialog_visible' = dialog_visible
      /\ window' = window /\ bar' = bar /\ BarShown' = BarShown /\ DialogSeen' = DialogSeen
      /\ resized' = resized /\ filling' = filling
  BY DEF windowVars, overlayVars, BarShown, DialogSeen, DialogShown
<1>2. Newest' = Newest /\ \A at : Expected(dialog_visible, Newest, at)' = Expected(dialog_visible, Newest, at)
  BY <1>1 DEF Newest, Expected
<1> QED BY <1>1, <1>2 DEF IInv, ScreenRight

(* What changes the desktop.                                               *)
LEMMA FrameStep ==
  ASSUME IInv, UNCHANGED <<keep, Canvas, screen, windowVars, redraw>>,
         \A layout \in Layouts : \A at \in Grid(layout.window) :
           Clean(keep, frame', dirty', layout, at) =>
             /\ Clean(keep, frame, dirty, layout, at)
             /\ Colouring(keep, frame', layout, at) = Colouring(keep, frame, layout, at)
  PROVE  BuffersRight' /\ ScreenRight'
<1>1. /\ keep' = keep /\ history' = history /\ overlays' = overlays /\ screen' = screen
      /\ dialog_visible' = dialog_visible /\ buffers' = buffers
      /\ window' = window /\ bar' = bar /\ BarShown' = BarShown /\ DialogSeen' = DialogSeen
      /\ resized' = resized /\ filling' = filling /\ redraw' = redraw
  BY DEF Canvas, windowVars, overlayVars, BarShown, DialogSeen, DialogShown
<1>2. Newest' = Newest /\ Typed
  BY <1>1 DEF Newest, IInv
<1>3. BuffersRight'
  <2> SUFFICES ASSUME NEW age \in 1 .. Len(history), age <= Len(buffers), SameLayout(age)'
               PROVE  BufferRight(age)'
    BY <1>1 DEF BuffersRight
  <2>1. Newest \in Layouts
    BY <1>2, SomeHistory, NewestIs
  <2>2. BufferRight(age)
    BY <1>1, <1>2 DEF IInv, BuffersRight, SameLayout
  <2>3. \A at : Missed(age, at)' = Missed(age, at)
    BY <1>1 DEF Missed
  <2> QED BY <1>1, <1>2, <2>1, <2>2, <2>3 DEF BufferRight
<1>4. ScreenRight'
  <2> SUFFICES ASSUME ~redraw, ~resized, ~filling, history # <<>>, Newest.window = window
               PROVE  /\ DialogSeen <=> dialog_visible
                      /\ \A at \in Grid(window) : Clean(keep, frame', dirty', Newest, at) =>
                           screen[at] = Expected(dialog_visible, Newest, at)'
    BY <1>1, <1>2 DEF ScreenRight
  <2>1. DialogSeen <=> dialog_visible
    BY DEF IInv, ScreenRight
  <2> SUFFICES ASSUME NEW at \in Grid(window), Clean(keep, frame', dirty', Newest, at)
               PROVE  screen[at] = Expected(dialog_visible, Newest, at)'
    BY <2>1
  <2>2. Newest \in Layouts
    BY <1>2, NewestIs
  <2>3. Clean(keep, frame, dirty, Newest, at)
        /\ Colouring(keep, frame', Newest, at) = Colouring(keep, frame, Newest, at)
    BY <2>2
  <2>4. Expected(dialog_visible, Newest, at)' = Expected(dialog_visible, Newest, at)
    BY <1>1, <1>2, <2>3 DEF Expected
  <2>5. screen[at] = Expected(dialog_visible, Newest, at)
    BY <2>3 DEF IInv, ScreenRight
  <2> QED BY <2>4, <2>5
<1> QED BY <1>3, <1>4

LEMMA SpotRect ==
  ASSUME NEW size \in Nat \X Nat, NEW at \in Grid(size)
  PROVE  Rect(at[1], at[2], 1, 1) \in Rects /\ at \in Pixels(Rect(at[1], at[2], 1, 1))
<1>1. at = <<at[1], at[2]>> /\ at[1] \in Int /\ at[2] \in Int
  BY InGrid
<1>2. Rect(at[1], at[2], 1, 1) \in Rects
  BY <1>1 DEF Rect, Rects
<1>3. at[1] < at[1] + 1 /\ at[2] < at[2] + 1
  BY <1>1
<1>4. /\ Rect(at[1], at[2], 1, 1).x = at[1] /\ Rect(at[1], at[2], 1, 1).y = at[2]
      /\ Rect(at[1], at[2], 1, 1).width = 1 /\ Rect(at[1], at[2], 1, 1).height = 1
  BY DEF Rect
<1> QED BY <1>1, <1>2, <1>3, <1>4, PixelIn

LEMMA OneRect ==
  ASSUME NEW rect \in Rects, NEW s, s = <<rect>>
  PROVE  s \in Seq(Rects) /\ s # <<>> /\ s[1] = rect /\ Len(s) <= 1
OBVIOUS

LEMMA ReplaceStep ==
  ASSUME IInv, NEW new \in Frames, Replace(new),
         UNCHANGED <<keep, Canvas, screen, windowVars, redraw>>
  PROVE  /\ frame' \in Frames /\ dirty' \in Seq(Rects) /\ Len(dirty') <= 1 /\ ~Empty(frame'.size)
         /\ CacheRight' /\ BuffersRight' /\ ScreenRight'
<1>1. frame' = new /\ dirty' = <<Covering(new.size)>>
  BY DEF Replace
<1>2. new.size \in Nat \X Nat /\ ~Empty(new.size) /\ new.pixels \in [Grid(new.size) -> Colours]
  BY FrameIs
<1>3. Covering(new.size) \in Rects
  BY <1>2 DEF Covering, Rect, Rects
<1>4. dirty' \in Seq(Rects) /\ dirty' # <<>> /\ dirty'[1] = Covering(new.size) /\ Len(dirty') <= 1
  BY <1>1, <1>3, OneRect
<1>5. BuffersRight' /\ ScreenRight'
  BY <1>1, ReplaceKeeps, FrameStep
<1>6. CacheRight'
  <2>1. DOMAIN new.pixels = Pixels(Covering(new.size))
    BY <1>2 DEF Grid
  <2> QED BY <1>1, <1>4, <2>1 DEF CacheRight
<1> QED BY <1>1, <1>2, <1>4, <1>5, <1>6

LEMMA UpdateStep ==
  ASSUME IInv, Update
  PROVE  IInv'
<1>1. PICK at \in DOMAIN frame.pixels, colour \in Colours :
        /\ frame' = [frame EXCEPT !.pixels[at] = colour]
        /\ dirty' = <<IF dirty = <<>> THEN Rect(at[1], at[2], 1, 1) ELSE Hull(dirty[1], Rect(at[1], at[2], 1, 1))>>
  BY DEF Update
<1> DEFINE rect == Rect(at[1], at[2], 1, 1)
           wider == IF dirty = <<>> THEN rect ELSE Hull(dirty[1], rect)
<1>2. /\ Typed /\ ~Empty(frame.size) /\ updated' = TRUE
      /\ UNCHANGED <<target, keep, rpcVars, desktop_size, windowVars, redraw, paintedVars>>
  BY DEF Update, IInv
<1>3. frame \in Frames
  <2>1. Empty(NoFrame.size)
    BY DEF NoFrame, Empty
  <2> QED BY <1>2, <2>1 DEF Typed, TypeOK
<1>4. /\ frame = [size |-> frame.size, pixels |-> frame.pixels] /\ frame.size \in Desktops
      /\ frame.pixels \in [Grid(frame.size) -> Colours] /\ frame.size \in Nat \X Nat
  BY <1>3, FrameIs
<1>5. /\ frame' = [size |-> frame.size, pixels |-> [frame.pixels EXCEPT ![at] = colour]]
      /\ frame'.size = frame.size /\ frame'.pixels = [frame.pixels EXCEPT ![at] = colour]
  BY <1>1, <1>4
<1>6. /\ DOMAIN frame'.pixels = Grid(frame.size) /\ DOMAIN frame.pixels = Grid(frame.size)
      /\ \A pixel \in Grid(frame.size) : pixel # at => frame'.pixels[pixel] = frame.pixels[pixel]
      /\ frame'.pixels \in [Grid(frame.size) -> Colours]
  BY <1>4, <1>5
<1>7. frame' \in Frames
  BY <1>4, <1>5, <1>6 DEF Frames, Grid
<1>8. rect \in Rects /\ at \in Pixels(rect)
  BY <1>4, <1>6, SpotRect
<1>9. /\ wider \in Rects /\ at \in Pixels(wider)
      /\ dirty # <<>> => Pixels(dirty[1]) \subseteq Pixels(wider)
  <2> HIDE DEF rect
  <2>1. CASE dirty = <<>>
    BY <1>8, <2>1
  <2>2. CASE dirty # <<>>
    <3>1. dirty[1] \in Rects
      <4>1. dirty \in Seq(Rects) /\ 1 \in 1 .. Len(dirty)
        BY <1>2, <2>2, EmptySeq DEF Typed
      <4> QED BY <4>1, ElementOfSeq
    <3>2. Hull(dirty[1], rect) \in Rects /\ Pixels(dirty[1]) \cup Pixels(rect) \subseteq Pixels(Hull(dirty[1], rect))
      BY <1>8, <3>1, HullCovers
    <3> QED BY <1>8, <2>2, <3>2
  <2> QED BY <2>1, <2>2
<1>10. dirty' \in Seq(Rects) /\ dirty' # <<>> /\ dirty'[1] = wider /\ Len(dirty') <= 1
  <2>1. dirty' = <<wider>>
    BY <1>1
  <2> HIDE DEF wider
  <2> QED BY <1>9, <2>1, OneRect
<1> HIDE DEF rect, wider
<1>11. ASSUME NEW layout \in Layouts, NEW pixel \in Grid(layout.window),
              Clean(keep, frame', dirty', layout, pixel)
       PROVE  /\ Clean(keep, frame, dirty, layout, pixel)
              /\ Colouring(keep, frame', layout, pixel) = Colouring(keep, frame, layout, pixel)
  <2>1. dirty # <<>> => Pixels(dirty[1]) \subseteq Pixels(dirty'[1])
    BY <1>9, <1>10
  <2>2. /\ frame'.size = frame.size /\ at \in Pixels(dirty'[1]) /\ dirty' # <<>>
        /\ \A other \in Grid(frame.size) : other # at => frame'.pixels[other] = frame.pixels[other]
    BY <1>5, <1>6, <1>9, <1>10
  <2>3. OneChanged(frame, frame', dirty, dirty')
    BY <2>1, <2>2 DEF OneChanged
  <2> QED BY <1>11, <2>3, UpdateKeeps
<1>12. BuffersRight' /\ ScreenRight'
  BY <1>2, <1>11, FrameStep DEF Canvas, paintedVars, windowVars, overlayVars
<1>13. CacheRight'
  <2>1. scaled_frame' = scaled_frame
    BY <1>2 DEF paintedVars
  <2>2. ASSUME scaled_frame.size = frame.size, NEW pixel \in DOMAIN frame.pixels, pixel \notin Pixels(wider)
        PROVE  scaled_frame.pixels[pixel] = frame'.pixels[pixel]
    BY <1>6, <1>9, <2>2 DEF IInv, CacheRight
  <2> QED BY <1>5, <1>6, <1>10, <2>1, <2>2 DEF CacheRight
<1>14. Typed'
  BY <1>2, <1>5, <1>7, <1>10 DEF Typed, TypeOK, rpcVars, windowVars, overlayVars, paintedVars
<1> QED BY <1>12, <1>13, <1>14 DEF IInv

LEMMA NewDesktopStep ==
  ASSUME IInv, NewDesktop
  PROVE  IInv'
<1>1. PICK new \in Frames : Replace(new)
  BY DEF NewDesktop
<1>2. /\ Typed /\ updated' = TRUE
      /\ UNCHANGED <<target, keep, rpcVars, desktop_size, windowVars, redraw, paintedVars>>
  BY DEF NewDesktop, IInv
<1>3. /\ frame' \in Frames /\ dirty' \in Seq(Rects) /\ Len(dirty') <= 1 /\ ~Empty(frame'.size)
      /\ CacheRight' /\ BuffersRight' /\ ScreenRight'
  BY <1>1, <1>2, ReplaceStep DEF Canvas, paintedVars, windowVars, overlayVars
<1>4. Typed'
  BY <1>2, <1>3 DEF Typed, TypeOK, rpcVars, windowVars, overlayVars, paintedVars
<1> QED BY <1>3, <1>4 DEF IInv

LEMMA FetchStep ==
  ASSUME IInv, FetchFrame
  PROVE  IInv'
<1>1. /\ Typed
      /\ UNCHANGED <<target, keep, updated, fetched, notice, wakeup, available, desktop_size,
                     windowVars, redraw, paintedVars>>
  BY DEF FetchFrame, IInv
<1>2. CASE Empty(fetched.size)
  <2>1. handling' = "no" /\ UNCHANGED <<frame, dirty>>
    BY <1>2 DEF FetchFrame
  <2>2. CacheRight' /\ BuffersRight'
    BY <1>1, <2>1, BuffersKept DEF Canvas, paintedVars
  <2>3. ScreenRight'
    BY <1>1, <2>1, ScreenKept DEF paintedVars
  <2>4. Typed'
    BY <1>1, <2>1 DEF Typed, TypeOK, windowVars, overlayVars, paintedVars
  <2> QED BY <2>2, <2>3, <2>4 DEF IInv
<1>3. CASE ~Empty(fetched.size)
  <2>1. handling' = "draw" /\ Replace(fetched)
    BY <1>3 DEF FetchFrame
  <2>2. fetched \in Frames
    <3>1. Empty(NoFrame.size)
      BY DEF NoFrame, Empty
    <3> QED BY <1>1, <1>3, <3>1 DEF Typed, TypeOK
  <2>3. /\ frame' \in Frames /\ dirty' \in Seq(Rects) /\ Len(dirty') <= 1 /\ ~Empty(frame'.size)
        /\ CacheRight' /\ BuffersRight' /\ ScreenRight'
    BY <1>1, <2>1, <2>2, ReplaceStep DEF Canvas, paintedVars, windowVars, overlayVars
  <2>4. Typed'
    BY <1>1, <2>1, <2>3 DEF Typed, TypeOK, windowVars, overlayVars, paintedVars
  <2> QED BY <2>3, <2>4 DEF IInv
<1> QED BY <1>2, <1>3
-----------------------------------------------------------------------------
(* Steps that draw, and the window's.                                      *)

LEMMA PresentStep ==
  ASSUME IInv, NEW everything, PresentFrame(everything), Unmoved, everything \/ redraw' = redraw,
         UNCHANGED <<target, fetched>>,
         {updated', notice', wakeup', available', redraw'} \subseteq BOOLEAN,
         handling' \in {"no", "fetch", "draw"}
  PROVE  IInv'
<1>1. /\ UNCHANGED <<target, keep, frame, fetched, windowVars>> /\ window' = window /\ Typed
  BY DEF Unmoved, windowVars, IInv
<1>2. ASSUME UNCHANGED <<desktop_size, dirty, paintedVars>>,
             history # <<>> /\ Newest.window = window => redraw' = redraw
      PROVE  IInv'
  <2>1. CacheRight' /\ BuffersRight'
    BY <1>1, <1>2, BuffersKept DEF Canvas, paintedVars
  <2>2. ScreenRight'
    BY <1>1, <1>2, ScreenKept DEF paintedVars
  <2>3. Typed'
    BY <1>1, <1>2 DEF Typed, TypeOK, windowVars, overlayVars, paintedVars
  <2> QED BY <2>1, <2>2, <2>3 DEF IInv
<1>3. CASE Empty(window)
  <2>1. UNCHANGED <<desktop_size, dirty, paintedVars>>
    BY <1>3 DEF PresentFrame
  <2>2. ~(history # <<>> /\ Newest.window = window)
    BY <1>1, <1>3, NewestIs
  <2> QED BY <1>2, <2>1, <2>2
<1>4. CASE ~Empty(window) /\ (Empty(frame.size) \/ (~everything /\ dirty = <<>>))
  <2>1. UNCHANGED <<dirty, paintedVars>> /\ desktop_size' = frame.size
    BY <1>4 DEF PresentFrame
  <2>2. history # <<>> => redraw' = redraw
    BY <1>1, <1>4, NewestIs
  <2>3. CacheRight' /\ BuffersRight'
    BY <1>1, <2>1, BuffersKept DEF Canvas, paintedVars
  <2>4. ScreenRight'
    BY <1>1, <2>1, <2>2, ScreenKept DEF paintedVars
  <2>5. desktop_size' \in Desktops \cup {<<0, 0>>}
    <3>1. NoFrame.size = <<0, 0>>
      BY DEF NoFrame
    <3>2. frame \in Frames => frame.size \in Desktops
      BY FrameIs
    <3> QED BY <1>1, <2>1, <3>1, <3>2 DEF Typed, TypeOK
  <2>6. Typed'
    BY <1>1, <2>1, <2>5 DEF Typed, TypeOK, windowVars, overlayVars, paintedVars
  <2> QED BY <2>3, <2>4, <2>6 DEF IInv
<1>5. CASE ~Empty(window) /\ ~Empty(frame.size) /\ (everything \/ dirty # <<>>)
  <2>1. desktop_size' = frame.size /\ dirty' = <<>> /\ \E age \in Ages : Paint(everything, age)
    BY <1>5 DEF PresentFrame
  <2>2. Drawable
    BY <1>1, <1>5 DEF Drawable
  <2>3. PICK age \in Ages : Paint(everything, age)
    BY <2>1
  <2>4. /\ history' \in Seq(Presents) /\ buffers' \in Seq(Range(buffers')) /\ overlays' \in Seq(Rects)
        /\ Len(history') <= DEPTH /\ Len(buffers') <= MaxAge
        /\ scaled_frame' \in {frame, NoFrame} /\ dialog_visible' = DialogShown
        /\ DOMAIN screen' = Grid(window)
        /\ CacheRight' /\ BuffersRight' /\ ScreenRight'
    BY <2>1, <2>2, <2>3, PaintStep
  <2>5. frame \in Frames /\ frame.size \in Desktops
    BY <2>2, HereIs, FrameIs
  <2>6. dialog_visible' \in BOOLEAN
    BY <1>1, <2>4 DEF DialogShown, Fits, Typed, TypeOK
  <2>7. dirty' \in Seq(Rects) /\ Len(dirty') <= 1
    BY <2>1, EmptySeq
  <2>8. DOMAIN screen' = Pixels(Covering(window'))
    BY <1>1, <2>4 DEF Grid
  <2>9. Typed'
    BY <1>1, <1>5, <2>1, <2>4, <2>5, <2>6, <2>7, <2>8 DEF Typed, TypeOK, windowVars, overlayVars
  <2> QED BY <2>4, <2>9 DEF IInv
<1> QED BY <1>3, <1>4, <1>5

LEMMA DrawStep ==
  ASSUME IInv, FramebufferUpdated \/ DrawFetched \/ RedrawRequested
  PROVE  IInv'
<1>1. Typed
  BY DEF IInv
<1>2. CASE FramebufferUpdated
  <2>1. /\ PresentFrame(FALSE) /\ updated' = FALSE
        /\ UNCHANGED <<target, keep, frame, rpcVars, windowVars, redraw>>
    BY <1>2 DEF FramebufferUpdated
  <2>2. {updated', notice', wakeup', available', redraw'} \subseteq BOOLEAN /\ handling' \in {"no", "fetch", "draw"}
    BY <1>1, <2>1 DEF rpcVars, Typed, TypeOK
  <2> QED BY <2>1, <2>2, PresentStep DEF Unmoved, rpcVars, windowVars, overlayVars
<1>3. CASE DrawFetched
  <2>1. /\ PresentFrame(FALSE) /\ handling' = "no"
        /\ UNCHANGED <<target, keep, frame, updated, fetched, notice, wakeup, available, windowVars, redraw>>
    BY <1>3 DEF DrawFetched
  <2>2. {updated', notice', wakeup', available', redraw'} \subseteq BOOLEAN /\ handling' \in {"no", "fetch", "draw"}
    BY <1>1, <2>1 DEF Typed, TypeOK
  <2> QED BY <2>1, <2>2, PresentStep DEF Unmoved, windowVars, overlayVars
<1>4. CASE RedrawRequested
  <2>1. /\ PresentFrame(TRUE) /\ redraw' = FALSE
        /\ UNCHANGED <<target, keep, frame, updated, rpcVars, windowVars>>
    BY <1>4 DEF RedrawRequested
  <2>2. {updated', notice', wakeup', available', redraw'} \subseteq BOOLEAN /\ handling' \in {"no", "fetch", "draw"}
    BY <1>1, <2>1 DEF rpcVars, Typed, TypeOK
  <2> QED BY <2>1, <2>2, PresentStep DEF Unmoved, rpcVars, windowVars, overlayVars
<1> QED BY <1>2, <1>3, <1>4

(* The daemon's messages on their way.                                     *)
LEMMA MessageStep ==
  ASSUME IInv, DaemonFrame \/ Forward \/ FrameAvailable
  PROVE  IInv'
<1>1. /\ UNCHANGED <<target, keep, frame, dirty, updated, desktop_size, windowVars, redraw, paintedVars>>
      /\ fetched' \in Frames \cup {NoFrame}
      /\ {notice', wakeup', available'} \subseteq BOOLEAN /\ handling' \in {"no", "fetch", "draw"}
  <2>1. Typed
    BY DEF IInv
  <2>2. CASE DaemonFrame
    BY <2>1, <2>2 DEF DaemonFrame, Typed, TypeOK
  <2>3. CASE Forward
    BY <2>1, <2>3 DEF Forward, Typed, TypeOK
  <2>4. CASE FrameAvailable
    BY <2>1, <2>4 DEF FrameAvailable, Typed, TypeOK
  <2> QED BY <2>2, <2>3, <2>4
<1>2. CacheRight' /\ BuffersRight'
  BY <1>1, BuffersKept DEF Canvas, paintedVars
<1>3. ScreenRight'
  BY <1>1, ScreenKept DEF paintedVars
<1>4. Typed'
  BY <1>1 DEF IInv, Typed, TypeOK, windowVars, overlayVars, paintedVars
<1> QED BY <1>2, <1>3, <1>4 DEF IInv

(* What the user and the window system do: the window knows that it has to *)
(* be redrawn, or will be told.                                            *)
LEMMA WindowStep ==
  ASSUME IInv,
         \/ Resized \/ ToggleFullscreen \/ Reveal \/ SlideAway \/ Transport \/ Cancel
         \/ WindowChanges \/ FillScreen \/ Exposed
  PROVE  IInv'
<1>1. /\ UNCHANGED <<target, keep, frame, dirty, updated, rpcVars, desktop_size,
                     history, overlays, dialog_visible, scaled_frame, buffers>>
      /\ redraw' = TRUE \/ resized' = TRUE \/ filling' = TRUE
      /\ {resized', filling', redraw', out', dialog', closing'} \subseteq BOOLEAN
      /\ bar' \in BarWidths /\ mode' \in Modes
      /\ window' \in Windows /\ DOMAIN screen' = Pixels(Covering(window'))
  <2>1. Typed
    BY DEF IInv
  <2>2. CASE Resized
    BY <2>1, <2>2 DEF Resized, Typed, TypeOK, Modes, Fits, paintedVars
  <2>3. CASE ToggleFullscreen
    BY <2>1, <2>3 DEF ToggleFullscreen, Typed, TypeOK, Modes, paintedVars
  <2>4. CASE Reveal
    BY <2>1, <2>4 DEF Reveal, Typed, TypeOK, paintedVars
  <2>5. CASE SlideAway
    BY <2>1, <2>5 DEF SlideAway, Typed, TypeOK, paintedVars
  <2>6. CASE Transport
    BY <2>1, <2>6 DEF Transport, Typed, TypeOK, paintedVars
  <2>7. CASE Cancel
    BY <2>1, <2>7 DEF Cancel, Typed, TypeOK, paintedVars
  <2>8. CASE WindowChanges
    BY <2>1, <2>8 DEF WindowChanges, ResizedTo, Typed, TypeOK, overlayVars, Junk
  <2>9. CASE FillScreen
    BY <2>1, <2>9 DEF FillScreen, ResizedTo, Typed, TypeOK, Modes, overlayVars, Junk
  <2>10. CASE Exposed
    BY <2>1, <2>10 DEF Exposed, Typed, TypeOK, Junk, windowVars, overlayVars
  <2> QED BY <2>2, <2>3, <2>4, <2>5, <2>6, <2>7, <2>8, <2>9, <2>10
<1>2. CacheRight' /\ BuffersRight'
  BY <1>1, BuffersKept DEF Canvas
<1>3. ScreenRight'
  BY <1>1 DEF ScreenRight
<1>4. Typed'
  BY <1>1 DEF IInv, Typed, TypeOK, rpcVars
<1> QED BY <1>2, <1>3, <1>4 DEF IInv

(* What is asked and answered over the desktop: the dialog is redrawn, or  *)
(* the one that stays is the one that was drawn.                           *)
LEMMA CloseStep ==
  ASSUME IInv, RequestClose \/ Confirm
  PROVE  IInv'
<1>1. /\ UNCHANGED <<target, keep, frame, dirty, updated, rpcVars, desktop_size, bar, out, mode, window,
                     resized, filling, paintedVars>>
      /\ {dialog', closing', redraw'} \subseteq BOOLEAN
      /\ redraw' = TRUE \/ (redraw' = redraw /\ closing' = TRUE /\ dialog' = FALSE)
  <2>1. Typed
    BY DEF IInv
  <2>2. CASE RequestClose
    BY <2>1, <2>2 DEF RequestClose, Typed, TypeOK
  <2>3. CASE Confirm
    BY <2>1, <2>3 DEF Confirm, Typed, TypeOK
  <2> QED BY <2>2, <2>3
<1>2. CacheRight' /\ BuffersRight'
  BY <1>1, BuffersKept DEF Canvas, paintedVars
<1>3. ScreenRight'
  <2> SUFFICES ASSUME ~redraw', ~resized', ~filling', history' # <<>>, (Newest.window = window)'
               PROVE  /\ (DialogSeen <=> dialog_visible)'
                      /\ \A at \in Grid(window') : Clean(keep, frame, dirty, Newest, at)' =>
                           screen'[at] = Expected(dialog_visible, Newest, at)'
    BY DEF ScreenRight
  <2>1. /\ ~redraw /\ ~resized /\ ~filling /\ history # <<>> /\ Newest.window = window
        /\ closing' = TRUE /\ dialog' = FALSE
    BY <1>1 DEF Newest, paintedVars
  <2>2. (DialogSeen <=> dialog_visible)'
    BY <2>1 DEF DialogSeen, DialogShown
  <2>3. \A at \in Grid(window) : Clean(keep, frame, dirty, Newest, at) =>
          screen[at] = Expected(dialog_visible, Newest, at)
    BY <2>1 DEF IInv, ScreenRight
  <2> QED BY <1>1, <2>2, <2>3 DEF Newest, Expected, BarShown, paintedVars
<1>4. Typed'
  BY <1>1 DEF IInv, Typed, TypeOK, rpcVars, paintedVars
<1> QED BY <1>2, <1>3, <1>4 DEF IInv
-----------------------------------------------------------------------------
LEMMA InitIInv ==
  ASSUME Init
  PROVE  IInv
<1>1. /\ dirty = <<>> /\ history = <<>> /\ buffers = <<>> /\ overlays = <<>>
      /\ frame = NoFrame /\ scaled_frame = NoFrame /\ screen = Junk(window)
  BY DEF Init
<1>2. dirty \in Seq(Rects) /\ overlays \in Seq(Rects) /\ history \in Seq(Presents) /\ buffers \in Seq(Range(buffers))
  BY <1>1, EmptySeq
<1>3. Len(<<>>) = 0 /\ DEPTH \in Nat /\ MaxAge \in Nat
  BY PresentAssumption DEF PresentAssumption, DEPTH
<1>4. TypeOK
  <2>1. Len(dirty) <= 1 /\ Len(history) <= DEPTH /\ Len(buffers) <= MaxAge
    BY <1>1, <1>3
  <2>2. DOMAIN screen = Pixels(Covering(window))
    BY <1>1 DEF Junk
  <2>3. /\ {updated, notice, wakeup, available, resized, filling, redraw} \subseteq BOOLEAN
        /\ {out, dialog, closing, dialog_visible} \subseteq BOOLEAN
    BY DEF Init
  <2>4. /\ target \in Targets /\ keep \in Keeps /\ window \in Windows
        /\ fetched = NoFrame /\ handling = "no" /\ desktop_size = <<0, 0>>
        /\ bar \in BarWidths /\ mode \in Modes
    BY PresentAssumption DEF PresentAssumption, Init, Modes
  <2> QED BY <1>1, <2>1, <2>2, <2>3, <2>4 DEF TypeOK
<1>5. Typed
  BY <1>1, <1>2, <1>4 DEF Typed
<1>6. CacheRight
  BY <1>1 DEF CacheRight, NoFrame
<1>7. BuffersRight
  BY <1>1, <1>3 DEF BuffersRight
<1>8. ScreenRight
  BY <1>1 DEF ScreenRight
<1> QED BY <1>5, <1>6, <1>7, <1>8 DEF IInv

LEMMA NextIInv ==
  ASSUME IInv, [Next]_vars
  PROVE  IInv'
<1>1. CASE Next
  BY <1>1, UpdateStep, NewDesktopStep, FetchStep, DrawStep, MessageStep, WindowStep, CloseStep DEF Next
<1>2. CASE UNCHANGED vars
  <2>1. UNCHANGED <<target, keep, frame, dirty, updated, rpcVars, desktop_size, windowVars, redraw, paintedVars>>
    BY <1>2 DEF vars
  <2>2. CacheRight' /\ BuffersRight'
    BY <2>1, BuffersKept DEF Canvas, paintedVars
  <2>3. ScreenRight'
    BY <2>1, ScreenKept DEF paintedVars
  <2>4. Typed'
    BY <2>1 DEF IInv, Typed, TypeOK, rpcVars, windowVars, overlayVars, paintedVars
  <2> QED BY <2>2, <2>3, <2>4 DEF IInv
<1> QED BY <1>1, <1>2
-----------------------------------------------------------------------------
LEMMA Invariant == Spec => []IInv
<1>1. Init => IInv
  BY InitIInv
<1>2. IInv /\ [Next]_vars => IInv'
  BY NextIInv
<1> QED BY <1>1, <1>2, PTL DEF Spec

(* Every variable keeps to its kind: no more presents and buffers are      *)
(* remembered than there may be, and the screen is the window's size.      *)
THEOREM TypeCorrect == Spec => []TypeOK
<1>1. IInv => TypeOK
  BY DEF IInv, Typed
<1> QED BY <1>1, Invariant, PTL

(* Whatever the sizes of the window and the desktop, whichever buffers the *)
(* window system hands out, and however many updates, resizes, overlays    *)
(* and redraws came between: unless a redraw, a resize or the answer to a  *)
(* maximized window is on its way, the screen shows, but for the dirty     *)
(* area, the desktop, the bar and the dialog of this moment, dimmed once;  *)
(* a dialog that was confirmed stays until something else is drawn.        *)
THEOREM ScreenTrueHolds == Spec => []ScreenTrue
<1>1. IInv => ScreenTrue
  <2> SUFFICES ASSUME IInv, ~redraw, ~resized, ~filling, Presented, NEW at \in DOMAIN screen,
                      Among(DirtyArea, at) = {}
               PROVE  screen[at] = Composite(at)
    BY DEF ScreenTrue
  <2>1. Typed /\ history # <<>> /\ Newest = Here
    BY DEF IInv, Presented, Newest, Here
  <2>2. Newest.window = window
    BY <2>1 DEF Here, Layout
  <2>3. Drawable
    BY <2>1, <2>2, NewestIs DEF Drawable
  <2>4. at \in Grid(window)
    BY <2>1 DEF Typed, TypeOK, Grid
  <2>5. Clean(keep, frame, dirty, Newest, at)
    BY <2>1, <2>3, <2>4, DirtyAreaRight, AmongRegion
  <2>6. screen[at] = Expected(dialog_visible, Here, at) /\ (DialogSeen <=> dialog_visible)
    BY <2>1, <2>2, <2>4, <2>5 DEF IInv, ScreenRight
  <2>7. Expected(dialog_visible, Here, at) = Expected(DialogSeen, Here, at)
    BY <2>6 DEF Expected, Dims
  <2> QED BY <2>3, <2>6, <2>7, CompositeIs
<1> QED BY <1>1, Invariant, PTL
=============================================================================
