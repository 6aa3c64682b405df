----------------------------- MODULE DamageProofs -----------------------------
(***************************************************************************)
(* What repainting covers, for rectangles, windows and desktops of every   *)
(* size: a pixel that shows a changed pixel of the desktop is repainted,   *)
(* and merging leaves rectangles that cover what was to be covered and     *)
(* nothing twice, however many there are.                                  *)
(***************************************************************************)
EXTENDS Damage, SequenceTheorems, WellFoundedInduction, TLAPS

(* Integer division.                                                       *)

LEMMA Quotient ==
  ASSUME NEW a \in Nat, NEW b \in Nat \ {0}
  PROVE  /\ a \div b \in Nat
         /\ (a \div b) * b <= a /\ a < (a \div b) * b + b
OBVIOUS

LEMMA CancelLess ==
  ASSUME NEW a \in Int, NEW b \in Int, NEW c \in Nat \ {0}, a * c < b * c
  PROVE  a < b
OBVIOUS

LEMMA TimesMonotone ==
  ASSUME NEW a \in Int, NEW b \in Int, NEW c \in Nat, a <= b
  PROVE  a * c <= b * c
OBVIOUS

LEMMA ProductNat ==
  ASSUME NEW a \in Nat, NEW b \in Nat
  PROVE  a * b \in Nat
OBVIOUS

LEMMA ProductInt ==
  ASSUME NEW a \in Int, NEW b \in Int
  PROVE  a * b \in Int
OBVIOUS

LEMMA Spread ==
  ASSUME NEW a \in Int, NEW b \in Int, NEW c \in Int
  PROVE  (a + b) * c = a * c + b * c /\ (a - b) * c = a * c - b * c
OBVIOUS
-----------------------------------------------------------------------------
(* One axis: a desktop of n pixels is drawn on m pixels of the window.     *)

LEMMA ScaleAtMost ==
  ASSUME NEW value \in Nat, NEW to \in Nat, NEW from \in Nat \ {0}, NEW i \in Nat,
         value * to < (i + 1) * from
  PROVE  Scale(value, to, from) \in Nat /\ Scale(value, to, from) <= i
<1> DEFINE q == Scale(value, to, from)
<1>1. q \in Nat /\ q * from <= value * to
  BY ProductNat, Quotient DEF Scale
<1> HIDE DEF q
<1>2. q * from < (i + 1) * from
  BY <1>1, ProductNat
<1>3. q < i + 1
  BY <1>1, <1>2, CancelLess
<1> QED BY <1>1, <1>3 DEF q

LEMMA ScaleUpAbove ==
  ASSUME NEW value \in Nat, NEW to \in Nat, NEW from \in Nat \ {0}, NEW i \in Nat,
         i * from < value * to
  PROVE  ScaleUp(value, to, from) \in Nat /\ i < ScaleUp(value, to, from)
<1> DEFINE a == value * to + from - 1
           q == ScaleUp(value, to, from)
<1>1. a \in Nat
  BY ProductNat
<1>2. q \in Nat /\ a < q * from + from
  BY <1>1, Quotient DEF ScaleUp
<1>3. value * to <= q * from
  <2> HIDE DEF q
  <2>1. q * from \in Nat /\ value * to \in Nat
    BY <1>2, ProductNat
  <2> QED BY <1>2, <2>1
<1> HIDE DEF q
<1>4. i * from < q * from
  BY <1>2, <1>3, ProductNat
<1>5. i < q
  BY <1>2, <1>4, CancelLess
<1> QED BY <1>2, <1>5 DEF q

(* The pixels of the window that a change to pixel s of the desktop        *)
(* repaints: RepaintFrom to RepaintTo.                                     *)
RepaintFrom(s, m, n) == Scale(Greater(s - 1, 0), m, n)
RepaintTo(s, m, n) == Lesser(ScaleUp(Lesser(s + 2, n), m, n), m)

LEMMA Repaints ==
  ASSUME NEW n \in Nat \ {0}, NEW m \in Nat \ {0}, NEW i \in 0 .. m - 1, NEW s \in 0 .. n - 1,
         (s - 1) * m < (i + 1) * n, i * n < (s + 2) * m
  PROVE  /\ RepaintFrom(s, m, n) \in Nat /\ RepaintFrom(s, m, n) <= i
         /\ RepaintTo(s, m, n) \in Nat /\ i < RepaintTo(s, m, n) /\ RepaintTo(s, m, n) <= m
<1>1. Greater(s - 1, 0) * m < (i + 1) * n /\ Greater(s - 1, 0) \in Nat
  <2>1. CASE s - 1 > 0
    BY <2>1 DEF Greater
  <2>2. CASE ~(s - 1 > 0)
    <3>1. Greater(s - 1, 0) = 0 /\ 0 * m = 0
      BY <2>2 DEF Greater
    <3>2. (i + 1) * n = i * n + n /\ i * n \in Nat
      BY Spread, ProductNat
    <3> QED BY <3>1, <3>2
  <2> QED BY <2>1, <2>2
<1>2. i * n < Lesser(s + 2, n) * m /\ Lesser(s + 2, n) \in Nat
  <2>1. CASE s + 2 < n
    BY <2>1 DEF Lesser
  <2>2. CASE ~(s + 2 < n)
    <3>1. Lesser(s + 2, n) = n
      BY <2>2 DEF Lesser
    <3>2. i * n <= (m - 1) * n
      BY TimesMonotone
    <3>3. (m - 1) * n = n * m - n /\ n * m \in Nat
      BY Spread, ProductNat
    <3>4. i * n \in Nat
      BY ProductNat
    <3> QED BY <3>1, <3>2, <3>3, <3>4
  <2> QED BY <2>1, <2>2
<1>3. RepaintFrom(s, m, n) \in Nat /\ RepaintFrom(s, m, n) <= i
  BY <1>1, ScaleAtMost DEF RepaintFrom
<1>4. ScaleUp(Lesser(s + 2, n), m, n) \in Nat /\ i < ScaleUp(Lesser(s + 2, n), m, n)
  <2> DEFINE v == Lesser(s + 2, n)
  <2>1. v \in Nat /\ i * n < v * m /\ i \in Nat
    BY <1>2
  <2> HIDE DEF v
  <2>2. ScaleUp(v, m, n) \in Nat /\ i < ScaleUp(v, m, n)
    BY <2>1, ScaleUpAbove
  <2> QED BY <2>2 DEF v
<1> QED BY <1>3, <1>4 DEF RepaintTo, Lesser

(* Where a pointer lands.                                                  *)
LEMMA PointerAxis ==
  ASSUME NEW n \in Nat \ {0}, NEW m \in Nat \ {0}, NEW i \in 0 .. m - 1, NEW p,
         p = Lesser(Scale(i, n, m), n - 1)
  PROVE  /\ p \in 0 .. n - 1
         /\ RepaintFrom(p, m, n) \in Nat /\ RepaintFrom(p, m, n) <= i
         /\ RepaintTo(p, m, n) \in Nat /\ i < RepaintTo(p, m, n)
<1> DEFINE q == Scale(i, n, m)
<1>1. q \in Nat /\ q * m <= i * n /\ i * n < q * m + m
  BY ProductNat, Quotient DEF Scale
<1> HIDE DEF q
<1>2. i * n <= (m - 1) * n /\ (m - 1) * n = n * m - n
  BY TimesMonotone, Spread
<1>3. n * m \in Nat /\ q * m \in Nat /\ i * n \in Nat
  BY <1>1, ProductNat
<1>4. q < n
  BY <1>1, <1>2, <1>3, CancelLess
<1>5. p = q /\ p \in 0 .. n - 1
  BY <1>1, <1>4 DEF Lesser, q
<1>6. (q - 1) * m = q * m - m /\ (q + 2) * m = q * m + 2 * m /\ (i + 1) * n = i * n + n
  BY <1>1, Spread
<1>7. (p - 1) * m < (i + 1) * n /\ i * n < (p + 2) * m
  BY <1>1, <1>3, <1>5, <1>6
<1> QED BY <1>5, <1>7, Repaints

(* What is blended into a pixel.                                           *)
LEMMA SampleNear ==
  ASSUME NEW n \in Nat \ {0}, NEW c \in Int, NEW clamped,
         clamped = Greater(0, Lesser(c, (n - 1) * 256)),
         NEW s \in Int,
         s \in {clamped \div 256} \cup
               (IF clamped % 256 = 0 THEN {} ELSE {Lesser(clamped \div 256 + 1, n - 1)})
  PROVE  /\ s \in 0 .. n - 1
         /\ 256 * (s - 1) < clamped /\ clamped < 256 * (s + 1)
<1>1. clamped \in Nat /\ clamped <= (n - 1) * 256
  BY DEF Greater, Lesser
<1>2. clamped \div 256 \in Nat /\ clamped = 256 * (clamped \div 256) + (clamped % 256)
  BY <1>1
<1>3. clamped % 256 \in 0 .. 255
  BY <1>1
<1>4. clamped \div 256 <= n - 1
  BY <1>1, <1>2, <1>3
<1>5. CASE s = clamped \div 256
  BY <1>2, <1>3, <1>4, <1>5
<1>6. CASE clamped % 256 # 0 /\ s = Lesser(clamped \div 256 + 1, n - 1)
  <2>1. clamped \div 256 < n - 1
    BY <1>1, <1>2, <1>3, <1>6
  <2>2. s = clamped \div 256 + 1
    BY <1>2, <1>6, <2>1 DEF Lesser
  <2> QED BY <1>2, <1>3, <1>6, <2>1, <2>2
<1> QED BY <1>5, <1>6

LEMMA BlendAxis ==
  ASSUME NEW n \in Nat \ {0}, NEW m \in Nat \ {0}, NEW i \in 0 .. m - 1, NEW s \in Int,
         s \in {Sample(i, m, n)[1], Sample(i, m, n)[2]}
  PROVE  /\ s \in 0 .. n - 1
         /\ RepaintFrom(s, m, n) \in Nat /\ RepaintFrom(s, m, n) <= i
         /\ RepaintTo(s, m, n) \in Nat /\ i < RepaintTo(s, m, n)
<1> DEFINE k == (2 * i + 1) * n * 128
           q == k \div m
           clamped == Greater(0, Lesser(q - 128, (n - 1) * 256))
<1>1. (2 * i + 1) * n = 2 * (i * n) + n /\ i * n \in Nat
  BY Spread, ProductNat
<1>2. k = 256 * (i * n) + 128 * n /\ k \in Nat
  BY <1>1
<1>3. q \in Nat /\ q * m <= k /\ k < q * m + m
  BY <1>2, Quotient
<1>4. s \in {clamped \div 256} \cup
            (IF clamped % 256 = 0 THEN {} ELSE {Lesser(clamped \div 256 + 1, n - 1)})
  BY DEF Sample
<1> HIDE DEF k, q
<1>5. s \in 0 .. n - 1 /\ 256 * (s - 1) < clamped /\ clamped < 256 * (s + 1)
  BY <1>3, <1>4, SampleNear
<1>6. s * m \in Nat /\ (s - 1) * m = s * m - m /\ (s + 2) * m = s * m + 2 * m /\ (i + 1) * n = i * n + n
  BY <1>5, Spread, ProductNat
<1>7. (s - 1) * m < (i + 1) * n
  <2>1. CASE s = 0
    BY <1>1, <1>6, <2>1
  <2>2. CASE s > 0
    <3>1. 256 * (s - 1) + 128 <= q
      BY <1>3, <1>5, <2>2 DEF Greater, Lesser
    <3>2. (256 * (s - 1) + 128) * m <= q * m
      BY <1>3, <1>5, <3>1, TimesMonotone
    <3>3. (256 * (s - 1) + 128) * m = 256 * (s * m) - 128 * m
      BY <1>5, Spread
    <3>4. 256 * (s * m) - 128 * m <= 256 * (i * n) + 128 * n
      BY <1>2, <1>3, <3>2, <3>3, ProductInt
    <3> QED BY <1>1, <1>6, <3>4
  <2> QED BY <1>5, <2>1, <2>2
<1>8. i * n < (s + 2) * m
  <2>1. CASE s = n - 1
    <3>1. i * n <= (m - 1) * n /\ (m - 1) * n = n * m - n
      BY TimesMonotone, Spread
    <3>2. s * m = n * m - m
      BY <2>1, Spread
    <3> QED BY <1>1, <1>6, <3>1, <3>2, ProductNat
  <2>2. CASE s < n - 1
    <3>1. q < 256 * (s + 1) + 128
      BY <1>3, <1>5, <2>2 DEF Greater, Lesser
    <3>2. (q + 1) * m <= (256 * (s + 1) + 128) * m
      BY <1>3, <1>5, <3>1, TimesMonotone
    <3>3. (256 * (s + 1) + 128) * m = 256 * (s * m) + 384 * m /\ (q + 1) * m = q * m + m
      BY <1>3, <1>5, Spread
    <3>4. 256 * (i * n) + 128 * n < 256 * (s * m) + 384 * m
      BY <1>2, <1>3, <3>2, <3>3, ProductInt
    <3> QED BY <1>1, <1>6, <3>4
  <2> QED BY <1>5, <2>1, <2>2
<1> QED BY <1>5, <1>7, <1>8, Repaints
-----------------------------------------------------------------------------
(* Both axes.                                                              *)

Proper == (Nat \ {0}) \X (Nat \ {0})

(* The length that keeps the shape fits on its side.                       *)
LEMMA ShapeFits ==
  ASSUME NEW value \in Nat \ {0}, NEW to \in Nat \ {0}, NEW from \in Nat \ {0}, NEW side \in Nat \ {0},
         value * to <= side * from
  PROVE  /\ Greater(1, Scale(value, to, from)) \in Nat \ {0}
         /\ Greater(1, Scale(value, to, from)) <= side
<1>1. (side + 1) * from = side * from + from /\ side * from \in Nat /\ value * to \in Nat
  BY Spread, ProductNat
<1>2. Scale(value, to, from) \in Nat /\ Scale(value, to, from) <= side
  BY <1>1, ScaleAtMost
<1> QED BY <1>2 DEF Greater

LEMMA AreaFits ==
  ASSUME NEW size \in Proper, NEW desktop \in Proper, NEW area, area = Area(size, desktop)
  PROVE  /\ area.x \in Nat /\ area.y \in Nat
         /\ area.width \in Nat \ {0} /\ area.height \in Nat \ {0}
         /\ area.x + area.width <= size[1] /\ area.y + area.height <= size[2]
<1> DEFINE byWidth == size[1] * desktop[2] <= size[2] * desktop[1]
           width == IF byWidth THEN size[1] ELSE Greater(1, Scale(desktop[1], size[2], desktop[2]))
           height == IF byWidth THEN Greater(1, Scale(desktop[2], size[1], desktop[1])) ELSE size[2]
<1>1. /\ size[1] \in Nat \ {0} /\ size[2] \in Nat \ {0}
      /\ desktop[1] \in Nat \ {0} /\ desktop[2] \in Nat \ {0}
  BY DEF Proper
<1>2. area = Rect((size[1] - width) \div 2, (size[2] - height) \div 2, width, height)
  BY DEF Area
<1>3. width \in Nat \ {0} /\ width <= size[1] /\ height \in Nat \ {0} /\ height <= size[2]
  <2>1. CASE byWidth
    <3>1. desktop[2] * size[1] <= size[2] * desktop[1]
      BY <1>1, <2>1
    <3>2. /\ Greater(1, Scale(desktop[2], size[1], desktop[1])) \in Nat \ {0}
          /\ Greater(1, Scale(desktop[2], size[1], desktop[1])) <= size[2]
      BY <1>1, <3>1, ShapeFits
    <3>3. width = size[1] /\ height = Greater(1, Scale(desktop[2], size[1], desktop[1]))
      BY <2>1
    <3> QED BY <1>1, <3>2, <3>3
  <2>2. CASE ~byWidth
    <3>1. desktop[1] * size[2] <= size[1] * desktop[2]
      BY <1>1, <2>2, ProductNat
    <3>2. /\ Greater(1, Scale(desktop[1], size[2], desktop[2])) \in Nat \ {0}
          /\ Greater(1, Scale(desktop[1], size[2], desktop[2])) <= size[1]
      BY <1>1, <3>1, ShapeFits
    <3>3. width = Greater(1, Scale(desktop[1], size[2], desktop[2])) /\ height = size[2]
      BY <2>2
    <3> QED BY <1>1, <3>2, <3>3
  <2> QED BY <2>1, <2>2
<1> HIDE DEF width, height
<1>4. /\ area.x = (size[1] - width) \div 2 /\ area.y = (size[2] - height) \div 2
      /\ area.width = width /\ area.height = height
  BY <1>2 DEF Rect
<1>5. /\ area.x \in Nat /\ area.x * 2 <= size[1] - width
      /\ area.y \in Nat /\ area.y * 2 <= size[2] - height
  <2>1. size[1] - width \in Nat /\ size[2] - height \in Nat
    BY <1>1, <1>3
  <2> QED BY <1>4, <2>1, Quotient
<1> QED BY <1>1, <1>3, <1>4, <1>5

LEMMA InPixels ==
  ASSUME NEW x \in Int, NEW y \in Int, NEW width \in Int, NEW height \in Int, NEW at
  PROVE  at \in Pixels(Rect(x, y, width, height)) <=>
           /\ at = <<at[1], at[2]>> /\ at[1] \in Int /\ at[2] \in Int
           /\ x <= at[1] /\ at[1] < x + width /\ y <= at[2] /\ at[2] < y + height
BY DEF Pixels, Rect

(* What a change to one pixel repaints.                                    *)
LEMMA SpotRepaints ==
  ASSUME NEW size \in Proper, NEW desktop \in Proper, NEW p \in Int, NEW q \in Int,
         NEW area, area = Area(size, desktop)
  PROVE  ToWindow(size, desktop, Rect(p, q, 1, 1))
           = Rect(area.x + RepaintFrom(p, area.width, desktop[1]), area.y + RepaintFrom(q, area.height, desktop[2]),
                  RepaintTo(p, area.width, desktop[1]) - RepaintFrom(p, area.width, desktop[1]),
                  RepaintTo(q, area.height, desktop[2]) - RepaintFrom(q, area.height, desktop[2]))
<1>1. p + 1 + 1 = p + 2 /\ q + 1 + 1 = q + 2
  OBVIOUS
<1>2. Rect(p, q, 1, 1).x = p /\ Rect(p, q, 1, 1).y = q
      /\ Rect(p, q, 1, 1).width = 1 /\ Rect(p, q, 1, 1).height = 1
  BY DEF Rect
<1> QED BY <1>1, <1>2 DEF ToWindow, RepaintFrom, RepaintTo

LEMMA SpotContains ==
  ASSUME NEW size \in Proper, NEW desktop \in Proper, NEW p \in Int, NEW q \in Int,
         NEW area, area = Area(size, desktop), NEW at \in Int \X Int,
         RepaintFrom(p, area.width, desktop[1]) \in Nat, RepaintTo(p, area.width, desktop[1]) \in Nat,
         RepaintFrom(q, area.height, desktop[2]) \in Nat, RepaintTo(q, area.height, desktop[2]) \in Nat
  PROVE  at \in Pixels(ToWindow(size, desktop, Rect(p, q, 1, 1))) <=>
           /\ RepaintFrom(p, area.width, desktop[1]) <= at[1] - area.x
           /\ at[1] - area.x < RepaintTo(p, area.width, desktop[1])
           /\ RepaintFrom(q, area.height, desktop[2]) <= at[2] - area.y
           /\ at[2] - area.y < RepaintTo(q, area.height, desktop[2])
<1>1. area.x \in Nat /\ area.y \in Nat
  <2> HIDE DEF Proper
  <2> QED BY AreaFits
<1>2. at = <<at[1], at[2]>> /\ at[1] \in Int /\ at[2] \in Int
  OBVIOUS
<1> DEFINE f == RepaintFrom(p, area.width, desktop[1])
           l == RepaintTo(p, area.width, desktop[1])
           g == RepaintFrom(q, area.height, desktop[2])
           k == RepaintTo(q, area.height, desktop[2])
<1>3. ToWindow(size, desktop, Rect(p, q, 1, 1)) = Rect(area.x + f, area.y + g, l - f, k - g)
  BY SpotRepaints
<1>4. f \in Nat /\ l \in Nat /\ g \in Nat /\ k \in Nat
  OBVIOUS
<1> HIDE DEF f, l, g, k
<1>5. at \in Pixels(Rect(area.x + f, area.y + g, l - f, k - g)) <=>
        f <= at[1] - area.x /\ at[1] - area.x < l /\ g <= at[2] - area.y /\ at[2] - area.y < k
  <2> DEFINE x == area.x + f
             y == area.y + g
             w == l - f
             h == k - g
  <2>1. /\ x \in Int /\ y \in Int /\ w \in Int /\ h \in Int
        /\ x + w = area.x + l /\ y + h = area.y + k
    BY <1>1, <1>4
  <2> HIDE DEF x, y, w, h
  <2>2. at \in Pixels(Rect(x, y, w, h)) <=>
          /\ at = <<at[1], at[2]>> /\ at[1] \in Int /\ at[2] \in Int
          /\ x <= at[1] /\ at[1] < x + w /\ y <= at[2] /\ at[2] < y + h
    BY <2>1, InPixels
  <2>3. /\ x <= at[1] <=> f <= at[1] - area.x
        /\ y <= at[2] <=> g <= at[2] - area.y
    BY <1>1, <1>2, <1>4 DEF x, y
  <2>4. /\ at[1] < x + w <=> at[1] - area.x < l
        /\ at[2] < y + h <=> at[2] - area.y < k
    BY <1>1, <1>2, <1>4, <2>1
  <2>5. at \in Pixels(Rect(x, y, w, h)) <=>
          f <= at[1] - area.x /\ at[1] - area.x < l /\ g <= at[2] - area.y /\ at[2] - area.y < k
    BY <1>2, <2>2, <2>3, <2>4
  <2> QED BY <2>5 DEF x, y, w, h
<1> QED BY <1>3, <1>5 DEF f, l, g, k

LEMMA Ranges ==
  ASSUME NEW n \in Nat \ {0}, NEW m \in Nat \ {0}, NEW s \in 0 .. n - 1
  PROVE  /\ RepaintFrom(s, m, n) \in Nat
         /\ RepaintTo(s, m, n) \in Nat /\ RepaintTo(s, m, n) <= m
<1>1. Greater(s - 1, 0) \in Nat /\ Lesser(s + 2, n) \in Nat
  BY DEF Greater, Lesser
<1>2. ASSUME NEW v \in Nat PROVE Scale(v, m, n) \in Nat /\ ScaleUp(v, m, n) \in Nat
  <2>1. v * m \in Nat /\ v * m + n - 1 \in Nat
    BY ProductNat
  <2> QED BY <2>1, Quotient DEF Scale, ScaleUp
<1>3. RepaintFrom(s, m, n) \in Nat
  BY <1>1, <1>2 DEF RepaintFrom
<1>4. ScaleUp(Lesser(s + 2, n), m, n) \in Nat
  BY <1>1, <1>2
<1> QED BY <1>3, <1>4 DEF RepaintTo, Lesser

(* The picture lies in the window.                                         *)
LEMMA PictureInWindow ==
  ASSUME NEW size \in Proper, NEW desktop \in Proper
  PROVE  Pixels(Area(size, desktop)) \subseteq Pixels(Covering(size))
<1> DEFINE area == Area(size, desktop)
<1>1. /\ area.x \in Nat /\ area.y \in Nat
      /\ area.width \in Nat \ {0} /\ area.height \in Nat \ {0}
      /\ area.x + area.width <= size[1] /\ area.y + area.height <= size[2]
  <2> HIDE DEF Proper
  <2> QED BY AreaFits
<1> HIDE DEF area
<1>2. size[1] \in Nat /\ size[2] \in Nat
  BY DEF Proper
<1>3. Pixels(Covering(size)) = (0 .. size[1] - 1) \X (0 .. size[2] - 1)
  BY <1>2 DEF Pixels, Covering, Rect
<1>4. Pixels(area) = (area.x .. area.x + area.width - 1) \X (area.y .. area.y + area.height - 1)
  BY DEF Pixels
<1>5. /\ area.x .. area.x + area.width - 1 \subseteq 0 .. size[1] - 1
      /\ area.y .. area.y + area.height - 1 \subseteq 0 .. size[2] - 1
  BY <1>1, <1>2
<1> QED BY <1>3, <1>4, <1>5 DEF area

(* What a change repaints lies in the picture.                             *)
LEMMA SpotInPicture ==
  ASSUME NEW size \in Proper, NEW desktop \in Proper, NEW p \in 0 .. desktop[1] - 1, NEW q \in 0 .. desktop[2] - 1
  PROVE  Pixels(ToWindow(size, desktop, Rect(p, q, 1, 1))) \subseteq Pixels(Area(size, desktop))
<1> DEFINE area == Area(size, desktop)
           f == RepaintFrom(p, area.width, desktop[1])
           l == RepaintTo(p, area.width, desktop[1])
           g == RepaintFrom(q, area.height, desktop[2])
           k == RepaintTo(q, area.height, desktop[2])
<1>1. /\ area.x \in Nat /\ area.y \in Nat
      /\ area.width \in Nat \ {0} /\ area.height \in Nat \ {0}
  <2> HIDE DEF Proper
  <2> QED BY AreaFits
<1>2. desktop[1] \in Nat \ {0} /\ desktop[2] \in Nat \ {0}
  BY DEF Proper
<1>3. ToWindow(size, desktop, Rect(p, q, 1, 1)) = Rect(area.x + f, area.y + g, l - f, k - g)
  <2>1. p \in Int /\ q \in Int
    BY <1>2
  <2> HIDE DEF Proper
  <2> QED BY <2>1, SpotRepaints
<1> HIDE DEF area
<1>4. f \in Nat /\ l \in Nat /\ l <= area.width
  BY <1>1, <1>2, Ranges
<1>5. g \in Nat /\ k \in Nat /\ k <= area.height
  BY <1>1, <1>2, Ranges
<1> HIDE DEF f, l, g, k
<1>6. /\ (area.x + f) .. (area.x + f) + (l - f) - 1 \subseteq area.x .. area.x + area.width - 1
      /\ (area.y + g) .. (area.y + g) + (k - g) - 1 \subseteq area.y .. area.y + area.height - 1
  BY <1>1, <1>4, <1>5
<1>7. Pixels(Rect(area.x + f, area.y + g, l - f, k - g))
        = ((area.x + f) .. (area.x + f) + (l - f) - 1) \X ((area.y + g) .. (area.y + g) + (k - g) - 1)
  BY DEF Pixels, Rect
<1>8. Pixels(area) = (area.x .. area.x + area.width - 1) \X (area.y .. area.y + area.height - 1)
  BY DEF Pixels
<1> QED BY <1>3, <1>6, <1>7, <1>8 DEF area

(* A pixel of the window, as the area's coordinates tell it.               *)
LEMMA InsideArea ==
  ASSUME NEW size \in Proper, NEW desktop \in Proper, NEW area, area = Area(size, desktop),
         NEW at \in Int \X Int, InArea(area, at)
  PROVE  /\ at[1] - area.x \in 0 .. area.width - 1
         /\ at[2] - area.y \in 0 .. area.height - 1
<1>1. /\ area.x \in Nat /\ area.y \in Nat
      /\ area.width \in Nat \ {0} /\ area.height \in Nat \ {0}
  <2> HIDE DEF Proper
  <2> QED BY AreaFits
<1>2. at[1] \in Int /\ at[2] \in Int
  OBVIOUS
<1> QED BY <1>1, <1>2 DEF InArea
-----------------------------------------------------------------------------
(* Where a pointer lands is repainted when it changes.                     *)

LEMMA ScaledPointerLands ==
  ASSUME NEW size \in Proper, NEW desktop \in Proper, NEW at \in Int \X Int,
         NEW on, on = ToDesktop(size, desktop, at), on # <<>>
  PROVE  /\ on[1][1] < desktop[1] /\ on[1][2] < desktop[2]
         /\ at \in Pixels(ToWindow(size, desktop, Rect(on[1][1], on[1][2], 1, 1)))
<1> DEFINE area == Area(size, desktop)
           p == Lesser(Scale(at[1] - area.x, desktop[1], area.width), desktop[1] - 1)
           q == Lesser(Scale(at[2] - area.y, desktop[2], area.height), desktop[2] - 1)
<1>1. /\ area.x \in Nat /\ area.y \in Nat
      /\ area.width \in Nat \ {0} /\ area.height \in Nat \ {0}
  <2> HIDE DEF Proper
  <2> QED BY AreaFits
<1>2. InArea(area, at) /\ on = << <<p, q>> >>
  BY DEF ToDesktop
<1>3. at[1] - area.x \in 0 .. area.width - 1 /\ at[2] - area.y \in 0 .. area.height - 1
  <2> HIDE DEF Proper
  <2> QED BY <1>2, InsideArea
<1>4. desktop[1] \in Nat \ {0} /\ desktop[2] \in Nat \ {0}
  BY DEF Proper
<1> HIDE DEF area
<1>5. /\ p \in 0 .. desktop[1] - 1
      /\ RepaintFrom(p, area.width, desktop[1]) \in Nat /\ RepaintFrom(p, area.width, desktop[1]) <= at[1] - area.x
      /\ RepaintTo(p, area.width, desktop[1]) \in Nat /\ at[1] - area.x < RepaintTo(p, area.width, desktop[1])
  BY <1>1, <1>3, <1>4, PointerAxis
<1>6. /\ q \in 0 .. desktop[2] - 1
      /\ RepaintFrom(q, area.height, desktop[2]) \in Nat /\ RepaintFrom(q, area.height, desktop[2]) <= at[2] - area.y
      /\ RepaintTo(q, area.height, desktop[2]) \in Nat /\ at[2] - area.y < RepaintTo(q, area.height, desktop[2])
  BY <1>1, <1>3, <1>4, PointerAxis
<1> HIDE DEF p, q
<1>7. at \in Pixels(ToWindow(size, desktop, Rect(p, q, 1, 1)))
  <2>1. p \in Int /\ q \in Int
    BY <1>4, <1>5, <1>6
  <2> HIDE DEF Proper
  <2> QED BY <1>5, <1>6, <2>1, SpotContains DEF area
<1>8. on[1][1] = p /\ on[1][2] = q
  BY <1>2
<1> QED BY <1>4, <1>5, <1>6, <1>7, <1>8

-----------------------------------------------------------------------------
(* The least of some numbers, and induction up to one.                     *)

Less == OpToRel(<, Nat)

LEMMA LessWellFounded == IsWellFoundedOn(Less, Nat)
  BY NatLessThanWellFounded DEF Less

LEMMA InLess ==
  ASSUME NEW m \in Nat, NEW n \in Nat, m < n
  PROVE  <<m, n>> \in Less
  BY DEF Less, OpToRel

LEMMA MinFound ==
  ASSUME NEW found \in SUBSET Nat, found # {}
  PROVE  Min(found) \in found /\ \A y \in found : Min(found) <= y
<1>0. found \subseteq Nat
  OBVIOUS
<1>1. PICK x \in found : \A y \in found : <<y, x>> \notin Less
  BY <1>0, LessWellFounded, WFMin
<1>2. \A y \in found : x <= y
  <2>1. ASSUME NEW y \in found PROVE x <= y
    <3>1. x \in Nat /\ y \in Nat
      BY <1>0
    <3>2. ~(y < x)
      BY <1>1, <3>1, InLess
    <3> QED BY <3>1, <3>2
  <2> QED BY <2>1
<1> QED BY <1>2 DEF Min

LEMMA UpTo ==
  ASSUME NEW N \in Nat, NEW good, 0 \in good,
         \A n \in 1 .. N : n - 1 \in good => n \in good
  PROVE  \A n \in 0 .. N : n \in good
<1> DEFINE bad == {n \in 0 .. N : n \notin good}
<1>1. SUFFICES ASSUME bad # {} PROVE FALSE
  OBVIOUS
<1>2. bad \in SUBSET Nat
  OBVIOUS
<1>3. Min(bad) \in bad /\ \A y \in bad : Min(bad) <= y
  <2> HIDE DEF bad
  <2> QED BY <1>1, <1>2, MinFound
<1>4. PICK n : n \in bad /\ \A y \in bad : n <= y
  BY <1>3
<1>5. n \in 1 .. N
  BY <1>4
<1>6. n - 1 \in 0 .. N /\ n - 1 \notin bad
  BY <1>4, <1>5
<1> QED BY <1>4, <1>5, <1>6

(* A function whose values are each made of the one before.                *)
Closed(S, N, step) == \A n \in 1 .. N : \A v \in S : step[n][v] \in S
Reached(S, N, base, step) ==
  \E run \in [0 .. N -> S] : run[0] = base /\ \A n \in 1 .. N : run[n] = step[n][run[n - 1]]

LEMMA StepByStep ==
  ASSUME NEW S, NEW N \in Nat, NEW base \in S, NEW step, Closed(S, N, step)
  PROVE  Reached(S, N, base, step)
<1> USE DEF Closed, Reached
<1> DEFINE Run(n, run) == run[0] = base /\ \A k \in 1 .. n : run[k] = step[k][run[k - 1]]
           good == {n \in 0 .. N : \E run \in [0 .. n -> S] : Run(n, run)}
<1>1. 0 \in good
  <2>1. [k \in 0 .. 0 |-> base] \in [0 .. 0 -> S] /\ Run(0, [k \in 0 .. 0 |-> base])
    OBVIOUS
  <2> DEFINE first == [k \in 0 .. 0 |-> base]
  <2>2. 0 \in 0 .. N
    OBVIOUS
  <2>3. first \in [0 .. 0 -> S] /\ Run(0, first)
    BY <2>1
  <2> HIDE DEF Run, first
  <2> QED BY <2>2, <2>3
<1>2. ASSUME NEW n \in 1 .. N, n - 1 \in good PROVE n \in good
  <2>1. PICK run \in [0 .. n - 1 -> S] : Run(n - 1, run)
    BY <1>2
  <2> DEFINE longer == [k \in 0 .. n |-> IF k = n THEN step[n][run[n - 1]] ELSE run[k]]
  <2>2. run[n - 1] \in S /\ step[n][run[n - 1]] \in S
    OBVIOUS
  <2>3. longer \in [0 .. n -> S]
    BY <2>2
  <2>4. ASSUME NEW k \in 1 .. n PROVE longer[k] = step[k][longer[k - 1]]
    <3>1. k - 1 \in 0 .. n - 1 /\ longer[k - 1] = run[k - 1]
      OBVIOUS
    <3>2. CASE k = n
      BY <3>1, <3>2
    <3>3. CASE k # n
      <4>1. k \in 1 .. n - 1 /\ longer[k] = run[k]
        BY <3>3
      <4> QED BY <2>1, <3>1, <4>1
    <3> QED BY <3>2, <3>3
  <2>5. longer[0] = base
    BY <2>1
  <2>6. Run(n, longer)
    BY <2>4, <2>5
  <2>7. n \in 0 .. N
    OBVIOUS
  <2> HIDE DEF Run, longer
  <2> QED BY <2>3, <2>6, <2>7
<1>3. N \in good
  <2> HIDE DEF good
  <2>1. \A n \in 0 .. N : n \in good
    BY <1>1, <1>2, UpTo
  <2> QED BY <2>1
<1> QED BY <1>3
-----------------------------------------------------------------------------
(* Rectangles.                                                             *)

Rects == [x : Int, y : Int, width : Int, height : Int]
Region(rects) == UNION {Pixels(rects[n]) : n \in DOMAIN rects}
Disjoint(rects) ==
  \A m, n \in DOMAIN rects : m # n => Pixels(rects[m]) \cap Pixels(rects[n]) = {}

LEMMA RectType ==
  ASSUME NEW x \in Int, NEW y \in Int, NEW width \in Int, NEW height \in Int
  PROVE  Rect(x, y, width, height) \in Rects
BY DEF Rect, Rects

LEMMA PixelIn ==
  ASSUME NEW rect \in Rects, NEW at
  PROVE  at \in Pixels(rect) <=>
           /\ at = <<at[1], at[2]>> /\ at[1] \in Int /\ at[2] \in Int
           /\ rect.x <= at[1] /\ at[1] < rect.x + rect.width
           /\ rect.y <= at[2] /\ at[2] < rect.y + rect.height
BY DEF Pixels, Rects

LEMMA HullCovers ==
  ASSUME NEW a \in Rects, NEW b \in Rects
  PROVE  Hull(a, b) \in Rects /\ Pixels(a) \cup Pixels(b) \subseteq Pixels(Hull(a, b))
<1> DEFINE h == Hull(a, b)
<1>1. h \in Rects
  BY DEF Hull, Rect, Rects, Lesser, Greater
<1>2. /\ h.x <= a.x /\ a.x + a.width <= h.x + h.width
      /\ h.y <= a.y /\ a.y + a.height <= h.y + h.height
      /\ h.x <= b.x /\ b.x + b.width <= h.x + h.width
      /\ h.y <= b.y /\ b.y + b.height <= h.y + h.height
  BY DEF Hull, Rect, Rects, Lesser, Greater
<1>3. ASSUME NEW at, at \in Pixels(a) \/ at \in Pixels(b) PROVE at \in Pixels(h)
  <2>1. a.x \in Int /\ a.y \in Int /\ a.width \in Int /\ a.height \in Int
        /\ b.x \in Int /\ b.y \in Int /\ b.width \in Int /\ b.height \in Int
        /\ h.x \in Int /\ h.y \in Int /\ h.width \in Int /\ h.height \in Int
    BY <1>1 DEF Rects
  <2> HIDE DEF h
  <2> QED BY <1>1, <1>2, <1>3, <2>1, PixelIn
<1> QED BY <1>1, <1>3

LEMMA Apart ==
  ASSUME NEW a \in Rects, NEW b \in Rects, ~Overlap(a, b)
  PROVE  Pixels(a) \cap Pixels(b) = {}
<1>1. a.x \in Int /\ a.y \in Int /\ a.width \in Int /\ a.height \in Int
      /\ b.x \in Int /\ b.y \in Int /\ b.width \in Int /\ b.height \in Int
  BY DEF Rects
<1> QED BY <1>1, PixelIn DEF Overlap
-----------------------------------------------------------------------------
(* Merging.                                                                *)

LEMMA SeqElement ==
  ASSUME NEW S, NEW s \in Seq(S), NEW n \in DOMAIN s
  PROVE  s[n] \in S /\ n \in 1 .. Len(s)
BY ElementOfSeq, LenProperties

Past(k, n) == IF n < k THEN n ELSE n + 1
Without(s, k, r) ==
  /\ Len(r) = Len(s) - 1
  /\ \A n \in DOMAIN r : r[n] = s[Past(k, n)] /\ Past(k, n) \in DOMAIN s \ {k}
  /\ \A n \in DOMAIN s \ {k} : \E m \in DOMAIN r : r[m] = s[n]

LEMMA WithoutOne ==
  ASSUME NEW S, NEW s \in Seq(S), NEW k \in DOMAIN s, NEW r, r = RemoveAt(s, k)
  PROVE  r \in Seq(S) /\ Without(s, k, r)
<1>1. Len(s) \in Nat /\ DOMAIN s = 1 .. Len(s) /\ k \in 1 .. Len(s)
  BY LenProperties
<1>2. /\ SubSeq(s, 1, k - 1) \in Seq(S) /\ Len(SubSeq(s, 1, k - 1)) = k - 1
      /\ \A n \in 1 .. k - 1 : SubSeq(s, 1, k - 1)[n] = s[n]
  BY <1>1, SubSeqProperties
<1>3. /\ SubSeq(s, k + 1, Len(s)) \in Seq(S) /\ Len(SubSeq(s, k + 1, Len(s))) = Len(s) - k
      /\ \A n \in 1 .. Len(s) - k : SubSeq(s, k + 1, Len(s))[n] = s[k + n]
  BY <1>1, SubSeqProperties
<1>4. /\ r \in Seq(S) /\ Len(r) = Len(s) - 1
      /\ \A n \in 1 .. Len(s) - 1 : r[n] = s[Past(k, n)]
  <2> DEFINE left == SubSeq(s, 1, k - 1)
             right == SubSeq(s, k + 1, Len(s))
  <2>1. r = left \o right
    BY DEF RemoveAt
  <2>2. /\ left \in Seq(S) /\ Len(left) = k - 1 /\ right \in Seq(S) /\ Len(right) = Len(s) - k
        /\ \A n \in 1 .. k - 1 : left[n] = s[n]
        /\ \A n \in 1 .. Len(s) - k : right[n] = s[k + n]
    BY <1>2, <1>3
  <2> HIDE DEF left, right
  <2>3. /\ r \in Seq(S) /\ Len(r) = Len(left) + Len(right)
        /\ \A n \in 1 .. Len(left) + Len(right) :
             r[n] = IF n <= Len(left) THEN left[n] ELSE right[n - Len(left)]
    BY <2>1, <2>2, ConcatProperties
  <2>4. Len(r) = Len(s) - 1
    BY <1>1, <2>2, <2>3
  <2>5. ASSUME NEW n \in 1 .. Len(s) - 1 PROVE r[n] = s[Past(k, n)]
    <3>1. r[n] = IF n <= k - 1 THEN left[n] ELSE right[n - (k - 1)]
      BY <1>1, <2>2, <2>3
    <3>2. CASE n < k
      <4>1. n \in 1 .. k - 1 /\ Past(k, n) = n
        BY <1>1, <3>2 DEF Past
      <4> QED BY <1>1, <2>2, <3>1, <4>1
    <3>3. CASE ~(n < k)
      <4>1. n - (k - 1) \in 1 .. Len(s) - k /\ k + (n - (k - 1)) = Past(k, n)
        BY <1>1, <3>3 DEF Past
      <4>2. r[n] = right[n - (k - 1)]
        BY <1>1, <3>1, <3>3
      <4> HIDE <3>1
      <4> QED BY <2>2, <4>1, <4>2
    <3> QED BY <3>2, <3>3
  <2> QED BY <2>3, <2>4, <2>5
<1>5. DOMAIN r = 1 .. Len(s) - 1
  BY <1>4, LenProperties
<1>6. \A n \in DOMAIN r : r[n] = s[Past(k, n)] /\ Past(k, n) \in DOMAIN s \ {k}
  BY <1>1, <1>4, <1>5 DEF Past
<1>7. ASSUME NEW n \in DOMAIN s \ {k} PROVE \E m \in DOMAIN r : r[m] = s[n]
  <2>1. CASE n < k
    <3>1. n \in DOMAIN r /\ Past(k, n) = n
      BY <1>1, <1>5, <2>1 DEF Past
    <3> QED BY <1>4, <1>5, <3>1
  <2>2. CASE ~(n < k)
    <3>1. n - 1 \in DOMAIN r /\ Past(k, n - 1) = n
      BY <1>1, <1>5, <2>2 DEF Past
    <3> QED BY <1>4, <1>5, <3>1
  <2> QED BY <2>1, <2>2
<1> QED BY <1>4, <1>6, <1>7 DEF Without

(* Rectangles apart from each other, and one still to go in.               *)
Fine(merged, rect) == merged \in Seq(Rects) /\ rect \in Rects /\ Disjoint(merged)

LEMMA GrowKeeps ==
  ASSUME NEW merged, NEW rect, Fine(merged, rect),
         NEW grown, grown = Grow(merged, rect)
  PROVE  /\ grown = <<grown[1], grown[2]>> /\ Fine(grown[1], grown[2])
         /\ Region(merged) \cup Pixels(rect) \subseteq Region(grown[1]) \cup Pixels(grown[2])
         /\ \/ Overlapped(merged, rect) = {} /\ grown[1] = merged /\ grown[2] = rect
            \/ Len(grown[1]) = Len(merged) - 1
<1>1. CASE Overlapped(merged, rect) = {}
  BY <1>1 DEF Grow, Fine
<1>2. CASE Overlapped(merged, rect) # {}
  <2> DEFINE k == Min(Overlapped(merged, rect))
             rest == RemoveAt(merged, k)
             hull == Hull(rect, merged[k])
  <2>1. merged \in Seq(Rects) /\ rect \in Rects /\ DOMAIN merged = 1 .. Len(merged) /\ Len(merged) \in Nat
    BY LenProperties DEF Fine
  <2>2. k \in DOMAIN merged
    <3>1. Overlapped(merged, rect) \in SUBSET Nat
      BY <2>1 DEF Overlapped
    <3>2. k \in Overlapped(merged, rect)
      BY <1>2, <3>1, MinFound
    <3> QED BY <3>2 DEF Overlapped
  <2>3. grown = <<rest, hull>>
    BY <1>2 DEF Grow
  <2> HIDE DEF k
  <2>4. merged[k] \in Rects
    BY <2>1, <2>2, SeqElement
  <2>5. hull \in Rects /\ Pixels(rect) \cup Pixels(merged[k]) \subseteq Pixels(hull)
    BY <2>1, <2>4, HullCovers
  <2> HIDE DEF hull
  <2>6. /\ rest \in Seq(Rects) /\ Len(rest) = Len(merged) - 1
        /\ \A n \in DOMAIN rest :
             rest[n] = merged[Past(k, n)] /\ Past(k, n) \in DOMAIN merged \ {k}
        /\ \A n \in DOMAIN merged \ {k} : \E m \in DOMAIN rest : rest[m] = merged[n]
    <3> HIDE DEF rest
    <3>1. rest = RemoveAt(merged, k)
      BY DEF rest
    <3>2. rest \in Seq(Rects) /\ Without(merged, k, rest)
      BY <2>1, <2>2, <3>1, WithoutOne
    <3> QED BY <3>2 DEF Without
  <2>7. DOMAIN rest = 1 .. Len(merged) - 1 /\ k \in Nat
    BY <2>1, <2>2, <2>6, LenProperties
  <2> HIDE DEF rest
  <2>8. Disjoint(rest)
    <3> SUFFICES ASSUME NEW m \in DOMAIN rest, NEW n \in DOMAIN rest, m # n
                 PROVE  Pixels(rest[m]) \cap Pixels(rest[n]) = {}
      BY DEF Disjoint
    <3> DEFINE i == Past(k, m)
               j == Past(k, n)
    <3>1. rest[m] = merged[i] /\ rest[n] = merged[j] /\ i \in DOMAIN merged /\ j \in DOMAIN merged
      BY <2>6
    <3>2. i # j
      BY <2>7 DEF Past
    <3> HIDE DEF i, j
    <3> QED BY <3>1, <3>2 DEF Fine, Disjoint
  <2>9. Region(merged) \subseteq Region(rest) \cup Pixels(hull)
    <3> SUFFICES ASSUME NEW at, NEW n \in DOMAIN merged, at \in Pixels(merged[n])
                 PROVE  at \in Region(rest) \cup Pixels(hull)
      BY DEF Region
    <3>1. CASE n = k
      BY <2>5, <3>1
    <3>2. CASE n # k
      BY <2>6, <3>2 DEF Region
    <3> QED BY <3>1, <3>2
  <2> QED BY <2>3, <2>5, <2>6, <2>8, <2>9 DEF Fine
<1> QED BY <1>1, <1>2

LEMMA TurnsDefined ==
  ASSUME NEW merged, NEW rect, Fine(merged, rect),
         NEW turns, turns = Turns(merged, rect)
  PROVE  /\ turns[0] = <<merged, rect>>
         /\ \A n \in 1 .. Len(merged) : turns[n] = Grow(turns[n - 1][1], turns[n - 1][2])
<1> DEFINE N == Len(merged)
           S == {both \in Seq(Rects) \X Rects : Fine(both[1], both[2])}
           step == [n \in 1 .. N |-> [both \in S |-> Grow(both[1], both[2])]]
           Is(f) == f = [turn \in 0 .. N |-> IF turn = 0 THEN <<merged, rect>>
                                             ELSE Grow(f[turn - 1][1], f[turn - 1][2])]
<1>1. N \in Nat /\ <<merged, rect>> \in S
  BY LenProperties DEF Fine
<1>2. ASSUME NEW both \in S PROVE Grow(both[1], both[2]) \in S
  <2>1. Fine(both[1], both[2])
    OBVIOUS
  <2> DEFINE grown == Grow(both[1], both[2])
  <2>2. grown = <<grown[1], grown[2]>> /\ Fine(grown[1], grown[2])
    BY <2>1, GrowKeeps
  <2> HIDE DEF grown
  <2>3. <<grown[1], grown[2]>> \in S
    BY <2>2 DEF Fine
  <2>4. grown \in S
    BY <2>2, <2>3
  <2> QED BY <2>4 DEF grown
<1>3. Closed(S, N, step)
  <2> HIDE DEF N, S
  <2> QED BY <1>2 DEF Closed
<1>4. PICK run \in [0 .. N -> S] : run[0] = <<merged, rect>> /\ \A n \in 1 .. N : run[n] = step[n][run[n - 1]]
  <2> HIDE DEF N, S, step
  <2>1. Reached(S, N, <<merged, rect>>, step)
    BY <1>1, <1>3, StepByStep
  <2> QED BY <2>1 DEF Reached
<1>5. Is(run)
  <2>1. ASSUME NEW n \in 1 .. N PROVE run[n] = Grow(run[n - 1][1], run[n - 1][2])
    <3>1. n - 1 \in 0 .. N /\ run[n - 1] \in S
      <4> HIDE DEF N, S
      <4>1. n - 1 \in 0 .. N
        BY <1>1
      <4> QED BY <4>1
    <3>2. step[n][run[n - 1]] = Grow(run[n - 1][1], run[n - 1][2])
      <4> HIDE DEF S
      <4> QED BY <3>1
    <3> QED BY <1>4, <3>2
  <2> DEFINE value(turn) == IF turn = 0 THEN <<merged, rect>> ELSE Grow(run[turn - 1][1], run[turn - 1][2])
  <2>2. ASSUME NEW n \in 0 .. N PROVE run[n] = value(n)
    BY <1>1, <1>4, <2>1
  <2> HIDE DEF value
  <2>3. run = [turn \in 0 .. N |-> value(turn)]
    BY <2>2
  <2> QED BY <2>3 DEF value
<1>6. turns = CHOOSE f : Is(f)
  BY DEF Turns
<1> HIDE DEF Is
<1>7. Is(turns)
  BY <1>5, <1>6, Zenon
<1> QED BY <1>1, <1>7 DEF Is

(* After a turn nothing is left to take in, or fewer others than turns.    *)
LEMMA TurnsRight ==
  ASSUME NEW merged, NEW rect, Fine(merged, rect),
         NEW last, last = Turns(merged, rect)[Len(merged)]
  PROVE  /\ Fine(last[1], last[2]) /\ Overlapped(last[1], last[2]) = {}
         /\ Region(merged) \cup Pixels(rect) \subseteq Region(last[1]) \cup Pixels(last[2])
<1> DEFINE N == Len(merged)
           turns == Turns(merged, rect)
           Right(n) == /\ Fine(turns[n][1], turns[n][2])
                       /\ Region(merged) \cup Pixels(rect) \subseteq Region(turns[n][1]) \cup Pixels(turns[n][2])
                       /\ \/ Overlapped(turns[n][1], turns[n][2]) = {}
                          \/ Len(turns[n][1]) <= N - n
           good == {n \in 0 .. N : Right(n)}
<1>1. N \in Nat /\ Len(merged) \in Nat
  BY LenProperties DEF Fine
<1>2. /\ turns[0] = <<merged, rect>>
      /\ \A n \in 1 .. N : turns[n] = Grow(turns[n - 1][1], turns[n - 1][2])
  BY TurnsDefined
<1> HIDE DEF turns
<1>3. 0 \in good
  BY <1>1, <1>2
<1>4. ASSUME NEW n \in 1 .. N, n - 1 \in good PROVE n \in good
  <2> DEFINE a == turns[n - 1][1]
             b == turns[n - 1][2]
             c == turns[n][1]
             d == turns[n][2]
  <2>1. /\ Fine(a, b) /\ Region(merged) \cup Pixels(rect) \subseteq Region(a) \cup Pixels(b)
        /\ Overlapped(a, b) = {} \/ Len(a) <= N - (n - 1)
    BY <1>4
  <2>2. turns[n] = Grow(a, b)
    BY <1>2
  <2> HIDE DEF a, b
  <2>3. /\ Fine(c, d)
        /\ Region(a) \cup Pixels(b) \subseteq Region(c) \cup Pixels(d)
        /\ \/ Overlapped(a, b) = {} /\ c = a /\ d = b
           \/ Len(c) = Len(a) - 1
    BY <2>1, <2>2, GrowKeeps
  <2>4. Len(a) \in Nat /\ Len(c) \in Nat
    BY <2>1, <2>3, LenProperties DEF Fine
  <2> HIDE DEF c, d
  <2>5. Region(merged) \cup Pixels(rect) \subseteq Region(c) \cup Pixels(d)
    BY <2>1, <2>3
  <2>6. Overlapped(c, d) = {} \/ Len(c) <= N - n
    <3>1. CASE Overlapped(a, b) = {} /\ c = a /\ d = b
      BY <3>1
    <3>2. CASE Len(c) = Len(a) - 1 /\ Overlapped(a, b) # {}
      BY <1>1, <2>1, <2>4, <3>2
    <3>3. CASE Len(c) = Len(a) - 1 /\ Overlapped(a, b) = {}
      <4>1. Grow(a, b) = <<a, b>>
        BY <3>3 DEF Grow
      <4>2. c = a /\ d = b
        BY <2>2, <4>1 DEF c, d
      <4> QED BY <3>3, <4>2
    <3> QED BY <2>3, <3>1, <3>2, <3>3
  <2> QED BY <2>3, <2>5, <2>6 DEF c, d
<1>5. N \in good
  <2> HIDE DEF good
  <2>1. \A n \in 0 .. N : n \in good
    BY <1>1, <1>3, <1>4, UpTo
  <2> QED BY <1>1, <2>1
<1>6. Right(N) /\ last = turns[N]
  BY <1>5 DEF turns
<1>7. Overlapped(last[1], last[2]) = {}
  <2>1. CASE Len(last[1]) <= N - N
    <3>1. last[1] \in Seq(Rects) /\ Len(last[1]) \in Nat /\ DOMAIN last[1] = 1 .. Len(last[1])
      BY <1>6, LenProperties DEF Fine
    <3>2. Len(last[1]) = 0
      BY <1>1, <2>1, <3>1
    <3> QED BY <3>1, <3>2 DEF Overlapped
  <2> QED BY <1>6, <2>1
<1> QED BY <1>6, <1>7

LEMMA MergeRight ==
  ASSUME NEW merged \in Seq(Rects), Disjoint(merged), NEW rect \in Rects,
         NEW more, more = Merge(merged, rect)
  PROVE  /\ more \in Seq(Rects) /\ Disjoint(more)
         /\ Region(merged) \cup Pixels(rect) \subseteq Region(more)
<1> DEFINE last == Turns(merged, rect)[Len(merged)]
           others == last[1]
           hull == last[2]
           n == Len(others) + 1
<1>1. /\ Fine(others, hull) /\ Overlapped(others, hull) = {}
      /\ Region(merged) \cup Pixels(rect) \subseteq Region(others) \cup Pixels(hull)
  BY TurnsRight DEF Fine
<1>2. more = Append(others, hull)
  BY DEF Merge
<1> HIDE DEF others, hull
<1>3. others \in Seq(Rects) /\ hull \in Rects /\ Disjoint(others)
      /\ Len(others) \in Nat /\ DOMAIN others = 1 .. Len(others)
  BY <1>1, LenProperties DEF Fine
<1>4. /\ more \in Seq(Rects) /\ Len(more) = n
      /\ \A k \in 1 .. Len(others) : more[k] = others[k]
      /\ more[n] = hull
  BY <1>2, <1>3, AppendProperties
<1>5. DOMAIN more = 1 .. Len(others) + 1
  BY <1>4, LenProperties
<1>6. ASSUME NEW k \in DOMAIN others PROVE Pixels(others[k]) \cap Pixels(hull) = {}
  <2>1. others[k] \in Rects /\ ~Overlap(hull, others[k])
    BY <1>1, <1>3, SeqElement DEF Overlapped
  <2> QED BY <1>3, <2>1, Apart
<1>7. Disjoint(more)
  <2> SUFFICES ASSUME NEW i \in DOMAIN more, NEW j \in DOMAIN more, i # j
               PROVE  Pixels(more[i]) \cap Pixels(more[j]) = {}
    BY DEF Disjoint
  <2>1. CASE i = n
    <3>1. j \in DOMAIN others /\ more[j] = others[j] /\ more[i] = hull
      BY <1>3, <1>4, <1>5, <2>1
    <3> QED BY <1>6, <3>1
  <2>2. CASE j = n
    <3>1. i \in DOMAIN others /\ more[i] = others[i] /\ more[j] = hull
      BY <1>3, <1>4, <1>5, <2>2
    <3> QED BY <1>6, <3>1
  <2>3. CASE i # n /\ j # n
    <3>1. /\ i \in DOMAIN others /\ more[i] = others[i]
          /\ j \in DOMAIN others /\ more[j] = others[j]
      BY <1>3, <1>4, <1>5, <2>3
    <3> QED BY <1>3, <3>1 DEF Disjoint
  <2> QED BY <2>1, <2>2, <2>3
<1>8. Region(others) \cup Pixels(hull) \subseteq Region(more)
  <2>1. ASSUME NEW k \in DOMAIN others PROVE Pixels(others[k]) \subseteq Region(more)
    <3>1. k \in DOMAIN more /\ more[k] = others[k]
      BY <1>3, <1>4, <1>5
    <3> QED BY <3>1 DEF Region
  <2>2. Pixels(hull) \subseteq Region(more)
    <3>1. n \in DOMAIN more
      BY <1>3, <1>5
    <3> QED BY <1>4, <3>1 DEF Region
  <2> QED BY <2>1, <2>2 DEF Region
<1> QED BY <1>1, <1>4, <1>7, <1>8

LEMMA MergesDefined ==
  ASSUME NEW damage \in Seq(Rects), NEW merges, merges = Merges(damage)
  PROVE  /\ merges[0] = <<>>
         /\ \A n \in 1 .. Len(damage) : merges[n] = Merge(merges[n - 1], damage[n])
<1> DEFINE N == Len(damage)
           S == {merged \in Seq(Rects) : Disjoint(merged)}
           step == [n \in 1 .. N |-> [merged \in S |-> Merge(merged, damage[n])]]
           value(f, n) == IF n = 0 THEN <<>> ELSE Merge(f[n - 1], damage[n])
           Is(f) == f = [n \in 0 .. N |-> IF n = 0 THEN <<>> ELSE Merge(f[n - 1], damage[n])]
<1>1. N \in Nat /\ <<>> \in S
  BY LenProperties DEF Disjoint
<1>2. ASSUME NEW n \in 1 .. N, NEW merged \in S PROVE Merge(merged, damage[n]) \in S
  <2>1. damage[n] \in Rects
    BY ElementOfSeq
  <2> QED BY <2>1, MergeRight
<1>3. Closed(S, N, step)
  <2> HIDE DEF N, S
  <2> QED BY <1>2 DEF Closed
<1>4. PICK run \in [0 .. N -> S] : run[0] = <<>> /\ \A n \in 1 .. N : run[n] = step[n][run[n - 1]]
  <2> HIDE DEF N, S, step
  <2>1. Reached(S, N, <<>>, step)
    BY <1>1, <1>3, StepByStep
  <2> QED BY <2>1 DEF Reached
<1>5. Is(run)
  <2>1. ASSUME NEW n \in 1 .. N PROVE run[n] = Merge(run[n - 1], damage[n])
    <3>1. n - 1 \in 0 .. N /\ run[n - 1] \in S
      <4> HIDE DEF N, S
      <4>1. n - 1 \in 0 .. N
        BY <1>1
      <4> QED BY <4>1
    <3>2. step[n][run[n - 1]] = Merge(run[n - 1], damage[n])
      <4> HIDE DEF S
      <4> QED BY <3>1
    <3> QED BY <1>4, <3>2
  <2>2. ASSUME NEW n \in 0 .. N PROVE run[n] = value(run, n)
    BY <1>1, <1>4, <2>1
  <2> HIDE DEF value
  <2>3. run = [n \in 0 .. N |-> value(run, n)]
    BY <2>2
  <2> QED BY <2>3 DEF value
<1>6. merges = CHOOSE f : Is(f)
  BY DEF Merges
<1> HIDE DEF Is
<1>7. Is(merges)
  BY <1>5, <1>6, Zenon
<1> QED BY <1>1, <1>7 DEF Is

(* What simplify makes of any damage covers it, inside the window, and no  *)
(* pixel twice.                                                            *)
LEMMA SimplifyRight ==
  ASSUME NEW damage \in Seq(Rects), NEW window \in Nat \X Nat,
         NEW simple, simple = Simplify(damage, window)
  PROVE  /\ simple \in Seq(Rects) /\ Disjoint(simple)
         /\ Region(damage) \cap Pixels(Covering(window)) \subseteq Region(simple)
<1>1. CASE \E n \in DOMAIN damage : Covers(damage[n], window)
  <2>1. simple = <<Covering(window)>>
    BY <1>1 DEF Simplify
  <2>2. Covering(window) \in Rects
    BY DEF Covering, Rect, Rects
  <2>3. simple \in Seq(Rects) /\ DOMAIN simple = {1} /\ simple[1] = Covering(window)
    BY <2>1, <2>2
  <2> QED BY <2>3 DEF Disjoint, Region
<1>2. CASE ~\E n \in DOMAIN damage : Covers(damage[n], window)
  <2> DEFINE N == Len(damage)
             merges == Merges(damage)
             upto(n) == {at \in Region(damage) : \E k \in 1 .. n : at \in Pixels(damage[k])}
             good == {n \in 0 .. N : /\ merges[n] \in Seq(Rects) /\ Disjoint(merges[n])
                                     /\ upto(n) \subseteq Region(merges[n])}
  <2>1. N \in Nat /\ DOMAIN damage = 1 .. N
    BY LenProperties
  <2>2. merges[0] = <<>> /\ \A n \in 1 .. N : merges[n] = Merge(merges[n - 1], damage[n])
    BY MergesDefined
  <2> HIDE DEF merges
  <2>3. 0 \in good
    <3>1. merges[0] \in Seq(Rects) /\ Disjoint(merges[0])
      BY <2>2 DEF Disjoint
    <3>2. upto(0) = {}
      OBVIOUS
    <3> HIDE DEF upto
    <3> QED BY <2>1, <3>1, <3>2
  <2>4. ASSUME NEW n \in 1 .. N, n - 1 \in good PROVE n \in good
    <3>1. damage[n] \in Rects
      BY <2>1, ElementOfSeq
    <3>2. merges[n - 1] \in Seq(Rects) /\ Disjoint(merges[n - 1]) /\ upto(n - 1) \subseteq Region(merges[n - 1])
      <4> HIDE DEF upto
      <4> QED BY <2>4
    <3>3. /\ merges[n] \in Seq(Rects) /\ Disjoint(merges[n])
          /\ Region(merges[n - 1]) \cup Pixels(damage[n]) \subseteq Region(merges[n])
      BY <2>2, <3>1, <3>2, MergeRight
    <3>4. upto(n) \subseteq upto(n - 1) \cup Pixels(damage[n])
      BY <2>1
    <3> HIDE DEF upto
    <3> QED BY <3>2, <3>3, <3>4
  <2>5. N \in good
    <3> HIDE DEF good
    <3>1. \A n \in 0 .. N : n \in good
      BY <2>1, <2>3, <2>4, UpTo
    <3> QED BY <2>1, <3>1
  <2>6. Region(damage) \subseteq upto(N)
    BY <2>1 DEF Region
  <2>7. simple = merges[N]
    BY <1>2 DEF Simplify, merges
  <2> HIDE DEF upto
  <2> QED BY <2>5, <2>6, <2>7
<1> QED BY <1>1, <1>2
-----------------------------------------------------------------------------
(* What is missing from a buffer.                                          *)

LEMMA RegionConcat ==
  ASSUME NEW old \in Seq(Rects), NEW new \in Seq(Rects), NEW both, both = old \o new
  PROVE  both \in Seq(Rects) /\ Region(both) = Region(old) \cup Region(new)
<1>1. /\ both \in Seq(Rects) /\ Len(both) = Len(old) + Len(new)
      /\ \A k \in 1 .. Len(old) + Len(new) :
           both[k] = IF k <= Len(old) THEN old[k] ELSE new[k - Len(old)]
  BY ConcatProperties
<1>2. /\ Len(old) \in Nat /\ DOMAIN old = 1 .. Len(old)
      /\ Len(new) \in Nat /\ DOMAIN new = 1 .. Len(new)
      /\ DOMAIN both = 1 .. Len(old) + Len(new)
  BY <1>1, LenProperties
<1>3. ASSUME NEW k \in DOMAIN old PROVE k \in DOMAIN both /\ both[k] = old[k]
  BY <1>1, <1>2
<1>4. ASSUME NEW k \in DOMAIN new PROVE Len(old) + k \in DOMAIN both /\ both[Len(old) + k] = new[k]
  BY <1>1, <1>2
<1>5. ASSUME NEW k \in DOMAIN both
      PROVE  \/ k \in DOMAIN old /\ both[k] = old[k]
             \/ k - Len(old) \in DOMAIN new /\ both[k] = new[k - Len(old)]
  BY <1>1, <1>2
<1>6. Region(old) \subseteq Region(both)
  BY <1>3 DEF Region
<1>7. Region(new) \subseteq Region(both)
  BY <1>4 DEF Region
<1>8. Region(both) \subseteq Region(old) \cup Region(new)
  BY <1>5 DEF Region
<1> QED BY <1>1, <1>6, <1>7, <1>8

LEMMA ChangedRight ==
  ASSUME NEW history, NEW presents \in Nat,
         \A n \in 1 .. presents : history[n].damage \in Seq(Rects),
         NEW changed, changed = Changed(history, presents)
  PROVE  /\ changed \in Seq(Rects)
         /\ \A n \in 1 .. presents : Region(history[n].damage) \subseteq Region(changed)
<1> DEFINE N == presents
           S == Seq(Rects)
           step == [n \in 1 .. N |-> [damage \in S |-> damage \o history[n].damage]]
           value(f, n) == IF n = 0 THEN <<>> ELSE f[n - 1] \o history[n].damage
           Is(f) == f = [n \in 0 .. N |-> IF n = 0 THEN <<>> ELSE f[n - 1] \o history[n].damage]
<1>1. <<>> \in S
  OBVIOUS
<1>2. ASSUME NEW n \in 1 .. N, NEW damage \in S PROVE damage \o history[n].damage \in S
  BY ConcatProperties
<1>3. Closed(S, N, step)
  <2> HIDE DEF N, S
  <2> QED BY <1>2 DEF Closed
<1>4. PICK run \in [0 .. N -> S] : run[0] = <<>> /\ \A n \in 1 .. N : run[n] = step[n][run[n - 1]]
  <2> HIDE DEF S, step
  <2>1. Reached(S, N, <<>>, step)
    BY <1>1, <1>3, StepByStep
  <2> QED BY <2>1 DEF Reached
<1>5. ASSUME NEW n \in 1 .. N PROVE run[n] = run[n - 1] \o history[n].damage
  <2>1. n - 1 \in 0 .. N /\ run[n - 1] \in S
    <3> HIDE DEF S
    <3> QED OBVIOUS
  <2>2. step[n][run[n - 1]] = run[n - 1] \o history[n].damage
    <3> HIDE DEF S
    <3> QED BY <2>1
  <2> QED BY <1>4, <2>2
<1>6. Is(run)
  <2>1. ASSUME NEW n \in 0 .. N PROVE run[n] = value(run, n)
    <3>1. CASE n = 0
      BY <1>4, <3>1, Zenon
    <3>2. CASE n \in 1 .. N
      <4>1. n # 0
        BY <3>2
      <4> QED BY <1>5, <3>2, <4>1, Zenon
    <3>3. n = 0 \/ n \in 1 .. N
      OBVIOUS
    <3> HIDE DEF value
    <3> QED BY <3>1, <3>2, <3>3, Zenon
  <2> HIDE DEF value
  <2>2. run = [n \in 0 .. N |-> value(run, n)]
    BY <2>1
  <2> QED BY <2>2 DEF value
<1> DEFINE damage == CHOOSE f : Is(f)
<1>7. changed = damage[N]
  BY DEF Changed
<1> HIDE DEF Is
<1>8. Is(damage)
  BY <1>6, Zenon
<1> HIDE DEF damage
<1>9. damage[0] = <<>> /\ \A n \in 1 .. N : damage[n] = damage[n - 1] \o history[n].damage
  <2>1. damage = [n \in 0 .. N |-> value(damage, n)]
    BY <1>8 DEF Is
  <2> HIDE DEF value
  <2>2. \A n \in 0 .. N : damage[n] = value(damage, n)
    BY <2>1, Zenon
  <2>3. 0 \in 0 .. N /\ \A n \in 1 .. N : n \in 0 .. N /\ n # 0
    OBVIOUS
  <2> QED BY <2>2, <2>3, Zenon DEF value
<1> DEFINE good == {n \in 0 .. N : /\ damage[n] \in Seq(Rects)
                                   /\ \A k \in 1 .. n : Region(history[k].damage) \subseteq Region(damage[n])}
<1>10. 0 \in good
  <2>1. damage[0] \in Seq(Rects) /\ 0 \in 0 .. N /\ 1 .. 0 = {}
    BY <1>9
  <2> QED BY <2>1, Zenon
<1>11. ASSUME NEW n \in 1 .. N, n - 1 \in good PROVE n \in good
  <2> DEFINE old == damage[n - 1]
             new == history[n].damage
  <2>1. damage[n] = old \o new /\ old \in Seq(Rects) /\ new \in Seq(Rects)
        /\ \A k \in 1 .. n - 1 : Region(history[k].damage) \subseteq Region(old)
    BY <1>9, <1>11
  <2> HIDE DEF old
  <2>2. damage[n] \in Seq(Rects) /\ Region(old) \cup Region(new) \subseteq Region(damage[n])
    BY <2>1, RegionConcat
  <2>3. ASSUME NEW k \in 1 .. n PROVE Region(history[k].damage) \subseteq Region(damage[n])
    <3>1. CASE k = n
      BY <2>2, <3>1
    <3>2. CASE k # n
      <4>1. k \in 1 .. n - 1
        BY <3>2
      <4> QED BY <2>1, <2>2, <4>1
    <3> QED BY <3>1, <3>2
  <2> QED BY <2>2, <2>3
<1>12. N \in good
  <2> HIDE DEF good
  <2>1. \A n \in 0 .. N : n \in good
    BY <1>10, <1>11, UpTo
  <2> QED BY <2>1
<1> QED BY <1>7, <1>12
-----------------------------------------------------------------------------
(* What a change to a rectangle of the desktop repaints.                   *)

LEMMA ScaleMonotone ==
  ASSUME NEW a \in Nat, NEW b \in Nat, a <= b, NEW m \in Nat, NEW n \in Nat \ {0}
  PROVE  /\ Scale(a, m, n) \in Nat /\ Scale(b, m, n) \in Nat /\ Scale(a, m, n) <= Scale(b, m, n)
         /\ ScaleUp(a, m, n) \in Nat /\ ScaleUp(b, m, n) \in Nat /\ ScaleUp(a, m, n) <= ScaleUp(b, m, n)
<1>1. a * m \in Nat /\ b * m \in Nat /\ a * m <= b * m
  BY ProductNat, TimesMonotone
<1>2. ASSUME NEW c \in Nat, NEW d \in Nat, c <= d PROVE c \div n \in Nat /\ d \div n \in Nat /\ c \div n <= d \div n
  <2> DEFINE q == c \div n
             r == d \div n
  <2>1. q \in Nat /\ r \in Nat /\ q * n <= c /\ d < r * n + n
    BY Quotient
  <2> HIDE DEF q, r
  <2>2. q * n \in Nat /\ r * n \in Nat /\ (r + 1) * n = r * n + n
    BY <2>1, ProductNat, Spread
  <2>3. q * n < (r + 1) * n
    BY <1>2, <2>1, <2>2
  <2>4. q < r + 1
    BY <2>1, <2>3, CancelLess
  <2>5. q \in Nat /\ r \in Nat /\ q <= r
    BY <2>1, <2>4
  <2> QED BY <2>5 DEF q, r
<1> DEFINE c == a * m
           d == b * m
<1>3. c \in Nat /\ d \in Nat /\ c <= d
  BY <1>1
<1> HIDE DEF c, d
<1>4. c + n - 1 \in Nat /\ d + n - 1 \in Nat /\ c + n - 1 <= d + n - 1
  BY <1>3
<1>5. /\ c \div n \in Nat /\ d \div n \in Nat /\ c \div n <= d \div n
      /\ (c + n - 1) \div n \in Nat /\ (d + n - 1) \div n \in Nat /\ (c + n - 1) \div n <= (d + n - 1) \div n
  BY <1>2, <1>3, <1>4
<1> QED BY <1>5 DEF Scale, ScaleUp, c, d

(* One axis: a rectangle repaints at least what each of its pixels does.   *)
LEMMA WiderAxis ==
  ASSUME NEW n \in Nat \ {0}, NEW m \in Nat \ {0}, NEW s \in 0 .. n - 1,
         NEW x \in Int, NEW width \in Int, x <= s, s < x + width,
         NEW left, left = Scale(Greater(x - 1, 0), m, n),
         NEW right, right = Lesser(ScaleUp(Lesser(x + width + 1, n), m, n), m)
  PROVE  /\ left \in Nat /\ left <= RepaintFrom(s, m, n)
         /\ right \in Nat /\ RepaintTo(s, m, n) <= right
<1>1. Greater(x - 1, 0) \in Nat /\ Greater(s - 1, 0) \in Nat /\ Greater(x - 1, 0) <= Greater(s - 1, 0)
  BY DEF Greater
<1>2. /\ Lesser(s + 2, n) \in Nat /\ Lesser(x + width + 1, n) \in Nat
      /\ Lesser(s + 2, n) <= Lesser(x + width + 1, n)
  BY DEF Lesser
<1>3. left \in Nat /\ left <= RepaintFrom(s, m, n)
  BY <1>1, ScaleMonotone DEF RepaintFrom
<1>4. /\ ScaleUp(Lesser(s + 2, n), m, n) \in Nat /\ ScaleUp(Lesser(x + width + 1, n), m, n) \in Nat
      /\ ScaleUp(Lesser(s + 2, n), m, n) <= ScaleUp(Lesser(x + width + 1, n), m, n)
  BY <1>2, ScaleMonotone
<1>5. ASSUME NEW a \in Nat, NEW b \in Nat, a <= b PROVE Lesser(b, m) \in Nat /\ Lesser(a, m) <= Lesser(b, m)
  BY <1>5 DEF Lesser
<1>6. right \in Nat /\ RepaintTo(s, m, n) <= right
  BY <1>4, <1>5 DEF RepaintTo
<1> QED BY <1>3, <1>6

LEMMA WiderRepaints ==
  ASSUME NEW size \in Proper, NEW desktop \in Proper, NEW rect \in Rects,
         NEW p \in 0 .. desktop[1] - 1, NEW q \in 0 .. desktop[2] - 1, <<p, q>> \in Pixels(rect)
  PROVE  Pixels(ToWindow(size, desktop, Rect(p, q, 1, 1))) \subseteq Pixels(ToWindow(size, desktop, rect))
<1> DEFINE area == Area(size, desktop)
           left == Scale(Greater(rect.x - 1, 0), area.width, desktop[1])
           top == Scale(Greater(rect.y - 1, 0), area.height, desktop[2])
           right == Lesser(ScaleUp(Lesser(rect.x + rect.width + 1, desktop[1]), area.width, desktop[1]), area.width)
           bottom == Lesser(ScaleUp(Lesser(rect.y + rect.height + 1, desktop[2]), area.height, desktop[2]), area.height)
           f == RepaintFrom(p, area.width, desktop[1])
           l == RepaintTo(p, area.width, desktop[1])
           g == RepaintFrom(q, area.height, desktop[2])
           k == RepaintTo(q, area.height, desktop[2])
<1>1. /\ area.x \in Nat /\ area.y \in Nat
      /\ area.width \in Nat \ {0} /\ area.height \in Nat \ {0}
  <2> HIDE DEF Proper
  <2> QED BY AreaFits
<1>2. desktop[1] \in Nat \ {0} /\ desktop[2] \in Nat \ {0}
  BY DEF Proper
<1>3. /\ rect.x \in Int /\ rect.width \in Int /\ rect.x <= p /\ p < rect.x + rect.width
      /\ rect.y \in Int /\ rect.height \in Int /\ rect.y <= q /\ q < rect.y + rect.height
      /\ p \in Int /\ q \in Int
  <2>1. rect.x \in Int /\ rect.y \in Int /\ rect.width \in Int /\ rect.height \in Int
    BY DEF Rects
  <2> QED BY <1>2, <2>1, PixelIn
<1>4. ToWindow(size, desktop, Rect(p, q, 1, 1)) = Rect(area.x + f, area.y + g, l - f, k - g)
  <2> HIDE DEF Proper
  <2> QED BY <1>3, SpotRepaints
<1>5. ToWindow(size, desktop, rect) = Rect(area.x + left, area.y + top, right - left, bottom - top)
  BY DEF ToWindow
<1> HIDE DEF area
<1>6. f \in Nat /\ l \in Nat /\ g \in Nat /\ k \in Nat
  BY <1>1, <1>2, Ranges
<1>7. left \in Nat /\ left <= f /\ right \in Nat /\ l <= right
  BY <1>1, <1>2, <1>3, WiderAxis
<1>8. top \in Nat /\ top <= g /\ bottom \in Nat /\ k <= bottom
  BY <1>1, <1>2, <1>3, WiderAxis
<1> HIDE DEF left, top, right, bottom, f, l, g, k
<1>9. Pixels(Rect(area.x + f, area.y + g, l - f, k - g))
        \subseteq Pixels(Rect(area.x + left, area.y + top, right - left, bottom - top))
  <2>1. /\ area.x + f \in Int /\ area.y + g \in Int /\ l - f \in Int /\ k - g \in Int
        /\ area.x + left \in Int /\ area.y + top \in Int /\ right - left \in Int /\ bottom - top \in Int
    BY <1>1, <1>6, <1>7, <1>8
  <2>2. /\ area.x + f + (l - f) = area.x + l /\ area.y + g + (k - g) = area.y + k
        /\ area.x + left + (right - left) = area.x + right /\ area.y + top + (bottom - top) = area.y + bottom
    BY <1>1, <1>6, <1>7, <1>8
  <2> SUFFICES ASSUME NEW at \in Pixels(Rect(area.x + f, area.y + g, l - f, k - g))
               PROVE  at \in Pixels(Rect(area.x + left, area.y + top, right - left, bottom - top))
    OBVIOUS
  <2>3. /\ at = <<at[1], at[2]>> /\ at[1] \in Int /\ at[2] \in Int
        /\ area.x + f <= at[1] /\ at[1] < area.x + l /\ area.y + g <= at[2] /\ at[2] < area.y + k
    <3> DEFINE x == area.x + f
               y == area.y + g
               width == l - f
               height == k - g
    <3>1. x \in Int /\ y \in Int /\ width \in Int /\ height \in Int /\ at \in Pixels(Rect(x, y, width, height))
      BY <2>1
    <3>2. x + width = area.x + l /\ y + height = area.y + k
      BY <2>2
    <3> HIDE DEF x, y, width, height
    <3>3. /\ at = <<at[1], at[2]>> /\ at[1] \in Int /\ at[2] \in Int
          /\ x <= at[1] /\ at[1] < x + width /\ y <= at[2] /\ at[2] < y + height
      BY <3>1, InPixels
    <3> QED BY <3>2, <3>3 DEF x, y
  <2>4. /\ area.x + left <= at[1] /\ at[1] < area.x + right
        /\ area.y + top <= at[2] /\ at[2] < area.y + bottom
    BY <1>1, <1>6, <1>7, <1>8, <2>3
  <2> QED BY <2>1, <2>2, <2>3, <2>4, InPixels
<1> QED BY <1>4, <1>5, <1>9

(* A pixel of the desktop blended into a pixel of the window is one of the *)
(* desktop, and the window's is repainted when it changes.                 *)
LEMMA BlendedNear ==
  ASSUME NEW size \in Proper, NEW desktop \in Proper, NEW at \in Int \X Int,
         NEW n \in DOMAIN Blended(size, desktop, at), NEW source, source = Blended(size, desktop, at)[n]
  PROVE  /\ source = <<source[1], source[2]>>
         /\ source[1] \in 0 .. desktop[1] - 1 /\ source[2] \in 0 .. desktop[2] - 1
         /\ at \in Pixels(ToWindow(size, desktop, Rect(source[1], source[2], 1, 1)))
<1> DEFINE area == Area(size, desktop)
           columns == Sample(at[1] - area.x, area.width, desktop[1])
           rows == Sample(at[2] - area.y, area.height, desktop[2])
<1>1. /\ desktop[1] \in Nat \ {0} /\ desktop[2] \in Nat \ {0}
  BY DEF Proper
<1>2. /\ area.x \in Nat /\ area.y \in Nat
      /\ area.width \in Nat \ {0} /\ area.height \in Nat \ {0}
  <2> HIDE DEF Proper
  <2> QED BY AreaFits
<1> HIDE DEF area
<1>3. InArea(area, at)
  BY DEF Blended, area
<1>4. Blended(size, desktop, at)
        = << <<columns[1], rows[1]>>, <<columns[2], rows[1]>>,
             <<columns[1], rows[2]>>, <<columns[2], rows[2]>> >>
  BY <1>3 DEF Blended, area
<1> HIDE DEF columns, rows
<1>5. source = <<source[1], source[2]>> /\ source[1] \in {columns[1], columns[2]} /\ source[2] \in {rows[1], rows[2]}
  BY <1>4
<1>6. at[1] - area.x \in 0 .. area.width - 1 /\ at[2] - area.y \in 0 .. area.height - 1
  <2> HIDE DEF Proper
  <2> QED BY <1>3, InsideArea DEF area
<1>7. source[1] \in Int /\ source[2] \in Int
  <2>1. ASSUME NEW i \in Nat, NEW output \in Nat \ {0}, NEW from \in Nat \ {0}
        PROVE  Sample(i, output, from)[1] \in Int /\ Sample(i, output, from)[2] \in Int
    <3> DEFINE centre == ((2 * i + 1) * from * 128) \div output - 128
               clamped == Greater(0, Lesser(centre, (from - 1) * 256))
    <3>1. centre \in Int
      <4>1. (2 * i + 1) * from * 128 \in Nat
        BY ProductNat
      <4> QED BY <4>1, Quotient
    <3> HIDE DEF centre
    <3>2. clamped \in Int
      BY <3>1 DEF Greater, Lesser
    <3>3. clamped \div 256 \in Int /\ Lesser(clamped \div 256 + 1, from - 1) \in Int
      BY <3>2 DEF Lesser
    <3> QED BY <3>3 DEF Sample, centre
  <2>2. at[1] - area.x \in Nat /\ at[2] - area.y \in Nat
    BY <1>2, <1>6
  <2>3. columns[1] \in Int /\ columns[2] \in Int
    BY <1>1, <1>2, <2>1, <2>2 DEF columns
  <2>4. rows[1] \in Int /\ rows[2] \in Int
    BY <1>1, <1>2, <2>1, <2>2 DEF rows
  <2> QED BY <1>5, <2>3, <2>4
<1>8. /\ source[1] \in 0 .. desktop[1] - 1
      /\ RepaintFrom(source[1], area.width, desktop[1]) \in Nat
      /\ RepaintFrom(source[1], area.width, desktop[1]) <= at[1] - area.x
      /\ RepaintTo(source[1], area.width, desktop[1]) \in Nat
      /\ at[1] - area.x < RepaintTo(source[1], area.width, desktop[1])
  BY <1>1, <1>2, <1>5, <1>6, <1>7, BlendAxis DEF columns
<1>9. /\ source[2] \in 0 .. desktop[2] - 1
      /\ RepaintFrom(source[2], area.height, desktop[2]) \in Nat
      /\ RepaintFrom(source[2], area.height, desktop[2]) <= at[2] - area.y
      /\ RepaintTo(source[2], area.height, desktop[2]) \in Nat
      /\ at[2] - area.y < RepaintTo(source[2], area.height, desktop[2])
  BY <1>1, <1>2, <1>5, <1>6, <1>7, BlendAxis DEF rows
<1>10. at \in Pixels(ToWindow(size, desktop, Rect(source[1], source[2], 1, 1)))
  <2> HIDE DEF Proper
  <2> QED BY <1>7, <1>8, <1>9, SpotContains DEF area
<1> QED BY <1>5, <1>8, <1>9, <1>10

LEMMA BlendedRepaints ==
  ASSUME NEW size \in Proper, NEW desktop \in Proper, NEW at \in Int \X Int,
         NEW n \in DOMAIN Blended(size, desktop, at), NEW source, source = Blended(size, desktop, at)[n]
  PROVE  /\ source \in Pixels(Covering(desktop))
         /\ \A rect \in Rects : source \in Pixels(rect) => at \in Pixels(ToWindow(size, desktop, rect))
<1>1. /\ source = <<source[1], source[2]>>
      /\ source[1] \in 0 .. desktop[1] - 1 /\ source[2] \in 0 .. desktop[2] - 1
      /\ at \in Pixels(ToWindow(size, desktop, Rect(source[1], source[2], 1, 1)))
  BY BlendedNear
<1>2. source \in Pixels(Covering(desktop))
  <2>1. desktop[1] \in Nat \ {0} /\ desktop[2] \in Nat \ {0}
    BY DEF Proper
  <2> QED BY <1>1, <2>1 DEF Pixels, Covering, Rect
<1>3. ASSUME NEW rect \in Rects, source \in Pixels(rect) PROVE at \in Pixels(ToWindow(size, desktop, rect))
  <2> HIDE DEF Proper
  <2> QED BY <1>1, <1>3, WiderRepaints
<1> QED BY <1>2, <1>3
=============================================================================
