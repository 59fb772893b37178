------------------------------- MODULE Pen_proofs -------------------------------
(***************************************************************************)
(* Proofs about a pen's position and its pressure.  Of Samples: the filter *)
(* averages samples of the present stroke only, for any window and any     *)
(* settings, no position leaves the range of the axes, for any area and    *)
(* rotation, and a click lands where the pen is.  Of Pressure: its         *)
(* properties hold for every resolution of the pen, every scale, tolerance *)
(* and threshold.                                                          *)
(***************************************************************************)
EXTENDS Samples, Pressure, Loops

-----------------------------------------------------------------------------
(***************************************************************************)
(* Positions.                                                              *)
(***************************************************************************)

Between(v, low, high) == v \in Int /\ low <= v /\ v <= high

LEMMA ScaleAxisRange ==
  ASSUME NEW v \in Int, NEW high \in Int, NEW low \in Int, low <= high,
         NEW to \in Int, NEW from \in Int, from <= to
  PROVE  Between(ScaleAxis(v, high, low, to, from), low, high)
<1>1. ASSUME NEW q \in Int PROVE Between(Clamp(q, low, high), low, high)
  BY DEF Clamp, Between
<1>2. CASE to = from
  BY <1>1, <1>2 DEF ScaleAxis
<1>3. CASE to # from
  <2>1. PICK n \in Int : n = (high - low) * (v - from)
    OBVIOUS
  <2>2. PICK w \in Nat : w = to - from /\ w > 0
    BY <1>3
  <2>3. n \div w \in Int
    BY <2>2
  <2>4. ScaleAxis(v, high, low, to, from) = Clamp((n \div w) + low, low, high)
    BY <1>3, <2>1, <2>2 DEF ScaleAxis
  <2> QED
    BY <1>1, <2>3, <2>4
<1> QED
  BY <1>2, <1>3

\* A rectangle that is neither a line nor a point.
Extended(a) == /\ a.low \in [x : Int, y : Int] /\ a.high \in [x : Int, y : Int]
               /\ a.low.x < a.high.x /\ a.low.y < a.high.y

LEMMA ExtendedSides ==
  ASSUME NEW a, Extended(a)
  PROVE  /\ a.low.x \in Int /\ a.high.x \in Int /\ a.low.x < a.high.x
         /\ a.low.y \in Int /\ a.high.y \in Int /\ a.low.y < a.high.y
BY DEF Extended

\* On axes with an extent both coordinates are scaled.
LEMMA ScaledIs ==
  ASSUME Extended(Axes), NEW p, NEW a
  PROVE  Scaled(p, a) = Point(ScaleAxis(p.x, Axes.high.x, Axes.low.x, a.high.x, a.low.x),
                              ScaleAxis(p.y, Axes.high.y, Axes.low.y, a.high.y, a.low.y))
BY ExtendedSides DEF Scaled

\* A rectangle given by two corners in order.
Rectangle(a) == /\ a.low.x \in Int /\ a.low.y \in Int /\ a.high.x \in Int /\ a.high.y \in Int
                /\ a.low.x <= a.high.x /\ a.low.y <= a.high.y
Within(p, a) == Between(p.x, a.low.x, a.high.x) /\ Between(p.y, a.low.y, a.high.y)

LEMMA Flips ==
  ASSUME Extended(Axes), NEW p \in [x : Int, y : Int], Within(p, Axes)
  PROVE  /\ FlipX(p) \in [x : Int, y : Int] /\ Within(FlipX(p), Axes)
         /\ FlipY(p) \in [x : Int, y : Int] /\ Within(FlipY(p), Axes)
  BY DEF Extended, Within, Between, FlipX, FlipY

\* wcmRotateAndScaleCoordinates: wherever the tool is, inside the configured area or
\* not, and however the tablet is turned, the position is in the range of the axes.
THEOREM PositionOnScreen ==
  ASSUME Extended(Axes), NEW c, Rectangle(c.area),
         c.rotate \in {"none", "cw", "half", "ccw"}, NEW p \in [x : Int, y : Int]
  PROVE  Placed(c, p) \in [x : Int, y : Int] /\ Within(Placed(c, p), Axes)
<1>0. /\ Axes.low.x \in Int /\ Axes.high.x \in Int /\ Axes.low.x <= Axes.high.x
      /\ Axes.low.y \in Int /\ Axes.high.y \in Int /\ Axes.low.y <= Axes.high.y
  BY ExtendedSides
<1>1. ASSUME NEW q \in [x : Int, y : Int], NEW a, Rectangle(a)
      PROVE  /\ Between(ScaleAxis(q.x, Axes.high.x, Axes.low.x, a.high.x, a.low.x), Axes.low.x, Axes.high.x)
             /\ Between(ScaleAxis(q.y, Axes.high.y, Axes.low.y, a.high.y, a.low.y), Axes.low.y, Axes.high.y)
  BY <1>0, <1>1, ScaleAxisRange DEF Rectangle
<1> PICK s : s = Scaled(p, c.area)
  OBVIOUS
<1>2. s \in [x : Int, y : Int] /\ Within(s, Axes)
  BY <1>1, ScaledIs DEF Point, Within, Between
<1> PICK t : t = Swapped(s)
  OBVIOUS
<1>3. t \in [x : Int, y : Int] /\ Within(t, Axes)
  <2>1. /\ Between(ScaleAxis(s.y, Axes.high.x, Axes.low.x, Axes.high.y, Axes.low.y), Axes.low.x, Axes.high.x)
        /\ Between(ScaleAxis(s.x, Axes.high.y, Axes.low.y, Axes.high.x, Axes.low.x), Axes.low.y, Axes.high.y)
    BY <1>0, <1>2, ScaleAxisRange
  <2> QED
    BY <2>1 DEF Swapped, Point, Within, Between
<1>4. Placed(c, p) = Turned(s, c.rotate)
  BY DEF Placed
<1>5. CASE c.rotate = "none"
  BY <1>2, <1>4, <1>5 DEF Turned
<1>6. CASE c.rotate = "cw"
  BY <1>3, <1>4, <1>6, Flips DEF Turned
<1>7. CASE c.rotate = "ccw"
  BY <1>3, <1>4, <1>7, Flips DEF Turned
<1>8. CASE c.rotate = "half"
  <2>1. FlipY(s) \in [x : Int, y : Int] /\ Within(FlipY(s), Axes)
    BY <1>2, Flips
  <2>2. FlipX(FlipY(s)) \in [x : Int, y : Int] /\ Within(FlipX(FlipY(s)), Axes)
    BY <2>1, Flips
  <2> QED
    BY <1>4, <1>8, <2>2 DEF Turned
<1> QED
  BY <1>5, <1>6, <1>7, <1>8

\* n times w divided by w.
LEMMA Divides ==
  ASSUME NEW n \in Int, NEW w \in Nat \ {0}
  PROVE  (n * w) \div w = n
<1> DEFINE p == n * w
           q == p \div w
           r == p % w
<1>1. p \in Int
  BY SMT
<1>2. p = w * q + r /\ q \in Int /\ r \in 0..(w - 1)
  BY <1>1, SMT
<1>3. ~(q < n)
  <2> SUFFICES ASSUME q < n
               PROVE  FALSE
    OBVIOUS
  <2>1. w * (n - q - 1) >= 0
    BY <1>2, SMT
  <2>2. w * (n - q - 1) = n * w - w * q - w
    BY <1>2, SMT
  <2> QED
    BY <1>2, <2>1, <2>2, SMT
<1>4. ~(n < q)
  <2> SUFFICES ASSUME n < q
               PROVE  FALSE
    OBVIOUS
  <2>1. w * (q - n - 1) >= 0
    BY <1>2, SMT
  <2>2. w * (q - n - 1) = w * q - n * w - w
    BY <1>2, SMT
  <2> QED
    BY <1>2, <2>1, <2>2, SMT
<1> QED
  BY <1>2, <1>3, <1>4

\* The ends of a range are those of the other.
LEMMA ScaleAxisEnds ==
  ASSUME NEW high \in Int, NEW low \in Int, low <= high,
         NEW to \in Int, NEW from \in Int, from < to
  PROVE  /\ ScaleAxis(from, high, low, to, from) = low
         /\ ScaleAxis(to, high, low, to, from) = high
<1> DEFINE w == to - from
           n == high - low
<1>1. w \in Nat \ {0} /\ n \in Nat /\ to # from
  OBVIOUS
<1>2. (n * w) \div w = n
  BY <1>1, Divides
<1>3. n * (from - from) = 0 /\ 0 \div w = 0
  BY <1>1, SMT
<1>4. ScaleAxis(to, high, low, to, from) = Clamp(n + low, low, high)
  BY <1>1, <1>2 DEF ScaleAxis
<1>5. ScaleAxis(from, high, low, to, from) = Clamp(0 + low, low, high)
  BY <1>1, <1>3 DEF ScaleAxis
<1> QED
  BY <1>4, <1>5 DEF Clamp

\* Its corner at the left or the right and at the top or the bottom.
Corner(a, right, bottom) == Point(IF right THEN a.high.x ELSE a.low.x,
                                  IF bottom THEN a.high.y ELSE a.low.y)

LEMMA EndsMapped ==
  \A high, low, to, from \in Int :
    low <= high /\ from < to => /\ ScaleAxis(from, high, low, to, from) = low
                               /\ ScaleAxis(to, high, low, to, from) = high
BY ScaleAxisEnds

\* The ends of a side of one area are those of the same or another side of the other.
LEMMA SidesMapped ==
  ASSUME NEW a, Extended(a), NEW b, Extended(b)
  PROVE  /\ ScaleAxis(a.low.x, b.high.x, b.low.x, a.high.x, a.low.x) = b.low.x
         /\ ScaleAxis(a.high.x, b.high.x, b.low.x, a.high.x, a.low.x) = b.high.x
         /\ ScaleAxis(a.low.y, b.high.y, b.low.y, a.high.y, a.low.y) = b.low.y
         /\ ScaleAxis(a.high.y, b.high.y, b.low.y, a.high.y, a.low.y) = b.high.y
         /\ ScaleAxis(a.low.x, b.high.y, b.low.y, a.high.x, a.low.x) = b.low.y
         /\ ScaleAxis(a.high.x, b.high.y, b.low.y, a.high.x, a.low.x) = b.high.y
         /\ ScaleAxis(a.low.y, b.high.x, b.low.x, a.high.y, a.low.y) = b.low.x
         /\ ScaleAxis(a.high.y, b.high.x, b.low.x, a.high.y, a.low.y) = b.high.x
<1> DEFINE al == a.low.x    ah == a.high.x    at == a.low.y    ab == a.high.y
           bl == b.low.x    bh == b.high.x    bt == b.low.y    bb == b.high.y
<1>1. /\ al \in Int /\ ah \in Int /\ al < ah /\ at \in Int /\ ab \in Int /\ at < ab
      /\ bl \in Int /\ bh \in Int /\ bl < bh /\ bt \in Int /\ bb \in Int /\ bt < bb
  BY ExtendedSides
<1> HIDE DEF al, ah, at, ab, bl, bh, bt, bb
<1>2. bl <= bh /\ bt <= bb
  BY <1>1
<1>3. ScaleAxis(al, bh, bl, ah, al) = bl /\ ScaleAxis(ah, bh, bl, ah, al) = bh
  BY <1>1, <1>2, EndsMapped
<1>4. ScaleAxis(at, bb, bt, ab, at) = bt /\ ScaleAxis(ab, bb, bt, ab, at) = bb
  BY <1>1, <1>2, EndsMapped
<1>5. ScaleAxis(al, bb, bt, ah, al) = bt /\ ScaleAxis(ah, bb, bt, ah, al) = bb
  BY <1>1, <1>2, EndsMapped
<1>6. ScaleAxis(at, bh, bl, ab, at) = bl /\ ScaleAxis(ab, bh, bl, ab, at) = bh
  BY <1>1, <1>2, EndsMapped
<1> QED
  BY <1>3, <1>4, <1>5, <1>6 DEF al, ah, at, ab, bl, bh, bt, bb

LEMMA CornersScaled ==
  ASSUME Extended(Axes), NEW a, Extended(a), NEW right \in BOOLEAN, NEW bottom \in BOOLEAN
  PROVE  Scaled(Corner(a, right, bottom), a) = Corner(Axes, right, bottom)
<1>1. /\ ScaleAxis(a.low.x, Axes.high.x, Axes.low.x, a.high.x, a.low.x) = Axes.low.x
      /\ ScaleAxis(a.high.x, Axes.high.x, Axes.low.x, a.high.x, a.low.x) = Axes.high.x
      /\ ScaleAxis(a.low.y, Axes.high.y, Axes.low.y, a.high.y, a.low.y) = Axes.low.y
      /\ ScaleAxis(a.high.y, Axes.high.y, Axes.low.y, a.high.y, a.low.y) = Axes.high.y
  BY SidesMapped
<1>2. /\ Corner(a, right, bottom).x = IF right THEN a.high.x ELSE a.low.x
      /\ Corner(a, right, bottom).y = IF bottom THEN a.high.y ELSE a.low.y
  BY DEF Corner, Point
<1>3. CASE right
  BY <1>1, <1>2, <1>3, ScaledIs DEF Corner
<1>4. CASE ~right
  BY <1>1, <1>2, <1>4, ScaledIs DEF Corner
<1> QED
  BY <1>3, <1>4

LEMMA CornersTurned ==
  ASSUME Extended(Axes), NEW right \in BOOLEAN, NEW bottom \in BOOLEAN
  PROVE  LET p == Corner(Axes, right, bottom)
         IN /\ Swapped(p) = Corner(Axes, bottom, right)
            /\ FlipX(p) = Corner(Axes, ~right, bottom)
            /\ FlipY(p) = Corner(Axes, right, ~bottom)
<1> DEFINE p == Corner(Axes, right, bottom)
<1>1. /\ p = [x |-> p.x, y |-> p.y]
      /\ p.x = IF right THEN Axes.high.x ELSE Axes.low.x
      /\ p.y = IF bottom THEN Axes.high.y ELSE Axes.low.y
  BY DEF Corner, Point
<1>2. /\ Axes.high.x \in Int /\ Axes.low.x \in Int /\ Axes.high.y \in Int /\ Axes.low.y \in Int
  BY DEF Extended
<1> HIDE DEF p
<1>3. Swapped(p) = Corner(Axes, bottom, right)
  <2>1. /\ ScaleAxis(Axes.low.x, Axes.high.y, Axes.low.y, Axes.high.x, Axes.low.x) = Axes.low.y
        /\ ScaleAxis(Axes.high.x, Axes.high.y, Axes.low.y, Axes.high.x, Axes.low.x) = Axes.high.y
        /\ ScaleAxis(Axes.low.y, Axes.high.x, Axes.low.x, Axes.high.y, Axes.low.y) = Axes.low.x
        /\ ScaleAxis(Axes.high.y, Axes.high.x, Axes.low.x, Axes.high.y, Axes.low.y) = Axes.high.x
    BY SidesMapped
  <2>2. CASE right
    BY <1>1, <2>1, <2>2 DEF Swapped, Corner
  <2>3. CASE ~right
    BY <1>1, <2>1, <2>3 DEF Swapped, Corner
  <2> QED
    BY <2>2, <2>3
<1>4. FlipX(p) = Corner(Axes, ~right, bottom)
  <2>1. FlipX(p) = Point(Axes.high.x - (p.x - Axes.low.x), p.y)
    BY <1>1 DEF FlipX, Point
  <2>2. Axes.high.x - (p.x - Axes.low.x) = IF ~right THEN Axes.high.x ELSE Axes.low.x
    BY <1>1, <1>2
  <2> QED
    BY <1>1, <2>1, <2>2 DEF Corner
<1>5. FlipY(p) = Corner(Axes, right, ~bottom)
  <2>1. FlipY(p) = Point(p.x, Axes.high.y - (p.y - Axes.low.y))
    BY <1>1 DEF FlipY, Point
  <2>2. Axes.high.y - (p.y - Axes.low.y) = IF ~bottom THEN Axes.high.y ELSE Axes.low.y
    BY <1>1, <1>2
  <2> QED
    BY <1>1, <2>1, <2>2 DEF Corner
<1> QED
  BY <1>3, <1>4, <1>5 DEF p

\* Where a corner of the area comes to lie.
LEMMA CornersPlaced ==
  ASSUME Extended(Axes), NEW c, Extended(c.area), NEW right \in BOOLEAN, NEW bottom \in BOOLEAN
  PROVE  LET p == Placed(c, Corner(c.area, right, bottom))
         IN /\ c.rotate = "none" => p = Corner(Axes, right, bottom)
            /\ c.rotate = "cw"   => p = Corner(Axes, bottom, ~right)
            /\ c.rotate = "ccw"  => p = Corner(Axes, ~bottom, right)
            /\ c.rotate = "half" => p = Corner(Axes, ~right, ~bottom)
<1> DEFINE s == Corner(Axes, right, bottom)
<1>1. Placed(c, Corner(c.area, right, bottom)) = Turned(s, c.rotate)
  BY CornersScaled DEF Placed
<1>2. /\ Swapped(s) = Corner(Axes, bottom, right)
      /\ FlipY(Corner(Axes, bottom, right)) = Corner(Axes, bottom, ~right)
      /\ FlipX(Corner(Axes, bottom, right)) = Corner(Axes, ~bottom, right)
      /\ FlipY(s) = Corner(Axes, right, ~bottom)
      /\ FlipX(Corner(Axes, right, ~bottom)) = Corner(Axes, ~right, ~bottom)
  BY CornersTurned
<1> HIDE DEF s
<1>3. c.rotate = "none" => Turned(s, c.rotate) = s
  BY DEF Turned
<1>4. c.rotate = "cw" => Turned(s, c.rotate) = FlipY(Swapped(s))
  BY DEF Turned
<1>5. c.rotate = "ccw" => Turned(s, c.rotate) = FlipX(Swapped(s))
  BY DEF Turned
<1>6. c.rotate = "half" => Turned(s, c.rotate) = FlipX(FlipY(s))
  BY DEF Turned
<1> QED
  BY <1>1, <1>2, <1>3, <1>4, <1>5, <1>6 DEF s

LEMMA AreaPlaced ==
  ASSUME Extended(Axes), Points \subseteq [x : Int, y : Int],
         sets.rotate \in {"none", "cw", "half", "ccw"}, Extended(sets.area)
  PROVE  AreaOnScreen
<1> DEFINE k == Places[sets.rotate]
           A == Corners(Axes)
           C == Corners(sets.area)
<1>1. \A b : Extended(b) =>
        /\ Corners(b)[1] = Corner(b, FALSE, FALSE) /\ Corners(b)[2] = Corner(b, TRUE, FALSE)
        /\ Corners(b)[3] = Corner(b, TRUE, TRUE) /\ Corners(b)[4] = Corner(b, FALSE, TRUE)
  <2> SUFFICES ASSUME NEW b, Extended(b)
               PROVE  /\ Corners(b)[1] = Corner(b, FALSE, FALSE)
                      /\ Corners(b)[2] = Corner(b, TRUE, FALSE)
                      /\ Corners(b)[3] = Corner(b, TRUE, TRUE)
                      /\ Corners(b)[4] = Corner(b, FALSE, TRUE)
    OBVIOUS
  <2>1. b.low = Point(b.low.x, b.low.y) /\ b.high = Point(b.high.x, b.high.y)
    BY DEF Extended, Point
  <2> HIDE DEF Point
  <2>2. /\ Corner(b, FALSE, FALSE) = b.low /\ Corner(b, TRUE, TRUE) = b.high
        /\ Corner(b, TRUE, FALSE) = Point(b.high.x, b.low.y)
        /\ Corner(b, FALSE, TRUE) = Point(b.low.x, b.high.y)
    BY <2>1 DEF Corner
  <2> QED
    BY <2>2 DEF Corners
<1>2. /\ A[1] = Corner(Axes, FALSE, FALSE) /\ A[2] = Corner(Axes, TRUE, FALSE)
      /\ A[3] = Corner(Axes, TRUE, TRUE) /\ A[4] = Corner(Axes, FALSE, TRUE)
  BY <1>1
<1>3. /\ C[1] = Corner(sets.area, FALSE, FALSE) /\ C[2] = Corner(sets.area, TRUE, FALSE)
      /\ C[3] = Corner(sets.area, TRUE, TRUE) /\ C[4] = Corner(sets.area, FALSE, TRUE)
  BY <1>1
<1> HIDE DEF A, C
<1>4. \A i \in 1..4 : i = 1 \/ i = 2 \/ i = 3 \/ i = 4
  OBVIOUS
<1>5. \A i \in 1..4 : Placed(sets, C[i]) = A[((i - 1 + k) % 4) + 1]
  <2>1. CASE sets.rotate = "none"
    <3>1. k = 0
      BY <2>1 DEF Places
    <3>2. /\ Placed(sets, C[1]) = A[1] /\ Placed(sets, C[2]) = A[2]
          /\ Placed(sets, C[3]) = A[3] /\ Placed(sets, C[4]) = A[4]
      BY <1>2, <1>3, <2>1, CornersPlaced
    <3> QED
      BY <1>4, <3>1, <3>2
  <2>2. CASE sets.rotate = "ccw"
    <3>1. k = 1
      BY <2>2 DEF Places
    <3>2. /\ Placed(sets, C[1]) = A[2] /\ Placed(sets, C[2]) = A[3]
          /\ Placed(sets, C[3]) = A[4] /\ Placed(sets, C[4]) = A[1]
      BY <1>2, <1>3, <2>2, CornersPlaced
    <3> QED
      BY <1>4, <3>1, <3>2
  <2>3. CASE sets.rotate = "half"
    <3>1. k = 2
      BY <2>3 DEF Places
    <3>2. /\ Placed(sets, C[1]) = A[3] /\ Placed(sets, C[2]) = A[4]
          /\ Placed(sets, C[3]) = A[1] /\ Placed(sets, C[4]) = A[2]
      BY <1>2, <1>3, <2>3, CornersPlaced
    <3> QED
      BY <1>4, <3>1, <3>2
  <2>4. CASE sets.rotate = "cw"
    <3>1. k = 3
      BY <2>4 DEF Places
    <3>2. /\ Placed(sets, C[1]) = A[4] /\ Placed(sets, C[2]) = A[1]
          /\ Placed(sets, C[3]) = A[2] /\ Placed(sets, C[4]) = A[3]
      BY <1>2, <1>3, <2>4, CornersPlaced
    <3> QED
      BY <1>4, <3>1, <3>2
  <2> QED
    BY <2>1, <2>2, <2>3, <2>4
<1>6. \A p \in Points : /\ Placed(sets, p).x \in Axes.low.x..Axes.high.x
                       /\ Placed(sets, p).y \in Axes.low.y..Axes.high.y
  <2> TAKE p \in Points
  <2>1. Rectangle(Axes) /\ Rectangle(sets.area)
    BY ExtendedSides DEF Rectangle
  <2>2. Within(Placed(sets, p), Axes)
    BY <2>1, PositionOnScreen
  <2> QED
    BY <2>1, <2>2 DEF Within, Between, Rectangle
<1> QED
  BY <1>5, <1>6 DEF AreaOnScreen, A, C

-----------------------------------------------------------------------------
(***************************************************************************)
(* The window.                                                             *)
(***************************************************************************)

\* The window as far as it is used is the stroke, whose first sample stands for those
\* that are missing.
WindowInv ==
  /\ sets.raw \in 1..MaxSamples
  /\ DOMAIN window = 1..MaxSamples
  /\ old.prox \in BOOLEAN /\ old.btn \in BOOLEAN /\ grown \in BOOLEAN
  /\ stroke \in Seq(Points) /\ Len(stroke) <= MaxSamples
  /\ old.prox => Len(stroke) > 0
  /\ StrokeAveraged

LEMMA WindowInit == SampleInit => WindowInv
<1> SUFFICES ASSUME SampleInit PROVE WindowInv
  OBVIOUS
<1>1. sets.raw \in 1..MaxSamples
  BY SamplesAssumption DEF SampleInit
<1> QED
  <2>1. stroke = <<>> /\ DOMAIN window = 1..MaxSamples /\ old.prox = FALSE /\ old.btn = FALSE
        /\ grown = FALSE
    BY DEF SampleInit
  <2>2. stroke \in Seq(Points) /\ Len(stroke) = 0
    BY <2>1
  <2>3. StrokeAveraged
    BY <2>1 DEF StrokeAveraged
  <2>4. old.prox \in BOOLEAN /\ old.btn \in BOOLEAN /\ grown \in BOOLEAN /\ ~old.prox
    BY <2>1
  <2> QED
    BY SamplesAssumption, <1>1, <2>1, <2>2, <2>3, <2>4 DEF WindowInv

\* A sample is put in front of the stroke as it is in front of the window.
LEMMA WindowSample ==
  ASSUME WindowInv, NEW p \in Points, NEW btn \in BOOLEAN, NEW other \in BOOLEAN,
         Sample(p, btn, other)
  PROVE  WindowInv'
<1> USE SamplesAssumption DEF WindowInv
<1> DEFINE first == ~old.prox \/ (btn /\ ~old.btn)
<1>1. /\ sets' = sets
      /\ window' = [i \in 1..MaxSamples |-> IF i > sets.raw THEN window[i]
                                            ELSE IF first \/ i = 1 THEN p ELSE window[i - 1]]
      /\ grown' = (grown /\ old.prox /\ (old.btn \/ ~btn))
      /\ stroke' = IF first THEN <<p>>
                   ELSE SubSeq(<<p>> \o stroke, 1,
                               IF Len(stroke) < MaxSamples THEN Len(stroke) + 1 ELSE MaxSamples)
  BY DEF Sample, Stored, Fresh
<1>2. old'.prox \in BOOLEAN /\ old'.btn \in BOOLEAN
  <2>1. old' = old \/ \E at : old' = [prox |-> TRUE, btn |-> btn, at |-> at]
    BY DEF Sample
  <2>2. CASE old' = old
    BY <2>2
  <2>3. ASSUME NEW at, old' = [prox |-> TRUE, btn |-> btn, at |-> at]
        PROVE  old'.prox = TRUE /\ old'.btn = btn
    BY <2>3
  <2> QED
    BY <2>1, <2>2, <2>3
<1>3. CASE first
  <2>1. stroke' = <<p>> /\ \A i \in 1..sets.raw : window'[i] = p
    BY <1>1, <1>3
  <2>2. stroke' \in Seq(Points) /\ Len(stroke') = 1 /\ \A i \in Int : stroke'[IF i < 1 THEN i ELSE 1] = p \/ i < 1
    BY <2>1
  <2>3. StrokeAveraged'
    BY <1>1, <2>1, <2>2 DEF StrokeAveraged
  <2>4. DOMAIN window' = 1..MaxSamples /\ grown' \in BOOLEAN /\ 1 <= MaxSamples
    BY <1>1
  <2> QED
    BY <1>1, <1>2, <2>2, <2>3, <2>4
<1>4. CASE ~first
  <2>1. old.prox /\ Len(stroke) \in Nat /\ Len(stroke) > 0
    BY <1>4
  <2>2. PICK n \in 1..MaxSamples :
          n = IF Len(stroke) < MaxSamples THEN Len(stroke) + 1 ELSE MaxSamples
    BY <2>1
  <2>3. stroke' = SubSeq(<<p>> \o stroke, 1, n) /\ n <= Len(stroke) + 1
    BY <1>1, <1>4, <2>1, <2>2
  <2>4. <<p>> \o stroke \in Seq(Points) /\ Len(<<p>> \o stroke) = Len(stroke) + 1
        /\ \A i \in 1..n : (<<p>> \o stroke)[i] = IF i = 1 THEN p ELSE stroke[i - 1]
    BY <2>1, <2>2, <2>3
  <2>5. stroke' \in Seq(Points) /\ Len(stroke') = n
        /\ \A i \in 1..n : stroke'[i] = IF i = 1 THEN p ELSE stroke[i - 1]
    BY <2>2, <2>3, <2>4
  <2>6. \A i \in 1..sets.raw : window'[i] = IF i = 1 THEN p ELSE window[i - 1]
    BY <1>1, <1>4
  <2>7. grown' = FALSE => grown = FALSE
    BY <1>1, <1>4
  <2>8. StrokeAveraged'
    <3>5. SUFFICES ASSUME ~grown'
                 PROVE  \A i \in 1..sets'.raw : window'[i] = stroke'[IF i < Len(stroke') THEN i ELSE Len(stroke')]
      BY ZenonT(20) DEF StrokeAveraged
    <3>6. sets'.raw = sets.raw /\ Len(stroke') = n
      BY <1>1, <2>5
    <3> SUFFICES ASSUME NEW i \in 1..sets.raw
                 PROVE  window'[i] = stroke'[IF i < n THEN i ELSE n]
      BY <3>6, Zenon
    <3>1. \A j \in 1..sets.raw : window[j] = stroke[IF j < Len(stroke) THEN j ELSE Len(stroke)]
      BY <2>1, <2>7, <3>5 DEF StrokeAveraged
    <3>2. CASE i = 1
      BY <2>2, <2>5, <2>6, <3>2
    <3>3. CASE i # 1
      <4>1. i - 1 \in 1..sets.raw /\ i <= MaxSamples
        BY <3>3
      <4>2. window'[i] = stroke[IF i - 1 < Len(stroke) THEN i - 1 ELSE Len(stroke)]
        BY <2>6, <3>1, <3>3, <4>1
      <4>3. CASE i < n
        <5>1. i \in 1..n /\ i - 1 < Len(stroke)
          BY <2>1, <2>2, <4>1, <4>3
        <5>2. stroke'[i] = stroke[i - 1]
          BY <2>5, <3>3, <5>1
        <5> QED
          BY <4>2, <4>3, <5>1, <5>2
      <4>4. CASE i >= n
        <5>1. n # 1
          BY <2>1, <2>2, <3>3, <4>1
        <5>3. n \in 1..n
          BY <2>2
        <5>2. stroke'[n] = stroke[n - 1]
          BY <2>5, <5>1, <5>3, Zenon
        <5> QED
          BY <2>1, <2>2, <4>1, <4>2, <4>4, <5>2
      <4> QED
        BY <2>2, <4>3, <4>4
    <3> QED
      BY <3>2, <3>3
  <2>9. n <= MaxSamples /\ n > 0 /\ DOMAIN window' = 1..MaxSamples /\ grown' \in BOOLEAN
    BY <1>1, <2>2
  <2> QED
    BY <1>1, <1>2, <2>5, <2>8, <2>9
<1> QED
  BY <1>3, <1>4

LEMMA WindowStep == WindowInv /\ [SampleNext]_sampleVars => WindowInv'
<1> SUFFICES ASSUME WindowInv, [SampleNext]_sampleVars PROVE WindowInv'
  OBVIOUS
<1>1. ASSUME NEW p \in Points, NEW btn \in BOOLEAN, NEW other \in BOOLEAN, Sample(p, btn, other)
      PROVE  WindowInv'
  BY <1>1, WindowSample
<1>2. ASSUME SampleOut PROVE WindowInv'
  BY <1>2 DEF SampleOut, WindowInv, StrokeAveraged
<1>3. ASSUME NEW s \in Suppressions, NEW r \in RawSamples, SetSamples(s, r) PROVE WindowInv'
  <2>1. r \in 1..MaxSamples /\ sets'.raw = r
    BY <1>3, SamplesAssumption DEF SetSamples
  <2>2. UNCHANGED <<window, old, stroke>> /\ grown' = (grown \/ r > sets.raw)
    BY <1>3 DEF SetSamples
  <2>3. StrokeAveraged'
    <3>4. SUFFICES ASSUME old'.prox, ~grown'
                   PROVE  \A i \in 1..sets'.raw : window'[i] = stroke'[IF i < Len(stroke') THEN i ELSE Len(stroke')]
      BY ZenonT(20) DEF StrokeAveraged
    <3>5. old.prox
      BY <2>2, <3>4
    <3>6. ~grown /\ ~(r > sets.raw)
      BY <2>2, <3>4, Zenon
    <3>1. old.prox /\ ~grown /\ r <= sets.raw
      BY SamplesAssumption, <2>1, <3>5, <3>6 DEF WindowInv
    <3>2. \A i \in 1..sets.raw : window[i] = stroke[IF i < Len(stroke) THEN i ELSE Len(stroke)]
      BY <3>1 DEF WindowInv, StrokeAveraged
    <3> QED
      BY SamplesAssumption, <2>1, <2>2, <3>1, <3>2 DEF WindowInv
  <2> QED
    BY <2>1, <2>2, <2>3 DEF WindowInv
<1>4. CASE UNCHANGED sampleVars
  BY <1>4 DEF sampleVars, WindowInv, StrokeAveraged
<1> QED
  BY <1>1, <1>2, <1>3, <1>4 DEF SampleNext

\* The average that moves the pointer is of samples of this stroke, for any size of the
\* window: what an earlier stroke left in RawSample's window never shows, unless
\* RawSample is raised in the middle of one.
THEOREM StrokeAlways == SampleSpec => []StrokeAveraged
<1>1. WindowInv => StrokeAveraged
  BY DEF WindowInv
<1> QED
  BY <1>1, WindowInit, WindowStep, PTL DEF SampleSpec

\* wcmRotateAndScaleCoordinates: on a tablet whose axes and areas have an extent, the
\* corners of the area are always those of the screen, turned, and no position is
\* outside of it, whatever is set and wherever the tool is.  (Of an area without an
\* extent all is mapped to one place.)
THEOREM AreaAlways ==
  ASSUME Extended(Axes), \A a \in Areas : Extended(a)
  PROVE  SampleSpec => []AreaOnScreen
<1> DEFINE I == sets \in [raw : RawSamples, suppress : Suppressions, rotate : Turns,
                          area : Areas]
<1>1. SampleInit => I
  BY SamplesAssumption DEF SampleInit
<1>2. I /\ [SampleNext]_sampleVars => I'
  <2> SUFFICES ASSUME I, [SampleNext]_sampleVars PROVE I'
    OBVIOUS
  <2>1. ASSUME NEW s \in Suppressions, NEW r \in RawSamples, SetSamples(s, r) PROVE I'
    BY <2>1 DEF SetSamples
  <2>2. ASSUME NEW p \in Points, NEW btn \in BOOLEAN, NEW other \in BOOLEAN, Sample(p, btn, other)
        PROVE  I'
    BY <2>2 DEF Sample
  <2>3. CASE SampleOut
    BY <2>3 DEF SampleOut
  <2>4. CASE UNCHANGED sampleVars
    BY <2>4 DEF sampleVars
  <2> QED
    BY <2>1, <2>2, <2>3, <2>4 DEF SampleNext
<1>3. I => AreaOnScreen
  <2>1. Points \subseteq [x : Int, y : Int]
    BY SamplesAssumption
  <2>2. I => sets.rotate \in {"none", "cw", "half", "ccw"} /\ sets.area \in Areas
    BY SamplesAssumption
  <2> QED
    BY <2>1, <2>2, AreaPlaced
<1> QED
  BY <1>1, <1>2, <1>3, PTL DEF SampleSpec

-----------------------------------------------------------------------------
(***************************************************************************)
(* A click where the pen is.                                               *)
(***************************************************************************)
Spots == [x : Int, y : Int]

LEMMA TotalLoop ==
  ASSUME NEW n \in Nat, NEW f, \A i \in 1..n : f[i] \in Int
  PROVE  \E t : /\ t[0] = 0 /\ Total(f, n) = t[n]
                /\ \A i \in 0..n : t[i] \in Int
                /\ \A i \in 1..n : t[i] = t[i - 1] + f[i]
<1> DEFINE step == [i \in 1..n |-> [v \in Int |-> v + f[i]]]
<1>1. step \in [1..n -> [Int -> Int]]
  OBVIOUS
<1>2. \A i \in 1..n, v \in Int : step[i][v] = v + f[i]
  OBVIOUS
<1> HIDE DEF step
<1>0. 0 \in Int
  OBVIOUS
<1>3. PICK g : Runs(g, n, Int, 0, step)
  BY <1>0, <1>1, LoopRuns
<1>4. \A i \in 1..n : g[i] = g[i - 1] + f[i]
  <2>1. \A i \in 1..n : i - 1 \in 0..n
    OBVIOUS
  <2> QED
    BY <1>2, <1>3, <2>1 DEF Runs
<1>5. g = [i \in 0..n |-> IF i = 0 THEN 0 ELSE g[i - 1] + f[i]]
  <2>1. \A i \in 0..n : i = 0 \/ (i # 0 /\ i \in 1..n)
    OBVIOUS
  <2>2. \A i \in 0..n : g[i] = IF i = 0 THEN 0 ELSE g[i - 1] + f[i]
    BY <1>3, <1>4, <2>1 DEF Runs
  <2> QED
    BY <1>3, <2>2 DEF Runs
<1> DEFINE t == CHOOSE t : t = [i \in 0..n |-> IF i = 0 THEN 0 ELSE t[i - 1] + f[i]]
<1>6. t = [i \in 0..n |-> IF i = 0 THEN 0 ELSE t[i - 1] + f[i]]
  BY <1>5
<1>7. Total(f, n) = t[n]
  BY DEF Total
<1> HIDE DEF t
<1>8. t[0] = 0 /\ \A i \in 1..n : t[i] = t[i - 1] + f[i]
  BY <1>6
<1>9. \A i \in 0..n : t[i] = g[i]
  <2>1. \A i \in 1..n : t[i - 1] \in Int => t[i] = step[i][t[i - 1]]
    BY <1>2, <1>8
  <2> DEFINE S == Int
             z == 0
  <2>2. z \in S /\ t[0] = z /\ Runs(g, n, S, z, step)
        /\ \A i \in 1..n : t[i - 1] \in S => t[i] = step[i][t[i - 1]]
    BY <1>0, <1>3, <1>8, <2>1
  <2> HIDE DEF S, z
  <2> QED
    BY <2>2, LoopOnly
<1>10. \A i \in 0..n : t[i] \in Int
  BY <1>3, <1>9 DEF Runs
<1> QED
  BY <1>7, <1>8, <1>10

LEMMA TotalSame ==
  ASSUME NEW n \in Nat, NEW v \in Int, NEW f, \A i \in 1..n : f[i] = v
  PROVE  Total(f, n) = v * n
<1>1. PICK t : /\ t[0] = 0 /\ Total(f, n) = t[n]
               /\ \A i \in 0..n : t[i] \in Int
               /\ \A i \in 1..n : t[i] = t[i - 1] + f[i]
  BY TotalLoop
<1> DEFINE I == {i \in 0..n : t[i] = v * i}
<1>2. 0 \in I
  <2>1. v * 0 = 0
    BY SMT
  <2> QED
    BY <1>1, <2>1
<1>3. ASSUME NEW i \in I, i < n PROVE i + 1 \in I
  <2>1. i + 1 \in 1..n /\ (i + 1) - 1 = i /\ i + 1 \in 0..n /\ i \in Int
    BY <1>3
  <2>2. t[i + 1] = t[i] + v /\ t[i] = v * i
    BY <1>1, <2>1
  <2>3. v * (i + 1) = v * i + v
    BY <2>1, SMT
  <2> QED
    BY <2>1, <2>2, <2>3
<1>4. I \in SUBSET (0..n)
  OBVIOUS
<1> HIDE DEF I
<1>5. n \in I
  BY <1>2, <1>3, <1>4, UpTo
<1> QED
  BY <1>1, <1>5 DEF I

LEMMA AverageIs ==
  ASSUME NEW c, c.raw \in Nat \ {0}, NEW w, \A i \in 1..c.raw : w[i] \in Spots
  PROVE  /\ Average(c, w) \in Spots
         /\ \A p \in Spots : (\A i \in 1..c.raw : w[i] = p) => Average(c, w) = p
<1> DEFINE n == c.raw
           f == [i \in 1..n |-> w[i].x]
           g == [i \in 1..n |-> w[i].y]
<1>1. n \in Nat \ {0} /\ (\A i \in 1..n : f[i] = w[i].x /\ f[i] \in Int)
      /\ (\A i \in 1..n : g[i] = w[i].y /\ g[i] \in Int)
  BY DEF Spots
<1>2. Average(c, w) = [x |-> Total(f, n) \div n, y |-> Total(g, n) \div n]
  BY DEF Average, Point
<1> HIDE DEF f, g, n
<1>3. Total(f, n) \in Int /\ Total(g, n) \in Int
  <2>1. n \in 0..n /\ n \in Nat
    BY <1>1
  <2>2. Total(f, n) \in Int
    BY <1>1, <2>1, TotalLoop
  <2>3. Total(g, n) \in Int
    BY <1>1, <2>1, TotalLoop
  <2> QED
    BY <2>2, <2>3
<1>4. Average(c, w) \in Spots
  <2> DEFINE a == Total(f, n)
             b == Total(g, n)
  <2> HIDE DEF a, b
  <2>1. a \div n \in Int /\ b \div n \in Int
    BY <1>1, <1>3 DEF a, b
  <2> QED
    BY <1>2, <2>1 DEF a, b, Spots
<1>5. ASSUME NEW p \in Spots, \A i \in 1..n : w[i] = p
      PROVE  Average(c, w) = p
  <2>1. p.x \in Int /\ p.y \in Int /\ p = [x |-> p.x, y |-> p.y]
    BY DEF Spots
  <2>2. Total(f, n) = p.x * n
    BY <1>1, <1>5, <2>1, TotalSame
  <2>3. Total(g, n) = p.y * n
    BY <1>1, <1>5, <2>1, TotalSame
  <2>4. (p.x * n) \div n = p.x
    BY <1>1, <2>1, Divides
  <2>5. (p.y * n) \div n = p.y
    BY <1>1, <2>1, Divides
  <2> QED
    BY <1>2, <2>1, <2>2, <2>3, <2>4, <2>5
<1> QED
  BY <1>4, <1>5 DEF n

\* No step of the way from the tablet to the screen draws two places apart.
LEMMA ClampNear ==
  ASSUME NEW s \in Nat, NEW a \in Int, NEW b \in Int, NEW low \in Int, NEW high \in Int,
         low <= high, Distance(a, b) <= s
  PROVE  Distance(Clamp(a, low, high), Clamp(b, low, high)) <= s
BY DEF Distance, Clamp

Shift(v, from, low) == v - from + low

\* The two ranges are of the same, positive, size.
SameSpan(high, low, to, from) == from < to /\ high - low = to - from

LEMMA ScaleAxisSame ==
  \A v, high, low, to, from \in Int :
    SameSpan(high, low, to, from)
      => ScaleAxis(v, high, low, to, from) = Clamp(Shift(v, from, low), low, high)
<1> SUFFICES ASSUME NEW v \in Int, NEW high \in Int, NEW low \in Int, NEW to \in Int,
                    NEW from \in Int, SameSpan(high, low, to, from)
             PROVE  ScaleAxis(v, high, low, to, from) = Clamp(Shift(v, from, low), low, high)
  OBVIOUS
<1> DEFINE w == to - from
           n == v - from
<1>1. w \in Nat \ {0} /\ n \in Int /\ to # from /\ high - low = w
  BY DEF SameSpan
<1>2. (n * w) \div w = n
  BY <1>1, Divides
<1>3. w * n = n * w
  BY <1>1, SMT
<1> QED
  BY <1>1, <1>2, <1>3 DEF ScaleAxis, Shift

LEMMA ScaleAxisNear ==
  ASSUME NEW s \in Nat, NEW a \in Int, NEW b \in Int, NEW high \in Int, NEW low \in Int,
         NEW to \in Int, NEW from \in Int, from < to, high - low = to - from,
         Distance(a, b) <= s
  PROVE  /\ Distance(ScaleAxis(a, high, low, to, from), ScaleAxis(b, high, low, to, from)) <= s
         /\ ScaleAxis(a, high, low, to, from) \in Int /\ ScaleAxis(b, high, low, to, from) \in Int
<1> DEFINE u == Shift(a, from, low)
           v == Shift(b, from, low)
<1>1. u \in Int /\ v \in Int /\ Distance(u, v) <= s /\ low <= high
  BY DEF Distance, Shift
<1>2. /\ ScaleAxis(a, high, low, to, from) = Clamp(Shift(a, from, low), low, high)
      /\ ScaleAxis(b, high, low, to, from) = Clamp(Shift(b, from, low), low, high)
  <2>1. SameSpan(high, low, to, from)
    BY DEF SameSpan
  <2> QED
    BY <2>1, ScaleAxisSame
<1> HIDE DEF u, v
<1>4. Distance(Clamp(u, low, high), Clamp(v, low, high)) <= s
  BY <1>1, ClampNear
<1>5. Clamp(u, low, high) \in Int /\ Clamp(v, low, high) \in Int
  BY <1>1 DEF Clamp
<1> QED
  BY <1>2, <1>4, <1>5 DEF u, v

\* Both places are there, and not further apart than d in either direction.
Near(d, p, q) == /\ p \in Spots /\ q \in Spots
                 /\ Distance(p.x, q.x) <= d.x /\ Distance(p.y, q.y) <= d.y
Gaps == [x : Nat, y : Nat]

LEMMA FlipNear ==
  ASSUME NEW d \in Gaps, Extended(Axes), NEW p, NEW q, Near(d, p, q)
  PROVE  Near(d, FlipX(p), FlipX(q)) /\ Near(d, FlipY(p), FlipY(q))
<1>1. /\ Axes.high.x \in Int /\ Axes.low.x \in Int /\ Axes.high.y \in Int /\ Axes.low.y \in Int
  BY ExtendedSides
<1> DEFINE h == Axes.high.x
           l == Axes.low.x
           b == Axes.high.y
           t == Axes.low.y
<1>2. /\ p.x \in Int /\ p.y \in Int /\ q.x \in Int /\ q.y \in Int /\ d.x \in Nat /\ d.y \in Nat
      /\ Distance(p.x, q.x) <= d.x /\ Distance(p.y, q.y) <= d.y
  BY DEF Near, Spots, Gaps
<1>3. /\ FlipX(p) = [x |-> h - (p.x - l), y |-> p.y] /\ FlipX(q) = [x |-> h - (q.x - l), y |-> q.y]
      /\ FlipY(p) = [x |-> p.x, y |-> b - (p.y - t)] /\ FlipY(q) = [x |-> q.x, y |-> b - (q.y - t)]
  BY DEF Near, Spots, FlipX, FlipY
<1> DEFINE px == h - (p.x - l)
           qx == h - (q.x - l)
           py == b - (p.y - t)
           qy == b - (q.y - t)
<1>4. px \in Int /\ qx \in Int /\ py \in Int /\ qy \in Int
      /\ Distance(px, qx) <= d.x /\ Distance(py, qy) <= d.y
  BY <1>1, <1>2 DEF Distance
<1> HIDE DEF px, qx, py, qy
<1> QED
  BY <1>2, <1>3, <1>4 DEF Near, Spots, px, qx, py, qy

LEMMA ScaledNear ==
  ASSUME NEW s \in Nat, Extended(Axes), NEW p, NEW q, Near(Point(s, s), p, q)
  PROVE  Near(Point(s, s), Scaled(p, Axes), Scaled(q, Axes))
<1> DEFINE h == Axes.high.x
           l == Axes.low.x
           b == Axes.high.y
           t == Axes.low.y
<1>1. h \in Int /\ l \in Int /\ b \in Int /\ t \in Int /\ l < h /\ t < b
  BY ExtendedSides
<1>2. /\ p.x \in Int /\ p.y \in Int /\ q.x \in Int /\ q.y \in Int
      /\ Distance(p.x, q.x) <= s /\ Distance(p.y, q.y) <= s
  BY DEF Near, Spots, Point
<1> DEFINE px == ScaleAxis(p.x, h, l, h, l)
           qx == ScaleAxis(q.x, h, l, h, l)
           py == ScaleAxis(p.y, b, t, b, t)
           qy == ScaleAxis(q.y, b, t, b, t)
<1>3. Scaled(p, Axes) = [x |-> px, y |-> py] /\ Scaled(q, Axes) = [x |-> qx, y |-> qy]
  BY ScaledIs DEF Point
<1> HIDE DEF h, l, b, t
<1>4. px \in Int /\ qx \in Int /\ Distance(px, qx) <= s
  BY <1>1, <1>2, ScaleAxisNear
<1>5. py \in Int /\ qy \in Int /\ Distance(py, qy) <= s
  BY <1>1, <1>2, ScaleAxisNear
<1> HIDE DEF px, qx, py, qy
<1> QED
  BY <1>3, <1>4, <1>5 DEF Near, Spots, Point

\* Numbers apart by at most c times m have quotients apart by at most c.
LEMMA QuotientsNear ==
  \A m \in Nat \ {0}, c \in Nat, a, b \in Int :
    a <= b /\ b <= a + m * c => a \div m <= b \div m /\ b \div m <= (a \div m) + c
<1> SUFFICES ASSUME NEW m \in Nat \ {0}, NEW c \in Nat, NEW a \in Int, NEW b \in Int,
                    a <= b, b <= a + m * c
             PROVE  a \div m <= b \div m /\ b \div m <= (a \div m) + c
  OBVIOUS
<1> DEFINE q == a \div m
           r == a % m
           u == b \div m
           v == b % m
<1>1. /\ q \in Int /\ u \in Int /\ r \in 0..(m - 1) /\ v \in 0..(m - 1)
      /\ a = m * q + r /\ b = m * u + v
  BY SMT
<1> HIDE DEF q, r, u, v
<1>2. ~(u < q)
  <2> SUFFICES ASSUME u < q PROVE FALSE
    OBVIOUS
  <2>1. m * (q - u - 1) >= 0
    BY <1>1, SMT
  <2>2. m * (q - u - 1) = m * q - m * u - m
    BY <1>1, SMT
  <2> QED
    BY <1>1, <2>1, <2>2, SMT
<1>3. ~(q + c < u)
  <2> SUFFICES ASSUME q + c < u PROVE FALSE
    OBVIOUS
  <2>1. m * (u - q - c - 1) >= 0
    BY <1>1, SMT
  <2>2. m * (u - q - c - 1) = m * u - m * q - m * c - m
    BY <1>1, SMT
  <2> QED
    BY <1>1, <2>1, <2>2, SMT
<1> QED
  BY <1>1, <1>2, <1>3 DEF q, u

\* The quotient of a distance, rounded up, covers it.
LEMMA StretchedCovers ==
  \A s, k \in Nat, m \in Nat \ {0} :
    Stretched(s, k, m) \in Nat /\ s * k <= m * Stretched(s, k, m)
<1> SUFFICES ASSUME NEW s \in Nat, NEW k \in Nat, NEW m \in Nat \ {0}
             PROVE  Stretched(s, k, m) \in Nat /\ s * k <= m * Stretched(s, k, m)
  OBVIOUS
<1> DEFINE n == s * k
           a == n + m - 1
           q == a \div m
<1>1. n \in Nat
  BY SMT
<1> HIDE DEF n
<1>2. a \in Nat
  BY <1>1
<1>3. q \in Nat /\ a = m * q + (a % m) /\ a % m \in 0..(m - 1)
  BY <1>2, SMT
<1>4. Stretched(s, k, m) = q
  BY DEF Stretched, n
<1> HIDE DEF q
<1>5. n <= m * q
  BY <1>1, <1>3, SMT
<1> QED
  BY <1>3, <1>4, <1>5 DEF n

\* Scaling stretches a distance as the ranges say, at the most.
StretchKept(s, a, b, high, low, to, from) ==
  LET d == Stretched(s, high - low, to - from)
      x == ScaleAxis(a, high, low, to, from)
      y == ScaleAxis(b, high, low, to, from)
  IN  d \in Nat /\ x \in Int /\ y \in Int /\ Distance(x, y) <= d

LEMMA ScaleAxisStretched ==
  \A s \in Nat, a, b, high, low, to, from \in Int :
    from < to /\ low <= high /\ Distance(a, b) <= s
      => StretchKept(s, a, b, high, low, to, from)
<1>1. ASSUME NEW s \in Nat, NEW a \in Int, NEW b \in Int, NEW high \in Int, NEW low \in Int,
             NEW to \in Int, NEW from \in Int, from < to, low <= high, a <= b, b <= a + s
      PROVE  StretchKept(s, a, b, high, low, to, from)
  <2> DEFINE k == high - low
             m == to - from
             d == Stretched(s, k, m)
             u == k * (a - from)
             v == k * (b - from)
  <2>1. k \in Nat /\ m \in Nat \ {0}
    BY <1>1
  <2> HIDE DEF k, m
  <2>2. d \in Nat /\ s * k <= m * d
    BY <2>1, StretchedCovers
  <2> HIDE DEF d
  <2>3. u \in Int /\ v \in Int /\ u <= v /\ v <= u + m * d
    <3>1. u \in Int /\ v \in Int
      BY <2>1, SMT
    <3>2. v - u = k * (b - a)
      BY <2>1, SMT
    <3>3. 0 <= k * (b - a)
      BY <1>1, <2>1, SMT
    <3>4. k * (a + s - b) >= 0
      BY <1>1, <2>1, SMT
    <3>5. k * (a + s - b) = s * k - k * (b - a)
      BY <2>1, SMT
    <3>6. m * d \in Int
      BY <2>1, <2>2, SMT
    <3>7. s * k \in Int /\ k * (b - a) \in Int
      BY <2>1, SMT
    <3> HIDE DEF u, v
    <3> QED
      BY <2>2, <3>1, <3>2, <3>3, <3>4, <3>5, <3>6, <3>7, SMT
  <2> HIDE DEF u, v
  <2>4. u \div m <= v \div m /\ v \div m <= (u \div m) + d
    BY <2>1, <2>2, <2>3, QuotientsNear
  <2>5. u \div m \in Int /\ v \div m \in Int
    BY <2>1, <2>3
  <2> DEFINE x == (u \div m) + low
             y == (v \div m) + low
  <2>6. x \in Int /\ y \in Int /\ Distance(x, y) <= d
    <3> DEFINE i == u \div m
               j == v \div m
    <3>1. i \in Int /\ j \in Int /\ i <= j /\ j <= i + d
      BY <2>4, <2>5
    <3> HIDE DEF i, j
    <3>2. i + low \in Int /\ j + low \in Int /\ Distance(i + low, j + low) <= d
      BY <2>2, <3>1 DEF Distance
    <3> QED
      BY <3>2 DEF i, j
  <2>7. /\ ScaleAxis(a, high, low, to, from) = Clamp(x, low, high)
        /\ ScaleAxis(b, high, low, to, from) = Clamp(y, low, high)
    BY <1>1 DEF ScaleAxis, u, v, k, m
  <2> HIDE DEF x, y
  <2>8. Distance(Clamp(x, low, high), Clamp(y, low, high)) <= d
    BY <1>1, <2>2, <2>6, ClampNear
  <2>9. Clamp(x, low, high) \in Int /\ Clamp(y, low, high) \in Int
    BY <2>6 DEF Clamp
  <2> QED
    BY <2>2, <2>7, <2>8, <2>9 DEF StretchKept, d, k, m
<1> SUFFICES ASSUME NEW s \in Nat, NEW a \in Int, NEW b \in Int, NEW high \in Int,
                    NEW low \in Int, NEW to \in Int, NEW from \in Int,
                    from < to, low <= high, Distance(a, b) <= s
             PROVE  StretchKept(s, a, b, high, low, to, from)
  OBVIOUS
<1> DEFINE d == Stretched(s, high - low, to - from)
           x == ScaleAxis(a, high, low, to, from)
           y == ScaleAxis(b, high, low, to, from)
<1>2. \A i, j \in Int : Distance(i, j) = Distance(j, i)
  BY DEF Distance
<1>3. CASE a <= b
  <2>1. b <= a + s
    BY <1>3 DEF Distance
  <2> QED
    BY <1>1, <1>3, <2>1
<1>4. CASE b < a
  <2>1. b <= a /\ a <= b + s
    BY <1>4 DEF Distance
  <2>2. d \in Nat /\ y \in Int /\ x \in Int /\ Distance(y, x) <= d
    BY <1>1, <2>1 DEF StretchKept
  <2> HIDE DEF d, x, y
  <2>3. Distance(x, y) <= d
    BY <1>2, <2>2
  <2> QED
    BY <2>2, <2>3 DEF StretchKept, d, x, y
<1> QED
  BY <1>3, <1>4

LEMMA SwappedNear ==
  ASSUME NEW s \in Nat, Extended(Axes), NEW p, NEW q, Near(Point(s, s), p, q)
  PROVE  LET w == Axes.high.x - Axes.low.x
             h == Axes.high.y - Axes.low.y
             d == Point(Stretched(s, w, h), Stretched(s, h, w))
         IN  d \in Gaps /\ Near(d, Swapped(p), Swapped(q))
<1> DEFINE h == Axes.high.x
           l == Axes.low.x
           b == Axes.high.y
           t == Axes.low.y
           dx == Stretched(s, h - l, b - t)
           dy == Stretched(s, b - t, h - l)
<1>1. h \in Int /\ l \in Int /\ b \in Int /\ t \in Int /\ l < h /\ t < b
  BY ExtendedSides
<1>2. /\ p.x \in Int /\ p.y \in Int /\ q.x \in Int /\ q.y \in Int
      /\ Distance(p.x, q.x) <= s /\ Distance(p.y, q.y) <= s
  BY DEF Near, Spots, Point
<1> DEFINE px == ScaleAxis(p.y, h, l, b, t)
           qx == ScaleAxis(q.y, h, l, b, t)
           py == ScaleAxis(p.x, b, t, h, l)
           qy == ScaleAxis(q.x, b, t, h, l)
<1>3. Swapped(p) = [x |-> px, y |-> py] /\ Swapped(q) = [x |-> qx, y |-> qy]
  BY DEF Swapped, Point
<1> HIDE DEF h, l, b, t
<1>0. l <= h /\ t <= b
  BY <1>1
<1>4. dx \in Nat /\ px \in Int /\ qx \in Int /\ Distance(px, qx) <= dx
  BY <1>0, <1>1, <1>2, ScaleAxisStretched DEF StretchKept
<1>5. dy \in Nat /\ py \in Int /\ qy \in Int /\ Distance(py, qy) <= dy
  BY <1>0, <1>1, <1>2, ScaleAxisStretched DEF StretchKept
<1> HIDE DEF px, qx, py, qy, dx, dy
<1>6. Point(dx, dy) \in Gaps /\ Near(Point(dx, dy), Swapped(p), Swapped(q))
  BY <1>3, <1>4, <1>5 DEF Near, Spots, Gaps, Point
<1> QED
  BY <1>6 DEF dx, dy, h, l, b, t

LEMMA PlacedNear ==
  ASSUME Extended(Axes), NEW c, c.area = Axes, c.suppress \in Nat,
         c.rotate \in {"none", "cw", "half", "ccw"},
         NEW p, NEW q, Near(Point(c.suppress, c.suppress), p, q)
  PROVE  Near(Suppressed(c), Placed(c, p), Placed(c, q))
<1> DEFINE s == c.suppress
           u == Scaled(p, Axes)
           v == Scaled(q, Axes)
           d == Suppressed(c)
<1>1. Near(Point(s, s), u, v) /\ Point(s, s) \in Gaps
  BY ScaledNear DEF Point, Gaps
<1>2. Placed(c, p) = Turned(u, c.rotate) /\ Placed(c, q) = Turned(v, c.rotate)
  BY DEF Placed
<1>3. c.rotate \notin {"cw", "ccw"} => d = Point(s, s)
  BY DEF Suppressed
<1>4. c.rotate \in {"cw", "ccw"} => d \in Gaps /\ Near(d, Swapped(u), Swapped(v))
  BY <1>1, SwappedNear DEF Suppressed
<1> HIDE DEF u, v, d, s
<1>5. CASE c.rotate = "none"
  BY <1>1, <1>2, <1>3, <1>5 DEF Turned, d
<1>6. CASE c.rotate = "half"
  <2>1. Near(Point(s, s), FlipY(u), FlipY(v))
    BY <1>1, FlipNear
  <2>2. Near(Point(s, s), FlipX(FlipY(u)), FlipX(FlipY(v)))
    BY <1>1, <2>1, FlipNear
  <2> QED
    BY <1>2, <1>3, <1>6, <2>2 DEF Turned, d
<1>7. CASE c.rotate = "cw"
  <2>1. Near(d, FlipY(Swapped(u)), FlipY(Swapped(v)))
    BY <1>4, <1>7, FlipNear
  <2> QED
    BY <1>2, <1>7, <2>1 DEF Turned, d
<1>8. CASE c.rotate = "ccw"
  <2>1. Near(d, FlipX(Swapped(u)), FlipX(Swapped(v)))
    BY <1>4, <1>8, FlipNear
  <2> QED
    BY <1>2, <1>8, <2>1 DEF Turned, d
<1> QED
  BY <1>5, <1>6, <1>7, <1>8

\* What of the pen's place a report depends on.
PlaceInv ==
  /\ WindowInv
  /\ sets \in [raw : RawSamples, suppress : Suppressions, rotate : Turns, area : Areas]
  /\ window \in [1..MaxSamples -> Spots]
  /\ old.at \in Spots

\* Neither the tablet nor an area is a line or a point.
Faithful == Extended(Axes) /\ \A a \in Areas : Extended(a)

\* A tip that is pressed by this step is pressed where the pen is.
ClickedHere == old'.btn /\ ~old.btn /\ sets.area = Axes
                 => LET at == Placed(sets, stroke'[1])
                    IN  /\ Distance(old'.at.x, at.x) <= Suppressed(sets).x
                        /\ Distance(old'.at.y, at.y) <= Suppressed(sets).y

LEMMA PlaceInit == SampleInit => PlaceInv
<1> SUFFICES ASSUME SampleInit PROVE PlaceInv
  OBVIOUS
<1>1. 0 \in Int /\ Point(0, 0) \in Spots
  BY DEF Point, Spots
<1>2. old.at = Point(0, 0) /\ window \in [1..MaxSamples -> Spots]
  BY <1>1 DEF SampleInit
<1>3. sets \in [raw : RawSamples, suppress : Suppressions, rotate : Turns, area : Areas]
  BY DEF SampleInit
<1> QED
  BY <1>1, <1>2, <1>3, WindowInit DEF PlaceInv

LEMMA PlaceSample ==
  ASSUME Faithful, PlaceInv, NEW p \in Points, NEW btn \in BOOLEAN, NEW other \in BOOLEAN,
         Sample(p, btn, other)
  PROVE  PlaceInv' /\ ClickedHere
<1> DEFINE samples == Stored(sets, [samples |-> window, fresh |-> Fresh(btn)], p)
           average == Average(sets, samples)
           still == Close(sets.suppress, old.at, average)
           at == IF still THEN old.at ELSE average
           n == sets.raw
           s == sets.suppress
<1>1. /\ window' = samples /\ sets' = sets
      /\ \/ old' = old
         \/ old' = [prox |-> TRUE, btn |-> btn, at |-> Placed(sets, at)]
  BY DEF Sample
<1>2. btn /\ ~old.btn => /\ old' = [prox |-> TRUE, btn |-> btn, at |-> Placed(sets, at)]
                         /\ stroke' = <<p>>
  <2> SUFFICES ASSUME btn, ~old.btn
               PROVE  /\ old' = [prox |-> TRUE, btn |-> btn, at |-> Placed(sets, at)]
                      /\ stroke' = <<p>>
    OBVIOUS
  <2>1. btn # old.btn /\ "other" # "no"
    OBVIOUS
  <2>2. sent' = "other"
    BY <2>1 DEF Sample
  <2> QED
    BY <2>1, <2>2 DEF Sample
<1>0. sets.raw \in RawSamples /\ sets.suppress \in Suppressions /\ sets.rotate \in Turns
      /\ sets.area \in Areas
  BY DEF PlaceInv
<1>3. p \in Spots /\ old.at \in Spots /\ s \in Nat /\ n \in Nat \ {0} /\ n \in 1..MaxSamples
  <2>1. p \in [x : Nat, y : Nat] /\ s \in Nat /\ MaxSamples \in Nat /\ n \in 1..MaxSamples
    BY <1>0, SamplesAssumption
  <2>2. p \in Spots
    BY <2>1 DEF Spots
  <2> HIDE DEF n, s
  <2>3. n \in Nat \ {0}
    BY <2>1
  <2> QED
    BY <2>1, <2>2, <2>3 DEF PlaceInv
<1>4. /\ samples \in [1..MaxSamples -> Spots]
      /\ Fresh(btn) => \A i \in 1..n : samples[i] = p
  <2>1. samples = [i \in 1..MaxSamples |-> IF i > n THEN window[i]
                                           ELSE IF Fresh(btn) \/ i = 1 THEN p ELSE window[i - 1]]
    BY DEF Stored
  <2>2. window \in [1..MaxSamples -> Spots] /\ MaxSamples \in Nat
    BY SamplesAssumption DEF PlaceInv
  <2> HIDE DEF samples, n
  <2> QED
    BY <1>3, <2>1, <2>2
<1>5. average \in Spots /\ (Fresh(btn) => average = p)
  <2>1. \A i \in 1..n : samples[i] \in Spots
    BY <1>3, <1>4, SamplesAssumption
  <2> HIDE DEF samples
  <2>2. /\ Average(sets, samples) \in Spots
        /\ \A q \in Spots : (\A i \in 1..n : samples[i] = q) => Average(sets, samples) = q
    BY <1>3, <2>1, AverageIs
  <2> QED
    BY <1>3, <1>4, <2>2
<1> HIDE DEF samples, average
<1>6. at \in Spots
  BY <1>3, <1>5
<1>7. Extended(Axes) /\ Rectangle(sets.area) /\ sets.rotate \in {"none", "cw", "half", "ccw"}
  <2>1. Extended(Axes) /\ Extended(sets.area)
    BY <1>0 DEF Faithful
  <2>2. \A a : Extended(a) => Rectangle(a)
    BY DEF Extended, Rectangle
  <2> QED
    BY <1>0, <2>1, <2>2, SamplesAssumption
<1> HIDE DEF at
<1>8. Placed(sets, at) \in Spots
  BY <1>6, <1>7, PositionOnScreen DEF Spots
<1>9. PlaceInv'
  <2>1. old'.at \in Spots
    <3>1. CASE old' = old
      BY <1>3, <3>1
    <3>2. CASE old' = [prox |-> TRUE, btn |-> btn, at |-> Placed(sets, at)]
      BY <1>8, <3>2
    <3> QED
      BY <1>1, <3>1, <3>2
  <2>2. WindowInv'
    BY WindowSample DEF PlaceInv
  <2> QED
    BY <1>1, <1>4, <2>1, <2>2 DEF PlaceInv
<1>10. ClickedHere
  <2> SUFFICES ASSUME old'.btn, ~old.btn, sets.area = Axes
               PROVE  LET here == Placed(sets, stroke'[1])
                      IN  /\ Distance(old'.at.x, here.x) <= Suppressed(sets).x
                          /\ Distance(old'.at.y, here.y) <= Suppressed(sets).y
    BY DEF ClickedHere
  <2>1. btn
    <3>1. CASE old' = old
      BY <3>1
    <3>2. CASE old' = [prox |-> TRUE, btn |-> btn, at |-> Placed(sets, at)]
      BY <3>2
    <3> QED
      BY <1>1, <3>1, <3>2
  <2>2. old'.at = Placed(sets, at) /\ stroke'[1] = p
    BY <1>2, <2>1
  <2>3. average = p
    BY <1>5, <2>1 DEF Fresh
  <2>4. Near(Point(s, s), at, p)
    <3>1. CASE still
      BY <1>3, <2>3, <3>1 DEF at, Near, Close, Point
    <3>2. CASE ~still
      <4>1. at = p
        BY <2>3, <3>2 DEF at
      <4>2. p.x \in Int /\ p.y \in Int
        BY <1>3 DEF Spots
      <4>3. Distance(p.x, p.x) <= s /\ Distance(p.y, p.y) <= s
        BY <1>3, <4>2 DEF Distance
      <4> QED
        BY <1>3, <4>1, <4>3 DEF Near, Point
    <3> QED
      BY <3>1, <3>2
  <2>5. Near(Suppressed(sets), Placed(sets, at), Placed(sets, p))
    BY <1>3, <1>7, <2>4, PlacedNear
  <2> QED
    BY <2>2, <2>5 DEF Near
<1> QED
  BY <1>9, <1>10

\* commonDispatchDevice: on a tablet with an extent a tip is pressed where the pen is
\* but for what is suppressed, as a quarter turn stretches it, whatever was in the
\* filter, for any axes, window and settings and any way the pen came.
THEOREM ClicksAtPen ==
  ASSUME Extended(Axes), \A a \in Areas : Extended(a)
  PROVE  SampleSpec => ClickAtPen
<1>1. PlaceInv /\ [SampleNext]_sampleVars => PlaceInv' /\ ([ClickedHere]_sampleVars)
  <2> SUFFICES ASSUME PlaceInv, [SampleNext]_sampleVars
               PROVE  PlaceInv' /\ ([ClickedHere]_sampleVars)
    OBVIOUS
  <2>1. ASSUME NEW p \in Points, NEW btn \in BOOLEAN, NEW other \in BOOLEAN, Sample(p, btn, other)
        PROVE  PlaceInv' /\ ClickedHere
    BY <2>1, PlaceSample DEF Faithful
  <2>2. CASE SampleOut
    <3>1. 0 \in Int /\ Point(0, 0) \in Spots
      BY DEF Point, Spots
    <3>2. old' = [prox |-> FALSE, btn |-> FALSE, at |-> Point(0, 0)] /\ sets' = sets /\ window' = window
      BY <2>2 DEF SampleOut
    <3>3. old'.at = Point(0, 0) /\ old'.btn = FALSE
      BY <3>2
    <3>4. WindowInv'
      BY WindowStep DEF PlaceInv
    <3> QED
      BY <3>1, <3>2, <3>3, <3>4 DEF PlaceInv, ClickedHere
  <2>3. ASSUME NEW v \in Suppressions, NEW r \in RawSamples, SetSamples(v, r)
        PROVE  PlaceInv' /\ ClickedHere
    <3>1. sets' \in [raw : RawSamples, suppress : Suppressions, rotate : Turns, area : Areas]
      BY <2>3 DEF SetSamples, PlaceInv
    <3>2. old' = old /\ window' = window
      BY <2>3 DEF SetSamples
    <3>4. WindowInv'
      BY WindowStep DEF PlaceInv
    <3> QED
      BY <3>1, <3>2, <3>4 DEF PlaceInv, ClickedHere
  <2>4. CASE UNCHANGED sampleVars
    <3>1. WindowInv'
      BY WindowStep DEF PlaceInv
    <3> QED
      BY <2>4, <3>1 DEF PlaceInv, sampleVars
  <2> QED
    BY <2>1, <2>2, <2>3, <2>4 DEF SampleNext
<1>2. ClickAtPen <=> [][ClickedHere]_sampleVars
  BY DEF ClickAtPen, ClickedHere
<1> QED
  BY <1>1, <1>2, PlaceInit, PTL DEF SampleSpec

Conf == [recal : BOOLEAN, relative : BOOLEAN, threshold : Thresholds]

-----------------------------------------------------------------------------
(***************************************************************************)
(* Normalised pressure.                                                    *)
(***************************************************************************)

\* Rounding down: what integer division by a positive number gives.
LEMMA Division ==
  ASSUME NEW a \in Nat, NEW b \in Nat \ {0}
  PROVE  /\ a \div b \in Nat
         /\ (a \div b) * b <= a
         /\ \A q \in Nat : q * b <= a => q <= a \div b
<1>1. /\ a \div b \in Int
      /\ (a \div b) * b <= a
      /\ a < (a \div b) * b + b
  BY SMT
<1> QED
  BY <1>1, SMT

\* Pressure x above bias b on the scale of 0..MaxCurve, before the limits.
Rescaled(b, x) == ((x - b) * MaxCurve) \div (MaxZ - b)

LEMMA ScaledBounds ==
  ASSUME NEW b \in Raw, NEW x \in Raw, b <= x, b < MaxZ
  PROVE  Rescaled(b, x) \in 0..MaxCurve
<1> DEFINE a == (x - b) * MaxCurve
           n == MaxZ - b
           q == a \div n
<1>1. /\ a \in Nat
      /\ n \in Nat \ {0}
      /\ a <= n * MaxCurve
  <2>1. x - b \in Nat /\ n \in Nat \ {0} /\ x - b <= n /\ MaxCurve \in Nat
    BY PressureAssumption DEF Raw
  <2>2. \A u, v, w \in Nat : u <= v => u * w \in Nat /\ u * w <= v * w
    BY SMT
  <2> QED
    BY <2>1, <2>2
<1>2. q \in Nat /\ q * n <= a
  BY <1>1, Division
<1>3. q * n <= n * MaxCurve
  BY <1>1, <1>2, PressureAssumption
<1>4. \A u, v \in Nat, w \in Nat \ {0} : u * w <= w * v => u <= v
  BY SMT
<1>5. q <= MaxCurve
  BY <1>1, <1>2, <1>3, <1>4, PressureAssumption
<1> QED
  BY <1>2, <1>5, PressureAssumption DEF Rescaled

\* More pressure over a lower bias is no less normalised pressure.
LEMMA ScaledMonotone ==
  ASSUME NEW b \in Raw, NEW x \in Raw, NEW l \in Raw, NEW h \in Raw,
         l <= b, b <= x, x <= h, b < MaxZ
  PROVE  Rescaled(b, x) <= Rescaled(l, h)
<1> DEFINE q == Rescaled(b, x)
           n == MaxZ - b
<1>1. /\ q \in Nat
      /\ q <= MaxCurve
  BY ScaledBounds, PressureAssumption
<1>2. q * n <= (x - b) * MaxCurve
  <2>1. n \in Nat \ {0} /\ (x - b) \in Nat /\ (x - b) * MaxCurve \in Nat
    <3>1. n \in Nat \ {0} /\ x - b \in Nat /\ MaxCurve \in Nat
      BY PressureAssumption DEF Raw
    <3>2. \A u, v \in Nat : u * v \in Nat
      BY SMT
    <3> QED
      BY <3>1, <3>2
  <2> QED
    BY <2>1, Division DEF Rescaled
<1>3. q * (b - l) <= MaxCurve * (b - l)
  <2>1. \A u, v, w \in Nat : u <= v => u * w <= v * w
    BY SMT
  <2> QED
    BY <1>1, <2>1, PressureAssumption DEF Raw
<1>4. q * (MaxZ - l) <= (x - l) * MaxCurve
  <2>1. b \in Int /\ l \in Int /\ x \in Int /\ MaxZ \in Int /\ MaxCurve \in Int /\ q \in Int
    BY <1>1, PressureAssumption DEF Raw
  <2>2. /\ q * (MaxZ - l) = q * n + q * (b - l)
        /\ (x - l) * MaxCurve = (x - b) * MaxCurve + MaxCurve * (b - l)
    BY <2>1, SMT
  <2>3. \A u, v, y, z \in Int : u <= y /\ v <= z => u + v <= y + z
    BY SMT
  <2>4. /\ q * n \in Int /\ q * (b - l) \in Int
        /\ (x - b) * MaxCurve \in Int /\ MaxCurve * (b - l) \in Int
    <3>1. \A u, v \in Int : u * v \in Int
      BY SMT
    <3>2. n \in Int /\ b - l \in Int /\ x - b \in Int
      BY <2>1
    <3> QED
      BY <2>1, <3>1, <3>2
  <2>5. q * n + q * (b - l) <= (x - b) * MaxCurve + MaxCurve * (b - l)
    BY <1>2, <1>3, <2>3, <2>4
  <2> QED
    BY <2>2, <2>5
<1>5. (x - l) * MaxCurve <= (h - l) * MaxCurve
  <2>1. \A u, v, w \in Nat : u <= v => u * w <= v * w
    BY SMT
  <2> QED
    BY <2>1, PressureAssumption DEF Raw
<1>6. /\ MaxZ - l \in Nat \ {0}
      /\ (h - l) * MaxCurve \in Nat
  <2>1. h - l \in Nat /\ MaxCurve \in Nat /\ MaxZ - l \in Nat \ {0}
    BY PressureAssumption DEF Raw
  <2>2. \A u, v \in Nat : u * v \in Nat
    BY SMT
  <2> QED
    BY <2>1, <2>2
<1>7. q * (MaxZ - l) <= (h - l) * MaxCurve
  BY <1>1, <1>4, <1>5, <1>6, PressureAssumption DEF Raw
<1> QED
  BY <1>1, <1>6, <1>7, Division DEF Rescaled

\* Without pressure above the bias there is none.
LEMMA ScaledRest ==
  ASSUME NEW b \in Raw, b < MaxZ
  PROVE  Rescaled(b, b) = 0
<1>1. (b - b) * MaxCurve = 0 /\ MaxZ - b \in Nat \ {0}
  BY PressureAssumption DEF Raw
<1>2. \A n \in Nat \ {0} : 0 \div n = 0
  BY SMT
<1> QED
  BY <1>1, <1>2 DEF Rescaled

\* Full pressure is the top of the scale.
LEMMA ScaledFull ==
  ASSUME NEW b \in Raw, b < MaxZ
  PROVE  Rescaled(b, MaxZ) = MaxCurve
<1>1. MaxZ - b \in Nat \ {0} /\ MaxCurve \in Nat /\ MaxZ \in Raw
  BY PressureAssumption DEF Raw
<1>2. \A u \in Nat, v \in Nat : v * u \in Nat /\ u * v <= v * u
  BY SMT
<1>3. MaxCurve <= Rescaled(b, MaxZ)
  BY <1>1, <1>2, Division DEF Rescaled
<1>4. Rescaled(b, MaxZ) \in 0..MaxCurve
  BY <1>1, ScaledBounds, PressureAssumption
<1> QED
  BY <1>1, <1>3, <1>4

Bias(c, min) == IF c.recal THEN min ELSE 0

\* The limits do nothing but for a bias that leaves no range.
LEMMA Normalized ==
  ASSUME NEW c \in Conf, NEW m \in Raw, NEW x \in Raw, m <= x
  PROVE  NormalizePressure(c, m, x) =
           IF Bias(c, m) < MaxZ THEN Rescaled(Bias(c, m), x) ELSE MaxCurve
<1> DEFINE b == Bias(c, m)
<1>1. b \in Raw /\ b <= x /\ b \in Int /\ MaxZ \in Nat /\ MaxCurve \in Nat
  BY PressureAssumption DEF Conf, Raw, Bias
<1>2. CASE b < MaxZ
  <2>1. Rescaled(b, x) \in 0..MaxCurve
    BY <1>1, <1>2, ScaledBounds
  <2>2. ~(MaxZ - b < 1)
    BY <1>1, <1>2
  <2>3. /\ Rescaled(b, x) \in Int
        /\ ~(Rescaled(b, x) > MaxCurve) /\ ~(Rescaled(b, x) < 0)
    BY <1>1, <2>1
  <2>4. NormalizePressure(c, m, x) =
          IF MaxZ - b < 1 \/ Rescaled(b, x) > MaxCurve THEN MaxCurve
          ELSE IF Rescaled(b, x) < 0 THEN 0 ELSE Rescaled(b, x)
    BY Zenon DEF NormalizePressure, Rescaled, Bias
  <2>5. NormalizePressure(c, m, x) = Rescaled(b, x)
    BY <2>2, <2>3, <2>4
  <2> QED
    BY <1>2, <2>5
<1>3. CASE ~(b < MaxZ)
  <2>1. MaxZ - b < 1
    BY <1>1, <1>3
  <2>2. NormalizePressure(c, m, x) = MaxCurve
    BY <2>1 DEF NormalizePressure, Bias
  <2> QED
    BY <1>3, <2>2
<1> QED
  BY <1>2, <1>3

LEMMA NormalizeRange ==
  ASSUME NEW c \in Conf, NEW m \in Raw, NEW x \in Raw, m <= x
  PROVE  NormalizePressure(c, m, x) \in 0..MaxCurve
<1>1. Bias(c, m) \in Raw /\ Bias(c, m) <= x
  BY PressureAssumption DEF Bias, Raw
<1> QED
  BY <1>1, Normalized, ScaledBounds, PressureAssumption

\* A pressure counts for no less when it turns out that the pen's bias is lower.
LEMMA NormalizeMonotone ==
  ASSUME NEW c \in Conf, NEW m \in Raw, NEW x \in Raw, NEW l \in Raw, NEW h \in Raw,
         l <= m, m <= x, x <= h
  PROVE  NormalizePressure(c, m, x) <= NormalizePressure(c, l, h)
<1>1. /\ Bias(c, m) \in Raw /\ Bias(c, m) <= x
      /\ Bias(c, l) \in Raw /\ Bias(c, l) <= Bias(c, m)
      /\ l <= h
  BY PressureAssumption DEF Bias, Raw
<1>2. NormalizePressure(c, m, x) \in 0..MaxCurve
  BY NormalizeRange
<1>3. CASE Bias(c, m) < MaxZ
  <2>1. Bias(c, l) < MaxZ
    BY <1>1, <1>3, PressureAssumption DEF Raw
  <2> QED
    BY <1>1, <1>3, <2>1, Normalized, ScaledMonotone
<1>4. CASE ~(Bias(c, m) < MaxZ)
  <2>1. h = MaxZ
    BY <1>1, <1>4, PressureAssumption DEF Raw
  <2>2. NormalizePressure(c, l, h) = MaxCurve
    BY <1>1, <2>1, Normalized, ScaledFull
  <2> QED
    BY <1>2, <2>2, PressureAssumption
<1> QED
  BY <1>3, <1>4

LEMMA NormalizeRest ==
  ASSUME NEW c \in Conf, NEW m \in Raw, c.recal, m < MaxZ
  PROVE  NormalizePressure(c, m, m) = 0
<1>1. m <= m /\ Bias(c, m) = m
  BY PressureAssumption DEF Raw, Bias
<1> QED
  BY <1>1, Normalized, ScaledRest

-----------------------------------------------------------------------------
(***************************************************************************)
(* The inductive invariant.  maxRawPressure is the highest pressure of the *)
(* stroke as long as button 1 has not been pressed, and not yet a press    *)
(* over what is known of the bias; while it keeps button 1 pressed,        *)
(* minPressure has just fallen, and otherwise it is forgotten.             *)
(***************************************************************************)
InvOut == pen.btn => pen.prox

InvStroke ==
  pen.prox =>
    /\ pen.min = seen.low
    /\ seen.low <= seen.raw
    /\ seen.raw <= seen.peak
    /\ pen.max # 0 => pen.min <= pen.max
    /\ pen.max <= seen.peak
    /\ pen.btn => seen.clicked

InvUnclicked ==
  pen.prox /\ ~seen.clicked => pen.max = seen.peak \/ (pen.max = 0 /\ pen.min = 0)

InvWaiting ==
  pen.prox /\ ~pen.btn /\ pen.max # 0 /\ (seen.steady >= 1 \/ ~seen.changed)
    => Level(pen.max) < conf.threshold

InvLate ==
  pen.prox /\ pen.btn /\ pen.max # 0 =>
    seen.steady = 0 /\ (~seen.changed => Level(pen.max) >= conf.threshold)

InvOnce == pen.prox /\ seen.clicked /\ ~seen.changed /\ ~pen.btn => pen.max = 0

PressureInv ==
  /\ TypeOK /\ InvOut /\ InvStroke
  /\ InvUnclicked /\ InvWaiting /\ InvLate /\ InvOnce
  /\ PressNotLost /\ WornReleases /\ NoPhantomClick

\* Nothing is claimed of a pen out of proximity.
LEMMA OutOfProximity ==
  ASSUME TypeOK, ~pen.prox, ~pen.btn
  PROVE  PressureInv
BY DEF PressureInv, InvOut, InvStroke, InvUnclicked, InvWaiting, InvLate, InvOnce,
       PressNotLost, WornReleases, NoPhantomClick

LEMMA InitInv == Init => PressureInv
<1> SUFFICES ASSUME Init PROVE PressureInv
  OBVIOUS
<1>1. TypeOK
  BY PressureAssumption DEF Init, TypeOK, Nothing, Raw
<1> QED
  BY <1>1, OutOfProximity DEF Init

\* What every report computes.
LEMMA EventValues ==
  ASSUME PressureInv, NEW raw \in Raw
  PROVE  /\ RebasePressure(pen, raw) \in Raw
         /\ RebasePressure(pen, raw) <= raw
         /\ Highest(pen, raw) \in Raw
         /\ Highest(pen, raw) # 0 => raw <= Highest(pen, raw)
         /\ \A x \in Raw : RebasePressure(pen, raw) <= x =>
              NormalizePressure(conf, RebasePressure(pen, raw), x) \in 0..MaxCurve
<1>1. TypeOK
  BY DEF PressureInv
<1>2. /\ RebasePressure(pen, raw) \in Raw
      /\ RebasePressure(pen, raw) <= raw
      /\ Highest(pen, raw) \in Raw
      /\ Highest(pen, raw) # 0 => raw <= Highest(pen, raw)
  BY <1>1, PressureAssumption DEF TypeOK, RebasePressure, Highest, Raw
<1> QED
  BY <1>1, <1>2, NormalizeRange DEF TypeOK, Conf

LEMMA EventType ==
  ASSUME PressureInv, NEW prox \in BOOLEAN, NEW raw \in Raw, NEW far \in BOOLEAN,
         Event(prox, raw, far)
  PROVE  TypeOK'
<1>1. TypeOK
  BY DEF PressureInv
<1>2. /\ RebasePressure(pen, raw) \in Raw
      /\ Highest(pen, raw) \in Raw
      /\ 0 \in Raw
  BY EventValues, PressureAssumption DEF Raw
<1>3. conf' \in [recal : BOOLEAN, relative : BOOLEAN, threshold : Thresholds]
  BY <1>1 DEF TypeOK, Event
<1>4. pen' \in [prox : BOOLEAN, btn : BOOLEAN, min : Raw, max : Raw]
  BY <1>1, <1>2 DEF Event, KeepHighest, SetPressureButton
<1>5. seen' \in [raw : Raw, low : Raw, peak : Raw, clicked : BOOLEAN,
                 steady : 0..2, changed : BOOLEAN]
  <2>1. \A btn \in BOOLEAN :
          Recorded(raw, btn) \in [raw : Raw, low : Raw, peak : Raw, clicked : BOOLEAN,
                                  steady : 0..2, changed : BOOLEAN]
    <3>1. \A k \in 0..2 : /\ (IF k < 2 THEN k + 1 ELSE 2) \in 0..2
                          /\ 0 \in 0..2
      OBVIOUS
    <3> QED
      BY <1>1, <3>1 DEF TypeOK, Recorded
  <2>2. Nothing \in [raw : Raw, low : Raw, peak : Raw, clicked : BOOLEAN,
                     steady : 0..2, changed : BOOLEAN]
    BY <1>2 DEF Nothing
  <2> QED
    BY <2>1, <2>2 DEF Event, SetPressureButton
<1> QED
  BY <1>3, <1>4, <1>5 DEF TypeOK

\* A report that brings the pen into proximity.
LEMMA EnterInv ==
  ASSUME PressureInv, NEW prox \in BOOLEAN, NEW raw \in Raw, NEW far \in BOOLEAN,
         Event(prox, raw, far), ~pen.prox, pen'.prox
  PROVE  PressureInv'
<1> DEFINE N == NormalizePressure(conf, raw, raw)
           normal == N >= conf.threshold
<1>1. /\ TypeOK /\ TypeOK' /\ ~pen.btn
      /\ conf' = conf
      /\ raw \in Int /\ 0 <= raw /\ conf.threshold \in Int /\ conf.threshold > 0
      /\ N \in Int
  <2>1. TypeOK /\ TypeOK' /\ InvOut
    BY EventType DEF PressureInv
  <2>2. raw <= raw
    BY DEF Raw
  <2>3. N \in 0..MaxCurve
    BY <2>1, <2>2, NormalizeRange DEF TypeOK, Conf
  <2>4. conf.threshold \in Int /\ conf.threshold > 0
    <3>1. conf.threshold \in 1..MaxCurve
      BY <2>1, PressureAssumption DEF TypeOK
    <3> QED
      BY <3>1, PressureAssumption
  <2>5. ~pen.btn /\ conf' = conf
    BY <2>1 DEF InvOut, Event
  <2> QED
    BY <2>1, <2>3, <2>4, <2>5, PressureAssumption DEF Raw
<1>2. RebasePressure(pen, raw) = raw /\ Highest(pen, raw) = raw
  BY DEF RebasePressure, Highest
<1>3. SetPressureButton(conf, pen.btn, N) <=> normal
  BY <1>1 DEF SetPressureButton
<1>4. /\ pen'.btn <=> normal
      /\ pen'.min = raw
      /\ pen'.max = IF normal \/ raw = 0 THEN 0 ELSE raw
  BY <1>2, <1>3 DEF Event, KeepHighest
<1>5. /\ seen'.raw = raw /\ seen'.low = raw /\ seen'.peak = raw
      /\ seen'.clicked <=> normal
      /\ seen'.steady = 0 /\ ~seen'.changed
  BY <1>2, <1>3 DEF Event, Recorded
<1>6. Level(raw)' = N
  BY <1>1, <1>4, <1>5 DEF Level
<1>7. conf.recal /\ raw < MaxZ => N = 0
  BY <1>1, NormalizeRest DEF TypeOK, Conf
<1>8. InvOut' /\ InvStroke' /\ InvUnclicked' /\ InvOnce'
  BY <1>1, <1>4, <1>5 DEF InvOut, InvStroke, InvUnclicked, InvOnce
<1>9. InvWaiting' /\ InvLate'
  BY <1>1, <1>4, <1>5 DEF InvWaiting, InvLate, Level
<1>10. PressNotLost' /\ WornReleases' /\ NoPhantomClick'
  BY <1>1, <1>4, <1>5, <1>7 DEF PressNotLost, WornReleases, NoPhantomClick, Level
<1> QED
  BY <1>1, <1>8, <1>9, <1>10 DEF PressureInv

\* A report of a pen that is in proximity.
LEMMA ContinueInv ==
  ASSUME PressureInv, NEW prox \in BOOLEAN, NEW raw \in Raw, NEW far \in BOOLEAN,
         Event(prox, raw, far), pen.prox, pen'.prox
  PROVE  /\ PressureInv'
         /\ seen.clicked /\ ~seen.changed /\ ~pen.btn /\ pen'.btn
              => Level(seen.raw)' >= conf.threshold
<1> DEFINE min    == RebasePressure(pen, raw)
           high   == Highest(pen, raw)
           N(x)   == NormalizePressure(conf, min, x)
           Set(x) == SetPressureButton(conf, pen.btn, N(x))
           late   == high # 0 /\ Set(high)
<1>1. /\ TypeOK /\ TypeOK' /\ InvOut /\ InvStroke /\ InvUnclicked /\ InvWaiting
      /\ InvLate /\ InvOnce /\ PressNotLost /\ WornReleases /\ NoPhantomClick
  BY EventType DEF PressureInv
<1>2. /\ pen.min \in Int /\ pen.max \in Int /\ raw \in Int /\ 0 <= raw
      /\ seen.raw \in Int /\ seen.low \in Int /\ seen.peak \in Int /\ seen.steady \in 0..2
      /\ 0 <= pen.min /\ 0 <= pen.max
      /\ conf.threshold \in Int /\ conf.threshold > 0 /\ Tolerance \in Int
  <2>1. conf.threshold \in 1..MaxCurve
    BY <1>1, PressureAssumption DEF TypeOK
  <2> QED
    BY <1>1, <2>1, PressureAssumption DEF TypeOK, Raw
<1>3. /\ min = IF raw < seen.low THEN raw ELSE seen.low
      /\ min \in Int /\ 0 <= min /\ min <= raw /\ min <= pen.min
      /\ pen.min = seen.low
  BY <1>1, <1>2 DEF RebasePressure, InvStroke
<1>4. /\ high = IF pen.max # 0 /\ pen.max < raw THEN raw ELSE pen.max
      /\ high \in Int /\ 0 <= high
      /\ high # 0 => raw <= high
  BY <1>2 DEF Highest
<1>5. /\ N(raw) \in Int
      /\ high # 0 => N(high) \in Int
      /\ \A x \in Raw : min <= x => N(x) \in Int
  <2>1. \A x \in Raw : min <= x => N(x) \in 0..MaxCurve
    BY EventValues
  <2>2. high \in Raw /\ (high # 0 => min <= high)
    BY <1>2, <1>3, <1>4, EventValues
  <2> QED
    BY <1>3, <2>1, <2>2, PressureAssumption
<1>6. \A x : Set(x) <=> \/ N(x) >= conf.threshold
                        \/ /\ pen.btn
                           /\ conf.threshold > Tolerance
                           /\ N(x) >= conf.threshold - Tolerance
  BY DEF SetPressureButton
<1>7. /\ pen'.btn <=> Set(raw) \/ late
      /\ pen'.min = min
      /\ pen'.max = IF Set(raw) \/ (late /\ min = pen.min) \/ min = 0 THEN 0 ELSE high
      /\ conf' = conf
  BY DEF Event, KeepHighest
<1>8. /\ seen'.raw = raw
      /\ seen'.low = min
      /\ seen'.peak = IF seen.peak < raw THEN raw ELSE seen.peak
      /\ seen'.clicked <=> seen.clicked \/ pen'.btn
      /\ seen'.steady = IF raw < seen.low THEN 0
                        ELSE IF seen.steady < 2 THEN seen.steady + 1 ELSE 2
      /\ seen'.changed <=> seen.changed
  BY <1>3, <1>7 DEF Event, Recorded
<1>9. /\ Level(seen.raw)' = N(raw)
      /\ Level(seen.peak)' = NormalizePressure(conf, min, seen'.peak)
      /\ Level(pen.max)' = NormalizePressure(conf, min, pen'.max)
  BY <1>7, <1>8 DEF Level
\* What was a press stays one; nothing else has changed if min has not.
<1>10. pen.max # 0 => Level(pen.max) <= N(high)
  <2>1. pen.max # 0 => /\ pen.min <= pen.max /\ pen.max <= high
                       /\ min <= pen.min
    BY <1>1, <1>2, <1>3, <1>4 DEF InvStroke
  <2>2. min \in Raw /\ high \in Raw /\ pen.min \in Raw /\ pen.max \in Raw /\ conf \in Conf
    BY <1>1, EventValues DEF TypeOK, Conf
  <2> QED
    BY <1>3, <2>1, <2>2, NormalizeMonotone DEF Level
<1>11. min = pen.min => \A x : N(x) = Level(x)
  BY <1>3 DEF Level
<1>12. late <=> high # 0 /\ Set(high)
  OBVIOUS
<1>13. conf.recal /\ min < MaxZ => N(min) = 0
  BY <1>1, EventValues, NormalizeRest DEF TypeOK, Conf
<1>14. pen.max # 0 => Level(pen.max) \in Int
  <2> SUFFICES ASSUME pen.max # 0 PROVE Level(pen.max) \in Int
    OBVIOUS
  <2>1. /\ seen.low <= pen.max
        /\ seen.low \in Raw /\ pen.max \in Raw /\ conf \in Conf
    BY <1>1 DEF InvStroke, TypeOK, Conf
  <2>2. Level(pen.max) \in 0..MaxCurve
    BY <2>1, NormalizeRange DEF Level
  <2> QED
    BY <2>2
<1> HIDE DEF min, high, late, N, Set
<1>15. InvOut' /\ InvStroke'
  BY <1>1, <1>2, <1>3, <1>4, <1>7, <1>8 DEF InvOut, InvStroke
<1>16. InvUnclicked'
  <2> SUFFICES ASSUME ~seen'.clicked
               PROVE  pen'.max = seen'.peak \/ (pen'.max = 0 /\ pen'.min = 0)
    BY DEF InvUnclicked
  <2>1. /\ ~seen.clicked /\ ~Set(raw) /\ ~late
        /\ pen.max = seen.peak \/ (pen.max = 0 /\ pen.min = 0)
    BY <1>1, <1>7, <1>8 DEF InvUnclicked
  <2>2. pen'.max = IF min = 0 THEN 0 ELSE high
    BY <1>7, <2>1
  <2> QED
    BY <1>1, <1>2, <1>3, <1>4, <1>7, <1>8, <2>1, <2>2 DEF InvStroke
<1>17. InvWaiting'
  <2> SUFFICES ASSUME ~pen'.btn, pen'.max # 0
               PROVE  Level(pen.max)' < conf'.threshold
    BY DEF InvWaiting
  <2>1. pen'.max = high /\ ~Set(high)
    BY <1>7, <1>12
  <2>2. N(high) < conf.threshold
    BY <1>2, <1>5, <1>6, <2>1
  <2> QED
    BY <1>7, <1>9, <2>1, <2>2 DEF N
<1>18. InvLate'
  <2> SUFFICES ASSUME pen'.btn, pen'.max # 0
               PROVE  /\ seen'.steady = 0
                      /\ ~seen'.changed => Level(pen.max)' >= conf'.threshold
    BY DEF InvLate
  <2>1. pen'.max = high /\ late /\ min # pen.min
    BY <1>7
  <2>2. seen'.steady = 0
    BY <1>3, <1>8, <2>1
  <2>3. ~seen.changed => N(high) >= conf.threshold
    <3>1. CASE ~pen.btn
      BY <1>6, <1>12, <2>1, <3>1
    <3>2. CASE pen.btn
      <4>1. pen.max # 0
        BY <1>4, <1>12, <2>1
      <4>2. ~seen.changed => Level(pen.max) >= conf.threshold
        BY <1>1, <3>2, <4>1 DEF InvLate
      <4> QED
        BY <1>2, <1>5, <1>10, <1>12, <1>14, <2>1, <4>1, <4>2
    <3> QED
      BY <3>1, <3>2
  <2> QED
    BY <1>7, <1>8, <1>9, <2>1, <2>2, <2>3 DEF N
<1>19. InvOnce'
  <2> SUFFICES ASSUME seen'.clicked, ~seen'.changed, ~pen'.btn, pen.max # 0
               PROVE  FALSE
    BY <1>4, <1>7 DEF InvOnce
  <2>1. seen.clicked /\ ~seen.changed /\ ~Set(raw) /\ ~late
    BY <1>7, <1>8
  <2>2. pen.btn
    BY <1>1, <2>1 DEF InvOnce
  <2>3. Level(pen.max) >= conf.threshold
    BY <1>1, <2>1, <2>2 DEF InvLate
  <2>4. high # 0
    BY <1>2, <1>4
  <2>5. N(high) >= conf.threshold
    BY <1>2, <1>5, <1>10, <1>14, <2>3, <2>4
  <2> QED
    BY <1>6, <1>12, <2>1, <2>4, <2>5
<1>20. PressNotLost'
  <2> SUFFICES ASSUME ~seen'.changed, ~seen'.clicked
               PROVE  ~(Level(seen.peak)' >= conf'.threshold)
    BY DEF PressNotLost
  <2>1. /\ ~seen.changed /\ ~seen.clicked /\ ~Set(raw) /\ ~late
        /\ pen.max = seen.peak \/ (pen.max = 0 /\ pen.min = 0)
        /\ ~(Level(seen.peak) >= conf.threshold)
    BY <1>1, <1>7, <1>8 DEF InvUnclicked, PressNotLost
  <2>2. ~(N(raw) >= conf.threshold)
    BY <1>6, <2>1
  <2>3. high # 0 => ~(N(high) >= conf.threshold)
    BY <1>6, <1>12, <2>1
  <2>4. ~(N(seen'.peak) >= conf.threshold)
    <3>1. CASE seen.peak < raw
      BY <1>8, <2>2, <3>1
    <3>2. CASE ~(seen.peak < raw) /\ pen.max = seen.peak /\ pen.max # 0
      BY <1>2, <1>4, <1>8, <2>3, <3>2
    <3>3. CASE ~(seen.peak < raw) /\ pen.min = 0
      BY <1>2, <1>3, <1>8, <1>11, <2>1, <3>3
    <3>4. CASE ~(seen.peak < raw) /\ pen.max = seen.peak /\ pen.max = 0
      BY <1>2, <1>8, <2>2, <3>4
    <3> QED
      BY <2>1, <3>1, <3>2, <3>3, <3>4
  <2> QED
    BY <1>7, <1>9, <2>4 DEF N
<1>21. WornReleases'
  <2> SUFFICES ASSUME seen'.steady = 2, NotPressed(conf, N(raw)), pen'.btn
               PROVE  FALSE
    BY <1>7, <1>9 DEF WornReleases
  <2>1. seen.steady >= 1 /\ min = pen.min
    BY <1>2, <1>3, <1>8
  <2>2. ~Set(raw) /\ ~(N(raw) >= conf.threshold)
    BY <1>2, <1>5, <1>6 DEF NotPressed
  <2>3. late /\ high # 0 /\ pen.max # 0
    BY <1>4, <1>7, <1>12, <2>2
  <2>4. ~pen.btn
    BY <1>1, <1>2, <2>1, <2>3 DEF InvLate
  <2>5. N(pen.max) < conf.threshold
    BY <1>1, <1>11, <2>1, <2>3, <2>4 DEF InvWaiting
  <2>6. N(high) < conf.threshold
    BY <1>2, <1>4, <1>5, <2>2, <2>3, <2>5
  <2> QED
    BY <1>2, <1>5, <1>6, <1>12, <2>3, <2>4, <2>6
<1>22. NoPhantomClick'
  <2> SUFFICES ASSUME conf.recal, ~seen'.changed, seen'.peak = seen'.low,
                      seen'.low < MaxZ, pen'.btn
               PROVE  FALSE
    BY <1>7 DEF NoPhantomClick
  <2>1. raw = min /\ seen.peak = raw /\ seen.low = raw
    BY <1>1, <1>2, <1>3, <1>8 DEF InvStroke
  <2>2. ~pen.btn
    BY <1>1, <1>8, <2>1 DEF NoPhantomClick
  <2>3. N(raw) = 0
    BY <1>8, <1>13, <2>1
  <2>4. ~Set(raw)
    BY <1>2, <1>6, <2>2, <2>3
  <2>5. high # 0 => high = raw
    BY <1>1, <1>2, <1>4, <2>1 DEF InvStroke
  <2> QED
    BY <1>7, <1>12, <2>4, <2>5
<1>23. seen.clicked /\ ~seen.changed /\ ~pen.btn /\ pen'.btn
         => Level(seen.raw)' >= conf.threshold
  BY <1>1, <1>4, <1>6, <1>7, <1>9, <1>12 DEF InvOnce
<1> QED
  BY <1>1, <1>15, <1>16, <1>17, <1>18, <1>19, <1>20, <1>21, <1>22, <1>23 DEF PressureInv

-----------------------------------------------------------------------------
(***************************************************************************)
(* Every step.                                                             *)
(***************************************************************************)
LEMMA EventInv ==
  ASSUME PressureInv, NEW prox \in BOOLEAN, NEW raw \in Raw, NEW far \in BOOLEAN,
         Event(prox, raw, far)
  PROVE  PressureInv'
<1>1. CASE ~pen'.prox
  <2>1. TypeOK' /\ ~pen'.btn
    BY <1>1, EventType DEF Event
  <2>2. (TypeOK /\ ~pen.prox /\ ~pen.btn => PressureInv)'
    BY OutOfProximity, PTL
  <2> QED
    BY <1>1, <2>1, <2>2
<1>2. CASE pen'.prox /\ pen.prox
  BY <1>2, ContinueInv
<1>3. CASE pen'.prox /\ ~pen.prox
  BY <1>3, EnterInv
<1> QED
  BY <1>1, <1>2, <1>3

LEMMA SoftOutInv ==
  ASSUME PressureInv, SoftOut
  PROVE  PressureInv'
<1>1. TypeOK' /\ ~pen'.prox /\ ~pen'.btn
  <2>1. TypeOK
    BY DEF PressureInv
  <2>2. Nothing \in [raw : Raw, low : Raw, peak : Raw, clicked : BOOLEAN,
                     steady : 0..2, changed : BOOLEAN]
    BY PressureAssumption DEF Nothing, Raw
  <2> QED
    BY <2>1, <2>2 DEF TypeOK, SoftOut
<1>2. (TypeOK /\ ~pen.prox /\ ~pen.btn => PressureInv)'
  BY OutOfProximity, PTL
<1> QED
  BY <1>1, <1>2

\* Settings change what counts as a press, but not what has been recorded.
LEMMA ConfigureInv ==
  ASSUME PressureInv, NEW recal \in BOOLEAN, NEW threshold \in Thresholds,
         Configure([conf EXCEPT !.recal = recal, !.threshold = threshold])
  PROVE  PressureInv'
<1>1. TypeOK /\ InvOut
  BY DEF PressureInv
<1>2. /\ pen' = pen
      /\ seen' = [seen EXCEPT !.changed = pen.prox, !.steady = 0]
  BY DEF Configure
<1>3. TypeOK'
  <2>1. conf' \in [recal : BOOLEAN, relative : BOOLEAN, threshold : Thresholds]
    BY <1>1 DEF TypeOK, Configure
  <2>2. seen' \in [raw : Raw, low : Raw, peak : Raw, clicked : BOOLEAN,
                   steady : 0..2, changed : BOOLEAN]
    <3>1. pen.prox \in BOOLEAN /\ 0 \in 0..2
      BY <1>1 DEF TypeOK
    <3> QED
      BY <1>1, <1>2, <3>1 DEF TypeOK
  <2> QED
    BY <1>1, <1>2, <2>1, <2>2 DEF TypeOK
<1>4. CASE ~pen.prox
  <2>1. (TypeOK /\ ~pen.prox /\ ~pen.btn => PressureInv)'
    BY OutOfProximity, PTL
  <2> QED
    BY <1>1, <1>2, <1>3, <1>4, <2>1 DEF InvOut
<1>5. CASE pen.prox
  <2>1. /\ seen'.raw = seen.raw /\ seen'.low = seen.low /\ seen'.peak = seen.peak
        /\ seen'.clicked = seen.clicked
        /\ seen'.steady = 0 /\ seen'.changed
    BY <1>1, <1>2, <1>5 DEF TypeOK
  <2>2. InvOut' /\ InvStroke' /\ InvUnclicked' /\ InvOnce'
    BY <1>2, <2>1 DEF PressureInv, InvOut, InvStroke, InvUnclicked, InvOnce
  <2>3. InvWaiting' /\ InvLate' /\ PressNotLost' /\ WornReleases' /\ NoPhantomClick'
    BY <1>2, <2>1 DEF PressureInv, InvWaiting, InvLate, PressNotLost, WornReleases,
                      NoPhantomClick
  <2> QED
    BY <1>3, <2>2, <2>3 DEF PressureInv
<1> QED
  BY <1>4, <1>5

LEMMA StepInv == PressureInv /\ [Next]_vars => PressureInv'
<1> SUFFICES ASSUME PressureInv, [Next]_vars PROVE PressureInv'
  OBVIOUS
<1>1. CASE Next
  BY <1>1, EventInv, SoftOutInv, ConfigureInv DEF Next
<1>2. CASE UNCHANGED vars
  BY <1>2 DEF vars, PressureInv, TypeOK, InvOut, InvStroke, InvUnclicked, InvWaiting,
              InvLate, InvOnce, PressNotLost, WornReleases, NoPhantomClick, Level
<1> QED
  BY <1>1, <1>2

LEMMA Invariance == Spec => []PressureInv
  BY InitInv, StepInv, PTL DEF Spec

(***************************************************************************)
(* minPressure and maxRawPressure are always pressures the pen can report. *)
(***************************************************************************)
THEOREM TypeCorrect == Spec => []TypeOK
<1>1. PressureInv => TypeOK
  BY DEF PressureInv
<1> QED
  BY <1>1, Invariance, PTL

(***************************************************************************)
(* No press is lost, however worn the pen and however fast it comes down.  *)
(***************************************************************************)
THEOREM PressesCounted == Spec => []PressNotLost
<1>1. PressureInv => PressNotLost
  BY DEF PressureInv
<1> QED
  BY <1>1, Invariance, PTL

(***************************************************************************)
(* Two events after its lowest pressure, a worn pen can release button 1.  *)
(***************************************************************************)
THEOREM TipReleased == Spec => []WornReleases
<1>1. PressureInv => WornReleases
  BY DEF PressureInv
<1> QED
  BY <1>1, Invariance, PTL

(***************************************************************************)
(* A pen that rests at its bias never clicks.                              *)
(***************************************************************************)
THEOREM RestingPenSilent == Spec => []NoPhantomClick
<1>1. PressureInv => NoPhantomClick
  BY DEF PressureInv
<1> QED
  BY <1>1, Invariance, PTL

(***************************************************************************)
(* After the first click of a stroke, only real pressure clicks.           *)
(***************************************************************************)
THEOREM OneLateClick == Spec => ClickedByPressure
<1> DEFINE Clicked == /\ pen.prox /\ pen'.prox /\ seen.clicked /\ ~seen.changed
                      /\ ~pen.btn /\ pen'.btn
                      => Level(seen.raw)' >= conf.threshold
<1>1. PressureInv /\ Next => Clicked
  <2>1. ASSUME PressureInv, NEW prox \in BOOLEAN, NEW raw \in Raw, NEW far \in BOOLEAN,
               Event(prox, raw, far)
        PROVE  Clicked
    BY <2>1, ContinueInv
  <2>2. ASSUME SoftOut PROVE Clicked
    BY <2>2 DEF SoftOut
  <2>3. ASSUME NEW c, Configure(c) PROVE Clicked
    BY <2>3 DEF Configure
  <2> QED
    BY <2>1, <2>2, <2>3 DEF Next
<1>2. PressureInv /\ [Next]_vars => [Clicked]_vars
  BY <1>1
<1> QED
  BY <1>2, Invariance, PTL DEF Spec, ClickedByPressure
=============================================================================
