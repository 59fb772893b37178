-------------------------------- MODULE Samples --------------------------------
(***************************************************************************)
(* From the position of a pen in absolute mode to that of the pointer: the *)
(* average over the last samples (wcmFilter.c), the suppression of small   *)
(* movements, the scaling of the tablet's area to the range of the axes    *)
(* and the rotation of the tablet (wcmCommon.c).                           *)
(***************************************************************************)
EXTENDS Integers, Sequences

CONSTANTS
  MaxSamples,   \* MAX_SAMPLES
  RawSamples,   \* the values of RawSample the user chooses from
  Suppressions, \* and of Suppress
  Turns,        \* and of Rotate: "none", "cw", "half", "ccw"
  Areas,        \* and of Area: [low, high] with points as corners
  Axes,         \* the same for the axes as they were announced
  Points        \* the positions a pen reports

ASSUME SamplesAssumption ==
  /\ MaxSamples \in Nat /\ RawSamples \subseteq 1..MaxSamples /\ Suppressions \subseteq Nat
  /\ Turns \subseteq {"none", "cw", "half", "ccw"}
  /\ Points \subseteq [x : Nat, y : Nat]

Point(x, y) == [x |-> x, y |-> y]

VARIABLES
  sets,    \* the settings: wcmRawSample, wcmSuppress, wcmRotate, the area
  window,  \* rawFilter of the channel
  old,     \* oldState: prox, btn (the tip) and at, the position of the pointer
  sent,    \* whether the last report went to wcmSendEvents: "no", "move" if it said
           \* nothing but the position, "other" if it did
  last,    \* where on the tablet the pen was when the pointer was last moved
  stroke,  \* the samples since the pen came or was pressed, the latest first
  grown    \* whether RawSample was raised since then

sampleVars == <<sets, window, old, sent, last, stroke, grown>>

-----------------------------------------------------------------------------
(* wcmRotateAndScaleCoordinates *)

Clamp(v, low, high) == IF v < low THEN low ELSE IF v > high THEN high ELSE v

MutScaleAxis(v, high, low, from_high, from_low) ==    \* without the clamp
  ((high - low) * (v - from_low)) \div (from_high - from_low) + low

\* Division rounds towards zero, but the clamp takes what is below the range.
ScaleAxis(v, high, low, from_high, from_low) ==
  IF from_high = from_low THEN Clamp(0, low, high)
  ELSE Clamp(((high - low) * (v - from_low)) \div (from_high - from_low) + low, low, high)

\* An axis without an extent is left alone ("Don't try to scale relative axes").
Scaled(p, area) ==
  Point(IF Axes.high.x > Axes.low.x
        THEN ScaleAxis(p.x, Axes.high.x, Axes.low.x, area.high.x, area.low.x) ELSE p.x,
        IF Axes.high.y > Axes.low.y
        THEN ScaleAxis(p.y, Axes.high.y, Axes.low.y, area.high.y, area.low.y) ELSE p.y)
Swapped(p) ==
  Point(ScaleAxis(p.y, Axes.high.x, Axes.low.x, Axes.high.y, Axes.low.y),
        ScaleAxis(p.x, Axes.high.y, Axes.low.y, Axes.high.x, Axes.low.x))
FlipX(p) == [p EXCEPT !.x = Axes.high.x - (@ - Axes.low.x)]
FlipY(p) == [p EXCEPT !.y = Axes.high.y - (@ - Axes.low.y)]

Turned(p, turn) == CASE turn = "none" -> p
                     [] turn = "cw"   -> FlipY(Swapped(p))
                     [] turn = "ccw"  -> FlipX(Swapped(p))
                     [] turn = "half" -> FlipX(FlipY(p))
Placed(c, p) == Turned(Scaled(p, c.area), c.rotate)

-----------------------------------------------------------------------------
(* wcmFilterCoord *)

MutStored(c, w, p) ==    \* the first sample does not fill the window
  [i \in 1..MaxSamples |-> IF i = 1 THEN p ELSE IF i <= c.raw THEN w.samples[i - 1]
                                                ELSE w.samples[i]]

\* The first sample fills the window, a later one pushes the others back.
Stored(c, w, p) ==
  [i \in 1..MaxSamples |-> IF i > c.raw THEN w.samples[i]
                           ELSE IF w.fresh \/ i = 1 THEN p ELSE w.samples[i - 1]]

Total(f, n) ==
  LET total[i \in 0..n] == IF i = 0 THEN 0 ELSE total[i - 1] + f[i]
  IN total[n]
Average(c, samples) ==
  Point(Total([i \in 1..c.raw |-> samples[i].x], c.raw) \div c.raw,
        Total([i \in 1..c.raw |-> samples[i].y], c.raw) \div c.raw)

-----------------------------------------------------------------------------
Distance(a, b) == IF a < b THEN b - a ELSE a - b

Close(s, p, q) == Distance(p.x, q.x) <= s /\ Distance(p.y, q.y) <= s

MutFresh(btn) == ~old.prox     \* the tip does not count
\* wcmResetSampleCounter: the pen enters, or its tip is pressed.
Fresh(btn) == ~old.prox \/ (btn /\ ~old.btn)

\* commonDispatchDevice for a pen in range; other: pressure, tilt or another button
\* changed by more than what is suppressed.  A movement that is not enough is taken
\* back, and with nothing else in the report the whole of it.
Sample(p, btn, other) ==
  LET samples == Stored(sets, [samples |-> window, fresh |-> Fresh(btn)], p)
      average == Average(sets, samples)
      still   == Close(sets.suppress, old.at, average)
      at      == IF still THEN old.at ELSE average
      more    == ~old.prox \/ btn # old.btn \/ other
  IN /\ window' = samples
     /\ sent' = IF more THEN "other" ELSE IF still THEN "no" ELSE "move"
     /\ IF sent' # "no" THEN /\ old' = [prox |-> TRUE, btn |-> btn, at |-> Placed(sets, at)]
                      /\ last' = IF ~still THEN average
                                 ELSE IF old.prox THEN last ELSE old.at
        ELSE UNCHANGED <<old, last>>
     /\ stroke' = IF ~old.prox \/ (btn /\ ~old.btn) THEN <<p>>
                  ELSE SubSeq(<<p>> \o stroke, 1,
                              IF Len(stroke) < MaxSamples THEN Len(stroke) + 1 ELSE MaxSamples)
     /\ grown' = (grown /\ old.prox /\ (old.btn \/ ~btn))
     /\ UNCHANGED sets

\* The pen leaves: the pointer stays, oldState becomes OUTPROX_STATE.
SampleOut ==
  /\ old.prox
  /\ old' = [prox |-> FALSE, btn |-> FALSE, at |-> Point(0, 0)]
  /\ sent' = "other"
  /\ UNCHANGED <<sets, window, last, stroke, grown>>

\* wcmSetProperty: "Wacom Sample and Suppress"
SetSamples(s, r) ==
  /\ s # sets.suppress \/ r # sets.raw
  /\ sets' = [sets EXCEPT !.suppress = s, !.raw = r]
  /\ grown' = (grown \/ r > sets.raw)
  /\ sent' = "no"
  /\ UNCHANGED <<window, old, last, stroke>>

SampleInit ==
  /\ sets \in [raw : RawSamples, suppress : Suppressions, rotate : Turns, area : Areas]
  /\ window = [i \in 1..MaxSamples |-> Point(0, 0)]
  /\ old = [prox |-> FALSE, btn |-> FALSE, at |-> Point(0, 0)]
  /\ sent = "no" /\ last = Point(0, 0) /\ stroke = <<>> /\ grown = FALSE

SampleNext == \/ \E p \in Points, btn, other \in BOOLEAN : Sample(p, btn, other)
              \/ SampleOut
              \/ \E s \in Suppressions, r \in RawSamples : SetSamples(s, r)

SampleSpec == SampleInit /\ [][SampleNext]_sampleVars

-----------------------------------------------------------------------------
\* Only samples of this stroke are averaged, the first standing for those that are
\* missing, whatever was in the window and however RawSample was lowered.  (Raised in
\* the middle of a stroke, it takes in samples of an earlier one.)
StrokeAveraged ==
  old.prox /\ ~grown =>
    \A i \in 1..sets.raw : window[i] = stroke[IF i < Len(stroke) THEN i ELSE Len(stroke)]

\* What is suppressed is counted on the tablet.  On the screen a quarter turn stretches
\* it, as it scales the range of each axis to that of the other.
Stretched(s, to, from) == (s * to + from - 1) \div from
Suppressed(c) ==
  LET width  == Axes.high.x - Axes.low.x
      height == Axes.high.y - Axes.low.y
  IN  IF c.rotate \in {"cw", "ccw"}
      THEN Point(Stretched(c.suppress, width, height), Stretched(c.suppress, height, width))
      ELSE Point(c.suppress, c.suppress)

\* "to ensure clicks are sent from the pen's actual position": the tip is pressed
\* where the pen is, but for what is suppressed (stretched, on axes that are not square,
\* by a quarter turn), whatever went before.  This is about the whole tablet as area.
ClickAtPen ==
  [][old'.btn /\ ~old.btn /\ sets.area = Axes
       => LET at == Placed(sets, stroke'[1])
          IN  /\ Distance(old'.at.x, at.x) <= Suppressed(sets).x
              /\ Distance(old'.at.y, at.y) <= Suppressed(sets).y]_sampleVars

\* The corners of the area, in turn, are those of the screen: cw and ccw go on by one,
\* in opposite directions, half by two.  No position, inside the area or not, is
\* outside the range of the axes.
Corners(a) == <<a.low, Point(a.high.x, a.low.y), a.high, Point(a.low.x, a.high.y)>>
Places == [none |-> 0, ccw |-> 1, half |-> 2, cw |-> 3]
AreaOnScreen ==
  /\ \A i \in 1..4 : Placed(sets, Corners(sets.area)[i])
                      = Corners(Axes)[((i - 1 + Places[sets.rotate]) % 4) + 1]
  /\ \A p \in Points : /\ Placed(sets, p).x \in Axes.low.x..Axes.high.x
                       /\ Placed(sets, p).y \in Axes.low.y..Axes.high.y

\* xsetwacom.man: "a X or Y coordinate event will be sent only if the change between the
\* current X or Y coordinate and the previous one is greater than the Suppress value".
SentIfMoved ==
  [][sent' = "move" => ~Close(sets.suppress, last, Average(sets, window'))]_sampleVars
=============================================================================
