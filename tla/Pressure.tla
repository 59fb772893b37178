------------------------------- MODULE Pressure -------------------------------
(***************************************************************************)
(* The tip of a pen.  Button 1 of a pen is not a switch but a threshold on *)
(* the pressure, and a worn tip presses a little all the time: the driver  *)
(* takes the lowest pressure of a stroke as its zero (rebasePressure).  A  *)
(* pen that hits the tablet so fast that its very first report is already  *)
(* a press would then never click, so a second rule remembers the highest  *)
(* pressure until button 1 has been pressed once (maxRawPressure).         *)
(*                                                                         *)
(* This is the part of commonDispatchDevice that turns raw pressure into   *)
(* the state of button 1, for one pen of a tablet that has pressure.       *)
(***************************************************************************)
EXTENDS Integers

CONSTANTS
  MaxZ,         \* wcmMaxZ, the highest raw pressure
  MaxCurve,     \* priv->maxCurve, the highest normalised pressure
  Tolerance,    \* maxCurve * THRESHOLD_TOLERANCE, without its fraction
  Thresholds    \* the thresholds (wcmThreshold) the user chooses from

ASSUME PressureAssumption ==
  /\ MaxZ \in Nat \ {0}
  /\ MaxCurve \in Nat \ {0}
  /\ Tolerance \in Nat
  /\ Thresholds \subseteq 1..MaxCurve

VARIABLES
  conf,   \* the settings: recal (wcmPressureRecalibration), threshold, and
          \* relative, the mode of the device
  pen,    \* prox and btn of oldState, minPressure and maxRawPressure
  seen    \* a history of the stroke, for the properties only: the latest, the
          \* lowest and the highest raw pressure, whether button 1 has been
          \* pressed, for how many events the lowest pressure has not changed
          \* (2: or more), and whether a setting was changed

vars == <<conf, pen, seen>>

Raw     == 0..MaxZ
Nothing == [raw |-> 0, low |-> 0, peak |-> 0, clicked |-> FALSE, steady |-> 0,
            changed |-> FALSE]

\* The history after a report; btn is the state of button 1 it led to.
Recorded(raw, btn) ==
  IF ~pen.prox
  THEN [raw |-> raw, low |-> raw, peak |-> raw, clicked |-> btn, steady |-> 0,
        changed |-> FALSE]
  ELSE [raw     |-> raw,
        low     |-> IF raw < seen.low THEN raw ELSE seen.low,
        peak    |-> IF seen.peak < raw THEN raw ELSE seen.peak,
        clicked |-> seen.clicked \/ btn,
        steady  |-> IF raw < seen.low THEN 0
                    ELSE IF seen.steady < 2 THEN seen.steady + 1 ELSE 2,
        changed |-> seen.changed]

Init ==
  /\ conf \in [recal : BOOLEAN, relative : BOOLEAN, threshold : Thresholds]
  /\ pen = [prox |-> FALSE, btn |-> FALSE, min |-> 0, max |-> 0]
  /\ seen = Nothing

-----------------------------------------------------------------------------
MutRebasePressure(p, raw) == IF raw < p.min THEN raw ELSE p.min  \* never anew

\* The lowest pressure since pen p came into proximity.
RebasePressure(p, raw) == IF p.prox /\ p.min < raw THEN p.min ELSE raw

\* Pressure on a scale of 0..MaxCurve, from the lowest pressure of the stroke.
NormalizePressure(c, min, raw) ==
  LET bias   == IF c.recal THEN min ELSE 0
      scaled == ((raw - bias) * MaxCurve) \div (MaxZ - bias)
  IN  IF MaxZ - bias < 1 \/ scaled > MaxCurve THEN MaxCurve
      ELSE IF scaled < 0 THEN 0 ELSE scaled

\* Hysteresis: a pressed button stays pressed a little below the threshold.  The
\* tolerance has a fraction (65536 or 2048 times 0.008f), so what is above threshold - tolerance is,
\* among whole numbers, what is at least the threshold less the whole part of it.
SetPressureButton(c, pressed, pressure) ==
  \/ pressure >= c.threshold
  \/ pressed /\ c.threshold > Tolerance /\ pressure >= c.threshold - Tolerance

MutHighest(p, raw) == IF p.prox THEN p.max ELSE raw   \* only the first report

MutHighestAgain(p, raw) ==     \* records again after it has been forgotten
  IF ~p.prox \/ p.max < raw THEN raw ELSE p.max

\* The highest pressure since pen p came into proximity; 0: no longer of use.
Highest(p, raw) == IF ~p.prox \/ (p.max # 0 /\ p.max < raw) THEN raw ELSE p.max

MutKeepHighest(p, min, high, normal, late) ==     \* a worn tip never releases
  IF normal \/ min = 0 THEN 0 ELSE high

\* maxRawPressure is forgotten once button 1 has been pressed, unless by the
\* second rule and minPressure is still falling, or once minPressure is 0.
KeepHighest(p, min, high, normal, late) ==
  LET previous == IF p.prox THEN p.min ELSE 0
  IN  IF normal \/ (late /\ min = previous) \/ min = 0 THEN 0 ELSE high

(***************************************************************************)
(* A report of the pen that reaches commonDispatchDevice.  far: a pen in   *)
(* relative mode is too far from where it last clicked.                    *)
(***************************************************************************)
Event(prox, raw, far) ==
  LET min    == RebasePressure(pen, raw)
      high   == Highest(pen, raw)
      normal == SetPressureButton(conf, pen.btn, NormalizePressure(conf, min, raw))
      late   == /\ high # 0
                /\ SetPressureButton(conf, pen.btn, NormalizePressure(conf, min, high))
      btn    == normal \/ late
      in     == prox /\ ~far
  IN  /\ far => conf.relative /\ ~btn
      /\ pen' = [prox |-> in, btn |-> in /\ btn, min |-> min,
                 max |-> KeepHighest(pen, min, high, normal, late)]
      /\ seen' = IF in THEN Recorded(raw, btn) ELSE Nothing
      /\ UNCHANGED conf

\* The pen loses the pointer to another device (wcmSoftOutEvent).
SoftOut ==
  /\ pen' = [pen EXCEPT !.prox = FALSE, !.btn = FALSE]
  /\ seen' = Nothing
  /\ UNCHANGED conf

\* The user changes a setting, at any time.
Configure(c) ==
  /\ conf' = c
  /\ seen' = [seen EXCEPT !.changed = pen.prox, !.steady = 0]
  /\ UNCHANGED pen

Next ==
  \/ \E prox \in BOOLEAN, raw \in Raw, far \in BOOLEAN : Event(prox, raw, far)
  \/ SoftOut
  \/ \E recal \in BOOLEAN, threshold \in Thresholds :
       Configure([conf EXCEPT !.recal = recal, !.threshold = threshold])

Spec == Init /\ [][Next]_vars

-----------------------------------------------------------------------------
(***************************************************************************)
(* Properties.                                                             *)
(***************************************************************************)

\* Every variable has its type; minPressure and maxRawPressure are raw.
TypeOK ==
  /\ conf \in [recal : BOOLEAN, relative : BOOLEAN, threshold : Thresholds]
  /\ pen \in [prox : BOOLEAN, btn : BOOLEAN, min : Raw, max : Raw]
  /\ seen \in [raw : Raw, low : Raw, peak : Raw, clicked : BOOLEAN,
               steady : 0..2, changed : BOOLEAN]

\* A raw pressure, normalised with what the stroke has shown so far.
Level(raw) == NormalizePressure(conf, seen.low, raw)

\* No press is lost: as soon as the stroke has shown a pressure that is a press
\* over the lowest pressure it has shown, button 1 has been pressed in this
\* stroke, however hard the pen pressed when it came into range.
PressNotLost ==
  pen.prox /\ ~seen.changed /\ Level(seen.peak) >= conf.threshold => seen.clicked

\* Too little pressure to keep button 1 pressed.
NotPressed(c, pressure) ==
  /\ pressure < c.threshold
  /\ c.threshold <= Tolerance \/ pressure < c.threshold - Tolerance

\* A worn pen releases: button 1 does not stay down in a pen that no longer
\* presses, two events at the latest after its lowest pressure.
WornReleases ==
  pen.prox /\ seen.steady = 2 /\ NotPressed(conf, Level(seen.raw)) => ~pen.btn

\* No click before the pen touches: with recalibration, a pen that has reported
\* one and the same pressure since it came into range has not clicked, however
\* worn it is (but for the full pressure, which always counts as a press).
NoPhantomClick ==
  pen.prox /\ conf.recal /\ ~seen.changed /\ seen.peak = seen.low /\ seen.low < MaxZ
    => ~pen.btn

\* The second rule clicks once at most: after button 1 has been pressed in a
\* stroke, only pressure that is itself a press presses it again.
ClickedByPressure ==
  [][pen.prox /\ pen'.prox /\ seen.clicked /\ ~seen.changed /\ ~pen.btn /\ pen'.btn
       => Level(seen.raw)' >= conf.threshold]_vars
=============================================================================
