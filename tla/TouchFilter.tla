----------------------------- MODULE TouchFilter -----------------------------
(***************************************************************************)
(* The in-driver gestures of wcmTouchFilter.c, as operators on the record  *)
(* of a touch device.  An event for contact f has been put in the history  *)
(* (RecordContact) before the filter sees it; cur[f] and last[f] are the   *)
(* newest two proximity states of the channel of contact f.                *)
(*                                                                         *)
(* What the filter measures is an observation o of the environment:        *)
(*   o.lag     contact 1 came or went less than WACOM_GESTURE_LAG_TIME ago *)
(*   o.tap     contact 1 came down, after contact 2 last moved, less than  *)
(*             wcmTapTime before it went up                                *)
(*   o.tap2    contact 2 came down after contact 1 and less than           *)
(*             wcmTapTime ago                                              *)
(*   o.spread  "scroll": both contacts moved alike along one axis;         *)
(*             "zoom": they moved apart; "still": neither                  *)
(***************************************************************************)
EXTENDS ToolEvents

Observation == [lag : BOOLEAN, tap : BOOLEAN, tap2 : BOOLEAN,
                spread : {"still", "scroll", "zoom"}]

(***************************************************************************)
(* A new contact gets the first free channel, which may be the one that    *)
(* still holds the states of another contact that has left; and every      *)
(* frame of a multitouch device sets a channel aside for contact 1.        *)
(***************************************************************************)
ReusableChannels(s, f, prox) ==
  {f} \cup {g \in Fingers : ~s.cur[g] /\ (g = 1 \/ (prox /\ ~s.cur[f]))}

RecordContact(s, f, prox, reused) ==
  [s EXCEPT !.last = [g \in Fingers |->
                        IF g = f THEN RawSample > 1 /\ s.cur[f]
                        ELSE s.last[g] /\ g # reused],
            !.cur  = [@ EXCEPT ![f] = prox],
            !.tip  = @ /\ f # 1]

\* A click event; for button 1 it also forgets the button.
ClickButton1(s, state) == [s EXCEPT !.sbtn = state, !.btn = FALSE]

-----------------------------------------------------------------------------
(***************************************************************************)
(* Multitouch (XI 2.2 touch events instead of gestures).                   *)
(***************************************************************************)
TouchEvents(s, g, lag) ==
  IF ~s.cur[g]             THEN 0
  ELSE IF ~s.last[g] \/ lag THEN IF s.begun[g] = 0 THEN 1 ELSE 2
  ELSE s.begun[g]

MutFingerMultitouch(s, f) ==    \* does not leave lag or multitouch mode
  LET lag == s.mode = "lag"
  IN  [s EXCEPT !.begun = [g \in Fingers |->
                             IF lag \/ g = f THEN TouchEvents(s, g, lag) ELSE @[g]]]

\* In lag mode every contact is announced, otherwise only contact f.  The code does so
\* for every channel with the contact's number; on nodes whose slots the kernel gives
\* out there is only one (OneHistory of UsbChannels).
FingerMultitouch(s, f) ==
  LET lag == s.mode = "lag"
  IN  [s EXCEPT !.begun = [g \in Fingers |->
                             IF lag \/ g = f THEN TouchEvents(s, g, lag) ELSE @[g]],
                !.mode  = CASE \A g \in Fingers : ~s.cur[g] -> "none"
                            [] (\E g \in Fingers : s.cur[g]) /\ lag -> "multitouch"
                            [] OTHER -> @]

CancelGesture(d, s) ==
  IF ~IsTouch(d) THEN s
  ELSE [(IF s.mode = "drag" THEN ClickButton1(s, FALSE) ELSE s) EXCEPT !.mode = "cancel"]

\* The first step of the filter when gestures are off.
MultitouchStep(d, s, f) ==
  LET enter == IF s.mode # "none" THEN s
               ELSE [s EXCEPT !.mode = IF s.lcd THEN "multitouch"
                                       ELSE IF s.cur[2] THEN "lag" ELSE "none"]
  IN  CASE s.gesture \/ s.mode = "cancel" -> s
        [] ~s.gesture /\ s.mode \in {"none", "lag", "multitouch"} ->
             IF enter.mode = "none" THEN enter ELSE FingerMultitouch(enter, f)
        [] OTHER -> CancelGesture(d, s)

-----------------------------------------------------------------------------
(***************************************************************************)
(* Gestures.                                                               *)
(***************************************************************************)
BothIn(s)  == s.cur[1] /\ s.cur[2]
BothOut(s) == ~s.cur[1] /\ ~s.cur[2]

\* Two fingers never stay in "none"; one finger leaves "lag" after a while.
Debounce(s, o) ==
  [s EXCEPT !.mode =
     CASE BothIn(s) -> IF @ = "none" THEN "lag" ELSE @
       [] ~BothIn(s) /\ @ \in {"scroll", "zoom"} -> "cancel"
       [] ~BothIn(s) /\ @ \notin {"scroll", "zoom", "drag"} /\ s.last[1] ->
            IF ~o.lag THEN "none" ELSE IF @ = "none" THEN "lag" ELSE @
       [] OTHER -> @]

\* Contact 2 tapped while contact 1 is down: a right click.
FingerTapToClick(s, o) ==
  IF s.gesture /\ o.tap2 /\ ~s.cur[2] /\ s.last[2]
  THEN [ClickButton1(s, FALSE) EXCEPT !.mode = "tap"]
  ELSE s

\* Lag mode ends in scroll or zoom mode once the fingers have moved enough.
TwoFingerGesture(s, o) ==
  IF s.gesture /\ BothIn(s) /\ s.last[1] /\ s.last[2] /\ o.spread # "still"
     /\ s.mode \notin {"tap", "scroll", "zoom"}
  THEN [ClickButton1(s, FALSE) EXCEPT !.mode = o.spread]
  ELSE s

MutAllFingersOut(d, s) ==       \* no button up
  LET softened == IF ~s.last[1] /\ s.mode # "none" THEN SoftOutEvent(d, s) ELSE s
  IN  [softened EXCEPT !.mode = "none"]

AllFingersOut(d, s) ==
  LET softened == IF ~s.last[1] /\ s.mode # "none" THEN SoftOutEvent(d, s) ELSE s
      released == IF s.mode = "drag" THEN ClickButton1(softened, FALSE) ELSE softened
  IN  [released EXCEPT !.mode = "none"]

\* A tap of contact 1 on a touchpad: wait for wcmTapTime whether it is a drag.
SingleFingerTap(s, o) ==
  IF ~s.lcd /\ ~s.cur[1] /\ s.last[1] /\ ~s.cur[2] /\ o.tap
  THEN [s EXCEPT !.mode = "predrag", !.timer = TRUE]
  ELSE s

\* On a display, one finger down is button 1 down.
SingleFingerPress(s) ==
  IF ~s.lcd THEN s
  ELSE [s EXCEPT !.tip  = s.cur[1] /\ ~s.cur[2],
                 !.mode = IF s.cur[1] /\ ~s.cur[2] THEN "drag" ELSE "none"]

\* The "ret:" label of wcmGestureFilter.
SingleFinger(s, f, o) ==
  IF s.mode \in {"none", "drag"} /\ f = 1
  THEN SingleFingerPress(SingleFingerTap(s, o))
  ELSE s

(***************************************************************************)
(* wcmGestureFilter, after multitouch and the cancel gate.                 *)
(***************************************************************************)
Gestures(d, s, f, o) ==
  LET r     == Debounce(s, o)
      down1 == r.cur[1] /\ ~r.last[1]
  IN  CASE down1 /\ r.mode = "none" /\ f = 1 -> r
        [] down1 /\ r.mode = "predrag" ->
             [ClickButton1(r, TRUE) EXCEPT !.mode = "drag"]
        [] BothOut(r) -> AllFingersOut(d, r)
        [] OTHER ->
             TwoFingerGesture(IF r.mode \notin {"scroll", "zoom"} /\ f = 2
                              THEN FingerTapToClick(r, o) ELSE r, o)

GestureFilter(d, s, f, o) ==
  LET m == MultitouchStep(d, s, f)
      c == [m EXCEPT !.mode = IF @ = "cancel" THEN "none" ELSE @]
  IN  IF m.mode = "multitouch" \/ (m.mode = "cancel" /\ ~BothOut(m))
      THEN m
      ELSE SingleFinger(Gestures(d, c, f, o), f, o)

MutTapTimer(s) ==               \* clicks and stays in predrag mode
  LET fired == [s EXCEPT !.timer = FALSE]
  IN  IF s.mode = "predrag" THEN ClickButton1(ClickButton1(fired, TRUE), FALSE) ELSE fired

\* wcmSingleFingerTapTimer: the tap was no drag, so it was a click.
TapTimer(s) ==
  LET fired == [s EXCEPT !.timer = FALSE]
  IN  IF s.mode = "predrag"
      THEN [ClickButton1(ClickButton1(fired, TRUE), FALSE) EXCEPT !.mode = "none"]
      ELSE fired
=============================================================================
