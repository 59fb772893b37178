------------------------- MODULE Arbitration_proofs -------------------------
(***************************************************************************)
(* Proofs about Arbitration, for any tablets, devices and tools.           *)
(***************************************************************************)
EXTENDS Arbitration, TLAPS

-----------------------------------------------------------------------------
(***************************************************************************)
(* Types.  Every operator on a device's record returns such a record.      *)
(***************************************************************************)

\* Sending the events of one tool keeps the type of the device.
LEMMA SendToolEventsType ==
  ASSUME NEW s \in DevState, NEW ev \in Event
  PROVE  SendToolEvents(s, ev) \in DevState
  BY DEF SendToolEvents, DevState, Event

\* So does an event that goes through wcmSendEvents.
LEMMA SendEventsType ==
  ASSUME NEW d \in Devices, NEW s \in DevState, NEW ev \in Event
  PROVE  SendEvents(d, s, ev) \in DevState
<1> DEFINE entering == [s EXCEPT !.btn = s.prox /\ @]
           sent     == IF IsTouch(d) /\ ~TouchNeedSendEvents(s)
                       THEN entering
                       ELSE SendToolEvents(entering, ev)
<1>1. entering \in DevState
  BY DEF DevState
<1>2. sent \in DevState
  BY <1>1, SendToolEventsType
<1> HIDE DEF sent
<1>3. [sent EXCEPT !.prox = ev.prox, !.btn = ev.prox /\ ev.btn, !.id = ev.id] \in DevState
  BY <1>2 DEF DevState, Event
<1> QED
  BY <1>3 DEF SendEvents, sent

\* The made-up prox-out event is an event of the device's own type.
LEMMA SoftOutEventType ==
  ASSUME NEW d \in Devices, NEW s \in DevState
  PROVE  SoftOutEvent(d, s) \in DevState
<1>1. [prox |-> FALSE, btn |-> FALSE, id |-> PhyId[d], serial |-> 0] \in Event
  BY DeviceAssumption DEF Event
<1> QED
  BY <1>1, SendEventsType DEF SoftOutEvent

\* Suppression and forced prox-outs send an event of the same type or none.
LEMMA DispatchType ==
  ASSUME NEW d \in Devices, NEW s \in DevState, NEW ev \in Event,
         NEW far, NEW quiet
  PROVE  Dispatch(d, s, ev, far, quiet) \in DevState
<1>1. ASSUME NEW b \in BOOLEAN
      PROVE  SendEvents(d, s, [ev EXCEPT !.prox = @ /\ b]) \in DevState
  <2>1. [ev EXCEPT !.prox = @ /\ b] \in Event
    BY DEF Event
  <2> QED
    BY <2>1, SendEventsType
<1> DEFINE clicked    == ev.btn /\ DevType[d] \in {"stylus", "cursor"}
           outOfRange == /\ d \in Relative
                         /\ DevType[d] \in {"stylus", "eraser", "cursor"}
                         /\ far /\ ~clicked
<1>2. SendEvents(d, s, [ev EXCEPT !.prox = @ /\ ~outOfRange]) \in DevState
  BY <1>1
<1> HIDE DEF outOfRange
<1> QED
  BY <1>2 DEF Dispatch, outOfRange

\* A new state of a contact goes into a history of the same type.
LEMMA RecordContactType ==
  ASSUME NEW s \in DevState, NEW f \in Fingers, NEW prox \in BOOLEAN, NEW reused
  PROVE  RecordContact(s, f, prox, reused) \in DevState
  BY DEF RecordContact, DevState

LEMMA ClickButton1Type ==
  ASSUME NEW s \in DevState, NEW state \in BOOLEAN
  PROVE  ClickButton1(s, state) \in DevState
  BY DEF ClickButton1, DevState

LEMMA ModeType ==
  ASSUME NEW s \in DevState, NEW mode \in Modes
  PROVE  [s EXCEPT !.mode = mode] \in DevState
  BY DEF DevState

LEMMA CancelGestureType ==
  ASSUME NEW d \in Devices, NEW s \in DevState
  PROVE  CancelGesture(d, s) \in DevState
<1> DEFINE released == IF s.mode = "drag" THEN ClickButton1(s, FALSE) ELSE s
<1>1. released \in DevState
  BY ClickButton1Type
<1> HIDE DEF released
<1>2. [released EXCEPT !.mode = "cancel"] \in DevState
  BY <1>1, ModeType DEF Modes
<1> QED
  BY <1>2 DEF CancelGesture, released

\* At most "too many" touches are ever counted, in whatever mode.
LEMMA FingerMultitouchType ==
  ASSUME NEW s \in DevState, NEW f \in Fingers
  PROVE  FingerMultitouch(s, f) \in DevState
<1>1. ASSUME NEW g \in Fingers, NEW lag \in BOOLEAN
      PROVE  TouchEvents(s, g, lag) \in 0..2
  BY DEF TouchEvents, DevState
<1> DEFINE lag   == s.mode = "lag"
           begun == [g \in Fingers |-> IF lag \/ g = f THEN TouchEvents(s, g, lag)
                                       ELSE s.begun[g]]
           mode  == CASE \A g \in Fingers : ~s.cur[g] -> "none"
                      [] (\E g \in Fingers : s.cur[g]) /\ lag -> "multitouch"
                      [] OTHER -> s.mode
<1>2. begun \in [Fingers -> 0..2]
  BY <1>1 DEF DevState
<1>3. mode \in Modes
  BY DEF DevState, Modes
<1> HIDE DEF begun, mode
<1>4. [s EXCEPT !.begun = begun, !.mode = mode] \in DevState
  BY <1>2, <1>3 DEF DevState
<1> QED
  BY <1>4 DEF FingerMultitouch, begun, mode

LEMMA MultitouchStepType ==
  ASSUME NEW d \in Devices, NEW s \in DevState, NEW f \in Fingers
  PROVE  MultitouchStep(d, s, f) \in DevState
<1> DEFINE enter == IF s.mode # "none" THEN s
                    ELSE [s EXCEPT !.mode = IF s.lcd THEN "multitouch"
                                            ELSE IF s.cur[2] THEN "lag" ELSE "none"]
<1>1. enter \in DevState
  BY DEF DevState, Modes
<1> HIDE DEF enter
<1>2. FingerMultitouch(enter, f) \in DevState
  BY <1>1, FingerMultitouchType
<1>3. CancelGesture(d, s) \in DevState
  BY CancelGestureType
<1> QED
  BY <1>1, <1>2, <1>3 DEF MultitouchStep, enter, DevState

LEMMA DebounceType ==
  ASSUME NEW s \in DevState, NEW o
  PROVE  Debounce(s, o) \in DevState
  BY DEF Debounce, DevState, Modes

LEMMA FingerTapToClickType ==
  ASSUME NEW s \in DevState, NEW o
  PROVE  FingerTapToClick(s, o) \in DevState
<1>1. ClickButton1(s, FALSE) \in DevState
  BY ClickButton1Type
<1>2. [ClickButton1(s, FALSE) EXCEPT !.mode = "tap"] \in DevState
  BY <1>1, ModeType DEF Modes
<1> QED
  BY <1>2 DEF FingerTapToClick

LEMMA TwoFingerGestureType ==
  ASSUME NEW s \in DevState, NEW o, o.spread \in {"still", "scroll", "zoom"}
  PROVE  TwoFingerGesture(s, o) \in DevState
<1>1. ClickButton1(s, FALSE) \in DevState
  BY ClickButton1Type
<1>2. [ClickButton1(s, FALSE) EXCEPT !.mode = o.spread] \in DevState \/ o.spread = "still"
  BY <1>1, ModeType DEF Modes
<1> QED
  BY <1>2 DEF TwoFingerGesture

LEMMA AllFingersOutType ==
  ASSUME NEW d \in Devices, NEW s \in DevState
  PROVE  AllFingersOut(d, s) \in DevState
<1> DEFINE softened == IF ~s.last[1] /\ s.mode # "none" THEN SoftOutEvent(d, s) ELSE s
<1>1. softened \in DevState
  BY SoftOutEventType
<1> HIDE DEF softened
<1>2. ClickButton1(softened, FALSE) \in DevState
  BY <1>1, ClickButton1Type
<1> DEFINE released == IF s.mode = "drag" THEN ClickButton1(softened, FALSE) ELSE softened
<1>3. released \in DevState
  BY <1>1, <1>2
<1> HIDE DEF released
<1>4. [released EXCEPT !.mode = "none"] \in DevState
  BY <1>3, ModeType DEF Modes
<1> QED
  BY <1>4 DEF AllFingersOut, softened, released

LEMMA SingleFingerTapType ==
  ASSUME NEW s \in DevState, NEW o
  PROVE  SingleFingerTap(s, o) \in DevState
<1>1. [s EXCEPT !.mode = "predrag", !.timer = TRUE] \in DevState
  BY DEF DevState, Modes
<1> QED
  BY <1>1 DEF SingleFingerTap

LEMMA SingleFingerType ==
  ASSUME NEW s \in DevState, NEW f, NEW o
  PROVE  SingleFinger(s, f, o) \in DevState
<1>1. SingleFingerTap(s, o) \in DevState
  BY SingleFingerTapType
<1>2. ASSUME NEW t \in DevState
      PROVE  SingleFingerPress(t) \in DevState
  <2> DEFINE pressed == t.cur[1] /\ ~t.cur[2]
  <2>1. pressed \in BOOLEAN
    OBVIOUS
  <2> HIDE DEF pressed
  <2>2. [t EXCEPT !.tip = pressed, !.mode = IF pressed THEN "drag" ELSE "none"] \in DevState
    BY <2>1 DEF DevState, Modes
  <2> QED
    BY <2>2 DEF SingleFingerPress, pressed
<1> QED
  BY <1>1, <1>2 DEF SingleFinger

LEMMA GesturesType ==
  ASSUME NEW d \in Devices, NEW s \in DevState, NEW f \in Fingers,
         NEW o, o.spread \in {"still", "scroll", "zoom"}
  PROVE  Gestures(d, s, f, o) \in DevState
<1> DEFINE r == Debounce(s, o)
<1>1. r \in DevState
  BY DebounceType
<1> HIDE DEF r
<1>2. [ClickButton1(r, TRUE) EXCEPT !.mode = "drag"] \in DevState
  <2>1. ClickButton1(r, TRUE) \in DevState
    BY <1>1, ClickButton1Type
  <2> QED
    BY <2>1, ModeType DEF Modes
<1>3. AllFingersOut(d, r) \in DevState
  BY <1>1, AllFingersOutType
<1> DEFINE clicked == IF r.mode \notin {"scroll", "zoom"} /\ f = 2
                      THEN FingerTapToClick(r, o) ELSE r
<1>4. clicked \in DevState
  BY <1>1, FingerTapToClickType
<1> HIDE DEF clicked
<1>5. TwoFingerGesture(clicked, o) \in DevState
  BY <1>4, TwoFingerGestureType
<1> QED
  BY <1>1, <1>2, <1>3, <1>5 DEF Gestures, r, clicked

LEMMA GestureFilterType ==
  ASSUME NEW d \in Devices, NEW s \in DevState, NEW f \in Fingers,
         NEW o, o.spread \in {"still", "scroll", "zoom"}
  PROVE  GestureFilter(d, s, f, o) \in DevState
<1> DEFINE m == MultitouchStep(d, s, f)
           c == [m EXCEPT !.mode = IF @ = "cancel" THEN "none" ELSE @]
<1>1. m \in DevState
  BY MultitouchStepType
<1> HIDE DEF m
<1>2. c \in DevState
  BY <1>1 DEF DevState, Modes
<1> HIDE DEF c
<1>3. Gestures(d, c, f, o) \in DevState
  BY <1>2, GesturesType
<1>4. SingleFinger(Gestures(d, c, f, o), f, o) \in DevState
  BY <1>3, SingleFingerType
<1> QED
  BY <1>1, <1>4 DEF GestureFilter, m, c

LEMMA TapTimerType ==
  ASSUME NEW s \in DevState
  PROVE  TapTimer(s) \in DevState
<1> DEFINE fired == [s EXCEPT !.timer = FALSE]
<1>1. fired \in DevState
  BY DEF DevState
<1> HIDE DEF fired
<1>2. ClickButton1(ClickButton1(fired, TRUE), FALSE) \in DevState
  BY <1>1, ClickButton1Type
<1>3. [ClickButton1(ClickButton1(fired, TRUE), FALSE) EXCEPT !.mode = "none"] \in DevState
  BY <1>2, ModeType DEF Modes
<1> QED
  BY <1>1, <1>3 DEF TapTimer, fired

-----------------------------------------------------------------------------
(***************************************************************************)
(* Type correctness.                                                       *)
(***************************************************************************)

\* The device found for a tool is of the tool's type and tablet.
LEMMA FindToolType ==
  ASSUME NEW p \in Tools, FindTool(p) # None
  PROVE  /\ FindTool(p) \in Devices
         /\ DevType[FindTool(p)] = Tool[p].type
<1> DEFINE exact == ToolDevices(p, Tool[p].serial)
           any   == ToolDevices(p, 0)
           found == IF exact # {} THEN exact ELSE any
<1>1. exact \subseteq Devices /\ any \subseteq Devices
  BY DEF ToolDevices
<1>2. \A d \in found : DevType[d] = Tool[p].type
  BY DEF ToolDevices
<1>3. FindTool(p) = CHOOSE d \in Devices : d \in found
  BY DEF FindTool
<1>4. \E d \in Devices : d \in found
  BY <1>1 DEF FindTool
<1> QED
  BY <1>2, <1>3, <1>4

LEMMA ObservationType ==
  ASSUME NEW p \in Tools, NEW o \in Observations(p)
  PROVE  o.spread \in {"still", "scroll", "zoom"}
  BY DEF Observations

\* Filtering and sending one event keeps the type of its device.
LEMMA DeliverType ==
  ASSUME NEW d \in Devices, NEW s \in DevState, NEW p \in Tools,
         DevType[d] = Tool[p].type, NEW ev \in Event, NEW o \in Observations(p)
  PROVE  Deliver(d, s, p, ev, o) \in DevState
<1>1. CASE ~IsTouch(d)
  BY <1>1, DispatchType DEF Deliver
<1>2. CASE IsTouch(d)
  <2> DEFINE f == Tool[p].serial
             g == GestureFilter(d, s, f, o)
  <2>1. f \in Fingers
    BY <1>2, ToolAssumption DEF IsTouch
  <2>2. g \in DevState
    BY <2>1, ObservationType, GestureFilterType
  <2> HIDE DEF g
  <2>3. [ev EXCEPT !.btn = g.tip] \in Event
    BY <2>2 DEF Event, DevState
  <2>4. Dispatch(d, g, [ev EXCEPT !.btn = g.tip], o.far, o.quiet) \in DevState
    BY <2>2, <2>3, DispatchType
  <2> QED
    BY <1>2, <2>2, <2>4 DEF Deliver, g
<1> QED
  BY <1>1, <1>2

LEMMA TakeControlType ==
  ASSUME TypeOK, NEW d \in Devices
  PROVE  TakeControl(d) \in [Devices -> DevState]
<1>1. CASE active \notin {None, d}
  <2>1. active \in Devices
    BY <1>1 DEF TypeOK
  <2>2. CancelGesture(active, SoftOutEvent(active, dev[active])) \in DevState
    BY <2>1, SoftOutEventType, CancelGestureType DEF TypeOK
  <2> QED
    BY <1>1, <2>1, <2>2 DEF TakeControl, TypeOK
<1>2. CASE active \in {None, d}
  BY <1>2 DEF TakeControl, TypeOK
<1> QED
  BY <1>1, <1>2

LEMMA DeviceEventType ==
  ASSUME TypeOK, NEW d \in Devices, NEW p \in Tools, DevType[d] = Tool[p].type,
         NEW ev \in Event, NEW reused, NEW o \in Observations(p),
         DeviceEvent(d, p, ev, reused, o)
  PROVE  active' \in Devices \cup {None} /\ dev' \in [Devices -> DevState]
<1> DEFINE recorded == IF IsTouch(d)
                       THEN RecordContact(dev[d], Tool[p].serial, ev.prox, reused)
                       ELSE dev[d]
           granted  == ArbitratedControl(d, ev.id, o.idle)
           base     == IF granted THEN TakeControl(d) ELSE dev
<1>1. active' \in Devices \cup {None}
  BY DEF DeviceEvent, TypeOK
<1>2. recorded \in DevState
  <2>1. IsTouch(d) => Tool[p].serial \in Fingers
    BY ToolAssumption DEF IsTouch
  <2>2. ev.prox \in BOOLEAN /\ dev[d] \in DevState
    BY DEF Event, TypeOK
  <2> QED
    BY <2>1, <2>2, RecordContactType
<1>3. base \in [Devices -> DevState]
  BY TakeControlType DEF TypeOK
<1> HIDE DEF recorded, base, granted
<1>4. Deliver(d, recorded, p, ev, o) \in DevState
  BY <1>2, DeliverType
<1>5. dev' = IF granted \/ IsPad(d)
             THEN [base EXCEPT ![d] = Deliver(d, recorded, p, ev, o)]
             ELSE [dev EXCEPT ![d] = recorded]
  BY DEF DeviceEvent, recorded, base, granted
<1> QED
  BY <1>1, <1>2, <1>3, <1>4, <1>5 DEF TypeOK

LEMMA FreshDeviceType ==
  ASSUME NEW d \in Devices, NEW lcd \in BOOLEAN, NEW gesture \in BOOLEAN
  PROVE  FreshDevice(d, BoundTo[d], lcd, gesture) \in DevState
<1>1. BoundTo[d] \in Serials /\ PhyId[d] \in Ids
  BY DeviceAssumption, ToolAssumption
<1>2. /\ [f \in Fingers |-> FALSE] \in [Fingers -> BOOLEAN]
      /\ [f \in Fingers |-> 0] \in [Fingers -> 0..2]
      /\ "none" \in Modes
  BY DEF Modes
<1> QED
  BY <1>1, <1>2 DEF FreshDevice, DevState

-----------------------------------------------------------------------------
(***************************************************************************)
(* The steps of the specification, one by one.  Every proof by cases on    *)
(* Next goes through this lemma.                                           *)
(***************************************************************************)
ToolStep(d, p, ev, reused, o) ==
  /\ d = FindTool(p) /\ d # None
  /\ ev.id = Tool[p].id
  /\ ev.serial = Tool[p].serial
  /\ hw' = [hw EXCEPT ![p] = ev.prox]
  /\ DeviceEvent(d, p, ev, reused, o)

\* An event that reaches no device changes only what is in range.
Unheard ==
  /\ UNCHANGED <<active, dev>>
  /\ \E p \in Tools, prox \in BOOLEAN :
       LET d == FindTool(p)
       IN  /\ hw' = [hw EXCEPT ![p] = prox]
           /\ d = None \/ ~dev[d].enabled \/ IsTouch(d)

\* The buttons of a touch device: on a display the finger's own button does the
\* dragging and oldState knows of it; on a touchpad it is the click the driver makes up.
Stroke(s) ==
  /\ s.btn => s.prox
  /\ IF s.lcd THEN (s.sbtn => s.btn) /\ s.mode # "predrag" ELSE ~s.btn /\ ~s.tip

\* ... and the server is told that it is down only while a finger drags.
Pressed(s) == Stroke(s) /\ (s.sbtn => s.mode = "drag")

\* A step that changes one device, and neither its proximity nor the pointer.
Local(d) ==
  /\ UNCHANGED <<active, hw>>
  /\ \E s \in DevState :
       /\ dev' = [dev EXCEPT ![d] = s]
       /\ s.prox = dev[d].prox /\ s.id = dev[d].id
       /\ d \notin Bindable => s.serial = dev[d].serial
       /\ d \notin Pluggable => s.enabled = dev[d].enabled
       /\ ~IsTouch(d) => /\ s.sprox = dev[d].sprox
                         /\ s.btn = dev[d].btn
                         /\ s.sbtn => dev[d].sbtn
       /\ Pressed(dev[d]) => Pressed(s)

\* Device d is removed and added again.
Replugged(d) ==
  /\ d \in Pluggable
  /\ active' = IF active = d THEN None ELSE active
  /\ UNCHANGED hw
  /\ \E s \in DevState :
       /\ dev' = [dev EXCEPT ![d] = s]
       /\ ~s.prox /\ s.id = PhyId[d] /\ s.serial = BoundTo[d]
       /\ ~s.sprox /\ ~s.btn /\ ~s.sbtn
       /\ Pressed(dev[d]) => Pressed(s)

\* Every step of Next has one of these four shapes.
LEMMA StepCases ==
  ASSUME TypeOK, Next
  PROVE  \/ \E d \in Devices, p \in Tools, ev \in Event :
              \E reused, o :
                 o \in Observations(p) /\ ToolStep(d, p, ev, reused, o)
         \/ Unheard
         \/ \E d \in Devices : Local(d)
         \/ \E d \in Devices : Replugged(d)
<1>1. ASSUME NEW p \in Tools, NEW prox \in BOOLEAN, NEW btn \in BOOLEAN,
             NEW o \in Observations(p), ToolEvent(p, prox, btn, o)
      PROVE  \/ \E d \in Devices, ev \in Event :
                  \E reused : ToolStep(d, p, ev, reused, o)
             \/ Unheard
  <2> DEFINE d  == FindTool(p)
             ev == [prox |-> prox, btn |-> btn, id |-> Tool[p].id, serial |-> Tool[p].serial]
             heard == d # None /\ dev[d].enabled /\ (IsTouch(d) => dev[d].touchOn)
  <2>1. ev \in Event
    BY ToolAssumption DEF Event
  <2>2. hw' = [hw EXCEPT ![p] = ev.prox] /\ hw' \in [Tools -> BOOLEAN]
    BY <1>1 DEF ToolEvent, TypeOK
  <2>3. CASE heard
    <3>1. PICK reused : DeviceEvent(d, p, ev, reused, o)
      BY <1>1, <2>3 DEF ToolEvent
    <3>2. d \in Devices
      BY <2>3, FindToolType
    <3>3. ev.id = Tool[p].id /\ ev.serial = Tool[p].serial
      OBVIOUS
    <3>4. ToolStep(d, p, ev, reused, o)
      BY <2>2, <2>3, <3>1, <3>3 DEF ToolStep
    <3> QED
      BY <2>1, <3>2, <3>4
  <2>4. CASE ~heard
    <3>1. UNCHANGED <<active, dev>>
      BY <1>1, <2>4 DEF ToolEvent
    <3>2. d = None \/ ~dev[d].enabled \/ IsTouch(d)
      BY <2>4
    <3>3. hw' = [hw EXCEPT ![p] = prox]
      BY <1>1 DEF ToolEvent
    <3> QED
      BY <3>1, <3>2, <3>3 DEF Unheard
  <2> QED
    BY <2>3, <2>4
<1>2. ASSUME NEW d \in Devices, IsTouch(d), Timer(d) \/ SetGesture(d) \/ SetTouch(d)
      PROVE  Local(d)
  <2>0. dev[d] \in DevState
    BY DEF TypeOK
  <2>1. CASE Timer(d)
    <3>1. TapTimer(dev[d]) \in DevState
      BY <2>0, TapTimerType
    <3>2. /\ TapTimer(dev[d]).prox = dev[d].prox
          /\ TapTimer(dev[d]).id = dev[d].id
          /\ TapTimer(dev[d]).serial = dev[d].serial
          /\ TapTimer(dev[d]).enabled = dev[d].enabled
      BY <2>0 DEF TapTimer, ClickButton1, DevState
    <3>3. dev' = [dev EXCEPT ![d] = TapTimer(dev[d])] /\ UNCHANGED <<active, hw>>
      BY <2>1 DEF Timer
    <3>4. ASSUME Pressed(dev[d]) PROVE Pressed(TapTimer(dev[d]))
      <4> DEFINE fired == [dev[d] EXCEPT !.timer = FALSE]
                 t == [ClickButton1(ClickButton1(fired, TRUE), FALSE) EXCEPT !.mode = "none"]
      <4>1. /\ fired \in DevState /\ Pressed(fired)
            /\ fired.lcd = dev[d].lcd /\ fired.tip = dev[d].tip
        BY <2>0, <3>4 DEF DevState, Pressed, Stroke
      <4>2. TapTimer(dev[d]) = IF dev[d].mode = "predrag" THEN t ELSE fired
        BY DEF TapTimer
      <4> HIDE DEF fired
      <4>3. t.lcd = fired.lcd /\ t.tip = fired.tip /\ t.mode = "none" /\ t.btn = FALSE /\ t.sbtn = FALSE
        BY <4>1 DEF ClickButton1, DevState
      <4> HIDE DEF t
      <4>4. Pressed(t)
        BY <4>1, <4>3 DEF Pressed, Stroke
      <4> QED
        BY <4>1, <4>2, <4>4
    <3> QED
      BY <1>2, <3>1, <3>2, <3>3, <3>4 DEF Local
  <2>2. CASE SetGesture(d)
    <3> DEFINE s == [dev[d] EXCEPT !.gesture = ~@]
    <3>1. /\ s \in DevState /\ s.prox = dev[d].prox /\ s.id = dev[d].id
          /\ s.serial = dev[d].serial /\ s.enabled = dev[d].enabled
          /\ Pressed(dev[d]) => Pressed(s)
      BY <2>0 DEF DevState, Pressed, Stroke
    <3>2. dev' = [dev EXCEPT ![d] = s] /\ UNCHANGED <<active, hw>>
      BY <2>2 DEF SetGesture
    <3> HIDE DEF s
    <3> QED
      BY <1>2, <3>1, <3>2 DEF Local
  <2>3. CASE SetTouch(d)
    <3> DEFINE s == [dev[d] EXCEPT !.touchOn = ~@]
    <3>1. /\ s \in DevState /\ s.prox = dev[d].prox /\ s.id = dev[d].id
          /\ s.serial = dev[d].serial /\ s.enabled = dev[d].enabled
          /\ Pressed(dev[d]) => Pressed(s)
      BY <2>0 DEF DevState, Pressed, Stroke
    <3>2. dev' = [dev EXCEPT ![d] = s] /\ UNCHANGED <<active, hw>>
      BY <2>3 DEF SetTouch
    <3> HIDE DEF s
    <3> QED
      BY <1>2, <3>1, <3>2 DEF Local
  <2> QED
    BY <1>2, <2>1, <2>2, <2>3
<1>3. ASSUME NEW d \in Bindable, NEW serial \in Serials, BindToSerial(d, serial)
      PROVE  d \in Devices /\ Local(d)
  <2>1. d \in Devices /\ dev[d] \in DevState
    BY ToolAssumption DEF TypeOK
  <2> DEFINE s == [dev[d] EXCEPT !.serial = serial]
  <2>2. /\ s \in DevState /\ s.prox = dev[d].prox /\ s.id = dev[d].id
        /\ s.enabled = dev[d].enabled
        /\ s.sprox = dev[d].sprox /\ s.btn = dev[d].btn /\ s.sbtn = dev[d].sbtn
        /\ Pressed(dev[d]) => Pressed(s)
    BY <2>1 DEF DevState, Pressed, Stroke
  <2>3. dev' = [dev EXCEPT ![d] = s] /\ UNCHANGED <<active, hw>>
    BY <1>3 DEF BindToSerial
  <2> HIDE DEF s
  <2> QED
    BY <1>3, <2>1, <2>2, <2>3 DEF Local
<1>4. ASSUME NEW d \in Pluggable, DeviceOn(d) \/ DeviceOff(d)
      PROVE  d \in Devices /\ Local(d)
  <2>1. d \in Devices /\ dev[d] \in DevState
    BY ToolAssumption DEF TypeOK
  <2>2. CASE DeviceOn(d)
    <3> DEFINE s == [dev[d] EXCEPT !.enabled = TRUE]
    <3>1. /\ s \in DevState /\ s.prox = dev[d].prox /\ s.id = dev[d].id
          /\ s.serial = dev[d].serial
          /\ s.sprox = dev[d].sprox /\ s.btn = dev[d].btn /\ s.sbtn = dev[d].sbtn
          /\ Pressed(dev[d]) => Pressed(s)
      BY <2>1 DEF DevState, Pressed, Stroke
    <3>2. dev' = [dev EXCEPT ![d] = s] /\ UNCHANGED <<active, hw>>
      BY <2>2 DEF DeviceOn
    <3> HIDE DEF s
    <3> QED
      BY <2>1, <3>1, <3>2 DEF Local
  <2>3. CASE DeviceOff(d)
    <3> DEFINE b == [f \in Fingers |-> 0]
               s == [dev[d] EXCEPT !.enabled = FALSE, !.timer = FALSE,
                                   !.sbtn = FALSE, !.begun = b]
    <3>1. b \in [Fingers -> 0..2]
      OBVIOUS
    <3>2. dev' = [dev EXCEPT ![d] = s] /\ UNCHANGED <<active, hw>>
      BY <2>1, <2>3 DEF DeviceOff, TypeOK
    <3> HIDE DEF b
    <3>3. /\ s \in DevState /\ s.prox = dev[d].prox /\ s.id = dev[d].id
          /\ s.serial = dev[d].serial
          /\ s.sprox = dev[d].sprox /\ s.btn = dev[d].btn /\ ~s.sbtn
          /\ Pressed(dev[d]) => Pressed(s)
      BY <2>1, <3>1 DEF DevState, Pressed, Stroke
    <3> HIDE DEF s
    <3> QED
      BY <2>1, <3>2, <3>3 DEF Local
  <2> QED
    BY <1>4, <2>1, <2>2, <2>3
<1>5. ASSUME NEW d \in Pluggable, NEW gesture \in BOOLEAN, Replug(d, gesture)
      PROVE  d \in Devices /\ Replugged(d)
  <2>1. d \in Devices /\ dev[d] \in DevState
    BY ToolAssumption DEF TypeOK
  <2> DEFINE fresh == FreshDevice(d, BoundTo[d], dev[d].lcd, gesture)
             kept  == [fresh EXCEPT !.mode = dev[d].mode, !.cur = dev[d].cur,
                                    !.last = dev[d].last, !.tip = dev[d].tip]
             alone == \A e \in Devices \ {d} : Tablet[e] # Tablet[d]
             s     == IF alone THEN fresh ELSE kept
  <2>2. fresh \in DevState
    BY <2>1, FreshDeviceType DEF DevState
  <2>3. /\ ~fresh.prox /\ fresh.id = PhyId[d] /\ fresh.serial = BoundTo[d]
        /\ ~fresh.sprox /\ ~fresh.btn /\ ~fresh.sbtn
        /\ ~fresh.tip /\ fresh.mode = "none" /\ Pressed(fresh)
        /\ fresh.lcd = dev[d].lcd
    BY DEF FreshDevice, Pressed, Stroke
  <2>4. active' = (IF active = d THEN None ELSE active) /\ UNCHANGED hw
    BY <1>5 DEF Replug
  <2>5. dev' = [dev EXCEPT ![d] = s]
    BY <1>5 DEF Replug
  <2> HIDE DEF fresh, alone
  <2>6. /\ kept \in DevState
        /\ ~kept.prox /\ kept.id = PhyId[d] /\ kept.serial = BoundTo[d]
        /\ ~kept.sprox /\ ~kept.btn /\ ~kept.sbtn
        /\ Pressed(dev[d]) => Pressed(kept)
    BY <2>1, <2>2, <2>3 DEF DevState, Pressed, Stroke
  <2> HIDE DEF kept
  <2> QED
    BY <1>5, <2>1, <2>2, <2>3, <2>4, <2>5, <2>6 DEF Replugged
<1> QED
  BY <1>1, <1>2, <1>3, <1>4, <1>5 DEF Next, Report, Settle

\* Every variable keeps its type in every step.
LEMMA TypeStep == TypeOK /\ [Next]_vars => TypeOK'
<1> SUFFICES ASSUME TypeOK, [Next]_vars PROVE TypeOK'
  OBVIOUS
<1>1. ASSUME NEW d \in Devices, NEW p \in Tools, NEW ev \in Event, NEW reused, NEW o,
             o \in Observations(p), ToolStep(d, p, ev, reused, o)
      PROVE  TypeOK'
  <2>1. DevType[d] = Tool[p].type
    BY <1>1, FindToolType DEF ToolStep
  <2>2. DeviceEvent(d, p, ev, reused, o)
    BY <1>1 DEF ToolStep
  <2>3. active' \in Devices \cup {None} /\ dev' \in [Devices -> DevState]
    BY <1>1, <2>1, <2>2, DeviceEventType
  <2>4. hw' \in [Tools -> BOOLEAN]
    BY <1>1 DEF ToolStep, Event, TypeOK
  <2> QED
    BY <2>3, <2>4 DEF TypeOK
<1>2. ASSUME Unheard PROVE TypeOK'
  BY <1>2 DEF Unheard, TypeOK
<1>3. ASSUME NEW d \in Devices, Local(d) PROVE TypeOK'
  BY <1>3 DEF Local, TypeOK
<1>4. ASSUME NEW d \in Devices, Replugged(d) PROVE TypeOK'
  BY <1>4 DEF Replugged, TypeOK
<1>5. CASE UNCHANGED vars
  BY <1>5 DEF vars, TypeOK
<1> QED
  BY <1>1, <1>2, <1>3, <1>4, <1>5, StepCases

LEMMA TypeInit == Init => TypeOK
<1> SUFFICES ASSUME Init PROVE TypeOK
  OBVIOUS
<1>1. PICK display, gesture \in SUBSET {d \in Devices : IsTouch(d)} :
        dev = [d \in Devices |->
                 [FreshDevice(d, BoundTo[d], d \in display, d \in gesture)
                    EXCEPT !.enabled = TRUE]]
  BY DEF Init
<1>2. ASSUME NEW d \in Devices
      PROVE  [FreshDevice(d, BoundTo[d], d \in display, d \in gesture)
                EXCEPT !.enabled = TRUE] \in DevState
  <2>1. (d \in display) \in BOOLEAN /\ (d \in gesture) \in BOOLEAN
    OBVIOUS
  <2> DEFINE lcd == d \in display
             gest == d \in gesture
  <2>2. lcd \in BOOLEAN /\ gest \in BOOLEAN
    BY <2>1
  <2> HIDE DEF lcd, gest
  <2>3. FreshDevice(d, BoundTo[d], lcd, gest) \in DevState
    BY <2>2, FreshDeviceType
  <2>4. FreshDevice(d, BoundTo[d], d \in display, d \in gesture) \in DevState
    BY <2>3 DEF lcd, gest
  <2> QED
    BY <2>4 DEF DevState
<1>3. dev \in [Devices -> DevState]
  BY <1>1, <1>2
<1> QED
  BY <1>3 DEF Init, TypeOK

\* The variables have their types in every reachable state, for any tablets.
THEOREM TypeCorrect == Spec => []TypeOK
<1> QED
  BY TypeInit, TypeStep, PTL DEF Spec

-----------------------------------------------------------------------------
(***************************************************************************)
(* What the operators do to proximity, serial binding and device id.       *)
(***************************************************************************)

\* An event that is not for another serial number puts the device in or out.
LEMMA SendEventsEffect ==
  ASSUME NEW d \in Devices, NEW s \in DevState, NEW ev \in Event
  PROVE  LET t == SendEvents(d, s, ev)
         IN  /\ t.serial = s.serial
             /\ t.enabled = s.enabled
             /\ t.id \in {s.id, ev.id}
             /\ ~Mismatch(s, ev.serial) => t.prox = ev.prox /\ t.id = ev.id
<1> DEFINE entering == [s EXCEPT !.btn = s.prox /\ @]
           sent     == IF IsTouch(d) /\ ~TouchNeedSendEvents(s)
                       THEN entering
                       ELSE SendToolEvents(entering, ev)
<1>1. entering \in DevState /\ entering.serial = s.serial /\ entering.enabled = s.enabled
  BY DEF DevState
<1> HIDE DEF entering
<1>2. sent \in DevState /\ sent.serial = s.serial /\ sent.enabled = s.enabled
  <2>1. SendToolEvents(entering, ev) \in DevState
    BY <1>1, SendToolEventsType
  <2>2. /\ SendToolEvents(entering, ev).serial = entering.serial
        /\ SendToolEvents(entering, ev).enabled = entering.enabled
    BY <1>1 DEF SendToolEvents, DevState
  <2> QED
    BY <1>1, <2>1, <2>2
<1> HIDE DEF sent
<1> DEFINE t == [sent EXCEPT !.prox = ev.prox, !.btn = ev.prox /\ ev.btn, !.id = ev.id]
<1>3. /\ t.serial = s.serial /\ t.enabled = s.enabled
      /\ t.prox = ev.prox /\ t.id = ev.id
  BY <1>2 DEF DevState
<1>4. SendEvents(d, s, ev) = IF Mismatch(s, ev.serial) THEN s ELSE t
  BY DEF SendEvents, sent, entering
<1> HIDE DEF t
<1> QED
  BY <1>3, <1>4

\* The soft prox-out works on every device that is bound to no serial number.
LEMMA SoftOutEventEffect ==
  ASSUME NEW d \in Devices, NEW s \in DevState
  PROVE  LET t == SoftOutEvent(d, s)
         IN  /\ t.serial = s.serial
             /\ t.enabled = s.enabled
             /\ t.id \in {s.id, PhyId[d]}
             /\ s.serial = 0 => ~t.prox
<1> DEFINE ev == [prox |-> FALSE, btn |-> FALSE, id |-> PhyId[d], serial |-> 0]
<1>1. ev \in Event
  BY DeviceAssumption DEF Event
<1>2. s.serial = 0 => ~Mismatch(s, ev.serial)
  BY DEF Mismatch
<1>3. ~ev.prox /\ ev.id = PhyId[d]
  OBVIOUS
<1>4. SoftOutEvent(d, s) = SendEvents(d, s, ev)
  BY DEF SoftOutEvent
<1> HIDE DEF ev
<1> QED
  BY <1>1, <1>2, <1>3, <1>4, SendEventsEffect

\* No suppression keeps a device in proximity whose tool has left.
LEMMA DispatchEffect ==
  ASSUME NEW d \in Devices, NEW s \in DevState, NEW ev \in Event,
         NEW far, NEW quiet
  PROVE  LET t == Dispatch(d, s, ev, far, quiet)
         IN  /\ t.serial = s.serial
             /\ t.enabled = s.enabled
             /\ t.id \in {s.id, ev.id}
             /\ s.serial = 0 /\ ~ev.prox => ~t.prox
             /\ t.prox => t.id = ev.id \/ (s.prox /\ t.id = s.id)
<1> DEFINE clicked    == ev.btn /\ DevType[d] \in {"stylus", "cursor"}
           outOfRange == /\ d \in Relative
                         /\ DevType[d] \in {"stylus", "eraser", "cursor"}
                         /\ far /\ ~clicked
           sent == [ev EXCEPT !.prox = @ /\ ~outOfRange]
<1>1. outOfRange \in BOOLEAN
  OBVIOUS
<1> HIDE DEF outOfRange
<1>2. /\ sent \in Event /\ sent.id = ev.id /\ sent.serial = ev.serial
      /\ ~ev.prox => ~sent.prox
  BY <1>1 DEF Event
<1>3. Dispatch(d, s, ev, far, quiet) =
        IF \/ Mismatch(s, ev.serial)
           \/ ~ev.prox /\ ~s.prox
           \/ quiet /\ Unchanging(s, ev)
           \/ outOfRange /\ ~s.prox
        THEN s ELSE SendEvents(d, s, sent)
  BY DEF Dispatch, outOfRange
<1> HIDE DEF sent
<1>4. s.serial = 0 => ~Mismatch(s, ev.serial)
  BY DEF Mismatch
<1>5. Unchanging(s, ev) => s.prox = ev.prox
  BY DEF Unchanging
<1> QED
  BY <1>2, <1>3, <1>4, <1>5, SendEventsEffect

\* A cancelled gesture leaves proximity, serial and device id alone.
LEMMA CancelGestureEffect ==
  ASSUME NEW d \in Devices, NEW s \in DevState
  PROVE  LET t == CancelGesture(d, s)
         IN  /\ t.prox = s.prox /\ t.serial = s.serial /\ t.id = s.id
             /\ ~IsTouch(d) => t = s
<1> DEFINE released == IF s.mode = "drag" THEN ClickButton1(s, FALSE) ELSE s
<1>1. /\ released \in DevState
      /\ released.prox = s.prox /\ released.serial = s.serial /\ released.id = s.id
  BY ClickButton1Type DEF ClickButton1, DevState
<1>2. CancelGesture(d, s) = IF ~IsTouch(d) THEN s ELSE [released EXCEPT !.mode = "cancel"]
  BY DEF CancelGesture
<1> HIDE DEF released
<1> QED
  BY <1>1, <1>2 DEF DevState

\* The gesture filter changes the device id only by a soft prox-out.
LEMMA GestureFilterId ==
  ASSUME NEW d \in Devices, NEW s \in DevState, NEW f \in Fingers,
         NEW o, o.spread \in {"still", "scroll", "zoom"}
  PROVE  GestureFilter(d, s, f, o).id \in {s.id, PhyId[d]}
<1>1. ASSUME NEW t \in DevState, NEW mode PROVE [t EXCEPT !.mode = mode].id = t.id
  BY DEF DevState
<1>2. ASSUME NEW t \in DevState, NEW state PROVE ClickButton1(t, state).id = t.id
  BY DEF ClickButton1, DevState
<1>3. ASSUME NEW t \in DevState PROVE FingerMultitouch(t, f).id = t.id
  BY DEF FingerMultitouch, DevState
<1> DEFINE m == MultitouchStep(d, s, f)
           c == [m EXCEPT !.mode = IF @ = "cancel" THEN "none" ELSE @]
<1>4. m \in DevState /\ m.id = s.id
  <2> DEFINE enter == IF s.mode # "none" THEN s
                      ELSE [s EXCEPT !.mode = IF s.lcd THEN "multitouch"
                                              ELSE IF s.cur[2] THEN "lag" ELSE "none"]
  <2>1. enter \in DevState /\ enter.id = s.id
    BY DEF DevState, Modes
  <2>2. FingerMultitouch(enter, f).id = s.id
    BY <1>3, <2>1
  <2> HIDE DEF enter
  <2>3. CancelGesture(d, s).id = s.id
    BY CancelGestureEffect
  <2> QED
    BY <2>1, <2>2, <2>3, MultitouchStepType DEF MultitouchStep, enter
<1> HIDE DEF m
<1>5. c \in DevState /\ c.id = s.id
  BY <1>4 DEF DevState, Modes
<1> HIDE DEF c
<1>6. Gestures(d, c, f, o) \in DevState /\ Gestures(d, c, f, o).id \in {s.id, PhyId[d]}
  <2> DEFINE r == Debounce(c, o)
  <2>1. r \in DevState /\ r.id = s.id
    <3>1. r \in DevState
      BY <1>5, DebounceType
    <3>2. r.id = c.id
      BY <1>5 DEF Debounce, DevState
    <3> QED
      BY <1>5, <3>1, <3>2
  <2> HIDE DEF r
  <2>2. [ClickButton1(r, TRUE) EXCEPT !.mode = "drag"].id = s.id
    <3>1. ClickButton1(r, TRUE) \in DevState
      BY <2>1, ClickButton1Type
    <3>2. ClickButton1(r, TRUE).id = r.id
      BY <1>2, <2>1
    <3> QED
      BY <1>1, <2>1, <3>1, <3>2
  <2>3. AllFingersOut(d, r).id \in {s.id, PhyId[d]}
    <3> DEFINE softened == IF ~r.last[1] /\ r.mode # "none" THEN SoftOutEvent(d, r) ELSE r
    <3>1. softened \in DevState /\ softened.id \in {s.id, PhyId[d]}
      BY <2>1, SoftOutEventType, SoftOutEventEffect
    <3> HIDE DEF softened
    <3> DEFINE released == IF r.mode = "drag" THEN ClickButton1(softened, FALSE) ELSE softened
    <3>2. released \in DevState /\ released.id = softened.id
      BY <1>2, <3>1, ClickButton1Type
    <3> HIDE DEF released
    <3>3. AllFingersOut(d, r) = [released EXCEPT !.mode = "none"]
      BY DEF AllFingersOut, softened, released
    <3> QED
      BY <1>1, <3>1, <3>2, <3>3
  <2> DEFINE clicked == IF r.mode \notin {"scroll", "zoom"} /\ f = 2
                        THEN FingerTapToClick(r, o) ELSE r
  <2>4. clicked \in DevState /\ clicked.id = s.id
    <3>1. [ClickButton1(r, FALSE) EXCEPT !.mode = "tap"].id = r.id
      BY <1>1, <1>2, <2>1, ClickButton1Type
    <3>2. FingerTapToClick(r, o).id = r.id
      BY <3>1 DEF FingerTapToClick
    <3>3. FingerTapToClick(r, o) \in DevState
      BY <2>1, FingerTapToClickType
    <3> QED
      BY <2>1, <3>2, <3>3
  <2> HIDE DEF clicked
  <2>5. TwoFingerGesture(clicked, o).id = s.id
    <3>1. [ClickButton1(clicked, FALSE) EXCEPT !.mode = o.spread].id = clicked.id
      BY <1>1, <1>2, <2>4, ClickButton1Type
    <3> QED
      BY <2>4, <3>1 DEF TwoFingerGesture
  <2>6. Gestures(d, c, f, o) \in DevState
    BY <1>5, GesturesType
  <2> QED
    BY <2>1, <2>2, <2>3, <2>5, <2>6 DEF Gestures, r, clicked
<1> DEFINE g == Gestures(d, c, f, o)
<1>7. g \in DevState /\ g.id \in {s.id, PhyId[d]}
  BY <1>6
<1> HIDE DEF g
<1>8. SingleFinger(g, f, o).id = g.id
  <2>1. SingleFingerTap(g, o).id = g.id
    BY <1>7 DEF SingleFingerTap, DevState
  <2>2. ASSUME NEW t \in DevState PROVE SingleFingerPress(t).id = t.id
    <3> DEFINE pressed == t.cur[1] /\ ~t.cur[2]
               down    == IF pressed THEN "drag" ELSE "none"
    <3>1. SingleFingerPress(t) =
            IF ~t.lcd THEN t ELSE [t EXCEPT !.tip = pressed, !.mode = down]
      BY DEF SingleFingerPress
    <3> HIDE DEF pressed, down
    <3> QED
      BY <3>1 DEF DevState
  <2>3. SingleFingerPress(SingleFingerTap(g, o)).id = SingleFingerTap(g, o).id
    BY <1>7, <2>2, SingleFingerTapType
  <2> QED
    BY <2>1, <2>3 DEF SingleFinger
<1> QED
  BY <1>4, <1>7, <1>8 DEF GestureFilter, m, c, g

-----------------------------------------------------------------------------
(***************************************************************************)
(* Only the holder of the pointer is in proximity.  PointerExclusive is    *)
(* not inductive alone: the soft prox-out of the loser works because an    *)
(* unbound device has serial number 0.                                     *)
(***************************************************************************)
SerialOK == \A d \in Devices : Arbitrated(d) => dev[d].serial = 0

\* The last device id seen is one of the device's own kind of tool, so that
\* "same id as the active device" never lets a touch in beside a pen.
IdOK == \A d \in Devices : IdKind[dev[d].id] = Kind(DevType[d])

PointerInv == TypeOK /\ SerialOK /\ IdOK /\ PointerExclusive

\* A device that gets an event keeps its serial binding and its kind, and if
\* it is unbound and the tool left, it is out of proximity.
LEMMA DeliverEffect ==
  ASSUME NEW d \in Devices, NEW s \in DevState, NEW p \in Tools,
         DevType[d] = Tool[p].type, IdKind[s.id] = Kind(DevType[d]),
         NEW ev \in Event, ev.id = Tool[p].id, NEW o \in Observations(p)
  PROVE  LET t == Deliver(d, s, p, ev, o)
         IN  /\ IdKind[t.id] = Kind(DevType[d])
             /\ ~IsTouch(d) => t.serial = s.serial /\ t.enabled = s.enabled
             /\ ~IsTouch(d) /\ t.prox => t.id = ev.id \/ (s.prox /\ t.id = s.id)
             /\ ~IsTouch(d) /\ s.serial = 0 /\ ~ev.prox => ~t.prox
<1>1. IdKind[ev.id] = Kind(DevType[d]) /\ IdKind[PhyId[d]] = Kind(DevType[d])
  BY ToolAssumption
<1>2. CASE ~IsTouch(d)
  <2>1. Deliver(d, s, p, ev, o) = Dispatch(d, s, ev, o.far, o.quiet)
    BY <1>2 DEF Deliver
  <2> QED
    BY <1>1, <2>1, DispatchEffect
<1>3. CASE IsTouch(d)
  <2> DEFINE f == Tool[p].serial
             g == GestureFilter(d, s, f, o)
  <2>1. f \in Fingers
    BY <1>3, ToolAssumption DEF IsTouch
  <2>2. g \in DevState /\ IdKind[g.id] = Kind(DevType[d])
    BY <1>1, <2>1, ObservationType, GestureFilterType, GestureFilterId
  <2> HIDE DEF g
  <2> DEFINE press == [ev EXCEPT !.btn = g.tip]
  <2>3. press \in Event /\ press.id = ev.id
    BY <2>2 DEF Event, DevState
  <2> HIDE DEF press
  <2>4. IdKind[Dispatch(d, g, press, o.far, o.quiet).id] = Kind(DevType[d])
    BY <1>1, <2>2, <2>3, DispatchEffect
  <2>5. Deliver(d, s, p, ev, o) \in {g, Dispatch(d, g, press, o.far, o.quiet)}
    BY <1>3 DEF Deliver, g, press
  <2> QED
    BY <1>3, <2>2, <2>4, <2>5
<1> QED
  BY <1>2, <1>3

\* Taking the pointer leaves nobody but the taker in proximity.
LEMMA TakeControlEffect ==
  ASSUME PointerInv, NEW d \in Devices
  PROVE  \A e \in Devices :
           LET t == TakeControl(d)[e]
           IN  /\ IdKind[t.id] = Kind(DevType[e])
               /\ t.serial = dev[e].serial
               /\ ~IsTouch(e) => t.enabled = dev[e].enabled
               /\ Arbitrated(e) /\ e # d => ~t.prox
               /\ ~IsTouch(e) /\ t # dev[e] /\ dev[e].serial = 0 => ~t.prox
<1> SUFFICES ASSUME NEW e \in Devices
             PROVE  LET t == TakeControl(d)[e]
                    IN  /\ IdKind[t.id] = Kind(DevType[e])
                        /\ t.serial = dev[e].serial
                        /\ ~IsTouch(e) => t.enabled = dev[e].enabled
                        /\ Arbitrated(e) /\ e # d => ~t.prox
                        /\ ~IsTouch(e) /\ t # dev[e] /\ dev[e].serial = 0 => ~t.prox
  OBVIOUS
<1>1. dev[e] \in DevState /\ IdKind[dev[e].id] = Kind(DevType[e])
  BY DEF PointerInv, TypeOK, IdOK
<1>2. Arbitrated(e) /\ dev[e].prox => active = e
  BY DEF PointerInv, PointerExclusive
<1>3. CASE active \notin {None, d} /\ e = active
  <2> DEFINE s == SoftOutEvent(e, dev[e])
  <2>1. /\ s \in DevState /\ s.serial = dev[e].serial /\ s.enabled = dev[e].enabled
        /\ s.id \in {dev[e].id, PhyId[e]}
        /\ dev[e].serial = 0 => ~s.prox
    BY <1>1, SoftOutEventType, SoftOutEventEffect
  <2>2. IdKind[s.id] = Kind(DevType[e])
    BY <1>1, <2>1, ToolAssumption
  <2>3. TakeControl(d)[e] = CancelGesture(e, s)
    BY <1>3 DEF TakeControl, PointerInv, TypeOK
  <2>4. Arbitrated(e) => dev[e].serial = 0
    BY DEF PointerInv, SerialOK, Arbitrated
  <2> HIDE DEF s
  <2>5. /\ CancelGesture(e, s).prox = s.prox /\ CancelGesture(e, s).id = s.id
        /\ CancelGesture(e, s).serial = s.serial
        /\ ~IsTouch(e) => CancelGesture(e, s) = s
    BY <2>1, CancelGestureEffect
  <2> QED
    BY <2>1, <2>2, <2>3, <2>4, <2>5
<1>4. CASE ~(active \notin {None, d} /\ e = active)
  <2>1. TakeControl(d)[e] = dev[e]
    BY <1>4 DEF TakeControl, PointerInv, TypeOK
  <2> QED
    BY <1>1, <1>2, <1>4, <2>1, ToolAssumption
<1> QED
  BY <1>3, <1>4

LEMMA DeviceEventPointer ==
  ASSUME PointerInv, NEW d \in Devices, NEW p \in Tools, NEW ev \in Event, NEW reused,
         NEW o \in Observations(p), ToolStep(d, p, ev, reused, o)
  PROVE  SerialOK' /\ IdOK' /\ PointerExclusive'
<1> DEFINE recorded == IF IsTouch(d)
                       THEN RecordContact(dev[d], Tool[p].serial, ev.prox, reused)
                       ELSE dev[d]
           granted  == ArbitratedControl(d, ev.id, o.idle)
           base     == IF granted THEN TakeControl(d) ELSE dev
           t        == Deliver(d, recorded, p, ev, o)
<1>1. DevType[d] = Tool[p].type /\ ev.id = Tool[p].id
  BY FindToolType DEF ToolStep
<1>2. dev[d] \in DevState /\ dev \in [Devices -> DevState]
  BY DEF PointerInv, TypeOK
<1>3. /\ recorded \in DevState /\ recorded.id = dev[d].id
      /\ ~IsTouch(d) => recorded = dev[d]
  <2>1. IsTouch(d) => Tool[p].serial \in Fingers
    BY <1>1, ToolAssumption DEF IsTouch
  <2>2. ev.prox \in BOOLEAN
    BY DEF Event
  <2>3. IsTouch(d) => /\ RecordContact(dev[d], Tool[p].serial, ev.prox, reused) \in DevState
                      /\ RecordContact(dev[d], Tool[p].serial, ev.prox, reused).id = dev[d].id
    <3>1. RecordContact(dev[d], Tool[p].serial, ev.prox, reused).id = dev[d].id
      BY <1>2 DEF RecordContact, DevState
    <3> QED
      BY <1>2, <2>1, <2>2, <3>1, RecordContactType
  <2> QED
    BY <1>2, <2>3
<1>4. /\ active' = IF ~granted THEN active ELSE IF ev.prox THEN d ELSE None
      /\ dev' = IF granted \/ IsPad(d) THEN [base EXCEPT ![d] = t]
                ELSE [dev EXCEPT ![d] = recorded]
  BY DEF ToolStep, DeviceEvent
<1>5. base \in [Devices -> DevState]
  BY TakeControlType DEF PointerInv, TypeOK
<1>6. \A e \in Devices \ {d} :
        /\ IdKind[base[e].id] = Kind(DevType[e])
        /\ base[e].serial = dev[e].serial
        /\ Arbitrated(e) /\ granted => ~base[e].prox
        /\ ~granted => base[e] = dev[e]
  BY TakeControlEffect DEF PointerInv, IdOK
<1>7. IdKind[recorded.id] = Kind(DevType[d])
  BY <1>3 DEF PointerInv, IdOK
<1> HIDE DEF recorded
<1>8. /\ IdKind[t.id] = Kind(DevType[d])
      /\ ~IsTouch(d) => t.serial = dev[d].serial
      /\ ~IsTouch(d) /\ dev[d].serial = 0 /\ ~ev.prox => ~t.prox
  BY <1>1, <1>3, <1>7, DeliverEffect
<1> HIDE DEF t, base
<1>9. t \in DevState
  BY <1>1, <1>3, DeliverType DEF t
<1>10. Arbitrated(d) => ~IsTouch(d) /\ ~IsPad(d) /\ dev[d].serial = 0
  BY DEF Arbitrated, PointerInv, SerialOK
<1>11. CASE granted \/ IsPad(d)
  <2>1. dev' = [base EXCEPT ![d] = t]
    BY <1>4, <1>11
  <2>2. dev'[d] = t /\ \A e \in Devices \ {d} : dev'[e] = base[e]
    BY <1>5, <2>1
  <2>3. IdOK'
    BY <1>6, <1>8, <2>2 DEF IdOK
  <2>4. SerialOK'
    BY <1>6, <1>8, <1>10, <2>2 DEF SerialOK, Arbitrated, Unbound, PointerInv
  <2>5. CASE granted
    <3>1. PointerExclusive'
      BY <1>4, <1>6, <1>8, <1>10, <2>2, <2>5 DEF PointerExclusive, Arbitrated, Unbound
    <3> QED
      BY <2>3, <2>4, <3>1
  <2>6. CASE ~granted
    <3>1. active' = active /\ ~Arbitrated(d)
      BY <1>4, <1>10, <1>11, <2>6
    <3>2. PointerExclusive'
      BY <1>6, <2>2, <2>6, <3>1 DEF PointerInv, PointerExclusive, Arbitrated, Unbound
    <3> QED
      BY <2>3, <2>4, <3>2
  <2> QED
    BY <2>3, <2>4, <2>5, <2>6
<1>12. CASE ~(granted \/ IsPad(d))
  <2>1. active' = active /\ dev' = [dev EXCEPT ![d] = recorded]
    BY <1>4, <1>12
  <2>2. dev'[d] = recorded /\ \A e \in Devices \ {d} : dev'[e] = dev[e]
    BY <1>2, <2>1
  <2>3. IdOK'
    BY <1>7, <2>2 DEF IdOK, PointerInv
  <2>4. \A e \in Devices : Arbitrated(e) => dev'[e] = dev[e]
    BY <1>3, <1>10, <2>2
  <2> QED
    BY <2>1, <2>3, <2>4 DEF PointerInv, SerialOK, PointerExclusive, Arbitrated, Unbound
<1> QED
  BY <1>11, <1>12

LEMMA PointerInvStep == PointerInv /\ [Next]_vars => PointerInv'
<1> SUFFICES ASSUME PointerInv, [Next]_vars
             PROVE  PointerInv'
  OBVIOUS
<1>1. TypeOK /\ TypeOK'
  BY TypeStep DEF PointerInv
<1>2. ASSUME NEW d \in Devices, NEW p \in Tools, NEW ev \in Event, NEW reused,
             NEW o \in Observations(p), ToolStep(d, p, ev, reused, o)
      PROVE  PointerInv'
  BY <1>1, <1>2, DeviceEventPointer DEF PointerInv
<1>3. CASE Unheard
  BY <1>1, <1>3 DEF Unheard, PointerInv, SerialOK, IdOK, PointerExclusive,
                    Arbitrated, Unbound
<1>4. ASSUME NEW d \in Devices, Local(d) PROVE PointerInv'
  <2>1. PICK s \in DevState :
          /\ dev' = [dev EXCEPT ![d] = s]
          /\ s.prox = dev[d].prox /\ s.id = dev[d].id
          /\ d \notin Bindable => s.serial = dev[d].serial
    BY <1>4 DEF Local
  <2>2. dev'[d] = s /\ \A e \in Devices \ {d} : dev'[e] = dev[e]
    BY <1>1, <2>1 DEF TypeOK
  <2>3. active' = active
    BY <1>4 DEF Local
  <2> QED
    BY <1>1, <2>1, <2>2, <2>3 DEF PointerInv, SerialOK, IdOK, PointerExclusive,
                                  Arbitrated, Unbound
<1>5. ASSUME NEW d \in Devices, Replugged(d) PROVE PointerInv'
  <2>1. PICK s \in DevState :
          /\ dev' = [dev EXCEPT ![d] = s]
          /\ ~s.prox /\ s.id = PhyId[d] /\ s.serial = BoundTo[d]
    BY <1>5 DEF Replugged
  <2>2. dev'[d] = s /\ \A e \in Devices \ {d} : dev'[e] = dev[e]
    BY <1>1, <2>1 DEF TypeOK
  <2>3. active' = IF active = d THEN None ELSE active
    BY <1>5 DEF Replugged
  <2>4. SerialOK' /\ PointerExclusive'
    BY <2>1, <2>2, <2>3 DEF PointerInv, SerialOK, PointerExclusive, Arbitrated, Unbound
  <2>5. IdOK'
    BY <2>1, <2>2, ToolAssumption DEF PointerInv, IdOK
  <2> QED
    BY <1>1, <2>4, <2>5 DEF PointerInv
<1>6. CASE Next
  BY <1>1, <1>2, <1>3, <1>4, <1>5, <1>6, StepCases
<1>7. CASE UNCHANGED vars
  BY <1>1, <1>7 DEF vars, PointerInv, SerialOK, IdOK, PointerExclusive,
                    Arbitrated, Unbound
<1> QED
  BY <1>6, <1>7

LEMMA PointerInvInit == Init => PointerInv
<1> SUFFICES ASSUME Init PROVE PointerInv
  OBVIOUS
<1>1. TypeOK
  BY TypeInit
<1>2. PICK display, gesture \in SUBSET {d \in Devices : IsTouch(d)} :
        dev = [d \in Devices |->
                 [FreshDevice(d, BoundTo[d], d \in display, d \in gesture)
                    EXCEPT !.enabled = TRUE]]
  BY DEF Init
<1>3. ASSUME NEW d \in Devices
      PROVE  ~dev[d].prox /\ dev[d].id = PhyId[d] /\ dev[d].serial = BoundTo[d]
  BY <1>2 DEF FreshDevice
<1> QED
  BY <1>1, <1>3, ToolAssumption
     DEF PointerInv, SerialOK, IdOK, PointerExclusive, Arbitrated, Unbound

LEMMA PointerInvariance == Spec => []PointerInv
<1> QED
  BY PointerInvInit, PointerInvStep, PTL DEF Spec

\* At any time only the device that has the pointer is in proximity, whatever
\* the tablets, tools and devices: the device that loses the pointer has been
\* put out of proximity before the next one is let in (wcmEvent).
THEOREM OnePointer == Spec => []PointerExclusive
<1>1. PointerInv => PointerExclusive
  BY DEF PointerInv
<1> QED
  BY <1>1, PointerInvariance, PTL

-----------------------------------------------------------------------------
(***************************************************************************)
(* No device is left in proximity without a tool.  The out-event of a tool *)
(* is refused only while another device has the pointer, and then this one *)
(* is out of proximity, or while it is a puck that another tool of another *)
(* id is using: the id says whose out-event will be heard.                 *)
(***************************************************************************)
Heeded == \A d \in Devices : Observed(d) => dev[d].enabled /\ dev[d].serial = 0

Witnessed(d) == \E p \in Tools : FindTool(p) = d /\ hw[p] /\ Tool[p].id = dev[d].id
AllWitnessed == \A d \in Devices : Observed(d) /\ dev[d].prox => Witnessed(d)

GhostInv == PointerInv /\ Heeded /\ AllWitnessed

\* What an event of tool p does to an observed device.
LEMMA DeviceEventGhost ==
  ASSUME GhostInv, NEW d \in Devices, NEW p \in Tools, NEW ev \in Event, NEW reused,
         NEW o \in Observations(p), ToolStep(d, p, ev, reused, o)
  PROVE  Heeded' /\ AllWitnessed'
<1> DEFINE recorded == IF IsTouch(d)
                       THEN RecordContact(dev[d], Tool[p].serial, ev.prox, reused)
                       ELSE dev[d]
           granted  == ArbitratedControl(d, ev.id, o.idle)
           base     == IF granted THEN TakeControl(d) ELSE dev
           t        == Deliver(d, recorded, p, ev, o)
<1>1. DevType[d] = Tool[p].type /\ ev.id = Tool[p].id /\ FindTool(p) = d
  BY FindToolType DEF ToolStep
<1>2. dev[d] \in DevState /\ dev \in [Devices -> DevState] /\ hw \in [Tools -> BOOLEAN]
  BY DEF GhostInv, PointerInv, TypeOK
<1>3. hw' = [hw EXCEPT ![p] = ev.prox] /\ ev.prox \in BOOLEAN
  BY DEF ToolStep, Event
<1>4. dev' = IF granted \/ IsPad(d) THEN [base EXCEPT ![d] = t]
             ELSE [dev EXCEPT ![d] = recorded]
  BY DEF ToolStep, DeviceEvent
<1>5. base \in [Devices -> DevState]
  BY TakeControlType DEF GhostInv, PointerInv, TypeOK
<1>6. \A e \in Devices \ {d} : ~IsTouch(e) =>
        /\ base[e].serial = dev[e].serial
        /\ base[e].enabled = dev[e].enabled
        /\ base[e] # dev[e] /\ dev[e].serial = 0 => ~base[e].prox
  BY TakeControlEffect DEF GhostInv
<1>7. ~IsTouch(d) =>
        /\ recorded = dev[d]
        /\ t.serial = dev[d].serial /\ t.enabled = dev[d].enabled
        /\ t.prox => t.id = ev.id \/ (dev[d].prox /\ t.id = dev[d].id)
        /\ dev[d].serial = 0 /\ ~ev.prox => ~t.prox
  BY <1>1, <1>2, DeliverEffect DEF GhostInv, PointerInv, IdOK
<1>8. ~granted /\ Observed(d) /\ dev[d].prox => IsPad(d) \/ dev[d].id # ev.id
  <2> SUFFICES ASSUME ~granted, Observed(d), dev[d].prox, ~IsPad(d)
               PROVE  dev[d].id # ev.id
    OBVIOUS
  <2>1. Arbitrated(d)
    BY DEF Observed, Arbitrated
  <2>2. active = d
    BY <2>1 DEF GhostInv, PointerInv, PointerExclusive
  <2> QED
    BY <2>2 DEF ArbitratedControl
<1> HIDE DEF recorded, granted, base, t
<1>9. ASSUME NEW e \in Devices, Observed(e)
      PROVE  dev'[e].enabled /\ dev'[e].serial = 0 /\ (dev'[e].prox => Witnessed(e)')
  <2>1. /\ ~IsTouch(e) /\ dev[e].enabled /\ dev[e].serial = 0
        /\ dev[e].prox => Witnessed(e)
    BY <1>9 DEF Observed, GhostInv, Heeded, AllWitnessed
  <2>2. CASE e # d
    <3>1. dev'[e] = base[e] \/ dev'[e] = dev[e]
      BY <1>2, <1>4, <1>5, <2>2
    <3>2. dev'[e].enabled /\ dev'[e].serial = 0
      BY <1>6, <2>1, <2>2, <3>1
    <3>3. ASSUME dev'[e].prox PROVE Witnessed(e)'
      <4>1. dev'[e] = dev[e]
        BY <1>6, <2>1, <2>2, <3>1, <3>3
      <4>2. PICK q \in Tools : FindTool(q) = e /\ hw[q] /\ Tool[q].id = dev[e].id
        BY <2>1, <3>3, <4>1 DEF Witnessed
      <4>3. q # p /\ hw'[q]
        BY <1>1, <1>2, <1>3, <2>2, <4>2
      <4> QED
        BY <4>1, <4>2, <4>3 DEF Witnessed, FindTool, ToolDevices
    <3> QED
      BY <3>2, <3>3
  <2>3. CASE e = d /\ (granted \/ IsPad(d))
    <3>1. dev'[d] = t
      BY <1>4, <1>5, <2>3
    <3>2. dev'[d].enabled /\ dev'[d].serial = 0
      BY <1>7, <2>1, <2>3, <3>1
    <3>3. ASSUME t.prox PROVE Witnessed(d)'
      <4>1. ev.prox /\ hw'[p]
        BY <1>2, <1>3, <1>7, <2>1, <2>3, <3>3
      <4>2. CASE t.id = ev.id
        BY <1>1, <3>1, <4>1, <4>2 DEF Witnessed, FindTool, ToolDevices
      <4>3. CASE dev[d].prox /\ t.id = dev[d].id
        <5>1. PICK q \in Tools : FindTool(q) = d /\ hw[q] /\ Tool[q].id = dev[d].id
          BY <2>1, <2>3, <4>3 DEF Witnessed
        <5>2. hw'[q]
          BY <1>2, <1>3, <4>1, <5>1
        <5> QED
          BY <3>1, <4>3, <5>1, <5>2 DEF Witnessed, FindTool, ToolDevices
      <4> QED
        BY <1>7, <2>1, <2>3, <3>3, <4>2, <4>3
    <3> QED
      BY <2>3, <3>1, <3>2, <3>3
  <2>4. CASE e = d /\ ~(granted \/ IsPad(d))
    <3>1. dev'[d] = dev[d]
      BY <1>2, <1>4, <1>7, <2>1, <2>4
    <3>2. ASSUME dev[d].prox PROVE Witnessed(d)'
      <4>1. PICK q \in Tools : FindTool(q) = d /\ hw[q] /\ Tool[q].id = dev[d].id
        BY <2>1, <2>4, <3>2 DEF Witnessed
      <4>2. q # p
        BY <1>1, <1>8, <1>9, <2>4, <3>2, <4>1
      <4>3. hw'[q]
        BY <1>2, <1>3, <4>1, <4>2
      <4> QED
        BY <3>1, <4>1, <4>3 DEF Witnessed, FindTool, ToolDevices
    <3> QED
      BY <2>1, <2>4, <3>1, <3>2
  <2> QED
    BY <2>2, <2>3, <2>4
<1> QED
  BY <1>9 DEF Heeded, AllWitnessed, Observed, Unbound, IsTouch

LEMMA GhostInvStep == GhostInv /\ [Next]_vars => GhostInv'
<1> SUFFICES ASSUME GhostInv, [Next]_vars PROVE GhostInv'
  OBVIOUS
<1>1. PointerInv' /\ TypeOK
  BY PointerInvStep DEF GhostInv, PointerInv
<1>2. ASSUME NEW d \in Devices, NEW p \in Tools, NEW ev \in Event, NEW reused,
             NEW o \in Observations(p), ToolStep(d, p, ev, reused, o)
      PROVE  GhostInv'
  BY <1>1, <1>2, DeviceEventGhost DEF GhostInv
<1>3. ASSUME \A e \in Devices : Observed(e) => dev'[e].prox = dev[e].prox
                 /\ dev'[e].id = dev[e].id
                 /\ dev'[e].enabled = dev[e].enabled /\ dev'[e].serial = dev[e].serial,
             \A e \in Devices, q \in Tools :
                Observed(e) /\ FindTool(q) = e => hw'[q] = hw[q]
      PROVE  GhostInv'
  <2>1. Heeded'
    BY <1>3 DEF GhostInv, Heeded, Observed, Unbound, IsTouch
  <2>2. ASSUME NEW e \in Devices, Observed(e), dev'[e].prox PROVE Witnessed(e)'
    <3>1. PICK q \in Tools : FindTool(q) = e /\ hw[q] /\ Tool[q].id = dev[e].id
      BY <1>3, <2>2 DEF GhostInv, AllWitnessed, Witnessed
    <3> QED
      BY <1>3, <2>2, <3>1 DEF Witnessed, FindTool, ToolDevices
  <2>3. AllWitnessed'
    BY <2>2 DEF AllWitnessed, Observed, Unbound, IsTouch
  <2> QED
    BY <1>1, <2>1, <2>3 DEF GhostInv
<1>4. CASE Unheard
  <2>1. PICK p \in Tools, prox \in BOOLEAN :
          /\ hw' = [hw EXCEPT ![p] = prox]
          /\ FindTool(p) = None \/ ~dev[FindTool(p)].enabled \/ IsTouch(FindTool(p))
    BY <1>4 DEF Unheard
  <2>2. \A e \in Devices : Observed(e) => FindTool(p) # e
    BY <2>1, ToolAssumption DEF Observed, GhostInv, Heeded
  <2>3. \A e \in Devices, q \in Tools :
          Observed(e) /\ FindTool(q) = e => hw'[q] = hw[q]
    BY <1>1, <2>1, <2>2 DEF TypeOK
  <2> QED
    BY <1>3, <1>4, <2>3 DEF Unheard
<1>5. ASSUME NEW d \in Devices, Local(d) PROVE GhostInv'
  <2>1. PICK s \in DevState :
          /\ dev' = [dev EXCEPT ![d] = s]
          /\ s.prox = dev[d].prox /\ s.id = dev[d].id
          /\ d \notin Bindable => s.serial = dev[d].serial
          /\ d \notin Pluggable => s.enabled = dev[d].enabled
    BY <1>5 DEF Local
  <2>2. dev'[d] = s /\ \A e \in Devices \ {d} : dev'[e] = dev[e]
    BY <1>1, <2>1 DEF TypeOK
  <2>3. hw' = hw
    BY <1>5 DEF Local
  <2> QED
    BY <1>3, <2>1, <2>2, <2>3 DEF Observed, Unbound
<1>6. ASSUME NEW d \in Devices, Replugged(d) PROVE GhostInv'
  <2>1. ~Observed(d) /\ hw' = hw
    BY <1>6 DEF Replugged, Observed
  <2>2. \A e \in Devices \ {d} : dev'[e] = dev[e]
    BY <1>1, <1>6 DEF Replugged, TypeOK
  <2> QED
    BY <1>3, <2>1, <2>2
<1>7. CASE UNCHANGED vars
  BY <1>3, <1>7 DEF vars
<1> QED
  BY <1>1, <1>2, <1>4, <1>5, <1>6, <1>7, StepCases

LEMMA GhostInvInit == Init => GhostInv
<1> SUFFICES ASSUME Init PROVE GhostInv
  OBVIOUS
<1>1. PICK display, gesture \in SUBSET {d \in Devices : IsTouch(d)} :
        dev = [d \in Devices |->
                 [FreshDevice(d, BoundTo[d], d \in display, d \in gesture)
                    EXCEPT !.enabled = TRUE]]
  BY DEF Init
<1>2. \A d \in Devices : dev[d].enabled /\ dev[d].serial = BoundTo[d] /\ ~dev[d].prox
  BY <1>1 DEF FreshDevice
<1> QED
  BY <1>2, PointerInvInit DEF GhostInv, Heeded, AllWitnessed, Observed, Unbound

\* A pen, puck or pad whose tools have all left is out of proximity, for any tools
\* that share a device: wcmEvent refuses no prox-out that matters.
THEOREM NoGhosts == Spec => []NoGhostProximity
<1>1. GhostInv => NoGhostProximity
  BY DEF GhostInv, AllWitnessed, Witnessed, NoGhostProximity, InRange, ToolsOf
<1> QED
  BY <1>1, GhostInvInit, GhostInvStep, PTL DEF Spec

-----------------------------------------------------------------------------
(***************************************************************************)
(* The server's view.  For a device that is not a touch device, events go  *)
(* to the server only from SendEvents, and keep Agrees.                    *)
(***************************************************************************)
Agrees(s) == s.sprox = s.prox /\ (s.sbtn => s.btn) /\ (s.btn => s.prox)

LEMMA SendEventsAgrees ==
  ASSUME NEW d \in Devices, ~IsTouch(d), NEW s \in DevState, Agrees(s), NEW ev \in Event
  PROVE  Agrees(SendEvents(d, s, ev))
<1> DEFINE entering == [s EXCEPT !.btn = s.prox /\ @]
           sent     == SendToolEvents(entering, ev)
<1>1. entering = s
  BY DEF Agrees, DevState
<1>2. ev.prox \in BOOLEAN /\ ev.btn \in BOOLEAN
  BY DEF Event
<1>3. /\ sent \in DevState
      /\ ev.prox => sent.sprox /\ (sent.sbtn => ev.btn)
      /\ ~ev.prox => ~sent.sprox /\ ~sent.sbtn
  <2>1. sent \in DevState
    BY <1>1, SendToolEventsType
  <2>2. CASE ev.prox
    <3> DEFINE button == IF s.btn # ev.btn THEN ev.btn ELSE s.sbtn
               near   == s.sprox \/ ~s.prox
    <3>1. sent = [s EXCEPT !.sprox = near, !.sbtn = button]
      BY <1>1, <2>2 DEF SendToolEvents
    <3>2. (button => ev.btn) /\ near
      BY <1>2 DEF Agrees, DevState
    <3> HIDE DEF button, near
    <3>3. sent.sprox = near /\ sent.sbtn = button
      BY <3>1 DEF DevState
    <3> QED
      BY <2>1, <2>2, <3>2, <3>3
  <2>3. CASE ~ev.prox
    <3> DEFINE button == IF s.btn THEN FALSE ELSE s.sbtn
               near   == IF s.prox THEN FALSE ELSE s.sprox
    <3>1. sent = [s EXCEPT !.sprox = near, !.sbtn = button]
      BY <1>1, <2>3 DEF SendToolEvents
    <3>2. ~button /\ ~near
      BY DEF Agrees, DevState
    <3> HIDE DEF button, near
    <3>3. sent.sprox = near /\ sent.sbtn = button
      BY <3>1 DEF DevState
    <3> QED
      BY <2>1, <2>3, <3>2, <3>3
  <2> QED
    BY <2>1, <2>2, <2>3
<1>4. SendEvents(d, s, ev) =
        IF Mismatch(s, ev.serial) THEN s
        ELSE [sent EXCEPT !.prox = ev.prox, !.btn = ev.prox /\ ev.btn, !.id = ev.id]
  BY DEF SendEvents
<1> HIDE DEF sent, entering
<1> DEFINE t == [sent EXCEPT !.prox = ev.prox, !.btn = ev.prox /\ ev.btn, !.id = ev.id]
<1>5. /\ t.sprox = sent.sprox /\ t.sbtn = sent.sbtn
      /\ t.prox = ev.prox /\ t.btn = (ev.prox /\ ev.btn)
  BY <1>3 DEF DevState
<1> HIDE DEF t
<1>6. sent.sprox \in BOOLEAN
  BY <1>3 DEF DevState
<1>7. Agrees(t)
  BY <1>2, <1>3, <1>5, <1>6 DEF Agrees
<1> QED
  BY <1>4, <1>7 DEF t

LEMMA DispatchAgrees ==
  ASSUME NEW d \in Devices, ~IsTouch(d), NEW s \in DevState, Agrees(s),
         NEW ev \in Event, NEW far, NEW quiet
  PROVE  Agrees(Dispatch(d, s, ev, far, quiet))
<1> DEFINE clicked    == ev.btn /\ DevType[d] \in {"stylus", "cursor"}
           outOfRange == /\ d \in Relative
                         /\ DevType[d] \in {"stylus", "eraser", "cursor"}
                         /\ far /\ ~clicked
           sent == [ev EXCEPT !.prox = @ /\ ~outOfRange]
<1>1. sent \in Event
  <2>1. outOfRange \in BOOLEAN
    OBVIOUS
  <2> HIDE DEF outOfRange
  <2> QED
    BY <2>1 DEF Event
<1>2. Dispatch(d, s, ev, far, quiet) \in {s, SendEvents(d, s, sent)}
  BY DEF Dispatch
<1> HIDE DEF sent
<1> QED
  BY <1>1, <1>2, SendEventsAgrees

LEMMA SoftOutAgrees ==
  ASSUME NEW d \in Devices, ~IsTouch(d), NEW s \in DevState, Agrees(s)
  PROVE  Agrees(SoftOutEvent(d, s))
<1>1. [prox |-> FALSE, btn |-> FALSE, id |-> PhyId[d], serial |-> 0] \in Event
  BY DeviceAssumption DEF Event
<1> QED
  BY <1>1, SendEventsAgrees DEF SoftOutEvent

LEMMA DeviceEventAgrees ==
  ASSUME TypeOK, ServerAgrees, NEW d \in Devices, NEW p \in Tools, NEW ev \in Event,
         NEW reused, NEW o, o \in Observations(p), DeviceEvent(d, p, ev, reused, o)
  PROVE  ServerAgrees'
<1> SUFFICES ASSUME NEW e \in Devices, ~IsTouch(e) PROVE Agrees(dev'[e])
  BY DEF ServerAgrees, Agrees, IsTouch
<1>1. dev[e] \in DevState /\ Agrees(dev[e]) /\ dev \in [Devices -> DevState]
  BY DEF ServerAgrees, Agrees, TypeOK
<1> DEFINE recorded == IF IsTouch(d)
                       THEN RecordContact(dev[d], Tool[p].serial, ev.prox, reused)
                       ELSE dev[d]
           granted  == ArbitratedControl(d, ev.id, o.idle)
           base     == IF granted THEN TakeControl(d) ELSE dev
           t        == Deliver(d, recorded, p, ev, o)
<1>2. dev' = IF granted \/ IsPad(d) THEN [base EXCEPT ![d] = t]
             ELSE [dev EXCEPT ![d] = recorded]
  BY DEF DeviceEvent
<1>3. base \in [Devices -> DevState]
  BY TakeControlType DEF TypeOK
<1>4. Agrees(base[e])
  <2>1. Agrees(TakeControl(d)[e])
    <3>1. CASE active \notin {None, d} /\ e = active
      <4>1. TakeControl(d)[e] = CancelGesture(e, SoftOutEvent(e, dev[e]))
        BY <1>1, <3>1 DEF TakeControl
      <4>2. SoftOutEvent(e, dev[e]) \in DevState
        BY <1>1, SoftOutEventType
      <4>3. TakeControl(d)[e] = SoftOutEvent(e, dev[e])
        BY <4>1, <4>2, CancelGestureEffect
      <4> QED
        BY <1>1, <4>3, SoftOutAgrees
    <3>2. CASE ~(active \notin {None, d} /\ e = active)
      BY <1>1, <3>2 DEF TakeControl, TypeOK
    <3> QED
      BY <3>1, <3>2
  <2> QED
    BY <1>1, <2>1
<1>5. e = d => recorded = dev[d] /\ Agrees(t)
  BY <1>1, DispatchAgrees DEF Deliver
<1> HIDE DEF base, t, recorded, granted
<1> QED
  BY <1>1, <1>2, <1>3, <1>4, <1>5

LEMMA ServerAgreesStep == TypeOK /\ ServerAgrees /\ [Next]_vars => ServerAgrees'
<1> SUFFICES ASSUME TypeOK, ServerAgrees, [Next]_vars PROVE ServerAgrees'
  OBVIOUS
<1>1. ASSUME NEW d \in Devices, NEW p \in Tools, NEW ev \in Event, NEW reused, NEW o,
             o \in Observations(p), ToolStep(d, p, ev, reused, o)
      PROVE  ServerAgrees'
  BY <1>1, DeviceEventAgrees DEF ToolStep
<1>2. CASE Unheard
  BY <1>2 DEF Unheard, ServerAgrees
<1>3. ASSUME NEW d \in Devices, Local(d) PROVE ServerAgrees'
  <2>1. PICK s \in DevState :
          /\ dev' = [dev EXCEPT ![d] = s]
          /\ s.prox = dev[d].prox
          /\ ~IsTouch(d) => /\ s.sprox = dev[d].sprox
                            /\ s.btn = dev[d].btn
                            /\ s.sbtn => dev[d].sbtn
    BY <1>3 DEF Local
  <2>2. dev'[d] = s /\ \A e \in Devices \ {d} : dev'[e] = dev[e]
    BY <2>1 DEF TypeOK
  <2> QED
    BY <2>1, <2>2 DEF ServerAgrees
<1>4. ASSUME NEW d \in Devices, Replugged(d) PROVE ServerAgrees'
  <2>1. PICK s \in DevState :
          /\ dev' = [dev EXCEPT ![d] = s]
          /\ ~s.prox /\ ~s.sprox /\ ~s.btn /\ ~s.sbtn
    BY <1>4 DEF Replugged
  <2>2. dev'[d] = s /\ \A e \in Devices \ {d} : dev'[e] = dev[e]
    BY <2>1 DEF TypeOK
  <2>3. s.sprox = s.prox
    BY <2>1 DEF DevState
  <2> QED
    BY <2>1, <2>2, <2>3 DEF ServerAgrees
<1>5. CASE UNCHANGED vars
  BY <1>5 DEF vars, ServerAgrees
<1> QED
  BY <1>1, <1>2, <1>3, <1>4, <1>5, StepCases

LEMMA ServerAgreesInit == Init => ServerAgrees
<1> SUFFICES ASSUME Init PROVE ServerAgrees
  OBVIOUS
<1>1. PICK display, gesture \in SUBSET {d \in Devices : IsTouch(d)} :
        dev = [d \in Devices |->
                 [FreshDevice(d, BoundTo[d], d \in display, d \in gesture)
                    EXCEPT !.enabled = TRUE]]
  BY DEF Init
<1>2. ASSUME NEW d \in Devices
      PROVE  ~dev[d].prox /\ ~dev[d].sprox /\ ~dev[d].btn /\ ~dev[d].sbtn
             /\ dev[d].prox = dev[d].sprox
  BY <1>1 DEF FreshDevice
<1> QED
  BY <1>2 DEF ServerAgrees

\* What the server was last told of a pen, puck or pad is what the driver
\* remembers of it (wcmSendEvents keeps oldState in step with what it sends),
\* for any number of devices and any interleaving of their events.
THEOREM ServerInStep == Spec => []ServerAgrees
<1> QED
  BY TypeInit, TypeStep, ServerAgreesInit, ServerAgreesStep, PTL DEF Spec

-----------------------------------------------------------------------------
(***************************************************************************)
(* What sending events and recognising gestures do to a touch device.      *)
(***************************************************************************)

\* Everything but proximity, buttons, device id and mode stays the same.
Kept(s, t) ==
  /\ t.enabled = s.enabled /\ t.serial = s.serial
  /\ t.cur = s.cur /\ t.last = s.last /\ t.tip = s.tip
  /\ t.begun = s.begun /\ t.timer = s.timer
  /\ t.lcd = s.lcd /\ t.gesture = s.gesture /\ t.touchOn = s.touchOn

LEMMA KeptTwice ==
  ASSUME NEW s, NEW t, NEW u, Kept(s, t), Kept(t, u)
  PROVE  Kept(s, u)
  BY DEF Kept

LEMMA ModeEffect ==
  ASSUME NEW s \in DevState, NEW mode \in Modes
  PROVE  LET t == [s EXCEPT !.mode = mode]
         IN  /\ t \in DevState /\ t.mode = mode /\ Kept(s, t)
             /\ t.prox = s.prox /\ t.btn = s.btn /\ t.sbtn = s.sbtn /\ t.id = s.id
  BY DEF DevState, Kept

LEMMA ClickButton1Effect ==
  ASSUME NEW s \in DevState, NEW state \in BOOLEAN
  PROVE  LET t == ClickButton1(s, state)
         IN  /\ t \in DevState /\ t.mode = s.mode /\ Kept(s, t)
             /\ t.prox = s.prox /\ ~t.btn /\ t.sbtn = state /\ t.id = s.id
<1>1. ClickButton1(s, state) \in DevState
  BY ClickButton1Type
<1> QED
  BY <1>1 DEF ClickButton1, DevState, Kept

\* The button the server sees changes only outside gestures.
LEMMA TouchSendEventsEffect ==
  ASSUME NEW d \in Devices, IsTouch(d), NEW s \in DevState, NEW ev \in Event,
         s.serial = 0
  PROVE  LET t    == SendEvents(d, s, ev)
             down == s.prox /\ s.btn
         IN  /\ t \in DevState /\ t.mode = s.mode /\ Kept(s, t)
             /\ t.prox = ev.prox /\ t.btn = (ev.prox /\ ev.btn) /\ t.id = ev.id
             /\ t.sbtn = IF TouchNeedSendEvents(s)
                         THEN IF ev.prox
                              THEN IF down # ev.btn THEN ev.btn ELSE s.sbtn
                              ELSE IF down THEN FALSE ELSE s.sbtn
                         ELSE s.sbtn
<1> DEFINE down     == s.prox /\ s.btn
           entering == [s EXCEPT !.btn = s.prox /\ @]
           sent     == IF ~TouchNeedSendEvents(s) THEN entering
                       ELSE SendToolEvents(entering, ev)
           t        == [sent EXCEPT !.prox = ev.prox, !.btn = ev.prox /\ ev.btn,
                                    !.id = ev.id]
<1>1. down \in BOOLEAN
  OBVIOUS
<1>2. entering = [s EXCEPT !.btn = down]
  BY DEF DevState
<1>3. SendEvents(d, s, ev) = t
  BY DEF SendEvents, Mismatch
<1>4. SendEvents(d, s, ev) \in DevState
  BY SendEventsType
<1> HIDE DEF down, entering
<1>5. /\ entering \in DevState /\ entering.btn = down /\ entering.mode = s.mode
      /\ Kept(s, entering) /\ entering.prox = s.prox /\ entering.sbtn = s.sbtn
  BY <1>1, <1>2 DEF DevState, Kept
<1>6. LET u == SendToolEvents(entering, ev)
      IN  /\ u \in DevState /\ u.mode = s.mode /\ Kept(entering, u)
          /\ u.sbtn = IF ev.prox
                      THEN IF down # ev.btn THEN ev.btn ELSE s.sbtn
                      ELSE IF down THEN FALSE ELSE s.sbtn
  <2>1. SendToolEvents(entering, ev) \in DevState
    BY <1>5, SendToolEventsType
  <2>2. CASE ev.prox
    <3> DEFINE b == IF entering.btn # ev.btn THEN ev.btn ELSE entering.sbtn
               near == entering.sprox \/ ~entering.prox
    <3>1. SendToolEvents(entering, ev) = [entering EXCEPT !.sprox = near, !.sbtn = b]
      BY <2>2 DEF SendToolEvents
    <3>2. b = IF down # ev.btn THEN ev.btn ELSE s.sbtn
      BY <1>5
    <3> HIDE DEF b, near
    <3> QED
      BY <1>5, <2>1, <2>2, <3>1, <3>2 DEF DevState, Kept
  <2>3. CASE ~ev.prox
    <3> DEFINE b == IF entering.btn THEN FALSE ELSE entering.sbtn
               n == IF entering.prox THEN FALSE ELSE entering.sprox
    <3>1. SendToolEvents(entering, ev) = [entering EXCEPT !.sprox = n, !.sbtn = b]
      BY <2>3 DEF SendToolEvents
    <3>2. b = IF down THEN FALSE ELSE s.sbtn
      BY <1>5
    <3> HIDE DEF b, n
    <3> QED
      BY <1>5, <2>1, <2>3, <3>1, <3>2 DEF DevState, Kept
  <2> QED
    BY <2>2, <2>3
<1>7. /\ sent \in DevState /\ sent.mode = s.mode /\ Kept(s, sent)
      /\ sent.sbtn = IF TouchNeedSendEvents(s)
                     THEN IF ev.prox
                          THEN IF down # ev.btn THEN ev.btn ELSE s.sbtn
                          ELSE IF down THEN FALSE ELSE s.sbtn
                     ELSE s.sbtn
  BY <1>5, <1>6, KeptTwice
<1> HIDE DEF sent
<1> DEFINE b == ev.prox /\ ev.btn
<1>8. b \in BOOLEAN
  OBVIOUS
<1> HIDE DEF b
<1>9. /\ t.mode = sent.mode /\ Kept(sent, t) /\ t.sbtn = sent.sbtn
      /\ t.prox = ev.prox /\ t.btn = b /\ t.id = ev.id
  <2>1. t = [sent EXCEPT !.prox = ev.prox, !.btn = b, !.id = ev.id]
    BY DEF b
  <2> QED
    BY <1>7, <2>1 DEF DevState, Kept
<1> HIDE DEF t
<1> QED
  BY <1>3, <1>4, <1>7, <1>9, KeptTwice DEF b, down

-----------------------------------------------------------------------------
(***************************************************************************)
(* The button of a touch device is down at the server only while a finger  *)
(* drags (Pressed), so whoever takes the pointer releases it by ending the *)
(* drag.                                                                   *)
(***************************************************************************)
\* Between the filter and the event it lets through, a display may have left
\* drag mode with the button still down: the event itself will release it.
Pressing(s) ==
  /\ Stroke(s)
  /\ s.sbtn => s.mode = "drag" \/ (s.mode = "none" /\ s.lcd /\ s.gesture)
  /\ s.tip => s.mode = "drag"

LEMMA SoftOutPressed ==
  ASSUME NEW d \in Devices, IsTouch(d), NEW s \in DevState, s.serial = 0, Pressed(s)
  PROVE  LET t == SoftOutEvent(d, s)
         IN  /\ t \in DevState /\ t.mode = s.mode /\ Kept(s, t) /\ Pressed(t)
             /\ ~t.prox /\ ~t.btn /\ t.id = PhyId[d]
             /\ s.lcd => ~t.sbtn
<1> DEFINE ev == [prox |-> FALSE, btn |-> FALSE, id |-> PhyId[d], serial |-> 0]
<1>1. ev \in Event /\ ~ev.prox /\ ~ev.btn /\ ev.id = PhyId[d]
  BY DeviceAssumption DEF Event
<1>2. SoftOutEvent(d, s) = SendEvents(d, s, ev)
  BY DEF SoftOutEvent
<1> HIDE DEF ev
<1> DEFINE t == SendEvents(d, s, ev)
<1>3. /\ t \in DevState /\ t.mode = s.mode /\ Kept(s, t)
      /\ ~t.prox /\ ~t.btn /\ t.id = PhyId[d]
      /\ t.sbtn = IF TouchNeedSendEvents(s) THEN IF s.prox /\ s.btn THEN FALSE ELSE s.sbtn
                  ELSE s.sbtn
  BY <1>1, TouchSendEventsEffect
<1> HIDE DEF t
<1>4. Pressed(t) /\ (s.lcd => ~t.sbtn)
  BY <1>3 DEF Pressed, Stroke, Kept, TouchNeedSendEvents
<1> QED
  BY <1>2, <1>3, <1>4 DEF t

\* Ending the gesture of a device releases its button.
LEMMA CancelPressed ==
  ASSUME NEW d \in Devices, IsTouch(d), NEW s \in DevState, Pressed(s)
  PROVE  LET t == CancelGesture(d, s)
         IN  /\ t \in DevState /\ t.mode = "cancel" /\ Kept(s, t) /\ Pressed(t)
             /\ t.prox = s.prox /\ ~t.sbtn /\ t.id = s.id
<1> DEFINE released == IF s.mode = "drag" THEN ClickButton1(s, FALSE) ELSE s
           t == [released EXCEPT !.mode = "cancel"]
<1>1. /\ released \in DevState /\ Kept(s, released) /\ Stroke(released)
      /\ released.prox = s.prox /\ ~released.sbtn /\ released.id = s.id
  BY ClickButton1Effect DEF Pressed, Stroke, Kept
<1>2. CancelGesture(d, s) = t
  BY DEF CancelGesture
<1> HIDE DEF released
<1>3. /\ t \in DevState /\ t.mode = "cancel" /\ Kept(released, t)
      /\ t.prox = released.prox /\ t.btn = released.btn /\ t.sbtn = released.sbtn
      /\ t.id = released.id
  BY <1>1, ModeEffect DEF Modes
<1> HIDE DEF t
<1>4. Pressed(t)
  BY <1>1, <1>3 DEF Pressed, Stroke, Kept
<1> QED
  BY <1>1, <1>2, <1>3, <1>4, KeptTwice

\* The first step of the filter: multitouch takes no button, and with gestures
\* off no button is left down.
LEMMA MultitouchStepPressed ==
  ASSUME NEW d \in Devices, IsTouch(d), NEW s \in DevState, NEW f \in Fingers, Pressed(s)
  PROVE  LET t == MultitouchStep(d, s, f)
         IN  /\ t \in DevState /\ Pressed(t)
             /\ t.prox = s.prox /\ t.id = s.id /\ t.serial = s.serial /\ t.tip = s.tip
             /\ t.gesture = s.gesture /\ t.lcd = s.lcd
             /\ t.cur = s.cur /\ t.last = s.last
             /\ ~s.gesture => ~t.sbtn /\ t.mode \in {"none", "multitouch", "lag", "cancel"}
<1> DEFINE Same(t) == /\ t.prox = s.prox /\ t.id = s.id /\ t.serial = s.serial
                      /\ t.tip = s.tip /\ t.btn = s.btn /\ t.sbtn = s.sbtn
                      /\ t.gesture = s.gesture /\ t.lcd = s.lcd
                      /\ t.cur = s.cur /\ t.last = s.last
           began == IF s.mode # "none" THEN s.mode
                    ELSE IF s.lcd THEN "multitouch" ELSE IF s.cur[2] THEN "lag" ELSE "none"
           enter == IF s.mode # "none" THEN s ELSE [s EXCEPT !.mode = began]
<1>0. MultitouchStep(d, s, f) =
        CASE s.gesture \/ s.mode = "cancel" -> s
          [] ~s.gesture /\ s.mode \in {"none", "lag", "multitouch"} ->
               IF enter.mode = "none" THEN enter ELSE FingerMultitouch(enter, f)
          [] OTHER -> CancelGesture(d, s)
  BY DEF MultitouchStep
<1>1. enter \in DevState /\ Same(enter) /\ enter.mode = began
  BY DEF DevState, Modes
<1> HIDE DEF enter
<1>2. ASSUME NEW e \in DevState, Same(e), e.mode \in {"lag", "multitouch"}
      PROVE  LET t == FingerMultitouch(e, f)
             IN  /\ t \in DevState /\ Same(t)
                 /\ t.mode \in {"none", "multitouch", e.mode}
  <2> DEFINE begun == [g \in Fingers |-> IF e.mode = "lag" \/ g = f
                                         THEN TouchEvents(e, g, e.mode = "lag") ELSE e.begun[g]]
             mode  == CASE \A g \in Fingers : ~e.cur[g] -> "none"
                        [] (\E g \in Fingers : e.cur[g]) /\ e.mode = "lag" -> "multitouch"
                        [] OTHER -> e.mode
  <2>1. mode \in {"none", "multitouch", e.mode}
    OBVIOUS
  <2>2. FingerMultitouch(e, f) = [e EXCEPT !.begun = begun, !.mode = mode]
    BY DEF FingerMultitouch
  <2> HIDE DEF begun, mode
  <2>3. FingerMultitouch(e, f).mode = mode /\ Same(FingerMultitouch(e, f))
    BY <1>2, <2>2 DEF DevState
  <2> QED
    BY <1>2, <2>1, <2>3, FingerMultitouchType
<1>3. CASE s.gesture \/ s.mode = "cancel"
  <2>1. MultitouchStep(d, s, f) = s
    BY <1>0, <1>3
  <2> QED
    BY <1>3, <2>1 DEF Pressed
<1>4. CASE ~s.gesture /\ s.mode \in {"none", "lag", "multitouch"}
  <2> DEFINE t == IF enter.mode = "none" THEN enter ELSE FingerMultitouch(enter, f)
  <2>1. MultitouchStep(d, s, f) = t
    BY <1>0, <1>4
  <2>2. enter.mode \in {"none", "lag", "multitouch"}
    BY <1>1, <1>4
  <2>3. t \in DevState /\ Same(t) /\ t.mode \in {"none", "lag", "multitouch"}
    BY <1>1, <1>2, <2>2
  <2> HIDE DEF t
  <2>4. ~s.sbtn
    BY <1>4 DEF Pressed
  <2>5. Pressed(t)
    BY <2>3, <2>4 DEF Pressed, Stroke
  <2> QED
    BY <1>4, <2>1, <2>3, <2>4, <2>5
<1>5. CASE ~(s.gesture \/ s.mode = "cancel")
           /\ ~(~s.gesture /\ s.mode \in {"none", "lag", "multitouch"})
  <2>1. MultitouchStep(d, s, f) = CancelGesture(d, s)
    BY <1>0, <1>5
  <2> QED
    BY <2>1, CancelPressed DEF Kept
<1> QED
  BY <1>3, <1>4, <1>5

LEMMA DebouncePressed ==
  ASSUME NEW s \in DevState, Pressed(s), NEW o
  PROVE  LET t == Debounce(s, o)
         IN  /\ t \in DevState /\ Kept(s, t) /\ Pressed(t)
             /\ t.prox = s.prox /\ t.id = s.id /\ t.sbtn = s.sbtn
             /\ t.mode \in {s.mode, "none", "lag", "cancel"}
<1> DEFINE mode == CASE BothIn(s) -> IF s.mode = "none" THEN "lag" ELSE s.mode
                     [] ~BothIn(s) /\ s.mode \in {"scroll", "zoom"} -> "cancel"
                     [] ~BothIn(s) /\ s.mode \notin {"scroll", "zoom", "drag"} /\ s.last[1] ->
                          IF ~o.lag THEN "none" ELSE IF s.mode = "none" THEN "lag" ELSE s.mode
                     [] OTHER -> s.mode
<1>1. /\ mode \in {s.mode, "none", "lag", "cancel"} /\ mode \in Modes
      /\ s.mode = "drag" => mode = "drag"
  BY DEF DevState, Modes
<1>2. Debounce(s, o) = [s EXCEPT !.mode = mode]
  BY DEF Debounce, DevState
<1> HIDE DEF mode
<1> DEFINE t == [s EXCEPT !.mode = mode]
<1>3. /\ t \in DevState /\ t.mode = mode /\ Kept(s, t)
      /\ t.prox = s.prox /\ t.btn = s.btn /\ t.sbtn = s.sbtn /\ t.id = s.id
  BY <1>1, ModeEffect
<1> HIDE DEF t
<1>4. Pressed(t)
  BY <1>1, <1>3 DEF Pressed, Stroke, Kept
<1> QED
  BY <1>1, <1>2, <1>3, <1>4 DEF t

\* A click that ends in a mode leaves the button up unless the mode is drag.
LEMMA ClickIntoMode ==
  ASSUME NEW s \in DevState, Pressed(s), NEW state \in BOOLEAN, NEW mode \in Modes,
         state => mode = "drag" /\ ~s.lcd, s.lcd => mode # "predrag"
  PROVE  LET t == [ClickButton1(s, state) EXCEPT !.mode = mode]
         IN  /\ t \in DevState /\ Kept(s, t) /\ Pressed(t) /\ t.mode = mode
             /\ t.prox = s.prox /\ t.id = s.id /\ t.sbtn = state
<1> DEFINE c == ClickButton1(s, state)
           t == [c EXCEPT !.mode = mode]
<1>1. /\ c \in DevState /\ Kept(s, c) /\ c.prox = s.prox /\ c.id = s.id
      /\ ~c.btn /\ c.sbtn = state
  BY ClickButton1Effect
<1> HIDE DEF c
<1>2. /\ t \in DevState /\ t.mode = mode /\ Kept(c, t)
      /\ t.prox = c.prox /\ t.btn = c.btn /\ t.sbtn = c.sbtn /\ t.id = c.id
  BY <1>1, ModeEffect
<1> HIDE DEF t
<1>3. Kept(s, t)
  BY <1>1, <1>2, KeptTwice
<1>4. Pressed(t)
  BY <1>1, <1>2, <1>3 DEF Pressed, Stroke, Kept
<1> QED
  BY <1>1, <1>2, <1>3, <1>4 DEF t, c

LEMMA AllFingersOutPressed ==
  ASSUME NEW d \in Devices, IsTouch(d), NEW s \in DevState, s.serial = 0, Pressed(s)
  PROVE  LET t == AllFingersOut(d, s)
         IN  /\ t \in DevState /\ Kept(s, t) /\ Pressed(t)
             /\ t.mode = "none" /\ ~t.sbtn
             /\ t.prox = s.prox \/ ~t.prox
             /\ t.id \in {s.id, PhyId[d]}
<1> DEFINE softened == IF ~s.last[1] /\ s.mode # "none" THEN SoftOutEvent(d, s) ELSE s
           released == IF s.mode = "drag" THEN ClickButton1(softened, FALSE) ELSE softened
           t == [released EXCEPT !.mode = "none"]
<1>1. /\ softened \in DevState /\ Kept(s, softened) /\ Pressed(softened)
      /\ softened.mode = s.mode /\ softened.id \in {s.id, PhyId[d]}
      /\ softened.prox = s.prox \/ ~softened.prox
  <2>1. Kept(s, s)
    BY DEF Kept
  <2> QED
    BY <2>1, SoftOutPressed
<1> HIDE DEF softened
<1>2. /\ released \in DevState /\ Kept(softened, released) /\ Stroke(released)
      /\ ~released.sbtn /\ released.id = softened.id
      /\ released.prox = softened.prox
  <2>1. CASE s.mode = "drag"
    <3> DEFINE c == ClickButton1(softened, FALSE)
    <3>1. /\ c \in DevState /\ c.mode = softened.mode /\ Kept(softened, c)
          /\ c.prox = softened.prox /\ ~c.btn /\ ~c.sbtn /\ c.id = softened.id
      BY <1>1, ClickButton1Effect
    <3>2. released = c
      BY <2>1
    <3> HIDE DEF c, released
    <3>3. Stroke(c)
      BY <1>1, <3>1 DEF Pressed, Stroke, Kept
    <3> QED
      BY <3>1, <3>2, <3>3
  <2>2. CASE s.mode # "drag"
    BY <1>1, <2>2 DEF Pressed, Kept
  <2> QED
    BY <2>1, <2>2
<1>3. AllFingersOut(d, s) = t
  BY DEF AllFingersOut, softened, released
<1> HIDE DEF released
<1>4. /\ t \in DevState /\ t.mode = "none" /\ Kept(released, t)
      /\ t.prox = released.prox /\ t.btn = released.btn /\ t.sbtn = released.sbtn
      /\ t.id = released.id
  BY <1>2, ModeEffect DEF Modes
<1> HIDE DEF t
<1>5. Kept(s, t)
  BY <1>1, <1>2, <1>4, KeptTwice
<1>6. Pressed(t)
  BY <1>2, <1>4 DEF Pressed, Stroke, Kept
<1> QED
  BY <1>1, <1>2, <1>3, <1>4, <1>5, <1>6

LEMMA FingerTapToClickPressed ==
  ASSUME NEW s \in DevState, Pressed(s), NEW o
  PROVE  LET t == FingerTapToClick(s, o)
         IN  /\ t \in DevState /\ Kept(s, t) /\ Pressed(t) /\ t.prox = s.prox
             /\ t.id = s.id /\ t.mode \in {s.mode, "tap"} /\ (t.sbtn => s.sbtn)
<1>1. Kept(s, s)
  BY DEF Kept
<1>2. LET t == [ClickButton1(s, FALSE) EXCEPT !.mode = "tap"]
      IN  /\ t \in DevState /\ Kept(s, t) /\ Pressed(t) /\ t.mode = "tap"
          /\ t.prox = s.prox /\ t.id = s.id /\ t.sbtn = FALSE
  BY ClickIntoMode DEF Modes
<1> QED
  BY <1>1, <1>2 DEF FingerTapToClick

LEMMA TwoFingerGesturePressed ==
  ASSUME NEW s \in DevState, Pressed(s), NEW o, o.spread \in {"still", "scroll", "zoom"}
  PROVE  LET t == TwoFingerGesture(s, o)
         IN  /\ t \in DevState /\ Kept(s, t) /\ Pressed(t) /\ t.prox = s.prox
             /\ t.id = s.id /\ t.mode \in {s.mode, "scroll", "zoom"} /\ (t.sbtn => s.sbtn)
<1>1. Kept(s, s)
  BY DEF Kept
<1> DEFINE mode == o.spread
<1>2. ASSUME mode # "still"
      PROVE  LET t == [ClickButton1(s, FALSE) EXCEPT !.mode = mode]
             IN  /\ t \in DevState /\ Kept(s, t) /\ Pressed(t) /\ t.mode = mode
                 /\ t.prox = s.prox /\ t.id = s.id /\ t.sbtn = FALSE
  <2>1. mode \in Modes /\ mode # "predrag"
    BY <1>2 DEF Modes
  <2> QED
    BY <2>1, ClickIntoMode
<1> QED
  BY <1>1, <1>2 DEF TwoFingerGesture

LEMMA GesturesPressed ==
  ASSUME NEW d \in Devices, IsTouch(d), NEW s \in DevState, s.serial = 0, Pressed(s),
         NEW f \in Fingers, NEW o, o.spread \in {"still", "scroll", "zoom"}
  PROVE  LET t == Gestures(d, s, f, o)
         IN  /\ t \in DevState /\ Kept(s, t) /\ Pressed(t)
             /\ t.sbtn => ~BothOut(s) /\ (s.sbtn \/ s.mode = "predrag")
             /\ BothOut(s) => t.mode = "none"
             /\ t.mode = "multitouch" => s.mode = "multitouch"
             /\ t.id \in {s.id, PhyId[d]}
             /\ t.prox = s.prox \/ ~t.prox
<1> DEFINE r == Debounce(s, o)
<1>1. /\ r \in DevState /\ Kept(s, r) /\ Pressed(r)
      /\ r.prox = s.prox /\ r.id = s.id /\ r.sbtn = s.sbtn
      /\ r.mode \in {s.mode, "none", "lag", "cancel"}
  BY DebouncePressed
<1> HIDE DEF r
<1> DEFINE Fine(t) == /\ t \in DevState /\ Kept(s, t) /\ Pressed(t)
                      /\ t.sbtn => s.sbtn \/ s.mode = "predrag"
                      /\ t.mode = "multitouch" => s.mode = "multitouch"
                      /\ t.id \in {s.id, PhyId[d]}
                      /\ t.prox = s.prox \/ ~t.prox
<1>2. Fine(r)
  BY <1>1
<1>3. ASSUME r.mode = "predrag" PROVE Fine([ClickButton1(r, TRUE) EXCEPT !.mode = "drag"])
  <2>1. ~r.lcd
    BY <1>1, <1>3 DEF Pressed, Stroke
  <2>2. LET t == [ClickButton1(r, TRUE) EXCEPT !.mode = "drag"]
        IN  /\ t \in DevState /\ Kept(r, t) /\ Pressed(t) /\ t.mode = "drag"
            /\ t.prox = r.prox /\ t.id = r.id /\ t.sbtn = TRUE
    BY <1>1, <2>1, ClickIntoMode DEF Modes
  <2>3. Kept(s, [ClickButton1(r, TRUE) EXCEPT !.mode = "drag"])
    BY <1>1, <2>2, KeptTwice
  <2> QED
    BY <1>1, <1>3, <2>2, <2>3
<1>4. Fine(AllFingersOut(d, r))
  <2> DEFINE t == AllFingersOut(d, r)
  <2>1. r.serial = 0
    BY <1>1 DEF Kept
  <2>2. /\ t \in DevState /\ Kept(r, t) /\ Pressed(t) /\ ~t.sbtn /\ t.mode = "none"
        /\ t.prox = r.prox \/ ~t.prox
        /\ t.id \in {r.id, PhyId[d]}
    BY <1>1, <2>1, AllFingersOutPressed
  <2> HIDE DEF t
  <2>3. Kept(s, t)
    BY <1>1, <2>2, KeptTwice
  <2> QED
    BY <1>1, <2>2, <2>3 DEF t
<1>5. ASSUME NEW u, u = IF r.mode \notin {"scroll", "zoom"} /\ f = 2
                        THEN FingerTapToClick(r, o) ELSE r
      PROVE  Fine(TwoFingerGesture(u, o))
  <2> DEFINE t == TwoFingerGesture(u, o)
  <2>1. Kept(r, r)
    BY DEF Kept
  <2>2. /\ u \in DevState /\ Kept(r, u) /\ Pressed(u) /\ u.prox = r.prox
        /\ u.id = r.id /\ (u.sbtn => r.sbtn) /\ u.mode \in {r.mode, "tap"}
    BY <1>1, <1>5, <2>1, FingerTapToClickPressed
  <2>3. /\ t \in DevState /\ Kept(u, t) /\ Pressed(t) /\ t.prox = u.prox
        /\ t.id = u.id /\ (t.sbtn => u.sbtn) /\ t.mode \in {u.mode, "scroll", "zoom"}
    BY <2>2, TwoFingerGesturePressed
  <2> HIDE DEF t
  <2>4. Kept(s, t)
    BY <1>1, <2>2, <2>3, KeptTwice
  <2> QED
    BY <1>1, <2>2, <2>3, <2>4 DEF t
<1> HIDE DEF Fine
<1>6. Fine(Gestures(d, s, f, o))
  BY <1>2, <1>3, <1>4, <1>5 DEF Gestures, r
<1>7. BothOut(s) => ~Gestures(d, s, f, o).sbtn /\ Gestures(d, s, f, o).mode = "none"
  <2>1. ASSUME BothOut(s) PROVE Gestures(d, s, f, o) = AllFingersOut(d, r)
    BY <1>1, <2>1 DEF Gestures, BothOut, Kept, r
  <2>2. r.serial = 0
    BY <1>1 DEF Kept
  <2> QED
    BY <1>1, <2>1, <2>2, AllFingersOutPressed
<1> QED
  BY <1>6, <1>7 DEF Fine

LEMMA SingleFingerPressing ==
  ASSUME NEW s \in DevState, NEW f, Pressed(s), f = 1 => (s.tip => s.mode = "drag"),
         s.lcd /\ s.sbtn => s.gesture, BothOut(s) => ~s.sbtn, NEW o
  PROVE  LET t == SingleFinger(s, f, o)
         IN  /\ t \in DevState
             /\ f = 1 => Pressing(t)
             /\ f # 1 => Pressed(t)
             /\ t.prox = s.prox /\ t.id = s.id /\ t.serial = s.serial
             /\ t.lcd = s.lcd /\ t.gesture = s.gesture
             /\ t.sbtn => s.sbtn
<1>1. CASE ~(s.mode \in {"none", "drag"} /\ f = 1)
  BY <1>1 DEF SingleFinger, Pressing, Pressed
<1>2. CASE s.mode \in {"none", "drag"} /\ f = 1
  <2>1. CASE s.lcd
    <3> DEFINE down == s.cur[1] /\ ~s.cur[2]
               mode == IF down THEN "drag" ELSE "none"
               t    == [s EXCEPT !.tip = down, !.mode = mode]
    <3>1. SingleFinger(s, f, o) = t
      BY <1>2, <2>1 DEF SingleFinger, SingleFingerTap, SingleFingerPress
    <3>2. down \in BOOLEAN /\ mode \in {"drag", "none"} /\ (down => mode = "drag")
      OBVIOUS
    <3> HIDE DEF down, mode
    <3>3. /\ t \in DevState /\ t.tip = down /\ t.mode = mode
          /\ t.prox = s.prox /\ t.id = s.id /\ t.serial = s.serial
          /\ t.lcd = s.lcd /\ t.gesture = s.gesture
          /\ t.btn = s.btn /\ t.sbtn = s.sbtn
      BY <3>2 DEF DevState, Modes
    <3> HIDE DEF t
    <3> QED
      BY <1>2, <2>1, <3>1, <3>2, <3>3 DEF Pressing, Pressed, Stroke
  <2>2. CASE ~s.lcd
    <3> DEFINE t == [s EXCEPT !.mode = "predrag", !.timer = TRUE]
               tapped == ~s.cur[1] /\ s.last[1] /\ ~s.cur[2] /\ o.tap
    <3>1. /\ t \in DevState /\ t.mode = "predrag" /\ t.tip = s.tip
          /\ t.prox = s.prox /\ t.id = s.id /\ t.serial = s.serial
          /\ t.lcd = s.lcd /\ t.gesture = s.gesture
          /\ t.btn = s.btn /\ t.sbtn = s.sbtn
      BY DEF DevState, Modes
    <3>2. SingleFinger(s, f, o) = IF tapped THEN t ELSE s
      BY <1>2, <2>2, <3>1 DEF SingleFinger, SingleFingerTap, SingleFingerPress
    <3>3. tapped => ~s.sbtn
      BY DEF BothOut
    <3> HIDE DEF t, tapped
    <3> QED
      BY <1>2, <2>2, <3>1, <3>2, <3>3 DEF Pressing, Pressed, Stroke
  <2> QED
    BY <2>1, <2>2
<1> QED
  BY <1>1, <1>2

\* The filter leaves no button down outside a drag but for the event that follows.
LEMMA GestureFilterPressing ==
  ASSUME NEW d \in Devices, IsTouch(d), NEW s \in DevState, s.serial = 0, Pressed(s),
         NEW f \in Fingers, f = 1 => ~s.tip,
         NEW o, o.spread \in {"still", "scroll", "zoom"}
  PROVE  LET t == GestureFilter(d, s, f, o)
         IN  /\ t \in DevState /\ t.serial = 0
             /\ f = 1 => Pressing(t)
             /\ (~t.gesture /\ t.lcd) \/ f # 1 => Pressed(t)
<1> DEFINE m == MultitouchStep(d, s, f)
<1>1. /\ m \in DevState /\ Pressed(m) /\ m.serial = 0 /\ m.tip = s.tip
      /\ m.gesture = s.gesture
      /\ ~s.gesture => ~m.sbtn /\ m.mode \in {"none", "multitouch", "lag", "cancel"}
  BY MultitouchStepPressed
<1> HIDE DEF m
<1> DEFINE c == [m EXCEPT !.mode = IF @ = "cancel" THEN "none" ELSE @]
           mode == IF m.mode = "cancel" THEN "none" ELSE m.mode
<1>2. /\ c \in DevState /\ Kept(m, c) /\ Pressed(c) /\ c.mode = mode
      /\ c.sbtn = m.sbtn /\ c.prox = m.prox /\ c.id = m.id
  <2>1. mode \in Modes /\ (m.mode # "cancel" => mode = m.mode) /\ (m.mode = "cancel" => mode = "none")
    BY <1>1 DEF DevState, Modes
  <2>2. c = [m EXCEPT !.mode = mode]
    BY <1>1 DEF DevState
  <2> HIDE DEF mode
  <2>3. /\ [m EXCEPT !.mode = mode] \in DevState /\ [m EXCEPT !.mode = mode].mode = mode
        /\ Kept(m, [m EXCEPT !.mode = mode])
        /\ [m EXCEPT !.mode = mode].prox = m.prox /\ [m EXCEPT !.mode = mode].btn = m.btn
        /\ [m EXCEPT !.mode = mode].sbtn = m.sbtn /\ [m EXCEPT !.mode = mode].id = m.id
    BY <1>1, <2>1, ModeEffect
  <2> QED
    BY <1>1, <2>1, <2>2, <2>3 DEF Pressed, Stroke, Kept
<1> HIDE DEF c
<1> DEFINE g == Gestures(d, c, f, o)
<1>3. /\ g \in DevState /\ Kept(c, g) /\ Pressed(g)
      /\ g.sbtn => ~BothOut(c) /\ (c.sbtn \/ c.mode = "predrag")
  BY <1>1, <1>2, GesturesPressed DEF Kept
<1> HIDE DEF g
<1>4. /\ g.serial = 0 /\ g.tip = s.tip /\ g.gesture = s.gesture
      /\ BothOut(g) => ~g.sbtn
      /\ g.sbtn => g.gesture
  BY <1>1, <1>2, <1>3 DEF Kept, BothOut
<1> DEFINE u == SingleFinger(g, f, o)
<1>5. /\ u \in DevState /\ u.serial = 0 /\ u.gesture = s.gesture
      /\ f = 1 => Pressing(u)
      /\ f # 1 => Pressed(u)
      /\ u.sbtn => g.sbtn
  BY <1>3, <1>4, SingleFingerPressing
<1> HIDE DEF u
<1>6. GestureFilter(d, s, f, o) =
        IF m.mode = "multitouch" \/ (m.mode = "cancel" /\ ~BothOut(m)) THEN m ELSE u
  BY DEF GestureFilter, m, c, g, u
<1>7. f = 1 => Pressing(m)
  BY <1>1 DEF Pressed, Pressing
<1>8. ~u.gesture => Pressed(u) \/ f # 1
  BY <1>4, <1>5 DEF Pressing, Pressed
<1> QED
  BY <1>1, <1>5, <1>6, <1>7, <1>8

\* The event that the filter lets through leaves no button down outside a drag.
LEMMA TouchDispatchPressed ==
  ASSUME NEW d \in Devices, IsTouch(d), NEW s \in DevState, s.serial = 0, Pressing(s),
         NEW ev \in Event, ev.btn = s.tip, NEW far, NEW quiet
  PROVE  LET t == Dispatch(d, s, ev, far, quiet)
         IN  /\ Pressed(t) /\ Kept(s, t) /\ t.mode = s.mode
             /\ t.prox = ev.prox /\ t.id \in {s.id, ev.id}
<1>1. Dispatch(d, s, ev, far, quiet) =
        IF (~ev.prox /\ ~s.prox) \/ (quiet /\ Unchanging(s, ev)) THEN s
        ELSE SendEvents(d, s, ev)
  <2>1. [ev EXCEPT !.prox = @ /\ ~FALSE] = ev
    BY DEF Event
  <2> QED
    BY <2>1 DEF Dispatch, Mismatch, IsTouch
<1>2. CASE (~ev.prox /\ ~s.prox) \/ (quiet /\ Unchanging(s, ev))
  <2>1. s.sbtn => s.mode = "drag"
    BY <1>2 DEF Pressing, Stroke, Unchanging
  <2>2. s.prox = ev.prox
    BY <1>2 DEF Unchanging, DevState, Event
  <2> QED
    BY <1>1, <1>2, <2>1, <2>2 DEF Pressing, Pressed, Kept
<1>3. CASE ~((~ev.prox /\ ~s.prox) \/ (quiet /\ Unchanging(s, ev)))
  <2> DEFINE t == SendEvents(d, s, ev)
             down == s.prox /\ s.btn
  <2>1. /\ t.mode = s.mode /\ Kept(s, t) /\ t.id = ev.id
        /\ t.prox = ev.prox /\ t.btn = (ev.prox /\ ev.btn)
        /\ t.sbtn = IF TouchNeedSendEvents(s)
                    THEN IF ev.prox
                         THEN IF down # ev.btn THEN ev.btn ELSE s.sbtn
                         ELSE IF down THEN FALSE ELSE s.sbtn
                    ELSE s.sbtn
    BY TouchSendEventsEffect
  <2>2. s.btn \in BOOLEAN /\ s.prox \in BOOLEAN /\ ev.prox \in BOOLEAN /\ s.sbtn \in BOOLEAN
        /\ s.tip \in BOOLEAN
    BY DEF DevState, Event
  <2> HIDE DEF t
  <2>3. Stroke(t)
    BY <2>1, <2>2 DEF Pressing, Stroke, Kept, TouchNeedSendEvents
  <2>4. t.sbtn => t.mode = "drag"
    BY <2>1, <2>2 DEF Pressing, Stroke, Kept, TouchNeedSendEvents
  <2> QED
    BY <1>1, <1>3, <2>1, <2>3, <2>4 DEF Pressed, t
<1> QED
  BY <1>2, <1>3

\* What an event does to the touch device it is for.
LEMMA DeliverPressed ==
  ASSUME NEW d \in Devices, IsTouch(d), NEW s \in DevState, s.serial = 0, Pressed(s),
         NEW p \in Tools, DevType[d] = Tool[p].type, Tool[p].serial = 1 => ~s.tip,
         NEW ev \in Event, NEW o \in Observations(p)
  PROVE  LET t == Deliver(d, s, p, ev, o)
         IN  Pressed(t) /\ t.serial = 0
<1> DEFINE f == Tool[p].serial
           g == GestureFilter(d, s, f, o)
           press == [ev EXCEPT !.btn = g.tip]
<1>1. f \in Fingers
  BY ToolAssumption DEF IsTouch
<1>2. /\ g \in DevState /\ g.serial = 0
      /\ f = 1 => Pressing(g)
      /\ (~g.gesture /\ g.lcd) \/ f # 1 => Pressed(g)
  BY <1>1, ObservationType, GestureFilterPressing
<1>3. Deliver(d, s, p, ev, o) =
        IF (~g.gesture /\ g.lcd) \/ f # 1 THEN g
        ELSE Dispatch(d, g, press, o.far, o.quiet)
  BY DEF Deliver
<1> HIDE DEF g, f
<1>4. press \in Event /\ press.btn = g.tip
  BY <1>2 DEF Event, DevState
<1> HIDE DEF press
<1>5. f = 1 => /\ Pressed(Dispatch(d, g, press, o.far, o.quiet))
               /\ Dispatch(d, g, press, o.far, o.quiet).serial = 0
  BY <1>2, <1>4, TouchDispatchPressed DEF Kept
<1> QED
  BY <1>2, <1>3, <1>5

TouchOK == \A d \in Devices : IsTouch(d) /\ Unbound(d) =>
             dev[d].serial = 0 /\ Pressed(dev[d])

LEMMA TouchOKStep == TypeOK /\ TouchOK /\ [Next]_vars => TouchOK'
<1> SUFFICES ASSUME TypeOK, TouchOK, [Next]_vars PROVE TouchOK'
  OBVIOUS
<1>1. ASSUME NEW d \in Devices, NEW p \in Tools, NEW ev \in Event, NEW reused, NEW o,
             o \in Observations(p), ToolStep(d, p, ev, reused, o)
      PROVE  TouchOK'
  <2> SUFFICES ASSUME NEW e \in Devices, IsTouch(e), Unbound(e)
               PROVE  dev'[e].serial = 0 /\ Pressed(dev'[e])
    BY DEF TouchOK, Unbound, IsTouch
  <2> DEFINE recorded == IF IsTouch(d)
                         THEN RecordContact(dev[d], Tool[p].serial, ev.prox, reused)
                         ELSE dev[d]
             granted  == ArbitratedControl(d, ev.id, o.idle)
             base     == IF granted THEN TakeControl(d) ELSE dev
             t        == Deliver(d, recorded, p, ev, o)
  <2>1. dev' = IF granted \/ IsPad(d) THEN [base EXCEPT ![d] = t]
               ELSE [dev EXCEPT ![d] = recorded]
    BY <1>1 DEF ToolStep, DeviceEvent
  <2>2. /\ dev[e] \in DevState /\ dev[e].serial = 0 /\ Pressed(dev[e])
        /\ dev \in [Devices -> DevState]
    BY DEF TypeOK, TouchOK
  <2>3. base \in [Devices -> DevState]
    BY TakeControlType DEF TypeOK
  <2>4. e # d => base[e].serial = 0 /\ Pressed(base[e])
    <3>1. CASE active \notin {None, d} /\ e = active
      <4> DEFINE s == SoftOutEvent(e, dev[e])
      <4>1. s \in DevState /\ Pressed(s) /\ s.serial = 0
        BY <2>2, SoftOutPressed DEF Kept
      <4> HIDE DEF s
      <4>2. Pressed(CancelGesture(e, s)) /\ CancelGesture(e, s).serial = 0
        BY <4>1, CancelPressed DEF Kept
      <4>3. TakeControl(d)[e] = CancelGesture(e, s)
        BY <2>2, <3>1 DEF TakeControl, s
      <4> QED
        BY <2>2, <4>2, <4>3
    <3>2. CASE ~(active \notin {None, d} /\ e = active)
      <4>1. e # d => base[e] = dev[e]
        BY <2>2, <3>2 DEF TakeControl, TypeOK
      <4> QED
        BY <2>2, <4>1
    <3> QED
      BY <3>1, <3>2
  <2>5. CASE e = d
    <3> DEFINE f == Tool[p].serial
               cur  == [dev[d].cur EXCEPT ![f] = ev.prox]
               last == [g \in Fingers |-> IF g = f THEN RawSample > 1 /\ dev[d].cur[f]
                                          ELSE dev[d].last[g] /\ g # reused]
               tip  == dev[d].tip /\ f # 1
    <3>1. DevType[d] = Tool[p].type /\ f \in Fingers /\ ev.prox \in BOOLEAN
      BY <1>1, <2>5, FindToolType, ToolAssumption DEF ToolStep, IsTouch, Event
    <3>2. recorded \in DevState
      BY <2>2, <2>5, <3>1, RecordContactType
    <3>3. recorded = [dev[d] EXCEPT !.last = last, !.cur = cur, !.tip = tip]
      BY <2>2, <2>5 DEF RecordContact, DevState
    <3> HIDE DEF cur, last, tip
    <3>4. /\ recorded.serial = 0 /\ recorded.tip = tip
          /\ recorded.prox = dev[d].prox /\ recorded.btn = dev[d].btn
          /\ recorded.sbtn = dev[d].sbtn /\ recorded.mode = dev[d].mode
          /\ recorded.lcd = dev[d].lcd
      BY <2>2, <2>5, <3>2, <3>3 DEF DevState
    <3>5. Pressed(recorded) /\ (f = 1 => ~recorded.tip)
      BY <2>2, <2>5, <3>4 DEF Pressed, Stroke, tip
    <3> HIDE DEF recorded
    <3>6. Pressed(t) /\ t.serial = 0
      BY <1>1, <2>5, <3>1, <3>2, <3>4, <3>5, DeliverPressed
    <3> HIDE DEF t, base, granted
    <3> QED
      BY <2>1, <2>2, <2>3, <2>5, <3>4, <3>5, <3>6
  <2>6. CASE e # d
    <3> HIDE DEF t, base, granted, recorded
    <3> QED
      BY <2>1, <2>2, <2>3, <2>4, <2>6
  <2> QED
    BY <2>5, <2>6
<1>2. CASE Unheard
  BY <1>2 DEF Unheard, TouchOK, Unbound, IsTouch
<1>3. ASSUME NEW d \in Devices, Local(d) PROVE TouchOK'
  <2>1. PICK s \in DevState :
          /\ dev' = [dev EXCEPT ![d] = s]
          /\ d \notin Bindable => s.serial = dev[d].serial
          /\ Pressed(dev[d]) => Pressed(s)
    BY <1>3 DEF Local
  <2>2. dev'[d] = s /\ \A e \in Devices \ {d} : dev'[e] = dev[e]
    BY <2>1 DEF TypeOK
  <2> QED
    BY <2>1, <2>2 DEF TouchOK, Unbound, IsTouch
<1>4. ASSUME NEW d \in Devices, Replugged(d) PROVE TouchOK'
  <2>1. PICK s \in DevState :
          /\ dev' = [dev EXCEPT ![d] = s]
          /\ s.serial = BoundTo[d]
          /\ Pressed(dev[d]) => Pressed(s)
    BY <1>4 DEF Replugged
  <2>2. dev'[d] = s /\ \A e \in Devices \ {d} : dev'[e] = dev[e]
    BY <2>1 DEF TypeOK
  <2> QED
    BY <2>1, <2>2 DEF TouchOK, Unbound, IsTouch
<1>5. CASE UNCHANGED vars
  BY <1>5 DEF vars, TouchOK, Unbound, IsTouch
<1> QED
  BY <1>1, <1>2, <1>3, <1>4, <1>5, StepCases

LEMMA TouchOKInit == Init => TouchOK
<1> SUFFICES ASSUME Init PROVE TouchOK
  OBVIOUS
<1>1. PICK display, gesture \in SUBSET {d \in Devices : IsTouch(d)} :
        dev = [d \in Devices |->
                 [FreshDevice(d, BoundTo[d], d \in display, d \in gesture)
                    EXCEPT !.enabled = TRUE]]
  BY DEF Init
<1>2. ASSUME NEW d \in Devices
      PROVE  /\ ~dev[d].prox /\ ~dev[d].btn /\ ~dev[d].sbtn /\ ~dev[d].tip
             /\ dev[d].mode = "none" /\ dev[d].serial = BoundTo[d]
  BY <1>1 DEF FreshDevice
<1> QED
  BY <1>2 DEF TouchOK, Unbound, Pressed, Stroke

-----------------------------------------------------------------------------
(***************************************************************************)
(* Arbitration implements PointerControl.  A granted event is a Take or a  *)
(* Leave, removing a device a Remove, and every other step a stutter.      *)
(***************************************************************************)
HolderOK == active # None => ~IsPad(active)

LEMMA HolderOKStep == TypeOK /\ HolderOK /\ [Next]_vars => HolderOK'
<1> SUFFICES ASSUME TypeOK, HolderOK, [Next]_vars PROVE HolderOK'
  OBVIOUS
<1>1. ASSUME NEW d \in Devices, NEW p \in Tools, NEW ev \in Event, NEW reused, NEW o,
             o \in Observations(p), ToolStep(d, p, ev, reused, o)
      PROVE  HolderOK'
  <2>1. active' = IF ~ArbitratedControl(d, ev.id, o.idle) THEN active
                  ELSE IF ev.prox THEN d ELSE None
    BY <1>1 DEF ToolStep, DeviceEvent
  <2>2. ArbitratedControl(d, ev.id, o.idle) => ~IsPad(d)
    BY DEF ArbitratedControl
  <2> QED
    BY <2>1, <2>2 DEF HolderOK, IsPad
<1>2. CASE Unheard
  BY <1>2 DEF Unheard, HolderOK, IsPad
<1>3. ASSUME NEW d \in Devices, Local(d) PROVE HolderOK'
  BY <1>3 DEF Local, HolderOK, IsPad
<1>4. ASSUME NEW d \in Devices, Replugged(d) PROVE HolderOK'
  BY <1>4 DEF Replugged, HolderOK, IsPad
<1>5. CASE UNCHANGED vars
  BY <1>5 DEF vars, HolderOK, IsPad
<1> QED
  BY <1>1, <1>2, <1>3, <1>4, <1>5, StepCases

\* The refinement mapping.
InProx == {d \in Devices : Arbitrated(d) /\ dev[d].prox}

LEMMA ControlStep ==
  ASSUME PointerInv, PointerInv', HolderOK, [Next]_vars
  PROVE  [Control!Next]_<<active, InProx>>
<1> USE DEF Control!Next, InProx
<1> DEFINE abstract == <<active, InProx>>
<1>1. TypeOK /\ TypeOK' /\ None \notin Devices
  BY ToolAssumption DEF PointerInv
<1>2. ASSUME \A e \in Devices : Arbitrated(e) => dev'[e].prox = dev[e].prox,
             active' = active
      PROVE  [Control!Next]_abstract
  <2>1. InProx' = InProx
    BY <1>2 DEF Arbitrated, Unbound, IsPad, IsTouch
  <2> QED
    BY <1>2, <2>1
<1>3. ASSUME NEW d \in Devices, NEW p \in Tools, NEW ev \in Event, NEW reused, NEW o,
             o \in Observations(p), ToolStep(d, p, ev, reused, o)
      PROVE  [Control!Next]_abstract
  <2> DEFINE granted == ArbitratedControl(d, ev.id, o.idle)
  <2>1. active' = IF ~granted THEN active ELSE IF ev.prox THEN d ELSE None
    BY <1>3 DEF ToolStep, DeviceEvent
  <2>2. CASE granted
    <3>1. ~IsPad(d)
      BY <2>2 DEF ArbitratedControl
    <3>2. d \in Control!Contenders
      BY <3>1 DEF Control!Contenders
    <3>3. IdKind[ev.id] = Kind(DevType[d])
      BY <1>3, FindToolType, ToolAssumption DEF ToolStep
    <3>4. Control!MayTake(d)
      <4>1. CASE active = None
        BY <4>1 DEF Control!MayTake
      <4>2. CASE active # None /\ dev[active].id = ev.id
        <5>1. active \in Devices
          BY <1>1, <4>2 DEF TypeOK
        <5>2. Kind(DevType[active]) = Kind(DevType[d])
          BY <3>3, <4>2, <5>1 DEF PointerInv, IdOK
        <5> QED
          BY <5>1, <5>2 DEF Control!MayTake, MayYield
      <4>3. CASE active # None /\ dev[active].id # ev.id
        <5>1. active \in Devices
          BY <1>1, <4>3 DEF TypeOK
        <5>2. IsCursor(active) \/ (~IsCursor(d) /\ ~IsTouch(d))
          BY <2>2, <4>3 DEF ArbitratedControl
        <5> QED
          BY <5>1, <5>2 DEF Control!MayTake, MayYield
      <4> QED
        BY <4>1, <4>2, <4>3
    <3>5. CASE ev.prox
      <4>1. active' = d
        BY <2>1, <2>2, <3>5
      <4>2. \A e \in InProx' : e = d /\ Arbitrated(d)
        BY <4>1 DEF PointerInv, PointerExclusive, Arbitrated, Unbound, IsPad, IsTouch
      <4>3. InProx' \in SUBSET ({d} \cap {e \in Devices : Arbitrated(e)})
        BY <4>2
      <4>4. Control!Take(d)
        BY <3>4, <4>1, <4>3 DEF Control!Take
      <4> QED
        BY <3>2, <4>4
    <3>6. CASE ~ev.prox
      <4>1. active' = None
        BY <2>1, <2>2, <3>6
      <4>2. InProx' = {}
        BY <1>1, <4>1 DEF PointerInv, PointerExclusive, Arbitrated, Unbound, IsPad, IsTouch
      <4>3. Control!Leave(d)
        BY <3>4, <4>1, <4>2 DEF Control!Leave
      <4> QED
        BY <3>2, <4>3
    <3> QED
      BY <3>5, <3>6
  <2>3. CASE ~granted
    <3> DEFINE recorded == IF IsTouch(d)
                           THEN RecordContact(dev[d], Tool[p].serial, ev.prox, reused)
                           ELSE dev[d]
               t == Deliver(d, recorded, p, ev, o)
    <3>1. active' = active
      BY <2>1, <2>3
    <3>2. dev' = IF IsPad(d) THEN [dev EXCEPT ![d] = t] ELSE [dev EXCEPT ![d] = recorded]
      BY <1>3, <2>3 DEF ToolStep, DeviceEvent
    <3>3. ~IsTouch(d) => recorded = dev[d]
      OBVIOUS
    <3> HIDE DEF recorded, t
    <3>4. ASSUME NEW e \in Devices, Arbitrated(e) PROVE dev'[e] = dev[e]
      BY <1>1, <3>2, <3>3, <3>4 DEF Arbitrated, TypeOK
    <3> QED
      BY <1>2, <3>1, <3>4
  <2> QED
    BY <2>2, <2>3
<1>4. CASE Unheard
  BY <1>2, <1>4 DEF Unheard
<1>5. ASSUME NEW d \in Devices, Local(d) PROVE [Control!Next]_abstract
  <2>1. PICK s \in DevState : dev' = [dev EXCEPT ![d] = s] /\ s.prox = dev[d].prox
    BY <1>5 DEF Local
  <2>2. \A e \in Devices : dev'[e].prox = dev[e].prox
    BY <1>1, <2>1 DEF TypeOK
  <2> QED
    BY <1>2, <1>5, <2>2 DEF Local
<1>6. ASSUME NEW d \in Devices, Replugged(d) PROVE [Control!Next]_abstract
  <2>1. PICK s \in DevState : dev' = [dev EXCEPT ![d] = s] /\ ~s.prox
    BY <1>6 DEF Replugged
  <2>2. ~dev'[d].prox /\ \A e \in Devices \ {d} : dev'[e] = dev[e]
    BY <1>1, <2>1 DEF TypeOK
  <2>3. InProx' = InProx \ {d}
    BY <2>2 DEF Arbitrated, Unbound, IsPad, IsTouch
  <2>4. active' = IF active = d THEN None ELSE active
    BY <1>6 DEF Replugged
  <2>5. CASE IsPad(d)
    <3>1. active # d
      BY <1>1, <2>5 DEF HolderOK
    <3>2. d \notin InProx
      BY <2>5 DEF Arbitrated
    <3> QED
      BY <2>3, <2>4, <3>1, <3>2
  <2>6. CASE ~IsPad(d)
    <3>1. d \in Control!Contenders
      BY <2>6 DEF Control!Contenders
    <3>2. Control!Remove(d)
      BY <2>3, <2>4 DEF Control!Remove
    <3> QED
      BY <3>1, <3>2
  <2> QED
    BY <2>5, <2>6
<1>7. CASE UNCHANGED vars
  BY <1>2, <1>7 DEF vars
<1> QED
  BY <1>1, <1>3, <1>4, <1>5, <1>6, <1>7, StepCases

\* The driver implements PointerControl, for any tablets, tools and devices: a
\* device takes the pointer only from one that may yield it to its kind, and
\* nobody else is in proximity from then on (check_arbitrated_control and the
\* soft prox-out of wcmEvent).
THEOREM PointerControlled == Spec => ControlSpec
<1>1. Init => HolderOK /\ Control!Init
  <2> SUFFICES ASSUME Init PROVE HolderOK /\ Control!Init
    OBVIOUS
  <2>1. active = None /\ None \notin Devices
    BY ToolAssumption DEF Init
  <2>2. PointerExclusive
    BY PointerInvInit DEF PointerInv
  <2> QED
    BY <2>1, <2>2 DEF HolderOK, Control!Init, PointerExclusive
<1>2. PointerInv /\ HolderOK /\ [Next]_vars => HolderOK'
  BY HolderOKStep DEF PointerInv
<1>3. PointerInv /\ PointerInv' /\ HolderOK /\ [Next]_vars
      => [Control!Next]_<<active, InProx>>
  BY ControlStep
<1> QED
  BY <1>1, <1>2, <1>3, PointerInvariance, PTL DEF Spec, ControlSpec, Control!Spec, InProx
\* Every taking of the pointer from an unbound device releases it.
LEMMA LoserStep ==
  ASSUME PointerInv, HolderOK, ServerAgrees', TouchOK, [Next]_vars,
         NEW e \in Devices, active = e, active' \notin {None, e}, Unbound(e)
  PROVE  ~dev'[e].sbtn /\ ~dev'[e].prox
<1>1. TypeOK /\ dev[e] \in DevState /\ ~IsPad(e) /\ e # None
  BY ToolAssumption DEF PointerInv, TypeOK, HolderOK
<1>2. PICK d \in Devices, p \in Tools, ev \in Event :
        \E reused, o : o \in Observations(p) /\ ToolStep(d, p, ev, reused, o)
  BY <1>1, StepCases DEF Unheard, Local, Replugged, vars
<1>3. PICK reused, o : o \in Observations(p) /\ ToolStep(d, p, ev, reused, o)
  BY <1>2
<1>4. ArbitratedControl(d, ev.id, o.idle) /\ d # e
  BY <1>3 DEF ToolStep, DeviceEvent
<1>5. dev'[e] = CancelGesture(e, SoftOutEvent(e, dev[e]))
  <2> DEFINE t == Deliver(d, IF IsTouch(d)
                             THEN RecordContact(dev[d], Tool[p].serial, ev.prox, reused)
                             ELSE dev[d], p, ev, o)
  <2>1. dev' = [TakeControl(d) EXCEPT ![d] = t]
    BY <1>3, <1>4 DEF ToolStep, DeviceEvent
  <2> HIDE DEF t
  <2>2. dev'[e] = TakeControl(d)[e]
    BY <1>1, <1>4, <2>1, TakeControlType
  <2> QED
    BY <1>1, <1>4, <2>2 DEF TakeControl, TypeOK
<1> DEFINE s == SoftOutEvent(e, dev[e])
<1>6. CASE IsTouch(e)
  <2>1. s \in DevState /\ Pressed(s) /\ ~s.prox
    BY <1>1, <1>6, SoftOutPressed DEF TouchOK
  <2> HIDE DEF s
  <2>2. CancelGesture(e, s).prox = s.prox /\ ~CancelGesture(e, s).sbtn
    BY <1>6, <2>1, CancelPressed
  <2> QED
    BY <1>5, <2>1, <2>2 DEF s
<1>7. CASE ~IsTouch(e)
  <2>1. dev[e].serial = 0
    BY <1>1, <1>7 DEF PointerInv, SerialOK, Arbitrated
  <2>2. s \in DevState /\ ~s.prox
    BY <1>1, <2>1, SoftOutEventType, SoftOutEventEffect
  <2>3. dev'[e] = s
    BY <1>5, <1>7 DEF CancelGesture
  <2>4. (dev'[e].sbtn => dev'[e].btn) /\ (dev'[e].btn => dev'[e].prox)
    BY <1>7 DEF ServerAgrees, IsTouch
  <2> QED
    BY <2>2, <2>3, <2>4
<1> QED
  BY <1>6, <1>7

\* Whoever loses the pointer to another device is out of proximity and has no button
\* down at the server, whatever gesture was under way: the soft prox-out of wcmEvent
\* and wcmCancelGesture release between them everything a device can hold.
THEOREM LoserLetsGo == Spec => LoserReleases
<1> DEFINE Released == \A d \in Devices :
                         active = d /\ active' \notin {None, d} /\ Unbound(d) =>
                           ~dev'[d].sbtn /\ ~dev'[d].prox
<1>1. Init => HolderOK /\ ServerAgrees /\ TouchOK
  BY ServerAgreesInit, TouchOKInit DEF HolderOK, Init
<1>2. PointerInv /\ HolderOK /\ [Next]_vars => HolderOK'
  BY HolderOKStep DEF PointerInv
<1>3. PointerInv /\ ServerAgrees /\ [Next]_vars => ServerAgrees'
  BY ServerAgreesStep DEF PointerInv
<1>4. PointerInv /\ TouchOK /\ [Next]_vars => TouchOK'
  BY TouchOKStep DEF PointerInv
<1>5. PointerInv /\ HolderOK /\ ServerAgrees' /\ TouchOK /\ [Next]_vars => [Released]_vars
  BY LoserStep
<1> QED
  BY <1>1, <1>2, <1>3, <1>4, <1>5, PointerInvariance, PTL DEF Spec, LoserReleases

-----------------------------------------------------------------------------
(***************************************************************************)
(* A touch device nobody disturbs (ContactsOnly).  With a pen about, or    *)
(* settings that change, these properties fail (DragReleased).             *)
(***************************************************************************)
NoContact(s) == \A g \in Fingers : ~s.cur[g]

\* Touches are announced at most once, only while the contact is there and only in
\* multitouch mode, which needs gestures off.
Announced(s) ==
  /\ s.mode = "multitouch" => ~s.gesture
  /\ \A g \in Fingers : /\ s.begun[g] \in {0, 1}
                        /\ s.begun[g] = 1 => s.cur[g] /\ s.mode = "multitouch"

\* The same once contact f has come or gone, but is not yet announced or ended.
Announcing(s, f) ==
  /\ s.mode = "multitouch" => ~s.gesture
  /\ \A g \in Fingers : /\ s.begun[g] \in {0, 1}
                        /\ s.begun[g] = 1 => s.mode = "multitouch" /\ (s.cur[g] \/ g = f)
  /\ s.begun[f] = 1 /\ s.cur[f] => s.last[f]

AtRest(s) == s.mode = "none" \/ (s.mode = "predrag" /\ s.timer)

Fixed(s, t) ==
  /\ t.enabled = s.enabled /\ t.serial = s.serial /\ t.cur = s.cur
  /\ t.lcd = s.lcd /\ t.gesture = s.gesture /\ t.touchOn = s.touchOn

LEMMA FingerMultitouchAnnounced ==
  ASSUME NEW s \in DevState, NEW f \in Fingers, Announcing(s, f), ~s.gesture,
         s.mode \in {"lag", "multitouch"}
  PROVE  LET t == FingerMultitouch(s, f)
         IN  /\ t \in DevState /\ Fixed(s, t) /\ Announced(t)
             /\ t.mode \in {"none", "multitouch"}
             /\ NoContact(s) => t.mode = "none"
<1> DEFINE lag   == s.mode = "lag"
           begun == [g \in Fingers |-> IF lag \/ g = f THEN TouchEvents(s, g, lag)
                                       ELSE s.begun[g]]
           mode  == CASE \A g \in Fingers : ~s.cur[g] -> "none"
                      [] (\E g \in Fingers : s.cur[g]) /\ lag -> "multitouch"
                      [] OTHER -> s.mode
           t == FingerMultitouch(s, f)
<1>1. t = [s EXCEPT !.begun = begun, !.mode = mode]
  BY DEF FingerMultitouch
<1>2. IF NoContact(s) THEN mode = "none" ELSE mode = "multitouch"
  BY DEF NoContact
<1>3. ASSUME NEW g \in Fingers
      PROVE  begun[g] \in {0, 1} /\ (begun[g] = 1 => s.cur[g])
  <2>1. s.begun[g] \in {0, 1} /\ (lag => s.begun[g] = 0)
    BY DEF Announcing
  <2>2. g = f /\ s.cur[g] /\ s.begun[g] = 1 => s.last[g]
    BY DEF Announcing
  <2>3. g # f /\ s.begun[g] = 1 => s.cur[g]
    BY DEF Announcing
  <2> QED
    BY <2>1, <2>2, <2>3 DEF TouchEvents
<1>4. t \in DevState
  BY FingerMultitouchType
<1> HIDE DEF begun, mode
<1>5. t.begun = begun /\ t.mode = mode /\ Fixed(s, t)
  BY <1>1 DEF DevState, Fixed
<1> HIDE DEF t
<1>6. Announced(t)
  <2>1. ASSUME NEW g \in Fingers, t.begun[g] = 1 PROVE t.cur[g] /\ t.mode = "multitouch"
    BY <1>2, <1>3, <1>5, <2>1 DEF Fixed, NoContact
  <2> QED
    BY <1>3, <1>5, <2>1 DEF Announced, Fixed
<1> QED
  BY <1>2, <1>4, <1>5, <1>6 DEF t

LEMMA MultitouchStepAnnounced ==
  ASSUME NEW d \in Devices, IsTouch(d), NEW s \in DevState, NEW f \in Fingers,
         Pressed(s), Announcing(s, f)
  PROVE  LET t == MultitouchStep(d, s, f)
         IN  /\ t \in DevState /\ Fixed(s, t) /\ Announced(t) /\ t.timer = s.timer
             /\ NoContact(s) => t.mode # "multitouch"
<1> DEFINE began == IF s.mode # "none" THEN s.mode
                    ELSE IF s.lcd THEN "multitouch" ELSE IF s.cur[2] THEN "lag" ELSE "none"
           enter == IF s.mode # "none" THEN s ELSE [s EXCEPT !.mode = began]
           t     == MultitouchStep(d, s, f)
<1>0. t = CASE s.gesture \/ s.mode = "cancel" -> s
            [] ~s.gesture /\ s.mode \in {"none", "lag", "multitouch"} ->
                 IF enter.mode = "none" THEN enter ELSE FingerMultitouch(enter, f)
            [] OTHER -> CancelGesture(d, s)
  BY DEF MultitouchStep
<1>1. /\ enter \in DevState /\ Kept(s, enter) /\ enter.mode = began
      /\ began \in {s.mode, "multitouch", "lag", "none"}
  <2>1. began \in Modes /\ began \in {s.mode, "multitouch", "lag", "none"}
    BY DEF DevState, Modes
  <2>2. Kept(s, s) /\ (s.mode # "none" => began = s.mode)
    BY DEF Kept
  <2> HIDE DEF began
  <2> QED
    BY <2>1, <2>2, ModeEffect
<1>2. s.mode # "multitouch" => Announced(s)
  BY DEF Announcing, Announced
<1> SUFFICES /\ t \in DevState /\ Fixed(s, t) /\ Announced(t) /\ t.timer = s.timer
             /\ NoContact(s) => t.mode # "multitouch"
  OBVIOUS
<1> HIDE DEF t
<1>3. CASE s.gesture \/ s.mode = "cancel"
  BY <1>0, <1>2, <1>3 DEF Announcing, Fixed
<1>4. CASE ~s.gesture /\ s.mode \in {"none", "lag", "multitouch"}
  <2>1. t = IF enter.mode = "none" THEN enter ELSE FingerMultitouch(enter, f)
    BY <1>0, <1>4
  <2>2. s.mode = "none" \/ enter = s
    OBVIOUS
  <2> HIDE DEF enter, began
  <2>3. Announcing(enter, f) /\ ~enter.gesture
    BY <1>1, <1>4, <2>2 DEF Announcing, Kept
  <2>4. Fixed(s, enter) /\ NoContact(s) = NoContact(enter) /\ enter.timer = s.timer
    BY <1>1 DEF Kept, Fixed, NoContact
  <2>5. CASE enter.mode = "none"
    <3>1. s.mode = "none"
      BY <1>4, <2>2, <2>5
    <3>2. \A g \in Fingers : s.begun[g] = 0
      BY <3>1 DEF Announcing
    <3>3. Announced(enter)
      BY <1>1, <2>5, <3>2 DEF Announced, Kept
    <3> QED
      BY <1>1, <2>1, <2>4, <2>5, <3>3
  <2>6. CASE enter.mode # "none"
    <3>1. enter.mode \in {"lag", "multitouch"}
      BY <1>1, <1>4, <2>6
    <3>2. LET u == FingerMultitouch(enter, f)
          IN  /\ u \in DevState /\ Fixed(enter, u) /\ Announced(u)
              /\ NoContact(enter) => u.mode = "none"
      BY <1>1, <2>3, <3>1, FingerMultitouchAnnounced
    <3>3. FingerMultitouch(enter, f).timer = enter.timer
      BY <1>1 DEF FingerMultitouch, DevState
    <3> QED
      BY <2>1, <2>4, <2>6, <3>2, <3>3 DEF Fixed
  <2> QED
    BY <2>5, <2>6
<1>5. CASE ~(s.gesture \/ s.mode = "cancel")
           /\ ~(~s.gesture /\ s.mode \in {"none", "lag", "multitouch"})
  <2>1. t = CancelGesture(d, s)
    BY <1>0, <1>5
  <2>2. /\ CancelGesture(d, s) \in DevState /\ CancelGesture(d, s).mode = "cancel"
        /\ Kept(s, CancelGesture(d, s))
    BY CancelPressed
  <2>3. Announced(s)
    BY <1>2, <1>5
  <2> QED
    BY <1>5, <2>1, <2>2, <2>3 DEF Announced, Kept, Fixed
<1> QED
  BY <1>3, <1>4, <1>5

LEMMA SingleFingerAtRest ==
  ASSUME NEW s \in DevState, NEW f, NEW o
  PROVE  LET t == SingleFinger(s, f, o)
         IN  /\ t \in DevState /\ Fixed(s, t) /\ t.begun = s.begun
             /\ t.prox = s.prox /\ t.id = s.id
             /\ t.mode \in {s.mode, "predrag", "drag", "none"}
             /\ BothOut(s) /\ s.mode = "none" => AtRest(t)
<1> DEFINE t == SingleFinger(s, f, o)
<1>0. t \in DevState
  BY SingleFingerType
<1>1. CASE ~(s.mode \in {"none", "drag"} /\ f = 1)
  BY <1>1 DEF SingleFinger, Fixed, AtRest
<1>2. CASE s.mode \in {"none", "drag"} /\ f = 1
  <2>1. CASE s.lcd
    <3> DEFINE down == s.cur[1] /\ ~s.cur[2]
               mode == IF down THEN "drag" ELSE "none"
    <3>1. t = [s EXCEPT !.tip = down, !.mode = mode]
      BY <1>2, <2>1 DEF SingleFinger, SingleFingerTap, SingleFingerPress
    <3>2. mode \in {"drag", "none"} /\ (BothOut(s) => mode = "none")
      BY DEF BothOut
    <3> HIDE DEF down, mode
    <3>3. Fixed(s, t) /\ t.begun = s.begun /\ t.mode = mode /\ t.prox = s.prox /\ t.id = s.id
      BY <3>1 DEF DevState, Fixed
    <3> HIDE DEF t
    <3> QED
      BY <1>0, <3>2, <3>3 DEF AtRest, t
  <2>2. CASE ~s.lcd
    <3> DEFINE u == [s EXCEPT !.mode = "predrag", !.timer = TRUE]
               tapped == ~s.cur[1] /\ s.last[1] /\ ~s.cur[2] /\ o.tap
    <3>1. /\ Fixed(s, u) /\ u.begun = s.begun /\ u.mode = "predrag" /\ u.timer = TRUE
          /\ u.prox = s.prox /\ u.id = s.id /\ u.lcd = s.lcd
      BY DEF DevState, Fixed
    <3>2. t = IF tapped THEN u ELSE s
      BY <1>2, <2>2, <3>1 DEF SingleFinger, SingleFingerTap, SingleFingerPress
    <3> HIDE DEF t, u, tapped
    <3> QED
      BY <1>0, <3>1, <3>2 DEF AtRest, Fixed, t
  <2> QED
    BY <2>1, <2>2
<1> QED
  BY <1>1, <1>2

\* The filter announces and ends the right touches, and with the last contact gone
\* it is back where gestures start.
LEMMA GestureFilterAnnounced ==
  ASSUME NEW d \in Devices, IsTouch(d), NEW s \in DevState, s.serial = 0, Pressed(s),
         NEW f \in Fingers, Announcing(s, f),
         NEW o, o.spread \in {"still", "scroll", "zoom"}
  PROVE  LET t == GestureFilter(d, s, f, o)
         IN  /\ t \in DevState /\ Fixed(s, t) /\ Announced(t)
             /\ t.prox = s.prox \/ ~t.prox
             /\ t.id \in {s.id, PhyId[d]}
             /\ NoContact(s) => AtRest(t)
<1> DEFINE m == MultitouchStep(d, s, f)
<1>1. /\ m \in DevState /\ Fixed(s, m) /\ Announced(m) /\ Pressed(m)
      /\ m.prox = s.prox /\ m.id = s.id
      /\ NoContact(s) => m.mode # "multitouch"
  BY MultitouchStepAnnounced, MultitouchStepPressed
<1> HIDE DEF m
<1> DEFINE mode == IF m.mode = "cancel" THEN "none" ELSE m.mode
           c == [m EXCEPT !.mode = mode]
<1>2. /\ c \in DevState /\ Kept(m, c) /\ Pressed(c) /\ c.mode = mode
      /\ c.prox = m.prox /\ c.id = m.id
  <2>1. mode \in Modes /\ mode # "cancel" /\ mode \in {m.mode, "none"}
        /\ (m.mode = "drag" => mode = "drag")
    BY <1>1 DEF DevState, Modes
  <2> HIDE DEF mode
  <2>2. c \in DevState /\ c.mode = mode /\ Kept(m, c) /\ c.prox = m.prox
        /\ c.btn = m.btn /\ c.sbtn = m.sbtn /\ c.id = m.id
    BY <1>1, <2>1, ModeEffect
  <2> QED
    BY <1>1, <2>1, <2>2 DEF Pressed, Stroke, Kept
<1> DEFINE g == Gestures(d, c, f, o)
           u == SingleFinger(g, f, o)
<1>3. GestureFilter(d, s, f, o) =
        IF m.mode = "multitouch" \/ (m.mode = "cancel" /\ ~BothOut(m)) THEN m ELSE u
  <2>1. c = [m EXCEPT !.mode = IF @ = "cancel" THEN "none" ELSE @]
    BY <1>1 DEF DevState
  <2> QED
    BY <2>1 DEF GestureFilter, m
<1> HIDE DEF c
<1>4. /\ g \in DevState /\ Kept(c, g)
      /\ BothOut(c) => g.mode = "none"
      /\ g.mode = "multitouch" => c.mode = "multitouch"
      /\ g.id \in {c.id, PhyId[d]}
      /\ g.prox = c.prox \/ ~g.prox
  <2>1. c.serial = 0
    BY <1>1, <1>2 DEF Kept, Fixed
  <2> QED
    BY <1>2, <2>1, GesturesPressed
<1> HIDE DEF g
<1>5. /\ u \in DevState /\ Fixed(g, u) /\ u.begun = g.begun
      /\ u.prox = g.prox /\ u.id = g.id
      /\ u.mode \in {g.mode, "predrag", "drag", "none"}
      /\ BothOut(g) /\ g.mode = "none" => AtRest(u)
  BY <1>4, SingleFingerAtRest
<1> HIDE DEF u
<1>6. Fixed(s, u) /\ u.begun = m.begun
  BY <1>1, <1>2, <1>4, <1>5 DEF Fixed, Kept
<1>7. NoContact(s) => BothOut(m) /\ BothOut(c) /\ BothOut(g)
  BY <1>1, <1>2, <1>4, DeviceAssumption DEF NoContact, Fixed, Kept, BothOut
<1>8. ASSUME m.mode # "multitouch" PROVE Announced(u)
  <2>1. u.mode # "multitouch"
    BY <1>2, <1>4, <1>5, <1>8
  <2>2. \A h \in Fingers : m.begun[h] = 0
    BY <1>1, <1>8 DEF Announced
  <2> QED
    BY <1>6, <2>1, <2>2 DEF Announced
<1>9. NoContact(s) => AtRest(u)
  BY <1>4, <1>5, <1>7
<1> DEFINE t == GestureFilter(d, s, f, o)
<1>10. CASE t = m
  <2>1. NoContact(s) => t = u
    BY <1>1, <1>3, <1>7
  <2> QED
    BY <1>1, <1>9, <1>10, <2>1
<1>11. CASE t # m
  <2>1. t = u /\ m.mode # "multitouch"
    BY <1>3, <1>11
  <2> HIDE DEF t
  <2> QED
    BY <1>1, <1>2, <1>4, <1>5, <1>6, <1>8, <1>9, <2>1 DEF t
<1> QED
  BY <1>10, <1>11

\* What an event of contact f does to the touch device that nobody disturbs.
LEMMA DeliverAnnounced ==
  ASSUME NEW d \in Devices, IsTouch(d), NEW s \in DevState, s.serial = 0, Pressed(s),
         NEW p \in Tools, DevType[d] = Tool[p].type, Tool[p].serial = 1 => ~s.tip,
         Announcing(s, Tool[p].serial), s.id = PhyId[d],
         NEW ev \in Event, ev.id = PhyId[d],
         Tool[p].serial = 1 => ev.prox = s.cur[1],
         s.prox => s.gesture \/ ~s.lcd,
         Tool[p].serial # 1 /\ s.prox => s.cur[1],
         NEW o \in Observations(p)
  PROVE  LET t == Deliver(d, s, p, ev, o)
         IN  /\ Fixed(s, t) /\ Announced(t) /\ t.id = PhyId[d]
             /\ t.prox => t.cur[1] /\ (t.gesture \/ ~t.lcd)
             /\ NoContact(s) => AtRest(t)
<1> DEFINE f == Tool[p].serial
           g == GestureFilter(d, s, f, o)
           press == [ev EXCEPT !.btn = g.tip]
           t == Dispatch(d, g, press, o.far, o.quiet)
<1>1. f \in Fingers
  BY ToolAssumption DEF IsTouch
<1>2. /\ g \in DevState /\ g.serial = 0
      /\ f = 1 => Pressing(g)
  BY <1>1, ObservationType, GestureFilterPressing
<1>3. /\ Fixed(s, g) /\ Announced(g)
      /\ g.prox = s.prox \/ ~g.prox
      /\ g.id = PhyId[d]
      /\ NoContact(s) => AtRest(g)
  BY <1>1, ObservationType, GestureFilterAnnounced
<1>4. Deliver(d, s, p, ev, o) = IF (~g.gesture /\ g.lcd) \/ f # 1 THEN g ELSE t
  BY DEF Deliver
<1>5. s.prox \in BOOLEAN /\ g.prox \in BOOLEAN /\ ev.prox \in BOOLEAN
  BY <1>2 DEF DevState, Event
<1>6. CASE (~g.gesture /\ g.lcd) \/ f # 1
  <2> HIDE DEF g
  <2>1. g.prox => g.cur[1] /\ (g.gesture \/ ~g.lcd)
    BY <1>3, <1>5, <1>6 DEF Fixed
  <2> QED
    BY <1>3, <1>4, <1>6, <2>1
<1>7. CASE ~((~g.gesture /\ g.lcd) \/ f # 1)
  <2> HIDE DEF g
  <2>1. press \in Event /\ press.btn = g.tip /\ press.prox = ev.prox /\ press.id = ev.id
    BY <1>2 DEF Event, DevState
  <2> HIDE DEF press
  <2>2. /\ Kept(g, t) /\ t.mode = g.mode
        /\ t.prox = ev.prox /\ t.id \in {g.id, ev.id}
    BY <1>2, <1>7, <2>1, TouchDispatchPressed
  <2> HIDE DEF t
  <2>3. Fixed(s, t) /\ Announced(t) /\ (AtRest(g) => AtRest(t))
    BY <1>3, <2>2 DEF Fixed, Kept, Announced, AtRest
  <2> QED
    BY <1>3, <1>4, <1>7, <2>2, <2>3 DEF Fixed
<1> QED
  BY <1>6, <1>7

\* A device no tool belongs to stays as it was.
Untouched(s) == /\ ~s.prox /\ ~s.sbtn /\ s.mode = "none"
                /\ \A g \in Fingers : s.begun[g] = 0

\* The touch device D and its contacts: the newest state of every channel is what the
\* hardware sees, and no event of a contact is ever refused.
DeviceInv(D, s) ==
  /\ s.enabled /\ s.touchOn /\ s.serial = 0 /\ s.id = PhyId[D]
  /\ \A p \in Tools : s.cur[Tool[p].serial] = hw[p]
  /\ \A f \in Fingers : s.cur[f] => \E p \in Tools : Tool[p].serial = f
  /\ s.prox => s.cur[1] /\ (s.gesture \/ ~s.lcd)
  /\ Pressed(s) /\ Announced(s)
  /\ NoContact(s) => AtRest(s)

ContactInv(D) ==
  /\ TypeOK
  /\ active \in {None, D}
  /\ DeviceInv(D, dev[D])
  /\ \A e \in Devices \ {D} : Untouched(dev[e])

LEMMA ContactEvent ==
  ASSUME NEW D \in Devices, ContactsOnly(D), ContactInv(D),
         NEW p \in Tools, NEW ev \in Event, NEW reused, NEW o \in Observations(p),
         ToolStep(D, p, ev, reused, o)
  PROVE  /\ active' \in {None, D}
         /\ DeviceInv(D, dev[D])'
         /\ \A e \in Devices \ {D} : dev'[e] = dev[e]
<1> DEFINE f == Tool[p].serial
           recorded == RecordContact(dev[D], f, ev.prox, reused)
           t == Deliver(D, recorded, p, ev, o)
<1>1. /\ IsTouch(D) /\ f \in Fingers /\ ev.prox \in BOOLEAN
      /\ ev.id = PhyId[D] /\ DevType[D] = Tool[p].type
      /\ dev[D] \in DevState /\ DeviceInv(D, dev[D]) /\ dev \in [Devices -> DevState]
      /\ hw \in [Tools -> BOOLEAN] /\ hw' = [hw EXCEPT ![p] = ev.prox]
  BY FindToolType DEF ContactsOnly, ContactInv, TypeOK, ToolStep, Event
<1>2. ArbitratedControl(D, ev.id, o.idle)
  BY <1>1 DEF ArbitratedControl, ContactInv, DeviceInv, IsPad, IsTouch
<1>3. TakeControl(D) = dev
  BY DEF TakeControl, ContactInv
<1>4. active' = (IF ev.prox THEN D ELSE None) /\ dev' = [dev EXCEPT ![D] = t]
  BY <1>1, <1>2, <1>3 DEF ToolStep, DeviceEvent
<1>5. /\ recorded \in DevState
      /\ Pressed(recorded) /\ Announcing(recorded, f)
      /\ recorded.enabled /\ recorded.touchOn /\ recorded.serial = 0
      /\ recorded.id = PhyId[D]
      /\ f = 1 => ~recorded.tip
      /\ recorded.cur = [dev[D].cur EXCEPT ![f] = ev.prox]
      /\ recorded.prox = dev[D].prox
      /\ recorded.gesture = dev[D].gesture /\ recorded.lcd = dev[D].lcd
  <2> DEFINE cur  == [dev[D].cur EXCEPT ![f] = ev.prox]
             last == [g \in Fingers |-> IF g = f THEN RawSample > 1 /\ dev[D].cur[f]
                                        ELSE dev[D].last[g] /\ g # reused]
             tip  == dev[D].tip /\ f # 1
  <2>1. recorded \in DevState
    BY <1>1, RecordContactType
  <2>2. recorded = [dev[D] EXCEPT !.last = last, !.cur = cur, !.tip = tip]
    BY <1>1 DEF RecordContact, DevState
  <2>3. /\ cur[f] = ev.prox /\ \A g \in Fingers \ {f} : cur[g] = dev[D].cur[g]
        /\ last[f] = dev[D].cur[f]
    BY <1>1 DEF DevState, ContactsOnly
  <2>4. tip => dev[D].tip /\ f # 1
    OBVIOUS
  <2> HIDE DEF last, tip, cur
  <2>5. /\ recorded.cur = cur /\ recorded.last = last /\ recorded.tip = tip
        /\ recorded.serial = dev[D].serial /\ recorded.id = dev[D].id
        /\ recorded.enabled = dev[D].enabled /\ recorded.touchOn = dev[D].touchOn
        /\ recorded.prox = dev[D].prox /\ recorded.btn = dev[D].btn
        /\ recorded.sbtn = dev[D].sbtn /\ recorded.mode = dev[D].mode
        /\ recorded.lcd = dev[D].lcd /\ recorded.gesture = dev[D].gesture
        /\ recorded.begun = dev[D].begun
    BY <1>1, <2>2 DEF DevState
  <2> HIDE DEF recorded
  <2>6. Pressed(recorded)
    BY <1>1, <2>4, <2>5 DEF DeviceInv, Pressed, Stroke
  <2>7. Announcing(recorded, f)
    BY <1>1, <2>3, <2>5 DEF DeviceInv, Announced, Announcing
  <2> QED
    BY <1>1, <2>1, <2>4, <2>5, <2>6, <2>7 DEF DeviceInv, cur
<1> HIDE DEF recorded, f
<1>6. /\ f = 1 => ev.prox = recorded.cur[1]
      /\ recorded.prox => recorded.gesture \/ ~recorded.lcd
      /\ f # 1 /\ recorded.prox => recorded.cur[1]
  BY <1>1, <1>5, DeviceAssumption DEF DeviceInv, DevState
<1>7. /\ Fixed(recorded, t) /\ Announced(t) /\ t.id = PhyId[D]
      /\ t.prox => t.cur[1] /\ (t.gesture \/ ~t.lcd)
      /\ NoContact(recorded) => AtRest(t)
  BY <1>1, <1>5, <1>6, DeliverAnnounced DEF f
<1>8. Pressed(t)
  BY <1>1, <1>5, DeliverPressed DEF f
<1> HIDE DEF t
<1>9. \A q \in Tools : t.cur[Tool[q].serial] = hw'[q]
  <2> SUFFICES ASSUME NEW q \in Tools PROVE t.cur[Tool[q].serial] = hw'[q]
    OBVIOUS
  <2>1. Tool[q].serial \in Fingers /\ (q # p => Tool[q].serial # f)
    BY DEF ContactsOnly, f
  <2>2. dev[D].cur[Tool[q].serial] = hw[q] /\ dev[D].cur \in [Fingers -> BOOLEAN]
    BY <1>1 DEF DeviceInv, DevState
  <2> QED
    BY <1>1, <1>5, <1>7, <2>1, <2>2 DEF Fixed, f
<1>10. \A g \in Fingers : t.cur[g] => \E q \in Tools : Tool[q].serial = g
  <2> SUFFICES ASSUME NEW g \in Fingers, t.cur[g] PROVE \E q \in Tools : Tool[q].serial = g
    OBVIOUS
  <2>1. CASE g = f
    BY <2>1 DEF f
  <2>2. CASE g # f
    BY <1>1, <1>5, <1>7, <2>2 DEF Fixed, DeviceInv, DevState
  <2> QED
    BY <2>1, <2>2
<1>11. DeviceInv(D, dev[D])'
  <2>1. /\ t.enabled /\ t.touchOn /\ t.serial = 0
        /\ NoContact(t) => NoContact(recorded)
    BY <1>5, <1>7 DEF Fixed, NoContact
  <2>2. dev'[D] = t
    BY <1>1, <1>4
  <2> QED
    BY <1>7, <1>8, <1>9, <1>10, <2>1, <2>2
       DEF DeviceInv, Pressed, Stroke, Announced, NoContact, AtRest
<1> QED
  BY <1>1, <1>4, <1>11

LEMMA ContactInvStep ==
  ASSUME NEW D \in Devices, ContactsOnly(D), ContactInv(D), [UndisturbedNext]_vars
  PROVE  ContactInv(D)'
<1>1. TypeOK /\ TypeOK'
  BY TypeStep DEF ContactInv, UndisturbedNext, Next, Settle
<1>2. ASSUME NEW p \in Tools, Report(p) PROVE ContactInv(D)'
  <2>1. PICK prox \in BOOLEAN, btn \in BOOLEAN :
          \E o \in Observations(p) : ToolEvent(p, prox, btn, o)
    BY <1>2 DEF Report
  <2>2. PICK o \in Observations(p) : ToolEvent(p, prox, btn, o)
    BY <2>1
  <2> DEFINE ev == [prox |-> prox, btn |-> btn, id |-> Tool[p].id, serial |-> Tool[p].serial]
  <2>3. /\ FindTool(p) = D /\ D # None /\ ev \in Event
        /\ dev[D].enabled /\ dev[D].touchOn
    BY ToolAssumption DEF ContactsOnly, ContactInv, DeviceInv, Event
  <2>4. PICK reused : DeviceEvent(D, p, ev, reused, o)
    BY <2>2, <2>3 DEF ToolEvent
  <2>5. ToolStep(D, p, ev, reused, o)
    BY <2>2, <2>3, <2>4 DEF ToolStep, ToolEvent
  <2> HIDE DEF ev
  <2>6. /\ active' \in {None, D} /\ DeviceInv(D, dev[D])'
        /\ \A e \in Devices \ {D} : dev'[e] = dev[e]
    BY <2>3, <2>5, ContactEvent
  <2> QED
    BY <1>1, <2>6 DEF ContactInv, Untouched
<1>3. ASSUME NEW d \in Devices, IsTouch(d), Timer(d) PROVE ContactInv(D)'
  <2> DEFINE s == TapTimer(dev[d])
             fired == [dev[d] EXCEPT !.timer = FALSE]
             click == [ClickButton1(ClickButton1(fired, TRUE), FALSE) EXCEPT !.mode = "none"]
  <2>1. /\ UNCHANGED <<active, hw>>
        /\ dev'[d] = s /\ \A e \in Devices \ {d} : dev'[e] = dev[e]
    BY <1>1, <1>3 DEF Timer, TypeOK
  <2>2. s = IF dev[d].mode = "predrag" THEN click ELSE fired
    BY DEF TapTimer
  <2>3. /\ Fixed(dev[d], fired) /\ fired.begun = dev[d].begun /\ fired.mode = dev[d].mode
        /\ fired.prox = dev[d].prox /\ fired.id = dev[d].id
        /\ fired.btn = dev[d].btn /\ fired.sbtn = dev[d].sbtn /\ fired.tip = dev[d].tip
    BY <1>1 DEF TypeOK, DevState, Fixed
  <2>4. /\ Fixed(dev[d], click) /\ click.begun = dev[d].begun /\ click.mode = "none"
        /\ click.prox = dev[d].prox /\ click.id = dev[d].id
        /\ click.btn = FALSE /\ click.sbtn = FALSE /\ click.tip = dev[d].tip
    BY <1>1 DEF TypeOK, DevState, Fixed, ClickButton1
  <2> HIDE DEF s, click, fired
  <2>5. CASE d = D
    <3>1. DeviceInv(D, dev[D]) /\ hw' = hw
      BY <2>1 DEF ContactInv
    <3>2. /\ Fixed(dev[D], s) /\ s.id = dev[D].id /\ s.prox = dev[D].prox
          /\ NoContact(s) = NoContact(dev[D])
      BY <2>2, <2>3, <2>4, <2>5 DEF Fixed, NoContact
    <3>3. Pressed(s)
      BY <2>2, <2>3, <2>4, <2>5, <3>1 DEF DeviceInv, Pressed, Stroke, Fixed
    <3>4. Announced(s) /\ (AtRest(dev[D]) => AtRest(s))
      <4>1. CASE dev[D].mode = "predrag"
        BY <2>2, <2>4, <2>5, <3>1, <4>1 DEF DeviceInv, Announced, AtRest
      <4>2. CASE dev[D].mode # "predrag"
        BY <2>2, <2>3, <2>5, <3>1, <4>2 DEF DeviceInv, Announced, AtRest, Fixed
      <4> QED
        BY <4>1, <4>2
    <3>5. DeviceInv(D, s)
      BY <3>1, <3>2, <3>3, <3>4 DEF DeviceInv, Fixed
    <3>6. DeviceInv(D, dev[D])'
      BY <2>1, <2>5, <3>1, <3>5
         DEF DeviceInv, Pressed, Stroke, Announced, NoContact, AtRest
    <3> QED
      BY <1>1, <2>1, <2>5, <3>6 DEF ContactInv, Untouched
  <2>6. CASE d # D
    <3>1. Untouched(dev[d])
      BY <2>6 DEF ContactInv
    <3>2. s = fired
      BY <2>2, <3>1 DEF Untouched
    <3>3. Untouched(s)
      BY <2>3, <3>1, <3>2 DEF Untouched
    <3>4. dev'[D] = dev[D] /\ \A e \in Devices \ {D} : Untouched(dev'[e])
      BY <2>1, <2>6, <3>3 DEF ContactInv
    <3> QED
      BY <1>1, <2>1, <3>4
         DEF ContactInv, DeviceInv, Untouched, Pressed, Stroke, Announced, NoContact, AtRest
  <2> QED
    BY <2>5, <2>6
<1>4. CASE UNCHANGED vars
  BY <1>1, <1>4 DEF vars, ContactInv, DeviceInv, Untouched, Pressed, Stroke, Announced,
                    NoContact, AtRest
<1> QED
  BY <1>2, <1>3, <1>4 DEF UndisturbedNext

LEMMA ContactInvInit ==
  ASSUME NEW D \in Devices, ContactsOnly(D), Init
  PROVE  ContactInv(D)
<1>1. PICK display, gesture \in SUBSET {d \in Devices : IsTouch(d)} :
        dev = [d \in Devices |->
                 [FreshDevice(d, BoundTo[d], d \in display, d \in gesture)
                    EXCEPT !.enabled = TRUE]]
  BY DEF Init
<1>2. ASSUME NEW d \in Devices
      PROVE  /\ ~dev[d].prox /\ ~dev[d].btn /\ ~dev[d].sbtn /\ ~dev[d].tip
             /\ dev[d].mode = "none" /\ dev[d].serial = BoundTo[d] /\ dev[d].id = PhyId[d]
             /\ dev[d].cur = [f \in Fingers |-> FALSE]
             /\ dev[d].begun = [f \in Fingers |-> 0]
             /\ dev[d].enabled /\ dev[d].touchOn
  BY <1>1 DEF FreshDevice
<1>3. Pressed(dev[D]) /\ Announced(dev[D]) /\ AtRest(dev[D])
  BY <1>2 DEF Pressed, Stroke, Announced, AtRest
<1>4. DeviceInv(D, dev[D])
  <2>1. \A p \in Tools : hw[p] = FALSE /\ Tool[p].serial \in Fingers
    BY DEF Init, ContactsOnly
  <2>2. \A f \in Fingers : dev[D].cur[f] = FALSE
    BY <1>2
  <2> QED
    BY <1>2, <1>3, <2>1, <2>2 DEF DeviceInv, ContactsOnly, Unbound
<1>5. \A e \in Devices : Untouched(dev[e])
  BY <1>2 DEF Untouched
<1> QED
  BY <1>4, <1>5, TypeInit DEF ContactInv, Init

\* With the last finger gone a touch device nobody disturbs has left proximity, holds no
\* button and waits for a gesture, or for the second half of one tap, for any number of
\* contacts in any order of touching and lifting.
THEOREM GesturesEnd ==
  ASSUME NEW D \in Devices, ContactsOnly(D)
  PROVE  TouchSpec => []GestureEnds
<1>1. Init => ContactInv(D)
  BY ContactInvInit
<1>2. ContactInv(D) /\ [UndisturbedNext]_vars => ContactInv(D)'
  BY ContactInvStep
<1>3. ContactInv(D) => GestureEnds
  <2> SUFFICES ASSUME ContactInv(D), NEW d \in Devices, ~InRange(d)
               PROVE  /\ ~dev[d].prox /\ ~dev[d].sbtn
                      /\ \/ dev[d].mode = "none"
                         \/ dev[d].mode = "predrag" /\ dev[d].timer
    BY DEF GestureEnds
  <2>1. CASE d # D
    BY <2>1 DEF ContactInv, Untouched
  <2>2. CASE d = D
    <3>1. DeviceInv(D, dev[D])
      BY DEF ContactInv
    <3>2. NoContact(dev[D])
      BY <2>2, <3>1 DEF NoContact, DeviceInv, InRange, ToolsOf, ContactsOnly
    <3> QED
      BY <2>2, <3>1, <3>2, DeviceAssumption DEF DeviceInv, AtRest, Pressed, NoContact
  <2> QED
    BY <2>1, <2>2
<1> QED
  BY <1>1, <1>2, <1>3, PTL DEF TouchSpec

\* Every touch the server is told of begins once and has ended when its contact has left,
\* whatever the other contacts do, in any order and with gestures on or off.
THEOREM TouchesEnd ==
  ASSUME NEW D \in Devices, ContactsOnly(D)
  PROVE  TouchSpec => []TouchesBalanced
<1>1. Init => ContactInv(D)
  BY ContactInvInit
<1>2. ContactInv(D) /\ [UndisturbedNext]_vars => ContactInv(D)'
  BY ContactInvStep
<1>3. ContactInv(D) => TouchesBalanced
  BY DEF ContactInv, DeviceInv, Announced, Untouched, TouchesBalanced
<1> QED
  BY <1>1, <1>2, <1>3, PTL DEF TouchSpec
=============================================================================
