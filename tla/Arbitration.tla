----------------------------- MODULE Arbitration -----------------------------
(***************************************************************************)
(* Who moves the pointer.  Every event of every tool of every tablet goes  *)
(* through wcmEvent, which finds the server device of the tool, asks       *)
(* check_arbitrated_control whether that device may have the one pointer   *)
(* (WACOM_DRIVER.active), takes the pointer away from the device that has  *)
(* it, and only then filters and sends the event.                          *)
(*                                                                         *)
(* The environment is the hardware (tools come into range, report and      *)
(* leave), the clock, the user changing properties at run time, and the    *)
(* server enabling, disabling, adding and removing devices.                *)
(***************************************************************************)
EXTENDS TouchFilter

CONSTANTS
  Tools,       \* the physical tools: pens, pucks, pads and touch contacts
  Tool,        \* [Tools -> [tablet, type, id, serial]]: what each reports
  Tablet,      \* [Devices -> tablets]
  IdKind,      \* [Ids -> Kinds]: what a device id says of its tool
  BoundTo,     \* [Devices -> Serials]: tool->serial, set from the options
  Bindable,    \* the devices whose serial binding the user may change
  Togglable,   \* the options of {"gesture", "touch"} the user may toggle
  Pluggable,   \* the devices the server may disable, enable, remove, add
  None         \* no device

\* A pen and its eraser may share a device id; other kinds of tools do not.
Kinds   == {"pen", "cursor", "touch", "pad"}
Kind(t) == IF t \in {"stylus", "eraser"} THEN "pen" ELSE t

ASSUME ToolAssumption ==
  /\ \A p \in Tools : /\ Tool[p].type \in Types
                      /\ Tool[p].id \in Ids
                      /\ Tool[p].serial \in Serials
                      /\ Tool[p].type = "touch" => Tool[p].serial \in Fingers
                      /\ IdKind[Tool[p].id] = Kind(Tool[p].type)
  /\ \A d \in Devices : IdKind[PhyId[d]] = Kind(DevType[d])
  /\ IdKind \in [Ids -> Kinds]
  /\ BoundTo \in [Devices -> Serials]
  /\ \A d, e \in Devices :      \* "already have a tool with type/serial"
       /\ Tablet[d] = Tablet[e]
       /\ DevType[d] = DevType[e]
       /\ BoundTo[d] = BoundTo[e]
       => d = e
  /\ Bindable \subseteq Devices
  /\ Pluggable \subseteq Devices
  /\ None \notin Devices

VARIABLES
  active,   \* WACOM_DRIVER.active
  dev,      \* [Devices -> DevState]
  hw        \* [Tools -> BOOLEAN]: the tools in range of their tablet

vars == <<active, dev, hw>>

Init ==
  /\ active = None
  /\ \E display, gesture \in SUBSET {d \in Devices : IsTouch(d)} :
       dev = [d \in Devices |->
                [FreshDevice(d, BoundTo[d], d \in display, d \in gesture)
                   EXCEPT !.enabled = TRUE]]
  /\ hw = [p \in Tools |-> FALSE]

-----------------------------------------------------------------------------
(***************************************************************************)
(* The device of a tool: the one configured for its serial number, or else *)
(* the one of its type configured for no serial number.                    *)
(***************************************************************************)
ToolDevices(p, serial) ==
  {d \in Devices : /\ Tablet[d] = Tool[p].tablet
                   /\ DevType[d] = Tool[p].type
                   /\ BoundTo[d] = serial}

FindTool(p) ==
  LET exact == ToolDevices(p, Tool[p].serial)
      any   == ToolDevices(p, 0)
  IN  IF exact \cup any = {} THEN None
      ELSE CHOOSE d \in Devices : d \in (IF exact # {} THEN exact ELSE any)

MutArbitratedControlCursor(d, id, idle) ==    \* the idle puck does not yield
  /\ ~IsPad(d)
  /\ active = None \/ dev[active].id = id \/ ~IsTouch(d)

(***************************************************************************)
(* May device d have the pointer for an event with device id id?  idle:    *)
(* the active device has not been used for 100 ms.                         *)
(***************************************************************************)
ArbitratedControl(d, id, idle) ==
  /\ ~IsPad(d)
  /\ \/ active = None
     \/ dev[active].id = id
     \/ IsCursor(active) /\ idle /\ ~dev[active].btn
     \/ ~IsCursor(active) /\ ~IsCursor(d) /\ ~IsTouch(d)

MutTakeControlNoSoftOut(d) ==
  IF active \notin {None, d} THEN [dev EXCEPT ![active] = CancelGesture(active, @)] ELSE dev

MutTakeControlSameTablet(d) ==
  IF active \notin {None, d} /\ Tablet[active] = Tablet[d]
  THEN [dev EXCEPT ![active] = CancelGesture(active, SoftOutEvent(active, @))]
  ELSE dev

\* The device that loses the pointer leaves proximity and drops its gesture.
TakeControl(d) ==
  IF active \notin {None, d}
  THEN [dev EXCEPT ![active] = CancelGesture(active, SoftOutEvent(active, @))]
  ELSE dev

\* What the event does to its own device once it may be sent.
Deliver(d, s, p, ev, o) ==
  IF ~IsTouch(d) THEN Dispatch(d, s, ev, o.far, o.quiet)
  ELSE LET f == Tool[p].serial
           g == GestureFilter(d, s, f, o)
       IN  IF (~g.gesture /\ g.lcd) \/ f # 1 THEN g
           ELSE Dispatch(d, g, [ev EXCEPT !.btn = g.tip], o.far, o.quiet)

(***************************************************************************)
(* wcmEvent for an event of tool p.                                        *)
(***************************************************************************)
DeviceEvent(d, p, ev, reused, o) ==
  LET recorded == IF IsTouch(d)
                  THEN RecordContact(dev[d], Tool[p].serial, ev.prox, reused)
                  ELSE dev[d]
      granted  == ArbitratedControl(d, ev.id, o.idle)
  IN  /\ active' = IF ~granted THEN active ELSE IF ev.prox THEN d ELSE None
      /\ dev' = IF granted \/ IsPad(d)
                THEN [(IF granted THEN TakeControl(d) ELSE dev)
                        EXCEPT ![d] = Deliver(d, recorded, p, ev, o)]
                ELSE [dev EXCEPT ![d] = recorded]

\* What is measured during an event; left open only where it can matter.
Observations(p) ==
  LET touch         == Tool[p].type = "touch"
      f             == Tool[p].serial
      two           == \E q \in Tools \ {p} :
                         hw[q] /\ Tool[q].type = "touch" /\ Tool[q].tablet = Tool[p].tablet
      Open(c, S, v) == IF c THEN S ELSE {v}
  IN  [idle   : Open(active # None /\ IsCursor(active), BOOLEAN, FALSE),
       far    : Open(~touch /\ FindTool(p) \in Relative, BOOLEAN, FALSE),
       quiet  : Open(~touch \/ f = 1, BOOLEAN, FALSE),
       lag    : Open(touch, BOOLEAN, FALSE),
       tap    : Open(touch /\ f = 1, BOOLEAN, FALSE),
       tap2   : Open(touch /\ f = 2, BOOLEAN, FALSE),
       spread : Open(touch /\ two, {"still", "scroll", "zoom"}, "still")]

ToolEvent(p, prox, btn, o) ==
  LET d  == FindTool(p)
      ev == [prox |-> prox, btn |-> btn, id |-> Tool[p].id, serial |-> Tool[p].serial]
  IN  /\ prox \/ hw[p]
      /\ hw' = [hw EXCEPT ![p] = prox]
      /\ IF d # None /\ dev[d].enabled /\ (IsTouch(d) => dev[d].touchOn)
         THEN \E reused \in IF IsTouch(d)
                            THEN ReusableChannels(dev[d], Tool[p].serial, prox)
                            ELSE {0} :
                 DeviceEvent(d, p, ev, reused, o)
         ELSE UNCHANGED <<active, dev>>

\* The delayed single tap.
Timer(d) ==
  /\ dev[d].timer
  /\ dev' = [dev EXCEPT ![d] = TapTimer(@)]
  /\ UNCHANGED <<active, hw>>

-----------------------------------------------------------------------------
(***************************************************************************)
(* The user's run-time settings.                                           *)
(***************************************************************************)
BindToSerial(d, serial) ==
  /\ dev' = [dev EXCEPT ![d].serial = serial]
  /\ UNCHANGED <<active, hw>>

SetGesture(d) ==
  /\ "gesture" \in Togglable
  /\ dev' = [dev EXCEPT ![d].gesture = ~@]
  /\ UNCHANGED <<active, hw>>

SetTouch(d) ==
  /\ "touch" \in Togglable
  /\ dev' = [dev EXCEPT ![d].touchOn = ~@]
  /\ UNCHANGED <<active, hw>>

(***************************************************************************)
(* The server's device lifecycle.  Disabling a device makes the server     *)
(* release its buttons and touches; the driver is not told.                *)
(***************************************************************************)
DeviceOn(d) ==
  /\ ~dev[d].enabled
  /\ dev' = [dev EXCEPT ![d].enabled = TRUE]
  /\ UNCHANGED <<active, hw>>

DeviceOff(d) ==
  /\ dev[d].enabled
  /\ dev' = [dev EXCEPT ![d].enabled = FALSE, ![d].timer = FALSE,
                        ![d].sbtn = FALSE,
                        ![d].begun = [f \in Fingers |-> 0]]
  /\ UNCHANGED <<active, hw>>

\* Removing a device and adding it again.  What belongs to its tablet goes
\* only with the last device of the tablet (wcmFreeCommon).
Replug(d, gesture) ==
  LET fresh == FreshDevice(d, BoundTo[d], dev[d].lcd, gesture)
      alone == \A e \in Devices \ {d} : Tablet[e] # Tablet[d]
  IN  /\ ~dev[d].enabled
      /\ active' = IF active = d THEN None ELSE active
      /\ dev' = [dev EXCEPT ![d] =
                   IF alone THEN fresh
                   ELSE [fresh EXCEPT !.mode = dev[d].mode, !.cur = dev[d].cur,
                                      !.last = dev[d].last, !.tip = dev[d].tip]]
      /\ UNCHANGED hw

\* Tool p reports anything it can.
Report(p) ==
  \E prox \in BOOLEAN, btn \in BOOLEAN :
    \E o \in Observations(p) :
      /\ btn => (prox /\ Tool[p].type # "touch")
      /\ ToolEvent(p, prox, btn, o)

Settle(d) ==
  \/ IsTouch(d) /\ (Timer(d) \/ SetGesture(d) \/ SetTouch(d))
  \/ d \in Bindable /\ \E serial \in Serials : BindToSerial(d, serial)
  \/ /\ d \in Pluggable
     /\ \/ DeviceOn(d) \/ DeviceOff(d)
        \/ \E gesture \in IF IsTouch(d) THEN BOOLEAN ELSE {FALSE} : Replug(d, gesture)

Next == \/ \E p \in Tools : Report(p)
        \/ \E d \in Devices : Settle(d)

Spec == Init /\ [][Next]_vars

\* The server runs expired timers.
TimersRun == \A d \in Devices : WF_vars(Timer(d))

\* Nobody changes settings or devices.
UndisturbedNext == \/ \E p \in Tools : Report(p)
                   \/ \E d \in Devices : IsTouch(d) /\ Timer(d)

TouchSpec == Init /\ [][UndisturbedNext]_vars /\ TimersRun

\* A device bound to a serial number ignores the soft prox-out and other tools.
Unbound(d) == BoundTo[d] = 0 /\ d \notin Bindable

\* Every tool is a contact of touch device D, each with a number of its own; D is bound
\* to no serial number, and the history of a channel holds more than one state.
ContactsOnly(D) ==
  /\ D \in Devices /\ IsTouch(D) /\ Unbound(D)
  /\ \A p \in Tools : /\ FindTool(p) = D
                      /\ Tool[p].id = PhyId[D]
                      /\ Tool[p].serial \in Fingers
  /\ \A p, q \in Tools : Tool[p].serial = Tool[q].serial => p = q
  /\ RawSample > 1

-----------------------------------------------------------------------------

(***************************************************************************)
(* Properties.                                                             *)
(***************************************************************************)

\* Every variable has its type.
TypeOK ==
  /\ active \in Devices \cup {None}
  /\ dev \in [Devices -> DevState]
  /\ hw \in [Tools -> BOOLEAN]

\* The devices arbitration can make a promise about: a touch device may lose
\* the pointer without being told (two contacts).
Arbitrated(d) == ~IsPad(d) /\ ~IsTouch(d) /\ Unbound(d)

\* Only the device that has the pointer is in proximity: whoever takes the
\* pointer in wcmEvent has put the previous device out of proximity, and a
\* refused event brings nobody in.
PointerExclusive ==
  \A d \in Devices : Arbitrated(d) /\ dev[d].prox => active = d

\* The server's view of a pen, puck or pad follows oldState: the prox and
\* button events sent are exactly its changes, through soft prox-outs,
\* suppressed events and forced prox-outs alike (a disabled device's buttons
\* have been released by the server).
ServerAgrees ==
  \A d \in Devices : ~IsTouch(d) =>
    /\ dev[d].sprox = dev[d].prox
    /\ dev[d].sbtn => dev[d].btn
    /\ dev[d].btn => dev[d].prox

ToolsOf(d)  == {p \in Tools : FindTool(p) = d}
InRange(d)  == \E p \in ToolsOf(d) : hw[p]

\* No ghost: when no tool of a device is in range any more, the device is
\* out of proximity; no prox-out event was refused while it mattered.
Observed(d) == ~IsTouch(d) /\ Unbound(d) /\ d \notin Pluggable
NoGhostProximity ==
  \A d \in Devices : Observed(d) /\ dev[d].prox => InRange(d)

\* When the last contact has left, a touch device is out of proximity, button 1 is up
\* at the server and gestures start over, whichever gesture was under way; only a tap
\* that may still become a drag outlives the fingers.
GestureEnds ==
  \A d \in Devices : IsTouch(d) /\ ~InRange(d) =>
    /\ ~dev[d].prox /\ ~dev[d].sbtn
    /\ \/ dev[d].mode = "none"
       \/ dev[d].mode = "predrag" /\ dev[d].timer

\* "If were in DRAG mode, send left button up now": no button of a touch device
\* stays down at the server once its last contact has left.
DragReleased ==
  \A d \in Devices : IsTouch(d) /\ ~InRange(d) => ~dev[d].sbtn

\* A contact is announced to the server at most once, and no announced
\* contact is missing its TouchEnd once it has left.
TouchesBalanced ==
  \A d \in Devices, f \in Fingers :
    dev[d].begun[f] \in {0, 1} /\ (dev[d].begun[f] = 1 => dev[d].cur[f])

\* The device that loses the pointer to another keeps no button down at the
\* server, not even the one a drag gesture pressed.
LoserReleases ==
  [][\A d \in Devices :
       active = d /\ active' \notin {None, d} /\ Unbound(d) =>
         ~dev'[d].sbtn /\ ~dev'[d].prox]_vars

\* A single tap is resolved: it becomes a click, a drag or a cancelled tap.
TapResolves == \A d \in Devices : dev[d].mode = "predrag" ~> dev[d].mode # "predrag"

(***************************************************************************)
(* Arbitration implements PointerControl.                                  *)
(***************************************************************************)
MayYield(h, d) ==
  \/ IsCursor(h)
  \/ ~IsCursor(d) /\ ~IsTouch(d)
  \/ Kind(DevType[h]) = Kind(DevType[d])

Control == INSTANCE PointerControl WITH
  Pointers <- {d \in Devices : Arbitrated(d)},
  Others   <- {d \in Devices : ~IsPad(d) /\ ~Arbitrated(d)},
  Yields   <- {y \in Devices \X Devices : MayYield(y[1], y[2])},
  holder   <- active,
  inprox   <- {d \in Devices : Arbitrated(d) /\ dev[d].prox}

\* Every step is a step of PointerControl: a touch takes the pointer only from
\* nobody, from an idle puck or from another touch device, a puck only from
\* nobody or from a puck, and never do two pointers stay in proximity.
ControlSpec == Control!Spec
=============================================================================
