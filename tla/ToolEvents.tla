------------------------------ MODULE ToolEvents ------------------------------
(***************************************************************************)
(* What the driver remembers of one server device (WacomDeviceRec, "priv"  *)
(* in the source) and what one event makes of it: wcmSendEvents and the    *)
(* functions it calls, wcmSoftOutEvent, and the part of                    *)
(* commonDispatchDevice that decides whether an event is sent at all.      *)
(*                                                                         *)
(* A device's state is a record.  The fields prox, btn and id are priv's   *)
(* oldState; sprox and sbtn are what the server has been told (proximity   *)
(* and button 1); the fields from mode on belong to the touch device's     *)
(* tablet (WacomCommonRec) and stay at their initial value elsewhere.      *)
(***************************************************************************)
EXTENDS Integers, FiniteSets

CONSTANTS
  Devices,    \* the server devices of all tablets
  DevType,    \* [Devices -> Types]: the type a device was configured with
  PhyId,      \* [Devices -> Ids]: the generic device id of that type
  Relative,   \* the devices in relative mode
  Fingers,    \* the contact numbers a touch device reports, 1..n
  Ids,        \* the device ids the tools report
  Serials,    \* the serial numbers the tools report; 0 is "any"
  RawSample   \* wcmRawSample, the length of the history of a channel

Types == {"stylus", "eraser", "cursor", "touch", "pad"}

ASSUME DeviceAssumption ==
  /\ DevType \in [Devices -> Types]
  /\ PhyId \in [Devices -> Ids]
  /\ Relative \subseteq Devices
  /\ Fingers \subseteq Nat \ {0}
  /\ {1, 2} \subseteq Fingers
  /\ Serials \subseteq Nat
  /\ 0 \in Serials
  /\ RawSample \in Nat \ {0}

IsPad(d)    == DevType[d] = "pad"
IsTouch(d)  == DevType[d] = "touch"
IsCursor(d) == DevType[d] = "cursor"

Modes == {"none", "tap", "scroll", "zoom", "lag", "predrag", "drag",
          "cancel", "multitouch"}

DevState ==
  [enabled : BOOLEAN,             \* priv->tool->enabled
   serial  : Serials,             \* priv->serial, the serial it is bound to
   prox    : BOOLEAN,             \* priv->oldState.proximity
   btn     : BOOLEAN,             \* priv->oldState.buttons & 1
   id      : Ids,                 \* priv->oldState.device_id
   sprox   : BOOLEAN,             \* last proximity event sent to the server
   sbtn    : BOOLEAN,             \* last button 1 event sent to the server
   mode    : Modes,               \* common->wcmGestureMode
   cur     : [Fingers -> BOOLEAN],\* valid.states[0].proximity per contact
   last    : [Fingers -> BOOLEAN],\* valid.states[1].proximity per contact
   tip     : BOOLEAN,             \* valid.states[0].buttons of contact 1
   begun   : [Fingers -> 0..2],   \* TouchBegin events not ended (2: too many)
   timer   : BOOLEAN,             \* priv->tap_timer is armed
   lcd     : BOOLEAN,             \* the tablet is a display (WCM_LCD)
   gesture : BOOLEAN,             \* common->wcmGesture
   touchOn : BOOLEAN]             \* common->wcmTouch

Event == [prox : BOOLEAN, btn : BOOLEAN, id : Ids, serial : Serials]

(***************************************************************************)
(* A device as wcmPreInit leaves it, bound to serial s, on a display or    *)
(* not, with gestures configured on or off.                                *)
(***************************************************************************)
FreshDevice(d, s, lcd, gest) ==
  [enabled |-> FALSE, serial |-> s,
   prox |-> FALSE, btn |-> FALSE, id |-> PhyId[d],
   sprox |-> FALSE, sbtn |-> FALSE,
   mode |-> "none", cur |-> [f \in Fingers |-> FALSE],
   last |-> [f \in Fingers |-> FALSE], tip |-> FALSE,
   begun |-> [f \in Fingers |-> 0], timer |-> FALSE,
   lcd |-> lcd, gesture |-> gest, touchOn |-> TRUE]

-----------------------------------------------------------------------------
(***************************************************************************)
(* Sending events to the server.                                           *)
(***************************************************************************)

\* A device bound to a serial number ignores every other tool.
Mismatch(s, serial) == s.serial # 0 /\ serial # s.serial

\* The pointer of a touch device moves only outside gestures.
TouchNeedSendEvents(s) == s.mode \in {"none", "drag"}

MutSendToolEvents(s, ev) ==     \* no button up when going out of proximity
  IF ev.prox
  THEN [s EXCEPT !.sprox = @ \/ ~s.prox, !.sbtn = IF s.btn # ev.btn THEN ev.btn ELSE @]
  ELSE [s EXCEPT !.sprox = IF s.prox THEN FALSE ELSE @]

\* Proximity and button events for one tool, from the difference to oldState.
SendToolEvents(s, ev) ==
  IF ev.prox
  THEN [s EXCEPT !.sprox = @ \/ ~s.prox,
                 !.sbtn  = IF s.btn # ev.btn THEN ev.btn ELSE @]
  ELSE [s EXCEPT !.sprox = IF s.prox THEN FALSE ELSE @,
                 !.sbtn  = IF s.btn THEN FALSE ELSE @]

\* Events go out against oldState, which the event then replaces.
SendEvents(d, s, ev) ==
  IF Mismatch(s, ev.serial) THEN s
  ELSE LET entering == [s EXCEPT !.btn = s.prox /\ @]
           sent     == IF IsTouch(d) /\ ~TouchNeedSendEvents(s)
                       THEN entering
                       ELSE SendToolEvents(entering, ev)
       IN  [sent EXCEPT !.prox = ev.prox,
                        !.btn  = ev.prox /\ ev.btn,
                        !.id   = ev.id]

\* A made-up prox-out event: generic device id, no serial number.
SoftOutEvent(d, s) ==
  SendEvents(d, s, [prox |-> FALSE, btn |-> FALSE, id |-> PhyId[d], serial |-> 0])

(***************************************************************************)
(* commonDispatchDevice.  far: the tool is further from the surface than   *)
(* wcmProxoutDist of where it was last clicked; quiet: the event changes   *)
(* nothing by more than wcmSuppress.                                       *)
(***************************************************************************)
MutUnchanging(s, ev) == s.btn = ev.btn      \* proximity changes not exempt

Unchanging(s, ev) == s.prox = ev.prox /\ s.btn = ev.btn

Dispatch(d, s, ev, far, quiet) ==
  LET clicked    == ev.btn /\ DevType[d] \in {"stylus", "cursor"}
      outOfRange == /\ d \in Relative
                    /\ DevType[d] \in {"stylus", "eraser", "cursor"}
                    /\ far /\ ~clicked
  IN  IF \/ Mismatch(s, ev.serial)
         \/ ~ev.prox /\ ~s.prox
         \/ quiet /\ Unchanging(s, ev)
         \/ outOfRange /\ ~s.prox
      THEN s
      ELSE SendEvents(d, s, [ev EXCEPT !.prox = @ /\ ~outOfRange])
=============================================================================
