------------------------------ MODULE UsbChannels ------------------------------
(***************************************************************************)
(* How wcmUSB.c turns the kernel's event frames into events of tools.  The *)
(* state of up to NChannels - 1 tools is tracked in channels; the last     *)
(* channel belongs to the pad.  A frame is queued until its SYN_REPORT,    *)
(* which names the tool (its type and serial number), chooses the channel  *)
(* of that tool (usbChooseChannel), applies the events to the channel's    *)
(* "work" state and hands every dirty channel to wcmEvent, which records   *)
(* it as the channel's "valid" state.                                      *)
(*                                                                         *)
(* The environment is the kernel's wacom driver (its input core leaves out *)
(* what has not changed since the last frame) and the user, who enables    *)
(* and disables devices and turns touch on and off.                        *)
(***************************************************************************)
EXTENDS Integers, Sequences, FiniteSets

CONSTANTS
  NChannels,   \* MAX_CHANNELS
  Tools,       \* the physical tools of the node
  Tool,        \* [Tools -> [type, id, serial]]; a contact's serial is slot + 1
  Ids,         \* the device ids the tools report
  IdType,      \* [Ids -> Types \cup {NoType}]: usbFindDeviceTypeById
  DeviceId,    \* [Types -> Ids]: STYLUS_DEVICE_ID and its kin
  Nodes,       \* the event nodes: [protocol, mt, pen, dense] and their tools
  Togglable,   \* what the user may disable and enable at run time: Settings
  AnyTime      \* may the user do so while tools are on the tablet?

Types    == {"stylus", "eraser", "cursor", "touch", "pad"}
NoType   == "none"
Settings == Types \cup {"wcmTouch"}
Channels == 0 .. NChannels - 1
PadChannel == NChannels - 1
NoChannel  == -1
PadSerial  == -1        \* DEFAULT_TOOL_SERIAL, all bits set

ASSUME ChannelAssumption ==
  /\ NChannels \in Nat /\ NChannels > 1
  /\ IdType \in [Ids -> Types \cup {NoType}]
  /\ DeviceId \in [Types -> Ids]
  /\ 0 \in Ids
  /\ Togglable \subseteq Settings
  /\ AnyTime \in BOOLEAN
  /\ \A n \in Nodes : /\ n.protocol \in {"4", "5", "generic"}
                      /\ {n.mt, n.pen, n.dense} \subseteq BOOLEAN
                      /\ n.tools \subseteq Tools
  /\ \A t \in Tools : /\ Tool[t].type \in Types
                      /\ Tool[t].id \in Ids
                      /\ Tool[t].serial \in Int
                      /\ Tool[t].type = "touch" => Tool[t].serial > 0

VARIABLES
  node,      \* the event node: [protocol, mt, pen, dense, tools]
  kern,      \* what the kernel last reported: [near, misc, keys, slot]
  frame,     \* the queued events of the current frame (wcmEvents)
  phase,     \* "idle", "dispatch" (SYN_REPORT came) or "events"
  usb,       \* wcmUSBData: [serial, type, channel, last, mt]
  chan,      \* wcmChannel: the work state and the valid state of each channel
  enabled    \* the types whose device is enabled, and "wcmTouch" if it is set

vars == <<node, kern, frame, phase, usb, chan, enabled>>

\* A cleared channel; the fields with a v are those of valid.state.
Clean == [prox |-> FALSE, type |-> NoType, serial |-> 0, id |-> 0,
          dirty |-> FALSE, vprox |-> FALSE, vtype |-> NoType, vid |-> 0]

\* usbWcmInitPadState
PadState == [Clean EXCEPT !.prox = TRUE, !.type = "pad", !.id = DeviceId["pad"],
                          !.serial = PadChannel]

Init ==
  /\ node \in Nodes
  /\ kern = [near |-> {}, misc |-> 0, keys |-> [t \in Types |-> FALSE], slot |-> 0]
  /\ frame = <<>>
  /\ phase = "idle"
  /\ usb = [serial |-> 0, type |-> NoType, channel |-> 0, last |-> 0, mt |-> 0]
  /\ chan = [c \in Channels |-> IF c = PadChannel THEN PadState ELSE Clean]
  /\ enabled = Settings

-----------------------------------------------------------------------------
(***************************************************************************)
(* The kernel.                                                             *)
(***************************************************************************)
Event(kind, type, on, n) == [kind |-> kind, type |-> type, on |-> on, n |-> n]

\* BTN_TOOL_*, ABS_MISC (not on generic nodes) and MSC_SERIAL.
ToolKey(type, on) ==
  IF kern.keys[type] = on THEN <<>> ELSE <<Event("tool", type, on, 0)>>
Misc(id) ==
  IF node.protocol = "generic" \/ kern.misc = id THEN <<>>
  ELSE <<Event("misc", NoType, id # 0, id)>>
Serial(n) ==
  IF node.protocol = "generic" THEN <<>> ELSE <<Event("serial", NoType, TRUE, n)>>

\* A tool other than a contact reports, in range or leaving.
ToolFrame(t, on) ==
  LET type == Tool[t].type
      id   == IF on THEN Tool[t].id ELSE 0
      what == IF type = "pad" THEN "button" ELSE "motion"
  IN  /\ on \/ t \in kern.near
      /\ frame' = ToolKey(type, on) \o Misc(id)
                    \o <<Event(what, NoType, TRUE, 0)>> \o Serial(Tool[t].serial)
      /\ kern' = [kern EXCEPT !.near = IF on THEN @ \cup {t} ELSE @ \ {t},
                              !.misc = IF node.protocol = "generic" THEN @ ELSE id,
                              !.keys[type] = on]

\* The events of one contact; slot is the slot of the event before.
ContactEvents(slot, t, on) ==
  LET own == Tool[t].serial - 1
  IN  (IF slot = own THEN <<>> ELSE <<Event("slot", NoType, TRUE, own)>>)
        \o (IF on = (t \in kern.near) THEN <<Event("motion", NoType, TRUE, 0)>>
            ELSE <<Event("tracking", NoType, on, 0)>>)

IsContact(t) == node.mt /\ Tool[t].type = "touch"

\* On a dense node a new contact has the lowest slot that is free when the frame
\* begins (input_mt_get_slot_by_key); on others the slots are the hardware's numbers.
SlotsInOrder(near) ==
  \A x \in near \ kern.near, y \in node.tools :
    IsContact(y) /\ Tool[y].serial < Tool[x].serial => y \in kern.near \cup near

\* One or two contacts report.
ContactFrame(t, u, tOn, uOn) ==
  LET near == ((kern.near \ {t, u}) \cup {x \in {t} : tOn}) \cup {x \in {u} : uOn}
  IN  /\ tOn \/ t \in kern.near
      /\ uOn \/ u \in kern.near
      /\ t = u => tOn = uOn
      /\ node.dense => SlotsInOrder(near)
      /\ Tool[t].serial <= Tool[u].serial
      /\ frame' = ContactEvents(kern.slot, t, tOn)
                    \o (IF t = u THEN <<>> ELSE ContactEvents(Tool[t].serial - 1, u, uOn))
      /\ kern' = [kern EXCEPT !.near = near, !.slot = Tool[u].serial - 1,
                   !.keys["touch"] = \E x \in near : Tool[x].type = "touch"]

Kernel ==
  /\ phase = "idle"
  /\ \/ \E t \in node.tools, on \in BOOLEAN : ~IsContact(t) /\ ToolFrame(t, on)
     \/ \E t, u \in node.tools, tOn, uOn \in BOOLEAN :
          IsContact(t) /\ IsContact(u) /\ ContactFrame(t, u, tOn, uOn)
  /\ phase' = "dispatch"
  /\ UNCHANGED <<node, usb, chan, enabled>>

-----------------------------------------------------------------------------
(***************************************************************************)
(* Channels.                                                               *)
(***************************************************************************)

\* wcmEvent as far as the channel goes: the state is recorded if there is an
\* enabled device for the tool, and dropped otherwise.
Record(x) ==
  IF x.type \in enabled \cap Types
  THEN [x EXCEPT !.vprox = x.prox, !.vtype = x.type, !.vid = x.id]
  ELSE x

Protocol5Serial(type, serial) ==
  IF serial = 0 THEN IF type = "pad" THEN PadSerial ELSE 1
  ELSE IF serial = 240 THEN PadSerial ELSE serial

Lowest(S) == CHOOSE c \in S : \A e \in S : c <= e

MutExisting(type, serial) ==      \* the last recorded state, not the current one
  {c \in Channels : chan[c].vprox /\ chan[c].vtype = type /\ chan[c].serial = serial}

Existing(type, serial) ==
  {c \in Channels : /\ chan[c].prox
                    /\ chan[c].type = type
                    /\ chan[c].serial = serial}

MutFree == {c \in Channels \ {PadChannel} : ~chan[c].vprox}   \* only the recorded state

Free == {c \in Channels \ {PadChannel} : ~chan[c].prox /\ ~chan[c].vprox}

MutStartOver ==                   \* the prox-outs are not dispatched
  [c \in Channels |->
     IF c # PadChannel THEN [chan[c] EXCEPT !.prox = FALSE] ELSE chan[c]]

\* "Let's start over again. Force prox-out for all channels."
StartOver ==
  [c \in Channels |->
     IF c # PadChannel /\ chan[c].prox /\ chan[c].serial # PadSerial
     THEN Record([chan[c] EXCEPT !.prox = FALSE])
     ELSE chan[c]]

\* usbChooseChannel: the channel of the tool, and what it does to the channels.
ChooseChannel(type, serial) ==
  IF serial = PadSerial                  THEN PadChannel
  ELSE IF Existing(type, serial) # {}    THEN Lowest(Existing(type, serial))
  ELSE IF Free # {}                      THEN Lowest(Free)
  ELSE NoChannel

Choosing(type, serial) ==
  IF serial = PadSerial \/ Existing(type, serial) # {} THEN chan
  ELSE IF Free # {} THEN [chan EXCEPT ![Lowest(Free)] = Clean]
  ELSE StartOver

-----------------------------------------------------------------------------
(***************************************************************************)
(* A frame.                                                                *)
(***************************************************************************)

\* deviceTypeFromEvent
EventType(e) ==
  CASE e.kind = "tool"                                    -> e.type
    [] e.kind \in {"slot", "tracking"}                    -> "touch"
    [] e.kind = "misc" /\ node.protocol # "generic"       -> IdType[e.n]
    [] OTHER                                              -> NoType

\* refreshDeviceType: the first tool key down, in the order of the key codes.
RefreshDeviceType ==
  LET down == {t \in Types : kern.keys[t]}
      First(S, rest) == IF S \cap down # {} THEN CHOOSE t \in S : t \in down ELSE rest
  IN  First({"stylus"}, First({"eraser"},
        First({"touch"}, First({"pad"}, First({"cursor"}, NoType)))))

MutInitToolType ==                \* the previous frame's tool is asked first
  IF chan[usb.last].vprox THEN chan[usb.last].vtype ELSE RefreshDeviceType

\* usbInitToolType
InitToolType ==
  LET typed == {i \in DOMAIN frame : EventType(frame[i]) # NoType}
      last  == chan[usb.last].vtype
  IN  CASE typed # {}                                        -> EventType(frame[Lowest(typed)])
        [] typed = {} /\ last # NoType                       -> last
        [] typed = {} /\ last = NoType /\ RefreshDeviceType # NoType -> RefreshDeviceType
        [] OTHER -> IF \E i \in DOMAIN frame : frame[i].kind = "button"
                    THEN "pad" ELSE NoType

\* usbParseMscEvent: the serial number of the frame.
FrameSerial ==
  LET serials == {i \in DOMAIN frame : frame[i].kind = "serial"}
  IN  IF serials = {} THEN usb.serial ELSE frame[Lowest(serials)].n

\* Touch is ignored while a pen on the same node is in proximity.
PenBusy(type) ==
  /\ node.mt /\ node.pen
  /\ type = "touch"
  /\ chan[usb.last].vprox /\ chan[usb.last].vtype \in {"stylus", "eraser", "cursor"}

\* The channel of the frame's tool; one without a type gets it, in proximity.
Assigned(x, type, serial) ==
  [x EXCEPT !.serial = serial,
            !.type = IF @ = NoType THEN type ELSE @,
            !.prox = @ \/ (x.type = NoType /\ type # NoType)]

(***************************************************************************)
(* usbDispatchEvents up to its loop over the events.                       *)
(***************************************************************************)
Dispatch ==
  LET type   == InitToolType
      serial == Protocol5Serial(type, FrameSerial)
      c      == ChooseChannel(type, serial)
      made   == Choosing(type, serial)
  IN  /\ phase = "dispatch"
      /\ IF PenBusy(type)
         THEN /\ usb' = [usb EXCEPT !.type = type, !.serial = FrameSerial]
              /\ phase' = "idle" /\ frame' = <<>>
              /\ UNCHANGED chan
         ELSE IF c = NoChannel
         THEN /\ usb' = [usb EXCEPT !.type = type, !.serial = serial]
              /\ phase' = "idle" /\ frame' = <<>>
              /\ chan' = made
         ELSE /\ usb' = [usb EXCEPT !.type = type, !.serial = serial, !.channel = c]
              /\ phase' = "events"
              /\ chan' = [made EXCEPT ![c] = Assigned(made[c], type, serial)]
              /\ UNCHANGED frame
      /\ UNCHANGED <<node, kern, enabled>>

\* What usbFilterEvent drops: single-touch data on multitouch nodes, and
\* multitouch data that comes with a pen.
Filtered(e) ==
  /\ node.mt
  /\ \/ e.kind = "tool" /\ e.type = "touch"
     \/ e.kind \in {"slot", "tracking"} /\ usb.type # "touch"

(***************************************************************************)
(* One event of the frame: usbParseAbsEvent, usbParseAbsMTEvent,           *)
(* usbParseKeyEvent and usbParseBTNEvent.                                  *)
(***************************************************************************)
Reported(x, on, id) == [x EXCEPT !.prox = on, !.id = id, !.dirty = TRUE]

MutToolEvent(e) ==                \* no device id for generic tools
  LET x == chan[usb.channel]
  IN  /\ chan' = [chan EXCEPT ![usb.channel] = Reported(x, e.on, x.id)]
      /\ UNCHANGED usb

ToolEvent(e) ==
  LET x  == chan[usb.channel]
      id == IF node.protocol = "5" /\ e.type \notin {"touch", "pad"}
            THEN x.id ELSE DeviceId[e.type]
  IN  /\ chan' = [chan EXCEPT ![usb.channel] = Reported(x, e.on, id)]
      /\ UNCHANGED usb

MiscEvent(e) ==
  LET x  == chan[usb.channel]
      id == IF e.n # 0 THEN e.n ELSE x.id
  IN  /\ chan' = [chan EXCEPT ![usb.channel] = Reported(x, e.n # 0, id)]
      /\ UNCHANGED usb

\* With no channel found nothing is written (wcmUSB.c:1395).
SlotEvent(e) ==
  LET c    == ChooseChannel("touch", e.n + 1)
      made == Choosing("touch", e.n + 1)
  IN  /\ usb' = [usb EXCEPT !.mt = c]
      /\ chan' = IF c = NoChannel THEN made
                 ELSE [made EXCEPT ![c].serial = e.n + 1, ![c].dirty = TRUE]

MutTrackingEvent(e) ==            \* a lift does not make the channel dirty
  /\ chan' = IF usb.mt = NoChannel THEN chan
             ELSE [chan EXCEPT ![usb.mt] =
                     [@ EXCEPT !.prox = e.on, !.type = "touch", !.dirty = @ \/ e.on,
                               !.id = DeviceId["touch"]]]
  /\ UNCHANGED usb

\* Without a channel for the slot, the rest of its events is written to
\* wcmChannel[-1]: its fields "work" and "dirty" lie in front of the WacomCommonRec,
\* whose fields before wcmChannel are smaller than a channel.  No state of this
\* module is there.
TrackingEvent(e) ==
  /\ chan' = IF usb.mt = NoChannel THEN chan
             ELSE [chan EXCEPT ![usb.mt] =
                     Reported([@ EXCEPT !.type = "touch"], e.on, DeviceId["touch"])]
  /\ UNCHANGED usb

\* Motion goes to the tool's channel, or to the channel of the current slot (or, as
\* above, out of the record).
MotionEvent ==
  LET c == IF node.mt /\ usb.type = "touch" THEN usb.mt ELSE usb.channel
  IN  /\ chan' = IF c = NoChannel THEN chan ELSE [chan EXCEPT ![c].dirty = TRUE]
      /\ UNCHANGED usb

\* Buttons are those of a puck or of the pad.
ButtonEvent ==
  LET c == IF chan[usb.channel].type = "cursor" THEN usb.channel ELSE PadChannel
  IN  /\ chan' = [chan EXCEPT ![c].dirty = TRUE]
      /\ UNCHANGED usb

ParseEvent ==
  /\ phase = "events" /\ frame # <<>>
  /\ LET e == Head(frame)
     IN  CASE Filtered(e) \/ e.kind = "serial"    -> UNCHANGED <<usb, chan>>
           [] ~Filtered(e) /\ e.kind = "tool"     -> ToolEvent(e)
           [] ~Filtered(e) /\ e.kind = "misc"     -> MiscEvent(e)
           [] ~Filtered(e) /\ e.kind = "slot"     -> SlotEvent(e)
           [] ~Filtered(e) /\ e.kind = "tracking" -> TrackingEvent(e)
           [] ~Filtered(e) /\ e.kind = "motion"   -> MotionEvent
           [] ~Filtered(e) /\ e.kind = "button"   -> ButtonEvent
  /\ frame' = Tail(frame)
  /\ UNCHANGED <<node, kern, phase, enabled>>

\* The end of usbDispatchEvents: every dirty channel goes to wcmEvent.
Sent(x) ==
  IF ~x.dirty THEN x
  ELSE IF x.type = "touch" /\ "wcmTouch" \notin enabled THEN [x EXCEPT !.dirty = FALSE]
  ELSE Record([x EXCEPT !.dirty = FALSE])

SendEvents ==
  /\ phase = "events" /\ frame = <<>>
  /\ chan' = [c \in Channels |-> Sent(chan[c])]
  /\ usb' = [usb EXCEPT !.serial = IF chan[usb.channel].prox THEN @ ELSE 0,
                        !.last = usb.channel]
  /\ phase' = "idle"
  /\ UNCHANGED <<node, kern, frame, enabled>>

-----------------------------------------------------------------------------
(***************************************************************************)
(* The user.                                                               *)
(***************************************************************************)
Toggle(x) ==
  /\ phase = "idle"
  /\ AnyTime \/ kern.near = {}
  /\ enabled' = IF x \in enabled THEN enabled \ {x} ELSE enabled \cup {x}
  /\ UNCHANGED <<node, kern, frame, phase, usb, chan>>

Next == \/ Kernel \/ Dispatch \/ ParseEvent \/ SendEvents
        \/ \E x \in Togglable : Toggle(x)

Spec == Init /\ [][Next]_vars

-----------------------------------------------------------------------------
(***************************************************************************)
(* Properties.                                                             *)
(***************************************************************************)
Events == [kind : {"tool"}, type : Types, on : BOOLEAN, n : {0}]
            \cup [kind : {"misc"}, type : {NoType}, on : BOOLEAN, n : Ids]
            \cup [kind : {"slot"}, type : {NoType}, on : BOOLEAN, n : Nat]
            \cup [kind : {"serial", "tracking", "motion", "button"},
                  type : {NoType}, on : BOOLEAN, n : Int]

\* The type invariant; the last channel is the pad's and stays it
\* (PAD_CHANNEL, wcmUSB.c:539).
TypeOK ==
  /\ node \in Nodes
  /\ kern \in [near : SUBSET node.tools, misc : Ids, keys : [Types -> BOOLEAN],
               slot : Int]
  /\ frame \in Seq(Events)
  /\ phase \in {"idle", "dispatch", "events"}
  /\ usb \in [serial : Int, type : Types \cup {NoType}, channel : Channels,
              last : Channels, mt : (Channels \ {PadChannel}) \cup {NoChannel}]
  /\ chan \in [Channels -> [prox : BOOLEAN, type : Types \cup {NoType}, serial : Int,
                            id : Ids, dirty : BOOLEAN, vprox : BOOLEAN,
                            vtype : Types \cup {NoType}, vid : Ids]]
  /\ enabled \subseteq Settings
  /\ chan[PadChannel].type = "pad"

\* Nodes that can tell their tools apart: none of both pen and touch, where touch
\* frames are dropped while the pen is near (PenBusy), and none of more tools than
\* channels.
Orderly ==
  /\ ~(node.mt /\ node.pen)
  /\ Cardinality({t \in node.tools : Tool[t].serial # PadSerial}) < NChannels

\* Nodes without multitouch whose frames tell which tool they are of: each tool has
\* its own type and device id, the serial numbers that stand for the pad (none and
\* 240) are the pad's, and a node that reports neither ids nor serial numbers has one
\* tool.
Discernible(n) ==
  /\ ~n.mt
  /\ IsFiniteSet(n.tools)
  /\ Cardinality({t \in n.tools : Tool[t].serial # PadSerial}) < NChannels
  /\ IdType[0] = NoType
  /\ \A type \in Types : IdType[DeviceId[type]] = type
  /\ \A t \in n.tools : /\ Tool[t].id # 0 /\ IdType[Tool[t].id] = Tool[t].type
                        /\ (Tool[t].type = "pad") = (Tool[t].serial = PadSerial)
                        /\ Tool[t].serial \notin {0, 240}
  /\ \A t, u \in n.tools : t # u => /\ Tool[t].type # Tool[u].type
                                    /\ Tool[t].id # Tool[u].id
  /\ n.protocol = "generic" => \A t \in n.tools : /\ n.tools = {t}
                                                  /\ Tool[t].serial \in {1, PadSerial}

\* What the user may switch off is the stylus, the first that usbInitToolType tries
\* when the last tool was never recorded, or the only tool of its node.
MayBeOff(type) ==
  type \in Togglable \/ (type = "touch" /\ "wcmTouch" \in Togglable)
Steady(n) ==
  \A t \in n.tools : MayBeOff(Tool[t].type) => Tool[t].type = "stylus" \/ n.tools = {t}

\* A tool in proximity is tracked in one channel only: usbChooseChannel finds
\* it again, whatever frames and tools came in between.  Without multitouch this
\* holds even when the channels run out.
Distinct ==
  \A c, e \in Channels :
    /\ c # e /\ chan[c].prox /\ chan[e].prox
    /\ chan[c].type = chan[e].type /\ chan[c].serial = chan[e].serial
    => chan[c].type = NoType
ToolsDistinct == Orderly \/ ~node.mt => Distinct

\* A tool that has left the tablet has been reported out: no recorded state
\* keeps it in proximity, even if its channel was taken from it meanwhile.
OutReported ==
  Orderly /\ phase = "idle" => \A t \in node.tools \ kern.near :
    ~\E c \in Channels : /\ chan[c].vprox
                         /\ chan[c].vtype = Tool[t].type
                         /\ chan[c].serial = Tool[t].serial

\* A frame is parsed as one of the type its channel has
\* ("Device Type mismatch ... This is a BUG").
TypeAgrees ==
  [][phase = "dispatch" /\ phase' = "events" => chan'[usb'.channel].type = usb'.type]_vars

\* What is sent for a tool in proximity carries a device id of the tool's type:
\* not the id of the tool that had the channel before, and not none.
IdKnown ==
  Orderly => \A c \in Channels : chan[c].vprox => IdType[chan[c].vid] = chan[c].vtype

\* A contact that is down has one history: wcmFingerMultitouch goes through all
\* channels with the contact's number (wcmTouchFilter.c:145), and one it had before
\* would end its touch again.  Where the kernel does not give out the lowest slot, a
\* channel it had before may remain, but getContactNumber (wcmTouchFilter.c:59) still
\* finds the one in use first.
OneHistory ==
  Orderly /\ phase = "idle" => \A c, e \in Channels :
    /\ chan[c].vprox /\ ~chan[e].vprox
    /\ chan[c].vtype = "touch" /\ chan[e].vtype = "touch"
    /\ chan[c].serial = chan[e].serial
    => c < e /\ ~node.dense

\* When all tools have left, there is a channel for the next one: the channels
\* have not been used up for good, not even when there were more tools than
\* channels ("Let's start over again").  On a node of both pen and touch, a
\* contact that lifts while the pen is near is ignored and keeps its channel.
ChannelAvailable ==
  phase = "idle" /\ kern.near = {} /\ ~(node.mt /\ node.pen) => Free # {}
=============================================================================
