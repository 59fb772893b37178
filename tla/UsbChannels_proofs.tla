-------------------------- MODULE UsbChannels_proofs --------------------------
(***************************************************************************)
(* Proofs about UsbChannels, for any number of channels and any tools: the *)
(* types; that on nodes without multitouch no two channels track the same  *)
(* tool, whatever devices are switched off and on meanwhile; and, on nodes *)
(* whose frames tell which tool they are of, that each frame reaches the   *)
(* channel of its tool, what is recorded has an id of the tool's type, a   *)
(* tool that leaves is reported out, and channels are left for others.     *)
(***************************************************************************)
EXTENDS UsbChannels, TLAPS, WellFoundedInduction, SequenceTheorems, FiniteSetTheorems

ChannelState ==
  [prox : BOOLEAN, type : Types \cup {NoType}, serial : Int, id : Ids,
   dirty : BOOLEAN, vprox : BOOLEAN, vtype : Types \cup {NoType}, vid : Ids]

-----------------------------------------------------------------------------
(***************************************************************************)
(* Choosing a channel.                                                     *)
(***************************************************************************)

\* A nonempty set of natural numbers has a lowest one.
LEMMA LowestIn ==
  ASSUME NEW S \in SUBSET Nat, S # {}
  PROVE  Lowest(S) \in S
<1>1. PICK c \in S : \A e \in S : ~(<<e, c>> \in OpToRel(<, Nat))
  BY NatLessThanWellFounded, WFMin
<1>2. \A e \in S : ~(e < c)
  BY <1>1 DEF OpToRel
<1>3. \A e \in S : c <= e
  BY <1>2
<1> QED
  BY <1>3 DEF Lowest

LEMMA ChannelsNat == Channels \subseteq Nat /\ PadChannel \in Channels
  BY ChannelAssumption DEF Channels, PadChannel

\* The cleared channel and the pad's first state are channel states.
LEMMA CleanType == Clean \in ChannelState /\ PadState \in ChannelState
<1>1. Clean \in ChannelState
  BY ChannelAssumption DEF Clean, ChannelState
<1>2. /\ "pad" \in Types
      /\ DeviceId["pad"] \in Ids
      /\ PadChannel \in Int
  BY ChannelAssumption DEF Types, PadChannel
<1> QED
  BY <1>1, <1>2 DEF PadState, ChannelState

\* Recording a channel keeps what identifies its tool.
LEMMA RecordType ==
  ASSUME NEW x \in ChannelState
  PROVE  /\ Record(x) \in ChannelState
         /\ Record(x).prox = x.prox
         /\ Record(x).type = x.type
         /\ Record(x).serial = x.serial
  BY DEF Record, ChannelState

\* What usbChooseChannel returns and what it does to the channels.
LEMMA ChoosingType ==
  ASSUME chan \in [Channels -> ChannelState], NEW type, NEW serial
  PROVE  /\ ChooseChannel(type, serial) \in Channels \cup {NoChannel}
         /\ Choosing(type, serial) \in [Channels -> ChannelState]
<1>1. /\ Existing(type, serial) \in SUBSET Channels
      /\ Free \in SUBSET Channels
  BY DEF Existing, Free
<1>2. /\ Existing(type, serial) # {} =>
           Lowest(Existing(type, serial)) \in Existing(type, serial)
      /\ Free # {} => Lowest(Free) \in Free
  BY <1>1, ChannelsNat, LowestIn
<1>3. ChooseChannel(type, serial) \in Channels \cup {NoChannel}
  BY <1>1, <1>2, ChannelsNat DEF ChooseChannel
<1>4. StartOver \in [Channels -> ChannelState]
  <2>1. ASSUME NEW c \in Channels
        PROVE  Record([chan[c] EXCEPT !.prox = FALSE]) \in ChannelState
    <3>1. [chan[c] EXCEPT !.prox = FALSE] \in ChannelState
      BY DEF ChannelState
    <3> QED
      BY <3>1, RecordType
  <2> QED
    BY <2>1 DEF StartOver
<1>5. Choosing(type, serial) \in [Channels -> ChannelState]
  BY <1>1, <1>2, <1>4, CleanType DEF Choosing
<1> QED
  BY <1>3, <1>5

\* The three ways a channel is found.
LEMMA ChoosingCases ==
  ASSUME chan \in [Channels -> ChannelState], NEW type, NEW serial,
         ChooseChannel(type, serial) # NoChannel
  PROVE  LET c == ChooseChannel(type, serial)
         IN  /\ c \in Channels
             /\ \/ /\ serial = PadSerial
                   /\ c = PadChannel
                   /\ Choosing(type, serial) = chan
                \/ /\ serial # PadSerial
                   /\ c \in Existing(type, serial)
                   /\ Choosing(type, serial) = chan
                \/ /\ serial # PadSerial
                   /\ Existing(type, serial) = {}
                   /\ c \in Free
                   /\ Choosing(type, serial) = [chan EXCEPT ![c] = Clean]
<1>1. /\ Existing(type, serial) \in SUBSET Channels
      /\ Free \in SUBSET Channels
  BY DEF Existing, Free
<1>2. /\ Existing(type, serial) # {} =>
           Lowest(Existing(type, serial)) \in Existing(type, serial)
      /\ Free # {} => Lowest(Free) \in Free
  BY <1>1, ChannelsNat, LowestIn
<1>3. CASE serial = PadSerial
  BY <1>3, ChannelsNat DEF ChooseChannel, Choosing
<1>4. CASE serial # PadSerial /\ Existing(type, serial) # {}
  BY <1>1, <1>2, <1>4 DEF ChooseChannel, Choosing
<1>5. CASE serial # PadSerial /\ Existing(type, serial) = {}
  BY <1>1, <1>2, <1>5 DEF ChooseChannel, Choosing
<1> QED
  BY <1>3, <1>4, <1>5

-----------------------------------------------------------------------------
(***************************************************************************)
(* Types.                                                                  *)
(***************************************************************************)
UsbState ==
  [serial : Int, type : Types \cup {NoType}, channel : Channels, last : Channels,
   mt : (Channels \ {PadChannel}) \cup {NoChannel}]

KernState(n) ==
  [near : SUBSET n.tools, misc : Ids, keys : [Types -> BOOLEAN], slot : Int]

\* TypeOK with its records named.
LEMMA TypeParts ==
  TypeOK <=> /\ node \in Nodes
             /\ kern \in KernState(node)
             /\ frame \in Seq(Events)
             /\ phase \in {"idle", "dispatch", "events"}
             /\ usb \in UsbState
             /\ chan \in [Channels -> ChannelState]
             /\ enabled \subseteq Settings
             /\ chan[PadChannel].type = "pad"
  BY DEF TypeOK, KernState, UsbState, ChannelState

LEMMA InitType == Init => TypeOK
<1> SUFFICES ASSUME Init PROVE TypeOK
  OBVIOUS
<1>1. kern \in KernState(node)
  BY ChannelAssumption DEF Init, KernState
<1>2. usb \in UsbState
  BY ChannelAssumption DEF Init, UsbState, Channels, PadChannel
<1>3. chan \in [Channels -> ChannelState] /\ chan[PadChannel] = PadState
  BY CleanType, ChannelsNat DEF Init
<1>4. chan[PadChannel].type = "pad"
  BY <1>3, CleanType DEF PadState, Clean
<1> QED
  BY <1>1, <1>2, <1>3, <1>4, TypeParts DEF Init

LEMMA Singleton ==
  ASSUME NEW S
  PROVE  /\ <<>> \in Seq(S)
         /\ \A e \in S : <<e>> \in Seq(S)
  OBVIOUS

\* The kinds of events are what the kernel's frames are made of.
LEMMA EventTypes ==
  /\ \A type \in Types, on \in BOOLEAN : Event("tool", type, on, 0) \in Events
  /\ \A on \in BOOLEAN, id \in Ids : Event("misc", NoType, on, id) \in Events
  /\ \A n \in Int : Event("serial", NoType, TRUE, n) \in Events
  /\ \A n \in Nat : Event("slot", NoType, TRUE, n) \in Events
  /\ \A on \in BOOLEAN : /\ Event("tracking", NoType, on, 0) \in Events
                         /\ Event("motion", NoType, on, 0) \in Events
                         /\ Event("button", NoType, on, 0) \in Events
  BY DEF Event, Events

LEMMA ToolFrameType ==
  ASSUME TypeOK, NEW t \in node.tools, NEW on \in BOOLEAN, ToolFrame(t, on)
  PROVE  frame' \in Seq(Events) /\ kern' \in KernState(node)
<1>1. /\ t \in Tools
      /\ Tool[t].type \in Types
      /\ Tool[t].id \in Ids
      /\ Tool[t].serial \in Int
      /\ 0 \in Ids
  BY ChannelAssumption DEF TypeOK
<1> DEFINE id   == IF on THEN Tool[t].id ELSE 0
           what == IF Tool[t].type = "pad" THEN "button" ELSE "motion"
<1>2. id \in Ids
  BY <1>1
<1> HIDE DEF id
<1>3. ToolKey(Tool[t].type, on) \in Seq(Events)
  <2>1. Event("tool", Tool[t].type, on, 0) \in Events
    BY <1>1, EventTypes
  <2> QED
    BY <2>1, Singleton DEF ToolKey
<1>4. Misc(id) \in Seq(Events)
  <2>1. Event("misc", NoType, id # 0, id) \in Events
    BY <1>2, EventTypes
  <2> QED
    BY <2>1, Singleton DEF Misc
<1>5. <<Event(what, NoType, TRUE, 0)>> \in Seq(Events)
  <2>1. Event(what, NoType, TRUE, 0) \in Events
    BY EventTypes
  <2> QED
    BY <2>1, Singleton
<1>6. Serial(Tool[t].serial) \in Seq(Events)
  <2>1. Event("serial", NoType, TRUE, Tool[t].serial) \in Events
    BY <1>1, EventTypes
  <2> QED
    BY <2>1, Singleton DEF Serial
<1>7. frame' = ToolKey(Tool[t].type, on) \o Misc(id)
                 \o <<Event(what, NoType, TRUE, 0)>> \o Serial(Tool[t].serial)
  BY DEF ToolFrame, id
<1>8. frame' \in Seq(Events)
  <2> HIDE DEF what
  <2>1. ToolKey(Tool[t].type, on) \o Misc(id) \in Seq(Events)
    BY <1>3, <1>4, ConcatProperties
  <2>2. ToolKey(Tool[t].type, on) \o Misc(id)
          \o <<Event(what, NoType, TRUE, 0)>> \in Seq(Events)
    BY <2>1, <1>5, ConcatProperties
  <2> QED
    BY <2>2, <1>6, <1>7, ConcatProperties
<1>9. kern' \in KernState(node)
  BY <1>1, <1>2, TypeParts DEF ToolFrame, KernState, id
<1> QED
  BY <1>8, <1>9

LEMMA ContactFrameType ==
  ASSUME TypeOK, NEW t \in node.tools, NEW u \in node.tools,
         NEW tOn \in BOOLEAN, NEW uOn \in BOOLEAN, ContactFrame(t, u, tOn, uOn),
         IsContact(t), IsContact(u)
  PROVE  frame' \in Seq(Events) /\ kern' \in KernState(node)
<1>1. \A x \in {t, u} : Tool[x].serial \in Nat \ {0}
  BY ChannelAssumption DEF TypeOK, IsContact
<1>2. ASSUME NEW slot \in Int, NEW x \in {t, u}, NEW on \in BOOLEAN
      PROVE  ContactEvents(slot, x, on) \in Seq(Events)
  <2>1. Tool[x].serial - 1 \in Nat
    BY <1>1
  <2>2. /\ Event("slot", NoType, TRUE, Tool[x].serial - 1) \in Events
        /\ Event("motion", NoType, TRUE, 0) \in Events
        /\ Event("tracking", NoType, on, 0) \in Events
    BY <2>1, EventTypes
  <2>3. /\ <<Event("slot", NoType, TRUE, Tool[x].serial - 1)>> \in Seq(Events)
        /\ <<Event("motion", NoType, TRUE, 0)>> \in Seq(Events)
        /\ <<Event("tracking", NoType, on, 0)>> \in Seq(Events)
        /\ <<>> \in Seq(Events)
    BY <2>2, Singleton
  <2> QED
    BY <2>3, ConcatProperties DEF ContactEvents
<1>3. kern.slot \in Int /\ Tool[t].serial - 1 \in Int /\ Tool[u].serial - 1 \in Int
  BY <1>1 DEF TypeOK
<1>4. frame' \in Seq(Events)
  <2>1. /\ ContactEvents(kern.slot, t, tOn) \in Seq(Events)
        /\ ContactEvents(Tool[t].serial - 1, u, uOn) \in Seq(Events)
    BY <1>2, <1>3
  <2> QED
    BY <2>1, Singleton, ConcatProperties DEF ContactFrame
<1>5. kern' \in KernState(node)
  BY <1>3, TypeParts DEF ContactFrame, KernState
<1> QED
  BY <1>4, <1>5

LEMMA KernelType == ASSUME TypeOK, Kernel PROVE TypeOK'
<1>1. frame' \in Seq(Events) /\ kern' \in KernState(node)
  BY ToolFrameType, ContactFrameType DEF Kernel
<1> QED
  BY <1>1, TypeParts DEF Kernel, TypeOK, KernState

\* A frame has a type or none, and a serial number.
LEMMA FrameTypes ==
  ASSUME TypeOK
  PROVE  /\ InitToolType \in Types \cup {NoType}
         /\ FrameSerial \in Int
         /\ \A type : Protocol5Serial(type, FrameSerial) \in Int
<1>1. DOMAIN frame \in SUBSET Nat /\ \A i \in DOMAIN frame : frame[i] \in Events
  BY DEF TypeOK
<1>2. \A e \in Events : EventType(e) \in Types \cup {NoType}
  <2> TAKE e \in Events
  <2>1. CASE e.kind = "tool"
    BY <2>1 DEF EventType, Events
  <2>2. CASE e.kind = "misc"
    <3>1. e.n \in Ids
      BY <2>2 DEF Events
    <3> QED
      BY <2>2, <3>1, ChannelAssumption DEF EventType
  <2>3. CASE e.kind \in {"slot", "tracking"}
    BY <2>3 DEF EventType, Types
  <2>4. CASE e.kind \in {"serial", "motion", "button"}
    BY <2>4 DEF EventType
  <2> QED
    BY <2>1, <2>2, <2>3, <2>4 DEF Events
<1>3. RefreshDeviceType \in Types \cup {NoType}
  BY DEF RefreshDeviceType, Types
<1>4. chan[usb.last].vtype \in Types \cup {NoType}
  <2>1. usb.last \in Channels /\ chan \in [Channels -> ChannelState]
    BY TypeParts DEF UsbState
  <2> QED
    BY <2>1 DEF ChannelState
<1>5. InitToolType \in Types \cup {NoType}
  <2> DEFINE typed == {i \in DOMAIN frame : EventType(frame[i]) # NoType}
             last  == chan[usb.last].vtype
  <2>1. CASE typed # {}
    <3>1. typed \in SUBSET Nat
      BY <1>1
    <3>2. Lowest(typed) \in typed
      BY <2>1, <3>1, LowestIn
    <3>3. EventType(frame[Lowest(typed)]) \in Types \cup {NoType}
      BY <1>1, <1>2, <3>2
    <3>4. InitToolType = EventType(frame[Lowest(typed)])
      BY <2>1 DEF InitToolType
    <3> QED
      BY <3>3, <3>4
  <2>2. CASE typed = {}
    <3>1. InitToolType = IF last # NoType THEN last
                         ELSE IF RefreshDeviceType # NoType THEN RefreshDeviceType
                         ELSE IF \E i \in DOMAIN frame : frame[i].kind = "button"
                              THEN "pad" ELSE NoType
      BY <2>2 DEF InitToolType
    <3>2. "pad" \in Types
      BY DEF Types
    <3> QED
      BY <1>3, <1>4, <3>1, <3>2
  <2> QED
    BY <2>1, <2>2
<1>6. FrameSerial \in Int
  <2> DEFINE serials == {i \in DOMAIN frame : frame[i].kind = "serial"}
  <2>1. CASE serials = {}
    BY <2>1 DEF FrameSerial, TypeOK
  <2>2. CASE serials # {}
    <3>1. serials \in SUBSET Nat
      BY <1>1
    <3>2. Lowest(serials) \in serials
      BY <2>2, <3>1, LowestIn
    <3>3. frame[Lowest(serials)].n \in Int
      BY <1>1, <3>2 DEF Events
    <3> QED
      BY <2>2, <3>3 DEF FrameSerial
  <2> QED
    BY <2>1, <2>2
<1> QED
  BY <1>5, <1>6 DEF Protocol5Serial, PadSerial

LEMMA AssignedType ==
  ASSUME NEW x \in ChannelState, NEW type \in Types \cup {NoType}, NEW serial \in Int
  PROVE  Assigned(x, type, serial) \in ChannelState
  BY DEF Assigned, ChannelState

\* The four outcomes of Dispatch.
LEMMA DispatchCases ==
  ASSUME TypeOK, Dispatch
  PROVE  LET type   == InitToolType
             serial == Protocol5Serial(type, FrameSerial)
             c      == ChooseChannel(type, serial)
             made   == Choosing(type, serial)
         IN  /\ phase = "dispatch"
             /\ UNCHANGED <<node, kern, enabled>>
             /\ \/ /\ phase' = "idle" /\ frame' = <<>> /\ UNCHANGED chan
                   /\ usb' = [usb EXCEPT !.type = type, !.serial = FrameSerial]
                \/ /\ phase' = "idle" /\ frame' = <<>> /\ chan' = made
                   /\ c = NoChannel
                   /\ usb' = [usb EXCEPT !.type = type, !.serial = serial]
                \/ /\ phase' = "events" /\ UNCHANGED frame
                   /\ c # NoChannel
                   /\ usb' = [usb EXCEPT !.type = type, !.serial = serial, !.channel = c]
                   /\ chan' = [made EXCEPT ![c] = Assigned(made[c], type, serial)]
  BY DEF Dispatch

\* Choosing a channel leaves the pad's alone.
LEMMA PadKept ==
  ASSUME chan \in [Channels -> ChannelState], chan[PadChannel].type = "pad",
         NEW type, NEW serial
  PROVE  Choosing(type, serial)[PadChannel].type = "pad"
<1>1. PadChannel \notin Free
  BY DEF Free
<1>2. StartOver[PadChannel] = chan[PadChannel]
  BY ChannelsNat DEF StartOver
<1>3. Free # {} => Lowest(Free) \in Free
  BY ChannelsNat, LowestIn DEF Free
<1> QED
  BY <1>1, <1>2, <1>3, ChannelsNat DEF Choosing

LEMMA DispatchType == ASSUME TypeOK, Dispatch PROVE TypeOK'
<1> DEFINE type   == InitToolType
           serial == Protocol5Serial(type, FrameSerial)
           c      == ChooseChannel(type, serial)
           made   == Choosing(type, serial)
<1>1. /\ type \in Types \cup {NoType}
      /\ FrameSerial \in Int
      /\ serial \in Int
  BY FrameTypes
<1>2. /\ chan \in [Channels -> ChannelState]
      /\ chan[PadChannel].type = "pad"
      /\ usb \in UsbState
  BY TypeParts
<1>3. /\ c \in Channels \cup {NoChannel}
      /\ made \in [Channels -> ChannelState]
  BY <1>2, ChoosingType
<1>4. made[PadChannel].type = "pad"
  BY <1>2, PadKept
<1> HIDE DEF type, serial, c, made
<1>5. /\ node \in Nodes /\ kern \in KernState(node)
      /\ frame \in Seq(Events) /\ <<>> \in Seq(Events) /\ enabled \subseteq Settings
  BY TypeParts
<1>6. /\ phase' \in {"idle", "dispatch", "events"}
      /\ frame' \in Seq(Events)
      /\ node' \in Nodes /\ kern' \in KernState(node') /\ enabled' \subseteq Settings
  BY <1>5, DispatchCases DEF KernState
<1>7. usb' \in UsbState
  BY <1>1, <1>2, <1>3, DispatchCases DEF UsbState, type, serial, c
<1>8. chan' \in [Channels -> ChannelState] /\ chan'[PadChannel].type = "pad"
  <2>1. CASE chan' = chan
    BY <2>1, <1>2
  <2>2. CASE chan' = made
    BY <2>2, <1>3, <1>4
  <2>3. CASE c # NoChannel /\ chan' = [made EXCEPT ![c] = Assigned(made[c], type, serial)]
    <3>1. Assigned(made[c], type, serial) \in ChannelState
      BY <1>1, <1>3, <2>3, AssignedType
    <3>2. made[c].type = "pad" => Assigned(made[c], type, serial).type = "pad"
      BY <1>3, <2>3 DEF Assigned, ChannelState, NoType
    <3> QED
      BY <2>3, <1>3, <1>4, <3>1, <3>2
  <2> QED
    BY <2>1, <2>2, <2>3, DispatchCases DEF type, serial, c, made
<1> QED
  BY <1>6, <1>7, <1>8 DEF TypeOK, KernState, UsbState, ChannelState

\* What a parsed event changes in a channel's state.
LEMMA ReportedType ==
  ASSUME NEW x \in ChannelState, NEW on \in BOOLEAN, NEW id \in Ids
  PROVE  /\ Reported(x, on, id) \in ChannelState
         /\ Reported(x, on, id).type = x.type
         /\ Reported(x, on, id).serial = x.serial
         /\ Reported(x, on, id).prox = on
  BY DEF Reported, ChannelState

\* The parsers of single events keep the types, and the pad's channel the pad's.
LEMMA ToolEventType ==
  ASSUME TypeOK, NEW e \in Events, e.kind = "tool", ToolEvent(e)
  PROVE  /\ chan' \in [Channels -> ChannelState]
         /\ usb' \in UsbState
         /\ chan'[PadChannel].type = "pad"
<1>1. e.type \in Types /\ e.on \in BOOLEAN /\ DeviceId[e.type] \in Ids
  BY ChannelAssumption DEF Events
<1>2. /\ chan \in [Channels -> ChannelState]
      /\ chan[PadChannel].type = "pad"
      /\ usb \in UsbState
      /\ usb.channel \in Channels
  BY TypeParts DEF UsbState
<1> DEFINE x  == chan[usb.channel]
           id == IF node.protocol = "5" /\ e.type \notin {"touch", "pad"}
                 THEN x.id ELSE DeviceId[e.type]
<1>3. id \in Ids
  BY <1>1, <1>2 DEF ChannelState
<1> DEFINE y == Reported(x, e.on, id)
<1>4. chan' = [chan EXCEPT ![usb.channel] = y] /\ usb' = usb
  BY DEF ToolEvent
<1> HIDE DEF id
<1>5. y \in ChannelState /\ y.type = chan[usb.channel].type
  BY <1>1, <1>2, <1>3, ReportedType
<1> HIDE DEF y
<1> QED
  BY <1>2, <1>4, <1>5, ChannelsNat

LEMMA MiscEventType ==
  ASSUME TypeOK, NEW e \in Events, e.kind = "misc", MiscEvent(e)
  PROVE  /\ chan' \in [Channels -> ChannelState]
         /\ usb' \in UsbState
         /\ chan'[PadChannel].type = "pad"
<1>1. e.n \in Ids
  BY DEF Events
<1>2. /\ chan \in [Channels -> ChannelState]
      /\ chan[PadChannel].type = "pad"
      /\ usb \in UsbState
      /\ usb.channel \in Channels
  BY TypeParts DEF UsbState
<1> DEFINE x  == chan[usb.channel]
           id == IF e.n # 0 THEN e.n ELSE x.id
<1>3. id \in Ids
  BY <1>1, <1>2 DEF ChannelState
<1> DEFINE y == Reported(x, e.n # 0, id)
<1>4. chan' = [chan EXCEPT ![usb.channel] = y] /\ usb' = usb
  BY DEF MiscEvent
<1> HIDE DEF id
<1>5. y \in ChannelState /\ y.type = chan[usb.channel].type
  BY <1>1, <1>2, <1>3, ReportedType
<1> HIDE DEF y
<1> QED
  BY <1>2, <1>4, <1>5, ChannelsNat

LEMMA SlotEventType ==
  ASSUME TypeOK, NEW e \in Events, e.kind = "slot", SlotEvent(e)
  PROVE  /\ chan' \in [Channels -> ChannelState]
         /\ usb' \in UsbState
         /\ chan'[PadChannel].type = "pad"
<1> DEFINE c    == ChooseChannel("touch", e.n + 1)
           made == Choosing("touch", e.n + 1)
<1>1. e.n + 1 \in Int
  BY DEF Events
<1>2. /\ chan \in [Channels -> ChannelState]
      /\ chan[PadChannel].type = "pad"
      /\ usb \in UsbState
  BY TypeParts
<1>3. /\ c \in Channels \cup {NoChannel}
      /\ made \in [Channels -> ChannelState]
  BY <1>2, ChoosingType
<1>4. made[PadChannel].type = "pad"
  BY <1>2, PadKept
<1>5. c # PadChannel
  <2>1. e.n + 1 # PadSerial
    BY DEF Events, PadSerial
  <2>2. PadChannel \notin Existing("touch", e.n + 1) /\ PadChannel \notin Free
    BY <1>2 DEF Existing, Free
  <2>3. NoChannel # PadChannel
    BY ChannelAssumption DEF NoChannel, PadChannel
  <2> QED
    BY <1>2, <2>1, <2>2, <2>3, ChoosingCases
<1>6. /\ usb' = [usb EXCEPT !.mt = c]
      /\ chan' = IF c = NoChannel THEN made
                 ELSE [made EXCEPT ![c].serial = e.n + 1, ![c].dirty = TRUE]
  BY DEF SlotEvent
<1> HIDE DEF c, made
<1>7. usb' \in UsbState
  BY <1>2, <1>3, <1>5, <1>6 DEF UsbState
<1>8. chan' \in [Channels -> ChannelState] /\ chan'[PadChannel].type = "pad"
  BY <1>1, <1>3, <1>4, <1>6, ChannelsNat DEF ChannelState
<1> QED
  BY <1>7, <1>8

\* A contact has the channel of its slot, never the pad's.
LEMMA TrackingEventType ==
  ASSUME TypeOK, NEW e \in Events, e.kind = "tracking",
         TrackingEvent(e)
  PROVE  /\ chan' \in [Channels -> ChannelState]
         /\ usb' \in UsbState
         /\ chan'[PadChannel].type = "pad"
<1>1. e.on \in BOOLEAN /\ DeviceId["touch"] \in Ids /\ "touch" \in Types
  BY ChannelAssumption DEF Events, Types
<1>2. /\ chan \in [Channels -> ChannelState]
      /\ chan[PadChannel].type = "pad"
      /\ usb \in UsbState
      /\ usb.mt \in (Channels \ {PadChannel}) \cup {NoChannel}
  BY TypeParts DEF UsbState
<1> DEFINE x == [chan[usb.mt] EXCEPT !.type = "touch"]
<1>3. usb.mt # NoChannel => x \in ChannelState
  BY <1>1, <1>2 DEF ChannelState
<1>4. /\ chan' = IF usb.mt = NoChannel THEN chan
                 ELSE [chan EXCEPT ![usb.mt] = Reported(x, e.on, DeviceId["touch"])]
      /\ usb' = usb
  BY DEF TrackingEvent
<1> HIDE DEF x
<1> QED
  BY <1>1, <1>2, <1>3, <1>4, ReportedType, ChannelsNat

\* Motion and buttons only make a channel dirty.
LEMMA DirtyType ==
  ASSUME chan \in [Channels -> ChannelState], chan[PadChannel].type = "pad",
         NEW c \in Channels
  PROVE  /\ [chan EXCEPT ![c].dirty = TRUE] \in [Channels -> ChannelState]
         /\ [chan EXCEPT ![c].dirty = TRUE][PadChannel].type = "pad"
         /\ \A e \in Channels :
              /\ [chan EXCEPT ![c].dirty = TRUE][e].prox = chan[e].prox
              /\ [chan EXCEPT ![c].dirty = TRUE][e].type = chan[e].type
              /\ [chan EXCEPT ![c].dirty = TRUE][e].serial = chan[e].serial
  BY ChannelsNat DEF ChannelState

LEMMA ParseEventType == ASSUME TypeOK, ParseEvent PROVE TypeOK'
<1> DEFINE e == Head(frame)
<1>1. /\ frame \in Seq(Events) /\ frame # <<>>
      /\ chan \in [Channels -> ChannelState]
      /\ chan[PadChannel].type = "pad"
      /\ usb \in UsbState
  BY TypeParts DEF ParseEvent
<1>2. e \in Events /\ Tail(frame) \in Seq(Events)
  BY <1>1, HeadTailProperties
<1>3. frame' = Tail(frame)
  BY DEF ParseEvent
<1>4. /\ chan' \in [Channels -> ChannelState]
      /\ usb' \in UsbState
      /\ chan'[PadChannel].type = "pad"
  <2>1. CASE UNCHANGED <<usb, chan>>
    BY <1>1, <2>1
  <2>2. CASE e.kind = "tool" /\ ToolEvent(e)
    BY <1>2, <2>2, ToolEventType
  <2>3. CASE e.kind = "misc" /\ MiscEvent(e)
    BY <1>2, <2>3, MiscEventType
  <2>4. CASE e.kind = "slot" /\ SlotEvent(e)
    BY <1>2, <2>4, SlotEventType
  <2>5. CASE e.kind = "tracking" /\ TrackingEvent(e)
    BY <1>2, <2>5, TrackingEventType
  <2>6. CASE MotionEvent
    <3> DEFINE c == IF node.mt /\ usb.type = "touch" THEN usb.mt ELSE usb.channel
    <3>1. c \in Channels \cup {NoChannel}
      BY <1>1 DEF UsbState
    <3>2. chan' = (IF c = NoChannel THEN chan ELSE [chan EXCEPT ![c].dirty = TRUE])
          /\ usb' = usb
      BY <2>6 DEF MotionEvent
    <3> HIDE DEF c
    <3> QED
      BY <1>1, <3>1, <3>2, DirtyType
  <2>7. CASE ButtonEvent
    <3> DEFINE c == IF chan[usb.channel].type = "cursor" THEN usb.channel ELSE PadChannel
    <3>1. c \in Channels
      BY <1>1, ChannelsNat DEF UsbState
    <3>2. chan' = [chan EXCEPT ![c].dirty = TRUE] /\ usb' = usb
      BY <2>7 DEF ButtonEvent
    <3> HIDE DEF c
    <3> QED
      BY <1>1, <3>1, <3>2, DirtyType
  <2>8. e.kind \in {"tool", "misc", "slot", "tracking", "serial", "motion", "button"}
    BY <1>2 DEF Events
  <2> QED
    BY <2>1, <2>2, <2>3, <2>4, <2>5, <2>6, <2>7, <2>8 DEF ParseEvent
<1> QED
  BY <1>2, <1>3, <1>4 DEF ParseEvent, TypeOK, ChannelState, UsbState

\* Handing a channel to wcmEvent keeps what identifies its tool.
LEMMA SentType ==
  ASSUME NEW x \in ChannelState
  PROVE  /\ Sent(x) \in ChannelState
         /\ Sent(x).prox = x.prox
         /\ Sent(x).type = x.type
         /\ Sent(x).serial = x.serial
<1> DEFINE y == [x EXCEPT !.dirty = FALSE]
<1>1. /\ y \in ChannelState
      /\ y.prox = x.prox /\ y.type = x.type /\ y.serial = x.serial
  BY DEF ChannelState
<1>2. /\ Record(y) \in ChannelState
      /\ Record(y).prox = x.prox /\ Record(y).type = x.type
      /\ Record(y).serial = x.serial
  BY <1>1, RecordType
<1>3. Sent(x) \in {x, y, Record(y)}
  BY DEF Sent
<1> HIDE DEF y
<1> QED
  BY <1>1, <1>2, <1>3

LEMMA SendEventsType == ASSUME TypeOK, SendEvents PROVE TypeOK'
<1>1. /\ chan \in [Channels -> ChannelState]
      /\ chan[PadChannel].type = "pad"
      /\ usb \in UsbState
  BY TypeParts
<1>2. chan' = [c \in Channels |-> Sent(chan[c])]
  BY DEF SendEvents
<1>3. chan' \in [Channels -> ChannelState] /\ chan'[PadChannel].type = "pad"
  BY <1>1, <1>2, SentType, ChannelsNat
<1>4. usb' \in UsbState
  <2> DEFINE serial == IF chan[usb.channel].prox THEN usb.serial ELSE 0
  <2>1. serial \in Int /\ usb.channel \in Channels
    BY <1>1 DEF UsbState
  <2>2. usb' = [usb EXCEPT !.serial = serial, !.last = usb.channel]
    BY DEF SendEvents
  <2> HIDE DEF serial
  <2> QED
    BY <1>1, <2>1, <2>2 DEF UsbState
<1> QED
  BY <1>3, <1>4 DEF SendEvents, TypeOK, ChannelState, UsbState

LEMMA ToggleType == ASSUME TypeOK, NEW x \in Togglable, Toggle(x) PROVE TypeOK'
<1>1. enabled' \subseteq Settings
  BY ChannelAssumption DEF Toggle, TypeOK
<1> QED
  BY <1>1 DEF Toggle, TypeOK

\* Every step keeps the types.
LEMMA NextType == ASSUME TypeOK, [Next]_vars PROVE TypeOK'
<1>1. CASE UNCHANGED vars
  BY <1>1 DEF vars, TypeOK
<1> QED
  BY <1>1, KernelType, DispatchType, ParseEventType, SendEventsType, ToggleType DEF Next

\* The types hold throughout, for any number of channels and any tools: what is
\* written stays inside of the channels, and the last one remains the pad's.
THEOREM TypeCorrect == Spec => []TypeOK
<1>1. Init => TypeOK
  BY InitType
<1>2. TypeOK /\ [Next]_vars => TypeOK'
  BY NextType
<1> QED
  BY <1>1, <1>2, PTL DEF Spec

-----------------------------------------------------------------------------
(***************************************************************************)
(* One channel for one tool, on nodes without multitouch.  Between         *)
(* Dispatch and SendEvents the chosen channel may go out of and into       *)
(* proximity again, so no other channel may take its tool meanwhile        *)
(* (Alone), and a channel of the pad's serial number must be the pad's.    *)
(***************************************************************************)
SameTool(c, e) ==
  /\ chan[c].type = chan[e].type
  /\ chan[c].serial = chan[e].serial
  /\ chan[c].type # NoType

Alone ==
  phase = "events" =>
    \A e \in Channels \ {usb.channel} : chan[e].prox => ~SameTool(e, usb.channel)

PadAlone == \A c \in Channels \ {PadChannel} : chan[c].serial # PadSerial

NoContacts == \A i \in DOMAIN frame : frame[i].kind \notin {"slot", "tracking"}

PenInv ==
  /\ TypeOK
  /\ ~node.mt => Distinct /\ Alone /\ PadAlone /\ NoContacts

LEMMA InitPen == Init => PenInv
<1> SUFFICES ASSUME Init PROVE PenInv
  OBVIOUS
<1>1. TypeOK
  BY InitType
<1>2. /\ \A c \in Channels \ {PadChannel} : chan[c] = Clean
      /\ phase = "idle" /\ frame = <<>>
  BY DEF Init
<1>3. Distinct
  BY <1>2 DEF Distinct, Clean
<1>4. PadAlone
  BY <1>2 DEF PadAlone, Clean, PadSerial
<1> QED
  BY <1>1, <1>2, <1>3, <1>4 DEF PenInv, Alone, NoContacts

LEMMA KernelPen == ASSUME PenInv, Kernel PROVE PenInv'
<1>1. TypeOK'
  BY KernelType DEF PenInv
<1>2. ASSUME ~node.mt PROVE NoContacts'
  <2>1. PICK t \in node.tools, on \in BOOLEAN : ToolFrame(t, on)
    BY <1>2 DEF Kernel, IsContact
  <2> DEFINE Plain == {e \in Events : e.kind \notin {"slot", "tracking"}}
             id    == IF on THEN Tool[t].id ELSE 0
             what  == IF Tool[t].type = "pad" THEN "button" ELSE "motion"
  <2>2. frame' = ToolKey(Tool[t].type, on) \o Misc(id)
                   \o <<Event(what, NoType, TRUE, 0)>> \o Serial(Tool[t].serial)
    BY <2>1 DEF ToolFrame
  <2>3. /\ t \in Tools
        /\ Tool[t].type \in Types
        /\ Tool[t].serial \in Int
        /\ id \in Ids
    BY ChannelAssumption DEF PenInv, TypeOK
  <2> HIDE DEF id
  <2>4. /\ Event("tool", Tool[t].type, on, 0) \in Plain
        /\ Event("misc", NoType, id # 0, id) \in Plain
        /\ Event(what, NoType, TRUE, 0) \in Plain
        /\ Event("serial", NoType, TRUE, Tool[t].serial) \in Plain
    <3>1. Event("tool", Tool[t].type, on, 0) \in Events
      BY <2>3, EventTypes
    <3>2. Event("misc", NoType, id # 0, id) \in Events
      BY <2>3, EventTypes
    <3>3. Event(what, NoType, TRUE, 0) \in Events
      BY EventTypes
    <3>4. Event("serial", NoType, TRUE, Tool[t].serial) \in Events
      BY <2>3, EventTypes
    <3> QED
      BY <3>1, <3>2, <3>3, <3>4 DEF Event
  <2> HIDE DEF Plain, what
  <2>5. /\ ToolKey(Tool[t].type, on) \in Seq(Plain)
        /\ Misc(id) \in Seq(Plain)
        /\ <<Event(what, NoType, TRUE, 0)>> \in Seq(Plain)
        /\ Serial(Tool[t].serial) \in Seq(Plain)
    BY <2>4, Singleton DEF ToolKey, Misc, Serial
  <2>6. ToolKey(Tool[t].type, on) \o Misc(id) \in Seq(Plain)
    BY <2>5, ConcatProperties
  <2>7. ToolKey(Tool[t].type, on) \o Misc(id)
          \o <<Event(what, NoType, TRUE, 0)>> \in Seq(Plain)
    BY <2>5, <2>6, ConcatProperties
  <2>8. frame' \in Seq(Plain)
    BY <2>2, <2>5, <2>7, ConcatProperties
  <2>9. \A i \in DOMAIN frame' : frame'[i] \in Plain
    BY <2>8
  <2> QED
    BY <2>9 DEF NoContacts, Plain
<1>3. ASSUME ~node.mt, Distinct, PadAlone
      PROVE  Distinct' /\ PadAlone' /\ Alone'
  BY <1>3 DEF Kernel, Distinct, PadAlone, Alone
<1> QED
  BY <1>1, <1>2, <1>3 DEF PenInv, Kernel

\* usbChooseChannel fails only after it has started over, which takes tools out
\* of proximity and changes nothing else of them.
LEMMA NoChannelReason ==
  ASSUME chan \in [Channels -> ChannelState], NEW type, NEW serial,
         ChooseChannel(type, serial) = NoChannel
  PROVE  Choosing(type, serial) = StartOver
<1>1. NoChannel \notin Channels
  BY ChannelAssumption DEF NoChannel, Channels
<1>2. /\ Existing(type, serial) \in SUBSET Channels
      /\ Free \in SUBSET Channels
  BY DEF Existing, Free
<1>3. /\ Existing(type, serial) # {} =>
           Lowest(Existing(type, serial)) \in Channels
      /\ Free # {} => Lowest(Free) \in Channels
  BY <1>2, ChannelsNat, LowestIn
<1> QED
  BY <1>1, <1>3, ChannelsNat DEF ChooseChannel, Choosing

LEMMA StartOverKeeps ==
  ASSUME chan \in [Channels -> ChannelState]
  PROVE  \A e \in Channels : /\ StartOver[e].type = chan[e].type
                             /\ StartOver[e].serial = chan[e].serial
                             /\ StartOver[e].prox => chan[e].prox
<1> TAKE e \in Channels
<1> DEFINE x == [chan[e] EXCEPT !.prox = FALSE]
<1>1. /\ x \in ChannelState
      /\ x.type = chan[e].type /\ x.serial = chan[e].serial /\ ~x.prox
  BY DEF ChannelState
<1>2. StartOver[e] \in {chan[e], Record(x)}
  BY DEF StartOver
<1> HIDE DEF x
<1> QED
  BY <1>1, <1>2, RecordType

\* The frame's tool gets a channel of its own.
LEMMA DispatchPen == ASSUME PenInv, Dispatch PROVE PenInv'
<1> DEFINE type   == InitToolType
           serial == Protocol5Serial(type, FrameSerial)
           c      == ChooseChannel(type, serial)
           made   == Choosing(type, serial)
<1>1. TypeOK /\ TypeOK'
  BY DispatchType DEF PenInv
<1> SUFFICES ASSUME ~node.mt
             PROVE  (Distinct /\ Alone /\ PadAlone /\ NoContacts)'
  BY <1>1 DEF PenInv, Dispatch
<1>2. /\ Distinct /\ Alone /\ PadAlone /\ NoContacts
      /\ chan \in [Channels -> ChannelState]
      /\ chan[PadChannel].type = "pad"
      /\ type \in Types \cup {NoType}
      /\ serial \in Int
  BY <1>1, TypeParts, FrameTypes DEF PenInv
<1>3. NoContacts'
  BY <1>1, <1>2, DispatchCases DEF NoContacts
<1>4. CASE phase' = "idle" /\ chan' = chan
  BY <1>2, <1>3, <1>4 DEF Distinct, Alone, PadAlone
<1>5. CASE phase' = "idle" /\ chan' = made /\ c = NoChannel
  <2>1. made = StartOver
    BY <1>2, <1>5, NoChannelReason
  <2>2. \A e \in Channels : /\ StartOver[e].type = chan[e].type
                            /\ StartOver[e].serial = chan[e].serial
                            /\ StartOver[e].prox => chan[e].prox
    BY <1>2, StartOverKeeps
  <2> QED
    BY <1>2, <1>3, <1>5, <2>1, <2>2 DEF Distinct, Alone, PadAlone
<1>6. CASE /\ phase' = "events" /\ c # NoChannel
           /\ usb' = [usb EXCEPT !.type = type, !.serial = serial, !.channel = c]
           /\ chan' = [made EXCEPT ![c] = Assigned(made[c], type, serial)]
  <2>1. /\ c \in Channels
        /\ \/ /\ serial = PadSerial /\ c = PadChannel /\ made = chan
           \/ /\ serial # PadSerial /\ c \in Existing(type, serial) /\ made = chan
           \/ /\ serial # PadSerial /\ Existing(type, serial) = {} /\ c \in Free
              /\ made = [chan EXCEPT ![c] = Clean]
    BY <1>2, <1>6, ChoosingCases
  <2> DEFINE x == Assigned(made[c], type, serial)
  <2>2. /\ \A e \in Channels \ {c} : chan'[e] = chan[e]
        /\ chan'[c] = x
        /\ usb'.channel = c
    BY <1>1, <1>2, <1>6, <2>1, TypeParts DEF UsbState
  <2>3. x.serial = serial
    BY <1>2, <2>1, CleanType DEF Assigned, ChannelState
  <2>4. x.type = IF made[c].type = NoType THEN type ELSE made[c].type
    BY <1>2, <2>1, CleanType DEF Assigned, ChannelState
  <2> HIDE DEF x
  <2>5. ASSUME NEW e \in Channels \ {c}, chan[e].prox, chan[e].type = x.type,
               chan[e].serial = serial, x.type # NoType
        PROVE  FALSE
    <3>1. CASE serial = PadSerial /\ c = PadChannel /\ made = chan
      BY <1>2, <2>5, <3>1 DEF PadAlone
    <3>2. CASE c \in Existing(type, serial) /\ made = chan
      <4>1. chan[c].prox /\ chan[c].type = type /\ chan[c].serial = serial
        BY <3>2 DEF Existing
      <4>2. x.type = type
        BY <2>4, <3>2, <4>1
      <4> QED
        BY <1>2, <2>1, <2>5, <4>1, <4>2 DEF Distinct
    <3>3. CASE /\ Existing(type, serial) = {} /\ c \in Free
               /\ made = [chan EXCEPT ![c] = Clean]
      <4>1. x.type = type
        BY <1>2, <2>1, <2>4, <3>3 DEF Clean
      <4>2. e \in Existing(type, serial)
        BY <2>5, <4>1 DEF Existing
      <4> QED
        BY <3>3, <4>2
    <3> QED
      BY <2>1, <3>1, <3>2, <3>3
  <2>6. Alone'
    BY <2>2, <2>3, <2>5 DEF Alone, SameTool
  <2>7. Distinct'
    BY <1>2, <2>1, <2>2, <2>3, <2>5 DEF Distinct
  <2>8. PadAlone'
    <3>1. c # PadChannel => serial # PadSerial
      BY <1>2, <2>1
    <3> QED
      BY <1>2, <2>2, <2>3, <3>1 DEF PadAlone
  <2> QED
    BY <1>3, <2>6, <2>7, <2>8
<1> QED
  BY <1>1, <1>4, <1>5, <1>6, DispatchCases

\* An event of the frame changes the proximity of the frame's channel only.
LEMMA ParsedChannels ==
  ASSUME TypeOK, ~node.mt, NoContacts, ParseEvent
  PROVE  /\ usb'.channel = usb.channel
         /\ \A c \in Channels : /\ chan'[c].type = chan[c].type
                               /\ chan'[c].serial = chan[c].serial
         /\ \A c \in Channels \ {usb.channel} : chan'[c].prox = chan[c].prox
<1> DEFINE e == Head(frame)
<1>1. /\ frame \in Seq(Events) /\ frame # <<>>
      /\ chan \in [Channels -> ChannelState]
      /\ chan[PadChannel].type = "pad"
      /\ usb \in UsbState
      /\ usb.channel \in Channels
  BY TypeParts DEF ParseEvent, UsbState
<1>2. e \in Events /\ e.kind \notin {"slot", "tracking"}
  <2>1. e = frame[1] /\ 1 \in DOMAIN frame
    BY <1>1
  <2> QED
    BY <1>1, <2>1, HeadTailProperties DEF NoContacts
<1> DEFINE x == chan[usb.channel]
<1>3. x \in ChannelState
  BY <1>1
<1>4. ASSUME NEW on \in BOOLEAN, NEW id \in Ids,
             chan' = [chan EXCEPT ![usb.channel] = Reported(x, on, id)], usb' = usb
      PROVE  /\ usb'.channel = usb.channel
             /\ \A c \in Channels : /\ chan'[c].type = chan[c].type
                                   /\ chan'[c].serial = chan[c].serial
             /\ \A c \in Channels \ {usb.channel} : chan'[c].prox = chan[c].prox
  BY <1>1, <1>3, <1>4, ReportedType
<1>5. CASE UNCHANGED <<usb, chan>>
  BY <1>5
<1>6. CASE e.kind = "tool" /\ ToolEvent(e)
  <2> DEFINE id == IF node.protocol = "5" /\ e.type \notin {"touch", "pad"}
                   THEN x.id ELSE DeviceId[e.type]
  <2>1. e.on \in BOOLEAN /\ DeviceId[e.type] \in Ids
    BY <1>2, <1>6, ChannelAssumption DEF Events
  <2>2. id \in Ids
    BY <1>3, <2>1 DEF ChannelState
  <2>3. chan' = [chan EXCEPT ![usb.channel] = Reported(x, e.on, id)] /\ usb' = usb
    BY <1>6 DEF ToolEvent
  <2> HIDE DEF id, e
  <2> QED
    BY <1>4, <2>1, <2>2, <2>3
<1>7. CASE e.kind = "misc" /\ MiscEvent(e)
  <2> DEFINE id == IF e.n # 0 THEN e.n ELSE x.id
  <2>1. e.n \in Ids
    BY <1>2, <1>7 DEF Events
  <2>2. id \in Ids
    BY <1>3, <2>1 DEF ChannelState
  <2>3. chan' = [chan EXCEPT ![usb.channel] = Reported(x, e.n # 0, id)] /\ usb' = usb
    BY <1>7 DEF MiscEvent
  <2> HIDE DEF id, e
  <2> QED
    BY <1>4, <2>2, <2>3
<1>8. CASE MotionEvent
  <2>1. chan' = IF usb.channel = NoChannel THEN chan
                ELSE [chan EXCEPT ![usb.channel].dirty = TRUE]
    BY <1>8 DEF MotionEvent
  <2>2. usb' = usb
    BY <1>8 DEF MotionEvent
  <2> QED
    BY <1>1, <2>1, <2>2, DirtyType
<1>9. CASE ButtonEvent
  <2> DEFINE c == IF x.type = "cursor" THEN usb.channel ELSE PadChannel
  <2>1. c \in Channels
    BY <1>1, ChannelsNat
  <2>2. chan' = [chan EXCEPT ![c].dirty = TRUE] /\ usb' = usb
    BY <1>9 DEF ButtonEvent
  <2> HIDE DEF c
  <2> QED
    BY <1>1, <2>1, <2>2, DirtyType
<1>10. e.kind \in {"tool", "misc", "serial", "motion", "button"}
  BY <1>2 DEF Events
<1> QED
  BY <1>2, <1>5, <1>6, <1>7, <1>8, <1>9, <1>10 DEF ParseEvent

LEMMA ParseEventPen == ASSUME PenInv, ParseEvent PROVE PenInv'
<1>1. TypeOK /\ TypeOK'
  BY ParseEventType DEF PenInv
<1> SUFFICES ASSUME ~node.mt
             PROVE  (Distinct /\ Alone /\ PadAlone /\ NoContacts)'
  BY <1>1 DEF PenInv, ParseEvent
<1>2. /\ Distinct /\ Alone /\ PadAlone /\ NoContacts
      /\ phase = "events" /\ usb.channel \in Channels
  BY <1>1, TypeParts DEF PenInv, ParseEvent, UsbState
<1>3. /\ usb'.channel = usb.channel
      /\ \A c \in Channels : /\ chan'[c].type = chan[c].type
                            /\ chan'[c].serial = chan[c].serial
      /\ \A c \in Channels \ {usb.channel} : chan'[c].prox = chan[c].prox
  BY <1>1, <1>2, ParsedChannels
<1>4. Alone'
  BY <1>2, <1>3 DEF Alone, SameTool, ParseEvent
<1>5. Distinct'
  BY <1>2, <1>3 DEF Distinct, Alone, SameTool
<1>6. PadAlone'
  BY <1>2, <1>3 DEF PadAlone
<1>7. NoContacts'
  <2>1. /\ frame \in Seq(Events) /\ frame # <<>> /\ frame' = Tail(frame)
    BY <1>1, TypeParts DEF ParseEvent
  <2>2. \A i \in DOMAIN frame' : i + 1 \in DOMAIN frame /\ frame'[i] = frame[i + 1]
    BY <2>1, HeadTailProperties
  <2> QED
    BY <1>2, <2>2 DEF NoContacts
<1> QED
  BY <1>4, <1>5, <1>6, <1>7

LEMMA SendEventsPen == ASSUME PenInv, SendEvents PROVE PenInv'
<1>1. TypeOK /\ TypeOK'
  BY SendEventsType DEF PenInv
<1>2. \A c \in Channels : /\ chan'[c].prox = chan[c].prox
                          /\ chan'[c].type = chan[c].type
                          /\ chan'[c].serial = chan[c].serial
  BY <1>1, TypeParts, SentType DEF SendEvents
<1> QED
  BY <1>1, <1>2 DEF PenInv, SendEvents, Distinct, Alone, PadAlone, NoContacts

LEMMA NextPen == ASSUME PenInv, [Next]_vars PROVE PenInv'
<1>1. TypeOK'
  BY NextType DEF PenInv
<1>2. CASE UNCHANGED vars
  BY <1>1, <1>2 DEF vars, PenInv, Distinct, Alone, SameTool, PadAlone, NoContacts
<1>3. ASSUME NEW x \in Togglable, Toggle(x) PROVE PenInv'
  BY <1>1, <1>3 DEF Toggle, PenInv, Distinct, Alone, SameTool, PadAlone, NoContacts
<1> QED
  BY <1>2, <1>3, KernelPen, DispatchPen, ParseEventPen, SendEventsPen DEF Next

\* On nodes without multitouch, a tool in proximity is tracked in one channel
\* only, for any number of channels and tools, even when the channels run out
\* and whenever devices are switched off and on (usbChooseChannel).
THEOREM PensDistinct ==
  ASSUME \A n \in Nodes : ~n.mt
  PROVE  Spec => []ToolsDistinct
<1>1. Init => PenInv
  BY InitPen
<1>2. PenInv /\ [Next]_vars => PenInv'
  BY NextPen
<1>3. PenInv => ToolsDistinct
  BY DEF PenInv, TypeOK, ToolsDistinct
<1> QED
  BY <1>1, <1>2, <1>3, PTL DEF Spec
-----------------------------------------------------------------------------
(***************************************************************************)
(* From the kernel's frames to what is recorded, on nodes that tell their  *)
(* tools apart (Discernible).  The invariant follows a frame: between two  *)
(* frames, the channels in proximity belong to tools near the tablet, each *)
(* with a device id of its type, every near tool has one (AtIdle); the     *)
(* queued frame is seen to be of the tool that made it (AtDispatch); and   *)
(* while it is parsed, what the channel still lacks is among the events to *)
(* come (AtEvents).                                                        *)
(***************************************************************************)
Items(s) == {s[i] : i \in DOMAIN s}

\* Channel c is the one of tool t.
Holds(c, t) ==
  IF Tool[t].serial = PadSerial THEN c = PadChannel
  ELSE chan[c].type = Tool[t].type /\ chan[c].serial = Tool[t].serial

\* There is an enabled device for tools of this type.
Heard(type) == type \in enabled /\ (type = "touch" => "wcmTouch" \in enabled)

\* Channel c between two of its tool's frames; the tools of N may be tracked.
Settled(c, N) ==
  /\ ~chan[c].dirty
  /\ chan[c].vprox => chan[c].prox /\ chan[c].vid = chan[c].id
  /\ chan[c].prox => IdType[chan[c].id] = chan[c].type
  /\ chan[c].vprox \/ (chan[c].prox /\ c # PadChannel) => \E t \in N : Holds(c, t)

Tracked(t) == \E c \in Channels : chan[c].prox /\ Holds(c, t)
Kept(N)    == \A t \in N : Tool[t].serial # PadSerial => Tracked(t)

\* The kernel's tool keys are those of the near tools, its device id one of theirs.
KeysNear ==
  /\ \A type \in Types : kern.keys[type] <=> \E t \in kern.near : Tool[t].type = type
  /\ node.protocol # "generic" =>
       kern.misc = 0 \/ \E t \in kern.near : kern.misc = Tool[t].id

Recorded ==
  \A c \in Channels :
    /\ chan[c].vtype \in {NoType, chan[c].type}
    /\ chan[c].vprox => /\ Heard(chan[c].type) /\ chan[c].vtype = chan[c].type
                        /\ IdType[chan[c].vid] = chan[c].vtype

SerialKept ==
  node.protocol = "generic" => usb.serial \in {0} \cup {Tool[t].serial : t \in node.tools}

\* Tool t is the one a frame without a tool key and without an id would be of.
Latest(t) == node.protocol = "generic" \/ kern.misc = Tool[t].id

\* The frame has no events but those of tool t, as it comes or leaves.
Matches(t) ==
  \A e \in Items(frame) :
    /\ e.kind \in {"tool", "misc", "motion", "button", "serial"}
    /\ e.kind = "tool" => e.type = Tool[t].type /\ e.on = (t \in kern.near)
    /\ e.kind = "misc" => /\ node.protocol # "generic"
                          /\ e.n = IF t \in kern.near THEN Tool[t].id ELSE 0
    /\ e.kind = "serial" => node.protocol # "generic" /\ e.n = Tool[t].serial
    /\ e.kind = "button" => Tool[t].type = "pad"
ToCome(kind) == \E e \in Items(frame) : e.kind = kind

\* The event that makes the channel dirty, and the one that brings its device id.
Stir(t) == IF Tool[t].type = "pad" THEN "button" ELSE "motion"
Teller  == IF node.protocol = "5" THEN "misc" ELSE "tool"

AtIdle ==
  phase = "idle" =>
    /\ \A c \in Channels : Settled(c, kern.near)
    /\ Kept(kern.near)
    /\ \A t \in kern.near : Latest(t) =>
         /\ Holds(usb.last, t)
         /\ chan[usb.last].vtype = NoType => MayBeOff(Tool[t].type)

FrameOf(t) ==
  /\ \A c \in Channels : Settled(c, kern.near \cup {t})
  /\ Kept(kern.near \ {t})
  /\ \A u \in kern.near : Latest(u) => u = t
  /\ Matches(t)
  /\ ToCome(Stir(t))
  /\ node.protocol # "generic" => ToCome("serial")
  /\ \/ ToCome("tool")
     \/ ToCome("misc") /\ t \in kern.near
     \/ Holds(usb.last, t) /\ (chan[usb.last].vtype = NoType => MayBeOff(Tool[t].type))
  /\ t \notin kern.near => ToCome("tool")
  /\ Tool[t].serial # PadSerial /\ ~Tracked(t) => t \in kern.near /\ ToCome(Teller)
AtDispatch == phase = "dispatch" => \E t \in node.tools : FrameOf(t)

EventsOf(t) ==
  LET x == chan[usb.channel]
  IN  /\ Holds(usb.channel, t)
      /\ \A c \in Channels \ {usb.channel} : Settled(c, kern.near \ {t})
      /\ Kept(kern.near \ {t})
      /\ \A u \in kern.near : Latest(u) => u = t
      /\ Matches(t)
      /\ x.dirty \/ ToCome(Stir(t))
      /\ t \in kern.near /\ Tool[t].serial # PadSerial => x.prox
      /\ t \notin kern.near /\ x.prox => ToCome("tool")
      /\ x.prox /\ IdType[x.id] # x.type => t \in kern.near /\ ToCome(Teller)
AtEvents == phase = "events" => \E t \in node.tools : EventsOf(t)

ToldInv ==
  /\ PenInv
  /\ Discernible(node) /\ Steady(node)
  /\ Settings \ Togglable \subseteq enabled
  /\ KeysNear /\ Recorded /\ SerialKept
  /\ AtIdle /\ AtDispatch /\ AtEvents

-----------------------------------------------------------------------------
\* What a frame put together of two parts consists of.
LEMMA ItemsConcat ==
  ASSUME NEW S, NEW s \in Seq(S), NEW r \in Seq(S)
  PROVE  Items(s \o r) = Items(s) \cup Items(r)
<1>1. /\ s \o r \in Seq(S)
      /\ Len(s \o r) = Len(s) + Len(r)
      /\ \A i \in 1 .. Len(s) + Len(r) :
           (s \o r)[i] = IF i <= Len(s) THEN s[i] ELSE r[i - Len(s)]
  BY ConcatProperties
<1>2. Len(s) \in Nat /\ Len(r) \in Nat
  OBVIOUS
<1>3. /\ DOMAIN s = 1 .. Len(s) /\ DOMAIN r = 1 .. Len(r)
      /\ DOMAIN (s \o r) = 1 .. Len(s) + Len(r)
  BY <1>1
<1>4. ASSUME NEW i \in DOMAIN (s \o r)
      PROVE  (s \o r)[i] \in Items(s) \cup Items(r)
  <2>1. CASE i <= Len(s)
    <3>1. i \in DOMAIN s /\ (s \o r)[i] = s[i]
      BY <1>1, <1>2, <1>3, <2>1
    <3> QED
      BY <3>1 DEF Items
  <2>2. CASE ~(i <= Len(s))
    <3>1. i - Len(s) \in DOMAIN r /\ (s \o r)[i] = r[i - Len(s)]
      BY <1>1, <1>2, <1>3, <2>2
    <3> QED
      BY <3>1 DEF Items
  <2> QED
    BY <2>1, <2>2
<1>5. ASSUME NEW i \in DOMAIN s
      PROVE  s[i] \in Items(s \o r)
  <2>1. i \in DOMAIN (s \o r) /\ (s \o r)[i] = s[i]
    BY <1>1, <1>2, <1>3
  <2> QED
    BY <2>1 DEF Items
<1>6. ASSUME NEW i \in DOMAIN r
      PROVE  r[i] \in Items(s \o r)
  <2>1. i + Len(s) \in DOMAIN (s \o r) /\ (s \o r)[i + Len(s)] = r[i]
    BY <1>1, <1>2, <1>3
  <2> QED
    BY <2>1 DEF Items
<1> QED
  BY <1>4, <1>5, <1>6 DEF Items

LEMMA ItemsFew ==
  ASSUME NEW S, NEW e \in S
  PROVE  Items(<<e>>) = {e} /\ Items(<<>>) = {}
<1>1. DOMAIN <<e>> = {1} /\ <<e>>[1] = e /\ DOMAIN <<>> = {}
  OBVIOUS
<1> QED
  BY <1>1 DEF Items

\* A parsed event is taken off the frame.
LEMMA ItemsTail ==
  ASSUME NEW S, NEW s \in Seq(S), s # <<>>
  PROVE  Items(s) = {Head(s)} \cup Items(Tail(s))
<1>1. /\ Tail(s) \in Seq(S) /\ Len(Tail(s)) = Len(s) - 1
      /\ \A i \in 1 .. Len(s) - 1 : Tail(s)[i] = s[i + 1]
      /\ Len(s) \in Nat \ {0} /\ Head(s) = s[1]
  BY HeadTailProperties
<1>2. DOMAIN s = 1 .. Len(s) /\ DOMAIN Tail(s) = 1 .. Len(s) - 1
  BY <1>1
<1>3. ASSUME NEW i \in DOMAIN s PROVE s[i] \in {Head(s)} \cup Items(Tail(s))
  <2>1. CASE i = 1
    BY <1>1, <2>1
  <2>2. CASE i # 1
    <3>1. i - 1 \in DOMAIN Tail(s) /\ Tail(s)[i - 1] = s[i]
      BY <1>1, <1>2, <2>2
    <3> QED
      BY <3>1 DEF Items
  <2> QED
    BY <2>1, <2>2
<1>4. ASSUME NEW i \in DOMAIN Tail(s) PROVE Tail(s)[i] \in Items(s)
  <2>1. i + 1 \in DOMAIN s /\ s[i + 1] = Tail(s)[i]
    BY <1>1, <1>2
  <2> QED
    BY <2>1 DEF Items
<1>5. Head(s) \in Items(s)
  BY <1>1, <1>2 DEF Items
<1> QED
  BY <1>3, <1>4, <1>5 DEF Items

\* The events of a frame of tool t.
LEMMA ToolFrameItems ==
  ASSUME TypeOK, NEW t \in node.tools, NEW on \in BOOLEAN, ToolFrame(t, on)
  PROVE  LET type == Tool[t].type
             id   == IF on THEN Tool[t].id ELSE 0
             what == IF type = "pad" THEN "button" ELSE "motion"
         IN  Items(frame') =
               {e \in {Event("tool", type, on, 0)} : kern.keys[type] # on}
                 \cup {e \in {Event("misc", NoType, id # 0, id)} :
                        node.protocol # "generic" /\ kern.misc # id}
                 \cup {Event(what, NoType, TRUE, 0)}
                 \cup {e \in {Event("serial", NoType, TRUE, Tool[t].serial)} :
                        node.protocol # "generic"}
<1> DEFINE type == Tool[t].type
           id   == IF on THEN Tool[t].id ELSE 0
           what == IF type = "pad" THEN "button" ELSE "motion"
           k == Event("tool", type, on, 0)
           m == Event("misc", NoType, id # 0, id)
           w == Event(what, NoType, TRUE, 0)
           s == Event("serial", NoType, TRUE, Tool[t].serial)
           S == {k, m, w, s}
<1>1. frame' = ToolKey(type, on) \o Misc(id) \o <<w>> \o Serial(Tool[t].serial)
  BY DEF ToolFrame
<1>2. /\ ToolKey(type, on) = IF kern.keys[type] = on THEN <<>> ELSE <<k>>
      /\ Misc(id) = IF node.protocol = "generic" \/ kern.misc = id THEN <<>> ELSE <<m>>
      /\ Serial(Tool[t].serial) = IF node.protocol = "generic" THEN <<>> ELSE <<s>>
  BY DEF ToolKey, Misc, Serial
<1> HIDE DEF k, m, w, s, id, type
<1>3. /\ ToolKey(type, on) \in Seq(S)
      /\ Items(ToolKey(type, on)) = {e \in {k} : kern.keys[type] # on}
  <2>1. CASE kern.keys[type] = on
    BY <1>2, <2>1, ItemsFew, Singleton
  <2>2. CASE kern.keys[type] # on
    BY <1>2, <2>2, ItemsFew, Singleton
  <2> QED
    BY <2>1, <2>2
<1>4. /\ Misc(id) \in Seq(S)
      /\ Items(Misc(id)) = {e \in {m} : node.protocol # "generic" /\ kern.misc # id}
  <2>1. CASE node.protocol = "generic" \/ kern.misc = id
    BY <1>2, <2>1, ItemsFew, Singleton
  <2>2. CASE ~(node.protocol = "generic" \/ kern.misc = id)
    BY <1>2, <2>2, ItemsFew, Singleton
  <2> QED
    BY <2>1, <2>2
<1>5. /\ Serial(Tool[t].serial) \in Seq(S)
      /\ Items(Serial(Tool[t].serial)) = {e \in {s} : node.protocol # "generic"}
  <2>1. CASE node.protocol = "generic"
    BY <1>2, <2>1, ItemsFew, Singleton
  <2>2. CASE ~(node.protocol = "generic")
    BY <1>2, <2>2, ItemsFew, Singleton
  <2> QED
    BY <2>1, <2>2
<1>6. <<w>> \in Seq(S) /\ Items(<<w>>) = {w}
  <2>1. w \in S
    OBVIOUS
  <2> HIDE DEF S
  <2> QED
    BY <2>1, ItemsFew, Singleton
<1> DEFINE a == ToolKey(type, on) \o Misc(id)
           c == <<w>>
           b == a \o c
<1> HIDE DEF S
<1>7. a \in Seq(S) /\ Items(a) = Items(ToolKey(type, on)) \cup Items(Misc(id))
  BY <1>3, <1>4, ConcatProperties, ItemsConcat
<1>8. frame' = b \o Serial(Tool[t].serial)
  BY <1>1
<1> HIDE DEF a
<1>9. b \in Seq(S) /\ Items(b) = Items(a) \cup {w}
  <2>1. c \in Seq(S) /\ Items(c) = {w}
    BY <1>6
  <2> HIDE DEF c
  <2>2. b \in Seq(S) /\ Items(b) = Items(a) \cup Items(c)
    BY <1>7, <2>1, ConcatProperties, ItemsConcat
  <2> QED
    BY <2>1, <2>2
<1> HIDE DEF b
<1>11. Items(frame') = Items(b) \cup Items(Serial(Tool[t].serial))
  BY <1>5, <1>8, <1>9, ItemsConcat
<1>12. Items(frame') = {e \in {k} : kern.keys[type] # on}
          \cup {e \in {m} : node.protocol # "generic" /\ kern.misc # id}
          \cup {w} \cup {e \in {s} : node.protocol # "generic"}
  BY <1>3, <1>4, <1>5, <1>7, <1>9, <1>11
<1> QED
  BY <1>12 DEF k, m, w, s, id, type

\* What is known of a tool of a node that tells its tools apart.
LEMMA ToolKnown ==
  ASSUME TypeOK, Discernible(node), NEW t \in node.tools
  PROVE  /\ t \in Tools
         /\ Tool[t].type \in Types /\ Tool[t].type # NoType
         /\ Tool[t].id \in Ids /\ Tool[t].id # 0
         /\ IdType[Tool[t].id] = Tool[t].type
         /\ Tool[t].serial \in Int /\ Tool[t].serial \notin {0, 240}
         /\ Tool[t].type = "pad" <=> Tool[t].serial = PadSerial
         /\ \A u \in node.tools : Tool[u].type = Tool[t].type => u = t
         /\ \A u \in node.tools : Tool[u].id = Tool[t].id => u = t
         /\ node.protocol = "generic" => node.tools = {t} /\ Tool[t].serial \in {1, PadSerial}
<1>1. t \in Tools
  BY ChannelAssumption DEF TypeOK
<1>2. Tool[t].type \in Types /\ Tool[t].id \in Ids /\ Tool[t].serial \in Int
  BY <1>1, ChannelAssumption
<1>3. Tool[t].type # NoType
  BY <1>2 DEF Types, NoType
<1>4. (Tool[t].type = "pad") = (Tool[t].serial = PadSerial)
  BY DEF Discernible
<1>5. /\ \A u \in node.tools : Tool[u].type = Tool[t].type => u = t
      /\ \A u \in node.tools : Tool[u].id = Tool[t].id => u = t
  BY DEF Discernible
<1>6. /\ Tool[t].id # 0 /\ IdType[Tool[t].id] = Tool[t].type
      /\ Tool[t].serial \notin {0, 240}
      /\ node.protocol = "generic" => node.tools = {t} /\ Tool[t].serial \in {1, PadSerial}
  BY DEF Discernible
<1> QED
  BY <1>1, <1>2, <1>3, <1>4, <1>5, <1>6

\* A tool is near if its key is down.
LEMMA KeyOf ==
  ASSUME TypeOK, Discernible(node), KeysNear, NEW t \in node.tools
  PROVE  kern.keys[Tool[t].type] <=> t \in kern.near
<1>1. kern.near \subseteq node.tools
  BY DEF TypeOK
<1> QED
  BY <1>1, ToolKnown DEF KeysNear

\* The kernel queues a frame that names its tool.
LEMMA KernelTold == ASSUME ToldInv, Kernel PROVE ToldInv'
<1>1. /\ TypeOK /\ Discernible(node) /\ KeysNear /\ AtIdle
      /\ ~node.mt
      /\ phase = "idle" /\ phase' = "dispatch"
      /\ UNCHANGED <<node, usb, chan, enabled>>
      /\ kern.near \subseteq node.tools
  BY DEF ToldInv, PenInv, TypeOK, Kernel, Discernible
<1>2. PICK t \in node.tools, on \in BOOLEAN : ToolFrame(t, on)
  BY <1>1 DEF Kernel, IsContact
<1> DEFINE type == Tool[t].type
           id   == IF on THEN Tool[t].id ELSE 0
           what == IF type = "pad" THEN "button" ELSE "motion"
<1>3. Items(frame') =
        {e \in {Event("tool", type, on, 0)} : kern.keys[type] # on}
          \cup {e \in {Event("misc", NoType, id # 0, id)} :
                 node.protocol # "generic" /\ kern.misc # id}
          \cup {Event(what, NoType, TRUE, 0)}
          \cup {e \in {Event("serial", NoType, TRUE, Tool[t].serial)} :
                 node.protocol # "generic"}
  BY <1>1, <1>2, ToolFrameItems
<1>4. /\ on \/ t \in kern.near
      /\ kern' = [kern EXCEPT !.near = IF on THEN @ \cup {t} ELSE @ \ {t},
                              !.misc = IF node.protocol = "generic" THEN @ ELSE id,
                              !.keys[type] = on]
  BY <1>2 DEF ToolFrame
<1>5. /\ kern'.near = IF on THEN kern.near \cup {t} ELSE kern.near \ {t}
      /\ kern'.misc = IF node.protocol = "generic" THEN kern.misc ELSE id
      /\ kern'.keys = [kern.keys EXCEPT ![type] = on]
      /\ kern.keys \in [Types -> BOOLEAN]
  <2> HIDE DEF id
  <2> QED
    BY <1>1, <1>4, TypeParts DEF KernState
<1>6. /\ t \in kern'.near <=> on
      /\ kern'.near \subseteq node.tools
      /\ kern.near \subseteq kern'.near \cup {t}
      /\ kern'.near \ {t} \subseteq kern.near
  BY <1>1, <1>5
<1>7. KeysNear'
  <2>1. ASSUME NEW x \in Types
        PROVE  kern'.keys[x] <=> \E u \in kern'.near : Tool[u].type = x
    <3>1. CASE x = type
      <4>1. kern'.keys[x] = on
        BY <1>5, <3>1
      <4>2. \A u \in kern'.near : Tool[u].type = x => u = t
        BY <1>1, <1>6, <3>1, ToolKnown
      <4> QED
        BY <1>6, <3>1, <4>1, <4>2
    <3>2. CASE x # type
      <4>1. kern'.keys[x] = kern.keys[x]
        BY <1>5, <3>2
      <4>2. kern.keys[x] <=> \E u \in kern.near : Tool[u].type = x
        BY <1>1 DEF KeysNear
      <4> QED
        BY <1>6, <3>2, <4>1, <4>2
    <3> QED
      BY <3>1, <3>2
  <2>2. ASSUME node.protocol # "generic"
        PROVE  kern'.misc = 0 \/ \E u \in kern'.near : kern'.misc = Tool[u].id
    BY <1>5, <1>6, <2>2
  <2> QED
    BY <1>1, <2>1, <2>2 DEF KeysNear
<1>8. kern.keys[type] <=> t \in kern.near
  BY <1>1, KeyOf
<1>9. \A u \in kern'.near : Latest(u)' => u = t
  <2> SUFFICES ASSUME NEW u \in kern'.near,
                      node.protocol = "generic" \/ kern'.misc = Tool[u].id
               PROVE  u = t
    BY <1>1 DEF Latest
  <2>1. CASE node.protocol = "generic"
    BY <1>1, <1>6, <2>1, ToolKnown
  <2>2. CASE node.protocol # "generic"
    BY <1>1, <1>5, <1>6, <2>2, ToolKnown
  <2> QED
    BY <2>1, <2>2
<1>10. Matches(t)'
  <2> SUFFICES ASSUME NEW e \in Items(frame')
               PROVE  /\ e.kind \in {"tool", "misc", "motion", "button", "serial"}
                      /\ e.kind = "tool" => e.type = Tool[t].type /\ e.on = (t \in kern'.near)
                      /\ e.kind = "misc" =>
                           /\ node.protocol # "generic"
                           /\ e.n = IF t \in kern'.near THEN Tool[t].id ELSE 0
                      /\ e.kind = "serial" =>
                           node.protocol # "generic" /\ e.n = Tool[t].serial
                      /\ e.kind = "button" => Tool[t].type = "pad"
    BY <1>1 DEF Matches
  <2>1. CASE e = Event("tool", type, on, 0)
    BY <1>6, <2>1 DEF Event
  <2>2. CASE e = Event("misc", NoType, id # 0, id) /\ node.protocol # "generic"
    BY <1>6, <2>2 DEF Event
  <2>3. CASE e = Event(what, NoType, TRUE, 0)
    BY <2>3 DEF Event
  <2>4. CASE e = Event("serial", NoType, TRUE, Tool[t].serial) /\ node.protocol # "generic"
    BY <2>4 DEF Event
  <2> HIDE DEF type, id, what
  <2> QED
    BY <1>3, <2>1, <2>2, <2>3, <2>4
<1>11. /\ ToCome(Stir(t))'
       /\ node.protocol # "generic" => ToCome("serial")'
       /\ kern.keys[type] # on => ToCome("tool")'
       /\ node.protocol # "generic" /\ kern.misc # id => ToCome("misc")'
  <2>1. /\ Event("tool", type, on, 0).kind = "tool"
        /\ Event("misc", NoType, id # 0, id).kind = "misc"
        /\ Event(what, NoType, TRUE, 0).kind = Stir(t)
        /\ Event("serial", NoType, TRUE, Tool[t].serial).kind = "serial"
    BY DEF Event, Stir
  <2> HIDE DEF type, id, what
  <2> QED
    BY <1>3, <2>1 DEF ToCome
<1>12. \A c \in Channels : Settled(c, kern.near \cup {t})'
  <2>1. \A c \in Channels : Settled(c, kern.near)
    BY <1>1 DEF AtIdle
  <2> QED
    BY <1>1, <1>6, <2>1 DEF Settled, Holds
<1>13. Kept(kern.near \ {t})'
  <2>1. Kept(kern.near)
    BY <1>1 DEF AtIdle
  <2> QED
    BY <1>1, <1>6, <2>1 DEF Kept, Tracked, Holds
<1>14. \/ ToCome("tool")'
       \/ ToCome("misc")' /\ t \in kern'.near
       \/ Holds(usb.last, t)' /\ (chan'[usb'.last].vtype = NoType => MayBeOff(Tool[t].type))
  <2> SUFFICES ASSUME kern.keys[type] = on, ~(ToCome("misc")' /\ on)
               PROVE  Holds(usb.last, t)'
                        /\ (chan'[usb'.last].vtype = NoType => MayBeOff(Tool[t].type))
    BY <1>6, <1>11
  <2>1. on /\ t \in kern.near
    BY <1>4, <1>8
  <2>2. Latest(t)
    BY <1>11, <2>1 DEF Latest
  <2> QED
    BY <1>1, <2>1, <2>2 DEF AtIdle, Holds
<1>15. t \notin kern'.near => ToCome("tool")'
  BY <1>4, <1>6, <1>8, <1>11
<1>16. Tool[t].serial # PadSerial /\ ~Tracked(t)' => t \in kern'.near /\ ToCome(Teller)'
  <2> SUFFICES ASSUME Tool[t].serial # PadSerial, ~Tracked(t)'
               PROVE  t \in kern'.near /\ ToCome(Teller)'
    OBVIOUS
  <2>1. ~Tracked(t)
    BY <1>1 DEF Tracked, Holds
  <2>2. t \notin kern.near
    BY <1>1, <2>1 DEF AtIdle, Kept
  <2>3. on /\ kern.keys[type] # on
    BY <1>4, <1>8, <2>2
  <2>4. node.protocol # "generic" => kern.misc # id
    <3>1. ASSUME NEW u \in kern.near, kern.misc = Tool[u].id PROVE kern.misc # Tool[t].id
      BY <1>1, <2>2, <3>1, ToolKnown
    <3> QED
      BY <1>1, <2>3, <3>1, ToolKnown DEF KeysNear
  <2>5. ToCome("tool")' /\ (node.protocol # "generic" => ToCome("misc")')
    BY <1>11, <2>3, <2>4
  <2> QED
    BY <1>1, <1>6, <2>3, <2>5 DEF Teller
<1>17. FrameOf(t)'
  BY <1>1, <1>9, <1>10, <1>11, <1>12, <1>13, <1>14, <1>15, <1>16 DEF FrameOf
<1>18. PenInv'
  BY KernelPen DEF ToldInv
<1>19. AtIdle' /\ AtDispatch' /\ AtEvents'
  BY <1>1, <1>17 DEF AtIdle, AtDispatch, AtEvents
<1>20. Recorded' /\ SerialKept'
  BY <1>1 DEF ToldInv, Recorded, SerialKept, Heard
<1> QED
  BY <1>1, <1>7, <1>18, <1>19, <1>20 DEF ToldInv

\* With the stylus, or the only tool, near the tablet, it is the tool key that
\* refreshDeviceType finds first.
LEMMA RefreshKnown ==
  ASSUME TypeOK, Discernible(node), KeysNear, NEW t \in kern.near,
         Tool[t].type = "stylus" \/ node.tools = {t}
  PROVE  RefreshDeviceType = Tool[t].type
<1> DEFINE down == {x \in Types : kern.keys[x]}
           First(S, rest) == IF S \cap down # {} THEN CHOOSE x \in S : x \in down ELSE rest
<1>1. t \in node.tools /\ Tool[t].type \in Types /\ kern.keys[Tool[t].type]
  BY ToolKnown, KeyOf DEF TypeOK
<1>2. Tool[t].type \in down
  BY <1>1
<1>3. ASSUME NEW x, NEW rest PROVE First({x}, rest) = IF x \in down THEN x ELSE rest
  OBVIOUS
<1>4. RefreshDeviceType = IF "stylus" \in down THEN "stylus"
        ELSE IF "eraser" \in down THEN "eraser"
        ELSE IF "touch" \in down THEN "touch"
        ELSE IF "pad" \in down THEN "pad"
        ELSE IF "cursor" \in down THEN "cursor" ELSE NoType
  <2> DEFINE r4 == First({"cursor"}, NoType)
             r3 == First({"pad"}, r4)
             r2 == First({"touch"}, r3)
             r1 == First({"eraser"}, r2)
             r0 == First({"stylus"}, r1)
  <2>1. RefreshDeviceType = r0
    BY DEF RefreshDeviceType
  <2> HIDE DEF First, down, r0, r1, r2, r3, r4
  <2>2. r4 = IF "cursor" \in down THEN "cursor" ELSE NoType
    BY <1>3 DEF r4
  <2>3. r3 = IF "pad" \in down THEN "pad" ELSE r4
    BY <1>3 DEF r3
  <2>4. r2 = IF "touch" \in down THEN "touch" ELSE r3
    BY <1>3 DEF r2
  <2>5. r1 = IF "eraser" \in down THEN "eraser" ELSE r2
    BY <1>3 DEF r1
  <2>6. r0 = IF "stylus" \in down THEN "stylus" ELSE r1
    BY <1>3 DEF r0
  <2> QED
    BY <2>1, <2>2, <2>3, <2>4, <2>5, <2>6
<1> HIDE DEF First
<1>5. CASE Tool[t].type = "stylus"
  BY <1>2, <1>4, <1>5
<1>6. CASE node.tools = {t}
  <2>1. down = {Tool[t].type}
    BY <1>1, <1>2, <1>6 DEF KeysNear, TypeOK
  <2>2. Tool[t].type \in {"stylus", "eraser", "cursor", "touch", "pad"}
    BY <1>1 DEF Types
  <2> HIDE DEF down
  <2> QED
    BY <1>4, <2>1, <2>2
<1> QED
  BY <1>5, <1>6

\* A frame is dispatched as one of the tool that made it.
LEMMA NamesTool ==
  ASSUME ToldInv, NEW t \in node.tools, FrameOf(t)
  PROVE  /\ InitToolType = Tool[t].type
         /\ Protocol5Serial(Tool[t].type, FrameSerial) = Tool[t].serial
<1>1. /\ TypeOK /\ Discernible(node) /\ Steady(node) /\ KeysNear /\ Recorded /\ SerialKept
      /\ frame \in Seq(Events)
      /\ Matches(t)
      /\ IdType[0] = NoType
      /\ chan[PadChannel].type = "pad"
      /\ usb.last \in Channels
  BY TypeParts DEF ToldInv, PenInv, FrameOf, Discernible, UsbState
<1>2. DOMAIN frame \in SUBSET Nat
  BY <1>1
<1>3. /\ Tool[t].type # NoType /\ IdType[Tool[t].id] = Tool[t].type
      /\ Tool[t].serial \notin {0, 240}
      /\ Tool[t].type = "pad" <=> Tool[t].serial = PadSerial
      /\ node.protocol = "generic" => node.tools = {t} /\ Tool[t].serial \in {1, PadSerial}
  BY <1>1, ToolKnown
<1>4. ASSUME NEW i \in DOMAIN frame
      PROVE  /\ EventType(frame[i]) \in {NoType, Tool[t].type}
             /\ frame[i].kind = "tool" => EventType(frame[i]) # NoType
             /\ frame[i].kind = "misc" /\ t \in kern.near => EventType(frame[i]) # NoType
  <2> DEFINE e == frame[i]
  <2>1. /\ e.kind \in {"tool", "misc", "motion", "button", "serial"}
        /\ e.kind = "tool" => e.type = Tool[t].type
        /\ e.kind = "misc" => /\ node.protocol # "generic"
                              /\ e.n = IF t \in kern.near THEN Tool[t].id ELSE 0
    BY <1>1 DEF Matches, Items
  <2> HIDE DEF e
  <2>2. /\ e.kind = "tool" => EventType(e) = e.type
        /\ e.kind = "misc" => EventType(e) = IdType[e.n]
        /\ e.kind \in {"motion", "button", "serial"} => EventType(e) = NoType
    BY <2>1 DEF EventType
  <2>3. EventType(e) \in {NoType, Tool[t].type}
    BY <1>1, <1>3, <2>1, <2>2
  <2>4. e.kind = "tool" => EventType(e) # NoType
    BY <1>3, <2>1, <2>2
  <2>5. e.kind = "misc" /\ t \in kern.near => EventType(e) # NoType
    BY <1>3, <2>1, <2>2
  <2> QED
    BY <2>3, <2>4, <2>5 DEF e
<1>5. InitToolType = Tool[t].type
  <2> DEFINE typed == {i \in DOMAIN frame : EventType(frame[i]) # NoType}
             last  == chan[usb.last].vtype
  <2>1. CASE typed # {}
    <3>1. Lowest(typed) \in typed
      BY <1>2, <2>1, LowestIn
    <3>2. InitToolType = EventType(frame[Lowest(typed)])
      BY <2>1 DEF InitToolType
    <3> QED
      BY <1>4, <3>1, <3>2
  <2>2. CASE typed = {}
    <3>1. ~ToCome("tool") /\ ~(ToCome("misc") /\ t \in kern.near)
      BY <1>4, <2>2 DEF ToCome, Items
    <3>2. /\ t \in kern.near
          /\ Holds(usb.last, t)
          /\ last = NoType => MayBeOff(Tool[t].type)
      BY <3>1 DEF FrameOf
    <3>3. CASE last # NoType
      <4>1. chan[usb.last].type = Tool[t].type
        BY <1>1, <1>3, <3>2 DEF Holds
      <4>2. last = Tool[t].type
        BY <1>1, <3>3, <4>1 DEF Recorded
      <4> QED
        BY <2>2, <3>3, <4>2 DEF InitToolType
    <3>4. CASE last = NoType
      <4>1. Tool[t].type = "stylus" \/ node.tools = {t}
        BY <1>1, <3>2, <3>4 DEF Steady
      <4>2. RefreshDeviceType = Tool[t].type
        BY <1>1, <3>2, <4>1, RefreshKnown
      <4> QED
        BY <1>3, <2>2, <3>4, <4>2 DEF InitToolType
    <3> QED
      BY <3>3, <3>4
  <2> QED
    BY <2>1, <2>2
<1>6. Protocol5Serial(Tool[t].type, FrameSerial) = Tool[t].serial
  <2> DEFINE serials == {i \in DOMAIN frame : frame[i].kind = "serial"}
  <2>1. CASE node.protocol # "generic"
    <3>1. serials # {}
      BY <2>1 DEF FrameOf, ToCome, Items
    <3>2. Lowest(serials) \in serials
      BY <1>2, <3>1, LowestIn
    <3>3. frame[Lowest(serials)].n = Tool[t].serial
      BY <1>1, <3>2 DEF Matches, Items
    <3>4. FrameSerial = Tool[t].serial
      BY <3>1, <3>3 DEF FrameSerial
    <3> QED
      BY <1>3, <3>4 DEF Protocol5Serial
  <2>2. CASE node.protocol = "generic"
    <3>1. serials = {}
      BY <1>1, <2>2 DEF Matches, Items
    <3>2. FrameSerial = usb.serial /\ usb.serial \in {0, Tool[t].serial}
      BY <1>1, <1>3, <2>2, <3>1 DEF FrameSerial, SerialKept
    <3> QED
      BY <1>3, <2>2, <3>2 DEF Protocol5Serial
  <2> QED
    BY <2>1, <2>2
<1> QED
  BY <1>5, <1>6

\* The channels do not run out: each one in use is a different tool's.
LEMMA FreeLeft ==
  ASSUME ToldInv, NEW t \in node.tools, FrameOf(t), Tool[t].serial # PadSerial, ~Tracked(t)
  PROVE  Free # {}
<1> DEFINE P == Channels \ {PadChannel}
           U == {u \in node.tools : Tool[u].serial # PadSerial}
<1>1. /\ TypeOK /\ Discernible(node) /\ Distinct /\ PadAlone
      /\ chan[PadChannel].type = "pad"
      /\ kern.near \subseteq node.tools
  BY DEF ToldInv, PenInv, TypeOK, Discernible
<1>2. SUFFICES ASSUME Free = {} PROVE FALSE
  OBVIOUS
<1>3. ASSUME NEW c \in P
      PROVE  chan[c].prox /\ \E u \in U \ {t} : Holds(c, u)
  <2>1. c \in Channels /\ c # PadChannel
    OBVIOUS
  <2>2. chan[c].prox \/ chan[c].vprox
    BY <1>2, <2>1 DEF Free
  <2>3. Settled(c, kern.near \cup {t})
    BY <2>1 DEF FrameOf
  <2>4. chan[c].prox
    BY <2>2, <2>3 DEF Settled
  <2>5. PICK u \in kern.near \cup {t} : Holds(c, u)
    BY <2>1, <2>3, <2>4 DEF Settled
  <2>6. u # t
    BY <2>1, <2>4, <2>5 DEF Tracked
  <2>7. Tool[u].serial # PadSerial
    BY <2>1, <2>5 DEF Holds
  <2> QED
    BY <1>1, <2>4, <2>5, <2>6, <2>7
<1> DEFINE owner == [c \in P |-> CHOOSE u \in U \ {t} : Holds(c, u)]
<1>4. owner \in [P -> U \ {t}] /\ \A c \in P : Holds(c, owner[c])
  BY <1>3
<1>5. /\ IsFiniteSet(U) /\ Cardinality(U) < NChannels /\ Cardinality(U) \in Nat
      /\ IsFiniteSet(U \ {t}) /\ Cardinality(U \ {t}) = Cardinality(U) - 1
  <2>1. IsFiniteSet(node.tools) /\ U \in SUBSET node.tools /\ t \in U
    BY <1>1 DEF Discernible
  <2>2. Cardinality(U) < NChannels
    BY <1>1 DEF Discernible
  <2> HIDE DEF U
  <2>3. IsFiniteSet(U)
    BY <2>1, FS_Subset
  <2> QED
    BY <2>1, <2>2, <2>3, FS_CardinalityType, FS_RemoveElement
<1>6. IsFiniteSet(P) /\ Cardinality(P) = NChannels - 1
  <2>1. P = 0 .. NChannels - 2 /\ NChannels \in Nat /\ NChannels > 1
    BY ChannelAssumption DEF Channels, PadChannel
  <2>2. 0 \in Int /\ NChannels - 2 \in Int /\ ~(0 > NChannels - 2)
    BY <2>1
  <2> HIDE DEF P
  <2>3. /\ IsFiniteSet(0 .. NChannels - 2)
        /\ Cardinality(0 .. NChannels - 2) = NChannels - 2 - 0 + 1
    BY <2>2, FS_Interval
  <2> QED
    BY <2>1, <2>3
<1> HIDE DEF owner
<1>7. PICK c \in P, e \in P : c # e /\ owner[c] = owner[e]
  <2>1. Cardinality(U \ {t}) < Cardinality(P)
    BY <1>5, <1>6, ChannelAssumption
  <2> HIDE DEF P, U
  <2> QED
    BY <1>4, <1>5, <1>6, <2>1, FS_PigeonHole
<1>8. /\ Holds(c, owner[c]) /\ Holds(e, owner[c])
      /\ chan[c].prox /\ chan[e].prox
      /\ owner[c] \in node.tools /\ Tool[owner[c]].serial # PadSerial
      /\ c \in Channels /\ e \in Channels
  BY <1>3, <1>4, <1>7
<1>9. Tool[owner[c]].type # NoType
  BY <1>1, <1>8, ToolKnown
<1> QED
  BY <1>1, <1>7, <1>8, <1>9 DEF Holds, Distinct

\* The frame's tool gets its own channel, or a free one; it is never dropped.
LEMMA ChannelOf ==
  ASSUME ToldInv, NEW t \in node.tools, FrameOf(t)
  PROVE  LET type == Tool[t].type
             serial == Tool[t].serial
             c    == ChooseChannel(type, serial)
             made == Choosing(type, serial)
         IN  /\ c \in Channels /\ c # NoChannel
             /\ \/ /\ serial = PadSerial /\ c = PadChannel /\ made = chan
                \/ /\ serial # PadSerial /\ Tracked(t)
                   /\ c \in Existing(type, serial) /\ made = chan
                \/ /\ serial # PadSerial /\ ~Tracked(t) /\ c \in Free
                   /\ Existing(type, serial) = {}
                   /\ made = [chan EXCEPT ![c] = Clean]
<1> DEFINE type == Tool[t].type
           serial == Tool[t].serial
           c    == ChooseChannel(type, serial)
<1>1. chan \in [Channels -> ChannelState] /\ NoChannel \notin Channels
  BY TypeParts, ChannelAssumption DEF ToldInv, PenInv, NoChannel, Channels
<1>2. Existing(type, serial) \in SUBSET Channels /\ Free \in SUBSET Channels
  BY DEF Existing, Free
<1>3. serial # PadSerial => (Tracked(t) <=> Existing(type, serial) # {})
  BY DEF Tracked, Holds, Existing
<1>4. serial # PadSerial /\ ~Tracked(t) => Free # {}
  BY FreeLeft
<1>5. /\ Existing(type, serial) # {} =>
           Lowest(Existing(type, serial)) \in Existing(type, serial)
      /\ Free # {} => Lowest(Free) \in Free
  BY <1>2, ChannelsNat, LowestIn
<1>6. c \in Channels
  BY <1>2, <1>3, <1>4, <1>5, ChannelsNat DEF ChooseChannel
<1>7. c # NoChannel
  BY <1>1, <1>6
<1> HIDE DEF type, serial, c
<1>8. \/ /\ serial = PadSerial /\ c = PadChannel /\ Choosing(type, serial) = chan
      \/ /\ serial # PadSerial /\ c \in Existing(type, serial)
         /\ Choosing(type, serial) = chan
      \/ /\ serial # PadSerial /\ Existing(type, serial) = {} /\ c \in Free
         /\ Choosing(type, serial) = [chan EXCEPT ![c] = Clean]
  BY <1>1, <1>7, ChoosingCases DEF c
<1> QED
  BY <1>3, <1>6, <1>7, <1>8 DEF type, serial, c

\* What Dispatch does with a frame of tool t.
LEMMA DispatchOf ==
  ASSUME ToldInv, Dispatch, NEW t \in node.tools, FrameOf(t)
  PROVE  LET c == ChooseChannel(Tool[t].type, Tool[t].serial)
             x == Assigned(Choosing(Tool[t].type, Tool[t].serial)[c],
                           Tool[t].type, Tool[t].serial)
         IN  /\ UNCHANGED <<node, kern, enabled, frame>>
             /\ phase' = "events"
             /\ usb' = [usb EXCEPT !.type = Tool[t].type, !.serial = Tool[t].serial,
                                   !.channel = c]
             /\ usb'.channel = c /\ usb'.type = Tool[t].type
             /\ usb'.serial = Tool[t].serial /\ usb'.last = usb.last
             /\ chan'[c] = x
             /\ \A e \in Channels \ {c} : chan'[e] = chan[e]
             /\ x.type = Tool[t].type /\ x.serial = Tool[t].serial
             /\ \/ /\ Tool[t].serial = PadSerial /\ c = PadChannel
                   /\ x = [chan[c] EXCEPT !.serial = PadSerial]
                \/ /\ Tool[t].serial # PadSerial /\ Tracked(t)
                   /\ c \in Existing(Tool[t].type, Tool[t].serial)
                   /\ x = chan[c]
                \/ /\ Tool[t].serial # PadSerial /\ ~Tracked(t) /\ c \in Free
                   /\ Existing(Tool[t].type, Tool[t].serial) = {}
                   /\ x.prox /\ ~x.vprox /\ x.vtype = NoType
<1> DEFINE type   == Tool[t].type
           serial == Tool[t].serial
           c    == ChooseChannel(type, serial)
           made == Choosing(type, serial)
           x    == Assigned(made[c], type, serial)
<1>1. /\ InitToolType = type
      /\ Protocol5Serial(type, FrameSerial) = serial
  BY NamesTool
<1>2. /\ TypeOK /\ Discernible(node) /\ ~node.mt
      /\ chan \in [Channels -> ChannelState]
      /\ chan[PadChannel].type = "pad"
      /\ usb \in UsbState
  BY TypeParts DEF ToldInv, PenInv, Discernible
<1>3. /\ type \in Types /\ type # NoType /\ serial \in Int
      /\ type = "pad" <=> serial = PadSerial
  BY <1>2, ToolKnown
<1>4. /\ c \in Channels /\ c # NoChannel
      /\ \/ /\ serial = PadSerial /\ c = PadChannel /\ made = chan
         \/ /\ serial # PadSerial /\ Tracked(t)
            /\ c \in Existing(type, serial) /\ made = chan
         \/ /\ serial # PadSerial /\ ~Tracked(t) /\ c \in Free
            /\ Existing(type, serial) = {}
            /\ made = [chan EXCEPT ![c] = Clean]
  BY ChannelOf
<1>5. made \in [Channels -> ChannelState]
  BY <1>2, ChoosingType
<1>6. ~PenBusy(type)
  BY <1>2 DEF PenBusy
<1>7. /\ UNCHANGED <<node, kern, enabled, frame>>
      /\ phase' = "events"
      /\ usb' = [usb EXCEPT !.type = type, !.serial = serial, !.channel = c]
      /\ chan' = [made EXCEPT ![c] = x]
  BY <1>1, <1>4, <1>6 DEF Dispatch
<1>8. /\ usb'.channel = c /\ usb'.type = type /\ usb'.serial = serial
      /\ usb'.last = usb.last
  BY <1>2, <1>7 DEF UsbState
<1> HIDE DEF x
<1>9. chan'[c] = x /\ \A e \in Channels \ {c} : chan'[e] = chan[e]
  BY <1>2, <1>4, <1>5, <1>7
<1>10. /\ x.type = type /\ x.serial = serial
       /\ \/ /\ serial = PadSerial /\ c = PadChannel
             /\ x = [chan[c] EXCEPT !.serial = PadSerial]
          \/ /\ serial # PadSerial /\ Tracked(t) /\ c \in Existing(type, serial)
             /\ x = chan[c]
          \/ /\ serial # PadSerial /\ ~Tracked(t) /\ c \in Free
             /\ Existing(type, serial) = {}
             /\ x.prox /\ ~x.vprox /\ x.vtype = NoType
  <2>1. CASE serial = PadSerial /\ c = PadChannel /\ made = chan
    <3>1. chan[c] \in ChannelState /\ chan[c].type = "pad" /\ type = "pad"
      BY <1>2, <1>3, <1>4, <2>1
    <3> QED
      BY <1>3, <2>1, <3>1 DEF x, Assigned, ChannelState, NoType
  <2>2. CASE /\ serial # PadSerial /\ Tracked(t)
             /\ c \in Existing(type, serial) /\ made = chan
    <3>1. /\ chan[c] \in ChannelState /\ chan[c].type = type /\ chan[c].serial = serial
      BY <1>2, <1>4, <2>2 DEF Existing
    <3>2. x = chan[c]
      BY <1>3, <2>2, <3>1 DEF x, Assigned, ChannelState
    <3> QED
      BY <2>2, <3>1, <3>2
  <2>3. CASE /\ serial # PadSerial /\ ~Tracked(t) /\ c \in Free
             /\ Existing(type, serial) = {}
             /\ made = [chan EXCEPT ![c] = Clean]
    <3>1. made[c] = Clean
      BY <1>2, <1>4, <2>3
    <3>2. x.type = type /\ x.serial = serial /\ ~x.vprox /\ x.vtype = NoType
      BY <1>3, <3>1 DEF x, Assigned, Clean
    <3>3. x.prox = (Clean.prox \/ (Clean.type = NoType /\ type # NoType))
      BY <3>1 DEF x, Assigned, Clean
    <3>4. x.prox
      BY <1>3, <3>3 DEF Clean
    <3> QED
      BY <2>3, <3>2, <3>4
  <2> QED
    BY <1>4, <2>1, <2>2, <2>3
<1> QED
  BY <1>7, <1>8, <1>9, <1>10 DEF x

\* What a dispatched frame leaves to its events.
LEMMA DispatchTold == ASSUME ToldInv, Dispatch PROVE ToldInv'
<1>1. /\ TypeOK /\ Discernible(node) /\ Steady(node) /\ KeysNear /\ Recorded /\ SerialKept
      /\ Distinct /\ phase = "dispatch"
      /\ chan \in [Channels -> ChannelState]
      /\ chan[PadChannel].type = "pad"
      /\ kern.near \subseteq node.tools
      /\ Settings \ Togglable \subseteq enabled
  BY TypeParts DEF ToldInv, PenInv, TypeOK, Discernible, Dispatch
<1>2. PICK t \in node.tools : FrameOf(t)
  BY <1>1 DEF ToldInv, AtDispatch
<1>3. PICK c, x :
      /\ c \in Channels
      /\ UNCHANGED <<node, kern, enabled, frame>>
      /\ phase' = "events"
      /\ usb'.channel = c /\ usb'.serial = Tool[t].serial /\ usb'.last = usb.last
      /\ chan'[c] = x
      /\ \A e \in Channels \ {c} : chan'[e] = chan[e]
      /\ x.type = Tool[t].type /\ x.serial = Tool[t].serial
      /\ \/ /\ Tool[t].serial = PadSerial /\ c = PadChannel
            /\ x = [chan[c] EXCEPT !.serial = PadSerial]
         \/ /\ Tool[t].serial # PadSerial /\ Tracked(t)
            /\ c \in Existing(Tool[t].type, Tool[t].serial)
            /\ x = chan[c]
         \/ /\ Tool[t].serial # PadSerial /\ ~Tracked(t) /\ c \in Free
            /\ Existing(Tool[t].type, Tool[t].serial) = {}
            /\ x.prox /\ ~x.vprox /\ x.vtype = NoType
  <2> DEFINE d == ChooseChannel(Tool[t].type, Tool[t].serial)
             y == Assigned(Choosing(Tool[t].type, Tool[t].serial)[d],
                           Tool[t].type, Tool[t].serial)
  <2>1. d \in Channels
    BY <1>2, ChannelOf
  <2> WITNESS d, y
  <2> QED
    BY <1>2, <2>1, DispatchOf
<1>5. /\ Tool[t].type # NoType
      /\ Tool[t].type = "pad" <=> Tool[t].serial = PadSerial
      /\ \A u \in node.tools : Tool[u].type = Tool[t].type => u = t
  BY <1>1, ToolKnown
<1>6. /\ \A e \in Channels : Settled(e, kern.near \cup {t})
      /\ Kept(kern.near \ {t})
      /\ Matches(t) /\ ToCome(Stir(t))
      /\ \A u \in kern.near : Latest(u) => u = t
      /\ t \notin kern.near => ToCome("tool")
      /\ Tool[t].serial # PadSerial /\ ~Tracked(t) => t \in kern.near /\ ToCome(Teller)
  BY <1>2 DEF FrameOf
<1>7. Holds(c, t)'
  BY <1>3 DEF Holds
<1>8. ASSUME NEW e \in Channels \ {c} PROVE Settled(e, kern.near \ {t})'
  <2>1. Settled(e, kern.near \cup {t})
    BY <1>6
  <2>2. ASSUME chan[e].prox, Holds(e, t) PROVE FALSE
    <3>1. CASE Tool[t].serial = PadSerial
      BY <1>3, <2>2, <3>1 DEF Holds
    <3>2. CASE Tool[t].serial # PadSerial
      <4>1. e \in Existing(Tool[t].type, Tool[t].serial)
        BY <2>2, <3>2 DEF Holds, Existing
      <4>2. c \in Existing(Tool[t].type, Tool[t].serial)
        BY <1>3, <3>2, <4>1
      <4> QED
        BY <1>1, <1>5, <4>1, <4>2 DEF Existing, Distinct
    <3> QED
      BY <3>1, <3>2
  <2> QED
    BY <1>3, <2>1, <2>2 DEF Settled, Holds
<1>9. Kept(kern.near \ {t})'
  <2> SUFFICES ASSUME NEW u \in kern.near \ {t}, Tool[u].serial # PadSerial
               PROVE  Tracked(u)'
    BY <1>3 DEF Kept
  <2>1. PICK e \in Channels : chan[e].prox /\ Holds(e, u)
    BY <1>6 DEF Kept, Tracked
  <2>2. chan[e].type = Tool[u].type /\ Tool[u].type # Tool[t].type /\ Tool[u].type # "pad"
    BY <1>1, <1>5, <2>1, ToolKnown DEF Holds
  <2>3. e # c
    BY <1>1, <1>3, <2>1, <2>2 DEF Existing, Free
  <2> QED
    BY <1>3, <2>1, <2>3 DEF Tracked, Holds
<1>10. t \in kern.near /\ Tool[t].serial # PadSerial => x.prox
  BY <1>3 DEF Existing
<1>11. x.prox /\ IdType[x.id] # x.type => t \in kern.near /\ ToCome(Teller)
  <2>1. CASE /\ Tool[t].serial = PadSerial /\ c = PadChannel
             /\ x = [chan[c] EXCEPT !.serial = PadSerial]
    <3>1. chan[c] \in ChannelState
      BY <1>1, <1>3
    <3>2. x.prox = chan[c].prox /\ x.id = chan[c].id /\ x.type = chan[c].type
      BY <2>1, <3>1 DEF ChannelState
    <3> QED
      BY <1>3, <1>6, <3>2 DEF Settled
  <2>2. CASE x = chan[c]
    BY <1>3, <1>6, <2>2 DEF Settled
  <2>3. CASE Tool[t].serial # PadSerial /\ ~Tracked(t)
    BY <1>6, <2>3
  <2> QED
    BY <1>3, <2>1, <2>2, <2>3
<1>12. EventsOf(t)'
  <2>1. Matches(t)' /\ ToCome(Stir(t))' /\ (ToCome("tool") => ToCome("tool")')
          /\ (ToCome(Teller) => ToCome(Teller)')
    BY <1>3, <1>6 DEF Matches, ToCome, Stir, Teller
  <2>2. \A u \in kern'.near : Latest(u)' => u = t
    BY <1>3, <1>6 DEF Latest
  <2>3. /\ chan'[usb'.channel] = x /\ usb'.channel = c /\ kern' = kern
    BY <1>3
  <2>4. /\ Holds(usb.channel, t)' /\ Kept(kern.near \ {t})'
        /\ \A e \in Channels \ {usb'.channel} : Settled(e, kern.near \ {t})'
    BY <1>3, <1>7, <1>8, <1>9 DEF Holds
  <2>5. t \notin kern'.near /\ x.prox => ToCome("tool")'
    BY <1>3, <1>6, <2>1
  <2> QED
    BY <1>10, <1>11, <2>1, <2>2, <2>3, <2>4, <2>5 DEF EventsOf
<1>13. Recorded'
  <2>1. ASSUME NEW e \in Channels
        PROVE  /\ chan'[e].vtype \in {NoType, chan'[e].type}
               /\ chan'[e].vprox => /\ Heard(chan'[e].type) /\ chan'[e].vtype = chan'[e].type
                                   /\ IdType[chan'[e].vid] = chan'[e].vtype
    <3>1. CASE e # c
      BY <1>1, <1>3, <3>1 DEF Recorded
    <3>2. CASE e = c
      <4>1. CASE x.vtype = NoType /\ ~x.vprox
        BY <1>3, <3>2, <4>1
      <4>2. CASE x = chan[c] \/ x = [chan[c] EXCEPT !.serial = PadSerial]
        <5>1. chan[c] \in ChannelState
          BY <1>1, <1>3
        <5>2. /\ x.vprox = chan[c].vprox /\ x.vtype = chan[c].vtype
              /\ x.vid = chan[c].vid /\ x.type = chan[c].type
          BY <4>2, <5>1 DEF ChannelState
        <5> QED
          BY <1>1, <1>3, <3>2, <5>2 DEF Recorded
      <4> QED
        BY <1>3, <4>1, <4>2
    <3> QED
      BY <3>1, <3>2
  <2> QED
    BY <1>3, <2>1 DEF Recorded, Heard
<1>14. SerialKept'
  BY <1>3 DEF SerialKept
<1>15. PenInv' /\ KeysNear' /\ AtIdle' /\ AtDispatch' /\ AtEvents'
  <2>1. PenInv'
    BY DispatchPen DEF ToldInv
  <2>2. KeysNear'
    BY <1>1, <1>3 DEF KeysNear
  <2> QED
    BY <1>3, <1>12, <2>1, <2>2 DEF AtIdle, AtDispatch, AtEvents
<1> QED
  BY <1>1, <1>3, <1>13, <1>14, <1>15 DEF ToldInv

\* What an event of its tool's frame does to a channel.
LEMMA ParsedOf ==
  ASSUME ToldInv, ParseEvent, NEW t \in node.tools, EventsOf(t)
  PROVE  LET c == usb.channel
             x == chan[c]
             y == chan'[c]
             e == Head(frame)
         IN  /\ usb' = usb
             /\ \A d \in Channels \ {c} : chan'[d] = chan[d]
             /\ y.type = x.type /\ y.serial = x.serial
             /\ y.vprox = x.vprox /\ y.vtype = x.vtype /\ y.vid = x.vid
             /\ x.dirty \/ e.kind = Stir(t) => y.dirty
             /\ t \in kern.near /\ x.prox => y.prox
             /\ t \notin kern.near /\ y.prox => x.prox /\ e.kind # "tool"
             /\ y.prox /\ IdType[y.id] # y.type =>
                  /\ x.prox /\ IdType[x.id] # x.type
                  /\ e.kind # Teller
<1> DEFINE c == usb.channel
           x == chan[c]
           e == Head(frame)
<1>1. /\ TypeOK /\ Discernible(node) /\ ~node.mt
      /\ frame \in Seq(Events) /\ frame # <<>>
      /\ chan \in [Channels -> ChannelState] /\ x \in ChannelState
      /\ chan[PadChannel].type = "pad"
      /\ c \in Channels
      /\ \A type \in Types : IdType[DeviceId[type]] = type
      /\ Holds(c, t) /\ Matches(t)
      /\ t \in kern.near /\ Tool[t].serial # PadSerial => x.prox
  BY TypeParts DEF ToldInv, PenInv, Discernible, ParseEvent, UsbState, EventsOf
<1>2. e \in Events /\ e \in Items(frame)
  BY <1>1, HeadTailProperties, ItemsTail
<1>3. /\ Tool[t].type \in Types /\ Tool[t].id # 0 /\ IdType[Tool[t].id] = Tool[t].type
      /\ Tool[t].type = "pad" <=> Tool[t].serial = PadSerial
  BY <1>1, ToolKnown
<1>4. /\ e.kind \in {"tool", "misc", "motion", "button", "serial"}
      /\ e.kind = "tool" => e.type = Tool[t].type /\ e.on = (t \in kern.near)
      /\ e.kind = "misc" => e.n = IF t \in kern.near THEN Tool[t].id ELSE 0
      /\ e.kind = "button" => Tool[t].type = "pad"
  BY <1>1, <1>2 DEF Matches
<1>5. x.type = Tool[t].type
  BY <1>1, <1>3 DEF Holds
<1>6. ~Filtered(e)
  BY <1>1 DEF Filtered
<1> HIDE DEF e, x, c
<1>7. CASE e.kind = "serial"
  <2>1. UNCHANGED <<usb, chan>>
    BY <1>6, <1>7 DEF ParseEvent, e
  <2> QED
    BY <1>7, <2>1 DEF Stir, Teller, e, x, c
<1>8. CASE e.kind \in {"motion", "button"}
  <2>1. usb' = usb /\ chan' = [chan EXCEPT ![c].dirty = TRUE]
    <3>1. CASE e.kind = "motion"
      <4>1. MotionEvent
        BY <1>6, <3>1 DEF ParseEvent, e
      <4>2. c # NoChannel
        BY <1>1, ChannelAssumption DEF NoChannel, Channels
      <4> QED
        BY <1>1, <4>1, <4>2 DEF MotionEvent, c
    <3>2. CASE e.kind = "button"
      <4>1. ButtonEvent
        BY <1>6, <3>2 DEF ParseEvent, e
      <4>2. c = PadChannel /\ x.type # "cursor"
        BY <1>1, <1>3, <1>4, <1>5, <3>2 DEF Holds
      <4> QED
        BY <4>1, <4>2 DEF ButtonEvent, c, x
    <3> QED
      BY <1>8, <3>1, <3>2
  <2>2. /\ \A d \in Channels \ {c} : chan'[d] = chan[d]
        /\ chan'[c] = [x EXCEPT !.dirty = TRUE]
    BY <1>1, <2>1 DEF x
  <2>3. /\ chan'[c].dirty /\ chan'[c].type = x.type /\ chan'[c].serial = x.serial
        /\ chan'[c].vprox = x.vprox /\ chan'[c].vtype = x.vtype /\ chan'[c].vid = x.vid
        /\ chan'[c].prox = x.prox /\ chan'[c].id = x.id
    BY <1>1, <2>2 DEF ChannelState
  <2>4. e.kind # "tool" /\ e.kind # Teller
    BY <1>8 DEF Teller
  <2> QED
    BY <2>1, <2>2, <2>3, <2>4 DEF e, x, c
<1>9. ASSUME NEW on, NEW id, usb' = usb,
             chan' = [chan EXCEPT ![c] = Reported(x, on, id)]
      PROVE  /\ \A d \in Channels \ {c} : chan'[d] = chan[d]
             /\ chan'[c].dirty /\ chan'[c].type = x.type /\ chan'[c].serial = x.serial
             /\ chan'[c].vprox = x.vprox /\ chan'[c].vtype = x.vtype /\ chan'[c].vid = x.vid
             /\ chan'[c].prox = on /\ chan'[c].id = id
  <2>1. /\ \A d \in Channels \ {c} : chan'[d] = chan[d]
        /\ chan'[c] = Reported(x, on, id)
    BY <1>1, <1>9
  <2> QED
    BY <1>1, <2>1 DEF Reported, ChannelState
<1>10. CASE e.kind = "tool"
  <2> DEFINE id == IF node.protocol = "5" /\ e.type \notin {"touch", "pad"}
                   THEN x.id ELSE DeviceId[e.type]
  <2>1. ToolEvent(e)
    BY <1>6, <1>10 DEF ParseEvent, e
  <2>2. usb' = usb /\ chan' = [chan EXCEPT ![c] = Reported(x, e.on, id)]
    BY <2>1 DEF ToolEvent, c, x
  <2>3. IdType[id] # x.type => /\ node.protocol = "5" /\ Tool[t].type # "pad"
                               /\ id = x.id
    BY <1>1, <1>3, <1>4, <1>5, <1>10
  <2> HIDE DEF id
  <2>4. /\ \A d \in Channels \ {c} : chan'[d] = chan[d]
        /\ chan'[c].dirty /\ chan'[c].type = x.type /\ chan'[c].serial = x.serial
        /\ chan'[c].vprox = x.vprox /\ chan'[c].vtype = x.vtype /\ chan'[c].vid = x.vid
        /\ chan'[c].prox = e.on /\ chan'[c].id = id
    BY <1>9, <2>2
  <2>5. e.on = (t \in kern.near)
    BY <1>4, <1>10
  <2>6. e.on /\ IdType[id] # x.type =>
          x.prox /\ IdType[x.id] # x.type /\ e.kind # Teller
    BY <1>1, <1>3, <1>10, <2>3, <2>5 DEF Teller
  <2> QED
    BY <2>2, <2>4, <2>5, <2>6 DEF c, x, e
<1>11. CASE e.kind = "misc"
  <2> DEFINE id == IF e.n # 0 THEN e.n ELSE x.id
             on == e.n # 0
  <2>1. MiscEvent(e)
    BY <1>6, <1>11 DEF ParseEvent, e
  <2>2. usb' = usb /\ chan' = [chan EXCEPT ![c] = Reported(x, on, id)]
    BY <2>1 DEF MiscEvent, c, x
  <2>3. (on <=> t \in kern.near) /\ (on => IdType[id] = x.type)
    BY <1>3, <1>4, <1>5, <1>11
  <2> HIDE DEF id, on
  <2>4. /\ \A d \in Channels \ {c} : chan'[d] = chan[d]
        /\ chan'[c].dirty /\ chan'[c].type = x.type /\ chan'[c].serial = x.serial
        /\ chan'[c].vprox = x.vprox /\ chan'[c].vtype = x.vtype /\ chan'[c].vid = x.vid
        /\ chan'[c].prox = on /\ chan'[c].id = id
    BY <1>9, <2>2
  <2> QED
    BY <2>2, <2>3, <2>4 DEF c, x, e
<1> QED
  BY <1>4, <1>7, <1>8, <1>10, <1>11

LEMMA ParseEventTold == ASSUME ToldInv, ParseEvent PROVE ToldInv'
<1>1. /\ TypeOK /\ Discernible(node) /\ Steady(node) /\ KeysNear /\ Recorded /\ SerialKept
      /\ Settings \ Togglable \subseteq enabled
      /\ phase = "events" /\ frame \in Seq(Events) /\ frame # <<>>
      /\ frame' = Tail(frame)
      /\ UNCHANGED <<node, kern, phase, enabled>>
      /\ chan[PadChannel].type = "pad"
      /\ kern.near \subseteq node.tools
  BY DEF ToldInv, PenInv, TypeOK, ParseEvent
<1>2. PICK t \in node.tools : EventsOf(t)
  BY <1>1 DEF ToldInv, AtEvents
<1>3. PICK c, x, y, e :
        /\ c = usb.channel /\ x = chan[c] /\ y = chan'[c] /\ e = Head(frame)
        /\ usb' = usb
        /\ \A d \in Channels \ {c} : chan'[d] = chan[d]
        /\ y.type = x.type /\ y.serial = x.serial
        /\ y.vprox = x.vprox /\ y.vtype = x.vtype /\ y.vid = x.vid
        /\ x.dirty \/ e.kind = Stir(t) => y.dirty
        /\ t \in kern.near /\ x.prox => y.prox
        /\ t \notin kern.near /\ y.prox => x.prox /\ e.kind # "tool"
        /\ y.prox /\ IdType[y.id] # y.type =>
             x.prox /\ IdType[x.id] # x.type /\ e.kind # Teller
  BY <1>2, ParsedOf
<1>4. Items(frame) = {e} \cup Items(frame')
  BY <1>1, <1>3, ItemsTail
<1>5. /\ Tool[t].type = "pad" <=> Tool[t].serial = PadSerial
      /\ \A u \in node.tools : Tool[u].type = Tool[t].type => u = t
  BY <1>1, ToolKnown
<1>6. /\ Holds(c, t)
      /\ \A d \in Channels \ {c} : Settled(d, kern.near \ {t})
      /\ Kept(kern.near \ {t})
      /\ \A u \in kern.near : Latest(u) => u = t
      /\ Matches(t)
      /\ x.dirty \/ ToCome(Stir(t))
      /\ t \in kern.near /\ Tool[t].serial # PadSerial => x.prox
      /\ t \notin kern.near /\ x.prox => ToCome("tool")
      /\ x.prox /\ IdType[x.id] # x.type => t \in kern.near /\ ToCome(Teller)
  BY <1>2, <1>3 DEF EventsOf
<1>7. \A kind : ToCome(kind) => e.kind = kind \/ ToCome(kind)'
  BY <1>1, <1>4 DEF ToCome
<1>8. Matches(t)'
  BY <1>1, <1>4, <1>6 DEF Matches
<1>9. Holds(c, t)' /\ (\A d \in Channels \ {c} : Settled(d, kern.near \ {t})')
  BY <1>1, <1>3, <1>6 DEF Holds, Settled
<1>10. Kept(kern.near \ {t})'
  <2> SUFFICES ASSUME NEW u \in kern.near \ {t}, Tool[u].serial # PadSerial
               PROVE  Tracked(u)'
    BY <1>1 DEF Kept
  <2>1. PICK d \in Channels : chan[d].prox /\ Holds(d, u)
    BY <1>6 DEF Kept, Tracked
  <2>2. chan[d].type = Tool[u].type /\ Tool[u].type # Tool[t].type /\ Tool[u].type # "pad"
    BY <1>1, <1>5, <2>1, ToolKnown DEF Holds
  <2>3. d # c
    BY <1>1, <1>6, <2>2 DEF Holds
  <2> QED
    BY <1>3, <2>1, <2>3 DEF Tracked, Holds
<1>11. /\ y.dirty \/ ToCome(Stir(t))'
       /\ t \notin kern.near /\ y.prox => ToCome("tool")'
       /\ y.prox /\ IdType[y.id] # y.type => t \in kern.near /\ ToCome(Teller)'
  <2>1. y.dirty \/ ToCome(Stir(t))'
    BY <1>3, <1>6, <1>7
  <2>2. t \notin kern.near /\ y.prox => ToCome("tool")'
    BY <1>3, <1>6, <1>7
  <2>3. ToCome(Teller) => e.kind = Teller \/ ToCome(Teller)'
    BY <1>1, <1>4 DEF ToCome, Teller
  <2>4. y.prox /\ IdType[y.id] # y.type => t \in kern.near /\ ToCome(Teller)'
    BY <1>3, <1>6, <2>3
  <2> QED
    BY <2>1, <2>2, <2>4
<1>12. EventsOf(t)'
  <2>1. chan'[usb'.channel] = y /\ usb'.channel = c /\ kern' = kern
    BY <1>1, <1>3
  <2>2. \A u \in kern'.near : Latest(u)' => u = t
    BY <1>1, <1>6 DEF Latest
  <2>3. t \in kern.near /\ Tool[t].serial # PadSerial => y.prox
    BY <1>3, <1>6
  <2>4. /\ Holds(usb.channel, t)' /\ Kept(kern.near \ {t})'
        /\ \A d \in Channels \ {usb'.channel} : Settled(d, kern.near \ {t})'
    BY <1>9, <1>10, <2>1 DEF Holds
  <2> QED
    BY <1>8, <1>11, <2>1, <2>2, <2>3, <2>4 DEF EventsOf
<1>13. Recorded'
  BY <1>1, <1>3 DEF Recorded, Heard
<1>14. PenInv' /\ KeysNear' /\ SerialKept' /\ AtIdle' /\ AtDispatch' /\ AtEvents'
  <2>1. PenInv'
    BY ParseEventPen DEF ToldInv
  <2>2. KeysNear' /\ SerialKept'
    BY <1>1, <1>3 DEF KeysNear, SerialKept
  <2> QED
    BY <1>1, <1>12, <2>1, <2>2 DEF AtIdle, AtDispatch, AtEvents
<1> QED
  BY <1>1, <1>13, <1>14 DEF ToldInv

\* Handing a channel to wcmEvent records it as it is, if there is a device for it.
LEMMA SentOf ==
  ASSUME NEW x \in ChannelState, enabled \subseteq Settings, x.type \in Types \cup {NoType}
  PROVE  /\ ~x.dirty => Sent(x) = x
         /\ Sent(x).dirty = FALSE /\ Sent(x).id = x.id
         /\ x.dirty /\ Heard(x.type) =>
              Sent(x).vprox = x.prox /\ Sent(x).vid = x.id /\ Sent(x).vtype = x.type
         /\ ~Heard(x.type) => Sent(x).vprox = x.vprox /\ Sent(x).vtype = x.vtype
                                /\ Sent(x).vid = x.vid
<1> DEFINE y == [x EXCEPT !.dirty = FALSE]
<1>1. /\ y \in ChannelState /\ ~y.dirty
      /\ y.prox = x.prox /\ y.type = x.type /\ y.id = x.id
      /\ y.vprox = x.vprox /\ y.vid = x.vid /\ y.vtype = x.vtype
  BY DEF ChannelState
<1>2. Sent(x) = IF ~x.dirty THEN x
                ELSE IF x.type = "touch" /\ "wcmTouch" \notin enabled THEN y ELSE Record(y)
  BY DEF Sent
<1>3. NoType \notin Settings /\ x.type # "wcmTouch"
  BY DEF Settings, Types, NoType
<1> HIDE DEF y
<1>4. /\ x.type \in enabled \cap Types =>
           Record(y).vprox = y.prox /\ Record(y).vtype = y.type /\ Record(y).vid = y.id
             /\ Record(y).dirty = y.dirty /\ Record(y).id = y.id
      /\ x.type \notin enabled \cap Types => Record(y) = y
  BY <1>1 DEF Record, ChannelState
<1>5. Heard(x.type) <=> /\ x.type \in enabled \cap Types
                        /\ ~(x.type = "touch" /\ "wcmTouch" \notin enabled)
  BY <1>3 DEF Heard
<1>6. CASE ~x.dirty
  BY <1>2, <1>6 DEF ChannelState
<1>7. CASE x.dirty /\ x.type = "touch" /\ "wcmTouch" \notin enabled
  BY <1>1, <1>2, <1>5, <1>7
<1>8. CASE x.dirty /\ ~(x.type = "touch" /\ "wcmTouch" \notin enabled)
  <2>1. Sent(x) = Record(y)
    BY <1>2, <1>8
  <2>2. CASE x.type \in enabled \cap Types
    BY <1>1, <1>4, <1>5, <1>8, <2>1, <2>2
  <2>3. CASE x.type \notin enabled \cap Types
    BY <1>1, <1>4, <1>5, <1>8, <2>1, <2>3
  <2> QED
    BY <2>2, <2>3
<1> QED
  BY <1>6, <1>7, <1>8

\* At the end of its frame the tool's channel says what the tool is, in range or out.
LEMMA SendEventsTold == ASSUME ToldInv, SendEvents PROVE ToldInv'
<1>1. /\ TypeOK /\ Discernible(node) /\ Steady(node) /\ KeysNear /\ Recorded /\ SerialKept
      /\ Settings \ Togglable \subseteq enabled /\ enabled \subseteq Settings
      /\ phase = "events" /\ frame = <<>> /\ phase' = "idle"
      /\ UNCHANGED <<node, kern, frame, enabled>>
      /\ chan \in [Channels -> ChannelState]
      /\ chan[PadChannel].type = "pad"
      /\ usb \in UsbState /\ usb.channel \in Channels
      /\ kern.near \subseteq node.tools
  BY TypeParts DEF ToldInv, PenInv, TypeOK, SendEvents, UsbState
<1>2. PICK t \in node.tools : EventsOf(t)
  BY <1>1 DEF ToldInv, AtEvents
<1>3. PICK c \in Channels, x \in ChannelState : c = usb.channel /\ x = chan[c]
  BY <1>1
<1>4. \A kind : ~ToCome(kind)
  BY <1>1 DEF ToCome, Items
<1>5. /\ Holds(c, t)
      /\ \A d \in Channels \ {c} : Settled(d, kern.near \ {t})
      /\ Kept(kern.near \ {t})
      /\ \A u \in kern.near : Latest(u) => u = t
      /\ x.dirty
      /\ t \in kern.near /\ Tool[t].serial # PadSerial => x.prox
      /\ t \notin kern.near => ~x.prox
      /\ x.prox => IdType[x.id] = x.type
  BY <1>2, <1>3, <1>4 DEF EventsOf
<1>6. /\ Tool[t].type \in Types /\ Tool[t].type # NoType
      /\ Tool[t].type = "pad" <=> Tool[t].serial = PadSerial
      /\ \A u \in node.tools : Tool[u].type = Tool[t].type => u = t
  BY <1>1, ToolKnown
<1>7. x.type = Tool[t].type
  BY <1>1, <1>3, <1>5, <1>6 DEF Holds
<1>8. /\ usb'.last = c
      /\ usb'.serial \in {0, usb.serial}
  <2> DEFINE serial == IF chan[usb.channel].prox THEN usb.serial ELSE 0
  <2>1. usb' = [usb EXCEPT !.serial = serial, !.last = usb.channel]
    BY DEF SendEvents
  <2>2. serial \in {0, usb.serial}
    OBVIOUS
  <2> HIDE DEF serial
  <2> QED
    BY <1>1, <1>3, <2>1, <2>2 DEF UsbState
<1>9. /\ \A d \in Channels \ {c} : chan'[d] = chan[d]
      /\ chan'[c] = Sent(x)
  <2>1. \A d \in Channels : chan'[d] = Sent(chan[d])
    BY DEF SendEvents
  <2>2. ASSUME NEW d \in Channels \ {c} PROVE Sent(chan[d]) = chan[d]
    <3>1. ~chan[d].dirty
      BY <1>5 DEF Settled
    <3> QED
      BY <3>1 DEF Sent
  <2> QED
    BY <1>3, <2>1, <2>2
<1>10. PICK y : y = Sent(x)
  OBVIOUS
<1>11. /\ y.prox = x.prox /\ y.type = x.type /\ y.serial = x.serial
       /\ y.dirty = FALSE /\ y.id = x.id
       /\ Heard(x.type) => y.vprox = x.prox /\ y.vid = x.id /\ y.vtype = x.type
       /\ ~Heard(x.type) => y.vprox = x.vprox /\ y.vtype = x.vtype /\ y.vid = x.vid
  BY <1>1, <1>5, <1>6, <1>7, <1>10, SentType, SentOf
<1>12. ~Heard(x.type) => ~x.vprox
  BY <1>1, <1>3 DEF Recorded
<1>13. x.prox \in BOOLEAN /\ x.vprox \in BOOLEAN
  BY DEF ChannelState
<1>14. Holds(c, t)'
  BY <1>1, <1>3, <1>5, <1>9, <1>10, <1>11 DEF Holds
<1>15. Settled(c, kern.near)'
  <2>1. y.vprox => x.prox /\ y.vid = x.id
    BY <1>11, <1>12, <1>13
  <2>2. y.vprox \/ (x.prox /\ c # PadChannel) => t \in kern.near
    BY <1>5, <2>1
  <2>3. /\ chan'[c] = y /\ kern' = kern
    BY <1>1, <1>9, <1>10
  <2> QED
    BY <1>5, <1>11, <1>14, <2>1, <2>2, <2>3 DEF Settled
<1>16. \A d \in Channels \ {c} : Settled(d, kern.near)'
  BY <1>1, <1>5, <1>9 DEF Settled, Holds
<1>17. Kept(kern.near)'
  <2> SUFFICES ASSUME NEW u \in kern.near, Tool[u].serial # PadSerial
               PROVE  Tracked(u)'
    BY <1>1 DEF Kept
  <2>1. CASE u = t
    BY <1>5, <1>9, <1>10, <1>11, <1>14, <2>1 DEF Tracked
  <2>2. CASE u # t
    <3>1. PICK d \in Channels : chan[d].prox /\ Holds(d, u)
      BY <1>5, <2>2 DEF Kept, Tracked
    <3>2. chan[d].type = Tool[u].type /\ Tool[u].type # Tool[t].type
      BY <1>1, <1>6, <2>2, <3>1, ToolKnown DEF Holds
    <3>3. d # c
      BY <1>3, <1>7, <3>2
    <3> QED
      BY <1>9, <3>1, <3>3 DEF Tracked, Holds
  <2> QED
    BY <2>1, <2>2
<1>18. ASSUME NEW u \in kern.near, Latest(u)'
       PROVE  /\ Holds(usb.last, u)'
              /\ chan'[usb'.last].vtype = NoType => MayBeOff(Tool[u].type)
  <2>1. u = t
    BY <1>1, <1>5, <1>18 DEF Latest
  <2>2. ASSUME y.vtype = NoType PROVE MayBeOff(Tool[t].type)
    <3>1. ~Heard(Tool[t].type)
      BY <1>6, <1>7, <1>11, <2>2
    <3> QED
      BY <1>1, <1>6, <3>1 DEF Heard, MayBeOff, Settings
  <2>3. chan'[usb'.last] = y
    BY <1>8, <1>9, <1>10
  <2>4. Holds(usb.last, t)'
    BY <1>8, <1>14 DEF Holds
  <2> QED
    BY <2>1, <2>2, <2>3, <2>4
<1>19. Recorded'
  <2>1. /\ y.vtype \in {NoType, y.type}
        /\ y.vprox => /\ Heard(y.type) /\ y.vtype = y.type
                      /\ IdType[y.vid] = y.vtype
    <3>1. x.vtype \in {NoType, x.type}
      BY <1>1, <1>3 DEF Recorded
    <3> QED
      BY <1>5, <1>11, <1>12, <1>13, <3>1
  <2> QED
    BY <1>1, <1>9, <1>10, <2>1 DEF Recorded, Heard
<1>20. AtIdle'
  <2>1. \A d \in Channels : Settled(d, kern.near)'
    BY <1>15, <1>16
  <2>2. kern' = kern
    BY <1>1
  <2> QED
    BY <1>17, <1>18, <2>1, <2>2 DEF AtIdle
<1>21. PenInv' /\ KeysNear' /\ SerialKept' /\ AtDispatch' /\ AtEvents'
  <2>1. PenInv'
    BY SendEventsPen DEF ToldInv
  <2>2. KeysNear' /\ SerialKept'
    BY <1>1, <1>8 DEF KeysNear, SerialKept
  <2> QED
    BY <1>1, <2>1, <2>2 DEF AtDispatch, AtEvents
<1> QED
  BY <1>1, <1>19, <1>20, <1>21 DEF ToldInv

LEMMA ToggleTold ==
  ASSUME ~AnyTime, ToldInv, NEW s \in Togglable, Toggle(s) PROVE ToldInv'
<1>1. /\ UNCHANGED <<node, kern, frame, phase, usb, chan>> /\ phase = "idle"
      /\ kern.near = {}
      /\ Settings \ Togglable \subseteq enabled'
  BY DEF Toggle, ToldInv
<1>2. \A c \in Channels : ~chan[c].vprox
  BY <1>1 DEF ToldInv, AtIdle, Settled
<1>3. Recorded'
  BY <1>1, <1>2 DEF ToldInv, Recorded
<1>4. PenInv'
  BY NextPen DEF ToldInv, Next
<1>5. AtIdle' /\ AtDispatch' /\ AtEvents'
  BY <1>1 DEF ToldInv, AtIdle, AtDispatch, AtEvents, Settled, Kept
<1>6. KeysNear' /\ SerialKept'
  BY <1>1 DEF ToldInv, KeysNear, SerialKept
<1> QED
  BY <1>1, <1>3, <1>4, <1>5, <1>6 DEF ToldInv

LEMMA NextTold == ASSUME ~AnyTime, ToldInv, [Next]_vars PROVE ToldInv'
<1>1. CASE UNCHANGED vars
  <2>1. PenInv'
    BY <1>1, NextPen DEF ToldInv
  <2>2. Recorded' /\ KeysNear' /\ SerialKept'
    BY <1>1 DEF vars, ToldInv, Recorded, KeysNear, SerialKept, Heard
  <2>3. \A c, t : Holds(c, t)' = Holds(c, t)
    BY <1>1 DEF vars, Holds
  <2>4. AtIdle'
    BY <1>1, <2>3 DEF vars, ToldInv, AtIdle, Settled, Kept, Tracked, Latest
  <2>5. \A t : Matches(t) => Matches(t)'
    BY <1>1 DEF vars, Matches
  <2>6. /\ \A kind : ToCome(kind)' = ToCome(kind)
        /\ ToCome(Teller)' = ToCome(Teller)
        /\ \A t : ToCome(Stir(t))' = ToCome(Stir(t))
    BY <1>1 DEF vars, ToCome, Teller, Stir
  <2>7. ToCome("tool")' = ToCome("tool") /\ ToCome("misc")' = ToCome("misc")
          /\ ToCome("serial")' = ToCome("serial")
    BY <1>1 DEF vars, ToCome
  <2>8. AtDispatch'
    BY <1>1, <2>3, <2>5, <2>6, <2>7
    DEF vars, ToldInv, AtDispatch, FrameOf, Settled, Kept, Tracked, Latest
  <2>9. AtEvents'
    BY <1>1, <2>3, <2>5, <2>6, <2>7
    DEF vars, ToldInv, AtEvents, EventsOf, Settled, Kept, Tracked, Latest
  <2> QED
    BY <1>1, <2>1, <2>2, <2>4, <2>8, <2>9 DEF vars, ToldInv
<1> QED
  BY <1>1, KernelTold, DispatchTold, ParseEventTold, SendEventsTold, ToggleTold DEF Next

LEMMA InitTold ==
  ASSUME Discernible(node), Steady(node), Init
  PROVE  ToldInv
<1>1. /\ node \in Nodes /\ phase = "idle" /\ enabled = Settings
      /\ kern.near = {} /\ kern.misc = 0 /\ \A type \in Types : ~kern.keys[type]
      /\ usb.serial = 0
      /\ \A c \in Channels : chan[c] = IF c = PadChannel THEN PadState ELSE Clean
  BY DEF Init
<1>2. /\ ~Clean.prox /\ ~Clean.vprox /\ ~Clean.dirty /\ Clean.vtype = NoType
      /\ ~PadState.vprox /\ ~PadState.dirty /\ PadState.vtype = NoType
      /\ PadState.type = "pad" /\ PadState.id = DeviceId["pad"]
  BY DEF Clean, PadState
<1>3. IdType[DeviceId["pad"]] = "pad"
  BY DEF Discernible, Types
<1>4. PenInv
  BY InitPen
<1>5. KeysNear /\ SerialKept
  BY <1>1 DEF KeysNear, SerialKept
<1>6. Recorded
  BY <1>1, <1>2 DEF Recorded
<1>7. \A c \in Channels : Settled(c, {})
  BY <1>1, <1>2, <1>3 DEF Settled
<1>8. AtIdle /\ AtDispatch /\ AtEvents
  BY <1>1, <1>7 DEF AtIdle, AtDispatch, AtEvents, Kept
<1> QED
  BY <1>1, <1>4, <1>5, <1>6, <1>8 DEF ToldInv

\* On nodes that tell their tools apart, what is sent for a tool in proximity has a
\* device id of the tool's type: a channel that was another tool's, or a frame
\* without an id, does not pass on the id of another tool, or none.
THEOREM IdsKnown ==
  ASSUME ~AnyTime
  PROVE  Spec /\ Discernible(node) /\ Steady(node) => []IdKnown
<1>1. Init /\ Discernible(node) /\ Steady(node) => ToldInv
  BY InitTold
<1>2. ToldInv /\ [Next]_vars => ToldInv'
  BY NextTold
<1>3. ToldInv => IdKnown
  BY DEF ToldInv, Recorded, IdKnown
<1> QED
  BY <1>1, <1>2, <1>3, PTL DEF Spec

\* On such nodes, a tool that has left the tablet has been reported out by the end of the
\* frame it left with: no recorded state keeps it in proximity.
THEOREM LeaversReported ==
  ASSUME ~AnyTime
  PROVE  Spec /\ Discernible(node) /\ Steady(node) => []OutReported
<1>1. Init /\ Discernible(node) /\ Steady(node) => ToldInv
  BY InitTold
<1>2. ToldInv /\ [Next]_vars => ToldInv'
  BY NextTold
<1>3. ToldInv => OutReported
  <2> SUFFICES ASSUME ToldInv, phase = "idle", NEW t \in node.tools \ kern.near,
                      NEW c \in Channels, chan[c].vprox, chan[c].vtype = Tool[t].type
               PROVE  FALSE
    BY DEF OutReported
  <2>1. /\ TypeOK /\ Discernible(node) /\ chan[PadChannel].type = "pad"
        /\ kern.near \subseteq node.tools
    BY DEF ToldInv, PenInv, TypeOK
  <2>2. chan[c].type = Tool[t].type
    BY DEF ToldInv, Recorded
  <2>3. PICK u \in kern.near : Holds(c, u)
    BY DEF ToldInv, AtIdle, Settled
  <2>4. Tool[u].type = chan[c].type
    BY <2>1, <2>3, ToolKnown DEF Holds
  <2> QED
    BY <2>1, <2>2, <2>4, ToolKnown
<1> QED
  BY <1>1, <1>2, <1>3, PTL DEF Spec

\* On such nodes, when all tools have left, there is a channel for the next one: no channel
\* stays behind in use, for any number of channels.
THEOREM ChannelLeft ==
  ASSUME ~AnyTime
  PROVE  Spec /\ Discernible(node) /\ Steady(node) => []ChannelAvailable
<1>1. Init /\ Discernible(node) /\ Steady(node) => ToldInv
  BY InitTold
<1>2. ToldInv /\ [Next]_vars => ToldInv'
  BY NextTold
<1>3. ToldInv => ChannelAvailable
  <2> SUFFICES ASSUME ToldInv, phase = "idle", kern.near = {}
               PROVE  Free # {}
    BY DEF ChannelAvailable
  <2>1. 0 \in Channels /\ 0 # PadChannel
    BY ChannelAssumption DEF Channels, PadChannel
  <2>2. Settled(0, {})
    BY <2>1 DEF ToldInv, AtIdle
  <2>3. ~chan[0].prox /\ ~chan[0].vprox
    BY <2>1, <2>2 DEF Settled
  <2> QED
    BY <2>1, <2>3 DEF Free
<1> QED
  BY <1>1, <1>2, <1>3, PTL DEF Spec

\* On such nodes, a frame is parsed as one of the type that its channel has: never the
\* mismatch of types that the code reports as a bug of its own.
THEOREM TypesAgree ==
  ASSUME ~AnyTime
  PROVE  Spec /\ Discernible(node) /\ Steady(node) => TypeAgrees
<1> DEFINE Agrees ==
      phase = "dispatch" /\ phase' = "events" => chan'[usb'.channel].type = usb'.type
<1>1. Init /\ Discernible(node) /\ Steady(node) => ToldInv
  BY InitTold
<1>2. ToldInv /\ [Next]_vars => ToldInv'
  BY NextTold
<1>3. ToldInv /\ [Next]_vars => [Agrees]_vars
  <2> SUFFICES ASSUME ToldInv, Next, phase = "dispatch", phase' = "events"
               PROVE  chan'[usb'.channel].type = usb'.type
    OBVIOUS
  <2>1. Dispatch
    BY DEF Next, Kernel, ParseEvent, SendEvents, Toggle
  <2>2. PICK t \in node.tools : FrameOf(t)
    BY DEF ToldInv, AtDispatch
  <2> QED
    BY <2>1, <2>2, DispatchOf
<1> QED
  BY <1>1, <1>2, <1>3, PTL DEF Spec, TypeAgrees
=============================================================================
