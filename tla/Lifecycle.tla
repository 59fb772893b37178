----------------------------- MODULE Lifecycle -----------------------------
(***************************************************************************)
(* The life of the X devices of the driver: wcmAllocate, wcmPreInit with   *)
(* its error paths, the hotplugging of the other tools of a tablet,        *)
(* DEVICE_ON and DEVICE_OFF, and wcmUnInit (wcmConfig.c,                   *)
(* wcmValidateDevice.c and their calls in xf86Wacom.c).  The devices of    *)
(* one device node share a WacomCommonRec; pen and touch of one tablet     *)
(* may have a node each and are linked by wcmTouchDevice.                  *)
(*                                                                         *)
(* The server runs one PreInit at a time; here it is a sequence of steps   *)
(* so that each of its failures has its own state to clean up.             *)
(***************************************************************************)
EXTENDS Integers, Sequences, FiniteSets

CONSTANTS
  Devs, Commons,   \* addresses for WacomDeviceRec and WacomCommonRec
  Null,            \* the null pointer, no type
  Nodes,           \* event nodes of the kernel
  Tablet,          \* node -> USB id of its tablet
  Base, Part,      \* node -> its name without "Pen", "Finger"; whether it had it
  Offers,          \* node -> the types its keys make valid
  ToolSerials,     \* node -> the list of serial numbers to hotplug
  Configured,      \* the devices of xorg.conf
  ServerFd,        \* the server opens the nodes (XI86_SERVER_FD)
  MaxFaults        \* bound on the failures of ioctls and options

Rank == [stylus |-> 1, eraser |-> 2, cursor |-> 3, touch |-> 4, pad |-> 5]
Types == DOMAIN Rank
Pens == {"stylus", "eraser", "cursor"}

\* The kinds of tool ToolSerials may name.
SerialTypes == [pen |-> {"stylus", "eraser"}, airbrush |-> {"stylus", "eraser"},
                artpen |-> {"stylus"}, cursor |-> {"cursor"}]

\* A device to be made: its serial number, and the one it is meant for.
Requests == [node : Nodes, type : Types \cup {Null}, serial : Nat, wanted : Nat,
             source : {"conf", "udev", "driver"}]

Devices == [node : Nodes, type : Types \cup {Null}, serial : Nat, wanted : Nat,
            source : {"conf", "udev", "driver"}, common : Commons,
            fd : BOOLEAN, on : BOOLEAN, parent : BOOLEAN]
Tabs == [node : Nodes, refcnt : Nat, devices : Seq(Devs), tools : SUBSET Devs,
         touch : Devs \cup {Null}, pentouch : BOOLEAN,
         minMaj : BOOLEAN, refs : Int]
Steps == {"path", "type", "tool", "ready"}

ASSUME LifecycleAssumption ==
  /\ IsFiniteSet(Devs)
  /\ Null \notin Devs \cup Commons \cup Types \cup Devices \cup Tabs
                   \cup [dev : Devs, step : Steps]
  /\ Offers \in [Nodes -> SUBSET Types]
  /\ ToolSerials \in [Nodes -> Seq([serial : Nat, kind : DOMAIN SerialTypes])]
  /\ Configured \subseteq {r \in Requests : r.source = "conf"}
  /\ ServerFd \in BOOLEAN
  /\ MaxFaults \in Nat

VARIABLES
  inputs,   \* the server's list of input devices
  dev,      \* the WacomDeviceRec at each address
  tab,      \* the WacomCommonRec at each address
  setup,    \* the device in PreInit and the step it has reached
  todo,     \* queued hotplugs
  plugged,  \* the nodes that exist
  active,   \* WACOM_DRIVER.active
  faults    \* failures so far

vars == <<inputs, dev, tab, setup, todo, plugged, active, faults>>

TypeOK == /\ inputs \in Seq(Devs)
          /\ dev \in [Devs -> Devices \cup {Null}]
          /\ tab \in [Commons -> Tabs \cup {Null}]
          /\ setup \in [dev : Devs, step : Steps] \cup {Null}
          /\ setup # Null => dev[setup.dev] # Null
          /\ \A d \in Devs : dev[d] # Null => tab[dev[d].common] # Null
          /\ todo \subseteq Requests
          /\ plugged \subseteq Nodes
          /\ active \in Devs \cup {Null}
          /\ faults \in 0..MaxFaults

-----------------------------------------------------------------------------
(* Lists *)

Entries(s) == {s[i] : i \in DOMAIN s}
Place(s, x) == CHOOSE i \in DOMAIN s : s[i] = x
Delete(s, x) ==
  IF x \notin Entries(s) THEN s
  ELSE [i \in 1..(Len(s) - 1) |-> IF i < Place(s, x) THEN s[i] ELSE s[i + 1]]
\* What follows x, priv->next.
After(s, x) == IF x \notin Entries(s) THEN s
               ELSE [i \in 1..(Len(s) - Place(s, x)) |-> s[Place(s, x) + i]]

\* The first device of the server's list at one of the places, or Null:
\* wcmForeachDevice with a callback that stops at the first match.
FirstAt(places) ==
  IF places = {} THEN Null
  ELSE inputs[CHOOSE i \in places : \A j \in places : i <= j]

Used == {d \in Devs : dev[d] # Null}
Alive == {c \in Commons : tab[c] # Null}
Holders(c) == {d \in Used : dev[d].common = c}
At(d, step) == setup = [dev |-> d, step |-> step]
IsSetUp(d) == dev[d] # Null /\ \A step \in Steps : ~At(d, step)
Own(d) == tab[dev[d].common]

-----------------------------------------------------------------------------
(* Which devices belong together *)

\* wcmIsDuplicate: the same node from another source, if it was opened.
Duplicate(d) ==
  /\ dev[d].source # "conf"
  /\ \E e \in Used \ {d} : /\ dev[e].node = dev[d].node
                           /\ Own(e).minMaj
                           /\ dev[e].source # dev[d].source

\* Named after the node, as wcmSplitName will find; the names of xorg.conf and
\* of serial numbers are their own.
NodeName(d) == dev[d].source # "conf" /\ dev[d].wanted = 0

\* wcmIsSiblingDevice, not only for devices of one node.
Sibling(d, e) ==
  /\ dev[d].type # dev[e].type
  /\ \/ dev[d].node = dev[e].node
     \/ IF NodeName(d) /\ NodeName(e) /\ Base[dev[d].node] = Base[dev[e].node]
        THEN Part[dev[d].node] /\ Part[dev[e].node]
        ELSE Tablet[dev[d].node] = Tablet[dev[e].node]

IsTouch(d) == dev[d].type = "touch"
IsTablet(d) == dev[d].type \in Pens

\* The types of the node by rank: the first is the parent's own.
FirstType(n) == CHOOSE t \in Offers[n] : \A u \in Offers[n] : Rank[t] <= Rank[u]

MutDependents(n) == {}   \* every type is skipped as the parent's own

\* wcmOptionDupConvert gives every tool of ToolSerials the first number of the list.
BoundSerial(n, i) == ToolSerials[n][1].serial

\* wcmHotplugOthers: the other types, then the tools of ToolSerials.
Dependents(n) ==
  {[node |-> n, type |-> t, serial |-> 0, wanted |-> 0, source |-> "driver"] :
     t \in Offers[n] \ {FirstType(n)}}
  \cup UNION {{[node |-> n, type |-> t, serial |-> BoundSerial(n, i),
                wanted |-> ToolSerials[n][i].serial, source |-> "driver"] :
                  t \in SerialTypes[ToolSerials[n][i].kind] \cap Offers[n]} :
              i \in DOMAIN ToolSerials[n]}

-----------------------------------------------------------------------------
(* wcmFreeCommon, wcmUnInit *)

\* The tablets after d has let go of its own; the last one frees it.
Released(d, t) ==
  LET c == dev[d].common
  IN IF t[c].refcnt = 1 THEN [t EXCEPT ![c] = Null]
     ELSE [t EXCEPT ![c].refcnt = @ - 1]

\* wcmUnInit and xf86DeleteInput, on the tablets t.
MutUnInitTool(d, t) ==   \* the tool stays in the list
  LET c == dev[d].common
  IN /\ tab' = Released(d, [t EXCEPT ![c].devices = Delete(@, d)])
     /\ dev' = [dev EXCEPT ![d] = Null]
     /\ inputs' = Delete(inputs, d)
     /\ active' = IF active = d THEN Null ELSE active
MutUnInitActive(d, t) == \* without wcmRemoveActive
  LET c == dev[d].common
  IN /\ tab' = Released(d, [t EXCEPT ![c].tools = @ \ {d},
                                     ![c].devices = Delete(@, d)])
     /\ dev' = [dev EXCEPT ![d] = Null]
     /\ inputs' = Delete(inputs, d)
     /\ UNCHANGED active
UnInit(d, t) ==
  LET c == dev[d].common
  IN /\ tab' = Released(d, [t EXCEPT ![c].tools = @ \ {d},
                                     ![c].devices = Delete(@, d)])
     /\ dev' = [dev EXCEPT ![d] = Null]
     /\ inputs' = Delete(inputs, d)
     /\ active' = IF active = d THEN Null ELSE active

-----------------------------------------------------------------------------
(* Adding a device *)

Fresh(S, used) == CHOOSE x \in S : x \notin used

\* wcmAllocate and wcmNewCommon
Allocated(r, c) == [node |-> r.node, type |-> r.type, serial |-> r.serial,
                    wanted |-> r.wanted, source |-> r.source, common |-> c,
                    fd |-> FALSE, on |-> FALSE, parent |-> FALSE]
NewCommon(r, d) == [node |-> r.node, refcnt |-> 1, devices |-> <<d>>, tools |-> {d},
                    touch |-> Null, pentouch |-> FALSE, minMaj |-> FALSE, refs |-> 0]

\* The server makes a device of a request, its own or one that was queued.
NewDevice(r) ==
  /\ setup = Null
  /\ r \in todo
  /\ Used # Devs /\ Alive # Commons
  /\ LET d == Fresh(Devs, Used)
         c == Fresh(Commons, Alive)
     IN /\ inputs' = Append(inputs, d)
        /\ dev' = [dev EXCEPT ![d] = Allocated(r, c)]
        /\ tab' = [tab EXCEPT ![c] = NewCommon(r, d)]
        /\ setup' = [dev |-> d, step |-> "path"]
  /\ todo' = todo \ {r}
  /\ UNCHANGED <<plugged, active, faults>>

\* The first device of the same node: wcmIsSiblingDevice with logical_only, for a
\* device that has no type yet.
MutPartner(d) ==         \* of the same source only
  FirstAt({i \in DOMAIN inputs : inputs[i] # d /\ dev[inputs[i]].node = dev[d].node
                                             /\ dev[inputs[i]].source = dev[d].source})
Partner(d) ==
  FirstAt({i \in DOMAIN inputs : inputs[i] # d /\ dev[inputs[i]].node = dev[d].node})

\* matchDevice: d frees its own tablet, takes that of the other device and goes
\* first in its list.
MutJoinedLeak(d, c) == [tab EXCEPT ![c].refcnt = @ + 1,            \* its own is not freed
                                   ![c].devices = <<d>> \o @]
Joined(d, c) == [Released(d, tab) EXCEPT ![c].refcnt = @ + 1,
                                         ![c].devices = <<d>> \o @]

\* The node is opened, and wcmMatchDevice looks for one to share its tablet with.
Match(d) ==
  /\ At(d, "path")
  /\ ~Duplicate(d)
  /\ dev[d].node \in plugged
  /\ IF Partner(d) = Null
     THEN /\ dev' = [dev EXCEPT ![d].fd = TRUE]
          /\ tab' = tab
     ELSE LET c == dev[Partner(d)].common
          IN /\ dev' = [dev EXCEPT ![d].fd = TRUE, ![d].common = c]
             /\ tab' = Joined(d, c)
  /\ setup' = [dev |-> d, step |-> "type"]
  /\ UNCHANGED <<inputs, todo, plugged, active, faults>>

\* wcmNeedAutoHotplug for a device of udev, wcmIsAValidType for the others.
ChooseType(d) ==
  /\ At(d, "type")
  /\ IF dev[d].source = "udev"
     THEN /\ Offers[dev[d].node] # {}
          /\ dev' = [dev EXCEPT ![d].type = FirstType(dev[d].node),
                                ![d].source = "driver", ![d].parent = TRUE]
     ELSE /\ dev[d].type # Null
          /\ dev[d].source = "conf" \/ dev[d].type \in Offers[dev[d].node]
          /\ dev' = dev
  /\ setup' = [dev |-> d, step |-> "tool"]
  /\ UNCHANGED <<inputs, tab, todo, plugged, active, faults>>

SameTool(d, e) == dev[d].type = dev[e].type /\ dev[d].serial = dev[e].serial
ToolTaken(d) == d \notin Own(d).tools /\ \E e \in Own(d).tools : SameTool(d, e)

\* wcmPreInitParseOptions, as far as the list of tools goes.
AddTool(d) ==
  /\ At(d, "tool")
  /\ ~ToolTaken(d)
  /\ tab' = [tab EXCEPT ![dev[d].common].tools = @ \cup {d}]
  /\ setup' = [dev |-> d, step |-> "ready"]
  /\ UNCHANGED <<inputs, dev, todo, plugged, active, faults>>

\* wcmLinkTouchAndPen: linkDevice on each sibling that has no link, until d has one.
Linked(d) ==
  LET c == dev[d].common
      e == FirstAt({i \in DOMAIN inputs :
                      /\ inputs[i] # d
                      /\ Sibling(d, inputs[i])
                      /\ Own(inputs[i]).touch = Null
                      /\ IsTouch(inputs[i]) \/ IsTouch(d)})
  IN IF e = Null THEN tab
     ELSE [k \in Commons |->
             IF k \notin {c, dev[e].common} THEN tab[k]
             ELSE [tab[k] EXCEPT !.touch = IF IsTouch(e) THEN e ELSE IF IsTouch(d) THEN d ELSE @,
                                 !.pentouch = @ \/ IsTablet(d) \/ IsTablet(e)]]

\* The end of wcmPreInit: the parent queues the others, the node is closed, and touch,
\* or a tool whose tablet has no link yet, looks for one ("only link them once per port").
Finish(d) ==
  /\ At(d, "ready")
  /\ todo' = todo \cup (IF dev[d].parent THEN Dependents(dev[d].node) ELSE {})
  /\ tab' = IF IsTouch(d) \/ (IsTablet(d) /\ Own(d).touch = Null) THEN Linked(d) ELSE tab
  /\ dev' = [dev EXCEPT ![d].fd = FALSE]
  /\ setup' = Null
  /\ UNCHANGED <<inputs, plugged, active, faults>>

\* SetupProc_fail: "restart the device list from the next one", wcmUnInit.
Fail(d) ==
  /\ UnInit(d, IF setup.step = "path" THEN tab
               ELSE [tab EXCEPT ![dev[d].common].devices = After(@, d)])
  /\ setup' = Null
  /\ UNCHANGED <<todo, plugged>>

Refuse(d) ==
  /\ \/ At(d, "path") /\ (Duplicate(d) \/ dev[d].node \notin plugged)
     \/ /\ At(d, "type")
        /\ IF dev[d].source = "udev" THEN Offers[dev[d].node] = {}
           ELSE \/ dev[d].type = Null
                \/ dev[d].source # "conf" /\ dev[d].type \notin Offers[dev[d].node]
     \/ At(d, "tool") /\ ToolTaken(d)
  /\ Fail(d)
  /\ UNCHANGED faults

\* An option or an ioctl fails at any step.
Fault(d) ==
  /\ \E step \in Steps : At(d, step)
  /\ faults < MaxFaults
  /\ faults' = faults + 1
  /\ Fail(d)

-----------------------------------------------------------------------------
(* The devices at work *)

\* DEVICE_ON, wcmDevOpen: the first one opens the node and counts that as one
\* reference, and itself as another.
On(d) ==
  /\ setup = Null
  /\ dev[d] # Null
  /\ ~dev[d].on
  /\ \/ /\ ServerFd
        /\ tab' = tab
        /\ dev' = [dev EXCEPT ![d].on = TRUE]
     \/ /\ ~ServerFd
        /\ Own(d).refs # 0 \/ dev[d].node \in plugged
        /\ tab' = [tab EXCEPT
             ![dev[d].common].minMaj = @ \/ Own(d).refs = 0,
             ![dev[d].common].refs = (IF @ = 0 THEN 1 ELSE @)
                                     + (IF dev[d].fd THEN 0 ELSE 1)]
        /\ dev' = [dev EXCEPT ![d].on = TRUE, ![d].fd = TRUE]
  /\ UNCHANGED <<inputs, setup, todo, plugged, active, faults>>

\* wcmUnlinkTouchAndPen: the first device of a tablet of the same id.
Unlinked(d) ==
  LET c == dev[d].common
      e == FirstAt({i \in DOMAIN inputs :
                      /\ inputs[i] # d
                      /\ tab[c].touch # Null \/ Own(inputs[i]).touch # Null
                      /\ Tablet[dev[inputs[i]].node] = Tablet[dev[d].node]})
  IN IF ~tab[c].pentouch \/ e = Null THEN tab
     ELSE [k \in Commons |->
             IF k \notin {c, dev[e].common} THEN tab[k]
             ELSE [tab[k] EXCEPT !.touch = Null, !.pentouch = FALSE]]

\* DEVICE_OFF: wcmDevStop, wcmDevClose.
Off(d) ==
  /\ setup = Null
  /\ dev[d] # Null
  /\ dev[d].on
  /\ tab' = IF dev[d].fd
            THEN [Unlinked(d) EXCEPT ![dev[d].common].refs = @ - 1]
            ELSE Unlinked(d)
  /\ dev' = [dev EXCEPT ![d].on = FALSE, ![d].fd = FALSE]
  /\ UNCHANGED <<inputs, setup, todo, plugged, active, faults>>

\* An event of an enabled device takes the pointer or gives it up.
Event(d) ==
  /\ setup = Null
  /\ dev[d] # Null
  /\ dev[d].on
  /\ active' \in {d, Null}
  /\ UNCHANGED <<inputs, dev, tab, setup, todo, plugged, faults>>

-----------------------------------------------------------------------------
(* The kernel and the server *)

\* A node appears or is announced again: udev adds one device, without a type.
Plug(n) ==
  /\ setup = Null /\ todo = {}
  /\ \A d \in Used : dev[d].node = n => dev[d].source = "conf"
  /\ plugged' = plugged \cup {n}
  /\ todo' = {[node |-> n, type |-> Null, serial |-> 0, wanted |-> 0,
               source |-> "udev"]}
  /\ UNCHANGED <<inputs, dev, tab, setup, active, faults>>

\* It may vanish at any time, also in the middle of a PreInit.
Unplug(n) ==
  /\ n \in plugged
  /\ plugged' = plugged \ {n}
  /\ UNCHANGED <<inputs, dev, tab, setup, todo, active, faults>>

\* The server learns of it and removes the devices that udev gave it.
Remove(d) ==
  /\ setup = Null /\ todo = {}
  /\ dev[d] # Null
  /\ dev[d].source # "conf" /\ ~dev[d].on
  /\ dev[d].node \notin plugged
  /\ UnInit(d, tab)
  /\ UNCHANGED <<setup, todo, plugged, faults>>

Init == /\ inputs = <<>>
        /\ dev = [d \in Devs |-> Null]
        /\ tab = [c \in Commons |-> Null]
        /\ setup = Null
        /\ todo = Configured
        /\ plugged \in {{}, {r.node : r \in Configured}}
        /\ active = Null
        /\ faults = 0

\* One step of PreInit.
PreInit(d) == Match(d) \/ ChooseType(d) \/ AddTool(d) \/ Finish(d) \/ Refuse(d)

Next == \/ \E r \in todo : NewDevice(r)
        \/ \E d \in Devs : \/ PreInit(d) \/ Fault(d)
                           \/ On(d) \/ Off(d) \/ Event(d) \/ Remove(d)
        \/ \E n \in Nodes : Plug(n) \/ Unplug(n)

Spec == Init /\ [][Next]_vars

\* The server works off its queue and returns from PreInit.
FairSpec == /\ Spec
            /\ WF_vars(\E r \in todo : NewDevice(r))
            /\ WF_vars(\E d \in Devs : PreInit(d))

-----------------------------------------------------------------------------
(* Properties *)

\* A WacomCommonRec counts the devices that have it and lists exactly those, and its
\* tools are those that got past the options, also in the middle of a PreInit and
\* after one that failed.
CommonCounted ==
  \A c \in Alive : /\ tab[c].refcnt = Cardinality(Holders(c))
                  /\ Entries(tab[c].devices) = Holders(c)
                  /\ Len(tab[c].devices) = Cardinality(Holders(c))
                  /\ {d \in Holders(c) : IsSetUp(d)} \subseteq tab[c].tools
                  /\ tab[c].tools \subseteq Holders(c)

\* The devices of one node share one WacomCommonRec, whatever came and went:
\* with two, each would read half of the events.
OnePort == \A d, e \in Used : /\ IsSetUp(d) /\ IsSetUp(e)
                              /\ dev[d].node = dev[e].node
                              => dev[d].common = dev[e].common

\* Arbitration never follows the pointer of a device that is gone.
ActiveLive == active # Null => IsSetUp(active)

\* A WacomCommonRec exists exactly as long as a device has it.
R == INSTANCE RefCounting WITH
       Users <- Devs, Objects <- Commons, None <- Null, alive <- Alive,
       holds <- [d \in Devs |-> IF dev[d] = Null THEN Null ELSE dev[d].common]
RefSpec == R!Spec

\* When the parent of a node gets to the end of its PreInit, the node's other types
\* follow, if the node stays plugged and nothing fails.  (A device of xorg.conf on
\* the node that is enabled meanwhile makes wcmIsDuplicate refuse them.)
HotplugCompletes ==
  \A n \in {m \in Nodes : Cardinality(Offers[m]) > 1}, k \in 0..MaxFaults :
    (/\ faults = k
     /\ \E d \in Devs : At(d, "ready") /\ dev[d].parent /\ dev[d].node = n)
    ~> \/ n \notin plugged \/ faults > k
       \/ \E d \in Used : dev[d].node = n /\ dev[d].source = "conf"
       \/ \A t \in Offers[n] :
            \E d \in Used : IsSetUp(d) /\ dev[d].node = n /\ dev[d].type = t

\* wcmConfig.c:516: "Store touch tool in wcmTouchDevice for pen and touch,
\* respectively, of the same device", while both of them are on.
TouchLinked ==
  \A d, e \in Used : /\ IsSetUp(d) /\ IsTablet(d) /\ dev[d].on
                     /\ IsSetUp(e) /\ IsTouch(e) /\ dev[e].on
                     /\ Sibling(d, e)
                     => Own(d).touch = e /\ Own(e).touch = e
=============================================================================
