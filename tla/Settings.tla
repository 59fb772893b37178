------------------------------ MODULE Settings ------------------------------
(***************************************************************************)
(* Settings and states of a tablet as its devices' properties tell them:   *)
(* the rotation, which every device shows; the two values of "Wacom Sample *)
(* and Suppress", which xsetwacom changes one at a time; the hardware's    *)
(* touch switch and the serial number of the tool, which change while      *)
(* events are read and are told to clients by a timer.                     *)
(* (xf86WacomProperties.c; set of xsetwacom.c.)                            *)
(***************************************************************************)
EXTENDS Integers

CONSTANTS
  Devs,        \* the devices of one tablet
  Touch,       \* the one with the touch switch
  Rotations,
  Levels,      \* values for Suppress
  Windows,     \* values for RawSample
  ToolIds,     \* serial numbers of tools, 0 among them
  DefaultSuppress,
  Users,       \* running xsetwacom commands
  Resting,     \* a user without one
  ViaDisabled  \* whether the rotation is also set through disabled devices

ASSUME SettingsAssumption ==
  /\ Touch \in Devs
  /\ 0 \in Rotations /\ 0 \in ToolIds
  /\ Levels \subseteq Nat /\ DefaultSuppress \in Levels
  /\ Windows # {} /\ Windows \subseteq Nat \ {0}
  /\ ViaDisabled \in BOOLEAN

VARIABLES
  tablet,   \* WacomCommonRec: rotate, suppress, raw, switch
  shown,    \* each device's properties: rotate, suppress, raw
  serial,   \* cur_serial
  heard,    \* the serial number clients were last notified of
  hwShown,  \* "Wacom Hardware Touch Switch", as clients were notified of it
  timers,   \* devices whose serial_timer is set
  touchTimer,
  present, on,
  user,     \* the request each xsetwacom prepares
  wanted    \* the Suppress last asked for

setVars == <<tablet, shown, serial, heard, hwShown, timers, touchTimer, present, on, user, wanted>>

\* The properties of xsetwacom's "Suppress" and "RawSample".
Fields == {"suppress", "raw"}
Values(f) == IF f = "suppress" THEN Levels ELSE Windows
Showing == [rotate : Rotations, suppress : Levels, raw : Windows]

SettingsTypeOK ==
  /\ tablet \in [rotate : Rotations, suppress : Levels, raw : Windows, switch : BOOLEAN]
  /\ shown \in [Devs -> Showing]
  /\ serial \in [Devs -> ToolIds]
  /\ heard \in [Devs -> ToolIds]
  /\ hwShown \in BOOLEAN /\ touchTimer \in BOOLEAN
  /\ timers \subseteq Devs
  /\ present \subseteq Devs /\ on \subseteq present
  /\ wanted \in Levels

-----------------------------------------------------------------------------
(* Requests of clients *)

MutRotate(d, v) ==       \* only the device asked shows it
  /\ d \in present
  /\ ViaDisabled \/ d \in on
  /\ tablet' = [tablet EXCEPT !.rotate = v]
  /\ shown' = [shown EXCEPT ![d].rotate = v]
  /\ UNCHANGED <<serial, heard, hwShown, timers, touchTimer, present, on,
                 user, wanted>>

\* wcmRotateTablet, wcmUpdateRotationProperty: the other devices are updated if the
\* one asked is enabled and the value is new.
Rotate(d, v) ==
  /\ d \in present
  /\ ViaDisabled \/ d \in on
  /\ tablet' = [tablet EXCEPT !.rotate = v]
  /\ shown' = [e \in Devs |->
                 IF e = d \/ (e \in present /\ d \in on /\ tablet.rotate # v)
                 THEN [shown[e] EXCEPT !.rotate = v] ELSE shown[e]]
  /\ UNCHANGED <<serial, heard, hwShown, timers, touchTimer, present, on,
                 user, wanted>>

\* xsetwacom set: both values are read and one of them is replaced ...
Prepare(u, d, f, v) ==
  /\ user[u] = Resting
  /\ d \in present
  /\ user' = [user EXCEPT ![u] =
       [device |-> d, field |-> f, values |->
          [[suppress |-> shown[d].suppress, raw |-> shown[d].raw] EXCEPT ![f] = v]]]
  /\ UNCHANGED <<tablet, shown, serial, heard, hwShown, timers, touchTimer,
                 present, on, wanted>>

\* ... and both are sent back.
Submit(u) ==
  /\ user[u] # Resting
  /\ LET r == user[u]
     IN IF r.device \notin present THEN UNCHANGED <<tablet, shown, wanted>>
        ELSE /\ tablet' = [tablet EXCEPT !.suppress = r.values.suppress,
                                         !.raw = r.values.raw]
             /\ shown' = [shown EXCEPT ![r.device].suppress = r.values.suppress,
                                       ![r.device].raw = r.values.raw]
             /\ wanted' = IF r.field = "suppress" THEN r.values.suppress ELSE wanted
  /\ user' = [user EXCEPT ![u] = Resting]
  /\ UNCHANGED <<serial, heard, hwShown, timers, touchTimer, present, on>>

-----------------------------------------------------------------------------
(* Events and timers *)

\* The switch is moved.  The touch device is the one it was linked to: without the
\* link there is no device to tell (see TouchLinked of Lifecycle).
Mute ==
  /\ Touch \in on
  /\ tablet' = [tablet EXCEPT !.switch = ~@]
  /\ touchTimer' = TRUE
  /\ UNCHANGED <<shown, serial, heard, hwShown, timers, present, on, user, wanted>>

TellSwitch ==
  /\ touchTimer
  /\ touchTimer' = FALSE
  /\ hwShown' = tablet.switch
  /\ UNCHANGED <<tablet, shown, serial, heard, timers, present, on, user, wanted>>

MutEnter(d, s) ==        \* the timer is not set for a tool's leaving
  /\ d \in on
  /\ serial' = [serial EXCEPT ![d] = s]
  /\ timers' = IF s = 0 THEN timers ELSE timers \cup {d}
  /\ UNCHANGED <<tablet, shown, heard, hwShown, touchTimer, present, on,
                 user, wanted>>

\* wcmUpdateSerial: a tool comes, or leaves (0).
Enter(d, s) ==
  /\ d \in on
  /\ s # serial[d]
  /\ serial' = [serial EXCEPT ![d] = s]
  /\ timers' = timers \cup {d}
  /\ UNCHANGED <<tablet, shown, heard, hwShown, touchTimer, present, on,
                 user, wanted>>

TellSerial(d) ==
  /\ d \in timers
  /\ timers' = timers \ {d}
  /\ heard' = [heard EXCEPT ![d] = serial[d]]
  /\ UNCHANGED <<tablet, shown, serial, hwShown, touchTimer, present, on, user, wanted>>

-----------------------------------------------------------------------------
(* Devices come and go *)

\* The options of a device are read: no Suppress below the default but 0.
Clamped(level) == IF level # 0 /\ level < DefaultSuppress THEN DefaultSuppress ELSE level

\* PreInit and InitWcmDeviceProperties of a dependent device.
Join(d) ==
  /\ d \notin present
  /\ present' = present \cup {d}
  /\ tablet' = [tablet EXCEPT !.suppress = Clamped(@)]
  /\ shown' = [shown EXCEPT ![d] = [rotate |-> tablet.rotate, raw |-> tablet.raw,
                                    suppress |-> Clamped(tablet.suppress)]]
  /\ wanted' = Clamped(wanted)
  /\ serial' = [serial EXCEPT ![d] = 0] /\ heard' = [heard EXCEPT ![d] = 0]
  /\ hwShown' = IF d = Touch THEN tablet.switch ELSE hwShown
  /\ UNCHANGED <<timers, touchTimer, on, user>>

\* At least one device keeps the tablet's record alive.
Leave(d) ==
  /\ d \in present \ on
  /\ present # {d}
  /\ present' = present \ {d}
  /\ UNCHANGED <<tablet, shown, serial, heard, hwShown, timers, touchTimer,
                 on, user, wanted>>

Enable(d) ==
  /\ d \in present \ on
  /\ on' = on \cup {d}
  /\ UNCHANGED <<tablet, shown, serial, heard, hwShown, timers, touchTimer,
                 present, user, wanted>>

\* wcmDevStop cancels the timers.
Disable(d) ==
  /\ d \in on
  /\ on' = on \ {d}
  /\ timers' = timers \ {d}
  /\ touchTimer' = (touchTimer /\ d # Touch)
  /\ UNCHANGED <<tablet, shown, serial, heard, hwShown, present, user, wanted>>

SetInit == \E w \in Windows, switch \in BOOLEAN, d \in Devs :
  /\ tablet = [rotate |-> 0, suppress |-> DefaultSuppress, raw |-> w, switch |-> switch]
  /\ shown = [e \in Devs |-> [rotate |-> 0, suppress |-> DefaultSuppress, raw |-> w]]
  /\ serial = [e \in Devs |-> 0] /\ heard = serial
  /\ hwShown = switch /\ touchTimer = FALSE
  /\ timers = {}
  /\ present = {d} /\ on = {}
  /\ user = [u \in Users |-> Resting]
  /\ wanted = DefaultSuppress

SetNext == \/ \E d \in Devs : \/ \E v \in Rotations : Rotate(d, v)
                              \/ \E s \in ToolIds : Enter(d, s)
                              \/ TellSerial(d) \/ Join(d) \/ Leave(d)
                              \/ Enable(d) \/ Disable(d)
           \/ \E u \in Users :
                \/ Submit(u)
                \/ \E d \in Devs, f \in Fields : \E v \in Values(f) : Prepare(u, d, f, v)
           \/ Mute \/ TellSwitch

SetSpec == SetInit /\ [][SetNext]_setVars

-----------------------------------------------------------------------------
\* "Update the rotation property for all tools on the same physical tablet": every
\* device shows the rotation in effect, whichever enabled device it was set through and
\* whenever the device was added.
RotationTold == \A d \in present : shown[d].rotate = tablet.rotate

\* Who waits for notifications is told of the tool in use and of the touch switch:
\* a device that has told, or whose timer is about to, stays so until it is stopped.
SerialTold(d) == heard[d] = serial[d] \/ d \in timers
SwitchTold == hwShown = tablet.switch \/ touchTimer
ListenersTold ==
  [][/\ \A d \in on \cap on' : SerialTold(d) => SerialTold(d)'
     /\ Touch \in on \cap on' /\ SwitchTold => SwitchTold']_setVars

\* xsetwacom.man: "Suppress is a tablet wide parameter.  A specified delta level for
\* one input tool is applied to all input tool coordinates": until another is
\* specified.
SuppressKept == tablet.suppress = wanted
=============================================================================
