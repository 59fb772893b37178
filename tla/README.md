# xf86-input-wacom in TLA+

The driver turns the events of Wacom tablets into pointer, key and touch events
of the X server. Its difficulty is not in any one event but in what was before
it: several tools of several tablets share one pointer, a tool is recognised by
what was stored of it, gestures are told from the last two states of two
contacts, pressure becomes a click relative to the lightest touch of a stroke,
several X devices share the record of one tablet and come and go, and several
clients change settings in more than one request. These modules describe that
logic as it is in `src/src/` and `src/tools/xsetwacom.c`, check it with TLC on
small tablets, and prove the main properties for any tablet with TLAPS.
`wcmCommon.c:1205` below means line 1205 of `src/src/wcmCommon.c`.

## 1. Inventory

An event goes through the parts in this order:

    kernel -> read buffer -> frame -> channel -> wcmEvent -> gesture filter
                                                   |              |
                                             arbitration    commonDispatchDevice
                                                                  |
                                   filter, pressure, suppression, rotation
                                                                  |
                                                   wcmSendEvents -> buttons -> server

and beside it

    udev, xorg.conf -> PreInit, hotplug -> devices of a tablet -> DEVICE_ON/OFF
    xsetwacom -> X server -> wcmSetProperty -> settings -> the other devices, clients

| part | state | operations | what makes it correct | where |
|---|---|---|---|---|
| read buffer, event queue (`wcmReadPacket`, `usbParseEvent`) | bytes left over, events of the frame | read, parse, move the rest, dispatch or drop a frame | no byte lost or parsed twice; a frame arrives whole | `Reader` |
| USB frames and channels (`wcmUSB.c`) | `wcmUSBData`, `wcmChannel[].work` | `usbDispatchEvents`, `usbChooseChannel`, the parsers | one channel per tool; a frame is parsed as what it is; a tool that left is reported out; channels return | `UsbChannels` |
| arbitration (`wcmEvent`) | `WACOM_DRIVER.active`, `oldState` of every device | `check_arbitrated_control`, soft prox-out, `wcmCancelGesture` | one device in proximity; who loses the pointer is released | `Arbitration`, `PointerControl` |
| dispatch (`commonDispatchDevice`, `wcmSendEvents`) | `oldState` | suppression, forced prox-out, proximity and button 1 | the server knows exactly what `oldState` says | `ToolEvents` |
| touch gestures (`wcmTouchFilter.c`) | `wcmGestureMode`, the history of the contacts, `tap_timer` | tap, drag, scroll, zoom, multitouch, cancel | gestures end with the fingers, what they pressed is released | `TouchFilter` |
| filter and coordinates (`wcmFilterCoord`, `wcmRotateAndScaleCoordinates`, `wcmCheckSuppress`) | sample window, `oldState.x/y` | average, suppress, scale, rotate | no stroke mixes with another; no position leaves the screen; clicks land at the pen | `Samples` |
| pen tip (`rebasePressure` to `setPressureButton`) | `minPressure`, `maxRawPressure` | one event | no press lost, no phantom click, a worn tip releases | `Pressure` |
| buttons, keys, wheels (`wcmSendButtons`, `sendAction`, ...) | `oldState.buttons/keys`, `key_actions`, `wcmPanscrollState` | press, release, TPCButton, panscroll, ring | nothing stuck, nothing withheld, no distance lost | `Buttons` |
| configuration, validation, hotplug (`wcmConfig.c`, `wcmValidateDevice.c`) | the devices of a tablet, their shared `wcmCommon`, queued hotplugs | PreInit, UnInit, start, stop, open, close | takes back what it did, frees once; the types of a node all come | `Lifecycle`, `RefCounting` |
| button actions (`wcmSetActionsProperty`, ...) and their commands (`xsetwacom.c`) | `btn_action_props`, `key_actions`, the properties | check and apply, reset, delete; parse, print, map in three requests | a button runs what its property says; a request is whole or refused; mappings land | `Mappings`, `Actions`, `Commands` |
| tablet-wide settings and notifications (`xf86WacomProperties.c`) | rotation, Suppress, RawSample, touch switch, serial numbers, timers | `wcmSetProperty`, the timers | every device shows what is in effect; listeners are told | `Settings` |
| tablet detection, GWacom, other tools, tests | none of interest | - | - | not modelled |

Parts interact by calls in one thread, with three exceptions: timers (tap, touch
property, serial property) and property changes come between events, and the
server's `DEVICE_ON/OFF` and hotplug come between all of them. A threaded server
runs all of these under its input lock, so an event is one atomic step in the
models; `wcmSingleFingerTapTimer` blocks no SIGIO in builds without threads, which
is recorded as a hazard and not modelled. PreInit is one call, but a sequence of
steps in `Lifecycle`: the node may vanish in its middle and each of its failures
has its own state to clean up. `xsetwacom` is another process and its three
requests are three steps.

What is hard to test here is listed at its line in `PROJECT.json` "hazards": tools
of several devices interleaving, the user changing settings in the middle of a
gesture, stale state in channels that change hands, the tap timer, quick or worn
pens, short reads and lost events, PreInits that fail half way, clients that map
buttons at the same time. The properties below come from that list.

## 2. The modules

| module | models | code |
|---|---|---|
| `Reader` | bytes to frames: `wcmReadPacket`, `usbParse`, `usbParseEvent` with the bounded event queue | `wcmCommon.c` 189-241, `wcmUSB.c` 833-1077 |
| `UsbChannels` | frames of the kernel into the channels | `wcmUSB.c` 500-2024 |
| `ToolEvents` | one device: `wcmSendEvents`, `commonDispatchDevice` (proximity, button 1, suppression), `wcmSoftOutEvent` | `wcmCommon.c` |
| `TouchFilter` | the gesture machine on the same record | `wcmTouchFilter.c` |
| `Arbitration` | all devices of all tablets: `wcmEvent`, the timer, settings, device on/off/replug | `wcmCommon.c` 1077-1235, `wcmConfig.c`, `xf86WacomProperties.c` |
| `PointerControl` | the abstract promise: one holder, only the holder in proximity, who may displace whom | - |
| `Samples` | a pen's position: filter, suppression, scaling, rotation | `wcmFilter.c`, `wcmCommon.c` 641-740, 1018-1075 |
| `Pressure` | raw pressure into button 1 | `wcmCommon.c` 1253-1460 |
| `Buttons` | buttons, keys, actions, TPCButton, panscroll, ring and wheel | `wcmCommon.c` 90-620 |
| `Lifecycle` | the life of the X devices: allocation, PreInit, hotplug, on and off, UnInit | `wcmConfig.c`, `wcmValidateDevice.c`, `xf86Wacom.c`, `wcmCommon.c` (list and reference counts) |
| `RefCounting` | the abstract promise: an object exists exactly as long as it has users | - |
| `Actions` | commands of `xsetwacom` into lists of actions and back | `xsetwacom.c` 1107-2166 |
| `Mappings` | lists of actions as properties: `wcmSetProperty`'s check and apply, and `xsetwacom` as their client | `xf86WacomProperties.c`, `xsetwacom.c` 1514-1598 |
| `Commands` | a command typed word by word, what it must mean and how it is shown again | `xsetwacom.c` 1107-2166, `xf86WacomProperties.c` |
| `Settings` | settings of the tablet as each of its devices shows them, and notifications | `xf86WacomProperties.c`, `xsetwacom.c` 1831-1952 |
| `Arbitration_proofs`, `UsbChannels_proofs`, `Lifecycle_proofs`, `Reader_proofs`, `Buttons_proofs` | the theorems and lemmas of the module before the underscore | - |
| `Pen_proofs` | those of `Samples` and `Pressure` | - |
| `Properties_proofs` | those of `Mappings`, `Commands` and `Settings` | - |
| `Loops` | induction over numbers, and what it says of a loop | - |
| `MC*` | the small tablets, pens, bindings, clients and scenes of the runs | - |

`Arbitration` EXTENDS `TouchFilter` EXTENDS `ToolEvents`: the lower two are
operators on a device's record, in the order in which the C functions call each
other, so that one `ToolEvent` action is the whole of `wcmEvent`. `Mappings` EXTENDS
`Actions`: a client's request carries what its command was parsed to. `Commands`
EXTENDS `Mappings` for the driver's check of what is sent. The others are separate because their state is: `Arbitration` takes from channels only that
an event names a tool, from `Pressure` only button 1; `UsbChannels` starts where
`Reader` has dispatched a frame; `Settings` abstracts from `Lifecycle` which devices
of a tablet there are.

### How state corresponds

`Arbitration`: `active` is `WACOM_DRIVER.active`; `dev[d]` has for each device the
fields of `oldState` (`prox`, `btn`, `id`), of the gestures of its tablet (`mode`, the
newest two proximities `cur` and `last` of each contact, `tip`, `timer`), the
settings, and what the server was last told (`sprox`, `sbtn`, `begun`); `hw` is which
tools are on the tablet, the environment. Actions: `ToolEvent` (`wcmEvent`, with the
measured quantities as observations: idle time, distance from the last click,
suppression, tap times, finger distances), `Timer` (`wcmSingleFingerTapTimer`),
`SetGesture`, `SetTouch`, `BindToSerial` (properties), `DeviceOn`, `DeviceOff`, `Replug`.
There is at most one touch device in a tablet of the runs, so the tablet's gesture
fields are kept with it.

`UsbChannels`: `chan[c]` is `wcmChannel[c]`, `work` and, with a `v`, `valid`; `usb` is
`wcmUSBData`; `frame` and `phase` follow `usbDispatchEvents` through one SYN frame, one
action per event, so that the dirty channels at its end are visible. The kernel
side (`Kernel`) is external: it reports a tool in or out and leaves out what has not
changed, as the kernel's input core does.

`Reader`: `buffer` is `common->buffer` up to `bufpos`, `pos` the local variable `pos`,
`reading` whether the call is under way, `queue` is `wcmEvents`; `pipe` the kernel's
bytes; `due` and `expected` are history. One `wcmReadPacket` is `Fill(n)`, in which `n`
bytes arrive, a `Parse` for each whole event of the buffer and a `Move` of the rest to
its front; the kernel's steps may come in between. `Report`, `Overrun` (SYN_DROPPED) and `Reopen` are the kernel and
the server. The bytes of an event are pairs of the event and a position, so that
a parse at a wrong offset shows.

`Samples`: `sets` are `wcmRawSample`, `wcmSuppress`, `wcmRotate` and the area; `window` is
`rawFilter`, `old` is `oldState`; `stroke`, `last` and `grown` are history. `Sample` is
`commonDispatchDevice` for a pen in range from the filter to `wcmSendEvents`, `SampleOut`
its leaving, `SetSamples` the property. `Pressure`: `pen` is `oldState`, `minPressure`,
`maxRawPressure`; `seen` is the history of the stroke.

A loop of the C code is a recursive function of the turn (`total[i]` in `Samples`, the
state after `i` buttons in `Buttons`, after `i` entries of a list in `Mappings`, after `i`
words or actions in `Actions`), whose last value the operator takes.

`Buttons`: `dev` is the device's `oldState` and its mode flags, with `down` what the
server believes pressed. `from` and `net` are history for `PanExact`.

`Lifecycle`: `dev` and `tab` are the records at each address, `WacomDeviceRec` and
`WacomCommonRec`, `Null` for memory that is free; `inputs` is the server's list,
`setup` the device in PreInit and its step, `todo` the work queue of hotplugs,
`active` as above. `NewDevice` is `wcmAllocate`; `Match`, `ChooseType`, `AddTool`, `Finish`
are `wcmPreInit` from one possible failure to the next; `Refuse` are its own
conditions to fail, `Fault` any other, both with all of `SetupProc_fail` and
`wcmUnInit`. `On`, `Off`, `Remove` are the server's calls, `Event` what arbitration does
to `active`, `Plug` and `Unplug` udev. A tool's serial number and the one it was
`wanted` for are kept apart because `wcmOptionDupConvert` gives each tool of
ToolSerials the first number of the list.

`Mappings`: `handler` is `btn_action_props`, `action` is `key_actions`, `prop` the server's
store; `client[c]` where a running `xsetwacom` is. `Changed`, `ListAccepted`, `Applied` are
`wcmSetProperty` in its two passes; reading the list applies it once more, as
`wcmGetProperty` does. `Settings`: `tablet` is the shared record, `shown` the properties,
`heard` and `hwShown` what clients were notified of, `timers` and `touchTimer` the timers.

### What is abstracted

In `Arbitration`: coordinates (observations say only whether an event changes
enough, is too far or moved alike), axes and motion events. Elsewhere: tilt
(averaged like a position), relative mode's differences, the pressure curve
(applied after the button is decided), smooth scrolling and strips, the quirks of
single protocol 4 tablets, options that only store a value, names and labels of
axes, the fixed buffers that `xsetwacom` prints a mapping into, logging.

`Pressure` compares whole numbers: `Tolerance` is `maxCurve * THRESHOLD_TOLERANCE`
without its fraction, which decides the same for a threshold and a pressure that are
integers. `TouchFilter` has one history of a contact, while `wcmFingerMultitouch` goes
through all channels with its number. `OneHistory` is what that rests on: there is no
second one where the kernel gives a new contact the lowest free slot (`dense` nodes),
and where the hardware numbers the slots the one in use comes first, which is the one
that `getContactNumber` finds. `usbChooseChannel` may find no channel; `UsbChannels` then
leaves `chan` as it is: a slot event returns before it writes anything, and what the
others write to `wcmChannel[-1]` lands in front of the record, in nothing that is
modelled here.

## 3. The runs

| run | asks | instance and bounds | states |
|---|---|---|---|
| `arb` | `PointerExclusive`, `ServerAgrees`, `NoGhostProximity`, `LoserReleases`, refinement `ControlSpec` | three scenes: two styli (one bound to a serial, rebound at run time), puck, pad with five tools, two of them of the same id and two of the same device, stylus and puck relative; pen, eraser and puck on one tablet and a finger on another; pen and finger with touch, gestures, disable and replug at any time | 21,190 |
| `arb_touch` | `GestureEnds`, `TouchesBalanced`, `TapResolves` | three contacts, touchpad or display, gestures on or off | 2,852 |
| `usb` | `ToolsDistinct`, `OutReported`, `IdKnown`, `ChannelAvailable`, `OneHistory`, `TypeAgrees` | a protocol 5 tablet, a generic pen, three contacts in slots of the hardware, three in slots of the kernel, pen and touch on one node, four contacts; 4 channels; pen devices disabled between strokes | 981,553 |
| `buttons` | `ButtonsAgree`, `ScrollHeld`, `PanExact` | stylus, puck or pad, three buttons, one key, four rows with threshold 2, a ring of five | 41,492 |
| `input` | `BytesKept`, `FramesWhole`, `NoFrameLost`, `AllRead`; `StrokeAveraged`, `AreaOnScreen`, `ClickAtPen`; `PressNotLost`, `WornReleases`, `NoPhantomClick`, `ClickedByPressure` | three scenes: three frames of five shapes, events of 2 bytes, a buffer of 5, a queue of 3; axes of 0 to 2 and 0 to 4, every rotation, two areas, a window of 1 or 2; six raw levels on a scale of ten, thresholds 2, 3, 5 with tolerance 2 | 173,888 |
| `lifecycle` | `CommonCounted`, `OnePort`, `ActiveLive`, refinement `RefSpec`, `HotplugCompletes` | a node of pen and eraser with a tool in ToolSerials, one of touch, an eraser in xorg.conf; five devices, one failure | 408,609 |
| `properties` | `AcceptedIsMeant`, `Reproduces`; `HandlersAgree`, `AllOrNothing`, `MapsLand`; `RotationTold`, `ListenersTold` | scenes: commands of up to four words, one of them a key the keyboard lacks; two xsetwacoms on two buttons; one and a client that writes what it likes; settings set through three devices that come and go; tools and switch that change meanwhile | 483,498 |

Why the bounds are enough.

* Arbitration compares the event's device with one other, the active one; every
  pair of types, same and different ids, same and different tablets occurs, and
  the proofs remove the bound. The scenes of one run play on different tools and
  meet in no step, so one next-state relation serves all.
* The gesture filter looks at contacts 1 and 2 by name and treats all others
  alike: the third stands for them.
* Channels are looked up by equality; what matters is fewer, as many and more
  tools than channels, and a tool returning to a channel that changed hands.
* A pan over four rows crosses the threshold in both directions with every
  remainder; a ring of five has turns of less than half and more than half both
  ways.
* A buffer of two and a half events has reads that end within an event and ones
  that fill it; frames of one event less than the queue, as many, and more all
  occur. On axes of 0 to 2 and 0 to 4, a quarter turn stretches the one and squeezes
  the other, division rounds, and the lower area's positions fall outside on one side. Pressure thresholds lie within, just above
  and well above the tolerance, where the hysteresis is off, on at its edge and on.
* Five devices are all that the two nodes can have at once, the one of xorg.conf and
  the tool of ToolSerials among them, and each can be the one that fails. `MaxFaults`, `Serials`, `MaxReports`, `MaxBreaks`,
  `MaxWords` are the only bounds on counters.
* Four words fit every keyword, a modifier and a pair that is cut by the buffer
  of six actions; four buttons are the fewest for which X11 numbering has its gap.

Deadlock is checked in every run but `input` and `bug_rotated`, where the kernel stops
after `MaxReports` frames and the scene has ended.

**Fairness.** `TapResolves` needs weak fairness of `Timer`: the server runs an expired
timer. `AllRead` needs it of
`ReadPacket`: the server reads a node that is readable, and the call ends.
`HotplugCompletes` needs it of `NewDevice` and of PreInit's steps: the server works
off its queue and its calls return. No tool, user or client is assumed to do
anything. `arb_touch` has a next-state relation without settings and no pen: a
cancelled gesture is the subject of the scene `palm` of `arb`, and a disabled device
drops its timer (hazards). `HotplugCompletes` is about the node that stays plugged,
without a device of xorg.conf on it: enabled before the queue is worked off, such a
device makes `wcmIsDuplicate` refuse the others.

### Where the code differs from what it says

Five runs end in a violation; "findings" in `PROJECT.json` has the story.

* `bug_palm_drag` (`DragReleased`): `wcmEvent` clears `active` when one of two contacts
  lifts (`wcmCommon.c:1214`). A pen that then comes in has nobody to displace, the
  gesture is not cancelled, and the last lift is refused: button 1 stays down.
* `bug_tpc` (`TipReleases`): "tip released? release all buttons" (`wcmCommon.c:272`) does
  not release the tip when the barrel button goes down in the same event.
* `bug_rotated` (`SentIfMoved`): suppression compares a position before rotation and
  scaling with one after it (`wcmCommon.c:714`, 875, 1018); with either set, the
  man page's "only if the change ... is greater than the Suppress value" fails.
* `bug_touch_link` (`TouchLinked`): the link of touch and pen is made in PreInit only
  (`wcmConfig.c:979`) and undone by every `DEVICE_OFF` (`wcmConfig.c:1257`).
* `bug_suppress` (`SuppressKept`): Suppress and RawSample are one property per device
  and one setting per tablet (`xf86WacomProperties.c:741`): setting the one through
  another device takes the other back.

Some preconditions of the properties are there because the code fails without
them, where nothing in the repository promises otherwise. With `AnyTime = TRUE` in
`usb.cfg` (devices disabled while their tool is near) `OutReported` and
`ChannelAvailable` fail: the channel of a tool whose device was disabled is not
released. With `ViaDisabled = TRUE` in `properties.cfg` (rotation set through a
disabled device) the other devices keep the old value (`RotationTold`). Raising
RawSample in the middle of a stroke averages in samples of an earlier one
(`StrokeAveraged`). `ListenersTold` says nothing across `DEVICE_OFF`, where
`wcmDevStop` drops the timers with what they had to tell. Others are in "hazards"
with a note.

## 4. The proofs

All hold for any constants that satisfy the modules' assumptions, which the runs
evaluate on their own: `DeviceAssumption` and `ToolAssumption` (two devices of a tablet
differ in type or serial number, which `wcmIsDuplicate` and "already have a tool with
type/serial" enforce; pens share no device id with other kinds of tools),
`LifecycleAssumption` (finitely many addresses, `Null` is none of the values),
`ActionsAssumption` (keywords are no names of keys or buttons, two buttons have two
numbers), `MappingsAssumption` (X11's numbers reach to the last button, the driver takes
no longer list than `xsetwacom` can parse), and `ChannelAssumption`, `PressureAssumption`,
`SamplesAssumption`, `ButtonAssumption`, `ReaderAssumption`, `SettingsAssumption` (ranges).
A theorem that needs more says so in its ASSUME, and the MC modules check that
their instances meet it (`LoneTouchpad`, `NodesDiscernible`, `SeparateBindings`,
`AreasExtended`, `NamesDiffer`): a hypothesis is one that checked tablets satisfy.

Every safety invariant but `OneHistory`, and every action property of a passing run,
is the statement of a theorem, with the hypotheses given here.

**`Arbitration_proofs`.** `TypeCorrect` gives each operator of `ToolEvents` and
`TouchFilter` a type lemma, in the order of the calls. `OnePointer` is
`PointerExclusive`, strengthened to `PointerInv`: an unbound device has serial
number 0, so that a soft prox-out is never ignored, and the id recorded in
`oldState` is one of the device's own kind of tool, so that "same id as the active
device" never lets a touch in beside a pen. `ServerInStep` is inductive with the type.
`PointerControlled` is the refinement: a granted event is `Take` or `Leave` of the
abstract specification, `Replug` is `Remove`, everything else stutters.

`NoGhosts` adds a witness: a device in proximity has a tool on the tablet with the id
it recorded, and events of it are heeded (`GhostInv`). `LoserLetsGo` rests on what
touch devices may hold (`TouchOK`): button 1 of a drag is released by
`wcmCancelGesture`, any other by the soft prox-out, and nothing is held otherwise.
`GesturesEnd` and `TouchesEnd` are about `TouchSpec`, a touch device that no pen and no
setting disturbs, and any number of contacts (`ContactsOnly`: each has its own number,
and a channel keeps more than one state, which is what the filter compares).
`ContactInv` says in each gesture mode which of contacts 1 and 2 are down, now and
before, and what was pressed and announced for them.

**`UsbChannels_proofs`.** `PensDistinct` is `ToolsDistinct` on nodes without multitouch.
It is not inductive alone: between the choice of the channel and the events of the
frame, a channel that was found for a tool may still be out of proximity and come
into it with the next event. `PenInv` adds that the channel of the frame being
parsed is the only one of its tool (`Alone`), that only the pad's channel has the
pad's serial number, and that frames of these nodes have no contacts. With
multitouch, contacts are moved between channels by slots and TLC has to do.

`IdsKnown`, `LeaversReported`, `ChannelLeft` and `TypesAgree` are for nodes whose frames
tell which tool they are of (`Discernible`: types and ids of their own, and a single
tool where neither ids nor serial numbers are reported). `ToldInv` follows the kernel
and the driver side by side: what a channel records of a tool is what the kernel
last said of it, or a frame under way has still to say it (`ToCome`). The proof found
two conditions that the code needs. `~AnyTime`: devices are not disabled with their
tool near (section 3). `Steady`: of several tools on a node only the stylus is ever
disabled; a puck disabled with a pen near makes `refreshDeviceType` take the puck's
next frame for a stylus's, and `IdKnown` fails, as TLC confirms. `ChannelLeft`
counts: there are fewer tools than channels and each holds one, so one is free
(`FreeLeft`).

**`Reader_proofs`.** `ReadInv` is the type with `BytesKept` (buffer and pipe are the bytes
of the events due) and `FramesKept`: the events due are in order, the queue is the
beginning of what is not dispatched, and a frame still expected is in the queue or
due from its first event. `TypeCorrect`, `BytesInOrder`, `FramesUnmixed` and
`NothingLost` follow, for any size of event, buffer, queue and kernel buffer. The type
says that `wcmReadPacket` leaves less than an event, so that the next read has room.

**`Pen_proofs`, of `Pressure`.** `PressureInv` relates what the driver keeps to the history
of the stroke: `minPressure` is its lowest pressure, `maxRawPressure` its highest until
it is forgotten, and it is forgotten only after a click or at bias 0. The lemma all
rest on is `NormalizeMonotone`: the integer scale from bias to `MaxZ` is monotone in
the pressure, so that a press shows wherever in the stroke it was. Four properties
follow for any resolution, curve, tolerance and thresholds.

**`Pen_proofs`, of `Samples`.** `StrokeAlways` is `StrokeAveraged` for any size of the
window: the used part of it is the stroke, its first sample repeated (`WindowInv`).
`PositionOnScreen`: for any area, axes and rotation, `Placed` stays within the axes,
since every rotation is made of scalings, which clamp, and of flips, which keep the
range. `AreaAlways` adds the corners, by the lemma that a scaling takes ends to ends;
its areas must have an extent (`Extended`), which `wcmSetProperty` does not check.
`ClicksAtPen` is `ClickAtPen`. The window of a fresh stroke is one sample repeated and
its average is that sample (`AverageIs`); where the movement is suppressed, the old
position is used instead, which is off by no more than what `Suppress` comes to on
the screen (`PlacedNear`). That is `Suppress` itself unless the tablet is turned by a
quarter: it is counted before the turn, which scales the range of each axis to that
of the other, so the click may be off by as much more (`Suppressed`, `Stretched`). The
theorem is about the whole tablet as area, as the property is, and axes with an
extent; `ScaleAxisStretched` bounds what one scaling does to two positions apart.

**`Buttons_proofs`.** Each loop over buttons, keys and entries of an action has a lemma
of what it leaves behind. `ScrollEnds` keeps `ScrollBy`: panscroll mode is on only while
its button is held. `ServerAgrees` keeps `Agree`: what is down at the server is what the
held buttons and keys hold; it needs that no two of them press the same (`Separate`),
since the server releases a button with the first. `PanAlways` keeps that nothing is
pending outside of a pan (`PanIdle`), with one button to pan by (`OnePan`). None rebinds a
button while it is held (`~WhileHeld`, a hazard), and with TPCButton the tip must not
pan (`TipNoPan`), because of what `bug_tpc` shows.

**`Lifecycle_proofs`.** `Sound` is inductive and gives `BooksKept`, `NodeShared` and
`PointerLive`. Its parts: the server's list and each tablet's list name every device
once (`Listing`); a tablet counts exactly what it lists (`Kept`); the device in PreInit
is the first of its list, alone in its tablet before `wcmMatchDevice` and among the
tools at the end (`SetupFirst`); what is past `wcmMatchDevice` shares its tablet with
its node (`Shared`); `active` exists and is set up (`Followed`). `SetupFirst` is what makes
`SetupProc_fail` right: "restart the device list from the next one" drops all before
the failed device, and is a removal only because nothing is before it.
`CountingRefined` is the refinement of `RefCounting`: `Match` with a partner is
`Exchange`, the failures and `Remove` are `Drop`, and the record is freed in that step
because the count, being exact, was 1 exactly when the device was the last.

**`Properties_proofs`, of `Mappings`.** `MapInv` is the type with `Agreed`: of the buttons
that a property is the handler of, the first runs it. A change of a property, a
reset, a deletion and each entry of a list preserve it, and `HandlersAlways` follows.
`ListsWhole`: after the check, and through every entry that is applied, each property
is as it was or acceptable (`Sane`), so that no later entry can be refused.
`MappingsLand`: while only `xsetwacom` writes, every button has its own property and each
list that a client has read is the full list of them (`Landed`), so a list written back
late resets and steals nothing.

**`Properties_proofs`, of `Commands`.** `CommandsMeant` follows the parser along the words:
while the buffer has room, the mode is the last keyword and the actions are those
that the words so far mean (`MeantTo`); a command that does not fit leaves a full
buffer, which is longer than what the driver takes. `CommandsReproduced` reads back what
is printed, action by action (`ShowsFirst`). It asks that no key is shown with another
key's name (`KeysNamed`), which a keyboard map with one keysym on two keys would break,
and leaves out what is not printed as a word that can be typed (`Unprinted`): a pan,
and a key that the keyboard lacks, which `xsetwacom` sends as key code 0 with a warning
and shows as "(null)".

**`Properties_proofs`, of `Settings`.** `RotationAlways` is `RotationTold` where the rotation
is set through enabled devices only: the assumption `~ViaDisabled` is where the code
needs it. `ListenersAlways` is the action property `ListenersTold`. `Prepared` adds to the
type that a request under way is of the types it will be sent with.

**`Loops`.** Loops need induction, which cannot be taken from a library of theorems
over arbitrary predicates here. `Induct` states it for a set of numbers and proves it
from the pigeonhole principle of finite sets: a number left out would inject a finite
set into a smaller one. `UpTo` and `EachUpTo` give what holds after each turn of a loop
of any length, and what a recursive function is at each number.

**Only model-checked:** the liveness properties `TapResolves`, `HotplugCompletes` and
`AllRead`; `OneHistory`; `ToolsDistinct`, `IdKnown`, `OutReported`, `ChannelAvailable` and `TypeAgrees` on
nodes with multitouch or tools that share an id; and the five violations of section 3,
whose counterexamples need no proof.

## 5. Plan

Done: every part of section 1 but those that are "not modelled", and a theorem for
every safety property of the passing runs but `OneHistory`.

Left, in this order:

1. `ToolsDistinct` and `OutReported` on nodes with multitouch, from an invariant on the
   slots.
2. `Discernible` weakened to nodes whose tools share a type, told apart by serial number.
3. A hypothesis weaker than `Separate` for `ButtonsAgree`: buttons that press the same,
   but are not held together.
4. The horizontal half of panscroll and strips in `Buttons`.

## 6. Not modelled, and why

`usbDetect`, `usbWcmInit`, `usbInitialize` and the model tables (kernel enquiries and
constants); the pressure curve's drawing (a Bezier curve rasterised into a table once
per setting and looked up after the button is decided); GWacom (a GObject that
replays the driver outside the server for tests); the converters of `xsetwacom` for
plain values and `MapToOutput`'s matrix (floating point of the screen layout);
`wacom-record`, `isdv4` and the serial tools (I/O without shared state); man pages,
configuration and build files. Detection of a worn tip (`detectPressureIssue`) only
logs.
