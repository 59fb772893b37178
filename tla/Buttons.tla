-------------------------------- MODULE Buttons --------------------------------
(***************************************************************************)
(* What one device tells the X server when buttons, keys, wheels and the   *)
(* ring change (sendCommonEvents and what it calls in wcmCommon.c).  Each  *)
(* button is bound to an action, a list of button and key events, mode     *)
(* toggles and panscroll entries, performed when the button is pressed;    *)
(* what the list leaves pressed is released with the button.  In panscroll *)
(* mode motion with the tip down becomes clicks of the scroll buttons.     *)
(*                                                                         *)
(* A step is one event that wcmSendEvents handles.  The device's record    *)
(* holds the fields of oldState that matter here, the two mode flags, the  *)
(* pending pan distance, and what the server believes to be pressed.       *)
(***************************************************************************)
EXTENDS Integers, Sequences, FiniteSets

CONSTANTS
  Kinds,         \* the device's possible types: "stylus", "cursor", "pad"
  TPCChoices,    \* the possible values of TPCButton
  NButtons,      \* the tool's buttons are 0 .. NButtons - 1; 0 is the tip
  NKeys,         \* the keys are 0 .. NKeys - 1, IDX_KEY_*
  KeyCode,       \* [Keys -> key codes]: KEY_PROG1 + 8 and so on
  DefaultAction, \* the actions the buttons are bound to at first
  Bindings,      \* the actions the user may bind: [button, action]
  WhileHeld,     \* may the user bind an action to a button that is held?
  WheelAction,   \* [{"up", "down"} -> actions]
  Rows,          \* the y coordinates
  Wheels,        \* the relative wheel's steps
  MaxRing,       \* wcmMaxRing: the ring's positions are 0 .. MaxRing
  Threshold      \* wcmPanscrollThreshold

ButtonSet == 0 .. NButtons - 1
Keys      == 0 .. NKeys - 1
Ring      == 0 .. MaxRing

\* Actions, each a list of entries; press does not matter to the last two types.
Entries == [type : {"button", "key", "modetoggle", "panscroll"}, code : Nat, press : BOOLEAN]
ActionLists == Seq(Entries)

ASSUME ButtonAssumption ==
  /\ NButtons \in Nat \ {0} /\ NKeys \in Nat /\ MaxRing \in Nat /\ Threshold \in Nat \ {0}
  /\ Kinds \subseteq {"stylus", "cursor", "pad"} /\ TPCChoices \subseteq BOOLEAN
  /\ 0 \in Rows /\ Rows \subseteq Int /\ 0 \in Wheels /\ Wheels \subseteq Int
  /\ DefaultAction \in [ButtonSet -> ActionLists] /\ KeyCode \in [Keys -> Nat]
  /\ Bindings \subseteq [button : ButtonSet, action : ActionLists]
  /\ WheelAction \in [{"up", "down"} -> ActionLists]
  /\ WhileHeld \in BOOLEAN

VARIABLES
  conf,      \* [kind, tpc]: the type of the device and its TPCButton option
  actions,   \* key_actions
  dev,       \* the device: see Init
  from, net  \* where the tip began to pan, and the clicks sent since (history)

vars == <<conf, actions, dev, from, net>>

Init ==
  /\ conf \in [kind : Kinds, tpc : TPCChoices]
  /\ actions = DefaultAction
  /\ dev = [prox |-> FALSE, buttons |-> {}, keys |-> {}, y |-> 0, ring |-> 0,  \* oldState
            scroll |-> FALSE, absolute |-> TRUE,       \* SCROLLMODE_FLAG, ABSOLUTE_FLAG
            pan |-> 0,                                 \* wcmPanscrollState.y
            down |-> {},                               \* pressed, to the server
            out |-> <<>>]                              \* sent in the last step
  /\ from = 0 /\ net = 0

-----------------------------------------------------------------------------
(***************************************************************************)
(* Actions.                                                                *)
(***************************************************************************)

\* wcmEmitButton and wcmEmitKeycode.
Emit(d, type, code, press) ==
  [d EXCEPT !.down = IF press THEN @ \cup {<<type, code>>} ELSE @ \ {<<type, code>>},
            !.out  = Append(@, <<type, code, press>>)]

\* One entry of an action, when its button is pressed.
Perform(d, e) ==
  CASE e.type = "button" -> IF e.code = 1 /\ d.scroll THEN d
                            ELSE Emit(d, "button", e.code, e.press)
    [] e.type = "key"    -> Emit(d, "key", e.code, e.press)
    [] e.type = "modetoggle" -> [d EXCEPT !.absolute = ~@ \/ conf.kind = "pad"]
    [] e.type = "panscroll"  -> [d EXCEPT !.scroll = TRUE, !.pan = 0]

\* countPresses: presses less releases of a code from entry i on.
CountPresses(act, i) ==
  LET Of(press) == {j \in i .. Len(act) : act[j].code = act[i].code /\ act[j].press = press}
  IN  Cardinality(Of(TRUE)) - Cardinality(Of(FALSE))

\* Entry i of an action, when its button is released.
MutUndo(d, act, i) ==             \* panscroll goes on
  IF act[i].type \in {"button", "key"} /\ act[i].press /\ CountPresses(act, i) # 0
  THEN Emit(d, act[i].type, act[i].code, FALSE) ELSE d

Undo(d, act, i) ==
  CASE act[i].type = "panscroll" -> [d EXCEPT !.scroll = FALSE]
    [] act[i].type \in {"button", "key"} /\ act[i].press /\ CountPresses(act, i) # 0 ->
         Emit(d, act[i].type, act[i].code, FALSE)
    [] OTHER -> d

\* sendAction: the two loops over the entries of an action.
Press(d, act) ==
  LET after[i \in 0 .. Len(act)] == IF i = 0 THEN d ELSE Perform(after[i - 1], act[i])
  IN  after[Len(act)]
Release(d, act) ==
  LET after[i \in 0 .. Len(act)] == IF i = 0 THEN d ELSE Undo(after[i - 1], act, i)
  IN  after[Len(act)]

\* sendAButton
SendAButton(d, b, press) ==
  IF press THEN Press(d, actions[b]) ELSE Release(d, actions[b])

-----------------------------------------------------------------------------
(***************************************************************************)
(* Buttons and keys.                                                       *)
(***************************************************************************)
\* Send the buttons, from first on, that differ between old and now.
SendChange(d, old, now, b) ==
  IF (b \in old) # (b \in now) THEN SendAButton(d, b, b \in now) ELSE d

SendChanges(d, old, now, first) ==
  LET upto[n \in first .. NButtons] ==      \* the buttons below n are sent
        IF n = first THEN d ELSE SendChange(upto[n - 1], old, now, n - 1)
  IN  upto[NButtons]

\* wcmSendButtons of a Tablet PC: the tip enables the other buttons.
TabletPC(d, buttons) ==
  LET first == IF buttons \subseteq {0} THEN 0 ELSE 1
      tip   == 0 \in buttons
      was   == 0 \in d.buttons
  IN  CASE ~tip                                  -> SendChanges(d, d.buttons, {}, first)
        [] tip /\ ~was                           -> SendChanges(d, {}, buttons, first)
        [] tip /\ was /\ buttons # d.buttons     -> SendChanges(d, d.buttons, buttons \ {0}, 0)
        [] tip /\ was /\ buttons = d.buttons     -> SendChanges(d, d.buttons, buttons, first)

SendButtons(d, buttons) ==
  IF conf.tpc /\ conf.kind = "stylus" THEN TabletPC(d, buttons)
  ELSE SendChanges(d, d.buttons, buttons, 0)

\* wcmSendKeys
SendKey(d, old, keys, k) ==
  IF (k \in old) # (k \in keys) THEN Emit(d, "key", KeyCode[k], k \in keys) ELSE d

SendKeys(d, keys) ==
  LET upto[n \in 0 .. NKeys] ==
        IF n = 0 THEN d ELSE SendKey(upto[n - 1], d.keys, keys, n - 1)
  IN  upto[NKeys]

-----------------------------------------------------------------------------
(***************************************************************************)
(* Scrolling.  C's division truncates towards zero.                        *)
(***************************************************************************)
Abs(n)       == IF n < 0 THEN -n ELSE n
Quotient(a, b)  == IF a < 0 THEN -((-a) \div b) ELSE a \div b
Remainder(a, b) == a - b * Quotient(a, b)

\* wcmButtonPerNotch, for buttons 4 (up) and 5 (down).
Notch(d, button) == Emit(Emit(d, "button", button, TRUE), "button", button, FALSE)

ButtonPerNotch(d, distance) ==
  LET notches == Quotient(distance, Threshold)
      button  == IF notches > 0 THEN 4 ELSE 5
      after[i \in 0 .. Abs(notches)] ==
        IF i = 0 THEN [d EXCEPT !.pan = Remainder(distance, Threshold)]
        ELSE Notch(after[i - 1], button)
  IN  after[Abs(notches)]

\* wcmPanscroll, along one axis and not smooth.
MutPanscroll(d, r) ==             \* pans from where the tip came down, too
  IF ~d.scroll \/ 0 \notin r.buttons THEN [d EXCEPT !.pan = 0]
  ELSE ButtonPerNotch(d, d.pan + (r.y - d.y))

Panscroll(d, r) ==
  IF ~d.scroll \/ 0 \notin r.buttons THEN [d EXCEPT !.pan = 0]
  ELSE IF 0 \notin d.buttons         THEN d
  ELSE ButtonPerNotch(d, d.pan + (r.y - d.y))

\* getScrollDelta, for an axis that wraps after wrap (or does not: 0).
ScrollDelta(current, old, wrap, invert) ==
  LET delta   == IF invert THEN old - current ELSE current - old
      wrapped == IF delta < 0 THEN wrap + 1 + delta ELSE -(wrap + 1 - delta)
  IN  IF wrap # 0 /\ Abs(wrapped) < Abs(delta) THEN wrapped ELSE delta

\* getWheelButton and sendWheelStripEvent: the action of one click, if any.
WheelClick(d, delta, r) ==
  LET act == WheelAction[IF delta > 0 THEN "up" ELSE "down"]
  IN  IF delta = 0 \/ d.prox # r.prox THEN d ELSE Release(Press(d, act), act)

\* sendWheelStripEvents: the relative wheel of pucks and pads, the pad's ring.
WheelEvents(d, r) ==
  LET wheel == IF conf.kind \in {"cursor", "pad"}
               THEN WheelClick(d, ScrollDelta(r.wheel, 0, 0, FALSE), r) ELSE d
  IN  IF conf.kind = "pad"
      THEN WheelClick(wheel, ScrollDelta(r.ring, d.ring, MaxRing, TRUE), r) ELSE wheel

-----------------------------------------------------------------------------
(***************************************************************************)
(* An event.  A report r has the fields prox, buttons, keys, y, ring and   *)
(* wheel of a WacomDeviceState.                                            *)
(***************************************************************************)

\* sendCommonEvents
CommonEvents(d, r) ==
  LET panned  == Panscroll(d, r)
      pressed == IF d.buttons # r.buttons \/ (~d.prox /\ r.buttons = {})
                 THEN SendButtons(panned, r.buttons) ELSE panned
  IN  WheelEvents(pressed, r)

\* wcmSendPadEvents; the pad's axes are always set.
SendPadEvents(d, r) == SendKeys(CommonEvents(d, r), r.keys)

\* wcmSendNonPadEvents: out of proximity, all buttons go up.
SendNonPadEvents(d, r) ==
  IF r.prox THEN CommonEvents(d, r)
  ELSE IF d.buttons # {} THEN SendButtons(d, {}) ELSE d

MutEntering(d, r) ==              \* its buttons, too
  IF d.prox THEN d ELSE [d EXCEPT !.buttons = r.buttons, !.y = r.y, !.ring = r.ring]

\* When entering, oldState is that of the event, with no button down.
Entering(d, r) ==
  IF d.prox THEN d ELSE [d EXCEPT !.buttons = {}, !.y = r.y, !.ring = r.ring]

\* wcmUpdateOldState, or OUTPROX_STATE.
Updated(d, r) ==
  IF r.prox
  THEN [d EXCEPT !.prox = TRUE, !.buttons = r.buttons, !.keys = r.keys, !.y = r.y,
                 !.ring = r.ring]
  ELSE [d EXCEPT !.prox = FALSE, !.buttons = {}, !.keys = {}, !.y = 0, !.ring = 0]

\* wcmSendEvents
SendEvents(d, r) ==
  LET start == Entering([d EXCEPT !.out = <<>>, !.scroll = @ /\ r.prox], r)
      sent  == IF conf.kind = "pad" THEN SendPadEvents(start, r)
               ELSE SendNonPadEvents(start, r)
  IN  Updated(sent, r)

\* Only the pad has keys and a ring, only pucks and pads a wheel; the kernel
\* takes the pad out of proximity when nothing of it is touched any more.
ReportSet(keys, rows, rings, wheels) ==
  [prox : BOOLEAN, buttons : SUBSET ButtonSet, keys : SUBSET keys, y : rows,
   ring : rings, wheel : wheels]

Reports ==
  CASE conf.kind = "stylus" -> ReportSet({}, Rows, {0}, {0})
    [] conf.kind = "cursor" -> ReportSet({}, Rows, {0}, Wheels)
    [] conf.kind = "pad"    -> {r \in ReportSet(Keys, {0}, Ring, Wheels) :
                                  r.prox \/ (r.buttons = {} /\ r.keys = {})}

Panning(d) == d.scroll /\ 0 \in d.buttons

Clicks(out) ==
  LET Of(button) == {i \in DOMAIN out : out[i] = <<"button", button, TRUE>>}
  IN  Cardinality(Of(4)) - Cardinality(Of(5))

Event(r) ==
  /\ dev' = SendEvents(dev, r)
  /\ from' = IF Panning(dev) THEN from ELSE r.y
  /\ net' = IF Panning(dev) /\ Panning(dev') THEN net + Clicks(dev'.out) ELSE 0
  /\ UNCHANGED <<conf, actions>>

\* wcmSetActionProperty
Bind(b) ==
  /\ WhileHeld \/ b.button \notin dev.buttons
  /\ actions' = [actions EXCEPT ![b.button] = b.action]
  /\ UNCHANGED <<conf, dev, from, net>>

Next == \/ \E r \in Reports : Event(r)
        \/ \E b \in Bindings : Bind(b)

Spec == Init /\ [][Next]_vars

-----------------------------------------------------------------------------
(***************************************************************************)
(* What is asked of the actions.                                           *)
(***************************************************************************)

\* The actions that button b may be bound to.
Bound(b) == {DefaultAction[b]} \cup {x.action : x \in {y \in Bindings : y.button = b}}

Clicking(e) == e.type \in {"button", "key"}
Code(e)     == <<e.type, e.code>>
Codes(act)  == {Code(act[i]) : i \in {j \in DOMAIN act : Clicking(act[j])}}
Pans(act)   == \E i \in DOMAIN act : act[i].type = "panscroll"

KeyCodes(keys) == {<<"key", KeyCode[k]>> : k \in keys}
ScrollCodes    == {<<"button", 4>>, <<"button", 5>>}
WheelCodes     == UNION {Codes(WheelAction[dir]) : dir \in {"up", "down"}}

\* countPresses tells the codes of buttons and keys apart by their number only, and
\* the release of button 1 is kept from the server in panscroll mode.
Plain(act) ==
  /\ \A i, j \in DOMAIN act :
       Clicking(act[i]) /\ act[i].code = act[j].code => act[i].type = act[j].type
  /\ \A i, j \in DOMAIN act :
       act[i].type = "panscroll" /\ i < j /\ Code(act[j]) = <<"button", 1>> => act[j].press

\* No two buttons, keys, the wheels or the pan press the same button or key of the
\* server: it would go up with the first of them.
Separate ==
  /\ \A b, c \in ButtonSet : b # c =>
       \A act \in Bound(b), other \in Bound(c) : Codes(act) \cap Codes(other) = {}
  /\ \A b \in ButtonSet : \A act \in Bound(b) :
       Plain(act) /\ Codes(act) \cap (KeyCodes(Keys) \cup ScrollCodes \cup WheelCodes) = {}
  /\ \A dir \in {"up", "down"} : Plain(WheelAction[dir])
  /\ WheelCodes \cap KeyCodes(Keys) = {}
  /\ \A k, m \in Keys : KeyCode[k] = KeyCode[m] => k = m

\* With TPCButton the tip itself does not start panscroll mode: it is not always
\* released (see TipReleases).
TipNoPan == TRUE \in TPCChoices => \A act \in Bound(0) : ~Pans(act)

\* One button starts panscroll mode, and nothing but panning clicks its buttons.
OnePan ==
  /\ \E p \in ButtonSet : \A b \in ButtonSet \ {p} : \A act \in Bound(b) : ~Pans(act)
  /\ \A b \in ButtonSet : \A act \in Bound(b) : Codes(act) \cap ScrollCodes = {}
  /\ Kinds \subseteq {"stylus"} \/ WheelCodes \cap ScrollCodes = {}

-----------------------------------------------------------------------------
(***************************************************************************)
(* Properties.                                                             *)
(***************************************************************************)

\* What an action leaves pressed: its last event of a button or key is a press.
Holds(act) ==
  {Code(act[i]) : i \in {j \in DOMAIN act :
     /\ Clicking(act[j]) /\ act[j].press
     /\ \A k \in j + 1 .. Len(act) : Code(act[k]) = Code(act[j]) => act[k].press}}

HeldNow(buttons) == UNION {Holds(actions[b]) : b \in buttons}

\* Nothing is left pressed in the server that no held button or key holds ("Release
\* all non-released keys for this button"), and every held button has been announced,
\* also when the tool came with it pressed; only clicks of button 1 may be kept from
\* the server, while scrolling.
ButtonsAgree ==
  LET keys == KeyCodes(dev.keys)
  IN  ~conf.tpc => /\ dev.down \subseteq HeldNow(dev.buttons) \cup keys
                   /\ (HeldNow(dev.buttons) \ {<<"button", 1>>}) \cup keys \subseteq dev.down

\* "tip released? release all buttons"
TipReleases ==
  conf.tpc /\ conf.kind = "stylus" /\ 0 \notin dev.buttons => dev.down = {}

\* Panscroll mode ends with the button that started it, or with proximity.
ScrollHeld ==
  dev.scroll => \E b \in dev.buttons : Pans(actions[b])

\* No motion is lost or counted twice: what has been scrolled since the tip came
\* down, and what is pending, is the way the tip has come.
PanExact ==
  Panning(dev) => /\ Threshold * net + dev.pan = dev.y - from
                  /\ Abs(dev.pan) < Threshold
=============================================================================
