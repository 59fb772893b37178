---------------------------- MODULE Properties_proofs ----------------------------
(***************************************************************************)
(* Proofs about what clients do through properties.  Of Settings: types,   *)
(* that every device shows the rotation in effect when it is set through   *)
(* enabled devices only, and that clients are told of tools and of the     *)
(* touch switch.  Of Mappings: that lists of actions are applied whole,    *)
(* buttons run what their properties say and no mapping is lost.  Of       *)
(* Commands: that a command is read as it is meant, and shown as it can be *)
(* read again.                                                             *)
(***************************************************************************)
EXTENDS Commands, Settings, Loops, SequenceTheorems, TLAPS

Both == [suppress : Levels, raw : Windows]

\* What xsetwacom will send back are values it has read or was given.
Prepared == /\ user \in [Users -> {Resting} \cup [device : Devs, field : Fields, values : Both]]
            /\ SettingsTypeOK

LEMMA ClampedType == \A level \in Levels : Clamped(level) \in Levels
  BY SettingsAssumption DEF Clamped

LEMMA PreparedInit == SetInit => Prepared
<1> SUFFICES ASSUME NEW w \in Windows, NEW switch \in BOOLEAN, NEW d \in Devs,
                    tablet = [rotate |-> 0, suppress |-> DefaultSuppress, raw |-> w, switch |-> switch],
                    shown = [e \in Devs |-> [rotate |-> 0, suppress |-> DefaultSuppress, raw |-> w]],
                    serial = [e \in Devs |-> 0], heard = serial,
                    hwShown = switch, touchTimer = FALSE, timers = {}, present = {d}, on = {},
                    user = [u \in Users |-> Resting], wanted = DefaultSuppress
             PROVE  Prepared
  BY DEF SetInit
<1> QED
  BY SettingsAssumption DEF Prepared, SettingsTypeOK, Showing

LEMMA PreparedStep == Prepared /\ [SetNext]_setVars => Prepared'
<1> SUFFICES ASSUME Prepared, [SetNext]_setVars PROVE Prepared'
  OBVIOUS
<1> USE DEF Prepared, SettingsTypeOK
<1>1. ASSUME NEW d \in Devs, NEW v \in Rotations, Rotate(d, v) PROVE Prepared'
  <2>1. tablet' = [tablet EXCEPT !.rotate = v]
        /\ shown' = [e \in Devs |->
                 IF e = d \/ (e \in present /\ d \in on /\ tablet.rotate # v)
                 THEN [shown[e] EXCEPT !.rotate = v] ELSE shown[e]]
        /\ UNCHANGED <<serial, heard, hwShown, timers, touchTimer, present, on, user, wanted>>
    BY <1>1 DEF Rotate
  <2>2. \A e \in Devs : [shown[e] EXCEPT !.rotate = v] \in Showing
    BY DEF Showing
  <2>3. shown' \in [Devs -> Showing]
    BY <2>1, <2>2
  <2> QED
    BY <2>1, <2>3
<1>2. ASSUME NEW d \in Devs, NEW s \in ToolIds, Enter(d, s) PROVE Prepared'
  BY <1>2 DEF Enter
<1>3. ASSUME NEW d \in Devs, TellSerial(d) PROVE Prepared'
  BY <1>3 DEF TellSerial
<1>4. ASSUME NEW d \in Devs, Join(d) PROVE Prepared'
  <2>1. /\ tablet.suppress \in Levels /\ tablet.rotate \in Rotations
        /\ tablet.raw \in Windows /\ tablet.switch \in BOOLEAN
        /\ wanted \in Levels
    OBVIOUS
  <2>2. PICK l \in Levels : l = Clamped(tablet.suppress)
    BY <2>1, ClampedType
  <2>3. /\ tablet' = [tablet EXCEPT !.suppress = l]
        /\ shown' = [shown EXCEPT ![d] = [rotate |-> tablet.rotate, raw |-> tablet.raw,
                                          suppress |-> l]]
        /\ wanted' = Clamped(wanted)
        /\ present' = present \cup {d}
        /\ serial' = [serial EXCEPT ![d] = 0] /\ heard' = [heard EXCEPT ![d] = 0]
        /\ hwShown' = IF d = Touch THEN tablet.switch ELSE hwShown
        /\ UNCHANGED <<timers, touchTimer, on, user>>
    BY <1>4, <2>2 DEF Join
  <2>4. [rotate |-> tablet.rotate, raw |-> tablet.raw, suppress |-> l] \in Showing
    BY <2>1 DEF Showing
  <2>5. tablet' \in [rotate : Rotations, suppress : Levels, raw : Windows, switch : BOOLEAN]
    BY <2>3
  <2>6. shown' \in [Devs -> Showing]
    BY <2>3, <2>4
  <2>7. wanted' \in Levels /\ hwShown' \in BOOLEAN
    BY <2>1, <2>3, ClampedType
  <2>8. serial' \in [Devs -> ToolIds] /\ heard' \in [Devs -> ToolIds]
    BY <2>3, SettingsAssumption
  <2> QED
    BY <2>3, <2>5, <2>6, <2>7, <2>8
<1>5. ASSUME NEW d \in Devs, Leave(d) PROVE Prepared'
  BY <1>5 DEF Leave
<1>6. ASSUME NEW d \in Devs, Enable(d) PROVE Prepared'
  BY <1>6 DEF Enable
<1>7. ASSUME NEW d \in Devs, Disable(d) PROVE Prepared'
  BY <1>7 DEF Disable
<1>8. ASSUME NEW u \in Users, Submit(u) PROVE Prepared'
  <2>1. user' = [user EXCEPT ![u] = Resting]
        /\ UNCHANGED <<serial, heard, hwShown, timers, touchTimer, present, on>>
    BY <1>8 DEF Submit
  <2>2. user[u].device \in Devs /\ user[u].values.suppress \in Levels
        /\ user[u].values.raw \in Windows
    BY <1>8 DEF Submit, Both
  <2>3. CASE user[u].device \notin present
    BY <1>8, <2>1, <2>3 DEF Submit
  <2>4. CASE user[u].device \in present
    <3> PICK d \in Devs, l \in Levels, w \in Windows :
          d = user[u].device /\ l = user[u].values.suppress /\ w = user[u].values.raw
      BY <2>2
    <3>1. /\ tablet' = [tablet EXCEPT !.suppress = l, !.raw = w]
          /\ shown' = [shown EXCEPT ![d].suppress = l, ![d].raw = w]
          /\ wanted' = IF user[u].field = "suppress" THEN l ELSE wanted
      BY <1>8, <2>4 DEF Submit
    <3>2. PICK r : r = [shown[d] EXCEPT !.suppress = l, !.raw = w]
      OBVIOUS
    <3>3. r \in Showing
      BY <3>2 DEF Showing
    <3>4. shown' = [shown EXCEPT ![d] = r]
      BY <3>1, <3>2
    <3>5. shown' \in [Devs -> Showing]
      BY <3>3, <3>4
    <3>6. tablet' \in [rotate : Rotations, suppress : Levels, raw : Windows, switch : BOOLEAN]
      BY <3>1
    <3> QED
      BY <2>1, <3>1, <3>5, <3>6
  <2> QED
    BY <2>3, <2>4
<1>9. ASSUME NEW u \in Users, NEW d \in Devs, NEW f \in Fields, NEW v \in Values(f),
             Prepare(u, d, f, v)
      PROVE  Prepared'
  <2>1. UNCHANGED <<tablet, shown, serial, heard, hwShown, timers, touchTimer,
                    present, on, wanted>>
    BY <1>9 DEF Prepare
  <2>2. PICK b : b = [[suppress |-> shown[d].suppress, raw |-> shown[d].raw] EXCEPT ![f] = v]
    OBVIOUS
  <2>3. shown[d].suppress \in Levels /\ shown[d].raw \in Windows
    BY DEF Showing
  <2>4. b \in Both
    <3>1. CASE f = "suppress"
      BY <2>2, <2>3, <3>1 DEF Values, Both
    <3>2. CASE f = "raw"
      BY <2>2, <2>3, <3>2 DEF Values, Both
    <3> QED
      BY <3>1, <3>2 DEF Fields
  <2>5. PICK r : r = [device |-> d, field |-> f, values |-> b]
    OBVIOUS
  <2>6. r \in [device : Devs, field : Fields, values : Both]
    BY <2>4, <2>5
  <2>7. user' = [user EXCEPT ![u] = r]
    BY <1>9, <2>2, <2>5 DEF Prepare
  <2> QED
    BY <2>1, <2>6, <2>7
<1>10. ASSUME Mute PROVE Prepared'
  BY <1>10 DEF Mute
<1>11. ASSUME TellSwitch PROVE Prepared'
  BY <1>11 DEF TellSwitch
<1>12. CASE UNCHANGED setVars
  BY <1>12 DEF setVars
<1> QED
  BY <1>1, <1>2, <1>3, <1>4, <1>5, <1>6, <1>7, <1>8, <1>9, <1>10, <1>11, <1>12 DEF SetNext

\* The variables keep their types: a device that joins and xsetwacom's reading both
\* values and sending them back never leave what the properties may hold.
THEOREM SettingsTypeCorrect == SetSpec => []SettingsTypeOK
<1>1. Prepared => SettingsTypeOK
  BY DEF Prepared
<1> QED
  BY <1>1, PreparedInit, PreparedStep, PTL DEF SetSpec

\* A device is told of the rotation in effect before anybody can see it.
LEMMA RotationStep ==
  ASSUME ~ViaDisabled
  PROVE  Prepared /\ RotationTold /\ [SetNext]_setVars => RotationTold'
<1> SUFFICES ASSUME Prepared, RotationTold, [SetNext]_setVars PROVE RotationTold'
  OBVIOUS
<1> USE DEF Prepared, SettingsTypeOK, RotationTold
<1>1. ASSUME NEW d \in Devs, NEW v \in Rotations, Rotate(d, v) PROVE RotationTold'
  <2>1. d \in on /\ d \in present /\ present' = present /\ tablet'.rotate = v
    BY <1>1 DEF Rotate
  <2>2. ASSUME NEW e \in present PROVE shown'[e].rotate = v
    <3>1. e \in Devs /\ [shown[e] EXCEPT !.rotate = v].rotate = v
      BY DEF Showing
    <3>2. CASE e = d \/ tablet.rotate # v
      BY <1>1, <2>1, <3>1, <3>2 DEF Rotate
    <3>3. CASE e # d /\ tablet.rotate = v
      BY <1>1, <3>1, <3>3 DEF Rotate
    <3> QED
      BY <3>2, <3>3
  <2> QED
    BY <2>1, <2>2
<1>2. ASSUME NEW d \in Devs, Join(d) PROVE RotationTold'
  BY <1>2 DEF Join
<1>3. ASSUME NEW d \in Devs, Leave(d) PROVE RotationTold'
  BY <1>3 DEF Leave
<1>4. ASSUME NEW u \in Users, Submit(u) PROVE RotationTold'
  <2>1. present' = present /\ tablet'.rotate = tablet.rotate
    BY <1>4 DEF Submit
  <2>2. ASSUME NEW e \in present PROVE shown'[e].rotate = shown[e].rotate
    <3>1. shown[e] \in Showing
      OBVIOUS
    <3>2. CASE shown' = shown
      BY <3>2
    <3>3. CASE shown' # shown
      <4> PICK d, l, w :
            d = user[u].device /\ l = user[u].values.suppress /\ w = user[u].values.raw
        OBVIOUS
      <4>1. shown' = [shown EXCEPT ![d].suppress = l, ![d].raw = w]
        BY <1>4, <3>3 DEF Submit
      <4> QED
        BY <3>1, <4>1 DEF Showing
    <3> QED
      BY <3>2, <3>3
  <2> QED
    BY <2>1, <2>2
<1>5. ASSUME UNCHANGED <<shown, present>>, tablet'.rotate = tablet.rotate PROVE RotationTold'
  BY <1>5
<1>6. ASSUME Mute PROVE RotationTold'
  BY <1>6 DEF Mute
<1> QED
  BY <1>1, <1>2, <1>3, <1>4, <1>5, <1>6
     DEF SetNext, setVars, Enter, TellSerial, Enable, Disable, Prepare, TellSwitch

\* However the rotation is set through the enabled devices of a tablet, and whichever
\* devices are added meanwhile, each of them shows the one in effect.
THEOREM RotationAlways == ~ViaDisabled /\ SetSpec => []RotationTold
<1> SUFFICES ASSUME ~ViaDisabled PROVE SetSpec => []RotationTold
  OBVIOUS
<1>1. SetInit => Prepared /\ RotationTold
  <2>1. SetInit => RotationTold
    BY DEF SetInit, RotationTold
  <2> QED
    BY <2>1, PreparedInit
<1>2. Prepared /\ RotationTold /\ [SetNext]_setVars => (Prepared /\ RotationTold)'
  BY RotationStep, PreparedStep
<1> QED
  BY <1>1, <1>2, PTL DEF SetSpec

\* A change of tool or of the touch switch is never forgotten: the timer that will
\* tell of it is set in the step that changes it, and goes off only by telling.
THEOREM ListenersAlways == SetSpec => ListenersTold
<1> DEFINE A == /\ \A d \in on \cap on' : SerialTold(d) => SerialTold(d)'
                /\ Touch \in on \cap on' /\ SwitchTold => SwitchTold'
<1>1. ASSUME Prepared, [SetNext]_setVars PROVE A
  <2> USE DEF Prepared, SettingsTypeOK, SerialTold, SwitchTold
  <2>1. ASSUME NEW d \in Devs, NEW s \in ToolIds, Enter(d, s) PROVE A
    BY <2>1 DEF Enter
  <2>2. ASSUME NEW d \in Devs, TellSerial(d) PROVE A
    BY <1>1, <2>2 DEF TellSerial
  <2>3. ASSUME NEW d \in Devs, Join(d) PROVE A
    <3>1. d \notin on /\ \A e \in on : heard'[e] = heard[e] /\ serial'[e] = serial[e]
      BY <1>1, <2>3 DEF Join
    <3>2. PICK l : tablet' = [tablet EXCEPT !.suppress = l]
      BY <2>3 DEF Join
    <3>3. tablet'.switch = tablet.switch
      BY <3>2
    <3> QED
      BY <2>3, <3>1, <3>3 DEF Join
  <2>4. ASSUME NEW d \in Devs, Disable(d) PROVE A
    BY <1>1, <2>4 DEF Disable
  <2>5. ASSUME Mute PROVE A
    BY <2>5 DEF Mute
  <2>6. ASSUME TellSwitch PROVE A
    BY <2>6 DEF TellSwitch
  <2>7. ASSUME UNCHANGED <<serial, heard, hwShown, timers, touchTimer>>,
               tablet'.switch = tablet.switch
        PROVE  A
    BY <2>7
  <2>8. ASSUME NEW u \in Users, Submit(u) PROVE tablet'.switch = tablet.switch
    <3>1. CASE tablet' = tablet
      BY <3>1
    <3>2. CASE tablet' # tablet
      <4> PICK l, w : l = user[u].values.suppress /\ w = user[u].values.raw
        OBVIOUS
      <4>1. tablet' = [tablet EXCEPT !.suppress = l, !.raw = w]
        BY <2>8, <3>2 DEF Submit
      <4> QED
        BY <4>1
    <3> QED
      BY <3>1, <3>2
  <2>9. ASSUME NEW d \in Devs, NEW v \in Rotations, Rotate(d, v) PROVE tablet'.switch = tablet.switch
    BY <2>9 DEF Rotate
  <2> HIDE DEF A
  <2> QED
    BY <1>1, <2>1, <2>2, <2>3, <2>4, <2>5, <2>6, <2>7, <2>8, <2>9
       DEF SetNext, setVars, Submit, Rotate, Prepare, Leave, Enable
<1>2. Prepared /\ [SetNext]_setVars => [A]_setVars
  BY <1>1
<1> HIDE DEF A
<1>3. SetSpec => [][A]_setVars
  BY <1>2, PreparedInit, PreparedStep, PTL DEF SetSpec
<1> QED
  BY <1>3 DEF A, ListenersTold

-----------------------------------------------------------------------------
(***************************************************************************)
(* Mappings: the buttons of a list, and the first of several.              *)
(***************************************************************************)
LEMMA Positions ==
  /\ ListLen \in Nat
  /\ \A b \in Buttons : PositionOf(b) \in 1..ListLen
  /\ \A i \in 1..ListLen : ButtonAt(i) = 0 \/ (ButtonAt(i) \in Buttons /\ PositionOf(ButtonAt(i)) = i)
  /\ \A b, c \in Buttons : PositionOf(b) <= PositionOf(c) => b <= c
  /\ \A b \in Buttons : ButtonAt(PositionOf(b)) = b /\ b # 0 /\ b \in Atoms
BY MappingsAssumption DEF MappingsAssumption, ListLen, PositionOf, ButtonAt, Buttons, Atoms

LEMMA FirstIs ==
  ASSUME NEW S \in SUBSET Buttons, S # {}
  PROVE  First(S) \in S /\ \A b \in S : First(S) <= b
<1> DEFINE I == {n \in Nat : \A m \in 0..n : m \notin S}
<1>1. ASSUME \A b \in S : \E e \in S : ~(b <= e)
      PROVE  FALSE
  <2>1. Buttons \subseteq Nat /\ 0 \notin Buttons
    BY MappingsAssumption DEF MappingsAssumption, Buttons
  <2>2. 0 \in I
    BY <2>1
  <2>3. ASSUME NEW n \in I PROVE n + 1 \in I
    BY <1>1, <2>1
  <2>4. I = Nat
    BY <2>2, <2>3, Induct
  <2>5. PICK b : b \in S
    OBVIOUS
  <2>6. b \in I /\ b \in 0..b
    BY <2>1, <2>4, <2>5
  <2> QED
    BY <2>5, <2>6
<1>2. PICK b \in S : \A e \in S : b <= e
  BY <1>1
<1> QED
  BY <1>2 DEF First

\* b is the first button with its handler.
Leads(h, b) == \A e \in Buttons : h[e] = h[b] => b <= e

LEMMA LeadsFirst ==
  ASSUME NEW h, NEW b \in Buttons
  PROVE  (b = First(UsersOf(h, h[b]))) <=> Leads(h, b)
<1> DEFINE S == UsersOf(h, h[b])
<1>1. S \in SUBSET Buttons /\ b \in S
  BY DEF UsersOf
<1>2. First(S) \in S /\ \A e \in S : First(S) <= e
  BY <1>1, FirstIs
<1>3. Leads(h, b) <=> \A e \in S : b <= e
  BY DEF UsersOf, Leads
<1>4. Buttons \subseteq Int
  BY MappingsAssumption DEF MappingsAssumption, Buttons
<1> HIDE DEF S
<1>5. (b = First(S)) <=> (\A e \in S : b <= e)
  <2> DEFINE f == First(S)
  <2>1. f \in S /\ (\A e \in S : f <= e) /\ f \in Int /\ b \in Int
    BY <1>1, <1>2, <1>4
  <2> HIDE DEF f
  <2>2. (b = f) <=> (\A e \in S : b <= e)
    BY <1>1, <2>1
  <2> QED
    BY <2>2 DEF f
<1> QED
  BY <1>3, <1>5 DEF S

-----------------------------------------------------------------------------
(***************************************************************************)
(* Values and lists.                                                       *)
(***************************************************************************)
Content == Contents \cup {NoProp} \cup {Default(b) : b \in Buttons}
           \cup {Parse(words).acts : words \in Commands}
Drivers == [ok : BOOLEAN, handler : [Buttons -> Atoms], action : [Buttons -> Content],
            prop : [Atoms -> Content]]
AList(l) == l \in Seq(Atoms \cup {0}) /\ Len(l) = ListLen

LEMMA DefaultValid == \A b \in Buttons : Default(b) \in Content /\ Valid(Default(b))
<1> TAKE b \in Buttons
<1>1. Default(b) \in Content
  BY DEF Content
<1>2. Default(b) \notin {Junk, NoProp}
  BY MappingsAssumption DEF MappingsAssumption
<1>3. Len(Default(b)) = 1 /\ DOMAIN Default(b) = {1} /\ Default(b)[1].code = PositionOf(b)
  BY DEF Default, Act
<1>4. 1 < TooMany /\ PositionOf(b) <= MaxX11
  BY MappingsAssumption DEF MappingsAssumption, Buttons, PositionOf
<1> QED
  BY <1>1, <1>2, <1>3, <1>4 DEF Valid

\* x is d after a property was set.
ChangedTo(x, d, a, c) ==
  /\ x \in Drivers /\ x.ok = d.ok /\ x.handler = d.handler
  /\ x.prop = [d.prop EXCEPT ![a] = c]
  /\ x.action = IF UsersOf(d.handler, a) = {} THEN d.action
                ELSE [d.action EXCEPT ![First(UsersOf(d.handler, a))] = c]

LEMMA ChangedDoes ==
  ASSUME NEW d \in Drivers, NEW a \in Atoms, NEW c \in Content
  PROVE  ChangedTo(Changed(d, a, c), d, a, c)
<1> DEFINE U == UsersOf(d.handler, a)
<1>1. CASE U = {}
  <2>1. Changed(d, a, c) = [d EXCEPT !.prop[a] = c]
    BY <1>1 DEF Changed
  <2> QED
    BY <1>1, <2>1 DEF ChangedTo, Drivers
<1>2. CASE U # {}
  <2>1. U \in SUBSET Buttons
    BY DEF UsersOf
  <2>2. First(U) \in Buttons
    BY <1>2, <2>1, FirstIs
  <2> DEFINE f == First(U)
           p == [d.prop EXCEPT ![a] = c]
           q == [d.action EXCEPT ![f] = c]
           x == [d EXCEPT !.prop = p, !.action = q]
  <2>3. Changed(d, a, c) = x
    BY <1>2 DEF Changed
  <2>4. f \in Buttons
    BY <2>2
  <2> HIDE DEF f, U
  <2>5. p \in [Atoms -> Content] /\ q \in [Buttons -> Content]
    BY <2>4 DEF Drivers
  <2> HIDE DEF p, q
  <2>6. x \in Drivers /\ x.ok = d.ok /\ x.handler = d.handler /\ x.prop = p /\ x.action = q
    BY <2>5 DEF Drivers
  <2> HIDE DEF x
  <2> QED
    BY <1>2, <2>3, <2>6 DEF ChangedTo, f, U, p, q
<1> QED
  BY <1>1, <1>2

\* x is d after button b was reset.
ResetTo(x, d, b) ==
  /\ x \in Drivers /\ x.ok = d.ok
  /\ x.handler = [d.handler EXCEPT ![b] = b]
  /\ x.prop = [d.prop EXCEPT ![b] = Default(b)]
  /\ x.action[b] = Default(b)
  /\ \A e \in Buttons \ {b} :
       x.action[e] = IF d.handler[e] = b /\ Leads(d.handler, e) THEN Default(b) ELSE d.action[e]

LEMMA ResetDoes ==
  ASSUME NEW d \in Drivers, NEW b \in Buttons
  PROVE  ResetTo(Reset(d, b), d, b)
<1> DEFINE v == Default(b)
           c == [d EXCEPT !.action[b] = v]
           y == Changed(c, b, v)
           x == [y EXCEPT !.handler[b] = b]
           U == UsersOf(d.handler, b)
<1>0. Reset(d, b) = x
  BY DEF Reset
<1>1. b \in Atoms /\ v \in Content
  BY Positions, DefaultValid
<1> HIDE DEF v
<1>2. /\ c \in Drivers /\ c.ok = d.ok /\ c.handler = d.handler /\ c.prop = d.prop
      /\ c.action = [d.action EXCEPT ![b] = v]
  BY <1>1 DEF Drivers
<1> HIDE DEF c
<1>3. ChangedTo(y, c, b, v)
  BY <1>1, <1>2, ChangedDoes
<1> HIDE DEF y
<1>4. /\ y \in Drivers /\ y.ok = d.ok /\ y.handler = d.handler /\ y.prop = [d.prop EXCEPT ![b] = v]
      /\ y.action = IF U = {} THEN c.action ELSE [c.action EXCEPT ![First(U)] = v]
  BY <1>2, <1>3 DEF ChangedTo
<1>5. /\ x \in Drivers /\ x.ok = y.ok /\ x.prop = y.prop /\ x.action = y.action
      /\ x.handler = [y.handler EXCEPT ![b] = b]
  BY <1>1, <1>4 DEF Drivers
<1> HIDE DEF x
<1>6. \A e \in Buttons : (U # {} /\ e = First(U)) <=> (d.handler[e] = b /\ Leads(d.handler, e))
  <2> TAKE e \in Buttons
  <2>1. U \in SUBSET Buttons /\ (e \in U <=> d.handler[e] = b)
    BY DEF UsersOf
  <2>2. U # {} => First(U) \in U
    BY <2>1, FirstIs
  <2>3. d.handler[e] = b => (Leads(d.handler, e) <=> e = First(U))
    BY LeadsFirst
  <2> HIDE DEF U
  <2> QED
    BY <2>1, <2>2, <2>3
<1>7. c.action \in [Buttons -> Content] /\ d.action \in [Buttons -> Content]
  BY <1>2 DEF Drivers
<1> HIDE DEF U
<1>8. \A e \in Buttons : y.action[e] = IF U # {} /\ e = First(U) THEN v ELSE c.action[e]
  BY <1>4, <1>7
<1>9. /\ c.action[b] = v
      /\ \A e \in Buttons \ {b} : c.action[e] = d.action[e]
  BY <1>2, <1>7
<1>10. /\ x.action[b] = v
       /\ \A e \in Buttons \ {b} :
            x.action[e] = IF d.handler[e] = b /\ Leads(d.handler, e) THEN v ELSE d.action[e]
  BY <1>5, <1>6, <1>8, <1>9
<1> QED
  BY <1>0, <1>4, <1>5, <1>10 DEF ResetTo, v

\* x is d after a handler was set for button b.
HandlerSet(x, d, b, a) ==
  /\ x \in Drivers /\ x.ok = d.ok /\ x.prop = d.prop
  /\ x.handler = [d.handler EXCEPT ![b] = a]
  /\ x.action = [d.action EXCEPT ![b] = d.prop[a]]

\* x is d after entry i of a list, a.
EntryDone(x, d, i, a) ==
  LET b == ButtonAt(i)
  IN /\ x \in Drivers
     /\ (~d.ok \/ b = 0) => x = d
     /\ d.ok /\ b # 0 /\ a = 0 => ResetTo(x, d, b)
     /\ d.ok /\ b # 0 /\ a # 0 /\ Valid(d.prop[a]) => HandlerSet(x, d, b, a)

LEMMA EntryDoes ==
  ASSUME NEW d \in Drivers, NEW i \in 1..ListLen, NEW a \in Atoms \cup {0}
  PROVE  EntryDone(Entry(d, i, a), d, i, a)
<1> DEFINE b == ButtonAt(i)
           x == Entry(d, i, a)
<1>0. b = 0 \/ (b \in Buttons /\ b # 0)
  BY Positions
<1>1. CASE ~d.ok \/ b = 0
  <2>1. x = d
    BY <1>1 DEF Entry
  <2> QED
    BY <1>1, <2>1 DEF EntryDone
<1>2. CASE d.ok /\ b \in Buttons /\ b # 0 /\ a = 0
  <2>1. x = Reset(d, b)
    BY <1>2 DEF Entry
  <2> HIDE DEF b, x
  <2>2. ResetTo(x, d, b)
    BY <1>2, <2>1, ResetDoes
  <2>3. x \in Drivers
    BY <2>2 DEF ResetTo
  <2> QED
    BY <1>2, <2>2, <2>3 DEF EntryDone, b, x
<1>3. CASE d.ok /\ b \in Buttons /\ b # 0 /\ a # 0 /\ Valid(d.prop[a])
  <2> DEFINE h == [d.handler EXCEPT ![b] = a]
             q == [d.action EXCEPT ![b] = d.prop[a]]
             z == [d EXCEPT !.handler = h, !.action = q]
  <2>1. x = z
    BY <1>3 DEF Entry
  <2> HIDE DEF b, x
  <2>2. h \in [Buttons -> Atoms] /\ q \in [Buttons -> Content]
    BY <1>3 DEF Drivers
  <2> HIDE DEF h, q
  <2>3. z \in Drivers /\ z.ok = d.ok /\ z.prop = d.prop /\ z.handler = h /\ z.action = q
    BY <2>2 DEF Drivers
  <2> HIDE DEF z
  <2>4. HandlerSet(x, d, b, a)
    BY <2>1, <2>3 DEF HandlerSet, h, q
  <2> QED
    BY <1>3, <2>1, <2>3, <2>4 DEF EntryDone, b, x
<1>4. CASE d.ok /\ b \in Buttons /\ b # 0 /\ a # 0 /\ ~Valid(d.prop[a])
  <2>1. x = [d EXCEPT !.ok = FALSE]
    BY <1>4 DEF Entry
  <2>2. [d EXCEPT !.ok = FALSE] \in Drivers
    BY DEF Drivers
  <2> HIDE DEF b, x
  <2>3. x \in Drivers
    BY <2>1, <2>2
  <2> QED
    BY <1>4, <2>3 DEF EntryDone, b, x
<1> QED
  BY <1>0, <1>1, <1>2, <1>3, <1>4

\* f holds what the driver is after each entry of the list.
EntriesDone(f, d, l) ==
  /\ f[0] = d
  /\ \A i \in 0..ListLen : f[i] \in Drivers
  /\ \A i \in 1..ListLen : EntryDone(f[i], f[i - 1], i, l[i])
  /\ Applied(d, l) = f[ListLen]

LEMMA AppliedLoop ==
  ASSUME NEW d \in Drivers, NEW l, AList(l)
  PROVE  \E f : EntriesDone(f, d, l)
<1> DEFINE step == [i \in 1..ListLen |-> [x \in Drivers |-> Entry(x, i, l[i])]]
<1>0. ListLen \in Nat
  BY Positions
<1>1. ASSUME NEW i \in 1..ListLen PROVE l[i] \in Atoms \cup {0}
  BY DEF AList
<1>2. ASSUME NEW i \in 1..ListLen, NEW x \in Drivers
      PROVE  EntryDone(Entry(x, i, l[i]), x, i, l[i]) /\ Entry(x, i, l[i]) \in Drivers
  <2>1. EntryDone(Entry(x, i, l[i]), x, i, l[i])
    BY <1>1, EntryDoes
  <2> QED
    BY <2>1 DEF EntryDone
<1>3. step \in [1..ListLen -> [Drivers -> Drivers]]
  BY <1>2
<1>4. \A i \in 1..ListLen, x \in Drivers : step[i][x] = Entry(x, i, l[i])
  OBVIOUS
<1> HIDE DEF step
<1>5. PICK f : Runs(f, ListLen, Drivers, d, step)
  BY <1>0, <1>3, LoopRuns
<1>6. \A i \in 1..ListLen : f[i] = Entry(f[i - 1], i, l[i])
  <2>1. \A i \in 1..ListLen : i - 1 \in 0..ListLen
    BY <1>0
  <2> QED
    BY <1>4, <1>5, <2>1 DEF Runs
<1>7. f = [i \in 0..ListLen |-> IF i = 0 THEN d ELSE Entry(f[i - 1], i, l[i])]
  <2>1. \A i \in 0..ListLen : i = 0 \/ (i # 0 /\ i \in 1..ListLen)
    BY <1>0
  <2>2. \A i \in 0..ListLen : f[i] = IF i = 0 THEN d ELSE Entry(f[i - 1], i, l[i])
    BY <1>5, <1>6, <2>1 DEF Runs
  <2> QED
    BY <1>5, <2>2 DEF Runs
<1> DEFINE g == CHOOSE g : g = [i \in 0..ListLen |-> IF i = 0 THEN d ELSE Entry(g[i - 1], i, l[i])]
<1>8. g = [i \in 0..ListLen |-> IF i = 0 THEN d ELSE Entry(g[i - 1], i, l[i])]
  BY <1>7
<1>9. Applied(d, l) = g[ListLen]
  BY DEF Applied, AList
<1> HIDE DEF g
<1>10. g[0] = d /\ \A i \in 1..ListLen : g[i] = Entry(g[i - 1], i, l[i])
  BY <1>0, <1>8
<1>11. \A i \in 0..ListLen : g[i] \in Drivers
  <2>1. \A i \in 0..ListLen : g[i] = f[i]
    BY <1>0, <1>4, <1>5, <1>10, LoopOnly
  <2> QED
    BY <1>5, <2>1 DEF Runs
<1>12. \A i \in 1..ListLen : EntryDone(g[i], g[i - 1], i, l[i])
  <2> TAKE i \in 1..ListLen
  <2>1. i - 1 \in 0..ListLen
    BY <1>0
  <2> QED
    BY <1>2, <1>10, <1>11, <2>1
<1>13. EntriesDone(g, d, l)
  BY <1>9, <1>10, <1>11, <1>12 DEF EntriesDone
<1> QED
  BY <1>13

\* A list that was accepted is carried out to its end, because a button that is reset
\* gets valid actions only.
Sane(d, old) == d.ok /\ \A a \in Atoms : d.prop[a] = old.prop[a] \/ Valid(d.prop[a])

LEMMA SaneEntry ==
  ASSUME NEW old \in Drivers, NEW l, AList(l), ListAccepted(old, l), NEW i \in 1..ListLen,
         NEW d \in Drivers, Sane(d, old), NEW x, EntryDone(x, d, i, l[i])
  PROVE  /\ Sane(x, old)
         /\ ButtonAt(i) = 0 => x = d
         /\ ButtonAt(i) # 0 /\ l[i] = 0 => ResetTo(x, d, ButtonAt(i))
         /\ ButtonAt(i) # 0 /\ l[i] # 0 => HandlerSet(x, d, ButtonAt(i), l[i])
<1> DEFINE b == ButtonAt(i)
           a == l[i]
<1>0. d.ok /\ a \in Atoms \cup {0} /\ 0 \notin Atoms /\ (b = 0 \/ (b \in Buttons /\ b # 0)) /\ d.prop \in [Atoms -> Content]
  BY Positions DEF Sane, AList, Atoms, Drivers
<1>1. b # 0 /\ a # 0 => Valid(d.prop[a])
  <2>1. ASSUME b # 0, a # 0 PROVE Valid(old.prop[a])
    <3>1. i \in DOMAIN l
      BY DEF AList
    <3> QED
      BY <2>1, <3>1 DEF ListAccepted
  <2> QED
    BY <1>0, <2>1 DEF Sane
<1>2. EntryDone(x, d, i, a)
  OBVIOUS
<1> HIDE DEF a
<1>3. /\ b = 0 => x = d
      /\ b # 0 /\ a = 0 => ResetTo(x, d, b)
      /\ b # 0 /\ a # 0 => HandlerSet(x, d, b, a)
  BY <1>0, <1>1, <1>2 DEF EntryDone
<1> HIDE DEF b
<1>4. Sane(x, old)
  <2>1. CASE b = 0
    BY <1>3, <2>1
  <2>2. CASE b # 0 /\ a = 0
    <3>1. ResetTo(x, d, b) /\ b \in Atoms /\ Valid(Default(b))
      BY <1>0, <1>3, <2>2, Positions, DefaultValid
    <3>2. x.ok = d.ok /\ x.prop = [d.prop EXCEPT ![b] = Default(b)]
      BY <3>1 DEF ResetTo
    <3> QED
      BY <1>0, <3>1, <3>2 DEF Sane
  <2>3. CASE b # 0 /\ a # 0
    BY <1>3, <2>3 DEF HandlerSet, Sane
  <2> QED
    BY <2>1, <2>2, <2>3
<1> QED
  BY <1>3, <1>4 DEF a, b

\* What a list does, entry for entry.
ListDone(f, d, l) ==
  /\ f[0] = d
  /\ \A i \in 0..ListLen : f[i] \in Drivers /\ Sane(f[i], d)
  /\ \A i \in 1..ListLen : /\ ButtonAt(i) = 0 => f[i] = f[i - 1]
                           /\ ButtonAt(i) # 0 /\ l[i] = 0 => ResetTo(f[i], f[i - 1], ButtonAt(i))
                           /\ ButtonAt(i) # 0 /\ l[i] # 0 =>
                                HandlerSet(f[i], f[i - 1], ButtonAt(i), l[i])
  /\ Applied(d, l) = f[ListLen]

LEMMA AppliedWhole ==
  ASSUME NEW d \in Drivers, d.ok, NEW l, AList(l), ListAccepted(d, l)
  PROVE  \E f : ListDone(f, d, l)
<1>0. ListLen \in Nat
  BY Positions
<1>1. PICK f : EntriesDone(f, d, l)
  BY AppliedLoop
<1>2. \A i \in 1..ListLen : i - 1 \in 0..ListLen
  BY <1>0
<1>3. \A i \in 0..ListLen : f[i] \in Drivers
  BY <1>1 DEF EntriesDone
<1>4. ASSUME NEW i \in 1..ListLen, Sane(f[i - 1], d)
      PROVE  /\ Sane(f[i], d)
             /\ ButtonAt(i) = 0 => f[i] = f[i - 1]
             /\ ButtonAt(i) # 0 /\ l[i] = 0 => ResetTo(f[i], f[i - 1], ButtonAt(i))
             /\ ButtonAt(i) # 0 /\ l[i] # 0 => HandlerSet(f[i], f[i - 1], ButtonAt(i), l[i])
  <2>1. EntryDone(f[i], f[i - 1], i, l[i]) /\ f[i - 1] \in Drivers
    BY <1>1, <1>2, <1>3 DEF EntriesDone
  <2> QED
    BY <1>4, <2>1, SaneEntry
<1> DEFINE I == {i \in 0..ListLen : Sane(f[i], d)}
<1>5. 0 \in I
  BY <1>0, <1>1 DEF EntriesDone, Sane
<1>6. ASSUME NEW n \in I, n < ListLen PROVE n + 1 \in I
  <2>1. n + 1 \in 1..ListLen /\ (n + 1) - 1 = n /\ n + 1 \in 0..ListLen
    BY <1>0, <1>6
  <2>2. Sane(f[n + 1], d)
    BY <1>4, <2>1
  <2> QED
    BY <2>1, <2>2
<1>7. \A n \in 0..ListLen : n \in I
  <2>1. I \in SUBSET (0..ListLen)
    OBVIOUS
  <2> HIDE DEF I
  <2> QED
    BY <1>0, <1>5, <1>6, <2>1, EachUpTo
<1>8. \A i \in 0..ListLen : Sane(f[i], d)
  BY <1>7
<1> HIDE DEF I
<1>9. ListDone(f, d, l)
  BY <1>1, <1>2, <1>3, <1>4, <1>8 DEF ListDone, EntriesDone
<1> QED
  BY <1>9

-----------------------------------------------------------------------------
(***************************************************************************)
(* Buttons run what their properties say.                                  *)
(***************************************************************************)
AgreedTo(d, i) ==
  \A b \in Buttons : PositionOf(b) <= i /\ Leads(d.handler, b) => d.action[b] = d.prop[d.handler[b]]
Agreed(d) == \A b \in Buttons : Leads(d.handler, b) => d.action[b] = d.prop[d.handler[b]]

LEMMA ChangedAgrees ==
  ASSUME NEW d \in Drivers, NEW a \in Atoms, NEW c \in Content, Agreed(d)
  PROVE  Changed(d, a, c) \in Drivers /\ Changed(d, a, c).ok = d.ok /\ Agreed(Changed(d, a, c))
<1> DEFINE x == Changed(d, a, c)
           U == UsersOf(d.handler, a)
<1>1. ChangedTo(x, d, a, c)
  BY ChangedDoes
<1> HIDE DEF x
<1>2. d.prop \in [Atoms -> Content] /\ d.action \in [Buttons -> Content] /\ d.handler \in [Buttons -> Atoms]
  BY DEF Drivers
<1>3. /\ x.handler = d.handler /\ x.prop = [d.prop EXCEPT ![a] = c]
      /\ x.action = IF U = {} THEN d.action ELSE [d.action EXCEPT ![First(U)] = c]
  BY <1>1 DEF ChangedTo
<1>4. ASSUME NEW b \in Buttons, Leads(x.handler, b)
      PROVE  x.action[b] = x.prop[x.handler[b]]
  <2>1. Leads(d.handler, b) /\ d.action[b] = d.prop[d.handler[b]] /\ d.handler[b] \in Atoms
    BY <1>2, <1>3, <1>4 DEF Agreed
  <2>2. CASE d.handler[b] = a
    <3>1. b \in U /\ b = First(U)
      BY <2>1, <2>2, LeadsFirst DEF UsersOf
    <3>2. x.action[b] = c /\ x.prop[a] = c
      BY <1>2, <1>3, <3>1
    <3> QED
      BY <1>3, <2>2, <3>2
  <2>3. CASE d.handler[b] # a
    <3>1. U # {} => First(U) # b
      <4>1. U \in SUBSET Buttons /\ b \notin U
        BY <2>3 DEF UsersOf
      <4> QED
        BY <4>1, FirstIs
    <3>2. x.action[b] = d.action[b] /\ x.prop[d.handler[b]] = d.prop[d.handler[b]]
      BY <1>2, <1>3, <2>1, <2>3, <3>1
    <3> QED
      BY <1>3, <2>1, <3>2
  <2> QED
    BY <2>2, <2>3
<1> QED
  BY <1>1, <1>4 DEF x, ChangedTo, Agreed

LEMMA EntryAgrees ==
  ASSUME NEW i \in 1..ListLen, NEW a \in Atoms \cup {0}, NEW d \in Drivers, NEW x \in Drivers,
         AgreedTo(d, i - 1),
         ButtonAt(i) = 0 => x = d,
         ButtonAt(i) # 0 /\ a = 0 => ResetTo(x, d, ButtonAt(i)),
         ButtonAt(i) # 0 /\ a # 0 => HandlerSet(x, d, ButtonAt(i), a)
  PROVE  AgreedTo(x, i)
<1> DEFINE b == ButtonAt(i)
<1>0. /\ ListLen \in Nat /\ (b = 0 \/ (b \in Buttons /\ b # 0 /\ PositionOf(b) = i /\ b \in Atoms))
      /\ 0 \notin Atoms /\ Buttons \subseteq Int
  BY Positions, MappingsAssumption DEF MappingsAssumption, Atoms, Buttons
<1>1. d.prop \in [Atoms -> Content] /\ d.action \in [Buttons -> Content] /\ d.handler \in [Buttons -> Atoms]
  BY DEF Drivers
<1>2. \A c \in Buttons \ {b} : PositionOf(c) <= i => PositionOf(c) <= i - 1
  <2> TAKE c \in Buttons \ {b}
  <2>1. PositionOf(c) \in 1..ListLen /\ ButtonAt(PositionOf(c)) = c
    BY Positions
  <2>2. PositionOf(c) # i
    BY <2>1
  <2> QED
    BY <1>0, <2>1, <2>2
<1>3. CASE b = 0
  <2>1. b \notin Buttons
    BY <1>3, Positions
  <2> QED
    BY <1>2, <1>3, <2>1 DEF AgreedTo
<1>4. \A c \in Buttons \ {b} : b # 0 /\ PositionOf(c) <= i => c <= b
  BY <1>0, Positions
<1>5. ASSUME b # 0, NEW h \in Atoms, x.handler = [d.handler EXCEPT ![b] = h],
             NEW c \in Buttons \ {b}, PositionOf(c) <= i, Leads(x.handler, c)
      PROVE  /\ Leads(d.handler, c) /\ d.action[c] = d.prop[d.handler[c]]
             /\ x.handler[c] = d.handler[c] /\ d.handler[c] \in Atoms
  <2>1. \A e \in Buttons \ {b} : x.handler[e] = d.handler[e]
    BY <1>0, <1>1, <1>5
  <2>2. c <= b
    BY <1>4, <1>5
  <2>3. Leads(d.handler, c)
    BY <1>5, <2>1, <2>2 DEF Leads
  <2> QED
    BY <1>1, <1>2, <1>5, <2>1, <2>3 DEF AgreedTo
<1>6. CASE b # 0 /\ a = 0
  <2>1. ResetTo(x, d, b) /\ b \in Buttons /\ b \in Atoms
    BY <1>0, <1>6
  <2> HIDE DEF b
  <2>2. x.handler = [d.handler EXCEPT ![b] = b] /\ x.prop = [d.prop EXCEPT ![b] = Default(b)]
    BY <2>1 DEF ResetTo
  <2>3. x.action[b] = x.prop[x.handler[b]]
    BY <1>1, <2>1, <2>2 DEF ResetTo
  <2>4. ASSUME NEW c \in Buttons \ {b}, PositionOf(c) <= i, Leads(x.handler, c)
        PROVE  x.action[c] = x.prop[x.handler[c]]
    <3>1. /\ Leads(d.handler, c) /\ d.action[c] = d.prop[d.handler[c]]
          /\ x.handler[c] = d.handler[c] /\ d.handler[c] \in Atoms
      BY <1>5, <1>6, <2>1, <2>2, <2>4
    <3>2. x.action[c] = IF d.handler[c] = b THEN Default(b) ELSE d.action[c]
      BY <2>1, <3>1 DEF ResetTo
    <3>3. x.prop[d.handler[c]] = IF d.handler[c] = b THEN Default(b) ELSE d.prop[d.handler[c]]
      BY <1>1, <2>2, <3>1
    <3> QED
      BY <3>1, <3>2, <3>3
  <2> QED
    BY <2>3, <2>4 DEF AgreedTo
<1>7. CASE b # 0 /\ a # 0
  <2>1. HandlerSet(x, d, b, a) /\ b \in Buttons /\ a \in Atoms
    BY <1>0, <1>7
  <2> HIDE DEF b
  <2>2. /\ x.handler = [d.handler EXCEPT ![b] = a] /\ x.prop = d.prop
        /\ x.action = [d.action EXCEPT ![b] = d.prop[a]]
    BY <2>1 DEF HandlerSet
  <2>3. x.action[b] = x.prop[x.handler[b]]
    BY <1>1, <2>1, <2>2
  <2>4. ASSUME NEW c \in Buttons \ {b}, PositionOf(c) <= i, Leads(x.handler, c)
        PROVE  x.action[c] = x.prop[x.handler[c]]
    <3>1. /\ d.action[c] = d.prop[d.handler[c]]
          /\ x.handler[c] = d.handler[c]
      BY <1>5, <1>7, <2>1, <2>2, <2>4
    <3> QED
      BY <1>1, <2>2, <3>1
  <2> QED
    BY <2>3, <2>4 DEF AgreedTo
<1> QED
  BY <1>3, <1>6, <1>7

\* Each button of a list gets its handler anew, and the first of those that share one
\* follows its changes: it does not matter what was before.
LEMMA AppliedAgrees ==
  ASSUME NEW d \in Drivers, d.ok, NEW l, AList(l), ListAccepted(d, l)
  PROVE  Applied(d, l) \in Drivers /\ Applied(d, l).ok /\ Agreed(Applied(d, l))
<1>0. ListLen \in Nat /\ \A b \in Buttons : PositionOf(b) \in 1..ListLen
  BY Positions
<1>1. PICK f : ListDone(f, d, l)
  BY AppliedWhole
<1>2. /\ \A i \in 0..ListLen : f[i] \in Drivers
      /\ \A i \in 1..ListLen : /\ ButtonAt(i) = 0 => f[i] = f[i - 1]
                               /\ ButtonAt(i) # 0 /\ l[i] = 0 => ResetTo(f[i], f[i - 1], ButtonAt(i))
                               /\ ButtonAt(i) # 0 /\ l[i] # 0 =>
                                    HandlerSet(f[i], f[i - 1], ButtonAt(i), l[i])
  BY <1>1 DEF ListDone
<1> DEFINE I == {i \in 0..ListLen : AgreedTo(f[i], i)}
<1>3. 0 \in I
  BY <1>0 DEF AgreedTo
<1>4. ASSUME NEW n \in I, n < ListLen PROVE n + 1 \in I
  <2> DEFINE i == n + 1
  <2>1. i \in 1..ListLen /\ i - 1 = n /\ i \in 0..ListLen /\ n \in 0..ListLen
    BY <1>0, <1>4
  <2>2. f[n] \in Drivers /\ f[i] \in Drivers /\ AgreedTo(f[n], n) /\ l[i] \in Atoms \cup {0}
    BY <1>2, <2>1 DEF AList
  <2> HIDE DEF i
  <2>3. AgreedTo(f[i], i)
    BY <1>2, <2>1, <2>2, EntryAgrees
  <2> QED
    BY <2>1, <2>3 DEF i
<1>5. I \in SUBSET (0..ListLen)
  OBVIOUS
<1> HIDE DEF I
<1>6. ListLen \in I
  BY <1>0, <1>3, <1>4, <1>5, UpTo
<1>7. AgreedTo(f[ListLen], ListLen)
  BY <1>6 DEF I
<1>8. Agreed(f[ListLen])
  BY <1>0, <1>7 DEF Agreed, AgreedTo
<1>9. f[ListLen] \in Drivers /\ f[ListLen].ok /\ Applied(d, l) = f[ListLen]
  BY <1>0, <1>1 DEF ListDone, Sane
<1> QED
  BY <1>8, <1>9

-----------------------------------------------------------------------------
(***************************************************************************)
(* Types, and the steps as changes of the driver's state.                  *)
(***************************************************************************)
Requests == {r \in [button : Buttons, acts : Content, list : Seq(Atoms \cup {0}),
                    step : {"reset", "property", "list"}] :
               AList(r.list) /\ r.list[PositionOf(r.button)] \in Atoms}

MapTypeOK == /\ handler \in [Buttons -> Atoms]
             /\ action \in [Buttons -> Content]
             /\ prop \in [Atoms -> Content]
             /\ client \in [Clients -> {Idle} \cup Requests]
             /\ asked \in [Buttons -> Content]
             /\ meddled \in BOOLEAN

LEMMA DriverType == MapTypeOK => driver \in Drivers /\ driver.ok
  BY DEF MapTypeOK, driver, Drivers

LEMMA Becomes ==
  ASSUME NEW d \in Drivers, d.ok, Become(d)
  PROVE  driver' = d /\ driver' \in Drivers
  BY DEF Become, driver, Drivers

LEMMA ListOfType ==
  ASSUME NEW h \in [Buttons -> Atoms]
  PROVE  /\ AList(ListOf(h))
         /\ \A i \in 1..ListLen : ListOf(h)[i] = IF ButtonAt(i) = 0 THEN 0 ELSE h[ButtonAt(i)]
         /\ \A b \in Buttons : ListOf(h)[PositionOf(b)] = h[b]
<1>0. ListLen \in Nat
  BY Positions
<1>1. \A i \in 1..ListLen : ButtonAt(i) = 0 \/ ButtonAt(i) \in Buttons
  BY Positions
<1>2. \A i \in 1..ListLen : ListOf(h)[i] = IF ButtonAt(i) = 0 THEN 0 ELSE h[ButtonAt(i)]
  BY DEF ListOf
<1>3. ListOf(h) \in [1..ListLen -> Atoms \cup {0}]
  BY <1>1 DEF ListOf
<1>4. AList(ListOf(h))
  BY <1>0, <1>3 DEF AList
<1>5. \A b \in Buttons : ListOf(h)[PositionOf(b)] = h[b]
  BY <1>2, Positions
<1> QED
  BY <1>2, <1>4, <1>5

LEMMA SentType ==
  ASSUME NEW r \in Requests
  PROVE  /\ AList(Sent(r))
         /\ \A i \in 1..ListLen :
              Sent(r)[i] = IF r.step = "reset" /\ i = PositionOf(r.button) THEN 0 ELSE r.list[i]
<1>1. AList(r.list) /\ r.button \in Buttons /\ PositionOf(r.button) \in 1..ListLen
  BY Positions DEF Requests
<1>2. DOMAIN r.list = 1..ListLen /\ ListLen \in Nat /\ r.list \in [1..ListLen -> Atoms \cup {0}]
  BY <1>1, Positions DEF AList
<1>3. Sent(r) = IF r.step = "reset" THEN [r.list EXCEPT ![PositionOf(r.button)] = 0] ELSE r.list
  BY DEF Sent
<1> DEFINE p == PositionOf(r.button)
           l == r.list
<1> HIDE DEF p, l
<1>4. [l EXCEPT ![p] = 0] \in [1..ListLen -> Atoms \cup {0}]
  BY <1>2 DEF l
<1>5. Sent(r) \in [1..ListLen -> Atoms \cup {0}]
  BY <1>2, <1>3, <1>4 DEF l, p
<1>6. AList(Sent(r))
  BY <1>2, <1>5 DEF AList
<1>7. \A i \in 1..ListLen :
              Sent(r)[i] = IF r.step = "reset" /\ i = p THEN 0 ELSE l[i]
  BY <1>2, <1>3 DEF l, p
<1> QED
  BY <1>6, <1>7 DEF l, p

LEMMA StartStep ==
  ASSUME MapTypeOK, NEW c \in Clients, NEW b \in Mapped, NEW words \in Commands,
         Start(c, b, words)
  PROVE  /\ MapTypeOK'
         /\ AList(ListOf(handler)) /\ ListAccepted(driver, ListOf(handler))
         /\ driver' = Applied(driver, ListOf(handler))
<1> DEFINE l == ListOf(handler)
           x == Applied(driver, l)
           r == [button |-> b, acts |-> Parse(words).acts, list |-> l,
                 step |-> IF Parse(words).acts = <<>> THEN "reset" ELSE "property"]
<1>1. driver \in Drivers /\ driver.ok
  BY DriverType
<1>2. b \in Buttons
  BY MappingsAssumption DEF MappingsAssumption
<1>3. AList(l) /\ l[PositionOf(b)] \in Atoms
  BY <1>2, ListOfType DEF MapTypeOK
<1>4. ListAccepted(driver, l) /\ Become(x) /\ client' = [client EXCEPT ![c] = r]
      /\ asked' = asked /\ meddled' = meddled
  BY DEF Start
<1>5. Parse(words).acts \in Content
  BY DEF Content
<1> HIDE DEF l
<1>6. x \in Drivers /\ x.ok
  BY <1>1, <1>3, <1>4, AppliedAgrees
<1> HIDE DEF x
<1>7. driver' = x /\ driver' \in Drivers
  BY <1>4, <1>6, Becomes
<1>8. r \in Requests
  <2>1. l \in Seq(Atoms \cup {0})
    BY <1>3 DEF AList
  <2> QED
    BY <1>2, <1>3, <1>5, <2>1 DEF Requests
<1> HIDE DEF r
<1>9. client' \in [Clients -> {Idle} \cup Requests]
  BY <1>4, <1>8 DEF MapTypeOK
<1>10. handler' \in [Buttons -> Atoms] /\ action' \in [Buttons -> Content] /\ prop' \in [Atoms -> Content]
  BY <1>7 DEF driver, Drivers
<1> QED
  BY <1>3, <1>4, <1>7, <1>9, <1>10 DEF MapTypeOK, l, x

LEMMA WritePropertyStep ==
  ASSUME MapTypeOK, NEW c \in Clients, WriteProperty(c)
  PROVE  /\ MapTypeOK'
         /\ client[c] \in Requests
         /\ \/ driver' = driver
            \/ driver' = Changed(driver, client[c].list[PositionOf(client[c].button)], client[c].acts)
<1> DEFINE r == client[c]
           a == r.list[PositionOf(r.button)]
           x == Changed(driver, a, r.acts)
<1>1. driver \in Drivers /\ driver.ok
  BY DriverType
<1>2. r # Idle /\ r.step = "property" /\ meddled' = meddled
  BY DEF WriteProperty
<1>3. r \in Requests
  BY <1>2 DEF MapTypeOK
<1>4. a \in Atoms /\ r.button \in Buttons /\ r.acts \in Content
  BY <1>3 DEF Requests
<1>c. client' \in [Clients -> {Idle} \cup Requests]
  <2>1. client' = [client EXCEPT ![c].step = "list"]
    BY DEF WriteProperty
  <2>2. [r EXCEPT !.step = "list"] \in Requests
    <3> HIDE DEF r
    <3> QED
      BY <1>3 DEF Requests
  <2>3. client' = [client EXCEPT ![c] = [r EXCEPT !.step = "list"]]
    BY <2>1
  <2> DEFINE q == [r EXCEPT !.step = "list"]
  <2> HIDE DEF q
  <2> QED
    BY <2>2, <2>3 DEF q, MapTypeOK
<1>5. CASE ChangeAccepted(a, r.acts)
  <2>1. Become(x) /\ asked' = [asked EXCEPT ![r.button] = r.acts]
    BY <1>5 DEF WriteProperty
  <2>5. asked' \in [Buttons -> Content]
    BY <1>4, <2>1 DEF MapTypeOK
  <2> HIDE DEF a, r
  <2>6. ChangedTo(x, driver, a, r.acts)
    BY <1>1, <1>4, ChangedDoes
  <2> HIDE DEF x
  <2>7. x \in Drivers /\ x.ok
    BY <1>1, <2>6 DEF ChangedTo
  <2>8. driver' = x /\ driver' \in Drivers
    BY <2>1, <2>7, Becomes
  <2>9. handler' \in [Buttons -> Atoms] /\ action' \in [Buttons -> Content] /\ prop' \in [Atoms -> Content]
    BY <2>8 DEF driver, Drivers
  <2> QED
    BY <1>2, <1>3, <1>c, <2>5, <2>8, <2>9 DEF MapTypeOK, x, a, r
<1>6. CASE ~ChangeAccepted(a, r.acts)
  <2>1. UNCHANGED <<handler, action, prop, asked>>
    BY <1>6 DEF WriteProperty
  <2> HIDE DEF a, r, x
  <2> QED
    BY <1>2, <1>3, <1>c, <2>1 DEF MapTypeOK, driver, r
<1> QED
  BY <1>5, <1>6

LEMMA WriteListStep ==
  ASSUME MapTypeOK, NEW c \in Clients, WriteList(c)
  PROVE  /\ MapTypeOK'
         /\ client[c] \in Requests /\ AList(Sent(client[c]))
         /\ \/ driver' = driver
            \/ /\ ListAccepted(driver, Sent(client[c]))
               /\ driver' = Applied(driver, Sent(client[c]))
<1> DEFINE r == client[c]
           l == Sent(r)
           x == Applied(driver, l)
<1>1. driver \in Drivers /\ driver.ok
  BY DriverType
<1>2. r # Idle /\ meddled' = meddled /\ client' = [client EXCEPT ![c] = Idle]
  BY DEF WriteList
<1>3. r \in Requests
  BY <1>2 DEF MapTypeOK
<1>4. AList(l) /\ r.button \in Buttons
  BY <1>3, SentType DEF Requests
<1>5. client' \in [Clients -> {Idle} \cup Requests]
  BY <1>2 DEF MapTypeOK
<1>6. CASE ListAccepted(driver, l)
  <2>1. Become(x) /\ asked' = IF r.step = "reset"
                         THEN [asked EXCEPT ![r.button] = Default(r.button)]
                         ELSE asked
    BY <1>6 DEF WriteList
  <2>2. asked' \in [Buttons -> Content]
    BY <1>4, <2>1, DefaultValid DEF MapTypeOK
  <2> HIDE DEF l, r
  <2>3. x \in Drivers /\ x.ok
    BY <1>1, <1>4, <1>6, AppliedAgrees
  <2> HIDE DEF x
  <2>4. driver' = x /\ driver' \in Drivers
    BY <2>1, <2>3, Becomes
  <2>5. handler' \in [Buttons -> Atoms] /\ action' \in [Buttons -> Content] /\ prop' \in [Atoms -> Content]
    BY <2>4 DEF driver, Drivers
  <2> QED
    BY <1>2, <1>3, <1>4, <1>5, <1>6, <2>2, <2>4, <2>5 DEF MapTypeOK, x, l, r
<1>7. CASE ~ListAccepted(driver, l)
  <2>1. UNCHANGED <<handler, action, prop, asked>>
    BY <1>7 DEF WriteList
  <2> HIDE DEF l, r, x
  <2> QED
    BY <1>2, <1>3, <1>4, <1>5, <2>1 DEF MapTypeOK, driver, r, l
<1> QED
  BY <1>6, <1>7

\* What other clients do changes a property, or applies a list.
LEMMA ForeignStep ==
  ASSUME MapTypeOK,
         \/ \E a \in Atoms \ (Buttons \ Mapped) :
              ForeignDelete(a) \/ \E x \in Contents : ForeignProperty(a, x)
         \/ \E l \in Lists : ForeignList(l)
  PROVE  /\ MapTypeOK'
         /\ meddled'
         /\ \/ \E a \in Atoms, v \in Content : driver' = Changed(driver, a, v)
            \/ \E l \in Lists : /\ AList(l) /\ ListAccepted(driver, l)
                                /\ driver' = Applied(driver, l)
<1>1. driver \in Drivers /\ driver.ok
  BY DriverType
<1>2. ASSUME NEW a \in Atoms, ForeignDelete(a)
      PROVE  MapTypeOK' /\ meddled' /\ driver' = Changed(driver, a, NoProp) /\ NoProp \in Content
  <2>1. UsersOf(handler, a) = {} /\ prop' = [prop EXCEPT ![a] = NoProp]
        /\ meddled' = TRUE /\ UNCHANGED <<handler, action, client, asked>>
    BY <1>2 DEF ForeignDelete, Deletable
  <2>2. NoProp \in Content
    BY DEF Content
  <2>3. Changed(driver, a, NoProp) = [driver EXCEPT !.prop[a] = NoProp]
    BY <2>1 DEF Changed, driver
  <2> DEFINE x == [driver EXCEPT !.prop[a] = NoProp]
  <2>4. ChangedTo(x, driver, a, NoProp)
    BY <1>1, <2>2, <2>3, ChangedDoes
  <2> HIDE DEF x
  <2>5. Become(x) /\ x \in Drivers /\ x.ok
    <3>1. driver.handler = handler /\ driver.action = action /\ driver.prop = prop
      BY DEF driver
    <3>2. UsersOf(driver.handler, a) = {}
      BY <2>1, <3>1
    <3> QED
      BY <1>1, <2>1, <2>4, <3>1, <3>2 DEF ChangedTo, Become
  <2>6. driver' = x
    BY <2>5, Becomes
  <2> QED
    BY <2>1, <2>2, <2>3, <2>6 DEF MapTypeOK, x
<1>3. ASSUME NEW a \in Atoms, NEW v \in Contents, ForeignProperty(a, v)
      PROVE  MapTypeOK' /\ meddled' /\ driver' = Changed(driver, a, v) /\ v \in Content
  <2> DEFINE x == Changed(driver, a, v)
  <2>1. Become(x) /\ meddled' = TRUE /\ UNCHANGED <<client, asked>>
    BY <1>3 DEF ForeignProperty
  <2>2. v \in Content
    BY DEF Content
  <2>3. ChangedTo(x, driver, a, v)
    BY <1>1, <2>2, ChangedDoes
  <2> HIDE DEF x
  <2>4. x \in Drivers /\ x.ok
    BY <1>1, <2>3 DEF ChangedTo
  <2>5. driver' = x /\ driver' \in Drivers
    BY <2>1, <2>4, Becomes
  <2>6. handler' \in [Buttons -> Atoms] /\ action' \in [Buttons -> Content] /\ prop' \in [Atoms -> Content]
    BY <2>5 DEF driver, Drivers
  <2> QED
    BY <2>1, <2>2, <2>5, <2>6 DEF MapTypeOK, x
<1>4. ASSUME NEW l \in Lists, ForeignList(l)
      PROVE  /\ MapTypeOK' /\ meddled' /\ AList(l) /\ ListAccepted(driver, l)
             /\ driver' = Applied(driver, l)
  <2> DEFINE x == Applied(driver, l)
  <2>1. Become(x) /\ meddled' = TRUE /\ UNCHANGED <<client, asked>> /\ ListAccepted(driver, l)
    BY <1>4 DEF ForeignList
  <2>2. AList(l)
    BY <2>1, MappingsAssumption DEF MappingsAssumption, ListAccepted, AList
  <2>3. x \in Drivers /\ x.ok
    BY <1>1, <2>1, <2>2, AppliedAgrees
  <2> HIDE DEF x
  <2>4. driver' = x /\ driver' \in Drivers
    BY <2>1, <2>3, Becomes
  <2>5. handler' \in [Buttons -> Atoms] /\ action' \in [Buttons -> Content] /\ prop' \in [Atoms -> Content]
    BY <2>4 DEF driver, Drivers
  <2> QED
    BY <2>1, <2>2, <2>4, <2>5 DEF MapTypeOK, x
<1>5. CASE \E a \in Atoms \ (Buttons \ Mapped) :
              ForeignDelete(a) \/ \E x \in Contents : ForeignProperty(a, x)
  BY <1>2, <1>3, <1>5
<1>6. CASE \E l \in Lists : ForeignList(l)
  BY <1>4, <1>6
<1> QED
  BY <1>5, <1>6

\* However a step changes the driver, each button still runs what its property says.
LEMMA MapStep ==
  ASSUME MapTypeOK, [MapNext]_mapVars, Agreed(driver)
  PROVE  MapTypeOK' /\ Agreed(driver')
<1>0. driver \in Drivers /\ driver.ok
  BY DriverType
<1>1. ASSUME NEW a \in Atoms, NEW v \in Content, driver' = Changed(driver, a, v)
      PROVE  Agreed(driver')
  <2>1. Agreed(Changed(driver, a, v))
    BY <1>0, ChangedAgrees
  <2> QED
    BY <1>1, <2>1
<1>2. ASSUME NEW l, AList(l), ListAccepted(driver, l), driver' = Applied(driver, l)
      PROVE  Agreed(driver')
  <2>1. Agreed(Applied(driver, l))
    BY <1>0, <1>2, AppliedAgrees
  <2> QED
    BY <1>2, <2>1
<1>3. ASSUME NEW c \in Clients, NEW b \in Mapped, NEW words \in Commands, Start(c, b, words)
      PROVE  MapTypeOK' /\ Agreed(driver')
  <2>1. /\ MapTypeOK'
        /\ AList(ListOf(handler)) /\ ListAccepted(driver, ListOf(handler))
        /\ driver' = Applied(driver, ListOf(handler))
    BY <1>3, StartStep
  <2> QED
    BY <1>2, <2>1
<1>4. ASSUME NEW c \in Clients, WriteProperty(c) PROVE MapTypeOK' /\ Agreed(driver')
  <2> DEFINE a == client[c].list[PositionOf(client[c].button)]
  <2>1. /\ MapTypeOK' /\ client[c] \in Requests
        /\ driver' = driver \/ driver' = Changed(driver, a, client[c].acts)
    BY <1>4, WritePropertyStep
  <2>2. a \in Atoms /\ client[c].acts \in Content
    BY <2>1 DEF Requests
  <2> HIDE DEF a
  <2>3. Agreed(driver')
    BY <1>1, <2>1, <2>2
  <2> QED
    BY <2>1, <2>3
<1>5. ASSUME NEW c \in Clients, WriteList(c) PROVE MapTypeOK' /\ Agreed(driver')
  <2> DEFINE l == Sent(client[c])
  <2>1. /\ MapTypeOK' /\ AList(l)
        /\ driver' = driver \/ (ListAccepted(driver, l) /\ driver' = Applied(driver, l))
    BY <1>5, WriteListStep
  <2> HIDE DEF l
  <2> QED
    BY <1>2, <2>1
<1>6. CASE \/ \E a \in Atoms \ (Buttons \ Mapped) :
                 ForeignDelete(a) \/ \E x \in Contents : ForeignProperty(a, x)
           \/ \E l \in Lists : ForeignList(l)
  <2>1. /\ MapTypeOK'
        /\ \/ \E a \in Atoms, v \in Content : driver' = Changed(driver, a, v)
           \/ \E l \in Lists : /\ AList(l) /\ ListAccepted(driver, l)
                               /\ driver' = Applied(driver, l)
    BY <1>6, ForeignStep
  <2> QED
    BY <1>1, <1>2, <2>1
<1>7. CASE UNCHANGED mapVars
  BY <1>7 DEF mapVars, MapTypeOK, driver, Agreed
<1> QED
  BY <1>3, <1>4, <1>5, <1>6, <1>7 DEF MapNext

LEMMA MapStart == MapInit => MapTypeOK /\ Agreed(driver)
<1> SUFFICES ASSUME MapInit PROVE MapTypeOK /\ Agreed(driver)
  OBVIOUS
<1>1. Buttons \subseteq Atoms /\ \A b \in Buttons : Default(b) \in Content
  BY Positions, DefaultValid
<1>2. NoProp \in Content
  BY DEF Content
<1>3. handler = [b \in Buttons |-> b] /\ action = [b \in Buttons |-> Default(b)]
      /\ prop = [a \in Atoms |-> IF a \in Buttons THEN Default(a) ELSE NoProp]
      /\ client = [c \in Clients |-> Idle] /\ asked = action /\ meddled = FALSE
  BY DEF MapInit
<1>4. MapTypeOK
  BY <1>1, <1>2, <1>3 DEF MapTypeOK
<1>5. Agreed(driver)
  BY <1>1, <1>3 DEF Agreed, driver
<1> QED
  BY <1>4, <1>5

MapInv == MapTypeOK /\ Agreed(driver)

LEMMA MapInvariant == MapSpec => []MapInv
<1>1. MapInit => MapInv
  BY MapStart DEF MapInv
<1>2. Agreed(driver)' <=> Agreed(driver')
  BY DEF Agreed, driver
<1>3. MapInv /\ [MapNext]_mapVars => MapInv'
  BY <1>2, MapStep DEF MapInv
<1> QED
  BY <1>1, <1>3, PTL DEF MapSpec

\* The variables keep their types: handlers are atoms, and actions and properties hold
\* only what some client wrote, an xsetwacom made of a command, or a default.
THEOREM MappingsTypeCorrect == MapSpec => []MapTypeOK
<1>1. MapInv => MapTypeOK
  BY DEF MapInv
<1> QED
  BY <1>1, MapInvariant, PTL

\* Whatever clients write, in any order, a button runs what its property says; of
\* several buttons with one property, the first does.
THEOREM HandlersAlways == MapSpec => []HandlersAgree
<1>1. MapInv => HandlersAgree
  <2> SUFFICES ASSUME MapInv, NEW b \in Buttons, b = First(UsersOf(handler, handler[b]))
               PROVE  action[b] = prop[handler[b]]
    BY DEF HandlersAgree
  <2>1. Leads(handler, b)
    BY LeadsFirst
  <2> QED
    BY <2>1 DEF MapInv, Agreed, driver
<1> QED
  BY <1>1, MapInvariant, PTL

\* A list of handlers that passed the check is applied to its end: nothing that an
\* entry does makes the property of a later one unacceptable.
THEOREM ListsWhole == MapSpec => []AllOrNothing
<1>1. MapInv => AllOrNothing
  <2> SUFFICES ASSUME MapInv, NEW l \in Lists, ListAccepted(driver, l)
               PROVE  Applied(driver, l).ok
    BY DEF AllOrNothing
  <2>1. driver \in Drivers /\ driver.ok
    BY DriverType DEF MapInv
  <2>2. AList(l)
    BY MappingsAssumption DEF MappingsAssumption, ListAccepted, AList
  <2> QED
    BY <2>1, <2>2, AppliedAgrees
<1> QED
  BY <1>1, MapInvariant, PTL

-----------------------------------------------------------------------------
(***************************************************************************)
(* While only xsetwacoms map buttons, every button keeps its own property, *)
(* and a list does nothing but reset the buttons it names None for.        *)
(***************************************************************************)
Own(d) == \A b \in Buttons : d.handler[b] = b /\ d.action[b] = d.prop[b]
OwnList(l) == \A i \in 1..ListLen : l[i] \in {0, ButtonAt(i)}

\* After i entries.
ResetsTo(x, d, l, i) ==
  /\ Own(x)
  /\ \A b \in Buttons : x.action[b] = IF PositionOf(b) <= i /\ l[PositionOf(b)] = 0
                                      THEN Default(b) ELSE d.action[b]

LEMMA EntryResets ==
  ASSUME NEW d \in Drivers, NEW l, AList(l), OwnList(l), NEW i \in 1..ListLen,
         NEW y \in Drivers, ResetsTo(y, d, l, i - 1), NEW x \in Drivers,
         ButtonAt(i) = 0 => x = y,
         ButtonAt(i) # 0 /\ l[i] = 0 => ResetTo(x, y, ButtonAt(i)),
         ButtonAt(i) # 0 /\ l[i] # 0 => HandlerSet(x, y, ButtonAt(i), l[i])
  PROVE  ResetsTo(x, d, l, i)
<1> DEFINE b == ButtonAt(i)
           a == l[i]
<1>0. /\ ListLen \in Nat /\ (b = 0 \/ (b \in Buttons /\ b # 0 /\ PositionOf(b) = i /\ b \in Atoms))
      /\ 0 \notin Buttons /\ (a = 0 \/ a = b)
  BY Positions DEF OwnList
<1>1. y.prop \in [Atoms -> Content] /\ y.action \in [Buttons -> Content] /\ y.handler \in [Buttons -> Atoms]
      /\ Buttons \subseteq Atoms
  BY Positions DEF Drivers
<1>2. \A c \in Buttons \ {b} : PositionOf(c) <= i <=> PositionOf(c) <= i - 1
  <2> TAKE c \in Buttons \ {b}
  <2>1. PositionOf(c) \in 1..ListLen /\ ButtonAt(PositionOf(c)) = c
    BY Positions
  <2>2. PositionOf(c) # i
    BY <2>1
  <2> QED
    BY <1>0, <2>1, <2>2
<1>3. ASSUME NEW c \in Buttons \ {b}, y.action[c] = x.action[c]
      PROVE  x.action[c] = IF PositionOf(c) <= i /\ l[PositionOf(c)] = 0
                           THEN Default(c) ELSE d.action[c]
  BY <1>2, <1>3 DEF ResetsTo
<1>4. CASE b = 0
  <2>1. x = y /\ \A c \in Buttons : c # b
    BY <1>0, <1>4
  <2> QED
    BY <1>3, <2>1 DEF ResetsTo
<1>5. CASE b # 0 /\ a = 0
  <2>1. ResetTo(x, y, b) /\ b \in Buttons /\ b \in Atoms /\ PositionOf(b) = i
    BY <1>0, <1>5
  <2>2. ~(i <= i - 1)
    BY <1>0
  <2>3. x.action[b] = IF PositionOf(b) <= i /\ l[PositionOf(b)] = 0
                           THEN Default(b) ELSE d.action[b]
    BY <1>0, <1>5, <2>1 DEF ResetTo
  <2> HIDE DEF b, a
  <2>4. x.handler = [y.handler EXCEPT ![b] = b] /\ x.prop = [y.prop EXCEPT ![b] = Default(b)]
        /\ x.action[b] = Default(b)
    BY <2>1 DEF ResetTo
  <2>5. ASSUME NEW c \in Buttons \ {b}
        PROVE  x.action[c] = y.action[c] /\ x.handler[c] = c /\ x.prop[c] = y.prop[c]
    <3>1. y.handler[c] = c
      BY DEF ResetsTo, Own
    <3> QED
      BY <1>1, <2>1, <2>4, <3>1 DEF ResetTo
  <2>6. x.handler[b] = b /\ x.prop[b] = Default(b)
    BY <1>1, <2>1, <2>4
  <2>7. Own(x)
    BY <2>4, <2>5, <2>6 DEF Own, ResetsTo
  <2> QED
    BY <1>3, <2>3, <2>5, <2>7 DEF ResetsTo
<1>6. CASE b # 0 /\ a # 0
  <2>1. HandlerSet(x, y, b, b) /\ b \in Buttons /\ b \in Atoms /\ PositionOf(b) = i
    BY <1>0, <1>6
  <2>2. y.action[b] = y.prop[b] /\ y.handler[b] = b
    BY <2>1 DEF ResetsTo, Own
  <2>3. x.action = y.action /\ x.handler = y.handler /\ x.prop = y.prop
    <3> HIDE DEF b, a
    <3> QED
      BY <1>1, <2>1, <2>2 DEF HandlerSet
  <2>4. ~(i <= i - 1)
    BY <1>0
  <2>5. x.action[b] = IF PositionOf(b) <= i /\ l[PositionOf(b)] = 0
                           THEN Default(b) ELSE d.action[b]
    BY <1>0, <1>6, <2>1, <2>3, <2>4 DEF ResetsTo
  <2>6. Own(x)
    BY <2>3 DEF Own, ResetsTo
  <2> HIDE DEF b, a
  <2> QED
    BY <1>3, <2>3, <2>5, <2>6 DEF ResetsTo
<1> QED
  BY <1>4, <1>5, <1>6

LEMMA AppliedResets ==
  ASSUME NEW d \in Drivers, d.ok, Own(d), NEW l, AList(l), OwnList(l), ListAccepted(d, l)
  PROVE  /\ Own(Applied(d, l))
         /\ \A b \in Buttons : Applied(d, l).action[b] =
                                 IF l[PositionOf(b)] = 0 THEN Default(b) ELSE d.action[b]
<1>0. ListLen \in Nat /\ \A b \in Buttons : PositionOf(b) \in 1..ListLen
  BY Positions
<1>1. PICK f : ListDone(f, d, l)
  BY AppliedWhole
<1>2. /\ \A i \in 0..ListLen : f[i] \in Drivers
      /\ \A i \in 1..ListLen : /\ ButtonAt(i) = 0 => f[i] = f[i - 1]
                               /\ ButtonAt(i) # 0 /\ l[i] = 0 => ResetTo(f[i], f[i - 1], ButtonAt(i))
                               /\ ButtonAt(i) # 0 /\ l[i] # 0 =>
                                    HandlerSet(f[i], f[i - 1], ButtonAt(i), l[i])
  BY <1>1 DEF ListDone
<1> DEFINE I == {i \in 0..ListLen : ResetsTo(f[i], d, l, i)}
<1>3. 0 \in I
  <2>1. \A b \in Buttons : ~(PositionOf(b) <= 0)
    BY <1>0
  <2> QED
    BY <1>0, <1>1, <2>1 DEF ResetsTo, ListDone
<1>4. ASSUME NEW n \in I, n < ListLen PROVE n + 1 \in I
  <2> DEFINE i == n + 1
  <2>1. i \in 1..ListLen /\ i - 1 = n /\ i \in 0..ListLen /\ n \in 0..ListLen
    BY <1>0, <1>4
  <2>2. f[n] \in Drivers /\ f[i] \in Drivers /\ ResetsTo(f[n], d, l, n)
    BY <1>2, <2>1
  <2> HIDE DEF i
  <2>3. ResetsTo(f[i], d, l, i)
    BY <1>2, <2>1, <2>2, EntryResets
  <2> QED
    BY <2>1, <2>3 DEF i
<1>5. I \in SUBSET (0..ListLen)
  OBVIOUS
<1> HIDE DEF I
<1>6. ListLen \in I
  BY <1>0, <1>3, <1>4, <1>5, UpTo
<1>7. ResetsTo(f[ListLen], d, l, ListLen)
  BY <1>6 DEF I
<1>8. \A b \in Buttons : PositionOf(b) <= ListLen
  BY <1>0
<1>9. Applied(d, l) = f[ListLen]
  BY <1>1 DEF ListDone
<1> QED
  BY <1>7, <1>8, <1>9 DEF ResetsTo

\* What the lists that xsetwacoms hold look like then, and that nothing else is asked.
FullList(l) == \A i \in 1..ListLen : l[i] = ButtonAt(i)
Landed == ~meddled => /\ Own(driver)
                      /\ action = asked
                      /\ \A c \in Clients : client[c] # Idle => FullList(client[c].list)

LEMMA LandedStep ==
  ASSUME MapTypeOK, MapTypeOK', [MapNext]_mapVars, Landed
  PROVE  Landed'
<1>0. driver \in Drivers /\ driver.ok /\ driver' \in Drivers
      /\ driver.action = action /\ driver'.action = action'
      /\ action \in [Buttons -> Content] /\ action' \in [Buttons -> Content]
      /\ asked \in [Buttons -> Content] /\ asked' \in [Buttons -> Content]
      /\ driver.handler = handler /\ driver.prop = prop
  BY DriverType DEF MapTypeOK, driver, Drivers
<1> SUFFICES ASSUME ~meddled'
             PROVE  /\ Own(driver')
                    /\ action' = asked'
                    /\ \A c \in Clients : client'[c] # Idle => FullList(client'[c].list)
  BY DEF Landed, Own, driver
<1>1. ASSUME NEW c \in Clients, NEW b \in Mapped, NEW words \in Commands, Start(c, b, words)
      PROVE  /\ Own(driver') /\ action' = asked'
             /\ \A e \in Clients : client'[e] # Idle => FullList(client'[e].list)
  <2> DEFINE l == ListOf(handler)
             x == Applied(driver, l)
  <2>1. AList(l) /\ ListAccepted(driver, l) /\ driver' = x
    BY <1>1, StartStep
  <2>2. meddled' = meddled /\ asked' = asked
    BY <1>1 DEF Start
  <2>3. Own(driver) /\ action = asked
        /\ \A e \in Clients : client[e] # Idle => FullList(client[e].list)
    BY <2>2 DEF Landed
  <2>4. FullList(l) /\ OwnList(l)
    <3>1. \A i \in 1..ListLen : l[i] = IF ButtonAt(i) = 0 THEN 0 ELSE handler[ButtonAt(i)]
      BY ListOfType DEF MapTypeOK
    <3>2. \A i \in 1..ListLen : ButtonAt(i) = 0 \/ ButtonAt(i) \in Buttons
      BY Positions
    <3> QED
      BY <1>0, <2>3, <3>1, <3>2 DEF FullList, OwnList, Own
  <2>5. \A e \in Buttons : l[PositionOf(e)] = e /\ e # 0
    BY <1>0, <2>3, ListOfType, Positions DEF MapTypeOK, Own
  <2> HIDE DEF l
  <2>6. Own(x) /\ \A e \in Buttons : x.action[e] = driver.action[e]
    BY <1>0, <2>1, <2>3, <2>4, <2>5, AppliedResets
  <2> HIDE DEF x
  <2>7. action' = action
    BY <1>0, <2>1, <2>6
  <2>8. \E r : client' = [client EXCEPT ![c] = r] /\ r.list = l
    <3> DEFINE r == [button |-> b, acts |-> Parse(words).acts, list |-> ListOf(handler),
                     step |-> IF Parse(words).acts = <<>> THEN "reset" ELSE "property"]
    <3>1. client' = [client EXCEPT ![c] = r]
      BY <1>1 DEF Start
    <3>2. r.list = l
      BY DEF l
    <3> HIDE DEF r
    <3> QED
      BY <3>1, <3>2
  <2>9. \A e \in Clients : client'[e] # Idle => FullList(client'[e].list)
    BY <2>3, <2>4, <2>8 DEF MapTypeOK
  <2> QED
    BY <2>1, <2>2, <2>3, <2>6, <2>7, <2>9
<1>2. ASSUME NEW c \in Clients, WriteProperty(c)
      PROVE  /\ Own(driver') /\ action' = asked'
             /\ \A e \in Clients : client'[e] # Idle => FullList(client'[e].list)
  <2> DEFINE r == client[c]
             b == r.button
             a == r.list[PositionOf(b)]
             v == r.acts
  <2>1. meddled' = meddled /\ r # Idle
    BY <1>2 DEF WriteProperty
  <2>2. Own(driver) /\ action = asked
        /\ (\A e \in Clients : client[e] # Idle => FullList(client[e].list))
    BY <2>1 DEF Landed
  <2>3. r \in Requests /\ FullList(r.list)
    BY <1>2, <2>1, <2>2, WritePropertyStep
  <2>4. b \in Buttons /\ a \in Atoms /\ v \in Content
    BY <2>3 DEF Requests
  <2>5. a = b
    <3>1. PositionOf(b) \in 1..ListLen /\ ButtonAt(PositionOf(b)) = b /\ 0 \notin Atoms
      BY <2>4, Positions DEF Atoms
    <3> QED
      BY <2>3, <2>4, <3>1 DEF FullList
  <2>c. \A e \in Clients : client'[e] # Idle => FullList(client'[e].list)
    <3>1. client' = [client EXCEPT ![c].step = "list"]
      BY <1>2 DEF WriteProperty
    <3>2. client' = [client EXCEPT ![c] = [r EXCEPT !.step = "list"]]
      BY <3>1
    <3>3. [r EXCEPT !.step = "list"].list = r.list
      <4> HIDE DEF r
      <4> QED
        BY <2>3 DEF Requests
    <3> DEFINE q == [r EXCEPT !.step = "list"]
    <3> HIDE DEF q
    <3> QED
      BY <2>2, <2>3, <3>2, <3>3 DEF MapTypeOK, q
  <2>6. CASE ChangeAccepted(a, v)
    <3>1. /\ Become(Changed(driver, a, v)) /\ asked' = [asked EXCEPT ![b] = v]
      BY <1>2, <2>6 DEF WriteProperty
    <3> HIDE DEF a, b, v
    <3> DEFINE x == Changed(driver, a, v)
    <3>5. ChangedTo(x, driver, a, v)
      BY <1>0, <2>4, ChangedDoes
    <3> HIDE DEF x
    <3>6. x \in Drivers /\ x.ok /\ driver' = x
      BY <1>0, <3>1, <3>5, Becomes DEF ChangedTo, x
    <3>7. UsersOf(driver.handler, a) = {b}
      BY <1>0, <2>2, <2>4, <2>5 DEF UsersOf, Own
    <3>8. First({b}) = b
      <4>1. {b} \in SUBSET Buttons /\ {b} # {}
        BY <2>4
      <4> QED
        BY <4>1, FirstIs
    <3>9. x.handler = driver.handler /\ x.prop = [driver.prop EXCEPT ![b] = v]
          /\ x.action = [driver.action EXCEPT ![b] = v]
      BY <2>5, <3>5, <3>7, <3>8 DEF ChangedTo
    <3>10. Own(x)
      <4>1. driver.prop \in [Atoms -> Content] /\ driver.action \in [Buttons -> Content]
            /\ Buttons \subseteq Atoms
        BY <1>0, Positions DEF Drivers
      <4> QED
        BY <2>2, <2>4, <3>9, <4>1 DEF Own
    <3>11. action' = asked'
      BY <1>0, <2>2, <3>1, <3>6, <3>9
    <3> QED
      BY <2>c, <3>6, <3>10, <3>11
  <2>7. CASE ~ChangeAccepted(a, v)
    <3>1. UNCHANGED <<handler, action, prop, asked>>
      BY <1>2, <2>7 DEF WriteProperty
    <3> QED
      BY <2>2, <2>c, <3>1 DEF driver
  <2> QED
    BY <2>6, <2>7
<1>3. ASSUME NEW c \in Clients, WriteList(c)
      PROVE  /\ Own(driver') /\ action' = asked'
             /\ \A e \in Clients : client'[e] # Idle => FullList(client'[e].list)
  <2> DEFINE r == client[c]
             b == r.button
             l == Sent(r)
             x == Applied(driver, l)
  <2>1. meddled' = meddled /\ r # Idle /\ client' = [client EXCEPT ![c] = Idle]
    BY <1>3 DEF WriteList
  <2>2. Own(driver) /\ action = asked
        /\ (\A e \in Clients : client[e] # Idle => FullList(client[e].list))
    BY <2>1 DEF Landed
  <2>3. r \in Requests /\ FullList(r.list) /\ AList(l)
    BY <1>3, <2>1, <2>2, WriteListStep
  <2>4. b \in Buttons /\ \A i \in 1..ListLen :
              l[i] = IF r.step = "reset" /\ i = PositionOf(b) THEN 0 ELSE r.list[i]
    BY <2>3, SentType DEF Requests
  <2>5. OwnList(l)
    BY <2>3, <2>4 DEF FullList, OwnList
  <2>6. \A e \in Buttons : l[PositionOf(e)] = 0 <=> (r.step = "reset" /\ e = b)
    <3> TAKE e \in Buttons
    <3>1. PositionOf(e) \in 1..ListLen /\ ButtonAt(PositionOf(e)) = e /\ e # 0
          /\ ButtonAt(PositionOf(b)) = b
      BY <2>4, Positions
    <3>2. r.list[PositionOf(e)] = e
      BY <2>3, <3>1 DEF FullList
    <3>3. l[PositionOf(e)] = IF r.step = "reset" /\ PositionOf(e) = PositionOf(b) THEN 0
                             ELSE r.list[PositionOf(e)]
      BY <2>4, <3>1
    <3>4. PositionOf(e) = PositionOf(b) <=> e = b
      BY <3>1
    <3> HIDE DEF r, b, l
    <3> QED
      BY <3>1, <3>2, <3>3, <3>4
  <2>7. \A e \in Clients : client'[e] # Idle => FullList(client'[e].list)
    BY <2>1, <2>2 DEF MapTypeOK
  <2>8. CASE ListAccepted(driver, l)
    <3>1. Become(x) /\ asked' = IF r.step = "reset" THEN [asked EXCEPT ![b] = Default(b)]
                                ELSE asked
      BY <1>3, <2>8 DEF WriteList
    <3>2. driver' = x
      <4> HIDE DEF l, x
      <4>1. x \in Drivers /\ x.ok
        BY <1>0, <2>3, <2>8, AppliedAgrees DEF x
      <4> QED
        BY <3>1, <4>1, Becomes
    <3> HIDE DEF l, r, b
    <3>3. Own(x) /\ \A e \in Buttons : x.action[e] = IF l[PositionOf(e)] = 0 THEN Default(e)
                                                     ELSE driver.action[e]
      BY <1>0, <2>2, <2>3, <2>5, <2>8, AppliedResets
    <3> HIDE DEF x
    <3>4. \A e \in Buttons : action'[e] = IF r.step = "reset" /\ e = b THEN Default(e) ELSE action[e]
      BY <1>0, <2>6, <3>2, <3>3
    <3>5. \A e \in Buttons : asked'[e] = IF r.step = "reset" /\ e = b THEN Default(e) ELSE asked[e]
      BY <1>0, <2>4, <3>1
    <3>6. action' = asked'
      BY <1>0, <2>2, <3>4, <3>5
    <3> QED
      BY <2>7, <3>2, <3>3, <3>6
  <2>9. CASE ~ListAccepted(driver, l)
    <3>1. UNCHANGED <<handler, action, prop, asked>>
      BY <1>3, <2>9 DEF WriteList
    <3> QED
      BY <2>2, <2>7, <3>1 DEF driver
  <2> QED
    BY <2>8, <2>9
<1>4. CASE \/ \E a \in Atoms \ (Buttons \ Mapped) :
                 ForeignDelete(a) \/ \E y \in Contents : ForeignProperty(a, y)
           \/ \E l \in Lists : ForeignList(l)
  BY <1>4 DEF ForeignDelete, ForeignProperty, ForeignList
<1>5. CASE UNCHANGED mapVars
  BY <1>5 DEF mapVars, driver, Own, Landed
<1> QED
  BY <1>1, <1>2, <1>3, <1>4, <1>5 DEF MapNext

\* Each button keeps the mapping that an xsetwacom asked for last, whatever several of
\* them do at the same time between reading the list and writing it back: a list that
\* is out of date still names each button's own property, and sets nothing anew.
THEOREM MappingsLand == MapSpec => []MapsLand
<1>1. MapInit => MapTypeOK /\ Landed
  <2> SUFFICES ASSUME MapInit PROVE MapTypeOK /\ Landed
    OBVIOUS
  <2>1. Buttons \subseteq Atoms
    BY Positions
  <2>2. Own(driver) /\ action = asked /\ \A c \in Clients : client[c] = Idle
    BY <2>1 DEF MapInit, driver, Own
  <2> QED
    BY <2>2, MapStart DEF Landed
<1>2. MapInv /\ Landed /\ [MapNext]_mapVars => Landed'
  <2>1. MapInv /\ [MapNext]_mapVars => MapTypeOK'
    BY MapStep DEF MapInv
  <2> QED
    BY <2>1, LandedStep DEF MapInv
<1>3. Landed => MapsLand
  BY DEF Landed, MapsLand
<1> QED
  BY <1>1, <1>2, <1>3, MapInvariant, PTL DEF MapSpec

-----------------------------------------------------------------------------
(***************************************************************************)
(* Commands: what reading one word does.                                   *)
(***************************************************************************)
Toggle == Act("modetoggle", FALSE, 0)
Pan == Act("pan", FALSE, 0)
Numbers == {Number[w] : w \in DOMAIN Number}
Keycodes == {Keycode[w] : w \in DOMAIN Keycode}
\* The actions that a command can make.
Made == {Toggle, Pan} \cup [type : {"button"}, press : BOOLEAN, code : Numbers]
        \cup [type : {"key"}, press : BOOLEAN, code : Keycodes]
Modes == Keywords \cup {""}
Parses == {s \in [mode : Modes, acts : Seq(Made), ok : BOOLEAN] : Len(s.acts) <= Capacity}
Opened == [mode |-> "", acts |-> <<>>, ok |-> TRUE]

LEMMA OpeningMade ==
  \A text \in Keywords : /\ Opening(text) \in Seq(Made) /\ Len(Opening(text)) <= 1
                         /\ Opening(text) = IF text = "modetoggle" THEN <<Toggle>>
                                            ELSE IF text = "pan" THEN <<Pan>> ELSE <<>>
<1> TAKE text \in Keywords
<1>0. DOMAIN Single = {"modetoggle", "pan"} /\ Single["modetoggle"] = <<Toggle>> /\ Single["pan"] = <<Pan>>
  BY DEF Single, Toggle, Pan
<1>1. Opening(text) = IF text = "modetoggle" THEN <<Toggle>>
                                            ELSE IF text = "pan" THEN <<Pan>> ELSE <<>>
  BY <1>0 DEF Opening
<1>2. Toggle \in Made /\ Pan \in Made
  BY DEF Made
<1>3. <<Toggle>> \in Seq(Made) /\ <<Pan>> \in Seq(Made) /\ <<>> \in Seq(Made)
      /\ Len(<<Toggle>>) <= 1 /\ Len(<<Pan>>) <= 1 /\ Len(<<>>) <= 1
  BY <1>2
<1> QED
  BY <1>1, <1>3

LEMMA StrokesMade ==
  ASSUME NEW type, NEW sign, NEW code, Act(type, TRUE, code) \in Made, Act(type, FALSE, code) \in Made
  PROVE  Strokes(type, sign, code) \in Seq(Made)
<1> DEFINE x == Act(type, TRUE, code)
           y == Act(type, FALSE, code)
<1>1. Strokes(type, sign, code) = (IF sign = "-" THEN <<>> ELSE <<x>>) \o (IF sign = "+" THEN <<>> ELSE <<y>>)
  BY DEF Strokes
<1>2. x \in Made /\ y \in Made
  OBVIOUS
<1> HIDE DEF x, y
<1>3. (IF sign = "-" THEN <<>> ELSE <<x>>) \in Seq(Made) /\ (IF sign = "+" THEN <<>> ELSE <<y>>) \in Seq(Made)
  BY <1>2
<1> QED
  BY <1>1, <1>3, ConcatProperties

LEMMA ArgumentMade ==
  ASSUME NEW mode, NEW w
  PROVE  Argument(mode, w) \in Seq(Made)
<1>1. CASE mode = "button" /\ w.text \in DOMAIN Number
  <2>1. Act("button", TRUE, Number[w.text]) \in Made /\ Act("button", FALSE, Number[w.text]) \in Made
    BY <1>1 DEF Act, Made, Numbers
  <2>2. Strokes("button", w.sign, Number[w.text]) \in Seq(Made)
    BY <2>1, StrokesMade
  <2> QED
    BY <1>1, <2>2 DEF Argument
<1>2. CASE mode = "key" /\ w.text \in DOMAIN Keycode
  <2>1. Act("key", TRUE, Keycode[w.text]) \in Made /\ Act("key", FALSE, Keycode[w.text]) \in Made
    BY <1>2 DEF Act, Made, Keycodes
  <2> DEFINE sign == IF w.text \in Modifiers /\ w.sign = "" THEN "+" ELSE w.sign
  <2>2. Argument(mode, w) = Strokes("key", sign, Keycode[w.text])
    BY <1>2 DEF Argument
  <2> HIDE DEF sign
  <2>3. Strokes("key", sign, Keycode[w.text]) \in Seq(Made)
    BY <2>1, StrokesMade
  <2> QED
    BY <2>2, <2>3
<1>3. CASE ~(mode = "button" /\ w.text \in DOMAIN Number) /\ ~(mode = "key" /\ w.text \in DOMAIN Keycode)
  <2>1. Argument(mode, w) = <<>>
    BY <1>3 DEF Argument
  <2> QED
    BY <2>1
<1> QED
  BY <1>1, <1>2, <1>3

Full(s) == Len(s.acts) = Capacity


\* x is s after one more word.
WordRead(x, s, w) ==
  /\ x \in Parses
  /\ ~s.ok \/ Full(s) => x = s
  /\ s.ok /\ ~Full(s) /\ IsKeyword(w) =>
       x.ok /\ x.mode = w.text /\ x.acts = s.acts \o Opening(w.text)
  /\ s.ok /\ ~Full(s) /\ ~IsKeyword(w) =>
       IF Argument(s.mode, w) # <<>> /\ Len(s.acts) + Len(Argument(s.mode, w)) <= Capacity
       THEN x.ok /\ x.mode = s.mode /\ x.acts = s.acts \o Argument(s.mode, w)
       ELSE ~x.ok

LEMMA ReadWordDoes ==
  ASSUME NEW s \in Parses, NEW w
  PROVE  WordRead(ReadWord(s, w), s, w)
<1> DEFINE x == ReadWord(s, w)
           new == Argument(s.mode, w)
           m == s.mode
           a == s.acts
<1>0. Capacity \in Nat /\ m \in Modes /\ a \in Seq(Made) /\ Len(a) \in Nat /\ Len(a) <= Capacity
      /\ s \in [mode : Modes, acts : Seq(Made), ok : BOOLEAN]
  BY ActionsAssumption DEF ActionsAssumption, Parses
<1>1. CASE ~s.ok \/ Full(s)
  <2>1. x = s
    BY <1>1 DEF ReadWord, Full
  <2> HIDE DEF x
  <2> QED
    BY <1>1, <2>1 DEF WordRead, x
<1>2. CASE s.ok /\ ~Full(s) /\ IsKeyword(w)
  <2> DEFINE op == Opening(w.text)
             y == [s EXCEPT !.mode = w.text, !.acts = s.acts \o op]
  <2>1. x = y
    BY <1>2 DEF ReadWord, Full
  <2>2. w.text \in Keywords /\ w.text \in Modes
    BY <1>2 DEF IsKeyword, Modes
  <2>3. op \in Seq(Made) /\ Len(op) <= 1 /\ Len(op) \in Nat
    BY <2>2, OpeningMade
  <2> HIDE DEF op, a
  <2>4. a \o op \in Seq(Made) /\ Len(a \o op) = Len(a) + Len(op)
    BY <1>0, <2>3, ConcatProperties
  <2>5. Len(a \o op) <= Capacity
    BY <1>0, <1>2, <2>3, <2>4 DEF Full, a
  <2> DEFINE c == a \o op
             t == w.text
  <2> HIDE DEF c
  <2>6. y = [s EXCEPT !.mode = t, !.acts = c]
    BY DEF c, a
  <2> HIDE DEF y, t, x
  <2>7. y \in [mode : Modes, acts : Seq(Made), ok : BOOLEAN] /\ y.mode = t /\ y.acts = c
        /\ y.ok = s.ok
    BY <1>0, <2>2, <2>4, <2>6 DEF c, t
  <2>8. y \in Parses
    BY <2>5, <2>7 DEF c, Parses
  <2> QED
    BY <1>2, <2>1, <2>7, <2>8 DEF WordRead, x, t, c, op, a
<1>3. CASE s.ok /\ ~Full(s) /\ ~IsKeyword(w) /\ new # <<>> /\ Len(a) + Len(new) <= Capacity
  <2> DEFINE y == [s EXCEPT !.acts = s.acts \o new]
  <2>1. x = y
    BY <1>3 DEF ReadWord, Full
  <2>2. new \in Seq(Made) /\ Len(new) \in Nat
    BY ArgumentMade
  <2> HIDE DEF new, a
  <2>3. a \o new \in Seq(Made) /\ Len(a \o new) = Len(a) + Len(new)
    BY <1>0, <2>2, ConcatProperties
  <2> DEFINE c == a \o new
  <2> HIDE DEF c
  <2>4. y = [s EXCEPT !.acts = c]
    BY DEF c, a
  <2> HIDE DEF y, x
  <2>5. y \in [mode : Modes, acts : Seq(Made), ok : BOOLEAN] /\ y.mode = m /\ y.acts = c
        /\ y.ok = s.ok
    BY <1>0, <2>3, <2>4 DEF c
  <2>6. y \in Parses
    BY <1>3, <2>3, <2>5 DEF c, Parses
  <2> QED
    BY <1>3, <2>1, <2>5, <2>6 DEF WordRead, x, c, new, a
<1>4. CASE s.ok /\ ~Full(s) /\ ~IsKeyword(w) /\ ~(new # <<>> /\ Len(a) + Len(new) <= Capacity)
  <2> DEFINE y == [s EXCEPT !.ok = FALSE]
  <2>1. x = y
    BY <1>4 DEF ReadWord, Full
  <2> HIDE DEF x
  <2>2. y \in [mode : Modes, acts : Seq(Made), ok : BOOLEAN] /\ y.acts = a /\ ~y.ok
    BY <1>0
  <2> HIDE DEF y
  <2>3. y \in Parses
    BY <1>0, <2>2 DEF Parses
  <2> HIDE DEF new, a
  <2> QED
    BY <1>4, <2>1, <2>2, <2>3 DEF WordRead, x, new, a
<1> QED
  BY <1>1, <1>2, <1>3, <1>4

\* r holds what is made of the first words of a command.
WordsRead(r, ws) ==
  /\ r[0] = Opened
  /\ \A i \in 0..Len(ws) : r[i] \in Parses
  /\ \A i \in 1..Len(ws) : r[i] = ReadWord(r[i - 1], ws[i])
  /\ Read(ws) = r[Len(ws)]

LEMMA OpenedType == Opened \in Parses
<1>1. <<>> \in Seq(Made) /\ Len(<<>>) = 0 /\ "" \in Modes /\ TRUE \in BOOLEAN
  BY DEF Modes
<1>2. Opened.mode = "" /\ Opened.acts = <<>> /\ Opened \in [mode : Modes, acts : Seq(Made), ok : BOOLEAN]
  BY <1>1 DEF Opened
<1>3. 0 <= Capacity
  BY ActionsAssumption DEF ActionsAssumption
<1>4. Len(Opened.acts) <= Capacity
  BY <1>1, <1>2, <1>3
<1> QED
  BY <1>2, <1>4 DEF Parses

LEMMA ReadLoop ==
  ASSUME NEW ws, Len(ws) \in Nat
  PROVE  \E r : WordsRead(r, ws)
<1> DEFINE N == Len(ws)
           step == [i \in 1..N |-> [x \in Parses |-> ReadWord(x, ws[i])]]
<1>1. \A i \in 1..N, x \in Parses : ReadWord(x, ws[i]) \in Parses
  BY ReadWordDoes DEF WordRead
<1>2. step \in [1..N -> [Parses -> Parses]]
  BY <1>1
<1>3. \A i \in 1..N, x \in Parses : step[i][x] = ReadWord(x, ws[i])
  OBVIOUS
<1>0. N \in Nat
  OBVIOUS
<1> HIDE DEF step, N
<1>4. PICK f : Runs(f, N, Parses, Opened, step)
  BY <1>0, <1>2, OpenedType, LoopRuns
<1>5. \A i \in 1..N : f[i] = ReadWord(f[i - 1], ws[i])
  <2>1. \A i \in 1..N : i - 1 \in 0..N
    BY <1>0
  <2> QED
    BY <1>3, <1>4, <2>1 DEF Runs
<1>6. f = [i \in 0..N |-> IF i = 0 THEN Opened ELSE ReadWord(f[i - 1], ws[i])]
  <2>1. \A i \in 0..N : i = 0 \/ (i # 0 /\ i \in 1..N)
    BY <1>0
  <2>2. \A i \in 0..N : f[i] = IF i = 0 THEN Opened ELSE ReadWord(f[i - 1], ws[i])
    BY <1>4, <1>5, <2>1 DEF Runs
  <2> QED
    BY <1>4, <2>2 DEF Runs
<1> DEFINE g == CHOOSE g : g = [i \in 0..N |-> IF i = 0 THEN Opened ELSE ReadWord(g[i - 1], ws[i])]
<1>7. g = [i \in 0..N |-> IF i = 0 THEN Opened ELSE ReadWord(g[i - 1], ws[i])]
  BY <1>6
<1>8. Read(ws) = g[N]
  BY DEF Read, Opened, N
<1> HIDE DEF g
<1>9. g[0] = Opened /\ \A i \in 1..N : g[i] = ReadWord(g[i - 1], ws[i])
  BY <1>0, <1>7
<1>10. \A i \in 0..N : g[i] = f[i]
  <2>1. \A i \in 1..N : g[i - 1] \in Parses => g[i] = step[i][g[i - 1]]
    BY <1>3, <1>9
  <2>2. g[0] = Opened
    BY <1>9
  <2> QED
    BY <1>0, <1>4, <2>1, <2>2, OpenedType, LoopOnly
<1>11. \A i \in 0..N : g[i] \in Parses
  BY <1>4, <1>10 DEF Runs
<1> QED
  BY <1>8, <1>9, <1>11 DEF WordsRead, N

\* The words in turn, once more: one word after a command that was read.
LEMMA ReadOneMore ==
  ASSUME NEW W, NEW ws \in Seq(W), NEW w \in W
  PROVE  WordRead(Read(Append(ws, w)), Read(ws), w)
<1> DEFINE vs == Append(ws, w)
           n == Len(ws)
<1>1. n \in Nat /\ Len(vs) = n + 1 /\ vs[n + 1] = w /\ \A i \in 1..n : vs[i] = ws[i]
  OBVIOUS
<1> HIDE DEF vs, n
<1>2. PICK r : WordsRead(r, ws)
  BY <1>1, ReadLoop DEF n
<1>3. PICK q : WordsRead(q, vs)
  BY <1>1, ReadLoop
<1> DEFINE I == {i \in 0..n : r[i] = q[i]}
<1>4. 0 \in I
  BY <1>1, <1>2, <1>3 DEF WordsRead
<1>5. ASSUME NEW i \in I, i < n PROVE i + 1 \in I
  <2>1. i + 1 \in 1..n /\ (i + 1) - 1 = i /\ i + 1 \in 0..n /\ i + 1 \in 1..n + 1
    BY <1>1, <1>5
  <2>2. r[i + 1] = ReadWord(r[i], ws[i + 1])
    BY <1>2, <2>1 DEF WordsRead, n
  <2>3. q[i + 1] = ReadWord(q[i], vs[i + 1])
    BY <1>1, <1>3, <2>1 DEF WordsRead
  <2> QED
    BY <1>1, <2>1, <2>2, <2>3
<1>6. I \in SUBSET (0..n)
  OBVIOUS
<1> HIDE DEF I
<1>7. n \in I
  BY <1>1, <1>4, <1>5, <1>6, UpTo
<1>8. r[n] = q[n]
  BY <1>7 DEF I
<1>9. n + 1 \in 1..n + 1 /\ (n + 1) - 1 = n /\ n \in 0..n
  BY <1>1
<1>10. q[n + 1] = ReadWord(q[n], w)
  BY <1>1, <1>3, <1>9 DEF WordsRead
<1>11. Read(ws) = q[n] /\ Read(vs) = q[n + 1] /\ r[n] \in Parses
  BY <1>1, <1>2, <1>3, <1>8, <1>9 DEF WordsRead, n
<1>12. q[n] \in Parses
  BY <1>8, <1>11
<1>13. WordRead(q[n + 1], q[n], w)
  BY <1>10, <1>12, ReadWordDoes
<1> QED
  BY <1>11, <1>13 DEF vs

LEMMA WordMeansMade == \A ws : \A i : WordMeans(ws, i) \in Seq(Made)
<1> TAKE ws
<1> TAKE i
<1>1. CASE IsKeyword(ws[i])
  <2>1. ws[i].text \in Keywords
    BY <1>1 DEF IsKeyword
  <2>2. Opening(ws[i].text) \in Seq(Made)
    BY <2>1, OpeningMade
  <2> QED
    BY <1>1, <2>2 DEF WordMeans
<1>2. CASE ~IsKeyword(ws[i])
  <2>1. Argument(KeywordOf(ws, i), ws[i]) \in Seq(Made)
    BY ArgumentMade
  <2> QED
    BY <1>2, <2>1 DEF WordMeans
<1> QED
  BY <1>1, <1>2

\* m holds what the first words mean.
WordsMean(m, ws) ==
  /\ m[0] = <<>>
  /\ \A i \in 0..Len(ws) : m[i] \in Seq(Made)
  /\ \A i \in 1..Len(ws) : m[i] = m[i - 1] \o WordMeans(ws, i)
  /\ Means(ws) = m[Len(ws)]

LEMMA MeansLoop ==
  ASSUME NEW ws, Len(ws) \in Nat
  PROVE  \E m : WordsMean(m, ws)
<1> DEFINE N == Len(ws)
           S == Seq(Made)
           step == [i \in 1..N |-> [x \in S |-> x \o WordMeans(ws, i)]]
<1>1. \A i \in 1..N, x \in S : x \o WordMeans(ws, i) \in S
  <2> TAKE i \in 1..N, x \in S
  <2>1. WordMeans(ws, i) \in Seq(Made)
    BY WordMeansMade
  <2> QED
    BY <2>1, ConcatProperties
<1>2. <<>> \in S
  OBVIOUS
<1>0. N \in Nat
  OBVIOUS
<1> HIDE DEF N, S
<1>3. step \in [1..N -> [S -> S]]
  BY <1>1
<1>4. \A i \in 1..N, x \in S : step[i][x] = x \o WordMeans(ws, i)
  OBVIOUS
<1> HIDE DEF step
<1>5. PICK f : Runs(f, N, S, <<>>, step)
  BY <1>0, <1>2, <1>3, LoopRuns
<1>6. \A i \in 1..N : f[i] = f[i - 1] \o WordMeans(ws, i)
  <2>1. \A i \in 1..N : i - 1 \in 0..N
    BY <1>0
  <2> QED
    BY <1>4, <1>5, <2>1 DEF Runs
<1>7. f = [i \in 0..N |-> IF i = 0 THEN <<>> ELSE f[i - 1] \o WordMeans(ws, i)]
  <2>1. \A i \in 0..N : i = 0 \/ (i # 0 /\ i \in 1..N)
    BY <1>0
  <2>2. \A i \in 0..N : f[i] = IF i = 0 THEN <<>> ELSE f[i - 1] \o WordMeans(ws, i)
    BY <1>5, <1>6, <2>1 DEF Runs
  <2> QED
    BY <1>5, <2>2 DEF Runs
<1> DEFINE g == CHOOSE g : g = [i \in 0..N |-> IF i = 0 THEN <<>> ELSE g[i - 1] \o WordMeans(ws, i)]
<1>8. g = [i \in 0..N |-> IF i = 0 THEN <<>> ELSE g[i - 1] \o WordMeans(ws, i)]
  BY <1>7
<1>9. Means(ws) = g[N]
  BY DEF Means, N
<1> HIDE DEF g
<1>10. g[0] = <<>> /\ \A i \in 1..N : g[i] = g[i - 1] \o WordMeans(ws, i)
  <2> DEFINE next(h, i) == IF i = 0 THEN <<>> ELSE h[i - 1] \o WordMeans(ws, i)
  <2>1. g = [i \in 0..N |-> next(g, i)]
    BY <1>8
  <2> HIDE DEF next
  <2>2. \A i \in 0..N : g[i] = next(g, i)
    BY <2>1
  <2>3. 0 \in 0..N /\ \A i \in 1..N : i \in 0..N /\ i # 0
    BY <1>0
  <2> QED
    BY <2>2, <2>3 DEF next
<1>11. \A i \in 0..N : g[i] = f[i]
  <2>1. \A i \in 1..N : g[i - 1] \in S => g[i] = step[i][g[i - 1]]
    BY <1>4, <1>10
  <2>2. g[0] = <<>>
    BY <1>10
  <2> QED
    BY <1>0, <1>2, <1>5, <2>1, <2>2, LoopOnly
<1>12. \A i \in 0..N : g[i] \in S
  BY <1>5, <1>11 DEF Runs
<1>13. WordsMean(g, ws)
  BY <1>9, <1>10, <1>12 DEF WordsMean, N, S
<1> QED
  BY <1>13

LEMMA KeywordStep ==
  ASSUME NEW ws
  PROVE  /\ KeywordOf(ws, 0) = ""
         /\ \A i \in Nat \ {0} : KeywordOf(ws, i) = IF IsKeyword(ws[i]) THEN ws[i].text
                                                     ELSE KeywordOf(ws, i - 1)
<1> DEFINE before(i) == {j \in 1..i : IsKeyword(ws[j])}
           last(S) == CHOOSE j \in S : \A k \in S : k <= j
<1>1. \A i : KeywordOf(ws, i) = IF before(i) = {} THEN "" ELSE ws[last(before(i))].text
  BY DEF KeywordOf
<1>2. KeywordOf(ws, 0) = ""
  <2>1. before(0) = {}
    OBVIOUS
  <2> QED
    BY <1>1, <2>1
<1>3. ASSUME NEW i \in Nat \ {0}, IsKeyword(ws[i])
      PROVE  KeywordOf(ws, i) = ws[i].text
  <2> DEFINE S == before(i)
  <2>1. i \in S /\ \A k \in S : k \in Int /\ k <= i
    BY <1>3
  <2> HIDE DEF S
  <2>2. last(S) \in S /\ \A k \in S : k <= last(S)
    BY <2>1
  <2>3. PICK e : e = last(S)
    OBVIOUS
  <2> HIDE DEF last
  <2>4. e = i
    <3>1. e \in S /\ i <= e
      BY <2>1, <2>2, <2>3
    <3>2. e \in Int /\ e <= i /\ i \in Int
      BY <2>1, <3>1
    <3> QED
      BY <3>1, <3>2
  <2>5. S # {} /\ KeywordOf(ws, i) = ws[e].text
    BY <1>1, <2>1, <2>3 DEF S
  <2> QED
    BY <2>4, <2>5
<1>4. ASSUME NEW i \in Nat \ {0}, ~IsKeyword(ws[i])
      PROVE  KeywordOf(ws, i) = KeywordOf(ws, i - 1)
  <2>1. before(i) = before(i - 1)
    BY <1>4
  <2> HIDE DEF before, last
  <2> QED
    BY <1>1, <2>1
<1> QED
  BY <1>2, <1>3, <1>4

\* While the buffer has room, the parser is where the meaning of the words is.
MeantTo(s, a, ws, i) ==
  s.ok /\ ~Full(s) => /\ s.mode = KeywordOf(ws, i)
                      /\ s.acts = a
                      /\ \A j \in 1..i : IsKeyword(ws[j]) \/ WordMeans(ws, j) # <<>>

LEMMA MeantStep ==
  ASSUME NEW ws, NEW i \in Nat \ {0}, NEW s \in Parses, NEW a, MeantTo(s, a, ws, i - 1),
         NEW x, WordRead(x, s, ws[i])
  PROVE  MeantTo(x, a \o WordMeans(ws, i), ws, i)
<1> SUFFICES ASSUME x.ok, ~Full(x)
             PROVE  /\ x.mode = KeywordOf(ws, i)
                    /\ x.acts = a \o WordMeans(ws, i)
                    /\ \A j \in 1..i : IsKeyword(ws[j]) \/ WordMeans(ws, j) # <<>>
  BY DEF MeantTo
<1>1. s.ok /\ ~Full(s)
  BY DEF WordRead
<1>2. /\ s.mode = KeywordOf(ws, i - 1) /\ s.acts = a
      /\ \A j \in 1..i - 1 : IsKeyword(ws[j]) \/ WordMeans(ws, j) # <<>>
  BY <1>1 DEF MeantTo
<1>3. KeywordOf(ws, i) = IF IsKeyword(ws[i]) THEN ws[i].text ELSE KeywordOf(ws, i - 1)
  BY KeywordStep
<1>4. \A j \in 1..i : j = i \/ j \in 1..i - 1
  OBVIOUS
<1>5. CASE IsKeyword(ws[i])
  <2>1. WordMeans(ws, i) = Opening(ws[i].text)
    BY <1>5 DEF WordMeans
  <2>2. x.mode = ws[i].text /\ x.acts = s.acts \o Opening(ws[i].text)
    BY <1>1, <1>5 DEF WordRead
  <2> QED
    BY <1>2, <1>3, <1>4, <1>5, <2>1, <2>2
<1>6. CASE ~IsKeyword(ws[i])
  <2>1. KeywordOf(ws, i) = s.mode
    BY <1>2, <1>3, <1>6
  <2>2. WordMeans(ws, i) = Argument(s.mode, ws[i])
    BY <1>6, <2>1 DEF WordMeans
  <2>3. Argument(s.mode, ws[i]) # <<>> /\ x.mode = s.mode /\ x.acts = s.acts \o Argument(s.mode, ws[i])
    BY <1>1, <1>6 DEF WordRead
  <2> QED
    BY <1>2, <1>4, <2>1, <2>2, <2>3
<1> QED
  BY <1>5, <1>6

\* What is read of a command and not too long is what it means.
LEMMA ReadMeans ==
  ASSUME NEW W, NEW ws \in Seq(W), Read(ws).ok, ~Full(Read(ws))
  PROVE  Meaningful(ws) /\ Read(ws).acts = Means(ws)
<1> DEFINE n == Len(ws)
<1>0. n \in Nat /\ DOMAIN ws = 1..n
  OBVIOUS
<1> HIDE DEF n
<1>1. PICK r : WordsRead(r, ws)
  BY <1>0, ReadLoop DEF n
<1>2. PICK m : WordsMean(m, ws)
  BY <1>0, MeansLoop DEF n
<1> DEFINE I == {i \in 0..n : MeantTo(r[i], m[i], ws, i)}
<1>3. 0 \in I
  <2>1. r[0] = Opened /\ m[0] = <<>>
    BY <1>1, <1>2 DEF WordsRead, WordsMean
  <2>2. KeywordOf(ws, 0) = ""
    BY KeywordStep
  <2>3. 1..0 = {}
    OBVIOUS
  <2>4. Opened.mode = "" /\ Opened.acts = <<>>
    BY DEF Opened
  <2>5. MeantTo(r[0], m[0], ws, 0)
    BY <2>1, <2>2, <2>3, <2>4 DEF MeantTo
  <2> QED
    BY <1>0, <2>5
<1>4. ASSUME NEW k \in I, k < n PROVE k + 1 \in I
  <2> DEFINE i == k + 1
  <2>1. i \in Nat \ {0} /\ i \in 1..n /\ i - 1 = k /\ i \in 0..n /\ k \in 0..n
    BY <1>0, <1>4
  <2>2. MeantTo(r[k], m[k], ws, k)
    OBVIOUS
  <2> HIDE DEF i
  <2>3. r[k] \in Parses /\ r[i] = ReadWord(r[k], ws[i]) /\ m[i] = m[k] \o WordMeans(ws, i)
    BY <1>1, <1>2, <2>1 DEF WordsRead, WordsMean, n
  <2>4. WordRead(r[i], r[k], ws[i])
    BY <2>3, ReadWordDoes
  <2>5. MeantTo(r[i], m[i], ws, i)
    BY <2>1, <2>2, <2>3, <2>4, MeantStep
  <2> QED
    BY <2>1, <2>5 DEF i
<1>5. I \in SUBSET (0..n)
  OBVIOUS
<1> HIDE DEF I
<1>6. n \in I
  BY <1>0, <1>3, <1>4, <1>5, UpTo
<1>7. MeantTo(r[n], m[n], ws, n) /\ Read(ws) = r[n] /\ Means(ws) = m[n]
  BY <1>1, <1>2, <1>6 DEF I, WordsRead, WordsMean, n
<1>8. Read(ws).acts = Means(ws) /\ \A j \in 1..n : IsKeyword(ws[j]) \/ WordMeans(ws, j) # <<>>
  BY <1>7 DEF MeantTo
<1> QED
  BY <1>0, <1>8 DEF Meaningful

LEMMA WordsType ==
  ASSUME NEW ws \in Seq(CommandWords)
  PROVE  \E W : Words(ws) \in Seq(W)
<1>1. CASE Words(ws) = ws
  BY <1>1
<1>2. CASE Words(ws) = <<Plain("button"), Word("+", ws[1].text)>>
  <2> DEFINE x == Plain("button")
             y == Word("+", ws[1].text)
  <2> HIDE DEF x, y
  <2>1. <<x, y>> \in Seq({x, y})
    OBVIOUS
  <2> QED
    BY <1>2, <2>1 DEF x, y
<1> QED
  BY <1>1, <1>2 DEF Words

LEMMA TypedSeq == CommandSpec => [](typed \in Seq(CommandWords))
<1> DEFINE Inv == typed \in Seq(CommandWords)
<1>1. CommandInit => Inv
  BY DEF CommandInit
<1>2. Inv /\ [CommandNext]_typed => Inv'
  <2> SUFFICES ASSUME typed \in Seq(CommandWords), [CommandNext]_typed
               PROVE  typed' \in Seq(CommandWords)
    OBVIOUS
  <2>1. ASSUME NEW w \in CommandWords, typed' = Append(typed, w)
        PROVE  typed' \in Seq(CommandWords)
    BY <2>1
  <2>2. CASE typed' = <<>>
    BY <2>2
  <2> QED
    BY <2>1, <2>2 DEF CommandNext
<1> QED
  BY <1>1, <1>2, PTL DEF CommandSpec

\* The driver accepts a command only whole, for any words and buffers: a command that
\* does not fit fills the buffer, and what fills the buffer is refused as too long.
THEOREM CommandsMeant == CommandSpec => []AcceptedIsMeant
<1>1. typed \in Seq(CommandWords) => AcceptedIsMeant
  <2> SUFFICES ASSUME typed \in Seq(CommandWords), Parse(typed).ok, Valid(Parse(typed).acts)
               PROVE  Meaningful(Words(typed)) /\ Parse(typed).acts = Means(Words(typed))
    BY DEF AcceptedIsMeant
  <2> DEFINE ws == Words(typed)
             p == Read(ws)
  <2>1. Parse(typed) = p
    BY DEF Parse
  <2> PICK W : ws \in Seq(W)
    BY WordsType
  <2>2. Len(ws) \in Nat
    OBVIOUS
  <2> HIDE DEF ws
  <2>3. p \in Parses
    <3>1. PICK r : WordsRead(r, ws)
      BY <2>2, ReadLoop
    <3>2. Len(ws) \in 0..Len(ws)
      BY <2>2
    <3> QED
      BY <3>1, <3>2 DEF WordsRead
  <2> HIDE DEF p
  <2>4. Len(p.acts) < TooMany /\ Len(p.acts) \in Nat
    BY <2>1, <2>3 DEF Valid, Parses
  <2>5. TooMany \in Int /\ Capacity \in Int /\ TooMany <= Capacity
    BY MappingsAssumption, ActionsAssumption DEF MappingsAssumption, ActionsAssumption
  <2>6. ~Full(p)
    BY <2>4, <2>5 DEF Full
  <2>7. p.ok
    BY <2>1
  <2>8. Meaningful(ws) /\ p.acts = Means(ws)
    BY <2>6, <2>7, ReadMeans DEF p
  <2> QED
    BY <2>1, <2>8 DEF ws
<1> QED
  BY <1>1, TypedSeq, PTL

-----------------------------------------------------------------------------
(***************************************************************************)
(* Commands: what is shown of a mapping.                                   *)
(***************************************************************************)
Printed == {Plain(k) : k \in Keywords} \cup {Signed(a) : a \in Made}
Shows == [last : Modes, words : Seq(Printed)]
Blank == [last |-> "", words |-> <<>>]

\* Keys and buttons: what is pressed or released, and no more.
Struck == {a \in Made : a.type \in {"key", "button"}}

LEMMA StrokesOne ==
  ASSUME NEW type, NEW press \in BOOLEAN, NEW code
  PROVE  Strokes(type, IF press THEN "+" ELSE "-", code) = <<Act(type, press, code)>>
<1>1. CASE press = TRUE
  <2>1. Strokes(type, "+", code) = <<Act(type, TRUE, code)>> \o <<>>
    BY DEF Strokes
  <2> DEFINE x == Act(type, TRUE, code)
  <2> HIDE DEF x
  <2>2. <<x>> \o <<>> = <<x>>
    OBVIOUS
  <2> QED
    BY <1>1, <2>1, <2>2 DEF x
<1>2. CASE press = FALSE
  <2>1. Strokes(type, "-", code) = <<>> \o <<Act(type, FALSE, code)>>
    BY DEF Strokes
  <2> DEFINE x == Act(type, FALSE, code)
  <2> HIDE DEF x
  <2>2. <<>> \o <<x>> = <<x>>
    OBVIOUS
  <2> QED
    BY <1>2, <2>1, <2>2 DEF x
<1> QED
  BY <1>1, <1>2

\* A key or a button is printed as a word that means it.
LEMMA SignedMeans ==
  ASSUME KeysNamed, NEW a \in Struck, ~Unprinted(a)
  PROVE  ~IsKeyword(Signed(a)) /\ Argument(a.type, Signed(a)) = <<a>>
<1> DEFINE w == Signed(a)
           sign == IF a.press THEN "+" ELSE "-"
<1>1. w.sign = sign /\ w.text = IF a.type = "key" THEN Keysym[a.code] ELSE NumberName(a.code)
  BY DEF Signed, Word
<1>2. sign # ""
  OBVIOUS
<1>3. ~IsKeyword(w)
  BY <1>1, <1>2 DEF IsKeyword
<1>4. CASE a.type = "key"
  <2>1. a \in [type : {"key"}, press : BOOLEAN, code : Keycodes]
    BY <1>4 DEF Struck, Made, Toggle, Pan, Act
  <2>2. a = Act("key", a.press, a.code) /\ a.press \in BOOLEAN
    BY <2>1 DEF Act
  <2>3. PICK k \in DOMAIN Keycode : a.code = Keycode[k]
    BY <2>1 DEF Keycodes
  <2>4. w.text \in DOMAIN Keycode /\ Keycode[w.text] = a.code
    BY <1>1, <1>4, <2>3 DEF KeysNamed, Unprinted
  <2> HIDE DEF w
  <2>5. Argument("key", w) = Strokes("key", sign, a.code)
    BY <1>1, <1>2, <2>4 DEF Argument
  <2>6. Strokes("key", sign, a.code) = <<Act("key", a.press, a.code)>>
    BY <2>2, StrokesOne
  <2> HIDE DEF sign
  <2> QED
    BY <1>3, <1>4, <2>2, <2>5, <2>6 DEF w
<1>5. CASE a.type = "button"
  <2>1. a \in [type : {"button"}, press : BOOLEAN, code : Numbers]
    BY <1>5 DEF Struck, Made, Toggle, Pan, Act
  <2>2. a = Act("button", a.press, a.code) /\ a.press \in BOOLEAN
    BY <2>1 DEF Act
  <2>3. \E k \in DOMAIN Number : Number[k] = a.code
    BY <2>1 DEF Numbers
  <2>4. NumberName(a.code) \in DOMAIN Number /\ Number[NumberName(a.code)] = a.code
    BY <2>3 DEF NumberName
  <2>5. w.text \in DOMAIN Number /\ Number[w.text] = a.code
    BY <1>1, <1>5, <2>4
  <2> HIDE DEF w
  <2>6. Argument("button", w) = Strokes("button", sign, a.code)
    BY <1>1, <2>5 DEF Argument
  <2>7. Strokes("button", sign, a.code) = <<Act("button", a.press, a.code)>>
    BY <2>2, StrokesOne
  <2> HIDE DEF sign
  <2> QED
    BY <1>3, <1>5, <2>2, <2>6, <2>7 DEF w
<1> QED
  BY <1>4, <1>5 DEF Struck

\* s shows the first i actions: reading its words makes them, and leaves the parser at
\* the keyword printed last.
ShowsFirst(s, acts, i) ==
  LET p == Read(s.words)
  IN /\ p \in Parses /\ p.ok /\ p.mode = s.last
     /\ Len(p.acts) = i /\ \A j \in 1..i : p.acts[j] = acts[j]
     /\ i = 0 => s = Blank
     /\ i > 0 => s.words # <<>> /\ s.words[1].text \in Keywords

LEMMA ReadKeyword ==
  ASSUME NEW ws \in Seq(Printed), NEW k \in Keywords, Read(ws) \in Parses,
         Read(ws).ok, ~Full(Read(ws))
  PROVE  LET q == Read(ws \o <<Plain(k)>>)
         IN q \in Parses /\ q.ok /\ q.mode = k /\ q.acts = Read(ws).acts \o Opening(k)
<1> DEFINE w == Plain(k)
           p == Read(ws)
           q == Read(Append(ws, w))
<1>1. w \in Printed /\ IsKeyword(w) /\ w.text = k
  BY DEF Printed, Plain, Word, IsKeyword
<1> HIDE DEF w
<1>2. WordRead(q, p, w)
  BY <1>1, ReadOneMore
<1>3. Append(ws, w) = ws \o <<w>>
  BY <1>1
<1> HIDE DEF p, q
<1>4. q \in Parses /\ q.ok /\ q.mode = k /\ q.acts = p.acts \o Opening(k)
  BY <1>1, <1>2 DEF WordRead, p
<1> QED
  BY <1>3, <1>4 DEF p, q, w

LEMMA ReadSigned ==
  ASSUME KeysNamed, NEW ws \in Seq(Printed), NEW a \in Struck, ~Unprinted(a),
         Read(ws) \in Parses, Read(ws).ok, ~Full(Read(ws)), Read(ws).mode = a.type
  PROVE  LET q == Read(ws \o <<Signed(a)>>)
         IN q \in Parses /\ q.ok /\ q.mode = a.type /\ q.acts = Read(ws).acts \o <<a>>
<1> DEFINE w == Signed(a)
           p == Read(ws)
           q == Read(Append(ws, w))
<1>1. w \in Printed
  BY DEF Printed, Struck
<1>2. ~IsKeyword(w) /\ Argument(a.type, w) = <<a>>
  BY SignedMeans
<1> HIDE DEF w
<1>3. WordRead(q, p, w)
  BY <1>1, ReadOneMore
<1>4. Append(ws, w) = ws \o <<w>>
  BY <1>1
<1>5. Len(p.acts) \in Nat /\ Len(p.acts) <= Capacity /\ Len(p.acts) # Capacity /\ Capacity \in Nat
  BY ActionsAssumption DEF ActionsAssumption, Full, Parses
<1>6. <<a>> # <<>> /\ Len(<<a>>) = 1
  OBVIOUS
<1> HIDE DEF p, q
<1>7. Len(p.acts) + Len(<<a>>) <= Capacity
  BY <1>5, <1>6
<1>8. q.ok /\ q.mode = p.mode /\ q.acts = p.acts \o <<a>> /\ q \in Parses
  BY <1>2, <1>3, <1>6, <1>7 DEF WordRead, p
<1> QED
  BY <1>4, <1>8 DEF p, q, w

FirstWord(ws) == ws # <<>> /\ ws[1].text \in Keywords

LEMMA FirstKept ==
  ASSUME NEW W, NEW ws \in Seq(W), NEW w \in W
  PROVE  /\ FirstWord(ws) => FirstWord(ws \o <<w>>)
         /\ ws = <<>> /\ w.text \in Keywords => FirstWord(ws \o <<w>>)
<1>1. ws \o <<w>> \in Seq(W) /\ Len(ws \o <<w>>) = Len(ws) + 1
      /\ (ws # <<>> => (ws \o <<w>>)[1] = ws[1]) /\ (ws = <<>> => (ws \o <<w>>)[1] = w)
  OBVIOUS
<1>2. ws \o <<w>> # <<>>
  OBVIOUS
<1> QED
  BY <1>1, <1>2 DEF FirstWord

LEMMA FirstMore ==
  ASSUME NEW acts \in Seq(Made), NEW i \in 1..Len(acts), NEW p \in Seq(Made), Len(p) = i - 1,
         \A j \in 1..i - 1 : p[j] = acts[j]
  PROVE  LET q == p \o <<acts[i]>> IN Len(q) = i /\ \A j \in 1..i : q[j] = acts[j]
<1> DEFINE a == acts[i]
<1>1. a \in Made /\ Len(acts) \in Nat
  OBVIOUS
<1>2. i \in Nat
  OBVIOUS
<1> HIDE DEF a
<1>3. Len(p \o <<a>>) = i /\ (\A j \in 1..i - 1 : (p \o <<a>>)[j] = p[j]) /\ (p \o <<a>>)[i] = a
  BY <1>1, <1>2
<1>4. \A j \in 1..i : j = i \/ j \in 1..i - 1
  BY <1>2
<1> QED
  BY <1>3, <1>4 DEF a

LEMMA ShowStep ==
  ASSUME KeysNamed, NEW acts \in Seq(Made), Len(acts) <= Capacity, NEW i \in 1..Len(acts),
         ~Unprinted(acts[i]), NEW s \in Shows, ShowsFirst(s, acts, i - 1)
  PROVE  ShowAction(s, acts[i]) \in Shows /\ ShowsFirst(ShowAction(s, acts[i]), acts, i)
<1> DEFINE a == acts[i]
           t == a.type
           x == ShowAction(s, a)
           ws == s.words
           p == Read(ws)
           new == p.acts \o <<a>>
<1>0. a \in Made /\ i \in Nat /\ i > 0 /\ ws \in Seq(Printed) /\ s.last \in Modes
  BY DEF Shows
<1>1. /\ p \in Parses /\ p.ok /\ p.mode = s.last
      /\ Len(p.acts) = i - 1 /\ (\A j \in 1..i - 1 : p.acts[j] = acts[j])
      /\ p.acts \in Seq(Made)
      /\ i - 1 = 0 => s = Blank
      /\ i - 1 > 0 => FirstWord(ws)
  BY DEF ShowsFirst, FirstWord, Parses
<1>2. ~Full(p)
  BY <1>0, <1>1, ActionsAssumption DEF ActionsAssumption, Full
<1>3. Len(new) = i /\ \A j \in 1..i : new[j] = acts[j]
  BY <1>1, FirstMore
<1>4. (ws = <<>> /\ s.last = "") \/ FirstWord(ws)
  <2>1. Blank.words = <<>> /\ Blank.last = ""
    BY DEF Blank
  <2>2. CASE i - 1 = 0
    BY <1>1, <2>1, <2>2
  <2>3. CASE i - 1 > 0
    BY <1>1, <2>3
  <2>4. i - 1 = 0 \/ i - 1 > 0
    OBVIOUS
  <2> QED
    BY <2>2, <2>3, <2>4
<1>5. a = Toggle \/ (a \in Struck /\ t \in {"key", "button"})
  BY <1>0 DEF Made, Struck, Pan, Act, Unprinted
<1>6. x = [last |-> t,
           words |-> ws \o (IF s.last = t /\ t # "modetoggle" THEN <<>> ELSE <<Plain(t)>>)
                     \o (IF t = "modetoggle" THEN <<>> ELSE <<Signed(a)>>)]
  BY DEF ShowAction, Unprinted
<1>7. \A k \in Keywords : Plain(k) \in Printed /\ Plain(k).text = k
  BY DEF Printed, Plain, Word
<1> SUFFICES x \in Shows /\ ShowsFirst(x, acts, i)
  OBVIOUS
<1> HIDE DEF x, p, new, ws
\* It is enough that reading the words shown makes these actions.
<1>8. ASSUME NEW vs \in Seq(Printed), NEW k \in Keywords, x = [last |-> k, words |-> vs],
             FirstWord(vs), Read(vs) \in Parses, Read(vs).ok, Read(vs).mode = k, Read(vs).acts = new
      PROVE  x \in Shows /\ ShowsFirst(x, acts, i)
  <2>1. x.last = k /\ x.words = vs /\ k \in Modes
    BY <1>8 DEF Modes
  <2>2. x \in Shows
    BY <1>8, <2>1 DEF Shows
  <2> QED
    BY <1>0, <1>3, <1>8, <2>1, <2>2 DEF ShowsFirst, FirstWord
<1>9. CASE a = Toggle
  <2>1. t = "modetoggle" /\ "modetoggle" \in Keywords /\ "modetoggle" # "pan"
    BY <1>9 DEF Toggle, Act, Keywords
  <2> DEFINE w == Plain("modetoggle")
             vs == ws \o <<w>>
  <2>2. w \in Printed /\ w.text = "modetoggle"
    BY <1>7, <2>1
  <2>3. LET q == Read(vs) IN q \in Parses /\ q.ok /\ q.mode = "modetoggle"
                             /\ q.acts = p.acts \o Opening("modetoggle")
    BY <1>0, <1>1, <1>2, <2>1, ReadKeyword DEF p
  <2> HIDE DEF w
  <2>4. FirstWord(vs)
    BY <1>0, <1>4, <2>1, <2>2, FirstKept
  <2>5. vs \in Seq(Printed) /\ vs \o <<>> = vs
    BY <1>0, <2>2
  <2>6. Opening("modetoggle") = <<a>>
    BY <1>9, <2>1, OpeningMade
  <2>7. x = [last |-> "modetoggle", words |-> vs]
    BY <1>6, <2>1, <2>5 DEF w
  <2> HIDE DEF vs
  <2> QED
    BY <1>8, <2>1, <2>3, <2>4, <2>5, <2>6, <2>7 DEF new
<1>10. CASE a \in Struck /\ t \in {"key", "button"} /\ s.last = t
  <2>1. t \in Keywords /\ t # "modetoggle" /\ t # ""
    BY <1>10 DEF Keywords
  <2> DEFINE w == Signed(a)
             vs == ws \o <<w>>
  <2>2. w \in Printed
    BY <1>0 DEF Printed
  <2>3. LET q == Read(vs) IN q \in Parses /\ q.ok /\ q.mode = t /\ q.acts = p.acts \o <<a>>
    BY <1>0, <1>1, <1>2, <1>10, ReadSigned DEF p
  <2> HIDE DEF w
  <2>4. FirstWord(vs)
    BY <1>0, <1>4, <1>10, <2>1, <2>2, FirstKept
  <2>5. vs \in Seq(Printed) /\ ws \o <<>> = ws
    BY <1>0, <2>2
  <2>6. x = [last |-> t, words |-> vs]
    BY <1>6, <1>10, <2>1, <2>5 DEF w
  <2> HIDE DEF vs, t
  <2> QED
    BY <1>8, <2>1, <2>3, <2>4, <2>5, <2>6 DEF new
<1>11. CASE a \in Struck /\ t \in {"key", "button"} /\ s.last # t
  <2>1. t \in Keywords /\ t # "modetoggle" /\ t # "pan" /\ t # ""
    BY <1>11 DEF Keywords
  <2> DEFINE k == Plain(t)
             w == Signed(a)
             us == ws \o <<k>>
             vs == us \o <<w>>
  <2>2. w \in Printed /\ k \in Printed /\ k.text = t
    BY <1>0, <1>7, <2>1 DEF Printed
  <2>3. LET q == Read(us) IN q \in Parses /\ q.ok /\ q.mode = t /\ q.acts = p.acts \o Opening(t)
    BY <1>0, <1>1, <1>2, <2>1, ReadKeyword DEF p
  <2>4. Opening(t) = <<>> /\ p.acts \o <<>> = p.acts
    <3>1. Opening(t) = <<>>
      BY <2>1, OpeningMade
    <3>2. p.acts \o <<>> = p.acts
      BY <1>1
    <3> QED
      BY <3>1, <3>2
  <2> HIDE DEF k
  <2>5. FirstWord(us) /\ us \in Seq(Printed)
    <3>1. k.text \in Keywords
      BY <2>1, <2>2
    <3>2. ws = <<>> \/ FirstWord(ws)
      BY <1>4
    <3>3. FirstWord(us)
      BY <1>0, <2>2, <3>1, <3>2, FirstKept
    <3>4. us \in Seq(Printed)
      BY <1>0, <2>2
    <3> QED
      BY <3>3, <3>4
  <2> HIDE DEF us
  <2>6. ~Full(Read(us)) /\ Read(us).mode = t /\ Read(us).acts = p.acts
    BY <1>2, <2>3, <2>4 DEF Full
  <2>7. LET q == Read(vs) IN q \in Parses /\ q.ok /\ q.mode = t /\ q.acts = p.acts \o <<a>>
    BY <1>11, <2>3, <2>5, <2>6, ReadSigned
  <2> HIDE DEF w
  <2>8. FirstWord(vs) /\ vs \in Seq(Printed)
    BY <2>2, <2>5, FirstKept
  <2>9. x = [last |-> t, words |-> vs]
    BY <1>6, <1>11, <2>1 DEF us, w, k
  <2> HIDE DEF vs, t
  <2> QED
    BY <1>8, <2>1, <2>7, <2>8, <2>9 DEF new
<1> QED
  BY <1>5, <1>9, <1>10, <1>11 DEF x

LEMMA ShowActionType ==
  ASSUME NEW s \in Shows, NEW a \in Made
  PROVE  ShowAction(s, a) \in Shows
<1> DEFINE t == a.type
           k == IF s.last = t /\ t # "modetoggle" THEN <<>> ELSE <<Plain(t)>>
           w == IF t = "modetoggle" THEN <<>> ELSE <<Signed(a)>>
           ws == s.words
           x == [last |-> t, words |-> ws \o k \o w]
<1>1. t \in {"modetoggle", "pan", "button", "key"} /\ t \in Keywords /\ t \in Modes
  <2>1. Toggle.type = "modetoggle" /\ Pan.type = "pan"
    BY DEF Toggle, Pan, Act
  <2>2. t \in {"modetoggle", "pan", "button", "key"}
    BY <2>1 DEF Made
  <2> HIDE DEF t
  <2> QED
    BY <2>2 DEF Keywords, Modes
<1>2. Plain(t) \in Printed /\ Signed(a) \in Printed
  BY <1>1 DEF Printed
<1>3. k \in Seq(Printed) /\ w \in Seq(Printed) /\ ws \in Seq(Printed)
  BY <1>2 DEF Shows
<1>4. ShowAction(s, a) = IF t = "pan" THEN s ELSE x
  BY DEF ShowAction
<1> HIDE DEF k, w, ws, t
<1>5. ws \o k \in Seq(Printed)
  BY <1>3, ConcatProperties
<1>6. ws \o k \o w \in Seq(Printed)
  BY <1>3, <1>5, ConcatProperties
<1> DEFINE vs == ws \o k \o w
<1> HIDE DEF vs
<1>7. [last |-> t, words |-> vs] \in Shows
  BY <1>1, <1>6 DEF Shows, vs
<1> QED
  BY <1>4, <1>7 DEF vs

\* f holds what is printed of the first actions of a list.
ActionsShown(f, acts) ==
  /\ f[0] = Blank
  /\ \A i \in 0..Len(acts) : f[i] \in Shows
  /\ \A i \in 1..Len(acts) : f[i] = ShowAction(f[i - 1], acts[i])
  /\ Shown(acts) = f[Len(acts)].words

LEMMA ShowLoop ==
  ASSUME NEW acts \in Seq(Made), Len(acts) <= Fetched
  PROVE  \E f : ActionsShown(f, acts)
<1> DEFINE N == Len(acts)
           step == [i \in 1..N |-> [x \in Shows |-> ShowAction(x, acts[i])]]
<1>0. N \in Nat /\ \A i \in 1..N : acts[i] \in Made
  OBVIOUS
<1>1. \A i \in 1..N, x \in Shows : ShowAction(x, acts[i]) \in Shows
  BY <1>0, ShowActionType
<1>2. step \in [1..N -> [Shows -> Shows]]
  BY <1>1
<1>3. \A i \in 1..N, x \in Shows : step[i][x] = ShowAction(x, acts[i])
  OBVIOUS
<1> HIDE DEF step
<1>4. Blank \in Shows
  <2>1. <<>> \in Seq(Printed) /\ "" \in Modes
    BY DEF Modes
  <2> QED
    BY <2>1 DEF Blank, Shows
<1>5. (IF Len(acts) < Fetched THEN Len(acts) ELSE Fetched) = N
  BY <1>0, ActionsAssumption DEF ActionsAssumption
<1> HIDE DEF N
<1>6. PICK f : Runs(f, N, Shows, Blank, step)
  BY <1>0, <1>2, <1>4, LoopRuns
<1>7. \A i \in 1..N : f[i] = ShowAction(f[i - 1], acts[i])
  <2>1. \A i \in 1..N : i - 1 \in 0..N
    BY <1>0
  <2> QED
    BY <1>3, <1>6, <2>1 DEF Runs
<1>8. f = [i \in 0..N |-> IF i = 0 THEN Blank ELSE ShowAction(f[i - 1], acts[i])]
  <2>1. \A i \in 0..N : i = 0 \/ (i # 0 /\ i \in 1..N)
    BY <1>0
  <2>2. \A i \in 0..N : f[i] = IF i = 0 THEN Blank ELSE ShowAction(f[i - 1], acts[i])
    BY <1>6, <1>7, <2>1 DEF Runs
  <2> QED
    BY <1>6, <2>2 DEF Runs
<1> DEFINE g == CHOOSE g : g = [i \in 0..N |-> IF i = 0 THEN Blank ELSE ShowAction(g[i - 1], acts[i])]
<1>9. g = [i \in 0..N |-> IF i = 0 THEN Blank ELSE ShowAction(g[i - 1], acts[i])]
  BY <1>8
<1>10. Shown(acts) = g[N].words
  BY <1>5 DEF Shown, Blank
<1> HIDE DEF g
<1>11. g[0] = Blank /\ \A i \in 1..N : g[i] = ShowAction(g[i - 1], acts[i])
  BY <1>0, <1>9
<1>12. \A i \in 0..N : g[i] = f[i]
  <2>1. \A i \in 1..N : g[i - 1] \in Shows => g[i] = step[i][g[i - 1]]
    BY <1>3, <1>11
  <2>2. g[0] = Blank
    BY <1>11
  <2> QED
    BY <1>0, <1>4, <1>6, <2>1, <2>2, LoopOnly
<1>13. \A i \in 0..N : g[i] \in Shows
  BY <1>6, <1>12 DEF Runs
<1>14. ActionsShown(g, acts)
  BY <1>10, <1>11, <1>13 DEF ActionsShown, N
<1> QED
  BY <1>14

\* What is shown of a list without a pan is read as the same list.
LEMMA ShownRead ==
  ASSUME KeysNamed, NEW acts \in Seq(Made), Len(acts) <= Capacity, Len(acts) <= Fetched,
         acts # <<>>, \A i \in DOMAIN acts : ~Unprinted(acts[i])
  PROVE  Parse(Shown(acts)).ok /\ Parse(Shown(acts)).acts = acts
<1> DEFINE n == Len(acts)
<1>0. n \in Nat /\ n > 0 /\ DOMAIN acts = 1..n
  OBVIOUS
<1> HIDE DEF n
<1>1. PICK f : ActionsShown(f, acts)
  BY ShowLoop
<1>2. \A i \in 1..n : f[i] = ShowAction(f[i - 1], acts[i])
  BY <1>1 DEF ActionsShown, n
<1> DEFINE I == {i \in 0..n : f[i] \in Shows /\ ShowsFirst(f[i], acts, i)}
<1>3. 0 \in I
  <2>1. f[0] = Blank /\ 0 \in 0..n
    BY <1>0, <1>1 DEF ActionsShown
  <2>2. Blank \in Shows
    BY <1>0, <1>1, <2>1 DEF ActionsShown, n
  <2>3. Blank.words = <<>> /\ Blank.last = "" /\ Len(<<>>) = 0
    BY DEF Blank
  <2>4. PICK r : WordsRead(r, <<>>)
    BY <2>3, ReadLoop
  <2>5. Read(<<>>) = Opened
    BY <2>3, <2>4 DEF WordsRead
  <2>6. Opened.ok /\ Opened.mode = "" /\ Opened.acts = <<>>
    BY DEF Opened
  <2>7. 1..0 = {}
    OBVIOUS
  <2>8. ShowsFirst(Blank, acts, 0)
    <3> DEFINE p == Read(Blank.words)
    <3>1. p = Opened
      BY <2>3, <2>5
    <3>2. p \in Parses /\ p.ok /\ p.mode = Blank.last /\ Len(p.acts) = 0
      BY <2>3, <2>6, <3>1, OpenedType
    <3> HIDE DEF p
    <3>3. \A j \in 1..0 : p.acts[j] = acts[j]
      BY <2>7
    <3>4. ~(0 > 0)
      OBVIOUS
    <3> QED
      BY <3>2, <3>3, <3>4 DEF ShowsFirst, p
  <2> QED
    BY <2>1, <2>2, <2>8
<1>4. ASSUME NEW k \in I, k < n PROVE k + 1 \in I
  <2> DEFINE i == k + 1
  <2>1. i \in 1..n /\ i - 1 = k /\ i \in 0..n
    BY <1>0, <1>4
  <2>2. f[k] \in Shows /\ ShowsFirst(f[k], acts, k)
    OBVIOUS
  <2> HIDE DEF i, I
  <2>3. f[i] = ShowAction(f[k], acts[i]) /\ ~Unprinted(acts[i]) /\ i \in 1..Len(acts)
    BY <1>0, <1>2, <2>1 DEF n
  <2>4. f[i] \in Shows /\ ShowsFirst(f[i], acts, i)
    BY <2>1, <2>2, <2>3, ShowStep
  <2> QED
    BY <2>1, <2>4 DEF I, i
<1>5. I \in SUBSET (0..n)
  OBVIOUS
<1> HIDE DEF I
<1>6. n \in I
  BY <1>0, <1>3, <1>4, <1>5, UpTo
<1> DEFINE s == f[n]
           ws == s.words
<1>7. s \in Shows /\ ShowsFirst(s, acts, n) /\ Shown(acts) = ws
  BY <1>1, <1>6 DEF I, ActionsShown, n
<1> HIDE DEF s
<1>8. ws # <<>> /\ ws[1].text \in Keywords /\ ws \in Seq(Printed)
  BY <1>0, <1>7 DEF ShowsFirst, Shows
<1>9. Words(ws) = ws
  <2>1. ws[1].text \notin DOMAIN Number
    BY <1>8, ActionsAssumption DEF ActionsAssumption
  <2> HIDE DEF ws
  <2> QED
    BY <2>1 DEF Words
<1>10. Parse(ws) = Read(ws)
  BY <1>9 DEF Parse
<1> DEFINE p == Read(ws)
<1>11. p \in Parses /\ p.ok /\ Len(p.acts) = n /\ \A j \in 1..n : p.acts[j] = acts[j]
  BY <1>7 DEF ShowsFirst
<1> HIDE DEF p, ws
<1>12. p.acts \in Seq(Made)
  BY <1>11 DEF Parses
<1>13. p.acts = acts
  BY <1>11, <1>12, SeqEqual DEF n
<1> QED
  BY <1>7, <1>10, <1>11, <1>13 DEF p

\* What xsetwacom shows of a mapping can be typed again and gives the same mapping,
\* for any words and lists: no keyword is left out where the type changes, and none is
\* needed where it does not.  Keys must have names of their own (KeysNamed); a pan, or a
\* key that the keyboard lacks, is not printed as a word that can be typed (Unprinted).
THEOREM CommandsReproduced ==
  ASSUME KeysNamed
  PROVE  CommandSpec => []Reproduces
<1>1. typed \in Seq(CommandWords) => Reproduces
  <2> SUFFICES ASSUME typed \in Seq(CommandWords), Parse(typed).ok, Parse(typed).acts # <<>>,
                      Len(Parse(typed).acts) <= Fetched,
                      \A i \in DOMAIN Parse(typed).acts : ~Unprinted(Parse(typed).acts[i])
               PROVE  /\ Parse(Shown(Parse(typed).acts)).ok
                      /\ Parse(Shown(Parse(typed).acts)).acts = Parse(typed).acts
    BY DEF Reproduces
  <2> DEFINE ws == Words(typed)
             p == Parse(typed)
  <2> PICK W : ws \in Seq(W)
    BY WordsType
  <2>1. p = Read(ws) /\ Len(ws) \in Nat
    BY DEF Parse
  <2> HIDE DEF ws, p
  <2>2. p \in Parses
    <3>1. PICK r : WordsRead(r, ws)
      BY <2>1, ReadLoop
    <3>2. Len(ws) \in 0..Len(ws)
      BY <2>1
    <3> QED
      BY <2>1, <3>1, <3>2 DEF WordsRead
  <2>3. p.acts \in Seq(Made) /\ Len(p.acts) <= Capacity
    BY <2>2 DEF Parses
  <2> DEFINE a == p.acts
  <2>4. a # <<>> /\ Len(a) <= Fetched /\ \A i \in DOMAIN a : ~Unprinted(a[i])
    BY DEF p
  <2>5. a \in Seq(Made) /\ Len(a) <= Capacity
    BY <2>3
  <2> HIDE DEF a
  <2>6. Parse(Shown(a)).ok /\ Parse(Shown(a)).acts = a
    BY <2>4, <2>5, ShownRead
  <2> QED
    BY <2>6 DEF a, p
<1> QED
  BY <1>1, TypedSeq, PTL
=============================================================================
