------------------------------ MODULE Mappings ------------------------------
(***************************************************************************)
(* The buttons' actions as X device properties.  Each button has a handler *)
(* (the atom of a property with a list of actions) and the actions it      *)
(* runs; the property "Wacom Button Actions" is the list of the handlers   *)
(* in X11 numbering.  Clients change lists and handlers through the        *)
(* server, which asks wcmSetProperty twice: to check, then to apply, and   *)
(* stores the value only then (xf86WacomProperties.c).  xsetwacom takes    *)
(* three requests to map one button: read the list, set the button's       *)
(* property, set the list (special_map_property).                          *)
(***************************************************************************)
EXTENDS Actions

CONSTANTS
  NButtons,    \* physical buttons
  NForeign,    \* atoms of other properties
  MaxX11,      \* WCM_MAX_X11BUTTON
  TooMany,     \* length from which a list of actions is refused
  Junk,        \* a value of another type or format, or with an unknown action
  NoProp,      \* no such property
  Clients,     \* running xsetwacom commands
  Commands,    \* the mappings they ask for, as words
  Mapped,      \* the buttons they map
  Contents,    \* what other clients write to a property
  Lists,       \* and the lists they write
  Idle         \* a client that does nothing

Buttons == 1..NButtons
\* Atoms: the buttons' own properties ("Wacom button action %d") come first.
Atoms == 1..(NButtons + NForeign)

\* X11 numbering leaves out the four buttons of a scroll wheel.
ListLen == IF NButtons < 4 THEN NButtons ELSE NButtons + 4
ButtonAt(i) == IF i <= 3 THEN i ELSE IF i <= 7 THEN 0 ELSE i - 4
PositionOf(b) == IF b <= 3 THEN b ELSE b + 4

Default(b) == <<Act("button", TRUE, PositionOf(b))>>

ASSUME MappingsAssumption ==
  /\ NButtons \in Nat \ {0} /\ NForeign \in Nat
  /\ MaxX11 \in Nat /\ MaxX11 >= PositionOf(NButtons)
  /\ TooMany \in 2..Capacity
  /\ \A b \in Buttons : Default(b) \notin {Junk, NoProp}
  /\ Mapped \subseteq Buttons
  /\ \A l \in Lists : l \in Seq(Atoms \cup {0})

VARIABLES
  handler,  \* btn_action_props
  action,   \* key_actions
  prop,     \* the device's properties that hold actions
  client,   \* where each xsetwacom is: the list it read and what it will do
  asked,    \* the mapping last asked for by an xsetwacom, per button
  meddled   \* whether another client has changed handlers or properties

mapVars == <<handler, action, prop, client, asked, meddled>>
driver == [ok |-> TRUE, handler |-> handler, action |-> action, prop |-> prop]

-----------------------------------------------------------------------------
(* wcmSetProperty *)

\* wcmCheckActionProperty
Valid(c) == /\ c \notin {Junk, NoProp}
            /\ Len(c) < TooMany
            /\ \A i \in DOMAIN c : c[i].type = "button" => c[i].code <= MaxX11

\* The buttons that use an atom, and the one wcmFindActionHandler finds.
UsersOf(h, a) == {b \in Buttons : h[b] = a}
First(S) == CHOOSE b \in S : \A e \in S : b <= e

MutChanged(d, a, c) ==   \* the handler's button keeps its old actions
  [d EXCEPT !.prop[a] = c]

\* A value for a property of actions, by way of its handler if it has one.
Changed(d, a, c) ==
  IF UsersOf(d.handler, a) = {} THEN [d EXCEPT !.prop[a] = c]
  ELSE [d EXCEPT !.prop[a] = c, !.action[First(UsersOf(d.handler, a))] = c]
ChangeAccepted(a, c) == UsersOf(handler, a) = {} \/ Valid(c)

\* wcmResetButtonAction, wcmInitButtonActionProp
Reset(d, b) == [Changed([d EXCEPT !.action[b] = Default(b)], b, Default(b))
                  EXCEPT !.handler[b] = b]

\* One entry of a list: a handler for a button, or None to reset it.
Entry(d, i, a) ==
  LET b == ButtonAt(i)
  IN IF ~d.ok \/ b = 0 THEN d
     ELSE IF a = 0 THEN Reset(d, b)
     ELSE IF Valid(d.prop[a])
     THEN [d EXCEPT !.handler[b] = a, !.action[b] = d.prop[a]]
     ELSE [d EXCEPT !.ok = FALSE]

MutListAccepted(d, l) == \* without the check of what the properties hold
  /\ Len(l) = ListLen
  /\ \A i \in DOMAIN l : l[i] # 0 => d.prop[l[i]] # NoProp

\* wcmSetActionsProperty, to check ...
ListAccepted(d, l) ==
  /\ Len(l) = ListLen
  /\ \A i \in DOMAIN l : l[i] # 0 =>
       /\ d.prop[l[i]] # NoProp
       /\ ButtonAt(i) # 0 => Valid(d.prop[l[i]])

\* ... and to apply; the server ignores an error now.
Applied(d, l) ==
  LET after[i \in 0..Len(l)] == IF i = 0 THEN d ELSE Entry(after[i - 1], i, l[i])
  IN after[Len(l)]
Become(d) == handler' = d.handler /\ action' = d.action /\ prop' = d.prop

\* wcmGetProperty: the list as clients see it is put together and stored, which
\* applies it once more.
ListOf(h) == [i \in 1..ListLen |-> IF ButtonAt(i) = 0 THEN 0 ELSE h[ButtonAt(i)]]

\* wcmDeleteProperty
Deletable(a) == UsersOf(handler, a) = {}

-----------------------------------------------------------------------------
(* xsetwacom set <device> Button <number> <mapping> *)

\* The command is parsed and the list read.  A command that makes no sense, or a
\* position without a button, ends it.
Start(c, b, words) ==
  LET parsed == Parse(words)
      list == ListOf(handler)
  IN /\ client[c] = Idle
     /\ parsed.ok
     /\ ListAccepted(driver, list)
     /\ list[PositionOf(b)] # 0
     /\ Become(Applied(driver, list))
     /\ client' = [client EXCEPT ![c] =
          [button |-> b, acts |-> parsed.acts, list |-> list,
           step |-> IF parsed.acts = <<>> THEN "reset" ELSE "property"]]
     /\ UNCHANGED <<asked, meddled>>

\* The mapping goes into the property that the list named.  The request for the list
\* is on its way behind it, so an X error here does not keep that back.
WriteProperty(c) ==
  LET r == client[c]
      a == r.list[PositionOf(r.button)]
  IN /\ r # Idle /\ r.step = "property"
     /\ IF ChangeAccepted(a, r.acts)
        THEN /\ Become(Changed(driver, a, r.acts))
             /\ asked' = [asked EXCEPT ![r.button] = r.acts]
        ELSE UNCHANGED <<handler, action, prop, asked>>
     /\ client' = [client EXCEPT ![c].step = "list"]
     /\ UNCHANGED meddled

MutSent(r) ==            \* the entry of a reset button stays
  r.list
\* The list is written back, with None for a button to reset.
Sent(r) == IF r.step = "reset" THEN [r.list EXCEPT ![PositionOf(r.button)] = 0] ELSE r.list

WriteList(c) ==
  LET r == client[c]
  IN /\ r # Idle /\ r.step \in {"list", "reset"}
     /\ IF ListAccepted(driver, Sent(r))
        THEN /\ Become(Applied(driver, Sent(r)))
             /\ asked' = IF r.step = "reset"
                         THEN [asked EXCEPT ![r.button] = Default(r.button)]
                         ELSE asked
        ELSE UNCHANGED <<handler, action, prop, asked>>
     /\ client' = [client EXCEPT ![c] = Idle]
     /\ UNCHANGED meddled

-----------------------------------------------------------------------------
(* Other clients: single requests *)

ForeignProperty(a, c) ==
  /\ ChangeAccepted(a, c)
  /\ Become(Changed(driver, a, c))
  /\ meddled' = TRUE
  /\ UNCHANGED <<client, asked>>

ForeignList(l) ==
  /\ ListAccepted(driver, l)
  /\ Become(Applied(driver, l))
  /\ meddled' = TRUE
  /\ UNCHANGED <<client, asked>>

ForeignDelete(a) ==
  /\ prop[a] # NoProp
  /\ Deletable(a)
  /\ prop' = [prop EXCEPT ![a] = NoProp]
  /\ meddled' = TRUE
  /\ UNCHANGED <<handler, action, client, asked>>

\* InitWcmDeviceProperties
MapInit == /\ handler = [b \in Buttons |-> b]
           /\ action = [b \in Buttons |-> Default(b)]
           /\ prop = [a \in Atoms |-> IF a \in Buttons THEN Default(a) ELSE NoProp]
           /\ client = [c \in Clients |-> Idle]
           /\ asked = action
           /\ meddled = FALSE

MapNext == \/ \E c \in Clients :
                \/ \E b \in Mapped, words \in Commands : Start(c, b, words)
                \/ WriteProperty(c)
                \/ WriteList(c)
           \/ \E a \in Atoms \ (Buttons \ Mapped) :
                ForeignDelete(a) \/ \E x \in Contents : ForeignProperty(a, x)
           \/ \E l \in Lists : ForeignList(l)

MapSpec == MapInit /\ [][MapNext]_mapVars

-----------------------------------------------------------------------------
\* A button runs what its property says; of several buttons with one property, the
\* first does.
HandlersAgree == \A b \in Buttons : b = First(UsersOf(handler, handler[b]))
                                    => action[b] = prop[handler[b]]

\* A request is carried out whole or refused: when the check has passed, no entry
\* is refused while the list is applied.
AllOrNothing == \A l \in Lists : ListAccepted(driver, l) => Applied(driver, l).ok

\* Each button has the mapping that an xsetwacom asked for last, whatever other
\* xsetwacoms do at the same time; while no other client meddles with the lists.
MapsLand == ~meddled => action = asked
=============================================================================
