------------------------------- MODULE MCButtons -------------------------------
(***************************************************************************)
(* Bindings for model checking Buttons: a click, a double press of two     *)
(* keys with one released, panscroll, and the mode toggle.                 *)
(***************************************************************************)
EXTENDS Buttons

Entry(type, code, press) == [type |-> type, code |-> code, press |-> press]

ClickAction  == <<Entry("button", 1, TRUE)>>
KeysAction   == <<Entry("key", 37, TRUE), Entry("key", 52, TRUE), Entry("key", 52, FALSE)>>
PanAction    == <<Entry("panscroll", 0, FALSE)>>
ToggleAction == <<Entry("modetoggle", 0, FALSE), Entry("button", 2, TRUE)>>

MCDefaultAction == [b \in ButtonSet |-> CASE b = 0 -> ClickAction
                                          [] b = 1 -> PanAction
                                          [] OTHER -> KeysAction]

MCBindings == {[button |-> 2, action |-> ToggleAction], [button |-> 2, action |-> KeysAction]}
MCNoBindings == {}

Click(code) == <<Entry("button", code, TRUE), Entry("button", code, FALSE)>>
MCWheelAction == [dir \in {"up", "down"} |-> IF dir = "up" THEN Click(8) ELSE Click(9)]

MCKeyCode == [k \in Keys |-> 101 + k]
MCRows    == 0 .. 3

ASSUME SeparateBindings == Separate /\ TipNoPan /\ OnePan
=============================================================================
