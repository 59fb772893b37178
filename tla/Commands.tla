------------------------------ MODULE Commands ------------------------------
(***************************************************************************)
(* Commands for the action of a button as a user types them, word by word, *)
(* and what xsetwacom and the driver make of each.                         *)
(***************************************************************************)
EXTENDS Mappings

CONSTANTS
  CommandWords, \* the words that are typed
  MaxWords      \* longest command typed

VARIABLE typed

CommandInit == typed = <<>>

\* A command grows, or is given up for another.
CommandNext == \/ Len(typed) < MaxWords /\ \E w \in CommandWords : typed' = Append(typed, w)
               \/ typed # <<>> /\ typed' = <<>>

CommandSpec == CommandInit /\ [][CommandNext]_typed

-----------------------------------------------------------------------------
\* Keys have names of their own: a key that another key's name stands for would be
\* shown as that one.
KeysNamed ==
  \A w \in DOMAIN Keycode : LET name == Keysym[Keycode[w]]
                            IN Keycode[w] # NoKey =>
                                 name \in DOMAIN Keycode /\ Keycode[name] = Keycode[w]

\* A pan is not shown at all, and what is shown of no key is no name of one.
Unprinted(a) == a.type = "pan" \/ (a.type = "key" /\ a.code = NoKey)

\* The driver accepts a command only whole: what is sent for it and not refused is
\* every action that its words mean, in order, however long it was.
AcceptedIsMeant ==
  LET p == Parse(typed)
  IN p.ok /\ Valid(p.acts) =>
       Meaningful(Words(typed)) /\ p.acts = Means(Words(typed))

\* What xsetwacom shows of a mapping (without a pan, and of keys that the keyboard has)
\* gives the same mapping again.
Reproduces ==
  LET p == Parse(typed)
      again == Parse(Shown(p.acts))
  IN p.ok /\ p.acts # <<>> /\ Len(p.acts) <= Fetched
     /\ (\A i \in DOMAIN p.acts : ~Unprinted(p.acts[i]))
     => again.ok /\ again.acts = p.acts
=============================================================================
