------------------------------ MODULE Actions ------------------------------
(***************************************************************************)
(* The action strings of xsetwacom: how a command such as "key +ctrl a     *)
(* button 3" becomes the list of actions that the driver runs for a        *)
(* button, and how a list is printed as a command again (parse_actions and *)
(* get_actions of xsetwacom.c).                                            *)
(***************************************************************************)
EXTENDS Integers, Sequences

CONSTANTS
  Number,     \* [words -> button numbers]
  Keycode,    \* [words -> key codes]: keysyms and single characters; NoKey for one that
              \* no key of the keyboard gives, which xsetwacom only warns of
  Keysym,     \* [key codes -> words]: the name a key is printed with
  Modifiers,  \* the names of modifier keys
  Capacity,   \* length of the buffer for the parsed list
  Fetched     \* how much of a list is read for printing

NoKey == 0

Keywords == {"key", "button", "core", "modetoggle", "displaytoggle", "pan"}

ASSUME ActionsAssumption ==
  /\ DOMAIN Number \cap Keywords = {} /\ DOMAIN Keycode \cap Keywords = {}
  /\ Modifiers \subseteq DOMAIN Keycode
  /\ \A n \in DOMAIN Number : \A m \in DOMAIN Number \ {n} : Number[n] # Number[m]
  /\ \A w \in DOMAIN Keycode : Keycode[w] \in DOMAIN Keysym
  /\ Capacity \in Nat \ {0} /\ Fetched \in Nat

\* A word: a sign and a text.
Word(sign, text) == [sign |-> sign, text |-> text]
Plain(text) == Word("", text)
IsKeyword(w) == w.sign = "" /\ w.text \in Keywords

\* An action: AC_KEY, AC_BUTTON, AC_MODETOGGLE, AC_PANSCROLL.
Act(type, press, code) == [type |-> type, press |-> press, code |-> code]
Single == [modetoggle |-> <<Act("modetoggle", FALSE, 0)>>,
           pan        |-> <<Act("pan", FALSE, 0)>>]

-----------------------------------------------------------------------------
(* Parsing *)

\* A press, a release, or both.
Strokes(type, sign, code) ==
  (IF sign = "-" THEN <<>> ELSE <<Act(type, TRUE, code)>>)
  \o (IF sign = "+" THEN <<>> ELSE <<Act(type, FALSE, code)>>)

\* special_map_button and special_map_keystrokes: the actions of one argument, none
\* if it is no argument.  A modifier without a sign stays down.  A key that the keyboard
\* lacks is an argument too, with NoKey for its code.
Argument(mode, w) ==
  IF mode = "button" /\ w.text \in DOMAIN Number
  THEN Strokes("button", w.sign, Number[w.text])
  ELSE IF mode = "key" /\ w.text \in DOMAIN Keycode
  THEN Strokes("key", IF w.text \in Modifiers /\ w.sign = "" THEN "+" ELSE w.sign,
               Keycode[w.text])
  ELSE <<>>

\* A keyword's own action.
Opening(text) == IF text \in DOMAIN Single THEN Single[text] ELSE <<>>

\* A button number alone is a button to press.
Words(words) ==
  IF Len(words) = 1 /\ words[1].text \in DOMAIN Number /\ words[1].sign # "-"
  THEN <<Plain("button"), Word("+", words[1].text)>>
  ELSE words

MutReadWord(s, w) ==     \* a pair that does not fit is dropped without an error
  LET new == Argument(s.mode, w)
  IN IF ~s.ok \/ Len(s.acts) = Capacity THEN s
     ELSE IF IsKeyword(w)
     THEN [s EXCEPT !.mode = w.text, !.acts = @ \o Opening(w.text)]
     ELSE IF Len(s.acts) + Len(new) <= Capacity THEN [s EXCEPT !.acts = @ \o new]
     ELSE s

\* One word more: an argument of the last keyword, or a keyword.  Once the buffer
\* is full the rest of the command is not looked at.
ReadWord(s, w) ==
  LET new == Argument(s.mode, w)
  IN IF ~s.ok \/ Len(s.acts) = Capacity THEN s
     ELSE IF IsKeyword(w)
     THEN [s EXCEPT !.mode = w.text, !.acts = @ \o Opening(w.text)]
     ELSE IF new # <<>> /\ Len(s.acts) + Len(new) <= Capacity
     THEN [s EXCEPT !.acts = @ \o new]
     ELSE [s EXCEPT !.ok = FALSE]

\* The words in turn.
Read(words) ==
  LET read[i \in 0..Len(words)] == IF i = 0 THEN [mode |-> "", acts |-> <<>>, ok |-> TRUE]
                                   ELSE ReadWord(read[i - 1], words[i])
  IN read[Len(words)]

Parse(words) == Read(Words(words))

-----------------------------------------------------------------------------
(* Showing *)

\* The word that a number or a key is printed as.
NumberName(n) == CHOOSE w \in DOMAIN Number : Number[w] = n
Signed(a) == Word(IF a.press THEN "+" ELSE "-",
                  IF a.type = "key" THEN Keysym[a.code] ELSE NumberName(a.code))

MutShowAction(s, a) ==  \* the keyword only before the first action
  IF a.type = "pan" THEN s
  ELSE [last |-> a.type,
        words |-> s.words
                  \o (IF s.last # "" THEN <<>> ELSE <<Plain(a.type)>>)
                  \o (IF a.type = "modetoggle" THEN <<>> ELSE <<Signed(a)>>)]

\* The keyword only where the type changes; nothing at all for a pan.  The fixed
\* buffers that the words are printed into (buff, str) are left out.
ShowAction(s, a) ==
  IF a.type = "pan" THEN s
  ELSE [last |-> a.type,
        words |-> s.words
                  \o (IF s.last = a.type /\ a.type # "modetoggle" THEN <<>>
                      ELSE <<Plain(a.type)>>)
                  \o (IF a.type = "modetoggle" THEN <<>> ELSE <<Signed(a)>>)]

\* What the driver returns of a list, one action after the other.
Shown(acts) ==
  LET fetched == IF Len(acts) < Fetched THEN Len(acts) ELSE Fetched
      shown[i \in 0..fetched] == IF i = 0 THEN [last |-> "", words |-> <<>>]
                                 ELSE ShowAction(shown[i - 1], acts[i])
  IN shown[fetched].words

-----------------------------------------------------------------------------
(* What a command means: every argument read with the keyword before it. *)

KeywordOf(words, i) ==
  LET before == {j \in 1..i : IsKeyword(words[j])}
  IN IF before = {} THEN ""
     ELSE words[CHOOSE j \in before : \A k \in before : k <= j].text

WordMeans(words, i) == IF IsKeyword(words[i]) THEN Opening(words[i].text)
                       ELSE Argument(KeywordOf(words, i), words[i])

Meaningful(words) ==
  \A i \in DOMAIN words : IsKeyword(words[i]) \/ WordMeans(words, i) # <<>>

Means(words) ==
  LET upto[i \in 0..Len(words)] == IF i = 0 THEN <<>> ELSE upto[i - 1] \o WordMeans(words, i)
  IN upto[Len(words)]
=============================================================================
