---------------------------- MODULE MCProperties ----------------------------
(***************************************************************************)
(* Instances of Actions, Mappings and Settings for model checking: a       *)
(* command typed word by word, two xsetwacoms or one and another client    *)
(* that map the buttons of one pen, and the settings of a tablet with      *)
(* three devices.                                                          *)
(***************************************************************************)
EXTENDS Commands, Settings, FiniteSets

VARIABLE scene
vars == <<mapVars, setVars, scene, typed>>

MCNumber == [w \in {"1", "3"} |-> IF w = "1" THEN 1 ELSE 3]
\* The keyboard has no Hyper, and no key at all is printed as "(null)".
MCKeycode == [w \in {"a", "Shift", "1", "Hyper"} |->
                CASE w = "a" -> 38 [] w = "1" -> 10 [] w = "Shift" -> 50 [] OTHER -> NoKey]
MCKeysym == [c \in {NoKey, 10, 38, 50} |->
               CASE c = 38 -> "a" [] c = 10 -> "1" [] c = 50 -> "Shift" [] OTHER -> "(null)"]
TypedWords == {Plain(k) : k \in {"key", "button", "core", "modetoggle", "pan"}}
              \cup {Word(s, t) : s \in {"", "+", "-"}, t \in {"a", "Shift", "1", "Hyper"}}

KeyA == <<Act("key", TRUE, 38), Act("key", FALSE, 38)>>
\* The last one makes more actions than the driver takes.
MCCommands == {<<>>, <<Plain("3")>>, <<Plain("key"), Plain("a")>>,
               <<Plain("key"), Plain("a"), Plain("a"), Plain("a")>>}
MCContents == {KeyA, Junk}
\* Lists for a pen with four buttons: the second and the fourth button and one of
\* the entries that stand for no button vary.
MCLists == {<<1, x, 3, 0, 0, 0, 0, y>> : x \in {0, 2, 5}, y \in {0, 2, 4}}
           \cup {<<1, 2, 3, 5, 0, 0, 0, 4>>}

ASSUME NamesDiffer == KeysNamed

-----------------------------------------------------------------------------
Scenes == {"words", "map", "meddle", "share", "tell"}
\* The variables of the other scenes stay in one initial state.
MCInit == /\ scene \in Scenes
          /\ CommandInit
          /\ MapInit
          /\ SetInit
          /\ scene \notin {"share", "tell"} => tablet.switch /\ Touch \in present

Working == {c \in Clients : client[c] # Idle}

MCNext == \/ /\ scene = "words" /\ CommandNext
             /\ UNCHANGED <<mapVars, setVars, scene>>
          \/ /\ scene = "map" /\ MapNext /\ ~meddled'
             /\ UNCHANGED <<setVars, scene, typed>>
          \/ /\ scene = "meddle" /\ MapNext /\ Cardinality(Working') <= 1
             /\ UNCHANGED <<setVars, scene, typed>>
          \/ /\ scene = "share" /\ SetNext /\ timers' = {} /\ ~touchTimer'
             /\ UNCHANGED <<mapVars, scene, typed>>
          \/ /\ scene = "tell" /\ SetNext /\ UNCHANGED user /\ tablet'.rotate = 0
             /\ UNCHANGED <<mapVars, scene, typed>>

MCSpec == MCInit /\ [][MCNext]_vars
=============================================================================
