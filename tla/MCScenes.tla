------------------------------- MODULE MCScenes -------------------------------
(***************************************************************************)
(* One instance of Arbitration for model checking: each behaviour keeps to *)
(* the tools and settings of one scene.                                    *)
(***************************************************************************)
EXTENDS MCArbitration

\* Pens, a puck and a pad of one tablet, one of them bound to a serial number the
\* user changes; pens and a puck that interrupt a gesture on another tablet; a pen
\* and a contact while the user and the server change settings and devices.
SceneTools == [pens     |-> {"pen", "brush", "propen", "puck", "keys"},
               palm     |-> {"pen", "rubber", "puck", "poke1"},
               settings |-> {"pen", "finger1"}]

VARIABLE scene
sceneVars == <<vars, scene>>

\* The touch device a scene plays on.
Touched == CASE scene = "pens" -> {} [] scene = "palm" -> {"screen"}
             [] scene = "settings" -> {"touch"}

SceneInit ==
  /\ Init
  /\ scene \in DOMAIN SceneTools
  /\ \A d \in Devices : d \notin Touched => ~dev[d].gesture /\ ~dev[d].lcd

SceneNext ==
  /\ \/ \E p \in SceneTools[scene] : Report(p)
     \/ scene = "pens" /\ \E d \in Bindable : Settle(d)
     \/ scene = "palm" /\ Timer("screen")
     \/ scene = "settings" /\ Settle("touch")
  /\ UNCHANGED scene

SceneSpec == SceneInit /\ [][SceneNext]_sceneVars
=============================================================================
