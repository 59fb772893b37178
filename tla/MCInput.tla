-------------------------------- MODULE MCInput --------------------------------
(***************************************************************************)
(* Instances of Reader, Samples and Pressure for model checking: a node    *)
(* that is read in pieces, a pen that moves over a tablet with settings of *)
(* all kinds, and one that presses, with six levels of pressure on a scale *)
(* of ten.  Each is a scene of its own: they share no variables.           *)
(***************************************************************************)
EXTENDS Reader, Samples, Pressure

\* Frames that are sent, one that is dropped, an empty one, and one too long.
MCFrames == {<<"data", "serial">>, <<"data">>, <<"data", "zero">>, <<>>,
             <<"data", "data", "data", "data", "data">>}

\* Axes that a quarter turn stretches.
MCAxes == [low |-> Point(0, 0), high |-> Point(2, 4)]
\* The whole tablet, and its lower part.
MCAreas == {MCAxes, [low |-> Point(0, 1), high |-> Point(2, 4)]}
MCPoints == {Point(0, 0), Point(1, 1), Point(2, 1), Point(2, 4)}

\* What the theorems about positions ask of a tablet: areas with an extent.
ASSUME AreasExtended ==
  \A a \in Areas \cup {Axes} : a.low.x < a.high.x /\ a.low.y < a.high.y

\* One threshold within the tolerance, one where it matters, one well above.
MCThresholds == {2, 3, 5}

VARIABLE scene
inputVars == <<readVars, sampleVars, vars, scene>>

Scenes == {"read", "samples", "pressure"}

\* The variables of the other scenes stay in one initial state.
MCInit == /\ scene \in Scenes
          /\ ReadInit /\ SampleInit /\ Init
          /\ scene # "samples" => sets = [raw |-> 1, suppress |-> 0, rotate |-> "none",
                                          area |-> MCAxes]
          /\ scene # "pressure" => conf = [recal |-> TRUE, relative |-> FALSE,
                                           threshold |-> 2]

MCNext == \/ scene = "read" /\ ReadNext /\ UNCHANGED <<sampleVars, vars, scene>>
          \/ scene = "samples" /\ SampleNext /\ UNCHANGED <<readVars, vars, scene>>
          \/ scene = "pressure" /\ Next /\ UNCHANGED <<readVars, sampleVars, scene>>

\* The server reads as long as there is something to read.
MCSpec == MCInit /\ [][MCNext]_inputVars /\ WF_inputVars(scene = "read" /\ ReadPacket
                                              /\ UNCHANGED <<sampleVars, vars, scene>>)
=============================================================================
