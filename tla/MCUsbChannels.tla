----------------------------- MODULE MCUsbChannels -----------------------------
(***************************************************************************)
(* Event nodes for model checking UsbChannels: a protocol 5 tablet with    *)
(* its pad, a generic pen, touch sensors whose slots the kernel or the     *)
(* hardware chooses, and pen and touch on one node.                        *)
(***************************************************************************)
EXTENDS UsbChannels

Reports(type, id, serial) == [type |-> type, id |-> id, serial |-> serial]

\* Device ids: the generic ones, and 2082, 2090 and 7 of protocol 5 tools.
MCIds      == {0, 2, 3, 6, 10, 15, 2082, 2090, 7}
MCDeviceId == [t \in Types |-> CASE t = "stylus" -> 2  [] t = "touch" -> 3
                                 [] t = "cursor" -> 6  [] t = "eraser" -> 10
                                 [] t = "pad"    -> 15]
MCIdType   == [i \in Ids |-> CASE i \in {2, 2082} -> "stylus" [] i = 3 -> "touch"
                               [] i \in {6, 7} -> "cursor"
                               [] i \in {10, 2090} -> "eraser"
                               [] i = 15 -> "pad" [] OTHER -> NoType]

MCTool ==
  [t \in Tools |-> CASE t = "pen"     -> Reports("stylus", 2082, 1001)
                     [] t = "rubber"  -> Reports("eraser", 2090, 1001)
                     [] t = "puck"    -> Reports("cursor", 7, 1002)
                     [] t = "keys"    -> Reports("pad", 15, PadSerial)
                     [] t = "tip"     -> Reports("stylus", 2, 1)
                     [] t = "finger1" -> Reports("touch", 3, 1)
                     [] t = "finger2" -> Reports("touch", 3, 2)
                     [] t = "finger3" -> Reports("touch", 3, 3)
                     [] t = "finger4" -> Reports("touch", 3, 4)]

Node(protocol, mt, pen, dense, tools) ==
  [protocol |-> protocol, mt |-> mt, pen |-> pen, dense |-> dense, tools |-> tools]

Intuos    == Node("5", FALSE, TRUE, FALSE, {"pen", "rubber", "puck", "keys"})
Digitizer == Node("generic", FALSE, TRUE, FALSE, {"tip"})
Fingers   == Node("generic", TRUE, FALSE, FALSE, {"finger1", "finger2", "finger3"})
Panel     == Node("generic", TRUE, FALSE, TRUE, {"finger1", "finger2", "finger3"})
Both      == Node("generic", TRUE, TRUE, TRUE, {"tip", "finger1"})

\* One contact more than there are channels.
Crowd     == Node("generic", TRUE, FALSE, FALSE,
                  {"finger1", "finger2", "finger3", "finger4"})

MCNodes   == {Intuos, Digitizer, Fingers, Panel, Both, Crowd}

\* The nodes the theorems about tools told apart are about.
ASSUME NodesDiscernible == {Intuos, Digitizer} \subseteq {n \in MCNodes : Discernible(n)}

\* Devices are disabled and enabled where the tools fit the channels and the pen does
\* not share its node with touch.
MCNext == Next /\ (node \in {Both, Crowd} => UNCHANGED enabled)
MCSpec == Init /\ [][MCNext]_vars
=============================================================================
