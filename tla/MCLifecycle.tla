---------------------------- MODULE MCLifecycle ----------------------------
(***************************************************************************)
(* A tablet with one node for the pen and its eraser and one for touch, a  *)
(* stylus in xorg.conf, and a list of tools to hotplug.                    *)
(***************************************************************************)
EXTENDS Lifecycle

CONSTANTS Pen, Finger, WithConf, Serials

MCTablet == [n \in Nodes |-> 1]
MCBase == [n \in Nodes |-> "Wacom Intuos"]
MCPart == [n \in Nodes |-> TRUE]
MCOffers == [n \in Nodes |-> IF n = Pen THEN {"stylus", "eraser"} ELSE {"touch"}]
MCSerials == [n \in Nodes |-> IF n = Pen
                THEN [i \in 1..Serials |-> [serial |-> 10 + i, kind |-> "artpen"]]
                ELSE <<>>]
MCConfigured == IF WithConf THEN {[node |-> Pen, type |-> "eraser", serial |-> 0,
                                   wanted |-> 0, source |-> "conf"]}
                ELSE {}
=============================================================================
