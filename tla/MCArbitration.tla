---------------------------- MODULE MCArbitration ----------------------------
(***************************************************************************)
(* Small tablets for model checking Arbitration.  A configuration picks    *)
(* the devices and the tools by name; their features are fixed here.       *)
(***************************************************************************)
EXTENDS Arbitration

MCDevType ==
  [d \in Devices |-> CASE d \in {"stylus", "grip"}  -> "stylus"
                       [] d = "eraser"              -> "eraser"
                       [] d = "cursor"              -> "cursor"
                       [] d \in {"touch", "screen"} -> "touch"
                       [] d = "pad"                 -> "pad"]

\* STYLUS_DEVICE_ID and its kin; "pro" is a pen with an id of its own.
MCIds == {"stylus", "pro", "eraser", "cursor", "touch", "pad"}
MCPhyId == MCDevType

MCIdKind ==
  [i \in Ids |-> IF i \in {"stylus", "pro", "eraser"} THEN "pen" ELSE i]

\* The display with touch is a second tablet.
MCTablet == [d \in Devices |-> IF d = "screen" THEN 2 ELSE 1]

Reports(tablet, type, id, serial) ==
  [tablet |-> tablet, type |-> type, id |-> id, serial |-> serial]

MCTool ==
  [p \in Tools |->
     CASE p = "pen"     -> Reports(1, "stylus", "stylus", 1)
       [] p = "propen"  -> Reports(1, "stylus", "pro", 2)
       [] p = "brush"   -> Reports(1, "stylus", "pro", 1)
       [] p = "rubber"  -> Reports(1, "eraser", "eraser", 1)
       [] p = "puck"    -> Reports(1, "cursor", "cursor", 1)
       [] p = "keys"    -> Reports(1, "pad", "pad", 1)
       [] p = "finger1" -> Reports(1, "touch", "touch", 1)
       [] p = "finger2" -> Reports(1, "touch", "touch", 2)
       [] p = "finger3" -> Reports(1, "touch", "touch", 3)
       [] p = "poke1"   -> Reports(2, "touch", "touch", 1)
       [] p = "poke2"   -> Reports(2, "touch", "touch", 2)
       [] p = "poke3"   -> Reports(2, "touch", "touch", 3)
       [] p = "poke4"   -> Reports(2, "touch", "touch", 4)]

\* The grip pen is configured for serial number 2, the others for any.
MCBoundTo == [d \in Devices |-> IF d = "grip" THEN 2 ELSE 0]

\* The touchpad alone is a case of the theorems about undisturbed contacts.
ASSUME LoneTouchpad ==
  (Tools = {"finger1", "finger2", "finger3"}) => ContactsOnly("touch")
=============================================================================
