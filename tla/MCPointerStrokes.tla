-------------------------- MODULE MCPointerStrokes --------------------------
(* Two hands, a layer with a block under two breaths and none under a third. *)
EXTENDS PointerStrokes
CONSTANTS red, b1, b2
MCBlockAt == [br \in Breath |-> CASE br = 1 -> b1 [] br = 2 -> b2 [] OTHER -> None]
MCInk == [h \in Hand |-> IF h = "left" THEN red ELSE Blank]
MCTools == [h \in Hand |-> IF h = "left" THEN ImageTool \cup SelectTool ELSE {"brush", "select"}]
MCMode == [h \in Hand |-> IF h = "left" THEN "replace" ELSE "subtract"]
=============================================================================
