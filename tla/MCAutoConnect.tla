--------------------------- MODULE MCAutoConnect ---------------------------
(* The instances of AutoConnect that TLC checks: two exit nodes, and a device *)
(* that has been used before and was disconnected.                            *)
EXTENDS AutoConnect

Exits == {"", "n1"}
SavedPrefs == [want |-> FALSE, exit |-> ""]
=============================================================================
