--------------------------- MODULE MCGroupMembers ---------------------------
EXTENDS GroupMembers, TLC

CONSTANTS c1, c2

MCModesOf == (c1 :> Modes) @@ (c2 :> {"force"})
=============================================================================
