--------------------------- MODULE MCLlmSessions ---------------------------
(* One group and two users' sessions; m4 is a slash command and m5 the       *)
(* plugin's own.  Messages of one millisecond are written in any order.      *)
EXTENDS LlmSessions, TLC

CONSTANTS m1, m2, m3, m4, m5, a, b, g

MCSessionOf == (m1 :> a) @@ (m2 :> a) @@ (m3 :> a) @@ (m4 :> b) @@ (m5 :> b)
MCChatOf == [m \in Msgs |-> g]
MCCreated == (m1 :> 1) @@ (m2 :> 2) @@ (m3 :> 2) @@ (m4 :> 2) @@ (m5 :> 1)
MCMaxResets == (a :> 1) @@ (b :> 0)
MCIdRank == (m1 :> 1) @@ (m2 :> 2) @@ (m3 :> 4) @@ (m4 :> 3) @@ (m5 :> 5)
=============================================================================
