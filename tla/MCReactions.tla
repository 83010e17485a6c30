---------------------------- MODULE MCReactions ----------------------------
(* Small instances of Reactions. *)
EXTENDS Reactions, TLC

CONSTANTS r1, r2, r3, g, d, m1, m2, m3

\* Three runs on three messages: two in a group, one in a direct chat.
DistinctScope == (r1 :> g) @@ (r2 :> g) @@ (r3 :> d)
DistinctAnchor == (r1 :> m1) @@ (r2 :> m2) @@ (r3 :> m3)
=============================================================================
