------------------------------ MODULE MCStores ------------------------------
(* The two stores: in a behaviour one of them moves and the other keeps to   *)
(* its first state.                                                          *)
EXTENDS SentStore, MessageStore, TLC

CONSTANTS m1, m2, m3

IdSymmetry == Permutations(Ids)

MCChatOf == <<"group:1", "group:1", "group:1", "group:2">>
MCAuthorOf == <<"me", "bot", "user", "user">>
MCWritersOf == <<{"sent", "echo"}, {"forward", "mention"}, {"mention"}, {"forward"}>>

VARIABLE moves

allVars == <<vars, storeVars, moves>>

MCInit == moves \in {"sent", "messages"} /\ Init /\ StoreInit

MCNext ==
  /\ UNCHANGED moves
  /\ \/ moves = "sent" /\ Next /\ UNCHANGED storeVars
     \/ moves = "messages" /\ StoreNext /\ UNCHANGED vars

MCSpec == MCInit /\ [][MCNext]_allVars
=============================================================================
