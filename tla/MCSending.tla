------------------------------ MODULE MCSending ------------------------------
(* The sends of SendPath and the recalls of RecallFlow, each on its own: in a  *)
(* behaviour one of the two moves and the other keeps to its first state.      *)
EXTENDS SendPath, RecallFlow

VARIABLE moves

-----------------------------------------------------------------------------
(* What is sent *)

Intents(kinds, n, fmts, links, ats, replies, valids) ==
  [to : {"group", "user"}, fmt : fmts, segs : BoundedSeq(kinds, n),
   links : links, at : ats, reply : replies, valid : valids, known : BOOLEAN]

\* A user is not mentioned, and there is no member list.
Sane(intent) == intent.to = "user" => intent.at = {} /\ ~intent.known

Whole == {i \in Intents(Texts \cup Paths, 2, {"auto", "text", "markdown"}, 0 .. 2,
                        {{}, {"user"}, {"all", "user"}}, 0 .. 2, BOOLEAN) : Sane(i)}
Long == {i \in Intents(Texts \cup {"one", "spoiled"}, 3, {"auto", "text"}, 0 .. 1,
                       {{}, {"user"}}, 0 .. 1, {TRUE}) : Sane(i) /\ Len(i.segs) = 3}
Captioned == {i \in Intents({"plain", "md", "bytes"}, 2, {"auto"}, {0},
                            {{}, {"user"}}, 0 .. 1, {TRUE}) :
                Sane(i) /\ i.segs # <<>> /\ Last(i.segs) = "bytes"
                /\ (Len(i.segs) = 2 => i.segs[1] # "bytes")}
First == {i \in Intents({"plain", "md", "one"}, 2, {"auto"}, {0}, {{}, {"all"}},
                        0 .. 1, {TRUE}) : Sane(i) /\ i.segs # <<>>}
Later(i) == [i EXCEPT !.at = {}, !.reply = 0]
Image(i) == [i EXCEPT !.at = {}, !.reply = 0, !.segs = <<"bytes">>]
Unquoted(i) == [i EXCEPT !.reply = 0]

MCJobs ==
  {[caller |-> "tool", parts |-> <<i>>] : i \in Whole \cup Long}
  \cup {[caller |-> "image", parts |-> <<i>>] : i \in Captioned}
  \cup {[caller |-> "reply", parts |-> <<i, Later(i)>>] : i \in First}
  \cup {[caller |-> "cron", parts |-> <<Unquoted(i), Image(i), Image(i)>>] :
          i \in First}

-----------------------------------------------------------------------------
(* What is recalled, and said *)

Grouped == [chat |-> "group", seq |-> TRUE]
Unnumbered == [chat |-> "group", seq |-> FALSE]
To(user) == [chat |-> user, seq |-> FALSE]
MCBegun == {<<>>, <<Grouped, Grouped>>, <<Unnumbered, Grouped>>,
            <<To("user"), To("other")>>, <<To("user"), To("user")>>}

Asked(turns, asked, hints, chats, counts) ==
  [turn : turns, asked : asked, hinted : hints, chat : chats, count : counts]
MCRequests ==
  Asked({1}, {None}, {TRUE}, {"group", "user"}, {2})
  \cup Asked({1}, {1, 2, -1, -2}, {TRUE}, {"group", "user"}, {1})
  \cup Asked({1}, {-1, -2}, {FALSE}, {"group"}, {1})
  \cup Asked({2}, {None}, {TRUE}, {"group"}, {2})
  \cup Asked({2}, {-2}, {TRUE}, {"user"}, {1})

Said(turns, chats, texts, followUps, seqs) ==
  [turn : turns, chat : chats, text : texts, followUp : followUps, seq : seqs]
MCAnswers ==
  Said({1}, {"group"}, Utterances, BOOLEAN, {TRUE})
  \cup Said({1, 2}, {"user"}, {"ack", "refusal"}, {TRUE}, {FALSE})
-----------------------------------------------------------------------------
SendRests == job = (CHOOSE j \in Jobs : TRUE) /\ SendInit
RecallRests == chatOf = <<>> /\ ~context[1].latest /\ ~context[2].latest

Init ==
  \/ moves = "send" /\ SendInit /\ RecallInit /\ RecallRests
  \/ moves = "recall" /\ RecallInit /\ SendRests

Next ==
  /\ UNCHANGED moves
  /\ \/ moves = "send" /\ SendNext /\ UNCHANGED recallVars
     \/ moves = "recall" /\ RecallNext /\ UNCHANGED sendVars

Spec == Init /\ [][Next]_<<sendVars, recallVars, moves>>
=============================================================================
