----------------------------- MODULE RecallFlow -----------------------------
(***************************************************************************)
(* Recalling messages of the bot, and the answers an agent gives after it  *)
(* (bot.recall_message, recall.py, recall_silence.py, adapter.send).  The  *)
(* model names the message to recall, often wrongly: the id of the user's  *)
(* own message, an id of another chat, or none at all.  The platform is    *)
(* asked about one message at a time, and its answer may be lost.          *)
(*                                                                         *)
(* The bot's messages are 1, 2, ... in the order they were sent; the       *)
(* message that turn t answers is -t.                                      *)
(***************************************************************************)
EXTENDS Integers, FiniteSets, SequencesExt

CONSTANTS
  Turns,      \* inbound messages that an agent works on
  Requests,   \* what may be asked for: [turn, asked, hinted, chat, count]
  Answers,    \* what may be said: [turn, chat, text, followUp, seq]
  Begun,      \* the messages sent before, each [chat, seq]
  MaxSent,    \* bound: messages of the bot
  MaxCalls,   \* bound: calls of the recall tool
  MaxTime,    \* bound: clock ticks
  SilenceTtl  \* ttl_seconds of RecallSilenceTracker, in ticks

None == 0
Chats == {"group", "user", "other"}   \* a group and two users
HomeOf(t) == IF t = 1 THEN "group" ELSE "user"
Utterances == {"ack", "silent", "refusal", "status", "narration", "text"}

ASSUME RecallAssumption ==
  /\ Turns \subseteq Nat \ {0} /\ IsFiniteSet(Turns)
  /\ {MaxSent, MaxCalls, MaxTime, SilenceTtl} \subseteq Nat
  /\ Requests \subseteq [turn : Turns, asked : Int, hinted : BOOLEAN,
                          chat : Chats, count : Nat]
  /\ Answers \subseteq [turn : Turns, chat : Chats, text : Utterances,
                         followUp : BOOLEAN, seq : BOOLEAN]
  /\ Begun \subseteq Seq([chat : Chats, seq : BOOLEAN])

VARIABLES
  chatOf,   \* the chat of every message of the bot, in the order of sending
  shown,    \* those the platform still shows
  stored,   \* the sent store: [id, chat, seq], the oldest has the least id
  context,  \* what each turn answers, and whether _inbound_ctx_store keeps it
  call,     \* the recall each turn makes
  calls,
  missed,   \* removed messages that the store was not told of
  silence,  \* the RecallSilenceTracker: [chat, until]
  credit,   \* messages the turn removed in a chat less acknowledgements swallowed
  now

recallVars == <<chatOf, shown, stored, context, call, calls, missed, silence,
                credit, now>>

Idle == [on |-> FALSE, chat |-> "group", asked |-> None, hinted |-> FALSE,
         targets |-> {}, any |-> FALSE]
NoMark == [chat |-> "group", until |-> 0]

RecallTypeOK ==
  /\ shown \subseteq DOMAIN chatOf
  /\ \A e \in stored : e.id \in DOMAIN chatOf /\ e.chat = chatOf[e.id]
  /\ \A e, f \in stored : e.id = f.id => e = f
  /\ \A t \in Turns :
       /\ context[t].quotes \in {None} \cup DOMAIN chatOf
       /\ call[t].on => call[t].targets # {}
       /\ silence[t].until \in 0 .. now + SilenceTtl
  /\ calls \in 0 .. MaxCalls
  /\ now \in 0 .. MaxTime

\* _register_inbound_context: a turn quotes a message of the bot in its chat or
\* none, and may ask for the latest to be recalled.
Contexts ==
  {f \in [Turns -> [quotes : 0 .. MaxSent, latest : BOOLEAN, kept : {TRUE}]] :
     \A t \in Turns : f[t].quotes = None \/
       (f[t].quotes \in DOMAIN chatOf /\ chatOf[f[t].quotes] = HomeOf(t))}

RecallInit ==
  /\ \E sent \in Begun :
       /\ chatOf = [i \in DOMAIN sent |-> sent[i].chat]
       /\ stored = {[id |-> i, chat |-> sent[i].chat, seq |-> sent[i].seq] :
                      i \in DOMAIN sent}
  /\ shown = DOMAIN chatOf
  /\ context \in Contexts
  /\ call = [t \in Turns |-> Idle] /\ calls = 0
  /\ missed = {}
  /\ silence = [t \in Turns |-> NoMark]
  /\ credit = [t \in Turns |-> [c \in Chats |-> 0]]
  /\ now = 0

-----------------------------------------------------------------------------
(* The sent store and the inbound contexts *)

InStore(chat, id) == \E e \in stored : e.id = id /\ e.chat = chat
Entry(id) == CHOOSE e \in stored : e.id = id
HasSeq(id) == Entry(id).seq

\* SentMessageStore.recent: the newest of the chat.
Recent(chat, count) ==
  LET mine == {e \in stored : e.chat = chat}
  IN  {e \in mine : Cardinality({f \in mine : f.id > e.id}) < count}

\* A message is sent and recorded, in a group with the msgseqid if the platform
\* told it.
Sends(chat, seq) ==
  /\ Len(chatOf) < MaxSent
  /\ chatOf' = Append(chatOf, chat)
  /\ shown' = shown \cup {Len(chatOf) + 1}
  /\ stored' = stored \cup {[id |-> Len(chatOf) + 1, chat |-> chat, seq |-> seq]}

\* Ten minutes pass, or five hundred newer messages push the context out.
Forget(t) ==
  /\ context[t].kept
  /\ context' = [context EXCEPT ![t].kept = FALSE]
  /\ UNCHANGED <<chatOf, shown, stored, call, calls, missed, silence, credit, now>>

\* _lookup_inbound_context with the check of the chat.
Known(t, chat) == context[t].kept /\ HomeOf(t) = chat

-----------------------------------------------------------------------------
(* bot.recall_message: what is to be recalled *)

\* The id is taken for an inbound one if it is the turn's own, or if nobody
\* knows the turn.
TakenForInbound_Always(t, asked, hinted) == {u \in Turns : asked = -u}
TakenForInbound(t, asked, hinted) ==
  {u \in Turns : asked = -u /\ (hinted => u = t)}

\* correct_inbound_confusion
Swapped(t, asked, hinted, chat) ==
  {context[u].quotes : u \in {v \in TakenForInbound(t, asked, hinted) :
                                Known(v, chat) /\ InStore(chat, context[v].quotes)}}
DropsToCount(t, asked, hinted, chat) ==
  \E u \in TakenForInbound(t, asked, hinted) : Known(u, chat) /\ context[u].latest

\* reply_to_bot_from_current_inbound
NeedsFallback(chat, asked) ==
  ~InStore(chat, asked) \/ (chat = "group" /\ ~HasSeq(asked))
Fallback(t, hinted, chat) ==
  {q \in {context[t].quotes} :
     /\ hinted /\ Known(t, chat) /\ InStore(chat, q)
     /\ chat = "group" => HasSeq(q)}

Named(t, asked, hinted, chat) ==
  LET id == IF NeedsFallback(chat, asked) /\ Fallback(t, hinted, chat) # {}
            THEN context[t].quotes ELSE asked
  IN  {[id |-> id, chat |-> chat, seq |-> InStore(chat, id) /\ HasSeq(id)]}

Targets(t, asked, hinted, chat, count) ==
  IF asked = None THEN Recent(chat, count)
  ELSE IF Swapped(t, asked, hinted, chat) # {}
  THEN Named(t, CHOOSE q \in Swapped(t, asked, hinted, chat) : TRUE, hinted, chat)
  ELSE IF DropsToCount(t, asked, hinted, chat) THEN Recent(chat, 1)
  ELSE Named(t, asked, hinted, chat)

\* The tool is called; with no target the call fails at once.
Call(q) ==
  /\ ~call[q.turn].on /\ calls < MaxCalls
  /\ calls' = calls + 1
  /\ LET targets == Targets(q.turn, q.asked, q.hinted, q.chat, q.count)
     IN  call' = IF targets = {} THEN call
                 ELSE [call EXCEPT ![q.turn] =
                        [on |-> TRUE, chat |-> q.chat, asked |-> q.asked,
                         hinted |-> q.hinted, targets |-> targets, any |-> FALSE]]
  /\ UNCHANGED <<chatOf, shown, stored, context, missed, silence, credit, now>>

-----------------------------------------------------------------------------
(* bot.recall_message: one target after the other *)

\* The newest first.
Target(t) == CHOOSE e \in call[t].targets : \A f \in call[t].targets : f.id <= e.id

\* adapter.delete_message after the last target: a recall of which anything
\* succeeded silences the acknowledgement.
Advance(t, success) ==
  LET any == call[t].any \/ success
      others == call[t].targets \ {Target(t)}
  IN  IF others # {}
      THEN /\ call' = [call EXCEPT ![t].targets = others, ![t].any = any]
           /\ silence' = silence
      ELSE /\ call' = [call EXCEPT ![t] = Idle]
           /\ silence' = IF any
                         THEN [silence EXCEPT ![t] = [chat |-> call[t].chat,
                                                      until |-> now + SilenceTtl]]
                         ELSE silence

\* Without a msgseqid nothing is asked of the platform in a group; the
\* platform refuses, or the request fails.
RecallFails(t) ==
  /\ call[t].on
  /\ Advance(t, FALSE)
  /\ UNCHANGED <<chatOf, shown, stored, context, calls, missed, credit, now>>

\* What the platform can do: a message of the bot in that group, or to any user.
Recallable(t) ==
  /\ Target(t).id \in shown
  /\ IF call[t].chat = "group" THEN Target(t).seq /\ chatOf[Target(t).id] = "group"
     ELSE chatOf[Target(t).id] # "group"

Removed(t) == {e \in stored : ~(e.id = Target(t).id /\ e.chat = call[t].chat)}

\* The message goes; the sent store forgets it only if the answer arrives, and
\* only under the chat of the call.
RecallOne(t, answered) ==
  /\ call[t].on /\ Recallable(t)
  /\ shown' = shown \ {Target(t).id}
  /\ credit' = [credit EXCEPT ![t][call[t].chat] = @ + 1]
  /\ stored' = IF answered THEN Removed(t) ELSE stored
  /\ missed' = IF answered /\ chatOf[Target(t).id] = call[t].chat THEN missed
               ELSE missed \cup {Target(t).id}
  /\ Advance(t, answered)
  /\ UNCHANGED <<chatOf, context, calls, now>>

-----------------------------------------------------------------------------
(* adapter.send and bot.send_message: what an agent says is sent or not *)

\* RecallSilenceTracker.consume_if_suppress
Silenced_AnyChat(t, chat) == silence[t].until > now
Silenced(t, chat) == silence[t].until > now /\ silence[t].chat = chat

\* A sentinel is never sent; what the gateway says of itself and narration are
\* kept out of groups, and refusals out of a follow-up.
Swallowed(t, chat, text, followUp) ==
  \/ text = "ack" /\ Silenced(t, chat)
  \/ text = "silent"
  \/ chat = "group" /\ text \in {"status", "narration"}
  \/ chat = "group" /\ text = "refusal" /\ followUp

\* An expired mark goes when it is met.  What is sent becomes the newest message.
Answer(t, chat, text, followUp, seq) ==
  LET swallowed == Swallowed(t, chat, text, followUp)
      silenced == text = "ack" /\ Silenced(t, chat)
  IN  /\ IF swallowed THEN UNCHANGED <<chatOf, shown, stored>> ELSE Sends(chat, seq)
      /\ credit' = IF silenced THEN [credit EXCEPT ![t][chat] = @ - 1] ELSE credit
      /\ silence' = IF silenced \/ (text = "ack" /\ silence[t].until <= now)
                    THEN [silence EXCEPT ![t] = NoMark] ELSE silence
      /\ UNCHANGED <<context, call, calls, missed, now>>

Tick ==
  /\ now < MaxTime /\ now' = now + 1
  /\ UNCHANGED <<chatOf, shown, stored, context, call, calls, missed, silence, credit>>

RecallNext ==
  \/ \E q \in Requests : Call(q)
  \/ \E t \in Turns : Forget(t) \/ RecallFails(t)
  \/ \E t \in Turns, answered \in BOOLEAN : RecallOne(t, answered)
  \/ \E a \in Answers : Answer(a.turn, a.chat, a.text, a.followUp, a.seq)
  \/ Tick

RecallSpec == RecallInit /\ [][RecallNext]_recallVars

-----------------------------------------------------------------------------
(* Properties *)

\* A message that is named is the one recalled, or else the one the user quoted
\* in the message the agent works on; only for the id of that message itself may
\* it be the latest of the chat.  The id of somebody else's message never turns
\* into what that one quoted (bot.py:1754-1805, recall.py:117-174).
RecalledWasMeant ==
  [][\A t \in Turns :
       call[t] # call'[t] /\ call[t].hinted /\ call[t].asked # None =>
         \A id \in shown \ shown' :
           \/ id \in {call[t].asked, context[t].quotes}
           \/ call[t].asked = -t /\ context[t].latest]_recallVars

\* Nothing of another chat is recalled, but for a message to another user whose
\* id was given (bot.py:1785, 1810, 1822-1840).
RecalledInChat ==
  [][\A t \in Turns :
       call[t] # call'[t] =>
         \A id \in shown \ shown' :
           \/ chatOf[id] = call[t].chat
           \/ id = call[t].asked /\ "group" \notin {chatOf[id], call[t].chat}]_recallVars

\* Only the message that was meant goes, by id, quote or count.
OnlyTheMeant == RecalledWasMeant /\ RecalledInChat

\* What was recalled is forgotten, also when a later message of the same call
\* fails: only a lost answer, or the wrong chat, leaves a message in the store
\* that the platform does not show (bot.py:1840-1845).
RecalledIsForgotten ==
  \A e \in stored : e.id \in shown \cup missed

\* "Done, recalled" is swallowed only in a chat where this turn really removed a
\* message, and not more often than it did, whatever other recalls of it failed
\* and wherever else it answers (recall_silence.py:60-90, adapter.py:2500-2532,
\* 2893-2899).
SilenceMeansRecalled ==
  \A t \in Turns, c \in Chats : credit[t][c] >= 0

\* Store and silence follow the platform: what it removed is forgotten, and only
\* for what it removed is an acknowledgement swallowed.
SilenceIsEarned == RecallTypeOK /\ RecalledIsForgotten /\ SilenceMeansRecalled
=============================================================================
