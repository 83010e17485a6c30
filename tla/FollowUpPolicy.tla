--------------------------- MODULE FollowUpPolicy ---------------------------
(***************************************************************************)
(* The conversation state of GroupPolicy (hermes_infoflow/policy.py): when *)
(* the bot last replied in each group, when each sender last mentioned it  *)
(* and when it last replied to each sender; and the two moments that read  *)
(* it, the decision on an inbound message and, in the dispatch task that   *)
(* runs later, the choice of the follow-up template (adapter.py).          *)
(***************************************************************************)
EXTENDS Policy, FiniteSets

CONSTANTS
  Senders,    \* sender keys
  Inbox,      \* the messages people may send
  MaxPolicyTime,    \* bound of the clock
  MaxEvents   \* bound of the replies and messages

NoSender == "nobody"

VARIABLES
  time,
  lastReplyAt,        \* last_reply_at
  senderMentionAt,    \* sender_mention_at
  lastReplyToSender,  \* last_reply_to_sender
  pending,            \* messages dispatched on the follow-up path, event not built yet
  decided,            \* history: every decision and when it was taken
  built,              \* history: every template chosen and when
  log                 \* history: every reply and every mention

policyVars == <<time, lastReplyAt, senderMentionAt, lastReplyToSender, pending,
          decided, built, log>>

Message == [group : Groups, sender : Senders, facts : Facts]
ASSUME InboxAssumption ==
  Inbox \subseteq Message /\ IsFiniteSet(Inbox) /\ NoSender \notin Senders

Moment == Nat \cup {Never}
Happening == [what : {"reply", "mention"}, group : Groups,
              sender : Senders \cup {NoSender}, at : Nat]

PolicyTypeOK ==
  /\ time \in Nat
  /\ lastReplyAt \in [Groups -> Moment]
  /\ senderMentionAt \in [Groups \X Senders -> Moment]
  /\ lastReplyToSender \in [Groups \X Senders -> Moment]
  /\ pending \subseteq Message
  /\ \A d \in decided : d.msg \in Message /\ d.at \in Nat
  /\ \A b \in built : b.msg \in Message /\ b.at \in Nat
  /\ log \subseteq Happening

PolicyInit ==
  /\ time = 0
  /\ lastReplyAt = [g \in Groups |-> Never]
  /\ senderMentionAt = [k \in Groups \X Senders |-> Never]
  /\ lastReplyToSender = [k \in Groups \X Senders |-> Never]
  /\ pending = {} /\ decided = {} /\ built = {} /\ log = {}

Room == Cardinality(log) + Cardinality(decided) < MaxEvents

\* record_bot_reply, after a send that succeeded; reply_to_sender may be empty.
Replied_Everywhere(g) == [h \in Groups |-> time]
Replied(g) == [lastReplyAt EXCEPT ![g] = time]

RepliedTo(g, s) ==
  IF s = NoSender THEN lastReplyToSender
  ELSE [lastReplyToSender EXCEPT ![<<g, s>>] = time]

RecordBotReply(g, s) ==
  /\ Room
  /\ lastReplyAt' = Replied(g)
  /\ lastReplyToSender' = RepliedTo(g, s)
  /\ log' = log \cup {[what |-> "reply", group |-> g, sender |-> s, at |-> time]}
  /\ UNCHANGED <<time, senderMentionAt, pending, decided, built>>

\* process_inbound: the mention is recorded before the decision is taken.
RecordMention(m) ==
  IF m.facts.mentioned
  THEN [senderMentionAt EXCEPT ![<<m.group, m.sender>>] = time]
  ELSE senderMentionAt

Decide(m) == EvaluateInbound(m.group, m.facts, lastReplyAt[m.group], time)

Inbound(m) ==
  /\ Room
  /\ senderMentionAt' = RecordMention(m)
  /\ log' = IF m.facts.mentioned
            THEN log \cup {[what |-> "mention", group |-> m.group,
                            sender |-> m.sender, at |-> time]}
            ELSE log
  /\ decided' = decided \cup {[msg |-> m, at |-> time, decision |-> Decide(m)]}
  /\ pending' = IF NeedsSenderContext(Decide(m)) THEN pending \cup {m} ELSE pending
  /\ UNCHANGED <<time, lastReplyAt, lastReplyToSender, built>>

\* build_message_event, in the spawned dispatch task.
Engaged(m) ==
  EngagedRecently(senderMentionAt[<<m.group, m.sender>>],
                  lastReplyToSender[<<m.group, m.sender>>], time)

BuildEvent(m) ==
  /\ m \in pending
  /\ pending' = pending \ {m}
  /\ built' = built \cup {[msg |-> m, at |-> time,
                           template |-> FollowUpTemplate(m.facts, Engaged(m))]}
  /\ UNCHANGED <<time, lastReplyAt, senderMentionAt, lastReplyToSender, decided, log>>

TimePasses ==
  /\ time < MaxPolicyTime
  /\ time' = time + 1
  /\ UNCHANGED <<lastReplyAt, senderMentionAt, lastReplyToSender, pending,
                 decided, built, log>>

PolicyNext ==
  \/ \E g \in Groups, s \in Senders \cup {NoSender} : RecordBotReply(g, s)
  \/ \E m \in Inbox : Inbound(m)
  \/ \E m \in pending : BuildEvent(m)
  \/ TimePasses

PolicySpec == PolicyInit /\ [][PolicyNext]_policyVars

-----------------------------------------------------------------------------
(* Properties *)

Undirected(m) == ~ \E k \in {"mentioned", "quoted", "watched", "pattern"} : m.facts[k]

\* There was a reply in the window that ends at t, by t or before it.
AnsweredBy(g, t) ==
  \E h \in log : /\ h.what = "reply" /\ h.group = g
                 /\ h.at <= t /\ t <= h.at + ResolveForGroup(g).window
AnsweredBefore(g, t) ==
  \E h \in log : /\ h.what = "reply" /\ h.group = g
                 /\ h.at < t /\ t <= h.at + ResolveForGroup(g).window

InFollowUpMode(g) ==
  LET eff == ResolveForGroup(g)
  IN  /\ eff.mode \in {"mention-only", "mention-and-watch"}
      /\ eff.followUp /\ eff.window > 0

\* A message that neither mentions nor quotes the bot and matches no watch
\* rule reaches the agent on the follow-up path exactly when the bot really
\* replied in that same group within the window and nobody else is
\* addressed (policy.py:967-985, 1036-1054, bot.py:1582-1587).
FollowUpFollowsReply ==
  \A d \in decided :
    /\ d.decision.trigger = "followUp" =>
         AnsweredBy(d.msg.group, d.at) /\ ~d.msg.facts.others
    /\ (/\ Undirected(d.msg) /\ InFollowUpMode(d.msg.group) /\ ~d.msg.facts.others
        /\ AnsweredBefore(d.msg.group, d.at))
       => d.decision = Dispatch("followUp")

\* The engaged template goes to somebody who mentioned the bot, or was
\* answered by it, in that same group within the engaged window, measured
\* when the event is built; the passive one to nobody who did before the
\* current instant.
EngagedTemplateIsEarned ==
  \A b \in built :
    LET Recent(strictly) == \E h \in log :
          /\ h.group = b.msg.group /\ h.sender = b.msg.sender
          /\ h.at <= b.at /\ b.at <= h.at + EngagedWindow
          /\ strictly => h.at < b.at
    IN  /\ b.template = "engaged" => Recent(FALSE)
        /\ b.template = "passive" => ~Recent(TRUE)

\* Path and template of an unaddressed message follow from what the bot really
\* said and to whom, although they are chosen at different times.
FollowUpsAreEarned == PolicyTypeOK /\ FollowUpFollowsReply /\ EngagedTemplateIsEarned
=============================================================================
