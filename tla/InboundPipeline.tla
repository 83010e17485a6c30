-------------------------- MODULE InboundPipeline --------------------------
(***************************************************************************)
(* process_inbound, spawn_dispatch and send_message of bot.py, for one     *)
(* group and the direct chats: copies of messages arrive in any order and  *)
(* as often as the platform likes, each handled by a task of its own that  *)
(* awaits the sender lookup before anything is checked; replies go out in  *)
(* chunks whose ids are recorded when the API call returns, while the echo *)
(* of each chunk may already be on its way in.                             *)
(*                                                                         *)
(* The duplicate set is the one of SentStore within its TTL and cap; the   *)
(* rows are the flags of the message store; the decision is Policy's.      *)
(***************************************************************************)
EXTENDS Policy, FiniteSets, Sequences

CONSTANTS
  Group,          \* the group
  Foreign,        \* messages of other participants
  Direct,         \* those among them that are direct messages
  Mentioning,     \* those that @-mention this bot
  Quoting,        \* message -> the own message it quotes
  Plain,          \* message -> the Facts watched, pattern and others of it
  AdminCommands,  \* /new or /stop that _check_slash_command_auth accepts if mentioned
  Replies,        \* calls of send_message
  ChunksOf,       \* reply -> the ids its chunks get, in order
  ToGroup,        \* replies that go to the group
  Copies,         \* deliveries: [id, event, no]
  RobotKnown,     \* was the robot id persisted by an earlier run? (the possible answers)
  Lookups,        \* outcomes of the member lookup while the robot id is unknown
  LostReplies,    \* may the API accept a chunk and its reply get lost?
  MaxTime         \* bound of the clock

Own == UNION {{ChunksOf[r][i] : i \in DOMAIN ChunksOf[r]} : r \in Replies}
Ids == Foreign \cup Own
Events == {"MESSAGE_RECEIVE", "ALL_MESSAGE_FORWARD", ""}

ASSUME PipelineAssumption ==
  /\ Group \in Groups
  /\ \A r \in Replies : ChunksOf[r] \in Seq(Own) \ {<<>>}
  /\ Direct \cup Mentioning \cup AdminCommands \subseteq Foreign
  /\ Foreign \cap Own = {}
  /\ DOMAIN Quoting \subseteq Foreign /\ \A m \in DOMAIN Quoting : Quoting[m] \in Own
  /\ Copies \subseteq [id : Ids, event : Events, no : Nat]
  /\ \A c \in Copies : c.event = "MESSAGE_RECEIVE" => c.id \in Mentioning
  /\ ToGroup \subseteq Replies
  /\ {RobotKnown, Lookups} \subseteq SUBSET BOOLEAN \ {{}}

Kinds == {"none", "plain", "forward", "mention", "sent"}
Triggers == {"bot-mentioned", "followUp", "watchMentions", "watchRegex", "proactive",
             "require_mention=false", "slash_command", "direct-message"}

VARIABLES
  now,
  parserKnows,  \* the robot id of ServerAPI and its parser account
  botKnows,     \* Bot._robot_id
  task,         \* copy -> its handler: parse result and progress
  kind,         \* _seen_kind of each id in the duplicate set
  sentStore,    \* ids recorded as sent
  rows,         \* message store: id -> flags of its row
  context,      \* ids registered as recall context
  lastReply,    \* last_reply_at of the group
  reply,        \* call of send_message: next chunk, progress, chunks that succeeded
  posted,       \* own messages the platform has accepted
  dispatched    \* history: what was handed to the agent

vars == <<now, parserKnows, botKnows, task, kind, sentStore, rows, context,
          lastReply, reply, posted, dispatched>>

NoRow == [stored |-> FALSE, outgoing |-> FALSE, local |-> FALSE]
Idle == [st |-> "idle", mentioned |-> FALSE, quoted |-> FALSE, discovers |-> FALSE]

TypeOK ==
  /\ now \in Nat /\ parserKnows \in BOOLEAN /\ botKnows \in BOOLEAN
  /\ task \in [Copies -> [st : {"idle", "enriching", "done"}, mentioned : BOOLEAN,
                          quoted : BOOLEAN, discovers : BOOLEAN]]
  /\ kind \in [Ids -> Kinds]
  /\ sentStore \subseteq Own /\ posted \subseteq Own /\ context \subseteq Ids
  /\ rows \in [Ids -> [stored : BOOLEAN, outgoing : BOOLEAN, local : BOOLEAN]]
  /\ lastReply \in Nat \cup {Never}
  /\ reply \in [Replies -> [next : Nat, st : {"idle", "calling", "ok", "error", "done"},
                            succeeded : Nat]]
  /\ dispatched \subseteq [copy : Copies, mentioned : BOOLEAN, trigger : Triggers, at : Nat]

Init ==
  /\ now = 0 /\ botKnows \in RobotKnown /\ parserKnows = botKnows
  /\ task = [c \in Copies |-> Idle]
  /\ kind = [m \in Ids |-> "none"]
  /\ sentStore = {} /\ context = {} /\ posted = {} /\ dispatched = {}
  /\ rows = [m \in Ids |-> NoRow]
  /\ lastReply = Never
  /\ reply = [r \in Replies |-> [next |-> 1, st |-> "idle", succeeded |-> 0]]

-----------------------------------------------------------------------------
(* Inbound *)

\* The platform can deliver an echo once it has the message, and a quote of
\* an own message once that exists.
Deliverable(c) ==
  /\ c.id \in Own => c.id \in posted
  /\ c.id \in DOMAIN Quoting => Quoting[c.id] \in posted

\* The parser runs before the handler task: was_mentioned holds for a
\* MESSAGE_RECEIVE, otherwise only if the AT item carries the known robot id;
\* quotes are recognised by the robot id, else by the sent ids.  A mention
\* names the robot id; an unknown one is learnt if no other robot is mentioned.
\* The task then awaits _enrich_sender.
Deliver(c) ==
  /\ task[c].st = "idle"
  /\ Deliverable(c)
  /\ LET sees == c.id \in Mentioning /\ (c.event = "MESSAGE_RECEIVE" \/ parserKnows)
     IN  \E onlyRobot \in BOOLEAN :
           task' = [task EXCEPT ![c] =
             [st |-> "enriching",
              mentioned |-> sees,
              quoted |-> c.id \in DOMAIN Quoting
                           /\ (parserKnows \/ Quoting[c.id] \in sentStore),
              discovers |-> sees /\ (parserKnows \/ onlyRobot)]]
  /\ UNCHANGED <<now, parserKnows, botKnows, kind, sentStore, rows, context,
                 lastReply, reply, posted, dispatched>>

\* _dedup_kind_for_message
DedupKind(c, t) ==
  IF c.id \in Direct THEN "plain"
  ELSE IF c.event = "MESSAGE_RECEIVE" \/ t.mentioned THEN "mention"
  ELSE IF c.event = "ALL_MESSAGE_FORWARD" THEN "forward"
  ELSE "plain"

SentEcho(c) == kind[c.id] # "none" /\ c.id \in sentStore
MentionUpgrade_Never(c, t) == FALSE
MentionUpgrade(c, t) ==
  /\ ~SentEcho(c)
  /\ kind[c.id] = "forward"
  /\ DedupKind(c, t) = "mention"

\* _is_own_echo: the sender key resolved from the member list, or the robot id.
OwnEcho_ByRobotOnly(c, resolved, knows) == c.id \in Own /\ knows
OwnEcho(c, resolved, knows) == c.id \in Own /\ (resolved \/ knows)

\* persist_group / persist_dm merge the flags of the row.
Merge(row, outgoing, local) ==
  [stored |-> TRUE, outgoing |-> row.outgoing \/ outgoing, local |-> row.local \/ local]

\* The facts the policy sees: a quote is also recognised by the row of the
\* quoted message (_normalize_reply_targets_from_message_store).
FactsOf(c, t) ==
  [mentioned |-> t.mentioned,
   quoted |-> t.quoted \/ (c.id \in DOMAIN Quoting /\ rows[Quoting[c.id]].outgoing),
   watched |-> c.id \in Foreign /\ Plain[c.id].watched,
   pattern |-> c.id \in Foreign /\ Plain[c.id].pattern,
   others |-> c.id \in Foreign /\ Plain[c.id].others]

\* Slash command, direct message, or the policy of the group.
Decision(c, t) ==
  IF c.id \in AdminCommands /\ (c.id \in Direct \/ t.mentioned) THEN Dispatch("slash_command")
  ELSE IF c.id \in Direct THEN Dispatch("direct-message")
  ELSE EvaluateInbound(Group, FactsOf(c, t), lastReply, now)

\* register_recall: not for what this bot sent.
WithContext(c, sentEcho, own) ==
  IF sentEcho \/ own THEN context ELSE context \cup {c.id}

\* A copy passes the duplicate check if its id is new, or as a mention upgrade.
PassesDedup_AnyMention(c, t) == kind[c.id] = "none" \/ DedupKind(c, t) = "mention"
PassesDedup(c, t) == kind[c.id] = "none" \/ MentionUpgrade(c, t)

\* The rest of process_inbound and the hand-over, after the await.
Handle(c) ==
  /\ task[c].st = "enriching"
  /\ \E knows \in {botKnows \/ task[c].discovers},
        resolved \in IF botKnows THEN BOOLEAN ELSE Lookups :
       LET t == task[c]
           own == OwnEcho(c, resolved, knows)
           outgoing == SentEcho(c) \/ own
           passes == PassesDedup(c, t)
           verdict == Decision(c, t)
       IN  /\ botKnows' = knows
           /\ parserKnows' = (parserKnows \/ t.discovers)
           /\ rows' = [rows EXCEPT ![c.id] = Merge(@, outgoing, SentEcho(c))]
           /\ context' = WithContext(c, SentEcho(c), own)
           /\ kind' = IF passes THEN [kind EXCEPT ![c.id] = DedupKind(c, t)] ELSE kind
           /\ dispatched' =
                IF passes /\ ~own /\ verdict.action = "dispatch"
                THEN dispatched \cup {[copy |-> c, mentioned |-> t.mentioned,
                                       trigger |-> verdict.trigger, at |-> now]}
                ELSE dispatched
  /\ task' = [task EXCEPT ![c].st = "done"]
  /\ UNCHANGED <<now, sentStore, lastReply, reply, posted>>

-----------------------------------------------------------------------------
(* Outbound *)

StartReply(r) ==
  /\ reply[r].st = "idle"
  /\ reply' = [reply EXCEPT ![r].st = "calling"]
  /\ UNCHANGED <<now, parserKnows, botKnows, task, kind, sentStore, rows,
                 context, lastReply, posted, dispatched>>

\* The API call for the next chunk: accepted, refused, or accepted with the
\* reply lost.
ApiAnswers(r) ==
  /\ reply[r].st = "calling"
  /\ \/ /\ posted' = posted \cup {ChunksOf[r][reply[r].next]}
        /\ \/ reply' = [reply EXCEPT ![r].st = "ok"]
           \/ LostReplies /\ reply' = [reply EXCEPT ![r].st = "error"]
     \/ reply' = [reply EXCEPT ![r].st = "error"] /\ UNCHANGED posted
  /\ UNCHANGED <<now, parserKnows, botKnows, task, kind, sentStore, rows,
                 context, lastReply, dispatched>>

\* record_bot_reply, once all chunks were tried.
ReplyMarks(r, succeeded) == r \in ToGroup /\ succeeded > 0

\* The call returns in send_message: the id is recorded, the next chunk
\* goes out whatever became of this one.
CallReturns(r) ==
  /\ reply[r].st \in {"ok", "error"}
  /\ LET m == ChunksOf[r][reply[r].next]
         ok == reply[r].st = "ok"
         succeeded == reply[r].succeeded + (IF ok THEN 1 ELSE 0)
         last == reply[r].next = Len(ChunksOf[r])
     IN  /\ sentStore' = IF ok THEN sentStore \cup {m} ELSE sentStore
         /\ kind' = IF ok THEN [kind EXCEPT ![m] = "sent"] ELSE kind
         /\ rows' = IF ok THEN [rows EXCEPT ![m] = Merge(@, TRUE, TRUE)] ELSE rows
         /\ reply' = [reply EXCEPT ![r] =
              [next |-> IF last THEN reply[r].next ELSE reply[r].next + 1,
               st |-> IF last THEN "done" ELSE "calling",
               succeeded |-> succeeded]]
         /\ lastReply' = IF last /\ ReplyMarks(r, succeeded) THEN now ELSE lastReply
  /\ UNCHANGED <<now, parserKnows, botKnows, task, context, posted, dispatched>>

Tick ==
  /\ now < MaxTime
  /\ now' = now + 1
  /\ UNCHANGED <<parserKnows, botKnows, task, kind, sentStore, rows, context,
                 lastReply, reply, posted, dispatched>>

Next ==
  \/ \E c \in Copies : Deliver(c) \/ Handle(c)
  \/ \E r \in Replies : StartReply(r) \/ ApiAnswers(r) \/ CallReturns(r)
  \/ Tick

Spec == Init /\ [][Next]_vars

-----------------------------------------------------------------------------
(* Properties *)

\* The bot never answers itself: no echo of a message it sent reaches the
\* agent, however early the echo arrives and whether or not the send's reply
\* was lost, provided its identity is known (bot.py:503-545, sent_store.py:72-75).
OwnNeverDispatched == \A d \in dispatched : d.copy.id \notin Own

\* A message goes to the agent again only as the mention whose earlier copy
\* did not show that the bot was mentioned: the duplicate check after the
\* await sees what other tasks did during it (bot.py:486-528).
NoRepeatedDispatch ==
  [][\A d \in dispatched' \ dispatched :
       \A e \in dispatched : e.copy.id = d.copy.id => d.mentioned /\ ~e.mentioned]_vars

\* In the mention modes a direct signal is never lost to duplicates: once a copy
\* that shows the mention has been handled, or every handled copy showed the
\* quote, the agent has the message as a direct one.
DirectSignalReaches ==
  ResolveForGroup(Group).mode \in {"mention-only", "mention-and-watch", "proactive"} =>
    \A c \in Copies :
      (/\ task[c].st = "done" /\ c.id \in Foreign \ Direct
       /\ \/ task[c].mentioned
          \/ \A e \in Copies : e.id = c.id /\ task[e].st = "done" => task[e].quoted)
      => \E d \in dispatched : /\ d.copy.id = c.id
                               /\ d.trigger \in {"bot-mentioned", "slash_command"}

\* The message store ends up with the same facts about an own message
\* whichever of its record and its echoes comes first, and never takes a
\* foreign message for an own one.
OwnRowsOutgoing ==
  /\ \A m \in sentStore : rows[m].outgoing /\ rows[m].local
  /\ \A m \in Ids : rows[m].outgoing => m \in posted

\* Recall by count or by quote works from the messages of others: an own
\* message never becomes recall context.
ContextIsForeign == context \cap Own = {}

\* Only a reply of which a chunk was accepted opens the follow-up window.
WindowOpenedByReply ==
  lastReply # Never =>
    \E r \in ToGroup : reply[r].st = "done" /\ reply[r].succeeded > 0
                         /\ \E i \in DOMAIN ChunksOf[r] : ChunksOf[r][i] \in posted

\* An own message is never taken for a foreign one, by the agent, the store or the
\* recall, nor a foreign one for an own (bot.py:503-628).
OwnStaysOwn == TypeOK /\ OwnNeverDispatched /\ OwnRowsOutgoing /\ ContextIsForeign

\* A conversation with the bot gets through: what is addressed to it reaches the
\* agent, and what it answered, and nothing else, opens the window.
SignalsReach == DirectSignalReaches /\ WindowOpenedByReply

\* docs/architecture.md:114-117: the duplicate check filters "the same
\* message arriving twice as MESSAGE_RECEIVE and ALL_MESSAGE_FORWARD".
DispatchedOnce ==
  \A d, e \in dispatched : d.copy.id = e.copy.id => d = e

=============================================================================
