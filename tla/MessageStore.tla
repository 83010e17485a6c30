---------------------------- MODULE MessageStore ----------------------------
(* The message facts of one account (message_store.py) and what writes and    *)
(* reads them: the pipeline's record of a callback and of a sent message      *)
(* (bot.py), the write-back of a download and the history tool (tools.py),    *)
(* and the facts about other bots that any thread adds when it has fetched a  *)
(* member list.                                                               *)
(*                                                                            *)
(* The lock of the store makes each statement one step.  One message is       *)
(* written several times, by its callbacks, by the reply to its send call and *)
(* by the write-back, in any order; its row is their merge.                   *)
EXTENDS Integers, FiniteSets

CONSTANTS
  Messages,      \* message ids, which are ordered: numbers stand for them
  StoreChats,    \* the groups
  ChatOf, AuthorOf,
  WritersOf,     \* which of its writers a message has
  RowLimit,      \* _ROW_LIMIT
  KeepFor,       \* _RETENTION_SECONDS
  MaxClock,      \* bound of the clock
  NoRow, NoChat

ASSUME MessageAssumption ==
  /\ Messages \subseteq Nat /\ IsFiniteSet(Messages)
  /\ ChatOf \in [Messages -> StoreChats] /\ NoChat \notin StoreChats
  /\ AuthorOf \in [Messages -> {"me", "bot", "user"}]
  /\ \A m \in Messages :
       WritersOf[m] \subseteq IF AuthorOf[m] = "me" THEN {"sent", "echo"}
                                                 ELSE {"forward", "mention"}
  /\ RowLimit \in Nat \ {0} /\ KeepFor \in Nat /\ MaxClock \in Nat

VARIABLES
  table,      \* group_messages: a row or NoRow per message id
  botKnown,   \* participants: the imid of the other bot is there
  clock,      \* _now_ms()
  handler,    \* the callback the event loop is handling, its sender looked up
  arrived,    \* the callbacks and send replies of a message handled so far
  borrowed,   \* the row the download tool read and will write back
  raced       \* history: rows whose sender was looked up before it was known

storeVars == <<table, botKnown, clock, handler, arrived, borrowed, raced>>

(* What writes a row: the reply to a send call, or a callback, which has the *)
(* raw payload: the echo, the forwarded copy, the mention.                   *)
Writers == {"sent", "echo", "forward", "mention"}

(* sender: it is not ''.  raw: there is a raw_json.  content: rendered from  *)
(* the payload, or the text that was sent.  writers: history, who wrote it.  *)
Row == [created : 0..MaxClock, outgoing : BOOLEAN, localSent : BOOLEAN,
        mentioned : BOOLEAN, sender : BOOLEAN, raw : BOOLEAN,
        content : {"rendered", "sent"}, writers : SUBSET Writers, first : 0..MaxClock]

ASSUME NoRowIsNoRow == NoRow \notin Row

Nothing == [at |-> "idle"]

StoreTypeOK ==
  /\ \A m \in Messages : table[m] = NoRow \/ table[m] \in Row
  /\ botKnown \in BOOLEAN /\ clock \in 0..MaxClock
  /\ handler # Nothing => AuthorOf[handler.of] = "bot" /\ handler.writer \in Writers
  /\ \A m \in Messages : arrived[m] \subseteq WritersOf[m]
  /\ borrowed # Nothing => borrowed.of \in Messages /\ borrowed.row \in Row
  /\ raced \subseteq {m \in Messages : AuthorOf[m] = "bot"}

StoreInit ==
  /\ table = [m \in Messages |-> NoRow]
  /\ botKnown = FALSE /\ clock = 0
  /\ handler = Nothing /\ borrowed = Nothing
  /\ arrived = [m \in Messages |-> {}]
  /\ raced = {}

Rows == {m \in Messages : table[m] # NoRow}

-----------------------------------------------------------------------------
(* Mutant: the columns of the last write win. *)
MergeOverwrites(old, new) ==
  [old EXCEPT !.outgoing = new.outgoing, !.localSent = @ \/ new.localSent,
              !.mentioned = @ \/ new.mentioned, !.sender = @ \/ new.sender,
              !.content = IF old.raw /\ ~new.raw THEN @ ELSE new.content,
              !.raw = @ \/ new.raw, !.writers = @ \cup new.writers]

(* ON CONFLICT(message_id) DO UPDATE: a flag stays set, an empty column is   *)
(* filled, the content of a payload is not replaced by the text that was     *)
(* sent, and created_time is not among the columns that are set.             *)
Merge(old, new) ==
  [old EXCEPT !.outgoing = @ \/ new.outgoing, !.localSent = @ \/ new.localSent,
              !.mentioned = @ \/ new.mentioned, !.sender = @ \/ new.sender,
              !.content = IF old.raw /\ ~new.raw THEN @ ELSE new.content,
              !.raw = @ \/ new.raw, !.writers = @ \cup new.writers]

Upserted(m, row) ==
  [table EXCEPT ![m] = IF @ = NoRow THEN row ELSE Merge(@, row)]

Retained(rows) ==
  [m \in Messages |-> IF rows[m] # NoRow /\ rows[m].created < clock - KeepFor
                        THEN NoRow ELSE rows[m]]

(* ORDER BY created_time ASC LIMIT ? *)
Oldest(rows, gone) ==
  \A m \in gone : \A k \in Messages \ gone :
    rows[k] # NoRow => rows[m].created <= rows[k].created

(* _auto_cleanup_table, in the upsert's own connection. *)
CleanUp(rows) ==
  LET kept == {m \in Messages : rows[m] # NoRow}
      excess == Cardinality(kept) - RowLimit
  IN \E gone \in SUBSET kept :
       /\ Cardinality(gone) = (IF excess > 0 THEN excess ELSE 0)
       /\ Oldest(rows, gone)
       /\ table' = [m \in Messages |-> IF m \in gone THEN NoRow ELSE rows[m]]

(* ... or the database is locked for too long: logged, and the write is lost. *)
Upsert(m, row) == CleanUp(Retained(Upserted(m, row))) \/ UNCHANGED table

-----------------------------------------------------------------------------

(* _register_context: the row of a callback.  mine: it was recognised as the *)
(* bot's own.                                                                *)
RowOf(writer, mine, sender) ==
  [created |-> clock, outgoing |-> mine, localSent |-> FALSE,
   mentioned |-> writer = "mention", sender |-> sender, raw |-> TRUE,
   content |-> "rendered", writers |-> {writer}, first |-> clock]

Arrives(m, writer) ==
  /\ handler = Nothing
  /\ writer \in WritersOf[m] \ arrived[m]
  /\ arrived' = [arrived EXCEPT ![m] = @ \cup {writer}]

(* The sender is in the callback, or the member list or the participants have *)
(* given it.                                                                  *)
Callback(m, writer, mine) ==
  /\ writer # "sent" /\ Arrives(m, writer)
  /\ mine => AuthorOf[m] = "me"
  /\ AuthorOf[m] = "bot" => botKnown
  /\ Upsert(m, RowOf(writer, mine, AuthorOf[m] # "me" \/ mine))
  /\ UNCHANGED <<botKnown, clock, handler, borrowed, raced>>

(* A bot nobody knows: _sender_key_for_store has looked and found nothing ... *)
LookUp(m, writer) ==
  /\ Arrives(m, writer)
  /\ AuthorOf[m] = "bot" /\ ~botKnown
  /\ handler' = [at |-> "persist", of |-> m, writer |-> writer]
  /\ UNCHANGED <<table, botKnown, clock, borrowed, raced>>

(* ... and the row is stored. *)
Persist ==
  /\ handler # Nothing
  /\ handler' = Nothing
  /\ Upsert(handler.of, RowOf(handler.writer, FALSE, FALSE))
  /\ raced' = IF botKnown THEN raced \cup {handler.of} ELSE raced
  /\ UNCHANGED <<botKnown, clock, arrived, borrowed>>

(* _record_sent, when the send call returns. *)
RecordSent(m) ==
  /\ AuthorOf[m] = "me" /\ Arrives(m, "sent")
  /\ Upsert(m, [created |-> clock, outgoing |-> TRUE, localSent |-> TRUE,
                mentioned |-> FALSE, sender |-> TRUE, raw |-> FALSE, content |-> "sent",
                writers |-> {"sent"}, first |-> clock])
  /\ UNCHANGED <<botKnown, clock, handler, borrowed, raced>>

(* _backfill_group_sender_by_imid *)
Backfilled(rows) ==
  [m \in Messages |-> IF rows[m] # NoRow /\ AuthorOf[m] = "bot" /\ rows[m].raw
                        THEN [rows[m] EXCEPT !.sender = TRUE] ELSE rows[m]]

(* upsert_participant and upsert_group_members, from any thread. *)
LearnBot ==
  /\ botKnown' = TRUE
  /\ table' = Backfilled(table)
  /\ raced' = {}
  /\ UNCHANGED <<clock, handler, arrived, borrowed>>

(* infoflow_download_attachment: the row is read, and after the download it *)
(* is written back whole (_persist_record_raw_json).                        *)
Borrow(m) ==
  /\ borrowed = Nothing
  /\ table[m] # NoRow /\ table[m].raw
  /\ borrowed' = [at |-> "download", of |-> m, row |-> table[m]]
  /\ UNCHANGED <<table, botKnown, clock, handler, arrived, raced>>

WriteBack ==
  /\ borrowed # Nothing
  /\ borrowed' = Nothing
  /\ Upsert(borrowed.of, borrowed.row)
  /\ raced' = IF AuthorOf[borrowed.of] = "bot" /\ botKnown /\ ~borrowed.row.sender
                THEN raced \cup {borrowed.of} ELSE raced
  /\ UNCHANGED <<botKnown, clock, handler, arrived>>

ClockTicks ==
  /\ clock < MaxClock
  /\ clock' = clock + 1
  /\ UNCHANGED <<table, botKnown, handler, arrived, borrowed, raced>>

StoreNext ==
  \/ \E m \in Messages :
       \/ \E w \in Writers : LookUp(m, w) \/ \E mine \in BOOLEAN : Callback(m, w, mine)
       \/ RecordSent(m) \/ Borrow(m)
  \/ Persist \/ LearnBot \/ WriteBack \/ ClockTicks

StoreSpec == StoreInit /\ [][StoreNext]_storeVars

-----------------------------------------------------------------------------
(* The reads: rows of one chat by (created_time, message_id). *)

(* Mutant: the order is by the time alone. *)
EarlierByTime(m, k) == table[m].created < table[k].created

Earlier(m, k) ==
  \/ table[m].created < table[k].created
  \/ table[m].created = table[k].created /\ m < k

InChat(c) == {m \in Rows : ChatOf[m] = c}

(* _between_rows, _count_between *)
Between(after, before) ==
  {m \in InChat(ChatOf[before]) : Earlier(after, m) /\ Earlier(m, before)}

(* group_window_around: _group_before, the anchor, _group_after *)
Before(anchor, n) ==
  {m \in InChat(ChatOf[anchor]) :
     Earlier(m, anchor) /\ Cardinality(Between(m, anchor)) < n}
AfterAnchor(anchor, n) ==
  {m \in InChat(ChatOf[anchor]) :
     Earlier(anchor, m) /\ Cardinality(Between(anchor, m)) < n}
Window(anchor, before, after) ==
  Before(anchor, before) \cup {anchor} \cup AfterAnchor(anchor, after)

(* _target_from_record(current_record): the message of the agent's turn, if *)
(* it is in the store.                                                      *)
CurrentChat(current) == IF table[current] = NoRow THEN NoChat ELSE ChatOf[current]

(* The history tool answers a turn that has no record of its own with an    *)
(* error, and only an administrator's turn about another chat.              *)
MayRead(current, admin, explicit, chat) ==
  /\ CurrentChat(current) # NoChat
  /\ explicit # NoChat => explicit = CurrentChat(current) \/ admin
  /\ chat = CurrentChat(current) \/ admin

(* make_message_history_handler with a message_id: whether it answers with   *)
(* the messages around it.                                                   *)
AnswersAround(current, admin, explicit, anchor) ==
  /\ table[anchor] # NoRow
  /\ explicit \in {NoChat, ChatOf[anchor]}
  /\ explicit = NoChat => CurrentChat(current) \in {NoChat, ChatOf[anchor]}
  /\ MayRead(current, admin, explicit, ChatOf[anchor])

-----------------------------------------------------------------------------
(* The row of a message does not depend on the order in which its writers     *)
(* came: a flag is set when any of them set it, the content is a payload's as *)
(* soon as there was one, and the time is that of the first (module comment   *)
(* of message_store.py), although the sent text, a lost write, a row that was *)
(* evicted and a stale copy from the download tool come in between.           *)
RowIsMergeOfWriters ==
  \A m \in Rows :
    LET row == table[m] IN
    /\ row.created = row.first
    /\ row.localSent <=> "sent" \in row.writers
    /\ row.localSent => row.outgoing
    /\ row.mentioned <=> "mention" \in row.writers
    /\ row.raw <=> row.writers \ {"sent"} # {}
    /\ row.content = IF row.raw THEN "rendered" ELSE "sent"

(* Once a bot is known, its messages have their sender, those too that were   *)
(* stored before: only one whose handler looked just before the fact arrived, *)
(* and stored just after it, has to wait for the next member list.            *)
SenderMissingOnlyByRace ==
  botKnown => \A m \in Rows :
    AuthorOf[m] = "bot" /\ ~table[m].sender => m \in raced

(* The facts of a message are the same whichever of its writers came first,   *)
(* and whichever of it and the facts about its sender (message_store.py:1059, *)
(* bot.py:1093).                                                              *)
RowsAreMerged == StoreTypeOK /\ RowIsMergeOfWriters /\ SenderMissingOnlyByRace

(* A message that stays is newer than one that goes, unless that one is past  *)
(* the retention: the store never loses a message of the middle.              *)
OldestGoFirst ==
  [][\A m \in Rows : table'[m] = NoRow =>
       \A k \in Messages : table'[k] # NoRow => table[m].created <= table'[k].created]_storeVars

(* Reading back from a message one by one visits each older message of its    *)
(* chat, those of the same millisecond too: the message before an anchor has  *)
(* none between it and the anchor, and it is there if any older one is.       *)
PagingSkipsNone ==
  \A c \in StoreChats : \A a \in InChat(c) :
    LET older == InChat(c) \ (Window(a, 0, Cardinality(Rows))) IN
    /\ older # {} => Before(a, 1) # {}
    /\ \A m \in Before(a, 1) : Between(m, a) = {} /\ Window(m, 0, 1) = {m, a}

(* The history tool shows a turn the messages of its own chat; those of       *)
(* another one only to an administrator, and then of one chat.                *)
HistoryStaysInChat ==
  \A anchor \in Rows :
    /\ \A m \in Window(anchor, 1, 1) : ChatOf[m] = ChatOf[anchor]
    /\ \A current \in Messages : \A explicit \in StoreChats \cup {NoChat}, admin \in BOOLEAN :
         AnswersAround(current, admin, explicit, anchor) =>
           /\ CurrentChat(current) # NoChat
           /\ \/ admin /\ explicit # NoChat
              \/ ChatOf[anchor] = CurrentChat(current)

(* What a chat can read back of itself has no holes: the store forgets from   *)
(* the old end only, and windows neither skip nor leave the chat              *)
(* (message_store.py:1208, 1430).                                             *)
HistoryIsWhole == [](PagingSkipsNone /\ HistoryStaysInChat) /\ OldestGoFirst
=============================================================================
