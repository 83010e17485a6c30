--------------------------- MODULE MessageParsing ---------------------------
(***************************************************************************)
(* From what the platform sends to what the bot knows of a message: the    *)
(* builders of parser.py with the wrappers of both transports, to_incoming *)
(* (serverapi.py) and the first part of process_inbound (bot.py), in which *)
(* the bot learns its own robot id and corrects the mentions and quotes    *)
(* the parser saw.                                                         *)
(*                                                                         *)
(* A message is what the platform knows of it: id, chat, author, event and *)
(* its items in order.  A participant stands for all its names (user id,   *)
(* imid, robot id); times, names, sizes and urls are left out.             *)
(***************************************************************************)
EXTENDS Integers, Sequences, FiniteSets

CONSTANTS
  Users, Robots,
  Us,            \* this bot's robot id
  Chat,         \* the group
  AuthorOf,      \* id of a message that can be quoted -> its author
  Messages,      \* what can arrive
  Names,         \* may robot_name be configured? (the possible answers)
  MaxParsed, MaxRestarts   \* bounds

Absent == "absent"
Peer == "peer"          \* the other side of a direct chat, if the bot is one

Quotable == DOMAIN AuthorOf
EventTypes == {"MESSAGE_RECEIVE", "ALL_MESSAGE_FORWARD", Absent}
Types == {"TEXT", "AT", "replyData", "IMAGE", "FILE", "FACE", "LINK"}

\* of: the words, whom an AT names, what is quoted; imid: does the quote carry
\* its author's?
Item(type, of, imid) == [type |-> type, of |-> of, imid |-> imid]
BodyOf(m) == m.body
Has(body, type) == \E i \in DOMAIN body : body[i].type = type
OfType(body, type) == {body[i] : i \in {j \in DOMAIN body : body[j].type = type}}

ASSUME ParsingAssumption ==
  /\ Us \in Robots /\ Users \cap Robots = {}
  /\ Absent \notin Users \cup Robots \cup {Chat, Peer}
  /\ Names \in SUBSET BOOLEAN \ {{}}
  /\ MaxParsed \in Nat /\ MaxRestarts \in Nat
  /\ \A m \in Messages :
       /\ m.chat \in {"group", "dm"} /\ m.from \in Users \cup Robots
       /\ m.event \in EventTypes /\ m.id # Absent
       /\ m.id \in Quotable => AuthorOf[m.id] = m.from
       /\ m.from = Us => m.id \in Quotable
       /\ IsFiniteSet(DOMAIN m.body)
       /\ \A i \in DOMAIN m.body : m.body[i].type \in Types
       /\ \A q \in OfType(m.body, "replyData") : q.of \in Quotable
       \* The event names a mention of this bot.
       /\ m.event = "MESSAGE_RECEIVE" => Item("AT", Us, FALSE) \in OfType(m.body, "AT")

VARIABLES
  transport,  \* connection_mode
  named,      \* is robot_name configured?
  robot,      \* robot_id, of the parser account and of the bot
  file,       \* robot_id.json
  selfRow,    \* the imid in the bot's own row of participants
  onPlatform,     \* own messages the platform has
  sent,       \* sent_message_ids
  outgoing,   \* own messages with an outgoing row
  tasks,      \* parsed messages whose handler awaits the sender lookup
  last,       \* what the latest handled message became
  parsed, restarts

parsingVars == <<transport, named, robot, file, selfRow, onPlatform, sent, outgoing, tasks, last,
                 parsed, restarts>>

-----------------------------------------------------------------------------
(* The wire *)

GroupFields == {"eventtype", "groupid", "fromid", "msgid2"}
HeaderFields == {"fromuserid", "messageid", "clientmsgid", "msgseqid"}
PrivateFields == {"FromUserId", "FromId", "ToUserId", "MsgId", "MsgId2"}
WireFields == GroupFields \cup HeaderFields \cup PrivateFields

\* A robot has no user id: a group message of one comes without fromuserid, an
\* own direct message back without FromUserId.
FieldOf(m, f) ==
  CASE f = "eventtype" -> m.event
    [] f = "groupid" -> Chat
    [] f \in {"fromid", "FromId"} -> m.from
    [] f \in {"fromuserid", "FromUserId"} -> IF m.from \in Users THEN m.from ELSE Absent
    [] f = "ToUserId" -> IF m.from = Us THEN Peer ELSE Absent
    [] OTHER -> m.id

Nothing == [f \in WireFields |-> Absent]
Carrying(m, S) == [f \in WireFields |-> IF f \in S THEN FieldOf(m, f) ELSE Absent]

\* A JSON object: its own fields, the header of its message, its body.
Object(fields, header, body) == [fields |-> fields, header |-> header, body |-> body]
NoObject == Object(Nothing, Nothing, <<>>)
Payload(m) ==
  IF m.chat = "group"
  THEN Object(Carrying(m, GroupFields), Carrying(m, HeaderFields \cup {"groupid"}), BodyOf(m))
  ELSE Object(Carrying(m, PrivateFields), Nothing, BodyOf(m))

\* The shapes a data frame may have.
Wrappings == {"plain", "raw", "original", "raw original", "headless"}
Wire(m, w) ==
  LET p == Payload(m)
      flat == Object(Carrying(m, GroupFields \cup HeaderFields), Nothing, BodyOf(m))
      envelope == Object(p.fields, Nothing, <<>>)
  IN  [data |-> CASE w = "plain" -> p
                  [] w = "original" -> envelope
                  [] w = "headless" /\ m.chat = "group" -> flat
                  [] w = "headless" /\ m.chat # "group" -> p
                  [] OTHER -> NoObject,
       raw |-> CASE w = "raw" -> p [] w = "raw original" -> envelope [] OTHER -> NoObject,
       original |-> IF w \in {"original", "raw original"} THEN p ELSE NoObject]

-----------------------------------------------------------------------------
(* Normalisation of a data frame *)

\* _websocket_payload_roots
Roots_OwnHeader(wire) ==
  LET payload == IF wire.raw # NoObject THEN wire.raw ELSE wire.data
      original == IF wire.original # NoObject THEN wire.original ELSE payload
  IN  [payload |-> payload, original |-> original, data |-> wire.data,
       header |-> payload.header]
Roots(wire) ==
  LET payload == IF wire.raw # NoObject THEN wire.raw ELSE wire.data
      original == IF wire.original # NoObject THEN wire.original ELSE payload
  IN  [payload |-> payload, original |-> original, data |-> wire.data,
       header |-> IF payload.header # Nothing THEN payload.header ELSE original.header]

\* Where each field is looked for, first to last.
Places(f) ==
  CASE f = "groupid" -> <<"payload", "data", "original", "header">>
    [] f = "fromid" -> <<"payload", "original", "data", "header">>
    [] f \in {"eventtype", "msgid2"} -> <<"payload", "original", "data">>
    [] f \in HeaderFields -> <<"header", "payload", "original", "data">>
    [] OTHER -> <<"payload", "data", "original">>

At(roots, place) == IF place = "header" THEN roots.header ELSE roots[place].fields
Earliest(S) == CHOOSE i \in S : \A j \in S : i <= j
FirstNonEmpty(roots, f) ==
  LET values == [i \in DOMAIN Places(f) |-> At(roots, Places(f)[i])[f]]
      full == {i \in DOMAIN values : values[i] # Absent}
  IN  IF full = {} THEN Absent ELSE values[Earliest(full)]

BodyAt(roots) ==
  LET bodies == <<roots.payload.body, roots.original.body, roots.data.body>>
      full == {i \in DOMAIN bodies : bodies[i] # <<>>}
  IN  IF full = {} THEN <<>> ELSE bodies[Earliest(full)]

\* _is_websocket_group_payload
IsGroupPayload(roots) ==
  \/ roots.payload.fields["groupid"] # Absent
  \/ roots.original.fields["groupid"] # Absent
  \/ roots.header["groupid"] # Absent

\* _check_bot_mentioned: by name, or by the known robot id; @all is no mention.
\* Names are unique, so both find the same item.
CheckMentioned(body, known) ==
  Item("AT", Us, FALSE) \in OfType(body, "AT") /\ (named \/ known = Us)

\* The fields the builders read; a data frame says whether it mentions the bot,
\* a webhook leaves that to the body.
NormalizeGroup(roots, known) ==
  [fields |-> [f \in WireFields |->
                 IF f \in GroupFields \cup HeaderFields THEN FirstNonEmpty(roots, f) ELSE Absent],
   body |-> BodyAt(roots),
   marked |-> \/ FirstNonEmpty(roots, "eventtype") = "MESSAGE_RECEIVE"
              \/ CheckMentioned(BodyAt(roots), known)]

\* ToUserId does not survive.
NormalizePrivate(roots) ==
  [fields |-> [f \in WireFields |->
                 IF f \in PrivateFields \ {"ToUserId"} THEN FirstNonEmpty(roots, f) ELSE Absent],
   body |-> BodyAt(roots),
   marked |-> FALSE]

\* A decrypted webhook payload is read as it is.
AsSent(m) ==
  [fields |-> IF m.chat = "group" THEN Carrying(m, GroupFields \cup HeaderFields)
              ELSE Carrying(m, PrivateFields),
   body |-> BodyOf(m),
   marked |-> FALSE]

-----------------------------------------------------------------------------
(* The builders *)

Mentioned(body) == {a.of : a \in OfType(body, "AT")}
RobotsNamed(body) == Mentioned(body) \cap Robots
HasWords(body) == \E i \in DOMAIN body : body[i].type \in {"TEXT", "LINK"} /\ body[i].of # "blank"

\* _extract_reply_targets of a group: the author's imid decides if it and the
\* robot id are known, else the sent ids.
QuotesUs(q, known, ids) ==
  IF q.imid /\ known # Absent THEN AuthorOf[q.of] = known ELSE q.of \in ids

\* A robot id is learnt from the AT that has the bot's name, or else from the only
\* AT of a robot in a message marked as a mention.
RobotAts(body) == {i \in DOMAIN body : body[i].type = "AT" /\ body[i].of \in Robots}
Discovered(body, marked, known) ==
  IF CheckMentioned(body, known) THEN Us
  ELSE IF marked /\ known = Absent /\ Cardinality(RobotAts(body)) = 1
  THEN CHOOSE r \in RobotsNamed(body) : TRUE ELSE Absent

\* _body_is_at_only
AtOnly(body) ==
  /\ Has(body, "AT")
  /\ \A i \in DOMAIN body : body[i].type = "AT" \/ body[i] = Item("TEXT", "blank", FALSE)

Ignored == [kind |-> "ignored"]
EmptyGroup(body) ==
  /\ ~HasWords(body)
  /\ \A t \in {"IMAGE", "replyData", "AT", "FILE"} : ~Has(body, t)

BuildGroup(md, known, ids) ==
  LET body == md.body
      author == IF md.fields["fromuserid"] # Absent THEN md.fields["fromuserid"]
                ELSE md.fields["fromid"]
      found == Discovered(body, md.marked, known)
      self == IF known # Absent THEN known ELSE found
      quotes == OfType(body, "replyData")
  IN  IF author = Absent \/ EmptyGroup(body) THEN Ignored
      ELSE [kind |-> "message", chat |-> "group", id |-> md.fields["messageid"],
            where |-> md.fields["groupid"], author |-> author,
            bot |-> md.fields["fromuserid"] = Absent \/ md.fields["fromid"] \in RobotsNamed(body),
            imid |-> md.fields["fromid"], seqid |-> md.fields["msgseqid"],
            msgid2 |-> md.fields["msgid2"],
            mentioned |-> md.marked \/ CheckMentioned(body, known),
            users |-> Mentioned(body) \cap Users,
            robots |-> RobotsNamed(body) \ {self},
            targets |-> {q.of : q \in quotes},
            ours |-> {q.of : q \in {r \in quotes : QuotesUs(r, known, ids)}},
            images |-> Has(body, "IMAGE"), files |-> Has(body, "FILE"),
            atOnly |-> AtOnly(body),
            discovered |-> found]

\* An own direct message comes back without a user: it is filed under its receiver,
\* once the robot id is known.
DirectAuthor(md, known) ==
  IF md.fields["FromUserId"] = Absent /\ md.fields["FromId"] = known
  THEN md.fields["ToUserId"] ELSE md.fields["FromUserId"]

BuildPrivate(md, known, ids) ==
  LET body == md.body
      author == DirectAuthor(md, known)
      quotes == OfType(body, "replyData")
      empty == ~HasWords(body) /\ \A t \in {"IMAGE", "replyData", "FILE"} : ~Has(body, t)
  IN  IF author = Absent \/ empty
      THEN Ignored
      ELSE [kind |-> "message", chat |-> "dm", id |-> md.fields["MsgId"],
            where |-> author, author |-> author,
            bot |-> known # Absent /\ md.fields["FromId"] = known,
            imid |-> md.fields["FromId"], seqid |-> Absent, msgid2 |-> md.fields["MsgId2"],
            mentioned |-> TRUE, users |-> {}, robots |-> {},
            targets |-> {q.of : q \in quotes},
            ours |-> {q.of : q \in quotes} \cap ids,
            images |-> Has(body, "IMAGE"), files |-> Has(body, "FILE"),
            atOnly |-> FALSE, discovered |-> Absent]

\* parse_webhook after decryption, parse_websocket_payload_text
ParseWebhook(m, known, ids) ==
  IF m.chat = "group" THEN BuildGroup(AsSent(m), known, ids)
  ELSE BuildPrivate(AsSent(m), known, ids)
ParseWebSocket(m, w, known, ids) ==
  LET roots == Roots(Wire(m, w)) IN
  IF IsGroupPayload(roots) THEN BuildGroup(NormalizeGroup(roots, known), known, ids)
  ELSE BuildPrivate(NormalizePrivate(roots), known, ids)

\* to_incoming: a bot's message has no sender id.
ToIncoming(inbound) ==
  [inbound EXCEPT !.author = IF inbound.bot THEN Absent ELSE @]

-----------------------------------------------------------------------------
ParsingInit ==
  /\ transport \in {"webhook", "websocket"} /\ named \in Names
  /\ robot = Absent /\ file = Absent /\ selfRow = Absent
  /\ onPlatform = {} /\ sent = {} /\ outgoing = {}
  /\ tasks = {} /\ last = Ignored
  /\ parsed = 0 /\ restarts = 0

\* send_message: the API has accepted it and the id is recorded.
SendOwn(o) ==
  /\ AuthorOf[o] = Us /\ o \notin onPlatform
  /\ onPlatform' = onPlatform \cup {o} /\ sent' = sent \cup {o} /\ outgoing' = outgoing \cup {o}
  /\ UNCHANGED <<transport, named, robot, file, selfRow, tasks, last, parsed, restarts>>

\* SentStore forgets an id after its TTL; another process can have sent one.
Forget(o) ==
  /\ o \in sent /\ sent' = sent \ {o}
  /\ UNCHANGED <<transport, named, robot, file, selfRow, onPlatform, outgoing, tasks, last,
                 parsed, restarts>>
SentElsewhere(o) ==
  /\ AuthorOf[o] = Us /\ o \notin onPlatform
  /\ onPlatform' = onPlatform \cup {o}
  /\ outgoing' \in {outgoing, outgoing \cup {o}}
  /\ UNCHANGED <<transport, named, robot, file, selfRow, sent, tasks, last, parsed, restarts>>

Exists(id) == id \in Quotable /\ AuthorOf[id] = Us => id \in onPlatform

\* The message is parsed in the request or the reader, then its task awaits
\* _enrich_sender.
Parse(m) ==
  /\ parsed < MaxParsed /\ parsed' = parsed + 1
  /\ Exists(m.id) /\ \A q \in OfType(m.body, "replyData") : Exists(q.of)
  /\ \E w \in Wrappings :
       /\ transport = "webhook" => w = "plain"
       /\ LET inbound == IF transport = "webhook" THEN ParseWebhook(m, robot, sent)
                         ELSE ParseWebSocket(m, w, robot, sent)
          IN  tasks' = IF inbound = Ignored THEN tasks
                       ELSE tasks \cup {[msg |-> m, known |-> robot, in |-> ToIncoming(inbound)]}
  /\ UNCHANGED <<transport, named, robot, file, selfRow, onPlatform, sent, outgoing, last,
                 restarts>>

\* _normalize_mention_targets_from_participants: when the parser kept no robot,
\* the items are read again.
SelfIds(known) == {known, selfRow} \ {Absent}
OtherRobots_AsParsed(t, known) == t.in.robots
OtherRobots(t, known) ==
  IF t.in.chat = "dm" THEN {}
  ELSE (IF t.in.robots # {} THEN t.in.robots ELSE RobotsNamed(BodyOf(t.msg))) \ SelfIds(known)

\* _normalize_reply_targets_from_message_store
OwnTargets(t) == t.in.ours \cup (t.in.targets \cap outgoing)

\* The rest of the steps 1 and 2 of process_inbound; saving the robot id may fail.
\* An own message gets an outgoing row if the robot id or the member list says so.
Learn(t) ==
  /\ t \in tasks /\ tasks' = tasks \ {t}
  /\ LET known == IF t.in.discovered # Absent THEN t.in.discovered ELSE robot
     IN  /\ robot' = known
         /\ file' \in IF known # robot THEN {file, known} ELSE {file}
         /\ selfRow' = IF known # Absent THEN known ELSE selfRow
         /\ last' = [msg |-> t.msg, knew |-> t.known, knows |-> known, rows |-> outgoing,
                     in |-> [t.in EXCEPT !.robots = OtherRobots(t, known),
                                         !.ours = OwnTargets(t)]]
         /\ IF t.in.imid = Us
            THEN \E stored \in IF known = Us THEN {{t.in.id}} ELSE {{}, {t.in.id}} :
                   outgoing' = outgoing \cup stored
            ELSE UNCHANGED outgoing
  /\ UNCHANGED <<transport, named, onPlatform, sent, parsed, restarts>>

\* The process ends, with the tasks it has, and starts again with what is on disk.
RestartBot ==
  /\ restarts < MaxRestarts /\ restarts' = restarts + 1
  /\ robot' = file /\ sent' = {} /\ tasks' = {} /\ last' = Ignored
  /\ UNCHANGED <<transport, named, file, selfRow, onPlatform, outgoing, parsed>>

ParsingNext ==
  \/ \E o \in Quotable : SendOwn(o) \/ Forget(o) \/ SentElsewhere(o)
  \/ \E m \in Messages : Parse(m)
  \/ \E t \in tasks : Learn(t)
  \/ RestartBot

ParsingSpec == ParsingInit /\ [][ParsingNext]_parsingVars

-----------------------------------------------------------------------------
(* Properties *)

ParsingTypeOK ==
  /\ transport \in {"webhook", "websocket"} /\ named \in Names
  /\ {robot, file, selfRow} \subseteq Robots \cup {Absent}
  /\ sent \cup outgoing \subseteq onPlatform /\ onPlatform \subseteq Quotable
  /\ \A t \in tasks : t.msg \in Messages /\ t.in.kind = "message"
  /\ parsed \in 0 .. MaxParsed /\ restarts \in 0 .. MaxRestarts

\* What the bot takes for its own robot id is its own, in memory, on disk and in
\* its participant row, whichever robots a message names (bot.py:443-450,
\* parser.py:930-945).
IdentityIsOurs == {robot, file, selfRow} \subseteq {Us, Absent}

\* Parsing reads the robot id and the sent ids only, and a bot that has handled
\* nothing since it started again may have any of them.
JustStarted == tasks = {} /\ last = Ignored /\ parsed > 0

\* A message means the same however it travels: each wrapping of a data frame
\* gives what the webhook gives, but for the mark of a mention, which only a data
\* frame takes from the event, and for the echo of an own direct message, whose
\* receiver a data frame loses (parser.py:1437-1443).
TransportsAgree ==
  JustStarted => \A m \in Messages, w \in Wrappings :
    LET hook == ParseWebhook(m, robot, sent)
        frame == ParseWebSocket(m, w, robot, sent)
    IN  \/ hook = frame
        \/ m.chat = "dm" /\ m.from = Us /\ frame = Ignored
        \/ /\ m.event = "MESSAGE_RECEIVE" /\ frame.mentioned
           /\ DOMAIN hook = DOMAIN frame
           /\ \A f \in DOMAIN frame \ {"mentioned", "discovered", "robots"} : hook[f] = frame[f]

\* A quote is taken for one of an own message only if it is, and is taken for one
\* if the store has the message, or the platform named the author and the robot
\* id was known (parser.py:462-497, bot.py:823-867).
QuotesAreOurs ==
  last # Ignored =>
    LET own == {q \in OfType(BodyOf(last.msg), "replyData") : AuthorOf[q.of] = Us}
    IN  /\ last.in.ours \subseteq {q.of : q \in own}
        /\ \A q \in own :
             q.of \in last.rows \/ (q.imid /\ last.knew # Absent /\ last.msg.chat = "group")
               => q.of \in last.in.ours

\* Nothing with content is dropped: of a group, and of what users write to the bot,
\* only blank messages and bare stickers are ignored.  A direct message mentions
\* nobody (parser.py:790-806, 948-963).
ContentSurvives ==
  JustStarted => \A m \in Messages :
    /\ m.chat = "group" \/ m.from \in Users
    /\ \E i \in DOMAIN m.body :
         /\ m.body[i].of # "blank"
         /\ m.body[i].type \notin (IF m.chat = "group" THEN {"FACE"} ELSE {"FACE", "AT"})
    => ParseWebhook(m, robot, sent) # Ignored

\* Neither the transport nor the wrapping costs a message its meaning.
ParsedAlike == TransportsAgree /\ ContentSurvives

\* The bot never takes its own message for a human's, whatever it knows of itself,
\* nor a human's for a robot's (parser.py:718-731, 981-1004).
AuthorIsWhoWrote ==
  \A t \in tasks :
    /\ t.in.bot <=> t.msg.from \in Robots
    /\ ~t.in.bot => t.in.author = t.msg.from

\* Once it knows its id the bot does not count itself among the other robots a
\* message names, also if it learnt it after the message was parsed
\* (bot.py:766-821).
OthersExcludeUs ==
  last # Ignored /\ last.knows # Absent => Us \notin last.in.robots

\* What the bot believes of a message is so: who it is itself, who wrote, which
\* quotes are of its own messages and who else is named, although messages are
\* parsed before and handled after it learns its id.
MessageIsUnderstood ==
  /\ ParsingTypeOK /\ IdentityIsOurs
  /\ AuthorIsWhoWrote /\ QuotesAreOurs /\ OthersExcludeUs
=============================================================================
