------------------------------ MODULE SendPath ------------------------------
(***************************************************************************)
(* One send of hermes_infoflow from the caller to the records it leaves:   *)
(* a reply of the agent in chunks (bot.send_message), an image with its    *)
(* caption (bot.send_image), the send tool (tools.py) and a send of a cron *)
(* process without an adapter (standalone.py).  Each part of a send is an  *)
(* intent that becomes packets (Packets), and the packets go out one by    *)
(* one over calls that the platform may refuse or answer into the void.    *)
(***************************************************************************)
EXTENDS Packets

CONSTANTS
  Jobs   \* what is sent: a caller and its parts

Callers == {"reply", "image", "tool", "cron"}

\* A send has one part at least and goes to one chat.
ASSUME SendAssumption ==
  \A j \in Jobs :
    /\ j.caller \in Callers
    /\ Len(j.parts) \in Nat \ {0} /\ DOMAIN j.parts = 1 .. Len(j.parts)
    /\ \A p \in DOMAIN j.parts : IsIntent(j.parts[p]) /\ j.parts[p].to = j.parts[1].to

VARIABLES
  job,
  part,     \* the part that is being sent
  stage,    \* "plan", "publish", "send", "over"
  at,       \* the packet of the part that goes out next
  accepted, \* packets the platform has taken, in order
  receipts, \* their ids that were reported for the current part
  results,  \* how each part ended
  reported, \* ids reported for the finished parts
  recorded, \* ids in the sent store
  window,   \* the follow-up window was opened
  told      \* what the caller is told

sendVars == <<job, part, stage, at, accepted, receipts, results, reported,
              recorded, window, told>>

Intent == job.parts[part]
Packet == Plan(Intent)[at]
Id(p, k) == <<p, k>>
Spoiled(intent, packet) ==
  packet.type = "image" /\ \E i \in Held(packet.body) : intent.segs[i] = "spoiled"

SendTypeOK ==
  /\ job.caller \in Callers
  /\ part \in 1 .. Len(job.parts) + 1
  /\ stage \in {"plan", "publish", "send", "over"}
  /\ stage = "send" => at \in 1 .. Len(Plan(Intent))
  /\ Len(results) = part - 1
  /\ \A i \in DOMAIN results : results[i] \in {"ok", "failed"}
  /\ recorded \subseteq {accepted[i] : i \in DOMAIN accepted}
  /\ window \in BOOLEAN
  /\ told \in {"nothing", "success", "error"}
  /\ stage = "over" <=> told # "nothing"

SendInit ==
  /\ job \in Jobs
  /\ part = 1 /\ stage = "plan" /\ at = 1
  /\ accepted = <<>> /\ receipts = <<>>
  /\ results = <<>> /\ reported = <<>>
  /\ recorded = {}
  /\ window = FALSE
  /\ told = "nothing"

-----------------------------------------------------------------------------
(* What the callers do with the result of a part *)

\* bot.send_message, bot.send_image and the tool record what was reported,
\* whether the part succeeded or not; the cron sender waits for the end.
Recorded_OnSuccess(ids, result) ==
  IF job.caller # "cron" /\ result = "ok" THEN recorded \cup ToSet(ids) ELSE recorded
Recorded(ids, result) ==
  IF job.caller # "cron" THEN recorded \cup ToSet(ids) ELSE recorded

\* record_bot_reply: after a chunk that succeeded, or an image of which
\* anything was delivered.
OpensWindow(ids, result) ==
  /\ Intent.to = "group"
  /\ \/ job.caller = "reply" /\ result = "ok"
     \/ job.caller = "image" /\ ids # <<>>

AllOk(rs) == \A i \in DOMAIN rs : rs[i] = "ok"

CronRecords(ids, rs) == IF job.caller = "cron" /\ AllOk(rs) THEN ToSet(ids) ELSE {}

\* The part ended with these ids.
PartEnds(ids, result) ==
  LET rs == Append(results, result)
      all == reported \o ids
  IN  /\ results' = rs /\ reported' = all
      /\ window' = (window \/ OpensWindow(ids, result))
      /\ part' = part + 1 /\ at' = 1 /\ receipts' = <<>>
      /\ IF part < Len(job.parts)
         THEN /\ stage' = "plan"
              /\ recorded' = Recorded(ids, result)
              /\ UNCHANGED told
         ELSE /\ stage' = "over"
              /\ recorded' = Recorded(ids, result) \cup CronRecords(all, rs)
              /\ told' = IF AllOk(rs) THEN "success" ELSE "error"
      /\ UNCHANGED job

-----------------------------------------------------------------------------
(* serverapi: the intent and its packets *)

Planned ==
  /\ stage = "plan"
  /\ IF Refused(Intent) THEN PartEnds(<<>>, "failed") /\ UNCHANGED accepted
     ELSE /\ stage' = IF Publishes(Intent, Parsed(Intent.segs)) THEN "publish" ELSE "send"
          /\ UNCHANGED <<job, part, at, accepted, receipts, results, reported,
                         recorded, window, told>>

\* Images of a Markdown message are published first; if one cannot be,
\* nothing is sent.
Publish(fails) ==
  /\ stage = "publish"
  /\ IF fails THEN PartEnds(<<>>, "failed") /\ UNCHANGED accepted
     ELSE /\ stage' = "send"
          /\ UNCHANGED <<job, part, at, accepted, receipts, results, reported,
                         recorded, window, told>>

\* The loop over the packets: it stops at the first that fails.
AfterRefusal == PartEnds(receipts, "failed")

Sendable == Acceptable(Packet, Quotes(Intent, at)) /\ ~Spoiled(Intent, Packet)

Deliver ==
  /\ stage = "send"
  /\ Sendable
  /\ accepted' = Append(accepted, Id(part, at))
  /\ LET ids == Append(receipts, Id(part, at))
     IN  IF at = Len(Plan(Intent)) THEN PartEnds(ids, "ok")
         ELSE /\ at' = at + 1 /\ receipts' = ids
              /\ UNCHANGED <<job, part, stage, results, reported, recorded,
                             window, told>>

\* Refused by the plugin's own check or by the platform.
Refuse ==
  /\ stage = "send"
  /\ AfterRefusal
  /\ UNCHANGED accepted

\* The platform takes it and the answer is lost: the call raises, and the
\* exception becomes a failed result without an id.
Lose ==
  /\ stage = "send"
  /\ Sendable
  /\ accepted' = Append(accepted, Id(part, at))
  /\ PartEnds(receipts, "failed")

SendNext ==
  \/ Planned \/ Deliver \/ Refuse \/ Lose
  \/ \E fails \in BOOLEAN : Publish(fails)

SendSpec == SendInit /\ [][SendNext]_sendVars

-----------------------------------------------------------------------------
(* Properties *)

IntentOf(id) == job.parts[id[1]]
Over == stage = "over"

\* No packet is built that the check before the call refuses: with earlier
\* packets already delivered, that would break off the message in the middle
\* (serverapi.py:679-712, 1401-1569, 1973-2031).
PlanIsAcceptable == stage = "send" => Acceptable(Packet, Quotes(Intent, at))

\* Reference: every segment but the repeated images, and the links, in order; a
\* user gets texts and links together and the images after them.
Content(intent) == DOMAIN Parsed(intent.segs) \cup LinksOf(intent)
Before(intent, i, j) ==
  LET images == Of(Ready(intent), Images) IN
  IF intent.to = "group" \/ intent.links = 0 \/ images = {} THEN i < j
  ELSE j \in images /\ (i \in images => i < j)

\* A plan leaves out nothing of the message and says nothing twice, keeps its
\* order and mentions everybody it should (serverapi.py:1641-1786).
PlanIsComplete ==
  stage = "send" /\ at = 1 =>
    LET packets == Plan(Intent)
        held == [k \in DOMAIN packets |-> Held(packets[k].body)]
        mentions == UNION {Mentioned(packets[k].body) : k \in DOMAIN packets}
    IN  /\ UNION {held[k] : k \in DOMAIN packets} = Content(Intent)
        /\ \A k, l \in DOMAIN packets :
             k < l => \A i \in held[k], j \in held[l] : Before(Intent, i, j)
        /\ \A k \in DOMAIN packets : \A x, y \in packets[k].body :
             x # y => x.of \cap y.of = {}
        /\ Intent.to = "group" =>
             Intent.at \subseteq mentions \/ Everybody \in Intent.at \cap mentions

\* A caller that is told of success has had every packet of every part
\* delivered (bot.py:1503-1630).
SuccessIsComplete ==
  told = "success" =>
    \A p \in DOMAIN job.parts : \A k \in 1 .. Len(Plan(job.parts[p])) :
      \E i \in DOMAIN accepted : accepted[i] = Id(p, k)

\* What is delivered of a part is its beginning: nothing of it goes out after
\* a packet that failed, nothing out of order and nothing twice
\* (serverapi.py:1748-1786).
Precedes(a, b) == a[1] < b[1] \/ (a[1] = b[1] /\ a[2] < b[2])
DeliveredIsPrefix ==
  \A i \in DOMAIN accepted :
    /\ \A j \in 1 .. i - 1 : Precedes(accepted[j], accepted[i])
    /\ accepted[i][2] > 1 =>
         i > 1 /\ accepted[i - 1] = Id(accepted[i][1], accepted[i][2] - 1)

\* A group message with an image that cannot be used is not sent at all, and
\* one without an image for a user is not begun (serverapi.py:1488-1500).
NothingOfUnusable ==
  \A i \in DOMAIN accepted :
    LET intent == IntentOf(accepted[i])
    IN  /\ ~Refused(intent)
        /\ intent.to = "group" => ~Has(Ready(intent), {"bad", "spoiled"})

\* A reply quotes its message with the first packet only, and nobody is
\* mentioned twice by one packet (serverapi.py:1738-1746, 784-884).
QuotedAndMentionedOnce ==
  /\ \A i, j \in DOMAIN accepted :
       /\ accepted[i][1] = accepted[j][1]
       /\ Quotes(IntentOf(accepted[i]), accepted[i][2]) > 0
       /\ Quotes(IntentOf(accepted[j]), accepted[j][2]) > 0
       => i = j
  /\ stage = "send" =>
       \A x, y \in Packet.body : x # y => x.at \cap y.at = {}

\* Every packet of a plan is one the platform takes, and the plan as a whole
\* says all of the message and nothing twice.
PacketsAreAcceptable ==
  PlanIsAcceptable /\ PlanIsComplete /\ NothingOfUnusable /\ QuotedAndMentionedOnce

\* The ids the platform reported are in the sent store when the send is over,
\* also those of a send that failed half-way: they can be recalled and their
\* echoes recognised.  The cron sender's are only if all went well
\* (bot.py:1541-1562, 1687-1707, tools.py:1607-1662, standalone.py:200-213).
ReportedIsRecorded ==
  Over /\ (job.caller # "cron" \/ told = "success") => recorded = ToSet(reported)

\* "The result is also persisted to the shared SQLite sent-messages.db so the
\* LIVE adapter (or a later cron run) can find and recall the message by id"
\* (standalone.py:106-109).
CronSendsAreRecallable == Over => ToSet(reported) \subseteq recorded

\* An error is told only of a send of which something was refused or never
\* answered; the follow-up window is opened only by what was delivered.
ErrorIsReal ==
  /\ told = "error" => \E i \in DOMAIN results : results[i] = "failed"
  /\ window => /\ accepted # <<>> /\ job.parts[1].to = "group"
               /\ job.caller \in {"reply", "image"}

\* What a caller is told, what is recorded and what was delivered agree,
\* wherever a send breaks off (bot.py:1503-1707, tools.py:1607-1662).
ToldAsDelivered ==
  SendTypeOK /\ SuccessIsComplete /\ DeliveredIsPrefix /\ ReportedIsRecorded /\ ErrorIsReal
=============================================================================
