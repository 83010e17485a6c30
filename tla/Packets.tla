------------------------------- MODULE Packets -------------------------------
(***************************************************************************)
(* How a send intent becomes the packets the platform accepts              *)
(* (serverapi.py): texts, images and links in the order they were given,   *)
(* mentions and replies, for a group or a user.  The platform takes each   *)
(* of them in some kinds of payload only, and the plugin refuses a payload *)
(* it would not take (_validate_group_structured_semantics).               *)
(*                                                                         *)
(* A segment is a kind at its position; the links have the positions after *)
(* the segments.  What an item of a packet holds is a set of positions, and *)
(* a body is the set of its items, which stand in the order of those.      *)
(***************************************************************************)
EXTENDS Integers, FiniteSets, SequencesExt

\* "plain" and "at" are texts without Markdown, "at" names the member "user"
\* of the group; two images of one path have one kind; "bytes" is a payload
\* handed over in memory, "bad" an image that cannot be loaded and "spoiled"
\* one that cannot be converted.
Texts == {"plain", "at", "md"}
Paths == {"one", "two", "bad", "spoiled"}
Images == Paths \cup {"bytes"}
Everybody == "all"

\* at: whom the intent mentions; reply: how many messages it quotes; valid:
\* formats, links, quotes, mentions and MEDIA directives are well-formed;
\* known: the member list can be had.
IsIntent(intent) ==
  /\ intent.to \in {"group", "user"} /\ intent.fmt \in {"auto", "text", "markdown"}
  /\ intent.segs \in Seq(Texts \cup Images)
  /\ intent.links \in Nat /\ intent.reply \in Nat

-----------------------------------------------------------------------------
(* Segments *)

\* _parse_message_segments: an image path is sent once.
Parsed(kinds) ==
  LET Repeats(i) == kinds[i] \in Paths /\ \E j \in 1 .. i - 1 : kinds[j] = kinds[i]
  IN  [i \in {j \in DOMAIN kinds : ~Repeats(j)} |-> kinds[i]]

Of(segs, kinds) == {i \in DOMAIN segs : segs[i] \in kinds}
Has(segs, kinds) == Of(segs, kinds) # {}
HasImage(segs) == Has(segs, Images)
LinksOf(intent) == Len(intent.segs) + 1 .. Len(intent.segs) + intent.links

LooksLikeMarkdown(segs) == Has(segs, {"md"})

\* _should_preserve_markdown
ShouldPreserve(intent, segs) ==
  \/ intent.fmt = "markdown" /\ (Has(segs, Texts) \/ intent.links > 0)
  \/ intent.fmt = "auto" /\ LooksLikeMarkdown(segs)

WantsMarkdown(intent, segs) ==
  \/ ShouldPreserve(intent, segs)
  \/ intent.fmt = "markdown" /\ HasImage(segs)

\* _publish_images_as_markdown_segments
Publishes(intent, segs) == HasImage(segs) /\ WantsMarkdown(intent, segs)
Published(segs) ==
  [i \in DOMAIN segs |-> IF segs[i] \in Images THEN "md" ELSE segs[i]]

\* The segments of the packets: after the images were published, if they had to be.
Ready(intent) ==
  LET segs == Parsed(intent.segs)
  IN  IF Publishes(intent, segs) THEN Published(segs) ELSE segs

\* Markdown is one text, links folded into it.
Markdown(intent, segs) == ~HasImage(segs) /\ ShouldPreserve(intent, segs)

-----------------------------------------------------------------------------
(* Group packets *)

\* text: the text a mention was found in, 0 for none.
Item(type, of) == [type |-> type, of |-> of, at |-> {}]
AtItem(at, text) == [type |-> "AT", of |-> {}, at |-> at, text |-> text]
IsAt(item) == item.type = "AT"
IsTextItem(item) == item.type \in {"TEXT", "MD"}

AtItems(at) == {AtItem(who, 0) : who \in {at \cap {Everybody}, at \ {Everybody}} \ {{}}}

Mentioned(body) == UNION {item.at : item \in body}
Held(body) == UNION {item.of : item \in body}

\* _normalize_group_non_md_at_items, _retag_group_text_body_items; the place
\* of the mentions is left out.
NonMdBody(body) ==
  LET Retagged(item) == IF IsTextItem(item) THEN Item("TEXT", item.of) ELSE item
  IN  AtItems(Mentioned(body)) \cup {Retagged(item) : item \in {x \in body : ~IsAt(x)}}

\* _group_md_body_items: one mention item, and one text that names them all.
MdBody_KeepsAts(body) ==
  {item \in body : IsAt(item)} \cup {Item("MD", Held({item \in body : IsTextItem(item)}))}
MdBody(body) ==
  LET at == Mentioned(body)
      merged == IF Everybody \in at THEN {Everybody} ELSE at
  IN  (IF at # {} THEN {AtItem(merged, 0)} ELSE {})
      \cup {Item("MD", Held({item \in body : IsTextItem(item)}))}

Closed(intent, forceText, body) ==
  LET hasImage == \E item \in body : item.type = "IMAGE"
      hasText == \E item \in body : IsTextItem(item)
  IN  IF hasImage THEN [type |-> "IMAGE", body |-> NonMdBody(body)]
      ELSE IF forceText \/ intent.fmt = "text" \/ ~hasText
           THEN [type |-> "TEXT", body |-> NonMdBody(body)]
           ELSE [type |-> "MD", body |-> MdBody(body)]

\* _group_text_body_items: a member named in the text is mentioned.
SegmentItems(intent, segs, i) ==
  IF segs[i] \in Images THEN {Item("IMAGE", {i})}
  ELSE {Item("TEXT", {i})}
       \cup (IF segs[i] = "at" /\ intent.known /\ "user" \notin intent.at
             THEN {AtItem({"user"}, i)} ELSE {})

LinkItems(intent, segs) ==
  LET type == IF Markdown(intent, segs) THEN "TEXT" ELSE "LINK"
  IN  {Item(type, {l}) : l \in LinksOf(intent)}

\* An image closes the packet that has one already.
PacketOf(segs, i) ==
  LET images == Cardinality({j \in Of(segs, Images) : j <= i})
  IN  IF images = 0 THEN 1 ELSE images

Lead == [type |-> "TEXT", body |-> {Item("TEXT", {})}]

ForceText(intent, segs) ==
  (intent.reply > 0 \/ intent.links > 0) /\ ~Markdown(intent, segs)

\* _build_group_packets
GroupBody(intent, segs, k) ==
  (IF k = 1 THEN AtItems(intent.at) ELSE {})
  \cup (UNION {SegmentItems(intent, segs, i) : i \in {j \in DOMAIN segs : PacketOf(segs, j) = k}})
  \cup (IF k = PacketOf(segs, Len(intent.segs)) THEN LinkItems(intent, segs) ELSE {})
GroupPackets(intent, segs) ==
  IF GroupBody(intent, segs, 1) = {} THEN <<>>
  ELSE [k \in 1 .. PacketOf(segs, Len(intent.segs)) |->
          Closed(intent, ForceText(intent, segs), GroupBody(intent, segs, k))]

-----------------------------------------------------------------------------
(* Packets for a user *)

UserPacket(type, of) == [type |-> type, body |-> {Item(type, of)}]

\* The member of S at this place in the order of S.
Nth(S, k) == CHOOSE i \in S : Cardinality({j \in S : j <= i}) = k

\* _build_private_packets
SegmentPacket(intent, segs, i) ==
  IF segs[i] \in Images THEN UserPacket("image", {i})
  ELSE UserPacket(IF intent.fmt = "text" \/ intent.reply > 0 THEN "text" ELSE "markdown", {i})
OneByOne(intent, segs, S) ==
  [k \in 1 .. Cardinality(S) |-> SegmentPacket(intent, segs, Nth(S, k))]
UserPackets(intent, segs) ==
  IF Markdown(intent, segs)
  THEN <<UserPacket("markdown", DOMAIN segs \cup LinksOf(intent))>>
  ELSE IF intent.links = 0 THEN OneByOne(intent, segs, DOMAIN segs)
  ELSE <<UserPacket("richtext", Of(segs, Texts) \cup LinksOf(intent))>>
       \o OneByOne(intent, segs, Of(segs, Images))

UserLead == UserPacket("text", {})

-----------------------------------------------------------------------------
(* The whole plan *)

Empty(intent) ==
  /\ intent.segs = <<>> /\ intent.links = 0 /\ intent.reply = 0
  /\ intent.to = "group" => intent.at = {}

\* Images are read before anything is sent, and a group's converted as well.
Unusable(intent) == IF intent.to = "group" THEN {"bad", "spoiled"} ELSE {"bad"}

Refused(intent) ==
  \/ ~intent.valid \/ Empty(intent)
  \/ Has(Ready(intent), Unusable(intent))

\* send_group_message_intent, send_private_message_intent
PacketsOf(intent) ==
  IF intent.to = "group" THEN GroupPackets(intent, Ready(intent))
  ELSE UserPackets(intent, Ready(intent))
Plan(intent) ==
  LET packets == PacketsOf(intent)
      lead == IF intent.to = "group" THEN Lead ELSE UserLead
  IN  IF intent.reply > 0 /\ (packets = <<>> \/ Markdown(intent, Ready(intent)))
      THEN <<lead>> \o packets ELSE packets

\* The targets quoted by the packet at position k.
Quotes(intent, k) ==
  IF k > 1 THEN 0
  ELSE IF intent.to = "group" /\ intent.reply > 1 THEN 1 ELSE intent.reply

\* _validate_group_structured_semantics, send_private_structured
Count(body, type) == Cardinality({item \in body : item.type = type})
Types(body) == {item.type : item \in body}

Acceptable(packet, quotes) ==
  LET types == Types(packet.body) IN
  /\ packet.body # {}
  /\ packet.type = "MD" =>
       /\ quotes = 0 /\ types \subseteq {"AT", "MD"}
       /\ Count(packet.body, "MD") = 1 /\ Count(packet.body, "AT") <= 1
  /\ packet.type = "TEXT" => types \subseteq {"TEXT", "AT", "LINK"}
  /\ packet.type = "IMAGE" =>
       types \subseteq {"TEXT", "AT", "LINK", "IMAGE"} /\ "IMAGE" \in types
  /\ packet.type = "markdown" => quotes = 0 /\ Held(packet.body) # {}
  /\ packet.type = "text" => quotes > 0 \/ Held(packet.body) # {}
  /\ packet.type = "richtext" => Held(packet.body) # {}
=============================================================================
