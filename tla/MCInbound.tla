------------------------------ MODULE MCInbound ------------------------------
(* The parts of the inbound side, each on its own: in a behaviour one of them  *)
(* moves and the others keep to their first state.                             *)
(* Frames: a message that is forwarded and mentioned, another that competes    *)
(* with it for the deduper's memory, and a frame of every other kind.          *)
(* Follow-ups: two groups, the second with an override, and the messages that  *)
(* tell the branches of evaluate_inbound apart.                                *)
(* Parsing: a message for every way to name, quote or leave out somebody.      *)
(* Webhook: a message, what is none, a challenge and an unreadable body.       *)
EXTENDS MCInboundPipeline, FrameIntake, FollowUpPolicy, MessageParsing, WebhookServer

CONSTANTS forward1, mention1, forward2, directFrame, broken, other, k1, k2, k3
CONSTANTS g2, alice, bob

MCKeyOf ==
  (forward1 :> k1) @@ (mention1 :> k1) @@ (forward2 :> k2) @@ (directFrame :> k3)
    @@ (broken :> k3) @@ (other :> k3)
MCKindOf ==
  (forward1 :> "forward") @@ (mention1 :> "mention") @@ (forward2 :> "forward")
    @@ (directFrame :> "dm") @@ (broken :> "invalid") @@ (other :> "ignored")

MCOverrides == (g2 :> [mode |-> "mention-only", window |-> 2])

Fact(S) == [k \in {"mentioned", "quoted", "watched", "pattern", "others"} |-> k \in S]
From(group, s, S) == [group |-> group, sender |-> s, facts |-> Fact(S)]

MCInbox ==
  {From(group, alice, S) :
     group \in Groups, S \in {{}, {"mentioned"}, {"others"}, {"watched", "others"}}}
    \cup {From(g, bob, {}), From(g, alice, {"pattern"})}

CONSTANTS robot2, f1, n1, n2, n3, n4, n5, n6, n7, n8, n9, n10

Text == Item("TEXT", "words", FALSE)
Blank == Item("TEXT", "blank", FALSE)
NameOf(p) == Item("AT", p, FALSE)
Quote(id, imid) == Item("replyData", id, imid)
Other(type) == Item(type, "content", FALSE)
InGroup(id, from, event, body) ==
  [id |-> id, chat |-> "group", from |-> from, event |-> event, body |-> body]
InPrivate(id, from, body) ==
  [id |-> id, chat |-> "dm", from |-> from, event |-> Absent, body |-> body]
AsMention == "MESSAGE_RECEIVE"
AsForward == "ALL_MESSAGE_FORWARD"

MCAuthorOf == (o1 :> Us) @@ (o2 :> Us) @@ (f1 :> robot2)
MCMessages ==
  {InGroup(n1, alice, AsMention, <<NameOf(Us), Text>>),
   InGroup(n2, alice, AsMention, <<NameOf(robot2), NameOf(Us), Blank>>),
   InGroup(n3, alice, AsForward, <<NameOf(Us), Text>>),
   InGroup(n4, alice, AsForward, <<Quote(o1, TRUE), Quote(f1, FALSE), Text>>),
   InGroup(n5, alice, Absent, <<Quote(o1, FALSE), Quote(f1, TRUE)>>),
   InGroup(n6, alice, AsForward, <<Other("FACE")>>),
   InGroup(n7, alice, AsForward, <<NameOf(bob), Other("FILE")>>),
   InGroup(f1, robot2, AsForward, <<NameOf(Us), Other("IMAGE")>>),
   InGroup(o1, Us, AsForward, <<NameOf(robot2), Text>>),
   InPrivate(o2, Us, <<Text>>),
   InPrivate(n8, alice, <<Quote(o2, FALSE)>>),
   InPrivate(n9, alice, <<Other("IMAGE")>>),
   InPrivate(n10, alice, <<NameOf(bob), Blank>>)}

CONSTANTS hook1, hook2, hook3, hook4

Shape(ct, echo, json, cipher, content) ==
  [ct |-> ct, echo |-> echo, json |-> json, cipher |-> cipher, content |-> content]
MCShapeOf ==
  (hook1 :> Shape("text", "none", "none", "json", TRUE))
    @@ (hook2 :> Shape("form", "none", "object", "xml", FALSE))
    @@ (hook3 :> Shape("form", "unsigned", "none", "none", FALSE))
    @@ (hook4 :> Shape("text", "none", "none", "broken", FALSE))

VARIABLE moves

inboundVars == <<vars, frameVars, policyVars, parsingVars, webhookVars,
                 moves>>

MCInit ==
  /\ moves \in {"pipeline", "frames", "policy", "parsing", "webhook"}
  /\ Init /\ FrameInit /\ PolicyInit /\ ParsingInit /\ WebhookInit
  /\ moves # "pipeline" => botKnows
  /\ moves # "parsing" => transport = "webhook" /\ named

MCNext ==
  /\ UNCHANGED moves
  /\ \/ moves = "pipeline" /\ Next /\ CommandOrQuoteAgain
        /\ UNCHANGED <<frameVars, policyVars, parsingVars, webhookVars>>
     \/ moves = "frames" /\ FrameNext
        /\ UNCHANGED <<vars, policyVars, parsingVars, webhookVars>>
     \/ moves = "policy" /\ PolicyNext
        /\ UNCHANGED <<vars, frameVars, parsingVars, webhookVars>>
     \/ moves = "parsing" /\ ParsingNext
        /\ UNCHANGED <<vars, frameVars, policyVars, webhookVars>>
     \/ moves = "webhook" /\ WebhookNext
        /\ UNCHANGED <<vars, frameVars, policyVars, parsingVars>>

MCSpec == MCInit /\ [][MCNext]_inboundVars
=============================================================================
