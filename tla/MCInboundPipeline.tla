------------------------- MODULE MCInboundPipeline -------------------------
(* One group: a mention that arrives as both events, a quote of the bot    *)
(* that arrives twice, and a reply in two chunks with the echoes of both.  *)
EXTENDS InboundPipeline, TLC

CONSTANTS mention, quote, dm, o1, o2, r1, g

MCBase == [mode |-> "mention-and-watch", followUp |-> TRUE, window |-> 1, watch |-> TRUE]
NoOverrides == [x \in {} |-> MCBase]

Quiet == [watched |-> FALSE, pattern |-> FALSE, others |-> FALSE]
MCPlain == [m \in Foreign |-> Quiet]
MCQuoting == [m \in Foreign \cap {quote} |-> o1]
MCChunks == [r \in Replies |-> <<o1, o2>>]

Copy(m, e, n) == [id |-> m, event |-> e, no |-> n]
Receive(m, n) == Copy(m, "MESSAGE_RECEIVE", n)
Forward(m, n) == Copy(m, "ALL_MESSAGE_FORWARD", n)

\* What the platform delivers, in any order.
MentionQuoteAndEchoes ==
  {Receive(mention, 1), Forward(mention, 1), Forward(quote, 1), Forward(quote, 2),
   Copy(dm, "", 1), Forward(o1, 1), Forward(o2, 1)}
MentionTwice == {Receive(mention, 1), Forward(mention, 1)}

\* The command and the second copy of the quote do not both come.
CommandOrQuoteAgain ==
  \E c \in {Copy(dm, "", 1), Forward(quote, 2)} : task'[c].st = "idle"
=============================================================================
