---------------------------- MODULE FrameIntake ----------------------------
(***************************************************************************)
(* What WebSocketReceiver does with a data frame (websocket.py): parse it, *)
(* drop the copies of a group message it remembers (_GroupInboundDeduper), *)
(* schedule the handler and acknowledge the frame.                         *)
(*                                                                         *)
(* The platform delivers a frame again until it has seen the ack; an ack   *)
(* can be lost with the connection.  A group message can arrive as a       *)
(* forwarded copy and as a mention, in either order.  The reader handles   *)
(* one frame at a time.                                                    *)
(***************************************************************************)
EXTENDS Integers, FiniteSets, Functions

CONSTANTS
  Frames, Keys,
  KeyOf,         \* transport_dedup_key of a frame
  KindOf,        \* what parse_websocket_payload_text makes of it
  NoFrame,
  Ttl, MaxSize,  \* GROUP_INBOUND_TTL_SECONDS, GROUP_INBOUND_MAX_SIZE
  HandlerFails,  \* whether _handle_data_payload may raise
  MaxClock, MaxDeliveries  \* bounds

GroupKinds == {"forward", "mention"}
FrameKinds == GroupKinds \cup {"dm", "ignored", "invalid"}

ASSUME FrameAssumption ==
  /\ IsFiniteSet(Keys) /\ KeyOf \in [Frames -> Keys]
  /\ KindOf \in [Frames -> FrameKinds]
  /\ NoFrame \notin Frames
  /\ Ttl \in Nat /\ MaxSize \in Nat \ {0}
  /\ HandlerFails \in BOOLEAN
  /\ MaxClock \in Nat /\ MaxDeliveries \in Nat

VARIABLES
  clock,        \* time.time()
  seen,       \* _seen: key -> kind and time of its last arrival
  answering,  \* the frame whose ack is being sent
  acked,      \* the frames whose ack the platform has seen
  deliveries, \* deliveries so far
  scheduled,  \* how often on_message was scheduled for each frame
  failed,     \* history: frames acknowledged although their handler raised
  lastSeen,   \* history: last arrival of each key, NotSeen before the first
  passed      \* history: kinds of a key passed on since it was last forgettable

frameVars == <<clock, seen, answering, acked, deliveries, scheduled, failed, lastSeen, passed>>

NotSeen == -1

FrameTypeOK ==
  /\ clock \in 0 .. MaxClock
  /\ DOMAIN seen \subseteq Keys
  /\ Cardinality(DOMAIN seen) <= MaxSize + 1
  /\ \A k \in DOMAIN seen : seen[k] \in [kind : GroupKinds, at : 0 .. MaxClock]
  /\ answering \in Frames \cup {NoFrame}
  /\ acked \subseteq Frames
  /\ deliveries \in 0 .. MaxDeliveries
  /\ scheduled \in [Frames -> 0 .. MaxDeliveries]
  /\ failed \subseteq Frames
  /\ lastSeen \in [Keys -> {NotSeen} \cup 0 .. MaxClock]
  /\ passed \in [Keys -> SUBSET GroupKinds]

FrameInit ==
  /\ clock = 0
  /\ seen = [k \in {} |-> [kind |-> "forward", at |-> 0]]
  /\ answering = NoFrame
  /\ acked = {} /\ failed = {}
  /\ deliveries = 0
  /\ scheduled = [f \in Frames |-> 0]
  /\ lastSeen = [k \in Keys |-> NotSeen]
  /\ passed = [k \in Keys |-> {}]

-----------------------------------------------------------------------------
(* _GroupInboundDeduper *)

Unexpired == {k \in DOMAIN seen : clock - seen[k].at <= Ttl}

\* What _prune can leave: the newest MaxSize of the unexpired entries (entries of
\* one time may go in any order).
Pruned ==
  LET size == IF Cardinality(Unexpired) > MaxSize THEN MaxSize
              ELSE Cardinality(Unexpired)
  IN  {Restrict(seen, K) : K \in
         {S \in SUBSET Unexpired :
            /\ Cardinality(S) = size
            /\ \A k \in S, j \in Unexpired \ S : seen[j].at <= seen[k].at}}

ShouldSkip_AnyCopy(memory, key, kind) == key \in DOMAIN memory
ShouldSkip(memory, key, kind) ==
  /\ key \in DOMAIN memory
  /\ kind = "forward" \/ memory[key].kind = "mention"

\* Every arrival refreshes the entry; a mention is never forgotten for a forward.
Remembered(memory, key, kind) ==
  LET known == key \in DOMAIN memory /\ memory[key].kind = "mention"
      entry == [kind |-> IF known THEN "mention" ELSE kind, at |-> clock]
  IN  [k \in DOMAIN memory \cup {key} |-> IF k = key THEN entry ELSE memory[k]]

-----------------------------------------------------------------------------
(* _handle_frame_bytes, _handle_data_payload *)

\* May the deduper have forgotten the key?  It may when the last copy is older
\* than the TTL, or as many other keys as it holds came with or after it.
Forgettable(key) ==
  \/ lastSeen[key] = NotSeen
  \/ clock - lastSeen[key] > Ttl
  \/ Cardinality({k \in Keys \ {key} : lastSeen[k] >= lastSeen[key]}) >= MaxSize

Passed(key) == IF Forgettable(key) THEN {} ELSE passed[key]

Schedule(f) == scheduled' = [scheduled EXCEPT ![f] = @ + 1]

\* Only group events pass through the deduper.
Deduped(f) == KindOf[f] \in GroupKinds

GroupFrame(f) ==
  /\ Deduped(f)
  /\ \E memory \in Pruned :
       LET key == KeyOf[f] IN
       /\ seen' = Remembered(memory, key, KindOf[f])
       /\ lastSeen' = [lastSeen EXCEPT ![key] = clock]
       /\ IF ShouldSkip(memory, key, KindOf[f])
          THEN /\ passed' = [passed EXCEPT ![key] = Passed(key)]
               /\ UNCHANGED scheduled
          ELSE /\ passed' = [passed EXCEPT ![key] = Passed(key) \cup {KindOf[f]}]
               /\ Schedule(f)

DirectFrame(f) ==
  /\ KindOf[f] = "dm"
  /\ Schedule(f)
  /\ UNCHANGED <<seen, lastSeen, passed>>

IgnoredFrame(f) ==
  /\ KindOf[f] = "ignored"
  /\ UNCHANGED <<seen, lastSeen, passed, scheduled>>

\* An exception (of the parser, before the deduper is asked) is logged and the
\* frame acknowledged all the same.
Raises(f) ==
  /\ HandlerFails /\ KindOf[f] # "invalid"
  /\ failed' = failed \cup {f}
  /\ UNCHANGED <<seen, lastSeen, passed, scheduled>>

Redelivered(f) ==
  /\ answering = NoFrame
  /\ f \notin acked
  /\ deliveries < MaxDeliveries /\ deliveries' = deliveries + 1

\* _handle_data_payload returns False for an unparsable frame only.
Acknowledges(f) == KindOf[f] # "invalid"

HandleFrame(f) ==
  /\ Redelivered(f)
  /\ answering' = IF Acknowledges(f) THEN f ELSE NoFrame
  /\ \/ /\ GroupFrame(f) \/ DirectFrame(f) \/ IgnoredFrame(f)
        /\ UNCHANGED failed
     \/ Raises(f)
     \/ /\ KindOf[f] = "invalid"
        /\ UNCHANGED <<seen, lastSeen, passed, scheduled, failed>>
  /\ UNCHANGED <<clock, acked>>

\* The ack reaches the platform, or it is lost: the connection is closed already,
\* or breaks under it and is opened anew.
SendAck ==
  /\ answering # NoFrame
  /\ acked' \in {acked, acked \cup {answering}}
  /\ answering' = NoFrame
  /\ UNCHANGED <<clock, seen, deliveries, scheduled, failed, lastSeen, passed>>

ClockTick ==
  /\ clock < MaxClock /\ clock' = clock + 1
  /\ UNCHANGED <<seen, answering, acked, deliveries, scheduled, failed, lastSeen, passed>>

FrameNext == (\E f \in Frames : HandleFrame(f)) \/ SendAck \/ ClockTick

FrameSpec == FrameInit /\ [][FrameNext]_frameVars

-----------------------------------------------------------------------------
(* Properties *)

\* A frame the platform will not send again was passed on, unless it is one the
\* bot ignores or its handler raised: a group message at least as the kind it
\* claims to be, so a mention never hides behind its forwarded copy.
Covers(g, f) ==
  KeyOf[g] = KeyOf[f] /\ KindOf[g] \in {KindOf[f], "mention"} /\ scheduled[g] > 0
AckedIsPassedOn ==
  \A f \in acked \ failed :
    /\ KindOf[f] # "invalid"
    /\ KindOf[f] = "dm" => scheduled[f] > 0
    /\ KindOf[f] \in GroupKinds => \E g \in Frames : Covers(g, f)

\* While a key cannot have been forgotten, redelivery passes each of its kinds on
\* once at most, and no forwarded copy after the mention.
NoCopyPassedTwice ==
  [][\A f \in Frames :
       KindOf[f] \in GroupKinds /\ scheduled'[f] > scheduled[f]
         => Passed(KeyOf[f]) \subseteq IF KindOf[f] = "mention" THEN {"forward"} ELSE {}]_frameVars

\* Between the acknowledgement and the deduper nothing is lost and nothing is
\* passed on twice (websocket.py:254-330, 534-600).
FramesAreHandled == [](FrameTypeOK /\ AckedIsPassedOn) /\ NoCopyPassedTwice
=============================================================================
