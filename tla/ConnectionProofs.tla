-------------------------- MODULE ConnectionProofs --------------------------
(***************************************************************************)
(* Theorems about WebSocketReceiver and AdapterConnection for any bounds   *)
(* and any limit the endpoint sets, wherever connecting, disconnecting,    *)
(* the reconnect loop and the tool meet.                                   *)
(***************************************************************************)
EXTENDS AdapterConnection, FiniteSetTheorems, TLAPS

(* WebSocketReceiver: one connection, and nothing left of it *)

Resting == startPc = "idle" /\ stopPc = "idle" /\ loop = "none"

\* The types of the receiver's variables, one by one.
ReceiverTypes ==
  /\ stopped \in BOOLEAN /\ hasTask \in BOOLEAN /\ hasSession \in BOOLEAN
  /\ cancelled \in BOOLEAN /\ giveUp \in BOOLEAN
  /\ ws \in Nat /\ generation \in Nat /\ hbTask \in Nat
  /\ open \subseteq Nat \ {None} /\ hbLive \subseteq Nat \ {None}
  /\ startPc \in {"idle"} \cup Connecting
  /\ stopPc \in {"idle", "heartbeat", "join", "close"}
  /\ loop \in LoopPoints
  /\ attempts \in Nat
  /\ limit \in Limits \cup {Unlimited}
  /\ local \in [Callers -> Nat] /\ joining \in [Callers -> Nat]
  /\ closing \in [Callers -> Nat]
  /\ faults \in 0 .. MaxFaults /\ starts \in 0 .. MaxStarts

\* Who runs: start() ends before the loop begins, stop() has said so to
\* everyone, and a cancellation waits for the loop that stop() joins.
WhoRuns ==
  /\ startPc # "idle" => loop = "none"
  /\ startPc = "idle" /\ loop = "none" => stopped
  /\ stopPc # "idle" => stopped
  /\ cancelled => loop # "none" /\ stopPc = "join"

\* A connection that is being made or read is the newest.
Newest ==
  /\ generation <= starts + faults
  /\ startPc = "handshake" => local["start"] = generation /\ generation > 0
  /\ loop = "handshake" => local["loop"] = generation /\ generation > 0
  /\ loop \in {"created", "reading", "answering"} => generation > 0
  /\ loop \in {"reading", "answering"} => local["loop"] = generation
  /\ \A c \in Callers : local[c] <= generation

\* A round that goes on has a failure behind it that no attempt and no
\* generation stands for yet.
Unspent ==
  /\ startPc = "endpoint" \/ loop \in {"endpoint", "sleep"}
       \/ (loop \in {"heartbeat", "close"} /\ ~stopped)
     => generation < starts + faults
  /\ attempts <= faults
  /\ loop \in {"heartbeat", "close"} /\ ~stopped => attempts < faults

\* The socket is the current one or being closed, never two of these.
Sockets ==
  /\ open \subseteq {ws, closing["stop"], closing["loop"]}
  /\ closing["start"] = None
  /\ stopPc # "close" => closing["stop"] = None
  /\ loop \notin {"close", "endClose"} => closing["loop"] = None
  /\ closing["stop"] # None => loop = "none" /\ startPc = "idle" /\ ws = None
  /\ closing["loop"] # None => ws = None
  /\ ws # None =>
       \/ loop \in {"created", "reading", "answering", "heartbeat", "endHeartbeat"}
       \/ loop = "none" /\ stopPc = "join" /\ startPc = "idle"
  /\ loop = "created" => ws \in open
  /\ ws <= generation /\ \A c \in Callers : closing[c] <= generation

\* The heartbeat is the current one or being joined, never two of these.
Heartbeats ==
  /\ hbLive \subseteq {hbTask, joining["stop"], joining["loop"]}
  /\ joining["start"] = None
  /\ stopPc # "heartbeat" => joining["stop"] = None
  /\ loop \notin {"heartbeat", "endHeartbeat"} => joining["loop"] = None
  /\ hbTask # None => /\ ~stopped /\ loop \in {"created", "reading", "answering"}
                      /\ joining["stop"] = None /\ joining["loop"] = None
  /\ joining["stop"] # None => joining["loop"] = None
  /\ hbTask <= generation /\ \A c \in Callers : joining[c] <= generation

\* The inductive invariant of the receiver.
ReceiverInv ==
  ReceiverTypes /\ WhoRuns /\ Newest /\ Unspent /\ Sockets /\ Heartbeats

(* AdapterConnection: what the adapter holds *)

\* The session that is in use or was taken away by the tool.
Held == IF saved = NotTaken THEN session ELSE saved

\* What the adapter says follows from where the two calls are.
SaysWhatItDid ==
  /\ cleanup = running
  /\ connectPc # "idle" => ~connected
  /\ connected /\ ~overlapped /\ ~gaveUp /\ disconnectPc = "idle" =>
       running /\ ~stopped

\* Without an overlap a stopped receiver has no loop any more.
StopsWithoutOverlap ==
  ~overlapped =>
    /\ disconnectPc # "idle" => connectPc = "idle"
    /\ stopped /\ stopPc \in {"idle", "close"} => loop = "none"
    /\ startPc # "idle" => ~stopped
    /\ disconnectPc = "closing" => loop = "none"
    /\ ~connected => loop = "none"

\* Without a tool in between there is one session at most, from connect() until
\* it is closed by whoever closes it.
SessionIsHeld ==
  ~crossed =>
    /\ openSessions \subseteq {Held}
    /\ Held # NoSession => connected \/ connectPc # "idle"
    /\ connectPc = "closing" =>
         saved = NotTaken /\ session \in {NoSession, closes["connect"]}
    /\ disconnectPc = "closing" =>
         saved = NotTaken /\ session \in {NoSession, closes["disconnect"]}

\* The inductive invariant of the adapter.
AdapterInv ==
  /\ ReceiverInv /\ AdapterTypeOK /\ SaysWhatItDid /\ StopsWithoutOverlap
  /\ SessionIsHeld
LEMMA ReceiverBounds == MaxFaults \in Nat /\ MaxStarts \in Nat /\ Limits \subseteq Int
BY WebSocketAssumption DEF Unlimited

LEMMA StartCallInv ==
  ASSUME ReceiverInv, StartCall
  PROVE  ReceiverInv'
<1> USE ReceiverBounds DEF ReceiverInv, StartCall, IsRunning,
           ReceiverTypes, Connecting, LoopPoints, Callers, None
<1>1. ReceiverTypes'
  <2>1. starts' \in 0 .. MaxStarts
    OBVIOUS
  <2> QED BY <2>1
<1>2. WhoRuns'
  BY DEF WhoRuns
<1>3. Newest'
  BY DEF Newest
<1>4. Unspent'
  BY DEF WhoRuns, Newest, Unspent
<1>5. Sockets'
  BY DEF Sockets
<1>6. Heartbeats'
  BY DEF Heartbeats
<1> QED BY <1>1, <1>2, <1>3, <1>4, <1>5, <1>6

LEMMA StartEndpointInv ==
  ASSUME ReceiverInv, StartEndpoint
  PROVE  ReceiverInv'
<1> USE ReceiverBounds DEF ReceiverInv, StartEndpoint, ConnectBegins,
           ReceiverTypes, Connecting, LoopPoints, Callers, None
<1>1. ReceiverTypes'
  OBVIOUS
<1>2. WhoRuns'
  BY DEF WhoRuns
<1>3. Newest'
  BY DEF WhoRuns, Newest, Unspent, Sockets, Heartbeats
<1>4. Unspent'
  BY DEF WhoRuns, Unspent
<1>5. Sockets'
  BY DEF Sockets
<1>6. Heartbeats'
  BY DEF Heartbeats
<1> QED BY <1>1, <1>2, <1>3, <1>4, <1>5, <1>6

LEMMA StartFailsInv ==
  ASSUME ReceiverInv, StartFails
  PROVE  ReceiverInv'
<1> USE ReceiverBounds DEF ReceiverInv, StartFails, Fault,
           ReceiverTypes, Connecting, LoopPoints, Callers, None
<1>1. ReceiverTypes'
  <2>1. faults' \in 0 .. MaxFaults
    OBVIOUS
  <2> QED BY <2>1
<1>2. WhoRuns'
  BY DEF WhoRuns
<1>3. Newest'
  BY DEF Newest
<1>4. Unspent'
  BY DEF Unspent
<1>5. Sockets'
  BY DEF Sockets
<1>6. Heartbeats'
  BY DEF WhoRuns, Heartbeats
<1> QED BY <1>1, <1>2, <1>3, <1>4, <1>5, <1>6

LEMMA StartConnectedInv ==
  ASSUME ReceiverInv, StartConnected
  PROVE  ReceiverInv'
<1> USE ReceiverBounds DEF ReceiverInv, StartConnected, ConnectOpens, StartsHeartbeat,
           ReceiverTypes, Connecting, LoopPoints, Callers, None
<1>1. ReceiverTypes'
  <2>1. local["start"] \in Nat \ {None}
    BY DEF Newest
  <2>2. /\ open' \subseteq Nat \ {None} /\ hbLive' \subseteq Nat \ {None}
        /\ hbTask' \in Nat /\ ws' \in Nat
    BY <2>1
  <2> QED BY <2>1, <2>2
<1>2. WhoRuns'
  BY DEF WhoRuns
<1>3. Newest'
  BY DEF Newest
<1>4. Unspent'
  BY DEF Unspent
<1>5. Sockets'
  BY DEF WhoRuns, Newest, Sockets
<1>6. Heartbeats'
  BY DEF WhoRuns, Newest, Heartbeats
<1> QED BY <1>1, <1>2, <1>3, <1>4, <1>5, <1>6

LEMMA StopCallInv ==
  ASSUME ReceiverInv, StopCall
  PROVE  ReceiverInv'
<1> USE ReceiverBounds DEF ReceiverInv, StopCall, StopHeartbeat,
           ReceiverTypes, Connecting, LoopPoints, Callers, None
<1>1. ReceiverTypes'
  OBVIOUS
<1>2. WhoRuns'
  BY DEF WhoRuns
<1>3. Newest'
  BY DEF Newest
<1>4. Unspent'
  BY DEF Unspent
<1>5. Sockets'
  BY DEF Sockets
<1>6. Heartbeats'
  BY DEF Heartbeats
<1> QED BY <1>1, <1>2, <1>3, <1>4, <1>5, <1>6

LEMMA StopCancelsLoopInv ==
  ASSUME ReceiverInv, StopCancelsLoop
  PROVE  ReceiverInv'
<1> USE ReceiverBounds DEF ReceiverInv, StopCancelsLoop, HeartbeatJoined, CancelsLoop,
           ReceiverTypes, Connecting, LoopPoints, Callers, None
<1>1. ReceiverTypes'
  OBVIOUS
<1>2. WhoRuns'
  BY DEF WhoRuns
<1>3. Newest'
  BY DEF Newest
<1>4. Unspent'
  BY DEF Unspent
<1>5. Sockets'
  BY DEF Sockets
<1>6. Heartbeats'
  BY DEF Heartbeats
<1> QED BY <1>1, <1>2, <1>3, <1>4, <1>5, <1>6

LEMMA StopJoinedInv ==
  ASSUME ReceiverInv, StopJoined
  PROVE  ReceiverInv'
<1> USE ReceiverBounds DEF ReceiverInv, StopJoined, CloseWs,
           ReceiverTypes, Connecting, LoopPoints, Callers, None
<1>1. ReceiverTypes'
  OBVIOUS
<1>2. WhoRuns'
  BY DEF WhoRuns
<1>3. Newest'
  BY DEF Newest
<1>4. Unspent'
  BY DEF Unspent
<1>5. Sockets'
  BY DEF Sockets
<1>6. Heartbeats'
  BY DEF Heartbeats
<1> QED BY <1>1, <1>2, <1>3, <1>4, <1>5, <1>6

LEMMA StopReturnsInv ==
  ASSUME ReceiverInv, StopReturns
  PROVE  ReceiverInv'
<1> USE ReceiverBounds DEF ReceiverInv, StopReturns, WsClosed,
           ReceiverTypes, Connecting, LoopPoints, Callers, None
<1>1. ReceiverTypes'
  <2>1. /\ open' \subseteq open /\ stopPc' = "idle" /\ hasSession' = FALSE
        /\ closing' \in [Callers -> Nat]
    OBVIOUS
  <2>2. UNCHANGED <<stopped, hasTask, ws, generation, hbTask, hbLive, startPc, loop,
                    cancelled, attempts, limit, giveUp, local, joining, faults, starts>>
    OBVIOUS
  <2> QED BY ONLY ZenonT(30), <2>1, <2>2, ReceiverTypes DEF ReceiverTypes
<1>2. WhoRuns'
  BY DEF WhoRuns
<1>3. Newest'
  BY DEF Newest
<1>4. Unspent'
  BY DEF Unspent
<1>5. Sockets'
  BY DEF Sockets
<1>6. Heartbeats'
  BY DEF Heartbeats
<1> QED BY <1>1, <1>2, <1>3, <1>4, <1>5, <1>6

LEMMA LoopRoundInv ==
  ASSUME ReceiverInv, LoopRound
  PROVE  ReceiverInv'
<1> USE ReceiverBounds DEF ReceiverInv, LoopRound, GoesOn, NextRound, LeaveLoop,
           StopHeartbeat, KeepsLimit, LoopOnly,
           ReceiverTypes, Connecting, LoopPoints, Callers, None
<1>1. ReceiverTypes'
  <2>1. /\ hbTask' \in Nat /\ giveUp' \in BOOLEAN
        /\ loop' \in {"endpoint", "reading", "endHeartbeat"}
    <3>1. CASE stopped
      <4>1. /\ hbTask' = 0 /\ giveUp' = giveUp /\ loop' = "endHeartbeat"
        BY <3>1
      <4> QED BY ONLY <4>1, ReceiverTypes DEF ReceiverTypes
    <3>2. CASE ~stopped
      <4>1. /\ hbTask' = hbTask /\ giveUp' = FALSE /\ loop' \in {"endpoint", "reading"}
        BY <3>2
      <4> QED BY ONLY <4>1, ReceiverTypes DEF ReceiverTypes
    <3> QED BY <3>1, <3>2
  <2>2. local' \in [Callers -> Nat] /\ joining' \in [Callers -> Nat]
    <3>1. CASE ~stopped /\ ws \notin open
      BY <3>1
    <3>2. CASE ~stopped /\ ws \in open
      <4>1. local' = [local EXCEPT !["loop"] = generation] /\ joining' = joining
        BY <3>2
      <4> QED BY ONLY <4>1, ReceiverTypes DEF ReceiverTypes, Callers
    <3>3. CASE stopped
      <4>1. /\ local' = local
            /\ joining' = [joining EXCEPT !["loop"] = IF hbTask \in hbLive THEN hbTask ELSE None]
        BY <3>3
      <4> QED BY ONLY <4>1, ReceiverTypes DEF ReceiverTypes, Callers, None
    <3> QED BY <3>1, <3>2, <3>3
  <2>3. UNCHANGED <<stopped, hasTask, hasSession, ws, open, generation, hbLive, startPc,
                    stopPc, cancelled, attempts, limit, closing, faults, starts>>
    OBVIOUS
  <2> QED BY ONLY <2>1, <2>2, <2>3, ReceiverTypes DEF ReceiverTypes, LoopPoints
<1>2. WhoRuns'
  BY DEF WhoRuns
<1>3. Newest'
  BY DEF WhoRuns, Newest, Sockets
<1>4. Unspent'
  BY DEF WhoRuns, Unspent, Sockets
<1>5. Sockets'
  BY DEF Sockets
<1>6. Heartbeats'
  BY DEF WhoRuns, Sockets, Heartbeats
<1> QED BY <1>1, <1>2, <1>3, <1>4, <1>5, <1>6

LEMMA LoopEndpointInv ==
  ASSUME ReceiverInv, LoopEndpoint
  PROVE  ReceiverInv'
<1> USE ReceiverBounds DEF ReceiverInv, LoopEndpoint, ConnectBegins, LoopOnly,
           ReceiverTypes, Connecting, LoopPoints, Callers, None
<1>1. ReceiverTypes'
  OBVIOUS
<1>2. WhoRuns'
  BY DEF WhoRuns
<1>3. Newest'
  BY DEF WhoRuns, Newest, Unspent, Sockets, Heartbeats
<1>4. Unspent'
  BY DEF WhoRuns, Unspent
<1>5. Sockets'
  BY DEF Sockets
<1>6. Heartbeats'
  BY DEF Heartbeats
<1> QED BY <1>1, <1>2, <1>3, <1>4, <1>5, <1>6

LEMMA LoopConnectedInv ==
  ASSUME ReceiverInv, LoopConnected
  PROVE  ReceiverInv'
<1> USE ReceiverBounds DEF ReceiverInv, LoopConnected, ConnectOpens, StartsHeartbeat,
           KeepsLimit, LoopOnly,
           ReceiverTypes, Connecting, LoopPoints, Callers, None
<1>1. ReceiverTypes'
  <2>1. local["loop"] \in Nat \ {None}
    BY DEF Newest
  <2>2. /\ open' \subseteq Nat \ {None} /\ hbLive' \subseteq Nat \ {None}
        /\ hbTask' \in Nat /\ ws' \in Nat
    BY <2>1
  <2>3. local' \in [Callers -> Nat]
    BY <2>2
  <2> QED BY <2>1, <2>2, <2>3
<1>2. WhoRuns'
  BY DEF WhoRuns
<1>3. Newest'
  BY DEF Newest
<1>4. Unspent'
  BY DEF Unspent
<1>5. Sockets'
  BY DEF WhoRuns, Newest, Sockets
<1>6. Heartbeats'
  BY DEF WhoRuns, Newest, Heartbeats
<1> QED BY <1>1, <1>2, <1>3, <1>4, <1>5, <1>6

LEMMA LoopConnectFailsInv ==
  ASSUME ReceiverInv, LoopConnectFails
  PROVE  ReceiverInv'
<1> USE ReceiverBounds DEF ReceiverInv, LoopConnectFails, Fault, EndRound,
           StopHeartbeat, KeepsLimit, LoopOnly,
           ReceiverTypes, Connecting, LoopPoints, Callers, None
<1>1. ReceiverTypes'
  <2>1. faults' \in 0 .. MaxFaults
    OBVIOUS
  <2>2. joining' \in [Callers -> Nat]
    OBVIOUS
  <2> QED BY <2>1, <2>2
<1>2. WhoRuns'
  BY DEF WhoRuns
<1>3. Newest'
  BY DEF Newest
<1>4. Unspent'
  BY DEF WhoRuns, Newest, Unspent
<1>5. Sockets'
  BY DEF Sockets
<1>6. Heartbeats'
  BY DEF Heartbeats
<1> QED BY <1>1, <1>2, <1>3, <1>4, <1>5, <1>6

LEMMA LoopReadsInv ==
  ASSUME ReceiverInv, LoopReads
  PROVE  ReceiverInv'
<1> USE ReceiverBounds DEF ReceiverInv, LoopReads, EndRound, StopHeartbeat, KeepsLimit,
           LoopOnly,
           ReceiverTypes, Connecting, LoopPoints, Callers, None
<1>1. ReceiverTypes'
  OBVIOUS
<1>2. WhoRuns'
  BY DEF WhoRuns
<1>3. Newest'
  BY DEF Newest
<1>4. Unspent'
  BY DEF WhoRuns, Newest, Unspent
<1>5. Sockets'
  BY DEF Sockets
<1>6. Heartbeats'
  BY DEF Heartbeats
<1> QED BY <1>1, <1>2, <1>3, <1>4, <1>5, <1>6

LEMMA LoopAnsweredInv ==
  ASSUME ReceiverInv, LoopAnswered
  PROVE  ReceiverInv'
<1> USE ReceiverBounds DEF ReceiverInv, LoopAnswered, Fault, EndRound, StopHeartbeat,
           KeepsLimit, LoopOnly,
           ReceiverTypes, Connecting, LoopPoints, Callers, None
<1>1. ReceiverTypes'
  OBVIOUS
<1>2. WhoRuns'
  BY DEF WhoRuns
<1>3. Newest'
  BY DEF Newest
<1>4. Unspent'
  BY DEF WhoRuns, Newest, Unspent
<1>5. Sockets'
  BY DEF Sockets
<1>6. Heartbeats'
  BY DEF Heartbeats
<1> QED BY <1>1, <1>2, <1>3, <1>4, <1>5, <1>6

LEMMA LoopLosesConnectionInv ==
  ASSUME ReceiverInv, LoopLosesConnection
  PROVE  ReceiverInv'
<1>b. UNCHANGED <<stopped, hasTask, hasSession, cancelled, giveUp, ws, generation,
                  hbLive, startPc, stopPc, limit, local, closing, starts>>
  BY DEF LoopLosesConnection, KeepsLimit, LoopOnly
<1>a. hbTask' = None /\ loop' = "heartbeat" /\ open' \subseteq open
  BY DEF LoopLosesConnection, EndRound, StopHeartbeat
<1> USE ReceiverBounds DEF ReceiverInv, LoopLosesConnection, Fault, EndRound,
           StopHeartbeat, KeepsLimit, LoopOnly,
           ReceiverTypes, Connecting, LoopPoints, Callers, None
<1>1. ReceiverTypes'
  <2>1. faults' \in 0 .. MaxFaults
    OBVIOUS
  <2>2. joining' \in [Callers -> Nat] /\ attempts' \in Nat
    OBVIOUS
  <2> QED BY <1>a, <1>b, <2>1, <2>2
<1>2. WhoRuns'
  BY DEF WhoRuns
<1>3. Newest'
  BY DEF Newest
<1>4. Unspent'
  BY DEF WhoRuns, Newest, Unspent
<1>5. Sockets'
  BY DEF Sockets
<1>6. Heartbeats'
  BY DEF Heartbeats
<1> QED BY <1>1, <1>2, <1>3, <1>4, <1>5, <1>6

LEMMA LoopHeartbeatJoinedInv ==
  ASSUME ReceiverInv, LoopHeartbeatJoined
  PROVE  ReceiverInv'
<1> USE ReceiverBounds DEF ReceiverInv, LoopHeartbeatJoined, HeartbeatJoined, CloseWs,
           KeepsLimit, LoopOnly,
           ReceiverTypes, Connecting, LoopPoints, Callers, None
<1>1. ReceiverTypes'
  <2>1. /\ hbLive' \subseteq hbLive /\ ws' = 0 /\ cancelled' = FALSE
        /\ loop' \in {"close", "endClose"}
    OBVIOUS
  <2>2. joining' \in [Callers -> Nat] /\ closing' \in [Callers -> Nat]
    OBVIOUS
  <2>3. UNCHANGED <<stopped, hasTask, hasSession, open, generation, hbTask, startPc,
                    stopPc, attempts, limit, giveUp, local, faults, starts>>
    OBVIOUS
  <2> QED BY ONLY ZenonT(30), <2>1, <2>2, <2>3, ReceiverTypes DEF ReceiverTypes, LoopPoints
<1>2. WhoRuns'
  BY DEF WhoRuns
<1>3. Newest'
  BY DEF Newest
<1>4. Unspent'
  BY DEF Unspent
<1>5. Sockets'
  BY DEF Sockets
<1>6. Heartbeats'
  BY DEF Heartbeats
<1> QED BY <1>1, <1>2, <1>3, <1>4, <1>5, <1>6

LEMMA LoopRetriesInv ==
  ASSUME ReceiverInv, LoopRetries
  PROVE  ReceiverInv'
<1> USE ReceiverBounds DEF ReceiverInv, LoopRetries, WsClosed, Ends, LeaveLoop,
           StopHeartbeat, KeepsLimit, LoopOnly,
           ReceiverTypes, Connecting, LoopPoints, Callers, None
<1>1. ReceiverTypes'
  <2>1. attempts' \in Nat
    OBVIOUS
  <2>2. joining' \in [Callers -> Nat] /\ closing' \in [Callers -> Nat]
    OBVIOUS
  <2> QED BY <2>1, <2>2
<1>2. WhoRuns'
  BY DEF WhoRuns
<1>3. Newest'
  BY DEF Newest
<1>4. Unspent'
  BY DEF Unspent
<1>5. Sockets'
  BY DEF Sockets
<1>6. Heartbeats'
  BY DEF Heartbeats
<1> QED BY <1>1, <1>2, <1>3, <1>4, <1>5, <1>6

LEMMA LoopEndsInv ==
  ASSUME ReceiverInv, LoopEnds
  PROVE  ReceiverInv'
<1> USE ReceiverBounds DEF ReceiverInv, LoopEnds, WsClosed, KeepsLimit, LoopOnly,
           ReceiverTypes, Connecting, LoopPoints, Callers, None
<1>1. ReceiverTypes'
  OBVIOUS
<1>2. WhoRuns'
  BY DEF WhoRuns
<1>3. Newest'
  BY DEF Newest
<1>4. Unspent'
  BY DEF Unspent
<1>5. Sockets'
  BY DEF Sockets
<1>6. Heartbeats'
  BY DEF Heartbeats
<1> QED BY <1>1, <1>2, <1>3, <1>4, <1>5, <1>6

LEMMA LoopCancelledInv ==
  ASSUME ReceiverInv, LoopCancelled
  PROVE  ReceiverInv'
<1> USE ReceiverBounds DEF ReceiverInv, LoopCancelled, WsClosed, KeepsLimit, LoopOnly,
           ReceiverTypes, Connecting, LoopPoints, Callers, None
<1>1. ReceiverTypes'
  OBVIOUS
<1>2. WhoRuns'
  BY DEF WhoRuns
<1>3. Newest'
  BY DEF Newest
<1>4. Unspent'
  BY DEF Unspent
<1>5. Sockets'
  BY DEF WhoRuns, Sockets
<1>6. Heartbeats'
  BY DEF WhoRuns, Heartbeats
<1> QED BY <1>1, <1>2, <1>3, <1>4, <1>5, <1>6

LEMMA HeartbeatEndsInv ==
  ASSUME ReceiverInv, NEW h \in hbLive, HeartbeatEnds(h)
  PROVE  ReceiverInv'
<1> USE ReceiverBounds DEF ReceiverInv, HeartbeatEnds, Fault, ReceiverTypes
<1>1. faults' \in 0 .. MaxFaults
  OBVIOUS
<1>2. ReceiverTypes'
  BY <1>1
<1>3. WhoRuns' /\ Sockets' /\ Heartbeats'
  BY DEF WhoRuns, Sockets, Heartbeats
<1>4. CASE stopped
  BY <1>2, <1>3, <1>4 DEF Newest, Unspent
<1>5. CASE ~stopped
  BY <1>2, <1>3, <1>5 DEF Newest, Unspent
<1> QED BY <1>4, <1>5

-----------------------------------------------------------------------------
(* WebSocketReceiver: the invariant of every behaviour *)

LEMMA ReceiverInitInv == Init => ReceiverInv
<1> SUFFICES ASSUME Init PROVE ReceiverInv
  OBVIOUS
<1> USE ReceiverBounds
    DEF Init, Callers, LoopPoints, Connecting, None
<1>1. ReceiverTypes
  <2>1. /\ local \in [Callers -> Nat] /\ joining \in [Callers -> Nat]
        /\ closing \in [Callers -> Nat]
    OBVIOUS
  <2>2. faults \in 0 .. MaxFaults /\ starts \in 0 .. MaxStarts /\ attempts \in Nat
    OBVIOUS
  <2>3. /\ ws \in Nat /\ generation \in Nat /\ hbTask \in Nat
        /\ open \subseteq Nat \ {None} /\ hbLive \subseteq Nat \ {None}
        /\ startPc \in {"idle"} \cup Connecting
        /\ stopPc \in {"idle", "heartbeat", "join", "close"}
        /\ loop \in LoopPoints /\ limit \in Limits \cup {Unlimited}
        /\ {stopped, hasTask, hasSession, cancelled, giveUp} \subseteq BOOLEAN
    OBVIOUS
  <2> QED BY <2>1, <2>2, <2>3, Zenon DEF ReceiverTypes
<1>2. WhoRuns /\ Newest /\ Unspent
  BY DEF WhoRuns, Newest, Unspent
<1>3. Sockets /\ Heartbeats
  BY DEF Sockets, Heartbeats
<1> QED BY <1>1, <1>2, <1>3 DEF ReceiverInv

LEMMA ReceiverStepInv == ReceiverInv /\ [Next]_vars => ReceiverInv'
<1> SUFFICES ASSUME ReceiverInv, [Next]_vars PROVE ReceiverInv'
  OBVIOUS
<1>1. CASE StartCall \/ StartStep
  BY <1>1, StartCallInv, StartEndpointInv, StartFailsInv, StartConnectedInv
     DEF StartStep
<1>2. CASE StopCall \/ StopStep
  BY <1>2, StopCallInv, StopCancelsLoopInv, StopJoinedInv, StopReturnsInv DEF StopStep
<1>3. CASE ConnectStep
  BY <1>3, LoopEndpointInv, LoopConnectedInv, LoopConnectFailsInv DEF ConnectStep
<1>4. CASE LoopStep
  BY <1>4, LoopRoundInv, LoopAnsweredInv, LoopHeartbeatJoinedInv, LoopRetriesInv,
     LoopEndsInv, LoopCancelledInv DEF LoopStep
<1>5. CASE LoopReads \/ LoopLosesConnection
  BY <1>5, LoopReadsInv, LoopLosesConnectionInv
<1>6. CASE \E h \in hbLive : HeartbeatEnds(h)
  BY <1>6, HeartbeatEndsInv
<1>7. CASE UNCHANGED vars
  BY <1>7 DEF vars, ReceiverInv, ReceiverTypes, WhoRuns, Newest, Unspent, Sockets,
              Heartbeats
<1> QED BY <1>1, <1>2, <1>3, <1>4, <1>5, <1>6, <1>7 DEF Next

LEMMA ReceiverInvariance == Spec => []ReceiverInv
BY ReceiverInitInv, ReceiverStepInv, PTL DEF Spec

\* A set with no two different elements has at most one.
LEMMA AtMostOne ==
  ASSUME NEW S, \A x, y \in S : x = y
  PROVE  Cardinality(S) <= 1
<1>1. CASE S = {}
  BY <1>1, FS_EmptySet
<1>2. CASE S # {}
  <2>1. PICK x \in S : S = {x}
    BY <1>2
  <2> QED BY <2>1, FS_Singleton
<1> QED BY <1>1, <1>2

LEMMA ReceiverTypeCorrect == ASSUME ReceiverInv PROVE TypeOK
<1> USE ReceiverBounds
<1>1. ReceiverTypes /\ Newest /\ Unspent /\ Sockets /\ Heartbeats
  BY DEF ReceiverInv
<1>2. generation \in Ids /\ attempts \in 0 .. faults
  BY <1>1 DEF ReceiverTypes, Newest, Unspent, Ids
<1>3. ws \in Ids /\ hbTask \in Ids
  BY <1>1, <1>2 DEF ReceiverTypes, Sockets, Heartbeats, Ids
<1>4. \A c \in Callers : local[c] \in Ids /\ joining[c] \in Ids /\ closing[c] \in Ids
  BY <1>1, <1>2 DEF ReceiverTypes, Newest, Sockets, Heartbeats, Ids
<1>5. /\ local \in [Callers -> Ids] /\ joining \in [Callers -> Ids]
      /\ closing \in [Callers -> Ids]
  BY <1>1, <1>4 DEF ReceiverTypes
<1>6. open \subseteq Ids \ {None} /\ hbLive \subseteq Ids \ {None}
  BY <1>1, <1>3, <1>4 DEF ReceiverTypes, Sockets, Heartbeats, Callers
<1> QED BY <1>1, <1>2, <1>3, <1>5, <1>6 DEF ReceiverTypes, TypeOK

\* However start(), stop() and the reconnect loop meet, there is one socket and
\* one heartbeat task at most, and a receiver that stopped has neither.
LEMMA ReceiverHolds == ASSUME ReceiverInv PROVE StoppedLeavesNothing /\ OneConnection
<1> USE DEF ReceiverInv, ReceiverTypes, None
<1>1. StoppedLeavesNothing
  BY DEF StoppedLeavesNothing, Sockets, Heartbeats
<1>2. \A x, y \in open : x = y
  BY DEF Sockets
<1>3. \A x, y \in hbLive : x = y
  BY DEF Heartbeats
<1> QED BY <1>1, <1>2, <1>3, AtMostOne DEF OneConnection

\* From a stop() on no heartbeat begins and nobody asks for a new endpoint.
THEOREM StopIsFinal == Spec => StopWins
<1>1. [Next]_vars => [stopped /\ stopped' =>
                        /\ hbLive' \subseteq hbLive
                        /\ loop' = "endpoint" => loop = "endpoint"]_vars
  <2> SUFFICES ASSUME Next, stopped, stopped'
               PROVE  /\ hbLive' \subseteq hbLive
                      /\ loop' = "endpoint" => loop = "endpoint"
    OBVIOUS
  <2>1. CASE StartCall \/ StartStep
    BY <2>1 DEF StartCall, StartStep, StartEndpoint, StartFails, StartConnected,
                ConnectOpens, StartsHeartbeat
  <2>2. CASE StopCall \/ StopStep
    BY <2>2 DEF StopCall, StopStep, StopCancelsLoop, StopJoined, StopReturns,
                HeartbeatJoined
  <2>3. CASE ConnectStep
    BY <2>3 DEF ConnectStep, LoopEndpoint, LoopConnected, LoopConnectFails,
                ConnectOpens, StartsHeartbeat, EndRound
  <2>4. CASE LoopStep
    BY <2>4 DEF LoopStep, LoopRound, LoopAnswered, LoopHeartbeatJoined, LoopRetries,
                LoopEnds, LoopCancelled, GoesOn, LeaveLoop, EndRound, HeartbeatJoined
  <2>5. CASE LoopReads \/ LoopLosesConnection \/ \E h \in hbLive : HeartbeatEnds(h)
    BY <2>5 DEF LoopReads, LoopLosesConnection, HeartbeatEnds, EndRound
  <2> QED BY <2>1, <2>2, <2>3, <2>4, <2>5 DEF Next
<1> QED BY <1>1, PTL DEF Spec, StopWins
-----------------------------------------------------------------------------
(* AdapterConnection: the adapter and its receiver *)

\* The steps of the receiver that the adapter does not see leave alone what the
\* adapter goes by: no start or stop begins or ends, and no loop begins.
LEMMA UnseenStep ==
  ASSUME ReceiverInv, ReceiverStep \/ Traffic
  PROVE  /\ starts' = starts /\ stopped' = stopped
         /\ startPc' = "idle" <=> startPc = "idle"
         /\ stopPc' = "idle" <=> stopPc = "idle"
         /\ loop = "none" => loop' = "none"
         /\ stopPc' = "close" => stopPc = "close" \/ loop' = "none"
<1> USE DEF KeepsLimit, LoopOnly
<1>1. CASE StartEndpoint \/ StopCancelsLoop \/ StopJoined
  BY <1>1 DEF StartEndpoint, StopCancelsLoop, StopJoined
<1>2. CASE ConnectStep
  BY <1>2 DEF ConnectStep, LoopEndpoint, LoopConnected, LoopConnectFails, Connecting
<1>3. CASE LoopRound \/ LoopAnswered \/ LoopHeartbeatJoined \/ LoopRetries \/ LoopCancelled
  BY <1>3 DEF LoopRound, LoopAnswered, LoopHeartbeatJoined, LoopRetries, LoopCancelled
<1>4. CASE Traffic
  BY <1>4 DEF Traffic, LoopReads, LoopLosesConnection, HeartbeatEnds
<1> QED BY <1>1, <1>2, <1>3, <1>4 DEF ReceiverStep

\* Every step of the adapter is a step of its receiver or leaves it alone.
LEMMA AdapterStepsReceiver == [AdapterNext]_allVars => [Next]_vars
<1> SUFFICES ASSUME [AdapterNext]_allVars PROVE [Next]_vars
  OBVIOUS
<1>1. CASE UNCHANGED allVars
  BY <1>1 DEF allVars
<1>2. CASE ConnectCall \/ DisconnectCall \/ ToolTakes
  BY <1>2 DEF ConnectCall, DisconnectCall, ToolTakes, Next
<1>3. CASE AdapterStep
  BY <1>3 DEF AdapterStep, ConnectReturns, ConnectFails, ConnectFailed, DisconnectStops,
              ReceiverStopped, Disconnected, ReceiverGivesUp, ToolRestores, Next,
              StartStep, StopStep, LoopStep
<1>4. CASE ReceiverStep \/ Traffic
  BY <1>4 DEF ReceiverStep, Traffic, Next, StartStep, StopStep, LoopStep
<1> QED BY <1>1, <1>2, <1>3, <1>4 DEF AdapterNext

\* The adapter uses the receiver as WebSocketReceiver describes it, so what holds
\* for that holds under the adapter.
THEOREM ImplementsReceiver == AdapterSpec => Spec
<1>1. AdapterInit => Init
  BY DEF AdapterInit
<1> QED BY <1>1, AdapterStepsReceiver, PTL DEF AdapterSpec, Spec

(* AdapterConnection: the steps *)

LEMMA ConnectCallInv ==
  ASSUME AdapterInv, ReceiverInv', ConnectCall
  PROVE  AdapterInv'
<1> USE ReceiverBounds DEF AdapterInv, ReceiverInv, ConnectCall, StartCall, Crosses,
           NoSession, NotTaken
<1>1. AdapterTypeOK'
  <2>1. starts \in Nat /\ starts' = starts + 1
    BY DEF ReceiverTypes
  <2>2. PICK n \in Nat : n = starts'
    BY <2>1
  <2>3. 1 .. starts \subseteq 1 .. n /\ 0 .. starts \subseteq 0 .. n /\ n \in 1 .. n
    BY <2>1, <2>2
  <2>4. /\ session' \in {NoSession} \cup 1 .. n
        /\ openSessions' \subseteq 1 .. n
        /\ closes' \in [{"connect", "disconnect"} -> 0 .. n]
        /\ saved' \in {NotTaken, NoSession} \cup 1 .. n
    BY <2>2, <2>3 DEF AdapterTypeOK
  <2>5. saved' # NotTaken => crossed'
    OBVIOUS
  <2>6. {running', connected', cleanup', overlapped', crossed', gaveUp'} \subseteq BOOLEAN
    BY DEF AdapterTypeOK
  <2> QED BY <2>2, <2>4, <2>5, <2>6 DEF AdapterTypeOK
<1>2. SaysWhatItDid'
  BY DEF SaysWhatItDid, StopsWithoutOverlap, AdapterTypeOK, WhoRuns
<1>3. StopsWithoutOverlap'
  BY DEF StopsWithoutOverlap, AdapterTypeOK, WhoRuns, SaysWhatItDid
<1>4. SessionIsHeld'
  <2> SUFFICES ASSUME ~crossed' PROVE SessionIsHeld'
    BY DEF SessionIsHeld
  <2>1. ~crossed /\ saved = NotTaken /\ saved' = NotTaken
    BY DEF AdapterTypeOK
  <2>2. Held = NoSession /\ openSessions \subseteq {NoSession}
    BY <2>1 DEF SessionIsHeld
  <2>3. openSessions = {}
    BY <2>2 DEF AdapterTypeOK, ReceiverTypes
  <2>4. openSessions' = {session'} /\ Held' = session'
    BY <2>1, <2>3 DEF Held
  <2> QED BY <2>1, <2>4 DEF SessionIsHeld, AdapterTypeOK
<1> QED BY <1>1, <1>2, <1>3, <1>4

LEMMA ConnectReturnsInv ==
  ASSUME AdapterInv, ReceiverInv', ConnectReturns
  PROVE  AdapterInv'
<1> USE ReceiverBounds DEF AdapterInv, ReceiverInv, ConnectReturns, StartConnected,
           NoSession, NotTaken
<1>1. AdapterTypeOK'
  BY DEF AdapterTypeOK, ReceiverTypes, WhoRuns, Connecting
<1>2. SaysWhatItDid'
  BY DEF SaysWhatItDid, StopsWithoutOverlap, AdapterTypeOK, WhoRuns
<1>3. StopsWithoutOverlap'
  BY DEF StopsWithoutOverlap, AdapterTypeOK, WhoRuns, SaysWhatItDid
<1>4. SessionIsHeld'
  BY DEF SessionIsHeld, AdapterTypeOK, Held
<1> QED BY <1>1, <1>2, <1>3, <1>4

LEMMA ConnectFailsInv ==
  ASSUME AdapterInv, ReceiverInv', ConnectFails
  PROVE  AdapterInv'
<1> USE ReceiverBounds DEF AdapterInv, ReceiverInv, ConnectFails, StartFails,
           CloseSession, Crosses,
           NoSession, NotTaken
<1>1. AdapterTypeOK'
  BY DEF AdapterTypeOK, ReceiverTypes, WhoRuns, Connecting
<1>2. SaysWhatItDid'
  BY DEF SaysWhatItDid, AdapterTypeOK, WhoRuns, Connecting
<1>3. StopsWithoutOverlap'
  BY DEF StopsWithoutOverlap, AdapterTypeOK, WhoRuns, Connecting
<1>4. SessionIsHeld'
  BY DEF SessionIsHeld, AdapterTypeOK, Held
<1> QED BY <1>1, <1>2, <1>3, <1>4

LEMMA ConnectFailedInv ==
  ASSUME AdapterInv, ReceiverInv', ConnectFailed
  PROVE  AdapterInv'
<1> USE ReceiverBounds DEF AdapterInv, ReceiverInv, ConnectFailed, SessionClosed,
           Crosses, vars,
           NoSession, NotTaken
<1>1. AdapterTypeOK'
  <2>1. closes' \in [{"connect", "disconnect"} -> 0 .. starts]
    BY DEF AdapterTypeOK, ReceiverTypes
  <2>2. /\ session' \in {NoSession} \cup 1 .. starts /\ openSessions' \subseteq 1 .. starts
        /\ connected' \in BOOLEAN /\ crossed' \in BOOLEAN
        /\ saved # NotTaken => session' = NoSession \/ crossed'
    BY DEF AdapterTypeOK
  <2> QED BY <2>1, <2>2 DEF AdapterTypeOK
<1>2. SaysWhatItDid'
  BY DEF SaysWhatItDid, StopsWithoutOverlap, AdapterTypeOK, WhoRuns
<1>3. StopsWithoutOverlap'
  BY DEF StopsWithoutOverlap, AdapterTypeOK, WhoRuns, SaysWhatItDid
<1>4. SessionIsHeld'
  BY DEF SessionIsHeld, AdapterTypeOK, Held
<1> QED BY <1>1, <1>2, <1>3, <1>4

LEMMA DisconnectCallInv ==
  ASSUME AdapterInv, ReceiverInv', DisconnectCall
  PROVE  AdapterInv'
<1> USE ReceiverBounds DEF AdapterInv, ReceiverInv, DisconnectCall, StopsCleanup, vars,
           NoSession, NotTaken
<1>1. AdapterTypeOK'
  BY DEF AdapterTypeOK, ReceiverTypes, WhoRuns, Connecting
<1>2. SaysWhatItDid'
  BY DEF SaysWhatItDid, StopsWithoutOverlap, AdapterTypeOK, WhoRuns
<1>3. StopsWithoutOverlap'
  BY DEF StopsWithoutOverlap, AdapterTypeOK, WhoRuns, SaysWhatItDid
<1>4. SessionIsHeld'
  BY DEF SessionIsHeld, AdapterTypeOK, Held
<1> QED BY <1>1, <1>2, <1>3, <1>4

LEMMA DisconnectStopsInv ==
  ASSUME AdapterInv, ReceiverInv', DisconnectStops
  PROVE  AdapterInv'
<1> USE ReceiverBounds DEF AdapterInv, ReceiverInv, DisconnectStops, StopCall,
           CloseSession, Crosses, vars,
           NoSession, NotTaken
<1>1. AdapterTypeOK'
  BY DEF AdapterTypeOK, ReceiverTypes, WhoRuns, Connecting
<1>2. SaysWhatItDid'
  BY DEF SaysWhatItDid, StopsWithoutOverlap, AdapterTypeOK, WhoRuns
<1>3. StopsWithoutOverlap'
  BY DEF StopsWithoutOverlap, AdapterTypeOK, WhoRuns, SaysWhatItDid
<1>4. SessionIsHeld'
  BY DEF SessionIsHeld, AdapterTypeOK, Held
<1> QED BY <1>1, <1>2, <1>3, <1>4

LEMMA ReceiverStoppedInv ==
  ASSUME AdapterInv, ReceiverInv', ReceiverStopped
  PROVE  AdapterInv'
<1> USE ReceiverBounds DEF AdapterInv, ReceiverInv, ReceiverStopped, StopReturns,
           CloseSession, Crosses,
           NoSession, NotTaken
<1>1. AdapterTypeOK'
  BY DEF AdapterTypeOK, ReceiverTypes, WhoRuns, Connecting
<1>2. SaysWhatItDid'
  BY DEF SaysWhatItDid, StopsWithoutOverlap, AdapterTypeOK, WhoRuns
<1>3. StopsWithoutOverlap'
  BY DEF StopsWithoutOverlap, AdapterTypeOK, WhoRuns, SaysWhatItDid
<1>4. SessionIsHeld'
  BY DEF SessionIsHeld, AdapterTypeOK, Held
<1> QED BY <1>1, <1>2, <1>3, <1>4

LEMMA DisconnectedInv ==
  ASSUME AdapterInv, ReceiverInv', Disconnected
  PROVE  AdapterInv'
<1> USE ReceiverBounds DEF AdapterInv, ReceiverInv, Disconnected, SessionClosed,
           Crosses, MarkAfter, vars,
           NoSession, NotTaken
<1>1. AdapterTypeOK'
  <2>1. closes' \in [{"connect", "disconnect"} -> 0 .. starts]
    BY DEF AdapterTypeOK, ReceiverTypes
  <2>2. /\ session' \in {NoSession} \cup 1 .. starts /\ openSessions' \subseteq 1 .. starts
        /\ connected' \in BOOLEAN /\ crossed' \in BOOLEAN
        /\ saved # NotTaken => session' = NoSession \/ crossed'
    BY DEF AdapterTypeOK
  <2> QED BY <2>1, <2>2 DEF AdapterTypeOK
<1>2. SaysWhatItDid'
  BY DEF SaysWhatItDid, StopsWithoutOverlap, AdapterTypeOK, WhoRuns
<1>3. StopsWithoutOverlap'
  BY DEF StopsWithoutOverlap, AdapterTypeOK, WhoRuns, SaysWhatItDid
<1>4. SessionIsHeld'
  BY DEF SessionIsHeld, AdapterTypeOK, Held
<1> QED BY <1>1, <1>2, <1>3, <1>4

LEMMA ToolTakesInv ==
  ASSUME AdapterInv, ReceiverInv', ToolTakes
  PROVE  AdapterInv'
<1> USE ReceiverBounds DEF AdapterInv, ReceiverInv, ToolTakes, LeftBehind, vars,
           NoSession, NotTaken
<1>1. AdapterTypeOK'
  BY DEF AdapterTypeOK, ReceiverTypes, WhoRuns, Connecting
<1>2. SaysWhatItDid'
  BY DEF SaysWhatItDid, StopsWithoutOverlap, AdapterTypeOK, WhoRuns
<1>3. StopsWithoutOverlap'
  BY DEF StopsWithoutOverlap, AdapterTypeOK, WhoRuns, SaysWhatItDid
<1>4. SessionIsHeld'
  <2>1. session # NotTaken /\ session \in Int
    BY DEF AdapterTypeOK, ReceiverTypes
  <2>2. Held' = Held
    BY <2>1 DEF Held
  <2> QED BY <2>2 DEF SessionIsHeld, AdapterTypeOK
<1> QED BY <1>1, <1>2, <1>3, <1>4

LEMMA ToolRestoresInv ==
  ASSUME AdapterInv, ReceiverInv', ToolRestores
  PROVE  AdapterInv'
<1> USE ReceiverBounds DEF AdapterInv, ReceiverInv, ToolRestores, vars,
           NoSession, NotTaken
<1>1. AdapterTypeOK'
  BY DEF AdapterTypeOK, ReceiverTypes, WhoRuns, Connecting
<1>2. SaysWhatItDid'
  BY DEF SaysWhatItDid, StopsWithoutOverlap, AdapterTypeOK, WhoRuns
<1>3. StopsWithoutOverlap'
  BY DEF StopsWithoutOverlap, AdapterTypeOK, WhoRuns, SaysWhatItDid
<1>4. SessionIsHeld'
  BY DEF SessionIsHeld, AdapterTypeOK, Held
<1> QED BY <1>1, <1>2, <1>3, <1>4

LEMMA ReceiverGivesUpInv ==
  ASSUME AdapterInv, ReceiverInv', ReceiverGivesUp
  PROVE  AdapterInv'
<1> USE ReceiverBounds DEF AdapterInv, ReceiverInv, ReceiverGivesUp, LoopEnds,
           KeepsLimit, LoopOnly,
           NoSession, NotTaken
<1>1. AdapterTypeOK'
  BY DEF AdapterTypeOK, ReceiverTypes, WhoRuns, Connecting
<1>2. SaysWhatItDid'
  BY DEF SaysWhatItDid, StopsWithoutOverlap, AdapterTypeOK, WhoRuns
<1>3. StopsWithoutOverlap'
  BY DEF StopsWithoutOverlap, AdapterTypeOK, WhoRuns, SaysWhatItDid
<1>4. SessionIsHeld'
  BY DEF SessionIsHeld, AdapterTypeOK, Held
<1> QED BY <1>1, <1>2, <1>3, <1>4

LEMMA UnseenInv ==
  ASSUME AdapterInv, ReceiverInv', ReceiverStep \/ Traffic, UNCHANGED adapterVars
  PROVE  AdapterInv'
<1> USE DEF AdapterInv, adapterVars
<1>1. /\ starts' = starts /\ stopped' = stopped
      /\ startPc' = "idle" <=> startPc = "idle"
      /\ stopPc' = "idle" <=> stopPc = "idle"
      /\ loop = "none" => loop' = "none"
      /\ stopPc' = "close" => stopPc = "close" \/ loop' = "none"
  BY UnseenStep
<1>2. AdapterTypeOK'
  BY <1>1 DEF AdapterTypeOK
<1>3. SaysWhatItDid'
  BY <1>1 DEF SaysWhatItDid
<1>4. StopsWithoutOverlap'
  BY <1>1 DEF StopsWithoutOverlap
<1>5. SessionIsHeld'
  BY DEF SessionIsHeld, Held
<1> QED BY <1>2, <1>3, <1>4, <1>5

LEMMA AdapterInitInv == AdapterInit => AdapterInv
<1> SUFFICES ASSUME AdapterInit PROVE AdapterInv
  OBVIOUS
<1>1. ReceiverInv
  BY ReceiverInitInv DEF AdapterInit
<1>2. AdapterTypeOK
  <2>1. /\ starts = 0 /\ startPc = "idle" /\ stopPc = "idle"
        /\ running = FALSE /\ connected = FALSE /\ cleanup = FALSE
        /\ overlapped = FALSE /\ crossed = FALSE /\ gaveUp = FALSE
        /\ session = NoSession /\ openSessions = {}
        /\ connectPc = "idle" /\ disconnectPc = "idle" /\ saved = NotTaken
        /\ closes = [c \in {"connect", "disconnect"} |-> NoSession]
    BY DEF AdapterInit, Init
  <2>2. closes \in [{"connect", "disconnect"} -> 0 .. starts]
    BY <2>1 DEF NoSession
  <2>3. /\ {running, connected, cleanup, overlapped, crossed, gaveUp} \subseteq BOOLEAN
        /\ session \in {NoSession} \cup 1 .. starts
        /\ openSessions \subseteq 1 .. starts
        /\ saved \in {NotTaken, NoSession} \cup 1 .. starts
        /\ session = NoSession
    BY <2>1
  <2>4. /\ connectPc = "starting" <=> startPc # "idle"
        /\ disconnectPc = "stopping" <=> stopPc # "idle"
    BY <2>1
  <2> QED BY <2>1, <2>2, <2>3, <2>4 DEF AdapterTypeOK
<1>3. SaysWhatItDid /\ StopsWithoutOverlap /\ SessionIsHeld
  BY DEF AdapterInit, Init, SaysWhatItDid, StopsWithoutOverlap, SessionIsHeld, Held
<1> QED BY <1>1, <1>2, <1>3 DEF AdapterInv

LEMMA AdapterStepInv == AdapterInv /\ [AdapterNext]_allVars => AdapterInv'
<1> SUFFICES ASSUME AdapterInv, [AdapterNext]_allVars PROVE AdapterInv'
  OBVIOUS
<1>1. ReceiverInv'
  BY AdapterStepsReceiver, ReceiverStepInv DEF AdapterInv
<1>2. CASE ConnectCall \/ DisconnectCall \/ ToolTakes
  BY <1>1, <1>2, ConnectCallInv, DisconnectCallInv, ToolTakesInv
<1>3. CASE AdapterStep
  BY <1>1, <1>3, ConnectReturnsInv, ConnectFailsInv, ConnectFailedInv,
     DisconnectStopsInv, ReceiverStoppedInv, DisconnectedInv, ReceiverGivesUpInv,
     ToolRestoresInv DEF AdapterStep
<1>4. CASE (ReceiverStep \/ Traffic) /\ UNCHANGED adapterVars
  BY <1>1, <1>4, UnseenInv
<1>5. CASE UNCHANGED allVars
  BY <1>1, <1>5 DEF allVars, vars, adapterVars, AdapterInv, AdapterTypeOK, SaysWhatItDid,
     StopsWithoutOverlap, SessionIsHeld, Held
<1> QED BY <1>2, <1>3, <1>4, <1>5 DEF AdapterNext

\* At rest the adapter holds what its state says and no more, and its receiver
\* too, wherever connect, disconnect, the loop and the tool met.
THEOREM AdapterHoldsWhatItSays == AdapterSpec => []HoldsWhatItSays
<1>1. AdapterInv => HoldsWhatItSays
  <2> SUFFICES ASSUME AdapterInv PROVE HoldsWhatItSays
    OBVIOUS
  <2>1. TypeOK /\ StoppedLeavesNothing /\ OneConnection
    BY ReceiverTypeCorrect, ReceiverHolds DEF AdapterInv
  <2>2. DisconnectedHoldsNothing
    <3> SUFFICES ASSUME AdapterRests, ~running, ~connected
                 PROVE  /\ ~cleanup
                        /\ loop = "none" \/ overlapped
                        /\ crossed \/ (openSessions = {} /\ session = NoSession)
      BY DEF DisconnectedHoldsNothing
    <3>1. ~cleanup /\ (loop = "none" \/ overlapped)
      BY DEF AdapterInv, SaysWhatItDid, StopsWithoutOverlap
    <3>2. ASSUME ~crossed PROVE openSessions = {} /\ session = NoSession
      <4>1. Held = NoSession /\ openSessions \subseteq {NoSession}
        BY <3>2 DEF AdapterInv, SessionIsHeld, AdapterRests
      <4>2. NoSession \notin openSessions
        BY DEF AdapterInv, AdapterTypeOK, NoSession, ReceiverInv, ReceiverTypes
      <4> QED BY <3>2, <4>1, <4>2 DEF Held, AdapterInv, AdapterTypeOK
    <3> QED BY <3>1, <3>2
  <2>3. ConnectedReceives
    BY DEF ConnectedReceives, AdapterRests, AdapterInv, SaysWhatItDid
  <2> QED BY <2>1, <2>2, <2>3 DEF HoldsWhatItSays, AdapterInv
<1>2. AdapterSpec => []AdapterInv
  BY AdapterInitInv, AdapterStepInv, PTL DEF AdapterSpec
<1> QED BY <1>1, <1>2, PTL

\* Under the adapter a stop is final as well.
THEOREM AdapterStopIsFinal == AdapterSpec => StopWins
BY ImplementsReceiver, StopIsFinal
=============================================================================
