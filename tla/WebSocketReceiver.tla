------------------------- MODULE WebSocketReceiver -------------------------
(***************************************************************************)
(* The life of the WebSocket transport of hermes_infoflow: start(), stop(),*)
(* the reconnect loop and the heartbeat task of WebSocketReceiver          *)
(* (websocket.py).                                                         *)
(*                                                                         *)
(* start(), stop() and the loop are coroutines of one event loop.  What    *)
(* interleaves is their awaits, so a program counter names the await each  *)
(* of them is suspended at, and a step runs from one await to the next.    *)
(* A socket and its heartbeat task are identified by the connection        *)
(* generation that created them.  What a frame contains is the subject of  *)
(* FrameIntake; here a frame only makes the reader wait for its answer.    *)
(***************************************************************************)
EXTENDS Integers, FiniteSets

CONSTANTS
  Limits,      \* the reconnect_count values the endpoint may answer
  MaxFaults,   \* bound: connections lost, requests and answers that fail
  MaxStarts    \* bound: calls of start()

Unlimited == -1   \* FALLBACK_RECONNECT_ATTEMPTS
None == 0         \* no socket, no task: generations start at 1

ASSUME WebSocketAssumption ==
  /\ Limits \subseteq Nat \cup {Unlimited} /\ Limits # {}
  /\ MaxFaults \in Nat
  /\ MaxStarts \in Nat \ {0}

VARIABLES
  stopped,     \* _stopped
  hasTask,     \* _main_task is not None
  hasSession,  \* _session is not None
  ws,          \* _ws
  open,        \* the sockets that are not closed
  generation,  \* _connection_generation
  hbTask,      \* _heartbeat_task
  hbLive,      \* the heartbeat tasks that have not ended
  startPc,     \* where start() waits
  stopPc,      \* where stop() waits
  loop,        \* where _listen_with_reconnect waits
  cancelled,   \* the loop has a cancellation to deliver
  attempts,    \* its local attempts
  limit,       \* reconnect_count of _client_config
  giveUp,      \* its local stop_reconnect
  local,       \* the generation a connecting or reading coroutine works for
  joining,     \* the heartbeat task a _stop_heartbeat call waits for
  closing,     \* the socket a _close_ws call closes
  faults, starts

vars == <<stopped, hasTask, hasSession, ws, open, generation, hbTask, hbLive,
          startPc, stopPc, loop, cancelled, attempts, limit, giveUp, local,
          joining, closing, faults, starts>>

Callers == {"start", "stop", "loop"}
Ids == 0 .. (MaxStarts + MaxFaults)
Connecting == {"endpoint", "handshake"}
LoopPoints == {"none", "created", "reading", "answering", "heartbeat", "close",
               "sleep", "endHeartbeat", "endClose"} \cup Connecting

TypeOK ==
  /\ {stopped, hasTask, hasSession, cancelled, giveUp} \subseteq BOOLEAN
  /\ {ws, generation, hbTask} \subseteq Ids
  /\ open \subseteq Ids \ {None}
  /\ hbLive \subseteq Ids \ {None}
  /\ startPc \in {"idle"} \cup Connecting
  /\ stopPc \in {"idle", "heartbeat", "join", "close"}
  /\ loop \in LoopPoints
  /\ attempts \in 0 .. faults
  /\ limit \in Limits \cup {Unlimited}
  /\ {local, joining, closing} \subseteq [Callers -> Ids]
  /\ faults \in 0 .. MaxFaults
  /\ starts \in 0 .. MaxStarts

Init ==
  /\ stopped = TRUE /\ hasTask = FALSE /\ hasSession = FALSE
  /\ ws = None /\ open = {} /\ generation = 0
  /\ hbTask = None /\ hbLive = {}
  /\ startPc = "idle" /\ stopPc = "idle" /\ loop = "none"
  /\ cancelled = FALSE /\ attempts = 0 /\ limit = Unlimited /\ giveUp = FALSE
  /\ local = [c \in Callers |-> None]
  /\ joining = [c \in Callers |-> None]
  /\ closing = [c \in Callers |-> None]
  /\ faults = 0 /\ starts = 0

Fault == faults < MaxFaults /\ faults' = faults + 1

-----------------------------------------------------------------------------
(* _stop_heartbeat, _close_ws: the part before and the part after the await *)

StopHeartbeat(c) ==
  /\ hbTask' = None
  /\ joining' = [joining EXCEPT ![c] = IF hbTask \in hbLive THEN hbTask ELSE None]

HeartbeatJoined(c) ==
  /\ hbLive' = hbLive \ {joining[c]}
  /\ joining' = [joining EXCEPT ![c] = None]

CloseWs(c) ==
  /\ ws' = None
  /\ closing' = [closing EXCEPT ![c] = ws]

WsClosed(c) ==
  /\ open' = open \ {closing[c]}
  /\ closing' = [closing EXCEPT ![c] = None]

-----------------------------------------------------------------------------
(* _connect_once, in start() and in the loop *)

\* The heartbeat starts only for the newest connection of a live receiver.
StartsHeartbeat(c) == local[c] = generation /\ ~stopped

ConnectOpens(c) ==
  /\ ws' = local[c]
  /\ open' = open \cup {local[c]}
  /\ IF StartsHeartbeat(c)
     THEN hbTask' = local[c] /\ hbLive' = (hbLive \ {hbTask}) \cup {local[c]}
     ELSE UNCHANGED <<hbTask, hbLive>>

\* The endpoint answered: its client config replaces the last one.
ConnectBegins(c) ==
  /\ limit' \in Limits
  /\ generation' = generation + 1
  /\ local' = [local EXCEPT ![c] = generation + 1]

-----------------------------------------------------------------------------
(* start() *)

IsRunning == ~stopped /\ hasTask

\* A call on a running receiver does nothing.  The gateway is assumed to call
\* connect() again only when the previous life is over: a stop() that overlaps
\* start() leaves a loop that still has to close the connection.
StartCall ==
  /\ startPc = "idle" /\ stopPc = "idle" /\ loop = "none"
  /\ ~IsRunning
  /\ starts < MaxStarts /\ starts' = starts + 1
  /\ stopped' = FALSE /\ hasSession' = TRUE
  /\ startPc' = "endpoint"
  /\ UNCHANGED <<hasTask, ws, open, generation, hbTask, hbLive, stopPc, loop,
                 cancelled, attempts, limit, giveUp, local, joining, closing, faults>>

\* stop() may have dropped the session while start() waited for the endpoint.
StartEndpoint ==
  /\ startPc = "endpoint" /\ hasSession
  /\ ConnectBegins("start")
  /\ startPc' = "handshake"
  /\ UNCHANGED <<stopped, hasTask, hasSession, ws, open, hbTask, hbLive, stopPc,
                 loop, cancelled, attempts, giveUp, joining, closing, faults, starts>>

StartFails ==
  /\ startPc \in Connecting
  /\ IF hasSession THEN Fault ELSE faults' = faults
  /\ stopped' = TRUE /\ hasSession' = FALSE
  /\ startPc' = "idle"
  /\ UNCHANGED <<hasTask, ws, open, generation, hbTask, hbLive, stopPc, loop,
                 cancelled, attempts, limit, giveUp, local, joining, closing, starts>>

StartConnected ==
  /\ startPc = "handshake"
  /\ ConnectOpens("start")
  /\ hasTask' = TRUE /\ loop' = "created"
  /\ cancelled' = FALSE /\ attempts' = 0 /\ giveUp' = FALSE
  /\ startPc' = "idle"
  /\ UNCHANGED <<stopped, hasSession, generation, stopPc, limit, local, joining, closing,
                 faults, starts>>

-----------------------------------------------------------------------------
(* stop() *)

StopCall ==
  /\ stopPc = "idle" /\ ~stopped
  /\ stopped' = TRUE
  /\ StopHeartbeat("stop")
  /\ stopPc' = "heartbeat"
  /\ UNCHANGED <<hasTask, hasSession, ws, open, generation, hbLive, startPc, loop,
                 cancelled, attempts, limit, giveUp, local, closing, faults, starts>>

CancelsLoop_Waits == FALSE
CancelsLoop == hasTask /\ loop # "none"

StopCancelsLoop ==
  /\ stopPc = "heartbeat"
  /\ HeartbeatJoined("stop")
  /\ hasTask' = FALSE
  /\ cancelled' = CancelsLoop
  /\ stopPc' = "join"
  /\ UNCHANGED <<stopped, hasSession, ws, open, generation, hbTask, startPc, loop,
                 attempts, limit, giveUp, local, closing, faults, starts>>

StopJoined ==
  /\ stopPc = "join" /\ loop = "none"
  /\ CloseWs("stop")
  /\ stopPc' = "close"
  /\ UNCHANGED <<stopped, hasTask, hasSession, open, generation, hbTask, hbLive,
                 startPc, loop, cancelled, attempts, limit, giveUp, local, joining, faults,
                 starts>>

StopReturns ==
  /\ stopPc = "close"
  /\ WsClosed("stop")
  /\ hasSession' = FALSE
  /\ stopPc' = "idle"
  /\ UNCHANGED <<stopped, hasTask, ws, generation, hbTask, hbLive, startPc, loop,
                 cancelled, attempts, limit, giveUp, local, joining, faults, starts>>

-----------------------------------------------------------------------------
(* _listen_with_reconnect *)

\* What every step of the loop leaves to start() and stop().
LoopOnly == UNCHANGED <<hasTask, hasSession, startPc, stopPc, starts>>
KeepsLimit == LoopOnly /\ limit' = limit

\* while not self._stopped
GoesOn == ~stopped

\* The round's try: connect if need be, then read.
NextRound ==
  /\ giveUp' = FALSE
  /\ IF ws \notin open
     THEN loop' = "endpoint" /\ UNCHANGED local
     ELSE loop' = "reading" /\ local' = [local EXCEPT !["loop"] = generation]

\* The statements after the loop: the first of their two awaits.
LeaveLoop ==
  /\ StopHeartbeat("loop")
  /\ loop' = "endHeartbeat"
  /\ UNCHANGED <<local, giveUp>>

\* The statements after the try: the first of their two awaits.
EndRound(tries) ==
  /\ attempts' = tries
  /\ StopHeartbeat("loop")
  /\ loop' = "heartbeat"

LoopRound ==
  /\ loop \in {"created", "sleep"} /\ ~cancelled
  /\ IF GoesOn
     THEN NextRound /\ UNCHANGED <<hbTask, joining>>
     ELSE LeaveLoop
  /\ UNCHANGED <<stopped, ws, open, generation, hbLive, cancelled, attempts, closing,
                 faults>>
  /\ KeepsLimit

LoopEndpoint ==
  /\ loop = "endpoint" /\ ~cancelled
  /\ ConnectBegins("loop")
  /\ loop' = "handshake"
  /\ UNCHANGED <<stopped, ws, open, hbTask, hbLive, cancelled, attempts, giveUp,
                 joining, closing, faults>>
  /\ LoopOnly

LoopConnected ==
  /\ loop = "handshake" /\ ~cancelled
  /\ ConnectOpens("loop")
  /\ local' = [local EXCEPT !["loop"] = generation]
  /\ loop' = "reading"
  /\ UNCHANGED <<stopped, generation, cancelled, attempts, giveUp, joining, closing,
                 faults>>
  /\ KeepsLimit

\* Only the endpoint request has failures that end the reconnecting.
LoopConnectFails ==
  /\ loop \in Connecting /\ ~cancelled
  /\ Fault
  /\ giveUp' \in IF loop = "endpoint" THEN BOOLEAN ELSE {FALSE}
  /\ EndRound(attempts)
  /\ UNCHANGED <<stopped, ws, open, generation, hbLive, cancelled, local, closing>>
  /\ KeepsLimit

\* A frame arrives: a stopped or superseded reader returns instead.
LoopReads ==
  /\ loop = "reading" /\ ~cancelled /\ local["loop"] \in open
  /\ IF stopped \/ local["loop"] # generation
     THEN EndRound(0)
     ELSE loop' = "answering" /\ UNCHANGED <<attempts, hbTask, joining>>
  /\ UNCHANGED <<stopped, ws, open, generation, hbLive, cancelled, giveUp, local,
                 closing, faults>>
  /\ KeepsLimit

\* The answer was sent, or the connection broke under it.
LoopAnswered ==
  /\ loop = "answering" /\ ~cancelled
  /\ \/ /\ loop' = "reading"
        /\ UNCHANGED <<attempts, hbTask, joining, faults>>
     \/ Fault /\ EndRound(attempts)
  /\ UNCHANGED <<stopped, ws, open, generation, hbLive, cancelled, giveUp, local,
                 closing>>
  /\ KeepsLimit

\* The peer closes the connection, or it breaks: only the first resets attempts.
LoopLosesConnection ==
  /\ loop = "reading" /\ ~cancelled
  /\ Fault
  /\ open' = open \ {local["loop"]}
  /\ \E tries \in {0, attempts} : EndRound(tries)
  /\ UNCHANGED <<stopped, ws, generation, hbLive, cancelled, giveUp, local, closing>>
  /\ KeepsLimit

\* A cancellation that arrives while the loop joins the heartbeat task is
\* swallowed by the suppress() around the await.
LoopHeartbeatJoined ==
  /\ loop \in {"heartbeat", "endHeartbeat"}
  /\ HeartbeatJoined("loop")
  /\ CloseWs("loop")
  /\ loop' = IF loop = "heartbeat" THEN "close" ELSE "endClose"
  /\ cancelled' = FALSE
  /\ UNCHANGED <<stopped, open, generation, hbTask, attempts, giveUp, local, faults>>
  /\ KeepsLimit

Exhausted_NoSentinel == attempts >= limit
Exhausted == limit # Unlimited /\ attempts >= limit

Ends == stopped \/ giveUp \/ Exhausted

LoopRetries ==
  /\ loop = "close" /\ ~cancelled
  /\ WsClosed("loop")
  /\ IF Ends
     THEN LeaveLoop /\ UNCHANGED attempts
     ELSE /\ attempts' = attempts + 1
          /\ loop' = "sleep"
          /\ UNCHANGED <<hbTask, joining, local, giveUp>>
  /\ UNCHANGED <<stopped, ws, generation, hbLive, cancelled, faults>>
  /\ KeepsLimit

LoopEnds ==
  /\ loop = "endClose" /\ ~cancelled
  /\ WsClosed("loop")
  /\ stopped' = TRUE
  /\ loop' = "none"
  /\ UNCHANGED <<ws, generation, hbTask, hbLive, cancelled, attempts, giveUp, local,
                 joining, faults>>
  /\ KeepsLimit

\* Everywhere else the CancelledError ends the task; a close it interrupts
\* drops the connection.
LoopCancelled ==
  /\ cancelled /\ loop \notin {"none", "heartbeat", "endHeartbeat"}
  /\ WsClosed("loop")
  /\ loop' = "none" /\ cancelled' = FALSE
  /\ UNCHANGED <<stopped, ws, generation, hbTask, hbLive, attempts, giveUp, local,
                 joining, faults>>
  /\ KeepsLimit

-----------------------------------------------------------------------------
\* _heartbeat_loop ends when it wakes up stopped, or when a ping cannot be sent.
HeartbeatEnds(h) ==
  /\ h \in hbLive
  /\ IF stopped THEN UNCHANGED faults ELSE Fault
  /\ hbLive' = hbLive \ {h}
  /\ UNCHANGED <<stopped, hasTask, hasSession, ws, open, generation, hbTask, startPc,
                 stopPc, loop, cancelled, attempts, limit, giveUp, local, joining, closing,
                 starts>>

StartStep == StartEndpoint \/ StartFails \/ StartConnected
StopStep == StopCancelsLoop \/ StopJoined \/ StopReturns
ConnectStep == LoopEndpoint \/ LoopConnected \/ LoopConnectFails
LoopStep == LoopRound \/ LoopAnswered \/ LoopHeartbeatJoined \/ LoopRetries
              \/ LoopEnds \/ LoopCancelled

Next ==
  \/ StartCall \/ StartStep
  \/ StopCall \/ StopStep
  \/ ConnectStep \/ LoopStep
  \/ LoopReads \/ LoopLosesConnection
  \/ \E h \in hbLive : HeartbeatEnds(h)

Spec == Init /\ [][Next]_vars

\* Every await ends: requests have timeouts, a sleep is finite, a cancelled task
\* is resumed.  Nobody has to call start() or stop(), and no frame has to come.
Fairness ==
  /\ WF_vars(StartStep) /\ WF_vars(StopStep)
  /\ WF_vars(ConnectStep) /\ WF_vars(LoopStep)

LiveSpec == Spec /\ Fairness

-----------------------------------------------------------------------------
(* Properties *)

\* A receiver that stopped, by stop() or by giving up, has let go of everything:
\* no socket stays open and no heartbeat task goes on, wherever stop() met
\* start() or the loop.
StoppedLeavesNothing ==
  stopped /\ startPc = "idle" /\ stopPc = "idle" /\ loop = "none"
    => open = {} /\ hbLive = {}

\* A reconnect never leaves the previous connection behind: one socket and one
\* heartbeat task at a time.
OneConnection == Cardinality(open) <= 1 /\ Cardinality(hbLive) <= 1

\* stop() is final: from then on no heartbeat begins and no coroutine asks for
\* a new endpoint.
StopWins ==
  [][stopped /\ stopped' => /\ hbLive' \subseteq hbLive
                            /\ loop' = "endpoint" => loop = "endpoint"]_vars

\* stop() returns although a cancellation can be swallowed by the loop.
StopTerminates == stopPc # "idle" ~> stopPc = "idle"

\* While the endpoint sets no limit a running receiver is always connected again
\* in the end (the faults of a run are finitely many), unless it is stopped or the
\* endpoint refuses it for good: no other failure ends the loop.
Connected == loop \in {"reading", "answering"} /\ ws \in open
StaysConnected ==
  loop # "none" /\ ~stopped
    ~> Connected \/ stopPc # "idle" \/ giveUp \/ limit # Unlimited
=============================================================================
