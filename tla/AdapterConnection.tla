-------------------------- MODULE AdapterConnection --------------------------
(***************************************************************************)
(* connect() and disconnect() of the adapter (adapter.py) over the         *)
(* WebSocket receiver: the shared HTTP session, the periodic log cleanup   *)
(* and what the gateway is told.  A disconnect may come while connect()    *)
(* waits for the handshake, and a tool on another event loop takes the     *)
(* session away for a while (tools.py, _with_temp_session).                *)
(* Sessions are numbered by the connect() that opened them.                *)
(***************************************************************************)
EXTENDS WebSocketReceiver

CONSTANT MaxTools   \* bound: recalls by the tool

NoSession == 0

VARIABLES
  running,      \* _running
  connected,    \* what _mark_connected and _mark_disconnected last said
  cleanup,      \* _log_cleanup_task is alive
  session,      \* _http_session
  openSessions, \* sessions nobody closed
  connectPc,    \* where connect() waits
  disconnectPc, \* where disconnect() waits
  closes,       \* the session each of the two is closing
  saved,        \* what the tool took away, or -1
  tools,
  overlapped,   \* a disconnect() met a connect()
  crossed,      \* the session changed while a tool had it
  gaveUp        \* the receiver ended its loop by itself

adapterVars == <<running, connected, cleanup, session, openSessions, connectPc,
                 disconnectPc, closes, saved, tools, overlapped, crossed, gaveUp>>
allVars == <<vars, adapterVars>>

NotTaken == -1

AdapterTypeOK ==
  /\ {running, connected, cleanup, overlapped, crossed, gaveUp} \subseteq BOOLEAN
  /\ session \in {NoSession} \cup 1 .. starts
  /\ openSessions \subseteq 1 .. starts
  /\ connectPc \in {"idle", "starting", "closing"}
  /\ connectPc = "starting" <=> startPc # "idle"
  /\ disconnectPc \in {"idle", "cleanup", "stopping", "closing"}
  /\ disconnectPc = "stopping" <=> stopPc # "idle"
  /\ closes \in [{"connect", "disconnect"} -> 0 .. starts]
  /\ saved \in {NotTaken, NoSession} \cup 1 .. starts
  /\ saved # NotTaken => session = NoSession \/ crossed

AdapterInit ==
  /\ Init
  /\ running = FALSE /\ connected = FALSE /\ cleanup = FALSE
  /\ session = NoSession /\ openSessions = {}
  /\ connectPc = "idle" /\ disconnectPc = "idle"
  /\ closes = [c \in {"connect", "disconnect"} |-> NoSession]
  /\ saved = NotTaken /\ tools = 0
  /\ overlapped = FALSE /\ crossed = FALSE /\ gaveUp = FALSE

Crosses == crossed' = (crossed \/ saved # NotTaken)

-----------------------------------------------------------------------------
(* connect() *)

ConnectCall ==
  /\ connectPc = "idle" /\ disconnectPc = "idle"
  /\ ~connected
  /\ StartCall
  /\ session' = starts' /\ openSessions' = openSessions \cup {starts'}
  /\ connectPc' = "starting"
  /\ overlapped' = FALSE /\ gaveUp' = FALSE
  /\ Crosses
  /\ UNCHANGED <<running, connected, cleanup, disconnectPc, closes, saved, tools>>

\* The handshake is over: what follows has no await.
ConnectReturns ==
  /\ StartConnected
  /\ running' = TRUE /\ connected' = TRUE
  /\ cleanup' = TRUE
  /\ connectPc' = "idle"
  /\ UNCHANGED <<session, openSessions, disconnectPc, closes, saved, tools,
                 overlapped, crossed, gaveUp>>

\* _close_http_session, before and after its await.
CloseSession(c) == closes' = [closes EXCEPT ![c] = session] /\ Crosses
SessionClosed(c) ==
  /\ openSessions' = openSessions \ {closes[c]}
  /\ session' = IF closes[c] = NoSession THEN session ELSE NoSession
  /\ closes' = [closes EXCEPT ![c] = NoSession]
  /\ Crosses

ConnectFails ==
  /\ StartFails
  /\ CloseSession("connect")
  /\ connectPc' = "closing"
  /\ UNCHANGED <<running, connected, cleanup, session, openSessions, disconnectPc,
                 saved, tools, overlapped, gaveUp>>

ConnectFailed ==
  /\ connectPc = "closing"
  /\ SessionClosed("connect")
  /\ connectPc' = "idle"
  /\ UNCHANGED <<vars, running, connected, cleanup, disconnectPc, saved, tools,
                 overlapped, gaveUp>>

-----------------------------------------------------------------------------
(* disconnect() *)

StopsCleanup_Forgets == cleanup
StopsCleanup == FALSE

DisconnectCall ==
  /\ disconnectPc = "idle"
  /\ connected \/ connectPc # "idle"
  /\ running' = FALSE
  /\ cleanup' = StopsCleanup
  /\ overlapped' = (overlapped \/ connectPc # "idle")
  /\ disconnectPc' = "cleanup"
  /\ UNCHANGED <<vars, connected, session, openSessions, connectPc, closes, saved,
                 tools, crossed, gaveUp>>

\* The cleanup task is joined; a stopped receiver returns at once.
DisconnectStops ==
  /\ disconnectPc = "cleanup"
  /\ IF stopped
     THEN /\ CloseSession("disconnect")
          /\ disconnectPc' = "closing"
          /\ UNCHANGED vars
     ELSE /\ StopCall
          /\ disconnectPc' = "stopping"
          /\ UNCHANGED <<closes, crossed>>
  /\ UNCHANGED <<running, connected, cleanup, session, openSessions, connectPc, saved,
                 tools, overlapped, gaveUp>>

ReceiverStopped ==
  /\ disconnectPc = "stopping"
  /\ StopReturns
  /\ CloseSession("disconnect")
  /\ disconnectPc' = "closing"
  /\ UNCHANGED <<running, connected, cleanup, session, openSessions, connectPc, saved,
                 tools, overlapped, gaveUp>>

MarkAfter == FALSE

Disconnected ==
  /\ disconnectPc = "closing"
  /\ SessionClosed("disconnect")
  /\ connected' = MarkAfter
  /\ disconnectPc' = "idle"
  /\ UNCHANGED <<vars, running, cleanup, connectPc, saved, tools, overlapped, gaveUp>>

-----------------------------------------------------------------------------
(* The recall tool *)

\* _with_temp_session
LeftBehind == NoSession

ToolTakes ==
  /\ saved = NotTaken /\ tools < MaxTools
  /\ tools' = tools + 1
  /\ saved' = session /\ session' = LeftBehind
  /\ crossed' = (crossed \/ connectPc # "idle" \/ disconnectPc # "idle")
  /\ UNCHANGED <<vars, running, connected, cleanup, openSessions, connectPc,
                 disconnectPc, closes, overlapped, gaveUp>>

ToolRestores ==
  /\ saved # NotTaken
  /\ session' = saved /\ saved' = NotTaken
  /\ UNCHANGED <<vars, running, connected, cleanup, openSessions, connectPc,
                 disconnectPc, closes, tools, overlapped, crossed, gaveUp>>

-----------------------------------------------------------------------------
(* The steps of the receiver that the adapter does not see *)

ReceiverStep ==
  \/ StartEndpoint
  \/ StopCancelsLoop \/ StopJoined
  \/ ConnectStep
  \/ LoopRound \/ LoopAnswered \/ LoopHeartbeatJoined \/ LoopRetries
  \/ LoopCancelled

Traffic == LoopReads \/ LoopLosesConnection \/ \E h \in hbLive : HeartbeatEnds(h)

\* Nobody tells the adapter that the loop has given up.
ReceiverGivesUp ==
  /\ LoopEnds
  /\ gaveUp' = (gaveUp \/ ~stopped)
  /\ UNCHANGED <<running, connected, cleanup, session, openSessions, connectPc,
                 disconnectPc, closes, saved, tools, overlapped, crossed>>

AdapterStep ==
  \/ ConnectReturns \/ ConnectFails \/ ConnectFailed
  \/ DisconnectStops \/ ReceiverStopped \/ Disconnected
  \/ ReceiverGivesUp
  \/ ToolRestores

AdapterNext ==
  \/ ConnectCall \/ DisconnectCall \/ ToolTakes
  \/ AdapterStep
  \/ (ReceiverStep \/ Traffic) /\ UNCHANGED adapterVars

AdapterFairness ==
  /\ WF_allVars(ConnectReturns \/ ConnectFails \/ (StartEndpoint /\ UNCHANGED adapterVars))
  /\ WF_allVars(ReceiverStopped \/ ((StopCancelsLoop \/ StopJoined) /\ UNCHANGED adapterVars))
  /\ WF_allVars(ConnectStep /\ UNCHANGED adapterVars)
  /\ WF_allVars(LoopStep /\ (ReceiverGivesUp \/ UNCHANGED adapterVars))
  /\ WF_allVars(ConnectFailed) /\ WF_allVars(DisconnectStops)
  /\ WF_allVars(Disconnected) /\ WF_allVars(ToolRestores)

AdapterSpec == AdapterInit /\ [][AdapterNext]_allVars /\ AdapterFairness

-----------------------------------------------------------------------------
(* Properties *)

AdapterRests == connectPc = "idle" /\ disconnectPc = "idle"

\* A disconnected adapter holds no session, no cleanup task and no receiver, also
\* when the disconnect met a connect() that failed; the exceptions are a session
\* that changed while a tool had it, and the last round of a loop that a late
\* connect() began (adapter.py:1157-1205, tools.py:75-88).
DisconnectedHoldsNothing ==
  AdapterRests /\ ~running /\ ~connected =>
    /\ ~cleanup
    /\ loop = "none" \/ overlapped
    /\ crossed \/ (openSessions = {} /\ session = NoSession)

\* An adapter that is marked connected receives, unless disconnect() met
\* connect() or the receiver gave up, of which the adapter hears nothing
\* (adapter.py:1139-1141, websocket.py:375-425).
ConnectedReceives ==
  AdapterRests /\ connected /\ ~overlapped /\ ~gaveUp =>
    running /\ ~stopped /\ cleanup

\* A connection that outlived disconnect() is closed in the end.
LeftoverCloses == AdapterRests /\ ~connected ~> open = {} \/ connectPc # "idle"

\* disconnect() returns, whatever it meets.
DisconnectReturns == disconnectPc # "idle" ~> disconnectPc = "idle"

\* At rest the adapter holds what its state says and no more, and its receiver too.
HoldsWhatItSays ==
  /\ TypeOK /\ AdapterTypeOK
  /\ StoppedLeavesNothing /\ OneConnection
  /\ DisconnectedHoldsNothing /\ ConnectedReceives

\* Stopping is final and comes to an end, wherever it meets starting.
StoppingEnds == StopWins /\ StopTerminates /\ DisconnectReturns /\ LeftoverCloses
=============================================================================
