---------------------------- MODULE SessionStream ----------------------------
(* The Session Tracker page of one chat: the aggregated ring buffer of the    *)
(* chat's events (dashboard.py: SessionTracker), the event stream and the     *)
(* history request that read it (sessiontracker.py: api_stream, api_history,  *)
(* api_resolve), and the page's script, which asks every two seconds which    *)
(* session it shows, reconnects its stream and appends what it has not yet    *)
(* shown, by sequence number.                                                 *)
(*                                                                            *)
(* The events come from an agent's thread: an event is stored and then handed *)
(* to the streams that are subscribed by then.  A restart of the gateway      *)
(* empties the tracker and its numbers start again at 1.                      *)
EXTENDS Naturals, FiniteSets, Sequences, SequencesExt

CONSTANTS
  BufferSize,      \* INFOFLOW_DASHBOARD_EVENT_BUFFER
  MaxLines,        \* lines an agent writes between two starts
  MaxRestarts,     \* restarts of the gateway
  MaxHistories     \* history requests under way

ASSUME BufferSizePositive == BufferSize \in Nat \ {0}
ASSUME StreamBounds == MaxLines \in Nat /\ MaxRestarts \in Nat

VARIABLES
  boot,        \* starts of the gateway so far
  stored,      \* the tracker's _seq: lines stored since the start
  writer,      \* push_event: idle, or between the buffer and the queues
  stream,      \* the page's event stream: none, asked or live
  feed,        \* what the live stream has still to send
  lineCursor,  \* the page's cursor
  page,        \* the lines on it
  sessionId,   \* the page knows its session
  retry,       \* streamReconnectTimer is set
  resolving,   \* the page's poll of api_resolve
  histories,   \* its loadHistory requests under way
  behind       \* the tracker was emptied and the page has not been told since

streamVars == <<boot, stored, writer, stream, feed, lineCursor, page, sessionId,
                retry, resolving, histories, behind>>

Seqs == 1..MaxLines
NoRequest == [at |-> "none"]

StreamTypeOK ==
  /\ boot \in 0..MaxRestarts
  /\ stored \in 0..MaxLines /\ writer \in {"idle", "stored"}
  /\ stream \in {NoRequest} \cup [at : {"asked", "live"}, cursor : 0..MaxLines]
  /\ \A i \in DOMAIN feed : feed[i] \in Seqs
  /\ lineCursor \in 0..MaxLines
  /\ \A i \in DOMAIN page :
       page[i].boot \in 0..MaxRestarts /\ page[i].seq \in Seqs
  /\ sessionId \in BOOLEAN /\ retry \in BOOLEAN /\ behind \in BOOLEAN
  /\ resolving \in {"closed", "none", "asked", "session", "waiting"}
  /\ \A h \in histories :
       \/ h.at = "asked" /\ h.cursor \in 0..MaxLines
       \/ h.at = "answered" /\ h.lo \in 0..MaxLines /\ h.hi \in 0..MaxLines

StreamInit ==
  /\ boot = 0 /\ stored = 0 /\ writer = "idle"
  /\ stream = NoRequest /\ feed = <<>>
  /\ lineCursor = 0 /\ page = <<>>
  /\ sessionId = FALSE /\ retry = FALSE
  /\ resolving = "closed" /\ histories = {} /\ behind = FALSE

-----------------------------------------------------------------------------
(* The tracker. *)

(* lookup_tracker_session_id: a chat has a session once it has an event. *)
Known == stored > 0

(* The ring buffer holds the lines after this one. *)
Evicted == IF stored > BufferSize THEN stored - BufferSize ELSE 0

(* snapshot(cursor): what the buffer has after the cursor. *)
Larger(a, b) == IF a > b THEN a ELSE b
After(c) == [i \in 1..(stored - Larger(c, Evicted)) |-> Larger(c, Evicted) + i]
(* Mutant: one line more than the cursor says is taken for shown. *)
SnapshotFromNext(c) == IF c + 1 >= stored THEN <<>> ELSE After(c + 1)

Snapshot(c) == IF c >= stored THEN <<>> ELSE After(c)

StoreLine ==
  /\ writer = "idle" /\ stored < MaxLines
  /\ stored' = stored + 1
  /\ writer' = "stored"
  /\ UNCHANGED <<boot, stream, feed, lineCursor, page, sessionId, retry,
                 resolving, histories, behind>>

Notify ==
  /\ writer = "stored"
  /\ writer' = "idle"
  /\ feed' = IF stream.at = "live" THEN Append(feed, stored) ELSE feed
  /\ UNCHANGED <<boot, stored, stream, lineCursor, page, sessionId, retry,
                 resolving, histories, behind>>

(* The process goes with every connection and every request under way. *)
Restart ==
  /\ boot < MaxRestarts
  /\ boot' = boot + 1
  /\ stored' = 0 /\ writer' = "idle"
  /\ stream' = NoRequest /\ feed' = <<>>
  /\ retry' = (retry \/ stream # NoRequest)
  /\ resolving' = IF resolving = "closed" THEN "closed" ELSE "none"
  /\ histories' = {}
  /\ behind' = (behind \/ sessionId)
  /\ UNCHANGED <<lineCursor, page, sessionId>>

-----------------------------------------------------------------------------
(* api_stream: subscribed before the backfill is taken; the handler sends the *)
(* backfill, then what is queued and was not part of it.                      *)
AcceptStream ==
  /\ stream.at = "asked" /\ Known
  /\ feed' = Snapshot(stream.cursor)
  /\ stream' = [stream EXCEPT !.at = "live"]
  /\ UNCHANGED <<boot, stored, writer, lineCursor, page, sessionId, retry,
                 resolving, histories, behind>>

(* onmessage: stream.cursor is the handler's seq_cursor. *)
Shows(seq) == seq > stream.cursor /\ seq > lineCursor

OnLine ==
  /\ stream.at = "live" /\ feed # <<>>
  /\ LET seq == Head(feed) IN
       /\ feed' = Tail(feed)
       /\ stream' = [stream EXCEPT !.cursor = Larger(@, seq)]
       /\ IF Shows(seq)
            THEN /\ lineCursor' = seq
                 /\ page' = Append(page, [boot |-> boot, seq |-> seq])
            ELSE UNCHANGED <<lineCursor, page>>
  /\ UNCHANGED <<boot, stored, writer, sessionId, retry, resolving, histories, behind>>

(* onerror: the connection is lost or refused, or the session is not there. *)
StreamFails ==
  /\ stream # NoRequest
  /\ stream' = NoRequest /\ feed' = <<>>
  /\ retry' = TRUE
  /\ UNCHANGED <<boot, stored, writer, lineCursor, page, sessionId, resolving,
                 histories, behind>>

(* connectStream, from a cursor. *)
Connect(cursor) ==
  /\ stream' = [at |-> "asked", cursor |-> cursor]
  /\ feed' = <<>>
  /\ retry' = FALSE

RetryFires ==
  /\ retry
  /\ IF sessionId THEN Connect(lineCursor)
                  ELSE retry' = FALSE /\ UNCHANGED <<stream, feed>>
  /\ UNCHANGED <<boot, stored, writer, lineCursor, page, sessionId, resolving,
                 histories, behind>>

-----------------------------------------------------------------------------
(* loadHistory; MaxHistories bounds those under way. *)
LoadHistory(cursor) ==
  /\ Cardinality(histories) < MaxHistories
  /\ histories' = histories \cup {[at |-> "asked", cursor |-> cursor]}

AnswerHistory(h) ==
  /\ h.at = "asked" /\ Known
  /\ histories' = (histories \ {h}) \cup
       {[at |-> "answered", lo |-> Larger(h.cursor, Evicted), hi |-> stored]}
  /\ UNCHANGED <<boot, stored, writer, stream, feed, lineCursor, page, sessionId,
                 retry, resolving, behind>>

(* The answer is appended from where the page is by now. *)
OnHistory(h) ==
  /\ h.at = "answered"
  /\ LET from == Larger(h.lo, lineCursor) IN
       IF h.hi > from
         THEN /\ lineCursor' = h.hi
              /\ page' = page \o [i \in 1..(h.hi - from) |->
                                        [boot |-> boot, seq |-> from + i]]
         ELSE UNCHANGED <<lineCursor, page>>
  /\ histories' = histories \ {h}
  /\ UNCHANGED <<boot, stored, writer, stream, feed, sessionId, retry, resolving, behind>>

HistoryFails(h) ==
  /\ histories' = histories \ {h}
  /\ UNCHANGED <<boot, stored, writer, stream, feed, lineCursor, page, sessionId,
                 retry, resolving, behind>>

-----------------------------------------------------------------------------
(* init, and the poll of api_resolve. *)
OpenPage ==
  /\ resolving = "closed"
  /\ resolving' = "asked"
  /\ UNCHANGED <<boot, stored, writer, stream, feed, lineCursor, page, sessionId,
                 retry, histories, behind>>

PollResolve ==
  /\ resolving = "none"
  /\ resolving' = "asked"
  /\ UNCHANGED <<boot, stored, writer, stream, feed, lineCursor, page, sessionId,
                 retry, histories, behind>>

AnswerResolve ==
  /\ resolving = "asked"
  /\ resolving' = IF Known THEN "session" ELSE "waiting"
  /\ UNCHANGED <<boot, stored, writer, stream, feed, lineCursor, page, sessionId,
                 retry, histories, behind>>

(* applyResolve: no session yet, or none any more. *)
ResolvedNone ==
  /\ resolving = "waiting"
  /\ resolving' = "none"
  /\ sessionId' = FALSE
  /\ behind' = FALSE
  /\ UNCHANGED <<boot, stored, writer, stream, feed, lineCursor, page, retry, histories>>

(* Mutant: the cursor of the session before is kept. *)
ResolvedNewKeepsCursor ==
  /\ resolving = "session" /\ ~sessionId
  /\ resolving' = "none"
  /\ sessionId' = TRUE
  /\ page' = <<>>
  /\ Connect(lineCursor) /\ LoadHistory(lineCursor)
  /\ UNCHANGED <<boot, stored, writer, lineCursor, behind>>

(* A session the page did not have: it starts over. *)
ResolvedNew ==
  /\ resolving = "session" /\ ~sessionId
  /\ resolving' = "none"
  /\ sessionId' = TRUE
  /\ lineCursor' = 0 /\ page' = <<>>
  /\ Connect(0) /\ LoadHistory(0)
  /\ UNCHANGED <<boot, stored, writer, behind>>

(* The one it has: a stream that is down is connected, an empty page is    *)
(* filled.                                                                 *)
ResolvedSame ==
  /\ resolving = "session" /\ sessionId
  /\ resolving' = "none"
  /\ IF stream = NoRequest THEN Connect(lineCursor) ELSE UNCHANGED <<stream, feed, retry>>
  /\ IF stream = NoRequest \/ page = <<>> THEN LoadHistory(lineCursor)
                                            ELSE UNCHANGED histories
  /\ UNCHANGED <<boot, stored, writer, lineCursor, page, sessionId, behind>>

StreamNext ==
  \/ StoreLine \/ Notify \/ Restart
  \/ AcceptStream \/ OnLine \/ StreamFails \/ RetryFires
  \/ \E h \in histories : AnswerHistory(h) \/ OnHistory(h) \/ HistoryFails(h)
  \/ OpenPage \/ PollResolve \/ AnswerResolve \/ ResolvedNone \/ ResolvedNew \/ ResolvedSame

(* The thread ends its push, the page's timers fire, the browser handles what *)
(* arrives, and connections do not fail for ever.                             *)
StreamFairness ==
  /\ WF_streamVars(Notify) /\ WF_streamVars(RetryFires)
  /\ WF_streamVars(PollResolve) /\ WF_streamVars(AnswerResolve)
  /\ WF_streamVars(\E h \in histories : OnHistory(h) \/ HistoryFails(h))
  /\ WF_streamVars(ResolvedNone) /\ SF_streamVars(ResolvedNew) /\ SF_streamVars(ResolvedSame)
  /\ SF_streamVars(AcceptStream) /\ SF_streamVars(OnLine)

StreamSpec == StreamInit /\ [][StreamNext]_streamVars /\ StreamFairness

-----------------------------------------------------------------------------
(* The page shows the lines of the running gateway in order and each of them  *)
(* once, whatever the backfill, the queue, the history and a reconnect hand   *)
(* it again; a line that is missing was pushed out of the buffer.  A page     *)
(* that was not told of a restart is excepted.                                *)
LinesInOrder ==
  ~behind /\ sessionId =>
    /\ \A i \in DOMAIN page :
         LET before == IF i = 1 THEN 0 ELSE page[i - 1].seq IN
         /\ page[i].boot = boot
         /\ page[i].seq > before
         /\ page[i].seq > before + 1 => page[i].seq - 1 <= Evicted
    /\ lineCursor = (IF page = <<>> THEN 0 ELSE Last(page).seq)

(* What is stored and kept is on the page of a live stream or on its way: an  *)
(* event stored between the snapshot and the queue is not dropped.            *)
NothingBetween ==
  stream.at = "live" /\ writer = "idle" /\ sessionId /\ ~behind =>
    \A seq \in (Evicted + 1)..stored : seq <= lineCursor \/ seq \in ToSet(feed)

(* The page and the buffer stay in step through backfill, history and         *)
(* reconnects.                                                                *)
StreamIsWhole == StreamTypeOK /\ LinesInOrder /\ NothingBetween

(* Again and again the page has every line that is kept, unless it was closed  *)
(* or waits behind the numbers of an earlier start: whatever connection or     *)
(* request failed.                                                             *)
PageCatchesUp ==
  []<>(\/ resolving = "closed" \/ behind
       \/ \A seq \in (Evicted + 1)..stored : [boot |-> boot, seq |-> seq] \in ToSet(page))
=============================================================================
