---------------------------- MODULE TerminalView ----------------------------
(* What a page shows of one PTY's output: the session's bounded buffer with  *)
(* its cursors (sessiontracker_terminal.py), the two ways to read it (HTTP   *)
(* long poll with a cursor; websocket with a replay and then the output as   *)
(* it comes) and the page's script that moves between them                   *)
(* (sessiontracker.py: connectTerminalWs, startTerminalHttpFallback).        *)
(*                                                                           *)
(* Output is numbered from 1; the buffer keeps the last BufferLimit.  A      *)
(* desktop page connects by websocket and falls back to HTTP, a mobile page  *)
(* polls and tries the websocket in the background.                          *)
EXTENDS Naturals, Sequences, SequencesExt

CONSTANTS BufferLimit, MaxOutput     \* MaxOutput bounds the model

ASSUME BufferAssumption == BufferLimit \in Nat \ {0} /\ MaxOutput \in Nat

VARIABLES
  mobile,     \* isMobileTerminalClient()
  output,     \* session.output_cursor
  ws,         \* the page's websocket: none, connecting, attached, open
  wire,       \* what the server has sent on it and the page has not handled
  poll,       \* the page's current polling loop
  status,     \* the status line, which onclose reads
  cursor,     \* terminalOutputCursor
  screen      \* what the page has written since it was last cleared

viewVars == <<mobile, output, ws, wire, poll, status, cursor, screen>>

Off == [at |-> "off"]
Idle == [at |-> "idle"]
PollStates ==
  {Off, Idle} \cup [at : {"asked"}, after : 0..MaxOutput]
    \cup [at : {"answered"}, lo : 0..MaxOutput, hi : 0..MaxOutput, overflow : BOOLEAN]

Frames == [lo : 0..MaxOutput, hi : 0..MaxOutput, replay : BOOLEAN]

ViewTypeOK ==
  /\ mobile \in BOOLEAN
  /\ output \in 0..MaxOutput /\ cursor \in 0..MaxOutput
  /\ ws \in {"none", "connecting", "attached", "open"}
  /\ \A i \in DOMAIN wire : wire[i] \in Frames
  /\ poll \in PollStates
  /\ status \in {"Connecting", "Connected", "HTTP", "other"}
  /\ \A i \in DOMAIN screen : screen[i] \in 1..MaxOutput

(* The output numbered lo+1 .. hi. *)
Text(lo, hi) == [i \in 1..(IF hi > lo THEN hi - lo ELSE 0) |-> lo + i]

(* session.output_buffer_start_cursor *)
Base == IF output > BufferLimit THEN output - BufferLimit ELSE 0

(* connectAdminTerminal: a clean page that starts over. *)
Opening(isMobile) ==
  [poll |-> IF isMobile THEN Idle ELSE Off,
   status |-> IF isMobile THEN "HTTP" ELSE "Connecting"]

ViewInit ==
  /\ mobile \in BOOLEAN
  /\ output = 0 /\ cursor = 0
  /\ ws = "none" /\ wire = <<>> /\ poll = Off
  /\ status = "other"
  /\ screen = <<>>

-----------------------------------------------------------------------------
(* _append_output and _broadcast_output: a connection that is attached gets *)
(* the output, whether or not the page has seen it open.                    *)
(* Mutant: subscribed only once the page has seen the connection open. *)
SubscribedWhenOpen == ws = "open"

Subscribed == ws \in {"attached", "open"}

Produce ==
  /\ output < MaxOutput
  /\ output' = output + 1
  /\ wire' = IF Subscribed
               THEN Append(wire, [lo |-> output, hi |-> output + 1, replay |-> FALSE])
               ELSE wire
  /\ UNCHANGED <<mobile, ws, poll, status, cursor, screen>>

(* run_terminal_websocket: subscribed and replayed in one go. *)
ServerAttaches ==
  /\ ws = "connecting"
  /\ ws' = "attached"
  /\ wire' = IF output > Base
               THEN <<[lo |-> Base, hi |-> output, replay |-> TRUE]>> ELSE <<>>
  /\ UNCHANGED <<mobile, output, poll, status, cursor, screen>>

(* onopen: the polling is stopped, an answer under way is dropped. *)
OnOpen ==
  /\ ws = "attached"
  /\ ws' = "open"
  /\ poll' = Off
  /\ status' = "Connected"
  /\ UNCHANGED <<mobile, output, wire, cursor, screen>>

(* onmessage: a replay is cut at the cursor, other output is written as is. *)
Written(frame) ==
  IF frame.replay
    THEN Text(IF cursor > frame.lo THEN cursor ELSE frame.lo, frame.hi)
    ELSE Text(frame.lo, frame.hi)

OnMessage ==
  /\ ws = "open" /\ wire # <<>>
  /\ screen' = screen \o Written(Head(wire))
  /\ cursor' = IF Head(wire).hi > cursor THEN Head(wire).hi ELSE cursor
  /\ wire' = Tail(wire)
  /\ UNCHANGED <<mobile, output, ws, poll, status>>

(* fallbackTerminalFromWs: poll from where the page is. *)
FallBack ==
  /\ poll' = Idle
  /\ status' = "HTTP"

(* onerror, or ten seconds without an open: a background connection is *)
(* abandoned, whoever else reads the output by then; another one is    *)
(* replaced by polling.                                                *)
OnError ==
  /\ ws # "none"
  /\ ws' = "none" /\ wire' = <<>>
  /\ IF mobile THEN UNCHANGED <<poll, status>> ELSE FallBack
  /\ UNCHANGED <<mobile, output, cursor, screen>>

(* onclose with no error before it, of a connection that was open. *)
OnClose ==
  /\ ws = "open"
  /\ ws' = "none" /\ wire' = <<>>
  /\ IF status = "Connected" THEN FallBack ELSE UNCHANGED <<poll, status>>
  /\ UNCHANGED <<mobile, output, cursor, screen>>

(* terminalCopyText, an input error and others write to the status line. *)
OtherStatus ==
  /\ ws = "open" /\ status = "Connected"
  /\ status' = "other"
  /\ UNCHANGED <<mobile, output, ws, wire, poll, cursor, screen>>

-----------------------------------------------------------------------------
(* The polling loop. *)
Ask ==
  /\ poll = Idle
  /\ poll' = [at |-> "asked", after |-> cursor]
  /\ UNCHANGED <<mobile, output, ws, wire, status, cursor, screen>>

(* read_output, when there is something new or the wait is over. *)
Answer ==
  /\ poll.at = "asked"
  /\ poll' = [at |-> "answered",
              lo |-> IF poll.after < Base THEN Base ELSE poll.after,
              hi |-> output, overflow |-> poll.after < Base]
  /\ UNCHANGED <<mobile, output, ws, wire, status, cursor, screen>>

OnAnswer ==
  /\ poll.at = "answered"
  /\ screen' = (IF poll.overflow THEN <<>> ELSE screen) \o Text(poll.lo, poll.hi)
  /\ cursor' = poll.hi
  /\ poll' = Idle
  /\ UNCHANGED <<mobile, output, ws, wire, status>>

(* The request or its answer is lost: the loop tries again. *)
RequestFails ==
  /\ poll.at \in {"asked", "answered"}
  /\ poll' = Idle
  /\ UNCHANGED <<mobile, output, ws, wire, status, cursor, screen>>

-----------------------------------------------------------------------------
(* Nothing reads the output any more. *)
Stranded == ws = "none" /\ poll = Off

(* The user opens the panel, or picks the terminal again. *)
Open ==
  /\ Stranded
  /\ ws' = "connecting"
  /\ poll' = Opening(mobile).poll /\ status' = Opening(mobile).status
  /\ cursor' = 0 /\ screen' = <<>>
  /\ UNCHANGED <<mobile, output, wire>>

ViewNext ==
  \/ Produce \/ ServerAttaches \/ OnOpen \/ OnMessage \/ OnError \/ OnClose
  \/ OtherStatus \/ Ask \/ Answer \/ OnAnswer \/ RequestFails \/ Open

(* The browser delivers what has arrived, the loop asks again, and requests *)
(* do not fail for ever.  Nobody has to reopen a page.                      *)
ViewFairness ==
  /\ WF_viewVars(ServerAttaches \/ OnError) /\ WF_viewVars(OnOpen \/ OnError)
  /\ WF_viewVars(OnMessage) /\ WF_viewVars(Ask)
  /\ SF_viewVars(Answer) /\ SF_viewVars(OnAnswer)

ViewSpec == ViewInit /\ [][ViewNext]_viewVars /\ ViewFairness

-----------------------------------------------------------------------------
(* A desktop page shows the output in order, each piece once and with no gap, *)
(* and its cursor is where its screen ends: through the replay, the fall back *)
(* to HTTP in the middle of the output and an overflow of the buffer.  (On a  *)
(* mobile page an answer that overlaps the websocket's output is shown twice.) *)
DesktopInOrder ==
  ~mobile /\ screen # <<>> =>
    /\ \A i \in 1..(Len(screen) - 1) : screen[i + 1] = screen[i] + 1
    /\ Last(screen) = cursor

(* On an open connection everything the session still keeps is on the screen  *)
(* or on its way, on a mobile page too: whatever its polling had got or lost. *)
NothingKeptIsMissed ==
  ws = "open" =>
    \A n \in (Base + 1)..output :
      \/ n \in ToSet(screen)
      \/ \E f \in ToSet(wire) : f.lo < n /\ n <= f.hi

(* A desktop page is left without any transport only when another message had *)
(* taken the place of "Connected" in the status line.                         *)
StrandedByStatus == Stranded /\ ~mobile => status = "other"

(* A page that changes its transport in the middle of the output neither      *)
(* loses nor repeats any of it, and is not left without a transport.          *)
ViewIsWhole == ViewTypeOK /\ DesktopInOrder /\ NothingKeptIsMissed /\ StrandedByStatus

(* Again and again the page has all of the output, as long as something reads *)
(* it: whatever connection or request failed.                                 *)
ViewCatchesUp == []<>(cursor = output \/ Stranded)
=============================================================================
