---------------------------- MODULE DisplayHooks ----------------------------
(* What one turn of an agent leaves on the Session Tracker page: the hooks   *)
(* that turn Hermes' callbacks into display events (dashboard.py:            *)
(* make_plugin_hooks) and the page's script that renders them                *)
(* (sessiontracker.py: appendBlock).                                         *)
(*                                                                           *)
(* A turn is a row of model calls, each with one text; between two calls it  *)
(* runs tools.  Hermes' side is what the comments in the hooks say of it: a  *)
(* text is streamed or not, a stream may miss its final boundary, a text     *)
(* before tools is announced as an interim message, and a tool that has      *)
(* progress reports start, post, end in this order.                          *)
EXTENDS Naturals, FiniteSets

CONSTANTS
  Calls,       \* model calls of the turn: 1..n, the last has the answer
  Tools,       \* tool_call_ids
  NoStream     \* no open stream

ASSUME CallsAssumption ==
  Calls # {} /\ IsFiniteSet(Calls) /\ Calls = 1..Cardinality(Calls) /\ NoStream \notin Calls

VARIABLES
  call,         \* the model call under way
  phase,        \* of the call: open, streaming, sealed, done; or the turn is over
  streamState,  \* _stream_state: the stream that has no final boundary yet
  lastStreamed, \* _last_streamed_text
  started,      \* _tool_progress_started
  toolAt,       \* Hermes: where a tool is, and whether it reports progress
  boxes,        \* the page: [call of the text, stream, finished] boxes
  toolLines     \* the page: lines per tool

hookVars == <<call, phase, streamState, lastStreamed, started, toolAt, boxes, toolLines>>

LastCall == CHOOSE c \in Calls : \A d \in Calls : d <= c

Streams == Calls      \* each call's stream has an id of its own
Box == [text : Calls, stream : Streams \cup {NoStream}, finished : BOOLEAN]
Where == {"none", "start", "post", "plain", "end"}

HookTypeOK ==
  /\ call \in Calls
  /\ phase \in {"open", "streaming", "sealed", "tools", "over"}
  /\ streamState \in Streams \cup {NoStream}
  /\ lastStreamed \in Calls \cup {NoStream}
  /\ started \subseteq Tools
  /\ toolAt \in [Tools -> Where]
  /\ boxes \subseteq Box
  /\ toolLines \in [Tools -> 0..3]

HookInit ==
  /\ call = 1 /\ phase = "open"
  /\ streamState = NoStream /\ lastStreamed = NoStream
  /\ started = {} /\ toolAt = [t \in Tools |-> "none"]
  /\ boxes = {} /\ toolLines = [t \in Tools |-> 0]

-----------------------------------------------------------------------------
(* appendBlock for a stream: the open box of that stream takes the new text; *)
(* a finished one is no longer known.                                        *)
OpenBox(s) == {b \in boxes : b.stream = s /\ ~b.finished}

RenderStream(s, text, final) ==
  boxes' = (boxes \ OpenBox(s)) \cup {[text |-> text, stream |-> s, finished |-> final]}

(* ... and for display.hermes and display.interim. *)
RenderText(text) ==
  boxes' = boxes \cup {[text |-> text, stream |-> NoStream, finished |-> TRUE]}

-----------------------------------------------------------------------------
(* on_stream_delta *)
Delta ==
  /\ phase \in {"open", "streaming"}
  /\ phase' = "streaming"
  /\ streamState' = call
  /\ RenderStream(call, call, FALSE)
  /\ UNCHANGED <<call, lastStreamed, started, toolAt, toolLines>>

StreamFinal ==
  /\ phase = "streaming"
  /\ phase' = "sealed"
  /\ streamState' = NoStream
  /\ lastStreamed' = call
  /\ RenderStream(call, call, TRUE)
  /\ UNCHANGED <<call, started, toolAt, toolLines>>

(* on_interim_assistant: shown unless it was streamed. *)
InterimShown == phase = "open"

(* The text of a call that goes on with tools.  A streamed one had its       *)
(* boundary, which Hermes sets where a stream is interrupted by tools.       *)
Interim ==
  /\ call < LastCall /\ phase \in {"open", "sealed"}
  /\ phase' = "tools"
  /\ IF InterimShown THEN RenderText(call) ELSE UNCHANGED boxes
  /\ UNCHANGED <<call, streamState, lastStreamed, started, toolAt, toolLines>>

NextCall ==
  /\ phase = "tools"
  /\ \A t \in Tools : toolAt[t] \in {"none", "plain", "end"}
  /\ call' = call + 1 /\ phase' = "open"
  /\ UNCHANGED <<streamState, lastStreamed, started, toolAt, boxes, toolLines>>

(* Mutant: no look at what was streamed and sealed already. *)
PostLlmCallAgain ==
  /\ call = LastCall /\ phase \in {"open", "streaming", "sealed"}
  /\ phase' = "over"
  /\ streamState' = NoStream /\ lastStreamed' = NoStream
  /\ IF streamState # NoStream THEN RenderStream(streamState, call, TRUE)
     ELSE RenderText(call)
  /\ UNCHANGED <<call, started, toolAt, toolLines>>

(* post_llm_call, with the answer of the turn: it seals a stream that had no  *)
(* boundary, adds nothing to one that was sealed with this text, and else     *)
(* shows it.                                                                  *)
PostLlmCall ==
  /\ call = LastCall /\ phase \in {"open", "streaming", "sealed"}
  /\ phase' = "over"
  /\ streamState' = NoStream /\ lastStreamed' = NoStream
  /\ IF streamState # NoStream THEN RenderStream(streamState, call, TRUE)
     ELSE IF lastStreamed = call THEN UNCHANGED boxes
     ELSE RenderText(call)
  /\ UNCHANGED <<call, started, toolAt, toolLines>>

-----------------------------------------------------------------------------
(* Tools.  A progress line is one line that is updated in place. *)
ProgressStart(t) ==
  /\ phase = "tools" /\ toolAt[t] = "none"
  /\ toolAt' = [toolAt EXCEPT ![t] = "start"]
  /\ started' = started \cup {t}
  /\ toolLines' = [toolLines EXCEPT ![t] = @ + 1]
  /\ UNCHANGED <<call, phase, streamState, lastStreamed, boxes>>

(* post_tool_call of a tool with progress, or of one without. *)
SuppressToolLine(t) == t \in started

PostToolCall(t) ==
  /\ phase = "tools" /\ toolAt[t] \in {"none", "start"}
  /\ toolAt' = [toolAt EXCEPT ![t] = IF @ = "start" THEN "post" ELSE "plain"]
  /\ toolLines' = [toolLines EXCEPT ![t] = IF SuppressToolLine(t) THEN @ ELSE @ + 1]
  /\ UNCHANGED <<call, phase, streamState, lastStreamed, started, boxes>>

ProgressEnd(t) ==
  /\ phase = "tools" /\ toolAt[t] = "post"
  /\ toolAt' = [toolAt EXCEPT ![t] = "end"]
  /\ started' = started \ {t}
  /\ UNCHANGED <<call, phase, streamState, lastStreamed, boxes, toolLines>>

HookNext ==
  \/ Delta \/ StreamFinal \/ Interim \/ NextCall \/ PostLlmCall
  \/ \E t \in Tools : ProgressStart(t) \/ PostToolCall(t) \/ ProgressEnd(t)

HookSpec == HookInit /\ [][HookNext]_hookVars

-----------------------------------------------------------------------------
(* When the turn is over each of its texts stands on the page once, in a      *)
(* finished box: streamed or not, sealed or not, with tools in between.       *)
EachTextOnce ==
  /\ \A c \in Calls : Cardinality({b \in boxes : b.text = c}) <= 1
  /\ phase = "over" =>
       \A c \in Calls : \E b \in boxes : b.text = c /\ b.finished

(* A tool that has ended has one line. *)
EachToolOnce ==
  \A t \in Tools : toolAt[t] \in {"plain", "end"} => toolLines[t] = 1

(* Everything a turn says and does is on the page, once. *)
ShownOnce == HookTypeOK /\ EachTextOnce /\ EachToolOnce
=============================================================================
