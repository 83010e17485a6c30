---------------------------- MODULE LlmSessions ----------------------------
(***************************************************************************)
(* What hermes_infoflow's adapter tells the LLM of a chat, and to which    *)
(* message an answer is attached (adapter.py).                             *)
(*                                                                         *)
(* An event is worked on in a session (one per group and user, or per DM   *)
(* peer).  Before its run the adapter may switch an idle session to a new  *)
(* one, and it announces how many messages of the chat the session has not *)
(* seen; a cursor kept in the database remembers how far it has.  A text   *)
(* that arrives during the run is steered into it, and the answer is then  *)
(* attached to the steered message instead of to the one that started it.  *)
(*                                                                         *)
(* The gateway (which task runs when, what it does with an event it cannot *)
(* steer) is external: it is modelled by how the adapter uses it.          *)
(***************************************************************************)
EXTENDS Naturals, FiniteSets, Sequences

CONSTANTS
  Msgs,        \* rows of the chats' tables, by message id
  Sessions,    \* session keys: the LLM context keys
  Chats,
  SessionOf,   \* the session of the sender of a message
  ChatOf,      \* the chat of a message
  Created,     \* created_time, in milliseconds
  IdRank,      \* the order of the message ids as strings
  Local,       \* messages this plugin sent itself
  Commands,    \* slash commands: events without infoflow_standard_message
  Media,       \* events with attachments
  Shared,      \* sessions several users of a chat share
  ScopeLimit,  \* the ids a reply scope keeps (20)
  MaxResets,   \* bound: idle resets of each session
  MaxTrims,    \* bound: rows the store's cleanup deletes
  NoMsg

ASSUME MessageAssumption ==
  /\ IsFiniteSet(Msgs)
  /\ SessionOf \in [Msgs -> Sessions]
  /\ ChatOf \in [Msgs -> Chats]
  /\ Created \in [Msgs -> Nat]
  /\ IdRank \in [Msgs -> Nat]
  /\ \A m, n \in Msgs : IdRank[m] = IdRank[n] => m = n
  /\ \A m, n \in Msgs : SessionOf[m] = SessionOf[n] => ChatOf[m] = ChatOf[n]
  /\ Local \subseteq Msgs /\ Commands \subseteq Msgs /\ Media \subseteq Msgs
  /\ Shared \subseteq Sessions
  /\ NoMsg \notin Msgs

ASSUME BoundAssumption == 
  /\ ScopeLimit \in Nat \ {0}
  /\ MaxResets \in [Sessions -> Nat]
  /\ MaxTrims \in Nat

VARIABLES
  written,    \* rows written to the message store so far
  trimmed,    \* those of them its cleanup has deleted
  clock,      \* the wall clock when the last row was written
  cursor,     \* last_llm_visible_message_id of each context
  late,       \* history: rows written after one they precede
  delivered,  \* events handed to the gateway
  turn,       \* the event each session's background task is working on
  phase,      \* how far that task is
  pending,    \* events the gateway keeps for later
  idle,       \* sessions not updated for longer than the idle limit
  epoch,      \* resets of each session so far
  boundary,   \* events whose text carries the session boundary line
  applied,    \* events with infoflow_unread_message_context_applied
  announced,  \* rows the unread line of an event counts
  told,       \* history: rows each session has been told of
  scope,      \* _busy_steer_reply_scope_by_session
  token,      \* _busy_steer_reaction_by_session, by the token's message
  steeredInto,\* history: the turn an event was steered into
  silent      \* history: sessions switched without their LLM being told,
              \* unless the turn that switched them was cancelled

store == <<written, trimmed, clock, late>>
steers == <<scope, token, steeredInto>>
resets == <<epoch, boundary, silent>>
context == <<cursor, applied, announced, told>>
tasks == <<delivered, turn, phase, pending>>
vars == <<store, steers, resets, context, tasks, idle>>

Phases == {"none", "starting", "resetting", "ready", "running",
           "succeeded", "failed"}

TypeOK ==
  /\ written \subseteq Msgs /\ trimmed \subseteq written
  /\ late \subseteq Msgs
  /\ clock \in Nat
  /\ cursor \in [Sessions -> Msgs \cup {NoMsg}]
  /\ delivered \subseteq Msgs
  /\ turn \in [Sessions -> Msgs \cup {NoMsg}]
  /\ phase \in [Sessions -> Phases]
  /\ pending \in [Sessions -> SUBSET Msgs]
  /\ idle \subseteq Sessions
  /\ epoch \in [Sessions -> Nat]
  /\ boundary \subseteq Msgs
  /\ applied \subseteq Msgs
  /\ announced \in [Msgs -> SUBSET Msgs]
  /\ told \in [Sessions -> SUBSET Msgs]
  /\ scope \in [Sessions -> Seq(Msgs)]
  /\ token \in [Sessions -> Msgs \cup {NoMsg}]
  /\ steeredInto \in [Msgs -> Msgs \cup {NoMsg}]
  /\ silent \subseteq Sessions
  /\ \A s \in Sessions :
       /\ phase[s] = "none" <=> turn[s] = NoMsg
       /\ phase[s] \in {"ready", "running"} /\ turn[s] \notin Commands =>
            turn[s] \in applied

Init ==
  /\ written = {} /\ trimmed = {} /\ clock = 0 /\ late = {}
  /\ cursor = [s \in Sessions |-> NoMsg]
  /\ delivered = {}
  /\ turn = [s \in Sessions |-> NoMsg]
  /\ phase = [s \in Sessions |-> "none"]
  /\ pending = [s \in Sessions |-> {}]
  /\ idle = {}
  /\ epoch = [s \in Sessions |-> 0]
  /\ boundary = {} /\ applied = {}
  /\ announced = [m \in Msgs |-> {}]
  /\ told = [s \in Sessions |-> {}]
  /\ scope = [s \in Sessions |-> <<>>]
  /\ token = [s \in Sessions |-> NoMsg]
  /\ steeredInto = [m \in Msgs |-> NoMsg]
  /\ silent = {}

stored == written \ trimmed
Standard(m) == m \notin Commands
Working(s) == phase[s] # "none"

-----------------------------------------------------------------------------
(* The message store: rows are ordered by (created_time, message_id) *)

Precedes(m, n) ==
  \/ Created[m] < Created[n]
  \/ Created[m] = Created[n] /\ IdRank[m] < IdRank[n]

After(s, m) == cursor[s] = NoMsg \/ Precedes(cursor[s], m)

\* Rows get their created_time when they are written, so the clock orders
\* them, except for those written within one millisecond.
Store(m) ==
  /\ m \notin written /\ Created[m] >= clock
  /\ written' = written \cup {m}
  /\ clock' = Created[m]
  /\ late' = IF \E n \in written : ChatOf[n] = ChatOf[m] /\ Precedes(m, n)
             THEN late \cup {m} ELSE late
  /\ UNCHANGED <<trimmed, steers, resets, context, tasks, idle>>

\* _auto_cleanup_table: retention and row limit delete the oldest rows.
Trim(m) ==
  /\ m \in stored /\ Cardinality(trimmed) < MaxTrims
  /\ \A n \in stored : Created[m] <= Created[n]
  /\ trimmed' = trimmed \cup {m}
  /\ UNCHANGED <<written, clock, late, steers, resets, context, tasks, idle>>

-----------------------------------------------------------------------------
(* The unread context and the cursor *)

Between(s, m) ==
  {n \in stored : ChatOf[n] = ChatOf[m] /\ After(s, n) /\ Precedes(n, m)}

\* Records from the first one that is not the plugin's own.
UnreadContext_OwnSession(s, m) ==
  IF m \notin stored THEN {}
  ELSE {n \in Between(s, m) : SessionOf[n] = s}
UnreadContext(s, m) ==
  IF m \notin stored THEN {}
  ELSE {n \in Between(s, m) :
          \E first \in Between(s, m) \ Local : n = first \/ Precedes(first, n)}

\* _mark_event_llm_visible: the cursor only moves forward.
MarkVisible(s, m) ==
  IF m \in stored /\ After(s, m) THEN [cursor EXCEPT ![s] = m] ELSE cursor

\* What a session knows once m has been passed to its run.
Told(s, m) == [told EXCEPT ![s] = @ \cup {m} \cup announced'[m]]

-----------------------------------------------------------------------------
(* on_processing_start *)

NeedsContext(m) == Standard(m) /\ m \notin applied

HasRunningWork_ProcessesOnly(s, processes) == processes
HasRunningWork(s, processes) == phase[s] = "running" \/ processes

\* processes: the session has background processes, or the check raised.
ResetDue(s, processes) ==
  /\ s \in idle
  /\ ~HasRunningWork(s, processes)

ResetSession(s) ==
  /\ epoch' = [epoch EXCEPT ![s] = @ + 1]
  /\ idle' = idle \ {s}
  /\ silent' = silent \cup {s}

ApplyContext(s, m) ==
  /\ applied' = applied \cup {m}
  /\ announced' = [announced EXCEPT ![m] = UnreadContext(s, m)]

StartHook(s, processes) ==
  /\ phase[s] = "starting"
  /\ LET m == turn[s] IN
     \/ /\ ~NeedsContext(m)
        /\ phase' = [phase EXCEPT ![s] = "ready"]
        /\ UNCHANGED <<context, resets, idle>>
     \/ /\ NeedsContext(m) /\ ~ResetDue(s, processes)
        /\ ApplyContext(s, m)
        /\ phase' = [phase EXCEPT ![s] = "ready"]
        /\ UNCHANGED <<cursor, told, resets, idle>>
     \/ /\ NeedsContext(m) /\ ResetDue(s, processes)
        /\ ResetSession(s)
        /\ phase' = [phase EXCEPT ![s] = "resetting"]
        /\ UNCHANGED <<context, boundary>>
  /\ UNCHANGED <<store, steers, delivered, turn, pending>>

\* The session:end and session:reset hooks have been awaited.
ResetHooksReturn(s) ==
  /\ phase[s] = "resetting"
  /\ boundary' = boundary \cup {turn[s]}
  /\ ApplyContext(s, turn[s])
  /\ phase' = [phase EXCEPT ![s] = "ready"]
  /\ UNCHANGED <<store, steers, epoch, silent, cursor, told,
                 delivered, turn, pending, idle>>

-----------------------------------------------------------------------------
(* The gateway: it starts, ends, cancels and queues *)

StartTurn(s, m) ==
  /\ turn' = [turn EXCEPT ![s] = m]
  /\ phase' = [phase EXCEPT ![s] = "starting"]

\* spawn_dispatch: the task of a stored event reaches handle_message.
Deliver(m) ==
  /\ m \in stored \ (Local \cup delivered)
  /\ ~Working(SessionOf[m])
  /\ delivered' = delivered \cup {m}
  /\ StartTurn(SessionOf[m], m)
  /\ UNCHANGED <<store, steers, resets, context, pending, idle>>

\* The agent is registered in _running_agents and gets the event's text.
AgentStarts(s) ==
  /\ phase[s] = "ready"
  /\ phase' = [phase EXCEPT ![s] = "running"]
  /\ idle' = idle \ {s}
  /\ silent' = IF turn[s] \in boundary THEN silent \ {s} ELSE silent
  /\ UNCHANGED <<store, steers, epoch, boundary, context, delivered,
                 turn, pending>>

AgentEnds(s) ==
  /\ phase[s] = "running"
  /\ \E outcome \in {"succeeded", "failed"} :
       phase' = [phase EXCEPT ![s] = outcome]
  /\ idle' = idle \ {s}
  /\ UNCHANGED <<store, steers, resets, context, delivered, turn, pending>>

\* The task is cancelled before its run.
CancelTurn(s) ==
  /\ phase[s] \in {"starting", "resetting", "ready"}
  /\ phase' = [phase EXCEPT ![s] = "failed"]
  /\ silent' = silent \ {s}
  /\ UNCHANGED <<store, steers, epoch, boundary, context, delivered, turn,
                 pending, idle>>

BecomeIdle(s) ==
  /\ phase[s] \in {"none", "running"} /\ epoch[s] < MaxResets[s]
  /\ idle' = idle \cup {s}
  /\ UNCHANGED <<store, steers, resets, context, tasks>>

-----------------------------------------------------------------------------
(* _handle_infoflow_busy_message: an event for a session at work *)

SteerCandidate(s, m) ==
  /\ Standard(m) /\ m \notin Media
  /\ s \notin Shared
  /\ phase[s] = "running"

\* _remember_busy_steer_reply_scope
Scoped(s, m) ==
  LET ids == IF \E i \in DOMAIN scope[s] : scope[s][i] = m
             THEN scope[s] ELSE Append(scope[s], m)
      cut == IF Len(ids) > ScopeLimit THEN Len(ids) - ScopeLimit ELSE 0
  IN  SubSeq(ids, cut + 1, Len(ids))

\* The hook's reset finds the running agent and is never due here.
Steer(m, processes) ==
  LET s == SessionOf[m] IN
  /\ m \in stored \ (Local \cup delivered)
  /\ SteerCandidate(s, m)
  /\ delivered' = delivered \cup {m}
  /\ IF ResetDue(s, processes) THEN ResetSession(s)
     ELSE UNCHANGED <<epoch, idle, silent>>
  /\ ApplyContext(s, m)
  /\ \E hasToken \in BOOLEAN :
       token' = IF hasToken THEN [token EXCEPT ![s] = m] ELSE token
  /\ scope' = [scope EXCEPT ![s] = Scoped(s, m)]
  /\ steeredInto' = [steeredInto EXCEPT ![m] = turn[s]]
  /\ cursor' = MarkVisible(s, m)
  /\ told' = Told(s, m)
  /\ UNCHANGED <<store, boundary, turn, phase, pending>>

\* Not a candidate, or the agent refused it and text and flags were restored.
Queue(m) ==
  LET s == SessionOf[m] IN
  /\ m \in stored \ (Local \cup delivered)
  /\ Working(s)
  /\ delivered' = delivered \cup {m}
  /\ pending' = [pending EXCEPT ![s] = @ \cup {m}]
  /\ UNCHANGED <<store, steers, resets, context, turn, phase, idle>>

-----------------------------------------------------------------------------
(* Answers and on_processing_complete *)

\* _resolve_busy_steer_outbound_reply_to for a send to chat c that replies to
\* the message m of the running context; the session is m's sender's.
ReplyAnchor_AnyOfChat(m, c) ==
  LET scoped == UNION {{scope[s][i] : i \in DOMAIN scope[s]} :
                         s \in {SessionOf[n] : n \in {x \in Msgs : ChatOf[x] = c}}}
  IN  IF m \notin stored \/ ChatOf[m] # c \/ scoped = {} THEN m
      ELSE IF Cardinality(scoped) = 1 THEN CHOOSE n \in scoped : TRUE ELSE NoMsg
ReplyAnchor(m, c) ==
  LET scoped == scope[SessionOf[m]]
  IN  IF m \notin stored \/ ChatOf[m] # c \/ scoped = <<>> THEN m
      ELSE IF Len(scoped) = 1 THEN scoped[1] ELSE NoMsg

\* _finish_busy_steer_reaction_for_event: token and scope go together.
DropSteers(s) ==
  /\ scope' = [scope EXCEPT ![s] = <<>>]
  /\ token' = [token EXCEPT ![s] = NoMsg]
  /\ UNCHANGED steeredInto

Visible(s) == phase[s] = "succeeded" /\ Standard(turn[s])

Complete(s) ==
  /\ phase[s] \in {"succeeded", "failed"}
  /\ \/ /\ Visible(s)
        /\ cursor' = MarkVisible(s, turn[s])
        /\ told' = [told EXCEPT ![s] = @ \cup {turn[s]} \cup announced[turn[s]]]
     \/ ~Visible(s) /\ UNCHANGED <<cursor, told>>
  /\ DropSteers(s)
  /\ \/ /\ pending[s] = {}
        /\ turn' = [turn EXCEPT ![s] = NoMsg]
        /\ phase' = [phase EXCEPT ![s] = "none"]
        /\ UNCHANGED pending
     \/ \E m \in pending[s] :
          /\ StartTurn(s, m)
          /\ pending' = [pending EXCEPT ![s] = @ \ {m}]
  /\ UNCHANGED <<store, resets, applied, announced, delivered, idle>>

\* The gateway restarts: rows and cursors survive.
Restart ==
  /\ \E s \in Sessions : Working(s)
  /\ turn' = [s \in Sessions |-> NoMsg]
  /\ phase' = [s \in Sessions |-> "none"]
  /\ pending' = [s \in Sessions |-> {}]
  /\ scope' = [s \in Sessions |-> <<>>]
  /\ token' = [s \in Sessions |-> NoMsg]
  /\ silent' = {}
  /\ UNCHANGED <<store, epoch, boundary, context, delivered, idle,
                 steeredInto>>

-----------------------------------------------------------------------------
Next ==
  \/ \E m \in Msgs : Store(m) \/ Trim(m) \/ Deliver(m) \/ Queue(m)
  \/ \E m \in Msgs, processes \in BOOLEAN : Steer(m, processes)
  \/ \E s \in Sessions, processes \in BOOLEAN : StartHook(s, processes)
  \/ \E s \in Sessions : \/ ResetHooksReturn(s) \/ AgentStarts(s)
                         \/ AgentEnds(s) \/ CancelTurn(s) \/ BecomeIdle(s)
                         \/ Complete(s)
  \/ Restart

Spec == Init /\ [][Next]_vars

-----------------------------------------------------------------------------
(* Properties *)

\* The cursor never runs ahead of what the session was told: every message of
\* the chat up to it was worked on, steered or announced as unread, unless it
\* was the plugin's own or was written out of order within its millisecond
\* (adapter.py:1603-1676, 1023, 2113).
BelowCursorTold ==
  \A s \in Sessions : cursor[s] # NoMsg =>
    \A m \in stored \ (Local \cup late) :
      /\ ChatOf[m] = ChatOf[cursor[s]]
      /\ ~After(s, m)
      => m \in told[s]

\* A remembered reply scope or reaction token belongs to a run in progress,
\* and every message in it was steered into that very run: nothing of a
\* finished turn is left for the next one (adapter.py:829-873, 1017-1025).
SteersOfLiveRun ==
  \A s \in Sessions :
    /\ scope[s] # <<>> \/ token[s] # NoMsg =>
         phase[s] \in {"running", "succeeded", "failed"}
    /\ token[s] # NoMsg => steeredInto[token[s]] = turn[s]
    /\ \A i \in DOMAIN scope[s] : steeredInto[scope[s][i]] = turn[s]

\* An automatic reply quotes the message that started the turn or the only one
\* steered into it, and quotes none only when several were: never a message
\* of another user's session or of another turn (adapter.py:1511-1565).
AnchorInTurn ==
  \A s \in Sessions, c \in Chats :
    phase[s] \in {"running", "succeeded", "failed"} =>
      LET q == ReplyAnchor(turn[s], c)
      IN  \/ q = turn[s]
          \/ q # NoMsg /\ steeredInto[q] = turn[s]
          \/ /\ q = NoMsg
             /\ Cardinality({m \in Msgs : steeredInto[m] = turn[s]}) > 1

\* A run that works in a switched session has been told so, unless the turn
\* that switched it was cancelled before it ran (adapter.py:2338-2412).
SwitchIsAnnounced ==
  \A s \in Sessions : phase[s] = "running" => s \notin silent

\* What a run goes by is its own: the steered messages, the message its answer
\* quotes, and the news that its session is a new one (adapter.py:829-873,
\* 1017-1025, 1511-1565, 2338-2412).
AnswersAreAnchored == TypeOK /\ SteersOfLiveRun /\ AnchorInTurn /\ SwitchIsAnnounced

\* A session is never switched under a running agent (adapter.py:2364).
NoSwitchUnderRun ==
  [][\A s \in Sessions : epoch'[s] # epoch[s] => phase[s] # "running"]_vars

\* The cursor of a session never goes back, whichever of a turn and the
\* messages steered into it is marked last, and over restarts.
CursorOnlyForward ==
  [][\A s \in Sessions :
       cursor'[s] = cursor[s] \/ cursor[s] = NoMsg
       \/ Precedes(cursor[s], cursor'[s])]_vars

\* A session is switched between its runs only, and what it has seen stays seen
\* whatever comes between (adapter.py:1671, 2364-2412).
SwitchesAreSafe == NoSwitchUnderRun /\ CursorOnlyForward

=============================================================================
