------------------------------- MODULE Policy -------------------------------
(***************************************************************************)
(* The decision functions of hermes_infoflow/policy.py: per-group          *)
(* configuration, the follow-up window and evaluate_inbound.  What a       *)
(* message is, as far as they can tell, is a record of Facts: the bot was  *)
(* mentioned, one of its messages is quoted, the watch list or a watch     *)
(* pattern matches, somebody else is mentioned.                            *)
(***************************************************************************)
EXTENDS Integers

CONSTANTS
  Groups,          \* group ids
  Base,            \* the account's settings, see Settings
  Overrides,       \* per_group_overrides: group -> the fields it sets
  RequireMention,  \* require_mention
  EngagedWindow    \* engaged_window of sender_engaged_recently

Modes == {"ignore", "record", "mention-only", "mention-and-watch", "proactive"}
Settings == [mode : Modes, followUp : BOOLEAN, window : Nat, watch : BOOLEAN]
Fields == {"mode", "followUp", "window", "watch"}
Replace(settings, changed) ==
  [k \in Fields |-> IF k \in DOMAIN changed THEN changed[k] ELSE settings[k]]

ASSUME PolicyAssumption ==
  /\ Base \in Settings
  /\ DOMAIN Overrides \subseteq Groups
  /\ \A g \in DOMAIN Overrides : Replace(Base, Overrides[g]) \in Settings
  /\ RequireMention \in BOOLEAN
  /\ EngagedWindow \in Nat

Facts == [mentioned : BOOLEAN, quoted : BOOLEAN, watched : BOOLEAN,
          pattern : BOOLEAN, others : BOOLEAN]

Never == -1

\* _resolve_for_group: an override replaces the fields it sets.  watch says
\* whether the group's watch list and patterns are not empty.
ResolveForGroup(g) ==
  IF g \in DOMAIN Overrides THEN Replace(Base, Overrides[g]) ELSE Base

\* _within_follow_up_window
WithinWindow(last, window, now) ==
  window > 0 /\ last # Never /\ now - last <= window

\* sender_engaged_recently
EngagedRecently(mentioned, replied, now) ==
  \/ mentioned # Never /\ now - mentioned <= EngagedWindow
  \/ replied # Never /\ now - replied <= EngagedWindow

Dispatch(trigger) == [action |-> "dispatch", trigger |-> trigger]
Held(action) == [action |-> action, trigger |-> ""]

\* The tail both mention modes share: the follow-up window, then
\* require_mention.
FollowUpOrHold(f, eff, last, now) ==
  IF eff.followUp /\ WithinWindow(last, eff.window, now)
  THEN IF f.others THEN Held("record") ELSE Dispatch("followUp")
  ELSE IF RequireMention THEN Held("record") ELSE Dispatch("require_mention=false")

\* evaluate_inbound for a group message.
EvaluateInbound(g, f, last, now) ==
  LET eff == ResolveForGroup(g)
      direct == f.mentioned \/ f.quoted
  IN  CASE eff.mode = "ignore" -> Held("skip")
        [] eff.mode = "record" -> Held("record")
        [] eff.mode = "proactive" -> Dispatch(IF direct THEN "bot-mentioned" ELSE "proactive")
        [] eff.mode = "mention-only" ->
             IF direct THEN Dispatch("bot-mentioned")
             ELSE FollowUpOrHold(f, eff, last, now)
        [] eff.mode = "mention-and-watch" ->
             IF direct THEN Dispatch("bot-mentioned")
             ELSE IF eff.watch /\ f.watched THEN Dispatch("watchMentions")
             ELSE IF eff.watch /\ f.pattern THEN Dispatch("watchRegex")
             ELSE FollowUpOrHold(f, eff, last, now)

\* evaluate_inbound sets needs_sender_context on the follow-up path only.
NeedsSenderContext(decision) == decision.trigger = "followUp"

\* build_follow_up_prompt: the template for a message on that path.
FollowUpTemplate(f, engaged) ==
  IF f.quoted THEN "reply_to_bot" ELSE IF engaged THEN "engaged" ELSE "passive"

=============================================================================
