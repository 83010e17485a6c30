---------------------------- MODULE InboundProofs ----------------------------
(***************************************************************************)
(* Proofs about the inbound side: the webhook server, the intake of data   *)
(* frames, the follow-up policy, the pipeline of the bot and the parser,   *)
(* each on its own and for any messages, requests, groups and bounds.      *)
(***************************************************************************)
EXTENDS InboundPipeline, FrameIntake, FollowUpPolicy, MessageParsing, WebhookServer,
        FiniteSetTheorems, SequenceTheorems, TLAPS

(***************************************************************************)
(* The webhook server.  A request has at most one reader, so its answer    *)
(* cannot turn into a success while a task for it is being made; and       *)
(* whatever connect() and disconnect() do, each runner is the adapter's or *)
(* one of a failed bind.                                                   *)
(***************************************************************************)

\* A request that is being read has not been answered for good.
ReadIsOpen == \A r \in reading : answer[r] # 200

\* Each runner is the adapter's or one whose bind failed, and an idle adapter
\* that is not connected has none but those.
RunnersKnown ==
  /\ up \ failedBinds \subseteq {runner}
  /\ bindPc = "idle" /\ closePc = "idle" /\ ~receiving => up \subseteq failedBinds

\* While no disconnect() has met a connect(), the two take turns.
PortInTurns ==
  ~met =>
    /\ bindPc = "idle" \/ closePc = "idle"
    /\ bindPc = "setup" => ~receiving /\ listening = NoSite /\ runner # NoSite
    /\ bindPc = "bound" =>
         ~receiving /\ listening # NoSite /\ listening = site /\ site = runner
    /\ closePc = "cleanup" => listening = NoSite

\* The type invariant, by halves.
PortTyped ==
  /\ up \subseteq 1 .. binds /\ failedBinds \subseteq 1 .. binds
  /\ runner \in 0 .. binds /\ site \in 0 .. binds /\ listening \in 0 .. binds
  /\ bindPc \in {"idle", "setup", "bound"} /\ closePc \in {"idle", "cleanup"}
  /\ binds \in 0 .. MaxBinds
  /\ bindPc = "setup" => binds > 0
Flags == taken \in BOOLEAN /\ receiving \in BOOLEAN /\ met \in BOOLEAN
RequestsTyped ==
  /\ reading \subseteq Requests /\ answer \in [Requests -> {0, 200, 400, 403, 500}]
  /\ spawned \in [Requests -> Nat] /\ unseen \in [Requests -> Nat] /\ sends \in [Requests -> Nat]

PortInv == PortTyped /\ Flags /\ PortFollowsAdapter /\ RunnersKnown /\ PortInTurns
RequestInv == RequestsTyped /\ AnsweredIsSpawned /\ NoOtherIsSpawned /\ ReadIsOpen
WebhookInv == PortInv /\ RequestInv

\* A message is what has content, and it is answered with success.
LEMMA MessagesHaveContent ==
  ASSUME NEW r \in Requests
  PROVE  /\ ParseRequest(ShapeOf[r]).status \in {200, 400, 403, 500}
         /\ ParseRequest(ShapeOf[r]).kind = "message" =>
              ShapeOf[r].content /\ ParseRequest(ShapeOf[r]).status = 200
<1>1. ShapeOf[r].ct \in {"form", "text", "else"}
  BY WebhookAssumption DEF Shapes
<1>2. \A status : Error(status).kind = "http_error" /\ Error(status).status = status
  BY DEF Error
<1>3. /\ Built(ShapeOf[r]).status = 200
      /\ Built(ShapeOf[r]).kind = "message" => ShapeOf[r].content
  BY DEF Built
<1>4. /\ Challenge(ShapeOf[r]).status \in {200, 403}
      /\ Challenge(ShapeOf[r]).kind # "message"
  BY DEF Challenge
<1>5. Opened(ShapeOf[r]) \in {Built(ShapeOf[r]), Error(500)}
  BY DEF Opened
<1>6. ParseForm(ShapeOf[r]) \in {Challenge(ShapeOf[r]), Error(400), Built(ShapeOf[r]), Error(500)}
  BY <1>5 DEF ParseForm
<1>7. ParseRequest(ShapeOf[r]) \in
        {Challenge(ShapeOf[r]), Error(400), Built(ShapeOf[r]), Error(500)}
  BY <1>1, <1>5, <1>6 DEF ParseRequest
<1> QED BY <1>2, <1>3, <1>4, <1>7

LEMMA WebhookInitHolds == WebhookInit => WebhookInv
<1> SUFFICES ASSUME WebhookInit PROVE PortInv /\ RequestInv
  BY DEF WebhookInv
<1> USE DEF WebhookInit
<1>1. PortInv
  <2>1. PortTyped
    BY WebhookAssumption DEF PortTyped, NoSite
  <2>2. PortFollowsAdapter 
    BY WebhookAssumption DEF PortFollowsAdapter, NoSite
  <2>3. RunnersKnown
    BY WebhookAssumption DEF RunnersKnown, NoSite
  <2>4. PortInTurns
    BY WebhookAssumption DEF PortInTurns, NoSite
  <2>5. Flags
    BY DEF Flags
  <2> QED BY <2>1, <2>2, <2>3, <2>4, <2>5 DEF PortInv
<1>2. RequestInv
  BY DEF RequestInv, RequestsTyped, AnsweredIsSpawned, NoOtherIsSpawned, ReadIsOpen
<1> QED BY <1>1, <1>2

\* What connect() and disconnect() do.
LEMMA ServerStep ==
  ASSUME PortInv,
         \/ WebhookConnect \/ RunnerReady \/ SiteStarted
         \/ WebhookDisconnect \/ RunnerCleaned \/ PortChanges
  PROVE  PortInv'
<1>0. PortTyped /\ Flags /\ PortFollowsAdapter /\ RunnersKnown /\ PortInTurns
  BY DEF PortInv
<1>f. Flags'
  <2>1. /\ taken' \in {taken, ~taken} /\ receiving' \in {receiving, TRUE, FALSE}
        /\ met' \in {met, met \/ bindPc # "idle"}
    BY DEF WebhookConnect, RunnerReady, SiteStarted, WebhookDisconnect, RunnerCleaned, PortChanges
  <2> QED BY <1>0, <2>1 DEF Flags
<1> SUFFICES PortTyped' /\ PortFollowsAdapter' /\ RunnersKnown' /\ PortInTurns'
  BY <1>f DEF PortInv
<1>m. MaxBinds \in Nat
  BY WebhookAssumption
<1> USE DEF PortTyped, NoSite
<1>1. CASE WebhookConnect
  <2>1. CASE taken \/ listening # NoSite
    <3>1. UNCHANGED <<up, runner, site, listening, taken, receiving, bindPc, closePc, met, failedBinds>>
          /\ binds' = binds + 1 /\ binds' <= MaxBinds
      BY <1>0, <1>1, <1>m, <2>1 DEF WebhookConnect
    <3> QED BY <1>0, <1>m, <3>1 DEF PortFollowsAdapter, RunnersKnown, PortInTurns, WebhookRests
  <2>2. CASE ~(taken \/ listening # NoSite)
    <3>1. /\ bindPc = "idle" /\ closePc = "idle" /\ ~receiving /\ listening = NoSite
          /\ binds' = binds + 1 /\ binds' <= MaxBinds
          /\ runner' = binds' /\ up' = up \cup {binds'} /\ bindPc' = "setup"
          /\ UNCHANGED <<site, listening, taken, receiving, closePc, met, failedBinds>>
      BY <1>0, <1>1, <1>m, <2>2 DEF WebhookConnect
    <3>2. PortTyped'
      BY <1>0, <1>m, <3>1
    <3>3. PortFollowsAdapter' /\ RunnersKnown'
      BY <1>0, <3>1 DEF PortFollowsAdapter, RunnersKnown, WebhookRests
    <3>4. PortInTurns'
      BY <1>0, <3>1 DEF PortInTurns
    <3> QED BY <3>2, <3>3, <3>4
  <2> QED BY <2>1, <2>2
<1>2. CASE RunnerReady
  <2>1. /\ bindPc = "setup"
        /\ UNCHANGED <<up, runner, taken, receiving, closePc, binds, met>>
        /\ \/ /\ bindPc' = "idle" /\ failedBinds' = failedBinds \cup {IF runner = NoSite THEN binds ELSE runner}
              /\ listening' = listening /\ site' \in {site, runner}
           \/ /\ bindPc' = "bound" /\ failedBinds' = failedBinds /\ runner # NoSite
              /\ listening' = runner /\ site' = runner
    BY <1>2 DEF RunnerReady
  <2>2. PICK n \in 1 .. binds :
          /\ failedBinds' = failedBinds \/ failedBinds' = failedBinds \cup {n}
          /\ bindPc' = "idle" => failedBinds' = failedBinds \cup {n} /\ runner \in {NoSite, n}
    <3>1. CASE runner = NoSite
      <4>1. binds \in 1 .. binds
        BY <1>0, <1>m, <2>1
      <4> QED BY <2>1, <3>1, <4>1
    <3>2. CASE runner # NoSite
      <4>1. runner \in 1 .. binds
        BY <1>0, <1>m, <3>2
      <4> QED BY <2>1, <3>2, <4>1
    <3> QED BY <3>1, <3>2
  <2>5. PortTyped'
    <3>1. failedBinds' \subseteq 1 .. binds
      BY <1>0, <2>2
    <3>2. bindPc' \in {"idle", "bound"} /\ site' \in {site, runner} /\ listening' \in {listening, runner}
      BY <2>1
    <3> QED BY <1>0, <2>1, <3>1, <3>2
  <2>3. RunnersKnown'
    <3>1. NoSite \notin up
      BY <1>0
    <3> QED BY <1>0, <2>1, <2>2, <3>1 DEF RunnersKnown
  <2>4. PortFollowsAdapter' /\ PortInTurns'
    BY <1>0, <2>1 DEF PortFollowsAdapter, PortInTurns, WebhookRests
  <2> QED BY <2>3, <2>4, <2>5
<1>3. CASE SiteStarted
  <2>1. /\ bindPc = "bound" /\ bindPc' = "idle" /\ receiving'
        /\ UNCHANGED <<up, runner, site, listening, taken, closePc, binds, met, failedBinds>>
    BY <1>3 DEF SiteStarted
  <2> QED BY <1>0, <2>1 DEF PortFollowsAdapter, PortInTurns, WebhookRests, RunnersKnown
<1>4. CASE WebhookDisconnect
  <2>1. /\ closePc = "idle" /\ closePc' = "cleanup" /\ site' = NoSite
        /\ receiving \/ bindPc # "idle"
        /\ met' <=> met \/ bindPc # "idle"
        /\ listening' = IF site # NoSite /\ listening = site /\ bindPc # "bound" THEN NoSite ELSE listening
        /\ UNCHANGED <<up, runner, taken, receiving, bindPc, binds, failedBinds>>
    BY <1>4 DEF WebhookDisconnect, SiteStops
  <2>2. PortTyped' /\ RunnersKnown'
    BY <1>0, <2>1 DEF RunnersKnown
  <2>3. PortFollowsAdapter' /\ PortInTurns'
    BY <1>0, <2>1 DEF PortFollowsAdapter, PortInTurns, WebhookRests
  <2> QED BY <2>2, <2>3
<1>5. CASE RunnerCleaned
  <2>1. /\ up' = up \ {runner} /\ runner' = NoSite /\ closePc' = "idle" /\ ~receiving'
        /\ closePc = "cleanup"
        /\ UNCHANGED <<site, listening, taken, bindPc, binds, met, failedBinds>>
    BY <1>5 DEF RunnerCleaned, Cleaned
  <2>2. PortTyped'
    BY <1>0, <2>1
  <2>3. RunnersKnown'
    BY <1>0, <2>1 DEF RunnersKnown
  <2>4. PortInTurns' /\ PortFollowsAdapter'
    BY <1>0, <2>1 DEF PortFollowsAdapter, PortInTurns, WebhookRests
  <2> QED BY <2>2, <2>3, <2>4
<1>6. CASE PortChanges
  <2>1. UNCHANGED <<up, runner, site, listening, receiving, bindPc, closePc, binds, met, failedBinds>>
    BY <1>6 DEF PortChanges
  <2> QED BY <1>0, <2>1 DEF PortFollowsAdapter, RunnersKnown, PortInTurns, WebhookRests
<1> QED BY <1>1, <1>2, <1>3, <1>4, <1>5, <1>6

LEMMA RequestStep ==
  ASSUME RequestInv, NEW r \in Requests, SendRequest(r) \/ HandleRequest(r) \/ ReadFails(r)
  PROVE  RequestInv'
<1>0. RequestsTyped /\ AnsweredIsSpawned /\ NoOtherIsSpawned /\ ReadIsOpen
  BY DEF RequestInv
<1>2. CASE SendRequest(r)
  <2>1. /\ reading' = reading \cup {r} /\ UNCHANGED <<answer, spawned, unseen>>
        /\ sends' \in [Requests -> Nat] /\ answer[r] # 200
    <3>1. /\ reading' = reading \cup {r} /\ UNCHANGED <<answer, spawned, unseen>>
          /\ sends' = [sends EXCEPT ![r] = @ + 1] /\ Open(r)
      BY <1>2 DEF SendRequest
    <3>2. answer[r] # 200
      BY <3>1 DEF Open
    <3>3. sends' \in [Requests -> Nat]
      BY <1>0, <3>1 DEF RequestsTyped
    <3> QED BY <3>1, <3>2, <3>3
  <2> QED BY <1>0, <2>1 DEF RequestInv, RequestsTyped, AnsweredIsSpawned, NoOtherIsSpawned, ReadIsOpen
<1>3. CASE HandleRequest(r)
  <2>1. PICK kind_, status : kind_ = ParseRequest(ShapeOf[r]).kind /\ status = ParseRequest(ShapeOf[r]).status
    OBVIOUS
  <2>2. /\ status \in {200, 400, 403, 500}
        /\ kind_ = "message" => ShapeOf[r].content /\ status = 200
    BY <2>1, MessagesHaveContent
  <2>3. /\ r \in reading /\ reading' = reading \ {r} /\ UNCHANGED sends
        /\ spawned' = [spawned EXCEPT ![r] = @ + (IF kind_ = "message" THEN 1 ELSE 0)]
        /\ \/ answer' = [answer EXCEPT ![r] = status] /\ UNCHANGED unseen
           \/ unseen' = [unseen EXCEPT ![r] = @ + 1] /\ UNCHANGED answer
    BY <1>3, <2>1 DEF HandleRequest, Spawns
  <2>4. RequestsTyped' /\ ReadIsOpen'
    BY <1>0, <2>2, <2>3 DEF RequestsTyped, ReadIsOpen
  <2>5. NoOtherIsSpawned'
    BY <1>0, <2>2, <2>3 DEF NoOtherIsSpawned, RequestsTyped
  <2>6. AnsweredIsSpawned'
    <3> SUFFICES ASSUME NEW q \in Requests
                 PROVE  /\ ParseRequest(ShapeOf[q]).kind = "message" /\ answer'[q] = 200 => spawned'[q] > 0
                        /\ spawned'[q] <= unseen'[q] + (IF answer'[q] = 200 THEN 1 ELSE 0)
      BY DEF AnsweredIsSpawned
    <3>1. spawned[q] \in Nat /\ unseen[q] \in Nat
      BY <1>0 DEF RequestsTyped
    <3>2. CASE q = r
      <4>1. answer[r] # 200 /\ spawned[r] <= unseen[r]
        BY <1>0, <2>3, <3>1, <3>2 DEF ReadIsOpen, AnsweredIsSpawned
      <4> QED BY <1>0, <2>1, <2>2, <2>3, <3>1, <3>2, <4>1 DEF RequestsTyped
    <3>3. CASE q # r
      BY <1>0, <2>3, <3>3 DEF RequestsTyped, AnsweredIsSpawned
    <3> QED BY <3>2, <3>3
  <2> QED BY <2>4, <2>5, <2>6 DEF RequestInv
<1>4. CASE ReadFails(r)
  BY <1>0, <1>4 DEF ReadFails, RequestInv, RequestsTyped, AnsweredIsSpawned, NoOtherIsSpawned, ReadIsOpen
<1> QED BY <1>2, <1>3, <1>4

LEMMA WebhookInvariance == WebhookSpec => []WebhookInv
<1>1. WebhookInv /\ [WebhookNext]_webhookVars => WebhookInv'
  <2> SUFFICES ASSUME PortInv, RequestInv, [WebhookNext]_webhookVars
               PROVE  PortInv' /\ RequestInv'
    BY DEF WebhookInv
  <2>1. CASE \/ WebhookConnect \/ RunnerReady \/ SiteStarted
             \/ WebhookDisconnect \/ RunnerCleaned \/ PortChanges
    <3>1. reading' \subseteq reading /\ UNCHANGED <<answer, spawned, sends, unseen>>
      BY <2>1 DEF WebhookConnect, RunnerReady, SiteStarted, WebhookDisconnect, RunnerCleaned,
         PortChanges, trafficVars
    <3>2. RequestInv'
      BY <3>1 DEF RequestInv, RequestsTyped, AnsweredIsSpawned, NoOtherIsSpawned, ReadIsOpen
    <3> QED BY <2>1, <3>2, ServerStep
  <2>2. CASE \E r \in Requests : SendRequest(r) \/ HandleRequest(r) \/ ReadFails(r)
    <3>1. UNCHANGED serverVars
      BY <2>2 DEF SendRequest, HandleRequest, ReadFails
    <3>2. PortInv'
      BY <3>1 DEF serverVars, PortInv, PortTyped, Flags, PortFollowsAdapter, RunnersKnown, PortInTurns,
         WebhookRests
    <3> QED BY <2>2, <3>2, RequestStep
  <2>3. CASE UNCHANGED webhookVars
    BY <2>3 DEF webhookVars, PortInv, PortTyped, Flags, PortFollowsAdapter, RunnersKnown, PortInTurns,
       WebhookRests, RequestInv, RequestsTyped, AnsweredIsSpawned, NoOtherIsSpawned, ReadIsOpen
  <2> QED BY <2>1, <2>2, <2>3 DEF WebhookNext
<1> QED BY WebhookInitHolds, <1>1, PTL DEF WebhookSpec

\* For any requests, however often the platform sends them and whatever answers
\* are lost: a message that is not sent again has a task, no task is without its
\* answer or its loss, and nothing else has one (webhook.py:434-444).
THEOREM RequestsStayHandled == WebhookSpec => []RequestsAreHandled
<1>1. WebhookInv => RequestsAreHandled
  <2> SUFFICES ASSUME PortTyped, Flags, RequestInv PROVE WebhookTypeOK /\ AnsweredIsSpawned /\ NoOtherIsSpawned
    BY DEF WebhookInv, PortInv, RequestsAreHandled
  <2>1. AnsweredIsSpawned /\ NoOtherIsSpawned /\ RequestsTyped
    BY DEF RequestInv
  <2> QED BY <2>1 DEF WebhookTypeOK, PortTyped, Flags, RequestsTyped
<1> QED BY WebhookInvariance, <1>1, PTL

\* For any number of connects, disconnects and failed binds: at rest the port and
\* the runners are the adapter's (webhook.py:285-323, adapter.py:1091-1126).
THEOREM PortStaysOwned == WebhookSpec => []PortIsOwned
<1>1. WebhookInv => PortIsOwned
  BY DEF WebhookInv, PortInv, RunnersKnown, RunnersAreOwned, PortIsOwned
<1> QED BY WebhookInvariance, <1>1, PTL

-----------------------------------------------------------------------------
(***************************************************************************)
(* The follow-up policy.  The three maps say when the last reply or        *)
(* mention of each kind was; what was decided or built earlier stays       *)
(* earned because nothing that happens later happened before it.           *)
(***************************************************************************)

ReplyIn(g) == {h \in log : h.what = "reply" /\ h.group = g}
ReplyTo(g, s) == {h \in log : h.what = "reply" /\ h.group = g /\ h.sender = s}
MentionBy(g, s) == {h \in log : h.what = "mention" /\ h.group = g /\ h.sender = s}

\* t is the time of the latest of the happenings H.
Latest(t, H) ==
  /\ t # Never => \E h \in H : h.at = t
  /\ \A h \in H : t # Never /\ h.at <= t
PolicyTimes ==
  /\ \A h \in log : h.at <= time
  /\ \A d \in decided : d.at <= time
  /\ \A b \in built : b.at <= time

PolicyLatest ==
  \A g \in Groups :
    /\ Latest(lastReplyAt[g], ReplyIn(g))
    /\ \A s \in Senders : /\ Latest(lastReplyToSender[<<g, s>>], ReplyTo(g, s))
                          /\ Latest(senderMentionAt[<<g, s>>], MentionBy(g, s))

PolicyInv ==
  /\ PolicyTypeOK /\ PolicyTimes /\ PolicyLatest
  /\ FollowUpFollowsReply /\ EngagedTemplateIsEarned

\* evaluate_inbound takes the follow-up path within the window only, and then
\* unless somebody else is addressed.
LEMMA FollowUpDecision ==
  ASSUME NEW g \in Groups, NEW f \in Facts, NEW at \in Moment, NEW t \in Nat
  PROVE  LET eff == ResolveForGroup(g)
             decision == EvaluateInbound(g, f, at, t) IN
         /\ eff \in Settings
         /\ decision.trigger = "followUp" => WithinWindow(at, eff.window, t) /\ ~f.others
         /\ /\ eff.mode \in {"mention-only", "mention-and-watch"} /\ eff.followUp
            /\ ~f.mentioned /\ ~f.quoted /\ ~f.watched /\ ~f.pattern /\ ~f.others
            /\ WithinWindow(at, eff.window, t)
            => decision = Dispatch("followUp")
<1> DEFINE eff == ResolveForGroup(g)
           hold == FollowUpOrHold(f, eff, at, t)
<1>1. eff \in Settings
  BY PolicyAssumption DEF ResolveForGroup
<1>2. /\ \A x : Dispatch(x).trigger = x
      /\ \A x : Held(x).trigger = ""
  BY DEF Dispatch, Held
<1>3. hold.trigger = "followUp" => WithinWindow(at, eff.window, t) /\ ~f.others
  BY <1>2 DEF FollowUpOrHold
<1>4. eff.followUp /\ WithinWindow(at, eff.window, t) /\ ~f.others => hold = Dispatch("followUp")
  BY DEF FollowUpOrHold
<1> HIDE DEF hold, eff
<1>5. eff.mode \in Modes
  BY <1>1 DEF Settings
<1>6. /\ eff.mode = "ignore" => EvaluateInbound(g, f, at, t) = Held("skip")
      /\ eff.mode = "record" => EvaluateInbound(g, f, at, t) = Held("record")
      /\ eff.mode = "proactive" => EvaluateInbound(g, f, at, t) =
           Dispatch(IF f.mentioned \/ f.quoted THEN "bot-mentioned" ELSE "proactive")
      /\ eff.mode = "mention-only" => EvaluateInbound(g, f, at, t) =
           IF f.mentioned \/ f.quoted THEN Dispatch("bot-mentioned") ELSE hold
      /\ eff.mode = "mention-and-watch" => EvaluateInbound(g, f, at, t) =
           IF f.mentioned \/ f.quoted THEN Dispatch("bot-mentioned")
           ELSE IF eff.watch /\ f.watched THEN Dispatch("watchMentions")
           ELSE IF eff.watch /\ f.pattern THEN Dispatch("watchRegex") ELSE hold
  BY DEF EvaluateInbound, eff, hold
<1>7. EvaluateInbound(g, f, at, t).trigger = "followUp" => hold.trigger = "followUp"
  BY <1>2, <1>5, <1>6 DEF Modes
<1>8. /\ eff.mode \in {"mention-only", "mention-and-watch"}
      /\ ~f.mentioned /\ ~f.quoted /\ ~f.watched /\ ~f.pattern
      => EvaluateInbound(g, f, at, t) = hold
  BY <1>6
<1>9. eff = ResolveForGroup(g)
  BY DEF eff
<1> QED BY <1>1, <1>3, <1>4, <1>7, <1>8, <1>9

\* What was decided and built stays earned when something happens: it happens now.
LEMMA PolicyKept ==
  ASSUME PolicyInv, log \subseteq log', \A h \in log' \ log : h.at = time
  PROVE  /\ \A d \in decided :
              /\ d.decision.trigger = "followUp" =>
                   AnsweredBy(d.msg.group, d.at)' /\ ~d.msg.facts.others
              /\ (/\ Undirected(d.msg) /\ InFollowUpMode(d.msg.group) /\ ~d.msg.facts.others
                  /\ AnsweredBefore(d.msg.group, d.at)')
                 => d.decision = Dispatch("followUp")
         /\ \A b \in built :
              LET Recent(strictly) == \E h \in log' :
                    /\ h.group = b.msg.group /\ h.sender = b.msg.sender
                    /\ h.at <= b.at /\ b.at <= h.at + EngagedWindow
                    /\ strictly => h.at < b.at
              IN  /\ b.template = "engaged" => Recent(FALSE)
                  /\ b.template = "passive" => ~Recent(TRUE)
<1>0. /\ FollowUpFollowsReply /\ EngagedTemplateIsEarned /\ time \in Nat
      /\ \A d \in decided : d.at \in Nat /\ d.at <= time
      /\ \A b \in built : b.at \in Nat /\ b.at <= time
  BY DEF PolicyInv, PolicyTypeOK, PolicyTimes
<1>1. ASSUME NEW d \in decided
      PROVE  /\ AnsweredBy(d.msg.group, d.at) => AnsweredBy(d.msg.group, d.at)'
             /\ AnsweredBefore(d.msg.group, d.at)' => AnsweredBefore(d.msg.group, d.at)
  BY <1>0 DEF AnsweredBy, AnsweredBefore
<1>2. ASSUME NEW b \in built, b.template = "engaged"
      PROVE  \E h \in log' : /\ h.group = b.msg.group /\ h.sender = b.msg.sender
                             /\ h.at <= b.at /\ b.at <= h.at + EngagedWindow
  BY <1>0, <1>2 DEF EngagedTemplateIsEarned
<1>3. ASSUME NEW b \in built, b.template = "passive"
      PROVE  ~\E h \in log' : /\ h.group = b.msg.group /\ h.sender = b.msg.sender
                              /\ h.at <= b.at /\ b.at <= h.at + EngagedWindow /\ h.at < b.at
  BY <1>0, <1>3 DEF EngagedTemplateIsEarned
<1> QED BY <1>0, <1>1, <1>2, <1>3 DEF FollowUpFollowsReply
LEMMA PolicyInitHolds == PolicyInit => PolicyInv
<1> SUFFICES ASSUME PolicyInit PROVE PolicyInv
  OBVIOUS
<1> USE DEF PolicyInit
<1>1. PolicyTypeOK
  BY DEF PolicyTypeOK, Moment
<1>2. PolicyTimes /\ FollowUpFollowsReply /\ EngagedTemplateIsEarned
  BY DEF PolicyTimes, FollowUpFollowsReply, EngagedTemplateIsEarned
<1>3. PolicyLatest
  BY DEF PolicyLatest, Latest, ReplyIn, ReplyTo, MentionBy
<1> QED BY <1>1, <1>2, <1>3 DEF PolicyInv

\* Something of a kind that happens now is the latest of its kind.
LEMMA LatestNow ==
  ASSUME NEW H, NEW h, NEW t, NEW at, \A x \in H : x.at <= t, h.at = t, t \in Nat
  PROVE  Latest(t, H \cup {h})
  BY DEF Latest, Never

\* A reply: it is logged with the time the maps then hold.
LEMMA ReplyStep ==
  ASSUME PolicyInv, NEW g \in Groups, NEW s \in Senders \cup {NoSender}, RecordBotReply(g, s)
  PROVE  PolicyInv'
<1> DEFINE h == [what |-> "reply", group |-> g, sender |-> s, at |-> time]
<1>0. /\ PolicyTypeOK /\ PolicyTimes /\ PolicyLatest /\ time \in Nat /\ NoSender \notin Senders
  BY InboxAssumption DEF PolicyInv, PolicyTypeOK
<1>1. /\ lastReplyAt' = [lastReplyAt EXCEPT ![g] = time]
      /\ lastReplyToSender' = IF s = NoSender THEN lastReplyToSender
                              ELSE [lastReplyToSender EXCEPT ![<<g, s>>] = time]
      /\ log' = log \cup {h}
      /\ UNCHANGED <<time, senderMentionAt, pending, decided, built>>
  BY DEF RecordBotReply, Replied, RepliedTo
<1>2. /\ h \in Happening /\ h.what = "reply" /\ h.group = g /\ h.sender = s /\ h.at = time
  BY <1>0 DEF Happening
<1> HIDE DEF h
<1>3. /\ lastReplyAt' \in [Groups -> Moment]
      /\ lastReplyToSender' \in [Groups \X Senders -> Moment]
  BY <1>0, <1>1 DEF PolicyTypeOK, Moment
<1>4. PolicyTypeOK'
  BY <1>0, <1>1, <1>2, <1>3 DEF PolicyTypeOK
<1>5. PolicyTimes'
  BY <1>0, <1>1, <1>2 DEF PolicyTimes
<1>6. ASSUME NEW x \in Groups
      PROVE  /\ Latest(lastReplyAt'[x], ReplyIn(x)')
             /\ \A y \in Senders : /\ Latest(lastReplyToSender'[<<x, y>>], ReplyTo(x, y)')
                                   /\ Latest(senderMentionAt'[<<x, y>>], MentionBy(x, y)')
  <2>0. /\ Latest(lastReplyAt[x], ReplyIn(x))
        /\ \A y \in Senders : /\ Latest(lastReplyToSender[<<x, y>>], ReplyTo(x, y))
                              /\ Latest(senderMentionAt[<<x, y>>], MentionBy(x, y))
    BY <1>0 DEF PolicyLatest
  <2>1. Latest(lastReplyAt'[x], ReplyIn(x)')
    <3>1. CASE x = g
      <4>1. ReplyIn(x)' = ReplyIn(x) \cup {h} /\ lastReplyAt'[x] = time
        BY <1>0, <1>1, <1>2, <3>1 DEF ReplyIn, PolicyTypeOK
      <4>2. \A y \in ReplyIn(x) : y.at <= time
        BY <1>0 DEF ReplyIn, PolicyTimes
      <4> QED BY <1>0, <1>2, <4>1, <4>2, LatestNow
    <3>2. CASE x # g
      <4>1. ReplyIn(x)' = ReplyIn(x) /\ lastReplyAt'[x] = lastReplyAt[x]
        BY <1>0, <1>1, <1>2, <3>2 DEF ReplyIn, PolicyTypeOK
      <4> QED BY <2>0, <4>1
    <3> QED BY <3>1, <3>2
  <2>2. ASSUME NEW y \in Senders PROVE Latest(lastReplyToSender'[<<x, y>>], ReplyTo(x, y)')
    <3>1. CASE x = g /\ y = s
      <4>1. ReplyTo(x, y)' = ReplyTo(x, y) \cup {h} /\ lastReplyToSender'[<<x, y>>] = time
        BY <1>0, <1>1, <1>2, <3>1 DEF ReplyTo, PolicyTypeOK
      <4>2. \A z \in ReplyTo(x, y) : z.at <= time
        BY <1>0 DEF ReplyTo, PolicyTimes
      <4> QED BY <1>0, <1>2, <4>1, <4>2, LatestNow
    <3>2. CASE ~(x = g /\ y = s)
      <4>1. ReplyTo(x, y)' = ReplyTo(x, y)
        BY <1>1, <1>2, <3>2 DEF ReplyTo
      <4>2. lastReplyToSender'[<<x, y>>] = lastReplyToSender[<<x, y>>]
        BY <1>0, <1>1, <3>2 DEF PolicyTypeOK
      <4> QED BY <2>0, <4>1, <4>2
    <3> QED BY <3>1, <3>2
  <2>3. ASSUME NEW y \in Senders PROVE Latest(senderMentionAt'[<<x, y>>], MentionBy(x, y)')
    <3>1. MentionBy(x, y)' = MentionBy(x, y)
      BY <1>1, <1>2 DEF MentionBy
    <3> QED BY <1>1, <2>0, <3>1
  <2> QED BY <2>1, <2>2, <2>3
<1>7. FollowUpFollowsReply' /\ EngagedTemplateIsEarned'
  BY <1>1, <1>2, PolicyKept DEF FollowUpFollowsReply, EngagedTemplateIsEarned
<1> QED BY <1>4, <1>5, <1>6, <1>7 DEF PolicyInv, PolicyLatest

\* A message: its mention is logged, and the decision reads what was replied.
LEMMA InboundStep ==
  ASSUME PolicyInv, NEW m \in Inbox, Inbound(m)
  PROVE  PolicyInv'
<1> DEFINE h == [what |-> "mention", group |-> m.group, sender |-> m.sender, at |-> time]
           g == m.group
           s == m.sender
<1>0. /\ PolicyTypeOK /\ PolicyTimes /\ PolicyLatest /\ time \in Nat
      /\ m \in Message /\ g \in Groups /\ s \in Senders /\ m.facts \in Facts
  BY InboxAssumption DEF PolicyInv, PolicyTypeOK, Message
<1>1. /\ \/ /\ senderMentionAt' = [senderMentionAt EXCEPT ![<<g, s>>] = time]
            /\ log' = log \cup {h}
         \/ senderMentionAt' = senderMentionAt /\ log' = log
      /\ decided' = decided \cup {[msg |-> m, at |-> time, decision |-> Decide(m)]}
      /\ pending' \subseteq pending \cup {m}
      /\ UNCHANGED <<time, lastReplyAt, lastReplyToSender, built>>
  BY DEF Inbound, RecordMention
<1>2. /\ h \in Happening /\ h.what = "mention" /\ h.group = g /\ h.sender = s /\ h.at = time
  BY <1>0 DEF Happening
<1> HIDE DEF h
<1>3. senderMentionAt' \in [Groups \X Senders -> Moment]
  BY <1>0, <1>1 DEF PolicyTypeOK, Moment
<1>d. PICK d : d = [msg |-> m, at |-> time, decision |-> Decide(m)]
  OBVIOUS
<1>e. /\ d.msg = m /\ d.at = time /\ d.decision = Decide(m)
      /\ decided' = decided \cup {d}
  BY <1>1, <1>d
<1>4. PolicyTypeOK'
  <2>1. log' \subseteq Happening
    BY <1>0, <1>1, <1>2 DEF PolicyTypeOK
  <2>2. \A x \in decided' : x.msg \in Message /\ x.at \in Nat
    BY <1>0, <1>e DEF PolicyTypeOK
  <2>3. pending' \subseteq Message
    BY <1>0, <1>1 DEF PolicyTypeOK
  <2> QED BY <1>0, <1>1, <1>3, <2>1, <2>2, <2>3 DEF PolicyTypeOK
<1>5. PolicyTimes'
  BY <1>0, <1>1, <1>2, <1>e DEF PolicyTimes
<1>6. ASSUME NEW x \in Groups
      PROVE  /\ Latest(lastReplyAt'[x], ReplyIn(x)')
             /\ \A y \in Senders : /\ Latest(lastReplyToSender'[<<x, y>>], ReplyTo(x, y)')
                                   /\ Latest(senderMentionAt'[<<x, y>>], MentionBy(x, y)')
  <2>0. /\ Latest(lastReplyAt[x], ReplyIn(x))
        /\ \A y \in Senders : /\ Latest(lastReplyToSender[<<x, y>>], ReplyTo(x, y))
                              /\ Latest(senderMentionAt[<<x, y>>], MentionBy(x, y))
    BY <1>0 DEF PolicyLatest
  <2>1. ReplyIn(x)' = ReplyIn(x) /\ \A y : ReplyTo(x, y)' = ReplyTo(x, y)
    BY <1>1, <1>2 DEF ReplyIn, ReplyTo
  <2>2. ASSUME NEW y \in Senders PROVE Latest(senderMentionAt'[<<x, y>>], MentionBy(x, y)')
    <3>1. CASE /\ senderMentionAt' = [senderMentionAt EXCEPT ![<<g, s>>] = time]
               /\ log' = log \cup {h} /\ x = g /\ y = s
      <4>1. senderMentionAt'[<<x, y>>] = time
        BY <1>0, <3>1 DEF PolicyTypeOK
      <4>2. MentionBy(x, y)' = MentionBy(x, y) \cup {h}
        BY <1>2, <3>1 DEF MentionBy
      <4>3. \A z \in MentionBy(x, y) : z.at <= time
        BY <1>0 DEF MentionBy, PolicyTimes
      <4> QED BY <1>0, <1>2, <4>1, <4>2, <4>3, LatestNow
    <3>2. CASE /\ senderMentionAt' = [senderMentionAt EXCEPT ![<<g, s>>] = time]
               /\ log' = log \cup {h} /\ ~(x = g /\ y = s)
      <4>1. MentionBy(x, y)' = MentionBy(x, y)
        BY <1>2, <3>2 DEF MentionBy
      <4>2. senderMentionAt'[<<x, y>>] = senderMentionAt[<<x, y>>]
        BY <1>0, <3>2 DEF PolicyTypeOK
      <4> QED BY <2>0, <4>1, <4>2
    <3>3. CASE log' = log /\ senderMentionAt' = senderMentionAt
      <4>1. MentionBy(x, y)' = MentionBy(x, y)
        BY <3>3 DEF MentionBy
      <4> QED BY <2>0, <3>3, <4>1
    <3> QED BY <1>1, <3>1, <3>2, <3>3
  <2> QED BY <1>1, <2>0, <2>1, <2>2
<1>7. \A x \in log' \ log : x.at = time
  BY <1>1, <1>2
<1>8. /\ d.decision.trigger = "followUp" => AnsweredBy(d.msg.group, d.at)' /\ ~d.msg.facts.others
      /\ (/\ Undirected(d.msg) /\ InFollowUpMode(d.msg.group) /\ ~d.msg.facts.others
          /\ AnsweredBefore(d.msg.group, d.at)')
         => d.decision = Dispatch("followUp")
  <2>1. PICK at \in Moment : at = lastReplyAt[g] /\ Latest(at, ReplyIn(g))
    BY <1>0 DEF PolicyTypeOK, PolicyLatest
  <2>2. PICK eff \in Settings : eff = ResolveForGroup(g)
    BY <1>0, <2>1, FollowUpDecision
  <2>3. eff.window \in Nat
    BY <2>2 DEF Settings
  <2>4. /\ d.decision.trigger = "followUp" => WithinWindow(at, eff.window, time) /\ ~m.facts.others
        /\ /\ eff.mode \in {"mention-only", "mention-and-watch"} /\ eff.followUp
           /\ ~m.facts.mentioned /\ ~m.facts.quoted /\ ~m.facts.watched /\ ~m.facts.pattern
           /\ ~m.facts.others /\ WithinWindow(at, eff.window, time)
           => d.decision = Dispatch("followUp")
    BY <1>0, <1>e, <2>1, <2>2, FollowUpDecision DEF Decide
  <2>5. ASSUME WithinWindow(at, eff.window, time) PROVE AnsweredBy(d.msg.group, d.at)'
    <3>1. PICK x \in ReplyIn(g) : x.at = at
      BY <2>1, <2>5 DEF WithinWindow, Latest
    <3>2. /\ x \in log' /\ x.what = "reply" /\ x.group = g /\ x.at <= time /\ x.at \in Nat
      BY <1>0, <1>1, <3>1 DEF ReplyIn, PolicyTimes, PolicyTypeOK, Happening
    <3>3. time <= x.at + eff.window
      BY <1>0, <2>3, <2>5, <3>1, <3>2 DEF WithinWindow
    <3> QED BY <1>e, <2>2, <3>2, <3>3 DEF AnsweredBy
  <2>6. ASSUME AnsweredBefore(d.msg.group, d.at)', InFollowUpMode(g) PROVE WithinWindow(at, eff.window, time)
    <3>1. PICK x \in log' : /\ x.what = "reply" /\ x.group = g
                            /\ x.at < time /\ time <= x.at + eff.window
      BY <1>e, <2>2, <2>6 DEF AnsweredBefore
    <3>2. x \in ReplyIn(g) /\ x.at \in Nat
      BY <1>0, <1>1, <1>2, <3>1 DEF ReplyIn, PolicyTypeOK, Happening
    <3>3. at # Never /\ x.at <= at /\ at \in Nat
      BY <2>1, <3>2 DEF Latest, Moment
    <3> QED BY <1>0, <2>2, <2>3, <2>6, <3>1, <3>2, <3>3 DEF WithinWindow, InFollowUpMode
  <2> QED BY <1>e, <2>2, <2>4, <2>5, <2>6 DEF Undirected, InFollowUpMode
<1>9. FollowUpFollowsReply'
  <2>1. \A x \in decided' : x \in decided \/ x = d
    BY <1>e
  <2>2. ASSUME NEW x \in decided'
        PROVE  /\ x.decision.trigger = "followUp" =>
                    AnsweredBy(x.msg.group, x.at)' /\ ~x.msg.facts.others
               /\ (/\ Undirected(x.msg) /\ InFollowUpMode(x.msg.group) /\ ~x.msg.facts.others
                   /\ AnsweredBefore(x.msg.group, x.at)')
                  => x.decision = Dispatch("followUp")
    <3>1. CASE x = d
      BY <1>8, <1>e, <3>1
    <3>2. CASE x \in decided
      BY <1>1, <1>7, <3>2, PolicyKept
    <3> QED BY <2>1, <3>1, <3>2
  <2> QED BY <2>2 DEF FollowUpFollowsReply
<1>10. EngagedTemplateIsEarned'
  BY <1>1, <1>7, PolicyKept DEF EngagedTemplateIsEarned
<1> QED BY <1>4, <1>5, <1>6, <1>9, <1>10 DEF PolicyInv, PolicyLatest
\* Who mentioned the bot or was answered by it within the window, and only they,
\* counts as engaged.
LEMMA EngagedMeansHappened ==
  ASSUME PolicyInv, NEW m \in Message
  PROVE  LET of == {h \in log : h.group = m.group /\ h.sender = m.sender}
         IN  /\ Engaged(m) => \E h \in of : h.at <= time /\ time <= h.at + EngagedWindow
             /\ ~Engaged(m) => ~\E h \in of : h.at <= time /\ time <= h.at + EngagedWindow
<1> DEFINE g == m.group
           s == m.sender
<1>0. /\ time \in Nat /\ EngagedWindow \in Nat /\ g \in Groups /\ s \in Senders
      /\ log \subseteq Happening /\ \A h \in log : h.at <= time
  BY PolicyAssumption DEF PolicyInv, PolicyTypeOK, PolicyTimes, Message
<1>1. PICK mentioned, replied \in Moment :
        /\ mentioned = senderMentionAt[<<g, s>>] /\ Latest(mentioned, MentionBy(g, s))
        /\ replied = lastReplyToSender[<<g, s>>] /\ Latest(replied, ReplyTo(g, s))
  BY <1>0 DEF PolicyInv, PolicyTypeOK, PolicyLatest
<1>2. Engaged(m) <=> \/ mentioned # Never /\ time - mentioned <= EngagedWindow
                     \/ replied # Never /\ time - replied <= EngagedWindow
  BY <1>1 DEF Engaged, EngagedRecently
<1>3. \A h \in log : h.at \in Nat /\ h.what \in {"reply", "mention"}
  BY <1>0 DEF Happening
<1>4. /\ MentionBy(g, s) \subseteq log /\ ReplyTo(g, s) \subseteq log
      /\ \A h \in MentionBy(g, s) \cup ReplyTo(g, s) : h.group = g /\ h.sender = s
      /\ \A h \in log : h.group = g /\ h.sender = s => h \in MentionBy(g, s) \cup ReplyTo(g, s)
  BY <1>3 DEF MentionBy, ReplyTo
<1>5. ASSUME Engaged(m)
      PROVE  \E h \in log : /\ h.group = g /\ h.sender = s
                            /\ h.at <= time /\ time <= h.at + EngagedWindow
  <2>1. CASE mentioned # Never /\ time - mentioned <= EngagedWindow
    <3>1. PICK h \in MentionBy(g, s) : h.at = mentioned
      BY <1>1, <2>1 DEF Latest
    <3> QED BY <1>0, <1>3, <1>4, <2>1, <3>1
  <2>2. CASE replied # Never /\ time - replied <= EngagedWindow
    <3>1. PICK h \in ReplyTo(g, s) : h.at = replied
      BY <1>1, <2>2 DEF Latest
    <3> QED BY <1>0, <1>3, <1>4, <2>2, <3>1
  <2> QED BY <1>2, <1>5, <2>1, <2>2
<1>6. ASSUME NEW h \in log, h.group = g, h.sender = s, h.at <= time, time <= h.at + EngagedWindow
      PROVE  Engaged(m)
  <2>1. CASE h \in MentionBy(g, s)
    <3>1. mentioned # Never /\ h.at <= mentioned /\ mentioned \in Nat
      BY <1>1, <2>1 DEF Latest, Moment
    <3> QED BY <1>0, <1>2, <1>3, <1>6, <3>1
  <2>2. CASE h \in ReplyTo(g, s)
    <3>1. replied # Never /\ h.at <= replied /\ replied \in Nat
      BY <1>1, <2>2 DEF Latest, Moment
    <3> QED BY <1>0, <1>2, <1>3, <1>6, <3>1
  <2> QED BY <1>4, <1>6, <2>1, <2>2
<1> QED BY <1>5, <1>6

\* The event is built: the template is chosen from what happened until now.
LEMMA BuildStep ==
  ASSUME PolicyInv, NEW m \in pending, BuildEvent(m)
  PROVE  PolicyInv'
<1>0. /\ PolicyTypeOK /\ PolicyTimes /\ PolicyLatest /\ time \in Nat /\ m \in Message
  BY DEF PolicyInv, PolicyTypeOK
<1>1. PICK b : b = [msg |-> m, at |-> time, template |-> FollowUpTemplate(m.facts, Engaged(m))]
  OBVIOUS
<1>2. /\ b.msg = m /\ b.at = time
      /\ b.template = "engaged" => Engaged(m)
      /\ b.template = "passive" => ~Engaged(m)
  BY <1>1 DEF FollowUpTemplate
<1>3. /\ pending' \subseteq pending /\ built' = built \cup {b}
      /\ UNCHANGED <<time, lastReplyAt, senderMentionAt, lastReplyToSender, decided, log>>
  BY <1>1 DEF BuildEvent
<1>4. PolicyTypeOK' /\ PolicyTimes'
  BY <1>0, <1>2, <1>3 DEF PolicyTypeOK, PolicyTimes
<1>5. PolicyLatest'
  BY <1>0, <1>3 DEF PolicyLatest, ReplyIn, ReplyTo, MentionBy
<1>6. FollowUpFollowsReply'
  BY <1>3, PolicyKept DEF FollowUpFollowsReply
<1>7. /\ b.template = "engaged" =>
           \E h \in log : /\ h.group = m.group /\ h.sender = m.sender
                          /\ h.at <= time /\ time <= h.at + EngagedWindow
      /\ b.template = "passive" =>
           ~\E h \in log : /\ h.group = m.group /\ h.sender = m.sender
                           /\ h.at <= time /\ time <= h.at + EngagedWindow
  BY <1>0, <1>2, EngagedMeansHappened
<1>8. EngagedTemplateIsEarned'
  <2>1. EngagedTemplateIsEarned
    BY DEF PolicyInv
  <2> QED BY <1>2, <1>3, <1>7, <2>1 DEF EngagedTemplateIsEarned
<1> QED BY <1>4, <1>5, <1>6, <1>8 DEF PolicyInv

LEMMA PolicyInvariance == PolicySpec => []PolicyInv
<1>1. PolicyInv /\ [PolicyNext]_policyVars => PolicyInv'
  <2> SUFFICES ASSUME PolicyInv, [PolicyNext]_policyVars PROVE PolicyInv'
    OBVIOUS
  <2>1. CASE \E g \in Groups, s \in Senders \cup {NoSender} : RecordBotReply(g, s)
    BY <2>1, ReplyStep
  <2>2. CASE \E m \in Inbox : Inbound(m)
    BY <2>2, InboundStep
  <2>3. CASE \E m \in pending : BuildEvent(m)
    BY <2>3, BuildStep
  <2>4. CASE TimePasses \/ UNCHANGED policyVars
    <3>1. /\ time' \in {time, time + 1}
          /\ UNCHANGED <<lastReplyAt, senderMentionAt, lastReplyToSender, pending, decided, built, log>>
      BY <2>4 DEF TimePasses, policyVars
    <3>2. PolicyTypeOK' /\ PolicyTimes'
      BY <3>1 DEF PolicyInv, PolicyTypeOK, PolicyTimes, Happening
    <3>3. PolicyLatest'
      BY <3>1 DEF PolicyInv, PolicyLatest, ReplyIn, ReplyTo, MentionBy
    <3>4. FollowUpFollowsReply' /\ EngagedTemplateIsEarned'
      BY <3>1, PolicyKept DEF FollowUpFollowsReply, EngagedTemplateIsEarned
    <3> QED BY <3>2, <3>3, <3>4 DEF PolicyInv
  <2> QED BY <2>1, <2>2, <2>3, <2>4 DEF PolicyNext
<1> QED BY PolicyInitHolds, <1>1, PTL DEF PolicySpec

\* For any groups, senders, settings and clock: the follow-up path and its
\* template follow from what the bot really said, and to whom (policy.py:967-1054).
THEOREM FollowUpsStayEarned == PolicySpec => []FollowUpsAreEarned
<1>1. PolicyInv => FollowUpsAreEarned
  BY DEF PolicyInv, FollowUpsAreEarned
<1> QED BY PolicyInvariance, <1>1, PTL
-----------------------------------------------------------------------------
(***************************************************************************)
(* The frame intake.  What the deduper has dropped is forgettable, so that *)
(* what it holds still speaks for every copy that can be told to be one.   *)
(***************************************************************************)

FrameTyped ==
  /\ clock \in 0 .. MaxClock
  /\ DOMAIN seen \subseteq Keys
  /\ \A k \in DOMAIN seen : seen[k] \in [kind : GroupKinds, at : 0 .. MaxClock]
  /\ Cardinality(DOMAIN seen) <= MaxSize + 1
  /\ answering \in Frames \cup {NoFrame}
  /\ acked \subseteq Frames /\ failed \subseteq Frames
  /\ deliveries \in 0 .. MaxDeliveries
  /\ scheduled \in [Frames -> Nat] /\ \A f \in Frames : scheduled[f] <= deliveries
  /\ lastSeen \in [Keys -> {NotSeen} \cup 0 .. MaxClock]
  /\ passed \in [Keys -> SUBSET GroupKinds]

\* An entry carries its key's last arrival, and was passed on as what it says.
EntriesArePassed ==
  \A k \in DOMAIN seen :
    /\ seen[k].at = lastSeen[k]
    /\ "mention" \in passed[k] => seen[k].kind = "mention"
    /\ \E g \in Frames : KeyOf[g] = k /\ KindOf[g] = seen[k].kind /\ scheduled[g] > 0

DroppedAreForgettable == \A k \in Keys \ DOMAIN seen : Forgettable(k)

ArrivedByNow == \A k \in Keys : lastSeen[k] <= clock

\* What an acknowledgement means, for the one on its way too.
PassedOn(f) ==
  /\ KindOf[f] # "invalid"
  /\ KindOf[f] = "dm" => scheduled[f] > 0
  /\ KindOf[f] \in GroupKinds => \E g \in Frames : Covers(g, f)
AnsweringIsPassedOn == answering # NoFrame /\ answering \notin failed => PassedOn(answering)

FrameInv ==
  /\ FrameTyped /\ ArrivedByNow /\ EntriesArePassed /\ DroppedAreForgettable
  /\ AnsweringIsPassedOn /\ AckedIsPassedOn

LEMMA FrameInitHolds == FrameInit => FrameInv
<1> SUFFICES ASSUME FrameInit PROVE FrameInv
  OBVIOUS
<1> USE DEF FrameInit
<1>1. DOMAIN seen = {} /\ Cardinality(DOMAIN seen) = 0
  BY FS_EmptySet
<1>2. FrameTyped
  BY <1>1, FrameAssumption DEF FrameTyped
<1>3. EntriesArePassed /\ AnsweringIsPassedOn /\ AckedIsPassedOn
  BY <1>1 DEF EntriesArePassed, AnsweringIsPassedOn, AckedIsPassedOn
<1>4. DroppedAreForgettable /\ ArrivedByNow
  BY DEF DroppedAreForgettable, Forgettable, ArrivedByNow, NotSeen
<1> QED BY <1>2, <1>3, <1>4 DEF FrameInv

\* The keys that came with or after a key.
Since(k) == {j \in Keys \ {k} : lastSeen[j] >= lastSeen[k]}

\* A key that does not arrive again stays forgettable.
LEMMA StaysForgettable ==
  ASSUME FrameTyped, NEW k \in Keys, Forgettable(k), lastSeen'[k] = lastSeen[k],
         \A j \in Keys : lastSeen'[j] >= lastSeen[j] /\ lastSeen'[j] \in Int,
         clock' \in Nat, clock' >= clock
  PROVE  Forgettable(k)'
<1>0. /\ clock \in Nat /\ Ttl \in Nat /\ MaxSize \in Nat /\ IsFiniteSet(Keys)
      /\ \A j \in Keys : lastSeen[j] \in Int
  BY FrameAssumption DEF FrameTyped, NotSeen
<1>1. Since(k) \subseteq Since(k)' /\ Since(k)' \subseteq Keys
  BY <1>0 DEF Since
<1>2. IsFiniteSet(Since(k)') /\ Cardinality(Since(k)) <= Cardinality(Since(k)')
  BY <1>0, <1>1, FS_Subset
<1>3. IsFiniteSet(Since(k)) /\ Cardinality(Since(k)) \in Nat /\ Cardinality(Since(k)') \in Nat
  BY <1>1, <1>2, FS_Subset, FS_CardinalityType
<1>4. Forgettable(k) <=> \/ lastSeen[k] = NotSeen
                         \/ clock - lastSeen[k] > Ttl
                         \/ Cardinality(Since(k)) >= MaxSize
  BY DEF Forgettable, Since
<1>5. Forgettable(k)' <=> \/ lastSeen'[k] = NotSeen
                          \/ clock' - lastSeen'[k] > Ttl
                          \/ Cardinality(Since(k)') >= MaxSize
  BY DEF Forgettable, Since
<1> QED BY <1>0, <1>2, <1>3, <1>4, <1>5

\* Pruning keeps entries as they are, no more than the memory holds, and drops
\* none that is not forgettable.
LEMMA PruningForgets ==
  ASSUME FrameTyped, EntriesArePassed, NEW memory \in Pruned
  PROVE  /\ DOMAIN memory \subseteq DOMAIN seen
         /\ \A k \in DOMAIN memory : memory[k] = seen[k]
         /\ IsFiniteSet(DOMAIN memory) /\ Cardinality(DOMAIN memory) <= MaxSize
         /\ \A k \in DOMAIN seen \ DOMAIN memory : Forgettable(k)
<1> DEFINE size == IF Cardinality(Unexpired) > MaxSize THEN MaxSize ELSE Cardinality(Unexpired)
<1>0. /\ clock \in Nat /\ Ttl \in Nat /\ MaxSize \in Nat /\ IsFiniteSet(Keys)
      /\ DOMAIN seen \subseteq Keys /\ Unexpired \subseteq DOMAIN seen
      /\ \A k \in DOMAIN seen : seen[k].at = lastSeen[k] /\ seen[k].at \in Nat
      /\ \A j \in Keys : lastSeen[j] \in Int
  BY FrameAssumption DEF FrameTyped, NotSeen, EntriesArePassed, Unexpired
<1>1. IsFiniteSet(Unexpired) /\ Cardinality(Unexpired) \in Nat
  BY <1>0, FS_Subset, FS_CardinalityType
<1>2. PICK S \in SUBSET Unexpired :
        /\ memory = Restrict(seen, S)
        /\ Cardinality(S) = size
        /\ \A k \in S, j \in Unexpired \ S : seen[j].at <= seen[k].at
  BY DEF Pruned
<1>3. DOMAIN memory = S /\ \A k \in S : memory[k] = seen[k]
  BY <1>2 DEF Restrict
<1>4. IsFiniteSet(S) /\ Cardinality(S) <= MaxSize
  BY <1>0, <1>1, <1>2, FS_Subset
<1>5. ASSUME NEW k \in DOMAIN seen \ S PROVE Forgettable(k)
  <2>1. CASE k \notin Unexpired
    BY <1>0, <2>1 DEF Unexpired, Forgettable
  <2>2. CASE k \in Unexpired
    <3>1. Cardinality(S) # Cardinality(Unexpired)
      BY <1>1, <1>4, <2>2, FS_Subset
    <3>2. Cardinality(S) = MaxSize
      BY <1>2, <3>1
    <3>3. S \subseteq Since(k) /\ Since(k) \subseteq Keys
      BY <1>0, <1>2, <2>2 DEF Since
    <3>4. Cardinality(S) <= Cardinality(Since(k)) /\ Cardinality(Since(k)) \in Nat
      BY <1>0, <3>3, FS_Subset, FS_CardinalityType
    <3> QED BY <1>0, <3>2, <3>4 DEF Forgettable, Since
  <2> QED BY <2>1, <2>2
<1> QED BY <1>0, <1>2, <1>3, <1>4, <1>5
\* What HandleFrame says of every frame, whatever becomes of it.
FrameArrives(f) ==
  /\ answering = NoFrame /\ f \in Frames
  /\ deliveries < MaxDeliveries /\ deliveries' = deliveries + 1
  /\ answering' = (IF KindOf[f] # "invalid" THEN f ELSE NoFrame)
  /\ UNCHANGED <<clock, acked>>

\* Passing on more keeps what was passed on.
LEMMA PassedOnGrows ==
  ASSUME NEW f \in Frames, PassedOn(f), \A g \in Frames : scheduled'[g] >= scheduled[g],
         \A g \in Frames : scheduled[g] \in Nat /\ scheduled'[g] \in Nat
  PROVE  PassedOn(f)'
BY DEF PassedOn, Covers

\* A group message meets the pruned memory.
LEMMA GroupFrameStep ==
  ASSUME FrameInv, NEW f \in Frames, GroupFrame(f), FrameArrives(f), UNCHANGED failed
  PROVE  /\ FrameInv'
         /\ scheduled'[f] > scheduled[f] =>
              Passed(KeyOf[f]) \subseteq IF KindOf[f] = "mention" THEN {"forward"} ELSE {}
         /\ \A g \in Frames \ {f} : scheduled'[g] = scheduled[g]
<1> DEFINE key == KeyOf[f]
           kind_ == KindOf[f]
<1>0. /\ FrameTyped /\ ArrivedByNow /\ EntriesArePassed /\ DroppedAreForgettable /\ AckedIsPassedOn
      /\ key \in Keys /\ kind_ \in GroupKinds /\ clock \in 0 .. MaxClock
      /\ clock \in Nat /\ MaxClock \in Nat /\ MaxSize \in Nat /\ IsFiniteSet(Keys)
  BY FrameAssumption DEF FrameInv, GroupFrame, Deduped, FrameTyped
<1>1. PICK memory \in Pruned :
        /\ seen' = Remembered(memory, key, kind_)
        /\ lastSeen' = [lastSeen EXCEPT ![key] = clock]
        /\ \/ /\ ShouldSkip(memory, key, kind_)
              /\ passed' = [passed EXCEPT ![key] = Passed(key)]
              /\ UNCHANGED scheduled
           \/ /\ ~ShouldSkip(memory, key, kind_)
              /\ passed' = [passed EXCEPT ![key] = Passed(key) \cup {kind_}]
              /\ scheduled' = [scheduled EXCEPT ![f] = @ + 1]
  BY DEF GroupFrame, Schedule
<1>2. /\ DOMAIN memory \subseteq DOMAIN seen
      /\ \A k \in DOMAIN memory : memory[k] = seen[k]
      /\ IsFiniteSet(DOMAIN memory) /\ Cardinality(DOMAIN memory) <= MaxSize
      /\ \A k \in DOMAIN seen \ DOMAIN memory : Forgettable(k)
  BY <1>0, PruningForgets
<1>3. PICK known : known = IF key \in DOMAIN memory /\ memory[key].kind = "mention"
                           THEN "mention" ELSE kind_
  OBVIOUS
<1>4. /\ DOMAIN seen' = DOMAIN memory \cup {key}
      /\ seen'[key] = [kind |-> known, at |-> clock]
      /\ \A k \in DOMAIN memory \ {key} : seen'[k] = memory[k]
  BY <1>1, <1>3 DEF Remembered
<1>5. /\ known \in GroupKinds /\ known \in {kind_, "mention"}
      /\ seen'[key].kind = known /\ seen'[key].at = clock
  BY <1>0, <1>3, <1>4 DEF GroupKinds
<1>6. Passed(key) \in SUBSET GroupKinds /\ Passed(key) \subseteq passed[key]
  BY <1>0 DEF Passed, FrameTyped
<1>7. \A g \in Frames : /\ scheduled[g] \in Nat /\ scheduled'[g] \in Nat
                        /\ scheduled'[g] >= scheduled[g] /\ scheduled'[g] <= scheduled[g] + 1
                        /\ g # f => scheduled'[g] = scheduled[g]
  BY <1>0, <1>1 DEF FrameTyped
<1>8. \A j \in Keys : /\ lastSeen'[j] >= lastSeen[j] /\ lastSeen'[j] \in Int
                      /\ j # key => lastSeen'[j] = lastSeen[j]
  <2>1. \A j \in Keys : lastSeen[j] \in Int /\ lastSeen[j] <= clock
    BY <1>0 DEF FrameTyped, NotSeen, ArrivedByNow
  <2> QED BY <1>0, <1>1, <2>1 DEF FrameTyped
<1>9. FrameTyped'
  <2>1. Cardinality(DOMAIN seen') <= MaxSize + 1
    <3>1. Cardinality(DOMAIN memory \cup {key}) \in {Cardinality(DOMAIN memory), Cardinality(DOMAIN memory) + 1}
      BY <1>2, FS_AddElement
    <3>2. Cardinality(DOMAIN memory) \in Nat
      BY <1>2, FS_CardinalityType
    <3> QED BY <1>0, <1>2, <1>4, <3>1, <3>2
  <2>2. DOMAIN seen' \subseteq Keys
    BY <1>0, <1>2, <1>4 DEF FrameTyped
  <2>3. \A k \in DOMAIN seen' : seen'[k] \in [kind : GroupKinds, at : 0 .. MaxClock]
    BY <1>0, <1>2, <1>4, <1>5 DEF FrameTyped
  <2>4. scheduled' \in [Frames -> Nat] /\ \A g \in Frames : scheduled'[g] <= deliveries'
    <3>1. scheduled' \in [Frames -> Nat]
      BY <1>0, <1>1 DEF FrameTyped
    <3>2. deliveries \in Nat /\ deliveries' = deliveries + 1 /\ \A g \in Frames : scheduled[g] <= deliveries
      BY <1>0, FrameAssumption DEF FrameTyped, FrameArrives
    <3> QED BY <1>7, <3>1, <3>2
  <2>5. lastSeen' \in [Keys -> {NotSeen} \cup 0 .. MaxClock]
    BY <1>0, <1>1 DEF FrameTyped
  <2>6. passed' \in [Keys -> SUBSET GroupKinds]
    BY <1>0, <1>1, <1>6 DEF FrameTyped
  <2>7. /\ clock' \in 0 .. MaxClock /\ answering' \in Frames \cup {NoFrame}
        /\ acked' \subseteq Frames /\ failed' \subseteq Frames /\ deliveries' \in 0 .. MaxDeliveries
    BY <1>0, FrameAssumption DEF FrameTyped, FrameArrives
  <2> QED BY <2>1, <2>2, <2>3, <2>4, <2>5, <2>6, <2>7 DEF FrameTyped
<1>10. /\ key \in DOMAIN memory => /\ memory[key] = seen[key]
                                   /\ "mention" \in passed[key] => memory[key].kind = "mention"
       /\ key \notin DOMAIN memory => Passed(key) = {}
  BY <1>0, <1>2 DEF EntriesArePassed, DroppedAreForgettable, Passed
<1>11. EntriesArePassed'
  <2>1. ASSUME NEW k \in DOMAIN seen'
        PROVE  /\ seen'[k].at = lastSeen'[k]
               /\ "mention" \in passed'[k] => seen'[k].kind = "mention"
               /\ \E g \in Frames : KeyOf[g] = k /\ KindOf[g] = seen'[k].kind /\ scheduled'[g] > 0
    <3>1. CASE k # key
      <4>1. k \in DOMAIN seen /\ seen'[k] = seen[k] /\ passed'[k] = passed[k] /\ lastSeen'[k] = lastSeen[k]
        BY <1>0, <1>1, <1>2, <1>4, <3>1 DEF FrameTyped
      <4>2. /\ seen[k].at = lastSeen[k]
            /\ "mention" \in passed[k] => seen[k].kind = "mention"
        BY <1>0, <4>1 DEF EntriesArePassed
      <4>3. PICK g \in Frames : KeyOf[g] = k /\ KindOf[g] = seen[k].kind /\ scheduled[g] > 0
        BY <1>0, <4>1 DEF EntriesArePassed
      <4>4. scheduled'[g] > 0
        BY <1>7, <4>3
      <4> QED BY <4>1, <4>2, <4>3, <4>4
    <3>2. CASE k = key
      <4>1. seen'[key].at = lastSeen'[key]
        BY <1>0, <1>1, <1>5 DEF FrameTyped
      <4>2. passed'[key] \subseteq Passed(key) \cup {kind_}
        BY <1>0, <1>1 DEF FrameTyped
      <4>3. kind_ = "mention" => known = "mention"
        BY <1>3
      <4>4. "mention" \in Passed(key) => known = "mention"
        BY <1>3, <1>6, <1>10
      <4>5. \E g \in Frames : KeyOf[g] = key /\ KindOf[g] = known /\ scheduled'[g] > 0
        <5>1. CASE ShouldSkip(memory, key, kind_)
          <6>1. key \in DOMAIN memory /\ known = memory[key].kind
            BY <1>0, <1>2, <1>3, <5>1 DEF ShouldSkip, FrameTyped, GroupKinds
          <6>2. PICK g \in Frames : KeyOf[g] = key /\ KindOf[g] = seen[key].kind /\ scheduled[g] > 0
            BY <1>0, <1>2, <6>1 DEF EntriesArePassed
          <6> QED BY <1>7, <1>10, <6>1, <6>2
        <5>2. CASE ~ShouldSkip(memory, key, kind_)
          <6>1. known = kind_
            BY <1>0, <1>3, <5>2 DEF ShouldSkip, GroupKinds
          <6>2. scheduled'[f] = scheduled[f] + 1
            BY <1>0, <1>1, <5>2 DEF FrameTyped
          <6> QED BY <1>7, <6>1, <6>2
        <5> QED BY <5>1, <5>2
      <4> QED BY <1>5, <3>2, <4>1, <4>2, <4>3, <4>4, <4>5
    <3> QED BY <3>1, <3>2
  <2> QED BY <2>1 DEF EntriesArePassed
<1>12. DroppedAreForgettable'
  <2>1. ASSUME NEW k \in Keys \ DOMAIN seen' PROVE Forgettable(k)'
    <3>1. k # key /\ Forgettable(k)
      BY <1>0, <1>2, <1>4 DEF DroppedAreForgettable
    <3>2. clock' = clock
      BY DEF FrameArrives
    <3> QED BY <1>0, <1>8, <3>1, <3>2, StaysForgettable
  <2> QED BY <2>1 DEF DroppedAreForgettable
<1>13. AckedIsPassedOn' /\ AnsweringIsPassedOn'
  <2>1. acked' = acked /\ failed' = failed /\ acked \subseteq Frames /\ answering' \in {f, NoFrame}
    BY <1>0 DEF FrameArrives, FrameTyped
  <2>2. \A g \in acked' \ failed' : PassedOn(g)'
    BY <1>0, <1>7, <2>1, PassedOnGrows DEF AckedIsPassedOn, PassedOn
  <2>3. \E g \in Frames : Covers(g, f)'
    <3>1. PICK g \in Frames : KeyOf[g] = key /\ KindOf[g] = known /\ scheduled'[g] > 0
      BY <1>4, <1>5, <1>11 DEF EntriesArePassed
    <3> QED BY <1>5, <3>1 DEF Covers
  <2>4. PassedOn(f)'
    BY <1>0, <2>3 DEF PassedOn, GroupKinds
  <2> QED BY <2>1, <2>2, <2>4 DEF AckedIsPassedOn, AnsweringIsPassedOn, PassedOn
<1>14. ASSUME scheduled'[f] > scheduled[f]
       PROVE  Passed(key) \subseteq IF kind_ = "mention" THEN {"forward"} ELSE {}
  <2>1. ~ShouldSkip(memory, key, kind_)
    BY <1>1, <1>7, <1>14
  <2>2. CASE key \notin DOMAIN memory
    BY <1>10, <2>2
  <2>3. CASE key \in DOMAIN memory
    <3>1. kind_ = "mention" /\ "mention" \notin passed[key]
      BY <1>0, <1>10, <2>1, <2>3 DEF ShouldSkip, GroupKinds
    <3> QED BY <1>6, <3>1 DEF GroupKinds
  <2> QED BY <2>2, <2>3
<1>15. ArrivedByNow'
  <2>1. clock' = clock
    BY DEF FrameArrives
  <2> QED BY <1>0, <1>1, <2>1 DEF ArrivedByNow, FrameTyped
<1> QED BY <1>7, <1>9, <1>11, <1>12, <1>13, <1>14, <1>15 DEF FrameInv
\* Any other frame leaves the memory alone.
LEMMA OtherFrameStep ==
  ASSUME FrameInv, NEW f \in Frames, FrameArrives(f),
         \/ DirectFrame(f) /\ UNCHANGED failed
         \/ IgnoredFrame(f) /\ UNCHANGED failed
         \/ Raises(f)
         \/ KindOf[f] = "invalid" /\ UNCHANGED <<seen, lastSeen, passed, scheduled, failed>>
  PROVE  /\ FrameInv'
         /\ \A g \in Frames : KindOf[g] \in GroupKinds => scheduled'[g] = scheduled[g]
<1>0. FrameTyped /\ ArrivedByNow /\ EntriesArePassed /\ DroppedAreForgettable /\ AckedIsPassedOn
  BY DEF FrameInv
<1>1. /\ UNCHANGED <<seen, lastSeen, passed, clock, acked>>
      /\ failed' \in {failed, failed \cup {f}}
      /\ \/ UNCHANGED scheduled
         \/ KindOf[f] = "dm" /\ scheduled' = [scheduled EXCEPT ![f] = @ + 1]
      /\ \/ f \in failed'
         \/ KindOf[f] = "dm" /\ scheduled' = [scheduled EXCEPT ![f] = @ + 1]
         \/ KindOf[f] \in {"ignored", "invalid"}
  BY DEF DirectFrame, IgnoredFrame, Raises, Schedule, FrameArrives
<1>2. /\ scheduled' \in [Frames -> Nat]
      /\ \A g \in Frames : /\ scheduled[g] \in Nat /\ scheduled'[g] \in Nat
                           /\ scheduled'[g] >= scheduled[g] /\ scheduled'[g] <= scheduled[g] + 1
                           /\ KindOf[g] \in GroupKinds => scheduled'[g] = scheduled[g]
  <2>1. scheduled \in [Frames -> Nat]
    BY <1>0 DEF FrameTyped
  <2> QED BY <1>1, <2>1 DEF GroupKinds
<1>3. FrameTyped'
  <2>1. deliveries \in Nat /\ deliveries' = deliveries + 1 /\ \A g \in Frames : scheduled[g] <= deliveries
    BY <1>0, FrameAssumption DEF FrameTyped, FrameArrives
  <2>2. \A g \in Frames : scheduled'[g] <= deliveries'
    BY <1>2, <2>1
  <2>3. /\ answering' \in Frames \cup {NoFrame} /\ failed' \subseteq Frames
        /\ deliveries' \in 0 .. MaxDeliveries
    BY <1>0, <1>1, FrameAssumption DEF FrameTyped, FrameArrives
  <2> QED BY <1>0, <1>1, <1>2, <2>2, <2>3 DEF FrameTyped
<1>4. EntriesArePassed'
  <2>1. ASSUME NEW k \in DOMAIN seen
        PROVE  \E g \in Frames : KeyOf[g] = k /\ KindOf[g] = seen[k].kind /\ scheduled'[g] > 0
    <3>1. PICK g \in Frames : KeyOf[g] = k /\ KindOf[g] = seen[k].kind /\ scheduled[g] > 0
      BY <1>0 DEF EntriesArePassed
    <3> QED BY <1>2, <3>1
  <2> QED BY <1>0, <1>1, <2>1 DEF EntriesArePassed
<1>5. DroppedAreForgettable' /\ ArrivedByNow'
  BY <1>0, <1>1 DEF DroppedAreForgettable, ArrivedByNow, Forgettable
<1>6. AckedIsPassedOn' /\ AnsweringIsPassedOn'
  <2>1. acked \subseteq Frames /\ answering' \in {f, NoFrame} /\ (answering' = f => KindOf[f] # "invalid")
    BY <1>0, FrameAssumption DEF FrameTyped, FrameArrives
  <2>2. \A g \in acked' \ failed' : PassedOn(g)'
    BY <1>0, <1>1, <1>2, <2>1, PassedOnGrows DEF AckedIsPassedOn, PassedOn
  <2>3. f \notin failed' /\ KindOf[f] # "invalid" => PassedOn(f)'
    <3>1. KindOf[f] = "dm" /\ f \notin failed' => scheduled'[f] > 0
      BY <1>0, <1>1, <1>2 DEF FrameTyped
    <3> QED BY <1>1, <3>1 DEF PassedOn, GroupKinds
  <2> QED BY <2>1, <2>2, <2>3 DEF AckedIsPassedOn, AnsweringIsPassedOn, PassedOn
<1> QED BY <1>2, <1>3, <1>4, <1>5, <1>6 DEF FrameInv

LEMMA FrameStep ==
  ASSUME FrameInv, [FrameNext]_frameVars
  PROVE  /\ FrameInv'
         /\ \A f \in Frames :
              KindOf[f] \in GroupKinds /\ scheduled'[f] > scheduled[f]
                => Passed(KeyOf[f]) \subseteq IF KindOf[f] = "mention" THEN {"forward"} ELSE {}
<1>0. /\ FrameTyped /\ ArrivedByNow /\ EntriesArePassed /\ DroppedAreForgettable
      /\ AckedIsPassedOn /\ AnsweringIsPassedOn /\ \A f \in Frames : scheduled[f] \in Nat
  BY DEF FrameInv, FrameTyped
<1>1. ASSUME NEW f \in Frames, HandleFrame(f)
      PROVE  /\ FrameInv'
             /\ \A g \in Frames :
                  KindOf[g] \in GroupKinds /\ scheduled'[g] > scheduled[g]
                    => Passed(KeyOf[g]) \subseteq IF KindOf[g] = "mention" THEN {"forward"} ELSE {}
  <2>1. FrameArrives(f)
    BY <1>1 DEF HandleFrame, FrameArrives, Redelivered, Acknowledges
  <2>2. CASE GroupFrame(f) /\ UNCHANGED failed
    BY <1>0, <2>1, <2>2, GroupFrameStep
  <2>3. CASE \/ DirectFrame(f) /\ UNCHANGED failed
             \/ IgnoredFrame(f) /\ UNCHANGED failed
             \/ Raises(f)
             \/ KindOf[f] = "invalid" /\ UNCHANGED <<seen, lastSeen, passed, scheduled, failed>>
    BY <1>0, <2>1, <2>3, OtherFrameStep
  <2> QED BY <1>1, <2>2, <2>3 DEF HandleFrame
<1>2. CASE SendAck
  <2>1. /\ answering # NoFrame /\ answering' = NoFrame
        /\ acked' \subseteq acked \cup {answering}
        /\ UNCHANGED <<clock, seen, deliveries, scheduled, failed, lastSeen, passed>>
    BY <1>2 DEF SendAck
  <2>2. FrameTyped' /\ ArrivedByNow' /\ EntriesArePassed' /\ AnsweringIsPassedOn'
    BY <1>0, <2>1 DEF FrameTyped, ArrivedByNow, EntriesArePassed, AnsweringIsPassedOn
  <2>3. DroppedAreForgettable'
    BY <1>0, <2>1 DEF DroppedAreForgettable, Forgettable
  <2>4. AckedIsPassedOn'
    BY <1>0, <2>1 DEF AckedIsPassedOn, AnsweringIsPassedOn, PassedOn, Covers
  <2> QED BY <1>0, <2>1, <2>2, <2>3, <2>4 DEF FrameInv
<1>3. CASE ClockTick
  <2>1. /\ clock' = clock + 1 /\ clock' \in 0 .. MaxClock
        /\ UNCHANGED <<seen, answering, acked, deliveries, scheduled, failed, lastSeen, passed>>
    BY <1>0, <1>3, FrameAssumption DEF ClockTick, FrameTyped
  <2>2. FrameTyped' /\ EntriesArePassed' /\ AnsweringIsPassedOn' /\ AckedIsPassedOn'
    BY <1>0, <2>1 DEF FrameTyped, EntriesArePassed, AnsweringIsPassedOn, AckedIsPassedOn, PassedOn, Covers
  <2>3. \A j \in Keys : lastSeen[j] \in Int /\ clock \in Nat
    BY <1>0 DEF FrameTyped, NotSeen
  <2>4. DroppedAreForgettable' /\ ArrivedByNow'
    BY <1>0, <2>1, <2>3, StaysForgettable DEF DroppedAreForgettable, ArrivedByNow
  <2> QED BY <1>0, <2>1, <2>2, <2>4 DEF FrameInv
<1>4. CASE UNCHANGED frameVars
  BY <1>0, <1>4 DEF frameVars, FrameInv, FrameTyped, ArrivedByNow, EntriesArePassed,
     DroppedAreForgettable, Forgettable, AnsweringIsPassedOn, AckedIsPassedOn, PassedOn, Covers
<1> QED BY <1>1, <1>2, <1>3, <1>4 DEF FrameNext

\* For any frames, keys, memory size, deliveries and lost acks: nothing acknowledged
\* is lost, and nothing the deduper can still know is passed on twice
\* (websocket.py:254-330, 534-600).
THEOREM FramesStayHandled == FrameSpec => FramesAreHandled
<1>1. FrameInv => FrameTypeOK /\ AckedIsPassedOn
  <2> SUFFICES ASSUME FrameInv PROVE FrameTypeOK /\ AckedIsPassedOn
    OBVIOUS
  <2>1. FrameTyped /\ AckedIsPassedOn
    BY DEF FrameInv
  <2>2. scheduled \in [Frames -> 0 .. MaxDeliveries]
    <3>1. deliveries \in Int /\ deliveries <= MaxDeliveries /\ MaxDeliveries \in Nat
      BY <2>1, FrameAssumption DEF FrameTyped
    <3> QED BY <2>1, <3>1 DEF FrameTyped
  <2> QED BY <2>1, <2>2 DEF FrameTyped, FrameTypeOK
<1>2. FrameInv /\ [FrameNext]_frameVars => FrameInv'
  BY FrameStep
<1>3. FrameInv /\ [FrameNext]_frameVars =>
        [\A f \in Frames :
           KindOf[f] \in GroupKinds /\ scheduled'[f] > scheduled[f]
             => Passed(KeyOf[f]) \subseteq IF KindOf[f] = "mention" THEN {"forward"} ELSE {}]_frameVars
  BY FrameStep
<1> QED BY FrameInitHolds, <1>1, <1>2, <1>3, PTL DEF FrameSpec, FramesAreHandled, NoCopyPassedTwice
-----------------------------------------------------------------------------
(***************************************************************************)
(* The pipeline.  The kind the duplicate check keeps of an id tells what   *)
(* was handed on of it; the replies' progress tells what was posted.       *)
(***************************************************************************)

ChunkAhead(r) == ChunksOf[r][reply[r].next]

RepliesAdvance ==
  \A r \in Replies :
    /\ reply[r].next \in DOMAIN ChunksOf[r]
    /\ reply[r].st = "ok" => ChunkAhead(r) \in posted
    /\ reply[r].succeeded > 0 => \E i \in DOMAIN ChunksOf[r] : ChunksOf[r][i] \in posted

\* What was handed to the agent is no longer new, and what was handed to it as a
\* mention cannot be upgraded to one.
HandedIsKnown ==
  \A d \in dispatched :
    /\ kind[d.copy.id] # "none"
    /\ d.mentioned => kind[d.copy.id] # "forward"

ReceivedIsMentioned ==
  \A c \in Copies : task[c].st # "idle" /\ c.event = "MESSAGE_RECEIVE" => task[c].mentioned

PipeInv == TypeOK /\ RepliesAdvance /\ HandedIsKnown /\ ReceivedIsMentioned

LEMMA OwnAndForeign ==
  /\ \A r \in Replies : /\ ChunksOf[r] \in Seq(Own) /\ ChunksOf[r] # <<>>
                        /\ 1 \in DOMAIN ChunksOf[r]
                        /\ \A i \in DOMAIN ChunksOf[r] : ChunksOf[r][i] \in Own
                        /\ \A i \in DOMAIN ChunksOf[r] : i \in Nat /\ (i # Len(ChunksOf[r]) => i + 1 \in DOMAIN ChunksOf[r])
  /\ \A c \in Copies : /\ c.id \in Ids /\ c.event \in Events
                       /\ c.event = "MESSAGE_RECEIVE" => c.id \in Mentioning
  /\ Foreign \cap Own = {} /\ Direct \cup Mentioning \cup AdminCommands \subseteq Foreign
  /\ DOMAIN Quoting \subseteq Foreign
<1>1. ASSUME NEW r \in Replies
      PROVE  /\ ChunksOf[r] \in Seq(Own) /\ ChunksOf[r] # <<>>
             /\ 1 \in DOMAIN ChunksOf[r]
             /\ \A i \in DOMAIN ChunksOf[r] : ChunksOf[r][i] \in Own
             /\ \A i \in DOMAIN ChunksOf[r] : i \in Nat /\ (i # Len(ChunksOf[r]) => i + 1 \in DOMAIN ChunksOf[r])
  <2>1. ChunksOf[r] \in Seq(Own) /\ ChunksOf[r] # <<>>
    BY PipelineAssumption
  <2>2. PICK n \in Nat : n = Len(ChunksOf[r]) /\ DOMAIN ChunksOf[r] = 1 .. n
    BY <2>1, LenProperties
  <2>3. n # 0
    BY <2>1, <2>2, EmptySeq
  <2>4. \A i \in DOMAIN ChunksOf[r] : ChunksOf[r][i] \in Own
    BY <2>1, ElementOfSeq, <2>2
  <2> QED BY <2>1, <2>2, <2>3, <2>4
<1>2. /\ Copies \subseteq [id : Ids, event : Events, no : Nat]
      /\ \A c \in Copies : c.event = "MESSAGE_RECEIVE" => c.id \in Mentioning
      /\ Foreign \cap Own = {} /\ Direct \cup Mentioning \cup AdminCommands \subseteq Foreign
      /\ DOMAIN Quoting \subseteq Foreign
  BY PipelineAssumption
<1> QED BY <1>1, <1>2

\* The parts of an inbound message's handling, as the invariants need them.
LEMMA HandleFacts ==
  ASSUME TypeOK, NEW c \in Copies, Handle(c)
  PROVE  /\ task[c].st = "enriching"
         /\ task' = [task EXCEPT ![c].st = "done"]
         /\ kind' = IF PassesDedup(c, task[c]) THEN [kind EXCEPT ![c.id] = DedupKind(c, task[c])] ELSE kind
         /\ UNCHANGED <<now, sentStore, lastReply, reply, posted>>
         /\ \E knows \in {botKnows \/ task[c].discovers} :
            \E resolved \in IF botKnows THEN BOOLEAN ELSE Lookups :
              /\ botKnows' = knows /\ parserKnows' = (parserKnows \/ task[c].discovers)
              /\ rows' = [rows EXCEPT ![c.id] = Merge(@, SentEcho(c) \/ OwnEcho(c, resolved, knows), SentEcho(c))]
              /\ context' = WithContext(c, SentEcho(c), OwnEcho(c, resolved, knows))
              /\ dispatched' =
                   IF /\ PassesDedup(c, task[c]) /\ ~OwnEcho(c, resolved, knows)
                      /\ Decision(c, task[c]).action = "dispatch"
                   THEN dispatched \cup {[copy |-> c, mentioned |-> task[c].mentioned,
                                          trigger |-> Decision(c, task[c]).trigger, at |-> now]}
                   ELSE dispatched
BY DEF Handle

\* What EvaluateInbound decides of any message, and of one addressed to the bot.
LEMMA DecisionFacts ==
  ASSUME NEW f, NEW since, NEW t
  PROVE  LET verdict == EvaluateInbound(Group, f, since, t) IN
         /\ verdict.action = "dispatch" => verdict.trigger \in Triggers
         /\ (/\ ResolveForGroup(Group).mode \in {"mention-only", "mention-and-watch", "proactive"}
             /\ f.mentioned \/ f.quoted)
            => verdict = Dispatch("bot-mentioned")
<1> DEFINE eff == ResolveForGroup(Group)
           hold == FollowUpOrHold(f, eff, since, t)
<1>1. eff.mode \in Modes
  BY PipelineAssumption, PolicyAssumption DEF ResolveForGroup, Settings
<1>2. /\ \A x : Dispatch(x).trigger = x /\ Dispatch(x).action = "dispatch"
      /\ \A x : Held(x).action = x
  BY DEF Dispatch, Held
<1>3. hold.action = "dispatch" => hold.trigger \in Triggers
  BY <1>2 DEF FollowUpOrHold, Triggers
<1> HIDE DEF hold, eff
<1>4. /\ eff.mode = "ignore" => EvaluateInbound(Group, f, since, t) = Held("skip")
      /\ eff.mode = "record" => EvaluateInbound(Group, f, since, t) = Held("record")
      /\ eff.mode = "proactive" => EvaluateInbound(Group, f, since, t) =
           Dispatch(IF f.mentioned \/ f.quoted THEN "bot-mentioned" ELSE "proactive")
      /\ eff.mode = "mention-only" => EvaluateInbound(Group, f, since, t) =
           IF f.mentioned \/ f.quoted THEN Dispatch("bot-mentioned") ELSE hold
      /\ eff.mode = "mention-and-watch" => EvaluateInbound(Group, f, since, t) =
           IF f.mentioned \/ f.quoted THEN Dispatch("bot-mentioned")
           ELSE IF eff.watch /\ f.watched THEN Dispatch("watchMentions")
           ELSE IF eff.watch /\ f.pattern THEN Dispatch("watchRegex") ELSE hold
  BY DEF EvaluateInbound, eff, hold
<1>5. EvaluateInbound(Group, f, since, t).action = "dispatch" =>
        EvaluateInbound(Group, f, since, t).trigger \in Triggers
  BY <1>1, <1>2, <1>3, <1>4 DEF Modes, Triggers
<1>6. (/\ eff.mode \in {"mention-only", "mention-and-watch", "proactive"}
       /\ f.mentioned \/ f.quoted)
      => EvaluateInbound(Group, f, since, t) = Dispatch("bot-mentioned")
  BY <1>4
<1>7. eff = ResolveForGroup(Group)
  BY DEF eff
<1> QED BY <1>5, <1>6, <1>7
Rows == [stored : BOOLEAN, outgoing : BOOLEAN, local : BOOLEAN]
Tasks == [st : {"idle", "enriching", "done"}, mentioned : BOOLEAN, quoted : BOOLEAN, discovers : BOOLEAN]
Calls == [next : Nat, st : {"idle", "calling", "ok", "error", "done"}, succeeded : Nat]

LEMMA MergedRow ==
  ASSUME NEW row \in Rows, NEW echo \in BOOLEAN, NEW local \in BOOLEAN
  PROVE  /\ Merge(row, echo, local) \in Rows
         /\ Merge(row, echo, local).outgoing <=> row.outgoing \/ echo
         /\ Merge(row, echo, local).local <=> row.local \/ local
BY DEF Merge, Rows

LEMMA PipeInitHolds == Init => PipeInv
<1> SUFFICES ASSUME Init PROVE PipeInv
  OBVIOUS
<1>1. /\ botKnows \in BOOLEAN /\ parserKnows = botKnows /\ now = 0 /\ lastReply = Never
      /\ task = [c \in Copies |-> Idle] /\ kind = [m \in Ids |-> "none"]
      /\ sentStore = {} /\ context = {} /\ posted = {} /\ dispatched = {}
      /\ rows = [m \in Ids |-> NoRow]
      /\ reply = [r \in Replies |-> [next |-> 1, st |-> "idle", succeeded |-> 0]]
  BY PipelineAssumption DEF Init
<1>2. Idle \in Tasks /\ NoRow \in Rows
  BY DEF Idle, Tasks, NoRow, Rows
<1>3. TypeOK
  BY <1>1, <1>2 DEF TypeOK, Tasks, Rows, Kinds
<1>4. RepliesAdvance
  BY <1>1, OwnAndForeign DEF RepliesAdvance
<1>5. HandedIsKnown /\ ReceivedIsMentioned
  BY <1>1 DEF HandedIsKnown, ReceivedIsMentioned, Idle
<1> QED BY <1>3, <1>4, <1>5 DEF PipeInv

LEMMA DeliverStep ==
  ASSUME PipeInv, NEW c \in Copies, Deliver(c)
  PROVE  PipeInv'
<1>0. TypeOK /\ RepliesAdvance /\ HandedIsKnown /\ ReceivedIsMentioned
  BY DEF PipeInv
<1>1. PICK new \in Tasks :
        /\ task' = [task EXCEPT ![c] = new] /\ new.st = "enriching"
        /\ c.event = "MESSAGE_RECEIVE" => new.mentioned
  <2> DEFINE sees == c.id \in Mentioning /\ (c.event = "MESSAGE_RECEIVE" \/ parserKnows)
             quotes == c.id \in DOMAIN Quoting /\ (parserKnows \/ Quoting[c.id] \in sentStore)
             learns(only) == sees /\ (parserKnows \/ only)
  <2>1. PICK onlyRobot \in BOOLEAN :
          task' = [task EXCEPT ![c] = [st |-> "enriching", mentioned |-> sees,
                                       quoted |-> quotes, discovers |-> learns(onlyRobot)]]
    BY DEF Deliver
  <2>2. /\ sees \in BOOLEAN /\ quotes \in BOOLEAN /\ learns(onlyRobot) \in BOOLEAN
        /\ c.event = "MESSAGE_RECEIVE" => sees
    BY OwnAndForeign
  <2> HIDE DEF sees, quotes, learns
  <2>3. PICK s, q, l \in BOOLEAN : s = sees /\ q = quotes /\ l = learns(onlyRobot)
    BY <2>2
  <2>4. PICK new : new = [st |-> "enriching", mentioned |-> s, quoted |-> q, discovers |-> l]
    OBVIOUS
  <2>5. new \in Tasks /\ new.st = "enriching" /\ new.mentioned = s
    BY <2>4 DEF Tasks
  <2>6. task' = [task EXCEPT ![c] = new]
    BY <2>1, <2>3, <2>4
  <2>7. c.event = "MESSAGE_RECEIVE" => new.mentioned
    BY <2>2, <2>3, <2>5
  <2> QED BY <2>5, <2>6, <2>7
<1>2. UNCHANGED <<now, parserKnows, botKnows, kind, sentStore, rows, context, lastReply, reply, posted, dispatched>>
  BY DEF Deliver
<1>3. TypeOK'
  BY <1>0, <1>1, <1>2 DEF TypeOK, Tasks
<1>4. RepliesAdvance' /\ HandedIsKnown'
  BY <1>0, <1>2 DEF RepliesAdvance, ChunkAhead, HandedIsKnown
<1>5. ReceivedIsMentioned'
  BY <1>0, <1>1 DEF ReceivedIsMentioned, TypeOK
<1> QED BY <1>3, <1>4, <1>5 DEF PipeInv

\* The duplicate check: an id gets a kind, and a forwarded one that of its mention.
LEMMA DedupFacts ==
  ASSUME PipeInv, NEW c \in Copies, task[c].st = "enriching", PassesDedup(c, task[c])
  PROVE  LET new == DedupKind(c, task[c]) IN
         /\ new \in Kinds \ {"none", "sent"}
         /\ task[c].mentioned => new # "forward"
         /\ kind[c.id] # "none" => kind[c.id] = "forward" /\ new = "mention"
         /\ new = "mention" => task[c].mentioned /\ c.id \notin Direct
<1>1. c.event = "MESSAGE_RECEIVE" => task[c].mentioned
  BY DEF PipeInv, ReceivedIsMentioned
<1> QED BY <1>1 DEF DedupKind, PassesDedup, MentionUpgrade, Kinds

LEMMA HandleStep ==
  ASSUME PipeInv, NEW c \in Copies, Handle(c)
  PROVE  /\ PipeInv'
         /\ \A d \in dispatched' \ dispatched :
              \A e \in dispatched : e.copy.id = d.copy.id => d.mentioned /\ ~e.mentioned
<1> DEFINE t == task[c]
           new == DedupKind(c, t)
<1>0. TypeOK /\ RepliesAdvance /\ HandedIsKnown /\ ReceivedIsMentioned /\ c.id \in Ids
  BY OwnAndForeign DEF PipeInv
<1>1. /\ t.st = "enriching" /\ t.mentioned \in BOOLEAN /\ t.discovers \in BOOLEAN
      /\ task' = [task EXCEPT ![c].st = "done"]
      /\ UNCHANGED <<now, sentStore, lastReply, reply, posted>>
  BY <1>0, HandleFacts DEF TypeOK
<1>2. PICK knows \in BOOLEAN, own \in BOOLEAN :
        /\ botKnows' = knows /\ parserKnows' = (parserKnows \/ t.discovers)
        /\ rows' = [rows EXCEPT ![c.id] = Merge(@, SentEcho(c) \/ own, SentEcho(c))]
        /\ context' \subseteq context \cup {c.id}
        /\ dispatched' = IF PassesDedup(c, t) /\ ~own /\ Decision(c, t).action = "dispatch"
                         THEN dispatched \cup {[copy |-> c, mentioned |-> t.mentioned,
                                                trigger |-> Decision(c, t).trigger, at |-> now]}
                         ELSE dispatched
  <2>1. PICK knows \in {botKnows \/ t.discovers}, resolved \in IF botKnows THEN BOOLEAN ELSE Lookups :
          /\ botKnows' = knows /\ parserKnows' = (parserKnows \/ t.discovers)
          /\ rows' = [rows EXCEPT ![c.id] = Merge(@, SentEcho(c) \/ OwnEcho(c, resolved, knows), SentEcho(c))]
          /\ context' = WithContext(c, SentEcho(c), OwnEcho(c, resolved, knows))
          /\ dispatched' =
               IF PassesDedup(c, t) /\ ~OwnEcho(c, resolved, knows) /\ Decision(c, t).action = "dispatch"
               THEN dispatched \cup {[copy |-> c, mentioned |-> t.mentioned,
                                      trigger |-> Decision(c, t).trigger, at |-> now]}
               ELSE dispatched
    BY <1>0, HandleFacts
  <2>2. knows \in BOOLEAN
    BY <2>1
  <2>3. OwnEcho(c, resolved, knows) \in BOOLEAN
    BY DEF OwnEcho
  <2>4. context' \subseteq context \cup {c.id}
    BY <2>1 DEF WithContext
  <2> QED BY <2>1, <2>2, <2>3, <2>4
<1>3. kind' = IF PassesDedup(c, t) THEN [kind EXCEPT ![c.id] = new] ELSE kind
  BY <1>0, HandleFacts
<1>4. PassesDedup(c, t) =>
        /\ new \in Kinds \ {"none", "sent"}
        /\ t.mentioned => new # "forward"
        /\ kind[c.id] # "none" => kind[c.id] = "forward" /\ new = "mention"
        /\ new = "mention" => t.mentioned
  BY <1>1, DedupFacts
<1>5. Decision(c, t).action = "dispatch" => Decision(c, t).trigger \in Triggers
  BY DecisionFacts DEF Decision, Dispatch, Triggers
<1> HIDE DEF new
<1>6. TypeOK'
  <2>1. task' \in [Copies -> Tasks]
    BY <1>0, <1>1 DEF TypeOK, Tasks
  <2>2. rows' \in [Ids -> Rows]
    <3>1. rows \in [Ids -> Rows] /\ SentEcho(c) \in BOOLEAN /\ (SentEcho(c) \/ own) \in BOOLEAN
      BY <1>0 DEF TypeOK, Rows, SentEcho
    <3>2. Merge(rows[c.id], SentEcho(c) \/ own, SentEcho(c)) \in Rows
      BY <1>0, <3>1, MergedRow
    <3> QED BY <1>0, <1>2, <3>1, <3>2
  <2>3. kind' \in [Ids -> Kinds]
    BY <1>0, <1>3, <1>4 DEF TypeOK
  <2>4. dispatched' \subseteq [copy : Copies, mentioned : BOOLEAN, trigger : Triggers, at : Nat]
    BY <1>0, <1>1, <1>2, <1>5 DEF TypeOK
  <2>5. context' \subseteq Ids
    BY <1>0, <1>2 DEF TypeOK
  <2>6. parserKnows' \in BOOLEAN /\ botKnows' \in BOOLEAN
    BY <1>2
  <2> QED BY <1>0, <1>1, <2>1, <2>2, <2>3, <2>4, <2>5, <2>6 DEF TypeOK, Tasks, Rows
<1>7. RepliesAdvance'
  BY <1>0, <1>1 DEF RepliesAdvance, ChunkAhead
<1>8. HandedIsKnown'
  <2>1. ASSUME NEW d \in dispatched'
        PROVE  kind'[d.copy.id] # "none" /\ (d.mentioned => kind'[d.copy.id] # "forward")
    <3>1. CASE d \in dispatched
      <4>1. d.copy.id \in Ids /\ kind[d.copy.id] # "none" /\ (d.mentioned => kind[d.copy.id] # "forward")
        BY <1>0, <3>1, OwnAndForeign DEF HandedIsKnown, TypeOK
      <4> QED BY <1>0, <1>3, <1>4, <4>1 DEF TypeOK
    <3>2. CASE d \notin dispatched
      <4>1. PassesDedup(c, t) /\ d.copy = c /\ d.mentioned = t.mentioned
        BY <1>2, <3>2
      <4> QED BY <1>0, <1>3, <1>4, <4>1 DEF TypeOK
    <3> QED BY <3>1, <3>2
  <2> QED BY <2>1 DEF HandedIsKnown
<1>9. ReceivedIsMentioned'
  BY <1>0, <1>1 DEF ReceivedIsMentioned, TypeOK
<1>10. ASSUME NEW d \in dispatched' \ dispatched, NEW e \in dispatched, e.copy.id = d.copy.id
       PROVE  d.mentioned /\ ~e.mentioned
  <2>1. PassesDedup(c, t) /\ d.copy = c /\ d.mentioned = t.mentioned
    BY <1>2, <1>10
  <2>2. kind[c.id] # "none" /\ (e.mentioned => kind[c.id] # "forward")
    BY <1>0, <1>10, <2>1 DEF HandedIsKnown
  <2> QED BY <1>4, <2>1, <2>2
<1> QED BY <1>6, <1>7, <1>8, <1>9, <1>10 DEF PipeInv
\* A reply starts, its chunk is answered, and the call returns.
LEMMA ReplyMoves ==
  ASSUME PipeInv, NEW r \in Replies, StartReply(r) \/ ApiAnswers(r) \/ CallReturns(r)
  PROVE  /\ PipeInv'
         /\ UNCHANGED <<now, botKnows, task, context, dispatched>>
<1>0. /\ TypeOK /\ RepliesAdvance /\ HandedIsKnown /\ ReceivedIsMentioned
      /\ ChunkAhead(r) \in Own /\ reply[r] \in Calls /\ reply \in [Replies -> Calls]
  BY OwnAndForeign DEF PipeInv, RepliesAdvance, ChunkAhead, TypeOK, Calls
<1>1. /\ UNCHANGED <<now, parserKnows, botKnows, task, context, dispatched>>
      /\ posted \subseteq posted' /\ posted' \subseteq posted \cup {ChunkAhead(r)}
      /\ sentStore' \subseteq sentStore \cup {ChunkAhead(r)}
      /\ lastReply' \in {lastReply, now}
      /\ kind' = kind \/ kind' = [kind EXCEPT ![ChunkAhead(r)] = "sent"]
      /\ rows' = rows \/ rows' = [rows EXCEPT ![ChunkAhead(r)] = Merge(@, TRUE, TRUE)]
  BY DEF StartReply, ApiAnswers, CallReturns, ChunkAhead
<1>2. PICK call \in Calls :
        /\ reply' = [reply EXCEPT ![r] = call]
        /\ call.next \in DOMAIN ChunksOf[r]
        /\ call.st = "ok" => call.next = reply[r].next /\ ChunkAhead(r) \in posted'
        /\ call.succeeded > 0 => \E i \in DOMAIN ChunksOf[r] : ChunksOf[r][i] \in posted'
  <2>0. /\ reply[r].next \in DOMAIN ChunksOf[r]
        /\ reply[r].succeeded > 0 => \E i \in DOMAIN ChunksOf[r] : ChunksOf[r][i] \in posted
        /\ reply[r].st = "ok" => ChunkAhead(r) \in posted
    BY <1>0 DEF RepliesAdvance
  <2>1. CASE StartReply(r)
    <3>1. PICK call : call = [reply[r] EXCEPT !.st = "calling"]
      OBVIOUS
    <3>2. call \in Calls /\ call.st = "calling" /\ call.next = reply[r].next /\ call.succeeded = reply[r].succeeded
      BY <1>0, <3>1 DEF Calls
    <3>3. reply' = [reply EXCEPT ![r] = call]
      BY <1>0, <2>1, <3>1 DEF StartReply
    <3> QED BY <1>1, <2>0, <3>2, <3>3
  <2>2. CASE ApiAnswers(r)
    <3>1. PICK st \in {"ok", "error"} :
            /\ reply' = [reply EXCEPT ![r].st = st]
            /\ st = "ok" => ChunkAhead(r) \in posted'
      BY <2>2 DEF ApiAnswers, ChunkAhead
    <3>2. PICK call : call = [reply[r] EXCEPT !.st = st]
      OBVIOUS
    <3>3. call \in Calls /\ call.st = st /\ call.next = reply[r].next /\ call.succeeded = reply[r].succeeded
      BY <1>0, <3>2 DEF Calls
    <3>4. reply' = [reply EXCEPT ![r] = call]
      BY <1>0, <3>1, <3>2
    <3> QED BY <1>1, <2>0, <3>1, <3>3, <3>4
  <2>3. CASE CallReturns(r)
    <3>1. PICK n, succeeded \in Nat :
            /\ n = (IF reply[r].next = Len(ChunksOf[r]) THEN reply[r].next ELSE reply[r].next + 1)
            /\ succeeded = reply[r].succeeded + (IF reply[r].st = "ok" THEN 1 ELSE 0)
      BY <1>0 DEF Calls
    <3>2. PICK st \in {"done", "calling"} : reply' = [reply EXCEPT ![r] = [next |-> n, st |-> st, succeeded |-> succeeded]]
      BY <2>3, <3>1 DEF CallReturns
    <3>3. PICK call : call = [next |-> n, st |-> st, succeeded |-> succeeded]
      OBVIOUS
    <3>4. call \in Calls /\ call.st # "ok" /\ call.next = n /\ call.succeeded = succeeded
      BY <3>3 DEF Calls
    <3>5. n \in DOMAIN ChunksOf[r]
      BY <2>0, <3>1, OwnAndForeign
    <3>6. succeeded > 0 => \E i \in DOMAIN ChunksOf[r] : ChunksOf[r][i] \in posted
      BY <1>0, <2>0, <3>1 DEF Calls, ChunkAhead
    <3> QED BY <1>1, <3>2, <3>3, <3>4, <3>5, <3>6
  <2> QED BY <2>1, <2>2, <2>3
<1>3. TypeOK'
  <2>1. rows' \in [Ids -> Rows]
    <3>1. rows \in [Ids -> Rows] /\ ChunkAhead(r) \in Ids
      BY <1>0 DEF TypeOK, Rows, Ids
    <3>2. Merge(rows[ChunkAhead(r)], TRUE, TRUE) \in Rows
      BY <3>1, MergedRow
    <3> QED BY <1>1, <3>1, <3>2
  <2>2. kind' \in [Ids -> Kinds]
    BY <1>0, <1>1 DEF TypeOK, Kinds
  <2>3. reply' \in [Replies -> Calls]
    BY <1>0, <1>2
  <2>4. sentStore' \subseteq Own /\ posted' \subseteq Own /\ lastReply' \in Nat \cup {Never}
    BY <1>0, <1>1 DEF TypeOK
  <2> QED BY <1>0, <1>1, <2>1, <2>2, <2>3, <2>4 DEF TypeOK, Rows, Calls
<1>4. RepliesAdvance'
  <2>1. ASSUME NEW x \in Replies
        PROVE  /\ reply'[x].next \in DOMAIN ChunksOf[x]
               /\ reply'[x].st = "ok" => ChunkAhead(x)' \in posted'
               /\ reply'[x].succeeded > 0 => \E i \in DOMAIN ChunksOf[x] : ChunksOf[x][i] \in posted'
    <3>1. CASE x = r
      BY <1>0, <1>2, <3>1 DEF ChunkAhead
    <3>2. CASE x # r
      <4>1. reply'[x] = reply[x]
        BY <1>0, <1>2, <3>2
      <4> QED BY <1>0, <1>1, <4>1 DEF RepliesAdvance, ChunkAhead
    <3> QED BY <3>1, <3>2
  <2> QED BY <2>1 DEF RepliesAdvance
<1>5. HandedIsKnown'
  BY <1>0, <1>1, OwnAndForeign DEF HandedIsKnown, TypeOK
<1>6. ReceivedIsMentioned'
  BY <1>0, <1>1 DEF ReceivedIsMentioned
<1> QED BY <1>1, <1>3, <1>4, <1>5, <1>6 DEF PipeInv

LEMMA PipeStep ==
  ASSUME PipeInv, [Next]_vars
  PROVE  /\ PipeInv'
         /\ \A d \in dispatched' \ dispatched :
              \A e \in dispatched : e.copy.id = d.copy.id => d.mentioned /\ ~e.mentioned
<1>1. CASE \E c \in Copies : Deliver(c)
  <2>1. UNCHANGED dispatched
    BY <1>1 DEF Deliver
  <2> QED BY <1>1, <2>1, DeliverStep
<1>2. CASE \E c \in Copies : Handle(c)
  BY <1>2, HandleStep
<1>3. CASE \E r \in Replies : StartReply(r) \/ ApiAnswers(r) \/ CallReturns(r)
  BY <1>3, ReplyMoves
<1>4. CASE Tick \/ UNCHANGED vars
  <2>1. /\ now' \in {now, now + 1}
        /\ UNCHANGED <<parserKnows, botKnows, task, kind, sentStore, rows, context,
                       lastReply, reply, posted, dispatched>>
    BY <1>4 DEF Tick, vars
  <2>2. TypeOK'
    BY <2>1 DEF PipeInv, TypeOK
  <2>3. RepliesAdvance' /\ HandedIsKnown' /\ ReceivedIsMentioned'
    BY <2>1 DEF PipeInv, RepliesAdvance, ChunkAhead, HandedIsKnown, ReceivedIsMentioned
  <2> QED BY <2>1, <2>2, <2>3 DEF PipeInv
<1> QED BY <1>1, <1>2, <1>3, <1>4 DEF Next

LEMMA PipeInvariance == Spec => []PipeInv
<1>1. PipeInv /\ [Next]_vars => PipeInv'
  BY PipeStep
<1> QED BY PipeInitHolds, <1>1, PTL DEF Spec

\* For any copies of any messages, in any order, and whatever other tasks do during
\* the lookup: no message is handed on twice, but as the mention its earlier copy
\* did not show (bot.py:486-528).
THEOREM DispatchIsNotRepeated == Spec => NoRepeatedDispatch
<1>1. PipeInv /\ [Next]_vars =>
        [\A d \in dispatched' \ dispatched :
           \A e \in dispatched : e.copy.id = d.copy.id => d.mentioned /\ ~e.mentioned]_vars
  BY PipeStep
<1> QED BY PipeInvariance, <1>1, PTL DEF Spec, NoRepeatedDispatch
\* Was the robot id persisted, or does the member list always name the sender?
IdentityKnown == RobotKnown = {TRUE} \/ Lookups = {TRUE}

KnowsFromStart == RobotKnown = {TRUE} => botKnows
OwnWasPosted ==
  /\ sentStore \subseteq posted
  /\ \A c \in Copies : task[c].st # "idle" /\ c.id \in Own => c.id \in posted
OwnInv ==
  /\ KnowsFromStart /\ OwnWasPosted
  /\ OwnNeverDispatched /\ OwnRowsOutgoing /\ ContextIsForeign

\* A handled message is taken for an own one exactly if it is.
LEMMA EchoIsOwn ==
  ASSUME IdentityKnown, KnowsFromStart, NEW c \in Copies, NEW l \in BOOLEAN,
         NEW knows \in {botKnows \/ l}, NEW resolved \in IF botKnows THEN BOOLEAN ELSE Lookups
  PROVE  OwnEcho(c, resolved, knows) <=> c.id \in Own
<1>1. CASE botKnows
  <2>1. knows
    BY <1>1
  <2> QED BY <2>1 DEF OwnEcho
<1>2. CASE ~botKnows
  <2>1. resolved \in Lookups /\ Lookups = {TRUE}
    BY <1>2 DEF IdentityKnown, KnowsFromStart
  <2>2. resolved
    BY <2>1
  <2> QED BY <2>2 DEF OwnEcho
<1> QED BY <1>1, <1>2

LEMMA OwnHandleStep ==
  ASSUME IdentityKnown, PipeInv, OwnInv, NEW c \in Copies, Handle(c)
  PROVE  OwnInv'
<1> DEFINE t == task[c]
<1>0. /\ TypeOK /\ KnowsFromStart /\ OwnWasPosted /\ OwnNeverDispatched /\ OwnRowsOutgoing
      /\ ContextIsForeign /\ c.id \in Ids /\ t.discovers \in BOOLEAN /\ rows \in [Ids -> Rows]
  BY OwnAndForeign DEF PipeInv, OwnInv, TypeOK, Rows
<1>1. /\ t.st = "enriching" /\ task' = [task EXCEPT ![c].st = "done"]
      /\ UNCHANGED <<sentStore, posted>>
  BY <1>0, HandleFacts
<1>2. PICK knows \in {botKnows \/ t.discovers}, resolved \in IF botKnows THEN BOOLEAN ELSE Lookups :
        /\ botKnows' = knows
        /\ rows' = [rows EXCEPT ![c.id] = Merge(@, SentEcho(c) \/ OwnEcho(c, resolved, knows), SentEcho(c))]
        /\ context' = WithContext(c, SentEcho(c), OwnEcho(c, resolved, knows))
        /\ dispatched' =
             IF PassesDedup(c, t) /\ ~OwnEcho(c, resolved, knows) /\ Decision(c, t).action = "dispatch"
             THEN dispatched \cup {[copy |-> c, mentioned |-> t.mentioned,
                                    trigger |-> Decision(c, t).trigger, at |-> now]}
             ELSE dispatched
  BY <1>0, HandleFacts
<1>3. OwnEcho(c, resolved, knows) <=> c.id \in Own
  BY <1>0, <1>2, EchoIsOwn
<1>4. KnowsFromStart'
  BY <1>0, <1>2 DEF KnowsFromStart
<1>5. OwnWasPosted'
  BY <1>0, <1>1 DEF OwnWasPosted, TypeOK
<1>6. OwnNeverDispatched'
  BY <1>0, <1>2, <1>3 DEF OwnNeverDispatched
<1>7. ContextIsForeign'
  BY <1>0, <1>2, <1>3 DEF ContextIsForeign, WithContext
<1>8. OwnRowsOutgoing'
  <2>1. PICK echo, local \in BOOLEAN :
          /\ echo <=> SentEcho(c) \/ OwnEcho(c, resolved, knows)
          /\ local <=> SentEcho(c)
          /\ rows' = [rows EXCEPT ![c.id] = Merge(@, echo, local)]
    <3>1. PICK own \in BOOLEAN : own = OwnEcho(c, resolved, knows)
      BY DEF OwnEcho
    <3>2. PICK echo \in BOOLEAN : echo = SentEcho(c)
      BY DEF SentEcho
    <3>3. rows' = [rows EXCEPT ![c.id] = Merge(@, echo \/ own, echo)]
      BY <1>2, <3>1, <3>2
    <3> QED BY <3>1, <3>2, <3>3
  <2>2. PICK row \in Rows : row = Merge(rows[c.id], echo, local)
    BY <1>0, MergedRow
  <2>3. /\ row.outgoing <=> rows[c.id].outgoing \/ echo
        /\ row.local <=> rows[c.id].local \/ local
    BY <1>0, <2>2, MergedRow
  <2>4. rows' = [rows EXCEPT ![c.id] = row]
    BY <2>1, <2>2
  <2>5. echo => c.id \in posted
    BY <1>0, <1>1, <1>3, <2>1 DEF SentEcho, OwnWasPosted
  <2>6. ASSUME NEW m \in sentStore PROVE rows'[m].outgoing /\ rows'[m].local
    <3>1. rows[m].outgoing /\ rows[m].local /\ m \in Ids
      BY <1>0 DEF OwnRowsOutgoing, TypeOK, Ids
    <3> QED BY <1>0, <2>3, <2>4, <3>1
  <2>7. ASSUME NEW m \in Ids, rows'[m].outgoing PROVE m \in posted
    <3>1. CASE m = c.id
      BY <1>0, <2>3, <2>4, <2>5, <2>7, <3>1 DEF OwnRowsOutgoing
    <3>2. CASE m # c.id
      BY <1>0, <2>4, <2>7, <3>2 DEF OwnRowsOutgoing
    <3> QED BY <3>1, <3>2
  <2> QED BY <1>1, <2>6, <2>7 DEF OwnRowsOutgoing
<1> QED BY <1>4, <1>5, <1>6, <1>7, <1>8 DEF OwnInv

LEMMA OwnReplyStep ==
  ASSUME PipeInv, OwnInv, NEW r \in Replies, StartReply(r) \/ ApiAnswers(r) \/ CallReturns(r)
  PROVE  OwnInv'
<1>0. /\ TypeOK /\ KnowsFromStart /\ OwnWasPosted /\ OwnNeverDispatched /\ OwnRowsOutgoing
      /\ ContextIsForeign /\ ChunkAhead(r) \in Ids /\ rows \in [Ids -> Rows]
  BY OwnAndForeign DEF PipeInv, OwnInv, TypeOK, Rows, RepliesAdvance, ChunkAhead, Ids
<1>1. /\ UNCHANGED <<botKnows, task, context, dispatched>> /\ posted \subseteq posted'
      /\ \/ UNCHANGED <<sentStore, rows>>
         \/ /\ reply[r].st = "ok"
            /\ sentStore' = sentStore \cup {ChunkAhead(r)}
            /\ rows' = [rows EXCEPT ![ChunkAhead(r)] = Merge(@, TRUE, TRUE)]
  BY DEF StartReply, ApiAnswers, CallReturns, ChunkAhead
<1>2. KnowsFromStart' /\ OwnNeverDispatched' /\ ContextIsForeign'
  BY <1>0, <1>1 DEF KnowsFromStart, OwnNeverDispatched, ContextIsForeign
<1>3. reply[r].st = "ok" => ChunkAhead(r) \in posted
  BY DEF PipeInv, RepliesAdvance
<1>4. OwnWasPosted'
  BY <1>0, <1>1, <1>3 DEF OwnWasPosted
<1>5. OwnRowsOutgoing'
  <2>1. CASE UNCHANGED <<sentStore, rows>>
    BY <1>0, <1>1, <2>1 DEF OwnRowsOutgoing
  <2>2. CASE /\ reply[r].st = "ok"
             /\ sentStore' = sentStore \cup {ChunkAhead(r)}
             /\ rows' = [rows EXCEPT ![ChunkAhead(r)] = Merge(@, TRUE, TRUE)]
    <3>1. PICK row \in Rows : row = Merge(rows[ChunkAhead(r)], TRUE, TRUE)
      BY <1>0, MergedRow
    <3>2. row.outgoing /\ row.local
      BY <1>0, <3>1, MergedRow
    <3>3. rows' = [rows EXCEPT ![ChunkAhead(r)] = row]
      BY <2>2, <3>1
    <3>4. ASSUME NEW m \in sentStore' PROVE rows'[m].outgoing /\ rows'[m].local
      <4>1. m \in Ids /\ (m # ChunkAhead(r) => rows[m].outgoing /\ rows[m].local)
        BY <1>0, <2>2 DEF OwnRowsOutgoing, TypeOK, Ids
      <4> QED BY <1>0, <3>2, <3>3, <4>1
    <3>5. ASSUME NEW m \in Ids, rows'[m].outgoing PROVE m \in posted'
      <4>1. m = ChunkAhead(r) \/ rows'[m] = rows[m]
        BY <1>0, <3>3
      <4> QED BY <1>0, <1>1, <1>3, <2>2, <3>5, <4>1 DEF OwnRowsOutgoing
    <3> QED BY <3>4, <3>5 DEF OwnRowsOutgoing
  <2> QED BY <1>1, <2>1, <2>2
<1> QED BY <1>2, <1>4, <1>5 DEF OwnInv

\* For any messages, replies and orders, and lost replies too: what the bot sent is
\* never answered, stored as foreign or recalled as foreign, and what it did not
\* send is never stored as its own, provided it can know itself (bot.py:503-628).
THEOREM OwnIsKeptApart ==
  ASSUME IdentityKnown
  PROVE  Spec => []OwnStaysOwn
<1>1. Init => OwnInv
  <2> SUFFICES ASSUME Init PROVE OwnInv
    OBVIOUS
  <2>1. KnowsFromStart
    BY DEF Init, KnowsFromStart
  <2>2. OwnWasPosted /\ OwnNeverDispatched /\ ContextIsForeign
    BY DEF Init, OwnWasPosted, Idle, OwnNeverDispatched, ContextIsForeign
  <2>3. OwnRowsOutgoing
    BY DEF Init, OwnRowsOutgoing, NoRow
  <2> QED BY <2>1, <2>2, <2>3 DEF OwnInv
<1>2. PipeInv /\ OwnInv /\ [Next]_vars => OwnInv'
  <2> SUFFICES ASSUME PipeInv, OwnInv, [Next]_vars PROVE OwnInv'
    OBVIOUS
  <2>1. CASE \E c \in Copies : Deliver(c)
    <3>1. PICK c \in Copies : Deliver(c)
      BY <2>1
    <3>2. /\ UNCHANGED <<botKnows, sentStore, rows, context, posted, dispatched>>
          /\ \A e \in Copies \ {c} : task'[e] = task[e]
          /\ c.id \in Own => c.id \in posted
      BY <3>1 DEF Deliver, Deliverable, PipeInv, TypeOK
    <3>3. OwnWasPosted'
      BY <3>2 DEF OwnInv, OwnWasPosted
    <3> QED BY <3>2, <3>3 DEF OwnInv, KnowsFromStart, OwnNeverDispatched, OwnRowsOutgoing, ContextIsForeign
  <2>2. CASE \E c \in Copies : Handle(c)
    BY <2>2, OwnHandleStep
  <2>3. CASE \E r \in Replies : StartReply(r) \/ ApiAnswers(r) \/ CallReturns(r)
    BY <2>3, OwnReplyStep
  <2>4. CASE Tick \/ UNCHANGED vars
    <3>1. UNCHANGED <<botKnows, task, sentStore, rows, context, posted, dispatched>>
      BY <2>4 DEF Tick, vars
    <3> QED BY <3>1 DEF OwnInv, KnowsFromStart, OwnWasPosted, OwnNeverDispatched, OwnRowsOutgoing, ContextIsForeign
  <2> QED BY <2>1, <2>2, <2>3, <2>4 DEF Next
<1>3. PipeInv /\ OwnInv => OwnStaysOwn
  BY DEF PipeInv, OwnInv, OwnStaysOwn
<1> QED BY PipeInvariance, <1>1, <1>2, <1>3, PTL DEF Spec
\* Group messages come with the name of their event.
EventsNamed == \A c \in Copies : c.id \in Foreign \ Direct => c.event # ""

Mentions == {"mention-only", "mention-and-watch", "proactive"}
Reached(m) == \E d \in dispatched : /\ d.copy.id = m
                                    /\ d.trigger \in {"bot-mentioned", "slash_command"}
\* What a kind says of a group message: some copy of it was handled, and the one
\* that gave it its kind was handed on if it was addressed to the bot.
KindsSpeak ==
  \A m \in Foreign \ Direct :
    /\ kind[m] \in {"none", "forward", "mention"}
    /\ ResolveForGroup(Group).mode \in Mentions =>
         /\ kind[m] = "mention" => Reached(m)
         /\ kind[m] # "none" =>
              \E e \in Copies : /\ e.id = m /\ task[e].st = "done"
                                /\ task[e].quoted => Reached(m)
DoneIsKnown ==
  \A c \in Copies : task[c].st = "done" /\ c.id \in Foreign \ Direct =>
    kind[c.id] # "none" /\ (task[c].mentioned => kind[c.id] = "mention")
SignalInv == KindsSpeak /\ DoneIsKnown

\* A message addressed to the bot is dispatched as such.
LEMMA AddressedIsDirect ==
  ASSUME NEW c \in Copies, c.id \in Foreign \ Direct, NEW t, t.mentioned \/ t.quoted,
         ResolveForGroup(Group).mode \in Mentions
  PROVE  /\ Decision(c, t).action = "dispatch"
         /\ Decision(c, t).trigger \in {"bot-mentioned", "slash_command"}
<1>1. FactsOf(c, t).mentioned \/ FactsOf(c, t).quoted
  BY DEF FactsOf
<1>2. EvaluateInbound(Group, FactsOf(c, t), lastReply, now) = Dispatch("bot-mentioned")
  BY <1>1, DecisionFacts DEF Mentions
<1> QED BY <1>2 DEF Decision, Dispatch

LEMMA SignalHandleStep ==
  ASSUME EventsNamed, PipeInv, SignalInv, NEW c \in Copies, Handle(c)
  PROVE  SignalInv'
<1> DEFINE t == task[c]
           new == DedupKind(c, t)
           addressed == t.mentioned \/ t.quoted
<1>0. /\ TypeOK /\ KindsSpeak /\ DoneIsKnown /\ c.id \in Ids
      /\ kind \in [Ids -> Kinds] /\ Foreign \subseteq Ids /\ Foreign \cap Own = {}
  BY OwnAndForeign DEF PipeInv, SignalInv, TypeOK, Ids
<1>1. /\ t.st = "enriching" /\ task' = [task EXCEPT ![c].st = "done"]
      /\ UNCHANGED <<sentStore, posted>>
      /\ kind' = IF PassesDedup(c, t) THEN [kind EXCEPT ![c.id] = new] ELSE kind
  BY <1>0, HandleFacts
<1>2. /\ dispatched \subseteq dispatched'
      /\ c.id \in Foreign /\ PassesDedup(c, t) /\ Decision(c, t).action = "dispatch" =>
           \E d \in dispatched' : d.copy = c /\ d.trigger = Decision(c, t).trigger
  <2>1. PICK own \in BOOLEAN :
          /\ own => c.id \in Own
          /\ dispatched' =
               IF PassesDedup(c, t) /\ ~own /\ Decision(c, t).action = "dispatch"
               THEN dispatched \cup {[copy |-> c, mentioned |-> t.mentioned,
                                      trigger |-> Decision(c, t).trigger, at |-> now]}
               ELSE dispatched
    BY <1>0, HandleFacts DEF OwnEcho
  <2>2. PICK d : d = [copy |-> c, mentioned |-> t.mentioned, trigger |-> Decision(c, t).trigger, at |-> now]
    OBVIOUS
  <2>3. d.copy = c /\ d.trigger = Decision(c, t).trigger
    BY <2>2
  <2>4. dispatched \subseteq dispatched'
    BY <2>1
  <2>5. ASSUME c.id \in Foreign, PassesDedup(c, t), Decision(c, t).action = "dispatch"
        PROVE  d \in dispatched'
    <3>1. ~own
      BY <1>0, <2>1, <2>5
    <3> QED BY <2>1, <2>2, <2>5, <3>1
  <2> QED BY <2>3, <2>4, <2>5
<1>3. /\ task'[c].st = "done" /\ (task'[c].mentioned <=> t.mentioned) /\ (task'[c].quoted <=> t.quoted)
      /\ \A e \in Copies : e # c => task'[e] = task[e]
  BY <1>0, <1>1 DEF TypeOK
<1>4. PassesDedup(c, t) =>
        /\ kind[c.id] # "none" => kind[c.id] = "forward" /\ new = "mention"
        /\ new = "mention" => t.mentioned
        /\ new \in Kinds \ {"none", "sent"}
  BY <1>1, DedupFacts
<1>5. c.id \in Foreign \ Direct =>
        /\ new \in {"forward", "mention"}
        /\ t.mentioned => new = "mention"
        /\ ~PassesDedup(c, t) => kind[c.id] # "none" /\ (t.mentioned => kind[c.id] # "forward")
  <2> SUFFICES ASSUME c.id \in Foreign \ Direct
               PROVE  /\ new \in {"forward", "mention"}
                      /\ t.mentioned => new = "mention"
                      /\ ~PassesDedup(c, t) => kind[c.id] # "none" /\ (t.mentioned => kind[c.id] # "forward")
    OBVIOUS
  <2>1. c.event \in {"MESSAGE_RECEIVE", "ALL_MESSAGE_FORWARD"}
    BY OwnAndForeign DEF EventsNamed, Events
  <2>2. new \in {"forward", "mention"} /\ (t.mentioned => new = "mention")
    BY <2>1 DEF DedupKind
  <2>3. ~SentEcho(c)
    BY <1>0 DEF SentEcho, TypeOK
  <2> QED BY <2>2, <2>3 DEF PassesDedup, MentionUpgrade
<1>6. ASSUME ResolveForGroup(Group).mode \in Mentions, c.id \in Foreign \ Direct,
             PassesDedup(c, t), addressed
      PROVE  Reached(c.id)'
  <2>1. /\ Decision(c, t).action = "dispatch"
        /\ Decision(c, t).trigger \in {"bot-mentioned", "slash_command"}
    BY <1>6, AddressedIsDirect
  <2> QED BY <1>2, <1>6, <2>1 DEF Reached
<1> HIDE DEF new
<1>7. \A m \in Ids : m # c.id => kind'[m] = kind[m]
  BY <1>0, <1>1
<1>8. \A m : Reached(m) => Reached(m)'
  BY <1>2 DEF Reached
<1>9. DoneIsKnown'
  <2>1. ASSUME NEW e \in Copies, task'[e].st = "done", e.id \in Foreign \ Direct
        PROVE  kind'[e.id] # "none" /\ (task'[e].mentioned => kind'[e.id] = "mention")
    <3>1. CASE e = c
      <4>1. CASE PassesDedup(c, t)
        BY <1>0, <1>1, <1>3, <1>4, <1>5, <2>1, <3>1, <4>1
      <4>2. CASE ~PassesDedup(c, t)
        BY <1>0, <1>1, <1>3, <1>5, <2>1, <3>1, <4>2 DEF KindsSpeak
      <4> QED BY <4>1, <4>2
    <3>2. CASE e # c
      <4>1. kind[e.id] # "none" /\ (task[e].mentioned => kind[e.id] = "mention")
        BY <1>0, <1>3, <2>1, <3>2 DEF DoneIsKnown
      <4>2. kind'[e.id] = kind[e.id] \/ (e.id = c.id /\ PassesDedup(c, t) /\ kind'[e.id] = new)
        BY <1>0, <1>1, <2>1
      <4> QED BY <1>3, <1>4, <3>2, <4>1, <4>2
    <3> QED BY <3>1, <3>2
  <2> QED BY <2>1 DEF DoneIsKnown
<1>10. KindsSpeak'
  <2>1. ASSUME NEW m \in Foreign \ Direct
        PROVE  /\ kind'[m] \in {"none", "forward", "mention"}
               /\ ResolveForGroup(Group).mode \in Mentions =>
                    /\ kind'[m] = "mention" => Reached(m)'
                    /\ kind'[m] # "none" =>
                         \E e \in Copies : /\ e.id = m /\ task'[e].st = "done"
                                           /\ task'[e].quoted => Reached(m)'
    <3>1. /\ kind[m] \in {"none", "forward", "mention"}
          /\ ResolveForGroup(Group).mode \in Mentions =>
               /\ kind[m] = "mention" => Reached(m)
               /\ kind[m] # "none" =>
                    \E e \in Copies : /\ e.id = m /\ task[e].st = "done"
                                      /\ task[e].quoted => Reached(m)
      BY <1>0 DEF KindsSpeak
    <3>2. \A e \in Copies : task[e].st = "done" => task'[e] = task[e]
      BY <1>1, <1>3
    <3>3. CASE kind'[m] = kind[m]
      BY <1>8, <3>1, <3>2, <3>3
    <3>4. CASE kind'[m] # kind[m]
      <4>1. m = c.id /\ PassesDedup(c, t) /\ kind'[m] = new
        BY <1>0, <1>1, <1>7, <3>4
      <4>2. new \in {"forward", "mention"} /\ (new = "mention" => t.mentioned)
        BY <1>4, <1>5, <4>1
      <4>3. ResolveForGroup(Group).mode \in Mentions /\ addressed => Reached(m)'
        BY <1>6, <4>1
      <4> QED BY <1>3, <4>1, <4>2, <4>3
    <3> QED BY <3>3, <3>4
  <2> QED BY <2>1 DEF KindsSpeak
<1> QED BY <1>9, <1>10 DEF SignalInv
\* The window is opened by the return of a call, which ends the reply.
LEMMA WindowStep ==
  ASSUME PipeInv, WindowOpenedByReply, [Next]_vars
  PROVE  WindowOpenedByReply'
<1>0. TypeOK /\ RepliesAdvance /\ \A r \in Replies : reply[r].next \in DOMAIN ChunksOf[r]
  BY DEF PipeInv, RepliesAdvance
<1>1. CASE UNCHANGED <<lastReply, reply, posted>>
  BY <1>1 DEF WindowOpenedByReply
<1>2. ASSUME NEW r \in Replies, StartReply(r) \/ ApiAnswers(r) \/ CallReturns(r)
      PROVE  WindowOpenedByReply'
  <2>1. /\ reply[r].st # "done" /\ posted \subseteq posted'
        /\ \A x \in Replies : x # r => reply'[x] = reply[x]
    BY <1>0, <1>2 DEF StartReply, ApiAnswers, CallReturns, TypeOK
  <2>2. CASE lastReply' = lastReply
    <3>1. CASE lastReply = Never
      BY <2>2, <3>1 DEF WindowOpenedByReply
    <3>2. CASE lastReply # Never
      <4>1. PICK x \in ToGroup : /\ reply[x].st = "done" /\ reply[x].succeeded > 0
                                 /\ \E i \in DOMAIN ChunksOf[x] : ChunksOf[x][i] \in posted
        BY <3>2 DEF WindowOpenedByReply
      <4>2. x \in Replies
        BY PipelineAssumption
      <4>3. reply'[x] = reply[x]
        BY <2>1, <4>1, <4>2
      <4> QED BY <2>1, <4>1, <4>3 DEF WindowOpenedByReply
    <3> QED BY <3>1, <3>2
  <2>3. CASE lastReply' # lastReply
    <3>1. PICK succeeded : succeeded = reply[r].succeeded + (IF reply[r].st = "ok" THEN 1 ELSE 0)
      OBVIOUS
    <3>2. PICK n : reply' = [reply EXCEPT ![r] = [next |-> n, st |-> "done", succeeded |-> succeeded]]
      BY <1>2, <2>3, <3>1 DEF StartReply, ApiAnswers, CallReturns
    <3>3. r \in ToGroup /\ succeeded > 0
      BY <1>2, <2>3, <3>1 DEF StartReply, ApiAnswers, CallReturns, ReplyMarks
    <3>4. reply'[r] = [next |-> n, st |-> "done", succeeded |-> succeeded]
      BY <1>0, <3>2 DEF TypeOK
    <3>5. reply'[r].st = "done" /\ reply'[r].succeeded > 0
      BY <3>3, <3>4
    <3>6. \E i \in DOMAIN ChunksOf[r] : ChunksOf[r][i] \in posted'
      <4>1. PipeInv'
        BY <1>2, ReplyMoves
      <4> QED BY <3>5, <4>1 DEF PipeInv, RepliesAdvance
    <3> QED BY <3>3, <3>5, <3>6 DEF WindowOpenedByReply
  <2> QED BY <2>2, <2>3
<1>3. CASE \E c \in Copies : Deliver(c) \/ Handle(c)
  BY <1>1, <1>3 DEF Deliver, Handle
<1>4. CASE Tick \/ UNCHANGED vars
  BY <1>1, <1>4 DEF Tick, vars
<1> QED BY <1>2, <1>3, <1>4 DEF Next

\* For any copies, orders and settings: what is addressed to the bot reaches the
\* agent as such, and only an accepted reply opens the window, provided the
\* platform names the events of group messages (bot.py:486-545, 1582-1587).
THEOREM SignalsGetThrough ==
  ASSUME EventsNamed
  PROVE  Spec => []SignalsReach
<1>1. Init => SignalInv /\ WindowOpenedByReply
  <2> SUFFICES ASSUME Init PROVE SignalInv /\ WindowOpenedByReply
    OBVIOUS
  <2>1. /\ task = [c \in Copies |-> Idle] /\ kind = [m \in Ids |-> "none"] /\ lastReply = Never
        /\ Foreign \subseteq Ids
    BY DEF Init, Ids
  <2> QED BY <2>1 DEF SignalInv, KindsSpeak, DoneIsKnown, Idle, WindowOpenedByReply
<1>2. PipeInv /\ SignalInv /\ [Next]_vars => SignalInv'
  <2> SUFFICES ASSUME PipeInv, SignalInv, [Next]_vars PROVE SignalInv'
    OBVIOUS
  <2>1. CASE \E c \in Copies : Deliver(c)
    <3>1. PICK c \in Copies : Deliver(c)
      BY <2>1
    <3>2. /\ UNCHANGED <<kind, dispatched>> /\ task[c].st = "idle" /\ task'[c].st = "enriching"
          /\ \A e \in Copies \ {c} : task'[e] = task[e]
      BY <3>1 DEF Deliver, PipeInv, TypeOK
    <3>3. \A e \in Copies : /\ task[e].st = "done" => task'[e] = task[e]
                            /\ task'[e].st = "done" => task'[e] = task[e]
      BY <3>2
    <3> QED BY <3>2, <3>3 DEF SignalInv, KindsSpeak, DoneIsKnown, Reached
  <2>2. CASE \E c \in Copies : Handle(c)
    BY <2>2, SignalHandleStep
  <2>3. CASE \E r \in Replies : StartReply(r) \/ ApiAnswers(r) \/ CallReturns(r)
    <3>1. PICK r \in Replies : StartReply(r) \/ ApiAnswers(r) \/ CallReturns(r)
      BY <2>3
    <3>2. ChunkAhead(r) \in Own
      BY OwnAndForeign DEF PipeInv, RepliesAdvance, ChunkAhead
    <3>3. /\ UNCHANGED <<task, dispatched>>
          /\ kind' = kind \/ kind' = [kind EXCEPT ![ChunkAhead(r)] = "sent"]
      BY <3>1 DEF StartReply, ApiAnswers, CallReturns, ChunkAhead
    <3>4. \A m \in Foreign \ Direct : kind'[m] = kind[m]
      BY <3>2, <3>3, OwnAndForeign DEF PipeInv, TypeOK, Ids
    <3> QED BY <3>3, <3>4 DEF SignalInv, KindsSpeak, DoneIsKnown, Reached
  <2>4. CASE Tick \/ UNCHANGED vars
    <3>1. UNCHANGED <<task, kind, dispatched>>
      BY <2>4 DEF Tick, vars
    <3> QED BY <3>1 DEF SignalInv, KindsSpeak, DoneIsKnown, Reached
  <2> QED BY <2>1, <2>2, <2>3, <2>4 DEF Next
<1>3. PipeInv /\ WindowOpenedByReply /\ [Next]_vars => WindowOpenedByReply'
  BY WindowStep
<1>4. SignalInv => DirectSignalReaches
  <2> SUFFICES ASSUME SignalInv, ResolveForGroup(Group).mode \in Mentions, NEW c \in Copies,
                      task[c].st = "done", c.id \in Foreign \ Direct,
                      \/ task[c].mentioned
                      \/ \A e \in Copies : e.id = c.id /\ task[e].st = "done" => task[e].quoted
               PROVE  Reached(c.id)
    BY DEF DirectSignalReaches, Reached, Mentions
  <2>1. kind[c.id] # "none" /\ (task[c].mentioned => kind[c.id] = "mention")
    BY DEF SignalInv, DoneIsKnown
  <2>2. /\ kind[c.id] = "mention" => Reached(c.id)
        /\ kind[c.id] # "none" =>
             \E e \in Copies : /\ e.id = c.id /\ task[e].st = "done"
                               /\ task[e].quoted => Reached(c.id)
    BY DEF SignalInv, KindsSpeak
  <2> QED BY <2>1, <2>2
<1>5. DirectSignalReaches /\ WindowOpenedByReply => SignalsReach
  BY DEF SignalsReach
<1> QED BY PipeInvariance, <1>1, <1>2, <1>3, <1>4, <1>5, PTL DEF Spec
-----------------------------------------------------------------------------
(***************************************************************************)
(* The parser.  Wherever a wrapping puts the fields of a message, the      *)
(* normalisation finds them (GroupArrives, PrivateArrives): all the places *)
(* of a field that hold anything hold the same.  So both transports hand   *)
(* the builders the same but for a mark and a receiver, and what a task    *)
(* knows of its message (Understood) is so whatever the bot learns between *)
(* parsing and handling it.                                                *)
(***************************************************************************)

\* A nonempty set of the first places has an earliest one.
LEMMA EarliestIsIn ==
  ASSUME NEW S, S \subseteq 1 .. 4, S # {}
  PROVE  Earliest(S) \in S
<1>1. \E i \in S : \A j \in S : i <= j
  <2>1. CASE 1 \in S
    BY <2>1
  <2>2. CASE 1 \notin S /\ 2 \in S
    BY <2>2
  <2>3. CASE 1 \notin S /\ 2 \notin S /\ 3 \in S
    BY <2>3
  <2>4. CASE 1 \notin S /\ 2 \notin S /\ 3 \notin S
    <3>1. PICK i \in S : TRUE
      OBVIOUS
    <3>2. \A j \in S : j = 4
      BY <2>4
    <3> QED BY <3>1, <3>2
  <2> QED BY <2>1, <2>2, <2>3, <2>4
<1> QED BY <1>1 DEF Earliest

LEMMA PlacesOfFields ==
  ASSUME NEW f \in WireFields
  PROVE  /\ DOMAIN Places(f) \subseteq 1 .. 4
         /\ \A i \in DOMAIN Places(f) : Places(f)[i] \in {"payload", "original", "data", "header"}
         /\ \E i \in DOMAIN Places(f) : Places(f)[i] = "payload"
         /\ f \in HeaderFields => \E i \in DOMAIN Places(f) : Places(f)[i] = "header"
<1>1. CASE f = "groupid"
  <2>1. Places(f) = <<"payload", "data", "original", "header">>
    BY <1>1 DEF Places, HeaderFields
  <2> QED BY <2>1, <1>1 DEF HeaderFields
<1>2. CASE f = "fromid"
  <2>1. Places(f) = <<"payload", "original", "data", "header">>
    BY <1>2 DEF Places, HeaderFields
  <2> QED BY <2>1, <1>2 DEF HeaderFields
<1>3. CASE f \in {"eventtype", "msgid2"}
  <2>1. Places(f) = <<"payload", "original", "data">>
    BY <1>3 DEF Places, HeaderFields
  <2> QED BY <2>1, <1>3 DEF HeaderFields
<1>4. CASE f \in HeaderFields
  <2>1. Places(f) = <<"header", "payload", "original", "data">>
    BY <1>4 DEF Places, HeaderFields
  <2> QED BY <2>1
<1>5. CASE f \in PrivateFields
  <2>1. Places(f) = <<"payload", "data", "original">> /\ f \notin HeaderFields
    BY <1>5 DEF Places, HeaderFields, PrivateFields
  <2> QED BY <2>1
<1> QED BY <1>1, <1>2, <1>3, <1>4, <1>5 DEF WireFields, GroupFields

LEMMA FirstIsTheOnly ==
  ASSUME NEW f \in WireFields, NEW roots, NEW v,
         \A i \in DOMAIN Places(f) : At(roots, Places(f)[i])[f] \in {v, Absent},
         \E i \in DOMAIN Places(f) : At(roots, Places(f)[i])[f] = v
  PROVE  FirstNonEmpty(roots, f) = v
<1> DEFINE values == [i \in DOMAIN Places(f) |-> At(roots, Places(f)[i])[f]]
           full == {i \in DOMAIN values : values[i] # Absent}
<1>1. full \subseteq 1 .. 4
  BY PlacesOfFields
<1>2. CASE full = {}
  <2>1. FirstNonEmpty(roots, f) = Absent
    BY <1>2 DEF FirstNonEmpty
  <2> QED BY <2>1, <1>2
<1>3. CASE full # {}
  <2>1. FirstNonEmpty(roots, f) = values[Earliest(full)]
    BY <1>3 DEF FirstNonEmpty
  <2>2. Earliest(full) \in full
    BY <1>1, <1>3, EarliestIsIn
  <2> QED BY <2>1, <2>2
<1> QED BY <1>2, <1>3

\* However a group message is wrapped, its fields and its body are found.
LEMMA GroupRoots ==
  ASSUME NEW m \in Messages, m.chat = "group", NEW w \in Wrappings, NEW roots,
         roots = Roots(Wire(m, w))
  PROVE  /\ \A f \in GroupFields \cup HeaderFields, p \in {"payload", "original", "data", "header"} :
              At(roots, p)[f] \in {FieldOf(m, f), Absent}
         /\ \A f \in GroupFields : At(roots, "payload")[f] = FieldOf(m, f)
         /\ \A f \in HeaderFields :
              FieldOf(m, f) \in {At(roots, "payload")[f], At(roots, "header")[f]}
         /\ roots.original.body = m.body
         /\ {roots.payload.body, roots.data.body} \subseteq {m.body, <<>>}
<1> DEFINE top == Carrying(m, GroupFields)
           head == Carrying(m, HeaderFields \cup {"groupid"})
           both == Carrying(m, GroupFields \cup HeaderFields)
           p == Object(top, head, m.body)
           flat == Object(both, Nothing, m.body)
           envelope == Object(top, Nothing, <<>>)
<1>1. Payload(m) = p
  BY DEF Payload, BodyOf
<1>2. /\ FieldOf(m, "groupid") # Absent
      /\ "groupid" \in WireFields /\ "groupid" \in GroupFields /\ "groupid" \notin HeaderFields
  BY ParsingAssumption DEF FieldOf, WireFields, GroupFields, HeaderFields
<1>3. top["groupid"] # Absent /\ head["groupid"] # Absent /\ both["groupid"] # Absent
  BY <1>2 DEF Carrying
<1>4. Nothing["groupid"] = Absent
  BY <1>2 DEF Nothing
<1>5. top # Nothing /\ head # Nothing /\ both # Nothing
  BY <1>3, <1>4
<1>6. /\ p.fields = top /\ p.header = head /\ p.body = m.body
      /\ flat.fields = both /\ flat.header = Nothing /\ flat.body = m.body
      /\ envelope.fields = top /\ envelope.header = Nothing /\ envelope.body = <<>>
      /\ NoObject.fields = Nothing /\ NoObject.header = Nothing /\ NoObject.body = <<>>
  BY DEF Object, NoObject
<1>7. p # NoObject /\ flat # NoObject /\ envelope # NoObject
  BY <1>5, <1>6
<1> HIDE DEF top, head, both
<1>8. /\ roots.payload.fields \in {top, both}
      /\ roots.original.fields \in {top, both}
      /\ roots.data.fields \in {top, both, Nothing}
      /\ roots.header \in {head, Nothing}
      /\ roots.payload.fields = both \/ roots.header = head
      /\ roots.original.body = m.body
      /\ {roots.payload.body, roots.data.body} \subseteq {m.body, <<>>}
  <2> DEFINE wire == Wire(m, w)
  <2>1. CASE w = "plain"
    <3>1. wire = [data |-> p, raw |-> NoObject, original |-> NoObject]
      BY <2>1, <1>1 DEF Wire
    <3>2. roots.payload = p /\ roots.original = p /\ roots.data = p /\ roots.header = head
      BY <3>1, <1>5, <1>6 DEF Roots
    <3> QED BY <3>2, <1>6
  <2>2. CASE w = "raw"
    <3>1. wire = [data |-> NoObject, raw |-> p, original |-> NoObject]
      BY <2>2, <1>1 DEF Wire
    <3>2. /\ roots.payload = p /\ roots.original = p /\ roots.data = NoObject
          /\ roots.header = head
      BY <3>1, <1>5, <1>6, <1>7 DEF Roots
    <3> QED BY <3>2, <1>6
  <2>3. CASE w = "original"
    <3>1. wire = [data |-> envelope, raw |-> NoObject, original |-> p]
      BY <2>3, <1>1, <1>6 DEF Wire
    <3>2. /\ roots.payload = envelope /\ roots.original = p /\ roots.data = envelope
          /\ roots.header = head
      BY <3>1, <1>5, <1>6, <1>7 DEF Roots
    <3> QED BY <3>2, <1>6
  <2>4. CASE w = "raw original"
    <3>1. wire = [data |-> NoObject, raw |-> envelope, original |-> p]
      BY <2>4, <1>1, <1>6 DEF Wire
    <3>2. /\ roots.payload = envelope /\ roots.original = p /\ roots.data = NoObject
          /\ roots.header = head
      BY <3>1, <1>5, <1>6, <1>7 DEF Roots
    <3> QED BY <3>2, <1>6
  <2>5. CASE w = "headless"
    <3>1. wire = [data |-> flat, raw |-> NoObject, original |-> NoObject]
      BY <2>5 DEF Wire, BodyOf, both
    <3>2. /\ roots.payload = flat /\ roots.original = flat /\ roots.data = flat
          /\ roots.header = Nothing
      BY <3>1, <1>5, <1>6, <1>7 DEF Roots
    <3> QED BY <3>2, <1>6
  <2> QED BY <2>1, <2>2, <2>3, <2>4, <2>5 DEF Wrappings
<1>9. \A f \in GroupFields \cup HeaderFields :
        /\ \A g \in {top, head, both, Nothing} : g[f] \in {FieldOf(m, f), Absent}
        /\ both[f] = FieldOf(m, f)
        /\ f \in GroupFields => top[f] = FieldOf(m, f)
        /\ f \in HeaderFields => head[f] = FieldOf(m, f)
  BY DEF top, head, both, Carrying, Nothing, WireFields
<1>10. /\ At(roots, "payload") = roots.payload.fields
       /\ At(roots, "original") = roots.original.fields
       /\ At(roots, "data") = roots.data.fields
       /\ At(roots, "header") = roots.header
  BY <1>8 DEF At, Roots
<1>11. /\ \A f \in GroupFields \cup HeaderFields, q \in {"payload", "original", "data", "header"} :
            At(roots, q)[f] \in {FieldOf(m, f), Absent}
       /\ \A f \in GroupFields : At(roots, "payload")[f] = FieldOf(m, f)
       /\ \A f \in HeaderFields :
            FieldOf(m, f) \in {At(roots, "payload")[f], At(roots, "header")[f]}
  BY <1>8, <1>9, <1>10
<1> QED BY <1>8, <1>11

\* So are those of a direct message, which has no header.
LEMMA PrivateRoots ==
  ASSUME NEW m \in Messages, m.chat # "group", NEW w \in Wrappings, NEW roots,
         roots = Roots(Wire(m, w))
  PROVE  /\ \A f \in WireFields, p \in {"payload", "original", "data", "header"} :
              At(roots, p)[f] \in {Carrying(m, PrivateFields)[f], Absent}
         /\ At(roots, "payload") = Carrying(m, PrivateFields)
         /\ roots.original.body = m.body
         /\ {roots.payload.body, roots.data.body} \subseteq {m.body, <<>>}
<1> DEFINE top == Carrying(m, PrivateFields)
           p == Object(top, Nothing, m.body)
           envelope == Object(top, Nothing, <<>>)
<1>1. Payload(m) = p
  BY DEF Payload, BodyOf
<1>2. FieldOf(m, "FromId") # Absent /\ "FromId" \in WireFields /\ "FromId" \in PrivateFields
  BY ParsingAssumption DEF FieldOf, WireFields, PrivateFields
<1>3. top["FromId"] # Absent /\ Nothing["FromId"] = Absent
  BY <1>2 DEF Carrying, Nothing
<1>4. top # Nothing
  BY <1>3
<1>5. /\ p.fields = top /\ p.header = Nothing /\ p.body = m.body
      /\ envelope.fields = top /\ envelope.header = Nothing /\ envelope.body = <<>>
      /\ NoObject.fields = Nothing /\ NoObject.header = Nothing /\ NoObject.body = <<>>
  BY DEF Object, NoObject
<1>6. p # NoObject /\ envelope # NoObject
  BY <1>4, <1>5
<1> HIDE DEF top
<1>7. /\ roots.payload.fields = top
      /\ roots.original.fields = top
      /\ roots.data.fields \in {top, Nothing}
      /\ roots.header = Nothing
      /\ roots.original.body = m.body
      /\ {roots.payload.body, roots.data.body} \subseteq {m.body, <<>>}
  <2> DEFINE wire == Wire(m, w)
  <2>1. CASE w \in {"plain", "headless"}
    <3>1. wire = [data |-> p, raw |-> NoObject, original |-> NoObject]
      BY <2>1, <1>1 DEF Wire
    <3>2. roots.payload = p /\ roots.original = p /\ roots.data = p /\ roots.header = Nothing
      BY <3>1, <1>5 DEF Roots
    <3> QED BY <3>2, <1>5
  <2>2. CASE w = "raw"
    <3>1. wire = [data |-> NoObject, raw |-> p, original |-> NoObject]
      BY <2>2, <1>1 DEF Wire
    <3>2. /\ roots.payload = p /\ roots.original = p /\ roots.data = NoObject
          /\ roots.header = Nothing
      BY <3>1, <1>5, <1>6 DEF Roots
    <3> QED BY <3>2, <1>5
  <2>3. CASE w = "original"
    <3>1. wire = [data |-> envelope, raw |-> NoObject, original |-> p]
      BY <2>3, <1>1, <1>5 DEF Wire
    <3>2. /\ roots.payload = envelope /\ roots.original = p /\ roots.data = envelope
          /\ roots.header = Nothing
      BY <3>1, <1>5, <1>6 DEF Roots
    <3> QED BY <3>2, <1>5
  <2>4. CASE w = "raw original"
    <3>1. wire = [data |-> NoObject, raw |-> envelope, original |-> p]
      BY <2>4, <1>1, <1>5 DEF Wire
    <3>2. /\ roots.payload = envelope /\ roots.original = p /\ roots.data = NoObject
          /\ roots.header = Nothing
      BY <3>1, <1>5, <1>6 DEF Roots
    <3> QED BY <3>2, <1>5
  <2> QED BY <2>1, <2>2, <2>3, <2>4 DEF Wrappings
<1>8. \A f \in WireFields : Nothing[f] = Absent
  BY DEF Nothing
<1>9. /\ At(roots, "payload") = roots.payload.fields
      /\ At(roots, "original") = roots.original.fields
      /\ At(roots, "data") = roots.data.fields
      /\ At(roots, "header") = roots.header
  BY DEF At, Roots
<1>10. /\ \A f \in WireFields, q \in {"payload", "original", "data", "header"} :
            At(roots, q)[f] \in {top[f], Absent}
       /\ At(roots, "payload") = top
  BY <1>7, <1>8, <1>9
<1> QED BY <1>7, <1>10 DEF top

LEMMA BodyArrives ==
  ASSUME NEW roots, NEW body, roots.original.body = body,
         {roots.payload.body, roots.data.body} \subseteq {body, <<>>}
  PROVE  BodyAt(roots) = body
<1> DEFINE bodies == <<roots.payload.body, roots.original.body, roots.data.body>>
           full == {i \in DOMAIN bodies : bodies[i] # <<>>}
<1>1. /\ DOMAIN bodies = 1 .. 3
      /\ \A i \in 1 .. 3 : bodies[i] \in {body, <<>>}
      /\ bodies[2] = body
  OBVIOUS
<1> HIDE DEF bodies
<1>2. CASE full = {}
  <2>1. BodyAt(roots) = <<>>
    BY <1>2 DEF BodyAt, bodies
  <2> QED BY <2>1, <1>1, <1>2
<1>3. CASE full # {}
  <2>1. BodyAt(roots) = bodies[Earliest(full)]
    BY <1>3 DEF BodyAt, bodies
  <2>2. full \subseteq 1 .. 4
    BY <1>1
  <2> HIDE DEF full
  <2>3. Earliest(full) \in full
    BY <1>3, <2>2, EarliestIsIn
  <2> QED BY <2>1, <2>3, <1>1 DEF full
<1> QED BY <1>2, <1>3

\* A data frame is taken for what it is, and gives the builder what a webhook
\* gives it, but for the mark and a receiver.
LEMMA GroupArrives ==
  ASSUME NEW m \in Messages, m.chat = "group", NEW w \in Wrappings, NEW roots,
         roots = Roots(Wire(m, w)), NEW known
  PROVE  /\ IsGroupPayload(roots)
         /\ NormalizeGroup(roots, known) =
              [fields |-> Carrying(m, GroupFields \cup HeaderFields), body |-> m.body,
               marked |-> m.event = "MESSAGE_RECEIVE" \/ CheckMentioned(m.body, known)]
<1>1. /\ \A f \in GroupFields \cup HeaderFields, p \in {"payload", "original", "data", "header"} :
           At(roots, p)[f] \in {FieldOf(m, f), Absent}
      /\ \A f \in GroupFields : At(roots, "payload")[f] = FieldOf(m, f)
      /\ \A f \in HeaderFields :
           FieldOf(m, f) \in {At(roots, "payload")[f], At(roots, "header")[f]}
      /\ roots.original.body = m.body
      /\ {roots.payload.body, roots.data.body} \subseteq {m.body, <<>>}
  BY GroupRoots
<1>2. BodyAt(roots) = m.body
  BY <1>1, BodyArrives
<1>3. ASSUME NEW f \in GroupFields \cup HeaderFields
      PROVE  FirstNonEmpty(roots, f) = FieldOf(m, f)
  <2>1. f \in WireFields
    BY DEF WireFields
  <2>2. \A i \in DOMAIN Places(f) : At(roots, Places(f)[i])[f] \in {FieldOf(m, f), Absent}
    BY <1>1, <2>1, PlacesOfFields
  <2>3. \E i \in DOMAIN Places(f) : At(roots, Places(f)[i])[f] = FieldOf(m, f)
    <3>1. CASE f \in GroupFields
      BY <1>1, <2>1, <3>1, PlacesOfFields
    <3>2. CASE f \in HeaderFields
      <4>1. PICK i \in DOMAIN Places(f) : Places(f)[i] = "payload"
        BY <2>1, PlacesOfFields
      <4>2. PICK j \in DOMAIN Places(f) : Places(f)[j] = "header"
        BY <2>1, <3>2, PlacesOfFields
      <4> QED BY <1>1, <3>2, <4>1, <4>2
    <3> QED BY <3>1, <3>2
  <2> QED BY <2>1, <2>2, <2>3, FirstIsTheOnly
<1>4. IsGroupPayload(roots)
  <2>1. "groupid" \in GroupFields
    BY DEF GroupFields
  <2>2. At(roots, "payload")["groupid"] = Chat
    BY <1>1, <2>1 DEF FieldOf
  <2>3. roots.payload.fields["groupid"] = Chat
    BY <2>2 DEF At, Roots
  <2> QED BY <2>3, ParsingAssumption DEF IsGroupPayload
<1>5. [f \in WireFields |->
         IF f \in GroupFields \cup HeaderFields THEN FirstNonEmpty(roots, f) ELSE Absent]
      = Carrying(m, GroupFields \cup HeaderFields)
  BY <1>3 DEF Carrying
<1>6. FirstNonEmpty(roots, "eventtype") = m.event
  BY <1>3 DEF GroupFields, FieldOf
<1> QED BY <1>2, <1>4, <1>5, <1>6 DEF NormalizeGroup

LEMMA PrivateArrives ==
  ASSUME NEW m \in Messages, m.chat # "group", NEW w \in Wrappings, NEW roots,
         roots = Roots(Wire(m, w))
  PROVE  /\ ~IsGroupPayload(roots)
         /\ NormalizePrivate(roots) =
              [fields |-> Carrying(m, PrivateFields \ {"ToUserId"}), body |-> m.body,
               marked |-> FALSE]
<1> DEFINE top == Carrying(m, PrivateFields)
<1>1. /\ \A f \in WireFields, p \in {"payload", "original", "data", "header"} :
           At(roots, p)[f] \in {top[f], Absent}
      /\ At(roots, "payload") = top
      /\ roots.original.body = m.body
      /\ {roots.payload.body, roots.data.body} \subseteq {m.body, <<>>}
  BY PrivateRoots
<1>2. BodyAt(roots) = m.body
  BY <1>1, BodyArrives
<1>3. ASSUME NEW f \in PrivateFields
      PROVE  FirstNonEmpty(roots, f) = FieldOf(m, f)
  <2>1. f \in WireFields
    BY DEF WireFields
  <2>2. top[f] = FieldOf(m, f)
    BY <2>1 DEF Carrying
  <2> HIDE DEF top
  <2>3. \A i \in DOMAIN Places(f) : At(roots, Places(f)[i])[f] \in {FieldOf(m, f), Absent}
    BY <1>1, <2>1, <2>2, PlacesOfFields
  <2>4. \E i \in DOMAIN Places(f) : At(roots, Places(f)[i])[f] = FieldOf(m, f)
    BY <1>1, <2>1, <2>2, PlacesOfFields
  <2> QED BY <2>1, <2>3, <2>4, FirstIsTheOnly
<1>4. ~IsGroupPayload(roots)
  <2>1. "groupid" \in WireFields /\ "groupid" \notin PrivateFields
    BY DEF WireFields, GroupFields, PrivateFields
  <2>2. top["groupid"] = Absent
    BY <2>1 DEF Carrying
  <2> HIDE DEF top
  <2>3. \A p \in {"payload", "original", "data", "header"} : At(roots, p)["groupid"] = Absent
    BY <1>1, <2>1, <2>2
  <2>4. /\ At(roots, "payload") = roots.payload.fields
        /\ At(roots, "original") = roots.original.fields
        /\ At(roots, "header") = roots.header
    BY DEF At, Roots
  <2> QED BY <2>3, <2>4 DEF IsGroupPayload
<1>5. [f \in WireFields |->
         IF f \in PrivateFields \ {"ToUserId"} THEN FirstNonEmpty(roots, f) ELSE Absent]
      = Carrying(m, PrivateFields \ {"ToUserId"})
  BY <1>3 DEF Carrying
<1> QED BY <1>2, <1>4, <1>5 DEF NormalizePrivate

-----------------------------------------------------------------------------
\* The quotes of own messages.
OwnQuotes(m) == {q \in OfType(m.body, "replyData") : AuthorOf[q.of] = Us}

MessageFields ==
  {"kind", "chat", "id", "imid", "bot", "author", "discovered", "targets", "robots", "ours"}

\* What the parsed message says, read by a bot that knew this much of itself.
Understood(m, known, in) ==
  /\ in.kind = "message" /\ in.chat = m.chat
  /\ MessageFields \subseteq DOMAIN in
  /\ in.id = m.id /\ in.imid = m.from
  /\ in.bot <=> m.from \in Robots
  /\ ~in.bot => in.author = m.from
  /\ in.discovered \in {Us, Absent}
  /\ in.targets = {q.of : q \in OfType(m.body, "replyData")}
  /\ in.ours \subseteq {q.of : q \in OwnQuotes(m)}
  /\ \A q \in OwnQuotes(m) : q.imid /\ known # Absent /\ m.chat = "group" => q.of \in in.ours

\* A robot id is discovered only if it is the bot's: the mark of a mention comes
\* with an AT of the bot, and then no other robot may be named.
LEMMA DiscoveryIsUs ==
  ASSUME NEW m \in Messages, NEW marked \in BOOLEAN, NEW known,
         marked => m.event = "MESSAGE_RECEIVE" \/ CheckMentioned(m.body, known)
  PROVE  Discovered(m.body, marked, known) \in {Us, Absent}
<1>1. CASE CheckMentioned(m.body, known) \/ ~marked \/ known # Absent
           \/ Cardinality(RobotAts(m.body)) # 1
  BY <1>1 DEF Discovered
<1>2. CASE /\ ~CheckMentioned(m.body, known) /\ marked /\ known = Absent
           /\ Cardinality(RobotAts(m.body)) = 1
  <2>1. Discovered(m.body, marked, known) = CHOOSE r \in RobotsNamed(m.body) : TRUE
    BY <1>2 DEF Discovered
  <2>2. Item("AT", Us, FALSE) \in OfType(m.body, "AT")
    BY <1>2, ParsingAssumption
  <2>3. PICK i \in DOMAIN m.body : m.body[i].type = "AT" /\ m.body[i].of = Us
    BY <2>2 DEF OfType, Item
  <2>4. i \in RobotAts(m.body)
    BY <2>3, ParsingAssumption DEF RobotAts
  <2>5. IsFiniteSet(RobotAts(m.body))
    <3>1. IsFiniteSet(DOMAIN m.body)
      BY ParsingAssumption
    <3>2. RobotAts(m.body) \subseteq DOMAIN m.body
      BY DEF RobotAts
    <3> QED BY <3>1, <3>2, FS_Subset
  <2>6. RobotAts(m.body) = {i}
    BY <1>2, <2>4, <2>5, FS_Singleton
  <2>7. RobotsNamed(m.body) = {Us}
    BY <2>3, <2>6, ParsingAssumption DEF RobotsNamed, Mentioned, OfType, RobotAts
  <2> QED BY <2>1, <2>7
<1> QED BY <1>1, <1>2

LEMMA GroupIsUnderstood ==
  ASSUME NEW m \in Messages, m.chat = "group", NEW marked \in BOOLEAN,
         NEW known \in {Us, Absent}, NEW ids, \A o \in ids : AuthorOf[o] = Us,
         marked => m.event = "MESSAGE_RECEIVE" \/ CheckMentioned(m.body, known),
         NEW md, md = [fields |-> Carrying(m, GroupFields \cup HeaderFields),
                       body |-> m.body, marked |-> marked],
         NEW in, in = BuildGroup(md, known, ids), in # Ignored
  PROVE  Understood(m, known, in)
<1>1. /\ md.fields["fromuserid"] = IF m.from \in Users THEN m.from ELSE Absent
      /\ md.fields["fromid"] = m.from
      /\ md.fields["messageid"] = m.id
      /\ md.body = m.body /\ md.marked = marked
  BY DEF Carrying, FieldOf, GroupFields, HeaderFields, WireFields
<1> DEFINE author == IF md.fields["fromuserid"] # Absent THEN md.fields["fromuserid"]
                     ELSE md.fields["fromid"]
<1>2. author = m.from /\ m.from # Absent
  BY <1>1, ParsingAssumption
<1>3. /\ in.kind = "message" /\ in.chat = "group"
      /\ MessageFields \subseteq DOMAIN in
      /\ in.id = md.fields["messageid"] /\ in.imid = md.fields["fromid"]
      /\ in.author = author
      /\ in.discovered = Discovered(md.body, md.marked, known)
      /\ in.targets = {q.of : q \in OfType(md.body, "replyData")}
      /\ in.ours = {q.of : q \in {r \in OfType(md.body, "replyData") : QuotesUs(r, known, ids)}}
  BY DEF BuildGroup, MessageFields
<1>4. in.bot <=> md.fields["fromuserid"] = Absent \/ md.fields["fromid"] \in RobotsNamed(md.body)
  BY Zenon DEF BuildGroup
<1> HIDE DEF author
<1>5. in.discovered \in {Us, Absent}
  BY <1>1, <1>3, DiscoveryIsUs
<1>6. in.bot <=> m.from \in Robots
  <2>1. CASE m.from \in Users
    BY <1>1, <1>4, <2>1, ParsingAssumption DEF RobotsNamed
  <2>2. CASE m.from \notin Users
    BY <1>1, <1>4, <2>2, ParsingAssumption
  <2> QED BY <2>1, <2>2
<1>7. in.ours \subseteq {q.of : q \in OwnQuotes(m)}
  <2>1. ASSUME NEW q \in OfType(m.body, "replyData"), QuotesUs(q, known, ids)
        PROVE  AuthorOf[q.of] = Us
    BY <2>1, ParsingAssumption DEF QuotesUs
  <2> QED BY <1>1, <1>3, <2>1 DEF OwnQuotes
<1>8. ASSUME NEW q \in OwnQuotes(m), q.imid, known # Absent
      PROVE  q.of \in in.ours
  <2>1. q \in OfType(m.body, "replyData") /\ AuthorOf[q.of] = known
    BY <1>8 DEF OwnQuotes
  <2>2. QuotesUs(q, known, ids)
    BY <1>8, <2>1 DEF QuotesUs
  <2> QED BY <1>1, <1>3, <2>1, <2>2
<1> QED BY <1>1, <1>2, <1>3, <1>5, <1>6, <1>7, <1>8 DEF Understood

LEMMA PrivateIsUnderstood ==
  ASSUME NEW m \in Messages, m.chat # "group",
         NEW known \in {Us, Absent}, NEW ids, \A o \in ids : AuthorOf[o] = Us,
         NEW S, PrivateFields \ {"ToUserId"} \subseteq S, S \subseteq PrivateFields,
         NEW md, md = [fields |-> Carrying(m, S), body |-> m.body, marked |-> FALSE],
         NEW in, in = BuildPrivate(md, known, ids), in # Ignored
  PROVE  Understood(m, known, in)
<1>1. /\ md.fields["FromUserId"] = IF m.from \in Users THEN m.from ELSE Absent
      /\ md.fields["FromId"] = m.from
      /\ md.fields["MsgId"] = m.id
      /\ md.body = m.body
  BY DEF Carrying, FieldOf, PrivateFields, WireFields
<1>2. m.from # Absent /\ m.chat = "dm"
  BY ParsingAssumption
<1>3. DirectAuthor(md, known) # Absent
  BY DEF BuildPrivate
<1>4. /\ in.kind = "message" /\ in.chat = "dm"
      /\ MessageFields \subseteq DOMAIN in
      /\ in.id = md.fields["MsgId"] /\ in.imid = md.fields["FromId"]
      /\ in.author = DirectAuthor(md, known)
      /\ in.discovered = Absent
      /\ in.targets = {q.of : q \in OfType(md.body, "replyData")}
      /\ in.ours = {q.of : q \in OfType(md.body, "replyData")} \cap ids
  BY DEF BuildPrivate, MessageFields
<1>5. in.bot <=> known # Absent /\ md.fields["FromId"] = known
  BY Zenon DEF BuildPrivate
<1>6. in.bot <=> m.from \in Robots
  <2>1. CASE m.from \in Users
    BY <1>1, <1>5, <2>1, ParsingAssumption
  <2>2. CASE m.from \notin Users
    BY <1>1, <1>2, <1>3, <1>5, <2>2, ParsingAssumption DEF DirectAuthor
  <2> QED BY <2>1, <2>2
<1>7. ~in.bot => in.author = m.from
  BY <1>1, <1>4, <1>6, ParsingAssumption DEF DirectAuthor
<1>8. ASSUME NEW o \in in.ours
      PROVE  o \in {q.of : q \in OwnQuotes(m)}
  <2>1. PICK q \in OfType(m.body, "replyData") : o = q.of /\ o \in ids
    BY <1>1, <1>4
  <2>2. q \in OwnQuotes(m)
    BY <2>1 DEF OwnQuotes
  <2> QED BY <2>1, <2>2
<1> QED BY <1>1, <1>2, <1>4, <1>6, <1>7, <1>8 DEF Understood

\* to_incoming leaves all of it.
LEMMA IncomingIsUnderstood ==
  ASSUME NEW m, NEW known, NEW in, Understood(m, known, in)
  PROVE  Understood(m, known, ToIncoming(in))
<1> DEFINE out == ToIncoming(in)
<1>1. /\ out.kind = in.kind /\ out.chat = in.chat /\ DOMAIN out = DOMAIN in
      /\ out.id = in.id /\ out.imid = in.imid /\ out.discovered = in.discovered
      /\ out.targets = in.targets /\ out.ours = in.ours
      /\ out.author = IF in.bot THEN Absent ELSE in.author
  BY DEF ToIncoming, Understood
<1>2. out.bot = in.bot
  <2>1. "bot" \in DOMAIN in
    BY DEF Understood, MessageFields
  <2> QED BY <2>1, Zenon DEF ToIncoming
<1> HIDE DEF out
<1> QED BY <1>1, <1>2 DEF Understood, out

-----------------------------------------------------------------------------
\* The bot's own messages are known to be its own.
OwnIsOwn == \A o \in onPlatform : AuthorOf[o] = Us

\* What is parsed and what is handled hold what was understood, and the messages
\* they are about are on the platform.
TasksUnderstood ==
  \A t \in tasks :
    /\ t.msg \in Messages /\ t.known \in {Us, Absent}
    /\ Understood(t.msg, t.known, t.in)
    /\ Exists(t.msg.id)

ParsingInv ==
  /\ ParsingTypeOK /\ IdentityIsOurs
  /\ OwnIsOwn /\ TasksUnderstood
  /\ QuotesAreOurs /\ OthersExcludeUs

LEMMA ParsedIsUnderstood ==
  ASSUME ParsingInv, NEW m \in Messages, NEW w \in Wrappings,
         NEW in, in \in {ParseWebhook(m, robot, sent), ParseWebSocket(m, w, robot, sent)},
         in # Ignored
  PROVE  Understood(m, robot, in)
<1>1. robot \in {Us, Absent} /\ \A o \in sent : AuthorOf[o] = Us
  BY DEF ParsingInv, IdentityIsOurs, ParsingTypeOK, OwnIsOwn
<1> DEFINE group(marked) == [fields |-> Carrying(m, GroupFields \cup HeaderFields),
                             body |-> m.body, marked |-> marked]
           private(S) == [fields |-> Carrying(m, S), body |-> m.body, marked |-> FALSE]
<1>2. CASE m.chat = "group"
  <2> DEFINE mark == m.event = "MESSAGE_RECEIVE" \/ CheckMentioned(m.body, robot)
  <2>1. ParseWebhook(m, robot, sent) = BuildGroup(group(FALSE), robot, sent)
    BY <1>2 DEF ParseWebhook, AsSent, BodyOf
  <2>2. ParseWebSocket(m, w, robot, sent) = BuildGroup(group(mark), robot, sent)
    BY <1>2, GroupArrives DEF ParseWebSocket
  <2>3. PICK marked \in BOOLEAN :
          (marked => mark) /\ in = BuildGroup(group(marked), robot, sent)
    <3>1. CASE in = ParseWebhook(m, robot, sent)
      BY <2>1, <3>1
    <3>2. CASE in = ParseWebSocket(m, w, robot, sent)
      <4>1. mark \in BOOLEAN
        OBVIOUS
      <4> QED BY <2>2, <3>2, <4>1
    <3> QED BY <3>1, <3>2
  <2> QED BY <1>1, <1>2, <2>3, GroupIsUnderstood
<1>3. CASE m.chat # "group"
  <2>1. ParseWebhook(m, robot, sent) = BuildPrivate(private(PrivateFields), robot, sent)
    BY <1>3 DEF ParseWebhook, AsSent, BodyOf
  <2>2. ParseWebSocket(m, w, robot, sent)
        = BuildPrivate(private(PrivateFields \ {"ToUserId"}), robot, sent)
    BY <1>3, PrivateArrives DEF ParseWebSocket
  <2>3. PICK S : /\ PrivateFields \ {"ToUserId"} \subseteq S /\ S \subseteq PrivateFields
                 /\ in = BuildPrivate(private(S), robot, sent)
    BY <2>1, <2>2
  <2> QED BY <1>1, <1>3, <2>3, PrivateIsUnderstood
<1> QED BY <1>2, <1>3

LEMMA ParsingInitially == ParsingInit => ParsingInv
<1> SUFFICES ASSUME ParsingInit PROVE ParsingInv
  OBVIOUS
<1>1. ParsingTypeOK /\ IdentityIsOurs
  BY ParsingAssumption DEF ParsingInit, ParsingTypeOK, IdentityIsOurs, Quotable
<1>2. OwnIsOwn /\ TasksUnderstood /\ QuotesAreOurs /\ OthersExcludeUs
  BY DEF ParsingInit, OwnIsOwn, TasksUnderstood, QuotesAreOurs, OthersExcludeUs
<1> QED BY <1>1, <1>2 DEF ParsingInv

\* A message that becomes known to the platform, or is forgotten by the bot.
LEMMA OwnMessagesKeep ==
  ASSUME ParsingInv, NEW o \in Quotable, SendOwn(o) \/ Forget(o) \/ SentElsewhere(o)
  PROVE  ParsingInv'
<1>1. /\ onPlatform \subseteq onPlatform' /\ onPlatform' \subseteq onPlatform \cup {o}
      /\ o \in onPlatform' \ onPlatform => AuthorOf[o] = Us
      /\ sent' \cup outgoing' \subseteq onPlatform'
      /\ UNCHANGED <<transport, named, robot, file, selfRow, tasks, last, parsed, restarts>>
  BY DEF SendOwn, Forget, SentElsewhere, ParsingInv, ParsingTypeOK
<1>2. ParsingTypeOK' /\ IdentityIsOurs'
  BY <1>1 DEF ParsingInv, ParsingTypeOK, IdentityIsOurs
<1>3. OwnIsOwn'
  BY <1>1 DEF ParsingInv, OwnIsOwn
<1>4. TasksUnderstood'
  BY <1>1 DEF ParsingInv, TasksUnderstood, Exists
<1>5. QuotesAreOurs' /\ OthersExcludeUs'
  BY <1>1 DEF ParsingInv, QuotesAreOurs, OthersExcludeUs
<1> QED BY <1>2, <1>3, <1>4, <1>5 DEF ParsingInv

LEMMA ParseKeeps ==
  ASSUME ParsingInv, NEW m \in Messages, Parse(m)
  PROVE  ParsingInv'
<1>1. /\ parsed < MaxParsed /\ parsed' = parsed + 1 /\ Exists(m.id)
      /\ UNCHANGED <<transport, named, robot, file, selfRow, onPlatform, sent, outgoing, last,
                     restarts>>
  BY DEF Parse
<1>2. PICK w \in Wrappings :
        LET in == IF transport = "webhook" THEN ParseWebhook(m, robot, sent)
                  ELSE ParseWebSocket(m, w, robot, sent)
        IN  tasks' = IF in = Ignored THEN tasks
                     ELSE tasks \cup {[msg |-> m, known |-> robot, in |-> ToIncoming(in)]}
  BY DEF Parse
<1> DEFINE in == IF transport = "webhook" THEN ParseWebhook(m, robot, sent)
                 ELSE ParseWebSocket(m, w, robot, sent)
<1>3. \A t \in tasks' \ tasks :
        /\ t.msg = m /\ t.known = robot /\ Understood(m, robot, t.in)
  <2>1. CASE in = Ignored
    BY <1>2, <2>1
  <2>2. CASE in # Ignored
    <3>1. Understood(m, robot, in)
      BY <2>2, ParsedIsUnderstood
    <3>2. Understood(m, robot, ToIncoming(in))
      BY <3>1, IncomingIsUnderstood
    <3> QED BY <1>2, <2>2, <3>2
  <2> QED BY <2>1, <2>2
<1>4. robot \in {Us, Absent}
  BY DEF ParsingInv, IdentityIsOurs
<1>5. TasksUnderstood'
  <2> SUFFICES ASSUME NEW t \in tasks'
               PROVE  /\ t.msg \in Messages /\ t.known \in {Us, Absent}
                      /\ Understood(t.msg, t.known, t.in)
                      /\ Exists(t.msg.id)'
    BY DEF TasksUnderstood, Understood
  <2>1. CASE t \in tasks
    BY <1>1, <2>1 DEF ParsingInv, TasksUnderstood, Exists
  <2>2. CASE t \notin tasks
    BY <1>1, <1>3, <1>4, <2>2 DEF Exists
  <2> QED BY <2>1, <2>2
<1>6. ParsingTypeOK'
  <2>1. \A t \in tasks' : t.msg \in Messages /\ t.in.kind = "message"
    BY <1>5 DEF TasksUnderstood, Understood
  <2>2. parsed' \in 0 .. MaxParsed
    BY <1>1, ParsingAssumption DEF ParsingInv, ParsingTypeOK
  <2> QED BY <1>1, <2>1, <2>2 DEF ParsingInv, ParsingTypeOK
<1>7. IdentityIsOurs' /\ OwnIsOwn' /\ QuotesAreOurs' /\ OthersExcludeUs'
  BY <1>1 DEF ParsingInv, IdentityIsOurs, OwnIsOwn, QuotesAreOurs, OthersExcludeUs
<1> QED BY <1>5, <1>6, <1>7 DEF ParsingInv

\* A message is handled with what the bot knew then and what it knows now.
LEMMA LearnKeeps ==
  ASSUME ParsingInv, NEW t \in tasks, Learn(t)
  PROVE  ParsingInv'
<1> DEFINE known == IF t.in.discovered # Absent THEN t.in.discovered ELSE robot
<1>1. /\ tasks' = tasks \ {t} /\ robot' = known
      /\ file' \in {file, known}
      /\ selfRow' = IF known # Absent THEN known ELSE selfRow
      /\ last' = [msg |-> t.msg, knew |-> t.known, knows |-> known, rows |-> outgoing,
                  in |-> [t.in EXCEPT !.robots = OtherRobots(t, known), !.ours = OwnTargets(t)]]
      /\ outgoing' \subseteq outgoing \cup (IF t.in.imid = Us THEN {t.in.id} ELSE {})
      /\ UNCHANGED <<transport, named, onPlatform, sent, parsed, restarts>>
  BY DEF Learn
<1>2. /\ t.msg \in Messages /\ t.known \in {Us, Absent}
      /\ Understood(t.msg, t.known, t.in) /\ Exists(t.msg.id)
  BY DEF ParsingInv, TasksUnderstood
<1>3. known \in {Us, Absent} /\ {robot, file, selfRow} \subseteq {Us, Absent}
  BY <1>2 DEF Understood, ParsingInv, IdentityIsOurs
<1> HIDE DEF known
<1>4. IdentityIsOurs'
  BY <1>1, <1>3 DEF IdentityIsOurs
<1>5. outgoing' \subseteq onPlatform
  <2>1. ASSUME t.in.imid = Us
        PROVE  t.in.id \in onPlatform
    <3>1. t.msg.from = Us /\ t.in.id = t.msg.id
      BY <1>2, <2>1 DEF Understood
    <3> QED BY <1>2, <3>1, ParsingAssumption DEF Exists
  <2> QED BY <1>1, <2>1 DEF ParsingInv, ParsingTypeOK
<1>6. ParsingTypeOK'
  BY <1>1, <1>4, <1>5, ParsingAssumption DEF ParsingInv, ParsingTypeOK, IdentityIsOurs
<1>7. OwnIsOwn' /\ TasksUnderstood'
  BY <1>1 DEF ParsingInv, OwnIsOwn, TasksUnderstood, Exists
<1>8. /\ last'.msg = t.msg /\ last'.knew = t.known /\ last'.knows = known
      /\ last'.rows = outgoing
      /\ last'.in.robots = OtherRobots(t, known) /\ last'.in.ours = OwnTargets(t)
  BY <1>1, <1>2 DEF Understood, MessageFields
<1>9. QuotesAreOurs'
  <2>1. OwnTargets(t) \subseteq {q.of : q \in OwnQuotes(t.msg)}
    <3>1. ASSUME NEW q \in OfType(t.msg.body, "replyData"), q.of \in outgoing
          PROVE  q \in OwnQuotes(t.msg)
      BY <3>1 DEF OwnQuotes, ParsingInv, ParsingTypeOK, OwnIsOwn
    <3> QED BY <1>2, <3>1 DEF OwnTargets, Understood
  <2>2. ASSUME NEW q \in OwnQuotes(t.msg),
               q.of \in outgoing \/ (q.imid /\ t.known # Absent /\ t.msg.chat = "group")
        PROVE  q.of \in OwnTargets(t)
    <3>1. CASE q.of \in outgoing
      <4>1. q.of \in t.in.targets
        BY <1>2 DEF Understood, OwnQuotes
      <4> QED BY <3>1, <4>1 DEF OwnTargets
    <3>2. CASE q.imid /\ t.known # Absent /\ t.msg.chat = "group"
      BY <1>2, <3>2 DEF Understood, OwnTargets
    <3> QED BY <2>2, <3>1, <3>2
  <2> QED BY <1>8, <2>1, <2>2 DEF QuotesAreOurs, OwnQuotes, BodyOf
<1>10. OthersExcludeUs'
  <2>1. known = Us => Us \notin OtherRobots(t, known)
    BY ParsingAssumption DEF OtherRobots, SelfIds
  <2> QED BY <1>3, <1>8, <2>1 DEF OthersExcludeUs
<1> QED BY <1>4, <1>6, <1>7, <1>9, <1>10 DEF ParsingInv

LEMMA RestartBotKeeps ==
  ASSUME ParsingInv, RestartBot
  PROVE  ParsingInv'
<1>1. /\ restarts < MaxRestarts /\ restarts' = restarts + 1
      /\ robot' = file /\ sent' = {} /\ tasks' = {} /\ last' = Ignored
      /\ UNCHANGED <<transport, named, file, selfRow, onPlatform, outgoing, parsed>>
  BY DEF RestartBot
<1>2. ParsingTypeOK' /\ IdentityIsOurs'
  BY <1>1, ParsingAssumption DEF ParsingInv, ParsingTypeOK, IdentityIsOurs
<1>3. OwnIsOwn' /\ TasksUnderstood' /\ QuotesAreOurs' /\ OthersExcludeUs'
  BY <1>1 DEF ParsingInv, OwnIsOwn, TasksUnderstood, QuotesAreOurs, OthersExcludeUs
<1> QED BY <1>2, <1>3 DEF ParsingInv

LEMMA ParsingStays == ParsingSpec => []ParsingInv
<1>1. ParsingInv /\ [ParsingNext]_parsingVars => ParsingInv'
  <2> SUFFICES ASSUME ParsingInv, [ParsingNext]_parsingVars PROVE ParsingInv'
    OBVIOUS
  <2>1. CASE \E o \in Quotable : SendOwn(o) \/ Forget(o) \/ SentElsewhere(o)
    BY <2>1, OwnMessagesKeep
  <2>2. CASE \E m \in Messages : Parse(m)
    BY <2>2, ParseKeeps
  <2>3. CASE \E t \in tasks : Learn(t)
    BY <2>3, LearnKeeps
  <2>4. CASE RestartBot
    BY <2>4, RestartBotKeeps
  <2>5. CASE UNCHANGED parsingVars
    BY <2>5 DEF parsingVars, ParsingInv, ParsingTypeOK, IdentityIsOurs, OwnIsOwn,
                TasksUnderstood, Exists, QuotesAreOurs, OthersExcludeUs
  <2> QED BY <2>1, <2>2, <2>3, <2>4, <2>5 DEF ParsingNext
<1> QED BY <1>1, ParsingInitially, PTL DEF ParsingSpec

\* What the bot believes of a message is so (MessageIsUnderstood): parser.py:849-1034,
\* bot.py:437-455, 766-867.
THEOREM MessagesAreUnderstood == ParsingSpec => []MessageIsUnderstood
<1>1. ParsingInv => MessageIsUnderstood
  BY DEF ParsingInv, MessageIsUnderstood, AuthorIsWhoWrote, TasksUnderstood, Understood
<1> QED BY <1>1, ParsingStays, PTL

-----------------------------------------------------------------------------
\* The mark of a mention tells two readings of one group message apart, and
\* nothing else.
LEMMA MarkOnly ==
  ASSUME NEW m \in Messages, NEW known, NEW ids,
         NEW g, g = [fields |-> Carrying(m, GroupFields \cup HeaderFields),
                     body |-> m.body, marked |-> FALSE],
         NEW h, h = [fields |-> Carrying(m, GroupFields \cup HeaderFields),
                     body |-> m.body, marked |-> TRUE],
         NEW hook, hook = BuildGroup(g, known, ids),
         NEW frame, frame = BuildGroup(h, known, ids)
  PROVE  \/ hook = frame
         \/ /\ frame.mentioned
            /\ DOMAIN hook = DOMAIN frame
            /\ \A f \in DOMAIN frame \ {"mentioned", "discovered", "robots"} : hook[f] = frame[f]
            /\ CheckMentioned(m.body, known) => hook = frame
<1>1. g.fields = h.fields /\ g.body = h.body /\ g.body = m.body /\ ~g.marked /\ h.marked
  OBVIOUS
<1> DEFINE author == IF g.fields["fromuserid"] # Absent THEN g.fields["fromuserid"]
                     ELSE g.fields["fromid"]
<1>2. CASE author = Absent \/ EmptyGroup(g.body)
  BY <1>1, <1>2 DEF BuildGroup
<1>3. CASE ~(author = Absent \/ EmptyGroup(g.body))
  <2> DEFINE body == g.body
             bot == g.fields["fromuserid"] = Absent \/ g.fields["fromid"] \in RobotsNamed(body)
             users == Mentioned(body) \cap Users
             quotes == OfType(body, "replyData")
             targets == {q.of : q \in quotes}
             ours == {q.of : q \in {r \in quotes : QuotesUs(r, known, ids)}}
             images == Has(body, "IMAGE")
             files == Has(body, "FILE")
             atOnly == AtOnly(body)
             said(mentioned, found, robots) ==
               [kind |-> "message", chat |-> "group", id |-> g.fields["messageid"],
                where |-> g.fields["groupid"], author |-> author, bot |-> bot,
                imid |-> g.fields["fromid"], seqid |-> g.fields["msgseqid"],
                msgid2 |-> g.fields["msgid2"], mentioned |-> mentioned,
                users |-> users, robots |-> robots, targets |-> targets, ours |-> ours,
                images |-> images, files |-> files, atOnly |-> atOnly, discovered |-> found]
             foundBy(marked) == Discovered(body, marked, known)
             robotsBy(found) == RobotsNamed(body) \ {IF known # Absent THEN known ELSE found}
             byName == CheckMentioned(body, known)
  <2>1. hook = said(FALSE \/ byName, foundBy(FALSE), robotsBy(foundBy(FALSE)))
    BY <1>1, <1>3, Zenon DEF BuildGroup
  <2>2. frame = said(TRUE \/ byName, foundBy(TRUE), robotsBy(foundBy(TRUE)))
    BY <1>1, <1>3, Zenon DEF BuildGroup
  <2>3. byName => foundBy(FALSE) = foundBy(TRUE)
    BY DEF Discovered
  <2>4. frame.mentioned
    BY <1>1, <1>3, Zenon DEF BuildGroup
  <2> HIDE DEF author, bot, users, targets, ours, images, files, atOnly, foundBy, robotsBy, byName
  <2>5. byName => hook = frame
    BY <2>1, <2>2, <2>3
  <2>6. PICK x \in BOOLEAN : x = (FALSE \/ byName)
    BY Zenon
  <2>7. PICK y \in BOOLEAN : y = (TRUE \/ byName)
    BY Zenon
  <2>8. /\ hook = said(x, foundBy(FALSE), robotsBy(foundBy(FALSE)))
        /\ frame = said(y, foundBy(TRUE), robotsBy(foundBy(TRUE)))
    BY ONLY <2>1, <2>2, <2>6, <2>7
  <2>9. DOMAIN hook = DOMAIN frame
    BY <2>8
  <2>10. \A f \in DOMAIN frame \ {"mentioned", "discovered", "robots"} : hook[f] = frame[f]
    BY <2>8
  <2> QED BY <1>1, <2>4, <2>5, <2>9, <2>10 DEF byName
<1> QED BY <1>2, <1>3

\* A direct message loses its receiver, which only the echo of an own one needs.
LEMMA ReceiverOnly ==
  ASSUME NEW m \in Messages, m.chat # "group", NEW known \in {Us, Absent}, NEW ids,
         NEW g, g = [fields |-> Carrying(m, PrivateFields), body |-> m.body, marked |-> FALSE],
         NEW h, h = [fields |-> Carrying(m, PrivateFields \ {"ToUserId"}),
                     body |-> m.body, marked |-> FALSE],
         NEW hook, hook = BuildPrivate(g, known, ids),
         NEW frame, frame = BuildPrivate(h, known, ids)
  PROVE  hook = frame \/ (m.chat = "dm" /\ m.from = Us /\ frame = Ignored)
<1>1. /\ \A f \in {"FromUserId", "FromId", "MsgId", "MsgId2"} : g.fields[f] = h.fields[f]
      /\ g.body = h.body
      /\ g.fields["FromUserId"] = IF m.from \in Users THEN m.from ELSE Absent
      /\ g.fields["FromId"] = m.from
      /\ h.fields["ToUserId"] = Absent
  BY DEF Carrying, FieldOf, PrivateFields, WireFields
<1>2. CASE m.from \in Robots /\ m.from = known
  <2>1. DirectAuthor(h, known) = Absent
    BY <1>1, <1>2, ParsingAssumption DEF DirectAuthor
  <2>2. frame = Ignored
    BY <2>1 DEF BuildPrivate
  <2> QED BY <1>2, <2>2, ParsingAssumption
<1>3. CASE ~(m.from \in Robots /\ m.from = known)
  <2>1. DirectAuthor(g, known) = DirectAuthor(h, known)
    BY <1>1, <1>3, ParsingAssumption DEF DirectAuthor
  <2>2. hook = frame
    BY ONLY <1>1, <2>1, hook = BuildPrivate(g, known, ids), frame = BuildPrivate(h, known, ids)
       DEF BuildPrivate
  <2> QED BY <2>2
<1> QED BY <1>2, <1>3

LEMMA TransportsAgreeHere == ParsingInv => TransportsAgree
<1> SUFFICES ASSUME ParsingInv, NEW m \in Messages, NEW w \in Wrappings
             PROVE  LET hook == ParseWebhook(m, robot, sent)
                        frame == ParseWebSocket(m, w, robot, sent)
                    IN  \/ hook = frame
                        \/ m.chat = "dm" /\ m.from = Us /\ frame = Ignored
                        \/ /\ m.event = "MESSAGE_RECEIVE" /\ frame.mentioned
                           /\ DOMAIN hook = DOMAIN frame
                           /\ \A f \in DOMAIN frame \ {"mentioned", "discovered", "robots"} :
                                hook[f] = frame[f]
  BY DEF TransportsAgree
<1> DEFINE hook == ParseWebhook(m, robot, sent)
           frame == ParseWebSocket(m, w, robot, sent)
           group(marked) == [fields |-> Carrying(m, GroupFields \cup HeaderFields),
                             body |-> m.body, marked |-> marked]
           private(S) == [fields |-> Carrying(m, S), body |-> m.body, marked |-> FALSE]
<1>1. CASE m.chat = "group"
  <2> DEFINE mark == m.event = "MESSAGE_RECEIVE" \/ CheckMentioned(m.body, robot)
  <2>1. hook = BuildGroup(group(FALSE), robot, sent)
    BY <1>1 DEF ParseWebhook, AsSent, BodyOf
  <2>2. frame = BuildGroup(group(mark), robot, sent)
    BY <1>1, GroupArrives DEF ParseWebSocket
  <2>3. CASE mark
    <3>1. frame = BuildGroup(group(TRUE), robot, sent)
      BY <2>2, <2>3
    <3>2. \/ hook = frame
          \/ /\ frame.mentioned
             /\ DOMAIN hook = DOMAIN frame
             /\ \A f \in DOMAIN frame \ {"mentioned", "discovered", "robots"} :
                  hook[f] = frame[f]
             /\ CheckMentioned(m.body, robot) => hook = frame
      BY <2>1, <3>1, MarkOnly
    <3> QED BY <2>3, <3>2
  <2>4. CASE ~mark
    BY <2>1, <2>2, <2>4
  <2> QED BY <2>3, <2>4
<1>2. CASE m.chat # "group"
  <2>1. hook = BuildPrivate(private(PrivateFields), robot, sent)
    BY <1>2 DEF ParseWebhook, AsSent, BodyOf
  <2>2. frame = BuildPrivate(private(PrivateFields \ {"ToUserId"}), robot, sent)
    BY <1>2, PrivateArrives DEF ParseWebSocket
  <2>3. robot \in {Us, Absent}
    BY DEF ParsingInv, IdentityIsOurs
  <2>4. hook = frame \/ (m.chat = "dm" /\ m.from = Us /\ frame = Ignored)
    <3> HIDE DEF hook, frame
    <3> QED BY <1>2, <2>1, <2>2, <2>3, ReceiverOnly
  <2> QED BY <2>4
<1> QED BY <1>1, <1>2

LEMMA ContentSurvivesHere == ContentSurvives
<1> SUFFICES ASSUME NEW m \in Messages, m.chat = "group" \/ m.from \in Users,
                    NEW i \in DOMAIN m.body, m.body[i].of # "blank",
                    m.body[i].type
                      \notin (IF m.chat = "group" THEN {"FACE"} ELSE {"FACE", "AT"})
             PROVE  ParseWebhook(m, robot, sent) # Ignored
  BY DEF ContentSurvives
<1>1. m.from # Absent /\ m.body[i].type \in Types
  BY ParsingAssumption
<1>2. CASE m.chat = "group"
  <2> DEFINE md == AsSent(m)
  <2>1. /\ md.fields["fromuserid"] \in {m.from, Absent} /\ md.fields["fromid"] = m.from
        /\ md.body = m.body
    BY <1>2 DEF AsSent, BodyOf, Carrying, FieldOf, GroupFields, HeaderFields, WireFields
  <2>2. ~EmptyGroup(m.body)
    BY <1>1, <1>2 DEF EmptyGroup, HasWords, Has, Types
  <2>3. BuildGroup(md, robot, sent).kind = "message"
    BY <1>1, <2>1, <2>2 DEF BuildGroup
  <2> QED BY <1>2, <2>3 DEF ParseWebhook, Ignored
<1>3. CASE m.chat # "group"
  <2> DEFINE md == AsSent(m)
  <2>1. md.fields["FromUserId"] = m.from /\ md.body = m.body
    BY <1>3 DEF AsSent, BodyOf, Carrying, FieldOf, PrivateFields, WireFields
  <2>2. DirectAuthor(md, robot) = m.from
    BY <1>1, <2>1 DEF DirectAuthor
  <2>3. HasWords(m.body) \/ \E t \in {"IMAGE", "replyData", "FILE"} : Has(m.body, t)
    BY <1>1, <1>3 DEF HasWords, Has, Types
  <2>4. BuildPrivate(md, robot, sent).kind = "message"
    BY <1>1, <2>1, <2>2, <2>3 DEF BuildPrivate
  <2> QED BY <1>3, <2>4 DEF ParseWebhook, Ignored
<1> QED BY <1>2, <1>3

\* Neither the transport nor the wrapping costs a message its meaning (ParsedAlike):
\* parser.py:1047-1262, 1437-1443, 790-806, 948-963.
THEOREM TransportsParseAlike == ParsingSpec => []ParsedAlike
<1>1. ParsingInv => ParsedAlike
  BY TransportsAgreeHere, ContentSurvivesHere DEF ParsedAlike
<1> QED BY <1>1, ParsingStays, PTL
=============================================================================
