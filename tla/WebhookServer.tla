---------------------------- MODULE WebhookServer ----------------------------
(***************************************************************************)
(* The webhook transport: connect() and disconnect() of the adapter in     *)
(* webhook mode (adapter.py), WebhookServer (webhook.py) and what          *)
(* parse_webhook (parser.py) and crypto.py answer to each kind of request. *)
(*                                                                         *)
(* The platform sends a request again after a 5xx and when no answer       *)
(* arrived; a message is handled by a task of its own after the answer.    *)
(* aiohttp is external: a runner is set up, a site binds the port, and     *)
(* closing either waits.  Runners and sites are numbered by the start()    *)
(* that made them.                                                         *)
(***************************************************************************)
EXTENDS Integers, FiniteSets, Functions

CONSTANTS
  Requests,     \* what the platform sends
  ShapeOf,      \* request -> its shape
  MaxBinds, MaxSends   \* bounds

\* ciphers: absent, empty, not to be decrypted, or what the plaintext is.
Ciphers == {"none", "empty", "broken", "json", "xml", "other"}
Shapes ==
  [ct : {"form", "text", "else"},
   echo : {"none", "signed", "unsigned"},
   json : {"none", "invalid", "object"},
   cipher : Ciphers,
   content : BOOLEAN]    \* do the builders make a message of it?

ASSUME WebhookAssumption ==
  /\ ShapeOf \in [Requests -> Shapes]
  /\ MaxBinds \in Nat /\ MaxSends \in Nat

VARIABLES
  up,         \* runners set up and not cleaned up
  runner,     \* _runner
  site,       \* _site
  listening,  \* the site whose socket has the port
  taken,      \* another process has the port
  receiving,  \* is the adapter marked connected?
  bindPc,     \* where connect() waits
  closePc,    \* where disconnect() waits
  binds,
  met,        \* has a disconnect() met a connect()?
  failedBinds,\* starts whose bind failed
  reading,    \* requests whose body is being read, and the runner that reads
  answer,     \* last status the platform saw for a request, or 0
  spawned,    \* tasks made for a request
  sends,      \* deliveries of a request
  unseen      \* answers the platform did not see

webhookVars == <<up, runner, site, listening, taken, receiving, bindPc, closePc, binds, met,
                 failedBinds, reading, answer, spawned, sends, unseen>>
serverVars == <<up, runner, site, listening, taken, receiving, bindPc, closePc, binds, met,
                failedBinds>>

NoSite == 0

-----------------------------------------------------------------------------
(* parse_webhook, parse_webhook_request *)

Error(status) == [kind |-> "http_error", status |-> status]
Built(shape) ==
  [kind |-> IF shape.content THEN "message" ELSE "ignored", status |-> 200]

\* _decrypt_and_parse_payload: XML counts in a direct chat only.
Readable(shape) == shape.cipher = "json" \/ (shape.cipher = "xml" /\ shape.ct = "form")
Opened(shape) == IF Readable(shape) THEN Built(shape) ELSE Error(500)

Challenge(shape) ==
  IF shape.echo = "signed" THEN [kind |-> "echostr_ok", status |-> 200]
  ELSE [kind |-> "echostr_bad", status |-> 403]

ParseForm(shape) ==
  IF shape.echo # "none" THEN Challenge(shape)
  ELSE IF shape.json # "object" \/ shape.cipher \in {"none", "empty"} THEN Error(400)
  ELSE Opened(shape)

ParseRequest(shape) ==
  CASE shape.ct = "form" -> ParseForm(shape)
    [] shape.ct = "text" -> IF shape.cipher \in {"none", "empty"} THEN Error(400) ELSE Opened(shape)
    [] OTHER -> Error(400)

-----------------------------------------------------------------------------
WebhookInit ==
  /\ up = {} /\ runner = NoSite /\ site = NoSite /\ listening = NoSite
  /\ taken = FALSE /\ receiving = FALSE
  /\ bindPc = "idle" /\ closePc = "idle" /\ binds = 0
  /\ met = FALSE /\ failedBinds = {}
  /\ reading = {} /\ answer = [r \in Requests |-> 0]
  /\ spawned = [r \in Requests |-> 0] /\ sends = [r \in Requests |-> 0]
  /\ unseen = [r \in Requests |-> 0]

trafficVars == <<reading, answer, spawned, sends, unseen>>

\* connect(): a port that answers is in use; a new runner replaces the last one.
WebhookConnect ==
  /\ bindPc = "idle" /\ closePc = "idle" /\ ~receiving
  /\ binds < MaxBinds /\ binds' = binds + 1
  /\ IF taken \/ listening # NoSite
     THEN UNCHANGED <<runner, up, bindPc>>
     ELSE /\ runner' = binds' /\ up' = up \cup {binds'}
          /\ bindPc' = "setup"
  /\ UNCHANGED <<site, listening, taken, receiving, closePc, met, failedBinds, trafficVars>>

\* The runner is set up; a disconnect() may have taken it away.
RunnerReady ==
  /\ bindPc = "setup"
  /\ IF runner = NoSite
     THEN /\ bindPc' = "idle" /\ failedBinds' = failedBinds \cup {binds}
          /\ UNCHANGED <<site, listening>>
     ELSE /\ site' = runner
          /\ \/ /\ ~taken /\ listening' = runner
                /\ bindPc' = "bound"
                /\ UNCHANGED failedBinds
             \/ /\ bindPc' = "idle" /\ failedBinds' = failedBinds \cup {runner}
                /\ UNCHANGED listening
  /\ UNCHANGED <<up, runner, taken, receiving, closePc, binds, met, trafficVars>>

\* site.start() returns after the socket is bound.
SiteStarted ==
  /\ bindPc = "bound" /\ bindPc' = "idle"
  /\ receiving' = TRUE
  /\ UNCHANGED <<up, runner, site, listening, taken, closePc, binds, met, failedBinds,
                 trafficVars>>

\* Both site.stop() and runner.cleanup() close what the site knows to be its socket;
\* it does when its start() has returned.
SiteStops_Keeps(s) == listening
SiteStops(s) == IF s # NoSite /\ listening = s /\ bindPc # "bound" THEN NoSite ELSE listening

\* disconnect(): the site stops at once, the runner is cleaned up.
WebhookDisconnect ==
  /\ closePc = "idle" /\ (receiving \/ bindPc # "idle")
  /\ met' = (met \/ bindPc # "idle")
  /\ listening' = SiteStops(site) /\ site' = NoSite
  /\ closePc' = "cleanup"
  /\ UNCHANGED <<up, runner, taken, receiving, bindPc, binds, failedBinds, trafficVars>>

\* cleanup() lets a handler finish, until its timeout, or cuts it off.
Cleaned(n) == up \ {n}
RunnerCleaned ==
  /\ closePc = "cleanup" /\ closePc' = "idle"
  /\ up' = Cleaned(runner) /\ runner' = NoSite
  /\ reading' = {}
  /\ receiving' = FALSE
  /\ UNCHANGED <<site, listening, taken, bindPc, binds, met, failedBinds, answer, spawned,
                 sends, unseen>>

\* Another process takes or frees the port.
PortChanges ==
  /\ listening = NoSite /\ bindPc = "idle" /\ taken' = ~taken
  /\ UNCHANGED <<up, runner, site, listening, receiving, bindPc, closePc, binds, met,
                 failedBinds, trafficVars>>

-----------------------------------------------------------------------------
(* Requests *)

\* The platform sends until it sees an answer below 500.
Open(r) == answer[r] = 0 \/ answer[r] >= 500
SendRequest(r) ==
  /\ listening # NoSite /\ listening \in up
  /\ Open(r) /\ r \notin reading
  /\ FoldFunction(+, 0, sends) < MaxSends /\ sends' = [sends EXCEPT ![r] = @ + 1]
  /\ reading' = reading \cup {r}
  /\ UNCHANGED <<answer, spawned, unseen, serverVars>>

\* _handle_request once the body is read: the task is made before the answer is
\* written, and is not awaited.
Spawns_FirstTime(r) == ParseRequest(ShapeOf[r]).kind = "message" /\ sends[r] = 1
Spawns(r) == ParseRequest(ShapeOf[r]).kind = "message"
HandleRequest(r) ==
  /\ r \in reading /\ reading' = reading \ {r}
  /\ spawned' = [spawned EXCEPT ![r] = @ + (IF Spawns(r) THEN 1 ELSE 0)]
  /\ \/ answer' = [answer EXCEPT ![r] = ParseRequest(ShapeOf[r]).status] /\ UNCHANGED unseen
     \/ unseen' = [unseen EXCEPT ![r] = @ + 1] /\ UNCHANGED answer
  /\ UNCHANGED <<sends, serverVars>>

\* The body does not arrive: the 400 has no reader.
ReadFails(r) ==
  /\ r \in reading /\ reading' = reading \ {r}
  /\ UNCHANGED <<answer, spawned, sends, unseen, serverVars>>

WebhookNext ==
  \/ WebhookConnect \/ RunnerReady \/ SiteStarted
  \/ WebhookDisconnect \/ RunnerCleaned \/ PortChanges
  \/ \E r \in Requests : SendRequest(r) \/ HandleRequest(r) \/ ReadFails(r)

WebhookSpec == WebhookInit /\ [][WebhookNext]_webhookVars

-----------------------------------------------------------------------------
(* Properties *)

WebhookTypeOK ==
  /\ up \cup failedBinds \subseteq 1 .. binds
  /\ {runner, site, listening} \subseteq 0 .. binds
  /\ {taken, receiving, met} \subseteq BOOLEAN
  /\ bindPc \in {"idle", "setup", "bound"} /\ closePc \in {"idle", "cleanup"}
  /\ binds \in 0 .. MaxBinds /\ reading \subseteq Requests
  /\ answer \in [Requests -> {0, 200, 400, 403, 500}]
  /\ {spawned, unseen, sends} \subseteq [Requests -> Nat]

WebhookRests == bindPc = "idle" /\ closePc = "idle"

\* A message the platform will not send again has a task; and it has more than one
\* only if an answer was lost, which is for the duplicate check to sort out
\* (webhook.py:434-444).
AnsweredIsSpawned ==
  \A r \in Requests :
    /\ ParseRequest(ShapeOf[r]).kind = "message" /\ answer[r] = 200 => spawned[r] > 0
    /\ spawned[r] <= unseen[r] + (IF answer[r] = 200 THEN 1 ELSE 0)

\* What is no message is never handed on, however often it is sent.
NoOtherIsSpawned ==
  \A r \in Requests : ~ShapeOf[r].content => spawned[r] = 0

\* The platform's repetitions and the bot's tasks agree, whatever answer is lost.
RequestsAreHandled == WebhookTypeOK /\ AnsweredIsSpawned /\ NoOtherIsSpawned

\* A disconnected adapter has left the port, and a connected one has it with a
\* runner that disconnect() will find, unless disconnect() met connect(): then the
\* socket that start() binds stays, and no later connect() finds the port free
\* (webhook.py:285-323, adapter.py:1091-1120).
PortFollowsAdapter ==
  WebhookRests /\ ~met =>
    IF receiving THEN listening # NoSite /\ listening = site /\ site = runner
    ELSE listening = NoSite

\* No runner stays up behind the back of disconnect(), but for those of a failed
\* bind, which nobody cleans up (adapter.py:1117-1126).
RunnersAreOwned == WebhookRests => up \ failedBinds \subseteq {runner}

\* At rest port and runners belong to the adapter that says it is connected.
PortIsOwned == PortFollowsAdapter /\ RunnersAreOwned
=============================================================================
