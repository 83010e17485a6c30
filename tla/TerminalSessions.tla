-------------------------- MODULE TerminalSessions --------------------------
(* The PTY sessions of the session tracker's Terminal tab                     *)
(* (sessiontracker_terminal.py: TerminalSessionManager and                    *)
(* run_terminal_websocket), for one admin.                                    *)
(*                                                                            *)
(* The manager's lock is never held across an await, so every locked section, *)
(* with the code around it up to the next await, is one action.  A terminal   *)
(* is watched by the handlers of websocket connections; when nobody watches   *)
(* it a retention timer runs.  Each terminal has a reader task that waits in  *)
(* an executor thread for the PTY, and one of four parties closes it: an HTTP *)
(* request or a websocket message, the timer, or the reader at end of file.   *)
(* Descriptor numbers are the operating system's: the lowest free one is      *)
(* given out again once a terminal's was closed.                              *)
EXTENDS Integers, FiniteSets

CONSTANTS
  Terminals,    \* terminal ids (uuid4, never reused)
  Sockets,      \* websocket connections, each of them made once
  ViewOf,       \* the terminal a connection's URL names
  Fds,          \* descriptor numbers
  MaxOpen,      \* INFOFLOW_SESSIONTRACKER_TERMINAL_MAX_PER_ADMIN
  Retention,    \* INFOFLOW_SESSIONTRACKER_TERMINAL_RETENTION_MINUTES
  None          \* no terminal, no descriptor

ASSUME RetentionPositive == Retention \in Nat \ {0}
ASSUME ViewOfType == ViewOf \in [Sockets -> Terminals]
ASSUME ConnectionsAreNamed == Sockets \cap {"http", "timer", "reader", "no"} = {}
ASSUME DescriptorsEnough ==
  /\ Fds \subseteq Nat
  /\ IsFiniteSet(Fds) /\ IsFiniteSet(Terminals)
  /\ Cardinality(Terminals) <= Cardinality(Fds)
ASSUME NoneIsNothing == None \notin Terminals \cup Fds

VARIABLES
  registered,   \* _sessions of the admin
  proc,         \* the shell: running, without its tty, or gone
  fd,           \* session.master_fd, which is never reset
  owner,        \* [Fds -> Terminals \cup {None}] whose PTY a number names
  subs,         \* session.subscribers
  timer,        \* ticks until the retention task closes the session
  idle,         \* ticks an open session has been without a watcher or a use
  reader,       \* session.reader_task: where it is, and the PTY it read from
  finish,       \* the _finish_session under way: where, whose, whom to tell
  shown,        \* the terminals whose output is in a session's buffer
  socket        \* the handler of a websocket connection: where it is

vars == <<registered, proc, fd, owner, subs, timer, idle, reader, finish,
          shown, socket>>

NoTimer == Retention + 1

TypeOK ==
  /\ registered \subseteq Terminals
  /\ proc \in [Terminals -> {"none", "running", "detached", "exited"}]
  /\ fd \in [Terminals -> Fds \cup {None}]
  /\ owner \in [Fds -> Terminals \cup {None}]
  /\ subs \in [Terminals -> SUBSET Sockets]
  /\ timer \in [Terminals -> 0..NoTimer]
  /\ idle \in [Terminals -> 0..Retention]
  /\ reader \in [Terminals ->
        [at : {"none", "reading", "read", "sending", "exiting", "done"},
         from : Terminals \cup {None}]]
  /\ finish \in [Terminals ->
        [at : {"no", "kill", "reap", "tell", "done"},
         by : Sockets \cup {"http", "timer", "reader", "no"},
         tell : SUBSET Sockets]]
  /\ shown \in [Terminals -> SUBSET Terminals]
  /\ socket \in [Sockets -> {"new", "greeting", "serving", "told", "gone"}]

Init ==
  /\ registered = {}
  /\ proc = [t \in Terminals |-> "none"]
  /\ fd = [t \in Terminals |-> None]
  /\ owner = [f \in Fds |-> None]
  /\ subs = [t \in Terminals |-> {}]
  /\ timer = [t \in Terminals |-> NoTimer]
  /\ idle = [t \in Terminals |-> 0]
  /\ reader = [t \in Terminals |-> [at |-> "none", from |-> None]]
  /\ finish = [t \in Terminals |-> [at |-> "no", by |-> "no", tell |-> {}]]
  /\ shown = [t \in Terminals |-> {}]
  /\ socket = [w \in Sockets |-> "new"]

-----------------------------------------------------------------------------
(* The retention timer.  watchers is the session's set of subscribers after  *)
(* the step.                                                                 *)

Schedule(t, watchers) ==
  IF watchers # {} \/ timer[t] # NoTimer
    THEN UNCHANGED <<timer, idle>>
    ELSE timer' = [timer EXCEPT ![t] = Retention] /\ idle' = [idle EXCEPT ![t] = 0]

CancelTimer(t) ==
  timer' = [timer EXCEPT ![t] = NoTimer] /\ idle' = [idle EXCEPT ![t] = 0]

(* Every use of the session starts the retention over. *)
Reschedule(t) ==
  /\ timer' = [timer EXCEPT ![t] = IF subs[t] # {} THEN NoTimer ELSE Retention]
  /\ idle' = [idle EXCEPT ![t] = 0]

Tick ==
  /\ \E t \in registered : timer[t] \in 1..Retention
  /\ timer' = [t \in Terminals |->
                 IF timer[t] \in 1..Retention THEN timer[t] - 1 ELSE timer[t]]
  /\ idle' = [t \in Terminals |->
                IF t \in registered /\ subs[t] = {} /\ idle[t] < Retention
                  THEN idle[t] + 1 ELSE idle[t]]
  /\ UNCHANGED <<registered, proc, fd, owner, subs, reader, finish, shown,
                 socket>>

-----------------------------------------------------------------------------
(* A shell of its own, its reader, and a timer: nobody is attached yet.      *)

Lowest(free) == CHOOSE f \in free : \A g \in free : f <= g

Create(t) ==
  LET f == Lowest({g \in Fds : owner[g] = None}) IN
  /\ proc[t] = "none"
  /\ Cardinality(registered) < MaxOpen
  /\ registered' = registered \cup {t}
  /\ proc' = [proc EXCEPT ![t] = "running"]
  /\ fd' = [fd EXCEPT ![t] = f]
  /\ owner' = [owner EXCEPT ![f] = t]
  /\ reader' = [reader EXCEPT ![t] = [at |-> "reading", from |-> t]]
  /\ Schedule(t, {})
  /\ UNCHANGED <<subs, finish, shown, socket>>

(* Input, a resize or a poll of the output; the write itself follows with no *)
(* await in between.                                                         *)
Touch(t) ==
  /\ t \in registered
  /\ Reschedule(t)
  /\ UNCHANGED <<registered, proc, fd, owner, subs, reader, finish, shown,
                 socket>>

-----------------------------------------------------------------------------
(* _finish_session.  Its first section takes the session out of the registry *)
(* and goes on, with no await when the process is not to be killed, to close *)
(* the descriptor.                                                           *)

(* Mutant: no look at session.closing. *)
FinishTwice(t) == t = t

MayFinish(t) == finish[t].at = "no"

CloseFd(t) == owner' = [owner EXCEPT ![fd[t]] = None]

Finish(t, who, terminate) ==
  LET killing == terminate /\ proc[t] # "exited" IN
  /\ MayFinish(t)
  /\ finish' = [finish EXCEPT ![t] = [at |-> IF killing THEN "kill" ELSE "reap",
                                      by |-> who, tell |-> subs[t]]]
  /\ registered' = registered \ {t}
  /\ subs' = [subs EXCEPT ![t] = {}]
  /\ CancelTimer(t)
  /\ IF killing THEN UNCHANGED owner ELSE CloseFd(t)

(* SIGHUP has had its 0.4 seconds: SIGKILL, and the descriptor is closed. *)
Kill(t) ==
  /\ finish[t].at = "kill"
  /\ proc' = [proc EXCEPT ![t] = "exited"]
  /\ CloseFd(t)
  /\ finish' = [finish EXCEPT ![t].at = "reap"]
  /\ UNCHANGED <<registered, fd, subs, timer, idle, reader, shown, socket>>

(* Mutant: the reader that closes its session waits for itself. *)
ReapJoinsItself(t) ==
  /\ finish[t].at = "reap" /\ finish[t].by # "reader"
  /\ reader' = [reader EXCEPT ![t] = [at |-> "done", from |-> None]]
  /\ finish' = [finish EXCEPT ![t].at = IF finish[t].tell = {} THEN "done" ELSE "tell"]
  /\ UNCHANGED <<registered, proc, fd, owner, subs, timer, idle, shown, socket>>

(* The wait for the process ends, the reader is cancelled unless it is the *)
(* one that runs this, and the watchers are next.                          *)
Reap(t) ==
  /\ finish[t].at = "reap"
  /\ reader' = [reader EXCEPT ![t] = [at |-> "done", from |-> None]]
  /\ finish' = [finish EXCEPT ![t].at = IF finish[t].tell = {} THEN "done" ELSE "tell"]
  /\ UNCHANGED <<registered, proc, fd, owner, subs, timer, idle, shown, socket>>

Tell(t, w) ==
  LET rest == finish[t].tell \ {w} IN
  /\ finish[t].at = "tell" /\ w \in finish[t].tell
  /\ finish' = [finish EXCEPT ![t].tell = rest,
                              ![t].at = IF rest = {} THEN "done" ELSE "tell"]
  /\ socket' = [socket EXCEPT ![w] = IF @ = "gone" THEN "gone" ELSE "told"]
  /\ UNCHANGED <<registered, proc, fd, owner, subs, timer, idle, reader, shown>>

CloseRequest(t) ==
  /\ t \in registered
  /\ Finish(t, "http", TRUE)
  /\ UNCHANGED <<proc, fd, reader, shown, socket>>

(* The sleep is over.  The check and the closing are one step: taking the   *)
(* lock that nobody holds does not suspend, so no attach fits in between.   *)
Expire(t) ==
  /\ timer[t] = 0
  /\ t \in registered /\ subs[t] = {}
  /\ Finish(t, "timer", TRUE)
  /\ UNCHANGED <<proc, fd, reader, shown, socket>>

-----------------------------------------------------------------------------
(* The reader.  It names the PTY by number, at each turn anew.               *)

ReadAgain(t) ==
  [at |-> IF owner[fd[t]] = None THEN "exiting" ELSE "reading", from |-> owner[fd[t]]]

(* The thread's read returns: there is output ... *)
Output(t) ==
  /\ reader[t].at = "reading" /\ proc[reader[t].from] = "running"
  /\ reader' = [reader EXCEPT ![t].at = "read"]
  /\ UNCHANGED <<registered, proc, fd, owner, subs, timer, idle, finish, shown,
                 socket>>

(* ... or there is nobody left at the other end. *)
Hangup(t) ==
  /\ reader[t].at = "reading" /\ proc[reader[t].from] # "running"
  /\ reader' = [reader EXCEPT ![t].at = "exiting"]
  /\ UNCHANGED <<registered, proc, fd, owner, subs, timer, idle, finish, shown,
                 socket>>

(* Back in the event loop: a session that is closing takes no output. *)
TakesOutput(t) == finish[t].at = "no"

TakeOutput(t) ==
  /\ reader[t].at = "read"
  /\ IF TakesOutput(t)
       THEN /\ shown' = [shown EXCEPT ![t] = @ \cup {reader[t].from}]
            /\ reader' = [reader EXCEPT ![t] = IF subs[t] = {} THEN ReadAgain(t)
                                               ELSE [at |-> "sending", from |-> None]]
       ELSE /\ reader' = [reader EXCEPT ![t].at = "exiting"]
            /\ UNCHANGED shown
  /\ UNCHANGED <<registered, proc, fd, owner, subs, timer, idle, finish, socket>>

(* The last watcher's copy is sent. *)
Sent(t) ==
  /\ reader[t].at = "sending"
  /\ reader' = [reader EXCEPT ![t] = ReadAgain(t)]
  /\ UNCHANGED <<registered, proc, fd, owner, subs, timer, idle, finish, shown,
                 socket>>

(* End of file: the reader itself closes the session, and kills nothing; if *)
(* someone else is closing it, the reader is done.                          *)
ReaderExits(t) ==
  /\ reader[t].at = "exiting"
  /\ reader' = [reader EXCEPT ![t].at = "done"]
  /\ IF MayFinish(t) THEN Finish(t, "reader", FALSE)
                     ELSE UNCHANGED <<finish, registered, subs, timer, idle, owner>>
  /\ UNCHANGED <<proc, fd, shown, socket>>

-----------------------------------------------------------------------------
(* The handler of one websocket connection.  Between the attach and the loop *)
(* it sends the session and the replay, outside of the try whose finally     *)
(* detaches.                                                                 *)

Attach(w) ==
  LET t == ViewOf[w] IN
  /\ socket[w] = "new" /\ t \in registered
  /\ socket' = [socket EXCEPT ![w] = "greeting"]
  /\ subs' = [subs EXCEPT ![t] = @ \cup {w}]
  /\ CancelTimer(t)
  /\ UNCHANGED <<registered, proc, fd, owner, reader, finish, shown>>

AttachMissing(w) ==
  /\ socket[w] = "new" /\ finish[ViewOf[w]].at # "no"
  /\ socket' = [socket EXCEPT ![w] = "gone"]
  /\ UNCHANGED <<registered, proc, fd, owner, subs, timer, idle, reader, finish,
                 shown>>

Greeted(w) ==
  /\ socket[w] = "greeting"
  /\ socket' = [socket EXCEPT ![w] = "serving"]
  /\ UNCHANGED <<registered, proc, fd, owner, subs, timer, idle, reader, finish,
                 shown>>

(* The browser is gone before it has the replay: send_json raises and the *)
(* handler ends with it.                                                  *)
GreetingFails(w) ==
  /\ socket[w] = "greeting"
  /\ socket' = [socket EXCEPT ![w] = "gone"]
  /\ UNCHANGED <<registered, proc, fd, owner, subs, timer, idle, reader, finish,
                 shown>>

(* The connection is lost or closed by either side: detach. *)
HandlerEnds(w) ==
  LET t == ViewOf[w] IN
  /\ socket[w] \in {"serving", "told"}
  /\ finish[t].by = w => finish[t].at = "done"
  /\ socket' = [socket EXCEPT ![w] = "gone"]
  /\ subs' = [subs EXCEPT ![t] = @ \ {w}]
  /\ IF t \in registered THEN Schedule(t, subs[t] \ {w}) ELSE UNCHANGED <<timer, idle>>
  /\ UNCHANGED <<registered, proc, fd, owner, reader, finish, shown>>

CloseMessage(w) ==
  /\ socket[w] = "serving" /\ ViewOf[w] \in registered
  /\ Finish(ViewOf[w], w, TRUE)
  /\ UNCHANGED <<proc, fd, reader, shown, socket>>

-----------------------------------------------------------------------------
(* The shell exits, at SIGHUP or by itself, or closes its tty and goes on. *)
ShellLeaves(t) ==
  /\ proc[t] \in {"running", "detached"}
  /\ \E how \in {"detached", "exited"} :
       how # proc[t] /\ proc' = [proc EXCEPT ![t] = how]
  /\ UNCHANGED <<registered, fd, owner, subs, timer, idle, reader, finish, shown,
                 socket>>

Closing(t) == Kill(t) \/ Reap(t) \/ \E w \in Sockets : Tell(t, w)

Reading(t) == Hangup(t) \/ TakeOutput(t) \/ Sent(t) \/ ReaderExits(t)

Next ==
  \/ Tick
  \/ \E t \in Terminals :
       \/ Create(t) \/ Touch(t) \/ CloseRequest(t) \/ Expire(t)
       \/ Closing(t) \/ Output(t) \/ Reading(t) \/ ShellLeaves(t)
  \/ \E w \in Sockets :
       \/ Attach(w) \/ AttachMissing(w)
       \/ Greeted(w) \/ GreetingFails(w) \/ HandlerEnds(w) \/ CloseMessage(w)

(* The event loop runs every task that can go on: a closing session, a reader *)
(* whose read returned or whose sends are through (the heartbeat ends those   *)
(* to a dead peer) and a handler that was told to end.  No shell has to write *)
(* or to exit.                                                                *)
Fairness ==
  /\ \A t \in Terminals : WF_vars(Closing(t)) /\ WF_vars(Reading(t))
  /\ \A w \in Sockets : WF_vars(socket[w] = "told" /\ HandlerEnds(w))

Spec == Init /\ [][Next]_vars /\ Fairness

-----------------------------------------------------------------------------
(* An open terminal has a retention timer exactly while nobody is subscribed: *)
(* no order of attach, detach, use and poll leaves one that is never closed,  *)
(* or one that closes under a watcher.                                        *)
TimerIffUnwatched ==
  \A t \in registered : subs[t] = {} <=> timer[t] # NoTimer

(* The timer closes only a terminal that was left alone, without a use, for  *)
(* all of its retention: an old timer never outlives an attach.              *)
ExpiresOnlyIdle ==
  [][\A t \in Terminals :
       t \in registered \ registered' /\ finish'[t].by = "timer" => idle[t] = Retention]_vars

(* The descriptor of an open terminal, and of one whose closing has not come *)
(* to it, names its own PTY: nobody closes it twice, when the number may be  *)
(* another terminal's by then.                                               *)
DescriptorIsOwn ==
  \A t \in Terminals :
    t \in registered \/ finish[t].at = "kill" => owner[fd[t]] = t

(* The output that is kept for a terminal came from its own shell, although a *)
(* reader that was sending when its terminal was closed reads on from         *)
(* whatever has the number now.                                               *)
OutputIsOwn == \A t \in Terminals : shown[t] \subseteq {t}

(* A handler that serves an open terminal is subscribed to it, and once a     *)
(* terminal is closed its reader has ended and every handler that was         *)
(* attached has been told.                                                    *)
ClosedForEveryone ==
  \A t \in Terminals :
    /\ t \in registered =>
         \A w \in Sockets :
           ViewOf[w] = t /\ socket[w] \in {"greeting", "serving"} => w \in subs[t]
    /\ finish[t].at = "done" =>
         /\ reader[t].at = "done" /\ subs[t] = {}
         /\ \A w \in Sockets : ViewOf[w] = t => socket[w] \notin {"greeting", "serving"}

(* Whatever order attach, loss, use, expiry and close come in, a terminal has *)
(* one timer or a watcher, its own descriptor and its own output, and a       *)
(* closed one nothing.                                                        *)
TerminalsAreOwned ==
  TypeOK /\ TimerIffUnwatched /\ DescriptorIsOwn /\ OutputIsOwn /\ ClosedForEveryone

(* A terminal that is being closed is closed, and its handlers end. *)
ClosingCompletes ==
  []<>(\A t \in Terminals : finish[t].at # "no" =>
         /\ finish[t].at = "done"
         /\ \A w \in Sockets : ViewOf[w] = t => socket[w] \in {"new", "gone"})

(* A terminal whose shell is gone does not stay open. *)
HungUpIsClosed == []<>(\A t \in registered : proc[t] # "exited")

(* A terminal is closed when, and only when, it has to be. *)
TerminalsClose == ExpiresOnlyIdle /\ ClosingCompletes /\ HungUpIsClosed

(* README.md:387: after the page is closed or the network is lost the PTY is  *)
(* kept for the retention; so no subscriber is a connection that has ended.   *)
NoDeadWatcher ==
  \A t \in Terminals : \A w \in subs[t] : socket[w] # "gone"

-----------------------------------------------------------------------------
=============================================================================
