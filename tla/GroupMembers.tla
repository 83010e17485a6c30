---------------------------- MODULE GroupMembers ----------------------------
(***************************************************************************)
(* The member list of a group (serverapi.py): a cache with a lifetime, a   *)
(* debounce that replays the last answer for some seconds, and one fetch   *)
(* for all callers, which run on different event loops and threads.  The   *)
(* caller that finds no usable answer starts a task for the fetch and,     *)
(* like all who come later, waits for the task's future.                   *)
(*                                                                         *)
(* Groups do not interact, so one is modelled.  A list is known by when    *)
(* the platform read it; a member somebody looks up joins at some time.    *)
(***************************************************************************)
EXTENDS Integers, FiniteSets

CONSTANTS
  Callers,
  ModesOf,    \* the kinds of call each caller makes
  Lifetime,   \* _MEMBERS_CACHE_TTL
  Debounce,   \* _DEBOUNCE_SECONDS
  Timeout,    \* of the request
  MaxTime,    \* bound of the clock
  MaxTasks,   \* bound: fetches begun
  MaxFaults   \* bound: failed requests and cancellations

ASSUME MembersAssumption ==
  /\ ModesOf \in [Callers -> SUBSET {"plain", "force", "identity"}]
  /\ Lifetime \in Nat /\ Debounce \in Nat /\ Timeout \in Nat
  /\ MaxTime \in Nat /\ MaxTasks \in Nat /\ MaxFaults \in Nat

None == 0
Never == -1
Tasks == 1 .. MaxTasks
Times == 0 .. MaxTime

VARIABLES
  now,
  joined,     \* when the member that is looked up joined the group, or Never
  cache,      \* _MEMBERS_CACHE: when its list was read and stamped
  registered, \* the future of _guarded_state, by its task
  last,       \* last_result and last_ts
  created,    \* fetches begun so far
  task,       \* the fetch tasks
  attempt,    \* history: when the last fetch ended without being cancelled
  future,     \* what each task's future holds
  call,       \* caller -> the fetch its call waits for
  answer,     \* the answer the last step gave to a call, if it did
  faults

membersVars == <<now, joined, cache, registered, last, created, task, attempt,
                 future, call, answer, faults>>

Statuses == {"ok", "cached", "debounced", "stale", "failed", "cancelled"}
Results == [status : Statuses \cup {"none"}, read : Times \cup {Never}]
NoResult == [status |-> "none", read |-> Never]
Failed == [status |-> "failed", read |-> Never]
Cancelled == [status |-> "cancelled", read |-> Never]

Requesting == {"request", "replied", "errored"}
Fetching == Requesting \cup {"stamp"}
Settling == {"resolve", "revoke"}
Modes == {"plain", "force", "identity"}

NoTask == [st |-> "none", began |-> 0, result |-> NoResult]
NoCall == [mode |-> "plain", start |-> 0, task |-> None]
NoAnswer == [mode |-> "plain", start |-> 0, result |-> NoResult]

MembersTypeOK ==
  /\ now \in Times
  /\ joined \in Times \cup {Never}
  /\ cache \in [read : Times \cup {Never}, stamp : Times \cup {Never}]
  /\ registered \in Tasks \cup {None}
  /\ last \in [result : Results, ts : Times]
  /\ created \in 0 .. MaxTasks
  /\ task \in [Tasks -> [st : {"none", "done"} \cup Fetching \cup Settling,
                         began : Times, result : Results]]
  /\ \A t \in Tasks : task[t].result.status = "stale" => task[t].result.read # Never
  /\ attempt \in Times \cup {Never}
  /\ future \in [Tasks -> Results]
  /\ call \in [Callers -> [mode : Modes, start : Times,
                           task : Tasks \cup {None}]]
  /\ answer \in [mode : Modes, start : Times, result : Results]
  /\ faults \in 0 .. MaxFaults

MembersInit ==
  /\ now = 0 /\ joined = Never
  /\ cache = [read |-> Never, stamp |-> Never]
  /\ registered = None
  /\ last = [result |-> NoResult, ts |-> 0]
  /\ created = 0
  /\ task = [t \in Tasks |-> NoTask]
  /\ attempt = Never
  /\ future = [t \in Tasks |-> NoResult]
  /\ call = [c \in Callers |-> NoCall]
  /\ answer = NoAnswer
  /\ faults = 0

Pending(t) == future[t].status = "none"
Fault == faults < MaxFaults /\ faults' = faults + 1

\* A list that was read at time r has the member.
Has(r) == joined # Never /\ r >= joined

-----------------------------------------------------------------------------
(* A call up to its first await *)

Cached == cache.read # Never /\ now - cache.stamp < Lifetime

\* fetch_group_members_detailed, and resolve_member_identity, which looks
\* into the cache whatever its age and forces a fetch only if that fails.
UsesCache_Unseen(mode) ==
  \/ mode = "plain" /\ Cached
  \/ mode = "identity" /\ cache.read # Never
UsesCache(mode) ==
  \/ mode = "plain" /\ Cached
  \/ mode = "identity" /\ cache.read # Never /\ Has(cache.read)

Debounced == last.result.status # "none" /\ now - last.ts < Debounce

\* _replay_guarded_result: an outage is replayed as what it is.
Replay(r) == IF r.status = "ok" THEN [r EXCEPT !.status = "debounced"] ELSE r

InFlight_Ignored == FALSE
InFlight == registered # None /\ Pending(registered)

Waiting(c) == call[c].task # None
Silent == answer' = NoAnswer

AnswerNow(mode, r) ==
  /\ answer' = [mode |-> mode, start |-> now, result |-> r]
  /\ UNCHANGED <<registered, created, task, call>>

WaitFor(c, mode, t) ==
  /\ call' = [call EXCEPT ![c] = [mode |-> mode, start |-> now, task |-> t]]
  /\ Silent

Begin(c, mode) ==
  /\ created < MaxTasks
  /\ created' = created + 1
  /\ registered' = created + 1
  /\ task' = [task EXCEPT ![created + 1] =
                [NoTask EXCEPT !.st = "request", !.began = now]]
  /\ WaitFor(c, mode, created + 1)

Enter(c, mode) ==
  /\ ~Waiting(c)
  /\ \/ /\ UsesCache(mode)
        /\ AnswerNow(mode, [status |-> "cached", read |-> cache.read])
     \/ /\ ~UsesCache(mode) /\ Debounced
        /\ AnswerNow(mode, Replay(last.result))
     \/ /\ ~UsesCache(mode) /\ ~Debounced /\ InFlight
        /\ WaitFor(c, mode, registered)
        /\ UNCHANGED <<registered, created, task>>
     \/ /\ ~UsesCache(mode) /\ ~Debounced /\ ~InFlight
        /\ Begin(c, mode)
  /\ UNCHANGED <<now, joined, cache, last, attempt, future, faults>>

-----------------------------------------------------------------------------
(* The task of a fetch *)

Moves(t, st) == task' = [task EXCEPT ![t].st = st]

\* The platform reads the list and answers.
Serve(t) ==
  /\ task[t].st = "request"
  /\ task' = [task EXCEPT ![t].st = "replied",
                          ![t].result = [status |-> "ok", read |-> now]]
  /\ Silent
  /\ UNCHANGED <<now, joined, cache, registered, last, attempt, created, future, call, faults>>

\* The request fails or times out, before or after the platform has read.
Err(t) ==
  /\ task[t].st \in {"request", "replied"} /\ Fault
  /\ Moves(t, "errored")
  /\ Silent
  /\ UNCHANGED <<now, joined, cache, registered, last, attempt, created, future, call>>

\* _fetch_group_members_remote returns the list, or after an error the cached
\* one; the cache is written outside the lock.
Fallback == IF cache.read # Never THEN [status |-> "stale", read |-> cache.read]
            ELSE Failed

Fetched(t) ==
  /\ \/ /\ task[t].st = "replied"
        /\ cache' = [read |-> task[t].result.read, stamp |-> now]
        /\ Moves(t, "stamp")
     \/ /\ task[t].st = "errored"
        /\ task' = [task EXCEPT ![t].st = "stamp", ![t].result = Fallback]
        /\ UNCHANGED cache
  /\ Silent
  /\ UNCHANGED <<now, joined, registered, last, attempt, created, future, call, faults>>

Deregister(t) == registered' = IF registered = t THEN None ELSE registered

\* _finish_shared_result, under the lock: good and bad results are stamped.
Stamped_GoodOnly(t) ==
  IF task[t].result.status = "ok" THEN [result |-> task[t].result, ts |-> now]
  ELSE last
Stamped(t) == [result |-> task[t].result, ts |-> now]

Stamp(t) ==
  /\ task[t].st = "stamp"
  /\ last' = Stamped(t)
  /\ Moves(t, "resolve")
  /\ attempt' = now
  /\ Deregister(t)
  /\ Silent
  /\ UNCHANGED <<now, joined, cache, created, future, call, faults>>

\* The task is cancelled with its event loop; nothing is stamped.
Cancel(t) ==
  /\ task[t].st \in Requesting /\ Fault
  /\ Moves(t, "revoke")
  /\ Deregister(t)
  /\ Silent
  /\ UNCHANGED <<now, joined, cache, last, attempt, created, future, call>>

Settled(t) == IF task[t].st = "resolve" THEN task[t].result ELSE Cancelled

Settle(t) ==
  /\ task[t].st \in Settling
  /\ future' = [future EXCEPT ![t] = Settled(t)]
  /\ task' = [task EXCEPT ![t] = [NoTask EXCEPT !.st = "done"]]
  /\ Silent
  /\ UNCHANGED <<now, joined, cache, registered, last, attempt, created, call, faults>>

-----------------------------------------------------------------------------
(* The callers *)

Answered(c, r) ==
  /\ answer' = [mode |-> call[c].mode, start |-> call[c].start, result |-> r]
  /\ call' = [call EXCEPT ![c] = NoCall]

Receive(c) ==
  /\ Waiting(c) /\ ~Pending(call[c].task)
  /\ Answered(c, future[call[c].task])
  /\ UNCHANGED <<now, joined, cache, registered, last, attempt, created, task, future, faults>>

\* The shield keeps the fetch out of a caller's cancellation.
CancelCaller(c) ==
  /\ Waiting(c) /\ Fault
  /\ Answered(c, Cancelled)
  /\ UNCHANGED <<now, joined, cache, registered, last, attempt, created, task, future>>

MemberJoins ==
  /\ joined = Never /\ joined' = now
  /\ Silent
  /\ UNCHANGED <<now, cache, registered, last, attempt, created, task, future, call, faults>>

\* A request ends within its timeout, and what follows its end takes no time.
Tick ==
  /\ now < MaxTime
  /\ \A t \in Tasks : /\ task[t].st \in {"request", "replied"} =>
                           now < task[t].began + Timeout
                      /\ task[t].st \notin {"errored", "stamp"}
  /\ now' = now + 1
  /\ Silent
  /\ UNCHANGED <<joined, cache, registered, last, attempt, created, task, future, call, faults>>

MembersNext ==
  \/ \E c \in Callers : \/ \E mode \in ModesOf[c] : Enter(c, mode)
                        \/ Receive(c) \/ CancelCaller(c)
  \/ \E t \in Tasks : \/ Serve(t) \/ Err(t) \/ Fetched(t) \/ Stamp(t)
                      \/ Cancel(t) \/ Settle(t)
  \/ MemberJoins \/ Tick

MembersSpec == MembersInit /\ [][MembersNext]_membersVars

\* The request ends, its task goes on and the loops of the callers turn.
MembersFairness ==
  /\ \A t \in Tasks : WF_membersVars(Serve(t) \/ Fetched(t) \/ Stamp(t) \/ Settle(t))
  /\ \A c \in Callers : WF_membersVars(Receive(c))

MembersFairSpec == MembersSpec /\ MembersFairness

-----------------------------------------------------------------------------
(* The abstract specification *)

Served(c) == task[call[c].task].st \notin Fetching
Want(c) == IF ~Waiting(c) THEN "idle" ELSE IF Served(c) THEN "served" ELSE "asking"

SF == INSTANCE SingleFlight
        WITH Clients <- Callers, Fetches <- Tasks,
             flying <- {t \in Tasks : task[t].st \in Fetching},
             want <- [c \in Callers |-> Want(c)]

\* The fetch of the member list is a single flight: two never run at once,
\* later callers join, and every end of it releases those who wait, whatever
\* is cancelled (serverapi.py:2438-2556).
MembersSingleFlight == SF!SFSpec

-----------------------------------------------------------------------------
(* Properties *)

\* An answer that is not marked as an outage is recent: read at most a request
\* timeout before the call, plus the debounce if it is a replay and the cache
\* lifetime if it is a plain cache hit.  A stale list is never passed off as a
\* good one by a replay (serverapi.py:2425-2436).
GoodAnswersAreRecent ==
  LET age == answer.start - answer.result.read
      status == answer.result.status
  IN  /\ status = "ok" => age <= Timeout
      /\ status = "debounced" => age < Timeout + Debounce
      /\ status = "cached" /\ answer.mode = "plain" => age < Timeout + Lifetime

\* Looking up a member who joined long enough before succeeds unless the
\* answer says that the platform could not be asked, however old the cache
\* is (serverapi.py:967-1016).
MemberIsFound ==
  /\ answer.mode = "identity"
  /\ answer.result.status \in {"ok", "cached", "debounced"}
  /\ joined # Never /\ answer.start - joined >= Timeout + Debounce
  => Has(answer.result.read)

\* Nobody waits for a future that no task is going to settle.
NoCallerStranded ==
  \A c \in Callers :
    Waiting(c) /\ Pending(call[c].task) =>
      task[call[c].task].st \in Fetching \cup Settling

\* An answer is what it claims to be, and every caller that waits has a task
\* that will answer it (serverapi.py:2425-2556).
AnswersAreCurrent ==
  MembersTypeOK /\ NoCallerStranded /\ GoodAnswersAreRecent /\ MemberIsFound

\* "after any attempt, repeat calls within _DEBOUNCE_SECONDS are
\* short-circuited" (serverapi.py:2448-2449): a request follows the end of the
\* one before it, good or bad, by that time at least; only a cancelled one may
\* be repeated at once.
AttemptsAreSpaced ==
  [][created' # created /\ attempt # Never => now - attempt >= Debounce]_membersVars

\* Every caller is answered.
EveryCallerAnswered == \A c \in Callers : Waiting(c) ~> ~Waiting(c)

\* The debounce costs nobody the answer: requests keep their distance, and
\* still everybody is answered.
SparinglyAnswered == AttemptsAreSpaced /\ EveryCallerAnswered
=============================================================================
