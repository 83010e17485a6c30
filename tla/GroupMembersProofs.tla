-------------------------- MODULE GroupMembersProofs --------------------------
(***************************************************************************)
(* Proofs about GroupMembers, for any callers and any bounds.              *)
(*                                                                         *)
(* That answers are current rests on how long a fetch lasts: a caller      *)
(* joins one at most a request timeout after it began, its list is read    *)
(* after it began, and what is stamped or cached is stamped before that    *)
(* time is over.  That one fetch runs at a time rests on the registration: *)
(* the task that fetches is registered, and its future is pending.         *)
(***************************************************************************)
EXTENDS GroupMembers, TLAPS

Flies(t) == task[t].st \in Fetching
TaskRecord == [st : {"none", "done"} \cup Fetching \cup Settling,
               began : Times, result : Results]
CallRecord == [mode : Modes, start : Times, task : Tasks \cup {None}]

\* The task that fetches is the registered one, and its future is pending.
Flight ==
  /\ \A t \in Tasks : Flies(t) => registered = t /\ Pending(t)
  /\ registered # None => Flies(registered)
  /\ \A t \in Tasks : t > created => task[t].st = "none" /\ Pending(t)
  /\ \A c \in Callers : Waiting(c) => call[c].task <= created
  /\ NoCallerStranded

\* What tasks, futures and the debounce hold.
Outcomes ==
  /\ \A t \in Tasks : task[t].st = "replied" => task[t].result.status = "ok"
  /\ \A t \in Tasks : task[t].st \in {"stamp", "resolve"} =>
       task[t].result.status \in {"ok", "stale", "failed"}
  /\ \A t \in Tasks : future[t].status \in {"none", "ok", "stale", "failed", "cancelled"}
  /\ last.result.status \in {"none", "ok", "stale", "failed"}
  /\ attempt # Never => attempt = last.ts /\ last.result.status # "none"

\* How long a fetch lasts, and how old what it leaves behind can be.
Ages ==
  /\ \A t \in Tasks : Flies(t) => task[t].began <= now /\ now <= task[t].began + Timeout
  /\ \A t \in Tasks : task[t].st \in {"replied", "stamp", "resolve"} /\ task[t].result.status = "ok"
       => task[t].began <= task[t].result.read
  /\ \A c \in Callers : Waiting(c) /\ task[call[c].task].st \in Fetching \cup Settling
       => call[c].start <= task[call[c].task].began + Timeout
  /\ \A c \in Callers : Waiting(c) /\ future[call[c].task].status = "ok"
       => call[c].start <= future[call[c].task].read + Timeout
  /\ cache.read # Never => cache.stamp <= cache.read + Timeout
  /\ last.result.status = "ok" => last.ts <= last.result.read + Timeout

\* What the last step answered.
GoodAnswer ==
  /\ GoodAnswersAreRecent
  /\ answer.mode = "identity" /\ answer.result.status = "cached" => Has(answer.result.read)

IInv == MembersTypeOK /\ Flight /\ Outcomes /\ Ages /\ GoodAnswer

-----------------------------------------------------------------------------
LEMMA InitHolds == MembersInit => IInv
<1> SUFFICES ASSUME MembersInit PROVE IInv
  OBVIOUS
<1> USE MembersAssumption DEF MembersInit, NoResult, NoTask, NoCall, NoAnswer, None, Never, Times
<1>1. MembersTypeOK
  BY DEF MembersTypeOK, Results, Statuses, Modes
<1>2. /\ \A t \in Tasks : task[t] = NoTask /\ future[t] = NoResult
      /\ \A c \in Callers : call[c] = NoCall
      /\ last.result = NoResult /\ cache.read = Never
  OBVIOUS
<1>3. Flight /\ Outcomes /\ Ages
  BY <1>2 DEF Flight, Outcomes, Ages, Flies, Waiting, Pending, NoCallerStranded, Fetching,
     Requesting, Settling
<1>4. GoodAnswer
  BY DEF GoodAnswer, GoodAnswersAreRecent
<1> QED BY <1>1, <1>3, <1>4 DEF IInv

\* The types, with the records of tasks and calls by name.
LEMMA Typed ==
  ASSUME IInv
  PROVE  /\ now \in Times /\ Times \subseteq Nat /\ created \in 0 .. MaxTasks
         /\ task \in [Tasks -> TaskRecord] /\ call \in [Callers -> CallRecord]
         /\ future \in [Tasks -> Results]
         /\ \A t \in Tasks : t \in Nat /\ t # None
  BY MembersAssumption DEF IInv, MembersTypeOK, TaskRecord, CallRecord, Tasks, Times, None

AnswerRecord == [mode : Modes, start : Times, result : Results]

\* An answer that only the present step gives says nothing later.
LEMMA SilentIsGood ==
  ASSUME Silent PROVE GoodAnswer' /\ answer' \in AnswerRecord
  BY MembersAssumption DEF Silent, NoAnswer, NoResult, GoodAnswer, GoodAnswersAreRecent,
     AnswerRecord, Modes, Times, Results, Never

-----------------------------------------------------------------------------
(* Steps of a task *)

\* A task's step leaves the other tasks alone.
LEMMA TaskUpdate ==
  ASSUME task \in [Tasks -> TaskRecord], NEW t \in Tasks, NEW new \in TaskRecord,
         task' = [task EXCEPT ![t] = new]
  PROVE  /\ task' \in [Tasks -> TaskRecord]
         /\ task'[t] = new
         /\ \A u \in Tasks : u # t => task'[u] = task[u]
  OBVIOUS

\* A fetch goes on: it is served, fails, or returns what it got.
LEMMA FetchGoesOn ==
  ASSUME IInv, NEW t \in Tasks, NEW new \in TaskRecord, task' = [task EXCEPT ![t] = new],
         Flies(t), new.st \in Fetching, new.began = task[t].began,
         new.st = "replied" => new.result.status = "ok",
         new.st = "stamp" => new.result.status \in {"ok", "stale", "failed"},
         new.st \in {"replied", "stamp"} /\ new.result.status = "ok" => new.began <= new.result.read,
         new.result.status = "stale" => new.result.read # Never,
         cache' \in [read : Times \cup {Never}, stamp : Times \cup {Never}],
         cache'.read # Never => cache'.stamp <= cache'.read + Timeout,
         faults' \in 0 .. MaxFaults, Silent,
         UNCHANGED <<now, joined, registered, last, attempt, created, future, call>>
  PROVE  IInv'
<1>1. /\ task' \in [Tasks -> TaskRecord] /\ task'[t] = new
      /\ \A u \in Tasks : u # t => task'[u] = task[u]
  BY Typed, TaskUpdate
<1>2. MembersTypeOK'
  <2>1. \A u \in Tasks : task'[u].result.status = "stale" => task'[u].result.read # Never
    BY <1>1 DEF IInv, MembersTypeOK
  <2> QED BY <1>1, <2>1, SilentIsGood DEF IInv, MembersTypeOK, TaskRecord, AnswerRecord
<1>3. Flight'
  <2>1. \A u \in Tasks : Flies(u)' <=> Flies(u)
    BY <1>1 DEF Flies
  <2>2. \A u \in Tasks : task[u].st = "none" => task'[u].st = "none"
    BY <1>1 DEF Flies, Fetching, Requesting
  <2>3. NoCallerStranded'
    <3>1. \A c \in Callers : Waiting(c) => call[c].task \in Tasks
      BY Typed DEF Waiting, CallRecord
    <3> QED BY <1>1, <3>1 DEF IInv, Flight, NoCallerStranded, Waiting, Pending
  <2>4. registered # None => registered \in Tasks
    BY DEF IInv, MembersTypeOK
  <2> QED BY <2>1, <2>2, <2>3, <2>4 DEF IInv, Flight, Pending, Waiting
<1>4. Outcomes'
  BY <1>1 DEF IInv, Outcomes, Fetching, Requesting
<1>5. Ages'
  BY <1>1, Typed DEF IInv, Ages, Flies, Waiting, Fetching, Requesting, Settling
<1> QED BY <1>2, <1>3, <1>4, <1>5, SilentIsGood DEF IInv

LEMMA ServeStep ==
  ASSUME IInv, NEW t \in Tasks, Serve(t) PROVE IInv'
<1> DEFINE new == [task[t] EXCEPT !.st = "replied", !.result = [status |-> "ok", read |-> now]]
<1>1. new \in TaskRecord /\ new.began = task[t].began /\ task' = [task EXCEPT ![t] = new]
      /\ new.st = "replied" /\ new.result = [status |-> "ok", read |-> now]
  BY Typed DEF Serve, TaskRecord, Results, Statuses, Fetching, Requesting
<1>2. Flies(t) /\ new.st \in Fetching
  BY <1>1 DEF Serve, Flies, Fetching, Requesting
<1>3. new.began <= new.result.read
  BY <1>1, <1>2 DEF IInv, Ages
<1>4. Silent /\ UNCHANGED <<now, joined, cache, registered, last, attempt, created, future, call, faults>>
  BY DEF Serve
<1>5. /\ cache' \in [read : Times \cup {Never}, stamp : Times \cup {Never}]
      /\ cache'.read # Never => cache'.stamp <= cache'.read + Timeout
      /\ faults' \in 0 .. MaxFaults
  BY <1>4 DEF IInv, MembersTypeOK, Ages
<1>6. /\ new.st # "stamp" /\ new.result.status # "stale" /\ new.result.status = "ok"
  BY <1>1
<1> HIDE DEF new
<1> QED BY <1>1, <1>2, <1>3, <1>4, <1>5, <1>6, FetchGoesOn

LEMMA ErrStep ==
  ASSUME IInv, NEW t \in Tasks, Err(t) PROVE IInv'
<1> DEFINE new == [task[t] EXCEPT !.st = "errored"]
<1>1. new \in TaskRecord /\ new.began = task[t].began /\ task' = [task EXCEPT ![t] = new]
      /\ new.st = "errored" /\ new.result = task[t].result
  BY Typed DEF Err, Moves, TaskRecord, Fetching, Requesting
<1>2. Flies(t) /\ new.st \in Fetching
  BY <1>1 DEF Err, Flies, Fetching, Requesting
<1>3. new.result.status = "stale" => new.result.read # Never
  BY <1>1 DEF IInv, MembersTypeOK
<1>4. Silent /\ UNCHANGED <<now, joined, cache, registered, last, attempt, created, future, call>>
  BY DEF Err
<1>5. /\ cache' \in [read : Times \cup {Never}, stamp : Times \cup {Never}]
      /\ cache'.read # Never => cache'.stamp <= cache'.read + Timeout
      /\ faults' \in 0 .. MaxFaults
  BY MembersAssumption, <1>4 DEF IInv, MembersTypeOK, Ages, Err, Fault
<1> HIDE DEF new
<1> QED BY <1>1, <1>2, <1>3, <1>4, <1>5, FetchGoesOn

LEMMA FetchedStep ==
  ASSUME IInv, NEW t \in Tasks, Fetched(t) PROVE IInv'
<1>0. /\ Silent /\ UNCHANGED <<now, joined, registered, last, attempt, created, future, call, faults>>
      /\ faults' \in 0 .. MaxFaults
      /\ cache \in [read : Times \cup {Never}, stamp : Times \cup {Never}]
      /\ cache.read # Never => cache.stamp <= cache.read + Timeout
  BY DEF Fetched, IInv, MembersTypeOK, Ages
<1>1. Flies(t)
  BY DEF Fetched, Flies, Fetching, Requesting
<1>2. CASE task[t].st = "replied"
  <2> DEFINE new == [task[t] EXCEPT !.st = "stamp"]
  <2>1. new \in TaskRecord /\ new.began = task[t].began /\ new.st = "stamp"
        /\ new.result = task[t].result
    BY Typed DEF TaskRecord, Fetching
  <2>2. task' = [task EXCEPT ![t] = new] /\ cache' = [read |-> task[t].result.read, stamp |-> now]
    BY <1>2, Typed DEF Fetched, Moves
  <2>3. new.result.status = "ok" /\ new.began <= new.result.read
    BY <1>2, <2>1 DEF IInv, Outcomes, Ages
  <2>4. task[t].result.read \in Times \cup {Never}
    BY Typed DEF TaskRecord, Results
  <2>5. cache'.read # Never => cache'.stamp <= cache'.read + Timeout
    <3>1. now <= task[t].began + Timeout
      BY <1>1 DEF IInv, Ages
    <3>2. task[t].began \in Int
      BY Typed DEF TaskRecord
    <3> QED BY MembersAssumption, <2>1, <2>2, <2>3, <2>4, <3>1, <3>2, Typed DEF Never
  <2>6. cache' \in [read : Times \cup {Never}, stamp : Times \cup {Never}]
    BY <2>2, <2>4, Typed
  <2>7. new.st \in Fetching /\ new.st # "replied" /\ new.result.status # "stale"
    BY <2>1, <2>3 DEF Fetching
  <2> HIDE DEF new
  <2> QED BY <1>0, <1>1, <2>1, <2>2, <2>3, <2>5, <2>6, <2>7, FetchGoesOn
<1>3. CASE task[t].st = "errored"
  <2> DEFINE new == [task[t] EXCEPT !.st = "stamp", !.result = Fallback]
  <2>1. /\ Fallback \in Results /\ Fallback.status \in {"stale", "failed"}
        /\ Fallback.status = "stale" => Fallback.read # Never
    <3>1. cache.read \in Times \cup {Never}
      BY <1>0
    <3>2. CASE cache.read # Never
      BY <3>1, <3>2 DEF Fallback, Results, Statuses
    <3>3. CASE cache.read = Never
      BY <3>3 DEF Fallback, Failed, Results, Statuses
    <3> QED BY <3>2, <3>3
  <2>2. new \in TaskRecord /\ new.began = task[t].began /\ new.st = "stamp"
        /\ new.result = Fallback
    BY <2>1, Typed DEF TaskRecord, Fetching
  <2>3. task' = [task EXCEPT ![t] = new] /\ cache' = cache
    BY <1>3, Typed DEF Fetched
  <2>4. /\ new.st \in Fetching /\ new.st # "replied" /\ new.result.status # "ok"
        /\ new.result.status \in {"stale", "failed"}
        /\ new.result.status = "stale" => new.result.read # Never
    BY <2>1, <2>2 DEF Fetching
  <2> HIDE DEF new
  <2> QED BY <1>0, <1>1, <2>2, <2>3, <2>4, FetchGoesOn
<1> QED BY <1>2, <1>3 DEF Fetched

\* A fetch ends: it is stamped, or cancelled without being stamped.
LEMMA FetchIsOver ==
  ASSUME IInv, NEW t \in Tasks, NEW st \in Settling, task' = [task EXCEPT ![t].st = st],
         Flies(t), Deregister(t), Silent,
         st = "resolve" => task[t].st = "stamp",
         last' \in [result : Results, ts : Times],
         last'.result.status \in {"none", "ok", "stale", "failed"},
         last'.result.status = "ok" => last'.ts <= last'.result.read + Timeout,
         attempt' \in Times \cup {Never},
         attempt' # Never => attempt' = last'.ts /\ last'.result.status # "none",
         faults' \in 0 .. MaxFaults,
         UNCHANGED <<now, joined, cache, created, future, call>>
  PROVE  IInv'
<1> DEFINE new == [task[t] EXCEPT !.st = st]
<1>0. new \in TaskRecord /\ new.began = task[t].began /\ new.result = task[t].result
      /\ new.st = st /\ task' = [task EXCEPT ![t] = new]
  BY Typed DEF TaskRecord
<1>1. /\ task' \in [Tasks -> TaskRecord] /\ task'[t] = new
      /\ \A u \in Tasks : u # t => task'[u] = task[u]
  BY <1>0, Typed, TaskUpdate
<1> HIDE DEF new
<1>2. registered = t /\ registered' = None /\ t # None
  BY Typed DEF IInv, Flight, Deregister
<1>3. MembersTypeOK'
  BY <1>0, <1>1, <1>2, SilentIsGood DEF IInv, MembersTypeOK, TaskRecord, AnswerRecord
<1>4. Flight'
  BY <1>0, <1>1, <1>2, Typed
     DEF IInv, Flight, Flies, Pending, Waiting, NoCallerStranded, Fetching, Requesting, Settling
<1>5. Outcomes'
  BY <1>0, <1>1 DEF IInv, Outcomes, Settling
<1>6. Ages'
  BY <1>0, <1>1, Typed DEF IInv, Ages, Flies, Waiting, Fetching, Requesting, Settling
<1> QED BY <1>3, <1>4, <1>5, <1>6, SilentIsGood DEF IInv

LEMMA StampStep ==
  ASSUME IInv, NEW t \in Tasks, Stamp(t) PROVE IInv'
<1>1. Flies(t) /\ task[t].st = "stamp"
  BY DEF Stamp, Flies, Fetching
<1>2. /\ task[t].result \in Results /\ task[t].result.status \in {"ok", "stale", "failed"}
      /\ task[t].began \in Nat /\ task[t].result.read \in Times \cup {Never}
  BY <1>1, Typed DEF TaskRecord, Results, IInv, Outcomes
<1>3. last' = [result |-> task[t].result, ts |-> now] /\ attempt' = now
  BY DEF Stamp, Stamped
<1>4. last'.result.status = "ok" => last'.ts <= last'.result.read + Timeout
  <2>1. now <= task[t].began + Timeout
    BY <1>1 DEF IInv, Ages
  <2>2. task[t].result.status = "ok" => task[t].began <= task[t].result.read
    BY <1>1 DEF IInv, Ages
  <2> QED BY MembersAssumption, <1>2, <1>3, <2>1, <2>2, Typed DEF Never
<1>5. task' = [task EXCEPT ![t].st = "resolve"] /\ Deregister(t) /\ Silent
      /\ UNCHANGED <<now, joined, cache, created, future, call, faults>>
      /\ faults' \in 0 .. MaxFaults /\ "resolve" \in Settling
  BY DEF Stamp, Moves, IInv, MembersTypeOK, Settling
<1>6. /\ last' \in [result : Results, ts : Times] /\ attempt' \in Times \cup {Never}
      /\ last'.result.status \in {"none", "ok", "stale", "failed"}
      /\ attempt' = last'.ts /\ last'.result.status # "none"
  BY <1>2, <1>3, Typed
<1> QED BY <1>1, <1>4, <1>5, <1>6, FetchIsOver

LEMMA CancelStep ==
  ASSUME IInv, NEW t \in Tasks, Cancel(t) PROVE IInv'
<1>1. Flies(t)
  BY DEF Cancel, Flies, Fetching
<1>2. task' = [task EXCEPT ![t].st = "revoke"] /\ Deregister(t) /\ Silent
      /\ UNCHANGED <<now, joined, cache, created, future, call, last, attempt>>
      /\ faults' \in 0 .. MaxFaults /\ "revoke" \in Settling
  BY MembersAssumption DEF Cancel, Moves, Fault, IInv, MembersTypeOK, Settling
<1>3. /\ last \in [result : Results, ts : Times] /\ attempt \in Times \cup {Never}
      /\ last.result.status \in {"none", "ok", "stale", "failed"}
      /\ last.result.status = "ok" => last.ts <= last.result.read + Timeout
      /\ attempt # Never => attempt = last.ts /\ last.result.status # "none"
  BY DEF IInv, MembersTypeOK, Outcomes, Ages
<1> QED BY <1>1, <1>2, <1>3, FetchIsOver

LEMMA SettleStep ==
  ASSUME IInv, NEW t \in Tasks, Settle(t) PROVE IInv'
<1>1. task[t].st \in Settling /\ Silent
      /\ UNCHANGED <<now, joined, cache, registered, last, attempt, created, call, faults>>
  BY DEF Settle
<1> DEFINE new == [NoTask EXCEPT !.st = "done"]
<1>2. new \in TaskRecord /\ new.st = "done" /\ new.result.status = "none"
  BY MembersAssumption DEF NoTask, NoResult, TaskRecord, Results, Times
<1>3. /\ task' \in [Tasks -> TaskRecord] /\ task'[t] = new
      /\ \A u \in Tasks : u # t => task'[u] = task[u]
  BY <1>2, Typed, TaskUpdate DEF Settle
<1> HIDE DEF new
<1>4. /\ Settled(t) \in Results /\ Settled(t).status \in {"ok", "stale", "failed", "cancelled"}
      /\ Settled(t).status = "ok" => task[t].st = "resolve" /\ Settled(t) = task[t].result
  BY <1>1, Typed DEF Settled, Cancelled, Settling, TaskRecord, Results, Statuses, IInv, Outcomes
<1>5. /\ future' \in [Tasks -> Results] /\ future'[t] = Settled(t)
      /\ \A u \in Tasks : u # t => future'[u] = future[u]
  BY <1>4, Typed DEF Settle
<1>6. MembersTypeOK'
  BY <1>1, <1>2, <1>3, <1>5, SilentIsGood DEF IInv, MembersTypeOK, TaskRecord, AnswerRecord
<1>7. ~Flies(t) /\ ~Flies(t)'
  BY <1>1, <1>2, <1>3 DEF Flies, Settling, Fetching, Requesting
<1>8. Flight'
  <2>1. t <= created
    BY <1>1, Typed DEF IInv, Flight, Settling
  <2>2. /\ \A u \in Tasks : Flies(u)' => Flies(u) /\ u # t
        /\ \A u \in Tasks : Flies(u) => Flies(u)'
    BY <1>3, <1>7 DEF Flies
  <2>3. \A u \in Tasks : u > created => u # t
    BY <2>1, Typed
  <2>4. ~Pending(t)' /\ \A u \in Tasks : u # t => Pending(u)' = Pending(u)
    BY <1>4, <1>5 DEF Pending
  <2>5. NoCallerStranded'
    <3>1. \A c \in Callers : Waiting(c) => call[c].task \in Tasks
      BY Typed DEF Waiting, CallRecord
    <3> QED BY <1>1, <1>3, <1>5, <2>4, <3>1 DEF IInv, Flight, NoCallerStranded, Waiting, Pending
  <2>6. registered # None => registered \in Tasks
    BY DEF IInv, MembersTypeOK
  <2> QED BY <1>1, <1>3, <1>5, <2>2, <2>3, <2>4, <2>5, <2>6 DEF IInv, Flight, Pending, Waiting
<1>9. Outcomes'
  BY <1>1, <1>2, <1>3, <1>4, <1>5 DEF IInv, Outcomes
<1>10. Ages'
  <2>1. ASSUME NEW c \in Callers, call[c].task = t, Settled(t).status = "ok"
        PROVE  call[c].start <= Settled(t).read + Timeout
    <3>1. call[c].start <= task[t].began + Timeout /\ task[t].began <= Settled(t).read
      BY <1>1, <1>4, <2>1, Typed DEF IInv, Ages, Waiting
    <3>2. /\ call[c].start \in Nat /\ task[t].began \in Nat
          /\ Settled(t).read \in Int
      BY <1>4, Typed DEF CallRecord, TaskRecord, Results, Never
    <3> QED BY MembersAssumption, <3>1, <3>2
  <2>2. \A u \in Tasks : Flies(u)' => Flies(u) /\ u # t
    BY <1>3, <1>7 DEF Flies
  <2>3. \A c \in Callers : Waiting(c) => call[c].task \in Tasks
    BY Typed DEF Waiting, CallRecord
  <2>4. task'[t].st \notin {"replied", "stamp", "resolve"} \cup Fetching \cup Settling
    BY <1>2, <1>3 DEF Fetching, Requesting, Settling
  <2> QED
    BY <1>1, <1>3, <1>5, <2>1, <2>2, <2>3, <2>4 DEF IInv, Ages, Waiting
<1> QED BY <1>1, <1>6, <1>8, <1>9, <1>10, SilentIsGood DEF IInv

-----------------------------------------------------------------------------
(* Steps of a caller *)

\* The age of what a call is answered at once.
LEMMA AnswerStep ==
  ASSUME IInv, NEW mode \in Modes, NEW r \in Results, AnswerNow(mode, r),
         \/ /\ UsesCache(mode)
            /\ r = [status |-> "cached", read |-> cache.read]
         \/ Debounced /\ r = Replay(last.result),
         UNCHANGED <<now, joined, cache, last, attempt, future, faults>>
  PROVE  IInv'
<1>1. answer' = [mode |-> mode, start |-> now, result |-> r]
      /\ UNCHANGED <<registered, created, task, call>>
  BY DEF AnswerNow
<1>2. MembersTypeOK' /\ Flight' /\ Outcomes' /\ Ages'
  <2>1. MembersTypeOK'
    BY <1>1, Typed DEF IInv, MembersTypeOK
  <2>2. Flight'
    BY <1>1 DEF IInv, Flight, Flies, Pending, Waiting, NoCallerStranded
  <2>3. Outcomes' /\ Ages'
    BY <1>1 DEF IInv, Outcomes, Ages, Flies, Waiting
  <2> QED BY <2>1, <2>2, <2>3
<1>3. CASE UsesCache(mode) /\ r = [status |-> "cached", read |-> cache.read]
  <2>1. mode = "identity" => Has(cache.read)
    BY <1>3 DEF UsesCache
  <2>2. mode = "plain" => now - cache.read < Timeout + Lifetime
    <3>1. SUFFICES ASSUME mode = "plain" PROVE now - cache.read < Timeout + Lifetime
      OBVIOUS
    <3>2. cache.read # Never /\ now - cache.stamp < Lifetime /\ cache.stamp <= cache.read + Timeout
      BY <1>3, <3>1 DEF UsesCache, Cached, IInv, Ages
    <3>3. cache.read \in Int /\ cache.stamp \in Int
      BY Typed DEF IInv, MembersTypeOK, Never
    <3> QED BY MembersAssumption, <3>2, <3>3, Typed
  <2> QED BY <1>1, <1>2, <1>3, <2>1, <2>2 DEF IInv, GoodAnswer, GoodAnswersAreRecent, Has
<1>4. CASE Debounced /\ r = Replay(last.result)
  <2>1. /\ r.status \in {"none", "debounced", "stale", "failed"}
        /\ r.status = "debounced" => last.result.status = "ok" /\ r.read = last.result.read
    BY <1>4 DEF Replay, IInv, Outcomes, MembersTypeOK, Results
  <2>2. r.status = "debounced" => now - r.read < Timeout + Debounce
    <3>1. SUFFICES ASSUME r.status = "debounced" PROVE now - r.read < Timeout + Debounce
      OBVIOUS
    <3>2. now - last.ts < Debounce /\ last.ts <= r.read + Timeout
      BY <1>4, <2>1, <3>1 DEF Debounced, IInv, Ages
    <3>3. r.read \in Int /\ last.ts \in Int
      BY Typed DEF IInv, MembersTypeOK, Results, Never
    <3> QED BY MembersAssumption, <3>2, <3>3, Typed
  <2> QED BY <1>1, <1>2, <2>1, <2>2 DEF IInv, GoodAnswer, GoodAnswersAreRecent
<1> QED BY <1>3, <1>4

LEMMA CallUpdate ==
  ASSUME call \in [Callers -> CallRecord], NEW c \in Callers, NEW new \in CallRecord,
         call' = [call EXCEPT ![c] = new]
  PROVE  /\ call' \in [Callers -> CallRecord]
         /\ call'[c] = new
         /\ \A d \in Callers : d # c => call'[d] = call[d]
  OBVIOUS

LEMMA JoinStep ==
  ASSUME IInv, NEW c \in Callers, NEW mode \in Modes, InFlight, WaitFor(c, mode, registered),
         UNCHANGED <<registered, created, task, now, joined, cache, last, attempt, future, faults>>
  PROVE  IInv'
<1> DEFINE new == [mode |-> mode, start |-> now, task |-> registered]
<1>1. /\ registered \in Tasks /\ Flies(registered) /\ Pending(registered)
      /\ now <= task[registered].began + Timeout /\ registered <= created
  BY Typed DEF InFlight, IInv, MembersTypeOK, Flight, Ages, Flies, Fetching, Requesting
<1>2. new \in CallRecord /\ new.task = registered /\ new.start = now
  BY <1>1, Typed DEF CallRecord
<1>3. /\ call' \in [Callers -> CallRecord] /\ call'[c] = new
      /\ \A d \in Callers : d # c => call'[d] = call[d]
  BY <1>2, Typed, CallUpdate DEF WaitFor
<1> HIDE DEF new
<1>4. Silent
  BY DEF WaitFor
<1>5. MembersTypeOK'
  BY <1>3, <1>4, SilentIsGood DEF IInv, MembersTypeOK, CallRecord, AnswerRecord
<1>6. Flight'
  BY <1>1, <1>2, <1>3 DEF IInv, Flight, Flies, Pending, Waiting, NoCallerStranded
<1>7. Outcomes'
  BY DEF IInv, Outcomes
<1>8. Ages'
  BY <1>1, <1>2, <1>3 DEF IInv, Ages, Flies, Waiting, Pending
<1> QED BY <1>4, <1>5, <1>6, <1>7, <1>8, SilentIsGood DEF IInv

LEMMA BeginStep ==
  ASSUME IInv, NEW c \in Callers, NEW mode \in Modes, ~InFlight, Begin(c, mode),
         UNCHANGED <<now, joined, cache, last, attempt, future, faults>>
  PROVE  IInv'
<1> PICK t \in Nat : t = created + 1
  BY Typed
<1> DEFINE new == [NoTask EXCEPT !.st = "request", !.began = now]
           mine == [mode |-> mode, start |-> now, task |-> t]
<1>1. /\ t \in Tasks /\ t # None /\ created' = t /\ registered' = t
      /\ t \in Nat /\ created \in Nat
  BY MembersAssumption, Typed DEF Begin, Tasks, None
<1>2. /\ new \in TaskRecord /\ new.st = "request" /\ new.began = now
      /\ new.result.status = "none"
  BY Typed DEF NoTask, NoResult, TaskRecord, Results, Fetching, Requesting
<1>3. /\ task' \in [Tasks -> TaskRecord] /\ task'[t] = new
      /\ \A u \in Tasks : u # t => task'[u] = task[u]
  BY <1>1, <1>2, Typed, TaskUpdate DEF Begin
<1>4. mine \in CallRecord /\ mine.task = t /\ mine.start = now
  BY <1>1, Typed DEF CallRecord
<1>5. /\ call' \in [Callers -> CallRecord] /\ call'[c] = mine
      /\ \A d \in Callers : d # c => call'[d] = call[d]
  BY <1>4, Typed, CallUpdate DEF Begin, WaitFor
<1>6. Silent
  BY DEF Begin, WaitFor
<1>7. task[t].st = "none" /\ Pending(t)
  BY <1>1 DEF IInv, Flight
<1>8. \A u \in Tasks : ~Flies(u)
  BY Typed DEF IInv, Flight, InFlight
<1>9. \A d \in Callers : d # c /\ Waiting(d) => call[d].task \in Tasks /\ call[d].task # t
  BY <1>1, Typed DEF IInv, Flight, Waiting, CallRecord
<1> HIDE DEF new, mine
<1>10. MembersTypeOK'
  <2>1. \A u \in Tasks : task'[u].result.status = "stale" => task'[u].result.read # Never
    BY <1>2, <1>3 DEF IInv, MembersTypeOK
  <2>2. created' \in 0 .. MaxTasks
    BY MembersAssumption, <1>1 DEF Tasks
  <2> QED BY <1>1, <1>3, <1>5, <1>6, <2>1, <2>2, SilentIsGood
     DEF IInv, MembersTypeOK, TaskRecord, CallRecord, AnswerRecord
<1>11. Flies(t)' /\ \A u \in Tasks : u # t => ~Flies(u)'
  BY <1>2, <1>3, <1>8 DEF Flies, Fetching, Requesting
<1>12. Flight'
  <2>1. \A u \in Tasks : u > created' => u # t /\ u > created
    BY <1>1, Typed
  <2>2. \A d \in Callers : Waiting(d)' => call'[d].task <= created'
    BY <1>1, <1>4, <1>5, Typed DEF IInv, Flight, Waiting, Tasks, CallRecord
  <2>3. NoCallerStranded'
    BY <1>2, <1>3, <1>4, <1>5, <1>9
       DEF IInv, Flight, NoCallerStranded, Waiting, Pending, Fetching, Requesting
  <2> QED BY <1>1, <1>3, <1>7, <1>11, <2>1, <2>2, <2>3 DEF IInv, Flight, Pending
<1>13. Outcomes'
  BY <1>2, <1>3 DEF IInv, Outcomes
<1>14. Ages'
  <2>1. \A u \in Tasks : Flies(u)' => task'[u].began <= now /\ now <= task'[u].began + Timeout
    BY MembersAssumption, <1>2, <1>3, <1>11, Typed
  <2>2. \A d \in Callers :
          Waiting(d)' /\ task'[call'[d].task].st \in Fetching \cup Settling
            => call'[d].start <= task'[call'[d].task].began + Timeout
    BY MembersAssumption, <1>1, <1>2, <1>3, <1>4, <1>5, <1>9, Typed DEF IInv, Ages, Waiting
  <2>3. \A d \in Callers : Waiting(d)' /\ future[call'[d].task].status = "ok"
            => call'[d].start <= future[call'[d].task].read + Timeout
    BY <1>4, <1>5, <1>7 DEF IInv, Ages, Waiting, Pending
  <2> QED BY <1>2, <1>3, <2>1, <2>2, <2>3 DEF IInv, Ages
<1> QED BY <1>6, <1>10, <1>12, <1>13, <1>14, SilentIsGood DEF IInv

LEMMA EnterStep ==
  ASSUME IInv, NEW c \in Callers, NEW mode \in ModesOf[c], Enter(c, mode) PROVE IInv'
<1>0. mode \in Modes
  BY MembersAssumption DEF Modes
<1>1. CASE UsesCache(mode) /\ AnswerNow(mode, [status |-> "cached", read |-> cache.read])
  <2>1. [status |-> "cached", read |-> cache.read] \in Results
    BY DEF IInv, MembersTypeOK, Results, Statuses
  <2> QED BY <1>0, <1>1, <2>1, AnswerStep DEF Enter
<1>2. CASE Debounced /\ AnswerNow(mode, Replay(last.result))
  <2>1. Replay(last.result) \in Results
    BY DEF IInv, MembersTypeOK, Replay, Results, Statuses
  <2> QED BY <1>0, <1>2, <2>1, AnswerStep DEF Enter
<1>3. CASE InFlight /\ WaitFor(c, mode, registered) /\ UNCHANGED <<registered, created, task>>
  BY <1>0, <1>3, JoinStep DEF Enter
<1>4. CASE ~InFlight /\ Begin(c, mode)
  BY <1>0, <1>4, BeginStep DEF Enter
<1> QED BY <1>1, <1>2, <1>3, <1>4 DEF Enter

\* A call ends: with what its future holds, or cancelled.
LEMMA LeaveStep ==
  ASSUME IInv, NEW c \in Callers, NEW r \in Results, Waiting(c), Answered(c, r),
         r.status \in {"ok", "stale", "failed", "cancelled"},
         r.status = "ok" => call[c].start <= r.read + Timeout,
         faults' \in 0 .. MaxFaults,
         UNCHANGED <<now, joined, cache, registered, last, attempt, created, task, future>>
  PROVE  IInv'
<1>1. NoCall \in CallRecord /\ NoCall.task = None
  BY MembersAssumption DEF NoCall, CallRecord, Modes, Times
<1>2. /\ call' \in [Callers -> CallRecord] /\ call'[c] = NoCall
      /\ \A d \in Callers : d # c => call'[d] = call[d]
  BY <1>1, Typed, CallUpdate DEF Answered
<1>3. answer' = [mode |-> call[c].mode, start |-> call[c].start, result |-> r]
      /\ call[c].mode \in Modes /\ call[c].start \in Times
  BY Typed DEF Answered, CallRecord
<1>4. MembersTypeOK'
  BY <1>2, <1>3 DEF IInv, MembersTypeOK, CallRecord
<1>5. Flight'
  BY <1>1, <1>2 DEF IInv, Flight, Flies, Pending, Waiting, NoCallerStranded
<1>6. Outcomes'
  BY DEF IInv, Outcomes
<1>7. Ages'
  BY <1>1, <1>2 DEF IInv, Ages, Flies, Waiting
<1>8. GoodAnswer'
  <2>1. r.read \in Int
    BY Typed DEF Results, Never
  <2> QED BY MembersAssumption, <1>3, <2>1, Typed DEF GoodAnswer, GoodAnswersAreRecent
<1> QED BY <1>4, <1>5, <1>6, <1>7, <1>8 DEF IInv

LEMMA CallerStep ==
  ASSUME IInv, NEW c \in Callers, Receive(c) \/ CancelCaller(c) PROVE IInv'
<1>1. CASE Receive(c)
  <2>1. call[c].task \in Tasks
    BY <1>1, Typed DEF Receive, Waiting, CallRecord
  <2>2. /\ future[call[c].task] \in Results
        /\ future[call[c].task].status \in {"ok", "stale", "failed", "cancelled"}
        /\ future[call[c].task].status = "ok" => call[c].start <= future[call[c].task].read + Timeout
    BY <1>1, <2>1, Typed DEF Receive, Pending, IInv, Outcomes, Ages
  <2>3. faults' \in 0 .. MaxFaults
    BY <1>1 DEF Receive, IInv, MembersTypeOK
  <2> QED BY <1>1, <2>2, <2>3, LeaveStep DEF Receive
<1>2. CASE CancelCaller(c)
  <2>1. Cancelled \in Results /\ Cancelled.status = "cancelled"
    BY DEF Cancelled, Results, Statuses
  <2>2. faults' \in 0 .. MaxFaults
    BY MembersAssumption, <1>2 DEF CancelCaller, Fault, IInv, MembersTypeOK
  <2> QED BY <1>2, <2>1, <2>2, LeaveStep DEF CancelCaller
<1> QED BY <1>1, <1>2

LEMMA OtherStep ==
  ASSUME IInv, MemberJoins \/ Tick \/ UNCHANGED membersVars PROVE IInv'
<1>1. CASE MemberJoins \/ Tick
  <2>1. /\ Silent /\ UNCHANGED <<cache, registered, last, attempt, created, task, future, call, faults>>
        /\ now' \in Times /\ joined' \in Times \cup {Never}
        /\ now' = now \/ Tick
    <3>1. joined \in Times \cup {Never} /\ now \in Times
      BY DEF IInv, MembersTypeOK
    <3>2. CASE MemberJoins
      BY <3>1, <3>2 DEF MemberJoins
    <3>3. CASE Tick
      <4>1. now + 1 \in Times
        BY MembersAssumption, <3>1, <3>3 DEF Tick, Times
      <4> QED BY <3>1, <3>3, <4>1 DEF Tick
    <3> QED BY <1>1, <3>2, <3>3
  <2>2. MembersTypeOK'
    BY <2>1, SilentIsGood DEF IInv, MembersTypeOK, AnswerRecord
  <2>3. Flight' /\ Outcomes'
    BY <2>1 DEF IInv, Flight, Outcomes, Flies, Pending, Waiting, NoCallerStranded
  <2>4. \A t \in Tasks : Flies(t) => task[t].began <= now' /\ now' <= task[t].began + Timeout
    <3>1. \A t \in Tasks : task[t].began \in Nat
      BY Typed DEF TaskRecord
    <3>2. CASE now' = now
      BY <3>2 DEF IInv, Ages
    <3>3. CASE Tick
      BY MembersAssumption, <3>1, <3>3, Typed
         DEF Tick, IInv, Ages, Flies, Fetching, Requesting
    <3> QED BY <2>1, <3>2, <3>3
  <2>5. Ages'
    BY <2>1, <2>4 DEF IInv, Ages, Flies, Waiting
  <2> QED BY <2>1, <2>2, <2>3, <2>5, SilentIsGood DEF IInv
<1>2. CASE UNCHANGED membersVars
  BY <1>2 DEF membersVars, IInv, MembersTypeOK, Flight, Outcomes, Ages, GoodAnswer, Flies, Pending,
     Waiting, NoCallerStranded, GoodAnswersAreRecent, Has
<1> QED BY <1>1, <1>2

-----------------------------------------------------------------------------
(* Theorems *)

\* The inductive invariant: one registered fetch, and how old its results are.
THEOREM Invariance == MembersSpec => []IInv
<1>1. IInv /\ [MembersNext]_membersVars => IInv'
  BY EnterStep, CallerStep, ServeStep, ErrStep, FetchedStep, StampStep, CancelStep, SettleStep,
     OtherStep DEF MembersNext
<1> QED BY <1>1, InitHolds, PTL DEF MembersSpec

\* Whatever callers, cancellations, failures and timeouts interleave, every
\* answer is as recent as it claims to be, a member who joined long enough ago
\* is found, and nobody waits for a fetch that nobody makes.
THEOREM AnswersStayCurrent == MembersSpec => []AnswersAreCurrent
<1>1. IInv => AnswersAreCurrent
  <2> SUFFICES ASSUME IInv PROVE AnswersAreCurrent
    OBVIOUS
  <2>1. MemberIsFound
    <3>1. SUFFICES ASSUME answer.mode = "identity",
                          answer.result.status \in {"ok", "cached", "debounced"},
                          joined # Never, answer.start - joined >= Timeout + Debounce
                   PROVE  Has(answer.result.read)
      BY DEF MemberIsFound
    <3>2. joined \in Int /\ answer.start \in Int /\ answer.result.read \in Int
      BY Typed DEF IInv, MembersTypeOK, Results, Never
    <3>3. CASE answer.result.status = "cached"
      BY <3>1, <3>3 DEF IInv, GoodAnswer
    <3>4. CASE answer.result.status \in {"ok", "debounced"}
      <4>1. answer.start - answer.result.read <= Timeout + Debounce
        BY MembersAssumption, <3>2, <3>4 DEF IInv, GoodAnswer, GoodAnswersAreRecent
      <4> QED BY MembersAssumption, <3>1, <3>2, <4>1 DEF Has
    <3> QED BY <3>1, <3>3, <3>4
  <2> QED BY <2>1 DEF IInv, Flight, GoodAnswer, AnswersAreCurrent
<1> QED BY <1>1, Invariance, PTL

\* After any attempt, good or bad, the next one comes no sooner than the
\* debounce (serverapi.py:2448-2449).
THEOREM AttemptsKeepDistance == MembersSpec => AttemptsAreSpaced
<1>1. IInv /\ [MembersNext]_membersVars
        => [created' # created /\ attempt # Never => now - attempt >= Debounce]_membersVars
  <2> SUFFICES ASSUME IInv, MembersNext, created' # created, attempt # Never
               PROVE  now - attempt >= Debounce
    OBVIOUS
  <2>1. PICK c \in Callers : \E mode \in ModesOf[c] : Enter(c, mode)
    BY DEF MembersNext, Receive, CancelCaller, Serve, Err, Fetched, Stamp, Cancel, Settle,
       MemberJoins, Tick
  <2>2. ~Debounced
    BY <2>1 DEF Enter, AnswerNow
  <2>3. last.result.status # "none" /\ attempt = last.ts
    BY DEF IInv, Outcomes
  <2> QED BY MembersAssumption, <2>2, <2>3, Typed DEF Debounced, IInv, MembersTypeOK
<1> QED BY <1>1, Invariance, PTL DEF MembersSpec, AttemptsAreSpaced

-----------------------------------------------------------------------------
(* The fetch is a single flight *)

\* What the mapping takes for the fetches that run, and for what callers want.
Aloft == {t \in Tasks : task[t].st \in Fetching}
Wants == [c \in Callers |-> Want(c)]

\* Want, by the task that a caller waits for.
LEMMA WantCases ==
  ASSUME IInv, NEW c \in Callers
  PROVE  /\ Wants[c] = Want(c)
         /\ ~Waiting(c) => Want(c) = "idle"
         /\ Waiting(c) => /\ call[c].task \in Tasks
                          /\ call[c].task \in Aloft => Want(c) = "asking"
                          /\ call[c].task \notin Aloft => Want(c) = "served"
  BY Typed DEF Want, Wants, Waiting, Served, Aloft, CallRecord

LEMMA WantCasesPrime ==
  ASSUME IInv', NEW c \in Callers
  PROVE  /\ Wants'[c] = Want(c)'
         /\ ~Waiting(c)' => Want(c)' = "idle"
         /\ Waiting(c)' => /\ call'[c].task \in Tasks
                           /\ call'[c].task \in Aloft' => Want(c)' = "asking"
                           /\ call'[c].task \notin Aloft' => Want(c)' = "served"
<1>1. call' \in [Callers -> CallRecord]
  BY DEF IInv, MembersTypeOK, CallRecord
<1> QED BY <1>1 DEF Want, Wants, Waiting, Served, Aloft, CallRecord

LEMMA SingleFlightStep ==
  ASSUME IInv, IInv', [MembersNext]_membersVars PROVE [SF!SFNext]_(SF!sfVars)
<1>1. ASSUME NEW c \in Callers, NEW w, Aloft' = Aloft, Wants' = [Wants EXCEPT ![c] = w],
             \/ Wants[c] = "idle" /\ w = "asking" /\ Aloft # {}
             \/ Wants[c] = "asking" /\ w = "idle"
             \/ Wants[c] = "served" /\ w = "idle"
      PROVE  SF!SFNext
  BY <1>1 DEF Aloft, Wants, SF!SFNext, SF!Join, SF!GiveUp, SF!Leave, SF!Becomes
<1>2. ASSUME NEW c \in Callers, NEW t \in Tasks, Aloft = {}, Aloft' = {t}, Wants[c] = "idle",
             Wants' = [Wants EXCEPT ![c] = "asking"]
      PROVE  SF!SFNext
  BY <1>2 DEF Aloft, Wants, SF!SFNext, SF!Begin, SF!Becomes
<1>3. CASE Aloft' = Aloft /\ call' = call
  <2>1. Wants' = Wants
    BY <1>3, WantCases, WantCasesPrime DEF Wants, Waiting
  <2> QED BY <1>3, <2>1 DEF Aloft, Wants, SF!sfVars
<1>4. ASSUME NEW c \in Callers, Aloft' = Aloft, \A d \in Callers : d # c => call'[d] = call[d]
      PROVE  Wants' = [Wants EXCEPT ![c] = Want(c)']
  <2>1. ASSUME NEW d \in Callers, d # c PROVE Want(d)' = Want(d)
    BY <1>4, <2>1, WantCases, WantCasesPrime DEF Waiting
  <2> QED BY <2>1 DEF Wants
<1>5. ASSUME NEW c \in Callers, NEW mode \in ModesOf[c], Enter(c, mode)
      PROVE  [SF!SFNext]_(SF!sfVars)
  <2>0. Wants[c] = "idle" /\ mode \in Modes
    BY MembersAssumption, <1>5, WantCases DEF Enter, Modes
  <2>1. CASE UNCHANGED <<task, call>>
    BY <1>3, <2>1 DEF Aloft
  <2>2. CASE InFlight /\ WaitFor(c, mode, registered) /\ task' = task
    <3>1. registered \in Aloft /\ Aloft' = Aloft /\ registered # None
      BY <2>2 DEF InFlight, IInv, MembersTypeOK, Flight, Flies, Aloft
    <3>2. /\ call'[c].task = registered
          /\ \A d \in Callers : d # c => call'[d] = call[d]
      BY <2>2, Typed DEF WaitFor
    <3>3. Want(c)' = "asking"
      BY <3>1, <3>2, WantCasesPrime DEF Waiting
    <3> QED BY <1>1, <1>4, <2>0, <3>1, <3>2, <3>3
  <2>3. CASE ~InFlight /\ Begin(c, mode)
    <3> PICK t \in Nat : t = created + 1
      BY Typed
    <3>1. t \in Tasks /\ t # None /\ created \in Nat
      BY MembersAssumption, <2>3, Typed DEF Begin, Tasks, None
    <3>2. /\ task'[t].st = "request" /\ \A u \in Tasks : u # t => task'[u] = task[u]
          /\ call'[c].task = t /\ \A d \in Callers : d # c => call'[d] = call[d]
      BY <2>3, <3>1, Typed DEF Begin, WaitFor, NoTask
    <3>3. Aloft = {}
      BY <2>3, Typed DEF Aloft, IInv, Flight, Flies, InFlight
    <3>4. Aloft' = {t}
      BY <3>1, <3>2, <3>3 DEF Aloft, Fetching, Requesting
    <3>5. ASSUME NEW d \in Callers, d # c PROVE Want(d)' = Want(d)
      <4>1. Waiting(d) => call[d].task # t
        BY <3>1, Typed DEF IInv, Flight, Waiting, CallRecord, Tasks
      <4> QED BY <3>2, <3>3, <3>4, <3>5, <4>1, WantCases, WantCasesPrime DEF Waiting
    <3>6. Want(c)' = "asking"
      BY <3>1, <3>2, <3>4, WantCasesPrime DEF Waiting
    <3>7. Wants' = [Wants EXCEPT ![c] = "asking"]
      BY <3>5, <3>6 DEF Wants
    <3> QED BY <1>2, <2>0, <3>1, <3>3, <3>4, <3>7
  <2> QED BY <1>5, <2>1, <2>2, <2>3 DEF Enter, AnswerNow
<1>6. ASSUME NEW t \in Tasks, Serve(t) \/ Err(t) \/ Fetched(t) \/ Settle(t)
      PROVE  [SF!SFNext]_(SF!sfVars)
  <2>1. /\ task[t].st \in Fetching <=> task'[t].st \in Fetching
        /\ \A u \in Tasks : u # t => task'[u] = task[u]
        /\ call' = call
    <3>1. CASE Serve(t) \/ Err(t)
      BY <3>1, Typed DEF Serve, Err, Moves, TaskRecord, Fetching, Requesting
    <3>2. CASE Fetched(t)
      BY <3>2, Typed DEF Fetched, Moves, TaskRecord, Fetching, Requesting
    <3>3. CASE Settle(t)
      BY <3>3, Typed DEF Settle, NoTask, Settling, Fetching, Requesting
    <3> QED BY <1>6, <3>1, <3>2, <3>3
  <2> QED BY <1>3, <2>1 DEF Aloft
<1>7. ASSUME NEW t \in Tasks, Stamp(t) \/ Cancel(t) PROVE SF!SFNext
  <2>1. /\ task[t].st \in Fetching /\ task'[t].st \notin Fetching /\ call' = call
        /\ \A u \in Tasks : u # t => task'[u] = task[u]
    BY <1>7, Typed DEF Stamp, Cancel, Moves, TaskRecord, Fetching, Requesting
  <2>2. Aloft = {t} /\ Aloft' = {}
    BY <2>1 DEF Aloft, IInv, Flight, Flies
  <2>3. Wants' = [c \in Callers |-> IF Wants[c] = "asking" THEN "served" ELSE Wants[c]]
    <3>1. ASSUME NEW c \in Callers
          PROVE  Want(c)' = IF Wants[c] = "asking" THEN "served" ELSE Wants[c]
      BY <2>1, <2>2, WantCases, WantCasesPrime DEF Waiting
    <3> QED BY <3>1 DEF Wants
  <2> QED BY <2>2, <2>3 DEF Aloft, Wants, SF!SFNext, SF!Finish
<1>8. ASSUME NEW c \in Callers, Receive(c) \/ CancelCaller(c) PROVE SF!SFNext
  <2>1. /\ Waiting(c) /\ ~Waiting(c)' /\ Aloft' = Aloft
        /\ \A d \in Callers : d # c => call'[d] = call[d]
    BY <1>8, Typed DEF Receive, CancelCaller, Answered, NoCall, Waiting, Aloft
  <2>2. Want(c)' = "idle" /\ Wants[c] \in {"asking", "served"}
    BY <2>1, WantCases, WantCasesPrime
  <2> QED BY <1>1, <1>4, <2>1, <2>2
<1>9. CASE MemberJoins \/ Tick \/ UNCHANGED membersVars
  BY <1>3, <1>9 DEF MemberJoins, Tick, membersVars, Aloft
<1> QED BY <1>5, <1>6, <1>7, <1>8, <1>9 DEF MembersNext

\* GroupMembers implements SingleFlight: one fetch at a time, joined by those
\* who come while it runs, and every end of it releases them all.
THEOREM ImplementsSingleFlight == MembersSpec => MembersSingleFlight
<1>1. MembersInit => SF!SFInit
  <2> SUFFICES ASSUME MembersInit PROVE SF!SFInit
    OBVIOUS
  <2>1. Aloft = {}
    BY DEF MembersInit, Aloft, NoTask, Fetching, Requesting
  <2>2. Wants = [c \in Callers |-> "idle"]
    BY DEF MembersInit, Wants, Want, Waiting, NoCall
  <2> QED BY <2>1, <2>2 DEF Aloft, Wants, SF!SFInit
<1> QED
  BY <1>1, Invariance, SingleFlightStep, PTL DEF MembersSpec, MembersSingleFlight, SF!SFSpec
=============================================================================
