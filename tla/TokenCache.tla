------------------------------ MODULE TokenCache ------------------------------
(***************************************************************************)
(* The app access token of hermes_infoflow (api.py): one cache and at most *)
(* one refresh for all callers, which run on different event loops and     *)
(* threads.  The caller that finds no usable token fetches one itself; the *)
(* others wait for its future.  Any of them may be cancelled.              *)
(*                                                                         *)
(* The guard lock makes the lookup one step and the store one step; what   *)
(* interleaves is the token request and the hand-over of the result.       *)
(* Tokens are numbered in the order the platform issues them.              *)
(***************************************************************************)
EXTENDS Integers, FiniteSets

CONSTANTS
  Callers,
  Lifetime,    \* seconds a token is reused: expires_in minus the buffer
  MaxTime,     \* bound of the clock
  MaxFutures,  \* bound: refreshes begun
  MaxFaults,   \* bound: failed requests and cancellations
  MaxOutside   \* bound: refreshes by other processes with the same app key

ASSUME TokenAssumption ==
  /\ Lifetime \in Nat /\ MaxTime \in Nat
  /\ MaxFutures \in Nat /\ MaxFaults \in Nat /\ MaxOutside \in Nat

None == 0
Futures == 1 .. MaxFutures
Tokens == 1 .. (MaxFutures + MaxOutside)

VARIABLES
  now,
  cache,       \* _token_cache: the token and the time it expires
  registered,  \* _token_refreshes: the future in it, or None
  created,     \* futures created so far
  future,      \* what each future holds
  call,        \* caller -> its call of get_app_access_token
  issued,      \* tokens the platform has issued
  live,        \* those it still accepts
  outside,     \* refreshes by others so far
  faults

tokenVars == <<now, cache, registered, created, future, call, issued, live, outside, faults>>

Pending == [st |-> "pending", token |-> None]
NoCall == [st |-> "none", future |-> None, token |-> None]
Fetching == {"request", "replied"}
Settling == {"resolve", "reject", "revoke"}
Answers == {"ok", "failed", "cancelled"}

Held == [st : {"pending"} \cup Answers, token : Tokens \cup {None}]
Call == [st : {"none", "waiting"} \cup Fetching \cup Settling \cup Answers,
         future : Futures \cup {None}, token : Tokens \cup {None}]

TokenTypeOK ==
  /\ now \in 0 .. MaxTime
  /\ cache \in [token : Tokens \cup {None}, until : Int]
  /\ registered \in Futures \cup {None}
  /\ created \in 0 .. MaxFutures
  /\ future \in [Futures -> Held]
  /\ \A f \in Futures : future[f].st = "ok" => future[f].token # None
  /\ call \in [Callers -> Call]
  /\ \A c \in Callers : call[c].st \in {"replied", "resolve", "ok"} => call[c].token # None
  /\ issued \in 0 .. (created + outside)
  /\ live \subseteq Tokens
  /\ outside \in 0 .. MaxOutside
  /\ faults \in 0 .. MaxFaults

TokenInit ==
  /\ now = 0 /\ cache = [token |-> None, until |-> 0]
  /\ registered = None /\ created = 0
  /\ future = [f \in Futures |-> Pending]
  /\ call = [c \in Callers |-> NoCall]
  /\ issued = 0 /\ live = {} /\ outside = 0 /\ faults = 0

Becomes(c, st) == call' = [call EXCEPT ![c].st = st]
Fault == faults < MaxFaults /\ faults' = faults + 1

-----------------------------------------------------------------------------
\* _cached_token
Cached == cache.token # None /\ cache.until > now

InFlight_Ignored == FALSE
InFlight == registered # None /\ future[registered].st = "pending"

Hit(c) ==
  /\ call' = [call EXCEPT ![c] = [NoCall EXCEPT !.st = "ok", !.token = cache.token]]
  /\ UNCHANGED <<registered, created>>

Join(c) ==
  /\ call' = [call EXCEPT ![c] = [NoCall EXCEPT !.st = "waiting", !.future = registered]]
  /\ UNCHANGED <<registered, created>>

Own(c) ==
  /\ created < MaxFutures /\ created' = created + 1
  /\ registered' = created + 1
  /\ call' = [call EXCEPT ![c] = [NoCall EXCEPT !.st = "request", !.future = created + 1]]

UsesCache_Always(force) == Cached
UsesCache(force) == ~force /\ Cached

\* The call up to its first await.
Enter(c, force) ==
  /\ call[c].st = "none"
  /\ \/ UsesCache(force) /\ Hit(c)
     \/ ~UsesCache(force) /\ InFlight /\ Join(c)
     \/ ~UsesCache(force) /\ ~InFlight /\ Own(c)
  /\ UNCHANGED <<now, cache, future, issued, live, outside, faults>>

\* The platform issues a token, and may stop accepting older ones.
Issue(accepted) ==
  /\ issued' = issued + 1
  /\ live' = accepted \cup {issued + 1}

Request(c) ==
  /\ call[c].st = "request"
  /\ \E accepted \in {live, {}} : Issue(accepted)
  /\ call' = [call EXCEPT ![c].st = "replied", ![c].token = issued + 1]
  /\ UNCHANGED <<now, cache, registered, created, future, outside, faults>>

Deregister(f) == registered' = IF registered = f THEN None ELSE registered

Store(c) ==
  /\ call[c].st = "replied"
  /\ cache' = [token |-> call[c].token, until |-> now + Lifetime]
  /\ Deregister(call[c].future)
  /\ Becomes(c, "resolve")
  /\ UNCHANGED <<now, created, future, issued, live, outside, faults>>

\* An error of the request, or the cancellation of the caller that makes it.
Abandon(c) ==
  /\ call[c].st \in Fetching
  /\ Fault
  /\ Deregister(call[c].future)
  /\ Becomes(c, "reject") \/ Becomes(c, "revoke")
  /\ UNCHANGED <<now, cache, created, future, issued, live, outside>>

Answer(st) == CASE st = "resolve" -> "ok" [] st = "reject" -> "failed" [] st = "revoke" -> "cancelled"

\* set_result, set_exception or cancel.
Settles_ErrorsOnly(c) == call[c].st # "revoke"
Settles(c) == TRUE

Settle(c) ==
  /\ call[c].st \in Settling
  /\ LET answer == Answer(call[c].st)
         token == IF answer = "ok" THEN call[c].token ELSE None
     IN  /\ call' = [call EXCEPT ![c].st = answer, ![c].token = token]
         /\ future' = IF Settles(c)
                      THEN [future EXCEPT ![call[c].future] = [st |-> answer, token |-> token]]
                      ELSE future
  /\ UNCHANGED <<now, cache, registered, created, issued, live, outside, faults>>

\* A waiter gets what the future holds: a cancelled future cancels it, too.
Receive(c) ==
  /\ call[c].st = "waiting"
  /\ LET held == future[call[c].future] IN
     /\ held.st # "pending"
     /\ call' = [call EXCEPT ![c].st = held.st, ![c].token = held.token]
  /\ UNCHANGED <<now, cache, registered, created, future, issued, live, outside, faults>>

\* The shield keeps the future out of a waiter's cancellation.
CancelWaiter(c) ==
  /\ call[c].st = "waiting"
  /\ Fault
  /\ Becomes(c, "cancelled")
  /\ UNCHANGED <<now, cache, registered, created, future, issued, live, outside>>

Return(c) ==
  /\ call[c].st \in Answers
  /\ call' = [call EXCEPT ![c] = NoCall]
  /\ UNCHANGED <<now, cache, registered, created, future, issued, live, outside, faults>>

\* Another process refreshes the token of the app, or the platform revokes it.
Outside ==
  /\ outside < MaxOutside /\ outside' = outside + 1
  /\ Issue({})
  /\ UNCHANGED <<now, cache, registered, created, future, call, faults>>

Tick ==
  /\ now < MaxTime /\ now' = now + 1
  /\ UNCHANGED <<cache, registered, created, future, call, issued, live, outside, faults>>

\* What happens inside the calls, whoever makes them.
TokenStep(c) == Request(c) \/ Store(c) \/ Settle(c) \/ Receive(c)
TokenFault(c) == Abandon(c) \/ CancelWaiter(c)

TokenNext ==
  \/ \E c \in Callers :
       \/ \E force \in BOOLEAN : Enter(c, force)
       \/ TokenStep(c) \/ TokenFault(c)
       \/ Return(c)
  \/ Outside \/ Tick

TokenSpec == TokenInit /\ [][TokenNext]_tokenVars

-----------------------------------------------------------------------------
(* The abstract specification *)

\* A caller asks while the request of its future runs: its own or the owner's.
Flying(f) == \E d \in Callers : call[d].st \in Fetching /\ call[d].future = f
Want(c) == CASE call[c].st = "none" -> "idle"
             [] call[c].st \in Fetching \cup {"waiting"} /\ Flying(call[c].future) -> "asking"
             [] OTHER -> "served"

SF == INSTANCE SingleFlight
        WITH Fetches <- Callers,  Clients <- Callers,
             flying <- {c \in Callers : call[c].st \in Fetching},
             want <- [c \in Callers |-> Want(c)]

\* The refresh of the token is a single flight: two never run at once, later
\* callers join it, and its end releases all who wait, whichever of them is
\* cancelled (api.py:323-400).
TokenSingleFlight == SF!SFSpec

-----------------------------------------------------------------------------
(* Properties *)

\* "Only one coroutine in this process refreshes an expired token at a time"
\* (api.py:323-325): however calls, cancellations and failures interleave.
OneRefresh ==
  \A c, d \in Callers : {call[c].st, call[d].st} \subseteq Fetching => c = d

\* Nobody waits for a future that no caller is going to settle: a cancelled or
\* failing owner never strands the callers that joined it.
NoWaiterStranded ==
  \A c \in Callers :
    call[c].st = "waiting" /\ future[call[c].future].st = "pending"
      => \E d \in Callers : /\ call[d].st \in Fetching \cup Settling
                            /\ call[d].future = call[c].future

\* The cached token is never replaced by one that was issued before it.
CacheNeverGoesBack == [][cache'.token >= cache.token]_tokenVars
=============================================================================
