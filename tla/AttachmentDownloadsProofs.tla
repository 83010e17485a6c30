---------------------- MODULE AttachmentDownloadsProofs ----------------------
(***************************************************************************)
(* Proofs about the access token and the files that come in and go out,    *)
(* TokenCache, AttachmentDownloads and HostedFiles, for any callers,       *)
(* downloads, publishes, files and bounds.                                 *)
(*                                                                         *)
(* Neither OneRefresh nor NoWaiterStranded is inductive.  What makes them  *)
(* hold is who owns which future: the one that fetches owns the registered *)
(* future, every registered future is owned by one that fetches, no two    *)
(* callers own the same one, and it is pending while it is fetched.        *)
(***************************************************************************)
EXTENDS AttachmentDownloads, HostedFiles, WellFoundedInduction, TLAPS

Owner(c) == call[c].st \in Fetching \cup Settling
IsFetching(c) == call[c].st \in Fetching

\* Who owns which future.
Ownership ==
  /\ \A c \in Callers : Owner(c) => call[c].future \in 1 .. created
  /\ \A c, d \in Callers : Owner(c) /\ Owner(d) /\ call[c].future = call[d].future => c = d
  /\ \A c \in Callers : IsFetching(c) => call[c].future = registered
  /\ registered # None => \E c \in Callers : IsFetching(c) /\ call[c].future = registered

\* What the futures hold.
Holding ==
  /\ \A c \in Callers : IsFetching(c) => future[call[c].future].st = "pending"
  /\ \A f \in Futures : f > created => future[f].st = "pending"

\* In which order tokens are issued and stored.
TokenOrder ==
  /\ cache.token <= issued
  /\ \A c \in Callers : call[c].st = "replied" =>
       cache.token < call[c].token /\ call[c].token <= issued
  /\ \A c \in Callers : call[c].st = "request" => issued < created + outside

\* A caller that waits joined a future that was created.
Waits == \A c \in Callers : call[c].st = "waiting" => call[c].future \in 1 .. created

IInv == TokenTypeOK /\ Waits /\ Ownership /\ Holding /\ NoWaiterStranded /\ TokenOrder

\* Only one caller owns the registered future.
LEMMA OwnershipGivesOneRefresh == ASSUME Ownership PROVE OneRefresh
  BY DEF Ownership, OneRefresh, Owner, IsFetching, Fetching, Settling

LEMMA InitHolds == TokenInit => IInv
  BY TokenAssumption DEF TokenInit, IInv, TokenTypeOK, Ownership, Holding, NoWaiterStranded,
     TokenOrder, Waits, Held, Call, Owner, IsFetching, Fetching, Settling, Answers, NoCall, Pending, None, Futures,
     Tokens

-----------------------------------------------------------------------------
\* A caller's call stays a call when its fields change.
LEMMA CallUpdate ==
  ASSUME call \in [Callers -> Call], NEW c \in Callers, NEW new \in Call,
         call' = [call EXCEPT ![c] = new]
  PROVE  /\ call' \in [Callers -> Call]
         /\ call'[c] = new
         /\ \A d \in Callers : d # c => call'[d] = call[d]
  OBVIOUS

\* Every step keeps the types.
LEMMA TypeStep ==
  ASSUME IInv, [TokenNext]_tokenVars PROVE TokenTypeOK'
PROOF
<1> USE TokenAssumption DEF TokenTypeOK
<1>0. TokenTypeOK /\ TokenOrder /\ Ownership /\ Waits
  BY DEF IInv
<1>1. ASSUME NEW c \in Callers, NEW force \in BOOLEAN, Enter(c, force) PROVE TokenTypeOK'
  <2>0. UNCHANGED <<now, cache, future, issued, live, outside, faults>>
    BY <1>1 DEF Enter
  <2>1. CASE Hit(c) /\ Cached
    <3> DEFINE new == [NoCall EXCEPT !.st = "ok", !.token = cache.token]
    <3>1. new \in Call /\ new.st = "ok" /\ new.token # None
      BY <1>0, <2>1 DEF Cached, Call, NoCall, None, Answers
    <3> QED BY <1>0, <2>0, <2>1, <3>1, CallUpdate DEF Hit
  <2>2. CASE Join(c)
    <3> DEFINE new == [NoCall EXCEPT !.st = "waiting", !.future = registered]
    <3>1. new \in Call /\ new.st = "waiting"
      BY <1>0 DEF Call, NoCall
    <3> QED BY <1>0, <2>0, <2>2, <3>1, CallUpdate DEF Join
  <2>3. CASE Own(c)
    <3> DEFINE new == [NoCall EXCEPT !.st = "request", !.future = created + 1]
    <3>0. created' \in 0 .. MaxFutures /\ created' = created + 1 /\ registered' = created + 1
              /\ created + 1 \in Futures
      BY <1>0, <2>3 DEF Own, Futures
    <3>1. new \in Call /\ new.st = "request"
      BY <3>0 DEF Call, NoCall, Fetching
    <3>2. issued' \in 0 .. (created' + outside')
      BY <1>0, <2>0, <3>0
    <3> QED BY <1>0, <2>0, <2>3, <3>0, <3>1, <3>2, CallUpdate DEF Own
  <2> QED BY <1>1, <2>1, <2>2, <2>3 DEF Enter, UsesCache
<1>2. ASSUME NEW c \in Callers, Request(c) PROVE TokenTypeOK'
  <2> DEFINE new == [call[c] EXCEPT !.st = "replied", !.token = issued + 1]
  <2>1. issued' = issued + 1 /\ issued < created + outside /\ live' \in {live \cup {issued'}, {issued'}}
    BY <1>0, <1>2 DEF Request, TokenOrder, Issue
  <2>2. issued' \in 0 .. (created + outside) /\ issued' \in Tokens
    BY <1>0, <2>1 DEF Tokens
  <2>3. new \in Call /\ new.token # None
    <3>1. call[c] \in Call /\ issued + 1 \in Tokens /\ issued + 1 # None
      BY <1>0, <2>1, <2>2 DEF None
    <3> QED BY <3>1 DEF Call, Fetching
  <2>4. call' = [call EXCEPT ![c] = new]
    BY <1>0, <1>2 DEF Request
  <2> QED BY <1>0, <1>2, <2>1, <2>2, <2>3, <2>4, CallUpdate DEF Request
<1>3. ASSUME NEW c \in Callers, Store(c) PROVE TokenTypeOK'
  <2> DEFINE new == [call[c] EXCEPT !.st = "resolve"]
  <2>1. new \in Call /\ new.token # None
    BY <1>0, <1>3 DEF Store, Call, Settling
  <2>2. call' = [call EXCEPT ![c] = new]
    BY <1>0, <1>3 DEF Store, Becomes
  <2>3. cache' \in [token : Tokens \cup {None}, until : Int] /\ registered' \in Futures \cup {None}
    BY <1>0, <1>3 DEF Store, Deregister, Call
  <2> QED BY <1>0, <1>3, <2>1, <2>2, <2>3, CallUpdate DEF Store
<1>4. ASSUME NEW c \in Callers, Settle(c) PROVE TokenTypeOK'
  <2> DEFINE answer == Answer(call[c].st)
             held == [st |-> answer, token |-> IF answer = "ok" THEN call[c].token ELSE None]
             new == [call[c] EXCEPT !.st = answer, !.token = held.token]
  <2>1. /\ answer \in Answers
        /\ answer = "ok" => call[c].st = "resolve"
    BY <1>4 DEF Settle, Answer, Settling, Answers
  <2>2. held \in Held /\ held.st = answer /\ (answer = "ok" => held.token # None)
    BY <1>0, <2>1 DEF Held, Call
  <2>3. new \in Call /\ new.st = answer /\ new.token = held.token
    BY <1>0, <2>1, <2>2 DEF Held, Call
  <2>4. call' = [call EXCEPT ![c] = new]
    BY <1>0, <1>4 DEF Settle
  <2>5. /\ future' \in [Futures -> Held]
        /\ \A f \in Futures : future'[f].st = "ok" => future'[f].token # None
    <3>1. future' = future \/ future' = [future EXCEPT ![call[c].future] = held]
      BY <1>4 DEF Settle
    <3>2. \A f \in Futures : future'[f] = future[f] \/ future'[f] = held
      BY <1>0, <3>1
    <3>3. future' \in [Futures -> Held]
      BY <1>0, <2>2, <3>1
    <3> QED BY <1>0, <2>2, <3>2, <3>3
  <2>6. \A d \in Callers : call'[d].st \in {"replied", "resolve", "ok"} => call'[d].token # None
    <3>1. call'[c].st \in {"replied", "resolve", "ok"} => call'[c].token # None
      BY <1>0, <2>1, <2>2, <2>3, <2>4, CallUpdate DEF Answers
    <3> QED BY <1>0, <2>3, <2>4, <3>1, CallUpdate
  <2> QED BY <1>0, <1>4, <2>3, <2>4, <2>5, <2>6, CallUpdate DEF Settle
<1>5. ASSUME NEW c \in Callers, Receive(c) PROVE TokenTypeOK'
  <2> DEFINE held == future[call[c].future]
             new == [call[c] EXCEPT !.st = held.st, !.token = held.token]
  <2>1. held \in Held /\ held.st # "pending" /\ (held.st = "ok" => held.token # None)
    BY <1>0, <1>5 DEF Receive, Waits, Futures
  <2>2. new \in Call /\ new.st = held.st /\ new.token = held.token /\ new.st \in Answers
    BY <1>0, <2>1 DEF Held, Call
  <2>3. call' = [call EXCEPT ![c] = new]
    BY <1>0, <1>5 DEF Receive
  <2> QED BY ZenonT(30), <1>0, <1>5, <2>1, <2>2, <2>3, CallUpdate DEF Receive, Answers
<1>6. ASSUME NEW c \in Callers, Abandon(c) PROVE TokenTypeOK'
  <2>1. PICK st \in {"reject", "revoke"} : call' = [call EXCEPT ![c].st = st]
    BY <1>6 DEF Abandon, Becomes
  <2> DEFINE new == [call[c] EXCEPT !.st = st]
  <2>2. new \in Call /\ new.st = st
    BY <1>0 DEF Call, Settling
  <2>3. call' = [call EXCEPT ![c] = new]
    BY <1>0, <2>1
  <2>4. registered' \in Futures \cup {None} /\ faults' \in 0 .. MaxFaults
    BY <1>0, <1>6 DEF Abandon, Deregister, Fault
  <2> QED BY <1>0, <1>6, <2>2, <2>3, <2>4, CallUpdate DEF Abandon
<1>7. ASSUME NEW c \in Callers, CancelWaiter(c) PROVE TokenTypeOK'
  <2> DEFINE new == [call[c] EXCEPT !.st = "cancelled"]
  <2>1. new \in Call /\ new.st = "cancelled"
    BY <1>0 DEF Call, Answers
  <2>2. call' = [call EXCEPT ![c] = new] /\ faults' \in 0 .. MaxFaults
    BY <1>0, <1>7 DEF CancelWaiter, Becomes, Fault
  <2> QED BY <1>0, <1>7, <2>1, <2>2, CallUpdate DEF CancelWaiter
<1>8. ASSUME NEW c \in Callers, Return(c) PROVE TokenTypeOK'
  <2>1. NoCall \in Call /\ NoCall.st = "none"
    BY DEF NoCall, Call
  <2> QED BY <1>0, <1>8, <2>1, CallUpdate DEF Return
<1>9. CASE Outside
  BY <1>0, <1>9 DEF Outside, Issue, Tokens
<1>10. CASE Tick
  BY <1>0, <1>10 DEF Tick
<1>11. CASE UNCHANGED tokenVars
  BY <1>0, <1>11 DEF tokenVars
<1> QED
  BY <1>1, <1>2, <1>3, <1>4, <1>5, <1>6, <1>7, <1>8, <1>9, <1>10, <1>11
     DEF TokenNext, TokenStep, TokenFault

-----------------------------------------------------------------------------
\* Every step keeps the ownership of futures, what they hold and who waits.
Shared == Ownership /\ Holding /\ Waits /\ NoWaiterStranded

LEMMA SharedStep ==
  ASSUME IInv, [TokenNext]_tokenVars PROVE Shared'
PROOF
<1> USE TokenAssumption DEF Shared, Ownership, Holding, Waits, NoWaiterStranded, Owner,
        IsFetching, Fetching, Settling, Answers, None
<1>0. TokenTypeOK /\ Shared /\ call \in [Callers -> Call] /\ future \in [Futures -> Held]
      /\ created \in 0 .. MaxFutures
  BY DEF IInv, TokenTypeOK
<1>1. ASSUME NEW c \in Callers, call[c].st = "none", Hit(c), UNCHANGED future PROVE Shared'
  <2>1. call'[c].st = "ok" /\ (\A d \in Callers : d # c => call'[d] = call[d])
    BY <1>0, <1>1 DEF Hit, NoCall
  <2> QED BY <1>0, <1>1, <2>1 DEF Hit
<1>2. ASSUME NEW c \in Callers, call[c].st = "none", InFlight, Join(c), UNCHANGED future
      PROVE  Shared'
  <2>1. /\ call'[c].st = "waiting" /\ call'[c].future = registered
        /\ \A d \in Callers : d # c => call'[d] = call[d]
    BY <1>0, <1>2 DEF Join, NoCall
  <2>2. PICK d \in Callers : IsFetching(d) /\ call[d].future = registered
    BY <1>0, <1>2 DEF InFlight
  <2>3. registered \in 1 .. created
    BY <1>0, <2>2
  <2> QED BY <1>0, <1>2, <2>1, <2>2, <2>3 DEF Join
<1>3. ASSUME NEW c \in Callers, call[c].st = "none", ~InFlight, Own(c), UNCHANGED future
      PROVE  Shared'
  <2>1. /\ call'[c].st = "request" /\ call'[c].future = created + 1
        /\ \A d \in Callers : d # c => call'[d] = call[d]
        /\ registered' = created + 1 /\ created' = created + 1 /\ created + 1 \in Futures
    BY <1>0, <1>3 DEF Own, NoCall, Futures
  <2>2. \A d \in Callers : ~IsFetching(d)
    BY <1>0, <1>3 DEF InFlight
  <2>3. Ownership'
    BY <1>0, <1>3, <2>1, <2>2
  <2>4. Holding'
    BY <1>0, <1>3, <2>1, <2>2 DEF Futures
  <2>5. Waits' /\ NoWaiterStranded'
    BY <1>0, <1>3, <2>1, <2>2
  <2> QED BY <2>3, <2>4, <2>5
<1>4. ASSUME NEW c \in Callers, call[c].st \in Fetching, call'[c].future = call[c].future,
             call'[c].st = "replied", registered' = registered,
             \A d \in Callers : d # c => call'[d] = call[d], UNCHANGED <<future, created>>
      PROVE  Shared'
  BY <1>0, <1>4
<1>5. ASSUME NEW c \in Callers, call[c].st \in Fetching, call'[c].future = call[c].future,
             call'[c].st \in Settling, registered' = None,
             \A d \in Callers : d # c => call'[d] = call[d], UNCHANGED <<future, created>>
      PROVE  Shared'
  <2>1. \A d \in Callers : d # c => ~IsFetching(d)
    BY <1>0, <1>5
  <2> QED BY <1>0, <1>5, <2>1
<1>6. ASSUME NEW c \in Callers, Settle(c) PROVE Shared'
  <2>1. /\ call[c].st \in Settling /\ call'[c].st \in Answers
        /\ \A d \in Callers : d # c => call'[d] = call[d]
        /\ UNCHANGED <<registered, created>>
    BY <1>0, <1>6 DEF Settle, Answer
  <2>2. /\ call[c].future \in Futures
        /\ \A f \in Futures : f # call[c].future => future'[f] = future[f]
        /\ future'[call[c].future].st # "pending"
    BY <1>0, <1>6 DEF Settle, Settles, Answer, Futures
  <2>3. \A d \in Callers : IsFetching(d) => call[d].future # call[c].future
    BY <1>0, <1>6 DEF Settle
  <2>4. Ownership' /\ Waits'
    BY <1>0, <2>1
  <2>5. Holding'
    BY <1>0, <1>6, <2>1, <2>2, <2>3 DEF Settle, Futures
  <2>6. NoWaiterStranded'
    BY <1>0, <2>1, <2>2, <2>3 DEF Futures
  <2> QED BY <2>4, <2>5, <2>6
<1>7. ASSUME NEW c \in Callers, ~Owner(c), call'[c].st \in Answers \cup {"none"},
             \A d \in Callers : d # c => call'[d] = call[d],
             UNCHANGED <<future, created, registered>>
      PROVE  Shared'
  BY <1>0, <1>7
<1>8. CASE UNCHANGED <<call, future, created, registered>>
  BY <1>0, <1>8
<1>9. ASSUME NEW c \in Callers, NEW force \in BOOLEAN, Enter(c, force) PROVE Shared'
  BY <1>1, <1>2, <1>3, <1>9 DEF Enter
<1>10. ASSUME NEW c \in Callers, TokenStep(c) PROVE Shared'
  <2>1. CASE Request(c)
    <3>1. /\ call[c].st \in Fetching /\ call'[c].future = call[c].future
          /\ call'[c].st = "replied"
          /\ \A d \in Callers : d # c => call'[d] = call[d]
          /\ UNCHANGED <<registered, future, created>>
      BY <1>0, <2>1 DEF Request, Call
    <3> QED BY <1>4, <3>1
  <2>2. CASE Store(c)
    BY <1>0, <1>5, <2>2 DEF Store, Becomes, Deregister, Call
  <2>3. CASE Receive(c)
    <3>1. call[c].future \in Futures
      BY <1>0, <2>3 DEF Receive, Futures
    <3>2. /\ call[c].st = "waiting" /\ call'[c].st \in Answers
          /\ \A d \in Callers : d # c => call'[d] = call[d]
          /\ UNCHANGED <<registered, future, created>>
      BY <1>0, <2>3, <3>1 DEF Receive, Call, Held
    <3> QED BY <1>7, <3>2
  <2> QED BY <1>6, <1>10, <2>1, <2>2, <2>3 DEF TokenStep
<1>11. ASSUME NEW c \in Callers, TokenFault(c) PROVE Shared'
  <2>1. CASE Abandon(c)
    BY <1>0, <1>5, <2>1 DEF Abandon, Becomes, Deregister, Call
  <2>2. CASE CancelWaiter(c)
    BY <1>0, <1>7, <2>2 DEF CancelWaiter, Becomes, Call
  <2> QED BY <1>11, <2>1, <2>2 DEF TokenFault
<1>12. ASSUME NEW c \in Callers, Return(c) PROVE Shared'
  BY <1>0, <1>7, <1>12 DEF Return, NoCall, Call
<1> QED
  BY <1>8, <1>9, <1>10, <1>11, <1>12 DEF TokenNext, Outside, Tick, tokenVars

\* Every step keeps the order of the tokens.
LEMMA OrderStep ==
  ASSUME IInv, [TokenNext]_tokenVars
  PROVE  TokenOrder' /\ (cache'.token >= cache.token)
PROOF
<1> USE TokenAssumption DEF TokenOrder, None, Tokens
<1>0. TokenTypeOK /\ TokenOrder /\ OneRefresh /\ call \in [Callers -> Call]
      /\ created \in Nat /\ issued \in Nat /\ outside \in Nat /\ cache.token \in Int
      /\ \A c \in Callers : call[c].token \in Int
  BY OwnershipGivesOneRefresh DEF IInv, TokenTypeOK, Call
<1>1. ASSUME NEW c \in Callers, NEW force \in BOOLEAN, Enter(c, force)
      PROVE TokenOrder' /\ cache' = cache
  <2>1. /\ \A d \in Callers : d # c => call'[d] = call[d]
        /\ call'[c].st # "replied"
        /\ UNCHANGED <<cache, issued, outside>>
        /\ created' \in Nat /\ created <= created'
        /\ call'[c].st = "request" => created' = created + 1
    <3>1. CASE Hit(c)
      BY <1>0, <1>1, <3>1 DEF Enter, Hit, NoCall
    <3>2. CASE Join(c)
      BY <1>0, <1>1, <3>2 DEF Enter, Join, NoCall
    <3>3. CASE Own(c)
      BY <1>0, <1>1, <3>3 DEF Enter, Own, NoCall
    <3> QED BY <1>1, <3>1, <3>2, <3>3 DEF Enter
  <2>2. issued <= created + outside
    BY <1>0 DEF TokenTypeOK
  <2> QED BY <1>0, <2>1, <2>2
<1>2. ASSUME NEW c \in Callers, Request(c) PROVE TokenOrder' /\ cache' = cache
  <2>1. /\ call'[c].st = "replied" /\ call'[c].token = issued + 1
        /\ \A d \in Callers : d # c => call'[d] = call[d]
        /\ issued' = issued + 1 /\ UNCHANGED <<cache, created, outside>>
    BY <1>0, <1>2 DEF Request, Issue, Call
  <2>2. \A d \in Callers : d # c => call[d].st \notin Fetching
    BY <1>0, <1>2 DEF OneRefresh, Request, Fetching
  <2> QED BY <1>0, <2>1, <2>2 DEF Fetching
<1>3. ASSUME NEW c \in Callers, Store(c) PROVE TokenOrder' /\ cache'.token >= cache.token
  <2>1. /\ cache'.token = call[c].token /\ call'[c].st = "resolve"
        /\ \A d \in Callers : d # c => call'[d] = call[d]
        /\ UNCHANGED <<created, issued, outside>>
        /\ call[c].st = "replied"
    BY <1>0, <1>3 DEF Store, Becomes, Call
  <2>2. \A d \in Callers : d # c => call[d].st \notin Fetching
    BY <1>0, <2>1 DEF OneRefresh, Fetching
  <2> QED BY <1>0, <2>1, <2>2 DEF Fetching
<1>4. ASSUME NEW c \in Callers, call'[c].st \notin Fetching,
             \A d \in Callers : d # c => call'[d] = call[d],
             UNCHANGED <<cache, created, issued, outside>>
      PROVE  TokenOrder' /\ cache' = cache
  BY <1>0, <1>4 DEF Fetching
<1>5. ASSUME NEW c \in Callers, Settle(c) \/ Receive(c) \/ TokenFault(c) \/ Return(c)
      PROVE  TokenOrder' /\ cache' = cache
  <2>1. CASE Settle(c)
    <3>1. /\ Answer(call[c].st) \notin Fetching
          /\ UNCHANGED <<cache, created, issued, outside>>
      BY <2>1 DEF Settle, Answer, Fetching, Settling
    <3>2. /\ call'[c].st = Answer(call[c].st)
          /\ \A d \in Callers : d # c => call'[d] = call[d]
      BY <1>0, <2>1 DEF Settle, Call
    <3> QED BY <1>4, <3>1, <3>2
  <2>2. CASE Receive(c)
    <3>1. future[call[c].future] \in Held
      BY <2>2 DEF Receive, IInv, TokenTypeOK, Waits, Futures
    <3> QED BY <1>0, <1>4, <2>2, <3>1 DEF Receive, Held, Fetching, Answers, Call
  <2>3. CASE TokenFault(c)
    BY <1>0, <1>4, <2>3 DEF TokenFault, Abandon, CancelWaiter, Becomes, Fetching, Call
  <2>4. CASE Return(c)
    BY <1>0, <1>4, <2>4 DEF Return, NoCall, Fetching, Call
  <2> QED BY <1>5, <2>1, <2>2, <2>3, <2>4
<1>6. CASE Outside
  BY <1>0, <1>6 DEF Outside, Issue
<1>7. CASE UNCHANGED <<cache, issued, call, created, outside>>
  BY <1>0, <1>7
<1> QED
  BY <1>0, <1>1, <1>2, <1>3, <1>5, <1>6, <1>7 DEF TokenNext, TokenStep, Tick, tokenVars

-----------------------------------------------------------------------------
(* Theorems *)

\* The inductive invariant: types, ownership of futures, order of tokens.
THEOREM Invariance == TokenSpec => []IInv
<1>1. TokenInit => IInv
  BY InitHolds
<1>2. IInv /\ [TokenNext]_tokenVars => IInv'
  BY TypeStep, SharedStep, OrderStep DEF IInv, Shared
<1> QED BY <1>1, <1>2, PTL DEF TokenSpec

\* The variables keep their types: get_app_access_token hands out only tokens
\* that were issued, and no more futures exist than refreshes were begun.
THEOREM TokenTypeCorrect == TokenSpec => []TokenTypeOK
BY Invariance, PTL DEF IInv

\* At most one caller refreshes the token at a time (api.py:323-325).
THEOREM RefreshIsSingle == TokenSpec => []OneRefresh
<1>1. IInv => OneRefresh
  BY OwnershipGivesOneRefresh DEF IInv
<1> QED BY <1>1, Invariance, PTL

\* A waiting caller's future always has a caller that will settle it.
THEOREM WaitersHaveOwners == TokenSpec => []NoWaiterStranded
BY Invariance, PTL DEF IInv

\* The cache never returns to an older token.
THEOREM CacheIsMonotonic == TokenSpec => CacheNeverGoesBack
<1>1. IInv /\ [TokenNext]_tokenVars => [cache'.token >= cache.token]_tokenVars
  BY OrderStep
<1> QED BY <1>1, Invariance, PTL DEF TokenSpec, CacheNeverGoesBack

-----------------------------------------------------------------------------
(* The refresh is a single flight *)

\* What the mapping takes for the fetches that run, and for what callers want.
Aloft == {c \in Callers : call[c].st \in Fetching}
Wants == [c \in Callers |-> Want(c)]

\* Want, case by case.
LEMMA WantCases ==
  ASSUME NEW c \in Callers
  PROVE  /\ call[c].st = "none" => Want(c) = "idle"
         /\ call[c].st \in Fetching => Want(c) = "asking"
         /\ call[c].st = "waiting" =>
              Want(c) = IF \E d \in Aloft : call[d].future = call[c].future
                        THEN "asking" ELSE "served"
         /\ call[c].st \in Settling \cup Answers => Want(c) = "served"
  BY DEF Want, Flying, Aloft, Fetching, Settling, Answers

LEMMA WantCasesPrime ==
  ASSUME NEW c \in Callers
  PROVE  /\ call'[c].st = "none" => Want(c)' = "idle"
         /\ call'[c].st \in Fetching => Want(c)' = "asking"
         /\ call'[c].st = "waiting" =>
              Want(c)' = IF \E d \in Aloft' : call'[d].future = call'[c].future
                         THEN "asking" ELSE "served"
         /\ call'[c].st \in Settling \cup Answers => Want(c)' = "served"
  BY DEF Want, Flying, Aloft, Fetching, Settling, Answers

\* A step that only moves one caller, and starts or ends no fetch.
LEMMA OneCallerMoves ==
  ASSUME NEW c \in Callers, call \in [Callers -> Call], call' \in [Callers -> Call],
         \A d \in Callers : d # c => call'[d] = call[d],
         Aloft' = Aloft, \A d \in Aloft : call'[d].future = call[d].future
  PROVE  Wants' = [Wants EXCEPT ![c] = Want(c)']
<1>1. ASSUME NEW d \in Callers, d # c PROVE Want(d)' = Want(d)
  <2>1. call'[d] = call[d] /\ call[d].st \in {"none", "waiting"} \cup Fetching \cup Settling \cup Answers
    BY <1>1 DEF Call
  <2> QED BY <2>1, WantCases, WantCasesPrime DEF Aloft
<1> QED BY <1>1 DEF Wants

\* The end of the only fetch answers everybody who asks.
LEMMA FetchEnds ==
  ASSUME IInv, NEW c \in Callers, call[c].st \in Fetching, call' \in [Callers -> Call],
         call'[c].st \in Settling, \A d \in Callers : d # c => call'[d] = call[d]
  PROVE  /\ Aloft # {} /\ Aloft' = {}
         /\ Wants' = [d \in Callers |-> IF Wants[d] = "asking" THEN "served" ELSE Wants[d]]
<1>0. OneRefresh /\ call \in [Callers -> Call]
  BY OwnershipGivesOneRefresh DEF IInv, TokenTypeOK
<1>1. Aloft = {c} /\ Aloft' = {}
  BY <1>0 DEF Aloft, OneRefresh, Fetching, Settling
<1>2. ASSUME NEW d \in Callers
      PROVE  Want(d)' = IF Want(d) = "asking" THEN "served" ELSE Want(d)
  <2>1. CASE d = c
    BY <2>1, WantCases, WantCasesPrime
  <2>2. CASE d # c
    <3>1. call'[d] = call[d] /\ call[d].st \in {"none", "waiting"} \cup Fetching \cup Settling \cup Answers
      BY <1>0, <2>2 DEF Call
    <3>2. call[d].st \notin Fetching
      BY <1>0, <2>2 DEF OneRefresh, Fetching
    <3> QED BY <1>1, <3>1, <3>2, WantCases, WantCasesPrime
  <2> QED BY <2>1, <2>2
<1> QED BY <1>1, <1>2 DEF Wants

LEMMA SingleFlightStep ==
  ASSUME IInv, [TokenNext]_tokenVars PROVE [SF!SFNext]_(SF!sfVars)
PROOF
<1>0. /\ call \in [Callers -> Call] /\ call' \in [Callers -> Call]
      /\ Ownership /\ Holding /\ Waits
  BY TypeStep DEF IInv, TokenTypeOK
<1>1. ASSUME NEW c \in Callers, NEW w, Aloft' = Aloft, Wants' = [Wants EXCEPT ![c] = w],
             \/ w = Wants[c]
             \/ Wants[c] = "idle" /\ w = "served"
             \/ Wants[c] = "idle" /\ w = "asking" /\ Aloft # {}
             \/ Wants[c] = "asking" /\ w = "served"
             \/ Wants[c] = "served" /\ w = "idle"
      PROVE  [SF!SFNext]_(SF!sfVars)
  BY <1>1 DEF Aloft, Wants, SF!SFNext, SF!sfVars, SF!Recall, SF!Join, SF!GiveUp, SF!Leave,
              SF!Becomes
<1>2. ASSUME NEW c \in Callers, Aloft = {}, Aloft' = {c}, Wants[c] = "idle",
             Wants' = [Wants EXCEPT ![c] = "asking"]
      PROVE  SF!SFNext
  BY <1>2 DEF Aloft, Wants, SF!SFNext, SF!Begin, SF!Becomes
<1>3. ASSUME NEW c \in Callers, call[c].st \in Fetching, call'[c].st \in Settling,
             \A d \in Callers : d # c => call'[d] = call[d]
      PROVE  SF!SFNext
  BY <1>0, <1>3, FetchEnds DEF Aloft, Wants, SF!SFNext, SF!Finish
<1>4. CASE call' = call
  <2>1. Aloft' = Aloft /\ Wants' = Wants
    BY <1>4 DEF Aloft, Wants, Want, Flying
  <2> QED BY <2>1 DEF Aloft, Wants, SF!sfVars
<1>5. ASSUME NEW c \in Callers, call'[c].st \notin Fetching, call[c].st \notin Fetching,
             \A d \in Callers : d # c => call'[d] = call[d]
      PROVE  Aloft' = Aloft /\ Wants' = [Wants EXCEPT ![c] = Want(c)']
  <2>1. Aloft' = Aloft /\ \A d \in Aloft : call'[d] = call[d]
    BY <1>5 DEF Aloft
  <2> QED BY <1>0, <1>5, <2>1, OneCallerMoves
<1>6. \A c \in Callers : Wants[c] = Want(c)
  BY DEF Wants
<1>7. ASSUME NEW c \in Callers, NEW force \in BOOLEAN, Enter(c, force)
      PROVE  [SF!SFNext]_(SF!sfVars)
  <2>0. Wants[c] = "idle" /\ call[c].st \notin Fetching
    BY <1>6, <1>7, WantCases DEF Enter, Fetching
  <2>1. CASE Hit(c)
    <3>1. call'[c].st = "ok" /\ \A d \in Callers : d # c => call'[d] = call[d]
      BY <1>0, <2>1 DEF Hit, NoCall
    <3>2. Want(c)' = "served"
      BY <3>1, WantCasesPrime DEF Answers
    <3>3. call'[c].st \notin Fetching
      BY <3>1 DEF Fetching
    <3>4. Aloft' = Aloft /\ Wants' = [Wants EXCEPT ![c] = "served"]
      BY <1>5, <2>0, <3>1, <3>2, <3>3
    <3> QED BY <1>1, <2>0, <3>4
  <2>2. CASE InFlight /\ Join(c)
    <3>1. /\ call'[c].st = "waiting" /\ call'[c].future = registered
          /\ \A d \in Callers : d # c => call'[d] = call[d]
      BY <1>0, <2>2 DEF Join, NoCall
    <3>2. Aloft' = Aloft /\ Wants' = [Wants EXCEPT ![c] = Want(c)']
      BY <1>5, <2>0, <3>1 DEF Fetching
    <3>3. PICK d \in Aloft : call[d].future = registered
      BY <1>0, <2>2 DEF InFlight, Ownership, IsFetching, Aloft
    <3>4. d \in Aloft' /\ call'[d].future = registered
      BY <2>0, <3>1, <3>2, <3>3 DEF Aloft
    <3>5. Want(c)' = "asking"
      BY <3>1, <3>4, WantCasesPrime
    <3> QED BY <1>1, <2>0, <3>2, <3>3, <3>5
  <2>3. CASE ~InFlight /\ Own(c)
    <3>1. /\ call'[c].st = "request" /\ call'[c].future = created + 1 /\ created \in Int
          /\ \A d \in Callers : d # c => call'[d] = call[d]
      BY <1>0, <2>3 DEF Own, NoCall, IInv, TokenTypeOK
    <3>2. Aloft = {}
      <4>1. ASSUME NEW d \in Aloft PROVE InFlight
        BY <1>0, <4>1 DEF Aloft, Ownership, Holding, Owner, IsFetching, InFlight, None
      <4> QED BY <2>3, <4>1
    <3>3. Aloft' = {c}
      BY <3>1, <3>2 DEF Aloft, Fetching
    <3>4. ASSUME NEW d \in Callers, d # c PROVE Want(d)' = Want(d)
      <4>1. /\ call'[d] = call[d]
            /\ call[d].st \in {"none", "waiting"} \cup Fetching \cup Settling \cup Answers
        BY <1>0, <3>1, <3>4 DEF Call
      <4>2. call[d].st = "waiting" => call[d].future # created + 1
        BY <1>0, <3>1 DEF Waits
      <4> QED BY <3>1, <3>2, <3>3, <4>1, <4>2, WantCases, WantCasesPrime DEF Aloft
    <3>5. Want(c)' = "asking"
      BY <3>1, WantCasesPrime DEF Fetching
    <3>6. Wants' = [Wants EXCEPT ![c] = "asking"]
      BY <3>4, <3>5 DEF Wants
    <3> QED BY <1>2, <2>0, <3>2, <3>3, <3>6
  <2> QED BY <1>7, <2>1, <2>2, <2>3 DEF Enter
<1>8. ASSUME NEW c \in Callers, Request(c) PROVE [SF!SFNext]_(SF!sfVars)
  <2>1. /\ call[c].st \in Fetching /\ call'[c].st = "replied" /\ call'[c].future = call[c].future
        /\ \A d \in Callers : d # c => call'[d] = call[d]
    BY <1>0, <1>8 DEF Request, Fetching, Call
  <2>2. Aloft' = Aloft
    BY <2>1 DEF Aloft, Fetching
  <2>3. Wants' = [Wants EXCEPT ![c] = Want(c)']
    <3>1. \A d \in Aloft : call'[d].future = call[d].future
      BY <2>1 DEF Aloft
    <3> QED BY <1>0, <2>1, <2>2, <3>1, OneCallerMoves
  <2>4. Want(c)' = Want(c)
    BY <2>1, WantCases, WantCasesPrime DEF Fetching
  <2> QED BY <1>1, <1>6, <2>2, <2>3, <2>4
<1>9. ASSUME NEW c \in Callers, Store(c) \/ Abandon(c) PROVE SF!SFNext
  <2>1. /\ call[c].st \in Fetching /\ call'[c].st \in Settling
        /\ \A d \in Callers : d # c => call'[d] = call[d]
    <3>1. CASE Store(c)
      BY <1>0, <3>1 DEF Store, Becomes, Fetching, Settling
    <3>2. CASE Abandon(c)
      <4>1. PICK st \in Settling : call' = [call EXCEPT ![c].st = st]
        BY <3>2 DEF Abandon, Becomes, Settling
      <4> QED BY <1>0, <3>2, <4>1 DEF Abandon, Call
    <3> QED BY <1>9, <3>1, <3>2
  <2> QED BY <1>3, <2>1
<1>10. ASSUME NEW c \in Callers, Settle(c) PROVE [SF!SFNext]_(SF!sfVars)
  <2>1. /\ call[c].st \in Settling /\ call'[c].st \in Answers
        /\ \A d \in Callers : d # c => call'[d] = call[d]
    BY <1>0, <1>10 DEF Settle, Answer, Settling, Answers
  <2>2. Want(c) = "served" /\ Want(c)' = "served"
    BY <2>1, WantCases, WantCasesPrime
  <2>3. call'[c].st \notin Fetching /\ call[c].st \notin Fetching
    BY <2>1 DEF Settling, Answers, Fetching
  <2> QED BY <1>1, <1>5, <1>6, <2>1, <2>2, <2>3
<1>11. ASSUME NEW c \in Callers, Receive(c) \/ CancelWaiter(c) PROVE [SF!SFNext]_(SF!sfVars)
  <2>1. /\ call[c].st = "waiting" /\ call'[c].st \in Answers
        /\ \A d \in Callers : d # c => call'[d] = call[d]
    <3>1. CASE Receive(c)
      <4>1. call[c].st = "waiting" /\ call[c].future \in Futures
        BY TokenAssumption, <1>0, <3>1 DEF Receive, Waits, Futures, IInv, TokenTypeOK
      <4>2. future[call[c].future].st \in Answers
        BY <3>1, <4>1 DEF Receive, IInv, TokenTypeOK, Held
      <4> QED BY <1>0, <3>1, <4>1, <4>2 DEF Receive
    <3>2. CASE CancelWaiter(c)
      BY <1>0, <3>2 DEF CancelWaiter, Becomes, Answers
    <3> QED BY <1>11, <3>1, <3>2
  <2>2. Want(c) \in {"asking", "served"} /\ Want(c)' = "served"
    BY <2>1, WantCases, WantCasesPrime
  <2>3. call'[c].st \notin Fetching /\ call[c].st \notin Fetching
    BY <2>1 DEF Answers, Fetching
  <2> QED BY <1>1, <1>5, <1>6, <2>1, <2>2, <2>3
<1>12. ASSUME NEW c \in Callers, Return(c) PROVE [SF!SFNext]_(SF!sfVars)
  <2>1. /\ call[c].st \in Answers /\ call'[c].st = "none"
        /\ \A d \in Callers : d # c => call'[d] = call[d]
    BY <1>0, <1>12 DEF Return, NoCall
  <2>2. Want(c) = "served" /\ Want(c)' = "idle"
    BY <2>1, WantCases, WantCasesPrime
  <2>3. call'[c].st \notin Fetching /\ call[c].st \notin Fetching
    BY <2>1 DEF Answers, Fetching
  <2> QED BY <1>1, <1>5, <1>6, <2>1, <2>2, <2>3
<1> QED
  BY <1>4, <1>7, <1>8, <1>9, <1>10, <1>11, <1>12
     DEF TokenNext, TokenStep, TokenFault, Outside, Tick, tokenVars

\* TokenCache implements SingleFlight: no two refreshes run at once, callers
\* that come while one runs join it, and its end, good or bad, releases them.
THEOREM ImplementsSingleFlight == TokenSpec => TokenSingleFlight
<1>1. TokenInit => SF!SFInit
  <2> SUFFICES ASSUME TokenInit PROVE SF!SFInit
    OBVIOUS
  <2>1. \A c \in Callers : call[c].st = "none"
    BY DEF TokenInit, NoCall
  <2>2. Aloft = {} /\ Wants = [c \in Callers |-> "idle"]
    BY <2>1, WantCases DEF Aloft, Wants, Fetching
  <2> QED BY <2>2 DEF Aloft, Wants, SF!SFInit
<1> QED
  BY <1>1, Invariance, SingleFlightStep, PTL DEF TokenSpec, TokenSingleFlight, SF!SFSpec

-----------------------------------------------------------------------------
(* The downloads.  They implement TokenCache, so its theorems hold for     *)
(* them.  RetriesNewerToken needs to know what a download may still be     *)
(* given: nothing that was handed out is newer than the cached token, and  *)
(* whatever a call that began after a refusal can end with is newer than   *)
(* the refused token.                                                      *)

\* What was handed out was cached before.
HandedOut ==
  /\ \A c \in Callers : call[c].st \in {"resolve", "ok"} => call[c].token <= cache.token
  /\ \A f \in Futures : future[f].st = "ok" => future[f].token <= cache.token

\* Whatever the call of d can still return is newer than t.
Newer(d, t) ==
  /\ call[d].st \in {"replied", "resolve", "ok"} => call[d].token > t
  /\ call[d].st = "waiting" =>
       /\ future[call[d].future].st = "ok" => future[call[d].future].token > t
       /\ \A c \in Callers :
            /\ call[c].st \in {"replied", "resolve"}
            /\ call[c].future = call[d].future
            => call[c].token > t

\* The tokens the downloads hold.
HeldTokens ==
  /\ pc \in [Downloads -> Points]
  /\ stage \in [Downloads -> {"first", "url401", "get401"}]
  /\ token \in [Downloads -> Tokens \cup {None}]
  /\ url \in [Downloads -> Tokens \cup {None}]
  /\ \A d \in Downloads : token[d] <= cache.token
  /\ \A d \in Downloads : pc[d] = "idle" => token[d] = None
  /\ NeverMixesTokens

AwaitsNewer == \A d \in Downloads : pc[d] = "token" => Newer(d, token[d])

DInv == IInv /\ HandedOut /\ HeldTokens /\ AwaitsNewer

-----------------------------------------------------------------------------
(* The downloads implement the token cache *)

LEMMA StepImplements ==
  ASSUME [Next]_vars PROVE [TokenNext]_tokenVars
<1>1. ASSUME NEW d \in Downloads, DownloadStep(d)
      PROVE  \/ \E force \in BOOLEAN : Enter(d, force)
             \/ Return(d)
             \/ UNCHANGED tokenVars
  BY <1>1 DEF DownloadStep, Begin, TokenArrives, RequestUrl, OtherError, Get, WriteBack,
              Retry, GiveUp
<1> QED BY <1>1 DEF Next, TokenNext, vars, Downloads

\* Every behaviour of the downloads is one of the token cache: the tool uses
\* get_app_access_token in no other way than TokenCache allows.
THEOREM ImplementsTokenCache == Spec => TokenSpec
<1>1. Init => TokenInit
  BY DEF Init
<1> QED BY <1>1, StepImplements, PTL DEF Spec, TokenSpec

-----------------------------------------------------------------------------
(* What was handed out *)

LEMMA HandedOutStep ==
  ASSUME IInv, HandedOut, [TokenNext]_tokenVars PROVE HandedOut'
<1>0. /\ TokenTypeOK /\ cache'.token >= cache.token
      /\ cache.token \in Int /\ cache'.token \in Int
  <2>1. TokenTypeOK /\ TokenTypeOK'
    BY TypeStep DEF IInv
  <2> QED BY <2>1, OrderStep DEF TokenTypeOK, Tokens, None, tokenVars
<1> USE DEF HandedOut
<1>1. ASSUME NEW c \in Callers, NEW force \in BOOLEAN, Enter(c, force) PROVE HandedOut'
  BY <1>0, <1>1 DEF Enter, Hit, Join, Own, TokenTypeOK, NoCall
<1>2. ASSUME NEW c \in Callers, Request(c) PROVE HandedOut'
  BY <1>0, <1>2 DEF Request, TokenTypeOK
<1>3. ASSUME NEW c \in Callers, Store(c) PROVE HandedOut'
  <2>1. \A d \in Callers : call[d].token \in Int
    BY <1>0 DEF TokenTypeOK, Call, Tokens, None
  <2>2. \A f \in Futures : future[f].token \in Int
    BY <1>0 DEF TokenTypeOK, Held, Tokens, None
  <2> QED BY <1>0, <1>3, <2>1, <2>2 DEF Store, Becomes, TokenTypeOK
<1>4. ASSUME NEW c \in Callers, Settle(c) PROVE HandedOut'
  BY <1>0, <1>4 DEF Settle, Settles, Answer, Settling, TokenTypeOK
<1>5. ASSUME NEW c \in Callers, Receive(c) PROVE HandedOut'
  <2>1. call[c].future \in Futures
    BY TokenAssumption, <1>0, <1>5 DEF Receive, IInv, Waits, TokenTypeOK, Futures
  <2>2. future[call[c].future].st # "resolve"
    BY <1>0, <2>1 DEF TokenTypeOK, Held, Answers
  <2> QED BY <1>0, <1>5, <2>1, <2>2 DEF Receive, TokenTypeOK
<1>6. ASSUME NEW c \in Callers, TokenFault(c) \/ Return(c) PROVE HandedOut'
  <2>1. future' = future /\ cache' = cache
    BY <1>6 DEF TokenFault, Abandon, CancelWaiter, Return
  <2>2. PICK st \in {"reject", "revoke", "cancelled", "none"} :
          call'[c].st = st /\ \A d \in Callers : d # c => call'[d] = call[d]
    BY <1>0, <1>6 DEF TokenFault, Abandon, CancelWaiter, Becomes, Return, NoCall, TokenTypeOK, Call
  <2> QED BY <2>1, <2>2
<1>7. CASE UNCHANGED <<cache, call, future>>
  BY <1>7
<1> QED
  BY <1>1, <1>2, <1>3, <1>4, <1>5, <1>6, <1>7
     DEF TokenNext, TokenStep, Outside, Tick, tokenVars

-----------------------------------------------------------------------------
(* What a call can still return *)

\* A call that begins without a refused token, or that forces a refresh,
\* returns something newer: the refresh it joins or begins is not over.
LEMMA EnterNewer ==
  ASSUME IInv, NEW d \in Callers, NEW force \in BOOLEAN, NEW t \in Int,
         Enter(d, force), t = None \/ (force /\ t <= cache.token)
  PROVE  Newer(d, t)'
<1>0. TokenTypeOK /\ TokenTypeOK'
  BY TypeStep DEF IInv, TokenNext
<1>1. CASE UsesCache(force) /\ Hit(d)
  <2>1. t = None /\ cache.token \in Int /\ cache.token > 0
    BY <1>0, <1>1 DEF UsesCache, Cached, TokenTypeOK, Tokens, None
  <2> QED BY <1>0, <1>1, <2>1 DEF Hit, NoCall, TokenTypeOK, Newer, None
<1>2. CASE Join(d) /\ InFlight
  <2>1. call'[d].st = "waiting" /\ call'[d].future = registered
    BY <1>0, <1>2 DEF Join, NoCall, TokenTypeOK
  <2>2. future' = future /\ registered \in Futures /\ future[registered].st = "pending"
    BY <1>0, <1>2 DEF Enter, InFlight, TokenTypeOK
  <2>3. ASSUME NEW c \in Callers, call'[c].st \in {"replied", "resolve"}, call'[c].future = registered
        PROVE  call'[c].token > t
    <3>1. c # d /\ call'[c] = call[c]
      BY <1>0, <1>2, <2>1, <2>3 DEF Join, TokenTypeOK
    <3>2. PICK o \in Callers : IsFetching(o) /\ call[o].future = registered
      BY <2>2 DEF IInv, Ownership, Futures, None
    <3>3. call[c].st = "replied"
      BY <2>3, <3>1, <3>2 DEF IInv, Ownership, Owner, IsFetching, Fetching, Settling
    <3>4. cache.token < call[c].token /\ call[c].token \in Tokens /\ cache.token \in Tokens \cup {None}
      BY <1>0, <3>3 DEF IInv, TokenOrder, TokenTypeOK, Call, None
    <3> QED BY <3>1, <3>4 DEF Tokens, None
  <2> QED BY <2>1, <2>2, <2>3 DEF Newer
<1>3. CASE Own(d)
  BY <1>0, <1>3 DEF Own, NoCall, TokenTypeOK, Newer
<1> QED BY <1>1, <1>2, <1>3 DEF Enter

\* No step of anybody else, and none inside the call, changes that.
LEMMA NewerStep ==
  ASSUME IInv, NEW d \in Callers, NEW t \in Int, Newer(d, t), t <= cache.token,
         NEW c \in Callers,
         \/ TokenStep(c) \/ TokenFault(c)
         \/ c # d /\ (Return(c) \/ \E force \in BOOLEAN : Enter(c, force))
  PROVE  Newer(d, t)'
<1>0. /\ TokenTypeOK
      /\ cache.token \in Int /\ \A e \in Callers : call[e].token \in Int
      /\ call[d].st = "waiting" => call[d].future \in Futures
  BY DEF IInv, Waits, TokenTypeOK, Tokens, None, Call, Futures
<1> USE DEF Newer
<1>1. CASE Request(c)
  <2>1. call' = [call EXCEPT ![c].st = "replied", ![c].token = issued + 1] /\ future' = future
    BY <1>1 DEF Request
  <2>2. issued \in Int /\ cache.token <= issued
    BY DEF IInv, TokenOrder, TokenTypeOK
  <2> QED BY <1>0, <2>1, <2>2 DEF TokenTypeOK
<1>2. CASE Store(c)
  BY <1>0, <1>2 DEF Store, Becomes, TokenTypeOK
<1>3. CASE Settle(c)
  <2>1. /\ call[c].st \in Settling /\ call[c].future \in Futures
        /\ Answer(call[c].st) = "ok" <=> call[c].st = "resolve"
        /\ Answer(call[c].st) \in Answers
    <3>1. call[c].st \in Settling
      BY <1>3 DEF Settle
    <3>2. call[c].future \in 1 .. created /\ created \in 0 .. MaxFutures
      BY <3>1 DEF IInv, Ownership, Owner, TokenTypeOK
    <3>3. call[c].future \in Futures
      BY TokenAssumption, <3>2 DEF Futures
    <3>4. /\ Answer(call[c].st) = "ok" <=> call[c].st = "resolve"
          /\ Answer(call[c].st) \in Answers
      BY <3>1 DEF Settling, Answer, Answers
    <3> QED BY <3>1, <3>3, <3>4
  <2>2. CASE call[c].st = "resolve"
    <3>1. /\ call' = [call EXCEPT ![c].st = "ok", ![c].token = call[c].token]
          /\ future' = [future EXCEPT ![call[c].future] = [st |-> "ok", token |-> call[c].token]]
      BY <1>3, <2>2 DEF Settle, Settles, Answer
    <3> QED BY <1>0, <2>1, <2>2, <3>1 DEF TokenTypeOK
  <2>3. CASE call[c].st # "resolve"
    <3>1. /\ call' = [call EXCEPT ![c].st = Answer(call[c].st), ![c].token = None]
          /\ future' = [future EXCEPT ![call[c].future] = [st |-> Answer(call[c].st), token |-> None]]
      BY <1>3, <2>1, <2>3 DEF Settle, Settles
    <3> QED BY <1>0, <2>1, <2>3, <3>1 DEF TokenTypeOK, Answers
  <2> QED BY <2>2, <2>3
<1>4. CASE Receive(c)
  <2>1. /\ call[c].st = "waiting" /\ future' = future
        /\ call' = [call EXCEPT ![c].st = future[call[c].future].st,
                                ![c].token = future[call[c].future].token]
    BY <1>4 DEF Receive
  <2>2. call[c].future \in Futures
    BY SMTT(30), TokenAssumption, <1>0, <2>1 DEF IInv, Waits, TokenTypeOK, Futures
  <2>3. future[call[c].future].st \in Answers \cup {"pending"}
    BY <1>0, <2>2 DEF TokenTypeOK, Held
  <2>4. /\ call'[c].st = future[call[c].future].st
        /\ call'[c].token = future[call[c].future].token
        /\ \A e \in Callers : e # c => call'[e] = call[e]
    BY <1>0, <2>1 DEF TokenTypeOK
  <2>5. call'[c].st \notin {"replied", "resolve", "waiting"}
    BY <2>1, <2>3, <2>4, <1>4 DEF Receive, Answers
  <2>6. CASE c = d
    BY <2>1, <2>4, <2>5, <2>6
  <2>7. CASE c # d
    BY <2>1, <2>4, <2>5, <2>7
  <2> QED BY <2>6, <2>7
<1>5. CASE TokenFault(c)
  <2>1. future' = future
    BY <1>5 DEF TokenFault, Abandon, CancelWaiter
  <2>2. /\ call'[c].st \in {"reject", "revoke", "cancelled"}
        /\ \A e \in Callers : e # c => call'[e] = call[e]
    BY <1>0, <1>5 DEF TokenFault, Abandon, CancelWaiter, Becomes, TokenTypeOK, Call
  <2> QED BY <2>1, <2>2
<1>6. CASE c # d /\ Return(c)
  BY <1>0, <1>6 DEF Return, NoCall, TokenTypeOK
<1>7. ASSUME c # d, NEW force \in BOOLEAN, Enter(c, force) PROVE Newer(d, t)'
  <2>1. future' = future
    BY <1>7 DEF Enter
  <2>2. /\ call'[c].st \in {"ok", "waiting", "request"}
        /\ \A e \in Callers : e # c => call'[e] = call[e]
    <3>1. CASE Hit(c)
      BY <1>0, <3>1 DEF Hit, NoCall, TokenTypeOK
    <3>2. CASE Join(c)
      BY <1>0, <3>2 DEF Join, NoCall, TokenTypeOK
    <3>3. CASE Own(c)
      BY <1>0, <3>3 DEF Own, NoCall, TokenTypeOK
    <3> QED BY <1>7, <3>1, <3>2, <3>3 DEF Enter
  <2> QED BY <1>7, <2>1, <2>2
<1> QED BY <1>1, <1>2, <1>3, <1>4, <1>5, <1>6, <1>7 DEF TokenStep

-----------------------------------------------------------------------------
(* The downloads *)

LEMMA DInit == Init => DInv
<1> SUFFICES ASSUME Init PROVE DInv
  OBVIOUS
<1>1. IInv
  BY InitHolds DEF Init
<1>2. HandedOut
  BY DEF Init, TokenInit, HandedOut, NoCall, Pending
<1>3. HeldTokens
  <2>1. cache.token = 0
    BY DEF Init, TokenInit, None
  <2>2. /\ pc = [d \in Downloads |-> "idle"] /\ stage = [d \in Downloads |-> "first"]
        /\ token = [d \in Downloads |-> 0] /\ url = [d \in Downloads |-> 0]
    BY DEF Init, None
  <2> QED BY <2>1, <2>2 DEF HeldTokens, NeverMixesTokens, Points, None
<1>4. AwaitsNewer
  BY DEF Init, AwaitsNewer
<1> QED BY <1>1, <1>2, <1>3, <1>4 DEF DInv

\* The next point, token and URL of a download.
LEMMA HeldStep ==
  ASSUME DInv, [Next]_vars PROVE HeldTokens'
<1>1. TokenTypeOK /\ TokenTypeOK' /\ cache'.token >= cache.token
  BY StepImplements, TypeStep, OrderStep DEF DInv, IInv, tokenVars
<1>2. /\ HeldTokens
      /\ \A d \in Downloads : token[d] \in Int
      /\ cache.token \in Int /\ cache'.token \in Int
      /\ cache'.token >= None
  BY <1>1 DEF DInv, HeldTokens, TokenTypeOK, Tokens, None
<1> USE DEF HeldTokens, NeverMixesTokens
<1>3. ASSUME NEW d \in Downloads, NEW status, NEW error, ToWrite(d, status, error)
      PROVE  HeldTokens'
  BY <1>1, <1>2, <1>3 DEF ToWrite, GoTo, Points, Downloads
<1>4. ASSUME NEW d \in Downloads, NEW point \in Points \ {"idle", "get"}, GoTo(d, point),
             UNCHANGED <<token, url>>,
             stage' = stage \/ \E refused \in {"url401", "get401"} :
                                stage' = [stage EXCEPT ![d] = refused]
      PROVE  HeldTokens'
  BY <1>1, <1>2, <1>4 DEF GoTo, Downloads
<1>5. ASSUME NEW d \in Downloads, Begin(d) PROVE HeldTokens'
  BY <1>3, <1>4, <1>5 DEF Begin, Points
<1>6. ASSUME NEW d \in Downloads, TokenArrives(d) PROVE HeldTokens'
  <2>1. CASE call[d].st = "ok" /\ token' = [token EXCEPT ![d] = call[d].token]
             /\ GoTo(d, "url") /\ UNCHANGED <<stage, url>>
    <3>1. call[d].token \in Tokens /\ call[d].token <= cache.token /\ call[d].token \in Int
      BY <1>1, <2>1 DEF DInv, HandedOut, TokenTypeOK, Call, Tokens, Downloads, None
    <3> QED BY <1>1, <1>2, <2>1, <3>1 DEF GoTo, Points, Downloads
  <2> QED BY <1>3, <1>4, <1>6, <2>1 DEF TokenArrives, Points
<1>7. ASSUME NEW d \in Downloads, RequestUrl(d) PROVE HeldTokens'
  <2>1. CASE url' = [url EXCEPT ![d] = token[d]] /\ GoTo(d, "get") /\ UNCHANGED <<stage, token>>
    BY <1>1, <1>2, <2>1 DEF GoTo, Points, Downloads
  <2> QED BY <1>3, <1>4, <1>7, <2>1 DEF RequestUrl, Retry, GiveUp, Points
<1>8. ASSUME NEW d \in Downloads, OtherError(d) \/ Get(d) PROVE HeldTokens'
  BY <1>3, <1>4, <1>8 DEF OtherError, Get, Retry, GiveUp, Points
<1>9. ASSUME NEW d \in Downloads, WriteBack(d) PROVE HeldTokens'
  BY <1>4, <1>9 DEF WriteBack, Points
<1>10. CASE UNCHANGED downloadVars
  BY <1>1, <1>2, <1>10 DEF downloadVars, Downloads
<1> QED BY <1>5, <1>6, <1>7, <1>8, <1>9, <1>10 DEF Next, DownloadStep, vars

LEMMA AwaitsNewerStep ==
  ASSUME DInv, [Next]_vars PROVE AwaitsNewer'
<1> SUFFICES ASSUME NEW d \in Downloads, pc'[d] = "token" PROVE Newer(d, token[d])'
  BY DEF AwaitsNewer
<1>0. /\ IInv /\ HeldTokens /\ AwaitsNewer /\ d \in Callers
      /\ token[d] \in Int /\ token[d] <= cache.token
  BY DEF DInv, HeldTokens, Downloads, Tokens, None
<1> PICK t \in Int : t = token[d]
  BY <1>0
<1>1. ASSUME NEW force \in BOOLEAN, Enter(d, force), token' = token, t = None \/ force
      PROVE  Newer(d, token[d])'
  <2>1. Newer(d, t)'
    BY <1>0, <1>1, EnterNewer
  <2> QED BY <1>1, <2>1 DEF Newer
<1>2. ASSUME pc[d] = "token", token'[d] = token[d], NEW c \in Callers,
             \/ TokenStep(c) \/ TokenFault(c)
             \/ c # d /\ (Return(c) \/ \E force \in BOOLEAN : Enter(c, force))
      PROVE  Newer(d, token[d])'
  <2>1. Newer(d, t)
    BY <1>0, <1>2 DEF AwaitsNewer
  <2>2. Newer(d, t)'
    BY <1>0, <1>2, <2>1, NewerStep
  <2> QED BY <1>2, <2>2 DEF Newer
<1>3. ASSUME pc[d] = "token", token'[d] = token[d], UNCHANGED <<call, future>>
      PROVE  Newer(d, token[d])'
  BY <1>0, <1>3 DEF AwaitsNewer, Newer
<1>4. ASSUME DownloadStep(d) PROVE Newer(d, token[d])'
  <2>1. /\ pc \in [Downloads -> Points]
        /\ \A point : GoTo(d, point) => point = "token"
        /\ \A status, error : ~ToWrite(d, status, error)
    BY <1>0 DEF HeldTokens, GoTo, ToWrite
  <2>2. CASE Begin(d)
    BY <1>0, <1>1, <2>1, <2>2 DEF Begin, HeldTokens
  <2>3. CASE TokenArrives(d)
    BY <2>1, <2>3 DEF TokenArrives
  <2>4. CASE RequestUrl(d)
    BY <1>1, <2>1, <2>4 DEF RequestUrl, Retry, GiveUp
  <2>5. CASE Get(d)
    BY <1>1, <2>1, <2>5 DEF Get, Retry, GiveUp
  <2>6. CASE OtherError(d) \/ WriteBack(d)
    BY <2>1, <2>6 DEF OtherError, GiveUp, WriteBack
  <2> QED BY <1>4, <2>2, <2>3, <2>4, <2>5, <2>6 DEF DownloadStep
<1>5. ASSUME NEW c \in Downloads, c # d, DownloadStep(c) PROVE Newer(d, token[d])'
  <2>1. pc[d] = "token" /\ token'[d] = token[d]
    <3>1. /\ pc \in [Downloads -> Points] /\ token \in [Downloads -> Tokens \cup {None}]
      BY <1>0 DEF HeldTokens
    <3> QED BY <1>5, <3>1 DEF DownloadStep, Begin, TokenArrives, RequestUrl, OtherError, Get,
                              WriteBack, Retry, GiveUp, GoTo, ToWrite
  <2>2. \/ \E force \in BOOLEAN : Enter(c, force)
        \/ Return(c)
        \/ UNCHANGED tokenVars
    BY <1>5 DEF DownloadStep, Begin, TokenArrives, RequestUrl, OtherError, Get, WriteBack,
                Retry, GiveUp
  <2> QED BY <1>2, <1>3, <1>5, <2>1, <2>2 DEF Downloads, tokenVars
<1>6. CASE UNCHANGED downloadVars /\ \E c \in Downloads : TokenStep(c) \/ TokenFault(c)
  BY <1>2, <1>6 DEF downloadVars, Downloads
<1>7. CASE UNCHANGED downloadVars /\ (Outside \/ Tick \/ UNCHANGED tokenVars)
  BY <1>3, <1>7 DEF downloadVars, Outside, Tick, tokenVars
<1> QED BY <1>4, <1>5, <1>6, <1>7 DEF Next, vars

THEOREM DInvariance == Spec => []DInv
<1>1. DInv /\ [Next]_vars => DInv'
  <2> SUFFICES ASSUME DInv, [Next]_vars PROVE DInv'
    OBVIOUS
  <2>1. IInv'
    BY StepImplements, TypeStep, SharedStep, OrderStep DEF DInv, IInv, Shared
  <2>2. HandedOut'
    BY StepImplements, HandedOutStep DEF DInv
  <2> QED BY <2>1, <2>2, HeldStep, AwaitsNewerStep DEF DInv
<1> QED BY <1>1, DInit, PTL DEF Spec

-----------------------------------------------------------------------------
(* What the record says *)

\* Nobody holds a status "downloaded" of a file that is not on disk: not the
\* record, not a record read before, and no download about to write back.
OnDisk ==
  /\ record \in [Files -> Statuses]
  /\ disk \subseteq Files
  /\ snapshot \in [Downloads -> [Files -> Statuses]]
  /\ outcome \in [Downloads -> [status : Statuses, error : {"", "401", "other"}]]
  /\ DownloadedIsOnDisk
  /\ \A d \in Downloads : \A f \in Files : snapshot[d][f] = "downloaded" => f \in disk
  /\ \A d \in Downloads :
       pc[d] = "write" /\ outcome[d].status = "downloaded" => FileOf[d] \in disk

LEMMA OnDiskStep ==
  ASSUME OnDisk, pc \in [Downloads -> Points], [Next]_vars PROVE OnDisk'
<1> USE DownloadAssumption DEF OnDisk, DownloadedIsOnDisk, Statuses
<1>0. \A d \in Downloads : FileOf[d] \in Files
  BY DEF Downloads
<1>1. ASSUME NEW d \in Downloads, NEW status \in Statuses, NEW error \in {"", "401", "other"},
             ToWrite(d, status, error), status = "downloaded" => FileOf[d] \in disk',
             disk \subseteq disk', disk' \subseteq Files, record' = record,
             snapshot' = snapshot \/ snapshot' = [snapshot EXCEPT ![d] = record]
      PROVE  OnDisk'
  BY <1>0, <1>1 DEF ToWrite, GoTo
<1>2. ASSUME NEW d \in Downloads, NEW point \in Points \ {"write"}, GoTo(d, point),
             outcome' = outcome, UNCHANGED <<disk, record>>,
             snapshot' = snapshot \/ snapshot' = [snapshot EXCEPT ![d] = record]
      PROVE  OnDisk'
  BY <1>0, <1>2 DEF GoTo
<1>3. ASSUME NEW d \in Downloads, Begin(d) PROVE OnDisk'
  <2>1. CASE GoTo(d, "done") /\ outcome' = [outcome EXCEPT ![d].status = "downloaded"]
    BY <1>0, <1>3, <2>1 DEF Begin, GoTo
  <2> QED BY <1>1, <1>2, <1>3, <2>1 DEF Begin, Points
<1>4. ASSUME NEW d \in Downloads, TokenArrives(d) \/ RequestUrl(d) \/ OtherError(d) PROVE OnDisk'
  BY <1>1, <1>2, <1>4 DEF TokenArrives, RequestUrl, OtherError, Retry, GiveUp, Points
<1>5. ASSUME NEW d \in Downloads, Get(d) PROVE OnDisk'
  BY <1>0, <1>1, <1>2, <1>5 DEF Get, Retry, GiveUp, Points
<1>6. ASSUME NEW d \in Downloads, WriteBack(d) PROVE OnDisk'
  <2>1. record' \in [Files -> Statuses]
    BY <1>0, <1>6 DEF WriteBack, Written
  <2>2. \A f \in Files : record'[f] = "downloaded" => f \in disk
    BY <1>0, <1>6 DEF WriteBack, Written
  <2> QED BY <1>6, <2>1, <2>2 DEF WriteBack, GoTo
<1>7. CASE UNCHANGED downloadVars
  BY <1>7 DEF downloadVars
<1> QED BY <1>3, <1>4, <1>5, <1>6, <1>7 DEF Next, DownloadStep, vars

-----------------------------------------------------------------------------
(* Theorems *)

\* The bytes are always fetched with the token their URL was issued to.
THEOREM TokenSnapshot == Spec => []NeverMixesTokens
BY DInvariance, PTL DEF DInv, HeldTokens

\* A refused download never goes on with the refused token or an older one.
THEOREM RetryIsNewer == Spec => RetriesNewerToken
<1> DEFINE Retried == \A d \in Downloads :
                        pc[d] = "token" /\ pc'[d] = "url" => token'[d] > token[d]
<1>1. DInv /\ [Next]_vars => [Retried]_vars
  <2> SUFFICES ASSUME DInv, Next, NEW d \in Downloads, pc[d] = "token", pc'[d] = "url"
               PROVE  token'[d] > token[d]
    OBVIOUS
  <2>0. HeldTokens /\ AwaitsNewer
    BY DEF DInv
  <2>1. TokenArrives(d)
    BY <2>0 DEF HeldTokens, Next, DownloadStep, Begin, TokenArrives, RequestUrl, OtherError,
                Get, WriteBack, Retry, GiveUp, GoTo, ToWrite, downloadVars
  <2>2. call[d].st = "ok" /\ token' = [token EXCEPT ![d] = call[d].token]
    BY <2>0, <2>1 DEF HeldTokens, TokenArrives, GoTo, ToWrite
  <2> QED BY <2>0, <2>2 DEF HeldTokens, AwaitsNewer, Newer
<1> QED BY <1>1, DInvariance, PTL DEF Spec, RetriesNewerToken

\* Neither the cache nor a refused download ever returns to an older token.
THEOREM TokensAreRenewed == Spec => TokensRenew
BY ImplementsTokenCache, CacheIsMonotonic, RetryIsNewer DEF TokensRenew

\* Whatever calls of the tool, cancellations, failures and rotations of the
\* token interleave: one refresh at a time that nobody waits for in vain, a URL
\* only with its token, and no file called downloaded that is not on disk.
THEOREM DownloadsStayInStep == Spec => []DownloadsInStep
<1>1. Init => OnDisk
  <2> SUFFICES ASSUME Init PROVE OnDisk
    OBVIOUS
  <2>1. /\ record \in [Files -> Statuses] /\ disk = {}
        /\ \A f \in Files : record[f] = "not_downloaded"
        /\ snapshot = [d \in Downloads |-> record]
        /\ pc = [d \in Downloads |-> "idle"]
    BY DEF Init, Statuses
  <2>2. outcome \in [Downloads -> [status : Statuses, error : {"", "401", "other"}]]
    BY DEF Init, Statuses
  <2> QED BY <2>1, <2>2 DEF OnDisk, DownloadedIsOnDisk
<1>2. DInv /\ OnDisk /\ [Next]_vars => OnDisk'
  BY OnDiskStep DEF DInv, HeldTokens
<1>3. DInv /\ OnDisk => DownloadsInStep
  BY OwnershipGivesOneRefresh
     DEF DInv, IInv, HeldTokens, OnDisk, TypeOK, DownloadsInStep
<1> QED BY <1>1, <1>2, <1>3, DInvariance, PTL DEF Spec

\* To the downloads, too, the refresh of the token is a single flight.
THEOREM DownloadsShareRefresh == Spec => TokenSingleFlight
BY ImplementsTokenCache, ImplementsSingleFlight
-----------------------------------------------------------------------------
(***************************************************************************)
(* The hosted files.  As long as nobody else has written a publish's path  *)
(* or its object, the path holds what the publish has read, and the object *)
(* is that as soon as it was uploaded, or as a row tells that it was.      *)
(***************************************************************************)

NonePath == <<"none", 0>>
Images == {StagedPath(v) : v \in Contents}
FileRecord == [content : Contents \cup {0}, mtime : 0..MaxHour]
HostedRow == [md5 : Contents \cup {0}, out : OutsidePaths \cup {NonePath},
              until : Nat, expires : Nat, updated : Nat]
JobRecord == [at : JobPoints, source : Paths \cup {NonePath}, path : Inside \cup {NonePath},
              body : Contents \cup {0}, ts : Nat, until : Nat, uploaded : BOOLEAN,
              seen : SUBSET (Contents \cup {0}), clean : BOOLEAN, serves : BOOLEAN,
              genuine : BOOLEAN, known : BOOLEAN]

HostedTyped ==
  /\ files \in [Paths -> FileRecord] /\ bos \in [Inside -> Contents \cup {0}]
  /\ hosted \in [Inside -> HostedRow] /\ job \in [Publishes -> JobRecord]
  /\ hour \in 0..MaxHour /\ loose \subseteq Inside
ImagesHold ==
  \A f \in Images : files[f].content \in {0, f[2]} /\ bos[f] \in {0, f[2]}
RowsHold ==
  \A f \in Inside :
    /\ hosted[f] # NoHosted =>
         /\ hosted[f].md5 \in Contents /\ hosted[f].until >= hosted[f].expires
         /\ f \in Images => bos[f] = f[2]
    /\ hosted[f].out \in OutsidePaths => f \in Slots

Worked == {"upload", "url", "verify", "store"}
PathOf(j) == \/ j.path \in Slots /\ j.source \in OutsidePaths
             \/ j.path \in OwnPaths \cup Images /\ j.source = j.path
JobHolds(j) ==
  /\ j.at \notin {"new", "failed"} => PathOf(j)
  /\ j.at \notin {"new"} \cup Ended =>
       /\ j.ts <= hour /\ files[j.source].content \in j.seen
       /\ j.at = "copy" => j.path \in Slots
       /\ j.at \in {"copy", "look"} => ~j.uploaded
       /\ j.path \in Images => files[j.path].content = j.path[2]
  /\ j.at \in Worked \cup {"look"} /\ j.clean => files[j.path].content \in j.seen
  /\ j.at \in Worked =>
       /\ j.body \in Contents
       /\ j.clean => files[j.path].content = j.body
       /\ j.path \in Images => j.body = j.path[2]
  /\ j.at \in Worked \ {"upload"} /\ j.clean /\ (j.uploaded \/ j.path \notin loose) => bos[j.path] = j.body
  /\ j.at \in {"verify", "store"} => j.until >= j.ts + LifetimeOf(j.path)
  /\ j.at = "store" => bos[j.path] # 0
  /\ j.at = "returned" =>
       /\ j.until > j.ts + Skew
       /\ j.clean => j.genuine /\ (j.known => j.serves)
       /\ j.source[1] = "image" => j.serves /\ j.genuine
HostedInv ==
  HostedTyped /\ ImagesHold /\ RowsHold /\ RowsServe /\ \A p \in Publishes : JobHolds(job[p])

\* The kinds of paths are apart, and an image is named for what it shows.
LEMMA PathKinds ==
  /\ Inside = Slots \cup OwnPaths \cup Images /\ Paths = OutsidePaths \cup Inside
  /\ Slots \cap OwnPaths = {} /\ Slots \cap Images = {} /\ OwnPaths \cap Images = {}
  /\ OutsidePaths \cap Inside = {} /\ NonePath \notin Paths
  /\ \A f \in Paths : f[1] = "image" <=> f \in Images
  /\ \A v \in Contents : StagedPath(v) \in Images /\ StagedPath(v)[2] = v
  /\ \A f \in Images : f[2] \in Contents
  /\ \A f \in OutsidePaths \cup OwnPaths : f[2] \in Contents
  /\ \A f \in Slots : f[2] \in Nat
  /\ Slots # {}
<1> USE HostedAssumption
<1>1. Inside = Slots \cup OwnPaths \cup Images /\ Paths = OutsidePaths \cup Inside
  BY DEF Inside, Images, Paths
<1>2. /\ \A f \in Slots : f[1] = "slot" /\ f[2] \in Nat
      /\ \A f \in OwnPaths : f[1] = "own" /\ f[2] \in Contents
      /\ \A f \in OutsidePaths : f[1] = "outside" /\ f[2] \in Contents
      /\ \A f \in Images : f[1] = "image" /\ f[2] \in Contents
      /\ NonePath[1] = "none"
  BY DEF Slots, OwnPaths, OutsidePaths, Images, StagedPath, NonePath
<1>3. <<"slot", 1>> \in Slots
  BY DEF Slots
<1>4. \A v \in Contents : StagedPath(v) \in Images /\ StagedPath(v)[2] = v
  BY DEF Images, StagedPath
<1>5. /\ Slots \cap OwnPaths = {} /\ Slots \cap Images = {} /\ OwnPaths \cap Images = {}
      /\ OutsidePaths \cap Inside = {} /\ NonePath \notin Paths
  BY <1>1, <1>2
<1>6. \A f \in Paths : f[1] = "image" <=> f \in Images
  BY <1>1, <1>2
<1> QED BY <1>1, <1>2, <1>3, <1>4, <1>5, <1>6

\* Some number of a set of numbers is the least.
LEMMA SomeIsLeast ==
  ASSUME NEW S, S \subseteq Nat, S # {}
  PROVE  \E n \in S : \A m \in S : n <= m
<1>1. PICK n \in S : \A m \in S : ~ (<<m, n>> \in OpToRel(<, Nat))
  BY NatLessThanWellFounded, WFMin, Zenon
<1>2. \A m \in S : ~ (m < n)
  BY <1>1 DEF OpToRel
<1> QED BY <1>2

\* An import always finds a name.
LEMMA AllocatedIsSlot == HostedTyped => Allocated \in Slots
<1> SUFFICES ASSUME HostedTyped PROVE Allocated \in Slots
  OBVIOUS
<1> DEFINE free == {s \in Slots : files[s] = NoFile}
           from == IF free # {} THEN free ELSE Slots
           first(s, t) == IF free # {} THEN s[2] <= t[2]
                            ELSE \/ files[s].mtime < files[t].mtime
                                 \/ files[s].mtime = files[t].mtime /\ s[2] <= t[2]
<1>1. from \subseteq Slots /\ from # {} /\ \A s \in from : s[2] \in Nat /\ files[s].mtime \in Nat
  <2>1. \A s \in Slots : s \in Paths /\ files[s].mtime \in 0..MaxHour
    BY PathKinds DEF HostedTyped, FileRecord
  <2> QED BY <2>1, PathKinds
<1>2. ASSUME NEW S, S \subseteq from, S # {}
      PROVE  /\ \E s \in S : \A t \in S : s[2] <= t[2]
             /\ \E s \in S : \A t \in S : files[s].mtime <= files[t].mtime
  <2>1. {s[2] : s \in S} \subseteq Nat /\ {s[2] : s \in S} # {}
    BY <1>1, <1>2
  <2>2. PICK n \in {s[2] : s \in S} : \A m \in {s[2] : s \in S} : n <= m
    BY <2>1, SomeIsLeast
  <2>3. {files[s].mtime : s \in S} \subseteq Nat /\ {files[s].mtime : s \in S} # {}
    BY <1>1, <1>2
  <2>4. PICK n2 \in {files[s].mtime : s \in S} : \A m \in {files[s].mtime : s \in S} : n2 <= m
    BY <2>3, SomeIsLeast
  <2> QED BY <2>2, <2>4
<1>3. \E s \in from : \A t \in from : first(s, t)
  <2>1. CASE free # {}
    BY <1>1, <1>2, <2>1
  <2>2. CASE free = {}
    <3>1. PICK u \in from : \A t \in from : files[u].mtime <= files[t].mtime
      BY <1>1, <1>2
    <3> DEFINE oldest == {t \in from : files[t].mtime = files[u].mtime}
    <3>2. oldest \subseteq from /\ oldest # {}
      OBVIOUS
    <3>3. PICK s \in oldest : \A t \in oldest : s[2] <= t[2]
      <4> HIDE DEF oldest, from
      <4> QED BY <1>2, <3>2
    <3>4. ASSUME NEW t \in from PROVE first(s, t)
      BY <1>1, <2>2, <3>1, <3>3
    <3> QED BY <3>3, <3>4
  <2> QED BY <2>1, <2>2
<1>4. Allocated = CHOOSE s \in from : \A t \in from : first(s, t)
  BY DEF Allocated
<1>5. Allocated \in from
  <2> HIDE DEF from, first
  <2> QED BY <1>3, <1>4
<1> QED BY <1>1, <1>5

LEMMA HostedInitHolds == HostedInit => HostedInv
<1> SUFFICES ASSUME HostedInit PROVE HostedInv
  OBVIOUS
<1>0. 0 \in 0..MaxHour /\ 0 \in Nat
  BY HostedAssumption
<1>1. \A f \in Inside : hosted[f] = NoHosted /\ bos[f] = 0
  BY DEF HostedInit
<1>2. \A p \in Publishes : job[p] = NewJob
  BY DEF HostedInit
<1>3. NewJob \in JobRecord /\ NoHosted \in HostedRow
  BY DEF NewJob, JobRecord, JobPoints, NoHosted, HostedRow, NonePath
<1>4. \A f \in Paths : files[f] \in FileRecord /\ (f \in Images => files[f].content = 0)
  <2> SUFFICES ASSUME NEW f \in Paths PROVE files[f] \in FileRecord /\ (f \in Images => files[f].content = 0)
    OBVIOUS
  <2>1. f \in OutsidePaths \cup OwnPaths => files[f] = [content |-> f[2], mtime |-> 0] /\ f[2] \in Contents
                                            /\ f \notin Images
    BY PathKinds DEF HostedInit
  <2>2. f \notin OutsidePaths \cup OwnPaths => files[f] = [content |-> 0, mtime |-> 0]
    BY DEF HostedInit, NoFile
  <2> QED BY <1>0, <2>1, <2>2 DEF FileRecord
<1>5. HostedTyped
  <2>1. files \in [Paths -> FileRecord]
    BY <1>4 DEF HostedInit
  <2>2. job \in [Publishes -> JobRecord] /\ hosted \in [Inside -> HostedRow]
    BY <1>3 DEF HostedInit
  <2> QED BY <1>0, <2>1, <2>2 DEF HostedInit, HostedTyped
<1>6. ImagesHold
  BY <1>1, <1>4, PathKinds DEF ImagesHold
<1>7. RowsHold /\ RowsServe
  <2>1. NoHosted.out = NonePath
    BY DEF NoHosted, NonePath
  <2> QED BY <1>1, <2>1, PathKinds DEF RowsHold, RowsServe
<1>8. JobHolds(NewJob)
  BY DEF NewJob, JobHolds, Ended, Worked
<1> QED BY <1>2, <1>5, <1>6, <1>7, <1>8 DEF HostedInv

LEMMA JobTypes ==
  ASSUME HostedTyped, NEW p \in Publishes, NEW j, j = job[p]
  PROVE  /\ j \in JobRecord /\ j.at \in JobPoints /\ j.source \in Paths \cup {NonePath}
         /\ j.path \in Inside \cup {NonePath} /\ j.body \in Contents \cup {0} /\ j.ts \in Nat
         /\ j.until \in Nat /\ j.uploaded \in BOOLEAN /\ j.seen \subseteq Contents \cup {0}
         /\ j.clean \in BOOLEAN /\ j.serves \in BOOLEAN /\ j.genuine \in BOOLEAN /\ j.known \in BOOLEAN
BY DEF HostedTyped, JobRecord

LEMMA Lifetimes == \A f : LifetimeOf(f) \in Nat /\ LifetimeOf(f) > Skew /\ Skew \in Nat /\ MaxHour \in Nat
BY HostedAssumption DEF LifetimeOf

\* What another publish, the clock or an edit elsewhere may do under one.
LEMMA OtherJob ==
  ASSUME HostedInv, NEW q \in Publishes, NEW j, j = job[q], NEW new,
         \/ new = j
         \/ new = [j EXCEPT !.clean = FALSE],
         hour' \in Nat, hour <= hour',
         j.at \notin {"new"} \cup Ended =>
           /\ files'[j.source].content \in j.seen
           /\ j.path \in Images => files'[j.path].content = files[j.path].content
           /\ bos[j.path] # 0 => bos'[j.path] # 0
           /\ new.clean => /\ files'[j.path].content = files[j.path].content
                           /\ bos'[j.path] = bos[j.path]
                           /\ j.path \in loose \ loose' => bos[j.path] = files[j.path].content
  PROVE  new \in JobRecord /\ JobHolds(new)'
<1>0. JobHolds(j) /\ HostedTyped
  BY DEF HostedInv
<1>1. /\ j \in JobRecord /\ j.at \in JobPoints /\ j.ts \in Nat /\ hour \in Nat /\ j.clean \in BOOLEAN
  BY <1>0, JobTypes, HostedAssumption DEF HostedTyped
<1>2. /\ new \in JobRecord /\ new.at = j.at /\ new.source = j.source /\ new.path = j.path /\ new.body = j.body
      /\ new.ts = j.ts /\ new.until = j.until /\ new.uploaded = j.uploaded /\ new.seen = j.seen
      /\ new.serves = j.serves /\ new.genuine = j.genuine /\ new.known = j.known /\ (new.clean => j.clean)
  BY <1>1 DEF JobRecord
<1>3. PathOf(new) <=> PathOf(j)
  BY <1>2 DEF PathOf
<1>4. /\ new.at \notin {"new", "failed"} => PathOf(new)
      /\ new.at \notin {"new"} \cup Ended =>
           /\ new.ts <= hour' /\ files'[new.source].content \in new.seen
           /\ new.at = "copy" => new.path \in Slots
           /\ new.at \in {"copy", "look"} => ~new.uploaded
           /\ new.path \in Images => files'[new.path].content = new.path[2]
  BY <1>0, <1>1, <1>2, <1>3 DEF JobHolds
<1>5. new.at \in Worked \cup {"look"} => new.at \notin {"new"} \cup Ended
  BY DEF Worked, Ended
<1>6. /\ new.at \in Worked \cup {"look"} /\ new.clean => files'[new.path].content \in new.seen
      /\ new.at \in Worked =>
           /\ new.body \in Contents
           /\ new.clean => files'[new.path].content = new.body
           /\ new.path \in Images => new.body = new.path[2]
  BY <1>0, <1>2, <1>5 DEF JobHolds
<1>7. ASSUME new.at \in Worked \ {"upload"}, new.clean, new.uploaded \/ new.path \notin loose'
      PROVE  bos'[new.path] = new.body
  <2>1. bos'[j.path] = bos[j.path] /\ files[j.path].content = j.body
    BY <1>0, <1>2, <1>5, <1>7 DEF JobHolds
  <2>2. CASE j.uploaded \/ j.path \notin loose
    BY <1>0, <1>2, <1>7, <2>1, <2>2 DEF JobHolds
  <2>3. CASE j.path \in loose \ loose'
    BY <1>2, <1>5, <1>7, <2>1, <2>3
  <2> QED BY <1>2, <1>7, <2>2, <2>3
<1>8. /\ new.at \in {"verify", "store"} => new.until >= new.ts + LifetimeOf(new.path)
      /\ new.at = "returned" =>
           /\ new.until > new.ts + Skew
           /\ new.clean => new.genuine /\ (new.known => new.serves)
           /\ new.source[1] = "image" => new.serves /\ new.genuine
  BY <1>0, <1>2 DEF JobHolds
<1>9. new.at = "store" => bos'[new.path] # 0
  BY <1>0, <1>2, <1>5 DEF JobHolds, Worked
<1>10. JobHolds(new)'
  <2>1. UNCHANGED new
    OBVIOUS
  <2> QED BY <1>4, <1>6, <1>7, <1>8, <1>9 DEF JobHolds, PathOf, LifetimeOf
<1> QED BY <1>2, <1>10
\* What one publish does: it works on its own path, and tells the others of
\* the path when it changes the file there or its object.
LEMMA ActorStep ==
  ASSUME HostedInv, NEW p \in Publishes, NEW path, NEW new \in JobRecord, JobHolds(new)',
         NEW others, others = job \/ others = Disturbed(p, path),
         job' = [others EXCEPT ![p] = new], hour' = hour,
         \A f \in Paths :
            \/ files'[f] = files[f]
            \/ f = path /\ f \in Slots /\ others = Disturbed(p, path)
            \/ f \in Images /\ files[f].content = 0,
         \A f \in Inside :
            \/ bos'[f] = bos[f]
            \/ f = path /\ bos'[f] # 0 /\ others = Disturbed(p, path),
         \A f \in loose \ loose' : bos[f] = files[f].content
  PROVE  job' \in [Publishes -> JobRecord] /\ \A q \in Publishes : JobHolds(job[q])'
<1>0. HostedTyped /\ hour \in Nat
  BY HostedAssumption DEF HostedInv, HostedTyped
<1>1. /\ DOMAIN others = Publishes /\ job'[p] = new
      /\ others = [q \in Publishes |-> others[q]]
      /\ \A q \in Publishes \ {p} : job'[q] = others[q]
  BY <1>0 DEF HostedTyped, Disturbed
<1>2. ASSUME NEW q \in Publishes, q # p PROVE job'[q] \in JobRecord /\ JobHolds(job[q])'
  <2>1. PICK j : j = job[q]
    OBVIOUS
  <2>2. PICK n : n = job'[q]
    OBVIOUS
  <2>3. n = j \/ n = [j EXCEPT !.clean = FALSE]
    BY <1>1, <1>2, <2>1, <2>2 DEF Disturbed
  <2>4. JobHolds(j) /\ j \in JobRecord
    BY <1>0, <2>1, JobTypes DEF HostedInv
  <2>5. ASSUME others = Disturbed(p, path), j.at \notin {"new"} \cup Ended, j.path = path PROVE ~n.clean
    <3>1. n = [j EXCEPT !.clean = FALSE]
      BY <1>1, <1>2, <2>1, <2>2, <2>5 DEF Disturbed, Active
    <3> QED BY <2>4, <3>1 DEF JobRecord
  <2>6. ASSUME j.at \notin {"new"} \cup Ended
        PROVE  /\ files'[j.source].content \in j.seen
               /\ j.path \in Images => files'[j.path].content = files[j.path].content
               /\ bos[j.path] # 0 => bos'[j.path] # 0
               /\ n.clean => /\ files'[j.path].content = files[j.path].content
                             /\ bos'[j.path] = bos[j.path]
                             /\ j.path \in loose \ loose' => bos[j.path] = files[j.path].content
    <3>1. /\ PathOf(j) /\ files[j.source].content \in j.seen
          /\ j.path \in Images => files[j.path].content = j.path[2]
      BY <2>4, <2>6 DEF JobHolds, Ended
    <3>2. j.path \in Inside /\ j.path \in Paths /\ j.source \in Paths /\ j.source \notin Slots
      BY <3>1, PathKinds DEF PathOf
    <3>3. j.path \in Images => files[j.path].content # 0
      BY <3>1, PathKinds, HostedAssumption
    <3>4. j.path \in Images => files'[j.path] = files[j.path]
      BY <3>2, <3>3, PathKinds
    <3>5. j.source \in Images => j.source = j.path
      BY <3>1, PathKinds DEF PathOf
    <3>6. files'[j.source] = files[j.source]
      BY <3>2, <3>4, <3>5
    <3>7. bos[j.path] # 0 => bos'[j.path] # 0
      BY <3>2
    <3>8. ASSUME n.clean PROVE files'[j.path] = files[j.path] /\ bos'[j.path] = bos[j.path]
      <4>1. others # Disturbed(p, path) \/ j.path # path
        BY <2>5, <2>6, <3>8
      <4>2. CASE j.path \in Images
        BY <3>2, <3>4, <4>1, <4>2
      <4>3. CASE j.path \notin Images
        BY <3>2, <4>1, <4>3
      <4> QED BY <4>2, <4>3
    <3> QED BY <3>1, <3>4, <3>6, <3>7, <3>8
  <2>7. n \in JobRecord /\ JobHolds(n)'
    BY <1>0, <2>1, <2>3, <2>6, OtherJob
  <2> QED BY <2>2, <2>7
<1>3. job' \in [Publishes -> JobRecord]
  BY <1>1, <1>2
<1> QED BY <1>1, <1>2, <1>3
\* What is on the way, and what has come back, as records.
BegunJob(at, f, path, v) ==
  [NewJob EXCEPT !.at = at, !.source = f, !.path = path, !.ts = hour, !.seen = {v}]

LEMMA NewRecord ==
  ASSUME NEW at \in JobPoints, NEW f \in Paths, NEW path \in Inside, NEW v \in Contents \cup {0},
         HostedTyped, NEW new, new = BegunJob(at, f, path, v)
  PROVE  /\ new \in JobRecord /\ new.at = at /\ new.source = f /\ new.path = path
         /\ new.ts = hour /\ new.seen = {v} /\ new.clean /\ ~new.uploaded
<1>1. hour \in Nat
  BY HostedAssumption DEF HostedTyped
<1> QED BY <1>1 DEF BegunJob, NewJob, JobRecord

LEMMA FailedRecord ==
  ASSUME NEW new, new = [NewJob EXCEPT !.at = "failed"]
  PROVE  new \in JobRecord /\ JobHolds(new)'
<1>1. new \in JobRecord /\ new.at = "failed"
  BY DEF NewJob, JobRecord, JobPoints, Ended, NonePath
<1> QED BY <1>1 DEF JobHolds, Ended, Worked

LEMMA BeginOutsideHolds ==
  ASSUME HostedInv, NEW p \in Publishes, NEW f \in OutsidePaths, BeginOutside(p, f)
  PROVE  HostedInv'
<1>0. HostedTyped /\ ImagesHold /\ RowsHold /\ RowsServe /\ f \in Paths /\ f \notin Inside
  BY PathKinds DEF HostedInv
<1>1. files[f].content \in Contents \cup {0} /\ hour \in Nat
  BY <1>0, HostedAssumption DEF HostedTyped, FileRecord
<1>2. UNCHANGED <<bos, hosted, hour, loose>>
  BY DEF BeginOutside
<1>3. PICK path \in Slots, at \in {"look", "copy"} :
        LET new == [NewJob EXCEPT !.at = at, !.source = f, !.path = path, !.ts = hour,
                                  !.seen = {files[f].content}]
        IN /\ \E key : (at = "copy" => key = path) /\ job' = [Disturbed(p, key) EXCEPT ![p] = new]
           /\ at = "look" => files' = files /\ files[path].content = files[f].content
           /\ at = "copy" => files' = [files EXCEPT ![path] = NoFile]
  <2>1. CASE \E s \in Reusable(f) : job' = Started(p, f, s, "look") /\ UNCHANGED files
    <3>1. PICK s \in Reusable(f) : job' = Started(p, f, s, "look") /\ UNCHANGED files
      BY <2>1
    <3>2. s \in Inside /\ hosted[s].out = f /\ files[s].content = files[f].content
      BY <3>1 DEF Reusable, Imports
    <3>3. s \in Slots
      BY <1>0, <3>2 DEF RowsHold
    <3> QED BY <3>1, <3>2, <3>3 DEF Started
  <2>2. CASE job' = Started(p, f, Allocated, "copy") /\ files' = [files EXCEPT ![Allocated] = NoFile]
    <3>1. Allocated \in Slots
      BY <1>0, AllocatedIsSlot
    <3> QED BY <2>2, <3>1 DEF Started
  <2> QED BY <2>1, <2>2 DEF BeginOutside
<1>4. PICK new : new = [NewJob EXCEPT !.at = at, !.source = f, !.path = path, !.ts = hour,
                                      !.seen = {files[f].content}]
  OBVIOUS
<1>5. PICK key : /\ at = "copy" => key = path
                 /\ job' = [Disturbed(p, key) EXCEPT ![p] = new]
  BY <1>3, <1>4
<1>6. /\ at = "look" => files' = files /\ files[path].content = files[f].content
      /\ at = "copy" => files' = [files EXCEPT ![path] = NoFile]
  BY <1>3
<1>7. /\ path \in Inside /\ path \in Paths /\ path \notin Images /\ path # f
      /\ \A g \in Images : g # path
  BY <1>0, PathKinds
<1>8. /\ new \in JobRecord /\ new.at = at /\ new.source = f /\ new.path = path
      /\ new.ts = hour /\ new.seen = {files[f].content} /\ new.clean /\ ~new.uploaded
  <2>1. at \in JobPoints
    BY DEF JobPoints
  <2>2. PICK v \in Contents \cup {0} : v = files[f].content
    BY <1>1
  <2>3. new = BegunJob(at, f, path, v)
    BY <1>4, <2>2 DEF BegunJob
  <2>4. /\ new \in JobRecord /\ new.at = at /\ new.source = f /\ new.path = path
        /\ new.ts = hour /\ new.seen = {v} /\ new.clean /\ ~new.uploaded
    BY <1>0, <1>7, <2>1, <2>3, NewRecord
  <2>5. new.seen = {files[f].content}
    BY <2>2, <2>4
  <2> QED BY <2>4, <2>5, Zenon
<1>9. /\ files' \in [Paths -> FileRecord]
      /\ files'[f] = files[f]
      /\ \A g \in Paths : files'[g] = files[g] \/ (g = path /\ at = "copy")
  <2>1. NoFile \in FileRecord
    BY HostedAssumption DEF NoFile, FileRecord
  <2>2. files \in [Paths -> FileRecord]
    BY <1>0 DEF HostedTyped
  <2>3. CASE at = "look"
    BY <1>0, <1>6, <2>2, <2>3
  <2>4. CASE at = "copy"
    <3>1. files' = [files EXCEPT ![path] = NoFile]
      BY <1>6, <2>4
    <3> QED BY <1>0, <1>7, <2>1, <2>2, <2>4, <3>1
  <2> QED BY <2>3, <2>4
<1>10. JobHolds(new)'
  <2>1. PathOf(new) /\ new.path \notin Images
    BY <1>7, <1>8 DEF PathOf
  <2>2. PathOf(new)' /\ UNCHANGED new
    BY <2>1 DEF PathOf
  <2>3. at = "look" => files'[path].content = files[f].content
    BY <1>6
  <2> QED BY <1>1, <1>2, <1>7, <1>8, <1>9, <2>1, <2>2, <2>3 DEF JobHolds, Worked, Ended
<1>11. /\ job' \in [Publishes -> JobRecord]
       /\ \A q \in Publishes : JobHolds(job[q])'
  <2>1. PICK others : others = Disturbed(p, key)
    OBVIOUS
  <2>2. \A g \in Paths : \/ files'[g] = files[g]
                         \/ g = key /\ g \in Slots /\ others = Disturbed(p, key)
                         \/ g \in Images /\ files[g].content = 0
    BY <1>5, <1>9, <2>1
  <2>3. loose \ loose' = {} /\ \A g \in Inside : bos'[g] = bos[g]
    BY <1>2
  <2>4. job' = [others EXCEPT ![p] = new] /\ hour' = hour
    BY <1>2, <1>5, <2>1
  <2>5. \A g \in loose \ loose' : bos[g] = files[g].content
    BY <2>3
  <2>6. \A g \in Inside : bos'[g] = bos[g] \/ (g = key /\ bos'[g] # 0 /\ others = Disturbed(p, key))
    BY <2>3
  <2>7. others = job \/ others = Disturbed(p, key)
    BY <2>1
  <2>8. new \in JobRecord /\ JobHolds(new)'
    BY <1>8, <1>10
  <2> QED BY ZenonT(30), <2>2, <2>4, <2>5, <2>6, <2>7, <2>8, ActorStep
<1>12. HostedTyped' /\ ImagesHold'
  <2>1. HostedTyped'
    BY <1>0, <1>2, <1>9, <1>11 DEF HostedTyped
  <2>2. \A g \in Images : g \in Paths /\ files'[g] = files[g]
    BY <1>7, <1>9, PathKinds
  <2> QED BY <1>0, <1>2, <2>1, <2>2 DEF ImagesHold
<1>13. RowsHold' /\ RowsServe'
  BY <1>0, <1>2 DEF RowsHold, RowsServe
<1> QED BY <1>11, <1>12, <1>13 DEF HostedInv
\* A step of a publish that writes nothing but its own record.
LEMMA QuietStep ==
  ASSUME HostedInv, NEW p \in Publishes, NEW path, NEW new \in JobRecord, JobHolds(new)',
         NEW others, others = job \/ others = Disturbed(p, path),
         job' = [others EXCEPT ![p] = new],
         UNCHANGED <<files, bos, hosted, hour, loose>>
  PROVE  HostedInv'
<1>0. HostedTyped /\ ImagesHold /\ RowsHold /\ RowsServe
  BY DEF HostedInv
<1>1. /\ \A f \in Paths : files'[f] = files[f]
      /\ \A f \in Inside : bos'[f] = bos[f]
      /\ loose \ loose' = {} /\ hour' = hour
  OBVIOUS
<1>2. /\ job' \in [Publishes -> JobRecord]
      /\ \A q \in Publishes : JobHolds(job[q])'
  <2>1. \A f \in loose \ loose' : bos[f] = files[f].content
    BY <1>1
  <2> QED BY <1>1, <2>1, ActorStep
<1>3. HostedTyped' /\ ImagesHold' /\ RowsHold' /\ RowsServe'
  BY <1>0, <1>2 DEF HostedTyped, ImagesHold, RowsHold, RowsServe
<1> QED BY <1>2, <1>3 DEF HostedInv

LEMMA BeginOwnHolds ==
  ASSUME HostedInv, NEW p \in Publishes, NEW f \in OwnPaths, BeginOwn(p, f)
  PROVE  HostedInv'
<1>0. HostedTyped /\ f \in Paths /\ f \in Inside /\ f \notin Images
  BY PathKinds DEF HostedInv
<1>1. PICK v \in Contents \cup {0} : v = files[f].content
  BY <1>0 DEF HostedTyped, FileRecord
<1>2. PICK new : new = BegunJob("look", f, f, v)
  OBVIOUS
<1>3. job' = [Disturbed(p, f) EXCEPT ![p] = new] /\ UNCHANGED <<files, bos, hosted, hour, loose>>
  BY <1>1, <1>2 DEF BeginOwn, Started, BegunJob
<1>4. /\ new \in JobRecord /\ new.at = "look" /\ new.source = f /\ new.path = f
      /\ new.ts = hour /\ new.seen = {v} /\ new.clean /\ ~new.uploaded
  <2>1. "look" \in JobPoints
    BY DEF JobPoints
  <2> QED BY <1>0, <1>2, <2>1, NewRecord
<1>5. JobHolds(new)'
  <2>1. PathOf(new)' /\ UNCHANGED new
    BY <1>4 DEF PathOf
  <2>2. hour \in Nat
    BY <1>0, HostedAssumption DEF HostedTyped
  <2> QED BY <1>0, <1>1, <1>3, <1>4, <2>1, <2>2 DEF JobHolds, Worked, Ended
<1> QED BY <1>3, <1>4, <1>5, QuietStep

LEMMA BeginImageHolds ==
  ASSUME HostedInv, NEW p \in Publishes, NEW v \in Contents, BeginImage(p, v)
  PROVE  HostedInv'
<1> DEFINE f == StagedPath(v)
<1>0. /\ HostedTyped /\ ImagesHold /\ RowsHold /\ RowsServe /\ f \in Paths /\ f \in Inside /\ f \in Images
      /\ f[2] = v /\ v # 0
  BY PathKinds, HostedAssumption DEF HostedInv
<1>1. PICK new : new = BegunJob("look", f, f, v)
  OBVIOUS
<1>2. /\ job' = [job EXCEPT ![p] = new] /\ UNCHANGED <<bos, hosted, hour, loose>>
      /\ files' = IF files[f].content = v THEN files
                  ELSE [files EXCEPT ![f] = [content |-> v, mtime |-> hour]]
  BY <1>1 DEF BeginImage, BegunJob
<1>3. /\ new \in JobRecord /\ new.at = "look" /\ new.source = f /\ new.path = f
      /\ new.ts = hour /\ new.seen = {v} /\ new.clean /\ ~new.uploaded
  <2>1. "look" \in JobPoints /\ v \in Contents \cup {0}
    BY DEF JobPoints
  <2> HIDE DEF f
  <2> QED BY <1>0, <1>1, <2>1, NewRecord
<1> HIDE DEF f
<1>4. /\ files' \in [Paths -> FileRecord] /\ files'[f].content = v
      /\ \A g \in Paths : files'[g] = files[g] \/ (g = f /\ files[g].content = 0)
  <2>1. files \in [Paths -> FileRecord] /\ [content |-> v, mtime |-> hour] \in FileRecord
    BY <1>0 DEF HostedTyped, FileRecord
  <2>2. files[f].content \in {0, v}
    BY <1>0 DEF ImagesHold
  <2>3. CASE files[f].content = v
    BY <1>0, <1>2, <2>1, <2>3
  <2>4. CASE files[f].content = 0
    <3>1. files' = [files EXCEPT ![f] = [content |-> v, mtime |-> hour]]
      BY <1>0, <1>2, <2>4
    <3> QED BY <1>0, <2>1, <2>4, <3>1
  <2> QED BY <2>2, <2>3, <2>4
<1>5. JobHolds(new)'
  <2>1. PathOf(new)' /\ UNCHANGED new
    BY <1>0, <1>3 DEF PathOf
  <2>2. hour \in Nat
    BY <1>0, HostedAssumption DEF HostedTyped
  <2> QED BY <1>0, <1>2, <1>3, <1>4, <2>1, <2>2 DEF JobHolds, Worked, Ended
<1>6. /\ job' \in [Publishes -> JobRecord]
      /\ \A q \in Publishes : JobHolds(job[q])'
  <2>0. PICK others : others = job
    OBVIOUS
  <2>1. \A g \in Paths : \/ files'[g] = files[g]
                         \/ g = f /\ g \in Slots /\ others = Disturbed(p, f)
                         \/ g \in Images /\ files[g].content = 0
    BY <1>0, <1>4
  <2>2. \A g \in Inside : bos'[g] = bos[g] \/ (g = f /\ bos'[g] # 0 /\ others = Disturbed(p, f))
    BY <1>2
  <2>3. \A g \in loose \ loose' : bos[g] = files[g].content
    BY <1>2
  <2>4. /\ others = job \/ others = Disturbed(p, f)
        /\ hour' = hour /\ job' = [others EXCEPT ![p] = new]
    BY <1>2, <2>0
  <2>5. PICK path : path = f
    OBVIOUS
  <2>6. new \in JobRecord /\ JobHolds(new)'
    BY <1>3, <1>5
  <2> QED BY <2>1, <2>2, <2>3, <2>4, <2>5, <2>6, ActorStep
<1>7. HostedTyped' /\ RowsHold' /\ RowsServe'
  BY <1>0, <1>2, <1>4, <1>6 DEF HostedTyped, RowsHold, RowsServe
<1>8. ImagesHold'
  <2> SUFFICES ASSUME NEW g \in Images PROVE files'[g].content \in {0, g[2]} /\ bos'[g] \in {0, g[2]}
    BY DEF ImagesHold
  <2>1. g \in Paths
    BY PathKinds
  <2> QED BY <1>0, <1>2, <1>4, <2>1 DEF ImagesHold
<1> QED BY <1>6, <1>7, <1>8 DEF HostedInv
LEMMA CopyHolds ==
  ASSUME HostedInv, NEW p \in Publishes, Copy(p)
  PROVE  HostedInv'
<1>1. PICK j : j = job[p]
  OBVIOUS
<1>0. /\ HostedTyped /\ ImagesHold /\ RowsHold /\ RowsServe /\ JobHolds(j) /\ j \in JobRecord
  BY <1>1, JobTypes DEF HostedInv
<1>2. PICK path : path = j.path
  OBVIOUS
<1>3. PICK new : new = [j EXCEPT !.at = "look"]
  OBVIOUS
<1>4. PICK others : others = Disturbed(p, path)
  OBVIOUS
<1>5. /\ j.at = "copy" /\ files' = [files EXCEPT ![path] = files[j.source]]
      /\ UNCHANGED <<bos, hosted, hour, loose>>
  BY <1>1, <1>2 DEF Copy
<1>6. job' = [others EXCEPT ![p] = new]
  <2>1. others[p] = j
    BY <1>0, <1>1, <1>4 DEF Disturbed
  <2> QED BY <1>1, <1>2, <1>3, <1>4, <2>1 DEF Copy
<1>7. /\ path \in Slots /\ j.source \in OutsidePaths /\ path # j.source /\ path \in Paths
      /\ path \in Inside /\ path \notin Images /\ j.source \in Paths
      /\ j.ts <= hour /\ files[j.source].content \in j.seen /\ ~j.uploaded
  BY <1>0, <1>2, <1>5, PathKinds DEF JobHolds, PathOf, Ended
<1>8. /\ new \in JobRecord /\ new.at = "look" /\ new.path = path /\ new.source = j.source
      /\ new.ts = j.ts /\ new.seen = j.seen /\ ~new.uploaded
  BY <1>0, <1>2, <1>3, <1>7 DEF JobRecord, JobPoints
<1>9. /\ files' \in [Paths -> FileRecord] /\ files'[path] = files[j.source]
      /\ files'[j.source] = files[j.source]
      /\ \A g \in Paths : files'[g] = files[g] \/ g = path
  BY <1>0, <1>5, <1>7 DEF HostedTyped
<1>10. JobHolds(new)'
  <2>1. PathOf(new)' /\ UNCHANGED new
    BY <1>7, <1>8 DEF PathOf
  <2> QED BY <1>5, <1>7, <1>8, <1>9, <2>1 DEF JobHolds, Worked, Ended
<1>11. /\ job' \in [Publishes -> JobRecord]
       /\ \A q \in Publishes : JobHolds(job[q])'
  <2>1. \A g \in Paths : \/ files'[g] = files[g]
                         \/ g = path /\ g \in Slots /\ others = Disturbed(p, path)
                         \/ g \in Images /\ files[g].content = 0
    BY <1>4, <1>7, <1>9
  <2>2. \A g \in Inside : bos'[g] = bos[g] \/ (g = path /\ bos'[g] # 0 /\ others = Disturbed(p, path))
    BY <1>5
  <2>3. /\ \A g \in loose \ loose' : bos[g] = files[g].content
        /\ hour' = hour
    BY <1>5
  <2>4. others = job \/ others = Disturbed(p, path)
    BY <1>4
  <2>5. new \in JobRecord /\ JobHolds(new)'
    BY <1>8, <1>10
  <2> QED BY <1>6, <2>1, <2>2, <2>3, <2>4, <2>5, ActorStep
<1>12. HostedTyped' /\ RowsHold' /\ RowsServe'
  BY <1>0, <1>5, <1>9, <1>11 DEF HostedTyped, RowsHold, RowsServe
<1>13. ImagesHold'
  <2>1. \A g \in Images : files'[g] = files[g]
    BY <1>7, <1>9, PathKinds
  <2> QED BY <1>0, <1>5, <2>1 DEF ImagesHold
<1> QED BY <1>11, <1>12, <1>13 DEF HostedInv

LEMMA GetUrlHolds ==
  ASSUME HostedInv, NEW p \in Publishes, GetUrl(p)
  PROVE  HostedInv'
<1>1. PICK j : j = job[p]
  OBVIOUS
<1>0. HostedTyped /\ JobHolds(j) /\ j \in JobRecord /\ hour \in Nat
  BY <1>1, JobTypes, HostedAssumption DEF HostedInv, HostedTyped
<1>2. PICK until : until = hour + LifetimeOf(j.path)
  OBVIOUS
<1>3. PICK new : new = [j EXCEPT !.at = "verify", !.until = until]
  OBVIOUS
<1>4. j.at = "url" /\ UNCHANGED <<files, bos, hosted, hour, loose>> /\ job' = [job EXCEPT ![p] = new]
  BY <1>0, <1>1, <1>2, <1>3 DEF GetUrl, HostedTyped
<1>5. until \in Nat /\ j.ts \in Nat /\ j.ts <= hour /\ until >= j.ts + LifetimeOf(j.path)
  <2>1. j.ts <= hour /\ j.ts \in Nat
    BY <1>0, <1>4 DEF JobHolds, Ended, JobRecord
  <2> QED BY <1>0, <1>2, <2>1, Lifetimes
<1>6. /\ new \in JobRecord /\ new.at = "verify" /\ new.path = j.path /\ new.source = j.source
      /\ new.body = j.body /\ new.ts = j.ts /\ new.until = until /\ new.seen = j.seen
      /\ new.clean = j.clean /\ new.uploaded = j.uploaded
  BY <1>0, <1>3, <1>5 DEF JobRecord, JobPoints
<1>7. JobHolds(new)'
  <2>1. PathOf(new)' /\ UNCHANGED <<new, LifetimeOf(j.path)>>
    BY <1>0, <1>4, <1>6 DEF PathOf, JobHolds, LifetimeOf
  <2> QED BY <1>0, <1>4, <1>5, <1>6, <2>1 DEF JobHolds, Worked, Ended
<1>8. PICK others : others = job
  OBVIOUS
<1>9. job' = [others EXCEPT ![p] = new] /\ (others = job \/ others = Disturbed(p, j.path))
  BY <1>4, <1>8
<1>10. new \in JobRecord /\ JobHolds(new)'
  BY <1>6, <1>7
<1> QED BY <1>4, <1>9, <1>10, QuietStep

\* A publish that fails leaves nothing to hold.
LEMMA FailureHolds ==
  ASSUME HostedInv, NEW p \in Publishes, job' = [job EXCEPT ![p] = [NewJob EXCEPT !.at = "failed"]],
         UNCHANGED <<files, bos, hosted, hour, loose>>
  PROVE  HostedInv'
<1>1. PICK new : new = [NewJob EXCEPT !.at = "failed"]
  OBVIOUS
<1>2. new \in JobRecord /\ JobHolds(new)'
  BY <1>1, FailedRecord
<1>3. PICK others : others = job
  OBVIOUS
<1>4. PICK path : path = NonePath
  OBVIOUS
<1>5. job' = [others EXCEPT ![p] = new] /\ (others = job \/ others = Disturbed(p, path))
  BY <1>1, <1>3
<1> QED BY <1>2, <1>5, QuietStep

LEMMA VerifyHolds ==
  ASSUME HostedInv, NEW p \in Publishes, Verify(p)
  PROVE  HostedInv'
<1>1. PICK j : j = job[p]
  OBVIOUS
<1>2. UNCHANGED <<files, bos, hosted, hour, loose>> /\ j.at = "verify"
  BY <1>1 DEF Verify
<1>3. CASE bos[j.path] = 0
  <2>1. job' = [job EXCEPT ![p] = [NewJob EXCEPT !.at = "failed"]]
    BY <1>1, <1>3 DEF Verify
  <2> QED BY <1>2, <2>1, FailureHolds
<1>4. CASE bos[j.path] # 0
  <2>0. HostedTyped /\ JobHolds(j) /\ j \in JobRecord
    BY <1>1, JobTypes DEF HostedInv
  <2>1. PICK new : new = [j EXCEPT !.at = "store"]
    OBVIOUS
  <2>2. PICK others : others = job
    OBVIOUS
  <2>3. job' = [others EXCEPT ![p] = new] /\ (others = job \/ others = Disturbed(p, j.path))
    BY <1>1, <1>4, <2>1, <2>2 DEF Verify
  <2>4. /\ new \in JobRecord /\ new.at = "store" /\ new.path = j.path /\ new.source = j.source
        /\ new.body = j.body /\ new.ts = j.ts /\ new.until = j.until /\ new.seen = j.seen
        /\ new.clean = j.clean /\ new.uploaded = j.uploaded
    BY <2>0, <2>1 DEF JobRecord, JobPoints
  <2>5. PathOf(new)' /\ UNCHANGED <<new, LifetimeOf(j.path)>>
    BY <1>2, <2>0, <2>4 DEF PathOf, JobHolds, LifetimeOf
  <2>6. JobHolds(new)'
    BY <1>2, <1>4, <2>0, <2>4, <2>5 DEF JobHolds, Worked, Ended
  <2>7. new \in JobRecord /\ JobHolds(new)'
    BY <2>4, <2>6
  <2> QED BY <1>2, <2>3, <2>7, QuietStep
<1> QED BY <1>3, <1>4
LEMMA ReturnedRecord ==
  ASSUME NEW j \in JobRecord, NEW body, NEW until \in Nat, NEW new, new = Returned(j, body, until)
  PROVE  /\ new \in JobRecord /\ new.at = "returned" /\ new.source = j.source /\ new.path = j.path
         /\ new.ts = j.ts /\ new.until = until /\ (new.clean => j.clean)
         /\ bos[j.path] = body => new.serves
         /\ body \in j.seen => new.genuine
         /\ new.known => j.path \notin loose'
<1>1. PICK serves \in BOOLEAN : serves = (bos[j.path] = body)
  OBVIOUS
<1>2. PICK genuine \in BOOLEAN : genuine = (body \in j.seen)
  <2>1. (body \in j.seen) \in BOOLEAN
    OBVIOUS
  <2> QED BY <2>1, Zenon
<1>3. PICK known \in BOOLEAN : known = (j.path \notin loose')
  <2>1. (j.path \notin loose') \in BOOLEAN
    OBVIOUS
  <2> QED BY <2>1, Zenon
<1>4. PICK clean \in BOOLEAN : clean = j.clean
  BY DEF JobRecord
<1>5. new = [NewJob EXCEPT !.at = "returned", !.source = j.source, !.path = j.path, !.ts = j.ts,
                 !.until = until, !.clean = clean,
                 !.serves = serves, !.genuine = genuine, !.known = known]
  BY <1>1, <1>2, <1>3, <1>4, Zenon DEF Returned
<1>6. /\ j.source \in Paths \cup {NonePath} /\ j.path \in Inside \cup {NonePath} /\ j.ts \in Nat
  BY DEF JobRecord
<1>7. new = [at |-> "returned", source |-> j.source, path |-> j.path, body |-> 0,
             ts |-> j.ts, until |-> until, uploaded |-> FALSE, seen |-> {}, clean |-> clean,
             serves |-> serves, genuine |-> genuine, known |-> known]
  BY <1>5 DEF NewJob
<1>8. new \in JobRecord
  BY <1>6, <1>7 DEF JobRecord, JobPoints, Ended
<1>9. /\ new.at = "returned" /\ new.source = j.source /\ new.path = j.path
      /\ new.ts = j.ts /\ new.until = until
      /\ new.clean = clean /\ new.serves = serves /\ new.genuine = genuine /\ new.known = known
  BY <1>7
<1> QED BY <1>1, <1>2, <1>3, <1>4, <1>8, <1>9

LEMMA LookHolds ==
  ASSUME HostedInv, NEW p \in Publishes, Look(p)
  PROVE  HostedInv'
<1>1. PICK j : j = job[p]
  OBVIOUS
<1>0. HostedTyped /\ ImagesHold /\ RowsHold /\ RowsServe /\ JobHolds(j) /\ j \in JobRecord
  BY <1>1, JobTypes DEF HostedInv
<1>2. PICK md5 : md5 = files[j.path].content
  OBVIOUS
<1>3. j.at = "look" /\ UNCHANGED <<files, bos, hosted, hour, loose>>
  BY <1>1 DEF Look
<1>4. PICK row \in {hosted[j.path], NoHosted} :
        job' = [job EXCEPT ![p] =
                  IF md5 = 0 THEN [NewJob EXCEPT !.at = "failed"]
                  ELSE IF HasValidUrl(row, md5, j.ts) THEN Returned(j, md5, row.until)
                  ELSE [j EXCEPT !.at = IF NeedsUpload(row, md5) THEN "upload" ELSE "url",
                                 !.body = md5]]
  BY <1>1, <1>2 DEF Look
<1>5. /\ PathOf(j) /\ j.path \in Inside /\ j.path \in Paths /\ j.ts \in Nat /\ j.ts <= hour
      /\ ~j.uploaded /\ (j.clean => md5 \in j.seen)
      /\ j.path \in Images => md5 = j.path[2] /\ j.source = j.path /\ md5 \in j.seen
      /\ j.source[1] = "image" => j.path \in Images
  <2>1. /\ PathOf(j) /\ j.ts <= hour /\ ~j.uploaded /\ (j.clean => md5 \in j.seen)
        /\ files[j.source].content \in j.seen
        /\ j.path \in Images => md5 = j.path[2]
    BY <1>0, <1>2, <1>3 DEF JobHolds, Ended
  <2>2. j.path \in Inside /\ j.path \in Paths /\ j.source \in Paths /\ j.ts \in Nat
    BY <1>0, <2>1, PathKinds DEF PathOf, JobRecord
  <2>3. /\ j.path \in Images => j.source = j.path
        /\ j.source[1] = "image" => j.path \in Images
    BY <2>1, <2>2, PathKinds DEF PathOf
  <2> QED BY <1>2, <2>1, <2>2, <2>3
<1>6. md5 \in Contents \cup {0}
  BY <1>0, <1>2, <1>5 DEF HostedTyped, FileRecord
<1>7. PICK others : others = job
  OBVIOUS
<1>8. ASSUME md5 # 0, row # NoHosted, row.md5 = md5
      PROVE  /\ row = hosted[j.path] /\ row.until >= row.expires /\ row \in HostedRow
             /\ j.path \notin loose => bos[j.path] = md5
             /\ j.path \in Images => bos[j.path] = md5
  <2>1. row = hosted[j.path] /\ hosted[j.path] # NoHosted
    BY <1>4, <1>8
  <2> QED BY <1>0, <1>5, <1>8, <2>1 DEF RowsHold, RowsServe, HostedTyped
<1>9. CASE md5 = 0
  <2>1. job' = [job EXCEPT ![p] = [NewJob EXCEPT !.at = "failed"]]
    BY <1>4, <1>9
  <2> QED BY <1>3, <2>1, FailureHolds
<1>10. CASE md5 # 0 /\ HasValidUrl(row, md5, j.ts)
  <2>1. PICK until : until = row.until
    OBVIOUS
  <2>2. PICK new : new = Returned(j, md5, until)
    OBVIOUS
  <2>3. job' = [others EXCEPT ![p] = new] /\ (others = job \/ others = Disturbed(p, j.path))
    BY <1>4, <1>7, <1>10, <2>1, <2>2
  <2>4. /\ row.md5 = md5 /\ row.expires > j.ts + Skew /\ row # NoHosted
    BY <1>10, HostedAssumption DEF HasValidUrl, NoHosted
  <2>5. /\ until \in Nat /\ until > j.ts + Skew
        /\ j.path \notin loose => bos[j.path] = md5
        /\ j.path \in Images => bos[j.path] = md5
    <3>1. row \in HostedRow /\ until >= row.expires
      BY <1>8, <1>10, <2>1, <2>4
    <3>2. until \in Nat /\ row.expires \in Nat
      BY <2>1, <3>1 DEF HostedRow
    <3> QED BY <1>5, <1>8, <1>10, <2>4, <3>1, <3>2, HostedAssumption
  <2>6. /\ new \in JobRecord /\ new.at = "returned" /\ new.source = j.source /\ new.path = j.path
        /\ new.ts = j.ts /\ new.until = until /\ (new.clean => j.clean)
        /\ bos[j.path] = md5 => new.serves
        /\ md5 \in j.seen => new.genuine
        /\ new.known => j.path \notin loose'
    BY <1>0, <2>2, <2>5, ReturnedRecord
  <2>7. JobHolds(new)'
    <3>1. PathOf(new)' /\ UNCHANGED new
      BY <1>5, <2>6 DEF PathOf
    <3> QED BY <1>3, <1>5, <2>5, <2>6, <3>1 DEF JobHolds, Worked, Ended
  <2>8. new \in JobRecord /\ JobHolds(new)'
    BY <2>6, <2>7
  <2> QED BY <1>3, <2>3, <2>8, QuietStep
<1>11. CASE md5 # 0 /\ ~HasValidUrl(row, md5, j.ts)
  <2>1. PICK at \in {"upload", "url"} : at = IF NeedsUpload(row, md5) THEN "upload" ELSE "url"
    OBVIOUS
  <2>2. PICK new : new = [j EXCEPT !.at = at, !.body = md5]
    OBVIOUS
  <2>3. job' = [others EXCEPT ![p] = new] /\ (others = job \/ others = Disturbed(p, j.path))
    BY <1>4, <1>7, <1>11, <2>1, <2>2
  <2>4. at = "url" => row # NoHosted /\ row.md5 = md5
    BY <2>1 DEF NeedsUpload
  <2>5. /\ new \in JobRecord /\ new.at = at /\ new.path = j.path /\ new.source = j.source
        /\ new.body = md5 /\ new.ts = j.ts /\ new.until = j.until /\ new.seen = j.seen
        /\ new.clean = j.clean /\ new.uploaded = j.uploaded
    BY <1>0, <1>6, <2>2 DEF JobRecord, JobPoints
  <2>6. JobHolds(new)'
    <3>1. PathOf(new)' /\ UNCHANGED new
      BY <1>5, <2>5 DEF PathOf
    <3>2. md5 \in Contents /\ files'[j.path].content = md5
      BY <1>2, <1>3, <1>6, <1>11
    <3>3. at = "url" /\ j.path \notin loose => bos[j.path] = md5
      BY <1>8, <1>11, <2>4
    <3>4. files'[j.source].content \in j.seen
      BY <1>0, <1>3 DEF JobHolds, Ended
    <3> QED BY <1>3, <1>5, <2>5, <3>1, <3>2, <3>3, <3>4 DEF JobHolds, Worked, Ended
  <2>7. new \in JobRecord /\ JobHolds(new)'
    BY <2>5, <2>6
  <2> QED BY <1>3, <2>3, <2>7, QuietStep
<1> QED BY <1>9, <1>10, <1>11
LEMMA UploadHolds ==
  ASSUME HostedInv, NEW p \in Publishes, Upload(p)
  PROVE  HostedInv'
<1>1. PICK j : j = job[p]
  OBVIOUS
<1>0. HostedTyped /\ ImagesHold /\ RowsHold /\ RowsServe /\ JobHolds(j) /\ j \in JobRecord
  BY <1>1, JobTypes DEF HostedInv
<1>2. PICK path : path = j.path
  OBVIOUS
<1>3. /\ j.at = "upload" /\ bos' = [bos EXCEPT ![path] = j.body]
      /\ loose' = loose \cup {path} /\ UNCHANGED <<files, hosted, hour>>
  BY <1>1, <1>2 DEF Upload
<1>4. /\ PathOf(j) /\ path \in Inside /\ j.body \in Contents /\ j.body # 0
      /\ files[j.source].content \in j.seen /\ j.ts <= hour
      /\ path \in Images => files[path].content = path[2] /\ j.body = path[2]
      /\ j.clean => files[path].content \in j.seen /\ files[path].content = j.body
  <2>1. PathOf(j) /\ j.body \in Contents
    BY <1>0, <1>3 DEF JobHolds, Worked
  <2>2. path \in Inside
    BY <1>2, <2>1, PathKinds DEF PathOf
  <2> QED BY <1>0, <1>2, <1>3, <2>1, <2>2, HostedAssumption DEF JobHolds, Worked, Ended
<1>5. PICK others : others = Disturbed(p, path)
  OBVIOUS
<1>6. PICK new : /\ \/ new = [j EXCEPT !.at = "url", !.uploaded = TRUE]
                    \/ new = [NewJob EXCEPT !.at = "failed"]
                 /\ job' = [others EXCEPT ![p] = new]
  BY <1>1, <1>2, <1>5 DEF Upload
<1>7. /\ bos' \in [Inside -> Contents \cup {0}] /\ bos'[path] = j.body
      /\ \A g \in Inside : bos'[g] = bos[g] \/ g = path
  BY <1>0, <1>3, <1>4 DEF HostedTyped
<1>8. new \in JobRecord /\ JobHolds(new)'
  <2>1. CASE new = [NewJob EXCEPT !.at = "failed"]
    BY <2>1, FailedRecord
  <2>2. CASE new = [j EXCEPT !.at = "url", !.uploaded = TRUE]
    <3>1. /\ new \in JobRecord /\ new.at = "url" /\ new.path = path /\ new.source = j.source
          /\ new.body = j.body /\ new.ts = j.ts /\ new.until = j.until /\ new.seen = j.seen
          /\ new.clean = j.clean
      BY <1>0, <1>2, <2>2 DEF JobRecord, JobPoints
    <3>2. PathOf(new)' /\ UNCHANGED new
      BY <1>2, <1>4, <3>1 DEF PathOf
    <3>3. JobHolds(new)'
      BY <1>3, <1>4, <1>7, <3>1, <3>2 DEF JobHolds, Worked, Ended
    <3> QED BY <3>1, <3>3
  <2> QED BY <1>6, <2>1, <2>2
<1>9. /\ job' \in [Publishes -> JobRecord]
      /\ \A q \in Publishes : JobHolds(job[q])'
  <2>1. \A g \in Paths : \/ files'[g] = files[g]
                         \/ g = path /\ g \in Slots /\ others = Disturbed(p, path)
                         \/ g \in Images /\ files[g].content = 0
    BY <1>3
  <2>2. \A g \in Inside : bos'[g] = bos[g] \/ (g = path /\ bos'[g] # 0 /\ others = Disturbed(p, path))
    BY <1>4, <1>5, <1>7
  <2>3. /\ \A g \in loose \ loose' : bos[g] = files[g].content
        /\ hour' = hour
    BY <1>3
  <2>4. job' = [others EXCEPT ![p] = new] /\ (others = job \/ others = Disturbed(p, path))
    BY <1>5, <1>6
  <2> QED BY <1>8, <2>1, <2>2, <2>3, <2>4, ActorStep
<1>10. HostedTyped'
  BY <1>0, <1>3, <1>4, <1>7, <1>9 DEF HostedTyped
<1>11. ImagesHold'
  <2> SUFFICES ASSUME NEW g \in Images PROVE files'[g].content \in {0, g[2]} /\ bos'[g] \in {0, g[2]}
    BY DEF ImagesHold
  <2>1. g \in Inside
    BY PathKinds
  <2> QED BY <1>0, <1>3, <1>4, <1>7, <2>1 DEF ImagesHold
<1>12. RowsHold'
  <2> SUFFICES ASSUME NEW g \in Inside
               PROVE  /\ hosted[g] # NoHosted =>
                           /\ hosted[g].md5 \in Contents /\ hosted[g].until >= hosted[g].expires
                           /\ g \in Images => bos'[g] = g[2]
                      /\ hosted[g].out \in OutsidePaths => g \in Slots
    BY <1>3 DEF RowsHold
  <2>1. g = path => (g \in Images => bos'[g] = g[2])
    BY <1>4, <1>7
  <2> QED BY <1>0, <1>7, <2>1 DEF RowsHold
<1>13. RowsServe'
  BY <1>0, <1>3, <1>7 DEF RowsServe
<1> QED BY <1>9, <1>10, <1>11, <1>12, <1>13 DEF HostedInv

LEMMA StoreRowHolds ==
  ASSUME HostedInv, NEW p \in Publishes, StoreRow(p)
  PROVE  HostedInv'
<1>1. PICK j : j = job[p]
  OBVIOUS
<1>0. HostedTyped /\ ImagesHold /\ RowsHold /\ RowsServe /\ JobHolds(j) /\ j \in JobRecord
  BY <1>1, JobTypes DEF HostedInv
<1>2. PICK path : path = j.path
  OBVIOUS
<1>3. j.at = "store" /\ UNCHANGED <<files, bos, hour>>
  BY <1>1 DEF StoreRow
<1>4. /\ PathOf(j) /\ path \in Inside /\ path \in Paths /\ j.source \in Paths
      /\ j.body \in Contents /\ bos[path] # 0
      /\ files[j.source].content \in j.seen /\ j.ts \in Nat /\ j.until \in Nat
      /\ j.until >= j.ts + LifetimeOf(path)
  <2>1. PathOf(j) /\ j.body \in Contents
    BY <1>0, <1>3 DEF JobHolds, Worked
  <2>2. path \in Inside /\ path \in Paths /\ j.source \in Paths
    BY <1>2, <2>1, PathKinds DEF PathOf
  <2> QED BY <1>0, <1>2, <1>3, <2>1, <2>2 DEF JobHolds, Ended, JobRecord
<1>5. /\ path \in Images =>
           files[path].content = path[2] /\ j.body = path[2] /\ j.source = path /\ bos[path] = j.body
      /\ j.clean => j.body \in j.seen /\ files[path].content = j.body
      /\ j.clean /\ (j.uploaded \/ path \notin loose) => bos[path] = j.body
      /\ j.source[1] = "image" => path \in Images
  <2>1. /\ path \in Images => files[path].content = path[2] /\ j.body = path[2]
        /\ j.clean => j.body \in j.seen /\ files[path].content = j.body
        /\ j.clean /\ (j.uploaded \/ path \notin loose) => bos[path] = j.body
    BY <1>0, <1>2, <1>3 DEF JobHolds, Worked, Ended
  <2>2. /\ path \in Images => j.source = path
        /\ j.source[1] = "image" => path \in Images
    BY <1>2, <1>4, PathKinds DEF PathOf
  <2>3. path \in Images => bos[path] \in {0, path[2]}
    BY <1>0 DEF ImagesHold
  <2> QED BY <1>4, <2>1, <2>2, <2>3
<1>6. PICK row : row = RowFor(j)
  OBVIOUS
<1>7. /\ row \in HostedRow /\ row.md5 = j.body /\ row.until >= row.expires
      /\ row.out \in OutsidePaths => path \in Slots
  <2>1. PICK out : out = IF j.source = path THEN NonePath ELSE j.source
    OBVIOUS
  <2>2. PICK expires : expires = j.ts + LifetimeOf(path)
    OBVIOUS
  <2>3. row = [md5 |-> j.body, out |-> out, until |-> j.until, expires |-> expires, updated |-> j.ts]
    BY <1>2, <1>6, <2>1, <2>2 DEF RowFor, Expires, NonePath
  <2>4. expires \in Nat /\ j.until >= expires
    BY <1>4, <2>2, Lifetimes
  <2>5. out \in OutsidePaths \cup {NonePath} /\ (out \in OutsidePaths => path \in Slots)
    BY <1>2, <1>4, <2>1, PathKinds DEF PathOf
  <2>6. row \in HostedRow
    BY <1>4, <2>3, <2>4, <2>5 DEF HostedRow
  <2> QED BY <2>3, <2>4, <2>5, <2>6
<1>8. \/ /\ hosted' = [hosted EXCEPT ![path] = row]
         /\ loose' = IF ~j.clean THEN loose \cup {path}
                     ELSE IF j.uploaded THEN loose \ {path} ELSE loose
      \/ UNCHANGED <<hosted, loose>>
  BY <1>1, <1>2, <1>6 DEF StoreRow
<1>9. /\ loose' \subseteq Inside
      /\ \A g \in loose \ loose' : bos[g] = files[g].content
      /\ \A g \in Inside : g # path => (g \in loose' <=> g \in loose)
      /\ j.clean /\ path \notin loose' => bos[path] = j.body
  <2>1. loose \subseteq Inside
    BY <1>0 DEF HostedTyped
  <2>2. CASE UNCHANGED <<hosted, loose>>
    BY <1>5, <2>1, <2>2
  <2>3. CASE loose' = IF ~j.clean THEN loose \cup {path}
                      ELSE IF j.uploaded THEN loose \ {path} ELSE loose
    <3>1. CASE ~j.clean
      BY <1>4, <2>1, <2>3, <3>1
    <3>2. CASE j.clean /\ j.uploaded
      BY <1>5, <2>1, <2>3, <3>2
    <3>3. CASE j.clean /\ ~j.uploaded
      BY <1>5, <2>1, <2>3, <3>3
    <3> QED BY <3>1, <3>2, <3>3
  <2> QED BY <1>8, <2>2, <2>3
<1>10. /\ hosted' \in [Inside -> HostedRow]
       /\ \A g \in Inside : hosted'[g] = hosted[g] \/ (g = path /\ hosted'[g] = row)
  BY <1>0, <1>4, <1>7, <1>8 DEF HostedTyped
<1>11. PICK new : new = Returned(j, j.body, j.until)
  OBVIOUS
<1>12. /\ new \in JobRecord /\ new.at = "returned" /\ new.source = j.source /\ new.path = j.path
       /\ new.ts = j.ts /\ new.until = j.until /\ (new.clean => j.clean)
       /\ bos[j.path] = j.body => new.serves
       /\ j.body \in j.seen => new.genuine
       /\ new.known => j.path \notin loose'
  <2>1. PICK body : body = j.body
    OBVIOUS
  <2>2. PICK until \in Nat : until = j.until
    BY <1>4
  <2>3. new = Returned(j, body, until)
    BY <1>11, <2>1, <2>2
  <2>4. /\ new \in JobRecord /\ new.at = "returned" /\ new.source = j.source /\ new.path = j.path
        /\ new.ts = j.ts /\ new.until = until /\ (new.clean => j.clean)
        /\ bos[j.path] = body => new.serves
        /\ body \in j.seen => new.genuine
        /\ new.known => j.path \notin loose'
    BY <1>0, <2>3, ReturnedRecord
  <2> QED BY <2>1, <2>2, <2>4
<1>13. new \in JobRecord /\ JobHolds(new)'
  <2>1. PathOf(new)' /\ UNCHANGED new
    BY <1>4, <1>12 DEF PathOf
  <2>2. new.until > new.ts + Skew
    BY <1>4, <1>12, Lifetimes
  <2>3. /\ new.clean => new.genuine /\ (new.known => new.serves)
        /\ new.source[1] = "image" => new.serves /\ new.genuine
    BY <1>2, <1>4, <1>5, <1>9, <1>12
  <2>4. JobHolds(new)'
    BY <1>12, <2>1, <2>2, <2>3 DEF JobHolds, Worked, Ended
  <2> QED BY <1>12, <2>4
<1>14. /\ job' \in [Publishes -> JobRecord]
       /\ \A q \in Publishes : JobHolds(job[q])'
  <2>1. PICK others : others = job
    OBVIOUS
  <2>2. \A g \in Paths : \/ files'[g] = files[g]
                         \/ g = path /\ g \in Slots /\ others = Disturbed(p, path)
                         \/ g \in Images /\ files[g].content = 0
    BY <1>3
  <2>3. \A g \in Inside : bos'[g] = bos[g] \/ (g = path /\ bos'[g] # 0 /\ others = Disturbed(p, path))
    BY <1>3
  <2>4. job' = [others EXCEPT ![p] = new] /\ (others = job \/ others = Disturbed(p, path))
    BY <1>1, <1>11, <2>1 DEF StoreRow
  <2>5. hour' = hour /\ \A g \in loose \ loose' : bos[g] = files[g].content
    BY <1>3, <1>9
  <2> QED BY <1>13, <2>2, <2>3, <2>4, <2>5, ActorStep
<1>15. HostedTyped' /\ ImagesHold'
  BY <1>0, <1>3, <1>9, <1>10, <1>14 DEF HostedTyped, ImagesHold
<1>16. RowsHold'
  <2> SUFFICES ASSUME NEW g \in Inside
               PROVE  /\ hosted'[g] # NoHosted =>
                           /\ hosted'[g].md5 \in Contents /\ hosted'[g].until >= hosted'[g].expires
                           /\ g \in Images => bos'[g] = g[2]
                      /\ hosted'[g].out \in OutsidePaths => g \in Slots
    BY DEF RowsHold
  <2>1. CASE g = path /\ hosted'[g] = row
    BY <1>3, <1>4, <1>5, <1>7, <2>1
  <2>2. CASE hosted'[g] = hosted[g]
    BY <1>0, <1>3, <2>2 DEF RowsHold
  <2> QED BY <1>10, <2>1, <2>2
<1>17. RowsServe'
  <2> SUFFICES ASSUME NEW g \in Inside, hosted'[g] # NoHosted, g \notin loose'
               PROVE  bos'[g] = hosted'[g].md5
    BY DEF RowsServe
  <2>1. CASE g # path
    BY <1>0, <1>3, <1>9, <1>10, <2>1 DEF RowsServe
  <2>2. CASE g = path /\ hosted' = [hosted EXCEPT ![path] = row] /\ j.clean
    BY <1>0, <1>3, <1>4, <1>7, <1>9, <2>2 DEF HostedTyped
  <2>3. CASE g = path /\ loose' = loose \cup {path}
    BY <2>3
  <2>4. CASE UNCHANGED <<hosted, loose>>
    BY <1>0, <1>3, <2>4 DEF RowsServe
  <2> QED BY <1>8, <2>1, <2>2, <2>3, <2>4
<1> QED BY <1>14, <1>15, <1>16, <1>17 DEF HostedInv
LEMMA EditHolds ==
  ASSUME HostedInv, NEW f \in OutsidePaths \cup OwnPaths, NEW v \in Contents, Edit(f, v)
  PROVE  HostedInv'
<1>0. /\ HostedTyped /\ ImagesHold /\ RowsHold /\ RowsServe /\ hour \in Nat
      /\ f \in Paths /\ f \notin Images /\ f \notin Slots /\ v # 0
  BY PathKinds, HostedAssumption DEF HostedInv, HostedTyped
<1>1. /\ files' = [files EXCEPT ![f] = [content |-> v, mtime |-> hour]]
      /\ UNCHANGED <<bos, hosted, hour, loose>>
  BY DEF Edit
<1>2. job' = [p \in Publishes |->
                IF ~Active(p) \/ job[p].source # f THEN job[p]
                ELSE [job[p] EXCEPT !.seen = @ \cup {v}, !.clean = @ /\ job[p].path # f]]
  BY DEF Edit
<1>3. /\ files' \in [Paths -> FileRecord] /\ files'[f].content = v
      /\ \A g \in Paths : g # f => files'[g] = files[g]
  <2>1. [content |-> v, mtime |-> hour] \in FileRecord
    BY <1>0 DEF HostedTyped, FileRecord
  <2> QED BY <1>0, <1>1, <2>1 DEF HostedTyped
<1>4. ASSUME NEW q \in Publishes PROVE job'[q] \in JobRecord /\ JobHolds(job[q])'
  <2>1. PICK j : j = job[q]
    OBVIOUS
  <2>2. PICK new : new = job'[q]
    OBVIOUS
  <2>3. JobHolds(j) /\ j \in JobRecord
    BY <1>0, <2>1, JobTypes DEF HostedInv
  <2>4. j.at \notin {"new"} \cup Ended => PathOf(j) /\ files[j.source].content \in j.seen
    BY <2>3 DEF JobHolds, Ended
  <2>5. CASE j.at \in {"new"} \cup Ended \/ j.source # f
    <3>1. new = j
      BY <1>2, <2>1, <2>2, <2>5 DEF Active
    <3>2. ASSUME j.at \notin {"new"} \cup Ended
          PROVE  files'[j.source] = files[j.source] /\ files'[j.path] = files[j.path]
      <4>1. PathOf(j) /\ j.source # f
        BY <2>4, <2>5, <3>2
      <4>2. j.path # f /\ j.path \in Paths /\ j.source \in Paths
        BY <1>0, <4>1, PathKinds DEF PathOf
      <4> QED BY <1>3, <4>1, <4>2
    <3>3. j.at \notin {"new"} \cup Ended =>
           /\ files'[j.source].content \in j.seen
           /\ j.path \in Images => files'[j.path].content = files[j.path].content
           /\ bos[j.path] # 0 => bos'[j.path] # 0
           /\ new.clean => /\ files'[j.path].content = files[j.path].content
                           /\ bos'[j.path] = bos[j.path]
                           /\ j.path \in loose \ loose' => bos[j.path] = files[j.path].content
      BY <1>1, <2>4, <3>2
    <3>4. hour' \in Nat /\ hour <= hour'
      BY <1>0, <1>1
    <3>5. new \in JobRecord /\ JobHolds(new)'
      BY <2>1, <3>1, <3>3, <3>4, OtherJob
    <3> QED BY <2>2, <3>5
  <2>6. CASE j.at \notin {"new"} \cup Ended /\ j.source = f
    <3>1. PICK seen : seen = j.seen \cup {v}
      OBVIOUS
    <3>2. PICK clean \in BOOLEAN : clean = (j.clean /\ j.path # f)
      <4>1. (j.clean /\ j.path # f) \in BOOLEAN
        OBVIOUS
      <4> QED BY <4>1, Zenon
    <3>3. new = [j EXCEPT !.seen = seen, !.clean = clean]
      <4>1. new = [j EXCEPT !.seen = j.seen \cup {v}, !.clean = j.clean /\ j.path # f]
        <5>1. new = IF ~Active(q) \/ j.source # f THEN j
                    ELSE [j EXCEPT !.seen = j.seen \cup {v}, !.clean = j.clean /\ j.path # f]
          BY <1>2, <2>1, <2>2, Zenon
        <5>2. Active(q) /\ j.source = f
          BY <2>1, <2>6 DEF Active
        <5> QED BY <5>1, <5>2, Zenon
      <4> QED BY <3>1, <3>2, <4>1, Zenon
    <3>4. /\ new \in JobRecord /\ new.at = j.at /\ new.source = f /\ new.path = j.path
          /\ new.body = j.body /\ new.ts = j.ts /\ new.until = j.until /\ new.seen = seen
          /\ new.uploaded = j.uploaded /\ new.clean = clean
      <4>1. seen \subseteq Contents \cup {0}
        BY <2>3, <3>1 DEF JobRecord
      <4> QED BY <2>3, <2>6, <3>3, <4>1 DEF JobRecord
    <3>5. clean => j.path # f /\ j.clean
      BY <3>2
    <3>6. PathOf(j) /\ j.path \notin Images /\ j.path \in Paths
      BY <1>0, <2>4, <2>6, PathKinds DEF PathOf
    <3>7. PathOf(new)' /\ UNCHANGED <<new, LifetimeOf(j.path)>>
      BY <2>6, <3>4, <3>6 DEF PathOf, LifetimeOf
    <3>8. /\ j.seen \subseteq seen /\ v \in seen
          /\ clean => files'[j.path] = files[j.path]
      BY <1>3, <3>1, <3>5, <3>6
    <3>9. JobHolds(new)'
      BY <1>1, <1>3, <2>3, <2>6, <3>4, <3>5, <3>6, <3>7, <3>8 DEF JobHolds, Worked, Ended
    <3> QED BY <2>2, <3>4, <3>9
  <2> QED BY <2>5, <2>6
<1>5. job' \in [Publishes -> JobRecord]
  BY <1>2, <1>4
<1>6. HostedTyped' /\ RowsHold' /\ RowsServe'
  BY <1>0, <1>1, <1>3, <1>5 DEF HostedTyped, RowsHold, RowsServe
<1>7. ImagesHold'
  <2>1. \A g \in Images : files'[g] = files[g]
    BY <1>0, <1>3, PathKinds
  <2> QED BY <1>0, <1>1, <2>1 DEF ImagesHold
<1> QED BY <1>4, <1>6, <1>7 DEF HostedInv

LEMMA HourPassesHolds == HostedInv /\ HourPasses => HostedInv'
<1> SUFFICES ASSUME HostedInv, HourPasses PROVE HostedInv'
  OBVIOUS
<1>0. HostedTyped /\ ImagesHold /\ RowsHold /\ RowsServe /\ hour \in Nat
  BY HostedAssumption DEF HostedInv, HostedTyped
<1>1. hour' = hour + 1 /\ hour < MaxHour /\ UNCHANGED <<files, bos, hosted, job, loose>>
  BY DEF HourPasses
<1>2. HostedTyped' /\ ImagesHold' /\ RowsHold' /\ RowsServe'
  BY <1>0, <1>1, HostedAssumption DEF HostedTyped, ImagesHold, RowsHold, RowsServe
<1>3. ASSUME NEW q \in Publishes PROVE JobHolds(job[q])'
  <2>1. PICK j : j = job[q]
    OBVIOUS
  <2>2. JobHolds(j)
    BY <2>1 DEF HostedInv
  <2>3. j.at \notin {"new"} \cup Ended =>
         /\ files'[j.source].content \in j.seen
         /\ j.path \in Images => files'[j.path].content = files[j.path].content
         /\ bos[j.path] # 0 => bos'[j.path] # 0
         /\ j.clean => /\ files'[j.path].content = files[j.path].content
                       /\ bos'[j.path] = bos[j.path]
                       /\ j.path \in loose \ loose' => bos[j.path] = files[j.path].content
    BY <1>1, <2>2 DEF JobHolds
  <2>4. hour' \in Nat /\ hour <= hour'
    BY <1>0, <1>1
  <2>5. PICK new : new = j
    OBVIOUS
  <2>6. JobHolds(new)'
    BY <2>1, <2>3, <2>4, <2>5, OtherJob
  <2> QED BY <1>1, <2>1, <2>5, <2>6
<1> QED BY <1>2, <1>3 DEF HostedInv

LEMMA HostedStepHolds == HostedInv /\ [HostedNext]_hostedVars => HostedInv'
<1> SUFFICES ASSUME HostedInv, [HostedNext]_hostedVars PROVE HostedInv'
  OBVIOUS
<1>1. ASSUME NEW p \in Publishes,
             \/ \E f \in OutsidePaths : BeginOutside(p, f)
             \/ \E f \in OwnPaths : BeginOwn(p, f)
             \/ \E v \in Contents : BeginImage(p, v)
             \/ Copy(p) \/ Look(p) \/ Upload(p) \/ GetUrl(p) \/ Verify(p) \/ RequestFails(p)
             \/ StoreRow(p)
      PROVE  HostedInv'
  <2>1. CASE \E f \in OutsidePaths : BeginOutside(p, f)
    BY <2>1, BeginOutsideHolds
  <2>2. CASE \E f \in OwnPaths : BeginOwn(p, f)
    BY <2>2, BeginOwnHolds
  <2>3. CASE \E v \in Contents : BeginImage(p, v)
    BY <2>3, BeginImageHolds
  <2>4. CASE Copy(p)
    BY <2>4, CopyHolds
  <2>5. CASE Look(p)
    BY <2>5, LookHolds
  <2>6. CASE Upload(p)
    BY <2>6, UploadHolds
  <2>7. CASE GetUrl(p)
    BY <2>7, GetUrlHolds
  <2>8. CASE Verify(p)
    BY <2>8, VerifyHolds
  <2>9. CASE RequestFails(p)
    <3>1. /\ job' = [job EXCEPT ![p] = [NewJob EXCEPT !.at = "failed"]]
          /\ UNCHANGED <<files, bos, hosted, hour, loose>>
      BY <2>9 DEF RequestFails
    <3> QED BY <3>1, FailureHolds
  <2>10. CASE StoreRow(p)
    BY <2>10, StoreRowHolds
  <2> QED BY <1>1, <2>1, <2>2, <2>3, <2>4, <2>5, <2>6, <2>7, <2>8, <2>9, <2>10
<1>2. CASE \E f \in OutsidePaths \cup OwnPaths, v \in Contents : Edit(f, v)
  BY <1>2, EditHolds
<1>3. CASE HourPasses
  BY <1>3, HourPassesHolds
<1>4. CASE UNCHANGED hostedVars
  BY <1>4 DEF hostedVars, HostedInv, HostedTyped, ImagesHold, RowsHold, RowsServe, JobHolds,
              PathOf, LifetimeOf
<1> QED BY <1>1, <1>2, <1>3, <1>4 DEF HostedNext

LEMMA HostedInvServes == HostedInv => PublishedIsServed
<1> SUFFICES ASSUME HostedInv PROVE PublishedIsServed
  OBVIOUS
<1>0. HostedTyped /\ RowsHold /\ RowsServe
  BY DEF HostedInv
<1>1. ASSUME NEW p \in Publishes
      PROVE  /\ job[p].at \in JobPoints
             /\ job[p].at \notin {"new", "failed"} => job[p].path \in Inside
             /\ job[p].at \in {"upload", "url", "verify", "store"} => job[p].body \in Contents
             /\ job[p].at = "returned" =>
                  /\ job[p].until > job[p].ts + Skew
                  /\ job[p].clean => job[p].genuine /\ (job[p].known => job[p].serves)
                  /\ job[p].source[1] = "image" => job[p].serves /\ job[p].genuine
  <2>1. PICK j : j = job[p]
    OBVIOUS
  <2>2. JobHolds(j) /\ j.at \in JobPoints
    BY <1>0, <2>1, JobTypes DEF HostedInv
  <2>3. /\ j.at \in JobPoints
        /\ j.at \notin {"new", "failed"} => j.path \in Inside
        /\ j.at \in {"upload", "url", "verify", "store"} => j.body \in Contents
        /\ j.at = "returned" =>
             /\ j.until > j.ts + Skew
             /\ j.clean => j.genuine /\ (j.known => j.serves)
             /\ j.source[1] = "image" => j.serves /\ j.genuine
    <3>1. PathOf(j) => j.path \in Inside
      BY PathKinds DEF PathOf
    <3> QED BY <2>2, <3>1 DEF JobHolds, Worked
  <2> QED BY <2>1, <2>3
<1>2. HostedTypeOK
  <2>1. \A f \in Paths : files[f].content \in Contents \cup {0} /\ files[f].mtime \in 0..MaxHour
    BY <1>0 DEF HostedTyped, FileRecord
  <2>2. \A f \in Inside : hosted[f] # NoHosted =>
          hosted[f].md5 \in Contents /\ hosted[f].out \in OutsidePaths \cup {<<"none", 0>>}
    BY <1>0 DEF HostedTyped, HostedRow, RowsHold, NonePath
  <2> QED BY <1>0, <1>1, <2>1, <2>2 DEF HostedTypeOK, HostedTyped
<1> QED BY <1>0, <1>1, <1>2
        DEF PublishedIsServed, PublishesTheSource, ImagesKeepTheirUrl, UrlOutlivesSkew

(* What a publish returns leads to what was given to it, whatever other    *)
(* publishes, edits and failures come between its steps, for every number  *)
(* of them and of files (file_to_url.py:259-381).                          *)
THEOREM PublishedStaysServed == HostedSpec => []PublishedIsServed
<1>1. HostedInit => HostedInv
  BY HostedInitHolds
<1>2. HostedInv /\ [HostedNext]_hostedVars => HostedInv'
  BY HostedStepHolds
<1>3. HostedInv => PublishedIsServed
  BY HostedInvServes
<1> QED BY <1>1, <1>2, <1>3, PTL DEF HostedSpec
=============================================================================
