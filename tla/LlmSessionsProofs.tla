-------------------------- MODULE LlmSessionsProofs --------------------------
(***************************************************************************)
(* Proofs about LlmSessions, for any chats, sessions, messages and bounds. *)
(*                                                                         *)
(* BelowCursorTold is not inductive: the cursor moves to a turn's message  *)
(* when the turn completes, but what was announced with it was read when   *)
(* the turn began.  The invariant says why nothing is missed between the   *)
(* two: a row that is written in the meantime does not precede the turn's  *)
(* message unless it is late, and what preceded it then was announced or   *)
(* already told.                                                           *)
(***************************************************************************)
EXTENDS LlmSessions, FiniteSetTheorems, SequenceTheorems, TLAPS

\* Turns and queued events are delivered rows of the session that works on
\* them, and a run that succeeded had its context applied.
TurnsAreOwn ==
  /\ delivered \subseteq written /\ applied \subseteq delivered
  /\ \A s \in Sessions : turn[s] # NoMsg => turn[s] \in delivered /\ SessionOf[turn[s]] = s
  /\ \A s \in Sessions : \A m \in pending[s] : m \in delivered /\ SessionOf[m] = s
  /\ \A s \in Sessions : phase[s] = "succeeded" /\ Standard(turn[s]) => turn[s] \in applied

\* The cursor is a written row of the session.
CursorIsOwn ==
  \A s \in Sessions : cursor[s] # NoMsg => cursor[s] \in written /\ SessionOf[cursor[s]] = s

\* What was steered was delivered, once.
ScopesAreDelivered ==
  /\ \A s \in Sessions : \A i \in DOMAIN scope[s] : scope[s][i] \in delivered
  /\ \A s \in Sessions : \A i, j \in DOMAIN scope[s] : scope[s][i] = scope[s][j] => i = j
  /\ \A s \in Sessions : token[s] # NoMsg => token[s] \in delivered

\* A switch is announced by the turn that made it.
SilentUntilAnnounced ==
  \A s \in silent : phase[s] = "resetting" \/ (phase[s] = "ready" /\ turn[s] \in boundary)

\* What precedes an event whose context was applied is announced with it or was
\* told before.
AppliedIsWhole ==
  \A m \in applied \cap stored : \A n \in stored \ (Local \cup late) :
    ChatOf[n] = ChatOf[m] /\ Precedes(n, m) => n \in announced[m] \cup told[SessionOf[m]]

IInv ==
  /\ TypeOK /\ TurnsAreOwn /\ CursorIsOwn /\ ScopesAreDelivered /\ SteersOfLiveRun
  /\ SilentUntilAnnounced /\ AppliedIsWhole /\ BelowCursorTold

-----------------------------------------------------------------------------
(* The order of the rows, and the reply scope *)

\* Created and IdRank order the rows: strictly, and any two of them.
LEMMA PrecedesOrders ==
  ASSUME NEW m \in Msgs, NEW n \in Msgs
  PROVE  /\ m = n \/ Precedes(m, n) \/ Precedes(n, m)
         /\ ~Precedes(m, m)
         /\ ~(Precedes(m, n) /\ Precedes(n, m))
<1>1. /\ Created[m] \in Nat /\ Created[n] \in Nat /\ IdRank[m] \in Nat /\ IdRank[n] \in Nat
      /\ IdRank[m] = IdRank[n] => m = n
  BY MessageAssumption
<1> QED BY <1>1 DEF Precedes

\* A message is added to a scope once, and the oldest ones are let go.
LEMMA ScopedKeeps ==
  ASSUME NEW s \in Sessions, NEW m \in Msgs, scope[s] \in Seq(Msgs),
         \A i, j \in DOMAIN scope[s] : scope[s][i] = scope[s][j] => i = j
  PROVE  LET new == Scoped(s, m) IN
         /\ new \in Seq(Msgs)
         /\ \A i \in DOMAIN new : new[i] = m \/ \E k \in DOMAIN scope[s] : new[i] = scope[s][k]
         /\ \A i, j \in DOMAIN new : new[i] = new[j] => i = j
<1> DEFINE old == scope[s]
           ids == IF \E i \in DOMAIN old : old[i] = m THEN old ELSE Append(old, m)
           cut == IF Len(ids) > ScopeLimit THEN Len(ids) - ScopeLimit ELSE 0
           new == SubSeq(ids, cut + 1, Len(ids))
<1>1. /\ old \in Seq(Msgs) /\ Len(old) \in Nat /\ DOMAIN old = 1 .. Len(old)
  BY LenProperties
<1>2. /\ ids \in Seq(Msgs)
      /\ \A i \in DOMAIN ids : ids[i] = m \/ \E k \in DOMAIN old : ids[i] = old[k]
      /\ \A i, j \in DOMAIN ids : ids[i] = ids[j] => i = j
  <2>1. CASE \E i \in DOMAIN old : old[i] = m
    BY <1>1, <2>1
  <2>2. CASE ~\E i \in DOMAIN old : old[i] = m
    <3> DEFINE app == Append(old, m)
    <3>1. /\ app \in Seq(Msgs) /\ Len(app) = Len(old) + 1
          /\ \A i \in 1 .. Len(old) : app[i] = old[i]
          /\ app[Len(old) + 1] = m
      BY <1>1, AppendProperties
    <3>2. DOMAIN app = 1 .. Len(old) + 1
      BY <3>1, LenProperties
    <3> HIDE DEF app
    <3>3. \A i \in DOMAIN app : i = Len(old) + 1 \/ i \in DOMAIN old
      BY <1>1, <3>2
    <3>4. \A i \in DOMAIN app : app[i] = m \/ \E k \in DOMAIN old : app[i] = old[k]
      BY <1>1, <3>1, <3>3
    <3>5. \A i, j \in DOMAIN app : app[i] = app[j] => i = j
      BY <1>1, <2>2, <3>1, <3>3
    <3> QED BY <2>2, <3>1, <3>4, <3>5 DEF app
  <2> QED BY <2>1, <2>2
<1>3. /\ Len(ids) \in Nat /\ DOMAIN ids = 1 .. Len(ids)
      /\ \A i \in 1 .. Len(ids) : ids[i] \in Msgs
  BY <1>2, LenProperties, ElementOfSeq
<1> HIDE DEF ids
<1>4. cut \in Nat /\ cut <= Len(ids)
  BY <1>3, BoundAssumption
<1> HIDE DEF cut
<1>5. \A i \in cut + 1 .. Len(ids) : ids[i] \in Msgs
  BY <1>3, <1>4
<1>6. /\ new \in Seq(Msgs)
      /\ Len(new) = IF cut + 1 <= Len(ids) THEN Len(ids) - (cut + 1) + 1 ELSE 0
      /\ \A i \in 1 .. Len(ids) - (cut + 1) + 1 : new[i] = ids[(cut + 1) + i - 1]
  <2>1. cut + 1 \in Int /\ Len(ids) \in Int
    BY <1>3, <1>4
  <2> QED BY <1>5, <2>1, SubSeqProperties
<1>7. DOMAIN new = 1 .. Len(new)
  BY <1>6, LenProperties
<1> HIDE DEF new
<1>8. \A i \in DOMAIN new : i \in Nat /\ cut + i \in DOMAIN ids /\ new[i] = ids[cut + i]
  <2> SUFFICES ASSUME NEW i \in DOMAIN new
               PROVE  i \in Nat /\ cut + i \in DOMAIN ids /\ new[i] = ids[cut + i]
    OBVIOUS
  <2>1. /\ i \in Nat /\ i >= 1 /\ i <= Len(ids) - cut
        /\ (cut + 1) + i - 1 = cut + i
    BY <1>3, <1>4, <1>6, <1>7
  <2>2. i \in 1 .. Len(ids) - (cut + 1) + 1 /\ cut + i \in 1 .. Len(ids)
    BY <1>3, <1>4, <2>1
  <2> QED BY <1>3, <1>6, <2>1, <2>2
<1>9. \A i, j \in DOMAIN new : new[i] = new[j] => i = j
  BY <1>2, <1>4, <1>8
<1>10. \A i \in DOMAIN new : new[i] = m \/ \E k \in DOMAIN old : new[i] = old[k]
  BY <1>2, <1>8
<1>11. new = Scoped(s, m)
  BY DEF new, ids, cut, Scoped
<1> QED BY <1>6, <1>9, <1>10, <1>11

-----------------------------------------------------------------------------
LEMMA InitHolds == Init => IInv
<1> SUFFICES ASSUME Init PROVE IInv
  OBVIOUS
<1> USE MessageAssumption DEF Init
<1>1. TypeOK
  BY EmptySeq DEF TypeOK, Phases
<1>2. /\ TurnsAreOwn /\ CursorIsOwn /\ SteersOfLiveRun /\ SilentUntilAnnounced
      /\ AppliedIsWhole /\ BelowCursorTold
  BY DEF TurnsAreOwn, CursorIsOwn, SteersOfLiveRun, SilentUntilAnnounced, AppliedIsWhole,
     BelowCursorTold
<1>3. ScopesAreDelivered
  BY DEF ScopesAreDelivered
<1> QED BY <1>1, <1>2, <1>3 DEF IInv

-----------------------------------------------------------------------------
(* What a step may do *)

\* The sessions' phases, with the last conjunct of the type invariant by name.
PhasesFit ==
  \A s \in Sessions :
    /\ phase[s] = "none" <=> turn[s] = NoMsg
    /\ phase[s] \in {"ready", "running"} /\ turn[s] \notin Commands => turn[s] \in applied

LEMMA Typed ==
  ASSUME IInv
  PROVE  /\ written \subseteq Msgs /\ delivered \subseteq Msgs /\ applied \subseteq Msgs
         /\ turn \in [Sessions -> Msgs \cup {NoMsg}] /\ phase \in [Sessions -> Phases]
         /\ scope \in [Sessions -> Seq(Msgs)] /\ token \in [Sessions -> Msgs \cup {NoMsg}]
         /\ announced \in [Msgs -> SUBSET Msgs] /\ told \in [Sessions -> SUBSET Msgs]
         /\ cursor \in [Sessions -> Msgs \cup {NoMsg}]
         /\ steeredInto \in [Msgs -> Msgs \cup {NoMsg}]
         /\ pending \in [Sessions -> SUBSET Msgs]
         /\ epoch \in [Sessions -> Nat] /\ idle \subseteq Sessions /\ silent \subseteq Sessions
         /\ PhasesFit
  BY DEF IInv, TypeOK, PhasesFit

\* A reset is never due while the session's agent runs.
LEMMA SteerResetsNothing ==
  ASSUME NEW m \in Msgs, NEW processes \in BOOLEAN, Steer(m, processes)
  PROVE  UNCHANGED <<epoch, idle, silent>>
  BY DEF Steer, SteerCandidate, ResetDue, HasRunningWork

\* A steered message is a stored one that was not delivered before.
LEMMA SteerTakes ==
  ASSUME IInv, NEW m \in Msgs, NEW processes \in BOOLEAN, Steer(m, processes)
  PROVE  LET s == SessionOf[m] IN
         /\ s \in Sessions /\ phase[s] = "running" /\ turn[s] \in Msgs
         /\ m \in written /\ m \notin delivered
         /\ Scoped(s, m) \in Seq(Msgs)
<1> DEFINE s == SessionOf[m]
<1>1. s \in Sessions /\ phase[s] = "running" /\ m \in written /\ m \notin delivered
  BY MessageAssumption DEF Steer, SteerCandidate, stored
<1>2. turn[s] \in Msgs /\ scope[s] \in Seq(Msgs)
  BY <1>1, Typed DEF PhasesFit
<1>3. Scoped(s, m) \in Seq(Msgs)
  BY <1>1, <1>2, ScopedKeeps DEF IInv, ScopesAreDelivered
<1> QED BY <1>1, <1>2, <1>3

LEMMA UnreadAreMessages ==
  ASSUME IInv, NEW s \in Sessions, NEW m \in Msgs
  PROVE  UnreadContext(s, m) \subseteq Msgs
  BY DEF IInv, TypeOK, UnreadContext, Between, stored

LEMMA MarkIsCursor ==
  ASSUME IInv, NEW s \in Sessions, NEW m \in Msgs
  PROVE  /\ MarkVisible(s, m) \in [Sessions -> Msgs \cup {NoMsg}]
         /\ \A x \in Sessions \ {s} : MarkVisible(s, m)[x] = cursor[x]
         /\ \/ MarkVisible(s, m)[s] = cursor[s]
            \/ MarkVisible(s, m)[s] = m /\ m \in stored /\ After(s, m)
  BY DEF IInv, TypeOK, MarkVisible

LEMMA TypeStep == IInv /\ [Next]_vars => TypeOK'
<1> SUFFICES ASSUME IInv, [Next]_vars PROVE TypeOK'
  OBVIOUS
<1> USE DEF Phases, store, steers, resets, context, tasks, stored
<1>0. /\ TypeOK /\ TurnsAreOwn /\ NoMsg \notin Msgs
      /\ SessionOf \in [Msgs -> Sessions] /\ Created \in [Msgs -> Nat]
  BY MessageAssumption DEF IInv
<1>a. /\ announced \in [Msgs -> SUBSET Msgs] /\ told \in [Sessions -> SUBSET Msgs]
      /\ scope \in [Sessions -> Seq(Msgs)] /\ token \in [Sessions -> Msgs \cup {NoMsg}]
      /\ steeredInto \in [Msgs -> Msgs \cup {NoMsg}]
      /\ delivered \subseteq Msgs /\ applied \subseteq Msgs
  BY Typed
<1>b. /\ epoch \in [Sessions -> Nat] /\ idle \subseteq Sessions /\ silent \subseteq Sessions
  BY Typed
<1>1. CASE \E m \in Msgs : Store(m)
  BY <1>0, <1>1 DEF Store, TypeOK
<1>2. CASE \E m \in Msgs : Trim(m)
  BY <1>0, <1>2 DEF Trim, TypeOK
<1>3. CASE \E m \in Msgs : Deliver(m)
  <2>1. PICK m \in Msgs : Deliver(m)
    BY <1>3
  <2>2. PICK s \in Sessions : s = SessionOf[m]
    BY <1>0
  <2>3. /\ turn' = [turn EXCEPT ![s] = m] /\ phase' = [phase EXCEPT ![s] = "starting"]
        /\ delivered' = delivered \cup {m} /\ UNCHANGED <<store, steers, resets, context, pending, idle>>
    BY <2>1, <2>2 DEF Deliver, StartTurn
  <2> QED BY <1>0, <2>3 DEF TypeOK
<1>4. CASE \E m \in Msgs : Queue(m)
  BY <1>0, <1>4 DEF Queue, TypeOK
<1>5. CASE \E m \in Msgs, processes \in BOOLEAN : Steer(m, processes)
  <2>1. PICK m \in Msgs, processes \in BOOLEAN : Steer(m, processes)
    BY <1>5
  <2>2. UNCHANGED <<epoch, idle, silent, store, boundary, turn, phase, pending>>
    BY <2>1, SteerResetsNothing DEF Steer
  <2>3. PICK s \in Sessions : s = SessionOf[m]
    BY <1>0
  <2>4. /\ turn[s] \in Msgs /\ Scoped(s, m) \in Seq(Msgs)
        /\ UnreadContext(s, m) \subseteq Msgs
        /\ MarkVisible(s, m) \in [Sessions -> Msgs \cup {NoMsg}]
    BY <2>1, <2>3, SteerTakes, UnreadAreMessages, MarkIsCursor
  <2>5. /\ delivered' = delivered \cup {m} /\ applied' = applied \cup {m}
        /\ announced' = [announced EXCEPT ![m] = UnreadContext(s, m)]
        /\ token' = token \/ token' = [token EXCEPT ![s] = m]
        /\ scope' = [scope EXCEPT ![s] = Scoped(s, m)]
        /\ steeredInto' = [steeredInto EXCEPT ![m] = turn[s]]
        /\ cursor' = MarkVisible(s, m)
        /\ told' = [told EXCEPT ![s] = @ \cup {m} \cup announced'[m]]
    BY <2>1, <2>3 DEF Steer, ApplyContext, Told
  <2>6. announced' \in [Msgs -> SUBSET Msgs] /\ announced'[m] \subseteq Msgs
    BY <1>0, <2>4, <2>5 DEF TypeOK
  <2>7. /\ told' \in [Sessions -> SUBSET Msgs] /\ scope' \in [Sessions -> Seq(Msgs)]
        /\ token' \in [Sessions -> Msgs \cup {NoMsg}]
        /\ steeredInto' \in [Msgs -> Msgs \cup {NoMsg}]
        /\ delivered' \subseteq Msgs /\ applied' \subseteq Msgs
    <3>1. /\ told' \in [Sessions -> SUBSET Msgs] /\ delivered' \subseteq Msgs
          /\ applied' \subseteq Msgs
      BY <1>a, <2>5, <2>6
    <3>2. scope' \in [Sessions -> Seq(Msgs)]
      BY <1>a, <2>4, <2>5
    <3>3. /\ token' \in [Sessions -> Msgs \cup {NoMsg}]
          /\ steeredInto' \in [Msgs -> Msgs \cup {NoMsg}]
      BY <1>a, <2>4, <2>5
    <3> QED BY <3>1, <3>2, <3>3
  <2>8. PhasesFit'
    BY <1>0, <2>2, <2>5 DEF TypeOK, PhasesFit
  <2> QED BY <1>0, <2>2, <2>4, <2>5, <2>6, <2>7, <2>8 DEF TypeOK, PhasesFit
<1>6. CASE \E s \in Sessions, processes \in BOOLEAN : StartHook(s, processes)
  <2>1. PICK s \in Sessions, processes \in BOOLEAN : StartHook(s, processes)
    BY <1>6
  <2>2. turn[s] \in Msgs /\ UnreadContext(s, turn[s]) \subseteq Msgs
    BY <1>0, <2>1, UnreadAreMessages DEF StartHook, TypeOK
  <2>3. UNCHANGED <<store, steers, delivered, turn, pending, cursor, told, boundary>>
    BY <2>1 DEF StartHook, ApplyContext, ResetSession
  <2>4. /\ announced' \in [Msgs -> SUBSET Msgs] /\ applied \subseteq applied'
        /\ applied' \subseteq Msgs
    <3>1. /\ announced' = announced \/
               announced' = [announced EXCEPT ![turn[s]] = UnreadContext(s, turn[s])]
          /\ applied' = applied \/ applied' = applied \cup {turn[s]}
      BY <2>1 DEF StartHook, ApplyContext
    <3>2. announced' \in [Msgs -> SUBSET Msgs]
      <4>1. PICK m \in Msgs, unread \in SUBSET Msgs :
               m = turn[s] /\ unread = UnreadContext(s, turn[s])
        BY <2>2
      <4>2. announced' = announced \/ announced' = [announced EXCEPT ![m] = unread]
        BY <3>1, <4>1
      <4> QED BY <1>a, <4>2
    <3> QED BY <1>a, <2>2, <3>1, <3>2
  <2>5. /\ epoch' \in [Sessions -> Nat] /\ idle' \subseteq Sessions /\ silent' \subseteq Sessions
    <3>1. \/ UNCHANGED <<epoch, idle, silent>>
          \/ /\ epoch' = [epoch EXCEPT ![s] = @ + 1]
             /\ idle' = idle \ {s} /\ silent' = silent \cup {s}
      BY <2>1 DEF StartHook, ResetSession
    <3> QED BY <1>b, <3>1
  <2>6. PICK p \in {"ready", "resetting"} :
           /\ phase' = [phase EXCEPT ![s] = p]
           /\ p = "ready" => turn[s] \in Commands \/ turn[s] \in applied'
    BY <2>1 DEF StartHook, ApplyContext, NeedsContext, Standard
  <2>7. phase' \in [Sessions -> Phases] /\ PhasesFit'
    <3>1. phase[s] = "starting"
      BY <2>1 DEF StartHook
    <3> QED BY <1>0, <2>2, <2>3, <2>4, <2>6, <3>1 DEF TypeOK, PhasesFit
  <2> QED BY <1>0, <2>3, <2>4, <2>5, <2>7 DEF TypeOK, PhasesFit
<1>7. CASE \E s \in Sessions : ResetHooksReturn(s)
  <2>1. PICK s \in Sessions : ResetHooksReturn(s)
    BY <1>7
  <2>2. turn[s] \in Msgs /\ UnreadContext(s, turn[s]) \subseteq Msgs
    BY <1>0, <2>1, UnreadAreMessages DEF ResetHooksReturn, TypeOK
  <2> QED BY <1>0, <2>1, <2>2 DEF ResetHooksReturn, ApplyContext, TypeOK
<1>8. CASE \E s \in Sessions : AgentStarts(s)
  BY <1>0, <1>8 DEF AgentStarts, TypeOK
<1>9. CASE \E s \in Sessions : AgentEnds(s)
  BY <1>0, <1>9 DEF AgentEnds, TypeOK
<1>10. CASE \E s \in Sessions : CancelTurn(s)
  BY <1>0, <1>10 DEF CancelTurn, TypeOK
<1>11. CASE \E s \in Sessions : BecomeIdle(s)
  BY <1>0, <1>11 DEF BecomeIdle, TypeOK
<1>12. CASE \E s \in Sessions : Complete(s)
  <2>1. PICK s \in Sessions : Complete(s)
    BY <1>12
  <2>2. turn[s] \in Msgs /\ announced[turn[s]] \subseteq Msgs
    BY <1>0, <2>1 DEF Complete, TypeOK
  <2>3. /\ cursor' \in [Sessions -> Msgs \cup {NoMsg}]
        /\ told' \in [Sessions -> SUBSET Msgs]
    <3>1. CASE Visible(s)
      <4>1. /\ cursor' = MarkVisible(s, turn[s])
            /\ told' = [told EXCEPT ![s] = @ \cup {turn[s]} \cup announced[turn[s]]]
        BY <2>1, <3>1 DEF Complete
      <4> QED BY <1>0, <2>2, <4>1, MarkIsCursor DEF TypeOK
    <3>2. CASE ~Visible(s)
      BY <1>0, <2>1, <3>2 DEF Complete, TypeOK
    <3> QED BY <3>1, <3>2
  <2>4. /\ scope' \in [Sessions -> Seq(Msgs)] /\ token' \in [Sessions -> Msgs \cup {NoMsg}]
        /\ steeredInto' = steeredInto
    BY <1>0, <2>1, EmptySeq DEF Complete, DropSteers, TypeOK
  <2>6. UNCHANGED <<store, resets, applied, announced, delivered, idle>>
    BY <2>1 DEF Complete
  <2>7. /\ pending' \in [Sessions -> SUBSET Msgs]
        /\ \E next \in Msgs \cup {NoMsg} :
             /\ turn' = [turn EXCEPT ![s] = next]
             /\ phase' = [phase EXCEPT ![s] = IF next = NoMsg THEN "none" ELSE "starting"]
    <3>1. CASE UNCHANGED pending /\ turn' = [turn EXCEPT ![s] = NoMsg]
               /\ phase' = [phase EXCEPT ![s] = "none"]
      BY <3>1, Typed
    <3>2. CASE \E m \in pending[s] :
                 /\ turn' = [turn EXCEPT ![s] = m] /\ phase' = [phase EXCEPT ![s] = "starting"]
                 /\ pending' = [pending EXCEPT ![s] = @ \ {m}]
      <4>1. PICK m \in pending[s] :
                 /\ turn' = [turn EXCEPT ![s] = m] /\ phase' = [phase EXCEPT ![s] = "starting"]
                 /\ pending' = [pending EXCEPT ![s] = @ \ {m}]
        BY <3>2
      <4>2. m \in Msgs /\ m # NoMsg
        BY <1>0, Typed
      <4>3. pending' \in [Sessions -> SUBSET Msgs]
        BY <4>1, Typed
      <4> QED BY <4>1, <4>2, <4>3
    <3> QED BY <2>1, <3>1, <3>2 DEF Complete, StartTurn
  <2>5. /\ turn' \in [Sessions -> Msgs \cup {NoMsg}] /\ phase' \in [Sessions -> Phases]
        /\ pending' \in [Sessions -> SUBSET Msgs] /\ PhasesFit'
    BY <1>0, <2>6, <2>7 DEF TypeOK, PhasesFit
  <2> QED BY <1>0, <2>3, <2>4, <2>5, <2>6 DEF TypeOK, PhasesFit
<1>13. CASE Restart
  BY <1>0, <1>13, EmptySeq DEF Restart, TypeOK
<1>14. CASE UNCHANGED vars
  BY <1>0, <1>14 DEF vars, TypeOK
<1> QED BY <1>1, <1>2, <1>3, <1>4, <1>5, <1>6, <1>7, <1>8, <1>9, <1>10, <1>11, <1>12,
           <1>13, <1>14 DEF Next

\* What a hook at the start of an event may do: it leaves the turns alone, and
\* a context it applies is the unread one.
LEMMA StartHookDoes ==
  ASSUME IInv, NEW s \in Sessions, NEW processes \in BOOLEAN, StartHook(s, processes)
  PROVE  /\ UNCHANGED <<written, trimmed, clock, late, scope, token, steeredInto, delivered,
                        turn, pending, cursor, told, boundary>>
         /\ phase[s] = "starting" /\ turn[s] \in Msgs
         /\ \/ /\ ~NeedsContext(turn[s])
               /\ phase' = [phase EXCEPT ![s] = "ready"]
               /\ UNCHANGED <<applied, announced, silent>>
            \/ /\ phase' = [phase EXCEPT ![s] = "ready"]
               /\ applied' = applied \cup {turn[s]}
               /\ announced' = [announced EXCEPT ![turn[s]] = UnreadContext(s, turn[s])]
               /\ UNCHANGED silent
            \/ /\ phase' = [phase EXCEPT ![s] = "resetting"]
               /\ UNCHANGED <<applied, announced>>
               /\ silent' = silent \cup {s}
<1>1. phase[s] = "starting" /\ turn[s] \in Msgs
  BY Typed DEF StartHook, PhasesFit
<1>2. UNCHANGED <<written, trimmed, clock, late, scope, token, steeredInto, delivered, turn,
                  pending, cursor, told, boundary>>
  BY DEF StartHook, ApplyContext, ResetSession, store, steers, resets, context
<1> QED BY <1>1, <1>2 DEF StartHook, ApplyContext, ResetSession, resets, context

\* A completed turn is followed by a queued event or by none.
LEMMA CompleteDoes ==
  ASSUME IInv, NEW s \in Sessions, Complete(s)
  PROVE  /\ UNCHANGED <<written, trimmed, clock, late, steeredInto, delivered, applied, announced,
                        boundary, silent, epoch>>
         /\ phase[s] \in {"succeeded", "failed"} /\ turn[s] \in Msgs
         /\ scope' = [scope EXCEPT ![s] = <<>>] /\ token' = [token EXCEPT ![s] = NoMsg]
         /\ \E next \in pending[s] \cup {NoMsg} :
              /\ turn' = [turn EXCEPT ![s] = next]
              /\ phase' = [phase EXCEPT ![s] = IF next = NoMsg THEN "none" ELSE "starting"]
         /\ \A x \in Sessions : pending'[x] \subseteq pending[x]
<1>1. phase[s] \in {"succeeded", "failed"} /\ turn[s] \in Msgs
  BY Typed DEF Complete, PhasesFit
<1>2. UNCHANGED <<written, trimmed, clock, late, steeredInto, delivered, applied, announced,
                  boundary, silent, epoch>>
  BY DEF Complete, DropSteers, store, resets
<1>3. scope' = [scope EXCEPT ![s] = <<>>] /\ token' = [token EXCEPT ![s] = NoMsg]
  BY DEF Complete, DropSteers
<1>4. CASE /\ UNCHANGED pending /\ turn' = [turn EXCEPT ![s] = NoMsg]
           /\ phase' = [phase EXCEPT ![s] = "none"]
  BY <1>1, <1>2, <1>3, <1>4
<1>5. CASE \E m \in pending[s] :
             /\ turn' = [turn EXCEPT ![s] = m] /\ phase' = [phase EXCEPT ![s] = "starting"]
             /\ pending' = [pending EXCEPT ![s] = @ \ {m}]
  <2>1. PICK m \in pending[s] :
             /\ turn' = [turn EXCEPT ![s] = m] /\ phase' = [phase EXCEPT ![s] = "starting"]
             /\ pending' = [pending EXCEPT ![s] = @ \ {m}]
    BY <1>5
  <2>2. m # NoMsg /\ pending \in [Sessions -> SUBSET Msgs]
    BY Typed, MessageAssumption
  <2> QED BY <1>1, <1>2, <1>3, <2>1, <2>2
<1> QED BY <1>4, <1>5 DEF Complete, StartTurn

\* What was written, delivered, applied and told stays so.
LEMMA HistoryGrows ==
  ASSUME IInv, [Next]_vars
  PROVE  /\ written \subseteq written' /\ delivered \subseteq delivered'
         /\ applied \subseteq applied' /\ boundary \subseteq boundary'
         /\ late \subseteq late' /\ trimmed \subseteq trimmed'
<1> USE DEF store, steers, resets, context, tasks
<1>1. CASE \E m \in Msgs : Store(m) \/ Trim(m) \/ Deliver(m) \/ Queue(m)
  BY <1>1 DEF Store, Trim, Deliver, Queue
<1>2. CASE \E m \in Msgs, processes \in BOOLEAN : Steer(m, processes)
  BY <1>2 DEF Steer, ApplyContext
<1>3. CASE \E s \in Sessions, processes \in BOOLEAN : StartHook(s, processes)
  BY <1>3, StartHookDoes
<1>4. CASE \E s \in Sessions : \/ ResetHooksReturn(s) \/ AgentStarts(s) \/ AgentEnds(s)
                               \/ CancelTurn(s) \/ BecomeIdle(s)
  BY <1>4 DEF ResetHooksReturn, AgentStarts, AgentEnds, CancelTurn, BecomeIdle, ApplyContext
<1>5. CASE \E s \in Sessions : Complete(s)
  BY <1>5, CompleteDoes
<1>6. CASE Restart \/ UNCHANGED vars
  BY <1>6 DEF Restart, vars
<1> QED BY <1>1, <1>2, <1>3, <1>4, <1>5, <1>6 DEF Next

-----------------------------------------------------------------------------
LEMMA TurnStep == IInv /\ [Next]_vars => TurnsAreOwn'
<1> SUFFICES ASSUME IInv, [Next]_vars PROVE TurnsAreOwn'
  OBVIOUS
<1> USE DEF store, steers, resets, context, tasks
<1>0. /\ TurnsAreOwn /\ NoMsg \notin Msgs /\ SessionOf \in [Msgs -> Sessions] /\ PhasesFit
      /\ written \subseteq Msgs /\ turn \in [Sessions -> Msgs \cup {NoMsg}]
      /\ phase \in [Sessions -> Phases] /\ pending \in [Sessions -> SUBSET Msgs]
  BY MessageAssumption, Typed DEF IInv
<1>1. CASE \E m \in Msgs : Store(m) \/ Trim(m)
  BY <1>0, <1>1 DEF Store, Trim, TurnsAreOwn
<1>2. CASE \E m \in Msgs : Deliver(m)
  <2>1. PICK m \in Msgs : Deliver(m)
    BY <1>2
  <2>2. PICK s \in Sessions : s = SessionOf[m]
    BY <1>0
  <2>3. /\ turn' = [turn EXCEPT ![s] = m] /\ phase' = [phase EXCEPT ![s] = "starting"]
        /\ delivered' = delivered \cup {m} /\ m \in written
        /\ UNCHANGED <<written, applied, pending>>
    BY <2>1, <2>2 DEF Deliver, StartTurn, stored
  <2> QED BY <1>0, <2>2, <2>3 DEF TurnsAreOwn
<1>3. CASE \E m \in Msgs : Queue(m)
  <2>1. PICK m \in Msgs : Queue(m)
    BY <1>3
  <2>2. PICK s \in Sessions : s = SessionOf[m]
    BY <1>0
  <2>3. /\ pending' = [pending EXCEPT ![s] = @ \cup {m}]
        /\ delivered' = delivered \cup {m} /\ m \in written
        /\ UNCHANGED <<written, applied, turn, phase>>
    BY <2>1, <2>2 DEF Queue, stored
  <2> QED BY <1>0, <2>2, <2>3 DEF TurnsAreOwn
<1>4. CASE \E m \in Msgs, processes \in BOOLEAN : Steer(m, processes)
  <2>1. PICK m \in Msgs : /\ delivered' = delivered \cup {m} /\ m \in written
                          /\ applied' = applied \cup {m}
                          /\ UNCHANGED <<written, turn, phase, pending>>
    BY <1>4, SteerTakes DEF Steer, ApplyContext
  <2> QED BY <1>0, <2>1 DEF TurnsAreOwn
<1>5. CASE \E s \in Sessions, processes \in BOOLEAN : StartHook(s, processes)
  <2>1. PICK s \in Sessions :
          /\ UNCHANGED <<written, delivered, turn, pending>>
          /\ phase[s] = "starting" /\ turn[s] \in Msgs
          /\ \E p \in {"ready", "resetting"} : phase' = [phase EXCEPT ![s] = p]
          /\ applied' = applied \/ applied' = applied \cup {turn[s]}
    BY <1>5, StartHookDoes
  <2> QED BY <1>0, <2>1 DEF TurnsAreOwn
<1>6. CASE \E s \in Sessions : ResetHooksReturn(s)
  BY <1>0, <1>6 DEF ResetHooksReturn, ApplyContext, TurnsAreOwn, PhasesFit
<1>7. CASE \E s \in Sessions : AgentStarts(s) \/ CancelTurn(s) \/ BecomeIdle(s)
  BY <1>0, <1>7 DEF AgentStarts, CancelTurn, BecomeIdle, TurnsAreOwn
<1>8. CASE \E s \in Sessions : AgentEnds(s)
  BY <1>0, <1>8 DEF AgentEnds, TurnsAreOwn, PhasesFit, Standard
<1>9. CASE \E s \in Sessions : Complete(s)
  <2>1. PICK s \in Sessions : Complete(s)
    BY <1>9
  <2>2. PICK next \in pending[s] \cup {NoMsg} :
          /\ turn' = [turn EXCEPT ![s] = next]
          /\ phase' = [phase EXCEPT ![s] = IF next = NoMsg THEN "none" ELSE "starting"]
    BY <2>1, CompleteDoes
  <2>3. UNCHANGED <<written, delivered, applied>> /\ \A x \in Sessions : pending'[x] \subseteq pending[x]
    BY <2>1, CompleteDoes
  <2> QED BY <1>0, <2>2, <2>3 DEF TurnsAreOwn
<1>10. CASE Restart
  BY <1>0, <1>10 DEF Restart, TurnsAreOwn
<1>11. CASE UNCHANGED vars
  BY <1>0, <1>11 DEF vars, TurnsAreOwn
<1> QED BY <1>1, <1>2, <1>3, <1>4, <1>5, <1>6, <1>7, <1>8, <1>9, <1>10, <1>11 DEF Next

-----------------------------------------------------------------------------
Steered == {"running", "succeeded", "failed"}

\* A scope outlives what leaves the turn alone, and there is none before a run.
LEMMA SteersKept ==
  ASSUME IInv, UNCHANGED steers, delivered \subseteq delivered',
         \A s \in Sessions : \/ phase'[s] = phase[s] /\ turn'[s] = turn[s]
                             \/ phase[s] \notin Steered
                             \/ phase'[s] \in Steered /\ turn'[s] = turn[s]
  PROVE  ScopesAreDelivered' /\ SteersOfLiveRun'
<1>1. ScopesAreDelivered /\ SteersOfLiveRun /\ UNCHANGED <<scope, token, steeredInto>>
  BY DEF IInv, steers
<1>2. ScopesAreDelivered'
  BY <1>1 DEF ScopesAreDelivered
<1>3. ASSUME NEW s \in Sessions
      PROVE  /\ scope[s] # <<>> \/ token[s] # NoMsg => phase'[s] \in Steered
             /\ token[s] # NoMsg => steeredInto[token[s]] = turn'[s]
             /\ \A i \in DOMAIN scope[s] : steeredInto[scope[s][i]] = turn'[s]
  <2>1. CASE phase[s] \in Steered
    BY <1>1, <2>1 DEF SteersOfLiveRun, Steered
  <2>2. CASE phase[s] \notin Steered
    <3>1. scope[s] = <<>> /\ token[s] = NoMsg
      BY <1>1, <2>2 DEF SteersOfLiveRun, Steered
    <3> QED BY <3>1
  <2> QED BY <2>1, <2>2
<1> QED BY <1>1, <1>2, <1>3 DEF SteersOfLiveRun, Steered

LEMMA SteersStep == IInv /\ [Next]_vars => ScopesAreDelivered' /\ SteersOfLiveRun'
<1> SUFFICES ASSUME IInv, [Next]_vars PROVE ScopesAreDelivered' /\ SteersOfLiveRun'
  OBVIOUS
<1>0. /\ ScopesAreDelivered /\ SteersOfLiveRun /\ delivered \subseteq delivered'
      /\ phase \in [Sessions -> Phases] /\ turn \in [Sessions -> Msgs \cup {NoMsg}]
      /\ scope \in [Sessions -> Seq(Msgs)] /\ token \in [Sessions -> Msgs \cup {NoMsg}]
      /\ steeredInto \in [Msgs -> Msgs \cup {NoMsg}]
      /\ SessionOf \in [Msgs -> Sessions] /\ NoMsg \notin Msgs
  BY MessageAssumption, Typed, HistoryGrows DEF IInv
<1>1. CASE \E m \in Msgs : Store(m) \/ Trim(m) \/ Queue(m)
  <2>1. UNCHANGED <<steers, turn, phase>>
    BY <1>1 DEF Store, Trim, Queue, tasks
  <2> QED BY <1>0, <2>1, SteersKept
<1>2. CASE \E m \in Msgs : Deliver(m)
  <2>1. PICK s \in Sessions, m \in Msgs :
          /\ phase[s] = "none" /\ UNCHANGED steers
          /\ turn' = [turn EXCEPT ![s] = m] /\ phase' = [phase EXCEPT ![s] = "starting"]
    BY <1>0, <1>2 DEF Deliver, StartTurn, Working
  <2>2. \A x \in Sessions : x = s \/ (phase'[x] = phase[x] /\ turn'[x] = turn[x])
    BY <1>0, <2>1
  <2>3. phase[s] \notin Steered
    BY <2>1 DEF Steered
  <2> QED BY <1>0, <2>1, <2>2, <2>3, SteersKept
<1>3. CASE \E m \in Msgs, processes \in BOOLEAN : Steer(m, processes)
  <2>1. PICK m \in Msgs, processes \in BOOLEAN : Steer(m, processes)
    BY <1>3
  <2>2. PICK s \in Sessions : s = SessionOf[m]
    BY <1>0
  <2>3. PICK new \in Seq(Msgs) : new = Scoped(s, m)
    BY <2>1, <2>2, SteerTakes
  <2>4. /\ phase[s] = "running" /\ m \notin delivered /\ turn[s] \in Msgs
        /\ delivered' = delivered \cup {m}
        /\ token' = token \/ token' = [token EXCEPT ![s] = m]
        /\ scope' = [scope EXCEPT ![s] = new]
        /\ steeredInto' = [steeredInto EXCEPT ![m] = turn[s]]
        /\ UNCHANGED <<turn, phase>>
    BY <2>1, <2>2, <2>3, SteerTakes DEF Steer
  <2>5. /\ \A i \in DOMAIN new : new[i] = m \/ \E k \in DOMAIN scope[s] : new[i] = scope[s][k]
        /\ \A i, j \in DOMAIN new : new[i] = new[j] => i = j
    <3>1. /\ scope[s] \in Seq(Msgs)
          /\ \A i, j \in DOMAIN scope[s] : scope[s][i] = scope[s][j] => i = j
      BY <1>0 DEF ScopesAreDelivered
    <3> QED BY <2>3, <3>1, ScopedKeeps
  <2>6. /\ scope'[s] = new /\ \A x \in Sessions \ {s} : scope'[x] = scope[x]
        /\ token'[s] \in {m, token[s]} /\ \A x \in Sessions \ {s} : token'[x] = token[x]
        /\ steeredInto'[m] = turn[s] /\ \A n \in Msgs \ {m} : steeredInto'[n] = steeredInto[n]
    BY <1>0, <2>4
  <2>7. /\ \A x \in Sessions : \A i \in DOMAIN scope[x] : scope[x][i] \in Msgs \ {m}
        /\ \A x \in Sessions : token[x] # NoMsg => token[x] \in Msgs \ {m}
    <3>1. \A x \in Sessions : \A i \in DOMAIN scope[x] : scope[x][i] \in Msgs
      BY <1>0, LenProperties, ElementOfSeq
    <3> QED BY <1>0, <2>4, <3>1 DEF ScopesAreDelivered
  <2>8. ScopesAreDelivered'
    <3>1. ASSUME NEW x \in Sessions
          PROVE  /\ \A i \in DOMAIN scope'[x] : scope'[x][i] \in delivered'
                 /\ \A i, j \in DOMAIN scope'[x] : scope'[x][i] = scope'[x][j] => i = j
                 /\ token'[x] # NoMsg => token'[x] \in delivered'
      <4>1. CASE x = s
        BY <1>0, <2>4, <2>5, <2>6, <4>1 DEF ScopesAreDelivered
      <4>2. CASE x # s
        BY <1>0, <2>4, <2>6, <4>2 DEF ScopesAreDelivered
      <4> QED BY <4>1, <4>2
    <3> QED BY <3>1 DEF ScopesAreDelivered
  <2>9. ASSUME NEW x \in Sessions
        PROVE  /\ scope'[x] # <<>> \/ token'[x] # NoMsg => phase[x] \in Steered
               /\ token'[x] # NoMsg => steeredInto'[token'[x]] = turn[x]
               /\ \A i \in DOMAIN scope'[x] : steeredInto'[scope'[x][i]] = turn[x]
    <3>1. CASE x = s
      <4>1. token'[s] # NoMsg => steeredInto'[token'[s]] = turn[s]
        BY <1>0, <2>6, <2>7 DEF SteersOfLiveRun
      <4>2. ASSUME NEW i \in DOMAIN new PROVE steeredInto'[new[i]] = turn[s]
        <5>1. CASE new[i] = m
          BY <2>6, <5>1
        <5>2. CASE new[i] # m
          <6>1. PICK k \in DOMAIN scope[s] : new[i] = scope[s][k]
            BY <2>5, <5>2
          <6>2. steeredInto[scope[s][k]] = turn[s]
            BY <1>0 DEF SteersOfLiveRun
          <6> QED BY <2>6, <2>7, <6>1, <6>2
        <5> QED BY <5>1, <5>2
      <4> QED BY <2>4, <2>6, <3>1, <4>1, <4>2 DEF Steered
    <3>2. CASE x # s
      <4>1. /\ scope[x] # <<>> \/ token[x] # NoMsg => phase[x] \in Steered
            /\ token[x] # NoMsg => steeredInto[token[x]] = turn[x]
            /\ \A i \in DOMAIN scope[x] : steeredInto[scope[x][i]] = turn[x]
        BY <1>0 DEF SteersOfLiveRun, Steered
      <4> QED BY <2>6, <2>7, <3>2, <4>1
    <3> QED BY <3>1, <3>2
  <2> QED BY <2>4, <2>8, <2>9 DEF SteersOfLiveRun, Steered
<1>4. CASE \E s \in Sessions, processes \in BOOLEAN : StartHook(s, processes)
  <2>1. PICK s \in Sessions : /\ UNCHANGED <<scope, token, steeredInto, turn>>
                              /\ phase[s] = "starting"
                              /\ \E p \in Phases : phase' = [phase EXCEPT ![s] = p]
    BY <1>4, StartHookDoes DEF Phases
  <2>2. \A x \in Sessions : x = s \/ phase'[x] = phase[x]
    BY <1>0, <2>1
  <2>3. phase[s] \notin Steered /\ UNCHANGED steers
    BY <2>1 DEF Steered, steers
  <2> QED BY <1>0, <2>1, <2>2, <2>3, SteersKept
<1>5. CASE \E s \in Sessions : ResetHooksReturn(s) \/ AgentStarts(s) \/ CancelTurn(s)
  <2>1. PICK s \in Sessions : /\ UNCHANGED <<steers, turn>> /\ phase[s] \notin Steered
                              /\ \E p \in Phases : phase' = [phase EXCEPT ![s] = p]
    BY <1>5 DEF ResetHooksReturn, AgentStarts, CancelTurn, Phases, Steered
  <2>2. \A x \in Sessions : x = s \/ phase'[x] = phase[x]
    BY <1>0, <2>1
  <2> QED BY <1>0, <2>1, <2>2, SteersKept
<1>6. CASE \E s \in Sessions : AgentEnds(s)
  <2>1. PICK s \in Sessions : /\ UNCHANGED <<steers, turn>>
                              /\ \E p \in Steered : phase' = [phase EXCEPT ![s] = p]
    BY <1>6 DEF AgentEnds, Steered
  <2>2. \A x \in Sessions : phase'[x] \in Steered \/ phase'[x] = phase[x]
    BY <1>0, <2>1
  <2> QED BY <1>0, <2>1, <2>2, SteersKept
<1>7. CASE \E s \in Sessions : BecomeIdle(s)
  <2>1. UNCHANGED <<steers, turn, phase>>
    BY <1>7 DEF BecomeIdle, tasks
  <2> QED BY <1>0, <2>1, SteersKept
<1>8. CASE \E s \in Sessions : Complete(s)
  <2>1. PICK s \in Sessions : Complete(s)
    BY <1>8
  <2>2. /\ UNCHANGED <<steeredInto, delivered>>
        /\ scope' = [scope EXCEPT ![s] = <<>>] /\ token' = [token EXCEPT ![s] = NoMsg]
        /\ \E next, p : turn' = [turn EXCEPT ![s] = next] /\ phase' = [phase EXCEPT ![s] = p]
    BY <2>1, CompleteDoes
  <2>3. /\ scope'[s] = <<>> /\ token'[s] = NoMsg
        /\ \A x \in Sessions \ {s} : /\ scope'[x] = scope[x] /\ token'[x] = token[x]
                                     /\ turn'[x] = turn[x] /\ phase'[x] = phase[x]
    BY <1>0, <2>2
  <2>4. ASSUME NEW x \in Sessions
        PROVE  /\ \A i \in DOMAIN scope'[x] : scope'[x][i] \in delivered'
               /\ \A i, j \in DOMAIN scope'[x] : scope'[x][i] = scope'[x][j] => i = j
               /\ token'[x] # NoMsg => token'[x] \in delivered'
               /\ scope'[x] # <<>> \/ token'[x] # NoMsg => phase'[x] \in Steered
               /\ token'[x] # NoMsg => steeredInto'[token'[x]] = turn'[x]
               /\ \A i \in DOMAIN scope'[x] : steeredInto'[scope'[x][i]] = turn'[x]
    <3>1. CASE x = s
      BY <2>3, <3>1
    <3>2. CASE x # s
      BY <1>0, <2>2, <2>3, <3>2 DEF ScopesAreDelivered, SteersOfLiveRun, Steered
    <3> QED BY <3>1, <3>2
  <2> QED BY <2>4 DEF ScopesAreDelivered, SteersOfLiveRun, Steered
<1>9. CASE Restart
  <2>1. /\ \A x \in Sessions : scope'[x] = <<>> /\ token'[x] = NoMsg
    BY <1>9 DEF Restart
  <2> QED BY <2>1 DEF ScopesAreDelivered, SteersOfLiveRun
<1>10. CASE UNCHANGED vars
  <2>1. UNCHANGED <<steers, turn, phase>>
    BY <1>10 DEF vars, tasks
  <2> QED BY <1>0, <2>1, SteersKept
<1> QED BY <1>1, <1>2, <1>3, <1>4, <1>5, <1>6, <1>7, <1>8, <1>9, <1>10 DEF Next

-----------------------------------------------------------------------------
LEMMA SilentStep == IInv /\ [Next]_vars => SilentUntilAnnounced'
<1> SUFFICES ASSUME IInv, [Next]_vars PROVE SilentUntilAnnounced'
  OBVIOUS
<1> USE DEF SilentUntilAnnounced, store, steers, resets, context, tasks
<1>0. /\ SilentUntilAnnounced /\ boundary \subseteq boundary' /\ silent \subseteq Sessions
      /\ phase \in [Sessions -> Phases] /\ turn \in [Sessions -> Msgs \cup {NoMsg}]
      /\ SessionOf \in [Msgs -> Sessions]
  BY MessageAssumption, Typed, HistoryGrows DEF IInv
<1>1. CASE \E m \in Msgs : Store(m) \/ Trim(m) \/ Queue(m)
  BY <1>0, <1>1 DEF Store, Trim, Queue
<1>2. CASE \E m \in Msgs : Deliver(m)
  BY <1>0, <1>2 DEF Deliver, StartTurn, Working
<1>3. CASE \E m \in Msgs, processes \in BOOLEAN : Steer(m, processes)
  BY <1>0, <1>3, SteerResetsNothing DEF Steer
<1>4. CASE \E s \in Sessions, processes \in BOOLEAN : StartHook(s, processes)
  <2>1. PICK s \in Sessions :
          /\ phase[s] = "starting" /\ UNCHANGED <<turn, boundary>>
          /\ \/ UNCHANGED silent /\ \E p : phase' = [phase EXCEPT ![s] = p]
             \/ silent' = silent \cup {s} /\ phase' = [phase EXCEPT ![s] = "resetting"]
    BY <1>4, StartHookDoes
  <2> QED BY <1>0, <2>1
<1>5. CASE \E s \in Sessions : ResetHooksReturn(s)
  BY <1>0, <1>5 DEF ResetHooksReturn
<1>6. CASE \E s \in Sessions : AgentStarts(s)
  BY <1>0, <1>6 DEF AgentStarts
<1>7. CASE \E s \in Sessions : AgentEnds(s) \/ CancelTurn(s) \/ BecomeIdle(s)
  BY <1>0, <1>7 DEF AgentEnds, CancelTurn, BecomeIdle
<1>8. CASE \E s \in Sessions : Complete(s)
  <2>1. PICK s \in Sessions :
          /\ phase[s] \in {"succeeded", "failed"} /\ UNCHANGED <<silent, boundary>>
          /\ \E next, p : turn' = [turn EXCEPT ![s] = next] /\ phase' = [phase EXCEPT ![s] = p]
    BY <1>8, CompleteDoes
  <2> QED BY <1>0, <2>1
<1>9. CASE Restart \/ UNCHANGED vars
  BY <1>0, <1>9 DEF Restart, vars
<1> QED BY <1>1, <1>2, <1>3, <1>4, <1>5, <1>6, <1>7, <1>8, <1>9 DEF Next

-----------------------------------------------------------------------------
(* The cursor *)

\* Every session is told more, never less.
LEMMA ToldGrows ==
  ASSUME IInv, [Next]_vars, NEW s \in Sessions
  PROVE  told[s] \subseteq told'[s]
<1> USE DEF store, steers, resets, context, tasks
<1>0. /\ told \in [Sessions -> SUBSET Msgs] /\ SessionOf \in [Msgs -> Sessions]
  BY MessageAssumption, Typed
<1>1. CASE \E m \in Msgs : Store(m) \/ Trim(m) \/ Deliver(m) \/ Queue(m)
  BY <1>1 DEF Store, Trim, Deliver, Queue
<1>2. CASE \E m \in Msgs, processes \in BOOLEAN : Steer(m, processes)
  <2>1. \E x \in Sessions : \E new : told' = [told EXCEPT ![x] = @ \cup new]
    <3>1. PICK m \in Msgs, processes \in BOOLEAN : Steer(m, processes)
      BY <1>2
    <3>2. told' = [told EXCEPT ![SessionOf[m]] = @ \cup ({m} \cup announced'[m])]
      BY <1>0, <3>1 DEF Steer, Told
    <3> QED BY <1>0, <3>2
  <2> QED BY <1>0, <2>1
<1>3. CASE \E x \in Sessions, processes \in BOOLEAN : StartHook(x, processes)
  BY <1>3, StartHookDoes
<1>4. CASE \E x \in Sessions : \/ ResetHooksReturn(x) \/ AgentStarts(x) \/ AgentEnds(x)
                               \/ CancelTurn(x) \/ BecomeIdle(x)
  BY <1>4 DEF ResetHooksReturn, AgentStarts, AgentEnds, CancelTurn, BecomeIdle
<1>5. CASE \E x \in Sessions : Complete(x)
  <2>1. PICK x \in Sessions :
          \/ told' = told
          \/ told' = [told EXCEPT ![x] = @ \cup {turn[x]} \cup announced[turn[x]]]
    BY <1>5 DEF Complete
  <2> QED BY <1>0, <2>1
<1>6. CASE Restart \/ UNCHANGED vars
  BY <1>6 DEF Restart, vars
<1> QED BY <1>1, <1>2, <1>3, <1>4, <1>5, <1>6 DEF Next

\* A row that is written later than rows it precedes is late; no other row is
\* new or comes back.
LEMMA StoredStep ==
  ASSUME IInv, [Next]_vars, NEW n \in stored' \ late', NEW m \in written,
         ChatOf[n] = ChatOf[m], Precedes(n, m)
  PROVE  n \in stored \ late
<1>1. CASE \E x \in Msgs : Store(x)
  BY <1>1 DEF Store, stored
<1>2. CASE UNCHANGED <<written, late>>
  BY <1>2, HistoryGrows DEF stored
<1>3. (\E x \in Msgs : Store(x)) \/ UNCHANGED <<written, late>>
  <2>1. CASE \E x \in Msgs : Trim(x) \/ Deliver(x) \/ Queue(x)
    BY <2>1 DEF Trim, Deliver, Queue, store
  <2>2. CASE \E x \in Msgs, processes \in BOOLEAN : Steer(x, processes)
    BY <2>2 DEF Steer, store
  <2>3. CASE \E s \in Sessions, processes \in BOOLEAN : StartHook(s, processes)
    BY <2>3, StartHookDoes
  <2>4. CASE \E s \in Sessions : \/ ResetHooksReturn(s) \/ AgentStarts(s) \/ AgentEnds(s)
                                 \/ CancelTurn(s) \/ BecomeIdle(s) \/ Complete(s)
    BY <2>4 DEF ResetHooksReturn, AgentStarts, AgentEnds, CancelTurn, BecomeIdle, Complete, store
  <2>5. CASE Restart \/ UNCHANGED vars
    BY <2>5 DEF Restart, vars, store
  <2> QED BY <2>1, <2>2, <2>3, <2>4, <2>5 DEF Next
<1> QED BY <1>1, <1>2, <1>3

\* What precedes an event in its chat is unread, or the session was told of it.
LEMMA UnreadIsWhole ==
  ASSUME IInv, NEW m \in stored, NEW n \in stored \ (Local \cup late),
         ChatOf[n] = ChatOf[m], Precedes(n, m)
  PROVE  n \in UnreadContext(SessionOf[m], m) \cup told[SessionOf[m]]
<1> DEFINE s == SessionOf[m]
<1>1. m \in Msgs /\ n \in Msgs /\ s \in Sessions
  BY MessageAssumption, Typed DEF stored
<1>2. CASE After(s, n)
  BY <1>2 DEF UnreadContext, Between
<1>3. CASE ~After(s, n)
  <2>1. cursor[s] # NoMsg /\ cursor[s] \in Msgs /\ SessionOf[cursor[s]] = s
    BY <1>1, <1>3, Typed DEF After, IInv, CursorIsOwn
  <2>2. ChatOf[n] = ChatOf[cursor[s]]
    BY <1>1, <2>1, MessageAssumption
  <2> QED BY <1>1, <1>3, <2>1, <2>2 DEF IInv, BelowCursorTold
<1> QED BY <1>2, <1>3

\* A step applies the context of no message, or of one message as it is unread.
LEMMA AppliedStep ==
  ASSUME IInv, [Next]_vars, NEW m \in applied' \ {x \in applied : announced'[x] = announced[x]}
  PROVE  /\ m \in Msgs /\ announced'[m] = UnreadContext(SessionOf[m], m)
         /\ UNCHANGED <<written, trimmed, late>>
<1> USE DEF store, steers, resets, context, tasks
<1>0. /\ announced \in [Msgs -> SUBSET Msgs] /\ applied \subseteq Msgs
      /\ SessionOf \in [Msgs -> Sessions]
      /\ \A s \in Sessions : turn[s] # NoMsg => SessionOf[turn[s]] = s
      /\ PhasesFit /\ turn \in [Sessions -> Msgs \cup {NoMsg}]
  BY MessageAssumption, Typed DEF IInv, TurnsAreOwn
<1>1. ~UNCHANGED <<applied, announced>>
  OBVIOUS
<1>2. CASE \E x \in Msgs, processes \in BOOLEAN : Steer(x, processes)
  <2>1. PICK x \in Msgs : /\ applied' = applied \cup {x}
                          /\ announced' = [announced EXCEPT ![x] = UnreadContext(SessionOf[x], x)]
                          /\ UNCHANGED <<written, trimmed, late>>
    BY <1>2 DEF Steer, ApplyContext
  <2> QED BY <1>0, <2>1
<1>3. CASE \E s \in Sessions, processes \in BOOLEAN : StartHook(s, processes)
  <2>1. PICK s \in Sessions : /\ turn[s] \in Msgs
                              /\ applied' = applied \cup {turn[s]}
                              /\ announced' = [announced EXCEPT ![turn[s]] = UnreadContext(s, turn[s])]
                              /\ UNCHANGED <<written, trimmed, late>>
    BY <1>1, <1>3, StartHookDoes
  <2>2. SessionOf[turn[s]] = s
    BY <1>0, <2>1, MessageAssumption
  <2> QED BY <1>0, <2>1, <2>2
<1>4. CASE \E s \in Sessions : ResetHooksReturn(s)
  <2>1. PICK s \in Sessions : /\ phase[s] = "resetting"
                              /\ applied' = applied \cup {turn[s]}
                              /\ announced' = [announced EXCEPT ![turn[s]] = UnreadContext(s, turn[s])]
                              /\ UNCHANGED <<written, trimmed, late>>
    BY <1>4 DEF ResetHooksReturn, ApplyContext
  <2>2. turn[s] \in Msgs /\ SessionOf[turn[s]] = s
    BY <1>0, <2>1, MessageAssumption DEF PhasesFit
  <2> QED BY <1>0, <2>1, <2>2
<1>5. CASE \/ \E x \in Msgs : Store(x) \/ Trim(x) \/ Deliver(x) \/ Queue(x)
           \/ \E s \in Sessions : \/ AgentStarts(s) \/ AgentEnds(s)
                                  \/ CancelTurn(s) \/ BecomeIdle(s) \/ Complete(s)
           \/ Restart \/ UNCHANGED vars
  <2>1. UNCHANGED <<applied, announced>>
    BY <1>5 DEF Store, Trim, Deliver, Queue, AgentStarts, AgentEnds, CancelTurn, BecomeIdle,
       Complete, Restart, vars
  <2> QED BY <1>1, <2>1
<1> QED BY <1>2, <1>3, <1>4, <1>5 DEF Next

LEMMA WholeStep == IInv /\ [Next]_vars => AppliedIsWhole'
<1> SUFFICES ASSUME IInv, [Next]_vars,
                    NEW m \in applied' \cap stored', NEW n \in stored' \ (Local \cup late'),
                    ChatOf[n] = ChatOf[m], Precedes(n, m)
             PROVE  n \in announced'[m] \cup told'[SessionOf[m]]
  BY DEF AppliedIsWhole
<1>1. CASE m \in applied /\ announced'[m] = announced[m]
  <2>1. m \in stored
    BY <1>1, HistoryGrows DEF stored, IInv, TurnsAreOwn
  <2>2. n \in stored \ (Local \cup late)
    BY <2>1, StoredStep DEF stored
  <2>3. SessionOf[m] \in Sessions
    BY <1>1, Typed, MessageAssumption
  <2> QED BY <1>1, <2>1, <2>2, <2>3, ToldGrows DEF IInv, AppliedIsWhole
<1>2. CASE ~(m \in applied /\ announced'[m] = announced[m])
  <2>1. /\ m \in Msgs /\ announced'[m] = UnreadContext(SessionOf[m], m)
        /\ stored' = stored /\ late' = late
    BY <1>2, AppliedStep DEF stored
  <2>2. SessionOf[m] \in Sessions
    BY <2>1, MessageAssumption
  <2> QED BY <2>1, <2>2, UnreadIsWhole, ToldGrows
<1> QED BY <1>1, <1>2

\* The cursor moves to a stored message whose context was applied, and then the
\* session has been told of it and of what was announced with it.
LEMMA CursorStep ==
  ASSUME IInv, [Next]_vars, NEW s \in Sessions, cursor'[s] # cursor[s]
  PROVE  LET m == cursor'[s] IN
         /\ m \in Msgs /\ m \in stored /\ m \in applied' /\ SessionOf[m] = s /\ After(s, m)
         /\ {m} \cup announced'[m] \subseteq told'[s]
         /\ UNCHANGED <<written, trimmed, late>>
<1> USE DEF store, steers, resets, context, tasks
<1>0. /\ told \in [Sessions -> SUBSET Msgs] /\ SessionOf \in [Msgs -> Sessions]
      /\ cursor \in [Sessions -> Msgs \cup {NoMsg}]
  BY MessageAssumption, Typed
<1>1. CASE \E m \in Msgs, processes \in BOOLEAN : Steer(m, processes)
  <2>1. PICK m \in Msgs, processes \in BOOLEAN : Steer(m, processes)
    BY <1>1
  <2>2. PICK x \in Sessions : x = SessionOf[m]
    BY <1>0
  <2>3. /\ applied' = applied \cup {m} /\ UNCHANGED <<written, trimmed, late>>
        /\ cursor' = MarkVisible(x, m)
        /\ told' = [told EXCEPT ![x] = @ \cup {m} \cup announced'[m]]
    BY <2>1, <2>2 DEF Steer, ApplyContext, Told
  <2>4. x = s /\ cursor'[s] = m /\ m \in stored /\ After(s, m)
    BY <2>3, MarkIsCursor
  <2>5. {m} \cup announced'[m] \subseteq told'[s]
    BY <1>0, <2>3, <2>4
  <2> QED BY <2>2, <2>3, <2>4, <2>5
<1>2. CASE \E x \in Sessions : Complete(x)
  <2>1. PICK x \in Sessions : Complete(x)
    BY <1>2
  <2>2. /\ turn[x] \in Msgs /\ UNCHANGED <<written, trimmed, late, applied, announced>>
    BY <2>1, CompleteDoes
  <2>3. /\ Visible(x) /\ cursor' = MarkVisible(x, turn[x])
        /\ told' = [told EXCEPT ![x] = @ \cup {turn[x]} \cup announced[turn[x]]]
    BY <2>1 DEF Complete
  <2>4. turn[x] \in applied /\ SessionOf[turn[x]] = x
    BY <2>2, <2>3, MessageAssumption DEF Visible, IInv, TurnsAreOwn
  <2>5. x = s /\ cursor'[s] = turn[x] /\ turn[x] \in stored /\ After(s, turn[x])
    BY <2>2, <2>3, MarkIsCursor
  <2>6. {turn[x]} \cup announced[turn[x]] \subseteq told'[s]
    BY <1>0, <2>3, <2>5
  <2> QED BY <2>2, <2>4, <2>5, <2>6
<1>3. CASE \/ \E m \in Msgs : Store(m) \/ Trim(m) \/ Deliver(m) \/ Queue(m)
           \/ \E x \in Sessions : \/ ResetHooksReturn(x) \/ AgentStarts(x) \/ AgentEnds(x)
                                  \/ CancelTurn(x) \/ BecomeIdle(x)
           \/ Restart \/ UNCHANGED vars
  BY <1>3 DEF Store, Trim, Deliver, Queue, ResetHooksReturn, AgentStarts, AgentEnds, CancelTurn,
     BecomeIdle, Restart, vars
<1>4. CASE \E x \in Sessions, processes \in BOOLEAN : StartHook(x, processes)
  BY <1>4, StartHookDoes
<1> QED BY <1>1, <1>2, <1>3, <1>4 DEF Next

LEMMA BelowStep == IInv /\ [Next]_vars => CursorIsOwn' /\ BelowCursorTold'
<1> SUFFICES ASSUME IInv, [Next]_vars, NEW s \in Sessions, cursor'[s] # NoMsg
             PROVE  /\ cursor'[s] \in written' /\ SessionOf[cursor'[s]] = s
                    /\ \A n \in stored' \ (Local \cup late') :
                         /\ ChatOf[n] = ChatOf[cursor'[s]]
                         /\ ~After(s, n)'
                         => n \in told'[s]
  BY DEF CursorIsOwn, BelowCursorTold
<1>1. PICK m \in Msgs : m = cursor'[s]
  BY TypeStep DEF TypeOK
<1>2. m \in written /\ SessionOf[m] = s
  <2>1. CASE cursor'[s] = cursor[s]
    BY <1>1, <2>1 DEF IInv, CursorIsOwn
  <2>2. CASE cursor'[s] # cursor[s]
    BY <1>1, <2>2, CursorStep DEF stored
  <2> QED BY <2>1, <2>2
<1>3. ASSUME NEW n \in stored' \ (Local \cup late'), ChatOf[n] = ChatOf[m], ~Precedes(m, n)
      PROVE  n \in told'[s]
  <2>1. n \in Msgs /\ (n = m \/ Precedes(n, m))
    <3>1. n \in Msgs
      BY <1>3, TypeStep DEF TypeOK, stored
    <3> QED BY <1>1, <1>3, <3>1, PrecedesOrders
  <2>2. n \in stored \ (Local \cup late)
    <3>1. CASE n = m
      BY <1>2, <1>3, <3>1, HistoryGrows DEF stored
    <3>2. CASE Precedes(n, m)
      BY <1>2, <1>3, <3>2, StoredStep
    <3> QED BY <2>1, <3>1, <3>2
  <2>3. CASE cursor'[s] = cursor[s]
    <3>1. ~After(s, n) /\ cursor[s] # NoMsg
      BY <1>1, <1>3, <2>3, MessageAssumption DEF After
    <3> QED BY <1>1, <1>3, <2>2, <2>3, <3>1, ToldGrows DEF IInv, BelowCursorTold
  <2>4. CASE cursor'[s] # cursor[s]
    <3>1. /\ m \in stored /\ m \in applied' /\ SessionOf[m] = s
          /\ {m} \cup announced'[m] \subseteq told'[s]
          /\ UNCHANGED <<written, trimmed, late>>
      BY <1>1, <2>4, CursorStep
    <3>2. n = m \/ n \in announced'[m] \cup told'[s]
      BY <1>3, <2>1, <3>1, WholeStep DEF AppliedIsWhole, stored
    <3> QED BY <3>1, <3>2
  <2> QED BY <2>3, <2>4
<1>4. \A n : ~After(s, n)' => ~Precedes(m, n)
  BY <1>1 DEF After
<1> QED BY <1>1, <1>2, <1>3, <1>4, HistoryGrows

-----------------------------------------------------------------------------
(* Theorems *)

THEOREM Invariance == Spec => []IInv
<1>1. IInv /\ [Next]_vars => IInv'
  BY TypeStep, TurnStep, SteersStep, SilentStep, WholeStep, BelowStep DEF IInv
<1> QED BY InitHolds, <1>1, PTL DEF Spec

\* For any chats, sessions, orders of rows and any losses to the store's
\* cleanup: the cursor never passes a row of the chat that its session was not
\* told of (adapter.py:1603-1676, 1023, 2113).
THEOREM NothingIsSkipped == Spec => []BelowCursorTold
<1>1. IInv => BelowCursorTold
  BY DEF IInv
<1> QED BY Invariance, <1>1, PTL

\* An answer's quote is of its own turn.
LEMMA AnchorsAreOwn == IInv => AnchorInTurn
<1> SUFFICES ASSUME IInv, NEW s \in Sessions, NEW c \in Chats,
                    phase[s] \in {"running", "succeeded", "failed"},
                    NEW q, q = ReplyAnchor(turn[s], c)
             PROVE  \/ q = turn[s]
                    \/ q # NoMsg /\ steeredInto[q] = turn[s]
                    \/ /\ q = NoMsg
                       /\ Cardinality({m \in Msgs : steeredInto[m] = turn[s]}) > 1
  BY DEF AnchorInTurn
<1>1. turn[s] # NoMsg /\ SessionOf[turn[s]] = s
  BY Typed DEF PhasesFit, IInv, TurnsAreOwn
<1>2. /\ Len(scope[s]) \in Nat /\ DOMAIN scope[s] = 1 .. Len(scope[s])
      /\ \A i \in DOMAIN scope[s] : scope[s][i] \in Msgs /\ steeredInto[scope[s][i]] = turn[s]
      /\ \A i, j \in DOMAIN scope[s] : scope[s][i] = scope[s][j] => i = j
      /\ scope[s] # <<>> => Len(scope[s]) # 0
  <2>1. scope[s] \in Seq(Msgs)
    BY Typed
  <2> QED BY <2>1, LenProperties, ElementOfSeq, EmptySeq
          DEF IInv, SteersOfLiveRun, ScopesAreDelivered
<1>3. CASE turn[s] \notin stored \/ ChatOf[turn[s]] # c \/ scope[s] = <<>>
  BY <1>1, <1>3 DEF ReplyAnchor
<1>4. CASE ~(turn[s] \notin stored \/ ChatOf[turn[s]] # c \/ scope[s] = <<>>)
  <2>1. CASE Len(scope[s]) = 1
    <3>1. q = scope[s][1] /\ 1 \in DOMAIN scope[s]
      BY <1>1, <1>2, <1>4, <2>1 DEF ReplyAnchor
    <3> QED BY <1>2, <3>1, MessageAssumption
  <2>2. CASE Len(scope[s]) # 1
    <3>1. q = NoMsg /\ 1 \in DOMAIN scope[s] /\ 2 \in DOMAIN scope[s]
      <4>1. q = NoMsg
        BY <1>1, <1>4, <2>2 DEF ReplyAnchor
      <4>2. Len(scope[s]) \in Nat /\ Len(scope[s]) # 0 /\ Len(scope[s]) # 1
        BY <1>2, <1>4, <2>2
      <4>3. 1 \in 1 .. Len(scope[s]) /\ 2 \in 1 .. Len(scope[s])
        <5>1. \A k \in Nat : k # 0 /\ k # 1 => 1 \in 1 .. k /\ 2 \in 1 .. k
          OBVIOUS
        <5> QED BY <4>2, <5>1
      <4> QED BY <1>2, <4>1, <4>3
    <3> DEFINE S == {m \in Msgs : steeredInto[m] = turn[s]}
    <3>2. PICK m \in S, n \in S : m # n
      BY <1>2, <3>1
    <3>3. IsFiniteSet({m}) /\ Cardinality({m}) = 1
      BY FS_Singleton
    <3>4. IsFiniteSet({m} \cup {n}) /\ Cardinality({m} \cup {n}) = 2
      <4>1. n \notin {m}
        BY <3>2
      <4> QED BY SMTT(30), <3>3, <4>1, FS_AddElement
    <3>5. IsFiniteSet(S)
      BY FS_Subset, MessageAssumption
    <3>6. /\ Cardinality({m} \cup {n}) <= Cardinality(S) /\ Cardinality(S) \in Nat
      <4>1. {m} \cup {n} \in SUBSET S
        BY <3>2
      <4> QED BY <3>5, <4>1, FS_Subset, FS_CardinalityType
    <3>7. Cardinality(S) > 1
      BY <3>4, <3>6
    <3> QED BY <3>1, <3>7
  <2> QED BY <2>1, <2>2
<1> QED BY <1>3, <1>4

\* For any number of sessions and of messages steered into a run: what a run
\* goes by is its own (adapter.py:829-873, 1017-1025, 1511-1565, 2338-2412).
THEOREM AnswersStayAnchored == Spec => []AnswersAreAnchored
<1>1. IInv => SwitchIsAnnounced
  BY DEF IInv, SilentUntilAnnounced, SwitchIsAnnounced
<1>2. IInv => AnswersAreAnchored
  BY <1>1, AnchorsAreOwn DEF IInv, AnswersAreAnchored
<1> QED BY Invariance, <1>2, PTL

\* A session is not switched while its agent runs, and its cursor never goes
\* back (adapter.py:1671, 2364-2412).
THEOREM SwitchesStaySafe == Spec => SwitchesAreSafe
<1>1. IInv /\ [Next]_vars => [\A s \in Sessions : epoch'[s] # epoch[s] => phase[s] # "running"]_vars
  <2> SUFFICES ASSUME IInv, [Next]_vars, NEW s \in Sessions, epoch'[s] # epoch[s]
               PROVE  phase[s] # "running"
    OBVIOUS
  <2> USE DEF resets
  <2>1. CASE \E x \in Sessions, processes \in BOOLEAN : StartHook(x, processes)
    <3>1. PICK x \in Sessions : /\ phase[x] = "starting"
                                /\ epoch' = epoch \/ epoch' = [epoch EXCEPT ![x] = @ + 1]
      BY <2>1 DEF StartHook, ResetSession
    <3>2. epoch \in [Sessions -> Nat]
      BY Typed
    <3> QED BY <3>1, <3>2
  <2>2. CASE \E m \in Msgs, processes \in BOOLEAN : Steer(m, processes)
    BY <2>2, SteerResetsNothing
  <2>3. CASE \/ \E m \in Msgs : Store(m) \/ Trim(m) \/ Deliver(m) \/ Queue(m)
             \/ \E x \in Sessions : \/ ResetHooksReturn(x) \/ AgentStarts(x) \/ AgentEnds(x)
                                    \/ CancelTurn(x) \/ BecomeIdle(x) \/ Complete(x)
             \/ Restart \/ UNCHANGED vars
    BY <2>3 DEF Store, Trim, Deliver, Queue, ResetHooksReturn, AgentStarts, AgentEnds, CancelTurn,
       BecomeIdle, Complete, Restart, vars
  <2> QED BY <2>1, <2>2, <2>3 DEF Next
<1>2. IInv /\ [Next]_vars =>
        [\A s \in Sessions :
           cursor'[s] = cursor[s] \/ cursor[s] = NoMsg
           \/ Precedes(cursor[s], cursor'[s])]_vars
  BY CursorStep DEF After
<1>3. Spec => NoSwitchUnderRun
  BY Invariance, <1>1, PTL DEF Spec, NoSwitchUnderRun
<1>4. Spec => CursorOnlyForward
  BY Invariance, <1>2, PTL DEF Spec, CursorOnlyForward
<1> QED BY <1>3, <1>4 DEF SwitchesAreSafe
=============================================================================
