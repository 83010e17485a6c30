-------------------------- MODULE ReactionsProofs --------------------------
(***************************************************************************)
(* Theorems about Reactions for any set of runs, scopes and messages, with *)
(* every platform fault allowed; about RecallFlow for any requests and     *)
(* answers of any turns, whatever the platform answers; about Packets for  *)
(* any message; and about SendPath for any sends, wherever they break off. *)
(***************************************************************************)
EXTENDS Reactions, RecallFlow, SendPath, SequenceTheorems, FiniteSetTheorems,
        WellFoundedInduction, TLAPS

\* A state is filed under the scope of its run, and that run has started.
OwnerFiled ==
  \A s \in Scopes :
    states[s] # NoRun => ScopeOf[states[s]] = s /\ Started(states[s])

\* Only a started run has an add; only an owner with a returned add is visible.
VisibleOwns ==
  /\ \A r \in Runs : ~Started(r) => add[r] = "idle"
  /\ \A r \in visible : IsOwner(r) /\ add[r] = "done"

\* A marker is deleted after its add has returned, and the handle is gone.
DeletesAfterAdd ==
  \A r \in Runs, why \in Reasons :
    <<r, why>> \in deletes => add[r] = "done" /\ r \notin visible

\* The newest run of a scope owns it until it is finished.
NewestOwns ==
  \A r \in Runs :
    /\ gen[r] <= generations[ScopeOf[r]]
    /\ (Started(r) /\ gen[r] = generations[ScopeOf[r]] /\ r \notin finished)
         => IsOwner(r)

\* Whoever is deleted is finished or has a successor.
DeletesJustified ==
  \A r \in Runs, why \in Reasons :
    <<r, why>> \in deletes =>
      r \in finished \/ gen[r] < generations[ScopeOf[r]]

\* The inductive invariant of the controller.
IInv ==
  /\ TypeOK
  /\ OwnerFiled
  /\ VisibleOwns
  /\ AnchorIndexExact
  /\ DeletesAfterAdd
  /\ OneDeletePerRun
  /\ NoOrphanMarker
  /\ NewestOwns
  /\ DeletesJustified

LEMMA InitIInv == Init => IInv
BY RunAssumption
   DEF Init, IInv, TypeOK, OwnerFiled, VisibleOwns, AnchorIndexExact,
       DeletesAfterAdd, OneDeletePerRun, NoOrphanMarker, NewestOwns,
       DeletesJustified, Started, AddPhases

LEMMA StartIInv ==
  ASSUME IInv, NEW r \in Runs, Start(r)
  PROVE  IInv'
<1> DEFINE s == ScopeOf[r]
           p == states[s]
<1> USE DEF IInv
<1>1. /\ s \in Scopes /\ AnchorOf[r] \in Anchors
      /\ p \in Runs \cup {NoRun}
      /\ p \in Runs => ScopeOf[p] = s /\ Started(p) /\ p # r
      /\ r \notin visible /\ add[r] = "idle"
  BY RunAssumption DEF Start, TypeOK, OwnerFiled, VisibleOwns
<1>2. /\ generations' = [generations EXCEPT ![s] = @ + 1]
      /\ gen' = [gen EXCEPT ![r] = generations[s] + 1]
      /\ states' = [states EXCEPT ![s] = r]
      /\ anchorToScope' = [Unindexed(p) EXCEPT ![AnchorOf[r]] = s]
      /\ stale' = stale \cup ({p} \cap Runs)
      /\ visible' = visible \ {p}
      /\ deletes' = deletes \cup (({p} \cap visible) \X {"superseded"})
      /\ add' = [add EXCEPT ![r] = "scheduled"]
      /\ dispatching' = dispatching \cup {r}
      /\ UNCHANGED <<finished, deleted, timers, marks, leaked>>
  BY DEF Start, SupersededHandles
<1>3. TypeOK'
  <2>1. Unindexed(p) \in [Anchors -> Scopes \cup {NoScope}]
    BY DEF TypeOK, Unindexed
  <2>2. anchorToScope' \in [Anchors -> Scopes \cup {NoScope}]
    BY <1>1, <1>2, <2>1
  <2>3. deletes' \subseteq Runs \X Reasons /\ deleted' \subseteq deletes'
    BY <1>1, <1>2 DEF TypeOK, Reasons
  <2>4. /\ states' \in [Scopes -> Runs \cup {NoRun}]
        /\ generations' \in [Scopes -> Nat] /\ gen' \in [Runs -> Nat]
        /\ add' \in [Runs -> AddPhases]
    BY <1>1, <1>2 DEF TypeOK, AddPhases
  <2> QED BY <1>1, <1>2, <2>2, <2>3, <2>4 DEF TypeOK
<1>4. OwnerFiled'
  BY <1>1, <1>2 DEF OwnerFiled, Started, TypeOK
<1>5. VisibleOwns'
  BY <1>1, <1>2, RunAssumption DEF VisibleOwns, Started, IsOwner, TypeOK
<1>6. AnchorIndexExact'
  <2> SUFFICES ASSUME NEW a \in Anchors, NEW t \in Scopes
               PROVE  anchorToScope'[a] = t
                        <=> states'[t] # NoRun /\ AnchorOf[states'[t]] = a
    BY DEF AnchorIndexExact
  <2>1. anchorToScope'[a] = IF a = AnchorOf[r] THEN s ELSE Unindexed(p)[a]
    BY <1>1, <1>2 DEF Unindexed, TypeOK
  <2>2. Unindexed(p)[a] = IF p \in Runs /\ a = AnchorOf[p] /\ anchorToScope[a] = s
                          THEN NoScope ELSE anchorToScope[a]
    BY <1>1 DEF Unindexed
  <2>3. states'[t] = IF t = s THEN r ELSE states[t]
    BY <1>1, <1>2 DEF TypeOK
  <2>4. anchorToScope[a] = t <=> states[t] # NoRun /\ AnchorOf[states[t]] = a
    BY DEF AnchorIndexExact
  <2>5. CASE t = s
    BY <1>1, <2>1, <2>2, <2>3, <2>4, <2>5, RunAssumption
  <2>6. CASE t # s
    <3>1. states[t] # NoRun /\ AnchorOf[states[t]] = a => a # AnchorOf[r]
      BY <2>6, AnchorAssumption DEF OwnerFiled, TypeOK
    <3> QED BY <1>1, <2>1, <2>2, <2>3, <2>4, <2>6, <3>1, RunAssumption
  <2> QED BY <2>5, <2>6
<1>7. DeletesAfterAdd'
  BY <1>1, <1>2 DEF DeletesAfterAdd, VisibleOwns, TypeOK
<1>8. OneDeletePerRun'
  BY <1>1, <1>2 DEF OneDeletePerRun, DeletesAfterAdd, TypeOK, Reasons
<1>9. NoOrphanMarker'
  <2> SUFFICES ASSUME NEW a \in marks, a \notin leaked,
                      NEW q \in Runs, AnchorOf[q] = a,
                      \/ add[q] = "landed"
                      \/ IsOwner(q) /\ q \in visible
                      \/ \E why \in Reasons : <<q, why>> \in deletes \ deleted
               PROVE  \/ add'[q] = "landed"
                      \/ IsOwner(q)' /\ q \in visible'
                      \/ \E why \in Reasons : <<q, why>> \in deletes' \ deleted'
    BY SMTT(30), <1>2 DEF NoOrphanMarker
  <2>1. CASE add[q] = "landed"
    BY <1>1, <1>2, <2>1 DEF TypeOK
  <2>2. CASE IsOwner(q) /\ q \in visible /\ q = p
    <3>1. <<q, "superseded">> \notin deleted
      BY <2>2 DEF DeletesAfterAdd, TypeOK, Reasons
    <3> QED BY <1>2, <2>2, <3>1 DEF Reasons
  <2>3. CASE IsOwner(q) /\ q \in visible /\ q # p
    BY <1>1, <1>2, <2>3, RunAssumption DEF IsOwner, TypeOK
  <2>4. CASE \E why \in Reasons : <<q, why>> \in deletes \ deleted
    BY <1>2, <2>4
  <2> QED BY <2>1, <2>2, <2>3, <2>4
<1>10. NewestOwns'
  <2> SUFFICES ASSUME NEW q \in Runs
               PROVE  /\ gen'[q] <= generations'[ScopeOf[q]]
                      /\ (gen'[q] > 0 /\ gen'[q] = generations'[ScopeOf[q]]
                          /\ q \notin finished) => states'[ScopeOf[q]] = q
    BY <1>2 DEF NewestOwns, Started, IsOwner
  <2>1. gen[q] <= generations[ScopeOf[q]] /\ gen[q] \in Nat
        /\ generations[ScopeOf[q]] \in Nat /\ ScopeOf[q] \in Scopes
    BY RunAssumption DEF NewestOwns, TypeOK
  <2>2. CASE q = r
    BY <1>1, <1>2, <2>1, <2>2 DEF TypeOK
  <2>3. CASE q # r /\ ScopeOf[q] = s
    BY <1>1, <1>2, <2>1, <2>3 DEF TypeOK
  <2>4. CASE q # r /\ ScopeOf[q] # s
    BY <1>1, <1>2, <2>1, <2>4 DEF TypeOK, NewestOwns, Started, IsOwner
  <2> QED BY <2>2, <2>3, <2>4
<1>11. DeletesJustified'
  <2> SUFFICES ASSUME NEW q \in Runs, NEW why \in Reasons,
                      <<q, why>> \in deletes'
               PROVE  q \in finished \/ gen'[q] < generations'[ScopeOf[q]]
    BY <1>2 DEF DeletesJustified
  <2>1. q # r
    BY <1>1, <1>2 DEF DeletesAfterAdd
  <2>2. q = p \/ <<q, why>> \in deletes
    BY <1>2
  <2>3. /\ gen[q] <= generations[ScopeOf[q]] /\ gen[q] \in Nat
        /\ generations[ScopeOf[q]] \in Nat /\ ScopeOf[q] \in Scopes
        /\ generations[s] \in Nat
    BY <1>1, RunAssumption DEF NewestOwns, TypeOK
  <2>4. gen'[q] = gen[q]
    BY <1>2, <2>1 DEF TypeOK
  <2>5. generations'[ScopeOf[q]] =
          IF ScopeOf[q] = s THEN generations[s] + 1 ELSE generations[ScopeOf[q]]
    BY <1>2, <2>3 DEF TypeOK
  <2>6. CASE q = p
    BY <1>1, <2>3, <2>4, <2>5, <2>6
  <2>7. CASE <<q, why>> \in deletes
    BY <2>3, <2>4, <2>5, <2>7 DEF DeletesJustified
  <2> QED BY <2>2, <2>6, <2>7
<1> QED
  BY <1>3, <1>4, <1>5, <1>6, <1>7, <1>8, <1>9, <1>10, <1>11

-----------------------------------------------------------------------------
LEMMA AddLandsIInv ==
  ASSUME IInv, NEW r \in Runs, AddLands(r)
  PROVE  IInv'
<1> USE DEF IInv
<1>1. /\ add[r] = "scheduled" /\ AnchorOf[r] \in Anchors
      /\ add' \in [Runs -> AddPhases]
      /\ \A q \in Runs : q # r => add'[q] = add[q]
      /\ UNCHANGED <<states, generations, gen, anchorToScope, visible, stale,
                     finished, deletes, deleted, dispatching, timers>>
  BY RunAssumption DEF AddLands, TypeOK, AddPhases
<1>2. /\ marks \subseteq marks' /\ marks' \subseteq marks \cup {AnchorOf[r]}
      /\ leaked \subseteq leaked' /\ leaked' \subseteq leaked \cup {AnchorOf[r]}
      /\ AnchorOf[r] \in marks' \ marks =>
           add'[r] = "landed" \/ AnchorOf[r] \in leaked'
  BY DEF AddLands, TypeOK
<1>3. TypeOK'
  BY <1>1, <1>2 DEF TypeOK
<1>4. Started(r) /\ r \notin visible
  BY <1>1 DEF VisibleOwns
<1>5. OwnerFiled' /\ VisibleOwns' /\ AnchorIndexExact' /\ NewestOwns'
  BY <1>1, <1>4 DEF OwnerFiled, VisibleOwns, AnchorIndexExact, NewestOwns,
                    Started, IsOwner, TypeOK
<1>6. DeletesAfterAdd' /\ OneDeletePerRun' /\ DeletesJustified'
  BY <1>1 DEF DeletesAfterAdd, OneDeletePerRun, DeletesJustified, TypeOK
<1>7. NoOrphanMarker'
  BY <1>1, <1>2 DEF NoOrphanMarker, IsOwner
<1> QED BY <1>3, <1>5, <1>6, <1>7

LEMMA AddReturnsIInv ==
  ASSUME IInv, NEW r \in Runs, AddReturns(r)
  PROVE  IInv'
<1> USE DEF IInv
<1>1. /\ add[r] \in {"landed", "failed"} /\ add' = [add EXCEPT ![r] = "done"]
      /\ UNCHANGED <<states, generations, gen, anchorToScope, finished, deleted,
                     dispatching, timers, marks, leaked>>
      /\ Started(r) /\ r \notin visible
      /\ AnchorOf[r] \in Anchors /\ ScopeOf[r] \in Scopes
      /\ \A why \in Reasons : <<r, why>> \notin deletes
  BY RunAssumption DEF AddReturns, VisibleOwns, DeletesAfterAdd, TypeOK
<1>2. \/ /\ StillCurrent(r) /\ add[r] = "landed"
         /\ visible' = visible \cup {r} /\ UNCHANGED <<stale, deletes>>
      \/ /\ StillCurrent(r) /\ add[r] = "failed"
         /\ UNCHANGED <<visible, stale, deletes>>
      \/ /\ ~StillCurrent(r) /\ add[r] = "landed"
         /\ UNCHANGED visible /\ stale' = stale \cup {r}
         /\ deletes' = deletes \cup {<<r, "superseded_race">>}
      \/ /\ ~StillCurrent(r) /\ add[r] = "failed"
         /\ UNCHANGED <<visible, deletes>> /\ stale' = stale \cup {r}
  BY <1>1 DEF AddReturns, Added
<1>3. TypeOK'
  BY <1>1, <1>2 DEF TypeOK, AddPhases, Reasons
<1>4. OwnerFiled' /\ AnchorIndexExact' /\ NewestOwns'
  BY <1>1 DEF OwnerFiled, AnchorIndexExact, NewestOwns, Started, IsOwner
<1>5. VisibleOwns'
  BY <1>1, <1>2 DEF VisibleOwns, StillCurrent, IsOwner, Started, TypeOK
<1>6. DeletesAfterAdd'
  BY <1>1, <1>2 DEF DeletesAfterAdd, TypeOK
<1>7. OneDeletePerRun'
  BY <1>1, <1>2 DEF OneDeletePerRun
<1>8. NoOrphanMarker'
  <2> SUFFICES ASSUME NEW q \in Runs, AnchorOf[q] \notin leaked,
                      \/ add[q] = "landed"
                      \/ IsOwner(q) /\ q \in visible
                      \/ \E why \in Reasons : <<q, why>> \in deletes \ deleted
               PROVE  \/ add'[q] = "landed"
                      \/ IsOwner(q)' /\ q \in visible'
                      \/ \E why \in Reasons : <<q, why>> \in deletes' \ deleted'
    BY <1>1 DEF NoOrphanMarker
  <2>1. CASE q = r /\ StillCurrent(r) /\ add[r] = "landed"
    BY <1>1, <1>2, <2>1 DEF StillCurrent, IsOwner
  <2>2. CASE q = r /\ ~StillCurrent(r) /\ add[r] = "landed"
    BY <1>1, <1>2, <2>2 DEF Reasons, TypeOK
  <2>3. CASE q = r /\ add[r] = "failed"
    BY <1>1, <2>3
  <2>4. CASE q # r
    BY <1>1, <1>2, <2>4 DEF IsOwner, TypeOK
  <2> QED BY <1>1, <2>1, <2>2, <2>3, <2>4
<1>9. DeletesJustified'
  <2>1. ~StillCurrent(r) => r \in finished \/ gen[r] < generations[ScopeOf[r]]
    BY <1>1 DEF StillCurrent, NewestOwns, TypeOK
  <2> QED BY <1>1, <1>2, <2>1 DEF DeletesJustified
<1> QED BY <1>3, <1>4, <1>5, <1>6, <1>7, <1>8, <1>9

LEMMA DeleteReturnsIInv ==
  ASSUME IInv, NEW d \in deletes, DeleteReturns(d)
  PROVE  IInv'
<1> USE DEF IInv
<1>1. PICK q \in Runs, w \in Reasons : d = <<q, w>>
  BY DEF TypeOK
<1>2. /\ deleted' = deleted \cup {d} /\ AnchorOf[q] \in Anchors
      /\ \/ marks' = marks \ {AnchorOf[q]} /\ UNCHANGED leaked
         \/ leaked' = leaked \cup {AnchorOf[q]} /\ UNCHANGED marks
      /\ UNCHANGED <<states, generations, gen, anchorToScope, visible, stale,
                     finished, add, deletes, dispatching, timers>>
  BY <1>1, RunAssumption DEF DeleteReturns
<1>3. TypeOK'
  BY <1>1, <1>2 DEF TypeOK
<1>4. /\ OwnerFiled' /\ VisibleOwns' /\ AnchorIndexExact' /\ NewestOwns'
      /\ DeletesAfterAdd' /\ OneDeletePerRun' /\ DeletesJustified'
  BY <1>2 DEF OwnerFiled, VisibleOwns, AnchorIndexExact, NewestOwns, Started,
              IsOwner, DeletesAfterAdd, OneDeletePerRun, DeletesJustified
<1>5. NoOrphanMarker'
  BY <1>1, <1>2 DEF NoOrphanMarker, IsOwner
<1> QED BY <1>3, <1>4, <1>5

LEMMA FinishIInv ==
  ASSUME IInv, NEW F \in SUBSET Runs, FinishTokens(F), dispatching' \subseteq Runs
  PROVE  IInv'
<1> USE DEF IInv
<1> DEFINE C == Closing(F)
<1>1. /\ C \subseteq Runs /\ C \subseteq F
      /\ \A r \in C : IsOwner(r) /\ ScopeOf[r] \in Scopes
  BY RunAssumption DEF Closing
<1>2. /\ finished' = finished \cup F
      /\ stale' = stale \cup ((F \ finished) \ C)
      /\ states' = [s \in Scopes |-> IF states[s] \in C THEN NoRun ELSE states[s]]
      /\ anchorToScope' =
           [a \in Anchors |->
              IF \E r \in C : a = AnchorOf[r] /\ anchorToScope[a] = ScopeOf[r]
              THEN NoScope ELSE anchorToScope[a]]
      /\ deletes' = deletes \cup ((C \cap visible) \X {"finished"})
      /\ visible' = visible \ C
      /\ timers' = timers \ F
      /\ UNCHANGED <<generations, gen, add, deleted, marks, leaked>>
  BY DEF FinishTokens
<1>3. TypeOK'
  <2>1. deletes' \subseteq Runs \X Reasons
    BY <1>1, <1>2 DEF TypeOK, Reasons
  <2> QED BY <1>1, <1>2, <2>1 DEF TypeOK
<1>4. OwnerFiled'
  BY <1>2 DEF OwnerFiled, Started
<1>5. VisibleOwns'
  <2> SUFFICES ASSUME NEW r \in visible, r \notin C
               PROVE  states'[ScopeOf[r]] = r
    BY <1>2 DEF VisibleOwns, Started, IsOwner
  <2>1. r \in Runs /\ ScopeOf[r] \in Scopes /\ states[ScopeOf[r]] = r
    BY RunAssumption DEF VisibleOwns, IsOwner, TypeOK
  <2> QED BY <1>2, <2>1
<1>6. AnchorIndexExact'
  <2> SUFFICES ASSUME NEW a \in Anchors, NEW t \in Scopes
               PROVE  anchorToScope'[a] = t
                        <=> states'[t] # NoRun /\ AnchorOf[states'[t]] = a
    BY DEF AnchorIndexExact
  <2>1. anchorToScope[a] = t <=> states[t] # NoRun /\ AnchorOf[states[t]] = a
    BY DEF AnchorIndexExact
  <2>2. states'[t] = IF states[t] \in C THEN NoRun ELSE states[t]
    BY <1>2
  <2>3. CASE states[t] \in C
    <3>1. ScopeOf[states[t]] = t
      BY <1>1, <2>3, RunAssumption DEF OwnerFiled
    <3>2. anchorToScope'[a] # t
      BY <1>2, <2>1, <2>3, <3>1, RunAssumption
    <3> QED BY <2>2, <2>3, <3>2
  <2>4. CASE states[t] \notin C
    <3>1. \A r \in C : ScopeOf[r] # t
      BY <1>1, <2>4 DEF IsOwner
    <3>2. anchorToScope'[a] = t <=> anchorToScope[a] = t
      BY <1>2, <3>1, RunAssumption
    <3> QED BY <2>1, <2>2, <2>4, <3>2
  <2> QED BY <2>3, <2>4
<1>7. DeletesAfterAdd'
  BY <1>1, <1>2 DEF DeletesAfterAdd, VisibleOwns
<1>8. OneDeletePerRun'
  BY <1>1, <1>2 DEF OneDeletePerRun, DeletesAfterAdd
<1>9. NoOrphanMarker'
  <2> SUFFICES ASSUME NEW q \in Runs,
                      \/ add[q] = "landed"
                      \/ IsOwner(q) /\ q \in visible
                      \/ \E why \in Reasons : <<q, why>> \in deletes \ deleted
               PROVE  \/ add'[q] = "landed"
                      \/ IsOwner(q)' /\ q \in visible'
                      \/ \E why \in Reasons : <<q, why>> \in deletes' \ deleted'
    BY <1>2 DEF NoOrphanMarker
  <2>1. CASE add[q] = "landed"
    BY <1>2, <2>1
  <2>2. CASE IsOwner(q) /\ q \in visible /\ q \in C
    <3>1. <<q, "finished">> \notin deleted
      BY <2>2 DEF DeletesAfterAdd, TypeOK, Reasons
    <3> QED BY <1>2, <2>2, <3>1 DEF Reasons
  <2>3. CASE IsOwner(q) /\ q \in visible /\ q \notin C
    BY <1>2, <2>3, RunAssumption DEF IsOwner
  <2>4. CASE \E why \in Reasons : <<q, why>> \in deletes \ deleted
    BY <1>2, <2>4
  <2> QED BY <2>1, <2>2, <2>3, <2>4
<1>10. NewestOwns'
  <2> SUFFICES ASSUME NEW q \in Runs, Started(q), q \notin finished, q \notin F,
                      IsOwner(q)
               PROVE  states'[ScopeOf[q]] = q
    BY <1>2 DEF NewestOwns, Started, IsOwner
  <2> QED BY <1>1, <1>2, RunAssumption DEF IsOwner
<1>11. DeletesJustified'
  BY <1>1, <1>2 DEF DeletesJustified
<1> QED
  BY <1>3, <1>4, <1>5, <1>6, <1>7, <1>8, <1>9, <1>10, <1>11

LEMMA DispatchReturnsIInv ==
  ASSUME IInv, NEW r \in Runs, DispatchReturns(r)
  PROVE  IInv'
BY DEF DispatchReturns, IInv, TypeOK, OwnerFiled, VisibleOwns, AnchorIndexExact,
       DeletesAfterAdd, OneDeletePerRun, NoOrphanMarker, NewestOwns,
       DeletesJustified, Started, IsOwner

LEMMA NextIInv == IInv /\ [Next]_vars => IInv'
<1> SUFFICES ASSUME IInv, [Next]_vars PROVE IInv'
  OBVIOUS
<1>1. ASSUME NEW r \in Runs,
             \/ Start(r) \/ AddLands(r) \/ AddReturns(r) \/ DispatchReturns(r)
      PROVE  IInv'
  BY <1>1, StartIInv, AddLandsIInv, AddReturnsIInv, DispatchReturnsIInv
<1>2. ASSUME NEW d \in deletes, DeleteReturns(d)
      PROVE  IInv'
  BY <1>2, DeleteReturnsIInv
<1>3. ASSUME NEW r \in Runs,
             FinishKnownToken(r) \/ DispatchFails(r) \/ CleanupFires(r)
      PROVE  IInv'
  BY <1>3, FinishIInv
     DEF FinishKnownToken, DispatchFails, CleanupFires, IInv, TypeOK
<1>4. ASSUME NEW F \in SentTokens, SendFinishes(F)
      PROVE  IInv'
  <2>1. F \in SUBSET Runs
    BY DEF SentTokens, SendTokens, TokenByAnchor
  <2> QED BY <1>4, <2>1, FinishIInv DEF SendFinishes, IInv, TypeOK
<1>5. CASE UNCHANGED vars
  <2>1. TypeOK' /\ OwnerFiled' /\ VisibleOwns' /\ AnchorIndexExact'
    BY <1>5 DEF vars, IInv, TypeOK, OwnerFiled, VisibleOwns, AnchorIndexExact,
                Started, IsOwner
  <2>2. DeletesAfterAdd' /\ OneDeletePerRun' /\ NoOrphanMarker'
    BY <1>5 DEF vars, IInv, DeletesAfterAdd, OneDeletePerRun, NoOrphanMarker,
                IsOwner
  <2>3. NewestOwns' /\ DeletesJustified'
    BY <1>5 DEF vars, IInv, NewestOwns, DeletesJustified, Started, IsOwner
  <2> QED BY <2>1, <2>2, <2>3 DEF IInv
<1> QED BY <1>1, <1>2, <1>3, <1>4, <1>5 DEF Next

LEMMA Invariance == Spec => []IInv
BY InitIInv, NextIInv, PTL DEF Spec

-----------------------------------------------------------------------------
\* Every variable keeps its type, whatever the platform does.
THEOREM TypeCorrect == Spec => []TypeOK
BY Invariance, PTL DEF IInv

\* start, finish and _add_for_token never lose a marker between them.
THEOREM NoMarkerIsOrphaned == Spec => []NoOrphanMarker
BY Invariance, PTL DEF IInv

\* At most one deletion is ever scheduled for a run.
THEOREM EachRunDeletedOnce == Spec => []OneDeletePerRun
BY Invariance, PTL DEF IInv

\* The anchor index is exact, so an anchor finishes only its own run.
THEOREM AnchorIndexIsExact == Spec => []AnchorIndexExact
BY Invariance, PTL DEF IInv

-----------------------------------------------------------------------------
(* What holds as long as no message is the anchor of two runs *)

DistinctAnchors ==
  \A q1, q2 \in Runs : AnchorOf[q1] = AnchorOf[q2] => q1 = q2

Landed == \A r \in Runs : add[r] = "landed" => AnchorOf[r] \in marks

LEMMA ShownStep ==
  ASSUME DistinctAnchors
  PROVE  IInv /\ Landed /\ VisibleIsShown /\ [Next]_vars
           => Landed' /\ VisibleIsShown'
<1> SUFFICES ASSUME IInv, Landed, VisibleIsShown, [Next]_vars
             PROVE  Landed' /\ VisibleIsShown'
  OBVIOUS
<1> USE DEF Landed, VisibleIsShown
<1>1. ASSUME NEW r \in Runs, Start(r) PROVE Landed' /\ VisibleIsShown'
  BY <1>1 DEF Start, IInv, TypeOK
<1>2. ASSUME NEW r \in Runs, AddLands(r) PROVE Landed' /\ VisibleIsShown'
  BY <1>2 DEF AddLands, IInv, TypeOK
<1>3. ASSUME NEW r \in Runs, AddReturns(r) PROVE Landed' /\ VisibleIsShown'
  BY <1>3 DEF AddReturns, Added, IInv, TypeOK
<1>4. ASSUME NEW d \in deletes, DeleteReturns(d) PROVE Landed' /\ VisibleIsShown'
  <2>1. PICK q \in Runs, w \in Reasons : d = <<q, w>>
    BY DEF IInv, TypeOK
  <2>2. add[q] = "done" /\ q \notin visible
    BY <2>1 DEF IInv, DeletesAfterAdd
  <2>3. \A r \in Runs : r # q => AnchorOf[r] # AnchorOf[q]
    BY DEF DistinctAnchors
  <2> QED BY <1>4, <2>1, <2>2, <2>3 DEF DeleteReturns, IInv, TypeOK
<1>5. ASSUME NEW r \in Runs, DispatchReturns(r) PROVE Landed' /\ VisibleIsShown'
  BY <1>5 DEF DispatchReturns
<1>6. ASSUME NEW F, FinishTokens(F) PROVE Landed' /\ VisibleIsShown'
  BY <1>6 DEF FinishTokens
<1>7. CASE UNCHANGED vars
  BY <1>7 DEF vars
<1> QED
  BY <1>1, <1>2, <1>3, <1>4, <1>5, <1>6, <1>7
     DEF Next, FinishKnownToken, DispatchFails, CleanupFires, SendFinishes

\* The marker of a visible run is on the platform.
THEOREM VisibleRunsAreShown ==
  ASSUME DistinctAnchors
  PROVE  Spec => []VisibleIsShown
<1>1. Init => Landed /\ VisibleIsShown
  BY DEF Init, Landed, VisibleIsShown
<1> QED BY <1>1, ShownStep, Invariance, PTL DEF Spec

\* An older run never takes the marker of the newest run of its scope away.
THEOREM OlderRunsSpareNewerMarkers ==
  ASSUME DistinctAnchors
  PROVE  Spec => NewerMarkerSurvives
<1> DEFINE Spared ==
      \A r \in Runs :
        /\ AnchorOf[r] \in marks \ marks'
        /\ add[r] = "done"
        /\ gen[r] = generations[ScopeOf[r]]
        => r \in finished
<1>1. IInv /\ [Next]_vars => [Spared]_vars
  <2> SUFFICES ASSUME IInv, Next, NEW r \in Runs,
                      AnchorOf[r] \in marks \ marks',
                      gen[r] = generations[ScopeOf[r]]
               PROVE  r \in finished
    OBVIOUS
  <2>1. PICK d \in deletes : DeleteReturns(d)
    BY DEF Next, Start, AddLands, AddReturns, FinishKnownToken, DispatchFails,
           DispatchReturns, CleanupFires, SendFinishes, FinishTokens
  <2>2. PICK q \in Runs, w \in Reasons : d = <<q, w>>
    BY DEF IInv, TypeOK
  <2>3. q = r
    BY <2>1, <2>2 DEF DeleteReturns, DistinctAnchors
  <2>4. gen[r] \in Nat /\ ~(gen[r] < generations[ScopeOf[r]])
    BY RunAssumption DEF IInv, TypeOK
  <2> QED BY <2>2, <2>3, <2>4 DEF IInv, DeletesJustified
<1> QED BY <1>1, Invariance, PTL DEF Spec, NewerMarkerSurvives

\* Everything about markers, pending states and the anchor index stays in
\* step, whichever of start, add, dispatch, finish and delete comes first.
THEOREM MarkersStayInStep ==
  ASSUME DistinctAnchors
  PROVE  Spec => []MarkersInStep
<1>1. TypeOK /\ NoOrphanMarker /\ OneDeletePerRun /\ AnchorIndexExact /\ VisibleIsShown
        => MarkersInStep
  BY DEF MarkersInStep
<1> QED
  BY <1>1, TypeCorrect, NoMarkerIsOrphaned, EachRunDeletedOnce, AnchorIndexIsExact,
     VisibleRunsAreShown, PTL
-----------------------------------------------------------------------------
(* RecallFlow: what is recalled and which acknowledgements are swallowed *)

\* The lists of the store and the calls hold messages, times and credits.
RecallTypes ==
  /\ chatOf \in Seq(Chats)
  /\ stored \subseteq [id : Nat, chat : Chats, seq : BOOLEAN]
  /\ context \in [Turns -> [quotes : Int, latest : BOOLEAN, kept : BOOLEAN]]
  /\ call \in [Turns -> [on : BOOLEAN, chat : Chats, asked : Int, hinted : BOOLEAN,
                         targets : SUBSET [id : Int, chat : Chats, seq : BOOLEAN],
                         any : BOOLEAN]]
  /\ silence \in [Turns -> [chat : Chats, until : Nat]]
  /\ credit \in [Turns -> [Chats -> Int]]
  /\ calls \in Nat
  /\ now \in Nat

\* A call has one target, or targets that are messages of the bot.
TargetsAreFew ==
  \A t \in Turns :
    \/ \E e \in call[t].targets : call[t].targets = {e}
    \/ \A e \in call[t].targets : e.id \in DOMAIN chatOf

\* A target is the message that was asked for, or one of the chat.
TargetsOfChat ==
  \A t \in Turns : \A e \in call[t].targets :
    e.id = call[t].asked \/ (e.id \in DOMAIN chatOf /\ chatOf[e.id] = call[t].chat)

\* The target of a call that names a message was named or quoted, or is the
\* latest where the turn's own message asks for it.
TargetsWereMeant ==
  \A t \in Turns : call[t].hinted /\ call[t].asked # None =>
    \A e \in call[t].targets :
      \/ e.id \in {call[t].asked, context[t].quotes}
      \/ call[t].asked = -t /\ context[t].latest

\* The acknowledgements that are still to be swallowed: one under a live mark,
\* one more under the mark that the running call will leave.
Due(t, c) == (IF Silenced(t, c) THEN 1 ELSE 0)
             + (IF call[t].any /\ call[t].chat = c THEN 1 ELSE 0)

\* None of them is without a message that was removed for it.
CreditCovers == \A t \in Turns, c \in Chats : credit[t][c] >= Due(t, c)

\* The inductive invariant of the recalls.
RecallInv ==
  /\ RecallTypes /\ RecallTypeOK
  /\ TargetsAreFew /\ TargetsOfChat /\ TargetsWereMeant
  /\ RecalledIsForgotten
  /\ CreditCovers

LEMMA RecallBounds ==
  MaxSent \in Nat /\ MaxCalls \in Nat /\ MaxTime \in Nat /\ SilenceTtl \in Nat
<1>1. {MaxSent, MaxCalls, MaxTime, SilenceTtl} \subseteq Nat
  BY RecallAssumption, Zenon
<1> QED BY <1>1

\* A turn without a call has no targets.
LEMMA IdleCall ==
  Idle \in [on : BOOLEAN, chat : Chats, asked : Int, hinted : BOOLEAN,
            targets : SUBSET [id : Int, chat : Chats, seq : BOOLEAN], any : BOOLEAN]
BY DEF Idle, Chats, None

LEMMA RecallInitInv == RecallInit => RecallInv
<1> SUFFICES ASSUME RecallInit PROVE RecallInv
  OBVIOUS
<1>1. PICK sent \in Begun :
        /\ chatOf = [i \in DOMAIN sent |-> sent[i].chat]
        /\ stored = {[id |-> i, chat |-> sent[i].chat, seq |-> sent[i].seq] :
                       i \in DOMAIN sent}
  BY DEF RecallInit
<1>2. sent \in Seq([chat : Chats, seq : BOOLEAN])
  BY RecallAssumption
<1>3. /\ Len(sent) \in Nat /\ DOMAIN sent = 1 .. Len(sent)
      /\ \A i \in DOMAIN sent : sent[i].chat \in Chats /\ sent[i].seq \in BOOLEAN
  <2>1. /\ Len(sent) \in Nat /\ DOMAIN sent = 1 .. Len(sent)
        /\ sent \in [1 .. Len(sent) -> [chat : Chats, seq : BOOLEAN]]
    BY <1>2, LenProperties, Zenon
  <2> QED BY <2>1
<1>4. chatOf \in Seq(Chats) /\ DOMAIN chatOf = DOMAIN sent
  BY <1>1, <1>3
<1>5. stored \subseteq [id : Nat, chat : Chats, seq : BOOLEAN]
  BY <1>1, <1>3
<1>6. /\ \A t \in Turns : call[t] = Idle
      /\ call \in [Turns -> [on : BOOLEAN, chat : Chats, asked : Int, hinted : BOOLEAN,
                     targets : SUBSET [id : Int, chat : Chats, seq : BOOLEAN],
                     any : BOOLEAN]]
  BY IdleCall DEF RecallInit
<1>7. /\ silence \in [Turns -> [chat : Chats, until : Nat]]
      /\ \A t \in Turns : silence[t].until = 0
  BY DEF RecallInit, NoMark, Chats
<1>8. /\ credit \in [Turns -> [Chats -> Int]]
      /\ \A t \in Turns, c \in Chats : credit[t][c] = 0
      /\ calls = 0 /\ now = 0 /\ shown = DOMAIN chatOf
  BY DEF RecallInit
<1>9. /\ context \in [Turns -> [quotes : Int, latest : BOOLEAN, kept : BOOLEAN]]
      /\ \A t \in Turns : context[t].quotes \in {None} \cup DOMAIN chatOf
  <2>1. /\ context \in [Turns -> [quotes : 0 .. MaxSent, latest : BOOLEAN, kept : {TRUE}]]
        /\ \A t \in Turns : context[t].quotes = None \/ context[t].quotes \in DOMAIN chatOf
    BY DEF RecallInit, Contexts
  <2>2. 0 .. MaxSent \subseteq Int
    BY RecallBounds
  <2>3. \A t \in Turns : context[t] \in [quotes : Int, latest : BOOLEAN, kept : BOOLEAN]
    BY <2>1, <2>2
  <2> QED BY <2>1, <2>3
<1>10. RecallTypes
  BY <1>4, <1>5, <1>6, <1>7, <1>8, <1>9 DEF RecallTypes
<1>11. SilenceTtl \in Nat /\ MaxCalls \in Nat /\ MaxTime \in Nat
  BY RecallBounds
<1>12. RecallTypeOK
  BY <1>1, <1>4, <1>6, <1>7, <1>8, <1>9, <1>11 DEF RecallTypeOK, Idle
<1>13. /\ TargetsAreFew /\ TargetsOfChat /\ TargetsWereMeant /\ RecalledIsForgotten
  BY <1>1, <1>4, <1>6, <1>8
     DEF TargetsAreFew, TargetsOfChat, TargetsWereMeant, RecalledIsForgotten, Idle
<1>14. CreditCovers
  BY <1>6, <1>7, <1>8 DEF CreditCovers, Due, Silenced, Idle
<1> QED BY <1>10, <1>12, <1>13, <1>14 DEF RecallInv

-----------------------------------------------------------------------------
(* RecallFlow: the targets of a call *)

\* A non-empty set of naturals has a least element.
LEMMA LeastNumber ==
  ASSUME NEW T, T \subseteq Nat, T # {}
  PROVE  \E x \in T : \A y \in T : x <= y
<1>1. PICK x \in T : \A y \in T : ~ (<<y, x>> \in OpToRel(<, Nat))
  BY NatLessThanWellFounded, WFMin, Zenon
<1>2. \A y \in T : ~ (y < x)
  BY <1>1 DEF OpToRel
<1> QED  BY <1>2

\* A call under way has a newest target.
LEMMA NewestTarget ==
  ASSUME RecallInv, NEW t \in Turns, call[t].on
  PROVE  /\ Target(t) \in call[t].targets
         /\ Target(t) \in [id : Int, chat : Chats, seq : BOOLEAN]
<1> DEFINE T == call[t].targets
<1>1. T # {} /\ T \in SUBSET [id : Int, chat : Chats, seq : BOOLEAN]
  BY DEF RecallInv, RecallTypeOK, RecallTypes
<1>2. \E e \in T : \A f \in T : f.id <= e.id
  <2>1. CASE \E e \in T : T = {e}
    BY <1>1, <2>1
  <2>2. CASE \A e \in T : e.id \in DOMAIN chatOf
    <3>1. Len(chatOf) \in Nat /\ \A e \in T : e.id \in 1 .. Len(chatOf)
      BY <2>2 DEF RecallInv, RecallTypes
    <3> DEFINE M == {Len(chatOf) - e.id : e \in T}
    <3>2. M \subseteq Nat /\ M # {}
      BY <1>1, <3>1
    <3> HIDE DEF M
    <3>3. PICK x \in M : \A y \in M : x <= y
      BY <3>2, LeastNumber
    <3>4. PICK e \in T : x = Len(chatOf) - e.id
      BY <3>3 DEF M
    <3>5. \A f \in T : Len(chatOf) - e.id <= Len(chatOf) - f.id
      BY <3>3, <3>4 DEF M
    <3>6. \A f \in T : f.id <= e.id
      BY <3>1, <3>5
    <3> QED BY <3>6
  <2> QED BY <2>1, <2>2 DEF RecallInv, TargetsAreFew
<1>3. Target(t) \in T
  BY <1>2 DEF Target
<1> QED BY <1>1, <1>3

\* What a call finds to recall is what was asked for, what the message quoted,
\* or the newest of the chat.
LEMMA TargetsFound ==
  ASSUME RecallInv, NEW q \in Requests,
         NEW T, T = Targets(q.turn, q.asked, q.hinted, q.chat, q.count)
  PROVE  /\ T \subseteq [id : Int, chat : Chats, seq : BOOLEAN]
         /\ (\E e \in T : T = {e}) \/ (\A e \in T : e.id \in DOMAIN chatOf)
         /\ \A e \in T : e.id = q.asked \/ (e.id \in DOMAIN chatOf /\ chatOf[e.id] = q.chat)
         /\ q.hinted /\ q.asked # None =>
              \A e \in T : \/ e.id \in {q.asked, context[q.turn].quotes}
                           \/ q.asked = -q.turn /\ context[q.turn].latest
<1>1. /\ q.turn \in Turns /\ q.asked \in Int /\ q.hinted \in BOOLEAN
      /\ q.chat \in Chats /\ q.count \in Nat
  BY RecallAssumption
<1> DEFINE t == q.turn
           asked == q.asked
           Meant(e) == \/ e.id \in {asked, context[t].quotes}
                       \/ asked = -t /\ context[t].latest
           OfChat(id) == id \in DOMAIN chatOf /\ chatOf[id] = q.chat
           Fine(S) ==
             /\ S \subseteq [id : Int, chat : Chats, seq : BOOLEAN]
             /\ (\E e \in S : S = {e}) \/ (\A e \in S : e.id \in DOMAIN chatOf)
             /\ \A e \in S : e.id = asked \/ OfChat(e.id)
<1>2. \A id : InStore(q.chat, id) => OfChat(id) /\ id \in Int
  BY DEF RecallInv, RecallTypeOK, RecallTypes, InStore
<1>3. ASSUME NEW n
      PROVE  /\ Recent(q.chat, n) \subseteq {e \in stored : e.chat = q.chat}
             /\ Fine(Recent(q.chat, n))
  <2>1. Recent(q.chat, n) \subseteq {e \in stored : e.chat = q.chat}
    BY DEF Recent
  <2>2. \A e \in stored : e \in [id : Int, chat : Chats, seq : BOOLEAN]
                          /\ e.id \in DOMAIN chatOf /\ e.chat = chatOf[e.id]
    BY DEF RecallInv, RecallTypeOK, RecallTypes
  <2> QED BY <2>1, <2>2
<1>4. ASSUME NEW a \in Int, a = asked \/ OfChat(a),
             NEW S, S = Named(t, a, q.hinted, q.chat)
      PROVE  /\ Fine(S)
             /\ \A e \in S : e.id \in {a, context[t].quotes}
  <2> DEFINE id == IF NeedsFallback(q.chat, a) /\ Fallback(t, q.hinted, q.chat) # {}
                   THEN context[t].quotes ELSE a
             seen == InStore(q.chat, id) /\ HasSeq(id)
  <2>1. S = {[id |-> id, chat |-> q.chat, seq |-> seen]}
    BY <1>4 DEF Named
  <2>2. Fallback(t, q.hinted, q.chat) # {} => InStore(q.chat, context[t].quotes)
    BY DEF Fallback
  <2>3. id \in {a, context[t].quotes} /\ id \in Int
        /\ (id = asked \/ OfChat(id))
    BY <1>1, <1>2, <1>4, <2>2 DEF RecallInv, RecallTypes
  <2>4. seen \in BOOLEAN
    <3>1. CASE InStore(q.chat, id)
      <4>1. Entry(id) \in stored
        BY <3>1 DEF InStore, Entry
      <4> QED BY <4>1 DEF HasSeq, RecallInv, RecallTypes
    <3>2. CASE ~InStore(q.chat, id)
      BY <3>2
    <3> QED BY <3>1, <3>2
  <2> HIDE DEF id, seen
  <2>5. PICK i \in Int : i = id
    BY <2>3
  <2>6. PICK b \in BOOLEAN : b = seen
    BY <2>4, Zenon
  <2>7. S = {[id |-> i, chat |-> q.chat, seq |-> b]}
    BY <2>1, <2>5, <2>6, Zenon
  <2>8. S \subseteq [id : Int, chat : Chats, seq : BOOLEAN]
    BY <1>1, <2>7
  <2>9. \A e \in S : S = {e} /\ e.id = i
    BY <2>7
  <2>10. \E e \in S : S = {e}
    BY <2>7
  <2>11. (i = asked \/ OfChat(i)) /\ i \in {a, context[t].quotes}
    BY <2>3, <2>5
  <2> QED BY <2>8, <2>9, <2>10, <2>11
<1>5. \A u \in TakenForInbound(t, asked, q.hinted) :
         u \in Turns /\ asked = -u /\ (q.hinted => u = t)
  BY DEF TakenForInbound
<1>6. CASE asked = None
  BY <1>3, <1>6 DEF Targets
<1>7. CASE asked # None /\ Swapped(t, asked, q.hinted, q.chat) # {}
  <2> DEFINE s == CHOOSE v \in Swapped(t, asked, q.hinted, q.chat) : TRUE
  <2>1. s \in Swapped(t, asked, q.hinted, q.chat)
    BY <1>7
  <2>2. PICK u \in TakenForInbound(t, asked, q.hinted) :
          InStore(q.chat, context[u].quotes) /\ s = context[u].quotes
    BY <2>1 DEF Swapped
  <2>3. s \in Int /\ OfChat(s) /\ (q.hinted => s = context[t].quotes)
    BY <1>2, <1>5, <2>2
  <2>4. T = Named(t, s, q.hinted, q.chat)
    BY <1>7 DEF Targets
  <2>5. Fine(T) /\ \A e \in T : e.id \in {s, context[t].quotes}
    <3> HIDE DEF s, Fine, OfChat
    <3>1. PICK a \in Int : a = s
      BY <2>3
    <3> QED BY <1>4, <2>3, <2>4, <3>1
  <2> QED BY <2>3, <2>5
<1>8. CASE /\ asked # None /\ Swapped(t, asked, q.hinted, q.chat) = {}
           /\ DropsToCount(t, asked, q.hinted, q.chat)
  <2>1. T = Recent(q.chat, 1)
    BY <1>8 DEF Targets
  <2>2. q.hinted => asked = -t /\ context[t].latest
    BY <1>5, <1>8 DEF DropsToCount
  <2>3. Fine(T)
    BY <1>3, <2>1
  <2> QED BY <2>2, <2>3
<1>9. CASE /\ asked # None /\ Swapped(t, asked, q.hinted, q.chat) = {}
           /\ ~DropsToCount(t, asked, q.hinted, q.chat)
  <2>1. T = Named(t, asked, q.hinted, q.chat)
    BY <1>9 DEF Targets
  <2>2. Fine(T) /\ \A e \in T : e.id \in {asked, context[t].quotes}
    BY <1>1, <1>4, <2>1
  <2> QED BY <2>2
<1> QED BY <1>6, <1>7, <1>8, <1>9
-----------------------------------------------------------------------------
(* RecallFlow: the steps *)

\* The fields that Due and the targets depend on, for one turn.
DueOf(mark, c, any, chat) ==
  (IF mark.until > now /\ mark.chat = c THEN 1 ELSE 0)
  + (IF any /\ chat = c THEN 1 ELSE 0)

\* After a target, or the last one: fewer targets of the same call, and at most
\* one acknowledgement more to swallow, in the chat where the recall succeeded.
LEMMA AdvanceStep ==
  ASSUME RecallInv, NEW t \in Turns, NEW b \in BOOLEAN, call[t].on, Advance(t, b)
  PROVE  /\ call' \in [Turns -> [on : BOOLEAN, chat : Chats, asked : Int,
                       hinted : BOOLEAN,
                       targets : SUBSET [id : Int, chat : Chats, seq : BOOLEAN],
                       any : BOOLEAN]]
         /\ silence' \in [Turns -> [chat : Chats, until : Nat]]
         /\ \A u \in Turns : u # t => call'[u] = call[u] /\ silence'[u] = silence[u]
         /\ call'[t].targets \subseteq call[t].targets
         /\ call'[t].on => call'[t].targets # {}
         /\ call'[t].targets # {} =>
              /\ call'[t].chat = call[t].chat
              /\ call'[t].asked = call[t].asked /\ call'[t].hinted = call[t].hinted
         /\ silence'[t].until \in 0 .. now + SilenceTtl
         /\ \A c \in Chats :
              DueOf(silence'[t], c, call'[t].any, call'[t].chat)
                <= Due(t, c) + (IF b /\ c = call[t].chat THEN 1 ELSE 0)
<1> DEFINE any == call[t].any \/ b
           others == call[t].targets \ {Target(t)}
           CallType == [on : BOOLEAN, chat : Chats, asked : Int, hinted : BOOLEAN,
                        targets : SUBSET [id : Int, chat : Chats, seq : BOOLEAN],
                        any : BOOLEAN]
<1>1. /\ call \in [Turns -> CallType] /\ call[t] \in CallType
      /\ silence \in [Turns -> [chat : Chats, until : Nat]]
      /\ now \in Nat /\ SilenceTtl \in Nat
      /\ silence[t] \in [chat : Chats, until : Nat]
      /\ silence[t].until \in 0 .. now + SilenceTtl
  BY RecallBounds DEF RecallInv, RecallTypes, RecallTypeOK
<1>2. PICK a \in BOOLEAN : a = any
  BY <1>1, Zenon
<1>3. CASE others # {}
  <2>1. /\ call' = [call EXCEPT ![t].targets = others, ![t].any = a]
        /\ silence' = silence
    BY <1>2, <1>3 DEF Advance
  <2>2. /\ call'[t].targets = others /\ call'[t].any = a
        /\ call'[t].chat = call[t].chat /\ call'[t].asked = call[t].asked
        /\ call'[t].hinted = call[t].hinted
        /\ call' \in [Turns -> CallType]
        /\ \A u \in Turns : u # t => call'[u] = call[u]
    BY <1>1, <2>1
  <2>3. ASSUME NEW c \in Chats
        PROVE DueOf(silence'[t], c, call'[t].any, call'[t].chat)
                <= Due(t, c) + (IF b /\ c = call[t].chat THEN 1 ELSE 0)
    <3>1. CASE c = call[t].chat
      BY <1>1, <1>2, <2>1, <2>2, <3>1 DEF DueOf, Due, Silenced
    <3>2. CASE c # call[t].chat
      BY <1>1, <1>2, <2>1, <2>2, <3>2 DEF DueOf, Due, Silenced
    <3> QED BY <3>1, <3>2
  <2> QED BY <1>1, <1>3, <2>1, <2>2, <2>3
<1>4. CASE others = {}
  <2>1. /\ call' = [call EXCEPT ![t] = Idle]
        /\ silence' = IF a THEN [silence EXCEPT ![t] = [chat |-> call[t].chat,
                                                        until |-> now + SilenceTtl]]
                      ELSE silence
    BY <1>2, <1>4 DEF Advance
  <2>2. /\ call'[t] = Idle /\ \A u \in Turns : u # t => call'[u] = call[u]
        /\ call' \in [Turns -> CallType]
    BY <1>1, <2>1, IdleCall
  <2>3. call'[t].targets = {} /\ ~call'[t].any /\ ~call'[t].on
    BY <2>2 DEF Idle
  <2>4. /\ silence' \in [Turns -> [chat : Chats, until : Nat]]
        /\ \A u \in Turns : u # t => silence'[u] = silence[u]
        /\ a => silence'[t].chat = call[t].chat
                /\ silence'[t].until = now + SilenceTtl
        /\ ~a => silence'[t] = silence[t]
    BY <1>1, <2>1
  <2>5. ASSUME NEW c \in Chats
        PROVE DueOf(silence'[t], c, call'[t].any, call'[t].chat)
                <= Due(t, c) + (IF b /\ c = call[t].chat THEN 1 ELSE 0)
    <3>1. CASE a /\ c = call[t].chat
      BY <1>1, <1>2, <2>3, <2>4, <3>1 DEF DueOf, Due, Silenced
    <3>2. CASE a /\ c # call[t].chat
      BY <1>1, <1>2, <2>3, <2>4, <3>2 DEF DueOf, Due, Silenced
    <3>3. CASE ~a
      BY <1>1, <1>2, <2>3, <2>4, <3>3 DEF DueOf, Due, Silenced
    <3> QED BY <3>1, <3>2, <3>3
  <2>6. silence'[t].until \in 0 .. now + SilenceTtl
    BY <1>1, <2>4
  <2> QED BY <2>2, <2>3, <2>4, <2>5, <2>6
<1> QED BY <1>3, <1>4
\* The targets that are left are as good as those the call began with.
LEMMA AdvanceTargets ==
  ASSUME RecallInv, NEW t \in Turns, NEW b \in BOOLEAN, call[t].on, Advance(t, b),
         UNCHANGED <<chatOf, context>>
  PROVE  /\ TargetsAreFew' /\ TargetsOfChat' /\ TargetsWereMeant'
         /\ \A u \in Turns : /\ call'[u].on => call'[u].targets # {}
                             /\ silence'[u].until \in 0 .. now + SilenceTtl
<1>1. /\ \A u \in Turns : u # t => call'[u] = call[u] /\ silence'[u] = silence[u]
      /\ call'[t].targets \subseteq call[t].targets
      /\ call'[t].on => call'[t].targets # {}
      /\ call'[t].targets # {} =>
           /\ call'[t].chat = call[t].chat
           /\ call'[t].asked = call[t].asked /\ call'[t].hinted = call[t].hinted
      /\ silence'[t].until \in 0 .. now + SilenceTtl
  BY AdvanceStep
<1>2. TargetsAreFew'
  <2> SUFFICES ASSUME NEW u \in Turns
               PROVE  \/ \E e \in call'[u].targets : call'[u].targets = {e}
                      \/ \A e \in call'[u].targets : e.id \in DOMAIN chatOf
    BY DEF TargetsAreFew
  <2>1. \/ \E e \in call[u].targets : call[u].targets = {e}
        \/ \A e \in call[u].targets : e.id \in DOMAIN chatOf
    BY DEF RecallInv, TargetsAreFew
  <2>2. call'[u].targets \subseteq call[u].targets
    BY <1>1
  <2> QED BY <2>1, <2>2
<1>3. TargetsOfChat'
  BY <1>1 DEF RecallInv, TargetsOfChat
<1>4. TargetsWereMeant'
  BY <1>1 DEF RecallInv, TargetsWereMeant
<1>5. \A u \in Turns : /\ call'[u].on => call'[u].targets # {}
                       /\ silence'[u].until \in 0 .. now + SilenceTtl
  BY <1>1 DEF RecallInv, RecallTypeOK
<1> QED BY <1>2, <1>3, <1>4, <1>5

LEMMA RecallFailsInv ==
  ASSUME RecallInv, NEW t \in Turns, RecallFails(t)
  PROVE  RecallInv'
<1> USE DEF RecallFails
<1>1. RecallTypes'
  BY AdvanceStep DEF RecallInv, RecallTypes
<1>2. RecallTypeOK'
  BY AdvanceTargets DEF RecallInv, RecallTypeOK
<1>3. TargetsAreFew' /\ TargetsOfChat' /\ TargetsWereMeant'
  BY AdvanceTargets
<1>4. RecalledIsForgotten'
  BY DEF RecallInv, RecalledIsForgotten
<1>5. CreditCovers'
  <2> SUFFICES ASSUME NEW u \in Turns, NEW c \in Chats
               PROVE  credit[u][c] >= DueOf(silence'[u], c, call'[u].any, call'[u].chat)
    BY DEF CreditCovers, Due, Silenced, DueOf
  <2>1. /\ credit[u][c] >= Due(u, c) /\ credit[u][c] \in Int
        /\ Due(u, c) \in Int
    BY DEF RecallInv, CreditCovers, RecallTypes, Due
  <2>2. CASE u = t
    <3>1. DueOf(silence'[t], c, call'[t].any, call'[t].chat) <= Due(t, c)
      <4>1. DueOf(silence'[t], c, call'[t].any, call'[t].chat)
              <= Due(t, c) + (IF FALSE /\ c = call[t].chat THEN 1 ELSE 0)
        BY AdvanceStep
      <4> QED BY <2>1, <2>2, <4>1
    <3>2. DueOf(silence'[t], c, call'[t].any, call'[t].chat) \in Int
      BY DEF DueOf
    <3> QED BY <2>1, <2>2, <3>1, <3>2
  <2>3. CASE u # t
    <3>1. call'[u] = call[u] /\ silence'[u] = silence[u]
      BY <2>3, AdvanceStep
    <3> QED BY <2>1, <3>1 DEF Due, Silenced, DueOf
  <2> QED BY <2>2, <2>3
<1> QED BY <1>1, <1>2, <1>3, <1>4, <1>5 DEF RecallInv

LEMMA RecallOneInv ==
  ASSUME RecallInv, NEW t \in Turns, NEW answered \in BOOLEAN, RecallOne(t, answered)
  PROVE  RecallInv'
<1> DEFINE id == Target(t).id
           chat == call[t].chat
<1>1. /\ call[t].on /\ Recallable(t) /\ Advance(t, answered)
      /\ shown' = shown \ {id}
      /\ credit' = [credit EXCEPT ![t][chat] = @ + 1]
      /\ stored' = IF answered THEN Removed(t) ELSE stored
      /\ missed' = IF answered /\ chatOf[id] = chat THEN missed ELSE missed \cup {id}
      /\ UNCHANGED <<chatOf, context, calls, now>>
  BY DEF RecallOne
<1>2. stored' \subseteq stored
  BY <1>1 DEF Removed
<1>3. chat \in Chats /\ credit \in [Turns -> [Chats -> Int]]
  BY DEF RecallInv, RecallTypes
<1>4. credit' \in [Turns -> [Chats -> Int]]
      /\ \A u \in Turns, c \in Chats :
           credit'[u][c] = credit[u][c] + (IF u = t /\ c = chat THEN 1 ELSE 0)
  <2> HIDE DEF chat
  <2> QED BY <1>1, <1>3
<1>5. RecallTypes'
  <2>1. /\ call' \in [Turns -> [on : BOOLEAN, chat : Chats, asked : Int,
                      hinted : BOOLEAN,
                      targets : SUBSET [id : Int, chat : Chats, seq : BOOLEAN],
                      any : BOOLEAN]]
        /\ silence' \in [Turns -> [chat : Chats, until : Nat]]
    BY <1>1, AdvanceStep
  <2>2. stored' \subseteq [id : Nat, chat : Chats, seq : BOOLEAN]
    BY <1>2 DEF RecallInv, RecallTypes
  <2> QED BY <1>1, <1>4, <2>1, <2>2 DEF RecallInv, RecallTypes
<1>6. RecallTypeOK'
  BY <1>1, <1>2, AdvanceTargets DEF RecallInv, RecallTypeOK
<1>7. TargetsAreFew' /\ TargetsOfChat' /\ TargetsWereMeant'
  BY <1>1, AdvanceTargets
<1>8. RecalledIsForgotten'
  <2> SUFFICES ASSUME NEW e \in stored' PROVE e.id \in shown' \cup missed'
    BY DEF RecalledIsForgotten
  <2>1. e \in stored /\ e.id \in shown \cup missed /\ e.chat = chatOf[e.id]
    BY <1>2 DEF RecallInv, RecalledIsForgotten, RecallTypeOK
  <2>2. CASE e.id # id
    BY <1>1, <2>1, <2>2
  <2>3. CASE e.id = id /\ answered /\ chatOf[id] = chat
    <3>1. e \in Removed(t)
      BY <1>1, <2>3
    <3>2. ~(e.id = id /\ e.chat = chat)
      BY <3>1 DEF Removed
    <3> QED BY <2>1, <2>3, <3>2
  <2>4. CASE e.id = id /\ ~(answered /\ chatOf[id] = chat)
    BY <1>1, <2>4
  <2> QED BY <2>2, <2>3, <2>4
<1>9. CreditCovers'
  <2> SUFFICES ASSUME NEW u \in Turns, NEW c \in Chats
               PROVE  credit'[u][c] >= DueOf(silence'[u], c, call'[u].any, call'[u].chat)
    BY <1>1 DEF CreditCovers, Due, Silenced, DueOf
  <2>1. /\ credit[u][c] >= Due(u, c) /\ credit[u][c] \in Int
        /\ Due(u, c) \in Int
    BY DEF RecallInv, CreditCovers, RecallTypes, Due
  <2>2. DueOf(silence'[u], c, call'[u].any, call'[u].chat) \in Int
    BY DEF DueOf
  <2>3. CASE u = t
    <3>1. DueOf(silence'[t], c, call'[t].any, call'[t].chat)
            <= Due(t, c) + (IF answered /\ c = chat THEN 1 ELSE 0)
      BY <1>1, AdvanceStep
    <3>2. credit'[t][c] = credit[t][c] + (IF c = chat THEN 1 ELSE 0)
      BY <1>4
    <3> HIDE DEF chat
    <3>3. CASE c = chat
      BY <2>1, <2>2, <2>3, <3>1, <3>2, <3>3
    <3>4. CASE c # chat
      BY <2>1, <2>2, <2>3, <3>1, <3>2, <3>4
    <3> QED BY <3>3, <3>4
  <2>4. CASE u # t
    <3>1. call'[u] = call[u] /\ silence'[u] = silence[u] /\ credit'[u][c] = credit[u][c]
      BY <1>1, <1>4, <2>1, <2>4, AdvanceStep
    <3> QED BY <2>1, <3>1 DEF Due, Silenced, DueOf
  <2> QED BY <2>3, <2>4
<1> QED BY <1>5, <1>6, <1>7, <1>8, <1>9 DEF RecallInv
LEMMA CallInv ==
  ASSUME RecallInv, NEW q \in Requests, Call(q)
  PROVE  RecallInv'
<1>1. PICK T : T = Targets(q.turn, q.asked, q.hinted, q.chat, q.count)
  OBVIOUS
<1> DEFINE new == [on |-> TRUE, chat |-> q.chat, asked |-> q.asked,
                   hinted |-> q.hinted, targets |-> T, any |-> FALSE]
<1>2. /\ ~call[q.turn].on /\ calls < MaxCalls /\ calls' = calls + 1
      /\ call' = IF T = {} THEN call ELSE [call EXCEPT ![q.turn] = new]
      /\ UNCHANGED <<chatOf, shown, stored, context, missed, silence, credit, now>>
  BY <1>1 DEF Call
<1>3. /\ q.turn \in Turns /\ q.asked \in Int /\ q.hinted \in BOOLEAN
      /\ q.chat \in Chats /\ q.count \in Nat
  BY RecallAssumption
<1>4. /\ T \subseteq [id : Int, chat : Chats, seq : BOOLEAN]
      /\ (\E e \in T : T = {e}) \/ (\A e \in T : e.id \in DOMAIN chatOf)
      /\ \A e \in T : e.id = q.asked \/ (e.id \in DOMAIN chatOf /\ chatOf[e.id] = q.chat)
      /\ q.hinted /\ q.asked # None =>
           \A e \in T : \/ e.id \in {q.asked, context[q.turn].quotes}
                        \/ q.asked = -q.turn /\ context[q.turn].latest
  BY <1>1, TargetsFound
<1>5. CASE T = {}
  <2>1. RecallTypes' /\ RecallTypeOK'
    BY <1>2, <1>5, RecallBounds DEF RecallInv, RecallTypes, RecallTypeOK
  <2>2. TargetsAreFew' /\ TargetsOfChat' /\ TargetsWereMeant' /\ RecalledIsForgotten'
    BY <1>2, <1>5
       DEF RecallInv, TargetsAreFew, TargetsOfChat, TargetsWereMeant, RecalledIsForgotten
  <2>3. CreditCovers'
    BY <1>2, <1>5 DEF RecallInv, CreditCovers, Due, Silenced
  <2> QED BY <2>1, <2>2, <2>3 DEF RecallInv
<1>6. CASE T # {}
  <2>1. new \in [on : BOOLEAN, chat : Chats, asked : Int, hinted : BOOLEAN,
                 targets : SUBSET [id : Int, chat : Chats, seq : BOOLEAN],
                 any : BOOLEAN]
    BY <1>3, <1>4
  <2>2. /\ call'[q.turn] = new
        /\ \A u \in Turns : u # q.turn => call'[u] = call[u]
        /\ call' \in [Turns -> [on : BOOLEAN, chat : Chats, asked : Int,
                      hinted : BOOLEAN,
                      targets : SUBSET [id : Int, chat : Chats, seq : BOOLEAN],
                      any : BOOLEAN]]
    <3> HIDE DEF new
    <3> QED BY <1>2, <1>3, <1>6, <2>1 DEF RecallInv, RecallTypes
  <2>3. /\ call'[q.turn].chat = q.chat /\ call'[q.turn].asked = q.asked
        /\ call'[q.turn].hinted = q.hinted /\ call'[q.turn].targets = T
        /\ ~call'[q.turn].any
    BY <2>2
  <2> HIDE DEF new
  <2>4. RecallTypes'
    <3>1. calls' \in Nat
      BY <1>2 DEF RecallInv, RecallTypes
    <3> QED BY <1>2, <2>2, <3>1 DEF RecallInv, RecallTypes
  <2>5. RecallTypeOK'
    <3>1. \A u \in Turns : call'[u].on => call'[u].targets # {}
      BY <1>6, <2>2, <2>3 DEF RecallInv, RecallTypeOK
    <3>2. calls' \in 0 .. MaxCalls
      BY <1>2, RecallBounds DEF RecallInv, RecallTypes
    <3> QED BY <1>2, <3>1, <3>2 DEF RecallInv, RecallTypeOK
  <2>6. TargetsAreFew'
    BY <1>2, <1>4, <2>2, <2>3 DEF RecallInv, TargetsAreFew
  <2>7. TargetsOfChat'
    BY <1>2, <1>4, <2>2, <2>3 DEF RecallInv, TargetsOfChat
  <2>8. TargetsWereMeant'
    BY <1>2, <1>4, <2>2, <2>3 DEF RecallInv, TargetsWereMeant
  <2>9. RecalledIsForgotten'
    BY <1>2 DEF RecallInv, RecalledIsForgotten
  <2>10. CreditCovers'
    <3> SUFFICES ASSUME NEW u \in Turns, NEW c \in Chats
                 PROVE  credit[u][c] >= DueOf(silence[u], c, call'[u].any, call'[u].chat)
      BY <1>2 DEF CreditCovers, Due, Silenced, DueOf
    <3>1. /\ credit[u][c] >= DueOf(silence[u], c, call[u].any, call[u].chat)
          /\ credit[u][c] \in Int
      BY DEF RecallInv, CreditCovers, RecallTypes, Due, Silenced, DueOf
    <3>2. CASE u = q.turn
      BY <2>3, <3>1, <3>2 DEF DueOf
    <3>3. CASE u # q.turn
      BY <2>2, <3>1, <3>3
    <3> QED BY <3>2, <3>3
  <2> QED BY <2>4, <2>5, <2>6, <2>7, <2>8, <2>9, <2>10 DEF RecallInv
<1> QED BY <1>5, <1>6

LEMMA ForgetInv ==
  ASSUME RecallInv, NEW t \in Turns, Forget(t)
  PROVE  RecallInv'
<1>1. /\ context' = [context EXCEPT ![t].kept = FALSE]
      /\ UNCHANGED <<chatOf, shown, stored, call, calls, missed, silence, credit, now>>
  BY DEF Forget
<1>2. /\ context' \in [Turns -> [quotes : Int, latest : BOOLEAN, kept : BOOLEAN]]
      /\ \A u \in Turns : /\ context'[u].quotes = context[u].quotes
                          /\ context'[u].latest = context[u].latest
  BY ZenonT(30), <1>1 DEF RecallInv, RecallTypes
<1>3. RecallTypes' /\ RecallTypeOK'
  BY <1>1, <1>2 DEF RecallInv, RecallTypes, RecallTypeOK
<1>4. TargetsAreFew' /\ TargetsOfChat' /\ TargetsWereMeant' /\ RecalledIsForgotten'
  BY <1>1, <1>2
     DEF RecallInv, TargetsAreFew, TargetsOfChat, TargetsWereMeant, RecalledIsForgotten
<1>5. CreditCovers'
  BY <1>1 DEF RecallInv, CreditCovers, Due, Silenced
<1> QED BY <1>3, <1>4, <1>5 DEF RecallInv

LEMMA RecallTickInv ==
  ASSUME RecallInv, Tick
  PROVE  RecallInv'
<1>1. /\ now < MaxTime /\ now' = now + 1 /\ now \in Nat /\ MaxTime \in Nat
      /\ UNCHANGED <<chatOf, shown, stored, context, call, calls, missed, silence, credit>>
  BY RecallBounds DEF Tick, RecallInv, RecallTypes
<1>2. RecallTypes'
  BY <1>1 DEF RecallInv, RecallTypes
<1>3. RecallTypeOK'
  <2>1. \A t \in Turns : silence[t].until \in 0 .. now + 1 + SilenceTtl
    BY <1>1, RecallBounds DEF RecallInv, RecallTypeOK
  <2> QED BY <1>1, <2>1 DEF RecallInv, RecallTypeOK
<1>4. TargetsAreFew' /\ TargetsOfChat' /\ TargetsWereMeant' /\ RecalledIsForgotten'
  BY <1>1
     DEF RecallInv, TargetsAreFew, TargetsOfChat, TargetsWereMeant, RecalledIsForgotten
<1>5. CreditCovers'
  <2> SUFFICES ASSUME NEW t \in Turns, NEW c \in Chats
               PROVE  credit[t][c] >= Due(t, c)'
    BY <1>1 DEF CreditCovers
  <2>1. credit[t][c] >= Due(t, c) /\ credit[t][c] \in Int /\ silence[t].until \in Nat
    BY DEF RecallInv, CreditCovers, RecallTypes
  <2>2. silence[t].until > now + 1 => silence[t].until > now
    BY <1>1, <2>1
  <2> QED BY <1>1, <2>1, <2>2 DEF Due, Silenced
<1> QED BY <1>2, <1>3, <1>4, <1>5 DEF RecallInv
\* What is sent is new to the store.
LEMMA SendsStep ==
  ASSUME RecallInv, NEW chat \in Chats, NEW seq \in BOOLEAN, Sends(chat, seq)
  PROVE  /\ chatOf' \in Seq(Chats)
         /\ DOMAIN chatOf \subseteq DOMAIN chatOf'
         /\ \A i \in DOMAIN chatOf : chatOf'[i] = chatOf[i]
         /\ shown \subseteq shown' /\ shown' \subseteq DOMAIN chatOf'
         /\ stored' \subseteq [id : Nat, chat : Chats, seq : BOOLEAN]
         /\ \A e \in stored' : /\ e.id \in DOMAIN chatOf' /\ e.chat = chatOf'[e.id]
                               /\ e \in stored \/ e.id \in shown'
         /\ \A e, f \in stored' : e.id = f.id => e = f
<1> DEFINE n == Len(chatOf) + 1
           new == [id |-> n, chat |-> chat, seq |-> seq]
<1>1. /\ chatOf' = Append(chatOf, chat) /\ shown' = shown \cup {n}
      /\ stored' = stored \cup {new}
  BY DEF Sends
<1>2. /\ chatOf \in Seq(Chats) /\ Len(chatOf) \in Nat
      /\ DOMAIN chatOf = 1 .. Len(chatOf)
  BY LenProperties DEF RecallInv, RecallTypes
<1>3. /\ chatOf' \in Seq(Chats) /\ DOMAIN chatOf' = 1 .. n
      /\ \A i \in DOMAIN chatOf : chatOf'[i] = chatOf[i]
      /\ chatOf'[n] = chat
  BY <1>1, <1>2, AppendProperties
<1>4. /\ DOMAIN chatOf \subseteq DOMAIN chatOf' /\ n \in DOMAIN chatOf' /\ n \in Nat
      /\ n \notin DOMAIN chatOf
  BY <1>2, <1>3
<1>5. new \in [id : Nat, chat : Chats, seq : BOOLEAN]
      /\ new.id = n /\ new.chat = chat
  BY <1>4
<1>6. /\ stored \subseteq [id : Nat, chat : Chats, seq : BOOLEAN]
      /\ \A e \in stored : e.id \in DOMAIN chatOf /\ e.chat = chatOf[e.id]
      /\ \A e, f \in stored : e.id = f.id => e = f
      /\ shown \subseteq DOMAIN chatOf
  BY DEF RecallInv, RecallTypes, RecallTypeOK
<1> HIDE DEF n, new
<1> QED BY <1>1, <1>3, <1>4, <1>5, <1>6

LEMMA AnswerInv ==
  ASSUME RecallInv, NEW a \in Answers,
         Answer(a.turn, a.chat, a.text, a.followUp, a.seq)
  PROVE  RecallInv'
<1>1. PICK t \in Turns, chat \in Chats, text \in Utterances, followUp \in BOOLEAN,
           seq \in BOOLEAN : Answer(t, chat, text, followUp, seq)
  <2>1. /\ a.turn \in Turns /\ a.chat \in Chats /\ a.text \in Utterances
        /\ a.followUp \in BOOLEAN /\ a.seq \in BOOLEAN
    BY RecallAssumption
  <2> QED BY <2>1
<1> DEFINE silenced == text = "ack" /\ Silenced(t, chat)
           met == text = "ack" /\ silence[t].until <= now
<1>2. /\ UNCHANGED <<chatOf, shown, stored>> \/ Sends(chat, seq)
      /\ credit' = IF silenced THEN [credit EXCEPT ![t][chat] = @ - 1] ELSE credit
      /\ silence' = IF silenced \/ met THEN [silence EXCEPT ![t] = NoMark] ELSE silence
      /\ UNCHANGED <<context, call, calls, missed, now>>
  BY <1>1 DEF Answer
<1>3. /\ credit \in [Turns -> [Chats -> Int]] /\ now \in Nat
      /\ silence \in [Turns -> [chat : Chats, until : Nat]]
  BY DEF RecallInv, RecallTypes
<1>4. NoMark \in [chat : Chats, until : Nat] /\ NoMark.until = 0
  BY DEF NoMark, Chats
<1>5. /\ silence' \in [Turns -> [chat : Chats, until : Nat]]
      /\ \A u \in Turns : silence'[u] = silence[u] \/ silence'[u].until = 0
      /\ \A u \in Turns : u # t => silence'[u] = silence[u]
      /\ silenced \/ met => silence'[t].until = 0
      /\ ~(silenced \/ met) => silence'[t] = silence[t]
  BY <1>2, <1>3, <1>4
<1>6. /\ credit' \in [Turns -> [Chats -> Int]]
      /\ \A u \in Turns, c \in Chats :
           credit'[u][c] = credit[u][c] - (IF silenced /\ u = t /\ c = chat THEN 1 ELSE 0)
  <2> HIDE DEF silenced
  <2> QED BY <1>2, <1>3
<1>7. /\ chatOf' \in Seq(Chats)
      /\ DOMAIN chatOf \subseteq DOMAIN chatOf'
      /\ \A i \in DOMAIN chatOf : chatOf'[i] = chatOf[i]
      /\ shown \subseteq shown' /\ shown' \subseteq DOMAIN chatOf'
      /\ stored' \subseteq [id : Nat, chat : Chats, seq : BOOLEAN]
      /\ \A e \in stored' : /\ e.id \in DOMAIN chatOf' /\ e.chat = chatOf'[e.id]
                            /\ e \in stored \/ e.id \in shown'
      /\ \A e, f \in stored' : e.id = f.id => e = f
  <2>1. CASE UNCHANGED <<chatOf, shown, stored>>
    BY <2>1 DEF RecallInv, RecallTypes, RecallTypeOK
  <2>2. CASE Sends(chat, seq)
    BY <2>2, SendsStep
  <2> QED BY <1>2, <2>1, <2>2
<1>8. RecallTypes'
  BY <1>2, <1>5, <1>6, <1>7 DEF RecallInv, RecallTypes
<1>9. RecallTypeOK'
  <2>1. \A u \in Turns : /\ context'[u].quotes \in {None} \cup DOMAIN chatOf'
                         /\ call'[u].on => call'[u].targets # {}
    BY <1>2, <1>7 DEF RecallInv, RecallTypeOK
  <2>2. \A u \in Turns : silence'[u].until \in 0 .. now' + SilenceTtl
    BY <1>2, <1>3, <1>5, RecallBounds DEF RecallInv, RecallTypeOK
  <2> QED BY <1>2, <1>7, <2>1, <2>2 DEF RecallInv, RecallTypeOK
<1>10. TargetsAreFew' /\ TargetsOfChat' /\ TargetsWereMeant'
  <2>1. TargetsAreFew'
    BY <1>2, <1>7 DEF RecallInv, TargetsAreFew
  <2>2. TargetsOfChat'
    BY <1>2, <1>7 DEF RecallInv, TargetsOfChat
  <2>3. TargetsWereMeant'
    BY <1>2 DEF RecallInv, TargetsWereMeant
  <2> QED BY <2>1, <2>2, <2>3
<1>11. RecalledIsForgotten'
  BY <1>2, <1>7 DEF RecallInv, RecalledIsForgotten
<1>12. CreditCovers'
  <2> SUFFICES ASSUME NEW u \in Turns, NEW c \in Chats
               PROVE  credit'[u][c] >= DueOf(silence'[u], c, call[u].any, call[u].chat)
    BY <1>2 DEF CreditCovers, Due, Silenced, DueOf
  <2>1. /\ credit[u][c] >= DueOf(silence[u], c, call[u].any, call[u].chat)
        /\ credit[u][c] \in Int
    BY DEF RecallInv, CreditCovers, RecallTypes, Due, Silenced, DueOf
  <2>2. CASE silenced /\ u = t /\ c = chat
    <3>1. silence[t].until > now /\ silence[t].chat = c /\ ~(0 > now)
      BY <1>3, <2>2 DEF Silenced
    <3>2. credit'[u][c] = credit[u][c] - 1 /\ silence'[u].until = 0
      BY <1>5, <1>6, <2>2
    <3> QED BY <2>1, <2>2, <3>1, <3>2 DEF DueOf
  <2>3. CASE ~(silenced /\ u = t /\ c = chat)
    <3>1. credit'[u][c] = credit[u][c]
      BY <1>6, <2>1, <2>3
    <3>2. CASE silence'[u] = silence[u]
      BY <2>1, <3>1, <3>2
    <3>3. CASE silence'[u].until = 0
      BY <1>3, <2>1, <3>1, <3>3 DEF DueOf
    <3> QED BY <1>5, <3>2, <3>3
  <2> QED BY <2>2, <2>3
<1> QED BY <1>8, <1>9, <1>10, <1>11, <1>12 DEF RecallInv

LEMMA RecallStep == RecallInv /\ [RecallNext]_recallVars => RecallInv'
<1> SUFFICES ASSUME RecallInv, [RecallNext]_recallVars PROVE RecallInv'
  OBVIOUS
<1>1. CASE UNCHANGED recallVars
  BY <1>1 DEF recallVars, RecallInv, RecallTypes, RecallTypeOK, TargetsAreFew,
     TargetsOfChat, TargetsWereMeant, RecalledIsForgotten, CreditCovers, Due, Silenced
<1>2. CASE RecallNext
  BY <1>2, CallInv, ForgetInv, RecallFailsInv, RecallOneInv, AnswerInv, RecallTickInv
     DEF RecallNext
<1> QED BY <1>1, <1>2

LEMMA RecallInvariance == RecallSpec => []RecallInv
BY RecallInitInv, RecallStep, PTL DEF RecallSpec

-----------------------------------------------------------------------------
(* RecallFlow: the theorems *)

\* What the platform removed is forgotten, but for a lost answer or the wrong
\* chat, and "done, recalled" is swallowed only for what a turn did remove.
THEOREM AcknowledgementsAreEarned == RecallSpec => []SilenceIsEarned
<1>1. RecallInv => SilenceIsEarned
  <2> SUFFICES ASSUME RecallInv, NEW t \in Turns, NEW c \in Chats
               PROVE  credit[t][c] >= 0
    BY DEF RecallInv, SilenceIsEarned, SilenceMeansRecalled
  <2>1. credit[t][c] >= Due(t, c) /\ Due(t, c) >= 0 /\ credit[t][c] \in Int
        /\ Due(t, c) \in Int
    BY DEF RecallInv, CreditCovers, RecallTypes, Due
  <2> QED BY <2>1
<1> QED BY <1>1, RecallInvariance, PTL

\* A message leaves the platform only as the target of a running call.
LEMMA OnlyTargetsGo ==
  ASSUME RecallInv, [RecallNext]_recallVars, NEW id \in shown \ shown'
  PROVE  \E t \in Turns : /\ call[t].on /\ Recallable(t) /\ id = Target(t).id
                          /\ \A u \in Turns : u # t => call'[u] = call[u]
<1>1. ASSUME NEW q \in Requests, Call(q) PROVE shown' = shown
  BY <1>1 DEF Call
<1>2. ASSUME NEW t \in Turns, Forget(t) \/ RecallFails(t) PROVE shown' = shown
  BY <1>2 DEF Forget, RecallFails
<1>3. ASSUME NEW a \in Answers, Answer(a.turn, a.chat, a.text, a.followUp, a.seq)
      PROVE  shown \subseteq shown'
  BY <1>3 DEF Answer, Sends
<1>4. ASSUME Tick \/ UNCHANGED recallVars PROVE shown' = shown
  BY <1>4 DEF Tick, recallVars
<1>5. PICK t \in Turns, answered \in BOOLEAN : RecallOne(t, answered)
  BY <1>1, <1>2, <1>3, <1>4 DEF RecallNext
<1>6. call[t].on /\ Recallable(t) /\ Advance(t, answered) /\ shown' = shown \ {Target(t).id}
  BY <1>5 DEF RecallOne
<1>7. \A u \in Turns : u # t => call'[u] = call[u]
  BY <1>6, AdvanceStep
<1> QED BY <1>6, <1>7

\* Only the message that was meant goes, by id, quote or count, and nothing of
\* another chat but a message to another user whose id was given.
THEOREM OnlyMeantAreRecalled == RecallSpec => OnlyTheMeant
<1> DEFINE Meant ==
      \A t \in Turns :
        call[t] # call'[t] /\ call[t].hinted /\ call[t].asked # None =>
          \A id \in shown \ shown' :
            \/ id \in {call[t].asked, context[t].quotes}
            \/ call[t].asked = -t /\ context[t].latest
    InChat ==
      \A t \in Turns :
        call[t] # call'[t] =>
          \A id \in shown \ shown' :
            \/ chatOf[id] = call[t].chat
            \/ id = call[t].asked /\ "group" \notin {chatOf[id], call[t].chat}
<1>1. RecallInv /\ [RecallNext]_recallVars => [Meant]_recallVars /\ [InChat]_recallVars
  <2> SUFFICES ASSUME RecallInv, [RecallNext]_recallVars, NEW t \in Turns,
                      call[t] # call'[t], NEW id \in shown \ shown'
               PROVE  /\ call[t].hinted /\ call[t].asked # None =>
                           \/ id \in {call[t].asked, context[t].quotes}
                           \/ call[t].asked = -t /\ context[t].latest
                      /\ \/ chatOf[id] = call[t].chat
                         \/ id = call[t].asked
                            /\ "group" \notin {chatOf[id], call[t].chat}
    OBVIOUS
  <2>1. PICK u \in Turns : /\ call[u].on /\ Recallable(u) /\ id = Target(u).id
                           /\ \A v \in Turns : v # u => call'[v] = call[v]
    BY OnlyTargetsGo
  <2>2. u = t
    BY <2>1
  <2>3. Target(t) \in call[t].targets
    BY <2>1, <2>2, NewestTarget
  <2>4. /\ id = call[t].asked \/ (id \in DOMAIN chatOf /\ chatOf[id] = call[t].chat)
        /\ call[t].hinted /\ call[t].asked # None =>
             \/ id \in {call[t].asked, context[t].quotes}
             \/ call[t].asked = -t /\ context[t].latest
    BY <2>1, <2>2, <2>3 DEF RecallInv, TargetsOfChat, TargetsWereMeant
  <2>5. IF call[t].chat = "group" THEN chatOf[id] = "group" ELSE chatOf[id] # "group"
    BY <2>1, <2>2 DEF Recallable
  <2> QED BY <2>4, <2>5
<1> QED
  BY <1>1, RecallInvariance, PTL DEF RecallSpec, OnlyTheMeant, RecalledWasMeant, RecalledInChat
-----------------------------------------------------------------------------
(* Packets: the places of what a message holds *)

\* How many of these positions there are up to this one.
UpTo(S, i) == Cardinality({j \in S : j <= i})

\* The count of the positions up to one grows by one with each of them, so it
\* numbers them in their order.
LEMMA Counting ==
  ASSUME NEW n \in Nat, NEW S \in SUBSET (1 .. n)
  PROVE  /\ IsFiniteSet(S) /\ Cardinality(S) \in Nat
         /\ \A i \in Nat : UpTo(S, i) \in Nat /\ UpTo(S, i) <= Cardinality(S)
         /\ \A i, j \in Nat : i <= j => UpTo(S, i) <= UpTo(S, j)
         /\ \A i \in Nat, j \in S : i < j => UpTo(S, i) < UpTo(S, j)
         /\ UpTo(S, 0) = 0 /\ UpTo(S, n) = Cardinality(S)
         /\ \A i \in S : UpTo(S, i) > 0
         /\ \A k \in 1 .. Cardinality(S) : \E i \in S : UpTo(S, i) = k
<1> DEFINE Some(i) == {j \in S : j <= i}
<1>1. IsFiniteSet(S) /\ Cardinality(S) \in Nat
  <2>1. IsFiniteSet(1 .. n)
    BY FS_Interval
  <2> QED BY <2>1, FS_Subset, FS_CardinalityType
<1>2. \A i : IsFiniteSet(Some(i)) /\ UpTo(S, i) \in Nat /\ UpTo(S, i) <= Cardinality(S)
  <2> SUFFICES ASSUME NEW i
               PROVE  IsFiniteSet(Some(i)) /\ UpTo(S, i) \in Nat /\ UpTo(S, i) <= Cardinality(S)
    OBVIOUS
  <2>1. Some(i) \in SUBSET S
    OBVIOUS
  <2> QED BY <1>1, <2>1, FS_Subset, FS_CardinalityType DEF UpTo
<1>3. ASSUME NEW i \in Nat, NEW j \in Nat, i <= j
      PROVE  UpTo(S, i) <= UpTo(S, j)
  <2>1. Some(i) \in SUBSET Some(j)
    <3>1. \A x \in 1 .. n : x <= i => x <= j
      BY <1>3
    <3> QED BY <3>1
  <2>2. IsFiniteSet(Some(j))
    BY <1>2
  <2> HIDE DEF Some
  <2>3. Cardinality(Some(i)) <= Cardinality(Some(j))
    BY <2>1, <2>2, FS_Subset
  <2> QED BY <2>3 DEF UpTo, Some
<1>4. ASSUME NEW j \in S
      PROVE  j - 1 \in Nat /\ UpTo(S, j) = UpTo(S, j - 1) + 1
  <2>1. /\ j - 1 \in Nat /\ j \in Nat /\ ~(j <= j - 1)
        /\ \A x \in S : x <= j <=> x <= j - 1 \/ x = j
    OBVIOUS
  <2>2. Some(j) = Some(j - 1) \cup {j} /\ j \notin Some(j - 1)
    BY <2>1
  <2>3. IsFiniteSet(Some(j - 1))
    BY <1>2
  <2> HIDE DEF Some
  <2>4. Cardinality(Some(j)) = Cardinality(Some(j - 1)) + 1
    BY <2>2, <2>3, FS_AddElement
  <2> QED BY <2>1, <2>4 DEF UpTo, Some
<1>5. ASSUME NEW i \in Nat, NEW j \in S, i < j
      PROVE  UpTo(S, i) < UpTo(S, j)
  <2>1. j - 1 \in Nat /\ UpTo(S, j) = UpTo(S, j - 1) + 1
    BY <1>4
  <2>2. i <= j - 1
    BY <1>5
  <2>3. UpTo(S, i) <= UpTo(S, j - 1)
    BY <1>3, <2>1, <2>2
  <2>4. UpTo(S, i) \in Nat /\ UpTo(S, j - 1) \in Nat
    BY <1>2
  <2> QED BY <2>1, <2>3, <2>4
<1>6. UpTo(S, 0) = 0 /\ UpTo(S, n) = Cardinality(S)
  <2>1. Some(0) = {} /\ Some(n) = S
    <3>1. \A x \in S : ~(x <= 0) /\ x <= n
      OBVIOUS
    <3> QED BY <3>1
  <2>2. Cardinality(Some(0)) = 0 /\ Cardinality(Some(n)) = Cardinality(S)
    BY <2>1, FS_EmptySet
  <2> QED BY <2>2 DEF UpTo
<1>7. \A i \in S : UpTo(S, i) > 0
  <2> SUFFICES ASSUME NEW i \in S PROVE UpTo(S, i) > 0
    OBVIOUS
  <2>1. UpTo(S, i) = UpTo(S, i - 1) + 1 /\ UpTo(S, i - 1) \in Nat
    BY <1>2, <1>4
  <2> QED BY <2>1
<1>8. ASSUME NEW k \in 1 .. Cardinality(S)
      PROVE  \E i \in S : UpTo(S, i) = k
  <2> DEFINE T == {i \in 1 .. n : UpTo(S, i) >= k}
  <2>1. T \subseteq Nat /\ T # {}
    <3>1. n # 0
      <4> SUFFICES ASSUME n = 0 PROVE FALSE
        OBVIOUS
      <4> QED BY <1>1, <1>6
    <3> QED BY <1>1, <1>6, <3>1
  <2> HIDE DEF T
  <2>2. PICK i \in T : \A y \in T : i <= y
    BY <2>1, LeastNumber
  <2>3. i \in 1 .. n /\ UpTo(S, i) >= k /\ i - 1 \in Nat
    BY <2>2 DEF T
  <2>4. UpTo(S, i - 1) < k
    <3>1. CASE i = 1
      BY <1>6, <3>1
    <3>2. CASE i # 1
      <4>1. i - 1 \in 1 .. n /\ ~(i <= i - 1)
        BY <2>3, <3>2
      <4>2. i - 1 \notin T
        BY <2>2, <4>1
      <4>3. ~(UpTo(S, i - 1) >= k) /\ UpTo(S, i - 1) \in Nat
        BY <1>2, <4>1, <4>2 DEF T
      <4> QED BY <1>1, <4>3
    <3> QED BY <3>1, <3>2
  <2>5. i \in S
    <3> SUFFICES ASSUME i \notin S PROVE FALSE
      OBVIOUS
    <3>1. \A j \in S : j <= i <=> j <= i - 1
      BY <2>3
    <3>2. Some(i) = Some(i - 1)
      BY <3>1
    <3> QED BY <1>1, <1>2, <2>3, <2>4, <3>2 DEF UpTo
  <2>6. UpTo(S, i) = UpTo(S, i - 1) + 1
    BY <1>4, <2>5
  <2>7. UpTo(S, i) = k
    <3>1. UpTo(S, i - 1) \in Nat
      BY <1>2
    <3>2. k \in Nat
      BY <1>1
    <3>3. UpTo(S, i) >= k /\ UpTo(S, i - 1) < k
      BY <2>3, <2>4
    <3> QED BY <2>6, <3>1, <3>2, <3>3
  <2> QED BY <2>5, <2>7
<1> QED BY <1>1, <1>2, <1>3, <1>5, <1>6, <1>7, <1>8

\* Taking them one by one takes each of them once, in their order.
LEMMA Taking ==
  ASSUME NEW n \in Nat, NEW S \in SUBSET (1 .. n)
  PROVE  /\ Cardinality(S) \in Nat
         /\ \A k \in 1 .. Cardinality(S) : Nth(S, k) \in S
         /\ \A i \in S : \E k \in 1 .. Cardinality(S) : Nth(S, k) = i
         /\ \A k, l \in 1 .. Cardinality(S) : k < l => Nth(S, k) < Nth(S, l)
<1>1. ASSUME NEW k \in 1 .. Cardinality(S)
      PROVE  Nth(S, k) \in S /\ UpTo(S, Nth(S, k)) = k
  <2>1. \E i \in S : UpTo(S, i) = k
    BY Counting
  <2> QED BY <2>1 DEF Nth, UpTo
<1>2. \A i, j \in S : i = j \/ i < j \/ j < i
  OBVIOUS
<1>3. Cardinality(S) \in Nat /\ S \subseteq Nat
  BY Counting
<1>4. \A i, j \in S : UpTo(S, i) \in Nat /\ UpTo(S, j) \in Nat
                      /\ (UpTo(S, i) = UpTo(S, j) => i = j)
  <2> SUFFICES ASSUME NEW i \in S, NEW j \in S
               PROVE  UpTo(S, i) \in Nat /\ UpTo(S, j) \in Nat
                      /\ (UpTo(S, i) = UpTo(S, j) => i = j)
    OBVIOUS
  <2>1. i \in Nat /\ j \in Nat
    BY <1>3
  <2>2. UpTo(S, i) \in Nat /\ UpTo(S, j) \in Nat
    BY <2>1, Counting
  <2>3. /\ i < j => UpTo(S, i) < UpTo(S, j)
        /\ j < i => UpTo(S, j) < UpTo(S, i)
    BY <2>1, Counting
  <2> QED BY <1>2, <2>2, <2>3
<1>5. ASSUME NEW i \in S
      PROVE  UpTo(S, i) \in 1 .. Cardinality(S) /\ Nth(S, UpTo(S, i)) = i
  <2>1. UpTo(S, i) \in 1 .. Cardinality(S)
    <3>1. UpTo(S, i) \in Nat /\ UpTo(S, i) <= Cardinality(S) /\ UpTo(S, i) > 0
      BY <1>3, Counting
    <3> QED BY <1>3, <3>1
  <2> QED BY <1>1, <1>4, <2>1
<1>6. ASSUME NEW k \in 1 .. Cardinality(S), NEW l \in 1 .. Cardinality(S), k < l
      PROVE  Nth(S, k) < Nth(S, l)
  <2>1. ~(UpTo(S, Nth(S, l)) <= UpTo(S, Nth(S, k)))
    <3>1. UpTo(S, Nth(S, l)) = l /\ UpTo(S, Nth(S, k)) = k
      BY <1>1
    <3> QED BY <1>3, <1>6, <3>1
  <2>2. Nth(S, l) \in Nat /\ Nth(S, k) \in Nat
    BY <1>1, <1>3
  <2>3. ~(Nth(S, l) <= Nth(S, k))
    BY <2>1, <2>2, Counting
  <2> QED BY <2>2, <2>3
<1> QED BY <1>1, <1>3, <1>5, <1>6

\* What is sent of a message that is well-formed: n segments, at the positions D
\* of which there are texts and images; the links are after them.
Sent(intent, n, D) ==
  LET segs == Ready(intent) IN
  /\ n \in Nat /\ Len(intent.segs) = n
  /\ D \in SUBSET (1 .. n) /\ DOMAIN segs = D /\ DOMAIN Parsed(intent.segs) = D
  /\ D = Of(segs, Texts) \cup Of(segs, Images)
  /\ Of(segs, Texts) \cap Of(segs, Images) = {}
  /\ n > 0 => 1 \in D
  /\ LinksOf(intent) \subseteq Nat /\ \A l \in LinksOf(intent) : n < l
  /\ intent.links > 0 => LinksOf(intent) # {}
  /\ intent.links = 0 => LinksOf(intent) = {}
  /\ intent.links \in Nat /\ intent.reply \in Nat

LEMMA WhatIsSent ==
  ASSUME NEW intent, IsIntent(intent)
  PROVE  \E n, D : Sent(intent, n, D)
<1>1. PICK kinds : kinds = intent.segs
  OBVIOUS
<1>2. kinds \in Seq(Texts \cup Images)
  BY <1>1 DEF IsIntent
<1>3. PICK n \in Nat : /\ Len(kinds) = n /\ DOMAIN kinds = 1 .. n
                       /\ kinds \in [1 .. n -> Texts \cup Images]
  BY <1>2, LenProperties
<1> DEFINE Repeats(i) == kinds[i] \in Paths /\ \E j \in 1 .. i - 1 : kinds[j] = kinds[i]
           D == {i \in DOMAIN kinds : ~Repeats(i)}
<1>4. D \in SUBSET (1 .. n) /\ (n > 0 => 1 \in D)
  BY <1>3
<1>5. PICK segs : segs = Parsed(kinds)
  OBVIOUS
<1>6. DOMAIN segs = D /\ \A i \in D : segs[i] = kinds[i]
  BY <1>5 DEF Parsed
<1>7. \A i \in D : kinds[i] \in Texts \cup Images
  BY <1>3, <1>4
<1> HIDE DEF D
<1>8. PICK sent : sent = Ready(intent)
  OBVIOUS
<1>9. sent = segs \/ sent = Published(segs)
  BY <1>1, <1>5, <1>8 DEF Ready
<1>10. DOMAIN sent = D /\ \A i \in D : sent[i] \in Texts \cup Images
  <2>1. CASE sent = segs
    BY <1>6, <1>7, <2>1
  <2>2. CASE sent = Published(segs)
    <3>1. sent = [i \in D |-> IF segs[i] \in Images THEN "md" ELSE segs[i]]
      BY <1>6, <2>2 DEF Published
    <3> QED BY <1>6, <1>7, <3>1 DEF Texts
  <2> QED BY <1>9, <2>1, <2>2
<1>11. \A x \in Texts : x \notin Images
  BY DEF Texts, Images, Paths
<1>12. /\ D = Of(sent, Texts) \cup Of(sent, Images)
       /\ Of(sent, Texts) \cap Of(sent, Images) = {}
  BY <1>10, <1>11 DEF Of
<1>13. PICK l : l = intent.links
  OBVIOUS
<1>14. l \in Nat /\ intent.reply \in Nat
  BY <1>13 DEF IsIntent
<1>15. LinksOf(intent) = n + 1 .. n + l
  BY <1>1, <1>3, <1>13 DEF LinksOf
<1>16. /\ LinksOf(intent) \subseteq Nat /\ \A i \in LinksOf(intent) : n < i
       /\ l > 0 => LinksOf(intent) # {}
       /\ l = 0 => LinksOf(intent) = {}
  <2>1. \A i \in n + 1 .. n + l : i \in Nat /\ n < i
    BY <1>3, <1>14
  <2>2. l > 0 => n + 1 \in n + 1 .. n + l
    BY <1>3, <1>14
  <2>3. l = 0 => n + 1 .. n + l = {}
    BY <1>3
  <2> QED BY <1>15, <2>1, <2>2, <2>3
<1>17. Sent(intent, n, D)
  <2>1. DOMAIN Ready(intent) = D /\ DOMAIN Parsed(intent.segs) = D
    BY <1>1, <1>5, <1>6, <1>8, <1>10
  <2>2. n \in Nat /\ Len(intent.segs) = n
    BY <1>1, <1>3
  <2>3. intent.links \in Nat /\ intent.reply \in Nat
    BY <1>13, <1>14
  <2> QED BY <1>4, <1>8, <1>12, <1>13, <1>16, <2>1, <2>2, <2>3 DEF Sent
<1> QED BY <1>17

\* The packets of a group: a position is in one of them, and none but the first
\* is without an image.
LEMMA PacketNumbers ==
  ASSUME NEW n \in Nat, NEW segs, DOMAIN segs \in SUBSET (1 .. n)
  PROVE  /\ PacketOf(segs, n) \in Nat \ {0}
         /\ \A i \in 1 .. n : PacketOf(segs, i) \in 1 .. PacketOf(segs, n)
         /\ \A i, j \in 1 .. n : i <= j => PacketOf(segs, i) <= PacketOf(segs, j)
         /\ \A k \in 2 .. PacketOf(segs, n) :
              \E i \in DOMAIN segs : segs[i] \in Images /\ PacketOf(segs, i) = k
         /\ n > 0 => PacketOf(segs, 1) = 1
         /\ n = 0 => PacketOf(segs, n) = 1
<1>1. PICK S : S = Of(segs, Images)
  OBVIOUS
<1>2. S \in SUBSET (1 .. n) /\ \A i \in S : i \in DOMAIN segs /\ segs[i] \in Images
  BY <1>1 DEF Of
<1>3. \A i : PacketOf(segs, i) = IF UpTo(S, i) = 0 THEN 1 ELSE UpTo(S, i)
  BY <1>1 DEF PacketOf, UpTo
<1>4. /\ \A i \in Nat : UpTo(S, i) \in Nat /\ UpTo(S, i) <= Cardinality(S)
      /\ \A i, j \in Nat : i <= j => UpTo(S, i) <= UpTo(S, j)
      /\ UpTo(S, 0) = 0 /\ UpTo(S, n) = Cardinality(S)
      /\ \A k \in 1 .. Cardinality(S) : \E i \in S : UpTo(S, i) = k
      /\ Cardinality(S) \in Nat
  BY <1>2, Counting
<1>5. \A i \in Nat : PacketOf(segs, i) \in Nat \ {0}
  BY <1>3, <1>4
<1>6. \A i, j \in Nat : i <= j => PacketOf(segs, i) <= PacketOf(segs, j)
  <2> SUFFICES ASSUME NEW i \in Nat, NEW j \in Nat, i <= j
               PROVE  PacketOf(segs, i) <= PacketOf(segs, j)
    OBVIOUS
  <2>1. UpTo(S, i) \in Nat /\ UpTo(S, j) \in Nat /\ UpTo(S, i) <= UpTo(S, j)
    BY <1>4
  <2> QED BY <1>3, <2>1
<1>7. \A i \in 1 .. n : PacketOf(segs, i) \in 1 .. PacketOf(segs, n)
  BY <1>5, <1>6
<1>8. ASSUME NEW k \in 2 .. PacketOf(segs, n)
      PROVE  \E i \in DOMAIN segs : segs[i] \in Images /\ PacketOf(segs, i) = k
  <2>1. k \in Nat /\ k > 1 /\ k <= PacketOf(segs, n)
    BY <1>5
  <2>2. k \in 1 .. Cardinality(S)
    BY <1>3, <1>4, <2>1
  <2>3. PICK i \in S : UpTo(S, i) = k
    BY <1>4, <2>2
  <2> QED BY <1>2, <1>3, <2>1, <2>3
<1>9. n > 0 => PacketOf(segs, 1) = 1
  <2> SUFFICES ASSUME n > 0 PROVE UpTo(S, 1) \in {0, 1}
    BY <1>3
  <2>1. {j \in S : j <= 1} \subseteq {1}
    <3>1. \A j \in 1 .. n : j <= 1 => j = 1
      OBVIOUS
    <3> QED BY <1>2, <3>1
  <2>2. PICK T : T = {j \in S : j <= 1}
    OBVIOUS
  <2>3. T = {} \/ T = {1}
    BY <2>1, <2>2
  <2>4. Cardinality(T) \in {0, 1}
    BY <2>3, FS_EmptySet, FS_Singleton
  <2> QED BY <2>2, <2>4 DEF UpTo
<1>10. n = 0 => PacketOf(segs, n) = 1
  BY <1>3, <1>4
<1> QED BY <1>5, <1>6, <1>7, <1>8, <1>9, <1>10

\* The items of a body: mentions, which hold no position, and what the positions
\* P hold, one item for each of them.
Composed(body, P) ==
  /\ \A x \in body :
       \/ x.type = "AT" /\ x.of = {} /\ x.at # {}
       \/ x.type \in {"TEXT", "LINK", "IMAGE"} /\ x.at = {} /\ \E p \in P : x.of = {p}
  /\ \A p \in P : \E x \in body : x.of = {p}
  /\ \A x, y \in body : x.of = y.of /\ x.of # {} => x = y

\* Nothing of a body is in two of its items.
Apart(body) ==
  \A x, y \in body : x # y => x.of \cap y.of = {} /\ x.at \cap y.at = {}

\* A packet says what the body it is made from says.
Says(packet, body, P) ==
  /\ Held(packet.body) = P /\ Apart(packet.body) /\ packet.body # {}
  /\ \/ Mentioned(body) \subseteq Mentioned(packet.body)
     \/ Everybody \in Mentioned(body) /\ Everybody \in Mentioned(packet.body)

LEMMA MentionItems ==
  ASSUME NEW S
  PROVE  /\ \A x \in AtItems(S) : x.type = "AT" /\ x.of = {} /\ x.at # {} /\ x.at \subseteq S
         /\ \A x, y \in AtItems(S) : x # y => x.at \cap y.at = {}
         /\ Mentioned(AtItems(S)) = S /\ (S # {} => AtItems(S) # {})
<1> DEFINE Two == {S \cap {Everybody}, S \ {Everybody}} \ {{}}
<1>1. \A x \in AtItems(S) : x.type = "AT" /\ x.of = {} /\ x.at \in Two /\ x = AtItem(x.at, 0)
  BY DEF AtItems, AtItem
<1>2. \A who \in Two : AtItem(who, 0) \in AtItems(S) /\ AtItem(who, 0).at = who
  BY DEF AtItems, AtItem
<1>3. /\ \A who \in Two : who # {} /\ who \subseteq S
      /\ \A v, w \in Two : v # w => v \cap w = {}
      /\ \A e \in S : \E who \in Two : e \in who
  OBVIOUS
<1> HIDE DEF Two
<1>4. \A x, y \in AtItems(S) : x # y => x.at \cap y.at = {}
  <2> SUFFICES ASSUME NEW x \in AtItems(S), NEW y \in AtItems(S), x # y
               PROVE  x.at \cap y.at = {}
    OBVIOUS
  <2>1. x.at # y.at
    BY <1>1, Zenon
  <2> QED BY <1>1, <1>3, <2>1
<1>5. Mentioned(AtItems(S)) = S
  <2>1. ASSUME NEW e \in S PROVE e \in Mentioned(AtItems(S))
    BY <1>2, <1>3 DEF Mentioned
  <2>2. ASSUME NEW e \in Mentioned(AtItems(S)) PROVE e \in S
    BY <1>1, <1>3 DEF Mentioned
  <2> QED BY <2>1, <2>2
<1>6. S # {} => AtItems(S) # {}
  BY <1>5 DEF Mentioned
<1> QED BY <1>1, <1>3, <1>4, <1>5, <1>6

\* A body without Markdown: texts are plain, the rest is as it was.
LEMMA PlainBody ==
  ASSUME NEW body, NEW P, Composed(body, P), body # {},
         NEW b, b = NonMdBody(body)
  PROVE  /\ Held(b) = P /\ Apart(b) /\ b # {} /\ Mentioned(b) = Mentioned(body)
         /\ \A x \in b : x.type = "AT" \/ x.type = "TEXT"
                         \/ \E y \in body : x = y /\ x.type \in {"LINK", "IMAGE"}
         /\ \A y \in body : y.type = "IMAGE" => y \in b
<1> DEFINE named == Mentioned(body)
           Retagged(item) == IF IsTextItem(item) THEN Item("TEXT", item.of) ELSE item
           rest == {x \in body : ~IsAt(x)}
           said == {Retagged(item) : item \in rest}
<1>1. b = AtItems(named) \cup said
  BY DEF NonMdBody
<1>2. \A x \in rest : /\ x.type \in {"TEXT", "LINK", "IMAGE"} /\ x.at = {}
                      /\ \E p \in P : x.of = {p}
  BY DEF Composed, IsAt
<1>3. \A x \in rest : /\ Retagged(x).of = x.of /\ Retagged(x).at = {}
                      /\ \/ Retagged(x).type = "TEXT"
                         \/ Retagged(x) = x /\ x.type \in {"LINK", "IMAGE"}
  <2> SUFFICES ASSUME NEW x \in rest
               PROVE  /\ Retagged(x).of = x.of /\ Retagged(x).at = {}
                      /\ \/ Retagged(x).type = "TEXT"
                         \/ Retagged(x) = x /\ x.type \in {"LINK", "IMAGE"}
    OBVIOUS
  <2>1. CASE IsTextItem(x)
    <3>1. Retagged(x) = Item("TEXT", x.of)
      BY <2>1
    <3> QED BY <3>1 DEF Item
  <2>2. CASE ~IsTextItem(x)
    <3>1. Retagged(x) = x /\ x.type # "TEXT"
      BY <2>2 DEF IsTextItem
    <3> QED BY <1>2, <3>1
  <2> QED BY <2>1, <2>2
<1>4. /\ \A x \in rest : Retagged(x) \in said
      /\ \A y \in said : \E x \in rest : y = Retagged(x)
  OBVIOUS
<1>5. \A x \in rest : x.type = "IMAGE" => Retagged(x) = x
  BY DEF IsTextItem
<1>6. \A x, y \in rest : x.of = y.of => x = y
  BY <1>2 DEF Composed
<1>7. \A p \in P : \E x \in rest : x.of = {p}
  BY DEF Composed, IsAt
<1>8. \A x \in body : x \in rest \/ (x.type = "AT" /\ x.at # {})
  BY DEF Composed, IsAt
<1>9. \A x \in rest : x \in body
  OBVIOUS
<1>10. \A x \in body : x.at \subseteq named
  BY DEF Mentioned
<1> HIDE DEF Retagged, rest, said, named
<1>11. \A x \in AtItems(named) : x.type = "AT" /\ x.of = {} /\ x.at # {} /\ x.at \subseteq named
  BY MentionItems
<1>12. \A y \in said : y.at = {} /\ \E x \in rest : y.of = x.of /\ y = Retagged(x)
  BY <1>3, <1>4
<1>13. Held(b) = P
  <2>1. ASSUME NEW p \in P PROVE p \in Held(b)
    <3>1. PICK x \in rest : x.of = {p}
      BY <1>7
    <3>2. Retagged(x) \in b /\ Retagged(x).of = {p}
      BY <1>1, <1>3, <1>4, <3>1
    <3> QED BY <3>2 DEF Held
  <2>2. ASSUME NEW p \in Held(b) PROVE p \in P
    <3>1. PICK y \in b : p \in y.of
      BY <2>2 DEF Held
    <3>2. y \in said
      BY <1>1, <1>11, <3>1
    <3>3. PICK x \in rest : y.of = x.of
      BY <1>12, <3>2
    <3> QED BY <1>2, <3>1, <3>3
  <2> QED BY <2>1, <2>2
<1>14. Mentioned(b) = named
  <2>1. Mentioned(AtItems(named)) = named
    BY MentionItems
  <2>2. ASSUME NEW e \in named PROVE e \in Mentioned(b)
    BY <1>1, <2>1 DEF Mentioned
  <2>3. ASSUME NEW e \in Mentioned(b) PROVE e \in named
    <3>1. PICK y \in b : e \in y.at
      BY <2>3 DEF Mentioned
    <3> QED BY <1>1, <1>11, <1>12, <3>1
  <2> QED BY <2>2, <2>3
<1>15. Apart(b)
  <2> SUFFICES ASSUME NEW x \in b, NEW y \in b, x # y
               PROVE  x.of \cap y.of = {} /\ x.at \cap y.at = {}
    BY DEF Apart
  <2>1. CASE x \in AtItems(named) /\ y \in AtItems(named)
    BY <1>11, <2>1, MentionItems
  <2>2. CASE x \in said /\ y \in said
    <3>1. PICK v \in rest : x.of = v.of /\ x = Retagged(v)
      BY <1>12, <2>2
    <3>2. PICK w \in rest : y.of = w.of /\ y = Retagged(w)
      BY <1>12, <2>2
    <3>3. v # w
      BY <3>1, <3>2
    <3>4. v.of # w.of
      BY <1>6, <3>3
    <3>5. v.of \cap w.of = {}
      BY <1>2, <3>4
    <3> QED BY <1>12, <2>2, <3>1, <3>2, <3>5
  <2>3. CASE x \in AtItems(named) /\ y \in said
    BY <1>11, <1>12, <2>3
  <2>4. CASE x \in said /\ y \in AtItems(named)
    BY <1>11, <1>12, <2>4
  <2> QED BY <1>1, <2>1, <2>2, <2>3, <2>4
<1>16. b # {}
  <2>1. PICK x \in body : TRUE
    OBVIOUS
  <2>2. CASE x \in rest
    BY <1>1, <1>4, <2>2
  <2>3. CASE x.at # {}
    <3>1. named # {}
      BY <1>10, <2>3
    <3> QED BY <1>1, <3>1, MentionItems
  <2> QED BY <1>8, <2>2, <2>3
<1>17. \A x \in b : \/ x.type = "AT" \/ x.type = "TEXT"
                    \/ \E y \in body : x = y /\ x.type \in {"LINK", "IMAGE"}
  <2> SUFFICES ASSUME NEW x \in said
               PROVE  \/ x.type = "TEXT"
                      \/ \E y \in body : x = y /\ x.type \in {"LINK", "IMAGE"}
    BY <1>1, <1>11
  <2>1. PICK w \in rest : x = Retagged(w)
    BY <1>4
  <2> QED BY <1>3, <1>9, <2>1
<1>18. \A y \in body : y.type = "IMAGE" => y \in b
  <2> SUFFICES ASSUME NEW y \in body, y.type = "IMAGE" PROVE y \in b
    OBVIOUS
  <2>1. y \in rest
    BY <1>8
  <2> QED BY <1>1, <1>4, <1>5, <2>1
<1> QED BY <1>13, <1>14, <1>15, <1>16, <1>17, <1>18 DEF named

\* A body of Markdown: one text with what all of them hold, and one mention.
LEMMA MarkdownBody ==
  ASSUME NEW body, NEW P, Composed(body, P), \A x \in body : x.type \in {"AT", "TEXT"},
         NEW b, b = MdBody(body)
  PROVE  /\ Held(b) = P /\ Apart(b)
         /\ \A x \in b : x.type \in {"AT", "MD"}
         /\ Count(b, "MD") = 1 /\ Count(b, "AT") <= 1
         /\ \/ Mentioned(body) \subseteq Mentioned(b)
            \/ Everybody \in Mentioned(body) /\ Everybody \in Mentioned(b)
<1> DEFINE named == Mentioned(body)
           merged == IF Everybody \in named THEN {Everybody} ELSE named
           texts == {item \in body : IsTextItem(item)}
<1>1. PICK md : md = Item("MD", Held(texts))
  OBVIOUS
<1>2. PICK mention : mention = AtItem(merged, 0)
  OBVIOUS
<1>3. b = (IF named # {} THEN {mention} ELSE {}) \cup {md}
  BY <1>1, <1>2 DEF MdBody
<1>4. md.type = "MD" /\ md.of = Held(texts) /\ md.at = {}
  BY <1>1 DEF Item
<1>5. mention.type = "AT" /\ mention.of = {} /\ mention.at = merged
  BY <1>2 DEF AtItem
<1>6. Held(texts) = P
  <2>1. ASSUME NEW p \in P PROVE p \in Held(texts)
    <3>1. PICK x \in body : x.of = {p}
      BY DEF Composed
    <3>2. x.type = "TEXT"
      BY <3>1 DEF Composed
    <3> QED BY <3>1, <3>2 DEF Held, IsTextItem
  <2>2. ASSUME NEW p \in Held(texts) PROVE p \in P
    <3>1. PICK x \in texts : p \in x.of
      BY <2>2 DEF Held
    <3> QED BY <3>1 DEF Composed
  <2> QED BY <2>1, <2>2
<1>7. \A x \in b : x = md \/ x = mention
  BY <1>3
<1>8. Held(b) = P
  <2>1. ASSUME NEW p \in P PROVE p \in Held(b)
    BY <1>3, <1>4, <1>6 DEF Held
  <2>2. ASSUME NEW p \in Held(b) PROVE p \in P
    BY <1>4, <1>5, <1>6, <1>7 DEF Held
  <2> QED BY <2>1, <2>2
<1>9. Apart(b)
  <2> SUFFICES ASSUME NEW x \in b, NEW y \in b, x # y
               PROVE  x.of \cap y.of = {} /\ x.at \cap y.at = {}
    BY DEF Apart
  <2>1. (x = md /\ y = mention) \/ (x = mention /\ y = md)
    BY <1>7
  <2> QED BY <1>4, <1>5, <2>1
<1>10. \A x \in b : x.type \in {"AT", "MD"}
  BY <1>4, <1>5, <1>7
<1>11. Count(b, "MD") = 1 /\ Count(b, "AT") <= 1
  <2>1. {x \in b : x.type = "MD"} = {md}
    BY <1>3, <1>4, <1>5
  <2>2. PICK ats : ats = {x \in b : x.type = "AT"}
    OBVIOUS
  <2>3. ats = {} \/ ats = {mention}
    BY <1>3, <1>4, <1>5, <2>2
  <2>4. Cardinality(ats) <= 1
    BY <2>3, FS_EmptySet, FS_Singleton
  <2>5. Cardinality({md}) = 1
    BY FS_Singleton
  <2> QED BY <2>1, <2>2, <2>4, <2>5 DEF Count
<1>12. \/ Mentioned(body) \subseteq Mentioned(b)
       \/ Everybody \in Mentioned(body) /\ Everybody \in Mentioned(b)
  <2>1. CASE named = {}
    BY <2>1
  <2>2. CASE named # {} /\ Everybody \in named
    <3>1. mention \in b /\ Everybody \in mention.at
      BY <1>3, <1>5, <2>2
    <3> QED BY <2>2, <3>1 DEF Mentioned
  <2>3. CASE named # {} /\ Everybody \notin named
    <3>1. mention \in b /\ mention.at = named
      BY <1>3, <1>5, <2>3
    <3> HIDE DEF named
    <3>2. named \subseteq Mentioned(b)
      BY <3>1 DEF Mentioned
    <3> QED BY <3>2 DEF named
  <2> QED BY <2>1, <2>2, <2>3
<1> QED BY <1>8, <1>9, <1>10, <1>11, <1>12

\* A body becomes a packet that the platform takes, if a Markdown one quotes
\* nothing and has no links.
LEMMA ClosedPacket ==
  ASSUME NEW body, NEW P, Composed(body, P), body # {}, NEW intent, NEW force \in BOOLEAN,
         NEW q, ~force => q = 0 /\ \A x \in body : x.type # "LINK",
         NEW packet, packet = Closed(intent, force, body)
  PROVE  Acceptable(packet, q) /\ Says(packet, body, P)
<1> DEFINE image == \E x \in body : x.type = "IMAGE"
           text == \E x \in body : IsTextItem(x)
<1>1. \A x \in body : x.type \in {"AT", "TEXT", "LINK", "IMAGE"}
  BY DEF Composed
<1>2. CASE image
  <2>1. packet = [type |-> "IMAGE", body |-> NonMdBody(body)]
    BY <1>2 DEF Closed
  <2>2. PICK b : b = NonMdBody(body)
    OBVIOUS
  <2>3. packet.type = "IMAGE" /\ packet.body = b
    BY <2>1, <2>2
  <2>4. /\ Held(b) = P /\ Apart(b) /\ b # {} /\ Mentioned(b) = Mentioned(body)
        /\ \A x \in b : x.type \in {"AT", "TEXT", "LINK", "IMAGE"}
        /\ \A y \in body : y.type = "IMAGE" => y \in b
    BY <2>2, PlainBody
  <2>5. Types(b) \subseteq {"TEXT", "AT", "LINK", "IMAGE"} /\ "IMAGE" \in Types(b)
    BY <1>2, <2>4 DEF Types
  <2> QED BY <2>3, <2>4, <2>5 DEF Acceptable, Says
<1>3. CASE ~image /\ (force \/ intent.fmt = "text" \/ ~text)
  <2>1. packet = [type |-> "TEXT", body |-> NonMdBody(body)]
    BY <1>3 DEF Closed
  <2>2. PICK b : b = NonMdBody(body)
    OBVIOUS
  <2>3. packet.type = "TEXT" /\ packet.body = b
    BY <2>1, <2>2
  <2>4. /\ Held(b) = P /\ Apart(b) /\ b # {} /\ Mentioned(b) = Mentioned(body)
        /\ \A x \in b : x.type = "AT" \/ x.type = "TEXT"
                         \/ \E y \in body : x = y /\ x.type \in {"LINK", "IMAGE"}
    BY <2>2, PlainBody
  <2>5. Types(b) \subseteq {"TEXT", "AT", "LINK"}
    BY <1>3, <2>4 DEF Types
  <2> QED BY <2>3, <2>4, <2>5 DEF Acceptable, Says
<1>4. CASE ~image /\ ~(force \/ intent.fmt = "text" \/ ~text)
  <2>1. packet = [type |-> "MD", body |-> MdBody(body)]
    BY <1>4 DEF Closed
  <2>2. PICK b : b = MdBody(body)
    OBVIOUS
  <2>3. packet.type = "MD" /\ packet.body = b
    BY <2>1, <2>2
  <2>4. \A x \in body : x.type \in {"AT", "TEXT"}
    BY <1>1, <1>4
  <2>5. /\ Held(b) = P /\ Apart(b)
        /\ \A x \in b : x.type \in {"AT", "MD"}
        /\ Count(b, "MD") = 1 /\ Count(b, "AT") <= 1
        /\ \/ Mentioned(body) \subseteq Mentioned(b)
           \/ Everybody \in Mentioned(body) /\ Everybody \in Mentioned(b)
    BY <2>2, <2>4, MarkdownBody
  <2>6. Types(b) \subseteq {"AT", "MD"}
    BY <2>5 DEF Types
  <2>7. b # {}
    <3>1. Item("MD", Held({item \in body : IsTextItem(item)})) \in b
      BY <2>2 DEF MdBody
    <3> QED BY <3>1
  <2> QED BY <1>4, <2>3, <2>5, <2>6, <2>7 DEF Acceptable, Says
<1> QED BY <1>2, <1>3, <1>4

\* The positions that the packet k of a group holds.
HeldBy(intent, n, D, k) ==
  LET segs == Ready(intent) IN
  {i \in D : PacketOf(segs, i) = k}
  \cup (IF k = PacketOf(segs, n) THEN LinksOf(intent) ELSE {})

\* What a segment of a group message becomes.
LEMMA SegmentOfGroup ==
  ASSUME NEW intent, NEW segs, NEW i
  PROVE  \E own \in SegmentItems(intent, segs, i) :
           /\ own.of = {i} /\ own.at = {} /\ own.type \in {"TEXT", "IMAGE"}
           /\ segs[i] \in Images => own.type = "IMAGE"
           /\ \A x \in SegmentItems(intent, segs, i) :
                x = own \/ (x.type = "AT" /\ x.of = {} /\ x.at = {"user"})
<1>1. CASE segs[i] \in Images
  <2>1. SegmentItems(intent, segs, i) = {Item("IMAGE", {i})}
    BY <1>1 DEF SegmentItems
  <2>2. PICK own : own = Item("IMAGE", {i})
    OBVIOUS
  <2>3. own.of = {i} /\ own.at = {} /\ own.type = "IMAGE"
    BY <2>2 DEF Item
  <2> QED BY <2>1, <2>2, <2>3
<1>2. CASE segs[i] \notin Images
  <2>1. PICK own : own = Item("TEXT", {i})
    OBVIOUS
  <2>2. own.of = {i} /\ own.at = {} /\ own.type = "TEXT"
    BY <2>1 DEF Item
  <2>3. PICK mention : mention = AtItem({"user"}, i)
    OBVIOUS
  <2>4. mention.type = "AT" /\ mention.of = {} /\ mention.at = {"user"}
    BY <2>3 DEF AtItem
  <2>5. /\ own \in SegmentItems(intent, segs, i)
        /\ \A x \in SegmentItems(intent, segs, i) : x = own \/ x = mention
    BY <1>2, <2>1, <2>3 DEF SegmentItems
  <2> QED BY <1>2, <2>2, <2>4, <2>5
<1> QED BY <1>1, <1>2

\* The body of a packet of a group holds its positions, and the mentions.
LEMMA GroupBodies ==
  ASSUME NEW intent, NEW n, NEW D, Sent(intent, n, D),
         NEW segs, segs = Ready(intent),
         NEW k \in 1 .. PacketOf(segs, n),
         NEW P, P = HeldBy(intent, n, D, k),
         NEW body, body = GroupBody(intent, segs, k)
  PROVE  /\ Composed(body, P)
         /\ \A x \in body : x.type = "LINK" => intent.links > 0 /\ ~Markdown(intent, segs)
         /\ Mentioned(body) \subseteq intent.at \cup {"user"}
         /\ k = 1 => intent.at \subseteq Mentioned(body)
         /\ body = {} => k = 1 /\ D = {} /\ LinksOf(intent) = {} /\ intent.at = {}
<1>1. PICK K : K = PacketOf(segs, n)
  OBVIOUS
<1> DEFINE links == IF k = K THEN LinksOf(intent) ELSE {}
           mine == {j \in DOMAIN segs : PacketOf(segs, j) = k}
           type == IF Markdown(intent, segs) THEN "TEXT" ELSE "LINK"
           ats == IF k = 1 THEN AtItems(intent.at) ELSE {}
<1>2. /\ n \in Nat /\ Len(intent.segs) = n /\ DOMAIN segs = D /\ D \in SUBSET (1 .. n)
      /\ LinksOf(intent) \subseteq Nat /\ \A l \in LinksOf(intent) : n < l
      /\ intent.links \in Nat
  BY DEF Sent
<1>3. P = mine \cup links
  BY <1>1, <1>2 DEF HeldBy
<1>4. /\ K \in Nat \ {0} /\ \A i \in 1 .. n : PacketOf(segs, i) \in 1 .. K
      /\ \A j \in 2 .. K : \E i \in DOMAIN segs : segs[i] \in Images /\ PacketOf(segs, i) = j
      /\ n > 0 => PacketOf(segs, 1) = 1
      /\ n = 0 => K = 1
  <2>1. n \in Nat /\ DOMAIN segs \in SUBSET (1 .. n)
    BY <1>2
  <2> QED BY <1>1, <2>1, PacketNumbers
<1> DEFINE ours == UNION {SegmentItems(intent, segs, i) : i \in mine}
<1>5. PICK tail : tail = IF k = K THEN LinkItems(intent, segs) ELSE {}
  OBVIOUS
<1>6. body = ats \cup ours \cup tail
  BY <1>1, <1>2, <1>5 DEF GroupBody
<1>7. LinkItems(intent, segs) = {Item(type, {l}) : l \in LinksOf(intent)}
  BY DEF LinkItems
<1>8. /\ type \in {"TEXT", "LINK"} /\ (type = "LINK" => ~Markdown(intent, segs))
      /\ \A l : Item(type, {l}).type = type /\ Item(type, {l}).of = {l} /\ Item(type, {l}).at = {}
  BY DEF Item
<1>9. \A i \in mine, l \in links : i # l
  <2>1. \A i \in 1 .. n : \A l \in Nat : n < l => i # l
    BY <1>2
  <2> QED BY <1>2, <2>1
<1> HIDE DEF mine, type, ats
<1>10. \A l \in links : Item(type, {l}) \in body
  <2> SUFFICES ASSUME NEW l \in links PROVE Item(type, {l}) \in body
    OBVIOUS
  <2>1. k = K /\ l \in LinksOf(intent)
    OBVIOUS
  <2>2. Item(type, {l}) \in tail
    BY <1>5, <1>7, <2>1
  <2> QED BY <1>6, <2>2
<1>11. \A i \in mine : SegmentItems(intent, segs, i) \subseteq body
  <2> QED BY <1>6
<1>12. ats \subseteq body
  <2> QED BY <1>6
<1>13. ASSUME NEW x \in body
       PROVE  \/ x \in ats
              \/ \E i \in mine : x \in SegmentItems(intent, segs, i)
              \/ \E l \in links : x = Item(type, {l})
  <2>1. CASE x \in tail
    BY <1>5, <1>7, <2>1
  <2>2. CASE x \in ours
    BY <2>2
  <2> QED BY <1>6, <2>1, <2>2
<1>14. \A x \in ats : x.type = "AT" /\ x.of = {} /\ x.at # {} /\ x.at \subseteq intent.at
  BY MentionItems DEF ats
<1> HIDE DEF links
<1>15. ASSUME NEW x \in body
       PROVE  \/ x.type = "AT" /\ x.of = {} /\ x.at # {} /\ x.at \subseteq intent.at \cup {"user"}
              \/ \E i \in mine : x \in SegmentItems(intent, segs, i) /\ x.of = {i}
                                 /\ x.at = {} /\ x.type \in {"TEXT", "IMAGE"}
              \/ \E l \in links : x = Item(type, {l})
  <2>1. CASE x \in ats
    BY <1>14, <2>1
  <2>2. CASE \E i \in mine : x \in SegmentItems(intent, segs, i)
    <3>1. PICK i \in mine : x \in SegmentItems(intent, segs, i)
      BY <2>2
    <3> QED BY <3>1, SegmentOfGroup
  <2> QED BY <1>13, <2>1, <2>2
<1>16. Composed(body, P)
  <2>1. ASSUME NEW x \in body
        PROVE  \/ x.type = "AT" /\ x.of = {} /\ x.at # {}
               \/ x.type \in {"TEXT", "LINK", "IMAGE"} /\ x.at = {} /\ \E p \in P : x.of = {p}
    BY <1>3, <1>8, <1>15
  <2>2. ASSUME NEW p \in P PROVE \E x \in body : x.of = {p}
    <3>1. CASE p \in mine
      BY <1>11, <3>1, SegmentOfGroup
    <3>2. CASE p \in links
      BY <1>8, <1>10, <3>2
    <3> QED BY <1>3, <3>1, <3>2
  <2>3. ASSUME NEW x \in body, NEW y \in body, x.of = y.of, x.of # {}
        PROVE  x = y
    <3>1. CASE (\E l \in links : x = Item(type, {l})) /\ (\E l \in links : y = Item(type, {l}))
      BY <1>8, <2>3, <3>1
    <3>2. CASE /\ \E i \in mine : x \in SegmentItems(intent, segs, i) /\ x.of = {i}
                                  /\ x.type # "AT"
               /\ \E i \in mine : y \in SegmentItems(intent, segs, i) /\ y.of = {i}
                                  /\ y.type # "AT"
      <4>1. PICK i \in mine : x \in SegmentItems(intent, segs, i) /\ x.of = {i} /\ x.type # "AT"
        BY <3>2
      <4>2. y \in SegmentItems(intent, segs, i) /\ y.type # "AT"
        BY <2>3, <3>2, <4>1
      <4> QED BY <4>1, <4>2, SegmentOfGroup
    <3>3. CASE (\E i \in mine : x.of = {i}) /\ (\E l \in links : y = Item(type, {l}))
      BY <1>8, <1>9, <2>3, <3>3
    <3>4. CASE (\E i \in mine : y.of = {i}) /\ (\E l \in links : x = Item(type, {l}))
      BY <1>8, <1>9, <2>3, <3>4
    <3> QED BY <1>15, <2>3, <3>1, <3>2, <3>3, <3>4
  <2> QED BY <2>1, <2>2, <2>3 DEF Composed
<1>17. \A x \in body : x.type = "LINK" => intent.links > 0 /\ ~Markdown(intent, segs)
  <2> SUFFICES ASSUME NEW x \in body, x.type = "LINK"
               PROVE  intent.links > 0 /\ ~Markdown(intent, segs)
    OBVIOUS
  <2>1. PICK l \in links : x = Item(type, {l})
    BY <1>15
  <2>2. intent.links # 0
    BY <2>1 DEF links, Sent
  <2>3. type = "LINK"
    BY <1>8, <2>1
  <2> QED BY <1>2, <1>8, <2>2, <2>3
<1>18. Mentioned(body) \subseteq intent.at \cup {"user"}
  <2> SUFFICES ASSUME NEW x \in body PROVE x.at \subseteq intent.at \cup {"user"}
    BY DEF Mentioned
  <2>1. \A l \in links : Item(type, {l}).at = {}
    BY <1>8
  <2> QED BY <1>15, <2>1
<1>19. ASSUME k = 1 PROVE intent.at \subseteq Mentioned(body)
  <2>1. Mentioned(ats) = intent.at
    BY <1>19, MentionItems DEF ats
  <2> QED BY <1>12, <2>1 DEF Mentioned
<1>20. ASSUME body = {}
       PROVE  k = 1 /\ D = {} /\ LinksOf(intent) = {} /\ intent.at = {}
  <2>1. mine = {} /\ links = {}
    BY <1>16, <1>20, <1>3 DEF Composed
  <2>2. k = 1
    <3> SUFFICES ASSUME k # 1 PROVE FALSE
      OBVIOUS
    <3>1. k \in 2 .. K
      BY <1>1, <1>4
    <3> QED BY <1>2, <1>4, <2>1, <3>1 DEF mine
  <2>3. n = 0
    <3> SUFFICES ASSUME n # 0 PROVE FALSE
      OBVIOUS
    <3>1. n > 0
      BY <1>2
    <3>2. 1 \in D
      BY <3>1 DEF Sent
    <3> QED BY <1>2, <1>4, <2>1, <2>2, <3>1, <3>2 DEF mine
  <2>4. D = {} /\ K = 1
    BY <1>2, <1>4, <2>3
  <2>5. intent.at = {}
    BY <1>19, <1>20, <2>2 DEF Mentioned
  <2> QED BY <2>1, <2>2, <2>4, <2>5 DEF links
<1> QED BY <1>16, <1>17, <1>18, <1>19, <1>20

\* A list of packets says all of a message, in order and nothing twice.
SaysAll(intent, packets) ==
  LET mentions == UNION {Mentioned(packets[k].body) : k \in DOMAIN packets}
  IN  /\ UNION {Held(packets[k].body) : k \in DOMAIN packets} = Content(intent)
      /\ \A k, l \in DOMAIN packets :
           k < l => \A i \in Held(packets[k].body), j \in Held(packets[l].body) :
                      Before(intent, i, j)
      /\ \A k \in DOMAIN packets : Apart(packets[k].body)
      /\ intent.to = "group" =>
           intent.at \subseteq mentions \/ Everybody \in intent.at \cap mentions

\* The packets of a message are taken, with what they may quote, and say all of
\* it; a message without any has nothing to say.
GoesOut(intent, packets, m) ==
  /\ m \in Nat /\ DOMAIN packets = 1 .. m /\ \E S : packets \in [1 .. m -> S]
  /\ \A k \in 1 .. m : \A q \in Nat :
       q = 0 \/ (intent.reply > 0 /\ ~Markdown(intent, Ready(intent)))
       => Acceptable(packets[k], q)
  /\ SaysAll(intent, packets)
  /\ m = 0 => /\ intent.segs = <<>> /\ intent.links = 0
              /\ intent.to = "group" => intent.at = {}

LEMMA NothingSent ==
  ASSUME NEW intent, IsIntent(intent), NEW n, NEW D, Sent(intent, n, D), D = {},
         LinksOf(intent) = {}
  PROVE  intent.segs = <<>> /\ intent.links = 0 /\ Content(intent) = {}
<1>1. n = 0
  BY DEF Sent
<1>2. intent.links = 0
  BY DEF Sent
<1>3. intent.segs \in Seq(Texts \cup Images) /\ Len(intent.segs) = 0
  BY <1>1 DEF IsIntent, Sent
<1>4. intent.segs = <<>>
  BY <1>3, EmptySeq
<1>5. Content(intent) = {}
  BY DEF Sent, Content
<1> QED BY <1>2, <1>4, <1>5

LEMMA GroupIsServed ==
  ASSUME NEW intent, IsIntent(intent), intent.to = "group",
         NEW packets, packets = GroupPackets(intent, Ready(intent))
  PROVE  \E m : GoesOut(intent, packets, m)
<1>1. PICK n, D : Sent(intent, n, D)
  BY WhatIsSent
<1>2. PICK segs : segs = Ready(intent)
  OBVIOUS
<1>3. PICK K : K = PacketOf(segs, n)
  OBVIOUS
<1>4. /\ n \in Nat /\ Len(intent.segs) = n /\ DOMAIN segs = D /\ D \in SUBSET (1 .. n)
      /\ DOMAIN Parsed(intent.segs) = D
      /\ LinksOf(intent) \subseteq Nat /\ \A l \in LinksOf(intent) : n < l
      /\ intent.links \in Nat /\ intent.reply \in Nat
  BY <1>1, <1>2 DEF Sent
<1>5. /\ K \in Nat \ {0} /\ \A i \in 1 .. n : PacketOf(segs, i) \in 1 .. K
      /\ \A i, j \in 1 .. n : i <= j => PacketOf(segs, i) <= PacketOf(segs, j)
  <2>1. n \in Nat /\ DOMAIN segs \in SUBSET (1 .. n)
    BY <1>4
  <2> QED BY <1>3, <2>1, PacketNumbers
<1> DEFINE Body(k) == GroupBody(intent, segs, k)
           P(k) == HeldBy(intent, n, D, k)
<1>6. ASSUME NEW k \in 1 .. K
      PROVE  /\ Composed(Body(k), P(k))
             /\ \A x \in Body(k) : x.type = "LINK" => intent.links > 0 /\ ~Markdown(intent, segs)
             /\ Mentioned(Body(k)) \subseteq intent.at \cup {"user"}
             /\ k = 1 => intent.at \subseteq Mentioned(Body(k))
             /\ Body(k) = {} => k = 1 /\ D = {} /\ LinksOf(intent) = {} /\ intent.at = {}
  BY <1>1, <1>2, <1>3, GroupBodies
<1>7. \A k : P(k) = {i \in D : PacketOf(segs, i) = k}
                    \cup (IF k = K THEN LinksOf(intent) ELSE {})
  BY <1>2, <1>3 DEF HeldBy
<1>8. Content(intent) = D \cup LinksOf(intent)
  BY <1>4 DEF Content
<1> HIDE DEF Body, P
<1>9. CASE Body(1) = {}
  <2>1. packets = <<>>
    BY <1>2, <1>9 DEF GroupPackets, Body
  <2>2. D = {} /\ LinksOf(intent) = {} /\ intent.at = {}
    BY <1>5, <1>6, <1>9
  <2>3. intent.segs = <<>> /\ intent.links = 0 /\ Content(intent) = {}
    BY <1>1, <2>2, NothingSent
  <2>4. DOMAIN packets = {} /\ 1 .. 0 = {} /\ packets \in [1 .. 0 -> {}]
    BY <2>1
  <2>5. SaysAll(intent, packets)
    BY <2>2, <2>3, <2>4 DEF SaysAll
  <2>6. GoesOut(intent, packets, 0)
    BY <2>2, <2>3, <2>4, <2>5 DEF GoesOut
  <2> QED BY <2>6
<1>10. CASE Body(1) # {}
  <2> DEFINE Pack(k) == Closed(intent, ForceText(intent, segs), Body(k))
  <2>1. packets = [k \in 1 .. K |-> Pack(k)]
    BY <1>2, <1>3, <1>4, <1>10 DEF GroupPackets, Body
  <2>2. PICK force \in BOOLEAN : /\ force = ForceText(intent, segs)
                                 /\ force <=> /\ intent.reply > 0 \/ intent.links > 0
                                              /\ ~Markdown(intent, segs)
    BY DEF ForceText
  <2>3. ASSUME NEW k \in 1 .. K, NEW q \in Nat,
               q = 0 \/ (intent.reply > 0 /\ ~Markdown(intent, segs))
        PROVE  Acceptable(Pack(k), q) /\ Says(Pack(k), Body(k), P(k))
    <3>1. Body(k) # {}
      BY <1>6, <1>10
    <3>2. ~force => q = 0 /\ \A x \in Body(k) : x.type # "LINK"
      BY <1>6, <2>2, <2>3
    <3>3. PICK body : body = Body(k)
      OBVIOUS
    <3>4. PICK packet : packet = Pack(k)
      OBVIOUS
    <3>5. PICK held : held = P(k)
      OBVIOUS
    <3>6. /\ Composed(body, held) /\ body # {}
          /\ ~force => q = 0 /\ \A x \in body : x.type # "LINK"
          /\ packet = Closed(intent, force, body)
      BY <1>6, <2>2, <3>1, <3>2, <3>3, <3>4, <3>5
    <3> QED BY <3>3, <3>4, <3>5, <3>6, ClosedPacket
  <2> HIDE DEF Pack
  <2>4. DOMAIN packets = 1 .. K /\ \A k \in 1 .. K : packets[k] = Pack(k)
    BY <2>1
  <2>5. \A k \in 1 .. K : Says(packets[k], Body(k), P(k))
    <3>1. 0 \in Nat
      OBVIOUS
    <3> QED BY <2>3, <2>4, <3>1
  <2>6. \A k \in 1 .. K : Held(packets[k].body) = P(k) /\ Apart(packets[k].body)
    BY <2>5 DEF Says
  <2>7. UNION {Held(packets[k].body) : k \in DOMAIN packets} = Content(intent)
    <3>1. ASSUME NEW p \in D \cup LinksOf(intent) PROVE \E k \in 1 .. K : p \in P(k)
      <4>1. CASE p \in D
        BY <1>4, <1>5, <1>7, <4>1
      <4>2. CASE p \in LinksOf(intent)
        <5>1. K \in 1 .. K
          BY <1>5
        <5> QED BY <1>7, <4>2, <5>1
      <4> QED BY <4>1, <4>2
    <3>2. ASSUME NEW k \in 1 .. K PROVE P(k) \subseteq D \cup LinksOf(intent)
      BY <1>7
    <3> QED BY <1>8, <2>4, <2>6, <3>1, <3>2
  <2>8. ASSUME NEW k \in 1 .. K, NEW l \in 1 .. K, k < l, NEW i \in P(k), NEW j \in P(l)
        PROVE  Before(intent, i, j)
    <3>1. k # K /\ k \in Nat /\ l \in Nat
      BY <1>5, <2>8
    <3>2. i \in D /\ PacketOf(segs, i) = k /\ i \in 1 .. n
      BY <1>4, <1>7, <3>1
    <3>3. i < j
      <4>1. CASE j \in LinksOf(intent)
        BY <1>4, <3>2, <4>1
      <4>2. CASE j \in D /\ PacketOf(segs, j) = l
        <5>1. j \in 1 .. n /\ ~(l <= k)
          BY <1>4, <2>8, <3>1, <4>2
        <5>2. ~(j <= i)
          BY <1>5, <3>2, <4>2, <5>1
        <5> QED BY <3>2, <5>1, <5>2
      <4> QED BY <1>7, <4>1, <4>2
    <3> QED BY <3>3 DEF Before
  <2>9. SaysAll(intent, packets)
    <3> DEFINE mentions == UNION {Mentioned(packets[k].body) : k \in DOMAIN packets}
    <3>1. intent.at \subseteq mentions \/ Everybody \in intent.at \cap mentions
      <4>1. 1 \in 1 .. K
        BY <1>5
      <4>2. /\ intent.at \subseteq Mentioned(Body(1))
            /\ Mentioned(Body(1)) \subseteq intent.at \cup {"user"}
        BY <1>6, <4>1
      <4>3. \/ Mentioned(Body(1)) \subseteq Mentioned(packets[1].body)
            \/ Everybody \in Mentioned(Body(1)) /\ Everybody \in Mentioned(packets[1].body)
        BY <2>5, <4>1 DEF Says
      <4>4. Mentioned(packets[1].body) \subseteq mentions
        BY <2>4, <4>1
      <4>5. Everybody # "user"
        BY DEF Everybody
      <4> QED BY <4>2, <4>3, <4>4, <4>5
    <3> QED BY <2>4, <2>6, <2>7, <2>8, <3>1 DEF SaysAll
  <2>10. \A k \in 1 .. K : \A q \in Nat :
           q = 0 \/ (intent.reply > 0 /\ ~Markdown(intent, Ready(intent)))
           => Acceptable(packets[k], q)
    BY <1>2, <2>3, <2>4
  <2>11. packets \in [1 .. K -> {Pack(k) : k \in 1 .. K}] /\ K \in Nat /\ K # 0
    BY <1>5, <2>1
  <2>12. GoesOut(intent, packets, K)
    BY <2>4, <2>9, <2>10, <2>11 DEF GoesOut
  <2> QED BY <2>12
<1> QED BY <1>9, <1>10

\* A packet before the others.
Led(all, first, packets, m) ==
  /\ DOMAIN all = 1 .. m + 1 /\ Len(all) = m + 1 /\ all[1] = first
  /\ \E S : all \in [1 .. m + 1 -> S]
  /\ \A k \in 1 .. m + 1 : k = 1 \/ (k - 1 \in 1 .. m /\ all[k] = packets[k - 1])

LEMMA OneBefore ==
  ASSUME NEW e, NEW m \in Nat, NEW S, NEW packets \in [1 .. m -> S],
         NEW all, all = <<e>> \o packets
  PROVE  Led(all, e, packets, m)
<1> DEFINE T == S \cup {e}
<1>1. packets \in Seq(T) /\ Len(packets) = m
  <2>1. packets \in [1 .. m -> T]
    OBVIOUS
  <2> HIDE DEF T
  <2> QED BY <2>1
<1>2. <<e>> \in Seq(T) /\ Len(<<e>>) = 1 /\ <<e>>[1] = e
  OBVIOUS
<1> HIDE DEF T
<1>3. /\ all \in Seq(T) /\ Len(all) = 1 + m
      /\ \A k \in 1 .. 1 + m : all[k] = IF k <= 1 THEN <<e>>[k] ELSE packets[k - 1]
  BY <1>1, <1>2, ConcatProperties
<1>4. DOMAIN all = 1 .. m + 1 /\ Len(all) = m + 1 /\ all \in [1 .. m + 1 -> T]
  <2>1. 1 + m = m + 1
    OBVIOUS
  <2> QED BY <1>3, <2>1, LenProperties
<1>5. \A k \in 1 .. m + 1 : k <= 1 <=> k = 1
  OBVIOUS
<1>6. \A k \in 1 .. m + 1 : k \in 1 .. 1 + m /\ (k = 1 \/ k - 1 \in 1 .. m)
  OBVIOUS
<1>7. 1 \in 1 .. m + 1
  OBVIOUS
<1> QED BY <1>2, <1>3, <1>4, <1>5, <1>6, <1>7 DEF Led

\* A packet for a user has one item.
LEMMA OneItem ==
  ASSUME NEW type, NEW of, NEW packet, packet = UserPacket(type, of)
  PROVE  /\ packet.type = type /\ packet.body # {}
         /\ Held(packet.body) = of /\ Apart(packet.body)
<1>1. PICK item : item = Item(type, of)
  OBVIOUS
<1>2. item.of = of
  BY <1>1 DEF Item
<1>3. packet = [type |-> type, body |-> {item}]
  BY <1>1 DEF UserPacket
<1>4. packet.type = type /\ packet.body = {item}
  BY <1>3
<1>5. Held({item}) = of
  BY <1>2 DEF Held
<1> QED BY <1>4, <1>5 DEF Apart

\* Segments that are sent one by one go out in their order.
InOrder(intent, packets, S, m) ==
  /\ m \in Nat /\ DOMAIN packets = 1 .. m /\ \E T : packets \in [1 .. m -> T]
  /\ \A k \in 1 .. m : /\ Apart(packets[k].body)
                       /\ \E i \in S : Held(packets[k].body) = {i}
  /\ \A i \in S : \E k \in 1 .. m : Held(packets[k].body) = {i}
  /\ \A k, l \in 1 .. m : k < l =>
       \A i \in Held(packets[k].body), j \in Held(packets[l].body) : i < j
  /\ \A k \in 1 .. m : \A q \in Nat : q = 0 \/ intent.reply > 0 => Acceptable(packets[k], q)
  /\ m = 0 => S = {}

LEMMA ServedOneByOne ==
  ASSUME NEW intent, NEW segs, NEW n \in Nat, NEW S \in SUBSET (1 .. n),
         intent.reply \in Nat
  PROVE  InOrder(intent, OneByOne(intent, segs, S), S, Cardinality(S))
<1>0. PICK packets, m : packets = OneByOne(intent, segs, S) /\ m = Cardinality(S)
  OBVIOUS
<1> DEFINE Pack(k) == SegmentPacket(intent, segs, Nth(S, k))
<1>1. packets = [k \in 1 .. m |-> Pack(k)]
  BY <1>0 DEF OneByOne
<1>2. /\ m \in Nat
      /\ \A k \in 1 .. m : Nth(S, k) \in S
      /\ \A i \in S : \E k \in 1 .. m : Nth(S, k) = i
      /\ \A k, l \in 1 .. m : k < l => Nth(S, k) < Nth(S, l)
  BY <1>0, Taking
<1>3. ASSUME NEW k
      PROVE  /\ Held(Pack(k).body) = {Nth(S, k)} /\ Apart(Pack(k).body)
             /\ \A q \in Nat : q = 0 \/ intent.reply > 0 => Acceptable(Pack(k), q)
  <2>1. PICK i : i = Nth(S, k)
    OBVIOUS
  <2>2. PICK packet : packet = SegmentPacket(intent, segs, i)
    OBVIOUS
  <2>3. PICK type : packet = UserPacket(type, {i}) /\ type \in {"image", "text", "markdown"}
                    /\ (type = "markdown" => ~(intent.reply > 0))
    BY <2>2 DEF SegmentPacket
  <2>4. packet.type = type /\ packet.body # {} /\ Held(packet.body) = {i} /\ Apart(packet.body)
    BY <2>3, OneItem
  <2>5. \A q \in Nat : q = 0 \/ intent.reply > 0 => Acceptable(packet, q)
    BY <2>3, <2>4 DEF Acceptable
  <2> QED BY <2>1, <2>2, <2>4, <2>5
<1> HIDE DEF Pack
<1>4. DOMAIN packets = 1 .. m /\ \A k \in 1 .. m : packets[k] = Pack(k)
  BY <1>1
<1>5. \A k \in 1 .. m : Held(packets[k].body) = {Nth(S, k)} /\ Apart(packets[k].body)
  BY <1>3, <1>4
<1>6. packets \in [1 .. m -> {Pack(k) : k \in 1 .. m}]
  BY <1>1
<1>7. m = 0 => S = {}
  BY <1>2
<1>8. \A k \in 1 .. m : \A q \in Nat : q = 0 \/ intent.reply > 0 => Acceptable(packets[k], q)
  BY <1>3, <1>4
<1>9. \A k, l \in 1 .. m : k < l =>
              \A i \in Held(packets[k].body), j \in Held(packets[l].body) : i < j
  BY <1>2, <1>5
<1>10. \A i \in S : \E k \in 1 .. m : Held(packets[k].body) = {i}
  BY <1>2, <1>5
<1>11. \A k \in 1 .. m : /\ Apart(packets[k].body)
                         /\ \E i \in S : Held(packets[k].body) = {i}
  BY <1>2, <1>5
<1> QED BY <1>0, <1>2, <1>4, <1>6, <1>7, <1>8, <1>9, <1>10, <1>11 DEF InOrder

LEMMA UserIsServed ==
  ASSUME NEW intent, IsIntent(intent), intent.to = "user",
         NEW packets, packets = UserPackets(intent, Ready(intent))
  PROVE  \E m : GoesOut(intent, packets, m)
<1>1. PICK n, D : Sent(intent, n, D)
  BY WhatIsSent
<1>2. PICK segs : segs = Ready(intent)
  OBVIOUS
<1>3. PICK texts : texts = Of(segs, Texts)
  OBVIOUS
<1>4. PICK images : images = Of(segs, Images)
  OBVIOUS
<1>5. PICK links : links = LinksOf(intent)
  OBVIOUS
<1>6. /\ n \in Nat /\ DOMAIN segs = D /\ D \in SUBSET (1 .. n)
      /\ DOMAIN Parsed(intent.segs) = D
      /\ links \subseteq Nat /\ \A l \in links : n < l
      /\ intent.links \in Nat /\ intent.reply \in Nat
      /\ D = texts \cup images /\ texts \cap images = {}
      /\ intent.links > 0 => links # {}
      /\ intent.links = 0 => links = {}
  BY <1>1, <1>2, <1>3, <1>4, <1>5 DEF Sent
<1>7. Content(intent) = D \cup links
  BY <1>5, <1>6 DEF Content
<1>8. \A i, j : Before(intent, i, j) <=>
        IF intent.links = 0 \/ images = {} THEN i < j
        ELSE j \in images /\ (i \in images => i < j)
  BY <1>2, <1>4 DEF Before
<1>9. CASE Markdown(intent, segs)
  <2>1. packets = <<UserPacket("markdown", D \cup links)>>
    BY <1>2, <1>5, <1>6, <1>9 DEF UserPackets
  <2>2. PICK packet : packet = UserPacket("markdown", D \cup links)
    OBVIOUS
  <2>3. /\ packet.type = "markdown" /\ packet.body # {}
        /\ Held(packet.body) = D \cup links /\ Apart(packet.body)
    BY <2>2, OneItem
  <2>4. D \cup links # {}
    <3>1. Has(segs, Texts) \/ intent.links > 0 \/ Has(segs, {"md"})
      BY <1>9 DEF Markdown, ShouldPreserve, LooksLikeMarkdown
    <3>2. Has(segs, Texts) \/ Has(segs, {"md"}) => D # {}
      BY <1>6 DEF Has, Of
    <3> QED BY <1>6, <3>1, <3>2
  <2>5. packets = <<packet>> /\ packets \in [1 .. 1 -> {packet}] /\ packets[1] = packet
        /\ DOMAIN packets = 1 .. 1 /\ 1 .. 1 = {1}
    <3>1. packets = <<packet>>
      BY <2>1, <2>2
    <3> QED BY <3>1
  <2>6. SaysAll(intent, packets)
    BY <1>7, <2>3, <2>5 DEF SaysAll
  <2>7. Acceptable(packet, 0)
    BY <2>3, <2>4 DEF Acceptable
  <2>8. \A k \in 1 .. 1 : \A q \in Nat :
          q = 0 \/ (intent.reply > 0 /\ ~Markdown(intent, Ready(intent)))
          => Acceptable(packets[k], q)
    BY <1>2, <1>9, <2>5, <2>7
  <2>9. \E S : packets \in [1 .. 1 -> S]
    BY <2>5
  <2>10. GoesOut(intent, packets, 1)
    BY <2>5, <2>6, <2>8, <2>9 DEF GoesOut
  <2> QED BY <2>10
<1>10. CASE ~Markdown(intent, segs) /\ intent.links = 0
  <2>1. packets = OneByOne(intent, segs, D) /\ links = {}
    BY <1>2, <1>6, <1>10 DEF UserPackets
  <2>2. PICK m : m = Cardinality(D)
    OBVIOUS
  <2>3. InOrder(intent, packets, D, m)
    <3>1. D \in SUBSET (1 .. n)
      BY <1>6
    <3>2. InOrder(intent, OneByOne(intent, segs, D), D, Cardinality(D))
      BY <1>6, <3>1, ServedOneByOne
    <3> QED BY <2>1, <2>2, <3>2
  <2>4. UNION {Held(packets[k].body) : k \in DOMAIN packets} = Content(intent)
    <3>1. ASSUME NEW p \in D PROVE \E k \in 1 .. m : p \in Held(packets[k].body)
      BY <2>3 DEF InOrder
    <3>2. ASSUME NEW k \in 1 .. m PROVE Held(packets[k].body) \subseteq D
      BY <2>3 DEF InOrder
    <3> QED BY <1>7, <2>1, <2>3, <3>1, <3>2 DEF InOrder
  <2>5. SaysAll(intent, packets)
    BY <1>8, <1>10, <2>3, <2>4 DEF SaysAll, InOrder
  <2>6. m = 0 => intent.segs = <<>> /\ intent.links = 0
    BY <1>1, <1>5, <2>1, <2>3, NothingSent DEF InOrder
  <2>7. GoesOut(intent, packets, m)
    BY <2>3, <2>5, <2>6 DEF GoesOut, InOrder
  <2> QED BY <2>7
<1>11. CASE ~Markdown(intent, segs) /\ intent.links # 0
  <2>1. PICK first : first = UserPacket("richtext", texts \cup links)
    OBVIOUS
  <2>2. PICK rest : rest = OneByOne(intent, segs, images)
    OBVIOUS
  <2>3. packets = <<first>> \o rest
    BY <1>2, <1>3, <1>4, <1>5, <1>11, <2>1, <2>2 DEF UserPackets
  <2>4. /\ first.type = "richtext" /\ first.body # {}
        /\ Held(first.body) = texts \cup links /\ Apart(first.body)
    BY <2>1, OneItem
  <2>5. PICK m : m = Cardinality(images)
    OBVIOUS
  <2>6. InOrder(intent, rest, images, m)
    <3>1. images \in SUBSET (1 .. n)
      BY <1>6
    <3> QED BY <1>6, <2>2, <2>5, <3>1, ServedOneByOne
  <2>7. PICK T : rest \in [1 .. m -> T]
    BY <2>6 DEF InOrder
  <2>8. m \in Nat /\ Led(packets, first, rest, m)
    <3>1. m \in Nat
      BY <2>6 DEF InOrder
    <3> QED BY <2>3, <2>7, <3>1, OneBefore
  <2>9. \A k \in 1 .. m : k + 1 \in 1 .. m + 1 /\ packets[k + 1] = rest[k]
    <3>1. \A k \in 1 .. m : k + 1 \in 1 .. m + 1 /\ (k + 1) - 1 = k /\ k + 1 # 1
      BY <2>6 DEF InOrder
    <3> QED BY <2>8, <3>1 DEF Led
  <2>10. 1 \in 1 .. m + 1
    BY <2>6 DEF InOrder
  <2>11. ASSUME NEW k \in 1 .. m + 1
         PROVE  /\ Apart(packets[k].body) /\ Held(packets[k].body) \subseteq D \cup links
                /\ \A q \in Nat : q = 0 \/ intent.reply > 0 => Acceptable(packets[k], q)
    <3>1. CASE k = 1
      <4>1. texts \cup links # {}
        BY <1>6, <1>11
      <4>2. \A q : Acceptable(first, q)
        BY <2>4, <4>1 DEF Acceptable
      <4> QED BY <1>6, <2>4, <2>8, <3>1, <4>2 DEF Led
    <3>2. CASE k # 1
      <4>1. PICK j \in 1 .. m : packets[k] = rest[j]
        BY <2>8, <3>2 DEF Led
      <4>2. PICK i \in images : Held(rest[j].body) = {i}
        BY <2>6 DEF InOrder
      <4>3. Apart(rest[j].body)
        BY <2>6 DEF InOrder
      <4>4. \A q \in Nat : q = 0 \/ intent.reply > 0 => Acceptable(rest[j], q)
        BY <2>6 DEF InOrder
      <4> QED BY <1>6, <4>1, <4>2, <4>3, <4>4
    <3> QED BY <3>1, <3>2
  <2>12. UNION {Held(packets[k].body) : k \in DOMAIN packets} = Content(intent)
    <3>1. ASSUME NEW p \in D \cup links
          PROVE  \E k \in 1 .. m + 1 : p \in Held(packets[k].body)
      <4>1. CASE p \in texts \cup links
        BY <2>4, <2>8, <2>10, <4>1 DEF Led
      <4>2. CASE p \in images
        <5>1. PICK k \in 1 .. m : Held(rest[k].body) = {p}
          BY <2>6, <4>2 DEF InOrder
        <5> QED BY <2>9, <5>1
      <4> QED BY <1>6, <4>1, <4>2
    <3> QED BY <1>7, <2>8, <2>11, <3>1 DEF Led
  <2>13. ASSUME NEW k \in 1 .. m + 1, NEW l \in 1 .. m + 1, k < l,
                NEW i \in Held(packets[k].body), NEW j \in Held(packets[l].body)
         PROVE  Before(intent, i, j)
    <3>1. l - 1 \in 1 .. m /\ packets[l] = rest[l - 1]
      BY <2>6, <2>8, <2>13 DEF InOrder, Led
    <3>2. j \in images
      <4>1. PICK b \in 1 .. m : packets[l] = rest[b]
        BY <3>1
      <4>2. PICK i0 \in images : Held(rest[b].body) = {i0}
        BY <2>6 DEF InOrder
      <4> QED BY <4>1, <4>2
    <3>3. i \in images => i < j
      <4> SUFFICES ASSUME i \in images PROVE i < j
        OBVIOUS
      <4>1. k # 1
        <5>1. i \notin texts \cup links
          <6>1. i \in 1 .. n
            BY <1>6
          <6>2. i \notin links
            BY <1>6, <6>1
          <6> QED BY <1>6, <6>2
        <5> QED BY <2>4, <2>8, <5>1 DEF Led
      <4>2. k - 1 \in 1 .. m /\ packets[k] = rest[k - 1] /\ k - 1 < l - 1
        BY <2>6, <2>8, <2>13, <4>1 DEF InOrder, Led
      <4> QED BY <2>6, <3>1, <4>2 DEF InOrder
    <3> QED BY <1>8, <1>11, <3>2, <3>3
  <2>14. SaysAll(intent, packets)
    BY <2>8, <2>11, <2>12, <2>13 DEF SaysAll, Led
  <2>15. GoesOut(intent, packets, m + 1)
    <3>1. m + 1 \in Nat /\ m + 1 # 0
      BY <2>6 DEF InOrder
    <3> QED BY <2>8, <2>11, <2>14, <3>1 DEF GoesOut, Led
  <2> QED BY <2>15
<1> QED BY <1>9, <1>10, <1>11

\* The plan of a message that is not refused has a packet, all of its packets
\* are taken with what they quote, and together they say all of the message.
Served(intent) ==
  LET plan == Plan(intent) IN
  /\ Len(plan) \in Nat \ {0} /\ DOMAIN plan = 1 .. Len(plan)
  /\ \A k \in 1 .. Len(plan) : Acceptable(plan[k], Quotes(intent, k))
  /\ SaysAll(intent, plan)

LEMMA PlansAreServed ==
  ASSUME NEW intent, IsIntent(intent), ~Refused(intent)
  PROVE  Served(intent)
<1>1. intent.to \in {"group", "user"} /\ intent.reply \in Nat
  BY DEF IsIntent
<1>2. PICK packets : packets = PacketsOf(intent)
  OBVIOUS
<1>3. PICK m : GoesOut(intent, packets, m)
  <2>1. CASE intent.to = "group"
    <3>1. packets = GroupPackets(intent, Ready(intent))
      BY <1>2, <2>1 DEF PacketsOf
    <3> QED BY <2>1, <3>1, GroupIsServed
  <2>2. CASE intent.to = "user"
    <3>1. packets = UserPackets(intent, Ready(intent))
      BY <1>2, <2>2 DEF PacketsOf
    <3> QED BY <2>2, <3>1, UserIsServed
  <2> QED BY <1>1, <2>1, <2>2
<1>4. PICK S : packets \in [1 .. m -> S]
  BY <1>3 DEF GoesOut
<1>5. m \in Nat /\ DOMAIN packets = 1 .. m
  BY <1>3 DEF GoesOut
<1>6. packets \in Seq(S) /\ Len(packets) = m /\ (m = 0 => packets = <<>>)
  <2>1. packets \in Seq(S) /\ Len(packets) = m
    BY <1>4, <1>5
  <2> QED BY <2>1, EmptySeq
<1>7. PICK md \in BOOLEAN : md = Markdown(intent, Ready(intent))
  BY Zenon DEF Markdown
<1>8. PICK lead : lead = IF intent.to = "group" THEN Lead ELSE UserLead
  OBVIOUS
<1>9. PICK plan : plan = Plan(intent)
  OBVIOUS
<1>10. plan = IF intent.reply > 0 /\ (packets = <<>> \/ md) THEN <<lead>> \o packets ELSE packets
  BY <1>2, <1>7, <1>8, <1>9 DEF Plan
<1>11. /\ \A k \in Nat : Quotes(intent, k) \in Nat /\ (k > 1 => Quotes(intent, k) = 0)
       /\ intent.reply > 0 => Quotes(intent, 1) > 0
       /\ intent.reply = 0 => \A k \in Nat : Quotes(intent, k) = 0
  BY <1>1 DEF Quotes
<1>12. \A k \in 1 .. m : \A q \in Nat :
         q = 0 \/ (intent.reply > 0 /\ ~md) => Acceptable(packets[k], q)
  BY <1>3, <1>7 DEF GoesOut
<1>13. SaysAll(intent, packets)
  BY <1>3 DEF GoesOut
<1>14. CASE intent.reply > 0 /\ (packets = <<>> \/ md)
  <2>1. Led(plan, lead, packets, m)
    BY <1>4, <1>5, <1>10, <1>14, OneBefore
  <2>2. /\ DOMAIN plan = 1 .. m + 1 /\ Len(plan) = m + 1 /\ plan[1] = lead
        /\ \A k \in 1 .. m + 1 : k = 1 \/ (k - 1 \in 1 .. m /\ plan[k] = packets[k - 1])
    BY <2>1 DEF Led
  <2>3. \A k \in 1 .. m : k + 1 \in 1 .. m + 1 /\ plan[k + 1] = packets[k]
    <3>1. \A k \in 1 .. m : k + 1 \in 1 .. m + 1 /\ (k + 1) - 1 = k /\ k + 1 # 1
      BY <1>5
    <3> QED BY <2>2, <3>1
  <2>4. /\ Held(lead.body) = {} /\ Apart(lead.body)
        /\ \A q \in Nat : q > 0 => Acceptable(lead, q)
    <3>1. CASE intent.to = "group"
      <4>1. PICK item : item = Item("TEXT", {})
        OBVIOUS
      <4>2. item.type = "TEXT" /\ item.of = {}
        BY <4>1 DEF Item
      <4>3. lead.type = "TEXT" /\ lead.body = {item}
        BY <1>8, <3>1, <4>1 DEF Lead
      <4>4. Held({item}) = {} /\ Types({item}) = {"TEXT"}
        BY <4>2 DEF Held, Types
      <4> QED BY <4>3, <4>4 DEF Apart, Acceptable
    <3>2. CASE intent.to # "group"
      <4>1. lead = UserPacket("text", {})
        BY <1>8, <3>2 DEF UserLead
      <4>2. lead.type = "text" /\ lead.body # {} /\ Held(lead.body) = {} /\ Apart(lead.body)
        BY <4>1, OneItem
      <4> QED BY <4>2 DEF Acceptable
    <3> QED BY <3>1, <3>2
  <2>5. \A k \in 1 .. m + 1 : Acceptable(plan[k], Quotes(intent, k))
    <3> SUFFICES ASSUME NEW k \in 1 .. m + 1
                 PROVE  Acceptable(plan[k], Quotes(intent, k))
      OBVIOUS
    <3>1. CASE k = 1
      <4>1. Quotes(intent, 1) \in Nat /\ Quotes(intent, 1) > 0
        BY <1>11, <1>14
      <4> QED BY <2>2, <2>4, <3>1, <4>1
    <3>2. CASE k # 1
      <4>1. k \in Nat /\ k > 1
        BY <1>5, <3>2
      <4>2. Quotes(intent, k) = 0
        BY <1>11, <4>1
      <4>3. PICK j \in 1 .. m : plan[k] = packets[j]
        BY <2>2, <3>2
      <4> QED BY <1>12, <4>2, <4>3
    <3> QED BY <3>1, <3>2
  <2>6. SaysAll(intent, plan)
    <3> DEFINE said == UNION {Held(packets[k].body) : k \in DOMAIN packets}
               mentions == UNION {Mentioned(packets[k].body) : k \in DOMAIN packets}
               saidAll == UNION {Held(plan[k].body) : k \in DOMAIN plan}
               mentionsAll == UNION {Mentioned(plan[k].body) : k \in DOMAIN plan}
    <3>1. /\ said = Content(intent)
          /\ \A k, l \in 1 .. m : k < l =>
               \A i \in Held(packets[k].body), j \in Held(packets[l].body) : Before(intent, i, j)
          /\ \A k \in 1 .. m : Apart(packets[k].body)
          /\ intent.to = "group" =>
               intent.at \subseteq mentions \/ Everybody \in intent.at \cap mentions
      BY <1>5, <1>13 DEF SaysAll
    <3>2. saidAll = said
      <4>1. ASSUME NEW p \in saidAll PROVE p \in said
        <5>1. PICK k \in 1 .. m + 1 : p \in Held(plan[k].body)
          BY <2>2
        <5>2. k # 1
          BY <2>2, <2>4, <5>1
        <5>3. PICK j \in 1 .. m : plan[k] = packets[j]
          BY <2>2, <5>2
        <5> QED BY <1>5, <5>1, <5>3
      <4>2. ASSUME NEW p \in said PROVE p \in saidAll
        <5>1. PICK k \in 1 .. m : p \in Held(packets[k].body)
          BY <1>5
        <5> QED BY <2>2, <2>3, <5>1
      <4> QED BY <4>1, <4>2
    <3>3. mentions \subseteq mentionsAll
      <4> SUFFICES ASSUME NEW p \in mentions PROVE p \in mentionsAll
        OBVIOUS
      <4>1. PICK k \in 1 .. m : p \in Mentioned(packets[k].body)
        BY <1>5
      <4> QED BY <2>2, <2>3, <4>1
    <3>4. \A k, l \in 1 .. m + 1 : k < l =>
            \A i \in Held(plan[k].body), j \in Held(plan[l].body) : Before(intent, i, j)
      <4> SUFFICES ASSUME NEW k \in 1 .. m + 1, NEW l \in 1 .. m + 1, k < l,
                          NEW i \in Held(plan[k].body), NEW j \in Held(plan[l].body)
                   PROVE  Before(intent, i, j)
        OBVIOUS
      <4>1. k # 1 /\ l # 1
        BY <1>5, <2>2, <2>4
      <4>2. /\ k - 1 \in 1 .. m /\ plan[k] = packets[k - 1]
            /\ l - 1 \in 1 .. m /\ plan[l] = packets[l - 1] /\ k - 1 < l - 1
        BY <1>5, <2>2, <4>1
      <4> QED BY <3>1, <4>2
    <3>5. \A k \in 1 .. m + 1 : Apart(plan[k].body)
      <4> SUFFICES ASSUME NEW k \in 1 .. m + 1 PROVE Apart(plan[k].body)
        OBVIOUS
      <4>1. CASE k = 1
        BY <2>2, <2>4, <4>1
      <4>2. CASE k # 1
        <5>1. PICK j \in 1 .. m : plan[k] = packets[j]
          BY <2>2, <4>2
        <5> QED BY <3>1, <5>1
      <4> QED BY <4>1, <4>2
    <3>6. intent.to = "group" =>
            intent.at \subseteq mentionsAll \/ Everybody \in intent.at \cap mentionsAll
      <4> HIDE DEF mentions, mentionsAll
      <4> QED BY <3>1, <3>3
    <3> QED BY <2>2, <3>1, <3>2, <3>4, <3>5, <3>6 DEF SaysAll
  <2>7. m + 1 \in Nat \ {0}
    BY <1>5
  <2> QED BY <1>9, <2>2, <2>5, <2>6, <2>7 DEF Served
<1>15. CASE ~(intent.reply > 0 /\ (packets = <<>> \/ md))
  <2>1. plan = packets
    BY <1>10, <1>15
  <2>2. m # 0
    <3> SUFFICES ASSUME m = 0 PROVE FALSE
      OBVIOUS
    <3>1. /\ intent.segs = <<>> /\ intent.links = 0
          /\ intent.to = "group" => intent.at = {}
      BY <1>3 DEF GoesOut
    <3>2. ~(intent.reply > 0)
      BY <1>6, <1>15
    <3>3. intent.reply = 0
      BY <1>1, <3>2
    <3>4. Empty(intent)
      BY <3>1, <3>3 DEF Empty
    <3> QED BY <3>4 DEF Refused
  <2>3. \A k \in 1 .. m : Acceptable(packets[k], Quotes(intent, k))
    <3> SUFFICES ASSUME NEW k \in 1 .. m PROVE Acceptable(packets[k], Quotes(intent, k))
      OBVIOUS
    <3>1. k \in Nat
      BY <1>5
    <3>2. Quotes(intent, k) \in Nat
      BY <1>11, <3>1
    <3>3. CASE intent.reply > 0
      <4>1. ~md
        BY <1>15, <3>3
      <4> QED BY <1>12, <3>2, <3>3, <4>1
    <3>4. CASE ~(intent.reply > 0)
      <4>1. intent.reply = 0
        BY <1>1, <3>4
      <4>2. Quotes(intent, k) = 0
        BY <1>11, <3>1, <4>1
      <4> QED BY <1>12, <4>2
    <3> QED BY <3>3, <3>4
  <2>4. m \in Nat \ {0}
    BY <1>5, <2>2
  <2> QED BY <1>5, <1>6, <1>9, <1>13, <2>1, <2>3, <2>4 DEF Served
<1> QED BY <1>14, <1>15

-----------------------------------------------------------------------------
(* SendPath: what a caller is told, what is recorded and what was delivered *)

\* The types of the variables of a send, one by one.
SendTypes ==
  /\ job \in Jobs
  /\ part \in Nat \ {0} /\ at \in Nat \ {0}
  /\ stage \in {"plan", "publish", "send", "over"}
  /\ accepted \in Seq(Nat \X Nat) /\ receipts \in Seq(Nat \X Nat)
  /\ reported \in Seq(Nat \X Nat)
  /\ results \in Seq({"ok", "failed"}) /\ Len(results) = part - 1
  /\ window \in BOOLEAN

\* Where the send stands: a part that is sent has a plan, and at the end the
\* caller is told how all of them went.
Progress ==
  /\ stage # "over" => part <= Len(job.parts) /\ told = "nothing"
  /\ stage = "over" => /\ part = Len(job.parts) + 1
                       /\ told = IF AllOk(results) THEN "success" ELSE "error"
  /\ stage # "send" => at = 1
  /\ stage \in {"publish", "send"} => ~Refused(Intent)
  /\ stage = "send" => at <= Len(Plan(Intent))

\* What went out last are the packets of the part before the next one, each of
\* them reported, and nothing of what comes after them.
InFlight ==
  /\ Len(receipts) = at - 1
  /\ \A k \in 1 .. at - 1 : receipts[k] = Id(part, k) /\ Id(part, k) \in ToSet(accepted)
  /\ \A i \in DOMAIN accepted :
       \/ accepted[i][1] < part
       \/ accepted[i][1] = part /\ accepted[i][2] < at
  /\ at > 1 => Len(accepted) > 0 /\ accepted[Len(accepted)] = Id(part, at - 1)

\* A part that ended well was delivered as a whole.
PartsAreWhole ==
  \A p \in 1 .. part - 1 :
    results[p] = "ok" =>
      \A k \in 1 .. Len(Plan(job.parts[p])) : Id(p, k) \in ToSet(accepted)

\* What was reported was delivered, and who records does so at once, or at the
\* end if all went well.
RecordsFollow ==
  /\ ToSet(reported) \subseteq ToSet(accepted)
  /\ recorded \subseteq ToSet(reported)
  /\ job.caller # "cron" \/ (stage = "over" /\ AllOk(results)) => recorded = ToSet(reported)
  /\ window => /\ Len(accepted) > 0 /\ job.parts[1].to = "group"
               /\ job.caller \in {"reply", "image"}

\* The inductive invariant of a send.
SendInv ==
  /\ SendTypes /\ Progress /\ InFlight /\ DeliveredIsPrefix
  /\ PartsAreWhole /\ RecordsFollow

LEMMA SetOfAppend ==
  ASSUME NEW S, NEW s \in Seq(S), NEW e \in S
  PROVE  ToSet(Append(s, e)) = ToSet(s) \cup {e}
<1>1. PICK t : t = Append(s, e)
  OBVIOUS
<1>2. PICK n \in Nat : n = Len(s)
  BY LenProperties
<1>3. /\ DOMAIN s = 1 .. n /\ DOMAIN t = 1 .. n + 1
      /\ \A i \in 1 .. n : t[i] = s[i]
      /\ t[n + 1] = e
  BY <1>1, <1>2, AppendProperties, LenProperties
<1>4. ToSet(t) = ToSet(s) \cup {e}
  BY <1>2, <1>3 DEF ToSet
<1> QED BY <1>1, <1>4

LEMMA SetOfConcat ==
  ASSUME NEW S, NEW s \in Seq(S), NEW t \in Seq(S)
  PROVE  ToSet(s \o t) = ToSet(s) \cup ToSet(t)
<1>1. PICK u : u = s \o t
  OBVIOUS
<1>2. PICK m \in Nat, n \in Nat : m = Len(s) /\ n = Len(t)
  BY LenProperties
<1>3. /\ DOMAIN s = 1 .. m /\ DOMAIN t = 1 .. n /\ DOMAIN u = 1 .. m + n
      /\ \A i \in 1 .. m + n : u[i] = IF i <= m THEN s[i] ELSE t[i - m]
  BY <1>1, <1>2, ConcatProperties, LenProperties
<1>4. ToSet(s) \cup ToSet(t) \subseteq ToSet(u)
  <2>1. ToSet(s) \subseteq ToSet(u)
    BY <1>2, <1>3 DEF ToSet
  <2>2. \A i \in 1 .. n : m + i \in 1 .. m + n /\ u[m + i] = t[i]
    <3>1. \A i \in 1 .. n : m + i \in 1 .. m + n /\ ~(m + i <= m) /\ (m + i) - m = i
      BY <1>2
    <3> QED BY <1>3, <3>1
  <2>3. ToSet(t) \subseteq ToSet(u)
    BY <1>3, <2>2 DEF ToSet
  <2> QED BY <2>1, <2>3
<1>5. ToSet(u) \subseteq ToSet(s) \cup ToSet(t)
  <2>1. \A i \in 1 .. m + n : i \in 1 .. m \/ i - m \in 1 .. n
    BY <1>2
  <2>2. \A i \in 1 .. m + n : ~(i <= m) <=> i \notin 1 .. m
    BY <1>2
  <2>3. \A i \in 1 .. m + n :
          (i \in 1 .. m /\ u[i] = s[i]) \/ (i - m \in 1 .. n /\ u[i] = t[i - m])
    BY <1>3, <2>1, <2>2
  <2> QED BY <1>3, <2>3, Zenon DEF ToSet
<1> QED BY <1>1, <1>4, <1>5

\* A list of packets with a part and a place: up to a part is before the next.
LEMMA PlacesOfPackets ==
  ASSUME NEW s \in Seq(Nat \X Nat), NEW p \in Nat
  PROVE  /\ \A i \in DOMAIN s : s[i][1] \in Nat /\ s[i][2] \in Nat
         /\ (\A i \in DOMAIN s : s[i][1] < p \/ s[i][1] = p)
              => \A i \in DOMAIN s : s[i][1] < p + 1
<1>1. s \in [1 .. Len(s) -> Nat \X Nat] /\ DOMAIN s = 1 .. Len(s)
  BY LenProperties
<1>2. \A x \in Nat \X Nat : x[1] \in Nat /\ x[2] \in Nat
  OBVIOUS
<1>3. \A i \in DOMAIN s : s[i][1] \in Nat /\ s[i][2] \in Nat
  BY <1>1, <1>2
<1>4. \A n \in Nat : n < p \/ n = p => n < p + 1
  OBVIOUS
<1> QED BY <1>3, <1>4

LEMMA SendInitInv == SendInit => SendInv
<1> SUFFICES ASSUME SendInit PROVE SendInv
  OBVIOUS
<1>1. /\ job \in Jobs /\ part = 1 /\ stage = "plan" /\ at = 1 /\ accepted = <<>>
      /\ receipts = <<>> /\ results = <<>> /\ reported = <<>> /\ recorded = {}
      /\ window = FALSE /\ told = "nothing"
  BY DEF SendInit
<1>2. PICK n \in Nat \ {0} : Len(job.parts) = n
  BY <1>1, SendAssumption
<1>3. /\ Len(<<>>) = 0 /\ DOMAIN <<>> = {} /\ ToSet(<<>>) = {}
      /\ <<>> \in Seq(Nat \X Nat) /\ <<>> \in Seq({"ok", "failed"})
  BY DEF ToSet
<1>4. SendTypes
  <2>1. /\ job \in Jobs /\ part \in Nat \ {0} /\ at \in Nat \ {0}
        /\ stage \in {"plan", "publish", "send", "over"} /\ Len(results) = part - 1
    BY <1>1, <1>3
  <2>2. window \in BOOLEAN
    BY <1>1
  <2>3. /\ accepted \in Seq(Nat \X Nat) /\ receipts \in Seq(Nat \X Nat)
        /\ reported \in Seq(Nat \X Nat) /\ results \in Seq({"ok", "failed"})
    BY <1>1, <1>3
  <2> QED BY <2>1, <2>2, <2>3 DEF SendTypes
<1>5. Progress
  BY <1>1, <1>2 DEF Progress
<1>6. InFlight /\ DeliveredIsPrefix /\ PartsAreWhole
  BY <1>1, <1>3 DEF InFlight, DeliveredIsPrefix, PartsAreWhole
<1>7. RecordsFollow
  BY <1>1, <1>3 DEF RecordsFollow
<1> QED BY <1>4, <1>5, <1>6, <1>7 DEF SendInv

\* A packet that the platform takes continues what it has.
LEMMA AcceptOne ==
  ASSUME SendInv, stage = "send", accepted' = Append(accepted, Id(part, at))
  PROVE  /\ accepted' \in Seq(Nat \X Nat) /\ Len(accepted') > 0
         /\ accepted'[Len(accepted')] = Id(part, at)
         /\ ToSet(accepted') = ToSet(accepted) \cup {Id(part, at)}
         /\ \A i \in DOMAIN accepted' :
              \/ accepted'[i][1] < part
              \/ accepted'[i][1] = part /\ accepted'[i][2] <= at
         /\ DeliveredIsPrefix'
<1>1. SendTypes /\ InFlight /\ DeliveredIsPrefix
  BY DEF SendInv
<1>2. PICK e : e = Id(part, at)
  OBVIOUS
<1>3. e \in Nat \X Nat /\ e[1] = part /\ e[2] = at /\ part \in Nat /\ at \in Nat
  BY <1>1, <1>2 DEF SendTypes, Id
<1>4. PICK n \in Nat : n = Len(accepted)
  BY <1>1, LenProperties DEF SendTypes
<1>5. PICK s : s = accepted'
  OBVIOUS
<1>6. /\ s \in Seq(Nat \X Nat) /\ Len(s) = n + 1
      /\ DOMAIN accepted = 1 .. n /\ DOMAIN s = 1 .. n + 1
      /\ \A i \in 1 .. n : s[i] = accepted[i]
      /\ s[n + 1] = e
  BY <1>1, <1>2, <1>3, <1>4, <1>5, AppendProperties, LenProperties DEF SendTypes
<1>7. ToSet(accepted') = ToSet(accepted) \cup {e}
  BY ZenonT(30), <1>1, <1>2, <1>3, SetOfAppend DEF SendTypes
<1>8. \A i \in 1 .. n : accepted[i][1] < part \/ (accepted[i][1] = part /\ accepted[i][2] < at)
  BY <1>1, <1>6 DEF InFlight
<1>9. \A i \in 1 .. n : accepted[i] \in Nat \X Nat /\ accepted[i][2] \in Nat
  <2>1. accepted \in [1 .. n -> Nat \X Nat]
    BY <1>1, <1>4, LenProperties DEF SendTypes
  <2>2. \A x \in Nat \X Nat : x[2] \in Nat
    OBVIOUS
  <2> QED BY <2>1, <2>2
<1>10. \A i \in 1 .. n + 1 : s[i][1] < part \/ (s[i][1] = part /\ s[i][2] <= at)
  <2>1. \A i \in 1 .. n + 1 : i \in 1 .. n \/ i = n + 1
    BY <1>4
  <2>2. ASSUME NEW i \in 1 .. n
        PROVE  s[i][1] < part \/ (s[i][1] = part /\ s[i][2] <= at)
    <3>1. PICK a : a = s[i] /\ a = accepted[i]
      BY <1>6
    <3>2. a[2] \in Nat /\ (a[1] < part \/ (a[1] = part /\ a[2] < at))
      BY <1>8, <1>9, <3>1
    <3> QED BY <1>3, <3>1, <3>2
  <2>3. s[n + 1][1] = part /\ s[n + 1][2] <= at
    BY <1>3, <1>6
  <2> QED BY <2>1, <2>2, <2>3
<1>11. DeliveredIsPrefix'
  <2> SUFFICES ASSUME NEW i \in 1 .. n + 1
               PROVE  /\ \A j \in 1 .. i - 1 : Precedes(s[j], s[i])
                      /\ s[i][2] > 1 => i > 1 /\ s[i - 1] = Id(s[i][1], s[i][2] - 1)
    BY <1>5, <1>6 DEF DeliveredIsPrefix
  <2>1. CASE i \in 1 .. n
    <3>1. i - 1 \in 0 .. n /\ \A j \in 1 .. i - 1 : j \in 1 .. n
      BY <1>4, <2>1
    <3>2. /\ \A j \in 1 .. i - 1 : Precedes(accepted[j], accepted[i])
          /\ accepted[i][2] > 1 =>
               i > 1 /\ accepted[i - 1] = Id(accepted[i][1], accepted[i][2] - 1)
      BY <1>1, <1>6, <2>1 DEF DeliveredIsPrefix
    <3>3. i > 1 => i - 1 \in 1 .. n
      BY <1>4, <2>1
    <3> QED BY <1>6, <2>1, <3>1, <3>2, <3>3
  <2>2. CASE i = n + 1
    <3>1. i - 1 = n /\ s[i] = e
      BY <1>4, <1>6, <2>2
    <3>2. \A j \in 1 .. n : Precedes(s[j], e)
      BY <1>3, <1>6, <1>8 DEF Precedes
    <3>3. ASSUME at > 1 PROVE n > 0 /\ s[n] = Id(part, at - 1)
      <4>1. n > 0 /\ accepted[n] = Id(part, at - 1)
        BY <1>1, <1>4, <3>3 DEF InFlight
      <4> QED BY <1>4, <1>6, <4>1
    <3>4. i > 1 <=> n > 0
      BY <1>4, <2>2
    <3> QED BY <1>3, <3>1, <3>2, <3>3, <3>4
  <2> QED BY <1>4, <2>1, <2>2
<1> QED BY <1>2, <1>4, <1>5, <1>6, <1>7, <1>10, <1>11

\* The end of a part, after what was accepted for it.
LEMMA EndOfPart ==
  ASSUME SendInv, stage # "over", NEW ids \in Seq(Nat \X Nat), NEW result \in {"ok", "failed"},
         PartEnds(ids, result),
         accepted' \in Seq(Nat \X Nat), DeliveredIsPrefix',
         ToSet(accepted) \subseteq ToSet(accepted'), ToSet(ids) \subseteq ToSet(accepted'),
         Len(accepted') >= Len(accepted),
         \A i \in DOMAIN accepted' : accepted'[i][1] < part + 1,
         result = "ok" \/ ids # <<>> => Len(accepted') > 0,
         result = "ok" =>
           \A k \in 1 .. Len(Plan(Intent)) : Id(part, k) \in ToSet(accepted')
  PROVE  SendInv'
<1>1. SendTypes /\ Progress /\ InFlight /\ PartsAreWhole /\ RecordsFollow
  BY DEF SendInv
<1>2. PICK n \in Nat \ {0} : /\ Len(job.parts) = n /\ DOMAIN job.parts = 1 .. n
                             /\ job.caller \in Callers
                             /\ \A p \in 1 .. n : job.parts[p].to = job.parts[1].to
  BY <1>1, SendAssumption DEF SendTypes
<1>3. part \in 1 .. n /\ told = "nothing" /\ part \in Nat /\ Len(results) = part - 1
  BY <1>1, <1>2 DEF SendTypes, Progress
<1>4. PICK rs : rs = Append(results, result)
  OBVIOUS
<1>5. PICK all : all = reported \o ids
  OBVIOUS
<1>6. /\ rs \in Seq({"ok", "failed"}) /\ Len(rs) = part /\ DOMAIN rs = 1 .. part
      /\ \A p \in 1 .. part - 1 : rs[p] = results[p]
      /\ rs[part] = result
  <2>1. results \in Seq({"ok", "failed"}) /\ Len(results) + 1 = part
    BY <1>1, <1>3 DEF SendTypes
  <2> QED BY <1>4, <2>1, AppendProperties, LenProperties
<1>7. all \in Seq(Nat \X Nat) /\ ToSet(all) = ToSet(reported) \cup ToSet(ids)
  BY <1>1, <1>5, SetOfConcat, ConcatProperties DEF SendTypes
<1>8. /\ job' = job /\ results' = rs /\ reported' = all
      /\ window' = (window \/ OpensWindow(ids, result))
      /\ part' = part + 1 /\ at' = 1 /\ receipts' = <<>>
      /\ part < n => /\ stage' = "plan" /\ recorded' = Recorded(ids, result) /\ told' = told
      /\ part >= n => /\ stage' = "over"
                      /\ recorded' = Recorded(ids, result) \cup CronRecords(all, rs)
                      /\ told' = IF AllOk(rs) THEN "success" ELSE "error"
  BY <1>2, <1>3, <1>4, <1>5 DEF PartEnds
<1>9. SendTypes'
  <2>1. job' \in Jobs /\ part' \in Nat \ {0} /\ at' \in Nat \ {0}
    BY <1>1, <1>3, <1>8 DEF SendTypes
  <2>2. stage' \in {"plan", "publish", "send", "over"}
    BY <1>3, <1>8
  <2>3. results' \in Seq({"ok", "failed"}) /\ Len(results') = part' - 1
    BY <1>3, <1>6, <1>8
  <2>4. window' \in BOOLEAN
    BY <1>8
  <2>5. receipts' \in Seq(Nat \X Nat)
    BY <1>8
  <2> QED BY <1>7, <1>8, <2>1, <2>2, <2>3, <2>4, <2>5 DEF SendTypes
<1>10. Progress'
  <2>1. CASE part < n
    BY <1>2, <1>3, <1>8, <2>1 DEF Progress
  <2>2. CASE part >= n
    <3>1. /\ stage' = "over" /\ part' = n + 1 /\ at' = 1
          /\ told' = IF AllOk(rs) THEN "success" ELSE "error"
      BY <1>2, <1>3, <1>8, <2>2
    <3> QED BY <1>2, <1>8, <3>1 DEF Progress, AllOk
  <2> QED BY <1>2, <1>3, <2>1, <2>2
<1>11. InFlight'
  <2>1. Len(receipts') = at' - 1 /\ at' = 1 /\ 1 .. at' - 1 = {}
    BY <1>8
  <2> QED BY <1>8, <2>1 DEF InFlight
<1>12. PartsAreWhole'
  <2> SUFFICES ASSUME NEW p \in 1 .. part, rs[p] = "ok", NEW k \in 1 .. Len(Plan(job.parts[p]))
               PROVE  Id(p, k) \in ToSet(accepted')
    BY <1>3, <1>8 DEF PartsAreWhole
  <2>1. CASE p = part
    BY <1>6, <2>1 DEF Intent
  <2>2. CASE p # part
    <3>1. p \in 1 .. part - 1
      BY <1>3, <2>2
    <3> QED BY <1>1, <1>6, <3>1 DEF PartsAreWhole
  <2> QED BY <2>1, <2>2
<1>13. RecordsFollow'
  <2>1. ToSet(all) \subseteq ToSet(accepted')
    BY <1>1, <1>7 DEF RecordsFollow
  <2>2. ASSUME job.caller # "cron" PROVE recorded' = ToSet(all)
    BY <1>1, <1>3, <1>7, <1>8, <2>2 DEF RecordsFollow, Recorded, CronRecords
  <2>3. ASSUME job.caller = "cron"
        PROVE  /\ recorded' \subseteq ToSet(all)
               /\ stage' = "over" /\ AllOk(rs) => recorded' = ToSet(all)
    BY <1>1, <1>2, <1>3, <1>7, <1>8, <2>3 DEF RecordsFollow, Recorded, CronRecords
  <2>4. AllOk(results') = AllOk(rs)
    BY <1>8
  <2>5. ASSUME window'
        PROVE  /\ Len(accepted') > 0 /\ job.parts[1].to = "group"
               /\ job.caller \in {"reply", "image"}
    <3>1. CASE window
      <4>1. /\ Len(accepted) > 0 /\ job.parts[1].to = "group"
            /\ job.caller \in {"reply", "image"}
        BY <1>1, <3>1 DEF RecordsFollow
      <4>2. Len(accepted) \in Nat /\ Len(accepted') \in Nat
        BY <1>1, LenProperties DEF SendTypes
      <4> QED BY <4>1, <4>2
    <3>2. CASE OpensWindow(ids, result)
      BY <1>2, <1>3, <3>2 DEF OpensWindow, Intent
    <3> QED BY <1>8, <2>5, <3>1, <3>2
  <2> QED BY <1>8, <2>1, <2>2, <2>3, <2>4, <2>5 DEF RecordsFollow
<1> QED BY <1>9, <1>10, <1>11, <1>12, <1>13 DEF SendInv

\* What is accepted lies in the parts begun, and the ids reported are a set of it.
LEMMA PartBegun ==
  ASSUME SendInv, stage # "over"
  PROVE  /\ receipts \in Seq(Nat \X Nat) /\ accepted \in Seq(Nat \X Nat)
         /\ ToSet(receipts) \subseteq ToSet(accepted)
         /\ \A i \in DOMAIN accepted : accepted[i][1] < part + 1
         /\ receipts # <<>> => Len(accepted) > 0
         /\ part \in DOMAIN job.parts /\ part \in Nat /\ at \in Nat /\ job \in Jobs
<1>1. SendTypes /\ Progress /\ InFlight
  BY DEF SendInv
<1>2. part \in Nat \ {0} /\ at \in Nat \ {0} /\ job \in Jobs
      /\ receipts \in Seq(Nat \X Nat) /\ accepted \in Seq(Nat \X Nat)
  BY <1>1 DEF SendTypes
<1>3. DOMAIN receipts = 1 .. at - 1 /\ Len(receipts) = at - 1
  BY <1>1, <1>2, LenProperties DEF InFlight
<1>4. ToSet(receipts) \subseteq ToSet(accepted)
  BY <1>1, <1>3 DEF InFlight, ToSet
<1>5. \A i \in DOMAIN accepted : accepted[i][1] < part + 1
  <2>1. \A i \in DOMAIN accepted : accepted[i][1] < part \/ accepted[i][1] = part
    BY <1>1 DEF InFlight
  <2> QED BY <1>2, <2>1, PlacesOfPackets
<1>6. receipts # <<>> => Len(accepted) > 0
  <2>1. at = 1 => receipts = <<>>
    BY <1>2, <1>3, EmptySeq
  <2> QED BY <1>1, <1>2, <2>1 DEF InFlight
<1>7. part \in DOMAIN job.parts
  <2>1. PICK n \in Nat \ {0} : Len(job.parts) = n /\ DOMAIN job.parts = 1 .. n
    BY <1>2, SendAssumption
  <2> QED BY <1>1, <1>2, <2>1 DEF Progress
<1> QED BY <1>2, <1>4, <1>5, <1>6, <1>7

\* A part that fails before or without a call, or whose call is refused.
LEMMA PartFails ==
  ASSUME SendInv, stage # "over", PartEnds(<<>>, "failed") \/ PartEnds(receipts, "failed"),
         UNCHANGED accepted
  PROVE  SendInv'
<1>1. PICK ids \in {<<>>, receipts} : PartEnds(ids, "failed")
  OBVIOUS
<1>2. /\ ids \in Seq(Nat \X Nat) /\ ToSet(ids) \subseteq ToSet(accepted)
      /\ ids # <<>> => Len(accepted) > 0
  <2>1. <<>> \in Seq(Nat \X Nat) /\ ToSet(<<>>) = {}
    BY DEF ToSet
  <2> QED BY <1>1, <2>1, PartBegun
<1>3. DeliveredIsPrefix'
  BY DEF SendInv, DeliveredIsPrefix
<1>4. Len(accepted) \in Nat
  BY PartBegun, LenProperties
<1> QED BY <1>1, <1>2, <1>3, <1>4, PartBegun, EndOfPart

\* A part that is not refused has a plan, which is taken and says all of it.
LEMMA PartIsServed ==
  ASSUME SendInv, stage # "over", ~Refused(Intent)
  PROVE  Served(Intent) /\ Len(Plan(Intent)) \in Nat \ {0}
<1>1. job \in Jobs /\ part \in DOMAIN job.parts
  BY PartBegun
<1>2. IsIntent(job.parts[part])
  BY <1>1, SendAssumption
<1>3. Served(Intent)
  BY <1>2, PlansAreServed DEF Intent
<1> QED BY <1>3 DEF Served

\* The part is planned, or its images are published, and the send begins.
LEMMA SendBegins ==
  ASSUME SendInv, stage \in {"plan", "publish"}, ~Refused(Intent),
         stage' \in {"publish", "send"},
         UNCHANGED <<job, part, at, accepted, receipts, results, reported, recorded,
                     window, told>>
  PROVE  SendInv'
<1>1. SendTypes /\ Progress /\ InFlight /\ DeliveredIsPrefix /\ PartsAreWhole /\ RecordsFollow
  BY DEF SendInv
<1>2. Len(Plan(Intent)) \in Nat \ {0} /\ at = 1
  BY <1>1, PartIsServed DEF Progress
<1>3. Intent' = Intent
  BY DEF Intent
<1>4. SendTypes'
  BY <1>1 DEF SendTypes
<1>5. Progress'
  <2>1. Plan(Intent)' = Plan(Intent) /\ Refused(Intent)' = Refused(Intent)
    BY <1>3 DEF Plan, Refused
  <2> QED BY <1>1, <1>2, <1>3, <2>1 DEF Progress
<1>6. InFlight' /\ DeliveredIsPrefix' /\ PartsAreWhole'
  BY <1>1 DEF InFlight, DeliveredIsPrefix, PartsAreWhole, Plan
<1>7. RecordsFollow'
  BY <1>1 DEF RecordsFollow, AllOk
<1> QED BY <1>4, <1>5, <1>6, <1>7 DEF SendInv

LEMMA PlannedInv ==
  ASSUME SendInv, Planned
  PROVE  SendInv'
<1>1. CASE Refused(Intent)
  BY <1>1, PartFails DEF Planned
<1>2. CASE ~Refused(Intent)
  BY <1>2, SendBegins DEF Planned
<1> QED BY <1>1, <1>2

LEMMA PublishInv ==
  ASSUME SendInv, NEW fails \in BOOLEAN, Publish(fails)
  PROVE  SendInv'
<1>1. CASE fails
  BY <1>1, PartFails DEF Publish
<1>2. CASE ~fails
  <2>1. ~Refused(Intent)
    BY DEF Publish, SendInv, Progress
  <2> QED BY <1>2, <2>1, SendBegins DEF Publish
<1> QED BY <1>1, <1>2

LEMMA LoseInv ==
  ASSUME SendInv, Lose
  PROVE  SendInv'
<1>1. /\ stage = "send" /\ accepted' = Append(accepted, Id(part, at))
      /\ PartEnds(receipts, "failed")
  BY DEF Lose
<1>2. /\ accepted' \in Seq(Nat \X Nat) /\ Len(accepted') > 0 /\ DeliveredIsPrefix'
      /\ ToSet(accepted) \subseteq ToSet(accepted')
      /\ \A i \in DOMAIN accepted' : accepted'[i][1] < part \/ accepted'[i][1] = part
  BY <1>1, AcceptOne
<1>3. Len(accepted') >= Len(accepted)
  BY <1>1, PartBegun, AppendProperties, LenProperties
<1>4. \A i \in DOMAIN accepted' : accepted'[i][1] < part + 1
  BY <1>1, <1>2, PartBegun, PlacesOfPackets
<1> QED BY <1>1, <1>2, <1>3, <1>4, PartBegun, EndOfPart

LEMMA DeliverInv ==
  ASSUME SendInv, Deliver
  PROVE  SendInv'
<1>1. stage = "send" /\ accepted' = Append(accepted, Id(part, at))
  BY DEF Deliver
<1>2. SendTypes /\ Progress /\ InFlight /\ PartsAreWhole /\ RecordsFollow
  BY DEF SendInv
<1>3. PICK ids : ids = Append(receipts, Id(part, at))
  OBVIOUS
<1>4. /\ part \in Nat /\ at \in Nat \ {0} /\ Id(part, at) \in Nat \X Nat
      /\ receipts \in Seq(Nat \X Nat) /\ Len(receipts) = at - 1
  BY <1>2 DEF SendTypes, InFlight, Id
<1>5. /\ ids \in Seq(Nat \X Nat) /\ Len(ids) = at
      /\ \A k \in 1 .. at - 1 : ids[k] = receipts[k]
      /\ ids[at] = Id(part, at)
  BY <1>3, <1>4, AppendProperties
<1>6. /\ accepted' \in Seq(Nat \X Nat) /\ Len(accepted') > 0 /\ DeliveredIsPrefix'
      /\ accepted'[Len(accepted')] = Id(part, at)
      /\ ToSet(accepted') = ToSet(accepted) \cup {Id(part, at)}
      /\ \A i \in DOMAIN accepted' :
           \/ accepted'[i][1] < part
           \/ accepted'[i][1] = part /\ accepted'[i][2] <= at
  BY <1>1, AcceptOne
<1>7. \A k \in 1 .. at : ids[k] = Id(part, k) /\ Id(part, k) \in ToSet(accepted')
  <2>1. \A k \in 1 .. at : k = at \/ k \in 1 .. at - 1
    BY <1>4
  <2> QED BY <1>2, <1>5, <1>6, <2>1 DEF InFlight
<1>8. CASE at = Len(Plan(Intent))
  <2>1. PartEnds(ids, "ok")
    BY <1>3, <1>8 DEF Deliver
  <2>2. ToSet(ids) \subseteq ToSet(accepted')
    <3>1. ToSet(ids) = ToSet(receipts) \cup {Id(part, at)}
      BY <1>3, <1>4, SetOfAppend
    <3> QED BY <1>1, <1>6, <3>1, PartBegun
  <2>3. Len(accepted') >= Len(accepted)
    BY <1>1, <1>4, PartBegun, AppendProperties, LenProperties
  <2>4. \A i \in DOMAIN accepted' : accepted'[i][1] < part + 1
    <3>1. \A i \in DOMAIN accepted' : accepted'[i][1] < part \/ accepted'[i][1] = part
      BY <1>6
    <3> QED BY <1>4, <1>6, <3>1, PlacesOfPackets
  <2> QED BY <1>1, <1>5, <1>6, <1>7, <1>8, <2>1, <2>2, <2>3, <2>4, EndOfPart
<1>9. CASE at # Len(Plan(Intent))
  <2>1. /\ at' = at + 1 /\ receipts' = ids
        /\ UNCHANGED <<job, part, stage, results, reported, recorded, window, told>>
    BY <1>3, <1>9 DEF Deliver
  <2>2. Intent' = Intent /\ Plan(Intent)' = Plan(Intent) /\ Refused(Intent)' = Refused(Intent)
    BY <2>1 DEF Intent, Plan, Refused
  <2>3. SendTypes'
    <3>1. /\ job' \in Jobs /\ part' \in Nat \ {0} /\ at' \in Nat \ {0}
          /\ stage' \in {"plan", "publish", "send", "over"}
      BY <1>2, <1>4, <2>1 DEF SendTypes
    <3>2. /\ reported' \in Seq(Nat \X Nat) /\ receipts' \in Seq(Nat \X Nat)
          /\ results' \in Seq({"ok", "failed"}) /\ Len(results') = part' - 1
          /\ window' \in BOOLEAN
      BY <1>2, <1>5, <2>1 DEF SendTypes
    <3> QED BY <1>6, <3>1, <3>2 DEF SendTypes
  <2>4. Progress'
    <3>1. at + 1 <= Len(Plan(Intent))
      <4>1. Len(Plan(Intent)) \in Nat
        BY <1>1, <1>2, PartIsServed DEF Progress
      <4> QED BY <1>1, <1>2, <1>4, <1>9, <4>1 DEF Progress
    <3> QED BY <1>1, <1>2, <2>1, <2>2, <3>1 DEF Progress
  <2>5. InFlight'
    <3>1. at' - 1 = at /\ at' > 1
      BY <1>4, <2>1
    <3>2. \A i \in DOMAIN accepted' :
            accepted'[i][1] < part \/ (accepted'[i][1] = part /\ accepted'[i][2] < at + 1)
      <4>1. \A i \in DOMAIN accepted' : accepted'[i][2] \in Nat
        BY <1>4, <1>6, PlacesOfPackets
      <4> QED BY <1>4, <1>6, <4>1
    <3> QED BY <1>5, <1>6, <1>7, <2>1, <3>1, <3>2 DEF InFlight
  <2>6. PartsAreWhole'
    BY ZenonT(30), <1>2, <1>6, <2>1 DEF PartsAreWhole, Plan
  <2>7. RecordsFollow'
    BY <1>1, <1>2, <1>6, <2>1 DEF RecordsFollow, AllOk
  <2> QED BY <1>6, <2>3, <2>4, <2>5, <2>6, <2>7 DEF SendInv
<1> QED BY <1>8, <1>9

LEMMA SendStepInv ==
  ASSUME SendInv, [SendNext]_sendVars
  PROVE  SendInv'
<1>1. CASE UNCHANGED sendVars
  <2>1. SendTypes' /\ InFlight' /\ DeliveredIsPrefix'
    BY <1>1 DEF SendInv, sendVars, SendTypes, InFlight, DeliveredIsPrefix
  <2>2. Progress' /\ PartsAreWhole' /\ RecordsFollow'
    BY <1>1 DEF SendInv, sendVars, Progress, PartsAreWhole, RecordsFollow, Intent, Plan,
                Refused, AllOk
  <2> QED BY <2>1, <2>2 DEF SendInv
<1>2. CASE Refuse
  BY <1>2, PartFails DEF Refuse, AfterRefusal
<1> QED BY <1>1, <1>2, PlannedInv, PublishInv, DeliverInv, LoseInv DEF SendNext

LEMMA SendInvariance == SendSpec => []SendInv
<1>1. SendInit => SendInv
  BY SendInitInv
<1>2. SendInv /\ [SendNext]_sendVars => SendInv'
  BY SendStepInv
<1> QED BY <1>1, <1>2, PTL DEF SendSpec

\* Wherever a send breaks off, what the caller is told, what is recorded and what
\* was delivered agree.
THEOREM SendsAreToldAsDelivered == SendSpec => []ToldAsDelivered
<1>1. SendInv => ToldAsDelivered
  <2> SUFFICES ASSUME SendInv PROVE ToldAsDelivered
    OBVIOUS
  <2>0. SendTypes /\ Progress /\ InFlight /\ DeliveredIsPrefix /\ PartsAreWhole /\ RecordsFollow
    BY DEF SendInv
  <2>1. PICK n \in Nat \ {0} : /\ Len(job.parts) = n /\ DOMAIN job.parts = 1 .. n
                               /\ job.caller \in Callers
    BY <2>0, SendAssumption DEF SendTypes
  <2>2. /\ DOMAIN results = 1 .. part - 1
        /\ \A p \in 1 .. part - 1 : results[p] \in {"ok", "failed"}
    BY <2>0, LenProperties DEF SendTypes
  <2>3. /\ part \in 1 .. n + 1 /\ (stage = "over" => part = n + 1)
        /\ stage = "over" <=> told # "nothing"
        /\ told \in {"nothing", "success", "error"}
    BY <2>0, <2>1 DEF SendTypes, Progress
  <2>4. SendTypeOK
    <3>1. stage = "send" => at \in 1 .. Len(Plan(Intent))
      <4> SUFFICES ASSUME stage = "send" PROVE at \in 1 .. Len(Plan(Intent))
        OBVIOUS
      <4>1. Len(Plan(Intent)) \in Nat
        BY <2>0, PartIsServed DEF Progress
      <4> QED BY <2>0, <4>1 DEF Progress, SendTypes
    <3>2. recorded \subseteq {accepted[i] : i \in DOMAIN accepted}
      BY <2>0 DEF RecordsFollow, ToSet
    <3>3. /\ stage \in {"plan", "publish", "send", "over"} /\ Len(results) = part - 1
          /\ window \in BOOLEAN
      BY <2>0 DEF SendTypes
    <3> QED BY <2>1, <2>2, <2>3, <3>1, <3>2, <3>3 DEF SendTypeOK
  <2>5. ASSUME told = "success" PROVE stage = "over" /\ AllOk(results)
    BY <2>0, <2>5 DEF Progress
  <2>6. SuccessIsComplete
    <3> SUFFICES ASSUME told = "success", NEW p \in 1 .. n,
                        NEW k \in 1 .. Len(Plan(job.parts[p]))
                 PROVE  \E i \in DOMAIN accepted : accepted[i] = Id(p, k)
      BY <2>1 DEF SuccessIsComplete
    <3>1. p \in 1 .. part - 1 /\ results[p] = "ok"
      BY <2>1, <2>2, <2>3, <2>5 DEF AllOk
    <3> QED BY <2>0, <3>1 DEF PartsAreWhole, ToSet
  <2>7. ReportedIsRecorded
    BY <2>0, <2>5 DEF ReportedIsRecorded, RecordsFollow, Over
  <2>8. ErrorIsReal
    <3>1. told = "error" => \E i \in DOMAIN results : results[i] = "failed"
      BY <2>0, <2>2, <2>3 DEF Progress, AllOk
    <3>2. Len(accepted) > 0 => accepted # <<>>
      OBVIOUS
    <3> QED BY <2>0, <3>1, <3>2 DEF ErrorIsReal, RecordsFollow
  <2> QED BY <2>0, <2>4, <2>6, <2>7, <2>8 DEF ToldAsDelivered
<1> QED BY <1>1, SendInvariance, PTL
-----------------------------------------------------------------------------
(* SendPath: the packets of a plan *)

\* What the platform took is of messages that were not refused.
TakenIsSound ==
  \A i \in DOMAIN accepted :
    /\ accepted[i][1] \in DOMAIN job.parts /\ accepted[i][2] \in Nat \ {0}
    /\ ~Refused(job.parts[accepted[i][1]])

LEMMA TakenStaysSound ==
  ASSUME SendInv, TakenIsSound, [SendNext]_sendVars
  PROVE  TakenIsSound'
<1>1. CASE UNCHANGED <<accepted, job>>
  BY <1>1 DEF TakenIsSound, Refused
<1>2. CASE stage = "send" /\ accepted' = Append(accepted, Id(part, at)) /\ job' = job
  <2>1. /\ part \in DOMAIN job.parts /\ part \in Nat /\ accepted \in Seq(Nat \X Nat)
    BY <1>2, PartBegun
  <2>2. at \in Nat \ {0} /\ ~Refused(job.parts[part])
    BY <1>2 DEF SendInv, SendTypes, Progress, Intent
  <2>3. Id(part, at)[1] = part /\ Id(part, at)[2] = at /\ Id(part, at) \in Nat \X Nat
    BY <2>1, <2>2 DEF Id
  <2>4. PICK n \in Nat : n = Len(accepted) /\ DOMAIN accepted = 1 .. n
    BY <2>1, LenProperties
  <2>5. PICK all : all = accepted'
    OBVIOUS
  <2>6. /\ DOMAIN all = 1 .. n + 1 /\ all[n + 1] = Id(part, at)
        /\ \A i \in 1 .. n : all[i] = accepted[i]
    <3>1. /\ all \in Seq(Nat \X Nat) /\ Len(all) = n + 1
          /\ \A i \in 1 .. n : all[i] = accepted[i]
          /\ all[n + 1] = Id(part, at)
      BY <1>2, <2>1, <2>3, <2>4, <2>5, AppendProperties
    <3> QED BY <3>1, LenProperties
  <2>7. \A i \in 1 .. n + 1 : i = n + 1 \/ i \in 1 .. n
    BY <2>4
  <2>8. \A i \in DOMAIN all :
          /\ all[i][1] \in DOMAIN job.parts /\ all[i][2] \in Nat \ {0}
          /\ ~Refused(job.parts[all[i][1]])
    <3> SUFFICES ASSUME NEW i \in DOMAIN all
                 PROVE  /\ all[i][1] \in DOMAIN job.parts /\ all[i][2] \in Nat \ {0}
                        /\ ~Refused(job.parts[all[i][1]])
      OBVIOUS
    <3>1. CASE i = n + 1
      BY <2>1, <2>2, <2>3, <2>6, <3>1
    <3>2. CASE i \in 1 .. n
      BY <2>4, <2>6, <3>2 DEF TakenIsSound
    <3> QED BY <2>6, <2>7, <3>1, <3>2
  <2> QED BY <1>2, <2>5, <2>8 DEF TakenIsSound, Refused
<1>3. CASE SendNext
  <2>1. CASE Deliver
    BY <1>2, <2>1 DEF Deliver, PartEnds
  <2>2. CASE Lose
    BY <1>2, <2>2 DEF Lose, PartEnds
  <2>3. CASE Refuse
    BY <1>1, <2>3 DEF Refuse, AfterRefusal, PartEnds
  <2>4. CASE Planned
    BY <1>1, <2>4 DEF Planned, PartEnds
  <2>5. ASSUME NEW fails \in BOOLEAN, Publish(fails) PROVE TakenIsSound'
    BY <1>1, <2>5 DEF Publish, PartEnds
  <2> QED BY <1>3, <2>1, <2>2, <2>3, <2>4, <2>5 DEF SendNext
<1>4. CASE UNCHANGED sendVars
  BY <1>1, <1>4 DEF sendVars
<1> QED BY <1>3, <1>4

\* No packet of a plan is one that the check before the call refuses, the plan
\* says all of the message in its order and nothing twice, a message that cannot
\* be sent as a whole is not begun, and it quotes and mentions once.
THEOREM PacketsAreTaken == SendSpec => []PacketsAreAcceptable
<1>1. SendInit => SendInv /\ TakenIsSound
  <2>1. SendInit => TakenIsSound
    BY DEF SendInit, TakenIsSound
  <2> QED BY <2>1, SendInitInv
<1>2. SendInv /\ TakenIsSound /\ [SendNext]_sendVars => SendInv' /\ TakenIsSound'
  BY SendStepInv, TakenStaysSound
<1>3. SendInv /\ TakenIsSound => PacketsAreAcceptable
  <2> SUFFICES ASSUME SendInv, TakenIsSound PROVE PacketsAreAcceptable
    OBVIOUS
  <2>1. SendTypes /\ Progress /\ InFlight /\ DeliveredIsPrefix
    BY DEF SendInv
  <2>2. ASSUME stage = "send"
        PROVE  /\ at \in DOMAIN Plan(Intent) /\ Acceptable(Packet, Quotes(Intent, at))
               /\ Apart(Packet.body) /\ SaysAll(Intent, Plan(Intent))
    <3>1. ~Refused(Intent) /\ at <= Len(Plan(Intent)) /\ at \in Nat \ {0}
      BY <2>1, <2>2 DEF Progress, SendTypes
    <3>2. Served(Intent) /\ Len(Plan(Intent)) \in Nat \ {0}
      BY <2>2, <3>1, PartIsServed
    <3>3. at \in 1 .. Len(Plan(Intent))
      BY <3>1, <3>2
    <3>4. DOMAIN Plan(Intent) = 1 .. Len(Plan(Intent)) /\ SaysAll(Intent, Plan(Intent))
          /\ Acceptable(Packet, Quotes(Intent, at))
      BY <3>2, <3>3 DEF Served, Packet
    <3>5. Apart(Packet.body)
      BY <3>3, <3>4 DEF SaysAll, Packet
    <3> QED BY <3>3, <3>4, <3>5
  <2>3. PlanIsAcceptable
    BY <2>2 DEF PlanIsAcceptable
  <2>4. PlanIsComplete
    <3> SUFFICES ASSUME stage = "send" PROVE PlanIsComplete
      BY DEF PlanIsComplete
    <3>1. PICK packets : packets = Plan(Intent)
      OBVIOUS
    <3>2. PICK held : held = [k \in DOMAIN packets |-> Held(packets[k].body)]
      OBVIOUS
    <3>3. SaysAll(Intent, packets)
      BY <2>2, <3>1
    <3>4. \A k \in DOMAIN packets : held[k] = Held(packets[k].body)
      BY <3>2
    <3>5. UNION {held[k] : k \in DOMAIN packets} = Content(Intent)
      BY <3>3, <3>4 DEF SaysAll
    <3>6. \A k, l \in DOMAIN packets :
            k < l => \A i \in held[k], j \in held[l] : Before(Intent, i, j)
      BY <3>3, <3>4 DEF SaysAll
    <3>7. \A k \in DOMAIN packets : \A x, y \in packets[k].body :
            x # y => x.of \cap y.of = {}
      BY <3>3 DEF SaysAll, Apart
    <3> QED BY <3>1, <3>2, <3>3, <3>5, <3>6, <3>7 DEF PlanIsComplete, SaysAll
  <2>5. NothingOfUnusable
    BY DEF TakenIsSound, NothingOfUnusable, IntentOf, Refused, Unusable
  <2>6. QuotedAndMentionedOnce
    <3>1. ASSUME NEW i \in DOMAIN accepted, NEW j \in DOMAIN accepted,
                 accepted[i][1] = accepted[j][1],
                 Quotes(IntentOf(accepted[i]), accepted[i][2]) > 0,
                 Quotes(IntentOf(accepted[j]), accepted[j][2]) > 0
          PROVE  i = j
      <4>1. /\ accepted[i][1] \in Nat /\ accepted[i][2] \in Nat \ {0}
            /\ accepted[j][1] \in Nat /\ accepted[j][2] \in Nat \ {0}
        <5>1. accepted \in Seq(Nat \X Nat) /\ 0 \in Nat
          BY <2>1 DEF SendTypes
        <5> QED BY <5>1, PlacesOfPackets DEF TakenIsSound
      <4>2. ~(accepted[i][2] > 1) /\ ~(accepted[j][2] > 1)
        BY <3>1 DEF Quotes
      <4>3. accepted[i][2] = 1 /\ accepted[j][2] = 1
        BY <4>1, <4>2
      <4>4. ~Precedes(accepted[i], accepted[j]) /\ ~Precedes(accepted[j], accepted[i])
        BY <3>1, <4>1, <4>3 DEF Precedes
      <4>5. i \in Nat /\ j \in Nat /\ i >= 1 /\ j >= 1
        <5>1. PICK n \in Nat : DOMAIN accepted = 1 .. n
          BY <2>1, LenProperties DEF SendTypes
        <5> QED BY <5>1
      <4>6. i \notin 1 .. j - 1 /\ j \notin 1 .. i - 1
        BY <2>1, <4>4 DEF DeliveredIsPrefix
      <4> QED BY <4>5, <4>6
    <3> QED BY <2>2, <3>1 DEF QuotedAndMentionedOnce, Apart
  <2> QED BY <2>3, <2>4, <2>5, <2>6 DEF PacketsAreAcceptable
<1> QED BY <1>1, <1>2, <1>3, PTL DEF SendSpec
=============================================================================
