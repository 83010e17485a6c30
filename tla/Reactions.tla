----------------------------- MODULE Reactions -----------------------------
(***************************************************************************)
(* The processing reaction ("thinking" emoji) of hermes_infoflow:          *)
(* ReactionController (reactions.py) and its callers in bot.py.            *)
(*                                                                         *)
(* An agent run starts with a marker request on its inbound message (the   *)
(* anchor).  A scope (one group, or one DM peer) has at most one current   *)
(* run; starting another run supersedes it.  Every API call is a           *)
(* background task, so additions and deletions reach the platform in any   *)
(* order.  A marker on the platform is a property of the message: adding   *)
(* is idempotent and a deletion removes it whoever put it there.           *)
(***************************************************************************)
EXTENDS Naturals, FiniteSets

CONSTANTS
  Runs,      \* the calls of start(): one ReactionRunToken each
  Scopes,    \* scope keys ("group:<id>", "dm:<user>")
  Anchors,   \* inbound message ids
  ScopeOf,   \* the scope of a run's handle
  AnchorOf,  \* the message a run's handle points at (base_msg_id)
  NoRun, NoScope, NoAnchor,
  Faults     \* the platform faults a model allows, a subset of AllFaults

AllFaults == {"add_rejected", "add_reply_lost", "delete_failed"}

ASSUME RunAssumption ==
  /\ ScopeOf \in [Runs -> Scopes]
  /\ AnchorOf \in [Runs -> Anchors]
  /\ NoRun \notin Runs
  /\ NoScope \notin Scopes
  /\ NoAnchor \notin Anchors
  /\ Faults \subseteq AllFaults

\* A message lives in one chat, so its runs share a scope.
ASSUME AnchorAssumption ==
  \A r1, r2 \in Runs : AnchorOf[r1] = AnchorOf[r2] => ScopeOf[r1] = ScopeOf[r2]

VARIABLES
  states,        \* _states: the current run of each scope
  generations,   \* _generations: runs started so far in each scope
  gen,           \* the generation of each run, 0 before its start()
  anchorToScope, \* _anchor_to_scope
  visible,       \* runs whose ThinkingState is visible and has a handle
  stale,         \* runs whose token is stale
  finished,      \* runs whose token is finished
  add,           \* the _add_for_token task of each run
  deletes,       \* <<run, reason>> of every _delete_handle task scheduled
  deleted,       \* those of them whose API call has returned
  dispatching,   \* runs whose dispatch_inbound has not returned
  timers,        \* runs with an armed fallback cleanup task
  marks,         \* the platform: messages that show the marker
  leaked         \* history: messages a platform fault left marked

vars == <<states, generations, gen, anchorToScope, visible, stale, finished,
          add, deletes, deleted, dispatching, timers, marks, leaked>>

AddPhases == {"idle", "scheduled", "landed", "failed", "done"}
Reasons == {"superseded", "superseded_race", "finished"}

TypeOK ==
  /\ states \in [Scopes -> Runs \cup {NoRun}]
  /\ generations \in [Scopes -> Nat]
  /\ gen \in [Runs -> Nat]
  /\ anchorToScope \in [Anchors -> Scopes \cup {NoScope}]
  /\ visible \subseteq Runs
  /\ stale \subseteq Runs
  /\ finished \subseteq Runs
  /\ add \in [Runs -> AddPhases]
  /\ deletes \subseteq Runs \X Reasons
  /\ deleted \subseteq deletes
  /\ dispatching \subseteq Runs
  /\ timers \subseteq Runs
  /\ marks \subseteq Anchors
  /\ leaked \subseteq Anchors

Init ==
  /\ states = [s \in Scopes |-> NoRun]
  /\ generations = [s \in Scopes |-> 0]
  /\ gen = [r \in Runs |-> 0]
  /\ anchorToScope = [a \in Anchors |-> NoScope]
  /\ visible = {} /\ stale = {} /\ finished = {}
  /\ add = [r \in Runs |-> "idle"]
  /\ deletes = {} /\ deleted = {}
  /\ dispatching = {} /\ timers = {}
  /\ marks = {} /\ leaked = {}

Started(r) == gen[r] > 0
IsOwner(r) == states[ScopeOf[r]] = r

-----------------------------------------------------------------------------
(* ReactionController.start, called by dispatch_inbound *)

\* The index once the entry of the superseded run p is gone.
Unindexed(p) ==
  [a \in Anchors |->
     IF p \in Runs /\ a = AnchorOf[p] /\ anchorToScope[a] = ScopeOf[p]
     THEN NoScope ELSE anchorToScope[a]]

\* The superseded run p is deleted here only if its add has already returned.
SupersededHandles(p) == {p} \cap visible

Start(r) ==
  /\ ~Started(r)
  /\ LET s == ScopeOf[r]
         previous == states[s]
     IN  /\ generations' = [generations EXCEPT ![s] = @ + 1]
         /\ gen' = [gen EXCEPT ![r] = generations[s] + 1]
         /\ states' = [states EXCEPT ![s] = r]
         /\ anchorToScope' = [Unindexed(previous) EXCEPT ![AnchorOf[r]] = s]
         /\ stale' = stale \cup ({previous} \cap Runs)
         /\ visible' = visible \ {previous}
         /\ deletes' = deletes \cup (SupersededHandles(previous) \X {"superseded"})
  /\ add' = [add EXCEPT ![r] = "scheduled"]
  /\ dispatching' = dispatching \cup {r}
  /\ UNCHANGED <<finished, deleted, timers, marks, leaked>>

-----------------------------------------------------------------------------
(* The _add_for_token task: the call reaches the platform, then returns *)

AddLands(r) ==
  /\ add[r] = "scheduled"
  /\ \/ /\ add' = [add EXCEPT ![r] = "landed"]
        /\ marks' = marks \cup {AnchorOf[r]}
        /\ UNCHANGED leaked
     \/ /\ "add_rejected" \in Faults
        /\ add' = [add EXCEPT ![r] = "failed"]
        /\ UNCHANGED <<marks, leaked>>
     \/ /\ "add_reply_lost" \in Faults
        /\ add' = [add EXCEPT ![r] = "failed"]
        /\ marks' = marks \cup {AnchorOf[r]}
        /\ leaked' = leaked \cup {AnchorOf[r]}
  /\ UNCHANGED <<states, generations, gen, anchorToScope, visible, stale,
                 finished, deletes, deleted, dispatching, timers>>

\* The run an add comes back to is still the current, unfinished one.
StillCurrent_Unchecked(r) == TRUE
StillCurrent(r) == IsOwner(r) /\ r \notin finished

Added(r) == add[r] = "landed"

AddReturns(r) ==
  /\ add[r] \in {"landed", "failed"}
  /\ add' = [add EXCEPT ![r] = "done"]
  /\ \/ /\ StillCurrent(r)
        /\ visible' = IF Added(r) THEN visible \cup {r} ELSE visible \ {r}
        /\ UNCHANGED <<stale, deletes>>
     \/ /\ ~StillCurrent(r)
        /\ visible' = visible \ {r}
        /\ stale' = stale \cup {r}
        /\ deletes' = IF Added(r) THEN deletes \cup {<<r, "superseded_race">>}
                      ELSE deletes
  /\ UNCHANGED <<states, generations, gen, anchorToScope, finished, deleted,
                 dispatching, timers, marks, leaked>>

\* A _delete_handle task: its result is never looked at.
DeleteReturns(d) ==
  /\ d \in deletes \ deleted
  /\ deleted' = deleted \cup {d}
  /\ \/ /\ marks' = marks \ {AnchorOf[d[1]]}
        /\ UNCHANGED leaked
     \/ /\ "delete_failed" \in Faults
        /\ leaked' = leaked \cup {AnchorOf[d[1]]}
        /\ UNCHANGED marks
  /\ UNCHANGED <<states, generations, gen, anchorToScope, visible, stale,
                 finished, add, deletes, dispatching, timers>>

-----------------------------------------------------------------------------
(* ReactionController.finish and bot._finish_reaction_token, for the tokens *)
(* in F one after the other (nothing in finish awaits)                      *)

Closing_AnyOwner(F) == {states[ScopeOf[r]] : r \in F \ finished} \cap Runs
Closing(F) == {r \in F \ finished : IsOwner(r)}

FinishTokens(F) ==
  /\ finished' = finished \cup F
  /\ stale' = stale \cup ((F \ finished) \ Closing(F))
  /\ states' = [s \in Scopes |->
                  IF states[s] \in Closing(F) THEN NoRun ELSE states[s]]
  /\ anchorToScope' =
       [a \in Anchors |->
          IF \E r \in Closing(F) : a = AnchorOf[r] /\ anchorToScope[a] = ScopeOf[r]
          THEN NoScope ELSE anchorToScope[a]]
  /\ deletes' = deletes \cup ((Closing(F) \cap visible) \X {"finished"})
  /\ visible' = visible \ Closing(F)
  /\ timers' = timers \ F
  /\ UNCHANGED <<generations, gen, add, deleted, marks, leaked>>

\* token_by_anchor: with a target scope the state must carry the anchor;
\* without one the index names the scope and its token is taken as it is.
TokenByAnchor(a, target) ==
  LET s == IF target # NoScope THEN target
           ELSE IF a # NoAnchor THEN anchorToScope[a] ELSE NoScope
  IN  {r \in Runs : /\ a # NoAnchor /\ s # NoScope
                    /\ states[s] = r
                    /\ target # NoScope => AnchorOf[r] = a}

\* The tokens _finish_reaction_for_send_target finishes: the contextvar's
\* token when it belongs to the target, then, if that one was stale or
\* belongs elsewhere, the current token of the message replied to.
SendTokens(cv, target, a) ==
  LET mine == IF cv # NoRun /\ (target = NoScope \/ ScopeOf[cv] = target)
              THEN {cv} ELSE {}
      staleAfter == cv \in stale \/ (cv \notin finished /\ ~IsOwner(cv))
  IN  IF mine # {} /\ ~staleAfter THEN mine
      ELSE mine \cup TokenByAnchor(a, target)

\* A send to any target, replying to any message or to none.
SentTokens ==
  {SendTokens(cv, target, a) : cv \in {r \in Runs : Started(r)} \cup {NoRun},
                               target \in Scopes \cup {NoScope},
                               a \in Anchors \cup {NoAnchor}}

SendFinishes(F) ==
  /\ FinishTokens(F)
  /\ UNCHANGED dispatching

\* adapter._finish_busy_steer_reaction_for_event: a remembered token
FinishKnownToken(r) ==
  /\ Started(r)
  /\ FinishTokens({r})
  /\ UNCHANGED dispatching

\* dispatch_inbound: handle_message raised or was cancelled ...
DispatchFails(r) ==
  /\ r \in dispatching
  /\ dispatching' = dispatching \ {r}
  /\ FinishTokens({r})

\* ... or returned: an unfinished run gets its fallback cleanup.
DispatchReturns_NoCleanup(r) ==
  /\ r \in dispatching
  /\ dispatching' = dispatching \ {r}
  /\ UNCHANGED <<states, generations, gen, anchorToScope, visible, stale,
                 finished, add, deletes, deleted, timers, marks, leaked>>

DispatchReturns(r) ==
  /\ r \in dispatching
  /\ dispatching' = dispatching \ {r}
  /\ timers' = IF r \in finished THEN timers ELSE timers \cup {r}
  /\ UNCHANGED <<states, generations, gen, anchorToScope, visible, stale,
                 finished, add, deletes, deleted, marks, leaked>>

\* _cleanup_reaction_after_timeout
CleanupFires(r) ==
  /\ r \in timers
  /\ FinishTokens({r})
  /\ UNCHANGED dispatching

-----------------------------------------------------------------------------
Next ==
  \/ \E r \in Runs : \/ Start(r) \/ AddLands(r) \/ AddReturns(r)
                     \/ FinishKnownToken(r)
                     \/ DispatchFails(r) \/ DispatchReturns(r)
                     \/ CleanupFires(r)
  \/ \E d \in deletes : DeleteReturns(d)
  \/ \E F \in SentTokens : SendFinishes(F)

\* Scheduled tasks run, API calls return, dispatches end and timers fire;
\* nothing obliges an agent run to send or to complete.
Fairness ==
  /\ \A r \in Runs :
       /\ WF_vars(AddLands(r))
       /\ WF_vars(AddReturns(r))
       /\ WF_vars(DispatchFails(r) \/ DispatchReturns(r))
       /\ WF_vars(CleanupFires(r))
  /\ \A d \in Runs \X Reasons : WF_vars(DeleteReturns(d))

Spec == Init /\ [][Next]_vars
FairSpec == Spec /\ Fairness

-----------------------------------------------------------------------------
(* Properties *)

\* A marker on a message is always somebody's: a run whose add is on its way
\* back, the visible current run of a scope, a deletion still to be made, or
\* a message a platform fault has left marked.  start, finish and
\* _add_for_token together lose no marker (reactions.py:100-214).
NoOrphanMarker ==
  \A a \in marks :
    \/ a \in leaked
    \/ \E r \in Runs :
         /\ AnchorOf[r] = a
         /\ \/ add[r] = "landed"
            \/ IsOwner(r) /\ r \in visible
            \/ \E why \in Reasons : <<r, why>> \in deletes \ deleted

\* Superseding, finishing and the late-add path never both delete the marker
\* of the same run: whichever comes first takes the handle.
OneDeletePerRun ==
  \A r \in Runs, w1, w2 \in Reasons :
    <<r, w1>> \in deletes /\ <<r, w2>> \in deletes => w1 = w2

\* The anchor index names a scope exactly when the current run of that scope
\* is anchored there: token_by_anchor and finish_by_anchor without a scope
\* take the run of the indexed scope unseen (reactions.py:88-95, 229-241).
AnchorIndexExact ==
  \A a \in Anchors, s \in Scopes :
    anchorToScope[a] = s <=> states[s] # NoRun /\ AnchorOf[states[s]] = a

\* The platform shows the marker of every run the controller holds visible.
VisibleIsShown ==
  \A r \in visible : AnchorOf[r] \in marks

\* The controller and the platform stay in step: every marker is accounted for
\* and is deleted once, what is held visible is shown, and the index leads to
\* the run that stands there (reactions.py:100-241).
MarkersInStep ==
  TypeOK /\ NoOrphanMarker /\ OneDeletePerRun /\ AnchorIndexExact /\ VisibleIsShown

\* reactions.py:4-5: "Older runs may finish later, but they are never allowed
\* to delete a newer run's marker."  A step that takes a marker off a message
\* takes none from the newest run of the scope while that run is unfinished.
NewerMarkerSurvives ==
  [][\A r \in Runs :
       /\ AnchorOf[r] \in marks \ marks'
       /\ add[r] = "done"
       /\ gen[r] = generations[ScopeOf[r]]
       => r \in finished]_vars

\* However a run ends - a reply, processing_complete, an error, nothing at
\* all for ten minutes - its marker is in the end gone for good, unless a
\* platform fault left it.
MarkerEventuallyCleared ==
  \A r \in Runs : <>[](AnchorOf[r] \notin marks \ leaked)

=============================================================================
