----------------------------- MODULE MCDashboard -----------------------------
(* The session tracker, part by part: in a behaviour one of them moves and    *)
(* the others keep to their first state.                                      *)
(* Terminals: a second terminal; or a second connection to the first one, and *)
(* a shell that goes on without its tty.                                      *)
EXTENDS TerminalSessions, TerminalView, SessionStream, DisplayHooks

CONSTANTS t1, t2, w1, w2

MCViewOf == [w \in Sockets |-> t1]

VARIABLE moves

allVars == <<vars, viewVars, streamVars, hookVars, moves>>

MCInit ==
  /\ moves \in {"sessions", "view", "stream", "hooks"}
  /\ Init /\ ViewInit /\ StreamInit /\ HookInit
  /\ moves # "view" => mobile

OneSocketOrTerminal ==
  proc'[t2] # "none" =>
    /\ socket'[w2] = "new"
    /\ \A t \in Terminals : proc'[t] # "detached"

MCNext ==
  /\ UNCHANGED moves
  /\ \/ /\ moves = "sessions" /\ Next /\ OneSocketOrTerminal
        /\ UNCHANGED <<viewVars, streamVars, hookVars>>
     \/ /\ moves = "view" /\ ViewNext
        /\ UNCHANGED <<vars, streamVars, hookVars>>
     \/ /\ moves = "stream" /\ StreamNext
        /\ UNCHANGED <<vars, viewVars, hookVars>>
     \/ /\ moves = "hooks" /\ HookNext
        /\ UNCHANGED <<vars, viewVars, streamVars>>

(* Nothing of what fairness speaks about is enabled where a part starts, so it *)
(* says nothing of a part that does not move.                                  *)
MCSpec ==
  MCInit /\ [][MCNext]_allVars /\ Fairness /\ ViewFairness /\ StreamFairness

(* Both pages of the tracker catch up with the gateway, whatever failed on    *)
(* the way (sessiontracker.py:1882-2100, 2700-2790).                          *)
PagesCatchUp == ViewCatchesUp /\ PageCatchesUp
=============================================================================
