---------------------------- MODULE SingleFlight ----------------------------
(***************************************************************************)
(* What hermes_infoflow promises of a shared remote fetch, whether it gets *)
(* the access token (api.py:323-400) or a group's members                  *)
(* (serverapi.py:2438-2556): at most one runs at a time, whoever asks in   *)
(* the meantime joins it, and its end, good or bad, releases all of them.  *)
(***************************************************************************)
CONSTANTS Clients, Fetches

VARIABLES
  flying, \* the fetches that run
  want    \* what each client is doing

sfVars == <<flying, want>>

SFTypeOK ==
  /\ flying \subseteq Fetches
  /\ want \in [Clients -> {"idle", "asking", "served"}]

SFInit == flying = {} /\ want = [c \in Clients |-> "idle"]

Becomes(c, w) == want' = [want EXCEPT ![c] = w]

\* Answered from memory.
Recall(c) == want[c] = "idle" /\ Becomes(c, "served") /\ UNCHANGED flying

Join(c) ==
  /\ want[c] = "idle" /\ flying # {}
  /\ Becomes(c, "asking")
  /\ UNCHANGED flying

Begin(c) ==
  /\ want[c] = "idle" /\ flying = {}
  /\ Becomes(c, "asking")
  /\ \E f \in Fetches : flying' = {f}

Finish ==
  /\ flying # {} /\ flying' = {}
  /\ want' = [c \in Clients |-> IF want[c] = "asking" THEN "served" ELSE want[c]]

\* A client that asks is cancelled.
GiveUp(c) ==
  /\ want[c] = "asking"
  /\ \E w \in {"idle", "served"} : Becomes(c, w)
  /\ UNCHANGED flying

Leave(c) == want[c] = "served" /\ Becomes(c, "idle") /\ UNCHANGED flying

SFNext ==
  \/ \E c \in Clients : Recall(c) \/ Join(c) \/ Begin(c) \/ GiveUp(c) \/ Leave(c)
  \/ Finish

SFSpec == SFInit /\ [][SFNext]_sfVars
=============================================================================
