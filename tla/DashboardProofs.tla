--------------------------- MODULE DashboardProofs ---------------------------
(***************************************************************************)
(* Proofs about the session tracker: what a turn leaves on the page, the   *)
(* terminals and their descriptors, and the streams the pages read.        *)
(***************************************************************************)
EXTENDS TerminalSessions, TerminalView, SessionStream, DisplayHooks,
        FiniteSetTheorems, SequenceTheorems, WellFoundedInduction, TLAPS

-----------------------------------------------------------------------------
(***************************************************************************)
(* The hooks of a turn.  The text of a call has no box before it is shown, *)
(* an open one while it is streamed, and a finished one afterwards.        *)
(***************************************************************************)

FinishedBox(c) == \E b \in boxes : b.text = c /\ b.finished
NoBox(c) == \A b \in boxes : b.text # c

BoxesTyped ==
  /\ call \in Calls /\ phase \in {"open", "streaming", "sealed", "tools", "over"}
  /\ streamState \in Streams \cup {NoStream} /\ lastStreamed \in Calls \cup {NoStream}
  /\ boxes \subseteq Box
OneBoxPerText == \A b, d \in boxes : b.text = d.text => b = d
BoxesOfCalls ==
  /\ \A c \in Calls : c < call => FinishedBox(c)
  /\ \A c \in Calls : c > call => NoBox(c)
  /\ phase = "open" => NoBox(call) /\ lastStreamed # call
  /\ phase \in {"sealed", "tools", "over"} => FinishedBox(call)
  /\ phase = "over" => call = LastCall
  /\ phase = "tools" => call < LastCall
StreamOfCall ==
  /\ streamState = (IF phase = "streaming" THEN call ELSE NoStream)
  /\ phase = "sealed" => lastStreamed = call
  /\ lastStreamed \in Calls => lastStreamed <= call
  /\ \A b \in boxes : b.finished \/ (phase = "streaming" /\ b.text = call /\ b.stream = call)
  /\ phase = "streaming" => \A b \in boxes : b.text = call => ~b.finished
LinesOfTools ==
  /\ started \subseteq Tools /\ toolAt \in [Tools -> Where] /\ toolLines \in [Tools -> 0..3]
  /\ \A t \in Tools :
       /\ toolLines[t] = (IF toolAt[t] = "none" THEN 0 ELSE 1)
       /\ t \in started <=> toolAt[t] \in {"start", "post"}
HookInv == BoxesTyped /\ OneBoxPerText /\ BoxesOfCalls /\ StreamOfCall /\ LinesOfTools

LEMMA CallsAreNumbers ==
  /\ \A c \in Calls : c \in Nat /\ c >= 1 /\ (\A d \in Nat : d >= 1 /\ d <= c => d \in Calls)
  /\ 1 \in Calls /\ NoStream \notin Calls
  /\ LastCall \in Calls /\ \A d \in Calls : d <= LastCall
<1>1. PICK n \in Nat : n = Cardinality(Calls)
  BY CallsAssumption, FS_CardinalityType
<1>2. Calls = 1..n /\ n >= 1 /\ n \in Calls /\ \A d \in Calls : d <= n
  BY <1>1, CallsAssumption
<1>3. LastCall \in Calls /\ \A d \in Calls : d <= LastCall
  BY <1>2 DEF LastCall
<1> QED BY <1>2, <1>3, CallsAssumption

LEMMA HookInitHolds == HookInit => HookInv
<1> SUFFICES ASSUME HookInit PROVE HookInv
  OBVIOUS
<1> USE DEF HookInit
<1>1. BoxesTyped /\ OneBoxPerText
  BY CallsAreNumbers DEF BoxesTyped, OneBoxPerText
<1>2. BoxesOfCalls
  BY CallsAreNumbers DEF BoxesOfCalls, NoBox, FinishedBox
<1>3. StreamOfCall
  BY CallsAreNumbers DEF StreamOfCall
<1>4. LinesOfTools
  BY DEF LinesOfTools, Where
<1> QED BY <1>1, <1>2, <1>3, <1>4 DEF HookInv

\* A text is rendered: the boxes of the other calls stay as they are.
LEMMA RenderedBoxes ==
  ASSUME HookInv, NEW b \in Box, b.text = call, phase \in {"open", "streaming"},
         \/ boxes' = (boxes \ OpenBox(call)) \cup {b}
         \/ phase = "open" /\ boxes' = boxes \cup {b}
  PROVE  /\ boxes' \subseteq Box /\ OneBoxPerText'
         /\ b \in boxes' /\ \A d \in boxes' : d.text = call => d = b
         /\ \A d : d.text # call => (d \in boxes' <=> d \in boxes)
<1>1. \A d \in boxes : d.text = call => phase = "streaming" /\ d \in OpenBox(call)
  BY DEF HookInv, BoxesOfCalls, NoBox, StreamOfCall, OpenBox
<1>2. \A d \in OpenBox(call) : d.text = call
  BY DEF HookInv, StreamOfCall, OpenBox
<1>3. /\ b \in boxes' /\ \A d \in boxes' : d.text = call => d = b
      /\ \A d : d.text # call => (d \in boxes' <=> d \in boxes)
  BY <1>1, <1>2
<1>4. boxes' \subseteq Box /\ OneBoxPerText'
  BY <1>3 DEF HookInv, BoxesTyped, OneBoxPerText
<1> QED BY <1>3, <1>4

\* The hooks that show text.
LEMMA TextStep ==
  ASSUME HookInv, Delta \/ StreamFinal \/ Interim \/ PostLlmCall
  PROVE  HookInv'
<1>0. BoxesTyped /\ OneBoxPerText /\ BoxesOfCalls /\ StreamOfCall /\ LinesOfTools
  BY DEF HookInv
<1>1. UNCHANGED <<call, started, toolAt, toolLines>>
  BY DEF Delta, StreamFinal, Interim, PostLlmCall
<1>2. LinesOfTools'
  BY <1>0, <1>1 DEF LinesOfTools
<1>3. call \in Calls /\ call \in Nat /\ \A c \in Calls : c \in Nat
  BY <1>0, CallsAreNumbers DEF BoxesTyped
<1>4. /\ phase = "open" => streamState = NoStream /\ lastStreamed # call
      /\ phase = "streaming" => streamState = call
      /\ phase = "sealed" => streamState = NoStream /\ lastStreamed = call
      /\ call # NoStream
  BY <1>0, <1>3, CallsAreNumbers DEF StreamOfCall, BoxesOfCalls
<1>5. CASE /\ phase = "sealed" /\ UNCHANGED boxes /\ streamState' = NoStream
           /\ \/ phase' = "tools" /\ call < LastCall /\ UNCHANGED lastStreamed
              \/ phase' = "over" /\ lastStreamed' = NoStream /\ call = LastCall
  <2>1. FinishedBox(call)
    BY <1>0, <1>5 DEF BoxesOfCalls
  <2>2. BoxesTyped' /\ OneBoxPerText'
    BY <1>0, <1>1, <1>5 DEF BoxesTyped, OneBoxPerText
  <2>3. BoxesOfCalls'
    BY <1>0, <1>1, <1>5, <2>1 DEF BoxesOfCalls, FinishedBox, NoBox
  <2>4. StreamOfCall'
    BY <1>0, <1>1, <1>5, CallsAreNumbers DEF StreamOfCall
  <2> QED BY <1>2, <2>2, <2>3, <2>4 DEF HookInv
<1>6. ASSUME NEW b \in Box, b.text = call, phase \in {"open", "streaming"},
             \/ boxes' = (boxes \ OpenBox(call)) \cup {b}
             \/ phase = "open" /\ boxes' = boxes \cup {b},
             \/ /\ ~b.finished /\ b.stream = call
                /\ phase' = "streaming" /\ streamState' = call /\ UNCHANGED lastStreamed
             \/ /\ b.finished /\ phase' = "sealed" /\ streamState' = NoStream /\ lastStreamed' = call
             \/ /\ b.finished /\ phase' = "tools" /\ call < LastCall
                /\ streamState' = NoStream /\ UNCHANGED lastStreamed
             \/ /\ b.finished /\ phase' = "over" /\ call = LastCall
                /\ streamState' = NoStream /\ lastStreamed' = NoStream
      PROVE  HookInv'
  <2>1. /\ boxes' \subseteq Box /\ OneBoxPerText'
        /\ b \in boxes' /\ \A d \in boxes' : d.text = call => d = b
        /\ \A d : d.text # call => (d \in boxes' <=> d \in boxes)
    BY <1>6, RenderedBoxes
  <2>2. BoxesTyped'
    BY <1>0, <1>1, <1>6, <2>1 DEF BoxesTyped, Streams
  <2>3. /\ \A c \in Calls : c < call => FinishedBox(c)'
        /\ \A c \in Calls : c > call => NoBox(c)'
    BY <1>0, <1>3, <2>1 DEF BoxesOfCalls, FinishedBox, NoBox
  <2>4. BoxesOfCalls'
    BY <1>1, <1>6, <2>1, <2>3 DEF BoxesOfCalls, FinishedBox
  <2>5. \A d \in boxes' : d = b \/ d.finished
    BY <1>0, <2>1 DEF StreamOfCall
  <2>6. lastStreamed' \in Calls => lastStreamed' <= call
    BY <1>0, <1>3, <1>6, CallsAreNumbers DEF StreamOfCall
  <2>7. StreamOfCall'
    BY <1>1, <1>6, <2>1, <2>5, <2>6 DEF StreamOfCall
  <2> QED BY <1>2, <2>1, <2>2, <2>4, <2>7 DEF HookInv
<1>7. /\ [text |-> call, stream |-> call, finished |-> FALSE] \in Box
      /\ [text |-> call, stream |-> call, finished |-> TRUE] \in Box
      /\ [text |-> call, stream |-> NoStream, finished |-> TRUE] \in Box
  BY <1>3 DEF Box, Streams
<1>8. CASE Delta
  <2>1. PICK b : b = [text |-> call, stream |-> call, finished |-> FALSE]
    OBVIOUS
  <2>2. b.text = call /\ ~b.finished /\ b.stream = call
    BY <2>1
  <2>3. /\ phase \in {"open", "streaming"} /\ boxes' = (boxes \ OpenBox(call)) \cup {b}
        /\ phase' = "streaming" /\ streamState' = call /\ UNCHANGED lastStreamed
    BY <1>8, <2>1 DEF Delta, RenderStream
  <2> QED BY <1>6, <1>7, <2>1, <2>2, <2>3
<1>9. CASE StreamFinal
  <2>1. PICK b : b = [text |-> call, stream |-> call, finished |-> TRUE]
    OBVIOUS
  <2>2. b.text = call /\ b.finished
    BY <2>1
  <2>3. /\ phase = "streaming" /\ boxes' = (boxes \ OpenBox(call)) \cup {b}
        /\ phase' = "sealed" /\ streamState' = NoStream /\ lastStreamed' = call
    BY <1>9, <2>1 DEF StreamFinal, RenderStream
  <2> QED BY <1>6, <1>7, <2>1, <2>2, <2>3
<1>10. CASE phase = "open" /\ (Interim \/ PostLlmCall)
  <2>1. PICK b : b = [text |-> call, stream |-> NoStream, finished |-> TRUE]
    OBVIOUS
  <2>2. b.text = call /\ b.finished
    BY <2>1
  <2>3. /\ boxes' = boxes \cup {b} /\ streamState' = NoStream
        /\ \/ phase' = "tools" /\ call < LastCall /\ UNCHANGED lastStreamed
           \/ phase' = "over" /\ lastStreamed' = NoStream /\ call = LastCall
    BY <1>4, <1>10, <2>1 DEF Interim, InterimShown, PostLlmCall, RenderText
  <2> QED BY <1>6, <1>7, <1>10, <2>1, <2>2, <2>3
<1>11. CASE phase = "streaming" /\ PostLlmCall
  <2>1. PICK b : b = [text |-> call, stream |-> call, finished |-> TRUE]
    OBVIOUS
  <2>2. b.text = call /\ b.finished
    BY <2>1
  <2>3. /\ boxes' = (boxes \ OpenBox(call)) \cup {b} /\ streamState' = NoStream
        /\ phase' = "over" /\ lastStreamed' = NoStream /\ call = LastCall
    BY <1>4, <1>11, <2>1 DEF PostLlmCall, RenderStream
  <2> QED BY <1>6, <1>7, <1>11, <2>1, <2>2, <2>3
<1>12. CASE phase = "sealed" /\ (Interim \/ PostLlmCall)
  <2>1. /\ UNCHANGED boxes /\ streamState' = NoStream
        /\ \/ phase' = "tools" /\ call < LastCall /\ UNCHANGED lastStreamed
           \/ phase' = "over" /\ lastStreamed' = NoStream /\ call = LastCall
    BY <1>4, <1>12 DEF Interim, InterimShown, PostLlmCall
  <2> QED BY <1>5, <1>12, <2>1
<1> QED BY <1>8, <1>9, <1>10, <1>11, <1>12 DEF Interim, PostLlmCall

LEMMA HookStep == HookInv /\ [HookNext]_hookVars => HookInv'
<1> SUFFICES ASSUME HookInv, [HookNext]_hookVars PROVE HookInv'
  OBVIOUS
<1>0. BoxesTyped /\ OneBoxPerText /\ BoxesOfCalls /\ StreamOfCall /\ LinesOfTools
  BY DEF HookInv
<1>1. CASE Delta \/ StreamFinal \/ Interim \/ PostLlmCall
  BY <1>1, TextStep
<1>2. CASE NextCall
  <2>1. /\ phase = "tools" /\ phase' = "open" /\ call' = call + 1
        /\ UNCHANGED <<streamState, lastStreamed, started, toolAt, boxes, toolLines>>
    BY <1>2 DEF NextCall
  <2>2. call \in Nat /\ FinishedBox(call) /\ \A c \in Calls : c \in Nat
    BY <1>0, <2>1, CallsAreNumbers DEF BoxesTyped, BoxesOfCalls
  <2>3. call' \in Calls
    <3>1. call < LastCall /\ LastCall \in Calls
      BY <1>0, <2>1, CallsAreNumbers DEF BoxesOfCalls
    <3> QED BY <2>1, <2>2, <3>1, CallsAreNumbers
  <2>4. BoxesTyped' /\ OneBoxPerText' /\ LinesOfTools'
    BY <1>0, <2>1, <2>3 DEF BoxesTyped, OneBoxPerText, LinesOfTools
  <2>5. NoBox(call') /\ lastStreamed # call'
    <3>1. NoBox(call')
      BY <1>0, <2>1, <2>2, <2>3 DEF BoxesOfCalls
    <3>2. lastStreamed # call'
      BY <1>0, <2>1, <2>2, <2>3 DEF StreamOfCall
    <3> QED BY <3>1, <3>2
  <2>6. BoxesOfCalls'
    <3>1. \A c \in Calls : c < call' => c < call \/ c = call
      BY <2>1, <2>2
    <3>2. \A c \in Calls : c > call' => c > call
      BY <2>1, <2>2
    <3> QED BY <1>0, <2>1, <2>2, <2>5, <3>1, <3>2 DEF BoxesOfCalls, FinishedBox, NoBox
  <2>7. StreamOfCall'
    BY <1>0, <2>1, <2>2 DEF StreamOfCall
  <2> QED BY <2>4, <2>6, <2>7 DEF HookInv
<1>3. ASSUME NEW t \in Tools, ProgressStart(t) \/ PostToolCall(t) \/ ProgressEnd(t)
      PROVE  HookInv'
  <2>1. UNCHANGED <<call, phase, streamState, lastStreamed, boxes>>
    BY <1>3 DEF ProgressStart, PostToolCall, ProgressEnd
  <2>2. BoxesTyped' /\ OneBoxPerText' /\ BoxesOfCalls' /\ StreamOfCall'
    BY <1>0, <2>1 DEF BoxesTyped, OneBoxPerText, BoxesOfCalls, FinishedBox, NoBox, StreamOfCall
  <2>3. LinesOfTools'
    BY <1>0, <1>3 DEF LinesOfTools, ProgressStart, PostToolCall, ProgressEnd, SuppressToolLine, Where
  <2> QED BY <2>2, <2>3 DEF HookInv
<1>4. CASE UNCHANGED hookVars
  BY <1>0, <1>4 DEF hookVars, HookInv, BoxesTyped, OneBoxPerText, BoxesOfCalls, FinishedBox, NoBox,
     StreamOfCall, LinesOfTools
<1> QED BY <1>1, <1>2, <1>3, <1>4 DEF HookNext

\* However many calls and tools a turn has, and whatever of its texts is streamed,
\* sealed or neither: each text and each tool is on the page once.
THEOREM TurnIsShownOnce == HookSpec => []ShownOnce
<1>1. HookInv => ShownOnce
  <2> SUFFICES ASSUME HookInv PROVE HookTypeOK /\ EachTextOnce /\ EachToolOnce
    BY DEF ShownOnce
  <2>1. HookTypeOK
    BY DEF HookInv, BoxesTyped, LinesOfTools, HookTypeOK
  <2>2. ASSUME NEW c \in Calls PROVE Cardinality({b \in boxes : b.text = c}) <= 1
    <3>1. CASE {b \in boxes : b.text = c} = {}
      BY <3>1, FS_EmptySet
    <3>2. CASE {b \in boxes : b.text = c} # {}
      <4>1. PICK b : {d \in boxes : d.text = c} = {b}
        BY <3>2 DEF HookInv, OneBoxPerText
      <4>2. Cardinality({b}) = 1
        BY FS_Singleton
      <4> QED BY <4>1, <4>2
    <3> QED BY <3>1, <3>2
  <2>3. phase = "over" => \A c \in Calls : \E b \in boxes : b.text = c /\ b.finished
    <3> SUFFICES ASSUME phase = "over", NEW c \in Calls PROVE FinishedBox(c)
      BY DEF FinishedBox
    <3>1. c < call \/ c = call
      BY CallsAreNumbers DEF HookInv, BoxesOfCalls
    <3> QED BY <3>1 DEF HookInv, BoxesOfCalls
  <2>4. EachToolOnce
    BY DEF HookInv, LinesOfTools, EachToolOnce
  <2> QED BY <2>1, <2>2, <2>3, <2>4 DEF EachTextOnce
<1> QED BY HookInitHolds, HookStep, <1>1, PTL DEF HookSpec
-----------------------------------------------------------------------------
(***************************************************************************)
(* The terminals.  A descriptor number names the PTY of at most one open   *)
(* terminal, and of no other; who closes a terminal takes its watchers     *)
(* over, so that each is told.                                             *)
(***************************************************************************)

ReaderStates == [at : {"none", "reading", "read", "sending", "exiting", "done"},
                 from : Terminals \cup {None}]
FinishStates == [at : {"no", "kill", "reap", "tell", "done"},
                 by : Sockets \cup {"http", "timer", "reader", "no"},
                 tell : SUBSET Sockets]

Registry ==
  \A t \in Terminals :
    /\ proc[t] = "none" => /\ t \notin registered /\ finish[t].at = "no"
                           /\ reader[t].at = "none" /\ timer[t] = NoTimer
    /\ proc[t] # "none" => fd[t] \in Fds /\ (t \in registered <=> finish[t].at = "no")
    /\ t \notin registered => subs[t] = {}

OpenWithFd(t) == t \in registered \/ finish[t].at = "kill"
Descriptors ==
  /\ \A t \in Terminals : OpenWithFd(t) => owner[fd[t]] = t
  /\ \A f \in Fds : owner[f] # None => fd[owner[f]] = f /\ OpenWithFd(owner[f])

Readers ==
  \A t \in Terminals :
    /\ reader[t].at \in {"reading", "read"} =>
         reader[t].from \in Terminals /\ (finish[t].at = "no" => reader[t].from = t)
    /\ finish[t].at \in {"tell", "done"} => reader[t].at = "done"

Attached(w, t) == ViewOf[w] = t /\ socket[w] \in {"greeting", "serving"}
Watchers ==
  \A t \in Terminals :
    /\ \A w \in Sockets : Attached(w, t) =>
         IF t \in registered THEN w \in subs[t] ELSE w \in finish[t].tell
    /\ finish[t].at \in {"no", "done"} => finish[t].tell = {}

\* A timer counts what the terminal has not been idle for.
Timers ==
  \A t \in registered :
    /\ subs[t] = {} <=> timer[t] # NoTimer
    /\ subs[t] = {} => idle[t] + timer[t] = Retention

TerminalInv ==
  TypeOK /\ Registry /\ Descriptors /\ Readers /\ OutputIsOwn /\ Watchers /\ Timers

LEMMA TerminalInitHolds == Init => TerminalInv
<1> SUFFICES ASSUME Init PROVE TerminalInv
  OBVIOUS
<1> USE RetentionPositive, NoneIsNothing DEF Init
<1>1. TypeOK
  BY DEF TypeOK, NoTimer
<1>2. Registry /\ Descriptors /\ Readers /\ OutputIsOwn /\ Timers
  BY DEF Registry, Descriptors, OpenWithFd, Readers, OutputIsOwn, Timers
<1>3. Watchers
  BY DEF Watchers, Attached
<1> QED BY <1>1, <1>2, <1>3 DEF TerminalInv

\* Some number of a set of numbers is the least.
LEMMA SomeIsLeast ==
  ASSUME NEW S, S \subseteq Nat, S # {}
  PROVE  \E f \in S : \A g \in S : f <= g
<1>1. PICK f \in S : \A g \in S : ~ (<<g, f>> \in OpToRel(<, Nat))
  BY NatLessThanWellFounded, WFMin, Zenon
<1>2. \A g \in S : ~ (g < f)
  BY <1>1 DEF OpToRel
<1> QED BY <1>2

\* A new terminal finds a free descriptor: the open ones are fewer than those.
LEMMA FdIsFree ==
  ASSUME TypeOK, Registry, Descriptors, NEW t \in Terminals, proc[t] = "none"
  PROVE  LET free == {g \in Fds : owner[g] = None} IN Lowest(free) \in free
<1> DEFINE free == {g \in Fds : owner[g] = None}
           taken == {g \in Fds : owner[g] # None}
           others == Terminals \ {t}
<1>1. free # {}
  <2> SUFFICES ASSUME free = {} PROVE FALSE
    OBVIOUS
  <2>1. \A f \in Fds : owner[f] \in others /\ fd[owner[f]] = f
    BY DEF TypeOK, Registry, Descriptors, OpenWithFd
  <2>2. IsFiniteSet(Fds) /\ IsFiniteSet(Terminals) /\ Cardinality(Terminals) <= Cardinality(Fds)
    BY DescriptorsEnough
  <2>3. IsFiniteSet(others) /\ Cardinality(others) < Cardinality(Fds)
    <3>1. IsFiniteSet(others) /\ Cardinality(others) = Cardinality(Terminals) - 1
      BY <2>2, FS_RemoveElement
    <3>2. Cardinality(Terminals) \in Nat /\ Cardinality(Fds) \in Nat
      BY <2>2, FS_CardinalityType
    <3> QED BY <2>2, <3>1, <3>2
  <2>4. owner \in [Fds -> others]
    BY <2>1 DEF TypeOK
  <2>5. PICK x \in Fds, y \in Fds : x # y /\ owner[x] = owner[y]
    BY <2>2, <2>3, <2>4, FS_PigeonHole
  <2> QED BY <2>1, <2>5
<1>2. free \subseteq Nat
  BY DescriptorsEnough
<1>3. \E f \in free : \A g \in free : f <= g
  BY <1>1, <1>2, SomeIsLeast
<1>4. Lowest(free) \in free
  BY <1>3 DEF Lowest
<1> QED BY <1>4
LEMMA TerminalTypes ==
  TypeOK <=> /\ registered \subseteq Terminals
             /\ proc \in [Terminals -> {"none", "running", "detached", "exited"}]
             /\ fd \in [Terminals -> Fds \cup {None}]
             /\ owner \in [Fds -> Terminals \cup {None}]
             /\ subs \in [Terminals -> SUBSET Sockets]
             /\ timer \in [Terminals -> 0..NoTimer]
             /\ idle \in [Terminals -> 0..Retention]
             /\ reader \in [Terminals -> ReaderStates]
             /\ finish \in [Terminals -> FinishStates]
             /\ shown \in [Terminals -> SUBSET Terminals]
             /\ socket \in [Sockets -> {"new", "greeting", "serving", "told", "gone"}]
BY DEF TypeOK, ReaderStates, FinishStates

\* Whoever closes an open terminal takes its watchers over, and gives its
\* descriptor back unless the shell has to be killed first.
LEMMA FinishStep ==
  ASSUME TerminalInv, NEW t \in registered, NEW who \in Sockets \cup {"http", "timer", "reader"},
         NEW terminate \in BOOLEAN, Finish(t, who, terminate), UNCHANGED <<proc, fd, shown, socket>>,
         reader' \in [Terminals -> ReaderStates],
         \A u \in Terminals : reader'[u] = reader[u] \/ (u = t /\ reader'[u].at = "done")
  PROVE  TerminalInv'
<1>0. /\ TypeOK /\ Registry /\ Descriptors /\ Readers /\ OutputIsOwn /\ Watchers /\ Timers
      /\ t \in Terminals
  BY DEF TerminalInv, TypeOK
<1>1. finish[t].at = "no" /\ proc[t] # "none" /\ fd[t] \in Fds /\ owner[fd[t]] = t
  BY <1>0 DEF Finish, MayFinish, Registry, Descriptors, OpenWithFd
<1>2. PICK killing \in BOOLEAN : killing = (terminate /\ proc[t] # "exited")
  OBVIOUS
<1>3. PICK new : new = [at |-> IF killing THEN "kill" ELSE "reap", by |-> who, tell |-> subs[t]]
  OBVIOUS
<1>4. /\ new \in FinishStates /\ new.tell = subs[t]
      /\ new.at = (IF killing THEN "kill" ELSE "reap")
  BY <1>0, <1>3 DEF FinishStates, TypeOK
<1>5. /\ finish' = [finish EXCEPT ![t] = new]
      /\ registered' = registered \ {t} /\ subs' = [subs EXCEPT ![t] = {}]
      /\ timer' = [timer EXCEPT ![t] = NoTimer] /\ idle' = [idle EXCEPT ![t] = 0]
      /\ IF killing THEN UNCHANGED owner ELSE owner' = [owner EXCEPT ![fd[t]] = None]
  BY <1>2, <1>3 DEF Finish, CancelTimer, CloseFd
<1>6. TypeOK'
  <2>1. /\ registered' \subseteq Terminals /\ subs' \in [Terminals -> SUBSET Sockets]
        /\ owner' \in [Fds -> Terminals \cup {None}]
    BY <1>0, <1>5, TerminalTypes
  <2>2. timer' \in [Terminals -> 0..NoTimer] /\ idle' \in [Terminals -> 0..Retention]
    BY <1>0, <1>5, TerminalTypes, RetentionPositive DEF NoTimer
  <2>3. finish' \in [Terminals -> FinishStates]
    BY <1>0, <1>4, <1>5, TerminalTypes
  <2> QED BY <1>0, <2>1, <2>2, <2>3 DEF TypeOK, FinishStates, ReaderStates
<1>7. finish \in [Terminals -> FinishStates] /\ finish'[t] = new
      /\ \A u \in Terminals \ {t} : /\ finish'[u] = finish[u] /\ subs'[u] = subs[u]
                                    /\ timer'[u] = timer[u] /\ idle'[u] = idle[u]
                                    /\ (u \in registered' <=> u \in registered)
                                    /\ reader'[u] = reader[u]
  BY <1>0, <1>5, TerminalTypes DEF TypeOK
<1>8. subs'[t] = {} /\ timer'[t] = NoTimer /\ t \notin registered'
  BY <1>0, <1>5 DEF TypeOK
<1>9. Registry'
  <2> SUFFICES ASSUME NEW u \in Terminals PROVE
        /\ proc[u] = "none" => /\ u \notin registered' /\ finish'[u].at = "no"
                               /\ reader'[u].at = "none" /\ timer'[u] = NoTimer
        /\ proc[u] # "none" => fd[u] \in Fds /\ (u \in registered' <=> finish'[u].at = "no")
        /\ u \notin registered' => subs'[u] = {}
    BY DEF Registry
  <2>1. CASE u = t
    BY <2>1, <1>1, <1>4, <1>7, <1>8
  <2>2. CASE u # t
    BY <2>2, <1>0, <1>7 DEF Registry
  <2> QED BY <2>1, <2>2
<1>10. Descriptors'
  <2>1. \A u \in Terminals : OpenWithFd(u)' => OpenWithFd(u) /\ (u = t => killing)
    BY <1>0, <1>4, <1>7, <1>8 DEF OpenWithFd
  <2>2. \A u \in Terminals : u # t \/ killing => (OpenWithFd(u)' <=> OpenWithFd(u))
    BY <1>0, <1>4, <1>7, <1>8 DEF OpenWithFd
  <2>3. CASE killing
    BY <2>2, <2>3, <1>0, <1>5 DEF Descriptors, TypeOK
  <2>4. CASE ~killing
    <3>1. \A f \in Fds : owner'[f] = IF f = fd[t] THEN None ELSE owner[f]
      BY <2>4, <1>0, <1>1, <1>5 DEF TypeOK
    <3>2. \A u \in Terminals : OpenWithFd(u) => fd[u] \in Fds
      BY <1>0 DEF Registry, OpenWithFd
    <3>3. \A u \in Terminals : OpenWithFd(u)' => u # t /\ owner[fd[u]] = u
      BY <2>1, <2>4, <1>0 DEF Descriptors
    <3>4. \A u \in Terminals : OpenWithFd(u)' => owner'[fd'[u]] = u
      <4> SUFFICES ASSUME NEW u \in Terminals, OpenWithFd(u)' PROVE owner'[fd[u]] = u
        OBVIOUS
      <4>1. fd[u] \in Fds /\ fd[u] # fd[t]
        BY <2>1, <3>2, <3>3, <1>1
      <4> QED BY <3>1, <3>3, <4>1
    <3>5. ASSUME NEW f \in Fds, owner'[f] # None PROVE fd'[owner'[f]] = f /\ OpenWithFd(owner[f])'
      <4>1. f # fd[t] /\ owner'[f] = owner[f] /\ owner[f] \in Terminals
        BY <3>1, <3>5, <1>0 DEF TypeOK
      <4>2. fd[owner[f]] = f /\ OpenWithFd(owner[f]) /\ owner[f] # t
        BY <3>5, <4>1, <1>0 DEF Descriptors
      <4> QED BY <2>2, <4>1, <4>2
    <3>6. \A f \in Fds : owner'[f] # None => owner'[f] = owner[f] /\ owner[f] \in Terminals
      BY <3>1, <1>0 DEF TypeOK
    <3>7. \A f \in Fds : owner'[f] # None => OpenWithFd(owner[f])'
      BY <3>5
    <3>8. \A f \in Fds : owner'[f] # None => (owner'[f] \in registered' \/ finish'[owner'[f]].at = "kill")
      BY <3>6, <3>7 DEF OpenWithFd
    <3>9. \A u \in Terminals : u \in registered' \/ finish'[u].at = "kill" => owner'[fd'[u]] = u
      BY <3>4 DEF OpenWithFd
    <3> QED BY <3>5, <3>8, <3>9 DEF Descriptors, OpenWithFd
  <2> QED BY <2>3, <2>4
<1>11. Readers'
  <2> SUFFICES ASSUME NEW u \in Terminals PROVE
        /\ reader'[u].at \in {"reading", "read"} =>
             reader'[u].from \in Terminals /\ (finish'[u].at = "no" => reader'[u].from = u)
        /\ finish'[u].at \in {"tell", "done"} => reader'[u].at = "done"
    BY DEF Readers
  <2>1. CASE u = t
    BY <2>1, <1>0, <1>1, <1>4, <1>7 DEF Readers
  <2>2. CASE u # t
    BY <2>2, <1>0, <1>7 DEF Readers
  <2> QED BY <2>1, <2>2
<1>12. OutputIsOwn'
  BY <1>0 DEF OutputIsOwn
<1>13. Watchers'
  <2> SUFFICES ASSUME NEW u \in Terminals PROVE
        /\ \A w \in Sockets : Attached(w, u) =>
             IF u \in registered' THEN w \in subs'[u] ELSE w \in finish'[u].tell
        /\ finish'[u].at \in {"no", "done"} => finish'[u].tell = {}
    BY DEF Watchers, Attached
  <2>1. CASE u = t
    BY <2>1, <1>0, <1>4, <1>7, <1>8 DEF Watchers
  <2>2. CASE u # t
    BY <2>2, <1>0, <1>7 DEF Watchers
  <2> QED BY <2>1, <2>2
<1>14. Timers'
  <2> SUFFICES ASSUME NEW u \in registered' PROVE
        /\ subs'[u] = {} <=> timer'[u] # NoTimer
        /\ subs'[u] = {} => idle'[u] + timer'[u] = Retention
    BY DEF Timers, NoTimer
  <2>1. u # t /\ u \in Terminals /\ u \in registered
    BY <1>0, <1>5 DEF TypeOK
  <2>2. subs'[u] = subs[u] /\ timer'[u] = timer[u] /\ idle'[u] = idle[u]
    BY <2>1, <1>7
  <2> QED BY <1>0, <2>1, <2>2 DEF Timers
<1> QED BY <1>6, <1>9, <1>10, <1>11, <1>12, <1>13, <1>14 DEF TerminalInv
\* The steps that only move time, or a shell.
LEMMA ClockStep ==
  ASSUME TerminalInv, Tick \/ \E t \in Terminals : Touch(t) \/ ShellLeaves(t)
  PROVE  TerminalInv'
<1>0. /\ TypeOK /\ Registry /\ Descriptors /\ Readers /\ OutputIsOwn /\ Watchers /\ Timers
      /\ Retention \in Nat \ {0}
  BY RetentionPositive DEF TerminalInv
<1>1. UNCHANGED <<registered, fd, owner, subs, reader, finish, shown, socket>>
  BY DEF Tick, Touch, ShellLeaves
<1>2. /\ Descriptors' /\ Readers' /\ OutputIsOwn' /\ Watchers'
  BY <1>0, <1>1 DEF Descriptors, OpenWithFd, Readers, OutputIsOwn, Watchers, Attached
<1>3. CASE Tick
  <2>1. /\ UNCHANGED proc
        /\ timer' = [t \in Terminals |->
                       IF timer[t] \in 1..Retention THEN timer[t] - 1 ELSE timer[t]]
        /\ idle' = [t \in Terminals |->
                      IF t \in registered /\ subs[t] = {} /\ idle[t] < Retention
                        THEN idle[t] + 1 ELSE idle[t]]
    BY <1>3 DEF Tick
  <2>2. \A t \in Terminals : timer[t] \in 0..(Retention + 1) /\ idle[t] \in 0..Retention
    BY <1>0 DEF TypeOK, NoTimer
  <2>3. /\ timer' \in [Terminals -> 0..(Retention + 1)] /\ idle' \in [Terminals -> 0..Retention]
    BY <1>0, <2>1, <2>2
  <2>4. TypeOK'
    BY <1>0, <1>1, <2>1, <2>3 DEF TypeOK, NoTimer
  <2>5. \A t \in Terminals : timer'[t] = Retention + 1 <=> timer[t] = Retention + 1
    BY <1>0, <2>1, <2>2
  <2>6. Registry'
    BY <1>0, <1>1, <2>1, <2>5 DEF Registry, NoTimer
  <2>7. Timers'
    <3> SUFFICES ASSUME NEW t \in registered PROVE
          /\ subs[t] = {} <=> timer'[t] # Retention + 1
          /\ subs[t] = {} => idle'[t] + timer'[t] = Retention
      BY <1>1 DEF Timers, NoTimer
    <3>1. t \in Terminals
      BY <1>0 DEF TypeOK
    <3>2. /\ subs[t] = {} <=> timer[t] # Retention + 1
          /\ subs[t] = {} => idle[t] + timer[t] = Retention
      BY <1>0 DEF Timers, NoTimer
    <3>3. subs[t] = {} => idle'[t] + timer'[t] = Retention
      BY <1>0, <2>1, <2>2, <3>1, <3>2
    <3> QED BY <2>5, <3>1, <3>2, <3>3
  <2> QED BY <1>2, <2>4, <2>6, <2>7 DEF TerminalInv
<1>4. ASSUME NEW t \in Terminals, Touch(t) PROVE TerminalInv'
  <2>1. /\ UNCHANGED proc /\ t \in registered
        /\ timer' = [timer EXCEPT ![t] = IF subs[t] # {} THEN NoTimer ELSE Retention]
        /\ idle' = [idle EXCEPT ![t] = 0]
    BY <1>4 DEF Touch, Reschedule
  <2>2. TypeOK'
    BY <1>0, <1>1, <2>1 DEF TypeOK, NoTimer
  <2>3. Registry'
    BY <1>0, <1>1, <2>1 DEF Registry, TypeOK
  <2>4. Timers'
    BY SMTT(30), <1>0, <1>1, <2>1 DEF Timers, TypeOK, NoTimer
  <2> QED BY <1>2, <2>2, <2>3, <2>4 DEF TerminalInv
<1>5. ASSUME NEW t \in Terminals, ShellLeaves(t) PROVE TerminalInv'
  <2>1. PICK how \in {"detached", "exited"} : proc' = [proc EXCEPT ![t] = how]
    BY <1>5 DEF ShellLeaves
  <2>2. UNCHANGED <<timer, idle>> /\ proc[t] # "none"
    BY <1>5 DEF ShellLeaves
  <2>3. TypeOK'
    BY <1>0, <1>1, <2>1, <2>2 DEF TypeOK
  <2>4. \A u \in Terminals : proc'[u] = "none" <=> proc[u] = "none"
    BY <1>0, <2>1, <2>2 DEF TypeOK
  <2>5. Registry'
    BY <1>0, <1>1, <2>2, <2>4 DEF Registry
  <2>6. Timers'
    BY <1>0, <1>1, <2>2 DEF Timers
  <2> QED BY <1>2, <2>3, <2>5, <2>6 DEF TerminalInv
<1> QED BY <1>3, <1>4, <1>5

LEMMA CreateStep ==
  ASSUME TerminalInv, NEW t \in Terminals, Create(t)
  PROVE  TerminalInv'
<1>0. /\ TypeOK /\ Registry /\ Descriptors /\ Readers /\ OutputIsOwn /\ Watchers /\ Timers
      /\ Retention \in Nat \ {0}
  BY RetentionPositive DEF TerminalInv
<1>1. /\ proc[t] = "none" /\ t \notin registered /\ finish[t].at = "no" /\ reader[t].at = "none"
      /\ timer[t] = NoTimer /\ subs[t] = {}
  BY <1>0 DEF Create, Registry
<1>2. PICK f : f = Lowest({g \in Fds : owner[g] = None})
  OBVIOUS
<1>3. f \in Fds /\ owner[f] = None
  BY <1>0, <1>1, <1>2, FdIsFree
<1>4. /\ registered' = registered \cup {t} /\ proc' = [proc EXCEPT ![t] = "running"]
      /\ fd' = [fd EXCEPT ![t] = f] /\ owner' = [owner EXCEPT ![f] = t]
      /\ reader' = [reader EXCEPT ![t] = [at |-> "reading", from |-> t]]
      /\ UNCHANGED <<subs, finish, shown, socket>>
  BY <1>2 DEF Create
<1>5. timer' = [timer EXCEPT ![t] = Retention] /\ idle' = [idle EXCEPT ![t] = 0]
  BY <1>1 DEF Create, Schedule
<1>6. \A u \in Terminals \ {t} : /\ proc'[u] = proc[u] /\ fd'[u] = fd[u] /\ reader'[u] = reader[u]
                                 /\ timer'[u] = timer[u] /\ idle'[u] = idle[u]
                                 /\ (u \in registered' <=> u \in registered)
  BY <1>0, <1>4, <1>5 DEF TypeOK
<1>7. /\ proc'[t] = "running" /\ fd'[t] = f /\ t \in registered' /\ timer'[t] = Retention /\ idle'[t] = 0
      /\ reader'[t].from = t /\ reader'[t].at = "reading"
  BY <1>0, <1>4, <1>5 DEF TypeOK
<1>8. TypeOK'
  BY <1>0, <1>3, <1>4, <1>5 DEF TypeOK, NoTimer
<1>9. Registry'
  <2> SUFFICES ASSUME NEW u \in Terminals PROVE
        /\ proc'[u] = "none" => /\ u \notin registered' /\ finish[u].at = "no"
                                /\ reader'[u].at = "none" /\ timer'[u] = NoTimer
        /\ proc'[u] # "none" => fd'[u] \in Fds /\ (u \in registered' <=> finish[u].at = "no")
        /\ u \notin registered' => subs[u] = {}
    BY <1>4 DEF Registry, NoTimer
  <2> QED BY <1>0, <1>1, <1>3, <1>6, <1>7 DEF Registry
<1>10. Descriptors'
  <2>1. \A u \in Terminals : (u \in registered' \/ finish'[u].at = "kill") => owner'[fd'[u]] = u
    <3> SUFFICES ASSUME NEW u \in Terminals, u \in registered' \/ finish'[u].at = "kill"
                 PROVE  owner'[fd'[u]] = u
      OBVIOUS
    <3>1. CASE u = t
      BY <3>1, <1>0, <1>3, <1>4, <1>7 DEF TypeOK
    <3>2. CASE u # t
      <4>1. OpenWithFd(u) /\ fd'[u] = fd[u]
        BY <3>2, <1>4, <1>6 DEF OpenWithFd
      <4>2. owner[fd[u]] = u /\ fd[u] \in Fds
        BY <4>1, <1>0 DEF Descriptors, Registry, OpenWithFd
      <4> QED BY <4>1, <4>2, <1>0, <1>3, <1>4, NoneIsNothing DEF TypeOK
    <3> QED BY <3>1, <3>2
  <2>2. ASSUME NEW g \in Fds, owner'[g] # None
        PROVE  fd'[owner'[g]] = g /\ (owner'[g] \in registered' \/ finish'[owner'[g]].at = "kill")
    <3>1. CASE g = f
      BY <3>1, <1>0, <1>3, <1>4, <1>7 DEF TypeOK
    <3>2. CASE g # f
      <4>1. owner'[g] = owner[g] /\ owner[g] \in Terminals
        BY <3>2, <2>2, <1>0, <1>4 DEF TypeOK
      <4>2. fd[owner[g]] = g /\ OpenWithFd(owner[g])
        BY <4>1, <2>2, <1>0 DEF Descriptors
      <4>3. owner[g] # t
        BY <4>2, <1>1 DEF OpenWithFd
      <4> QED BY <4>1, <4>2, <4>3, <1>4, <1>6 DEF OpenWithFd
    <3> QED BY <3>1, <3>2
  <2> QED BY <2>1, <2>2 DEF Descriptors, OpenWithFd
<1>11. Readers'
  <2> SUFFICES ASSUME NEW u \in Terminals PROVE
        /\ reader'[u].at \in {"reading", "read"} =>
             reader'[u].from \in Terminals /\ (finish[u].at = "no" => reader'[u].from = u)
        /\ finish[u].at \in {"tell", "done"} => reader'[u].at = "done"
    BY <1>4 DEF Readers
  <2> QED BY <1>0, <1>1, <1>6, <1>7 DEF Readers
<1>12. OutputIsOwn'
  BY <1>0, <1>4 DEF OutputIsOwn
<1>13. Watchers'
  <2> SUFFICES ASSUME NEW u \in Terminals PROVE
        /\ \A w \in Sockets : Attached(w, u) =>
             IF u \in registered' THEN w \in subs[u] ELSE w \in finish[u].tell
        /\ finish[u].at \in {"no", "done"} => finish[u].tell = {}
    BY <1>4 DEF Watchers, Attached
  <2> QED BY <1>0, <1>1, <1>6, <1>7 DEF Watchers
<1>14. Timers'
  <2> SUFFICES ASSUME NEW u \in registered' PROVE
        /\ subs[u] = {} <=> timer'[u] # NoTimer
        /\ subs[u] = {} => idle'[u] + timer'[u] = Retention
    BY <1>4 DEF Timers, NoTimer
  <2>1. u \in Terminals /\ (u # t => u \in registered)
    BY <1>0, <1>4 DEF TypeOK
  <2>2. CASE u = t
    BY <2>2, <1>0, <1>1, <1>7 DEF NoTimer
  <2>3. CASE u # t
    BY <2>1, <2>3, <1>0, <1>6 DEF Timers
  <2> QED BY <2>2, <2>3
<1> QED BY <1>8, <1>9, <1>10, <1>11, <1>12, <1>13, <1>14 DEF TerminalInv
\* What is left of a closing, once the session is out of the registry.
LEMMA ClosingStep ==
  ASSUME TerminalInv, NEW t \in Terminals, Closing(t)
  PROVE  TerminalInv'
<1>0. /\ TypeOK /\ Registry /\ Descriptors /\ Readers /\ OutputIsOwn /\ Watchers /\ Timers
      /\ finish \in [Terminals -> FinishStates] /\ finish[t] \in FinishStates
  BY TerminalTypes DEF TerminalInv
<1>1. /\ UNCHANGED <<registered, fd, subs, timer, idle, shown>>
      /\ finish[t].at # "no" /\ proc[t] # "none" /\ t \notin registered
  BY <1>0 DEF Closing, Kill, Reap, Tell, Registry
<1>2. OutputIsOwn' /\ Timers'
  BY <1>0, <1>1 DEF OutputIsOwn, Timers
<1>3. ASSUME NEW new \in FinishStates, finish' = [finish EXCEPT ![t] = new],
             new.at # "no",
             \/ /\ finish[t].at = "kill" /\ new.at = "reap" /\ CloseFd(t)
                /\ proc' = [proc EXCEPT ![t] = "exited"]
             \/ finish[t].at # "kill" /\ new.at # "kill" /\ UNCHANGED <<proc, owner>>,
             reader' \in [Terminals -> ReaderStates],
             \A u \in Terminals \ {t} : reader'[u] = reader[u],
             reader'[t] = reader[t] \/ reader'[t].at = "done",
             new.at \in {"tell", "done"} => reader'[t].at = "done",
             socket' \in [Sockets -> {"new", "greeting", "serving", "told", "gone"}],
             \A w \in Sockets : socket'[w] = socket[w] \/ socket'[w] \in {"told", "gone"},
             \A w \in Sockets : Attached(w, t) => w \in new.tell \/ socket'[w] \in {"told", "gone"},
             new.at = "done" => new.tell = {}
      PROVE  TerminalInv'
  <2>1. finish'[t] = new /\ \A u \in Terminals \ {t} : finish'[u] = finish[u]
    BY <1>0, <1>3
  <2>2. \A u \in Terminals : proc'[u] = "none" <=> proc[u] = "none"
    BY <1>0, <1>1, <1>3 DEF TypeOK
  <2>3. TypeOK'
    <3>1. /\ proc' \in [Terminals -> {"none", "running", "detached", "exited"}]
          /\ owner' \in [Fds -> Terminals \cup {None}]
      BY <1>0, <1>3 DEF TypeOK, CloseFd
    <3>2. finish' \in [Terminals -> FinishStates]
      BY <1>0, <1>3
    <3> QED BY <1>0, <1>1, <1>3, <3>1, <3>2 DEF TypeOK, ReaderStates, FinishStates
  <2>4. Registry'
    <3> SUFFICES ASSUME NEW u \in Terminals PROVE
          /\ proc'[u] = "none" => /\ u \notin registered /\ finish'[u].at = "no"
                                  /\ reader'[u].at = "none" /\ timer[u] = NoTimer
          /\ proc'[u] # "none" => fd[u] \in Fds /\ (u \in registered <=> finish'[u].at = "no")
          /\ u \notin registered => subs[u] = {}
      BY <1>1 DEF Registry, NoTimer
    <3>1. CASE u = t
      BY <3>1, <1>0, <1>1, <1>3, <2>1, <2>2 DEF Registry
    <3>2. CASE u # t
      BY <3>2, <1>0, <1>3, <2>1, <2>2 DEF Registry
    <3> QED BY <3>1, <3>2
  <2>5. Descriptors'
    <3>1. \A u \in Terminals \ {t} : OpenWithFd(u)' <=> OpenWithFd(u)
      BY <1>1, <2>1 DEF OpenWithFd
    <3>2. ~OpenWithFd(t)' /\ (OpenWithFd(t) <=> finish[t].at = "kill")
      BY <1>1, <1>3, <2>1 DEF OpenWithFd
    <3>3. CASE finish[t].at # "kill"
      <4>1. UNCHANGED <<fd, owner>> /\ \A u \in Terminals : OpenWithFd(u)' <=> OpenWithFd(u)
        BY <1>1, <1>3, <3>1, <3>2, <3>3
      <4> QED BY <1>0, <4>1 DEF Descriptors, TypeOK
    <3>4. CASE finish[t].at = "kill"
      <4>1. fd[t] \in Fds /\ owner[fd[t]] = t
        BY <1>0, <1>1, <3>2, <3>4 DEF Descriptors, Registry
      <4>2. \A g \in Fds : owner'[g] = IF g = fd[t] THEN None ELSE owner[g]
        BY <1>0, <1>3, <3>4, <4>1 DEF CloseFd, TypeOK
      <4>3. ASSUME NEW u \in Terminals, OpenWithFd(u)' PROVE owner'[fd[u]] = u
        <5>1. u # t /\ OpenWithFd(u)
          BY <3>1, <3>2, <4>3
        <5>2. owner[fd[u]] = u /\ fd[u] \in Fds
          BY <1>0, <5>1 DEF Descriptors, Registry, OpenWithFd
        <5> QED BY <4>1, <4>2, <5>1, <5>2
      <4>4. ASSUME NEW g \in Fds, owner'[g] # None
            PROVE  owner'[g] = owner[g] /\ fd[owner[g]] = g /\ OpenWithFd(owner[g])'
        <5>1. g # fd[t] /\ owner'[g] = owner[g] /\ owner[g] \in Terminals
          BY <1>0, <4>2, <4>4 DEF TypeOK
        <5>2. fd[owner[g]] = g /\ OpenWithFd(owner[g])
          BY <1>0, <4>4, <5>1 DEF Descriptors
        <5>3. owner[g] # t
          BY <5>1, <5>2
        <5> QED BY <3>1, <5>1, <5>2, <5>3
      <4>5. \A u \in Terminals : (u \in registered' \/ finish'[u].at = "kill") => owner'[fd'[u]] = u
        BY <1>1, <4>3 DEF OpenWithFd
      <4>6. \A g \in Fds : owner'[g] # None =>
              fd'[owner'[g]] = g /\ (owner'[g] \in registered' \/ finish'[owner'[g]].at = "kill")
        BY <1>1, <4>4 DEF OpenWithFd
      <4> QED BY <4>5, <4>6 DEF Descriptors, OpenWithFd
    <3> QED BY <3>3, <3>4
  <2>6. Readers'
    <3> SUFFICES ASSUME NEW u \in Terminals PROVE
          /\ reader'[u].at \in {"reading", "read"} =>
               reader'[u].from \in Terminals /\ (finish'[u].at = "no" => reader'[u].from = u)
          /\ finish'[u].at \in {"tell", "done"} => reader'[u].at = "done"
      BY DEF Readers
    <3>1. CASE u = t
      BY <3>1, <1>0, <1>3, <2>1 DEF Readers
    <3>2. CASE u # t
      BY <3>2, <1>0, <1>3, <2>1 DEF Readers
    <3> QED BY <3>1, <3>2
  <2>7. Watchers'
    <3> SUFFICES ASSUME NEW u \in Terminals PROVE
          /\ \A w \in Sockets : ViewOf[w] = u /\ socket'[w] \in {"greeting", "serving"} =>
               IF u \in registered THEN w \in subs[u] ELSE w \in finish'[u].tell
          /\ finish'[u].at \in {"no", "done"} => finish'[u].tell = {}
      BY <1>1 DEF Watchers, Attached
    <3>0. \A w \in Sockets : socket'[w] \in {"greeting", "serving"} => socket'[w] = socket[w]
      BY <1>3
    <3>1. CASE u = t
      BY <3>0, <3>1, <1>0, <1>1, <1>3, <2>1 DEF Attached
    <3>2. CASE u # t
      BY <3>0, <3>2, <1>0, <2>1 DEF Watchers, Attached
    <3> QED BY <3>1, <3>2
  <2> QED BY <1>2, <2>3, <2>4, <2>5, <2>6, <2>7 DEF TerminalInv
<1>4. /\ \A w \in Sockets : Attached(w, t) => w \in finish[t].tell
      /\ reader \in [Terminals -> ReaderStates]
      /\ socket \in [Sockets -> {"new", "greeting", "serving", "told", "gone"}]
  BY <1>0, <1>1, TerminalTypes DEF Watchers
<1>5. CASE Kill(t)
  <2>1. PICK new : new = [finish[t] EXCEPT !.at = "reap"]
    OBVIOUS
  <2>2. new \in FinishStates /\ new.at = "reap" /\ new.tell = finish[t].tell
    BY <1>0, <2>1 DEF FinishStates
  <2>3. /\ finish' = [finish EXCEPT ![t] = new] /\ finish[t].at = "kill" /\ CloseFd(t)
        /\ proc' = [proc EXCEPT ![t] = "exited"] /\ UNCHANGED <<reader, socket>>
    BY <1>0, <1>5, <2>1 DEF Kill
  <2> QED BY <1>3, <1>4, <2>2, <2>3
<1>6. CASE Reap(t)
  <2>1. PICK new : new = [finish[t] EXCEPT !.at = IF finish[t].tell = {} THEN "done" ELSE "tell"]
    OBVIOUS
  <2>2. /\ new \in FinishStates /\ new.tell = finish[t].tell
        /\ new.at = (IF finish[t].tell = {} THEN "done" ELSE "tell")
    BY <1>0, <2>1 DEF FinishStates
  <2>3. /\ finish' = [finish EXCEPT ![t] = new] /\ finish[t].at = "reap"
        /\ reader' = [reader EXCEPT ![t] = [at |-> "done", from |-> None]]
        /\ UNCHANGED <<proc, owner, socket>>
    BY <1>0, <1>6, <2>1 DEF Reap
  <2>4. /\ reader' \in [Terminals -> ReaderStates] /\ reader'[t].at = "done"
        /\ \A u \in Terminals \ {t} : reader'[u] = reader[u]
    BY <1>4, <2>3 DEF ReaderStates
  <2> QED BY <1>3, <1>4, <2>2, <2>3, <2>4
<1>7. ASSUME NEW v \in Sockets, Tell(t, v) PROVE TerminalInv'
  <2>0. PICK rest : rest = finish[t].tell \ {v}
    OBVIOUS
  <2>1. PICK new : new = [finish[t] EXCEPT !.tell = rest, !.at = IF rest = {} THEN "done" ELSE "tell"]
    OBVIOUS
  <2>2. /\ new \in FinishStates /\ new.tell = rest
        /\ new.at = (IF rest = {} THEN "done" ELSE "tell")
    BY <1>0, <2>0, <2>1 DEF FinishStates
  <2>3. /\ finish' = [finish EXCEPT ![t] = new] /\ finish[t].at = "tell"
        /\ socket' = [socket EXCEPT ![v] = IF @ = "gone" THEN "gone" ELSE "told"]
        /\ UNCHANGED <<proc, owner, reader>>
    BY <1>0, <1>7, <2>0, <2>1 DEF Tell
  <2>4. reader[t].at = "done"
    BY <1>0, <2>3 DEF Readers
  <2>5. /\ socket' \in [Sockets -> {"new", "greeting", "serving", "told", "gone"}]
        /\ socket'[v] \in {"told", "gone"} /\ \A w \in Sockets \ {v} : socket'[w] = socket[w]
    BY <1>4, <2>3
  <2>6. \A w \in Sockets : socket'[w] = socket[w] \/ socket'[w] \in {"told", "gone"}
    BY <2>5
  <2>7. \A w \in Sockets : Attached(w, t) => w \in new.tell \/ socket'[w] \in {"told", "gone"}
    BY <1>4, <2>0, <2>2, <2>5
  <2> QED BY <1>3, <1>4, <2>2, <2>3, <2>4, <2>5, <2>6, <2>7
<1> QED BY <1>5, <1>6, <1>7 DEF Closing

\* What a reader that goes on names by its number is its own terminal, as long
\* as nobody closes that.
LEMMA ReadingStep ==
  ASSUME TerminalInv, NEW t \in Terminals, Output(t) \/ Hangup(t) \/ TakeOutput(t) \/ Sent(t)
  PROVE  TerminalInv'
<1>0. /\ TypeOK /\ Registry /\ Descriptors /\ Readers /\ OutputIsOwn /\ Watchers /\ Timers
      /\ reader \in [Terminals -> ReaderStates] /\ reader[t] \in ReaderStates
  BY TerminalTypes DEF TerminalInv
<1>1. UNCHANGED <<registered, proc, fd, owner, subs, timer, idle, finish, socket>>
  BY DEF Output, Hangup, TakeOutput, Sent
<1>2. Descriptors' /\ Watchers' /\ Timers'
  BY <1>0, <1>1 DEF Descriptors, OpenWithFd, Watchers, Attached, Timers
<1>3. reader[t].at \in {"reading", "read", "sending"} /\ proc[t] # "none" /\ finish[t].at \notin {"tell", "done"}
  BY <1>0 DEF Output, Hangup, TakeOutput, Sent, Readers, Registry
<1>4. PICK again : again = ReadAgain(t)
  OBVIOUS
<1>5. /\ again \in ReaderStates /\ again.at \in {"exiting", "reading"}
      /\ again.at = "reading" =>
           again.from \in Terminals /\ (finish[t].at = "no" => again.from = t)
  <2>1. fd[t] \in Fds /\ owner[fd[t]] \in Terminals \cup {None}
        /\ (finish[t].at = "no" => owner[fd[t]] = t)
    BY <1>0, <1>3 DEF Registry, Descriptors, OpenWithFd, TypeOK
  <2> QED BY <1>4, <2>1, NoneIsNothing DEF ReadAgain, ReaderStates
<1>6. ASSUME NEW new \in ReaderStates, reader' = [reader EXCEPT ![t] = new], new.at # "none",
             new.at \in {"reading", "read"} =>
               new.from \in Terminals /\ (finish[t].at = "no" => new.from = t),
             \/ UNCHANGED shown
             \/ shown' = [shown EXCEPT ![t] = @ \cup {t}]
      PROVE  TerminalInv'
  <2>1. reader'[t] = new /\ \A u \in Terminals \ {t} : reader'[u] = reader[u]
    BY <1>0, <1>6
  <2>2. TypeOK'
    <3>1. reader' \in [Terminals -> ReaderStates]
      BY <1>0, <1>6
    <3>2. shown' \in [Terminals -> SUBSET Terminals]
      BY SMTT(30), <1>0, <1>6 DEF TypeOK
    <3> QED BY <1>0, <1>1, <3>1, <3>2 DEF TypeOK, ReaderStates
  <2>3. Registry'
    BY <1>0, <1>1, <1>3, <2>1 DEF Registry, NoTimer
  <2>4. Readers'
    BY <1>0, <1>1, <1>3, <1>6, <2>1 DEF Readers
  <2>5. OutputIsOwn'
    <3>1. \A u \in Terminals : shown[u] \subseteq {u}
      BY <1>0 DEF OutputIsOwn
    <3>2. shown \in [Terminals -> SUBSET Terminals]
      BY <1>0 DEF TypeOK
    <3>3. \A u \in Terminals : shown'[u] \subseteq {u}
      BY <1>6, <3>1, <3>2
    <3> QED BY <3>3 DEF OutputIsOwn
  <2> QED BY <1>2, <2>2, <2>3, <2>4, <2>5 DEF TerminalInv
<1>7. CASE Output(t) \/ Hangup(t)
  <2>1. PICK to \in {"read", "exiting"} : reader' = [reader EXCEPT ![t].at = to]
    BY <1>7 DEF Output, Hangup
  <2>2. PICK new : new = [reader[t] EXCEPT !.at = to]
    OBVIOUS
  <2>3. /\ new \in ReaderStates /\ new.at = to /\ new.from = reader[t].from
        /\ reader' = [reader EXCEPT ![t] = new] /\ UNCHANGED shown /\ reader[t].at = "reading"
    BY <1>0, <1>7, <2>1, <2>2 DEF ReaderStates, Output, Hangup
  <2> QED BY <1>0, <1>6, <2>3 DEF Readers
<1>8. CASE TakeOutput(t) /\ ~TakesOutput(t)
  <2>1. PICK new : new = [reader[t] EXCEPT !.at = "exiting"]
    OBVIOUS
  <2>2. /\ new \in ReaderStates /\ new.at = "exiting"
        /\ reader' = [reader EXCEPT ![t] = new] /\ UNCHANGED shown
    BY <1>0, <1>8, <2>1 DEF ReaderStates, TakeOutput
  <2> QED BY <1>6, <2>2
<1>9. CASE TakeOutput(t) /\ TakesOutput(t)
  <2>1. reader[t].from = t
    BY <1>0, <1>9 DEF TakeOutput, TakesOutput, Readers
  <2>2. PICK new : new = IF subs[t] = {} THEN again ELSE [at |-> "sending", from |-> None]
    OBVIOUS
  <2>3. /\ new \in ReaderStates /\ new.at \in {"exiting", "reading", "sending"}
        /\ new.at = "reading" => new.from \in Terminals /\ (finish[t].at = "no" => new.from = t)
    BY <1>5, <2>2 DEF ReaderStates
  <2>4. /\ reader' = [reader EXCEPT ![t] = new] /\ shown' = [shown EXCEPT ![t] = @ \cup {t}]
    BY <1>4, <1>9, <2>1, <2>2 DEF TakeOutput
  <2> QED BY <1>6, <2>3, <2>4
<1>10. CASE Sent(t)
  <2>1. reader' = [reader EXCEPT ![t] = again] /\ UNCHANGED shown
    BY <1>4, <1>10 DEF Sent
  <2> QED BY <1>5, <1>6, <2>1
<1> QED BY <1>7, <1>8, <1>9, <1>10
LEMMA ReaderExitStep ==
  ASSUME TerminalInv, NEW t \in Terminals, ReaderExits(t)
  PROVE  TerminalInv'
<1>0. /\ TypeOK /\ Registry /\ Descriptors /\ Readers /\ OutputIsOwn /\ Watchers /\ Timers
      /\ reader \in [Terminals -> ReaderStates] /\ reader[t] \in ReaderStates
  BY TerminalTypes DEF TerminalInv
<1>1. PICK new : new = [reader[t] EXCEPT !.at = "done"]
  OBVIOUS
<1>2. /\ new \in ReaderStates /\ new.at = "done"
      /\ reader' = [reader EXCEPT ![t] = new] /\ UNCHANGED <<proc, fd, shown, socket>>
      /\ reader[t].at = "exiting"
  BY <1>0, <1>1 DEF ReaderStates, ReaderExits
<1>3. /\ reader' \in [Terminals -> ReaderStates] /\ reader'[t].at = "done"
      /\ \A u \in Terminals \ {t} : reader'[u] = reader[u]
  BY <1>0, <1>2
<1>4. CASE MayFinish(t)
  <2>1. Finish(t, "reader", FALSE)
    BY <1>4 DEF ReaderExits
  <2>2. t \in registered
    BY <1>0, <1>2, <1>4 DEF Registry, MayFinish
  <2> QED BY <1>2, <1>3, <2>1, <2>2, FinishStep
<1>5. CASE ~MayFinish(t)
  <2>1. UNCHANGED <<finish, registered, subs, timer, idle, owner>> /\ proc[t] # "none"
    BY <1>0, <1>2, <1>5 DEF ReaderExits, Registry
  <2>2. Descriptors' /\ Watchers' /\ Timers' /\ OutputIsOwn'
    BY <1>0, <1>2, <2>1 DEF Descriptors, OpenWithFd, Watchers, Attached, Timers, OutputIsOwn
  <2>3. TypeOK'
    BY <1>0, <1>2, <1>3, <2>1 DEF TypeOK, ReaderStates
  <2>4. Registry'
    BY <1>0, <1>2, <1>3, <2>1 DEF Registry, NoTimer
  <2>5. Readers'
    BY <1>0, <1>3, <2>1 DEF Readers
  <2> QED BY <2>2, <2>3, <2>4, <2>5 DEF TerminalInv
<1> QED BY <1>4, <1>5

\* The handler of a connection, until it ends.
LEMMA HandlerStep ==
  ASSUME TerminalInv, NEW w \in Sockets,
         Attach(w) \/ AttachMissing(w) \/ Greeted(w) \/ GreetingFails(w) \/ HandlerEnds(w)
  PROVE  TerminalInv'
<1>0. /\ TypeOK /\ Registry /\ Descriptors /\ Readers /\ OutputIsOwn /\ Watchers /\ Timers
      /\ ViewOf[w] \in Terminals /\ Retention \in Nat \ {0}
  BY ViewOfType, RetentionPositive DEF TerminalInv
<1>1. PICK t \in Terminals : t = ViewOf[w]
  BY <1>0
<1>2. UNCHANGED <<registered, proc, fd, owner, reader, finish, shown>>
  BY DEF Attach, AttachMissing, Greeted, GreetingFails, HandlerEnds
<1>3. Descriptors' /\ Readers' /\ OutputIsOwn'
  BY <1>0, <1>2 DEF Descriptors, OpenWithFd, Readers, OutputIsOwn
<1>4. ASSUME NEW s \in {"greeting", "serving", "gone"}, socket' = [socket EXCEPT ![w] = s],
             NEW watching \in SUBSET Sockets, subs' = [subs EXCEPT ![t] = watching],
             subs[t] \ {w} \subseteq watching,
             t \notin registered => watching = {},
             s = "gone" \/ (t \in registered /\ w \in watching)
               \/ (t \notin registered /\ w \in finish[t].tell),
             timer' \in [Terminals -> 0..NoTimer], idle' \in [Terminals -> 0..Retention],
             \A u \in Terminals \ {t} : timer'[u] = timer[u] /\ idle'[u] = idle[u],
             IF t \in registered
               THEN /\ watching = {} <=> timer'[t] # NoTimer
                    /\ watching = {} => idle'[t] + timer'[t] = Retention
               ELSE timer'[t] = timer[t]
      PROVE  TerminalInv'
  <2>1. /\ subs'[t] = watching /\ \A u \in Terminals \ {t} : subs'[u] = subs[u]
        /\ socket'[w] = s /\ \A v \in Sockets \ {w} : socket'[v] = socket[v]
    BY <1>0, <1>4 DEF TypeOK
  <2>2. TypeOK'
    <3>1. subs' \in [Terminals -> SUBSET Sockets]
      BY <1>0, <1>4 DEF TypeOK
    <3>2. socket' \in [Sockets -> {"new", "greeting", "serving", "told", "gone"}]
      BY <1>0, <1>4 DEF TypeOK
    <3> QED BY <1>0, <1>2, <1>4, <3>1, <3>2 DEF TypeOK, NoTimer
  <2>3. Registry'
    <3> SUFFICES ASSUME NEW u \in Terminals PROVE
          /\ proc[u] = "none" => /\ u \notin registered /\ finish[u].at = "no"
                                 /\ reader[u].at = "none" /\ timer'[u] = NoTimer
          /\ proc[u] # "none" => fd[u] \in Fds /\ (u \in registered <=> finish[u].at = "no")
          /\ u \notin registered => subs'[u] = {}
      BY <1>2 DEF Registry, NoTimer
    <3>1. CASE u = t
      BY <3>1, <1>0, <1>4, <2>1 DEF Registry
    <3>2. CASE u # t
      BY <3>2, <1>0, <1>4, <2>1 DEF Registry
    <3> QED BY <3>1, <3>2
  <2>4. Timers'
    <3> SUFFICES ASSUME NEW u \in registered PROVE
          /\ subs'[u] = {} <=> timer'[u] # NoTimer
          /\ subs'[u] = {} => idle'[u] + timer'[u] = Retention
      BY <1>2 DEF Timers, NoTimer
    <3>0. u \in Terminals
      BY <1>0 DEF TypeOK
    <3>1. CASE u = t
      BY <3>1, <1>4, <2>1
    <3>2. CASE u # t
      BY <3>0, <3>2, <1>0, <1>4, <2>1 DEF Timers
    <3> QED BY <3>1, <3>2
  <2>5. Watchers'
    <3> SUFFICES ASSUME NEW u \in Terminals, NEW v \in Sockets, ViewOf[v] = u,
                        socket'[v] \in {"greeting", "serving"}
                 PROVE  IF u \in registered THEN v \in subs'[u] ELSE v \in finish[u].tell
      BY <1>0, <1>2 DEF Watchers, Attached
    <3>1. CASE v = w
      BY <3>1, <1>1, <1>4, <2>1
    <3>2. CASE v # w
      <4>1. IF u \in registered THEN v \in subs[u] ELSE v \in finish[u].tell
        BY <3>2, <1>0, <2>1 DEF Watchers, Attached
      <4> QED BY <3>2, <4>1, <1>4, <2>1
    <3> QED BY <3>1, <3>2
  <2> QED BY <1>3, <2>2, <2>3, <2>4, <2>5 DEF TerminalInv
<1>5. /\ subs = [subs EXCEPT ![t] = subs[t]] /\ subs[t] \in SUBSET Sockets
      /\ timer \in [Terminals -> 0..NoTimer] /\ idle \in [Terminals -> 0..Retention]
      /\ t \notin registered => subs[t] = {}
      /\ t \in registered => /\ subs[t] = {} <=> timer[t] # NoTimer
                             /\ subs[t] = {} => idle[t] + timer[t] = Retention
  BY <1>0 DEF TypeOK, Registry, Timers
<1>6. CASE Attach(w)
  <2>1. /\ t \in registered /\ socket' = [socket EXCEPT ![w] = "greeting"]
        /\ subs' = [subs EXCEPT ![t] = subs[t] \cup {w}]
        /\ timer' = [timer EXCEPT ![t] = NoTimer] /\ idle' = [idle EXCEPT ![t] = 0]
    BY <1>1, <1>6 DEF Attach, CancelTimer
  <2>2. /\ timer' \in [Terminals -> 0..NoTimer] /\ idle' \in [Terminals -> 0..Retention]
        /\ timer'[t] = NoTimer
        /\ \A u \in Terminals \ {t} : timer'[u] = timer[u] /\ idle'[u] = idle[u]
    BY <1>0, <1>5, <2>1 DEF NoTimer
  <2>3. PICK watching \in SUBSET Sockets : watching = subs[t] \cup {w}
    BY <1>5
  <2>4. subs' = [subs EXCEPT ![t] = watching] /\ w \in watching /\ watching # {}
        /\ subs[t] \ {w} \subseteq watching
    BY <2>1, <2>3
  <2> QED BY <1>4, <2>1, <2>2, <2>4
<1>7. CASE AttachMissing(w) \/ Greeted(w) \/ GreetingFails(w)
  <2>1. PICK s \in {"serving", "gone"} : socket' = [socket EXCEPT ![w] = s]
                                        /\ (s = "serving" => Attached(w, t))
    BY <1>1, <1>7 DEF AttachMissing, Greeted, GreetingFails, Attached
  <2>2. UNCHANGED <<subs, timer, idle>>
    BY <1>7 DEF AttachMissing, Greeted, GreetingFails
  <2>3. Attached(w, t) => IF t \in registered THEN w \in subs[t] ELSE w \in finish[t].tell
    BY <1>0 DEF Watchers
  <2> QED BY <1>4, <1>5, <2>1, <2>2, <2>3
<1>8. CASE HandlerEnds(w)
  <2>1. /\ socket' = [socket EXCEPT ![w] = "gone"] /\ subs' = [subs EXCEPT ![t] = subs[t] \ {w}]
        /\ IF t \in registered THEN Schedule(t, subs[t] \ {w}) ELSE UNCHANGED <<timer, idle>>
    BY <1>1, <1>8 DEF HandlerEnds
  <2>2. CASE UNCHANGED <<timer, idle>>
    <3>1. t \in registered => (subs[t] \ {w} = {} <=> timer[t] # NoTimer)
      BY <1>5, <2>1, <2>2, <1>0 DEF Schedule, NoTimer, TypeOK
    <3>2. t \in registered /\ subs[t] \ {w} = {} => subs[t] = {}
      BY <1>5, <3>1
    <3> QED BY ZenonT(30), <1>4, <1>5, <2>1, <2>2, <3>1, <3>2
  <2>3. CASE /\ t \in registered /\ subs[t] \ {w} = {}
             /\ timer' = [timer EXCEPT ![t] = Retention] /\ idle' = [idle EXCEPT ![t] = 0]
    <3>1. /\ timer' \in [Terminals -> 0..NoTimer] /\ idle' \in [Terminals -> 0..Retention]
          /\ timer'[t] = Retention /\ idle'[t] = 0 /\ Retention # NoTimer
          /\ \A u \in Terminals \ {t} : timer'[u] = timer[u] /\ idle'[u] = idle[u]
      BY <1>0, <1>5, <2>3 DEF NoTimer
    <3>2. idle'[t] + timer'[t] = Retention
      BY <1>0, <3>1
    <3> QED BY <1>4, <1>5, <2>1, <2>3, <3>1, <3>2
  <2> QED BY <2>1, <2>2, <2>3 DEF Schedule
<1> QED BY <1>6, <1>7, <1>8

LEMMA TerminalStep == TerminalInv /\ [Next]_vars => TerminalInv'
<1> SUFFICES ASSUME TerminalInv, [Next]_vars PROVE TerminalInv'
  OBVIOUS
<1>0. /\ TypeOK /\ Registry /\ Descriptors /\ Readers /\ OutputIsOwn /\ Watchers /\ Timers
      /\ reader \in [Terminals -> ReaderStates]
  BY TerminalTypes DEF TerminalInv
<1>1. CASE Tick
  BY <1>1, ClockStep
<1>2. ASSUME NEW t \in Terminals, Create(t) \/ Touch(t) \/ ShellLeaves(t) PROVE TerminalInv'
  BY <1>2, CreateStep, ClockStep
<1>3. ASSUME NEW t \in Terminals, Closing(t) \/ Output(t) \/ Reading(t) PROVE TerminalInv'
  BY <1>3, ClosingStep, ReadingStep, ReaderExitStep DEF Reading
<1>4. ASSUME NEW t \in Terminals, CloseRequest(t) \/ Expire(t) PROVE TerminalInv'
  <2>1. /\ t \in registered /\ UNCHANGED <<proc, fd, reader, shown, socket>>
        /\ Finish(t, "http", TRUE) \/ Finish(t, "timer", TRUE)
    BY <1>4 DEF CloseRequest, Expire
  <2> QED BY <1>0, <2>1, FinishStep
<1>5. ASSUME NEW w \in Sockets, CloseMessage(w) PROVE TerminalInv'
  <2>1. /\ ViewOf[w] \in registered /\ UNCHANGED <<proc, fd, reader, shown, socket>>
        /\ Finish(ViewOf[w], w, TRUE)
    BY <1>5 DEF CloseMessage
  <2> QED BY <1>0, <2>1, FinishStep
<1>6. ASSUME NEW w \in Sockets,
             Attach(w) \/ AttachMissing(w) \/ Greeted(w) \/ GreetingFails(w) \/ HandlerEnds(w)
      PROVE  TerminalInv'
  BY <1>6, HandlerStep
<1>7. CASE UNCHANGED vars
  BY <1>0, <1>7 DEF vars, TerminalInv, TypeOK, Registry, Descriptors, OpenWithFd, Readers, OutputIsOwn,
     Watchers, Attached, Timers, NoTimer
<1> QED BY <1>1, <1>2, <1>3, <1>4, <1>5, <1>6, <1>7 DEF Next

\* Whatever order attach, loss, use, expiry and close come in, and however many
\* terminals and connections there are: a terminal has one timer or a watcher,
\* its own descriptor and its own output, and a closed one nothing.
THEOREM OpenTerminalsAreOwned == Spec => []TerminalsAreOwned
<1>1. TerminalInv => TerminalsAreOwned
  <2> SUFFICES ASSUME TerminalInv PROVE TerminalsAreOwned
    OBVIOUS
  <2>0. /\ TypeOK /\ Registry /\ Descriptors /\ Readers /\ OutputIsOwn /\ Watchers /\ Timers
    BY DEF TerminalInv
  <2>1. TimerIffUnwatched /\ DescriptorIsOwn
    BY <2>0 DEF Timers, TimerIffUnwatched, Descriptors, OpenWithFd, DescriptorIsOwn
  <2>2. ClosedForEveryone
    <3> SUFFICES ASSUME NEW t \in Terminals PROVE
          /\ t \in registered =>
               \A w \in Sockets :
                 ViewOf[w] = t /\ socket[w] \in {"greeting", "serving"} => w \in subs[t]
          /\ finish[t].at = "done" =>
               /\ reader[t].at = "done" /\ subs[t] = {}
               /\ \A w \in Sockets : ViewOf[w] = t => socket[w] \notin {"greeting", "serving"}
      BY DEF ClosedForEveryone
    <3>1. finish[t].at = "done" => t \notin registered
      BY <2>0 DEF Registry
    <3> QED BY <2>0, <3>1 DEF Registry, Readers, Watchers, Attached
  <2> QED BY <2>0, <2>1, <2>2 DEF TerminalsAreOwned
<1> QED BY TerminalInitHolds, TerminalStep, <1>1, PTL DEF Spec

\* The timer closes only a terminal that was left alone for all of its retention.
THEOREM TerminalsExpireIdle == Spec => ExpiresOnlyIdle
<1>1. TerminalInv /\ [Next]_vars =>
        [\A t \in Terminals :
           t \in registered \ registered' /\ finish'[t].by = "timer" => idle[t] = Retention]_vars
  <2> SUFFICES ASSUME TerminalInv, Next, NEW t \in registered, t \in Terminals,
                      t \notin registered', finish'[t].by = "timer"
               PROVE  idle[t] = Retention
    BY DEF TerminalInv, TypeOK
  <2>0. finish \in [Terminals -> FinishStates] /\ Timers /\ TypeOK /\ Registry
    BY TerminalTypes DEF TerminalInv
  <2>2. CASE \E u \in Terminals : Expire(u)
    <3>1. PICK u \in Terminals : Expire(u)
      BY <2>2
    <3>2. t = u /\ timer[t] = 0 /\ subs[t] = {}
      BY <3>1 DEF Expire, Finish
    <3> QED BY <2>0, <3>2, RetentionPositive DEF Timers, TypeOK
  <2>3. CASE \E u \in Terminals : CloseRequest(u)
    <3>1. PICK u \in Terminals : Finish(u, "http", TRUE)
      BY <2>3 DEF CloseRequest
    <3>2. "http" = "timer"
      BY <2>0, <3>1 DEF Finish
    <3> QED BY <3>2
  <2>4. CASE \E w \in Sockets : CloseMessage(w)
    <3>1. PICK w \in Sockets : Finish(ViewOf[w], w, TRUE)
      BY <2>4 DEF CloseMessage
    <3>2. w = "timer"
      BY <2>0, <3>1, ViewOfType DEF Finish
    <3> QED BY <3>2, ConnectionsAreNamed
  <2>5. CASE \E u \in Terminals : Reading(u)
    <3>1. PICK u \in Terminals : ReaderExits(u) /\ MayFinish(u)
      BY <2>5 DEF Reading, Hangup, TakeOutput, Sent, ReaderExits
    <3>2. Finish(u, "reader", FALSE)
      BY <3>1 DEF ReaderExits
    <3>3. "reader" = "timer"
      BY <2>0, <3>2 DEF Finish
    <3> QED BY <3>3
  <2> QED BY <2>2, <2>3, <2>4, <2>5 DEF Next, Tick, Create, Touch, Closing, Kill, Reap, Tell, Output,
       ShellLeaves, Attach, AttachMissing, Greeted, GreetingFails, HandlerEnds
<1> QED BY TerminalInitHolds, TerminalStep, <1>1, PTL DEF Spec, ExpiresOnlyIdle
-----------------------------------------------------------------------------
(***************************************************************************)
(* The page of a terminal.  What the server has sent on its connection     *)
(* ends where the output ends and begins no later than where the page is;  *)
(* an answer of the polling continues the page, or starts it over.         *)
(***************************************************************************)

InOrder(s, last) ==
  s # <<>> => (\A i \in 1..(Len(s) - 1) : s[i + 1] = s[i] + 1) /\ s[Len(s)] = last

ViewTyped ==
  /\ mobile \in BOOLEAN /\ output \in 0..MaxOutput /\ cursor \in 0..output
  /\ ws \in {"none", "connecting", "attached", "open"} /\ wire \in Seq(Frames)
  /\ poll \in PollStates /\ status \in {"Connecting", "Connected", "HTTP", "other"}
  /\ screen \in Seq(1..MaxOutput)
KeptIsShown == \A n \in (Base + 1)..cursor : \E i \in DOMAIN screen : screen[i] = n
WireFollows ==
  /\ ~Subscribed => wire = <<>>
  /\ Subscribed =>
       /\ wire = <<>> => cursor = output
       /\ wire # <<>> => /\ wire[Len(wire)].hi = output
                         /\ IF wire[1].replay THEN wire[1].lo <= Base ELSE wire[1].lo <= cursor
       /\ \A i \in 1..(Len(wire) - 1) : wire[i + 1].lo = wire[i].hi /\ ~wire[i + 1].replay
       /\ \A i \in DOMAIN wire : wire[i].lo < wire[i].hi /\ wire[i].hi <= output
       /\ \A n \in (Base + 1)..output :
            n <= cursor \/ \E i \in DOMAIN wire : wire[i].lo < n /\ n <= wire[i].hi
PollFollows ==
  /\ ws = "open" => poll = Off
  /\ poll.at = "asked" => poll.after = cursor
  /\ poll.at = "answered" =>
       /\ poll.lo <= poll.hi /\ poll.hi <= output
       /\ IF poll.overflow THEN poll.lo <= Base /\ cursor < poll.lo ELSE poll.lo = cursor
DesktopFollows ==
  ~mobile =>
    /\ ws # "none" => poll = Off
    /\ ws \in {"connecting", "attached"} => cursor = 0 /\ screen = <<>>
    /\ ws = "open" /\ wire # <<>> =>
         IF wire[1].replay THEN cursor = 0 /\ screen = <<>> ELSE wire[1].lo = cursor
    /\ InOrder(screen, cursor)
    /\ ws = "none" /\ poll = Off => status = "other"
StatusOfOpen == ws = "open" => status \in {"Connected", "other"}
ViewInv ==
  ViewTyped /\ KeptIsShown /\ WireFollows /\ PollFollows /\ DesktopFollows /\ StatusOfOpen

LEMMA BaseBelow ==
  ASSUME output \in Nat
  PROVE  Base \in Nat /\ Base <= output /\ (output > 0 => Base < output)
<1>1. CASE output > BufferLimit
  <2>1. Base = output - BufferLimit
    BY <1>1 DEF Base
  <2> QED BY <1>1, <2>1, BufferAssumption
<1>2. CASE ~(output > BufferLimit)
  <2>1. Base = 0
    BY <1>2 DEF Base
  <2> QED BY <2>1
<1> QED BY <1>1, <1>2

LEMMA IntervalsNest ==
  ASSUME NEW a \in Nat, NEW b \in Nat, NEW c \in Nat, a <= b, NEW n \in (b + 1)..c
  PROVE  n \in (a + 1)..c
OBVIOUS

LEMMA IntervalsShrink ==
  ASSUME NEW a \in Nat, NEW c \in Nat, NEW n \in (a + 1)..(c + 1), n # c + 1
  PROVE  n \in (a + 1)..c
OBVIOUS

\* The part of the buffer that is dropped only grows.
LEMMA BaseRises ==
  ASSUME output \in Nat, output' = output + 1
  PROVE  Base' \in Nat /\ Base <= Base' /\ Base' <= output
<1>1. CASE output' > BufferLimit
  <2>1. Base' = output' - BufferLimit
    BY <1>1 DEF Base
  <2>2. CASE output > BufferLimit
    <3>1. Base = output - BufferLimit
      BY <2>2 DEF Base
    <3> QED BY <1>1, <2>1, <3>1, BufferAssumption
  <2>3. CASE ~(output > BufferLimit)
    <3>1. Base = 0
      BY <2>3 DEF Base
    <3> QED BY <1>1, <2>1, <3>1, BufferAssumption
  <2> QED BY <2>2, <2>3
<1>2. CASE ~(output' > BufferLimit)
  <2>1. Base' = 0 /\ Base = 0
    BY <1>2, BufferAssumption DEF Base
  <2> QED BY <2>1
<1> QED BY <1>1, <1>2

\* A text that is put after another one, and after the one that ends where it begins.
LEMMA TextJoins ==
  ASSUME NEW s \in Seq(1..MaxOutput), NEW lo \in 0..MaxOutput, NEW hi \in 0..MaxOutput
  PROVE  /\ s \o Text(lo, hi) \in Seq(1..MaxOutput)
         /\ \A i \in DOMAIN s : i \in DOMAIN (s \o Text(lo, hi)) /\ (s \o Text(lo, hi))[i] = s[i]
         /\ \A n \in (lo + 1)..hi : \E i \in DOMAIN (s \o Text(lo, hi)) : (s \o Text(lo, hi))[i] = n
         /\ InOrder(s, lo) /\ lo <= hi => InOrder(s \o Text(lo, hi), hi)
<1>0. MaxOutput \in Nat /\ lo \in Nat /\ hi \in Nat
  BY BufferAssumption
<1>1. PICK k \in Nat : k = (IF hi > lo THEN hi - lo ELSE 0)
  <2>1. CASE hi > lo
    <3>1. hi - lo \in Nat
      BY <1>0, <2>1
    <3> QED BY <2>1, <3>1
  <2>2. CASE ~(hi > lo)
    BY <2>2
  <2> QED BY <2>1, <2>2
<1>2. PICK t : t = [i \in 1..k |-> lo + i]
  OBVIOUS
<1>3. Text(lo, hi) = t
  BY <1>1, <1>2 DEF Text
<1>4. /\ t \in Seq(1..MaxOutput) /\ Len(t) = k /\ \A i \in 1..k : t[i] = lo + i
  <2>1. \A i \in 1..k : lo + i \in 1..MaxOutput
    BY <1>0, <1>1
  <2>2. t \in [1..k -> 1..MaxOutput]
    BY <1>2, <2>1
  <2>3. k \in Nat /\ DOMAIN t = 1..k
    BY <1>1, <1>2
  <2>4. t \in Seq(1..MaxOutput)
    BY <2>2, <2>3, SeqDef, Zenon
  <2>5. Len(t) = k
    BY <2>3, <2>4
  <2> QED BY <1>2, <2>4, <2>5
<1>5. PICK j : j = s \o t
  OBVIOUS
<1>6. /\ j \in Seq(1..MaxOutput) /\ Len(j) = Len(s) + k /\ Len(s) \in Nat /\ DOMAIN j = 1..Len(j)
      /\ DOMAIN s = 1..Len(s)
      /\ \A i \in 1..Len(s) : j[i] = s[i]
      /\ \A i \in 1..k : j[Len(s) + i] = lo + i
  <2>1. /\ j \in Seq(1..MaxOutput) /\ Len(j) = Len(s) + k
        /\ \A i \in 1..(Len(s) + k) : j[i] = IF i <= Len(s) THEN s[i] ELSE t[i - Len(s)]
    BY <1>4, <1>5, ConcatProperties
  <2>2. Len(s) \in Nat /\ DOMAIN s = 1..Len(s) /\ DOMAIN j = 1..Len(j)
    BY <2>1, LenProperties
  <2>3. ASSUME NEW i \in 1..Len(s) PROVE j[i] = s[i]
    BY <1>1, <2>1, <2>2
  <2>4. ASSUME NEW i \in 1..k PROVE j[Len(s) + i] = lo + i
    <3>1. Len(s) + i \in 1..(Len(s) + k) /\ ~(Len(s) + i <= Len(s)) /\ Len(s) + i - Len(s) = i
      BY <1>1, <2>2
    <3>2. j[Len(s) + i] = t[Len(s) + i - Len(s)]
      BY <2>1, <3>1
    <3> QED BY <1>4, <3>1, <3>2
  <2> QED BY <2>1, <2>2, <2>3, <2>4
<1>7. \A i \in DOMAIN s : i \in DOMAIN j /\ j[i] = s[i]
  BY <1>6
<1>8. ASSUME NEW n \in (lo + 1)..hi PROVE \E i \in DOMAIN j : j[i] = n
  <2>1. n - lo \in 1..k /\ n \in Nat
    BY <1>0, <1>1
  <2>2. j[Len(s) + (n - lo)] = lo + (n - lo)
    BY <1>6, <2>1
  <2>3. lo + (n - lo) = n
    BY <1>0, <2>1
  <2>4. Len(s) + (n - lo) \in DOMAIN j
    <3>1. Len(s) + (n - lo) \in 1..(Len(s) + k)
      BY <1>1, <1>6, <2>1
    <3> QED BY <1>6, <3>1
  <2> QED BY <2>2, <2>3, <2>4
<1>9. ASSUME InOrder(s, lo), lo <= hi PROVE InOrder(j, hi)
  <2>0. k = hi - lo
    BY <1>0, <1>1, <1>9
  <2> SUFFICES ASSUME j # <<>>
               PROVE  /\ \A i \in 1..(Len(j) - 1) : j[i + 1] = j[i] + 1
                      /\ j[Len(j)] = hi
    BY DEF InOrder
  <2>1. s # <<>> => (\A i \in 1..(Len(s) - 1) : s[i + 1] = s[i] + 1) /\ s[Len(s)] = lo
    BY <1>9 DEF InOrder
  <2>2. Len(s) = 0 <=> s = <<>>
    OBVIOUS
  <2>3. Len(j) # 0
    BY <1>6
  <2>4. ASSUME NEW i \in 1..(Len(j) - 1) PROVE j[i + 1] = j[i] + 1
    <3>1. CASE i < Len(s)
      BY <1>6, <2>1, <2>2, <3>1
    <3>2. CASE i = Len(s)
      <4>1. j[i] = lo /\ 1 \in 1..k
        BY <1>6, <2>1, <2>2, <3>2
      <4>2. j[Len(s) + 1] = lo + 1
        BY <1>6, <4>1
      <4> QED BY <3>2, <4>1, <4>2
    <3>3. CASE i > Len(s)
      <4>1. i - Len(s) \in 1..k /\ i - Len(s) + 1 \in 1..k
        BY <1>6, <3>3
      <4>2. /\ j[Len(s) + (i - Len(s))] = lo + (i - Len(s))
            /\ j[Len(s) + (i - Len(s) + 1)] = lo + (i - Len(s) + 1)
        BY <1>6, <4>1
      <4> QED BY <1>0, <1>6, <4>2
    <3>4. i \in Nat /\ Len(s) \in Nat
      BY <1>1, <1>6
    <3>5. i < Len(s) \/ i = Len(s) \/ i > Len(s)
      BY <3>4
    <3> QED BY <3>1, <3>2, <3>3, <3>5
  <2>5. j[Len(j)] = hi
    <3>1. CASE k = 0
      BY <1>0, <1>6, <2>0, <2>1, <2>2, <2>3, <3>1
    <3>2. CASE k > 0
      <4>1. k \in 1..k /\ Len(j) = Len(s) + k /\ lo + k = hi
        BY <1>0, <1>1, <1>6, <2>0, <3>2
      <4>2. j[Len(s) + k] = lo + k
        BY <1>6, <4>1
      <4> QED BY <4>1, <4>2
    <3>3. k = 0 \/ k > 0
      BY <1>1
    <3> QED BY <3>1, <3>2, <3>3
  <2> QED BY <2>4, <2>5
<1> QED BY <1>3, <1>5, <1>6, <1>7, <1>8, <1>9
\* The kinds of polling state, and the fields each has.
LEMMA PollFields ==
  ASSUME poll \in PollStates
  PROVE  /\ poll = Off \/ poll = Idle \/ poll.at \in {"asked", "answered"}
         /\ poll.at = "asked" => poll.after \in 0..MaxOutput
         /\ poll.at = "answered" => /\ poll.lo \in 0..MaxOutput /\ poll.hi \in 0..MaxOutput
                                    /\ poll.overflow \in BOOLEAN
<1>1. CASE poll \in {Off, Idle}
  BY <1>1 DEF Off, Idle
<1>2. CASE poll \in [at : {"asked"}, after : 0..MaxOutput]
  BY <1>2
<1>3. CASE poll \in [at : {"answered"}, lo : 0..MaxOutput, hi : 0..MaxOutput, overflow : BOOLEAN]
  BY <1>3
<1> QED BY <1>1, <1>2, <1>3 DEF PollStates

LEMMA OffAndIdle ==
  /\ Off.at = "off" /\ Idle.at = "idle" /\ Off # Idle
  /\ Off \in PollStates /\ Idle \in PollStates
<1>1. Off.at = "off" /\ Idle.at = "idle" /\ Off \in {Off, Idle} /\ Idle \in {Off, Idle}
  BY DEF Off, Idle
<1> QED BY <1>1 DEF PollStates

LEMMA WireNumbers ==
  ASSUME ViewTyped
  PROVE  /\ MaxOutput \in Nat /\ output \in Nat /\ output <= MaxOutput /\ cursor \in Nat
         /\ cursor <= output
         /\ Len(wire) \in Nat /\ DOMAIN wire = 1..Len(wire) /\ (wire = <<>> <=> Len(wire) = 0)
         /\ \A i \in DOMAIN wire : /\ wire[i] \in Frames
                                   /\ wire[i].lo \in Nat /\ wire[i].hi \in Nat
                                   /\ wire[i].lo <= MaxOutput /\ wire[i].hi <= MaxOutput
                                   /\ wire[i].replay \in BOOLEAN
<1>1. wire \in Seq(Frames) /\ MaxOutput \in Nat
  BY BufferAssumption DEF ViewTyped
<1>2. Len(wire) \in Nat /\ DOMAIN wire = 1..Len(wire) /\ wire \in [1..Len(wire) -> Frames]
  BY <1>1, LenProperties
<1>3. wire = <<>> <=> Len(wire) = 0
  BY <1>1
<1>4. ASSUME NEW i \in DOMAIN wire
      PROVE  /\ wire[i] \in Frames
             /\ wire[i].lo \in Nat /\ wire[i].hi \in Nat
             /\ wire[i].lo <= MaxOutput /\ wire[i].hi <= MaxOutput
             /\ wire[i].replay \in BOOLEAN
  <2>1. wire[i] \in Frames
    BY <1>2
  <2> QED BY <1>1, <2>1 DEF Frames
<1>5. output \in Nat /\ output <= MaxOutput /\ cursor \in Nat /\ cursor <= output
  BY <1>1 DEF ViewTyped
<1> QED BY <1>1, <1>2, <1>3, <1>4, <1>5

LEMMA ViewInitHolds == ViewInit => ViewInv
<1> SUFFICES ASSUME ViewInit PROVE ViewInv
  OBVIOUS
<1> USE DEF ViewInit
<1>1. ViewTyped
  BY OffAndIdle, BufferAssumption DEF ViewTyped
<1>2. Base \in Nat
  BY BaseBelow
<1>3. KeptIsShown
  BY <1>2 DEF KeptIsShown
<1>4. WireFollows /\ PollFollows /\ DesktopFollows /\ StatusOfOpen
  BY OffAndIdle DEF WireFollows, Subscribed, PollFollows, DesktopFollows, InOrder, StatusOfOpen
<1> QED BY <1>1, <1>3, <1>4 DEF ViewInv

\* More output: it follows what is on its way to the page.
LEMMA ProduceKeepsView == ViewInv /\ Produce => ViewInv'
<1> SUFFICES ASSUME ViewInv, Produce PROVE ViewInv'
  OBVIOUS
<1>1. /\ output < MaxOutput /\ output' = output + 1
      /\ UNCHANGED <<mobile, ws, poll, status, cursor, screen>>
  BY DEF Produce
<1>2. ViewTyped /\ KeptIsShown /\ WireFollows /\ PollFollows /\ DesktopFollows /\ StatusOfOpen
  BY DEF ViewInv
<1>3. /\ MaxOutput \in Nat /\ output \in Nat /\ cursor \in Nat /\ cursor <= output
      /\ Len(wire) \in Nat /\ DOMAIN wire = 1..Len(wire) /\ (wire = <<>> <=> Len(wire) = 0)
  BY <1>2, WireNumbers
<1>4. Base \in Nat /\ Base' \in Nat /\ Base <= Base' /\ Base' <= output
  BY <1>1, <1>3, BaseBelow, BaseRises
<1>5. PollFollows' /\ StatusOfOpen'
  <2>1. poll.at = "answered" => poll.lo \in Nat /\ poll.hi \in Nat
    BY <1>2, <1>3, PollFields DEF ViewTyped
  <2> QED BY <1>1, <1>2, <1>3, <1>4, <2>1 DEF PollFollows, StatusOfOpen
<1>6. KeptIsShown'
  <2>1. ASSUME NEW n \in (Base' + 1)..cursor PROVE \E i \in DOMAIN screen : screen[i] = n
    <3>1. n \in (Base + 1)..cursor
      BY <1>3, <1>4, IntervalsNest
    <3> QED BY <1>2, <3>1 DEF KeptIsShown
  <2> QED BY <1>1, <2>1 DEF KeptIsShown
<1>7. CASE ~Subscribed
  <2>1. wire' = wire
    BY <1>7 DEF Produce
  <2>2. ViewTyped'
    BY <1>1, <1>2, <1>3, <2>1 DEF ViewTyped
  <2>3. WireFollows' /\ DesktopFollows'
    BY <1>1, <1>2, <1>7, <2>1 DEF WireFollows, DesktopFollows, Subscribed
  <2> QED BY <1>5, <1>6, <2>2, <2>3 DEF ViewInv
<1>8. CASE Subscribed
  <2>1. PICK f : f = [lo |-> output, hi |-> output + 1, replay |-> FALSE]
    OBVIOUS
  <2>2. wire' = Append(wire, f)
    BY <1>8, <2>1 DEF Produce
  <2>3. f \in Frames /\ f.lo = output /\ f.hi = output + 1 /\ ~f.replay
    BY <1>1, <1>3, <2>1 DEF Frames
  <2>4. wire \in Seq(Frames)
    BY <1>2 DEF ViewTyped
  <2>5. /\ wire' \in Seq(Frames) /\ wire' # <<>> /\ Len(wire') = Len(wire) + 1
        /\ \A i \in 1..Len(wire) : wire'[i] = wire[i]
        /\ wire'[Len(wire) + 1] = f
    BY <2>2, <2>3, <2>4, AppendProperties
  <2>6. DOMAIN wire' = 1..(Len(wire) + 1)
    BY <2>5, LenProperties
  <2>7. ViewTyped'
    BY <1>1, <1>2, <1>3, <2>5 DEF ViewTyped
  <2>8. Subscribed'
    BY <1>1, <1>8 DEF Subscribed
  <2>9. /\ wire = <<>> => cursor = output
        /\ wire # <<>> => /\ wire[Len(wire)].hi = output
                          /\ IF wire[1].replay THEN wire[1].lo <= Base ELSE wire[1].lo <= cursor
        /\ \A i \in 1..(Len(wire) - 1) : wire[i + 1].lo = wire[i].hi /\ ~wire[i + 1].replay
        /\ \A i \in DOMAIN wire : wire[i].lo < wire[i].hi /\ wire[i].hi <= output
        /\ \A n \in (Base + 1)..output :
             n <= cursor \/ \E i \in DOMAIN wire : wire[i].lo < n /\ n <= wire[i].hi
    BY <1>2, <1>8 DEF WireFollows
  <2>10. \A i \in DOMAIN wire : wire[i].lo \in Nat /\ wire[i].hi \in Nat
    BY <1>2, WireNumbers
  <2>11. wire'[Len(wire')].hi = output'
    BY <1>1, <2>3, <2>5
  <2>12. IF wire'[1].replay THEN wire'[1].lo <= Base' ELSE wire'[1].lo <= cursor'
    <3>1. CASE wire = <<>>
      <4>1. wire'[1] = f
        BY <1>3, <2>5, <3>1
      <4> QED BY <1>1, <1>3, <2>3, <2>9, <3>1, <4>1
    <3>2. CASE wire # <<>>
      <4>1. 1 \in DOMAIN wire /\ wire'[1] = wire[1]
        BY <1>3, <2>5, <3>2
      <4> QED BY <1>1, <1>3, <1>4, <2>9, <2>10, <3>2, <4>1
    <3> QED BY <3>1, <3>2
  <2>13. ASSUME NEW i \in 1..(Len(wire') - 1)
         PROVE  wire'[i + 1].lo = wire'[i].hi /\ ~wire'[i + 1].replay
    <3>1. CASE i < Len(wire)
      <4>1. /\ i \in 1..Len(wire) /\ i + 1 \in 1..Len(wire) /\ i \in 1..(Len(wire) - 1)
        BY <1>3, <2>5, <3>1
      <4> QED BY <2>5, <2>9, <4>1
    <3>2. CASE i = Len(wire)
      <4>1. i \in 1..Len(wire) /\ wire # <<>>
        BY <1>3, <2>5, <3>2
      <4> QED BY <2>3, <2>5, <2>9, <3>2, <4>1
    <3>3. i \in Nat /\ i <= Len(wire)
      BY <1>3, <2>5
    <3> QED BY <1>3, <3>1, <3>2, <3>3
  <2>14. ASSUME NEW i \in DOMAIN wire'
         PROVE  wire'[i].lo < wire'[i].hi /\ wire'[i].hi <= output'
    <3>1. CASE i \in DOMAIN wire
      <4>1. wire'[i] = wire[i]
        BY <1>3, <2>5, <3>1
      <4> QED BY <1>1, <1>3, <2>9, <2>10, <3>1, <4>1
    <3>2. CASE i = Len(wire) + 1
      BY <1>1, <1>3, <2>3, <2>5, <3>2
    <3> QED BY <1>3, <2>6, <3>1, <3>2
  <2>15. ASSUME NEW n \in (Base' + 1)..output'
         PROVE  n <= cursor' \/ \E i \in DOMAIN wire' : wire'[i].lo < n /\ n <= wire'[i].hi
    <3>1. CASE n = output + 1
      <4>1. Len(wire) + 1 \in DOMAIN wire'
        BY <1>3, <2>6
      <4> QED BY <1>3, <2>3, <2>5, <3>1, <4>1
    <3>2. CASE n # output + 1
      <4>0. n \in (Base' + 1)..(output + 1)
        BY <1>1
      <4>1. n \in (Base + 1)..output
        <5>1. n \in (Base' + 1)..output
          BY <1>3, <1>4, <3>2, <4>0, IntervalsShrink
        <5> QED BY <1>3, <1>4, <5>1, IntervalsNest
      <4>2. CASE n <= cursor
        BY <1>1, <4>2
      <4>3. CASE \E i \in DOMAIN wire : wire[i].lo < n /\ n <= wire[i].hi
        <5>1. PICK i \in DOMAIN wire : wire[i].lo < n /\ n <= wire[i].hi
          BY <4>3
        <5>2. i \in DOMAIN wire' /\ wire'[i] = wire[i]
          BY <1>3, <2>5, <2>6
        <5> QED BY <5>1, <5>2
      <4> QED BY <2>9, <4>1, <4>2, <4>3
    <3> QED BY <3>1, <3>2
  <2>16. WireFollows'
    BY <2>5, <2>8, <2>11, <2>12, <2>13, <2>14, <2>15 DEF WireFollows
  <2>17. ws = "open" /\ ~mobile =>
           IF wire'[1].replay THEN cursor = 0 /\ screen = <<>> ELSE wire'[1].lo = cursor
    <3>1. CASE wire = <<>>
      <4>1. wire'[1] = f
        BY <1>3, <2>5, <3>1
      <4> QED BY <2>3, <2>9, <3>1, <4>1
    <3>2. CASE wire # <<>>
      <4>1. wire'[1] = wire[1]
        BY <1>3, <2>5, <3>2
      <4> QED BY <1>2, <3>2, <4>1 DEF DesktopFollows
    <3> QED BY <3>1, <3>2
  <2>18. DesktopFollows'
    BY <1>1, <1>2, <2>17 DEF DesktopFollows
  <2> QED BY <1>5, <1>6, <2>7, <2>16, <2>18 DEF ViewInv
<1> QED BY <1>7, <1>8
LEMMA ServerAttachesKeepsView == ViewInv /\ ServerAttaches => ViewInv'
<1> SUFFICES ASSUME ViewInv, ServerAttaches PROVE ViewInv'
  OBVIOUS
<1>1. /\ ws = "connecting" /\ ws' = "attached"
      /\ UNCHANGED <<mobile, output, poll, status, cursor, screen>>
  BY DEF ServerAttaches
<1>2. ViewTyped /\ KeptIsShown /\ WireFollows /\ PollFollows /\ DesktopFollows /\ StatusOfOpen
  BY DEF ViewInv
<1>3. /\ MaxOutput \in Nat /\ output \in Nat /\ cursor \in Nat /\ cursor <= output
      /\ output <= MaxOutput
  BY <1>2, WireNumbers
<1>4. Base \in Nat /\ Base <= output /\ (output > 0 => Base < output) /\ Base' = Base
  BY <1>1, <1>3, BaseBelow DEF Base
<1>5. KeptIsShown' /\ PollFollows' /\ StatusOfOpen'
  BY <1>1, <1>2, <1>4 DEF KeptIsShown, PollFollows, StatusOfOpen
<1>6. DesktopFollows'
  BY <1>1, <1>2 DEF DesktopFollows
<1>7. PICK f : f = [lo |-> Base, hi |-> output, replay |-> TRUE]
  OBVIOUS
<1>8. f \in Frames /\ f.lo = Base /\ f.hi = output /\ f.replay
  BY <1>3, <1>4, <1>7 DEF Frames
<1>9. wire' = IF output > Base THEN <<f>> ELSE <<>>
  BY <1>7 DEF ServerAttaches
<1>10. wire' \in Seq(Frames)
  BY <1>8, <1>9
<1>11. ViewTyped'
  BY <1>1, <1>2, <1>10 DEF ViewTyped
<1>12. WireFollows'
  <2>1. CASE output > Base
    <3>1. /\ wire' # <<>> /\ Len(wire') = 1 /\ DOMAIN wire' = 1..1 /\ wire'[1] = f
      BY <1>9, <2>1
    <3>2. Subscribed'
      BY <1>1 DEF Subscribed
    <3>3. \A i \in 1..(Len(wire') - 1) : wire'[i + 1].lo = wire'[i].hi /\ ~wire'[i + 1].replay
      BY <3>1
    <3>4. \A i \in DOMAIN wire' : wire'[i].lo < wire'[i].hi /\ wire'[i].hi <= output
      BY <1>3, <1>8, <2>1, <3>1
    <3>5. \A n \in (Base + 1)..output : \E i \in DOMAIN wire' : wire'[i].lo < n /\ n <= wire'[i].hi
      BY <1>3, <1>4, <1>8, <3>1
    <3>6. wire'[Len(wire')].hi = output /\ wire'[1].replay /\ wire'[1].lo <= Base
      BY <1>4, <1>8, <3>1
    <3> QED BY <1>1, <1>4, <3>1, <3>2, <3>3, <3>4, <3>5, <3>6 DEF WireFollows
  <2>2. CASE ~(output > Base)
    <3>1. wire' = <<>> /\ output = 0 /\ cursor = 0
      BY <1>3, <1>4, <1>9, <2>2
    <3>2. \A n \in (Base + 1)..output : n <= cursor
      BY <1>3, <1>4, <2>2
    <3>3. Len(wire') = 0 /\ DOMAIN wire' = {}
      BY <3>1
    <3> QED BY <1>1, <1>4, <3>1, <3>2, <3>3 DEF WireFollows
  <2> QED BY <2>1, <2>2
<1> QED BY <1>5, <1>6, <1>11, <1>12 DEF ViewInv

LEMMA OnOpenKeepsView == ViewInv /\ OnOpen => ViewInv'
<1> SUFFICES ASSUME ViewInv, OnOpen PROVE ViewInv'
  OBVIOUS
<1>1. /\ ws = "attached" /\ ws' = "open" /\ poll' = Off /\ status' = "Connected"
      /\ UNCHANGED <<mobile, output, wire, cursor, screen>>
  BY DEF OnOpen
<1>2. ViewTyped /\ KeptIsShown /\ WireFollows /\ DesktopFollows
  BY DEF ViewInv
<1>3. Base' = Base
  BY <1>1 DEF Base
<1>4. ViewTyped'
  BY <1>1, <1>2, OffAndIdle DEF ViewTyped
<1>5. KeptIsShown' /\ PollFollows' /\ StatusOfOpen'
  BY <1>1, <1>2, <1>3, OffAndIdle DEF KeptIsShown, PollFollows, StatusOfOpen
<1>6. WireFollows'
  BY <1>1, <1>2, <1>3 DEF WireFollows, Subscribed
<1>7. ASSUME ~mobile, wire # <<>>
      PROVE  IF wire[1].replay THEN cursor = 0 /\ screen = <<>> ELSE wire[1].lo = cursor
  <2>1. cursor = 0 /\ screen = <<>>
    BY <1>1, <1>2, <1>7 DEF DesktopFollows
  <2>2. IF wire[1].replay THEN wire[1].lo <= Base ELSE wire[1].lo <= cursor
    BY <1>1, <1>2, <1>7 DEF WireFollows, Subscribed
  <2>3. 1 \in DOMAIN wire /\ wire[1].lo \in Nat
    <3>1. 1 \in DOMAIN wire
      BY <1>2, <1>7, WireNumbers
    <3> QED BY <1>2, <3>1, WireNumbers
  <2> QED BY <2>1, <2>2, <2>3
<1>8. DesktopFollows'
  BY <1>1, <1>2, <1>7 DEF DesktopFollows
<1> QED BY <1>4, <1>5, <1>6, <1>8 DEF ViewInv

\* The connection is gone; what replaces it, if anything, starts where the page is.
LEMMA LostKeepsView ==
  ASSUME ViewInv, ws' = "none", wire' = <<>>, UNCHANGED <<mobile, output, cursor, screen>>,
         \/ poll' = Idle /\ status' = "HTTP"
         \/ UNCHANGED <<poll, status>> /\ (mobile \/ status = "other")
  PROVE  ViewInv'
<1>1. ViewTyped /\ KeptIsShown /\ PollFollows /\ DesktopFollows
  BY DEF ViewInv
<1>2. Base' = Base
  BY DEF Base
<1>3. ViewTyped'
  <2>1. wire' \in Seq(Frames)
    OBVIOUS
  <2>2. poll' \in PollStates /\ status' \in {"Connecting", "Connected", "HTTP", "other"}
    BY <1>1, OffAndIdle DEF ViewTyped
  <2> QED BY <1>1, <2>1, <2>2 DEF ViewTyped
<1>4. KeptIsShown' /\ PollFollows' /\ StatusOfOpen'
  BY <1>1, <1>2, OffAndIdle DEF KeptIsShown, PollFollows, StatusOfOpen
<1>5. WireFollows'
  BY DEF WireFollows, Subscribed
<1>6. DesktopFollows'
  BY <1>1, OffAndIdle DEF DesktopFollows
<1> QED BY <1>3, <1>4, <1>5, <1>6 DEF ViewInv

LEMMA OnErrorKeepsView == ViewInv /\ OnError => ViewInv'
<1> SUFFICES ASSUME ViewInv, OnError PROVE ViewInv'
  OBVIOUS
<1>1. /\ ws' = "none" /\ wire' = <<>> /\ UNCHANGED <<mobile, output, cursor, screen>>
      /\ \/ poll' = Idle /\ status' = "HTTP"
         \/ UNCHANGED <<poll, status>> /\ mobile
  BY DEF OnError, FallBack
<1> QED BY <1>1, LostKeepsView

LEMMA OnCloseKeepsView == ViewInv /\ OnClose => ViewInv'
<1> SUFFICES ASSUME ViewInv, OnClose PROVE ViewInv'
  OBVIOUS
<1>1. status \in {"Connected", "other"}
  BY DEF ViewInv, StatusOfOpen, OnClose
<1>2. /\ ws' = "none" /\ wire' = <<>> /\ UNCHANGED <<mobile, output, cursor, screen>>
      /\ \/ poll' = Idle /\ status' = "HTTP"
         \/ UNCHANGED <<poll, status>> /\ status = "other"
  BY <1>1 DEF OnClose, FallBack
<1> QED BY <1>2, LostKeepsView

\* Steps of the polling loop that leave the page as it is.
LEMMA PollingKeepsView ==
  ASSUME ViewInv, ws # "open", poll # Off,
         UNCHANGED <<mobile, output, ws, wire, status, cursor, screen>>,
         poll' \in PollStates, poll' # Off, PollFollows'
  PROVE  ViewInv'
<1>1. ViewTyped /\ KeptIsShown /\ WireFollows /\ DesktopFollows /\ StatusOfOpen
  BY DEF ViewInv
<1>2. Base' = Base
  BY DEF Base
<1>3. ViewTyped'
  BY <1>1 DEF ViewTyped
<1>4. KeptIsShown' /\ StatusOfOpen'
  BY <1>1, <1>2 DEF KeptIsShown, StatusOfOpen
<1>5. WireFollows'
  BY <1>1, <1>2 DEF WireFollows, Subscribed
<1>6. DesktopFollows'
  BY <1>1 DEF DesktopFollows
<1> QED BY <1>3, <1>4, <1>5, <1>6 DEF ViewInv
LEMMA AskKeepsView == ViewInv /\ Ask => ViewInv'
<1> SUFFICES ASSUME ViewInv, Ask PROVE ViewInv'
  OBVIOUS
<1>1. poll = Idle /\ UNCHANGED <<mobile, output, ws, wire, status, cursor, screen>>
  BY DEF Ask
<1>2. PICK p : p = [at |-> "asked", after |-> cursor]
  OBVIOUS
<1>3. poll' = p /\ p.at = "asked" /\ p.after = cursor
  BY <1>2 DEF Ask
<1>4. ViewTyped /\ PollFollows
  BY DEF ViewInv
<1>5. ws # "open" /\ poll # Off
  BY <1>1, <1>4, OffAndIdle DEF PollFollows
<1>6. p \in PollStates
  <2>1. cursor \in 0..MaxOutput
    BY <1>4, WireNumbers
  <2>2. p \in [at : {"asked"}, after : 0..MaxOutput]
    BY <1>2, <2>1
  <2> QED BY <2>2 DEF PollStates
<1>7. poll' # Off /\ PollFollows'
  BY <1>1, <1>3, <1>5, OffAndIdle DEF PollFollows
<1> QED BY <1>1, <1>3, <1>5, <1>6, <1>7, PollingKeepsView

\* An answer continues the page, or starts where the buffer starts.
LEMMA AnswerKeepsView == ViewInv /\ Answer => ViewInv'
<1> SUFFICES ASSUME ViewInv, Answer PROVE ViewInv'
  OBVIOUS
<1>1. poll.at = "asked" /\ UNCHANGED <<mobile, output, ws, wire, status, cursor, screen>>
  BY DEF Answer
<1>2. ViewTyped /\ PollFollows
  BY DEF ViewInv
<1>3. poll.after = cursor /\ ws # "open" /\ poll # Off
  BY <1>1, <1>2, OffAndIdle DEF PollFollows
<1>4. /\ MaxOutput \in Nat /\ output \in Nat /\ cursor \in Nat /\ cursor <= output
      /\ output <= MaxOutput
  BY <1>2, WireNumbers
<1>5. Base \in Nat /\ Base <= output
  BY <1>4, BaseBelow
<1>6. PICK lo : lo = (IF cursor < Base THEN Base ELSE cursor)
  OBVIOUS
<1>7. PICK over \in BOOLEAN : over = (cursor < Base)
  <2>1. (cursor < Base) \in BOOLEAN
    OBVIOUS
  <2> QED BY <2>1, Zenon
<1>8. PICK p : p = [at |-> "answered", lo |-> lo, hi |-> output, overflow |-> over]
  OBVIOUS
<1>9. poll' = p
  <2>1. poll' = [at |-> "answered",
                 lo |-> IF poll.after < Base THEN Base ELSE poll.after,
                 hi |-> output, overflow |-> poll.after < Base]
    BY DEF Answer
  <2> QED BY <1>3, <1>6, <1>7, <1>8, <2>1, Zenon
<1>10. p.at = "answered" /\ p.lo = lo /\ p.hi = output /\ (p.overflow <=> over)
  BY <1>8
<1>11. lo \in Nat /\ lo <= output /\ IF over THEN lo <= Base /\ cursor < lo ELSE lo = cursor
  <2>1. CASE cursor < Base
    <3>1. over /\ lo = Base
      BY <1>6, <1>7, <2>1
    <3> QED BY <1>4, <1>5, <2>1, <3>1
  <2>2. CASE ~(cursor < Base)
    <3>1. ~over /\ lo = cursor
      BY <1>6, <1>7, <2>2
    <3> QED BY <1>4, <1>5, <2>2, <3>1
  <2> QED BY <2>1, <2>2
<1>12. p \in PollStates
  <2>1. lo \in 0..MaxOutput /\ output \in 0..MaxOutput
    BY <1>4, <1>11
  <2>2. p \in [at : {"answered"}, lo : 0..MaxOutput, hi : 0..MaxOutput, overflow : BOOLEAN]
    BY <1>7, <1>8, <2>1
  <2> QED BY <2>2 DEF PollStates
<1>13. Base' = Base
  BY <1>1 DEF Base
<1>14. poll' # Off /\ PollFollows'
  BY <1>1, <1>3, <1>4, <1>5, <1>9, <1>10, <1>11, <1>13, OffAndIdle DEF PollFollows
<1> QED BY <1>1, <1>3, <1>9, <1>12, <1>14, PollingKeepsView

LEMMA RequestFailsKeepsView == ViewInv /\ RequestFails => ViewInv'
<1> SUFFICES ASSUME ViewInv, RequestFails PROVE ViewInv'
  OBVIOUS
<1>1. /\ poll.at \in {"asked", "answered"} /\ poll' = Idle
      /\ UNCHANGED <<mobile, output, ws, wire, status, cursor, screen>>
  BY DEF RequestFails
<1>2. ws # "open" /\ poll # Off
  BY <1>1, OffAndIdle DEF ViewInv, PollFollows
<1>3. poll' \in PollStates /\ poll' # Off /\ PollFollows'
  BY <1>1, <1>2, OffAndIdle DEF PollFollows
<1> QED BY <1>1, <1>2, <1>3, PollingKeepsView

\* The page goes on, or starts over where the buffer starts.
LEMMA OnAnswerKeepsView == ViewInv /\ OnAnswer => ViewInv'
<1> SUFFICES ASSUME ViewInv, OnAnswer PROVE ViewInv'
  OBVIOUS
<1>1. /\ poll.at = "answered" /\ cursor' = poll.hi /\ poll' = Idle
      /\ UNCHANGED <<mobile, output, ws, wire, status>>
  BY DEF OnAnswer
<1>2. ViewTyped /\ KeptIsShown /\ WireFollows /\ PollFollows /\ DesktopFollows /\ StatusOfOpen
  BY DEF ViewInv
<1>3. /\ MaxOutput \in Nat /\ output \in Nat /\ cursor \in Nat /\ cursor <= output
      /\ output <= MaxOutput
      /\ Len(wire) \in Nat /\ DOMAIN wire = 1..Len(wire) /\ (wire = <<>> <=> Len(wire) = 0)
  BY <1>2, WireNumbers
<1>4. poll.lo \in 0..MaxOutput /\ poll.hi \in 0..MaxOutput /\ poll.overflow \in BOOLEAN
  BY <1>1, <1>2, PollFields DEF ViewTyped
<1>5. /\ poll.lo <= poll.hi /\ poll.hi <= output
      /\ IF poll.overflow THEN poll.lo <= Base /\ cursor < poll.lo ELSE poll.lo = cursor
      /\ ws # "open" /\ poll # Off
  BY <1>1, <1>2, OffAndIdle DEF PollFollows
<1>6. Base \in Nat /\ Base <= output /\ Base' = Base
  BY <1>1, <1>3, BaseBelow DEF Base
<1>7. PICK s : s = (IF poll.overflow THEN <<>> ELSE screen)
  OBVIOUS
<1>8. s \in Seq(1..MaxOutput) /\ screen' = s \o Text(poll.lo, poll.hi)
  <2>1. screen \in Seq(1..MaxOutput) /\ <<>> \in Seq(1..MaxOutput)
    BY <1>2, EmptySeq DEF ViewTyped
  <2>2. s \in Seq(1..MaxOutput)
    BY <1>7, <2>1
  <2>3. screen' = s \o Text(poll.lo, poll.hi)
    BY <1>7 DEF OnAnswer
  <2> QED BY <2>2, <2>3
<1>9. /\ screen' \in Seq(1..MaxOutput)
      /\ \A i \in DOMAIN s : i \in DOMAIN screen' /\ screen'[i] = s[i]
      /\ \A n \in (poll.lo + 1)..poll.hi : \E i \in DOMAIN screen' : screen'[i] = n
      /\ InOrder(s, poll.lo) /\ poll.lo <= poll.hi => InOrder(screen', poll.hi)
  <2>1. PICK lo \in 0..MaxOutput : lo = poll.lo
    BY <1>4
  <2>2. PICK hi \in 0..MaxOutput : hi = poll.hi
    BY <1>4
  <2>3. screen' = s \o Text(lo, hi)
    BY <1>8, <2>1, <2>2
  <2>4. /\ s \o Text(lo, hi) \in Seq(1..MaxOutput)
        /\ \A i \in DOMAIN s : i \in DOMAIN (s \o Text(lo, hi)) /\ (s \o Text(lo, hi))[i] = s[i]
        /\ \A n \in (lo + 1)..hi : \E i \in DOMAIN (s \o Text(lo, hi)) : (s \o Text(lo, hi))[i] = n
        /\ InOrder(s, lo) /\ lo <= hi => InOrder(s \o Text(lo, hi), hi)
    BY <1>8, TextJoins
  <2> QED BY <2>1, <2>2, <2>3, <2>4
<1>10. cursor <= cursor' /\ cursor' \in 0..output
  BY <1>1, <1>3, <1>4, <1>5
<1>11. ViewTyped'
  BY <1>1, <1>2, <1>9, <1>10, OffAndIdle DEF ViewTyped
<1>12. KeptIsShown'
  <2>1. ASSUME NEW n \in (Base + 1)..cursor' PROVE \E i \in DOMAIN screen' : screen'[i] = n
    <3>1. CASE n > poll.lo
      <4>1. n \in (poll.lo + 1)..poll.hi
        BY <1>1, <1>4, <1>6, <3>1
      <4> QED BY <1>9, <4>1
    <3>2. CASE ~(n > poll.lo)
      <4>1. ~poll.overflow /\ n \in (Base + 1)..cursor
        BY <1>3, <1>4, <1>5, <1>6, <3>2
      <4>2. PICK i \in DOMAIN screen : screen[i] = n
        BY <1>2, <4>1 DEF KeptIsShown
      <4>3. s = screen
        BY <1>7, <4>1
      <4> QED BY <1>9, <4>2, <4>3
    <3> QED BY <3>1, <3>2
  <2> QED BY <1>6, <2>1 DEF KeptIsShown
<1>13. WireFollows'
  <2>1. CASE ~Subscribed
    BY <1>1, <1>2, <2>1 DEF WireFollows, Subscribed
  <2>2. CASE Subscribed
    <3>1. /\ wire = <<>> => cursor = output
          /\ wire # <<>> => /\ wire[Len(wire)].hi = output
                            /\ IF wire[1].replay THEN wire[1].lo <= Base ELSE wire[1].lo <= cursor
          /\ \A i \in 1..(Len(wire) - 1) : wire[i + 1].lo = wire[i].hi /\ ~wire[i + 1].replay
          /\ \A i \in DOMAIN wire : wire[i].lo < wire[i].hi /\ wire[i].hi <= output
          /\ \A n \in (Base + 1)..output :
               n <= cursor \/ \E i \in DOMAIN wire : wire[i].lo < n /\ n <= wire[i].hi
      BY <1>2, <2>2 DEF WireFollows
    <3>2. wire = <<>> => cursor' = output
      BY <1>3, <1>10, <3>1
    <3>3. wire # <<>> => IF wire[1].replay THEN wire[1].lo <= Base ELSE wire[1].lo <= cursor'
      <4> SUFFICES ASSUME wire # <<>>
                   PROVE  IF wire[1].replay THEN wire[1].lo <= Base ELSE wire[1].lo <= cursor'
        OBVIOUS
      <4>1. 1 \in DOMAIN wire
        BY <1>3
      <4>2. wire[1].lo \in Nat
        BY <1>2, <4>1, WireNumbers
      <4> QED BY <1>3, <1>10, <3>1, <4>2
    <3>4. ASSUME NEW n \in (Base + 1)..output
          PROVE  n <= cursor' \/ \E i \in DOMAIN wire : wire[i].lo < n /\ n <= wire[i].hi
      <4>1. n \in Nat
        BY <1>6
      <4>2. n <= cursor => n <= cursor'
        BY <1>3, <1>10, <4>1
      <4> QED BY <3>1, <4>2
    <3>5. Subscribed'
      BY <1>1, <2>2 DEF Subscribed
    <3> QED BY <1>1, <1>6, <3>1, <3>2, <3>3, <3>4, <3>5 DEF WireFollows
  <2> QED BY <2>1, <2>2
<1>14. PollFollows' /\ StatusOfOpen'
  BY <1>1, <1>5, OffAndIdle DEF PollFollows, StatusOfOpen
<1>15. DesktopFollows'
  <2>1. ASSUME ~mobile PROVE ws = "none" /\ InOrder(s, poll.lo)
    <3>1. ws = "none" /\ InOrder(screen, cursor)
      BY <1>2, <1>5, <2>1 DEF DesktopFollows
    <3>2. InOrder(<<>>, poll.lo)
      BY DEF InOrder
    <3> QED BY <1>5, <1>7, <3>1, <3>2
  <2>2. ~mobile => InOrder(screen', cursor')
    BY <1>1, <1>5, <1>9, <2>1
  <2> QED BY <1>1, <2>1, <2>2, OffAndIdle DEF DesktopFollows
<1> QED BY <1>11, <1>12, <1>13, <1>14, <1>15 DEF ViewInv
\* The page writes what comes first on its connection.
LEMMA OnMessageKeepsView == ViewInv /\ OnMessage => ViewInv'
<1> SUFFICES ASSUME ViewInv, OnMessage PROVE ViewInv'
  OBVIOUS
<1>1. /\ ws = "open" /\ wire # <<>> /\ wire' = Tail(wire)
      /\ screen' = screen \o Written(Head(wire))
      /\ cursor' = IF Head(wire).hi > cursor THEN Head(wire).hi ELSE cursor
      /\ UNCHANGED <<mobile, output, ws, poll, status>>
  BY DEF OnMessage
<1>2. ViewTyped /\ KeptIsShown /\ WireFollows /\ PollFollows /\ DesktopFollows /\ StatusOfOpen
  BY DEF ViewInv
<1>3. /\ MaxOutput \in Nat /\ output \in Nat /\ cursor \in Nat /\ cursor <= output
      /\ output <= MaxOutput
      /\ Len(wire) \in Nat /\ DOMAIN wire = 1..Len(wire) /\ (wire = <<>> <=> Len(wire) = 0)
  BY <1>2, WireNumbers
<1>4. Base \in Nat /\ Base <= output /\ Base' = Base
  BY <1>1, <1>3, BaseBelow DEF Base
<1>5. PICK f : f = wire[1]
  OBVIOUS
<1>6. /\ 1 \in DOMAIN wire /\ Head(wire) = f /\ f.lo \in Nat /\ f.hi \in Nat
      /\ f.lo <= MaxOutput /\ f.hi <= MaxOutput /\ f.replay \in BOOLEAN
  <2>1. 1 \in DOMAIN wire
    BY <1>1, <1>3
  <2> QED BY <1>2, <1>5, <2>1, WireNumbers
<1>7. /\ IF f.replay THEN f.lo <= Base ELSE f.lo <= cursor
      /\ wire[Len(wire)].hi = output
      /\ \A i \in 1..(Len(wire) - 1) : wire[i + 1].lo = wire[i].hi /\ ~wire[i + 1].replay
      /\ \A i \in DOMAIN wire : wire[i].lo < wire[i].hi /\ wire[i].hi <= output
      /\ \A n \in (Base + 1)..output :
           n <= cursor \/ \E i \in DOMAIN wire : wire[i].lo < n /\ n <= wire[i].hi
  BY <1>1, <1>2, <1>5 DEF WireFollows, Subscribed
<1>8. f.lo < f.hi /\ f.hi <= output
  BY <1>5, <1>6, <1>7
<1>9. PICK w : w = Tail(wire)
  OBVIOUS
<1>10. /\ w \in Seq(Frames) /\ Len(w) = Len(wire) - 1 /\ DOMAIN w = 1..(Len(wire) - 1)
       /\ \A i \in 1..(Len(wire) - 1) : w[i] = wire[i + 1]
       /\ (w = <<>> <=> Len(wire) = 1)
  <2>1. wire \in Seq(Frames)
    BY <1>2 DEF ViewTyped
  <2>2. /\ w \in Seq(Frames) /\ Len(w) = Len(wire) - 1
        /\ \A i \in 1..Len(w) : w[i] = wire[i + 1]
    BY <1>1, <1>9, <2>1, HeadTailProperties
  <2>3. DOMAIN w = 1..Len(w) /\ (w = <<>> <=> Len(w) = 0)
    BY <2>2, LenProperties
  <2> QED BY <1>3, <2>2, <2>3
<1>11. PICK c : c = (IF f.hi > cursor THEN f.hi ELSE cursor)
  OBVIOUS
<1>12. /\ cursor' = c /\ c \in Nat /\ cursor <= c /\ c <= output /\ f.hi <= c
       /\ (c = f.hi \/ c = cursor)
  <2>1. cursor' = c
    BY <1>1, <1>6, <1>11
  <2>2. CASE f.hi > cursor
    BY <1>3, <1>6, <1>8, <1>11, <2>1, <2>2
  <2>3. CASE ~(f.hi > cursor)
    BY <1>3, <1>6, <1>11, <2>1, <2>3
  <2> QED BY <2>2, <2>3
<1>13. PICK lo : lo = (IF f.replay THEN IF cursor > f.lo THEN cursor ELSE f.lo ELSE f.lo)
  OBVIOUS
<1>14. /\ lo \in 0..MaxOutput /\ f.hi \in 0..MaxOutput
       /\ screen' = screen \o Text(lo, f.hi)
  <2>1. lo \in 0..MaxOutput /\ f.hi \in 0..MaxOutput
    <3>1. lo = cursor \/ lo = f.lo
      BY <1>13
    <3> QED BY <1>3, <1>6, <3>1
  <2>2. Written(f) = Text(lo, f.hi)
    BY <1>13 DEF Written
  <2> QED BY <1>1, <1>6, <2>1, <2>2
<1>15. screen \in Seq(1..MaxOutput)
  BY <1>2 DEF ViewTyped
<1>16. /\ screen' \in Seq(1..MaxOutput)
       /\ \A i \in DOMAIN screen : i \in DOMAIN screen' /\ screen'[i] = screen[i]
       /\ \A n \in (lo + 1)..f.hi : \E i \in DOMAIN screen' : screen'[i] = n
       /\ InOrder(screen, lo) /\ lo <= f.hi => InOrder(screen', f.hi)
  <2>1. PICK hi \in 0..MaxOutput : hi = f.hi
    BY <1>14
  <2>2. /\ screen \o Text(lo, hi) \in Seq(1..MaxOutput)
        /\ \A i \in DOMAIN screen : /\ i \in DOMAIN (screen \o Text(lo, hi))
                                    /\ (screen \o Text(lo, hi))[i] = screen[i]
        /\ \A n \in (lo + 1)..hi :
             \E i \in DOMAIN (screen \o Text(lo, hi)) : (screen \o Text(lo, hi))[i] = n
        /\ InOrder(screen, lo) /\ lo <= hi => InOrder(screen \o Text(lo, hi), hi)
    BY <1>14, <1>15, TextJoins
  <2> QED BY <1>14, <2>1, <2>2
<1>17. ViewTyped'
  <2>1. cursor' \in 0..output
    BY <1>3, <1>12
  <2> QED BY <1>1, <1>2, <1>9, <1>10, <1>16, <2>1 DEF ViewTyped
<1>18. KeptIsShown'
  <2>1. ASSUME NEW n \in (Base + 1)..c PROVE \E i \in DOMAIN screen' : screen'[i] = n
    <3>0. n \in Nat /\ n > Base /\ n <= c
      BY <1>4, <1>12
    <3>1. CASE n <= cursor
      <4>1. n \in (Base + 1)..cursor
        BY <1>3, <1>4, <3>0, <3>1
      <4>2. PICK i \in DOMAIN screen : screen[i] = n
        BY <1>2, <4>1 DEF KeptIsShown
      <4> QED BY <1>16, <4>2
    <3>2. CASE ~(n <= cursor)
      <4>1. lo < n
        <5>1. lo = cursor \/ (f.replay /\ lo = f.lo) \/ (~f.replay /\ lo = f.lo)
          BY <1>13
        <5> QED BY <1>3, <1>4, <1>6, <1>7, <3>0, <3>2, <5>1
      <4>2. n <= f.hi
        BY <1>3, <1>12, <3>0, <3>2
      <4>3. n \in (lo + 1)..f.hi
        BY <1>6, <1>14, <3>0, <4>1, <4>2
      <4> QED BY <1>16, <4>3
    <3> QED BY <3>1, <3>2
  <2> QED BY <1>4, <1>12, <2>1 DEF KeptIsShown
<1>19. w # <<>> => 1 \in 1..(Len(wire) - 1) /\ w[1].lo = f.hi /\ ~w[1].replay
  <2> SUFFICES ASSUME w # <<>>
               PROVE  1 \in 1..(Len(wire) - 1) /\ w[1].lo = f.hi /\ ~w[1].replay
    OBVIOUS
  <2>1. 1 \in 1..(Len(wire) - 1)
    BY <1>1, <1>3, <1>10
  <2>2. w[1] = wire[1 + 1] /\ wire[1 + 1].lo = wire[1].hi /\ ~wire[1 + 1].replay
    BY <1>7, <1>10, <2>1
  <2> QED BY <1>5, <2>1, <2>2
<1>20. WireFollows'
  <2>1. Subscribed'
    BY <1>1 DEF Subscribed
  <2>2. w = <<>> => c = output
    <3> SUFFICES ASSUME w = <<>> PROVE c = output
      OBVIOUS
    <3>1. f.hi = output
      BY <1>5, <1>7, <1>10
    <3> QED BY <1>3, <1>12, <3>1
  <2>3. w # <<>> => w[Len(w)].hi = output
    <3> SUFFICES ASSUME w # <<>> PROVE w[Len(w)].hi = output
      OBVIOUS
    <3>1. Len(w) \in 1..(Len(wire) - 1) /\ Len(w) + 1 = Len(wire)
      BY <1>3, <1>10, <1>19
    <3>2. w[Len(w)] = wire[Len(w) + 1]
      BY <1>10, <3>1
    <3> QED BY <1>7, <3>1, <3>2
  <2>4. w # <<>> => IF w[1].replay THEN w[1].lo <= Base ELSE w[1].lo <= c
    BY <1>12, <1>19
  <2>5. ASSUME NEW i \in 1..(Len(w) - 1)
        PROVE  w[i + 1].lo = w[i].hi /\ ~w[i + 1].replay
    <3>1. i \in 1..(Len(wire) - 1) /\ i + 1 \in 1..(Len(wire) - 1)
      BY <1>3, <1>10
    <3>2. w[i] = wire[i + 1] /\ w[i + 1] = wire[(i + 1) + 1]
      BY <1>10, <3>1
    <3> QED BY <1>7, <3>1, <3>2
  <2>6. ASSUME NEW i \in DOMAIN w PROVE w[i].lo < w[i].hi /\ w[i].hi <= output
    <3>1. i \in 1..(Len(wire) - 1) /\ i + 1 \in DOMAIN wire
      BY <1>3, <1>10
    <3> QED BY <1>7, <1>10, <3>1
  <2>7. ASSUME NEW n \in (Base + 1)..output
        PROVE  n <= c \/ \E i \in DOMAIN w : w[i].lo < n /\ n <= w[i].hi
    <3>0. n \in Nat
      BY <1>4
    <3>1. CASE n <= cursor
      BY <1>3, <1>12, <3>0, <3>1
    <3>2. CASE \E i \in DOMAIN wire : wire[i].lo < n /\ n <= wire[i].hi
      <4>1. PICK i \in DOMAIN wire : wire[i].lo < n /\ n <= wire[i].hi
        BY <3>2
      <4>2. CASE i = 1
        BY <1>5, <1>6, <1>12, <3>0, <4>1, <4>2
      <4>3. CASE i # 1
        <5>1. i - 1 \in 1..(Len(wire) - 1) /\ (i - 1) + 1 = i
          BY <1>3, <4>3
        <5>2. i - 1 \in DOMAIN w /\ w[i - 1] = wire[i]
          <6>1. w[i - 1] = wire[(i - 1) + 1]
            BY <1>10, <5>1
          <6> QED BY <1>10, <5>1, <6>1
        <5> QED BY <4>1, <5>2
      <4> QED BY <4>2, <4>3
    <3> QED BY <1>7, <3>1, <3>2
  <2> QED BY <1>1, <1>4, <1>9, <1>12, <2>1, <2>2, <2>3, <2>4, <2>5, <2>6, <2>7 DEF WireFollows
<1>21. PollFollows' /\ StatusOfOpen'
  BY <1>1, <1>2, OffAndIdle DEF PollFollows, StatusOfOpen
<1>22. ASSUME ~mobile PROVE InOrder(screen', c) /\ c = f.hi
  <2>1. InOrder(screen, cursor)
    BY <1>2, <1>22 DEF DesktopFollows
  <2>2. IF f.replay THEN cursor = 0 /\ screen = <<>> ELSE f.lo = cursor
    BY <1>1, <1>2, <1>5, <1>22 DEF DesktopFollows
  <2>3. InOrder(screen, lo) /\ lo <= f.hi /\ f.hi > cursor
    <3>1. CASE f.replay
      <4>1. lo = f.lo
        BY <1>6, <1>13, <2>2, <3>1
      <4>2. InOrder(screen, lo)
        BY <2>2, <3>1 DEF InOrder
      <4> QED BY <1>6, <1>8, <2>2, <3>1, <4>1, <4>2
    <3>2. CASE ~f.replay
      <4>1. lo = cursor
        BY <1>13, <2>2, <3>2
      <4> QED BY <1>3, <1>6, <1>8, <2>1, <2>2, <3>2, <4>1
    <3> QED BY <3>1, <3>2
  <2> QED BY <1>11, <1>16, <2>3
<1>23. DesktopFollows'
  BY <1>1, <1>2, <1>9, <1>12, <1>19, <1>22 DEF DesktopFollows
<1> QED BY <1>17, <1>18, <1>20, <1>21, <1>23 DEF ViewInv

LEMMA OpenKeepsView == ViewInv /\ Open => ViewInv'
<1> SUFFICES ASSUME ViewInv, Open PROVE ViewInv'
  OBVIOUS
<1>1. /\ ws = "none" /\ ws' = "connecting" /\ cursor' = 0 /\ screen' = <<>>
      /\ poll' = (IF mobile THEN Idle ELSE Off)
      /\ status' = (IF mobile THEN "HTTP" ELSE "Connecting")
      /\ UNCHANGED <<mobile, output, wire>>
  BY DEF Open, Stranded, Opening
<1>2. ViewTyped /\ WireFollows
  BY DEF ViewInv
<1>3. output \in Nat /\ Base \in Nat
  BY <1>2, WireNumbers, BaseBelow
<1>4. Base' = Base
  BY <1>1 DEF Base
<1>5. ViewTyped'
  <2>1. 0 \in 0..output /\ <<>> \in Seq(1..MaxOutput)
    BY <1>3, EmptySeq
  <2>2. poll' \in PollStates /\ status' \in {"Connecting", "Connected", "HTTP", "other"}
    BY <1>1, OffAndIdle
  <2> QED BY <1>1, <1>2, <2>1, <2>2 DEF ViewTyped
<1>6. KeptIsShown'
  BY <1>1, <1>3, <1>4 DEF KeptIsShown
<1>7. WireFollows'
  BY <1>1, <1>2 DEF WireFollows, Subscribed
<1>8. PollFollows' /\ StatusOfOpen'
  BY <1>1, OffAndIdle DEF PollFollows, StatusOfOpen
<1>9. DesktopFollows'
  BY <1>1 DEF DesktopFollows, InOrder
<1> QED BY <1>5, <1>6, <1>7, <1>8, <1>9 DEF ViewInv

LEMMA OtherStatusKeepsView == ViewInv /\ OtherStatus => ViewInv'
<1> SUFFICES ASSUME ViewInv, OtherStatus PROVE ViewInv'
  OBVIOUS
<1>1. /\ ws = "open" /\ status' = "other"
      /\ UNCHANGED <<mobile, output, ws, wire, poll, cursor, screen>>
  BY DEF OtherStatus
<1>2. ViewTyped /\ KeptIsShown /\ WireFollows /\ PollFollows /\ DesktopFollows
  BY DEF ViewInv
<1>3. Base' = Base
  BY <1>1 DEF Base
<1> QED
  BY <1>1, <1>2, <1>3
  DEF ViewInv, ViewTyped, KeptIsShown, WireFollows, Subscribed, PollFollows, DesktopFollows,
      StatusOfOpen

\* A desktop page shows the output in order, each piece once and with no gap;
\* on an open connection nothing that is still kept is missing; and a desktop
\* page without a transport had lost its status line.
LEMMA ViewInvIsWhole == ViewInv => ViewIsWhole
<1> SUFFICES ASSUME ViewInv PROVE ViewIsWhole
  OBVIOUS
<1>1. ViewTyped /\ KeptIsShown /\ WireFollows /\ PollFollows /\ DesktopFollows /\ StatusOfOpen
  BY DEF ViewInv
<1>2. screen \in Seq(1..MaxOutput)
  BY <1>1 DEF ViewTyped
<1>3. ViewTypeOK
  <2>1. \A i \in DOMAIN wire : wire[i] \in Frames
    BY <1>1, WireNumbers
  <2>2. \A i \in DOMAIN screen : screen[i] \in 1..MaxOutput
    BY <1>2, LenProperties
  <2>3. output \in 0..MaxOutput /\ cursor \in 0..MaxOutput
    <3>1. /\ MaxOutput \in Nat /\ output \in Nat /\ output <= MaxOutput /\ cursor \in Nat
          /\ cursor <= output
      BY <1>1, WireNumbers
    <3> QED BY <3>1
  <2> QED BY <1>1, <2>1, <2>2, <2>3 DEF ViewTypeOK, ViewTyped
<1>4. DesktopInOrder
  <2> SUFFICES ASSUME ~mobile, screen # <<>>
               PROVE  /\ \A i \in 1..(Len(screen) - 1) : screen[i + 1] = screen[i] + 1
                      /\ Last(screen) = cursor
    BY DEF DesktopInOrder
  <2>1. InOrder(screen, cursor)
    BY <1>1 DEF DesktopFollows
  <2> QED BY <2>1 DEF InOrder, Last
<1>5. NothingKeptIsMissed
  <2> SUFFICES ASSUME ws = "open", NEW n \in (Base + 1)..output
               PROVE  \/ n \in ToSet(screen)
                      \/ \E f \in ToSet(wire) : f.lo < n /\ n <= f.hi
    BY DEF NothingKeptIsMissed
  <2>1. Base \in Nat /\ output \in Nat /\ cursor \in Nat
    BY <1>1, WireNumbers, BaseBelow
  <2>2. n <= cursor \/ \E i \in DOMAIN wire : wire[i].lo < n /\ n <= wire[i].hi
    BY <1>1 DEF WireFollows, Subscribed
  <2>3. CASE n <= cursor
    <3>1. n \in (Base + 1)..cursor
      BY <2>1, <2>3
    <3>2. PICK i \in DOMAIN screen : screen[i] = n
      BY <1>1, <3>1 DEF KeptIsShown
    <3> QED BY <3>2 DEF ToSet
  <2>4. CASE \E i \in DOMAIN wire : wire[i].lo < n /\ n <= wire[i].hi
    BY <2>4 DEF ToSet
  <2> QED BY <2>2, <2>3, <2>4
<1>6. StrandedByStatus
  BY <1>1 DEF StrandedByStatus, Stranded, DesktopFollows
<1> QED BY <1>3, <1>4, <1>5, <1>6 DEF ViewIsWhole

\* A page that changes its transport in the middle of the output neither loses
\* nor repeats any of it, however the connection and the requests fail.
THEOREM PageFollowsTerminal == ViewSpec => []ViewIsWhole
<1>1. ViewInv /\ [ViewNext]_viewVars => ViewInv'
  <2> SUFFICES ASSUME ViewInv, [ViewNext]_viewVars PROVE ViewInv'
    OBVIOUS
  <2>1. CASE UNCHANGED viewVars
    <3>1. UNCHANGED <<mobile, output, ws, wire, poll, status, cursor, screen>>
      BY <2>1 DEF viewVars
    <3>2. Base' = Base
      BY <3>1 DEF Base
    <3> QED
      BY <3>1, <3>2
      DEF ViewInv, ViewTyped, KeptIsShown, WireFollows, Subscribed, PollFollows,
          DesktopFollows, StatusOfOpen
  <2> QED
    BY <2>1, ProduceKeepsView, ServerAttachesKeepsView, OnOpenKeepsView, OnMessageKeepsView,
       OnErrorKeepsView, OnCloseKeepsView, OtherStatusKeepsView, AskKeepsView, AnswerKeepsView,
       OnAnswerKeepsView, RequestFailsKeepsView, OpenKeepsView
    DEF ViewNext
<1> QED BY <1>1, ViewInitHolds, ViewInvIsWhole, PTL DEF ViewSpec
-----------------------------------------------------------------------------
(***************************************************************************)
(* The page of a chat.  While the page follows the running gateway, what   *)
(* its stream has still to send begins no later than the line after its    *)
(* cursor, or where the buffer begins, has no gap, and ends with the last  *)
(* line that was handed to the streams; a history answer begins no later.  *)
(***************************************************************************)

PageLine == [boot : 0..MaxRestarts, seq : Seqs]
Following == sessionId /\ ~behind

\* Lines p of the start b that end at c; what they leave out, the buffer lost by e.
Ordered(p, c, b, e) ==
  /\ \A i \in DOMAIN p :
       /\ p[i].boot = b
       /\ p[i].seq > (IF i = 1 THEN 0 ELSE p[i - 1].seq)
       /\ \/ p[i].seq <= (IF i = 1 THEN 0 ELSE p[i - 1].seq) + 1
          \/ p[i].seq <= e + 1
  /\ c = IF p = <<>> THEN 0 ELSE p[Len(p)].seq

(* The last line that the streams have been handed. *)
Handed == IF writer = "stored" THEN stored - 1 ELSE stored

RequestTyped(h) ==
  \/ h.at = "asked" /\ h.cursor \in 0..MaxLines
  \/ h.at = "answered" /\ h.lo \in 0..MaxLines /\ h.hi \in 0..MaxLines
StreamTyped ==
  /\ boot \in 0..MaxRestarts
  /\ stored \in 0..MaxLines /\ writer \in {"idle", "stored"} /\ (writer = "stored" => stored > 0)
  /\ stream \in {NoRequest} \cup [at : {"asked", "live"}, cursor : 0..MaxLines]
  /\ feed \in Seq(Seqs) /\ lineCursor \in 0..MaxLines /\ page \in Seq(PageLine)
  /\ sessionId \in BOOLEAN /\ retry \in BOOLEAN /\ behind \in BOOLEAN
  /\ resolving \in {"closed", "none", "asked", "session", "waiting"}
  /\ \A h \in histories : RequestTyped(h)
RequestsOfSession ==
  /\ behind => sessionId
  /\ resolving = "session" => Known
  /\ histories # {} => sessionId /\ Known /\ resolving # "waiting"
PageOrdered == Following => Ordered(page, lineCursor, boot, Evicted) /\ lineCursor <= stored
RequestFollows(h) ==
  /\ h.at = "asked" => h.cursor <= lineCursor
  /\ h.at = "answered" => h.hi <= stored /\ (h.lo <= lineCursor \/ h.lo <= Evicted)
RequestsFollow ==
  Following =>
    /\ stream # NoRequest => stream.cursor <= lineCursor
    /\ \A h \in histories : RequestFollows(h)
FeedFollows ==
  Following /\ stream.at = "live" =>
    /\ IF feed = <<>> THEN Handed <= lineCursor
       ELSE Handed <= feed[Len(feed)] /\ (feed[1] <= lineCursor + 1 \/ feed[1] <= Evicted + 1)
    /\ \A i \in 1..(Len(feed) - 1) : feed[i + 1] <= feed[i] + 1
    /\ \A i \in DOMAIN feed : feed[i] <= stored
    /\ \A seq \in (Evicted + 1)..stored :
         \/ seq <= lineCursor \/ \E i \in DOMAIN feed : feed[i] = seq
         \/ writer = "stored" /\ seq = stored
StreamInv == StreamTyped /\ RequestsOfSession /\ PageOrdered /\ RequestsFollow /\ FeedFollows

LEMMA LargerIs ==
  ASSUME NEW a \in Nat, NEW b \in Nat
  PROVE  Larger(a, b) \in Nat /\ Larger(a, b) >= a /\ Larger(a, b) >= b /\ Larger(a, b) \in {a, b}
<1>1. CASE a > b
  BY <1>1 DEF Larger
<1>2. CASE ~(a > b)
  BY <1>2 DEF Larger
<1> QED BY <1>1, <1>2

LEMMA EvictedBelow ==
  ASSUME stored \in Nat
  PROVE  Evicted \in Nat /\ Evicted <= stored /\ (stored > 0 => Evicted < stored)
<1>1. CASE stored > BufferSize
  <2>1. Evicted = stored - BufferSize
    BY <1>1 DEF Evicted
  <2> QED BY <1>1, <2>1, BufferSizePositive
<1>2. CASE ~(stored > BufferSize)
  <2>1. Evicted = 0
    BY <1>2 DEF Evicted
  <2> QED BY <2>1
<1> QED BY <1>1, <1>2

LEMMA EvictedRises ==
  ASSUME stored \in Nat, stored' = stored + 1
  PROVE  Evicted' \in Nat /\ Evicted <= Evicted' /\ Evicted' <= stored
<1>1. CASE stored' > BufferSize
  <2>1. Evicted' = stored' - BufferSize
    BY <1>1 DEF Evicted
  <2>2. CASE stored > BufferSize
    <3>1. Evicted = stored - BufferSize
      BY <2>2 DEF Evicted
    <3> QED BY <1>1, <2>1, <3>1, BufferSizePositive
  <2>3. CASE ~(stored > BufferSize)
    <3>1. Evicted = 0
      BY <2>3 DEF Evicted
    <3> QED BY <1>1, <2>1, <3>1, BufferSizePositive
  <2> QED BY <2>2, <2>3
<1>2. CASE ~(stored' > BufferSize)
  <2>1. Evicted' = 0 /\ Evicted = 0
    BY <1>2, BufferSizePositive DEF Evicted
  <2> QED BY <2>1
<1> QED BY <1>1, <1>2

LEMMA StreamNumbers ==
  ASSUME StreamTyped
  PROVE  /\ MaxLines \in Nat /\ stored \in Nat /\ stored <= MaxLines
         /\ lineCursor \in Nat /\ lineCursor <= MaxLines
         /\ Len(feed) \in Nat /\ DOMAIN feed = 1..Len(feed) /\ (feed = <<>> <=> Len(feed) = 0)
         /\ \A i \in DOMAIN feed : feed[i] \in Nat /\ feed[i] >= 1 /\ feed[i] <= MaxLines
         /\ NoRequest.at = "none"
         /\ stream = NoRequest \/ (/\ stream.at \in {"asked", "live"}
                                   /\ stream.cursor \in Nat /\ stream.cursor <= MaxLines)
         /\ Evicted \in Nat /\ Evicted <= stored /\ (stored > 0 => Evicted < stored)
<1>1. MaxLines \in Nat /\ stored \in Nat /\ stored <= MaxLines /\ lineCursor \in Nat /\ lineCursor <= MaxLines
  BY StreamBounds DEF StreamTyped
<1>2. feed \in Seq(Seqs)
  BY DEF StreamTyped
<1>3. Len(feed) \in Nat /\ DOMAIN feed = 1..Len(feed) /\ feed \in [1..Len(feed) -> Seqs]
  BY <1>2, LenProperties
<1>4. feed = <<>> <=> Len(feed) = 0
  BY <1>2
<1>5. \A i \in DOMAIN feed : feed[i] \in Nat /\ feed[i] >= 1 /\ feed[i] <= MaxLines
  BY <1>1, <1>3 DEF Seqs
<1>6. NoRequest.at = "none"
  BY DEF NoRequest
<1>7. stream = NoRequest \/ (/\ stream.at \in {"asked", "live"}
                             /\ stream.cursor \in Nat /\ stream.cursor <= MaxLines)
  <2>1. CASE stream \in [at : {"asked", "live"}, cursor : 0..MaxLines]
    BY <1>1, <2>1
  <2> QED BY <2>1 DEF StreamTyped
<1> QED BY <1>1, <1>3, <1>4, <1>5, <1>6, <1>7, EvictedBelow

\* The lines from the one after another one.
LEMMA RunOfLines ==
  ASSUME NEW from \in Nat, NEW k \in Nat, from + k <= MaxLines
  PROVE  /\ [i \in 1..k |-> from + i] \in Seq(Seqs)
         /\ Len([i \in 1..k |-> from + i]) = k
         /\ \A i \in 1..k : [j \in 1..k |-> from + j][i] = from + i
<1>1. PICK t : t = [i \in 1..k |-> from + i]
  OBVIOUS
<1>2. \A i \in 1..k : from + i \in Seqs
  BY StreamBounds DEF Seqs
<1>3. t \in [1..k -> Seqs] /\ DOMAIN t = 1..k /\ \A i \in 1..k : t[i] = from + i
  BY <1>1, <1>2
<1>4. t \in Seq(Seqs)
  BY <1>3, SeqDef, Zenon
<1>5. Len(t) = k
  BY <1>3, <1>4
<1> QED BY <1>1, <1>3, <1>4, <1>5

\* What a stream or a history request is handed of the buffer.
LEMMA SnapshotIs ==
  ASSUME StreamTyped, NEW c \in 0..MaxLines, NEW t, t = Snapshot(c)
  PROVE  /\ t \in Seq(Seqs) /\ (t = <<>> <=> c >= stored)
         /\ t # <<>> => t[Len(t)] = stored /\ (t[1] <= c + 1 \/ t[1] <= Evicted + 1)
         /\ \A i \in 1..(Len(t) - 1) : t[i + 1] <= t[i] + 1
         /\ \A i \in DOMAIN t : t[i] <= stored
         /\ \A seq \in (Evicted + 1)..stored : seq <= c \/ \E i \in DOMAIN t : t[i] = seq
<1>1. /\ MaxLines \in Nat /\ stored \in Nat /\ stored <= MaxLines
      /\ Evicted \in Nat /\ Evicted <= stored /\ (stored > 0 => Evicted < stored) /\ c \in Nat
  BY StreamNumbers
<1>2. CASE c >= stored
  <2>1. t = <<>>
    BY <1>2 DEF Snapshot
  <2>2. Len(t) = 0 /\ DOMAIN t = {} /\ t \in Seq(Seqs)
    BY <2>1, EmptySeq
  <2> QED BY <1>1, <1>2, <2>1, <2>2
<1>3. CASE ~(c >= stored)
  <2>1. PICK m \in Nat : /\ m = Larger(c, Evicted) /\ m >= c /\ m >= Evicted
                         /\ (m = c \/ m = Evicted)
    BY <1>1, LargerIs
  <2>2. PICK k \in Nat : k = stored - m /\ k >= 1
    BY <1>1, <1>3, <2>1
  <2>3. t = [i \in 1..k |-> m + i]
    BY <1>3, <2>1, <2>2 DEF Snapshot, After
  <2>4. m + k = stored /\ m + k <= MaxLines
    BY <1>1, <2>1, <2>2
  <2>5. t \in Seq(Seqs) /\ Len(t) = k /\ \A i \in 1..k : t[i] = m + i
    BY <2>3, <2>4, RunOfLines
  <2>6. DOMAIN t = 1..k
    BY <2>3
  <2>7. t # <<>> /\ t[Len(t)] = stored /\ (t[1] <= c + 1 \/ t[1] <= Evicted + 1)
    <3>1. 1 \in 1..k /\ k \in 1..k
      BY <2>2
    <3>2. t[1] = m + 1 /\ t[k] = m + k
      BY <2>5, <3>1
    <3>3. t # <<>>
      BY <2>2, <2>5
    <3> QED BY <1>1, <2>1, <2>4, <2>5, <3>2, <3>3
  <2>8. ASSUME NEW i \in 1..(Len(t) - 1) PROVE t[i + 1] <= t[i] + 1
    <3>1. i \in 1..k /\ i + 1 \in 1..k /\ i \in Nat
      BY <2>2, <2>5
    <3>2. t[i] = m + i /\ t[i + 1] = m + (i + 1)
      BY <2>5, <3>1
    <3> QED BY <2>1, <3>1, <3>2
  <2>9. ASSUME NEW i \in DOMAIN t PROVE t[i] <= stored
    <3>1. i \in 1..k /\ t[i] = m + i
      BY <2>5, <2>6
    <3> QED BY <1>1, <2>1, <2>4, <3>1
  <2>10. ASSUME NEW seq \in (Evicted + 1)..stored
         PROVE  seq <= c \/ \E i \in DOMAIN t : t[i] = seq
    <3>0. seq \in Nat /\ seq > Evicted /\ seq <= stored
      BY <1>1
    <3>1. CASE seq > m
      <4>1. seq - m \in 1..k /\ m + (seq - m) = seq
        BY <1>1, <2>1, <2>4, <3>0, <3>1
      <4>2. t[seq - m] = m + (seq - m)
        BY <2>5, <4>1
      <4> QED BY <2>6, <4>1, <4>2
    <3>2. CASE ~(seq > m)
      BY <1>1, <2>1, <3>0, <3>2
    <3> QED BY <3>1, <3>2
  <2> QED BY <1>3, <2>5, <2>7, <2>8, <2>9, <2>10
<1> QED BY <1>2, <1>3

LEMMA OrderedRises ==
  ASSUME NEW p \in Seq(PageLine), NEW c, NEW b, NEW e \in Nat, NEW f \in Nat, e <= f,
         Ordered(p, c, b, e)
  PROVE  Ordered(p, c, b, f)
<1>1. ASSUME NEW i \in DOMAIN p, p[i].seq <= e + 1 PROVE p[i].seq <= f + 1
  <2>1. p[i].seq \in Nat
    <3>1. p[i] \in PageLine
      BY LenProperties
    <3> QED BY <3>1, StreamBounds DEF PageLine, Seqs
  <2> QED BY <1>1, <2>1
<1> QED BY <1>1 DEF Ordered

LEMMA SecondOfRun ==
  ASSUME NEW n \in Nat, NEW k \in Nat, NEW i \in Nat, i > n + 1, i <= n + k
  PROVE  \E m \in 1..k : m + 1 \in 1..k /\ i = n + (m + 1) /\ i - 1 = n + m /\ i # 1
<1>1. PICK m \in Nat : m = i - (n + 1)
  OBVIOUS
<1>2. m \in 1..k /\ m + 1 \in 1..k /\ i = n + (m + 1) /\ i - 1 = n + m /\ i # 1
  BY <1>1
<1> QED BY <1>2

\* Lines that are put after a page, from where it ends or from where the buffer begins.
LEMMA OrderedJoins ==
  ASSUME NEW p \in Seq(PageLine), NEW q \in Seq(PageLine), NEW c \in Nat, NEW b, NEW e \in Nat,
         NEW from \in Nat, NEW k \in Nat, k >= 1, Len(q) = k,
         \A i \in 1..k : q[i].boot = b /\ q[i].seq = from + i,
         Ordered(p, c, b, e), c <= from, from = c \/ from <= e
  PROVE  p \o q \in Seq(PageLine) /\ Ordered(p \o q, from + k, b, e)
<1>1. PICK j : j = p \o q
  OBVIOUS
<1>2. PICK n \in Nat : n = Len(p)
  BY LenProperties
<1>3. /\ j \in Seq(PageLine) /\ Len(j) = n + k
      /\ \A i \in 1..(n + k) : j[i] = IF i <= n THEN p[i] ELSE q[i - n]
  BY ZenonT(30), <1>1, <1>2, ConcatProperties
<1>4. DOMAIN j = 1..(n + k) /\ DOMAIN p = 1..n
  BY <1>2, <1>3, LenProperties
<1>5. \A i \in 1..n : j[i] = p[i]
  BY <1>2, <1>3
<1>6. ASSUME NEW i \in 1..k PROVE j[n + i].boot = b /\ j[n + i].seq = from + i
  <2>1. n + i \in 1..(n + k) /\ ~(n + i <= n) /\ (n + i) - n = i
    BY <1>2
  <2>2. j[n + i] = q[i]
    BY <1>3, <2>1
  <2> QED BY <2>2
<1>7. \A i \in DOMAIN p : p[i].boot = b /\ p[i].seq \in Nat
  <2>1. \A i \in DOMAIN p : p[i] \in PageLine
    BY LenProperties
  <2> QED BY <2>1, StreamBounds DEF PageLine, Seqs, Ordered
<1>8. p # <<>> <=> n # 0
  BY <1>2
<1>9. ASSUME NEW i \in DOMAIN j
      PROVE  /\ j[i].boot = b
             /\ j[i].seq > (IF i = 1 THEN 0 ELSE j[i - 1].seq)
             /\ \/ j[i].seq <= (IF i = 1 THEN 0 ELSE j[i - 1].seq) + 1
                \/ j[i].seq <= e + 1
  <2>0. i \in Nat /\ i >= 1 /\ i <= n + k
    BY <1>4
  <2>1. CASE i <= n
    <3>1. i \in 1..n /\ i \in DOMAIN p /\ j[i] = p[i]
      BY <1>4, <1>5, <2>0, <2>1
    <3>2. i # 1 => i - 1 \in 1..n /\ j[i - 1] = p[i - 1]
      <4> SUFFICES ASSUME i # 1 PROVE i - 1 \in 1..n /\ j[i - 1] = p[i - 1]
        OBVIOUS
      <4>1. i - 1 \in 1..n
        BY <2>0, <2>1
      <4> QED BY <1>5, <4>1
    <3> QED BY <3>1, <3>2 DEF Ordered
  <2>2. CASE i = n + 1
    <3>1. 1 \in 1..k
      OBVIOUS
    <3>2. j[i].boot = b /\ j[i].seq = from + 1
      BY <1>6, <2>2, <3>1
    <3>3. (IF i = 1 THEN 0 ELSE j[i - 1].seq) = c
      <4>1. CASE n = 0
        BY <1>8, <2>2, <4>1 DEF Ordered
      <4>2. CASE n # 0
        <5>1. i # 1 /\ i - 1 = n /\ n \in 1..n
          BY <2>2, <4>2
        <5>2. j[i - 1] = p[n]
          BY <1>5, <5>1
        <5> QED BY <1>2, <1>8, <4>2, <5>1, <5>2 DEF Ordered
      <4> QED BY <4>1, <4>2
    <3> QED BY <3>2, <3>3
  <2>3. CASE i > n + 1
    <3>1. PICK m \in 1..k : m + 1 \in 1..k /\ i = n + (m + 1) /\ i - 1 = n + m /\ i # 1
      <4>1. n \in Nat /\ k \in Nat /\ i \in Nat /\ i > n + 1 /\ i <= n + k
        BY <1>2, <2>0, <2>3
      <4> QED BY ONLY ZenonT(30), <4>1, SecondOfRun
    <3>3. j[i].boot = b /\ j[i].seq = from + (m + 1)
      BY <1>6, <3>1
    <3>4. j[i - 1].seq = from + m
      BY <1>6, <3>1
    <3>5. j[i].seq \in Nat /\ j[i - 1].seq \in Nat /\ j[i].seq = j[i - 1].seq + 1
      <4>1. m \in Nat
        BY <3>1
      <4>2. PICK x \in Nat : x = from + m
        BY <4>1
      <4>3. from + (m + 1) = x + 1
        BY <4>1, <4>2
      <4> QED BY <3>3, <3>4, <4>2, <4>3
    <3>6. j[i].seq > j[i - 1].seq /\ j[i].seq <= j[i - 1].seq + 1
      BY <3>5
    <3> QED BY <3>1, <3>3, <3>6
  <2> QED BY <1>2, <2>0, <2>1, <2>2, <2>3
<1>10. from + k = IF j = <<>> THEN 0 ELSE j[Len(j)].seq
  <2>1. k \in 1..k /\ j # <<>>
    BY <1>3
  <2> QED BY <1>3, <1>6, <2>1
<1> QED BY <1>1, <1>3, <1>9, <1>10 DEF Ordered
LEMMA StreamInitHolds == StreamInit => StreamInv
<1> SUFFICES ASSUME StreamInit PROVE StreamInv
  OBVIOUS
<1> USE DEF StreamInit
<1>1. StreamTyped
  <2>1. 0 \in 0..MaxRestarts /\ 0 \in 0..MaxLines
    BY StreamBounds
  <2>2. <<>> \in Seq(Seqs) /\ <<>> \in Seq(PageLine)
    BY EmptySeq
  <2> QED BY <2>1, <2>2 DEF StreamTyped
<1>2. RequestsOfSession /\ PageOrdered /\ RequestsFollow /\ FeedFollows
  BY DEF RequestsOfSession, PageOrdered, RequestsFollow, FeedFollows, Following
<1> QED BY <1>1, <1>2 DEF StreamInv

\* A step that leaves the tracker and the page alone.
LEMMA TrackerAndPageKept ==
  ASSUME StreamInv, UNCHANGED <<boot, stored, writer, lineCursor, page, sessionId, behind>>
  PROVE  /\ Evicted' = Evicted /\ Handed' = Handed /\ (Known' <=> Known)
         /\ (Following' <=> Following) /\ PageOrdered'
         /\ boot' \in 0..MaxRestarts /\ stored' \in 0..MaxLines
         /\ writer' \in {"idle", "stored"} /\ (writer' = "stored" => stored' > 0)
         /\ lineCursor' \in 0..MaxLines /\ page' \in Seq(PageLine)
         /\ sessionId' \in BOOLEAN /\ behind' \in BOOLEAN
<1>1. Evicted' = Evicted /\ Handed' = Handed /\ (Known' <=> Known) /\ (Following' <=> Following)
  BY DEF Evicted, Handed, Known, Following
<1>2. PageOrdered'
  BY <1>1 DEF StreamInv, PageOrdered, Ordered, Following
<1> QED BY <1>1, <1>2 DEF StreamInv, StreamTyped

LEMMA ResolvingKeepsStream ==
  ASSUME StreamInv,
         UNCHANGED <<boot, stored, writer, stream, feed, lineCursor, page, sessionId, retry,
                     histories, behind>>,
         resolving' \in {"closed", "none", "asked", "session", "waiting"},
         resolving' = "session" => Known, resolving' = "waiting" => histories = {}
  PROVE  StreamInv'
<1>1. StreamTyped /\ RequestsOfSession /\ RequestsFollow /\ FeedFollows
  BY DEF StreamInv
<1>2. /\ Evicted' = Evicted /\ Handed' = Handed /\ (Known' <=> Known)
      /\ (Following' <=> Following) /\ PageOrdered'
  BY TrackerAndPageKept
<1>3. StreamTyped'
  BY <1>1 DEF StreamTyped, RequestTyped
<1>4. RequestsOfSession'
  BY <1>1, <1>2 DEF RequestsOfSession
<1>5. RequestsFollow'
  BY <1>1, <1>2 DEF RequestsFollow, RequestFollows
<1>6. FeedFollows'
  BY <1>1, <1>2 DEF FeedFollows
<1> QED BY <1>2, <1>3, <1>4, <1>5, <1>6 DEF StreamInv

LEMMA ResolveStepsKeepStream ==
  StreamInv /\ (OpenPage \/ PollResolve \/ AnswerResolve) => StreamInv'
<1> SUFFICES ASSUME StreamInv, OpenPage \/ PollResolve \/ AnswerResolve PROVE StreamInv'
  OBVIOUS
<1>1. UNCHANGED <<boot, stored, writer, stream, feed, lineCursor, page, sessionId, retry,
                  histories, behind>>
  BY DEF OpenPage, PollResolve, AnswerResolve
<1>2. resolving' = "asked" \/ (resolving' = IF Known THEN "session" ELSE "waiting")
  BY DEF OpenPage, PollResolve, AnswerResolve
<1>3. ~Known => histories = {}
  BY DEF StreamInv, RequestsOfSession
<1> QED BY <1>1, <1>2, <1>3, ResolvingKeepsStream

LEMMA ResolvedNoneKeepsStream == StreamInv /\ ResolvedNone => StreamInv'
<1> SUFFICES ASSUME StreamInv, ResolvedNone PROVE StreamInv'
  OBVIOUS
<1>1. /\ resolving = "waiting" /\ resolving' = "none" /\ sessionId' = FALSE /\ behind' = FALSE
      /\ UNCHANGED <<boot, stored, writer, stream, feed, lineCursor, page, retry, histories>>
  BY DEF ResolvedNone
<1>2. StreamTyped /\ RequestsOfSession
  BY DEF StreamInv
<1>3. StreamTyped'
  BY <1>1, <1>2 DEF StreamTyped, RequestTyped
<1>4. RequestsOfSession'
  BY <1>1, <1>2 DEF RequestsOfSession
<1>5. ~(Following')
  BY <1>1 DEF Following
<1>6. PageOrdered' /\ RequestsFollow' /\ FeedFollows'
  BY <1>5 DEF PageOrdered, RequestsFollow, FeedFollows
<1> QED BY <1>3, <1>4, <1>6 DEF StreamInv

LEMMA RestartKeepsStream == StreamInv /\ Restart => StreamInv'
<1> SUFFICES ASSUME StreamInv, Restart PROVE StreamInv'
  OBVIOUS
<1>1. /\ boot < MaxRestarts /\ boot' = boot + 1
      /\ stored' = 0 /\ writer' = "idle" /\ stream' = NoRequest /\ feed' = <<>>
      /\ histories' = {} /\ UNCHANGED <<lineCursor, page, sessionId>>
      /\ resolving' = (IF resolving = "closed" THEN "closed" ELSE "none")
  BY DEF Restart
<1>2. StreamTyped /\ RequestsOfSession
  BY DEF StreamInv
<1>3. retry' \in BOOLEAN
  <2>1. retry' = (retry \/ stream # NoRequest)
    BY DEF Restart
  <2> QED BY <2>1
<1>4. behind' \in BOOLEAN /\ (behind' <=> sessionId)
  <2>1. behind' = (behind \/ sessionId)
    BY DEF Restart
  <2>2. behind' \in BOOLEAN
    BY <2>1
  <2>3. behind => sessionId
    BY <1>2 DEF RequestsOfSession
  <2> QED BY <2>1, <2>2, <2>3
<1>5. StreamTyped'
  <2>1. boot' \in 0..MaxRestarts /\ stored' \in 0..MaxLines
    BY <1>1, <1>2, StreamBounds DEF StreamTyped
  <2>2. feed' \in Seq(Seqs)
    BY <1>1, EmptySeq
  <2> QED BY <1>1, <1>2, <1>3, <1>4, <2>1, <2>2 DEF StreamTyped
<1>6. RequestsOfSession'
  BY <1>1, <1>4 DEF RequestsOfSession
<1>7. ~(Following')
  BY <1>1, <1>4 DEF Following
<1>8. PageOrdered' /\ RequestsFollow' /\ FeedFollows'
  BY <1>7 DEF PageOrdered, RequestsFollow, FeedFollows
<1> QED BY <1>5, <1>6, <1>8 DEF StreamInv

\* A stream that is gone, or asked for from where the page is.
LEMMA NewStreamKeepsStream ==
  ASSUME StreamInv, UNCHANGED <<boot, stored, writer, lineCursor, page, sessionId, behind>>,
         retry' \in BOOLEAN,
         \/ stream' = NoRequest /\ feed' = <<>>
         \/ stream' = [at |-> "asked", cursor |-> lineCursor] /\ feed' = <<>>
         \/ UNCHANGED <<stream, feed>>
  PROVE  /\ PageOrdered' /\ FeedFollows'
         /\ stream' \in {NoRequest} \cup [at : {"asked", "live"}, cursor : 0..MaxLines]
         /\ feed' \in Seq(Seqs)
         /\ Following /\ stream' # NoRequest => stream'.cursor <= lineCursor
<1>1. StreamTyped /\ RequestsFollow /\ FeedFollows
  BY DEF StreamInv
<1>2. /\ Evicted' = Evicted /\ Handed' = Handed /\ (Following' <=> Following) /\ PageOrdered'
      /\ lineCursor' \in 0..MaxLines
  BY TrackerAndPageKept
<1>3. <<>> \in Seq(Seqs) /\ NoRequest.at = "none"
  BY EmptySeq DEF NoRequest
<1>4. CASE stream' = NoRequest /\ feed' = <<>>
  BY <1>2, <1>3, <1>4 DEF FeedFollows
<1>5. CASE stream' = [at |-> "asked", cursor |-> lineCursor] /\ feed' = <<>>
  <2>1. PICK s : s = [at |-> "asked", cursor |-> lineCursor]
    OBVIOUS
  <2>2. s.at = "asked" /\ s.cursor = lineCursor /\ s \in [at : {"asked", "live"}, cursor : 0..MaxLines]
    BY <1>2, <2>1
  <2>3. stream' = s /\ lineCursor \in Nat
    BY <1>2, <1>5, <2>1
  <2>4. lineCursor <= lineCursor
    BY <2>3
  <2> QED BY <1>2, <1>3, <1>5, <2>2, <2>3, <2>4 DEF FeedFollows
<1>6. CASE UNCHANGED <<stream, feed>>
  <2>1. FeedFollows'
    BY <1>1, <1>2, <1>6 DEF FeedFollows
  <2> QED BY <1>1, <1>2, <1>6, <2>1 DEF StreamTyped, RequestsFollow
<1> QED BY <1>4, <1>5, <1>6

LEMMA StreamLostKeepsStream == StreamInv /\ (StreamFails \/ RetryFires) => StreamInv'
<1> SUFFICES ASSUME StreamInv, StreamFails \/ RetryFires PROVE StreamInv'
  OBVIOUS
<1>1. UNCHANGED <<boot, stored, writer, lineCursor, page, sessionId, resolving, histories, behind>>
  BY DEF StreamFails, RetryFires
<1>2. /\ retry' \in BOOLEAN
      /\ \/ stream' = NoRequest /\ feed' = <<>>
         \/ stream' = [at |-> "asked", cursor |-> lineCursor] /\ feed' = <<>>
         \/ UNCHANGED <<stream, feed>>
  BY DEF StreamFails, RetryFires, Connect
<1>3. /\ PageOrdered' /\ FeedFollows'
      /\ stream' \in {NoRequest} \cup [at : {"asked", "live"}, cursor : 0..MaxLines]
      /\ feed' \in Seq(Seqs)
      /\ Following /\ stream' # NoRequest => stream'.cursor <= lineCursor
  BY <1>1, <1>2, NewStreamKeepsStream
<1>4. StreamTyped /\ RequestsOfSession /\ RequestsFollow
  BY DEF StreamInv
<1>5. Evicted' = Evicted /\ (Known' <=> Known) /\ (Following' <=> Following)
  BY <1>1, TrackerAndPageKept
<1>6. StreamTyped'
  BY <1>1, <1>2, <1>3, <1>4 DEF StreamTyped, RequestTyped
<1>7. RequestsOfSession'
  BY <1>1, <1>4, <1>5 DEF RequestsOfSession
<1>8. RequestsFollow'
  BY <1>1, <1>3, <1>4, <1>5 DEF RequestsFollow, RequestFollows
<1> QED BY <1>3, <1>6, <1>7, <1>8 DEF StreamInv

\* The session the page has: the requests are made from where the page is.
LEMMA ResolvedSameKeepsStream == StreamInv /\ ResolvedSame => StreamInv'
<1> SUFFICES ASSUME StreamInv, ResolvedSame PROVE StreamInv'
  OBVIOUS
<1>1. /\ resolving = "session" /\ sessionId /\ resolving' = "none"
      /\ UNCHANGED <<boot, stored, writer, lineCursor, page, sessionId, behind>>
  BY DEF ResolvedSame
<1>2. StreamTyped /\ RequestsOfSession /\ RequestsFollow
  BY DEF StreamInv
<1>3. /\ retry' \in BOOLEAN
      /\ \/ stream' = NoRequest /\ feed' = <<>>
         \/ stream' = [at |-> "asked", cursor |-> lineCursor] /\ feed' = <<>>
         \/ UNCHANGED <<stream, feed>>
  <2>1. retry \in BOOLEAN
    BY <1>2 DEF StreamTyped
  <2> QED BY <2>1 DEF ResolvedSame, Connect
<1>4. /\ PageOrdered' /\ FeedFollows'
      /\ stream' \in {NoRequest} \cup [at : {"asked", "live"}, cursor : 0..MaxLines]
      /\ feed' \in Seq(Seqs)
      /\ Following /\ stream' # NoRequest => stream'.cursor <= lineCursor
  BY <1>1, <1>3, NewStreamKeepsStream
<1>5. Evicted' = Evicted /\ (Known' <=> Known) /\ (Following' <=> Following)
  BY <1>1, TrackerAndPageKept
<1>6. PICK r : r = [at |-> "asked", cursor |-> lineCursor]
  OBVIOUS
<1>7. \A h \in histories' : h \in histories \/ h = r
  BY <1>6 DEF ResolvedSame, LoadHistory
<1>8. lineCursor \in 0..MaxLines /\ lineCursor <= lineCursor /\ stored \in Nat
  BY <1>2, StreamNumbers
<1>9. r.at = "asked" /\ r.cursor = lineCursor /\ RequestTyped(r) /\ RequestFollows(r)
  BY <1>6, <1>8 DEF RequestTyped, RequestFollows
<1>10. \A h \in histories' : RequestTyped(h) /\ (Following => RequestFollows(h))
  BY <1>2, <1>7, <1>9 DEF StreamTyped, RequestsFollow
<1>11. StreamTyped'
  BY <1>1, <1>2, <1>3, <1>4, <1>10 DEF StreamTyped, RequestTyped
<1>12. RequestsOfSession'
  BY <1>1, <1>2, <1>5 DEF RequestsOfSession
<1>13. RequestsFollow'
  BY <1>1, <1>4, <1>5, <1>10 DEF RequestsFollow, RequestFollows
<1> QED BY <1>4, <1>11, <1>12, <1>13 DEF StreamInv

\* A session the page did not have: it starts over, and so do its requests.
LEMMA ResolvedNewKeepsStream == StreamInv /\ ResolvedNew => StreamInv'
<1> SUFFICES ASSUME StreamInv, ResolvedNew PROVE StreamInv'
  OBVIOUS
<1>1. /\ resolving = "session" /\ ~sessionId /\ resolving' = "none" /\ sessionId' = TRUE
      /\ lineCursor' = 0 /\ page' = <<>> /\ feed' = <<>> /\ retry' = FALSE
      /\ stream' = [at |-> "asked", cursor |-> 0]
      /\ UNCHANGED <<boot, stored, writer, behind>>
  BY DEF ResolvedNew, Connect
<1>2. StreamTyped /\ RequestsOfSession
  BY DEF StreamInv
<1>3. PICK s : s = [at |-> "asked", cursor |-> 0]
  OBVIOUS
<1>4. 0 \in 0..MaxLines /\ stored \in Nat /\ Evicted \in Nat
  BY <1>2, StreamNumbers
<1>5. /\ stream' = s /\ s.at = "asked" /\ s.cursor = 0
      /\ s \in [at : {"asked", "live"}, cursor : 0..MaxLines]
  BY <1>1, <1>3, <1>4
<1>6. histories' = {s}
  <2>1. histories = {}
    BY <1>1, <1>2 DEF RequestsOfSession
  <2> QED BY <1>3, <2>1 DEF ResolvedNew, LoadHistory
<1>7. StreamTyped'
  <2>1. <<>> \in Seq(Seqs) /\ <<>> \in Seq(PageLine)
    BY EmptySeq
  <2>2. RequestTyped(s)
    BY <1>4, <1>5 DEF RequestTyped
  <2>3. \A h \in histories' : RequestTyped(h)
    BY <1>6, <2>2
  <2> QED BY <1>1, <1>2, <1>4, <1>5, <2>1, <2>3 DEF StreamTyped, RequestTyped
<1>8. RequestsOfSession'
  BY <1>1, <1>2 DEF RequestsOfSession, Known
<1>9. PageOrdered'
  <2>1. DOMAIN page' = {}
    BY <1>1
  <2> QED BY <1>1, <1>4, <2>1 DEF PageOrdered, Ordered
<1>10. RequestsFollow'
  <2>1. \A h \in histories' : h.at = "asked" /\ h.cursor = 0
    BY <1>5, <1>6
  <2> QED BY <1>1, <1>5, <2>1 DEF RequestsFollow, RequestFollows
<1>11. FeedFollows'
  BY <1>5 DEF FeedFollows
<1> QED BY <1>7, <1>8, <1>9, <1>10, <1>11 DEF StreamInv
\* The backfill of a stream that is accepted.
LEMMA AcceptStreamKeepsStream == StreamInv /\ AcceptStream => StreamInv'
<1> SUFFICES ASSUME StreamInv, AcceptStream PROVE StreamInv'
  OBVIOUS
<1>1. /\ stream.at = "asked" /\ feed' = Snapshot(stream.cursor)
      /\ stream' = [stream EXCEPT !.at = "live"]
      /\ UNCHANGED <<boot, stored, writer, lineCursor, page, sessionId, retry, resolving,
                     histories, behind>>
  BY DEF AcceptStream
<1>2. StreamTyped /\ RequestsOfSession /\ RequestsFollow
  BY DEF StreamInv
<1>3. /\ stream # NoRequest /\ NoRequest.at = "none" /\ stored \in Nat /\ lineCursor \in Nat
      /\ Evicted \in Nat /\ MaxLines \in Nat
  BY <1>1, <1>2, StreamNumbers
<1>4. PICK c \in 0..MaxLines : c = stream.cursor
  BY <1>2, <1>3, StreamNumbers
<1>5. stream \in [at : {"asked", "live"}, cursor : 0..MaxLines]
  BY <1>2, <1>3 DEF StreamTyped
<1>6. PICK s : s = [stream EXCEPT !.at = "live"]
  OBVIOUS
<1>7. /\ s \in [at : {"asked", "live"}, cursor : 0..MaxLines] /\ s.at = "live" /\ s.cursor = c
      /\ stream' = s
  BY <1>1, <1>4, <1>5, <1>6
<1>8. PICK t : t = Snapshot(c)
  OBVIOUS
<1>9. feed' = t
  BY <1>1, <1>4, <1>8
<1>10. /\ t \in Seq(Seqs) /\ (t = <<>> <=> c >= stored)
       /\ t # <<>> => t[Len(t)] = stored /\ (t[1] <= c + 1 \/ t[1] <= Evicted + 1)
       /\ \A i \in 1..(Len(t) - 1) : t[i + 1] <= t[i] + 1
       /\ \A i \in DOMAIN t : t[i] <= stored
       /\ \A seq \in (Evicted + 1)..stored : seq <= c \/ \E i \in DOMAIN t : t[i] = seq
  BY <1>2, <1>8, SnapshotIs
<1>11. /\ Evicted' = Evicted /\ Handed' = Handed /\ (Known' <=> Known)
       /\ (Following' <=> Following) /\ PageOrdered'
  BY <1>1, TrackerAndPageKept
<1>12. StreamTyped'
  BY <1>1, <1>2, <1>7, <1>9, <1>10 DEF StreamTyped, RequestTyped
<1>13. RequestsOfSession'
  BY <1>1, <1>2, <1>11 DEF RequestsOfSession
<1>14. Following => c <= lineCursor
  BY <1>2, <1>3, <1>4 DEF RequestsFollow
<1>15. RequestsFollow'
  BY <1>1, <1>2, <1>7, <1>11, <1>14 DEF RequestsFollow, RequestFollows
<1>16. Handed \in Nat /\ Handed <= stored
  BY <1>2, <1>3 DEF StreamTyped, Handed
<1>17. ASSUME Following
       PROVE  /\ IF t = <<>> THEN Handed <= lineCursor
                 ELSE Handed <= t[Len(t)] /\ (t[1] <= lineCursor + 1 \/ t[1] <= Evicted + 1)
              /\ \A seq \in (Evicted + 1)..stored :
                   seq <= lineCursor \/ \E i \in DOMAIN t : t[i] = seq
  <2>1. c \in Nat /\ c <= lineCursor
    BY <1>14, <1>17
  <2>2. CASE t = <<>>
    <3>1. c >= stored
      BY <1>10, <2>2
    <3>2. Handed <= lineCursor /\ \A seq \in (Evicted + 1)..stored : seq <= lineCursor
      BY <1>3, <1>16, <2>1, <3>1
    <3> QED BY <2>2, <3>2
  <2>3. CASE t # <<>>
    <3>1. 1 \in DOMAIN t /\ t[1] \in Nat
      <4>1. Len(t) \in Nat /\ Len(t) # 0 /\ DOMAIN t = 1..Len(t)
        BY <1>10, <2>3, LenProperties
      <4>2. 1 \in DOMAIN t
        BY <4>1
      <4>3. t[1] \in Seqs
        BY <1>10, <4>1, ElementOfSeq
      <4> QED BY <4>2, <4>3 DEF Seqs
    <3>2. t[1] <= lineCursor + 1 \/ t[1] <= Evicted + 1
      BY <1>3, <1>10, <2>1, <2>3, <3>1
    <3>3. ASSUME NEW seq \in (Evicted + 1)..stored
          PROVE  seq <= lineCursor \/ \E i \in DOMAIN t : t[i] = seq
      <4>1. seq <= c => seq <= lineCursor
        BY <1>3, <2>1
      <4> QED BY <1>10, <4>1
    <3> QED BY <1>10, <1>16, <2>3, <3>2, <3>3
  <2> QED BY <2>2, <2>3
<1>18. FeedFollows'
  BY <1>1, <1>9, <1>10, <1>11, <1>17 DEF FeedFollows
<1> QED BY <1>11, <1>12, <1>13, <1>15, <1>18 DEF StreamInv

LEMMA StoreLineKeepsStream == StreamInv /\ StoreLine => StreamInv'
<1> SUFFICES ASSUME StreamInv, StoreLine PROVE StreamInv'
  OBVIOUS
<1>1. /\ writer = "idle" /\ stored < MaxLines /\ stored' = stored + 1 /\ writer' = "stored"
      /\ UNCHANGED <<boot, stream, feed, lineCursor, page, sessionId, retry, resolving,
                     histories, behind>>
  BY DEF StoreLine
<1>2. StreamTyped /\ RequestsOfSession /\ PageOrdered /\ RequestsFollow /\ FeedFollows
  BY DEF StreamInv
<1>3. /\ MaxLines \in Nat /\ stored \in Nat /\ lineCursor \in Nat /\ Evicted \in Nat
      /\ DOMAIN feed = 1..Len(feed)
      /\ \A i \in DOMAIN feed : feed[i] \in Nat
  BY <1>2, StreamNumbers
<1>4. Evicted' \in Nat /\ Evicted <= Evicted' /\ Evicted' <= stored
  BY <1>1, <1>3, EvictedRises
<1>5. (Following' <=> Following) /\ Known' /\ Handed' = stored /\ Handed = stored
  BY <1>1, <1>3 DEF Following, Known, Handed
<1>6. StreamTyped'
  BY <1>1, <1>2, <1>3 DEF StreamTyped, RequestTyped
<1>7. RequestsOfSession'
  BY <1>1, <1>2, <1>5 DEF RequestsOfSession
<1>8. PageOrdered'
  <2>1. ASSUME Following PROVE Ordered(page, lineCursor, boot, Evicted') /\ lineCursor <= stored'
    <3>1. Ordered(page, lineCursor, boot, Evicted) /\ lineCursor <= stored
      BY <1>2, <2>1 DEF PageOrdered
    <3>2. PICK e : e = Evicted'
      OBVIOUS
    <3>3. page \in Seq(PageLine) /\ e \in Nat /\ Evicted <= e
      BY <1>2, <1>4, <3>2 DEF StreamTyped
    <3>4. Ordered(page, lineCursor, boot, e)
      BY <1>3, <3>1, <3>3, OrderedRises
    <3> QED BY <1>1, <1>3, <3>1, <3>2, <3>4
  <2>2. Following => Ordered(page', lineCursor', boot', Evicted') /\ lineCursor' <= stored'
    BY <1>1, <2>1
  <2> QED BY <1>5, <2>2 DEF PageOrdered, Ordered
<1>9. RequestsFollow'
  <2>1. ASSUME Following, NEW h \in histories
        PROVE  /\ h.at = "asked" => h.cursor <= lineCursor
               /\ h.at = "answered" => h.hi <= stored' /\ (h.lo <= lineCursor \/ h.lo <= Evicted')
    <3>1. RequestFollows(h) /\ RequestTyped(h)
      BY <1>2, <2>1 DEF RequestsFollow, StreamTyped
    <3>2. h.at = "answered" => h.hi \in Nat /\ h.lo \in Nat
      BY <3>1 DEF RequestTyped
    <3> QED BY <1>1, <1>3, <1>4, <3>1, <3>2 DEF RequestFollows
  <2> QED BY <1>1, <1>2, <1>5, <2>1 DEF RequestsFollow, RequestFollows
<1>10. FeedFollows'
  <2> SUFFICES ASSUME Following, stream.at = "live"
               PROVE  /\ IF feed = <<>> THEN stored <= lineCursor
                         ELSE /\ stored <= feed[Len(feed)]
                              /\ feed[1] <= lineCursor + 1 \/ feed[1] <= Evicted' + 1
                      /\ \A i \in 1..(Len(feed) - 1) : feed[i + 1] <= feed[i] + 1
                      /\ \A i \in DOMAIN feed : feed[i] <= stored'
                      /\ \A seq \in (Evicted' + 1)..stored' :
                           \/ seq <= lineCursor \/ \E i \in DOMAIN feed : feed[i] = seq
                           \/ seq = stored'
    BY <1>1, <1>5 DEF FeedFollows
  <2>1. /\ IF feed = <<>> THEN stored <= lineCursor
           ELSE /\ stored <= feed[Len(feed)]
                /\ feed[1] <= lineCursor + 1 \/ feed[1] <= Evicted + 1
        /\ \A i \in 1..(Len(feed) - 1) : feed[i + 1] <= feed[i] + 1
        /\ \A i \in DOMAIN feed : feed[i] <= stored
        /\ \A seq \in (Evicted + 1)..stored :
             seq <= lineCursor \/ \E i \in DOMAIN feed : feed[i] = seq
    BY <1>1, <1>2, <1>5 DEF FeedFollows
  <2>2. feed # <<>> => feed[1] <= lineCursor + 1 \/ feed[1] <= Evicted' + 1
    <3> SUFFICES ASSUME feed # <<>> PROVE feed[1] <= lineCursor + 1 \/ feed[1] <= Evicted' + 1
      OBVIOUS
    <3>1. 1 \in DOMAIN feed
      <4>1. Len(feed) \in Nat /\ Len(feed) # 0
        BY <1>2, StreamNumbers
      <4> QED BY <1>3, <4>1
    <3>2. feed[1] \in Nat
      BY <1>3, <3>1
    <3> QED BY <1>3, <1>4, <2>1, <3>2
  <2>3. \A i \in DOMAIN feed : feed[i] <= stored'
    BY <1>1, <1>3, <2>1
  <2>4. ASSUME NEW seq \in (Evicted' + 1)..stored'
        PROVE  \/ seq <= lineCursor \/ \E i \in DOMAIN feed : feed[i] = seq
               \/ seq = stored'
    <3>1. CASE seq # stored'
      <4>1. seq \in (Evicted' + 1)..(stored + 1) /\ seq # stored + 1
        BY <1>1, <3>1
      <4>2. seq \in (Evicted' + 1)..stored
        BY <1>3, <1>4, <4>1, IntervalsShrink
      <4>3. seq \in (Evicted + 1)..stored
        BY <1>3, <1>4, <4>2, IntervalsNest
      <4> QED BY <2>1, <4>3
    <3> QED BY <3>1
  <2> QED BY <2>1, <2>2, <2>3, <2>4
<1> QED BY <1>6, <1>7, <1>8, <1>9, <1>10 DEF StreamInv

\* The line that was stored is handed to the stream that is subscribed.
LEMMA NotifyKeepsStream == StreamInv /\ Notify => StreamInv'
<1> SUFFICES ASSUME StreamInv, Notify PROVE StreamInv'
  OBVIOUS
<1>1. /\ writer = "stored" /\ writer' = "idle"
      /\ UNCHANGED <<boot, stored, stream, lineCursor, page, sessionId, retry, resolving,
                     histories, behind>>
  BY DEF Notify
<1>2. StreamTyped /\ RequestsOfSession /\ PageOrdered /\ RequestsFollow /\ FeedFollows
  BY DEF StreamInv
<1>3. /\ MaxLines \in Nat /\ stored \in Nat /\ stored <= MaxLines /\ lineCursor \in Nat
      /\ Evicted \in Nat /\ stored > 0 /\ Len(feed) \in Nat /\ DOMAIN feed = 1..Len(feed)
      /\ (feed = <<>> <=> Len(feed) = 0)
      /\ \A i \in DOMAIN feed : feed[i] \in Nat
  BY <1>1, <1>2, StreamNumbers DEF StreamTyped
<1>4. /\ Evicted' = Evicted /\ (Following' <=> Following) /\ (Known' <=> Known)
      /\ Handed' = stored /\ Handed = stored - 1
  BY <1>1 DEF Evicted, Following, Known, Handed
<1>5. feed' \in Seq(Seqs)
  <2>1. feed \in Seq(Seqs) /\ stored \in Seqs
    BY <1>2, <1>3 DEF StreamTyped, Seqs
  <2>2. Append(feed, stored) \in Seq(Seqs)
    BY <2>1, AppendProperties
  <2> QED BY <2>1, <2>2 DEF Notify
<1>6. StreamTyped'
  BY <1>1, <1>2, <1>5 DEF StreamTyped, RequestTyped
<1>7. RequestsOfSession' /\ PageOrdered' /\ RequestsFollow'
  BY <1>1, <1>2, <1>4 DEF RequestsOfSession, PageOrdered, Ordered, RequestsFollow, RequestFollows
<1>8. CASE stream.at # "live"
  BY <1>1, <1>6, <1>7, <1>8 DEF StreamInv, FeedFollows
<1>9. CASE stream.at = "live"
  <2>1. PICK t : t = Append(feed, stored)
    OBVIOUS
  <2>2. /\ feed' = t /\ t # <<>> /\ Len(t) = Len(feed) + 1
        /\ \A i \in 1..Len(feed) : t[i] = feed[i]
        /\ t[Len(feed) + 1] = stored
    <3>1. feed \in Seq(Seqs) /\ stored \in Seqs
      BY <1>2, <1>3 DEF StreamTyped, Seqs
    <3>2. feed' = t
      BY <1>9, <2>1 DEF Notify
    <3> QED BY <2>1, <3>1, <3>2, AppendProperties
  <2>3. DOMAIN t = 1..(Len(feed) + 1)
    BY <1>5, <2>2, LenProperties
  <2>4. FeedFollows'
    <3> SUFFICES ASSUME Following
                 PROVE  /\ stored <= t[Len(t)]
                        /\ t[1] <= lineCursor + 1 \/ t[1] <= Evicted + 1
                        /\ \A i \in 1..(Len(t) - 1) : t[i + 1] <= t[i] + 1
                        /\ \A i \in DOMAIN t : t[i] <= stored
                        /\ \A seq \in (Evicted + 1)..stored :
                             seq <= lineCursor \/ \E i \in DOMAIN t : t[i] = seq
      BY <1>1, <1>4, <2>2 DEF FeedFollows
    <3>1. /\ IF feed = <<>> THEN stored - 1 <= lineCursor
             ELSE /\ stored - 1 <= feed[Len(feed)]
                  /\ feed[1] <= lineCursor + 1 \/ feed[1] <= Evicted + 1
          /\ \A i \in 1..(Len(feed) - 1) : feed[i + 1] <= feed[i] + 1
          /\ \A i \in DOMAIN feed : feed[i] <= stored
          /\ \A seq \in (Evicted + 1)..stored :
               seq <= lineCursor \/ (\E i \in DOMAIN feed : feed[i] = seq) \/ seq = stored
      BY <1>2, <1>4, <1>9 DEF FeedFollows
    <3>2. t[Len(t)] = stored /\ stored <= stored
      BY <1>3, <2>2
    <3>3. t[1] <= lineCursor + 1 \/ t[1] <= Evicted + 1
      <4>1. CASE feed = <<>>
        <5>1. t[1] = stored /\ stored - 1 <= lineCursor
          BY <1>3, <2>2, <3>1, <4>1
        <5> QED BY <1>3, <5>1
      <4>2. CASE feed # <<>>
        <5>1. t[1] = feed[1]
          BY <1>3, <2>2, <4>2
        <5> QED BY <3>1, <4>2, <5>1
      <4> QED BY <4>1, <4>2
    <3>4. ASSUME NEW i \in 1..(Len(t) - 1) PROVE t[i + 1] <= t[i] + 1
      <4>1. CASE i < Len(feed)
        <5>1. i \in 1..(Len(feed) - 1) /\ i \in 1..Len(feed) /\ i + 1 \in 1..Len(feed)
          BY <1>3, <2>2, <4>1
        <5> QED BY <2>2, <3>1, <5>1
      <4>2. CASE i = Len(feed)
        <5>1. i \in 1..Len(feed) /\ feed # <<>> /\ i \in DOMAIN feed
          BY <1>3, <2>2, <4>2
        <5>2. t[i] = feed[i] /\ t[i + 1] = stored /\ stored - 1 <= feed[i] /\ feed[i] \in Nat
          BY <1>3, <2>2, <3>1, <4>2, <5>1
        <5> QED BY <1>3, <5>2
      <4>3. PICK n \in Nat : n = Len(feed)
        BY <1>3
      <4>4. i \in 1..n
        BY <2>2, <4>3
      <4>5. i < n \/ i = n
        BY <4>3, <4>4
      <4> QED BY <4>1, <4>2, <4>3, <4>5
    <3>5. ASSUME NEW i \in DOMAIN t PROVE t[i] <= stored
      <4>1. CASE i \in DOMAIN feed
        BY <1>3, <2>2, <3>1, <4>1
      <4>2. CASE i = Len(feed) + 1
        BY <1>3, <2>2, <4>2
      <4> QED BY <1>3, <2>3, <4>1, <4>2
    <3>6. ASSUME NEW seq \in (Evicted + 1)..stored
          PROVE  seq <= lineCursor \/ \E i \in DOMAIN t : t[i] = seq
      <4>1. CASE \E i \in DOMAIN feed : feed[i] = seq
        <5>1. PICK i \in DOMAIN feed : feed[i] = seq
          BY <4>1
        <5>2. i \in DOMAIN t /\ t[i] = seq
          BY <1>3, <2>2, <2>3, <5>1
        <5> QED BY <5>2
      <4>2. CASE seq = stored
        <5>1. Len(feed) + 1 \in DOMAIN t /\ t[Len(feed) + 1] = seq
          BY <1>3, <2>2, <2>3, <4>2
        <5> QED BY <5>1
      <4> QED BY <3>1, <4>1, <4>2
    <3> QED BY <3>2, <3>3, <3>4, <3>5, <3>6
  <2> QED BY <1>6, <1>7, <2>4 DEF StreamInv
<1> QED BY <1>8, <1>9
\* The page reads the next line of its stream, and shows it if it is new.
LEMMA OnLineKeepsStream == StreamInv /\ OnLine => StreamInv'
<1> SUFFICES ASSUME StreamInv, OnLine PROVE StreamInv'
  OBVIOUS
<1>1. PICK seq : seq = Head(feed)
  OBVIOUS
<1>2. /\ stream.at = "live" /\ feed # <<>> /\ feed' = Tail(feed)
      /\ stream' = [stream EXCEPT !.cursor = Larger(@, seq)]
      /\ IF Shows(seq)
           THEN /\ lineCursor' = seq
                /\ page' = Append(page, [boot |-> boot, seq |-> seq])
           ELSE UNCHANGED <<lineCursor, page>>
      /\ UNCHANGED <<boot, stored, writer, sessionId, retry, resolving, histories, behind>>
  BY <1>1 DEF OnLine
<1>3. StreamTyped /\ RequestsOfSession /\ PageOrdered /\ RequestsFollow /\ FeedFollows
  BY DEF StreamInv
<1>4. /\ MaxLines \in Nat /\ stored \in Nat /\ stored <= MaxLines /\ lineCursor \in Nat
      /\ lineCursor <= MaxLines /\ Evicted \in Nat
      /\ Len(feed) \in Nat /\ DOMAIN feed = 1..Len(feed) /\ (feed = <<>> <=> Len(feed) = 0)
      /\ \A i \in DOMAIN feed : feed[i] \in Nat /\ feed[i] >= 1 /\ feed[i] <= MaxLines
      /\ stream # NoRequest /\ stream.cursor \in Nat /\ stream.cursor <= MaxLines
  BY <1>2, <1>3, StreamNumbers
<1>5. seq = feed[1] /\ 1 \in DOMAIN feed /\ seq \in Nat /\ seq >= 1 /\ seq <= MaxLines
  <2>1. 1 \in DOMAIN feed
    BY <1>2, <1>4
  <2>2. seq = feed[1]
    BY <1>1
  <2> QED BY <1>4, <2>1, <2>2
<1>6. /\ Evicted' = Evicted /\ Handed' = Handed /\ (Known' <=> Known) /\ (Following' <=> Following)
  BY <1>2 DEF Evicted, Handed, Known, Following
<1>7. PICK c : c = (IF Shows(seq) THEN seq ELSE lineCursor)
  OBVIOUS
<1>8. lineCursor' = c /\ c \in Nat /\ c <= MaxLines /\ lineCursor <= c
  <2>1. CASE Shows(seq)
    BY <1>2, <1>4, <1>5, <1>7, <2>1 DEF Shows
  <2>2. CASE ~Shows(seq)
    BY <1>2, <1>4, <1>7, <2>2
  <2> QED BY <2>1, <2>2
<1>9. PICK d \in Nat : /\ d = Larger(stream.cursor, seq) /\ d >= stream.cursor /\ d >= seq
                       /\ (d = stream.cursor \/ d = seq)
  BY <1>4, <1>5, LargerIs
<1>10. /\ stream' \in [at : {"asked", "live"}, cursor : 0..MaxLines]
       /\ stream'.at = "live" /\ stream'.cursor = d
  <2>1. stream \in [at : {"asked", "live"}, cursor : 0..MaxLines]
    BY <1>3, <1>4 DEF StreamTyped
  <2>2. stream' = [stream EXCEPT !.cursor = d]
    BY <1>2, <1>9
  <2>3. d \in 0..MaxLines
    BY <1>4, <1>5, <1>9
  <2> QED BY <1>2, <2>1, <2>2, <2>3
<1>11. PICK w : w = Tail(feed)
  OBVIOUS
<1>12. /\ w \in Seq(Seqs) /\ Len(w) = Len(feed) - 1 /\ DOMAIN w = 1..(Len(feed) - 1)
       /\ \A i \in 1..(Len(feed) - 1) : w[i] = feed[i + 1]
       /\ (w = <<>> <=> Len(feed) = 1) /\ feed' = w
  <2>1. feed \in Seq(Seqs)
    BY <1>3 DEF StreamTyped
  <2>2. w \in Seq(Seqs) /\ Len(w) = Len(feed) - 1 /\ \A i \in 1..Len(w) : w[i] = feed[i + 1]
    BY <1>2, <1>11, <2>1, HeadTailProperties
  <2>3. DOMAIN w = 1..Len(w) /\ (w = <<>> <=> Len(w) = 0)
    BY <2>2, LenProperties
  <2>4. PICK n \in Nat : n = Len(feed) /\ Len(w) = n - 1 /\ n # 0
    BY <1>2, <1>4, <2>2
  <2>5. w = <<>> <=> n = 1
    BY <2>3, <2>4
  <2> QED BY <1>2, <1>11, <2>2, <2>3, <2>4, <2>5
<1>13. PICK r : r = [boot |-> boot, seq |-> seq]
  OBVIOUS
<1>14. r \in PageLine /\ r.boot = boot /\ r.seq = seq /\ page \in Seq(PageLine)
  BY <1>3, <1>4, <1>5, <1>13 DEF StreamTyped, PageLine, Seqs
<1>15. /\ Shows(seq) => page' = page \o <<r>>
       /\ ~Shows(seq) => page' = page
  <2>1. Append(page, r) = page \o <<r>>
    BY <1>14, AppendIsConcat
  <2> QED BY <1>2, <1>13, <2>1
<1>16. <<r>> \in Seq(PageLine) /\ Len(<<r>>) = 1 /\ <<r>>[1] = r
  BY <1>14
<1>17. page' \in Seq(PageLine)
  <2>1. page \o <<r>> \in Seq(PageLine)
    BY <1>14, <1>16, ConcatProperties
  <2> QED BY <1>14, <1>15, <2>1
<1>18. StreamTyped'
  <2>1. lineCursor' \in 0..MaxLines
    BY <1>4, <1>8
  <2> QED BY <1>2, <1>3, <1>10, <1>12, <1>17, <2>1 DEF StreamTyped, RequestTyped
<1>19. RequestsOfSession'
  BY <1>2, <1>3, <1>6 DEF RequestsOfSession
<1>20. ASSUME Following
       PROVE  /\ Ordered(page, lineCursor, boot, Evicted) /\ lineCursor <= stored
              /\ stream.cursor <= lineCursor /\ seq <= stored
              /\ seq <= lineCursor + 1 \/ seq <= Evicted + 1
              /\ seq <= c /\ d <= c /\ c <= stored
  <2>1. Ordered(page, lineCursor, boot, Evicted) /\ lineCursor <= stored
    BY <1>3, <1>20 DEF PageOrdered
  <2>2. stream.cursor <= lineCursor
    BY <1>3, <1>4, <1>20 DEF RequestsFollow
  <2>3. seq <= stored /\ (seq <= lineCursor + 1 \/ seq <= Evicted + 1)
    BY <1>2, <1>3, <1>5, <1>20 DEF FeedFollows
  <2>4. CASE Shows(seq)
    <3>1. c = seq
      BY <1>7, <2>4
    <3>2. seq > stream.cursor
      BY <2>4 DEF Shows
    <3>3. d <= c
      BY <1>4, <1>5, <1>9, <3>1, <3>2
    <3>4. seq <= c
      BY <1>5, <3>1
    <3> QED BY <2>1, <2>2, <2>3, <3>1, <3>3, <3>4
  <2>5. CASE ~Shows(seq)
    <3>1. c = lineCursor
      BY <1>7, <2>5
    <3>2. seq <= stream.cursor \/ seq <= lineCursor
      BY <1>4, <1>5, <2>5 DEF Shows
    <3>3. seq <= lineCursor
      BY <1>4, <1>5, <2>2, <3>2
    <3>4. d <= lineCursor
      BY <1>9, <2>2, <3>3
    <3> QED BY <2>1, <2>2, <2>3, <3>1, <3>3, <3>4
  <2> QED BY <2>4, <2>5
<1>21. PageOrdered'
  <2>1. ASSUME Following PROVE Ordered(page', c, boot, Evicted)
    <3>1. CASE Shows(seq)
      <4>1. PICK from \in Nat : from = seq - 1 /\ from + 1 = seq
        BY <1>5
      <4>2. c = from + 1 /\ seq > lineCursor
        BY <1>7, <3>1, <4>1 DEF Shows
      <4>3. lineCursor <= from /\ (from = lineCursor \/ from <= Evicted)
        BY <1>4, <1>20, <2>1, <4>1, <4>2
      <4>4. \A i \in 1..1 : <<r>>[i].boot = boot /\ <<r>>[i].seq = from + i
        BY <1>14, <1>16, <4>1
      <4>5. PICK e \in Nat : e = Evicted
        BY <1>4
      <4>6. PICK l \in Nat : l = lineCursor
        BY <1>4
      <4>7. PICK p \in Seq(PageLine) : p = page
        BY <1>14
      <4>8. PICK b : b = boot
        OBVIOUS
      <4>9. PICK q \in Seq(PageLine) : q = <<r>> /\ Len(q) = 1
        BY <1>16
      <4>10. Ordered(p, l, b, e) /\ l <= from /\ (from = l \/ from <= e)
        BY <1>20, <2>1, <4>3, <4>5, <4>6, <4>7, <4>8
      <4>11. PICK k \in Nat : k = 1
        OBVIOUS
      <4>12. k >= 1 /\ Len(q) = k /\ \A i \in 1..k : q[i].boot = b /\ q[i].seq = from + i
        BY <4>4, <4>8, <4>9, <4>11
      <4>13. Ordered(p \o q, from + k, b, e)
        BY <4>10, <4>12, OrderedJoins
      <4>14. page' = p \o q /\ from + k = c
        BY <1>15, <3>1, <4>2, <4>7, <4>9, <4>11
      <4> QED BY <4>5, <4>8, <4>13, <4>14
    <3>2. CASE ~Shows(seq)
      <4>1. c = lineCursor
        BY <1>7, <3>2
      <4> QED BY <1>15, <1>20, <2>1, <3>2, <4>1
    <3> QED BY <3>1, <3>2
  <2>2. Following => Ordered(page', lineCursor', boot', Evicted') /\ lineCursor' <= stored'
    BY <1>2, <1>6, <1>8, <1>20, <2>1
  <2> QED BY <1>6, <2>2 DEF PageOrdered, Ordered
<1>22. RequestsFollow'
  <2>1. ASSUME Following, NEW h \in histories
        PROVE  /\ h.at = "asked" => h.cursor <= c
               /\ h.at = "answered" => h.hi <= stored /\ (h.lo <= c \/ h.lo <= Evicted)
    <3>1. RequestFollows(h) /\ RequestTyped(h)
      BY <1>3, <2>1 DEF RequestsFollow, StreamTyped
    <3>2. /\ h.at = "asked" => h.cursor \in Nat
          /\ h.at = "answered" => h.lo \in Nat
      BY <3>1 DEF RequestTyped
    <3> QED BY <1>4, <1>8, <3>1, <3>2 DEF RequestFollows
  <2> QED BY <1>2, <1>6, <1>8, <1>10, <1>20, <2>1 DEF RequestsFollow, RequestFollows
<1>23. FeedFollows'
  <2> SUFFICES ASSUME Following
               PROVE  /\ IF w = <<>> THEN Handed <= c
                         ELSE Handed <= w[Len(w)] /\ (w[1] <= c + 1 \/ w[1] <= Evicted + 1)
                      /\ \A i \in 1..(Len(w) - 1) : w[i + 1] <= w[i] + 1
                      /\ \A i \in DOMAIN w : w[i] <= stored
                      /\ \A n \in (Evicted + 1)..stored :
                           \/ n <= c \/ \E i \in DOMAIN w : w[i] = n
                           \/ writer = "stored" /\ n = stored
    BY <1>2, <1>6, <1>8, <1>12 DEF FeedFollows
  <2>1. /\ Handed <= feed[Len(feed)]
        /\ \A i \in 1..(Len(feed) - 1) : feed[i + 1] <= feed[i] + 1
        /\ \A i \in DOMAIN feed : feed[i] <= stored
        /\ \A n \in (Evicted + 1)..stored :
             \/ n <= lineCursor \/ \E i \in DOMAIN feed : feed[i] = n
             \/ writer = "stored" /\ n = stored
    BY <1>2, <1>3 DEF FeedFollows
  <2>2. Handed \in Nat
    BY <1>3, <1>4 DEF Handed, StreamTyped
  <2>3. w = <<>> => Handed <= c
    <3> SUFFICES ASSUME w = <<>> PROVE Handed <= c
      OBVIOUS
    <3>1. Handed <= seq
      BY <1>5, <1>12, <2>1
    <3> QED BY <1>5, <1>8, <1>20, <2>2, <3>1
  <2>4. w # <<>> => Handed <= w[Len(w)] /\ w[1] <= c + 1
    <3> SUFFICES ASSUME w # <<>> PROVE Handed <= w[Len(w)] /\ w[1] <= c + 1
      OBVIOUS
    <3>1. /\ 1 \in 1..(Len(feed) - 1) /\ Len(w) \in 1..(Len(feed) - 1)
          /\ Len(w) + 1 = Len(feed) /\ 1 + 1 \in DOMAIN feed
      BY <1>2, <1>4, <1>12
    <3>2. w[Len(w)] = feed[Len(w) + 1] /\ w[1] = feed[1 + 1]
      BY <1>12, <3>1
    <3>3. feed[1 + 1] <= seq + 1 /\ feed[1 + 1] \in Nat
      BY <1>4, <1>5, <2>1, <3>1
    <3>4. w[1] <= c + 1
      BY <1>5, <1>8, <1>20, <3>2, <3>3
    <3> QED BY <2>1, <3>1, <3>2, <3>4
  <2>5. ASSUME NEW i \in 1..(Len(w) - 1) PROVE w[i + 1] <= w[i] + 1
    <3>1. i \in 1..(Len(feed) - 1) /\ i + 1 \in 1..(Len(feed) - 1)
      BY <1>4, <1>12
    <3>2. w[i] = feed[i + 1] /\ w[i + 1] = feed[(i + 1) + 1]
      BY <1>12, <3>1
    <3> QED BY <2>1, <3>1, <3>2
  <2>6. ASSUME NEW i \in DOMAIN w PROVE w[i] <= stored
    <3>1. i \in 1..(Len(feed) - 1) /\ i + 1 \in DOMAIN feed
      BY <1>4, <1>12
    <3> QED BY <1>12, <2>1, <3>1
  <2>7. ASSUME NEW n \in (Evicted + 1)..stored
        PROVE  \/ n <= c \/ \E i \in DOMAIN w : w[i] = n
               \/ writer = "stored" /\ n = stored
    <3>0. n \in Nat
      BY <1>4
    <3>1. CASE n <= lineCursor
      BY <1>4, <1>8, <3>0, <3>1
    <3>2. CASE \E i \in DOMAIN feed : feed[i] = n
      <4>1. PICK i \in DOMAIN feed : feed[i] = n
        BY <3>2
      <4>2. CASE i = 1
        BY <1>5, <1>20, <4>1, <4>2
      <4>3. CASE i # 1
        <5>1. i - 1 \in 1..(Len(feed) - 1) /\ (i - 1) + 1 = i
          BY <1>4, <4>3
        <5>2. w[i - 1] = feed[(i - 1) + 1] /\ i - 1 \in DOMAIN w
          BY <1>12, <5>1
        <5> QED BY <4>1, <5>1, <5>2
      <4> QED BY <4>2, <4>3
    <3> QED BY <2>1, <3>1, <3>2
  <2> QED BY <2>3, <2>4, <2>5, <2>6, <2>7
<1> QED BY <1>18, <1>19, <1>21, <1>22, <1>23 DEF StreamInv
\* The page goes on, and so do its requests and its stream.
LEMMA PageAdvances ==
  ASSUME StreamInv,
         UNCHANGED <<boot, stored, writer, stream, feed, sessionId, behind>>,
         lineCursor' \in Nat, lineCursor <= lineCursor', histories' \subseteq histories
  PROVE  RequestsFollow' /\ FeedFollows'
<1>1. StreamTyped /\ RequestsFollow /\ FeedFollows
  BY DEF StreamInv
<1>2. PICK c \in Nat : c = lineCursor'
  OBVIOUS
<1>3. lineCursor \in Nat /\ lineCursor <= c /\ stored \in Nat /\ Evicted \in Nat
  BY <1>1, <1>2, StreamNumbers
<1>4. Evicted' = Evicted /\ Handed' = Handed /\ (Following' <=> Following)
  BY DEF Evicted, Handed, Following
<1>5. RequestsFollow'
  <2>1. ASSUME Following, NEW h \in histories
        PROVE  /\ h.at = "asked" => h.cursor <= c
               /\ h.at = "answered" => h.hi <= stored /\ (h.lo <= c \/ h.lo <= Evicted)
    <3>1. RequestFollows(h) /\ RequestTyped(h)
      BY <1>1, <2>1 DEF RequestsFollow, StreamTyped
    <3>2. /\ h.at = "asked" => h.cursor \in Nat
          /\ h.at = "answered" => h.lo \in Nat
      BY <3>1 DEF RequestTyped
    <3> QED BY <1>3, <3>1, <3>2 DEF RequestFollows
  <2>2. ASSUME Following, stream # NoRequest PROVE stream.cursor <= c
    <3>1. stream.cursor \in Nat /\ stream.cursor <= lineCursor
      BY <1>1, <2>2, StreamNumbers DEF RequestsFollow
    <3> QED BY <1>3, <3>1
  <2> QED BY <1>2, <1>4, <2>1, <2>2 DEF RequestsFollow, RequestFollows
<1>6. FeedFollows'
  <2> SUFFICES ASSUME Following, stream.at = "live"
               PROVE  /\ IF feed = <<>> THEN Handed <= c
                         ELSE /\ Handed <= feed[Len(feed)]
                              /\ feed[1] <= c + 1 \/ feed[1] <= Evicted + 1
                      /\ \A i \in 1..(Len(feed) - 1) : feed[i + 1] <= feed[i] + 1
                      /\ \A i \in DOMAIN feed : feed[i] <= stored
                      /\ \A seq \in (Evicted + 1)..stored :
                           \/ seq <= c \/ \E i \in DOMAIN feed : feed[i] = seq
                           \/ writer = "stored" /\ seq = stored
    BY <1>2, <1>4 DEF FeedFollows
  <2>1. /\ IF feed = <<>> THEN Handed <= lineCursor
           ELSE /\ Handed <= feed[Len(feed)]
                /\ feed[1] <= lineCursor + 1 \/ feed[1] <= Evicted + 1
        /\ \A i \in 1..(Len(feed) - 1) : feed[i + 1] <= feed[i] + 1
        /\ \A i \in DOMAIN feed : feed[i] <= stored
        /\ \A seq \in (Evicted + 1)..stored :
             \/ seq <= lineCursor \/ \E i \in DOMAIN feed : feed[i] = seq
             \/ writer = "stored" /\ seq = stored
    BY <1>1 DEF FeedFollows
  <2>2. feed = <<>> => Handed <= c
    <3>1. Handed \in Nat
      BY <1>1, <1>3 DEF Handed, StreamTyped
    <3> QED BY <1>3, <2>1, <3>1
  <2>3. feed # <<>> => feed[1] <= c + 1 \/ feed[1] <= Evicted + 1
    <3> SUFFICES ASSUME feed # <<>> PROVE feed[1] <= c + 1 \/ feed[1] <= Evicted + 1
      OBVIOUS
    <3>1. 1 \in DOMAIN feed
      <4>1. Len(feed) \in Nat /\ Len(feed) # 0 /\ DOMAIN feed = 1..Len(feed)
        BY <1>1, StreamNumbers
      <4> QED BY <4>1
    <3>2. feed[1] \in Nat
      BY <1>1, <3>1, StreamNumbers
    <3> QED BY <1>3, <2>1, <3>2
  <2>4. ASSUME NEW seq \in (Evicted + 1)..stored
        PROVE  \/ seq <= c \/ \E i \in DOMAIN feed : feed[i] = seq
               \/ writer = "stored" /\ seq = stored
    <3>1. seq <= lineCursor => seq <= c
      BY <1>3
    <3> QED BY <2>1, <3>1
  <2> QED BY <2>1, <2>2, <2>3, <2>4
<1> QED BY <1>5, <1>6

LEMMA HistoryGoneKeepsStream ==
  ASSUME NEW h \in histories, StreamInv, HistoryFails(h)
  PROVE  StreamInv'
<1>1. /\ UNCHANGED <<boot, stored, writer, stream, feed, lineCursor, page, sessionId, retry,
                     resolving, behind>>
      /\ histories' \subseteq histories
  BY DEF HistoryFails
<1>2. StreamTyped /\ RequestsOfSession
  BY DEF StreamInv
<1>3. (Known' <=> Known) /\ PageOrdered'
  BY <1>1, TrackerAndPageKept
<1>4. lineCursor' \in Nat /\ lineCursor <= lineCursor'
  <2>1. lineCursor \in Nat
    BY <1>2, StreamNumbers
  <2> QED BY <1>1, <2>1
<1>5. RequestsFollow' /\ FeedFollows'
  BY <1>1, <1>4, PageAdvances
<1>6. StreamTyped'
  BY <1>1, <1>2 DEF StreamTyped, RequestTyped
<1>7. RequestsOfSession'
  BY <1>1, <1>2, <1>3 DEF RequestsOfSession
<1> QED BY <1>3, <1>5, <1>6, <1>7 DEF StreamInv

\* A history answer begins where the page was when it asked, or where the buffer began.
LEMMA AnswerHistoryKeepsStream ==
  ASSUME NEW h \in histories, StreamInv, AnswerHistory(h)
  PROVE  StreamInv'
<1>1. /\ h.at = "asked" /\ Known
      /\ UNCHANGED <<boot, stored, writer, stream, feed, lineCursor, page, sessionId, retry,
                     resolving, behind>>
  BY DEF AnswerHistory
<1>2. StreamTyped /\ RequestsOfSession /\ RequestsFollow /\ FeedFollows
  BY DEF StreamInv
<1>3. /\ MaxLines \in Nat /\ stored \in Nat /\ stored <= MaxLines /\ lineCursor \in Nat
      /\ Evicted \in Nat /\ Evicted <= stored
  BY <1>2, StreamNumbers
<1>4. /\ Evicted' = Evicted /\ Handed' = Handed /\ (Known' <=> Known)
      /\ (Following' <=> Following) /\ PageOrdered'
  BY <1>1, TrackerAndPageKept
<1>5. RequestTyped(h) /\ (Following => RequestFollows(h))
  BY <1>2 DEF StreamTyped, RequestsFollow
<1>6. PICK c \in 0..MaxLines : c = h.cursor
  BY <1>1, <1>5 DEF RequestTyped
<1>7. PICK lo \in Nat : lo = Larger(c, Evicted) /\ (lo = c \/ lo = Evicted)
  BY <1>3, LargerIs
<1>8. PICK r : r = [at |-> "answered", lo |-> lo, hi |-> stored]
  OBVIOUS
<1>9. histories' = (histories \ {h}) \cup {r}
  BY <1>6, <1>7, <1>8 DEF AnswerHistory
<1>10. r.at = "answered" /\ r.lo = lo /\ r.hi = stored
  BY <1>8
<1>11. RequestTyped(r) /\ (Following => RequestFollows(r))
  <2>1. lo \in 0..MaxLines /\ stored \in 0..MaxLines
    BY <1>3, <1>7
  <2>2. Following => lo <= lineCursor \/ lo <= Evicted
    BY <1>1, <1>3, <1>5, <1>6, <1>7 DEF RequestFollows
  <2>3. stored <= stored
    BY <1>3
  <2> QED BY <1>10, <2>1, <2>2, <2>3 DEF RequestTyped, RequestFollows
<1>12. \A g \in histories' : RequestTyped(g) /\ (Following => RequestFollows(g))
  BY <1>2, <1>9, <1>11 DEF StreamTyped, RequestsFollow
<1>13. StreamTyped'
  BY <1>1, <1>2, <1>12 DEF StreamTyped, RequestTyped
<1>14. RequestsOfSession'
  BY <1>1, <1>2, <1>4 DEF RequestsOfSession
<1>15. RequestsFollow'
  BY <1>1, <1>2, <1>4, <1>12 DEF RequestsFollow, RequestFollows
<1>16. FeedFollows'
  BY <1>1, <1>2, <1>4 DEF FeedFollows
<1> QED BY <1>4, <1>13, <1>14, <1>15, <1>16 DEF StreamInv

\* What an answer has after the page is put after it.
LEMMA OnHistoryKeepsStream ==
  ASSUME NEW h \in histories, StreamInv, OnHistory(h)
  PROVE  StreamInv'
<1>1. /\ h.at = "answered" /\ histories' = histories \ {h}
      /\ UNCHANGED <<boot, stored, writer, stream, feed, sessionId, retry, resolving, behind>>
  BY DEF OnHistory
<1>2. StreamTyped /\ RequestsOfSession /\ PageOrdered /\ RequestsFollow
  BY DEF StreamInv
<1>3. /\ MaxLines \in Nat /\ stored \in Nat /\ lineCursor \in Nat /\ lineCursor <= MaxLines
      /\ Evicted \in Nat
  BY <1>2, StreamNumbers
<1>4. RequestTyped(h) /\ (Following => RequestFollows(h))
  BY <1>2 DEF StreamTyped, RequestsFollow
<1>5. h.lo \in Nat /\ h.hi \in Nat /\ h.hi <= MaxLines
  BY <1>1, <1>3, <1>4 DEF RequestTyped
<1>6. PICK from \in Nat : /\ from = Larger(h.lo, lineCursor) /\ lineCursor <= from
                          /\ h.lo <= from /\ (from = h.lo \/ from = lineCursor)
  <2>1. PICK a \in Nat : a = h.lo
    BY <1>5
  <2>2. PICK b \in Nat : b = lineCursor
    BY <1>3
  <2>3. PICK d : d = Larger(a, b)
    OBVIOUS
  <2>4. d \in Nat /\ b <= d /\ a <= d /\ (d = a \/ d = b)
    BY <2>3, LargerIs
  <2> QED BY <2>1, <2>2, <2>3, <2>4
<1>7. (Known' <=> Known) /\ Evicted' = Evicted /\ (Following' <=> Following)
  BY <1>1 DEF Known, Evicted, Following
<1>8. CASE ~(h.hi > from)
  <2>1. UNCHANGED <<lineCursor, page>>
    BY <1>6, <1>8 DEF OnHistory
  <2>2. HistoryFails(h)
    BY <1>1, <2>1 DEF HistoryFails
  <2> QED BY <2>2, HistoryGoneKeepsStream
<1>9. CASE h.hi > from
  <2>1. PICK k \in Nat : k = h.hi - from /\ k >= 1 /\ from + k = h.hi
    BY <1>5, <1>6, <1>9
  <2>2. PICK q : q = [i \in 1..k |-> [boot |-> boot, seq |-> from + i]]
    OBVIOUS
  <2>3. lineCursor' = h.hi /\ page' = page \o q
    BY <1>6, <1>9, <2>1, <2>2 DEF OnHistory
  <2>4. ASSUME NEW i \in 1..k PROVE /\ [boot |-> boot, seq |-> from + i] \in PageLine
                                    /\ q[i].boot = boot /\ q[i].seq = from + i
    <3>1. from + i \in Seqs /\ boot \in 0..MaxRestarts
      BY <1>2, <1>3, <1>5, <2>1 DEF Seqs, StreamTyped
    <3>2. q[i] = [boot |-> boot, seq |-> from + i]
      BY <2>2
    <3> QED BY <3>1, <3>2 DEF PageLine
  <2>5. q \in [1..k -> PageLine] /\ DOMAIN q = 1..k
    BY <2>2, <2>4
  <2>6. q \in Seq(PageLine)
    BY <2>1, <2>5, SeqDef, Zenon
  <2>7. Len(q) = k
    BY <2>1, <2>5, <2>6
  <2>8. page \in Seq(PageLine)
    BY <1>2 DEF StreamTyped
  <2>9. page' \in Seq(PageLine)
    BY <2>3, <2>6, <2>8, ConcatProperties
  <2>10. lineCursor' \in Nat /\ lineCursor <= lineCursor' /\ lineCursor' \in 0..MaxLines
    BY <1>3, <1>5, <1>6, <1>9, <2>3
  <2>11. RequestsFollow' /\ FeedFollows'
    BY <1>1, <2>10, PageAdvances
  <2>12. StreamTyped'
    BY <1>1, <1>2, <2>9, <2>10 DEF StreamTyped, RequestTyped
  <2>13. RequestsOfSession'
    BY <1>1, <1>2, <1>7 DEF RequestsOfSession
  <2>14. ASSUME Following PROVE Ordered(page', lineCursor', boot, Evicted) /\ lineCursor' <= stored
    <3>1. Ordered(page, lineCursor, boot, Evicted)
      BY <1>2, <2>14 DEF PageOrdered
    <3>2. h.hi <= stored /\ (h.lo <= lineCursor \/ h.lo <= Evicted)
      BY <1>1, <1>4, <2>14 DEF RequestFollows
    <3>3. from = lineCursor \/ from <= Evicted
      BY <1>3, <1>5, <1>6, <3>2
    <3>4. PICK e \in Nat : e = Evicted
      BY <1>3
    <3>5. PICK l \in Nat : l = lineCursor
      BY <1>3
    <3>6. PICK p \in Seq(PageLine) : p = page
      BY <2>8
    <3>7. PICK b : b = boot
      OBVIOUS
    <3>8. Ordered(p, l, b, e) /\ l <= from /\ (from = l \/ from <= e)
      BY <1>6, <3>1, <3>3, <3>4, <3>5, <3>6, <3>7
    <3>9. \A i \in 1..k : q[i].boot = b /\ q[i].seq = from + i
      BY <2>4, <3>7
    <3>10. Ordered(p \o q, from + k, b, e)
      BY <2>1, <2>6, <2>7, <3>8, <3>9, OrderedJoins
    <3>11. page' = p \o q /\ lineCursor' = from + k
      BY <2>1, <2>3, <3>6
    <3> QED BY <2>3, <3>2, <3>4, <3>7, <3>10, <3>11
  <2>15. Following => Ordered(page', lineCursor', boot', Evicted') /\ lineCursor' <= stored'
    BY <1>1, <1>7, <2>14
  <2>16. PageOrdered'
    BY <1>7, <2>15 DEF PageOrdered, Ordered
  <2> QED BY <2>11, <2>12, <2>13, <2>16 DEF StreamInv
<1> QED BY <1>8, <1>9

\* The lines of the running gateway are on the page in order and once each, what
\* is missing was pushed out of the buffer, and what is kept is shown or on its way.
LEMMA StreamInvIsWhole == StreamInv => StreamIsWhole
<1> SUFFICES ASSUME StreamInv PROVE StreamIsWhole
  OBVIOUS
<1>1. StreamTyped /\ PageOrdered /\ FeedFollows
  BY DEF StreamInv
<1>2. /\ stored \in Nat /\ Evicted \in Nat /\ lineCursor \in Nat
      /\ \A i \in DOMAIN feed : feed[i] \in Nat
  BY <1>1, StreamNumbers
<1>3. DOMAIN page = 1..Len(page) /\ Len(page) \in Nat /\ \A i \in DOMAIN page : page[i] \in PageLine
  <2>1. page \in Seq(PageLine)
    BY <1>1 DEF StreamTyped
  <2> QED BY <2>1, LenProperties
<1>4. \A i \in DOMAIN page : page[i].boot \in 0..MaxRestarts /\ page[i].seq \in Seqs
  BY <1>3 DEF PageLine
<1>5. StreamTypeOK
  <2>1. \A i \in DOMAIN feed : feed[i] \in Seqs
    <3>1. feed \in Seq(Seqs)
      BY <1>1 DEF StreamTyped
    <3> QED BY <3>1, LenProperties
  <2> QED BY <1>1, <1>4, <2>1 DEF StreamTypeOK, StreamTyped, RequestTyped
<1>6. LinesInOrder
  <2> SUFFICES ASSUME ~behind, sessionId
               PROVE  /\ \A i \in DOMAIN page :
                           LET before == IF i = 1 THEN 0 ELSE page[i - 1].seq IN
                           /\ page[i].boot = boot
                           /\ page[i].seq > before
                           /\ page[i].seq > before + 1 => page[i].seq - 1 <= Evicted
                      /\ lineCursor = (IF page = <<>> THEN 0 ELSE Last(page).seq)
    BY DEF LinesInOrder
  <2>1. Ordered(page, lineCursor, boot, Evicted)
    BY <1>1 DEF PageOrdered, Following
  <2>2. ASSUME NEW i \in DOMAIN page, NEW before, before = (IF i = 1 THEN 0 ELSE page[i - 1].seq)
        PROVE  /\ page[i].boot = boot
               /\ page[i].seq > before
               /\ page[i].seq > before + 1 => page[i].seq - 1 <= Evicted
    <3>1. /\ page[i].boot = boot /\ page[i].seq > before
          /\ page[i].seq <= before + 1 \/ page[i].seq <= Evicted + 1
      BY <2>1, <2>2 DEF Ordered
    <3>2. page[i].seq \in Nat /\ page[i].seq >= 1
      BY <1>4, StreamBounds DEF Seqs
    <3>3. before \in Nat
      <4>1. CASE i = 1
        BY <2>2, <4>1
      <4>2. CASE i # 1
        <5>1. i - 1 \in DOMAIN page
          BY <1>3, <4>2
        <5>2. page[i - 1].seq \in Nat
          BY <1>4, <5>1, StreamBounds DEF Seqs
        <5> QED BY <2>2, <4>2, <5>2
      <4> QED BY <4>1, <4>2
    <3> QED BY <1>2, <3>1, <3>2, <3>3
  <2>3. lineCursor = (IF page = <<>> THEN 0 ELSE Last(page).seq)
    BY <2>1 DEF Ordered, Last
  <2> QED BY <2>2, <2>3
<1>7. NothingBetween
  <2> SUFFICES ASSUME stream.at = "live", writer = "idle", sessionId, ~behind,
                      NEW seq \in (Evicted + 1)..stored
               PROVE  seq <= lineCursor \/ seq \in ToSet(feed)
    BY DEF NothingBetween
  <2>1. seq <= lineCursor \/ \E i \in DOMAIN feed : feed[i] = seq
    BY <1>1 DEF FeedFollows, Following
  <2> QED BY <2>1 DEF ToSet
<1> QED BY <1>5, <1>6, <1>7 DEF StreamIsWhole

\* The page and the buffer stay in step, however the stream and the requests of
\* the page fail and whenever the agent writes.
THEOREM PageFollowsChat == StreamSpec => []StreamIsWhole
<1>1. StreamInv /\ [StreamNext]_streamVars => StreamInv'
  <2> SUFFICES ASSUME StreamInv, [StreamNext]_streamVars PROVE StreamInv'
    OBVIOUS
  <2>1. CASE UNCHANGED streamVars
    <3>1. UNCHANGED <<boot, stored, writer, stream, feed, lineCursor, page, sessionId, retry,
                      resolving, histories, behind>>
      BY <2>1 DEF streamVars
    <3>2. resolving \in {"closed", "none", "asked", "session", "waiting"}
      BY DEF StreamInv, StreamTyped
    <3>3. /\ resolving = "session" => Known
          /\ resolving = "waiting" => histories = {}
      BY DEF StreamInv, RequestsOfSession
    <3> QED BY <3>1, <3>2, <3>3, ResolvingKeepsStream
  <2>2. CASE \E h \in histories : AnswerHistory(h) \/ OnHistory(h) \/ HistoryFails(h)
    BY <2>2, AnswerHistoryKeepsStream, OnHistoryKeepsStream, HistoryGoneKeepsStream
  <2> QED
    BY <2>1, <2>2, StoreLineKeepsStream, NotifyKeepsStream, RestartKeepsStream,
       AcceptStreamKeepsStream, OnLineKeepsStream, StreamLostKeepsStream,
       ResolveStepsKeepStream, ResolvedNoneKeepsStream, ResolvedNewKeepsStream,
       ResolvedSameKeepsStream
    DEF StreamNext
<1> QED BY <1>1, StreamInitHolds, StreamInvIsWhole, PTL DEF StreamSpec
=============================================================================
