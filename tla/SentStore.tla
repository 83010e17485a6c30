----------------------------- MODULE SentStore -----------------------------
(***************************************************************************)
(* SentMessageStore (hermes_infoflow/sent_store.py): the duplicate window  *)
(* the inbound pipeline consults, the ids this bot sent, the recent sends  *)
(* of each chat and the SQLite file behind them, which the standalone      *)
(* sender of a cron process (standalone.py) writes too.                    *)
(*                                                                         *)
(* Time is a counter that only Tick advances: time.time() is taken not to  *)
(* step backwards.  An OrderedDict or deque position is a stamp.           *)
(***************************************************************************)
EXTENDS Naturals, FiniteSets

CONSTANTS
  Ids,            \* message ids
  Chats,          \* store keys
  Ttl,            \* ttl_seconds
  MaxEntries,     \* max_dedup_entries (positive)
  PerChatLimit,   \* per_chat_limit
  Retention,      \* db_retention_seconds
  OtherProcess,   \* may a standalone process write the file?
  DbMayFail,      \* may a write of the file fail?
  MaxTime,        \* bound of the clock
  MaxStamp        \* bound of the operations that add something

ASSUME StoreAssumption ==
  /\ IsFiniteSet(Ids)
  /\ Ttl \in Nat \ {0} /\ MaxEntries \in Nat \ {0}
  /\ PerChatLimit \in Nat \ {0} /\ Retention \in Nat
  /\ OtherProcess \in BOOLEAN /\ DbMayFail \in BOOLEAN
  /\ MaxTime \in Nat /\ MaxStamp \in Nat

Kinds == {"plain", "forward", "mention", "sent"}
Entry == [id : Ids, chat : Chats, at : Nat, stamp : Nat]

VARIABLES
  now,       \* time.time()
  stamp,     \* operations so far that added something
  dedup,     \* dedup_set
  sentIds,   \* sent_message_ids
  seenKind,  \* _seen_kind
  expiry,    \* _expiry: when an id expires, and its place in the order
  entries,   \* _entries: the deques of all chats, as one set
  db,        \* the rows of sent_messages
  sent,      \* history: what was sent and recorded, by any process
  recalled,  \* history: ids recalled and removed
  unwritten, \* history: ids for which a write of the file failed
  touched    \* history: when each id was last recorded or marked

vars == <<now, stamp, dedup, sentIds, seenKind, expiry, entries, db, sent,
          recalled, unwritten, touched>>

Expiry == [until : Nat, stamp : Nat]
Touch == [at : Nat, stamp : Nat]

TypeOK ==
  /\ now \in Nat /\ stamp \in Nat
  /\ dedup \subseteq Ids /\ sentIds \subseteq Ids
  /\ recalled \subseteq Ids /\ unwritten \subseteq Ids
  /\ DOMAIN seenKind \subseteq Ids /\ \A m \in DOMAIN seenKind : seenKind[m] \in Kinds
  /\ DOMAIN expiry \subseteq Ids /\ \A m \in DOMAIN expiry : expiry[m] \in Expiry
  /\ entries \subseteq Entry /\ db \subseteq Entry /\ sent \subseteq Entry
  /\ DOMAIN touched \subseteq Ids /\ \A m \in DOMAIN touched : touched[m] \in Touch

NoneYet == [m \in {} |-> 0]

Init ==
  /\ now = 0 /\ stamp = 0
  /\ dedup = {} /\ sentIds = {} /\ recalled = {} /\ unwritten = {}
  /\ seenKind = NoneYet /\ expiry = NoneYet /\ touched = NoneYet
  /\ entries = {} /\ db = {} /\ sent = {}

-----------------------------------------------------------------------------
(* Helpers *)

Put(f, m, v) == [x \in DOMAIN f \cup {m} |-> IF x = m THEN v ELSE f[x]]
Without(f, S) == [x \in DOMAIN f \ S |-> f[x]]

\* _sweep walks _expiry in insertion order and stops at the first id that
\* has not expired: it drops the ids with nothing unexpired up to them.
Swept ==
  {m \in DOMAIN expiry :
     \A x \in DOMAIN expiry :
       expiry[x].stamp <= expiry[m].stamp => expiry[x].until <= now}

\* record and mark_seen: the id moves to the tail with a new expiry time ...
Refreshed_InPlace(m) ==
  Put(Without(expiry, Swept), m,
      [until |-> now + Ttl,
       stamp |-> IF m \in DOMAIN expiry \ Swept THEN expiry[m].stamp ELSE stamp])
Refreshed(m) ==
  Put(Without(expiry, Swept), m, [until |-> now + Ttl, stamp |-> stamp])

\* ... and _enforce_max_size pops from the head: what survives has fewer
\* than MaxEntries younger ids.
Kept(e) == {m \in DOMAIN e :
  Cardinality({x \in DOMAIN e : e[x].stamp > e[m].stamp}) < MaxEntries}

\* The membership part of record ("sent") and mark_seen (another kind).
Remember(m, kind) ==
  LET refreshed == Refreshed(m)
      kept == Kept(refreshed)
  IN  /\ expiry' = [x \in kept |-> refreshed[x]]
      /\ dedup' = ((dedup \ Swept) \cup {m}) \cap kept
      /\ sentIds' = ((sentIds \ Swept)
                       \cup (IF kind = "sent" THEN {m} ELSE {})) \cap kept
      /\ seenKind' = [x \in kept |-> IF x = m THEN kind ELSE seenKind[x]]
      /\ touched' = Put(touched, m, [at |-> now, stamp |-> stamp])
      /\ stamp' = stamp + 1

\* The deque of a chat drops its oldest entry beyond per_chat_limit.
Trimmed(E) ==
  {e \in E : Cardinality({f \in E : f.chat = e.chat /\ f.stamp > e.stamp})
               < PerChatLimit}

\* _persist: insert, then delete the rows older than the new row's retention.
Persisted_Boundary(e) == {r \in db \cup {e} : r = e \/ r.at + Retention > e.at}
Persisted(e) == {r \in db \cup {e} : r.at + Retention >= e.at}

-----------------------------------------------------------------------------
(* Operations *)

\* record: the platform gave each sent message an id of its own.
Record(m, c) ==
  /\ stamp < MaxStamp
  /\ \A e \in sent : e.id # m
  /\ LET e == [id |-> m, chat |-> c, at |-> now, stamp |-> stamp]
     IN  /\ Remember(m, "sent")
         /\ entries' = Trimmed(entries \cup {e})
         /\ sent' = sent \cup {e}
         /\ \/ db' = Persisted(e) /\ UNCHANGED unwritten
            \/ DbMayFail /\ unwritten' = unwritten \cup {m} /\ UNCHANGED db
  /\ UNCHANGED <<now, recalled>>

\* mark_seen, as process_inbound calls it: on an id that is not a duplicate,
\* or to upgrade a forwarded copy to a mention.
MarkSeen(m, kind) ==
  /\ stamp < MaxStamp
  /\ kind \in Kinds \ {"sent"}
  /\ \/ m \notin dedup \ Swept
     \/ m \in DOMAIN seenKind /\ seenKind[m] = "forward" /\ kind = "mention"
  /\ Remember(m, kind)
  /\ UNCHANGED <<now, entries, db, sent, recalled, unwritten>>

\* is_duplicate and seen_kind change nothing but what they sweep.
Query ==
  /\ Swept # {}
  /\ dedup' = dedup \ Swept
  /\ sentIds' = sentIds \ Swept
  /\ seenKind' = Without(seenKind, Swept)
  /\ expiry' = Without(expiry, Swept)
  /\ UNCHANGED <<now, stamp, entries, db, sent, recalled, unwritten, touched>>

\* remove, after a successful recall.
Remove(m, c) ==
  /\ \E e \in sent : e.id = m /\ e.chat = c
  /\ entries' = {e \in entries : ~(e.chat = c /\ e.id = m)}
  /\ dedup' = dedup \ {m} /\ sentIds' = sentIds \ {m}
  /\ seenKind' = Without(seenKind, {m}) /\ expiry' = Without(expiry, {m})
  /\ recalled' = recalled \cup {m}
  /\ \/ db' = {r \in db : ~(r.chat = c /\ r.id = m)} /\ UNCHANGED unwritten
     \/ DbMayFail /\ unwritten' = unwritten \cup {m} /\ UNCHANGED db
  /\ UNCHANGED <<now, stamp, sent, touched>>

\* standalone_send records in a store of its own on the same file.
OtherRecords(m, c) ==
  /\ OtherProcess
  /\ stamp < MaxStamp
  /\ \A e \in sent : e.id # m
  /\ LET e == [id |-> m, chat |-> c, at |-> now, stamp |-> stamp]
     IN  db' = Persisted(e) /\ sent' = sent \cup {e}
  /\ stamp' = stamp + 1
  /\ UNCHANGED <<now, dedup, sentIds, seenKind, expiry, entries, recalled,
                 unwritten, touched>>

\* The gateway restarts: memory is lost, the file stays.
Restart ==
  /\ dedup # {} \/ entries # {}
  /\ dedup' = {} /\ sentIds' = {} /\ entries' = {}
  /\ seenKind' = NoneYet /\ expiry' = NoneYet /\ touched' = NoneYet
  /\ UNCHANGED <<now, stamp, db, sent, recalled, unwritten>>

Tick ==
  /\ now < MaxTime
  /\ now' = now + 1
  /\ UNCHANGED <<stamp, dedup, sentIds, seenKind, expiry, entries, db, sent,
                 recalled, unwritten, touched>>

Next ==
  \/ \E m \in Ids, c \in Chats : Record(m, c) \/ Remove(m, c) \/ OtherRecords(m, c)
  \/ \E m \in Ids, k \in Kinds : MarkSeen(m, k)
  \/ Query \/ Restart \/ Tick

Spec == Init /\ [][Next]_vars

-----------------------------------------------------------------------------
(* A query without an effect of its own *)

\* find: the chat's deque, then the file.
Find(c, m) == {e \in entries \cup db : e.chat = c /\ e.id = m}

-----------------------------------------------------------------------------
(* Properties *)

\* record, mark_seen, remove, _sweep and _enforce_max_size keep the four
\* containers in step: the shared duplicate set, the kinds and the expiry map
\* hold the same ids, no more than the cap, and the sent ids among them are
\* exactly those whose kind says so (sent_store.py:142-150, 167-173, 262-303).
ContainersAgree ==
  /\ dedup = DOMAIN expiry
  /\ dedup = DOMAIN seenKind
  /\ sentIds = {m \in dedup : seenKind[m] = "sent"}
  /\ Cardinality(dedup) <= MaxEntries

\* The early break of _sweep loses nothing: what a query sees after its sweep
\* is unexpired, and every id touched within the TTL that was not recalled is
\* still there unless MaxEntries ids were touched after it.
DedupIsWindow ==
  /\ \A m \in dedup \ Swept : m \in DOMAIN touched /\ touched[m].at + Ttl > now
  /\ \A m \in DOMAIN touched :
       (/\ touched[m].at + Ttl > now
        /\ m \notin recalled
        /\ Cardinality({x \in DOMAIN touched : touched[x].stamp > touched[m].stamp})
             < MaxEntries)
       => m \in dedup

\* The duplicate check is a window of time and size: the containers behind it
\* agree, and it answers as if every id had its own clock (sent_store.py:113-303).
DedupInStep == TypeOK /\ ContainersAgree /\ DedupIsWindow

\* recall_message finds every message whose row was written, of any process
\* and after any restart, until it is recalled or outlives the retention.
SentStaysFindable ==
  \A e \in sent :
    (/\ e.id \notin recalled \cup unwritten
     /\ \A f \in sent : e.at + Retention >= f.at)
    => Find(e.chat, e.id) # {}

\* A recalled message is out of every container: neither recent nor find
\* offers it again, unless the deletion of its row failed.
RecalledIsForgotten ==
  \A m \in recalled :
    /\ \A e \in entries : e.id # m
    /\ m \notin unwritten => \A r \in db : r.id # m

\* What was sent can be recalled until it is recalled, and is gone then
\* (sent_store.py:200-256, 384-440).
KeptUntilRecalled == SentStaysFindable /\ RecalledIsForgotten
=============================================================================
