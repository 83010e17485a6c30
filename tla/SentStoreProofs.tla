-------------------------- MODULE SentStoreProofs --------------------------
(***************************************************************************)
(* Theorems about the two stores: SentStore for any ids, chats, TTL, cap,  *)
(* deque length and retention, with a second process, failing writes and   *)
(* restarts; MessageStore for any messages, chats, writers and limits.     *)
(***************************************************************************)
EXTENDS SentStore, MessageStore, FiniteSetTheorems, WellFoundedInduction, TLAPS

\* _expiry: no two ids share a place, and later places expire no earlier.
ExpiryOrdered ==
  /\ \A m \in DOMAIN expiry : expiry[m].stamp < stamp
  /\ \A m \in DOMAIN expiry : expiry[m].until <= now + Ttl
  /\ \A m, x \in DOMAIN expiry : expiry[m].stamp = expiry[x].stamp => m = x
  /\ \A m, x \in DOMAIN expiry :
       expiry[m].stamp <= expiry[x].stamp => expiry[m].until <= expiry[x].until

\* An id in the map was last touched when its place says it was.
ExpiryTouched ==
  /\ \A m \in DOMAIN touched : touched[m].stamp < stamp
  /\ \A m \in DOMAIN expiry :
       /\ m \in DOMAIN touched
       /\ expiry[m].stamp = touched[m].stamp
       /\ expiry[m].until = touched[m].at + Ttl

\* The second part of DedupIsWindow, about the expiry map itself.
WindowKept ==
  \A m \in DOMAIN touched :
    (/\ touched[m].at + Ttl > now
     /\ m \notin recalled
     /\ Cardinality({x \in DOMAIN touched : touched[x].stamp > touched[m].stamp})
          < MaxEntries)
    => m \in DOMAIN expiry

\* An id names one send, and memory and file hold only sends of the past.
SendsUnique ==
  /\ \A e, f \in sent : e.id = f.id => e = f
  /\ entries \subseteq sent
  /\ db \subseteq sent
  /\ \A m \in recalled : \E e \in sent : e.id = m

\* The row of a send that should be findable is in the file.
RowKept ==
  \A e \in sent :
    (e.id \notin recalled \cup unwritten /\ \A f \in sent : e.at + Retention >= f.at)
    => e \in db

IInv ==
  /\ TypeOK
  /\ ContainersAgree
  /\ ExpiryOrdered
  /\ ExpiryTouched
  /\ WindowKept
  /\ SendsUnique
  /\ RowKept
  /\ RecalledIsForgotten

-----------------------------------------------------------------------------
(* The size cap *)

\* A non-empty set of naturals has a least element.
LEMMA LeastStamp ==
  ASSUME NEW T, T \subseteq Nat, T # {}
  PROVE  \E x \in T : \A y \in T : x <= y
<1>1. PICK x \in T : \A y \in T : ~ (<<y, x>> \in OpToRel(<, Nat))
  BY NatLessThanWellFounded, WFMin, Zenon
<1>2. \A y \in T : ~ (y < x)
  BY <1>1 DEF OpToRel
<1> QED  BY <1>2

\* _enforce_max_size leaves no more than the cap: all that survive are
\* younger than the oldest survivor, which has fewer than the cap above it.
LEMMA KeptIsBounded ==
  ASSUME NEW e, DOMAIN e \subseteq Ids,
         \A m \in DOMAIN e : e[m].stamp \in Nat,
         \A m, x \in DOMAIN e : e[m].stamp = e[x].stamp => m = x
  PROVE  /\ Kept(e) \subseteq DOMAIN e
         /\ Cardinality(Kept(e)) <= MaxEntries
<1> DEFINE Younger(m) == {x \in DOMAIN e : e[x].stamp > e[m].stamp}
<1>1. Kept(e) \subseteq DOMAIN e /\ IsFiniteSet(DOMAIN e)
  BY FS_Subset, StoreAssumption DEF Kept
<1>2. IsFiniteSet(Kept(e)) /\ Cardinality(Kept(e)) \in Nat
  BY <1>1, FS_Subset, FS_CardinalityType
<1>3. CASE Kept(e) = {}
  BY <1>1, <1>3, FS_EmptySet, StoreAssumption
<1>4. CASE Kept(e) # {}
  <2>1. PICK m \in Kept(e) : \A x \in Kept(e) : e[m].stamp <= e[x].stamp
    <3> DEFINE T == {e[x].stamp : x \in Kept(e)}
    <3>1. T \subseteq Nat /\ T # {}
      BY <1>1, <1>4
    <3>2. PICK t \in T : \A y \in T : t <= y
      BY <3>1, LeastStamp
    <3> QED  BY <3>2
  <2>2. Kept(e) \ {m} \subseteq Younger(m)
    <3> SUFFICES ASSUME NEW x \in Kept(e), x # m  PROVE x \in Younger(m)
      OBVIOUS
    <3>1. e[m].stamp <= e[x].stamp /\ e[m].stamp # e[x].stamp
      BY <1>1, <2>1
    <3>2. e[m].stamp \in Nat /\ e[x].stamp \in Nat
      BY <1>1
    <3> QED  BY <1>1, <3>1, <3>2
  <2>3. IsFiniteSet(Younger(m)) /\ Cardinality(Younger(m)) < MaxEntries
    BY <1>1, FS_Subset DEF Kept
  <2>4. Cardinality(Kept(e) \ {m}) <= Cardinality(Younger(m))
    BY <2>2, <2>3, FS_Subset
  <2>5. Cardinality(Kept(e) \ {m}) = Cardinality(Kept(e)) - 1
    BY <1>2, FS_RemoveElement
  <2>6. Cardinality(Younger(m)) \in Nat
    BY <2>3, FS_CardinalityType
  <2> QED  BY <1>1, <1>2, <2>3, <2>4, <2>5, <2>6, StoreAssumption
<1> QED  BY <1>3, <1>4

-----------------------------------------------------------------------------
(* The four containers and the window *)

LEMMA InitIInv == Init => IInv
<1> SUFFICES ASSUME Init  PROVE IInv
  OBVIOUS
<1> USE DEF Init, NoneYet
<1>1. TypeOK  BY DEF TypeOK
<1>2. ContainersAgree  BY FS_EmptySet, StoreAssumption DEF ContainersAgree
<1>3. ExpiryOrdered /\ ExpiryTouched /\ WindowKept
  BY DEF ExpiryOrdered, ExpiryTouched, WindowKept
<1>4. SendsUnique /\ RowKept /\ RecalledIsForgotten
  BY DEF SendsUnique, RowKept, RecalledIsForgotten
<1> QED  BY <1>1, <1>2, <1>3, <1>4 DEF IInv

\* A sweep drops exactly the expired ids: the break comes too early for none.
LEMMA SweptIsExpired ==
  ASSUME IInv
  PROVE  Swept = {m \in DOMAIN expiry : expiry[m].until <= now}
<1>1. \A m \in DOMAIN expiry : expiry[m].until \in Nat /\ expiry[m].stamp \in Nat
  BY DEF IInv, TypeOK, Expiry
<1>2. now \in Nat
  BY DEF IInv, TypeOK
<1>3. ASSUME NEW m \in DOMAIN expiry, expiry[m].until <= now, NEW x \in DOMAIN expiry,
             expiry[x].stamp <= expiry[m].stamp
      PROVE  expiry[x].until <= now
  <2>1. expiry[x].until <= expiry[m].until
    BY <1>3 DEF IInv, ExpiryOrdered
  <2> QED  BY <1>1, <1>2, <1>3, <2>1
<1>4. ASSUME NEW m \in Swept  PROVE m \in DOMAIN expiry /\ expiry[m].until <= now
  BY <1>1 DEF Swept
<1> QED  BY <1>3, <1>4 DEF Swept

\* The membership part of record and mark_seen.
LEMMA RememberKeeps ==
  ASSUME IInv, NEW m \in Ids, NEW kind \in Kinds, Remember(m, kind),
         UNCHANGED <<now, recalled>>,
         kind = "sent" \/ m \notin sentIds \ Swept
  PROVE  /\ stamp' \in Nat /\ dedup' \subseteq Ids /\ sentIds' \subseteq Ids
         /\ DOMAIN seenKind' \subseteq Ids /\ \A x \in DOMAIN seenKind' : seenKind'[x] \in Kinds
         /\ DOMAIN expiry' \subseteq Ids /\ \A x \in DOMAIN expiry' : expiry'[x] \in Expiry
         /\ DOMAIN touched' \subseteq Ids /\ \A x \in DOMAIN touched' : touched'[x] \in Touch
         /\ ContainersAgree' /\ ExpiryOrdered' /\ ExpiryTouched' /\ WindowKept'
<1> DEFINE e == Refreshed(m)
           kept == Kept(e)
<1> USE DEF IInv
<1>a. /\ now \in Nat /\ stamp \in Nat /\ Ttl \in Nat
      /\ DOMAIN expiry \subseteq Ids
      /\ \A x \in DOMAIN expiry : /\ expiry[x].until \in Nat /\ expiry[x].stamp \in Nat
                                  /\ expiry[x] \in Expiry
      /\ DOMAIN touched \subseteq Ids
      /\ \A x \in DOMAIN touched : /\ touched[x].at \in Nat /\ touched[x].stamp \in Nat
                                   /\ touched[x] \in Touch
  BY StoreAssumption DEF TypeOK, Expiry, Touch
<1>b. /\ DOMAIN e = (DOMAIN expiry \ Swept) \cup {m}
      /\ e[m] = [until |-> now + Ttl, stamp |-> stamp]
      /\ \A x \in DOMAIN e : x # m => x \in DOMAIN expiry /\ e[x] = expiry[x]
  BY DEF Refreshed, Put, Without
<1>c. e[m].until = now + Ttl /\ e[m].stamp = stamp /\ e[m] \in Expiry
  BY <1>a, <1>b DEF Expiry
<1>d. /\ DOMAIN e \subseteq Ids
      /\ \A x \in DOMAIN e : e[x] \in Expiry /\ e[x].stamp \in Nat /\ e[x].until \in Nat
  BY <1>a, <1>b, <1>c
<1>e. \A x, y \in DOMAIN e : e[x].stamp = e[y].stamp => x = y
  BY <1>a, <1>b, <1>c DEF ExpiryOrdered
<1>f. kept \subseteq DOMAIN e /\ Cardinality(kept) <= MaxEntries
  BY <1>d, <1>e, KeptIsBounded
<1>g. /\ expiry' = [x \in kept |-> e[x]]
      /\ dedup' = ((dedup \ Swept) \cup {m}) \cap kept
      /\ sentIds' = ((sentIds \ Swept) \cup (IF kind = "sent" THEN {m} ELSE {})) \cap kept
      /\ seenKind' = [x \in kept |-> IF x = m THEN kind ELSE seenKind[x]]
      /\ touched' = Put(touched, m, [at |-> now, stamp |-> stamp])
      /\ stamp' = stamp + 1
  BY DEF Remember
<1>h. /\ DOMAIN touched' = DOMAIN touched \cup {m}
      /\ touched'[m].at = now /\ touched'[m].stamp = stamp /\ touched'[m] \in Touch
      /\ \A x \in DOMAIN touched : x # m => touched'[x] = touched[x]
  BY <1>a, <1>g DEF Put, Touch
<1>1. /\ stamp' \in Nat /\ dedup' \subseteq Ids
      /\ DOMAIN expiry' \subseteq Ids /\ \A x \in DOMAIN expiry' : expiry'[x] \in Expiry
      /\ DOMAIN touched' \subseteq Ids /\ \A x \in DOMAIN touched' : touched'[x] \in Touch
  BY <1>a, <1>d, <1>f, <1>g, <1>h
<1>2. ContainersAgree'
  <2>1. dedup' = kept /\ DOMAIN expiry' = kept /\ DOMAIN seenKind' = kept
    BY <1>b, <1>f, <1>g DEF ContainersAgree
  <2>2. \A x \in kept : x # m => (x \in sentIds' <=> seenKind'[x] = "sent")
    BY <1>b, <1>f, <1>g DEF ContainersAgree
  <2>3. m \in kept => (m \in sentIds' <=> seenKind'[m] = "sent")
    BY <1>g
  <2>4. sentIds' \subseteq kept
    BY <1>g
  <2> QED  BY <1>f, <2>1, <2>2, <2>3, <2>4 DEF ContainersAgree
<1>3. /\ sentIds' \subseteq Ids
      /\ DOMAIN seenKind' \subseteq Ids /\ \A x \in DOMAIN seenKind' : seenKind'[x] \in Kinds
  <2>1. \A x \in kept : x # m => x \in DOMAIN seenKind /\ seenKind[x] \in Kinds
    BY <1>b, <1>f DEF ContainersAgree, TypeOK
  <2> QED  BY <1>d, <1>f, <1>g, <2>1
<1>4. ExpiryOrdered'
  <2>1. \A x, y \in DOMAIN e : e[x].stamp <= e[y].stamp => e[x].until <= e[y].until
    BY <1>a, <1>b, <1>c DEF ExpiryOrdered
  <2>2. \A x \in DOMAIN e : e[x].stamp < stamp + 1 /\ e[x].until <= now + Ttl
    BY <1>a, <1>b, <1>c DEF ExpiryOrdered
  <2> QED  BY <1>e, <1>f, <1>g, <2>1, <2>2 DEF ExpiryOrdered
<1>5. ExpiryTouched'
  BY <1>a, <1>b, <1>c, <1>f, <1>g, <1>h DEF ExpiryTouched
<1>6. WindowKept'
  <2> SUFFICES ASSUME NEW x \in DOMAIN touched', touched'[x].at + Ttl > now, x \notin recalled,
                      Cardinality({y \in DOMAIN touched' : touched'[y].stamp > touched'[x].stamp})
                        < MaxEntries
               PROVE  x \in kept
    BY <1>g DEF WindowKept
  <2> DEFINE A == {y \in DOMAIN touched' : touched'[y].stamp > touched'[x].stamp}
             B == {y \in DOMAIN e : e[y].stamp > e[x].stamp}
  <2>1. IsFiniteSet(A) /\ Cardinality(A) \in Nat
    BY <1>1, FS_Subset, FS_CardinalityType, StoreAssumption
  <2>2. CASE x \in DOMAIN e
    <3>1. \A y \in DOMAIN e : y \in DOMAIN touched' /\ e[y].stamp = touched'[y].stamp
      BY <1>b, <1>c, <1>h DEF ExpiryTouched
    <3>2. B \subseteq A
      BY <2>2, <3>1
    <3>3. Cardinality(B) <= Cardinality(A) /\ Cardinality(B) \in Nat
      BY <2>1, <3>2, FS_Subset, FS_CardinalityType
    <3>4. Cardinality(B) < MaxEntries
      BY <2>1, <3>3, StoreAssumption
    <3> QED  BY <2>2, <3>4 DEF Kept
  <2>3. CASE x \notin DOMAIN e
    <3>1. x # m /\ x \in DOMAIN touched /\ touched'[x] = touched[x]
      BY <1>b, <1>h, <2>3
    <3> DEFINE C == {y \in DOMAIN touched : touched[y].stamp > touched[x].stamp}
    <3>2. touched[x].stamp \in Nat /\ touched[x].at \in Nat
      BY <1>a, <3>1
    <3>3. C \subseteq A
      <4> SUFFICES ASSUME NEW y \in C  PROVE y \in A
        OBVIOUS
      <4>1. CASE y = m
        <5>1. stamp > touched[x].stamp
          BY <3>1 DEF ExpiryTouched
        <5> QED  BY <1>h, <3>1, <4>1, <5>1
      <4>2. CASE y # m
        BY <1>h, <3>1, <4>2
      <4> QED  BY <4>1, <4>2
    <3>4. Cardinality(C) <= Cardinality(A) /\ Cardinality(C) \in Nat
      BY <2>1, <3>3, FS_Subset, FS_CardinalityType
    <3>5. x \in DOMAIN expiry
      BY <2>1, <3>1, <3>4, StoreAssumption DEF WindowKept
    <3>6. expiry[x].until = touched[x].at + Ttl
      BY <3>5 DEF ExpiryTouched
    <3>7. x \notin Swept
      BY <1>a, <3>1, <3>2, <3>5, <3>6, SweptIsExpired
    <3> QED  BY <1>b, <2>3, <3>5, <3>7
  <2> QED  BY <2>2, <2>3
<1> QED  BY <1>1, <1>2, <1>3, <1>4, <1>5, <1>6

\* Leaving ids out of all four containers at once keeps them in step.
LEMMA DropKeeps ==
  ASSUME IInv, NEW S,
         dedup' = dedup \ S, sentIds' = sentIds \ S,
         seenKind' = Without(seenKind, S), expiry' = Without(expiry, S),
         UNCHANGED <<now, stamp, touched>>
  PROVE  /\ dedup' \subseteq Ids /\ sentIds' \subseteq Ids
         /\ DOMAIN seenKind' \subseteq Ids /\ \A x \in DOMAIN seenKind' : seenKind'[x] \in Kinds
         /\ DOMAIN expiry' \subseteq Ids /\ \A x \in DOMAIN expiry' : expiry'[x] \in Expiry
         /\ ContainersAgree' /\ ExpiryOrdered' /\ ExpiryTouched'
<1> USE DEF IInv
<1>1. /\ DOMAIN seenKind' = DOMAIN seenKind \ S
      /\ \A x \in DOMAIN seenKind' : seenKind'[x] = seenKind[x]
      /\ DOMAIN expiry' = DOMAIN expiry \ S
      /\ \A x \in DOMAIN expiry' : expiry'[x] = expiry[x]
  BY DEF Without
<1>2. /\ dedup' \subseteq Ids /\ sentIds' \subseteq Ids
      /\ DOMAIN seenKind' \subseteq Ids /\ \A x \in DOMAIN seenKind' : seenKind'[x] \in Kinds
      /\ DOMAIN expiry' \subseteq Ids /\ \A x \in DOMAIN expiry' : expiry'[x] \in Expiry
  BY <1>1 DEF TypeOK
<1>3. Cardinality(dedup') <= MaxEntries
  <2>1. IsFiniteSet(dedup) /\ Cardinality(dedup) \in Nat
    BY FS_Subset, FS_CardinalityType, StoreAssumption DEF TypeOK
  <2>2. Cardinality(dedup') <= Cardinality(dedup) /\ Cardinality(dedup') \in Nat
    BY <2>1, FS_Subset, FS_CardinalityType
  <2> QED  BY <2>1, <2>2, StoreAssumption DEF ContainersAgree
<1>4. ContainersAgree'
  BY <1>1, <1>3 DEF ContainersAgree
<1>5. ExpiryOrdered' /\ ExpiryTouched'
  BY <1>1 DEF ExpiryOrdered, ExpiryTouched
<1> QED  BY <1>2, <1>4, <1>5

-----------------------------------------------------------------------------
(* The sends, their rows and the recalls *)

\* A new send, recorded by this process or another one.
LEMMA SendKeeps ==
  ASSUME IInv, NEW m \in Ids, NEW c \in Chats, \A e \in sent : e.id # m,
         NEW new, new = [id |-> m, chat |-> c, at |-> now, stamp |-> stamp],
         sent' = sent \cup {new},
         \/ db' = Persisted(new) /\ unwritten' = unwritten
         \/ db' = db /\ unwritten' = unwritten \cup {m},
         entries' \subseteq entries \cup {new},
         recalled' = recalled
  PROVE  /\ entries' \subseteq Entry /\ db' \subseteq Entry /\ sent' \subseteq Entry
         /\ unwritten' \subseteq Ids
         /\ SendsUnique' /\ RowKept' /\ RecalledIsForgotten'
<1> USE DEF IInv
<1>1. /\ new \in Entry /\ new.id = m /\ new.at = now
      /\ now \in Nat /\ Retention \in Nat
  BY StoreAssumption DEF TypeOK, Entry
<1>2. db' \subseteq db \cup {new} /\ unwritten' \subseteq unwritten \cup {m}
  BY DEF Persisted
<1>3. /\ entries' \subseteq Entry /\ db' \subseteq Entry /\ sent' \subseteq Entry
      /\ unwritten' \subseteq Ids
  BY <1>1, <1>2 DEF TypeOK
<1>4. SendsUnique'
  BY <1>1, <1>2 DEF SendsUnique
<1>5. RowKept'
  <2> SUFFICES ASSUME NEW e \in sent', e.id \notin recalled \cup unwritten',
                      \A f \in sent' : e.at + Retention >= f.at
               PROVE  e \in db'
    BY DEF RowKept
  <2>1. CASE db' = Persisted(new) /\ unwritten' = unwritten
    <3>1. e \in db \cup {new}
      BY <2>1 DEF RowKept
    <3>2. e.at + Retention >= new.at
      OBVIOUS
    <3> QED  BY <2>1, <3>1, <3>2 DEF Persisted
  <2>2. CASE db' = db /\ unwritten' = unwritten \cup {m}
    BY <1>1, <2>2 DEF RowKept
  <2> QED  BY <2>1, <2>2
<1>6. RecalledIsForgotten'
  <2>1. m \notin recalled
    BY DEF SendsUnique
  <2> QED  BY <1>1, <1>2, <2>1 DEF RecalledIsForgotten
<1> QED  BY <1>3, <1>4, <1>5, <1>6

LEMMA RecordIInv ==
  ASSUME IInv, NEW m \in Ids, NEW c \in Chats, Record(m, c)
  PROVE  IInv'
<1> DEFINE new == [id |-> m, chat |-> c, at |-> now, stamp |-> stamp]
<1>1. /\ Remember(m, "sent")
      /\ \A e \in sent : e.id # m
      /\ entries' = Trimmed(entries \cup {new})
      /\ sent' = sent \cup {new}
      /\ \/ db' = Persisted(new) /\ UNCHANGED unwritten
         \/ unwritten' = unwritten \cup {m} /\ UNCHANGED db
      /\ UNCHANGED <<now, recalled>>
  BY Zenon DEF Record
<1>2. "sent" \in Kinds
  BY DEF Kinds
<1>3. /\ stamp' \in Nat /\ dedup' \subseteq Ids /\ sentIds' \subseteq Ids
      /\ DOMAIN seenKind' \subseteq Ids /\ \A x \in DOMAIN seenKind' : seenKind'[x] \in Kinds
      /\ DOMAIN expiry' \subseteq Ids /\ \A x \in DOMAIN expiry' : expiry'[x] \in Expiry
      /\ DOMAIN touched' \subseteq Ids /\ \A x \in DOMAIN touched' : touched'[x] \in Touch
      /\ ContainersAgree' /\ ExpiryOrdered' /\ ExpiryTouched' /\ WindowKept'
  BY <1>1, <1>2, RememberKeeps
<1>4. entries' \subseteq entries \cup {new}
  BY <1>1 DEF Trimmed
<1>5. /\ entries' \subseteq Entry /\ db' \subseteq Entry /\ sent' \subseteq Entry
      /\ unwritten' \subseteq Ids
      /\ SendsUnique' /\ RowKept' /\ RecalledIsForgotten'
  <2> HIDE DEF new
  <2>1. new = [id |-> m, chat |-> c, at |-> now, stamp |-> stamp]
    BY DEF new
  <2> QED  BY <1>1, <1>4, <2>1, SendKeeps
<1> QED  BY <1>1, <1>3, <1>5 DEF IInv, TypeOK

LEMMA MarkSeenIInv ==
  ASSUME IInv, NEW m \in Ids, NEW k \in Kinds, MarkSeen(m, k)
  PROVE  IInv'
<1> USE DEF MarkSeen
<1>1. m \notin sentIds \ Swept
  <2>1. CASE m \notin dedup \ Swept
    BY <2>1 DEF IInv, ContainersAgree
  <2>2. CASE m \in DOMAIN seenKind /\ seenKind[m] = "forward"
    BY <2>2 DEF IInv, ContainersAgree
  <2> QED  BY <2>1, <2>2
<1>2. /\ stamp' \in Nat /\ dedup' \subseteq Ids /\ sentIds' \subseteq Ids
      /\ DOMAIN seenKind' \subseteq Ids /\ \A x \in DOMAIN seenKind' : seenKind'[x] \in Kinds
      /\ DOMAIN expiry' \subseteq Ids /\ \A x \in DOMAIN expiry' : expiry'[x] \in Expiry
      /\ DOMAIN touched' \subseteq Ids /\ \A x \in DOMAIN touched' : touched'[x] \in Touch
      /\ ContainersAgree' /\ ExpiryOrdered' /\ ExpiryTouched' /\ WindowKept'
  BY <1>1, RememberKeeps
<1> QED  BY <1>2 DEF IInv, TypeOK, SendsUnique, RowKept, RecalledIsForgotten

LEMMA QueryIInv ==
  ASSUME IInv, Query
  PROVE  IInv'
<1> USE DEF Query
<1>1. /\ dedup' \subseteq Ids /\ sentIds' \subseteq Ids
      /\ DOMAIN seenKind' \subseteq Ids /\ \A x \in DOMAIN seenKind' : seenKind'[x] \in Kinds
      /\ DOMAIN expiry' \subseteq Ids /\ \A x \in DOMAIN expiry' : expiry'[x] \in Expiry
      /\ ContainersAgree' /\ ExpiryOrdered' /\ ExpiryTouched'
  BY DropKeeps
<1>2. WindowKept'
  <2> SUFFICES ASSUME NEW m \in DOMAIN expiry, touched[m].at + Ttl > now
               PROVE  m \notin Swept
    BY DEF IInv, WindowKept, Without
  <2>1. expiry[m].until = touched[m].at + Ttl /\ m \in DOMAIN touched
    BY DEF IInv, ExpiryTouched
  <2>2. now \in Nat /\ expiry[m].until \in Nat
    BY DEF IInv, TypeOK, Expiry
  <2> QED  BY <2>1, <2>2, SweptIsExpired
<1> QED  BY <1>1, <1>2 DEF IInv, TypeOK, SendsUnique, RowKept, RecalledIsForgotten

LEMMA RemoveIInv ==
  ASSUME IInv, NEW m \in Ids, NEW c \in Chats, Remove(m, c)
  PROVE  IInv'
<1> USE DEF Remove
<1>1. /\ dedup' \subseteq Ids /\ sentIds' \subseteq Ids
      /\ DOMAIN seenKind' \subseteq Ids /\ \A x \in DOMAIN seenKind' : seenKind'[x] \in Kinds
      /\ DOMAIN expiry' \subseteq Ids /\ \A x \in DOMAIN expiry' : expiry'[x] \in Expiry
      /\ ContainersAgree' /\ ExpiryOrdered' /\ ExpiryTouched'
  BY DropKeeps
<1>2. WindowKept'
  BY DEF IInv, WindowKept, Without
<1>3. /\ entries' \subseteq entries /\ db' \subseteq db
      /\ recalled' = recalled \cup {m} /\ unwritten' \subseteq unwritten \cup {m}
  OBVIOUS
<1>4. \A e \in entries \cup db : e.id = m => e.chat = c
  BY DEF IInv, SendsUnique
<1>5. SendsUnique'
  BY <1>3 DEF IInv, SendsUnique
<1>6. RowKept'
  <2> SUFFICES ASSUME NEW e \in sent, e.id \notin recalled' \cup unwritten',
                      \A f \in sent : e.at + Retention >= f.at
               PROVE  e \in db'
    BY DEF RowKept
  <2>1. e.id # m /\ e.id \notin recalled \cup unwritten
    OBVIOUS
  <2> QED  BY <2>1 DEF IInv, RowKept
<1>7. RecalledIsForgotten'
  BY <1>3, <1>4 DEF IInv, RecalledIsForgotten
<1> QED  BY <1>1, <1>2, <1>3, <1>5, <1>6, <1>7 DEF IInv, TypeOK

LEMMA OtherRecordsIInv ==
  ASSUME IInv, NEW m \in Ids, NEW c \in Chats, OtherRecords(m, c)
  PROVE  IInv'
<1> DEFINE new == [id |-> m, chat |-> c, at |-> now, stamp |-> stamp]
<1>1. /\ \A e \in sent : e.id # m
      /\ db' = Persisted(new) /\ sent' = sent \cup {new}
      /\ stamp' = stamp + 1
      /\ UNCHANGED <<now, dedup, sentIds, seenKind, expiry, entries, recalled,
                     unwritten, touched>>
  BY DEF OtherRecords
<1>2. /\ entries' \subseteq Entry /\ db' \subseteq Entry /\ sent' \subseteq Entry
      /\ unwritten' \subseteq Ids
      /\ SendsUnique' /\ RowKept' /\ RecalledIsForgotten'
  <2> HIDE DEF new
  <2>1. new = [id |-> m, chat |-> c, at |-> now, stamp |-> stamp]
    BY DEF new
  <2> QED  BY <1>1, <2>1, SendKeeps
<1>3. stamp \in Nat /\ stamp' \in Nat
  BY <1>1 DEF IInv, TypeOK
<1>4. TypeOK'
  BY <1>1, <1>2, <1>3 DEF IInv, TypeOK
<1>5. ContainersAgree' /\ WindowKept'
  BY <1>1 DEF IInv, ContainersAgree, WindowKept
<1>6. ExpiryOrdered' /\ ExpiryTouched'
  BY <1>1, <1>3 DEF IInv, TypeOK, Expiry, Touch, ExpiryOrdered, ExpiryTouched
<1> QED  BY <1>2, <1>4, <1>5, <1>6 DEF IInv

LEMMA RestartIInv ==
  ASSUME IInv, Restart
  PROVE  IInv'
<1> USE DEF Restart, NoneYet
<1>1. TypeOK'  BY DEF IInv, TypeOK
<1>2. ContainersAgree'  BY FS_EmptySet, StoreAssumption DEF ContainersAgree
<1>3. ExpiryOrdered' /\ ExpiryTouched' /\ WindowKept'
  BY DEF ExpiryOrdered, ExpiryTouched, WindowKept
<1>4. SendsUnique' /\ RowKept' /\ RecalledIsForgotten'
  BY DEF IInv, SendsUnique, RowKept, RecalledIsForgotten
<1> QED  BY <1>1, <1>2, <1>3, <1>4 DEF IInv

LEMMA TickIInv ==
  ASSUME IInv, Tick
  PROVE  IInv'
<1> USE DEF Tick
<1>1. TypeOK'  BY DEF IInv, TypeOK
<1>2. ContainersAgree' /\ ExpiryTouched'
  BY DEF IInv, ContainersAgree, ExpiryTouched
<1>3. ExpiryOrdered'
  <2>1. now \in Nat /\ \A m \in DOMAIN expiry : expiry[m].until \in Nat
    BY DEF IInv, TypeOK, Expiry
  <2> QED  BY <2>1, StoreAssumption DEF IInv, ExpiryOrdered
<1>4. WindowKept'
  <2>1. now \in Nat /\ \A m \in DOMAIN touched : touched[m].at \in Nat
    BY DEF IInv, TypeOK, Touch
  <2> QED  BY <2>1, StoreAssumption DEF IInv, WindowKept
<1>5. SendsUnique' /\ RowKept' /\ RecalledIsForgotten'
  BY DEF IInv, SendsUnique, RowKept, RecalledIsForgotten
<1> QED  BY <1>1, <1>2, <1>3, <1>4, <1>5 DEF IInv

LEMMA NextIInv == IInv /\ [Next]_vars => IInv'
<1> SUFFICES ASSUME IInv, [Next]_vars  PROVE IInv'
  OBVIOUS
<1>1. CASE \E m \in Ids, c \in Chats : Record(m, c) \/ Remove(m, c) \/ OtherRecords(m, c)
  BY <1>1, RecordIInv, RemoveIInv, OtherRecordsIInv
<1>2. CASE \E m \in Ids, k \in Kinds : MarkSeen(m, k)
  BY <1>2, MarkSeenIInv
<1>3. CASE Query \/ Restart \/ Tick
  BY <1>3, QueryIInv, RestartIInv, TickIInv
<1>4. CASE UNCHANGED vars
  BY <1>4 DEF vars, IInv, TypeOK, ContainersAgree, ExpiryOrdered, ExpiryTouched, WindowKept,
     SendsUnique, RowKept, RecalledIsForgotten
<1> QED  BY <1>1, <1>2, <1>3, <1>4 DEF Next

LEMMA InvariantHolds == Spec => []IInv
BY InitIInv, NextIInv, PTL DEF Spec

-----------------------------------------------------------------------------
(* Theorems *)

\* Every variable of the store keeps its type.
THEOREM TypeCorrect == Spec => []TypeOK
<1>1. IInv => TypeOK  BY DEF IInv
<1> QED  BY <1>1, InvariantHolds, PTL

\* record, mark_seen, remove, _sweep and _enforce_max_size keep the duplicate
\* set, the kinds, the sent ids and the expiry map in step and within the cap.
THEOREM ContainersStayInStep == Spec => []ContainersAgree
<1>1. IInv => ContainersAgree  BY DEF IInv
<1> QED  BY <1>1, InvariantHolds, PTL

\* The duplicate set, after the sweep every query does, holds no expired id
\* and every unexpired one the cap leaves room for: _sweep's early break and
\* the eviction at the cap lose nothing else.
THEOREM DedupWindowIsExact == Spec => []DedupIsWindow
<1>1. IInv => DedupIsWindow
  <2> SUFFICES ASSUME IInv  PROVE DedupIsWindow
    OBVIOUS
  <2>1. ASSUME NEW m \in dedup \ Swept
        PROVE  m \in DOMAIN touched /\ touched[m].at + Ttl > now
    <3>1. m \in DOMAIN expiry /\ m \in DOMAIN touched /\ expiry[m].until = touched[m].at + Ttl
      BY DEF IInv, ContainersAgree, ExpiryTouched
    <3>2. now \in Nat /\ expiry[m].until \in Nat
      BY <3>1 DEF IInv, TypeOK, Expiry
    <3> QED  BY <3>1, <3>2, SweptIsExpired
  <2>2. dedup = DOMAIN expiry
    BY DEF IInv, ContainersAgree
  <2> QED  BY <2>1, <2>2 DEF IInv, WindowKept, DedupIsWindow
<1> QED  BY <1>1, InvariantHolds, PTL

\* Every send of any process whose row was written is found until it is
\* recalled or older than the retention, after restarts too.
THEOREM SentIsFindable == Spec => []SentStaysFindable
<1>1. IInv => SentStaysFindable
  <2> SUFFICES ASSUME IInv, NEW e \in sent, e.id \notin recalled \cup unwritten,
                      \A f \in sent : e.at + Retention >= f.at
               PROVE  Find(e.chat, e.id) # {}
    BY DEF SentStaysFindable
  <2>1. e \in db
    BY DEF IInv, RowKept
  <2> QED  BY <2>1 DEF Find
<1> QED  BY <1>1, InvariantHolds, PTL

\* A recalled message is in no deque, and its row is gone unless a write failed.
THEOREM RecallIsFinal == Spec => []RecalledIsForgotten
<1>1. IInv => RecalledIsForgotten  BY DEF IInv
<1> QED  BY <1>1, InvariantHolds, PTL

\* The duplicate check is a window of time and size over containers that agree.
THEOREM DedupStaysInStep == Spec => []DedupInStep
<1>1. TypeOK /\ ContainersAgree /\ DedupIsWindow => DedupInStep
  BY DEF DedupInStep
<1> QED  BY <1>1, TypeCorrect, ContainersStayInStep, DedupWindowIsExact, PTL

\* What was sent is found until it is recalled, and not afterwards.
THEOREM SentIsKeptUntilRecalled == Spec => []KeptUntilRecalled
<1>1. SentStaysFindable /\ RecalledIsForgotten => KeptUntilRecalled
  BY DEF KeptUntilRecalled
<1> QED  BY <1>1, SentIsFindable, RecallIsFinal, PTL
-----------------------------------------------------------------------------
(***************************************************************************)
(* The message store.  A row, and the copy a download has borrowed, is the *)
(* merge of its writers; the row of a bot's message always has a payload,  *)
(* which is what the backfill looks for.                                   *)
(***************************************************************************)

RowMerged(row) ==
  /\ row.created = row.first
  /\ row.localSent <=> "sent" \in row.writers
  /\ row.localSent => row.outgoing
  /\ row.mentioned <=> "mention" \in row.writers
  /\ row.raw <=> row.writers \ {"sent"} # {}
  /\ row.content = (IF row.raw THEN "rendered" ELSE "sent")

RowOfMessage(row, m) == row \in Row /\ RowMerged(row) /\ (AuthorOf[m] = "bot" => row.raw)

StoreTyped ==
  /\ table \in [Messages -> Row \cup {NoRow}]
  /\ botKnown \in BOOLEAN /\ clock \in 0..MaxClock
  /\ handler # Nothing =>
       handler.of \in Messages /\ AuthorOf[handler.of] = "bot" /\ handler.writer \in WritersOf[handler.of]
  /\ arrived \in [Messages -> SUBSET Writers] /\ \A m \in Messages : arrived[m] \subseteq WritersOf[m]
  /\ raced \subseteq {m \in Messages : AuthorOf[m] = "bot"}
RowsMerged == \A m \in Messages : table[m] # NoRow => RowOfMessage(table[m], m)
BorrowedMerged == borrowed # Nothing => borrowed.of \in Messages /\ RowOfMessage(borrowed.row, borrowed.of)
StoreInv == StoreTyped /\ RowsMerged /\ BorrowedMerged /\ SenderMissingOnlyByRace

LEMMA StoreInitHolds == StoreInit => StoreInv
<1> SUFFICES ASSUME StoreInit PROVE StoreInv
  OBVIOUS
<1>1. StoreTyped
  <2>1. 0 \in 0..MaxClock
    BY MessageAssumption
  <2>2. table \in [Messages -> Row \cup {NoRow}] /\ botKnown \in BOOLEAN /\ clock \in 0..MaxClock
    BY <2>1 DEF StoreInit
  <2>3. arrived \in [Messages -> SUBSET Writers] /\ \A m \in Messages : arrived[m] = {}
    BY DEF StoreInit
  <2> QED BY <2>2, <2>3 DEF StoreInit, StoreTyped
<1>2. RowsMerged /\ BorrowedMerged /\ SenderMissingOnlyByRace
  BY DEF StoreInit, RowsMerged, BorrowedMerged, SenderMissingOnlyByRace
<1> QED BY <1>1, <1>2 DEF StoreInv

\* Two rows of a message merge to one.
LEMMA MergeOfRows ==
  ASSUME NEW m, NEW old, NEW new, RowOfMessage(old, m), RowOfMessage(new, m)
  PROVE  /\ RowOfMessage(Merge(old, new), m)
         /\ Merge(old, new).created = old.created
         /\ old.sender \/ new.sender => Merge(old, new).sender
<1>1. PICK out \in BOOLEAN, loc \in BOOLEAN, men \in BOOLEAN, snd \in BOOLEAN, raw \in BOOLEAN :
        /\ out = (old.outgoing \/ new.outgoing) /\ loc = (old.localSent \/ new.localSent)
        /\ men = (old.mentioned \/ new.mentioned) /\ snd = (old.sender \/ new.sender)
        /\ raw = (old.raw \/ new.raw)
  OBVIOUS
<1>2. PICK con : con = IF old.raw /\ ~new.raw THEN old.content ELSE new.content
  OBVIOUS
<1>3. PICK wri : wri = old.writers \cup new.writers
  OBVIOUS
<1>4. /\ old \in Row /\ new \in Row /\ con \in {"rendered", "sent"} /\ wri \in SUBSET Writers
      /\ old.created \in 0..MaxClock /\ old.first \in 0..MaxClock
      /\ old.content \in {"rendered", "sent"} /\ new.content \in {"rendered", "sent"}
  BY <1>2, <1>3 DEF RowOfMessage, Row
<1>5. Merge(old, new) = [old EXCEPT !.outgoing = out, !.localSent = loc, !.mentioned = men,
                                    !.sender = snd, !.content = con, !.raw = raw, !.writers = wri]
  BY <1>1, <1>2, <1>3, Zenon DEF Merge
<1>6. PICK row : row = Merge(old, new)
  OBVIOUS
<1>7. row      = [created |-> old.created, outgoing |-> out, localSent |-> loc,
                         mentioned |-> men, sender |-> snd, raw |-> raw, content |-> con,
                         writers |-> wri, first |-> old.first]
  BY <1>4, <1>5, <1>6 DEF Row
<1>8. /\ row.created = old.created /\ row.first = old.first
      /\ row.outgoing = out /\ row.localSent = loc /\ row.mentioned = men /\ row.sender = snd
      /\ row.raw = raw /\ row.content = con /\ row.writers = wri
  BY <1>7
<1>9. row \in Row
  BY <1>1, <1>4, <1>7 DEF Row
<1>10. RowMerged(old) /\ RowMerged(new)
  BY DEF RowOfMessage
<1>11. row.created = row.first /\ (row.localSent => row.outgoing)
  BY <1>1, <1>8, <1>10 DEF RowMerged
<1>12. row.localSent <=> "sent" \in row.writers
  BY <1>1, <1>3, <1>8, <1>10 DEF RowMerged
<1>13. row.mentioned <=> "mention" \in row.writers
  BY <1>1, <1>3, <1>8, <1>10 DEF RowMerged
<1>14. row.raw <=> row.writers \ {"sent"} # {}
  BY <1>1, <1>3, <1>8, <1>10 DEF RowMerged
<1>15. row.content = (IF row.raw THEN "rendered" ELSE "sent")
  BY <1>1, <1>2, <1>8, <1>10 DEF RowMerged
<1>16. AuthorOf[m] = "bot" => row.raw
  BY <1>1, <1>8 DEF RowOfMessage
<1>17. RowOfMessage(row, m)
  BY <1>9, <1>11, <1>12, <1>13, <1>14, <1>15, <1>16 DEF RowOfMessage, RowMerged
<1> QED BY <1>1, <1>6, <1>8, <1>17

\* A statement puts one row in, and takes others out from the old end.
LEMMA UpsertedRows ==
  ASSUME StoreInv, NEW m \in Messages, NEW row, RowOfMessage(row, m), Upsert(m, row)
  PROVE  /\ table' \in [Messages -> Row \cup {NoRow}]
         /\ \A k \in Messages : table'[k] # NoRow =>
              /\ RowOfMessage(table'[k], k)
              /\ k # m => table'[k] = table[k]
              /\ k = m /\ row.sender => table'[k].sender \/ table'[k] = table[k]
              /\ k = m /\ table[k] # NoRow => (table[k].sender => table'[k].sender)
         /\ \A k \in Rows : table'[k] = NoRow =>
              \A x \in Messages : table'[x] # NoRow => table[k].created <= table'[x].created
<1>0. StoreTyped /\ RowsMerged
  BY DEF StoreInv
<1>1. PICK up : up = Upserted(m, row)
  OBVIOUS
<1>2. /\ up \in [Messages -> Row \cup {NoRow}]
      /\ \A k \in Messages : k # m => up[k] = table[k]
      /\ up[m] = IF table[m] = NoRow THEN row ELSE Merge(table[m], row)
      /\ RowOfMessage(up[m], m) /\ up[m] # NoRow
  <2>1. table[m] # NoRow => RowOfMessage(Merge(table[m], row), m)
    BY <1>0, MergeOfRows DEF RowsMerged
  <2>2. PICK new : new = IF table[m] = NoRow THEN row ELSE Merge(table[m], row)
    OBVIOUS
  <2>3. RowOfMessage(new, m) /\ new \in Row
    BY <2>1, <2>2 DEF RowOfMessage
  <2>4. up = [table EXCEPT ![m] = new]
    BY <1>1, <2>2 DEF Upserted
  <2> QED BY <1>0, <2>2, <2>3, <2>4, NoRowIsNoRow DEF StoreTyped
<1>3. \A k \in Messages : up[k] # NoRow => RowOfMessage(up[k], k) /\ up[k].created \in Nat
  BY <1>0, <1>2 DEF RowsMerged, RowOfMessage, Row
<1>4. \A k \in Rows : up[k] # NoRow /\ up[k].created = table[k].created
                      /\ (table[k].sender => up[k].sender)
  <2>1. table[m] # NoRow => /\ Merge(table[m], row).created = table[m].created
                            /\ table[m].sender => Merge(table[m], row).sender
    BY <1>0, MergeOfRows DEF RowsMerged
  <2> QED BY <1>2, <2>1 DEF Rows
<1>5. row.sender => up[m].sender
  <2>1. table[m] # NoRow /\ row.sender => Merge(table[m], row).sender
    BY <1>0, MergeOfRows DEF RowsMerged
  <2> QED BY <1>2, <2>1
<1>6. CASE UNCHANGED table
  BY <1>0, <1>6 DEF RowsMerged, StoreTyped, Rows
<1>7. CASE CleanUp(Retained(up))
  <2>1. PICK ret : ret = Retained(up)
    OBVIOUS
  <2>2. \A k \in Messages : ret[k] = IF up[k] # NoRow /\ up[k].created < clock - KeepFor
                                       THEN NoRow ELSE up[k]
    BY <2>1 DEF Retained
  <2>3. PICK gone : /\ gone \subseteq Messages
                    /\ \A k \in gone : ret[k] # NoRow
                    /\ Oldest(ret, gone)
                    /\ table' = [k \in Messages |-> IF k \in gone THEN NoRow ELSE ret[k]]
    BY <1>7, <2>1 DEF CleanUp
  <2>4. /\ table' \in [Messages -> Row \cup {NoRow}]
        /\ \A k \in Messages : table'[k] = up[k] \/ table'[k] = NoRow
        /\ \A k \in Messages : table'[k] # NoRow => k \notin gone /\ ret[k] = up[k] /\ up[k] # NoRow
                                                    /\ table'[k] = ret[k]
    BY <1>2, <2>2, <2>3
  <2>5. ASSUME NEW k \in Messages, table'[k] # NoRow
        PROVE  /\ RowOfMessage(table'[k], k)
               /\ k # m => table'[k] = table[k]
               /\ k = m /\ row.sender => table'[k].sender
               /\ k = m /\ table[k] # NoRow => (table[k].sender => table'[k].sender)
    <3>1. table'[k] = up[k] /\ up[k] # NoRow
      BY <2>4, <2>5
    <3> QED BY <1>2, <1>3, <1>4, <1>5, <3>1 DEF Rows
  <2>6. ASSUME NEW k \in Rows, table'[k] = NoRow, NEW x \in Messages, table'[x] # NoRow
        PROVE  table[k].created <= table'[x].created
    <3>1. k \in Messages /\ up[k] # NoRow /\ up[k].created = table[k].created /\ up[k].created \in Nat
      BY <1>3, <1>4, <2>6 DEF Rows
    <3>2. /\ table'[x] = up[x] /\ ret[x] = up[x] /\ x \notin gone /\ up[x] # NoRow /\ up[x].created \in Nat
          /\ ret[x] # NoRow
      BY <1>3, <2>4, <2>6
    <3>3. CASE k \in gone
      <4>1. ret[k] = up[k]
        BY <2>2, <2>3, <3>1, <3>3
      <4> QED BY <2>3, <3>1, <3>2, <3>3, <4>1 DEF Oldest
    <3>4. CASE k \notin gone
      <4>1. ret[k] = NoRow
        BY <2>3, <2>6, <3>1, <3>4
      <4>2. up[k].created < clock - KeepFor /\ ~(up[x].created < clock - KeepFor)
        BY <2>2, <3>1, <3>2, <4>1
      <4> QED BY <1>0, <3>1, <3>2, <4>2, MessageAssumption DEF StoreTyped
    <3> QED BY <3>3, <3>4
  <2> QED BY <2>4, <2>5, <2>6
<1> QED BY <1>1, <1>6, <1>7 DEF Upsert
LEMMA UpsertStep ==
  ASSUME StoreInv, NEW m \in Messages, NEW row, RowOfMessage(row, m), Upsert(m, row),
         UNCHANGED botKnown, raced \subseteq raced', botKnown /\ AuthorOf[m] = "bot" => row.sender \/ m \in raced'
  PROVE  /\ table' \in [Messages -> Row \cup {NoRow}] /\ RowsMerged' /\ SenderMissingOnlyByRace'
         /\ \A k \in Rows : table'[k] = NoRow =>
              \A x \in Messages : table'[x] # NoRow => table[k].created <= table'[x].created
<1>1. RowsMerged'
  BY UpsertedRows DEF RowsMerged
<1>2. ASSUME NEW k \in Messages, table'[k] # NoRow, AuthorOf[k] = "bot", ~table'[k].sender, botKnown
      PROVE  k \in raced'
  <2>1. table'[k] = table[k] \/ (k = m /\ ~row.sender)
    BY <1>2, UpsertedRows
  <2>2. table'[k] = table[k] => k \in raced
    BY <1>2 DEF StoreInv, SenderMissingOnlyByRace, Rows
  <2> QED BY <1>2, <2>1, <2>2
<1>3. SenderMissingOnlyByRace'
  BY <1>2 DEF SenderMissingOnlyByRace, Rows
<1> QED BY <1>1, <1>3, UpsertedRows

\* The row of a callback, and that of a sent message.
LEMMA RowOfCallback ==
  ASSUME NEW m \in Messages, NEW writer \in WritersOf[m], writer # "sent", clock \in 0..MaxClock,
         NEW mine \in BOOLEAN, NEW sender \in BOOLEAN
  PROVE  RowOfMessage(RowOf(writer, mine, sender), m) /\ RowOf(writer, mine, sender).sender = sender
<1>1. writer \in Writers
  BY MessageAssumption DEF Writers
<1>2. PICK mentioned \in BOOLEAN : mentioned = (writer = "mention")
  OBVIOUS
<1>3. PICK row : row = [created |-> clock, outgoing |-> mine, localSent |-> FALSE,
                        mentioned |-> mentioned, sender |-> sender, raw |-> TRUE,
                        content |-> "rendered", writers |-> {writer}, first |-> clock]
  OBVIOUS
<1>4. row = RowOf(writer, mine, sender)
  BY <1>2, <1>3, Zenon DEF RowOf
<1>5. row \in Row
  BY <1>1, <1>2, <1>3 DEF Row
<1>6. /\ row.created = clock /\ row.first = clock /\ row.localSent = FALSE /\ row.mentioned = mentioned
      /\ row.raw = TRUE /\ row.content = "rendered" /\ row.writers = {writer} /\ row.sender = sender
  BY <1>3
<1>7. RowMerged(row)
  BY <1>2, <1>6 DEF RowMerged
<1> QED BY <1>4, <1>5, <1>6, <1>7 DEF RowOfMessage

LEMMA RowOfSent ==
  ASSUME NEW m \in Messages, AuthorOf[m] = "me", clock \in 0..MaxClock, NEW row,
         row = [created |-> clock, outgoing |-> TRUE, localSent |-> TRUE, mentioned |-> FALSE,
                sender |-> TRUE, raw |-> FALSE, content |-> "sent", writers |-> {"sent"},
                first |-> clock]
  PROVE  RowOfMessage(row, m)
<1>1. row \in Row
  BY DEF Row, Writers
<1>2. RowMerged(row)
  BY DEF RowMerged
<1> QED BY <1>1, <1>2 DEF RowOfMessage

\* A step that stores something, and one that does not.
StoreEffect == StoreInv' /\ \A k \in Rows : table'[k] = NoRow =>
                 \A x \in Messages : table'[x] # NoRow => table[k].created <= table'[x].created

LEMMA StoreStep == StoreInv /\ [StoreNext]_storeVars => StoreEffect
<1> SUFFICES ASSUME StoreInv, [StoreNext]_storeVars PROVE StoreEffect
  OBVIOUS
<1>0. StoreTyped /\ RowsMerged /\ BorrowedMerged /\ SenderMissingOnlyByRace
  BY DEF StoreInv
<1>1. ASSUME UNCHANGED table, StoreInv' PROVE StoreEffect
  BY <1>1 DEF StoreEffect, Rows
<1>2. ASSUME NEW m \in Messages, NEW w \in Writers, Arrives(m, w)
      PROVE  /\ arrived' \in [Messages -> SUBSET Writers] /\ \A k \in Messages : arrived'[k] \subseteq WritersOf[k]
             /\ w \in WritersOf[m] /\ handler = Nothing
  <2>1. arrived' = [arrived EXCEPT ![m] = arrived[m] \cup {w}] /\ w \in WritersOf[m] /\ handler = Nothing
    BY <1>2 DEF Arrives
  <2>2. arrived[m] \subseteq Writers /\ arrived[m] \subseteq WritersOf[m]
    BY <1>0 DEF StoreTyped
  <2> QED BY <1>0, <2>1, <2>2 DEF StoreTyped
<1>3. ASSUME NEW m \in Messages, NEW w \in Writers, NEW mine \in BOOLEAN, Callback(m, w, mine)
      PROVE  StoreEffect
  <2>1. /\ w # "sent" /\ Arrives(m, w) /\ UNCHANGED <<botKnown, clock, handler, borrowed, raced>>
        /\ mine => AuthorOf[m] = "me"
    BY <1>3 DEF Callback
  <2>2. PICK sender \in BOOLEAN : sender = (AuthorOf[m] # "me" \/ mine)
    OBVIOUS
  <2>3. Upsert(m, RowOf(w, mine, sender))
    BY <1>3, <2>2, Zenon DEF Callback
  <2>4. RowOfMessage(RowOf(w, mine, sender), m) /\ RowOf(w, mine, sender).sender = sender
    BY <1>0, <1>2, <2>1, RowOfCallback DEF StoreTyped
  <2>5. AuthorOf[m] = "bot" => sender
    BY <2>2
  <2>6. PICK row : row = RowOf(w, mine, sender)
    OBVIOUS
  <2>7. /\ table' \in [Messages -> Row \cup {NoRow}] /\ RowsMerged' /\ SenderMissingOnlyByRace'
        /\ \A k \in Rows : table'[k] = NoRow =>
             \A x \in Messages : table'[x] # NoRow => table[k].created <= table'[x].created
    BY <2>1, <2>3, <2>4, <2>5, <2>6, UpsertStep
  <2>8. StoreTyped' /\ BorrowedMerged'
    BY <1>0, <1>2, <2>1, <2>7 DEF StoreTyped, BorrowedMerged
  <2> QED BY <2>7, <2>8 DEF StoreEffect, StoreInv
<1>4. ASSUME NEW m \in Messages, NEW w \in Writers, LookUp(m, w) PROVE StoreEffect
  <2>1. /\ Arrives(m, w) /\ AuthorOf[m] = "bot"
        /\ handler' = [at |-> "persist", of |-> m, writer |-> w]
        /\ UNCHANGED <<table, botKnown, clock, borrowed, raced>>
    BY <1>4 DEF LookUp
  <2>2. StoreTyped'
    BY <1>0, <1>2, <2>1 DEF StoreTyped
  <2>3. RowsMerged' /\ BorrowedMerged' /\ SenderMissingOnlyByRace'
    BY <1>0, <2>1 DEF RowsMerged, BorrowedMerged, SenderMissingOnlyByRace, Rows
  <2> QED BY <1>1, <2>1, <2>2, <2>3 DEF StoreInv
<1>5. CASE Persist
  <2>1. PICK m : m = handler.of
    OBVIOUS
  <2>2. PICK w : w = handler.writer
    OBVIOUS
  <2>3. /\ m \in Messages /\ AuthorOf[m] = "bot" /\ w \in WritersOf[m] /\ w # "sent"
    BY <1>0, <1>5, <2>1, <2>2, MessageAssumption DEF Persist, StoreTyped
  <2>4. /\ Upsert(m, RowOf(w, FALSE, FALSE)) /\ handler' = Nothing
        /\ raced' = (IF botKnown THEN raced \cup {m} ELSE raced)
        /\ UNCHANGED <<botKnown, clock, arrived, borrowed>>
    BY <1>5, <2>1, <2>2 DEF Persist
  <2>5. RowOfMessage(RowOf(w, FALSE, FALSE), m)
    BY <1>0, <2>3, RowOfCallback DEF StoreTyped
  <2>6. PICK row : row = RowOf(w, FALSE, FALSE)
    OBVIOUS
  <2>7. /\ table' \in [Messages -> Row \cup {NoRow}] /\ RowsMerged' /\ SenderMissingOnlyByRace'
        /\ \A k \in Rows : table'[k] = NoRow =>
             \A x \in Messages : table'[x] # NoRow => table[k].created <= table'[x].created
    BY <2>3, <2>4, <2>5, <2>6, UpsertStep
  <2>8. StoreTyped' /\ BorrowedMerged'
    BY <1>0, <2>3, <2>4, <2>7 DEF StoreTyped, BorrowedMerged
  <2> QED BY <2>7, <2>8 DEF StoreEffect, StoreInv
<1>6. ASSUME NEW m \in Messages, RecordSent(m) PROVE StoreEffect
  <2>1. PICK row : row = [created |-> clock, outgoing |-> TRUE, localSent |-> TRUE, mentioned |-> FALSE,
                          sender |-> TRUE, raw |-> FALSE, content |-> "sent", writers |-> {"sent"},
                          first |-> clock]
    OBVIOUS
  <2>2. /\ AuthorOf[m] = "me" /\ Arrives(m, "sent") /\ Upsert(m, row)
        /\ UNCHANGED <<botKnown, clock, handler, borrowed, raced>>
    BY <1>6, <2>1 DEF RecordSent
  <2>3. RowOfMessage(row, m)
    BY <1>0, <2>1, <2>2, RowOfSent DEF StoreTyped
  <2>4. /\ table' \in [Messages -> Row \cup {NoRow}] /\ RowsMerged' /\ SenderMissingOnlyByRace'
        /\ \A k \in Rows : table'[k] = NoRow =>
             \A x \in Messages : table'[x] # NoRow => table[k].created <= table'[x].created
    BY <2>2, <2>3, UpsertStep
  <2>5. "sent" \in Writers
    BY DEF Writers
  <2>6. StoreTyped' /\ BorrowedMerged'
    BY <1>0, <1>2, <2>2, <2>4, <2>5 DEF StoreTyped, BorrowedMerged
  <2> QED BY <2>4, <2>6 DEF StoreEffect, StoreInv
<1>7. CASE LearnBot
  <2>1. /\ botKnown' = TRUE /\ table' = Backfilled(table) /\ raced' = {}
        /\ UNCHANGED <<clock, handler, arrived, borrowed>>
    BY <1>7 DEF LearnBot
  <2>2. ASSUME NEW m \in Messages
        PROVE  /\ table'[m] = NoRow <=> table[m] = NoRow
               /\ table'[m] # NoRow => /\ RowOfMessage(table'[m], m) /\ table'[m].created = table[m].created
                                       /\ AuthorOf[m] = "bot" => table'[m].sender
               /\ table'[m] \in Row \cup {NoRow}
    <3>1. CASE table[m] # NoRow /\ AuthorOf[m] = "bot"
      <4>1. RowOfMessage(table[m], m) /\ table[m].raw
        BY <1>0, <3>1 DEF RowsMerged, RowOfMessage
      <4>2. table'[m] = [table[m] EXCEPT !.sender = TRUE]
        BY <2>1, <3>1, <4>1 DEF Backfilled
      <4>3. PICK row : row = [table[m] EXCEPT !.sender = TRUE]
        OBVIOUS
      <4>4. /\ row \in Row /\ row.sender
            /\ row.created = table[m].created /\ row.first = table[m].first
            /\ row.outgoing = table[m].outgoing /\ row.localSent = table[m].localSent
            /\ row.mentioned = table[m].mentioned /\ row.raw = table[m].raw
            /\ row.content = table[m].content /\ row.writers = table[m].writers
        BY <4>1, <4>3 DEF RowOfMessage, Row
      <4>5. RowOfMessage(row, m)
        BY <4>1, <4>4 DEF RowOfMessage, RowMerged
      <4> QED BY <3>1, <4>2, <4>3, <4>4, <4>5, NoRowIsNoRow
    <3>2. CASE ~(table[m] # NoRow /\ AuthorOf[m] = "bot")
      <4>1. table'[m] = table[m]
        BY <2>1, <3>2 DEF Backfilled
      <4> QED BY <1>0, <3>2, <4>1 DEF RowsMerged, StoreTyped
    <3> QED BY <3>1, <3>2
  <2>3. table' \in [Messages -> Row \cup {NoRow}]
    <3>1. table' = [m \in Messages |-> table'[m]]
      BY <2>1 DEF Backfilled
    <3> QED BY <2>2, <3>1
  <2>4. StoreTyped' /\ BorrowedMerged'
    BY <1>0, <2>1, <2>3 DEF StoreTyped, BorrowedMerged
  <2>5. RowsMerged' /\ SenderMissingOnlyByRace'
    BY <2>2 DEF RowsMerged, SenderMissingOnlyByRace, Rows
  <2> QED BY <2>2, <2>4, <2>5 DEF StoreEffect, StoreInv, Rows
<1>8. ASSUME NEW m \in Messages, Borrow(m) PROVE StoreEffect
  <2>1. /\ table[m] # NoRow /\ borrowed' = [at |-> "download", of |-> m, row |-> table[m]]
        /\ UNCHANGED <<table, botKnown, clock, handler, arrived, raced>>
    BY <1>8 DEF Borrow
  <2>2. StoreTyped' /\ RowsMerged' /\ SenderMissingOnlyByRace'
    BY <1>0, <2>1 DEF StoreTyped, RowsMerged, SenderMissingOnlyByRace, Rows
  <2>3. BorrowedMerged'
    BY <1>0, <2>1 DEF RowsMerged, BorrowedMerged
  <2> QED BY <1>1, <2>1, <2>2, <2>3 DEF StoreInv
<1>9. CASE WriteBack
  <2>1. PICK m : m = borrowed.of
    OBVIOUS
  <2>2. PICK row : row = borrowed.row
    OBVIOUS
  <2>3. m \in Messages /\ RowOfMessage(row, m)
    BY <1>0, <1>9, <2>1, <2>2 DEF WriteBack, BorrowedMerged
  <2>4. /\ Upsert(m, row) /\ borrowed' = Nothing
        /\ raced' = (IF AuthorOf[m] = "bot" /\ botKnown /\ ~row.sender THEN raced \cup {m} ELSE raced)
        /\ UNCHANGED <<botKnown, clock, handler, arrived>>
    BY <1>9, <2>1, <2>2 DEF WriteBack
  <2>5. /\ table' \in [Messages -> Row \cup {NoRow}] /\ RowsMerged' /\ SenderMissingOnlyByRace'
        /\ \A k \in Rows : table'[k] = NoRow =>
             \A x \in Messages : table'[x] # NoRow => table[k].created <= table'[x].created
    BY <2>3, <2>4, UpsertStep
  <2>6. StoreTyped' /\ BorrowedMerged'
    BY <1>0, <2>3, <2>4, <2>5 DEF StoreTyped, BorrowedMerged
  <2> QED BY <2>5, <2>6 DEF StoreEffect, StoreInv
<1>10. CASE ClockTicks
  <2>1. clock' \in 0..MaxClock /\ UNCHANGED <<table, botKnown, handler, arrived, borrowed, raced>>
    BY <1>0, <1>10, MessageAssumption DEF ClockTicks, StoreTyped
  <2>2. StoreInv'
    BY <1>0, <2>1 DEF StoreInv, StoreTyped, RowsMerged, BorrowedMerged, SenderMissingOnlyByRace, Rows
  <2> QED BY <1>1, <2>1, <2>2
<1>11. CASE UNCHANGED storeVars
  <2>1. StoreInv' /\ UNCHANGED table
    BY <1>0, <1>11 DEF storeVars, StoreInv, StoreTyped, RowsMerged, BorrowedMerged, SenderMissingOnlyByRace, Rows
  <2> QED BY <1>1, <2>1
<1> QED BY <1>3, <1>4, <1>5, <1>6, <1>7, <1>8, <1>9, <1>10, <1>11 DEF StoreNext
LEMMA StoreInvHolds == StoreSpec => []StoreInv
<1>1. StoreInv /\ [StoreNext]_storeVars => StoreInv'
  BY StoreStep DEF StoreEffect
<1> QED BY StoreInitHolds, <1>1, PTL DEF StoreSpec

\* The facts of a message are the same whichever of its writers came first, and
\* whichever of it and the facts about its sender.
THEOREM RowsStayMerged == StoreSpec => []RowsAreMerged
<1>1. StoreInv => RowsAreMerged
  <2> SUFFICES ASSUME StoreInv PROVE RowsAreMerged
    OBVIOUS
  <2>1. StoreTyped /\ RowsMerged /\ BorrowedMerged /\ SenderMissingOnlyByRace
    BY DEF StoreInv
  <2>2. StoreTypeOK
    BY <2>1, MessageAssumption DEF StoreTyped, BorrowedMerged, RowOfMessage, StoreTypeOK, Writers
  <2>3. RowIsMergeOfWriters
    BY <2>1 DEF RowsMerged, RowOfMessage, RowMerged, RowIsMergeOfWriters, Rows
  <2> QED BY <2>1, <2>2, <2>3 DEF RowsAreMerged
<1> QED BY StoreInvHolds, <1>1, PTL

-----------------------------------------------------------------------------
(***************************************************************************)
(* Reading a chat back.  The rows are totally ordered by time and id, and  *)
(* finitely many.                                                          *)
(***************************************************************************)

LEMMA RowsAreOrdered ==
  ASSUME StoreInv
  PROVE  /\ IsFiniteSet(Rows) /\ Rows \subseteq Messages
         /\ \A m \in Rows : ~Earlier(m, m)
         /\ \A m, k \in Rows : m = k \/ Earlier(m, k) \/ Earlier(k, m)
         /\ \A m, k, n \in Rows : Earlier(m, k) /\ Earlier(k, n) => Earlier(m, n)
<1>1. Rows \subseteq Messages /\ IsFiniteSet(Rows)
  BY MessageAssumption, FS_Subset DEF Rows
<1>2. ASSUME NEW m \in Rows PROVE table[m].created \in Nat /\ m \in Nat
  BY MessageAssumption DEF StoreInv, RowsMerged, RowOfMessage, Row, Rows
<1>3. /\ \A m \in Rows : ~Earlier(m, m)
      /\ \A m, k \in Rows : m = k \/ Earlier(m, k) \/ Earlier(k, m)
  BY <1>2 DEF Earlier
<1>4. ASSUME NEW m \in Rows, NEW k \in Rows, NEW n \in Rows, Earlier(m, k), Earlier(k, n)
      PROVE  Earlier(m, n)
  <2>1. /\ table[m].created \in Nat /\ table[k].created \in Nat /\ table[n].created \in Nat
        /\ m \in Nat /\ k \in Nat /\ n \in Nat
    BY <1>2
  <2> QED BY <1>4, <2>1 DEF Earlier
<1> QED BY <1>1, <1>3, <1>4

\* Of some rows one is the latest: the one with the fewest later ones.
LEMMA SomeRowIsLatest ==
  ASSUME StoreInv, NEW S, S \subseteq Rows, S # {}
  PROVE  \E m \in S : \A k \in S : ~Earlier(m, k)
<1> DEFINE Above(m) == {k \in S : Earlier(m, k)}
           T == {Above(m) : m \in S}
           R == StrictSubsetOrdering(Rows)
<1>1. IsWellFoundedOn(R, SUBSET Rows)
  BY RowsAreOrdered, FS_StrictSubsetOrderingWellFounded, FS_FiniteSubsetsOfFinite
<1>2. T \subseteq SUBSET Rows /\ T # {}
  OBVIOUS
<1>3. PICK x \in T : \A y \in T : ~ (<<y, x>> \in R)
  <2> HIDE DEF R, T
  <2> QED BY <1>1, <1>2, WFMin
<1>4. PICK m \in S : x = Above(m)
  OBVIOUS
<1>5. ASSUME NEW k \in S, Earlier(m, k) PROVE FALSE
  <2>1. Above(k) \subseteq Above(m) /\ k \in Above(m) /\ k \notin Above(k)
    BY <1>5, RowsAreOrdered
  <2>2. Above(k) # Above(m) /\ Above(k) \in SUBSET Rows /\ Above(m) \in SUBSET Rows
    BY <2>1
  <2>3. <<Above(k), Above(m)>> \in R
    <3> HIDE DEF Above
    <3> QED BY <2>1, <2>2 DEF StrictSubsetOrdering
  <2> QED BY <1>3, <1>4, <2>3
<1> QED BY <1>5

\* Nothing lies between two rows exactly if fewer than one row does, and fewer
\* than all the rows lie after one of them.
LEMMA BetweenRows ==
  ASSUME StoreInv, NEW a \in Rows, NEW b \in Rows
  PROVE  /\ Cardinality(Between(a, b)) < 1 <=> Between(a, b) = {}
         /\ Cardinality(Between(a, b)) < Cardinality(Rows)
<1>1. Between(a, b) \subseteq Rows \ {a}
  BY RowsAreOrdered DEF Between, InChat
<1>2. IsFiniteSet(Rows) /\ IsFiniteSet(Rows \ {a})
  BY RowsAreOrdered, FS_RemoveElement
<1>3. Cardinality(Rows \ {a}) = Cardinality(Rows) - 1
  BY <1>2, FS_RemoveElement
<1>4. IsFiniteSet(Between(a, b)) /\ Cardinality(Between(a, b)) <= Cardinality(Rows \ {a})
  BY <1>1, <1>2, FS_Subset
<1>5. Cardinality(Between(a, b)) \in Nat /\ Cardinality(Rows) \in Nat /\ Cardinality(Rows \ {a}) \in Nat
  BY <1>2, <1>4, FS_CardinalityType
<1>6. Cardinality(Between(a, b)) = 0 <=> Between(a, b) = {}
  BY <1>4, FS_EmptySet
<1> QED BY <1>3, <1>4, <1>5, <1>6

LEMMA PagingHolds == StoreInv => PagingSkipsNone
<1> SUFFICES ASSUME StoreInv, NEW c \in StoreChats, NEW a \in InChat(c),
                    NEW older, older = InChat(c) \ Window(a, 0, Cardinality(Rows))
             PROVE  /\ older # {} => Before(a, 1) # {}
                    /\ \A m \in Before(a, 1) : Between(m, a) = {} /\ Window(m, 0, 1) = {m, a}
  BY DEF PagingSkipsNone
<1>0. /\ InChat(c) \subseteq Rows /\ a \in Rows /\ ChatOf[a] = c
      /\ \A m \in InChat(c) : ChatOf[m] = c
  BY DEF InChat
<1>1. \A m \in older : m \in InChat(c) /\ Earlier(m, a)
  <2> SUFFICES ASSUME NEW m \in InChat(c), ~Earlier(m, a) PROVE m \in Window(a, 0, Cardinality(Rows))
    OBVIOUS
  <2>1. m = a \/ Earlier(a, m)
    BY <1>0, RowsAreOrdered
  <2>2. Earlier(a, m) => m \in AfterAnchor(a, Cardinality(Rows))
    BY <1>0, BetweenRows DEF AfterAnchor
  <2> QED BY <2>1, <2>2 DEF Window
<1>2. ASSUME older # {} PROVE Before(a, 1) # {}
  <2> DEFINE earlier == {m \in InChat(c) : Earlier(m, a)}
  <2>1. earlier # {} /\ earlier \subseteq Rows
    BY <1>0, <1>1, <1>2
  <2>2. PICK m \in earlier : \A k \in earlier : ~Earlier(m, k)
    <3> HIDE DEF earlier
    <3> QED BY <2>1, SomeRowIsLatest
  <2>3. Between(m, a) = {}
    BY <1>0, <2>2 DEF Between
  <2>4. Cardinality(Between(m, a)) < 1
    BY <1>0, <2>2, <2>3, BetweenRows
  <2> QED BY <1>0, <2>2, <2>4 DEF Before
<1>3. ASSUME NEW m \in Before(a, 1) PROVE Between(m, a) = {} /\ Window(m, 0, 1) = {m, a}
  <2>1. m \in InChat(c) /\ m \in Rows /\ ChatOf[m] = c /\ Earlier(m, a) /\ Cardinality(Between(m, a)) < 1
    BY <1>0 DEF Before
  <2>2. Between(m, a) = {}
    BY <1>0, <2>1, BetweenRows
  <2>3. Before(m, 0) = {}
    <3> SUFFICES ASSUME NEW k \in Rows, Cardinality(Between(k, m)) < 0 PROVE FALSE
      BY <1>0, <2>1 DEF Before
    <3>1. IsFiniteSet(Between(k, m))
      BY RowsAreOrdered, FS_Subset DEF Between, InChat
    <3> QED BY <3>1, FS_CardinalityType
  <2>4. AfterAnchor(m, 1) = {a}
    <3>1. a \in AfterAnchor(m, 1)
      BY <1>0, <2>1 DEF AfterAnchor
    <3>2. ASSUME NEW k \in AfterAnchor(m, 1), k # a PROVE FALSE
      <4>1. k \in InChat(c) /\ k \in Rows /\ Earlier(m, k) /\ Cardinality(Between(m, k)) < 1 /\ ChatOf[k] = c
        BY <1>0, <2>1 DEF AfterAnchor
      <4>2. Between(m, k) = {}
        BY <2>1, <4>1, BetweenRows
      <4>3. Earlier(a, k) => a \in Between(m, k)
        BY <1>0, <2>1, <4>1 DEF Between
      <4>4. Earlier(k, a) => k \in Between(m, a)
        BY <1>0, <4>1 DEF Between
      <4> QED BY <1>0, <2>2, <3>2, <4>1, <4>2, <4>3, <4>4, RowsAreOrdered
    <3> QED BY <3>1, <3>2
  <2> QED BY <2>2, <2>3, <2>4 DEF Window
<1> QED BY <1>2, <1>3

LEMMA ChatHolds == StoreInv => HistoryStaysInChat
<1> SUFFICES ASSUME StoreInv, NEW anchor \in Rows
             PROVE  /\ \A m \in Window(anchor, 1, 1) : ChatOf[m] = ChatOf[anchor]
                    /\ \A current \in Messages : \A explicit \in StoreChats \cup {NoChat}, admin \in BOOLEAN :
                         AnswersAround(current, admin, explicit, anchor) =>
                           /\ CurrentChat(current) # NoChat
                           /\ \/ admin /\ explicit # NoChat
                              \/ ChatOf[anchor] = CurrentChat(current)
  BY DEF HistoryStaysInChat
<1>1. \A m \in Window(anchor, 1, 1) : ChatOf[m] = ChatOf[anchor]
  BY DEF Window, Before, AfterAnchor, InChat
<1>2. \A current \in Messages : \A explicit \in StoreChats \cup {NoChat}, admin \in BOOLEAN :
        AnswersAround(current, admin, explicit, anchor) =>
          /\ CurrentChat(current) # NoChat
          /\ \/ admin /\ explicit # NoChat
             \/ ChatOf[anchor] = CurrentChat(current)
  BY DEF AnswersAround, MayRead
<1> QED BY <1>1, <1>2

\* What a chat can read back of itself has no holes: the store forgets from the
\* old end only, and paging neither skips a row nor leaves the chat.
THEOREM HistoryStaysWhole == StoreSpec => HistoryIsWhole
<1>1. StoreInv => PagingSkipsNone /\ HistoryStaysInChat
  BY PagingHolds, ChatHolds
<1>2. StoreInv /\ [StoreNext]_storeVars =>
        [\A m \in Rows : table'[m] = NoRow =>
           \A k \in Messages : table'[k] # NoRow => table[m].created <= table'[k].created]_storeVars
  BY StoreStep DEF StoreEffect
<1> QED BY StoreInvHolds, <1>1, <1>2, PTL DEF StoreSpec, HistoryIsWhole, OldestGoFirst
=============================================================================
