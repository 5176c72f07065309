------------------------ MODULE MemoryHistory_proofs ------------------------
(* Proofs about MemoryHistory, for every size of the ring, every TTL and    *)
(* any number of writers and readers.                                       *)
EXTENDS MemoryHistory, SequenceTheorems, TLAPS

USE SizeAssumption, LimitsAssumption, BoundAssumption
USE DEF SizeAssumption, LimitsAssumption, BoundAssumption

-----------------------------------------------------------------------------
(* The inductive invariant                                                 *)

\* The slots in use are the first `size' ones, and writing goes on behind
\* them until the ring is full.
RingShape ==
    /\ \A j \in Slots : ring[j] # None <=> j < size
    /\ size < Size => next = size

\* IDs are handed out once, whether a record is still pending or stored.
FreshIDs ==
    /\ \A j \in Slots : ring[j] # None => ring[j].id <= created
    /\ \A w \in Writers : pending[w] # None => pending[w].id <= created
DistinctIDs ==
    /\ \A j, k \in Slots :
         ring[j] # None /\ ring[k] # None /\ ring[j].id = ring[k].id => j = k
    /\ \A w \in Writers, j \in Slots :
         pending[w] # None /\ ring[j] # None => pending[w].id # ring[j].id
    /\ \A v, w \in Writers :
         pending[v] # None /\ pending[w] # None /\ pending[v].id = pending[w].id => v = w

\* The index holds the records of the ring and no other.
IndexExact ==
    /\ \A j \in Slots : ring[j] # None =>
         ring[j].id \in DOMAIN byID /\ byID[ring[j].id] = ring[j]
    /\ \A id \in DOMAIN byID : \E j \in Slots : ring[j] # None /\ ring[j].id = id

\* A page under way has not passed the end of the ring.
ScanInside == \A r \in Readers : scan[r].open => scan[r].i <= size

IInv == TypeOK /\ RingShape /\ FreshIDs /\ DistinctIDs /\ IndexExact /\ ScanInside

-----------------------------------------------------------------------------
(* Facts about the ring                                                    *)

\* A pending or stored record can be told from a missing one.
LEMMA NoneIsNoEntry == None \notin Entry
  BY NoneAssumption DEF NoneAssumption, Entry, IDs, Times

\* The write index stays inside the ring and wraps at its end.
LEMMA NextSlotValue ==
  ASSUME next \in Slots
  PROVE  NextSlot = IF next = Size - 1 THEN 0 ELSE next + 1
  BY DEF NextSlot, Slots

\* The i-th newest slot is a slot of the ring.
LEMMA SlotOfInside ==
  ASSUME next \in Slots, size \in 0..Size, NEW i \in 0..(size - 1)
  PROVE  SlotOf(i) \in Slots
  BY DEF SlotOf, Slots

\* The slots of the records kept are in use.
LEMMA SlotOfOccupied ==
  ASSUME TypeOK, RingShape, NEW i \in 0..(size - 1)
  PROVE  SlotOf(i) \in Slots /\ ring[SlotOf(i)] \in Entry
  <1>1. next \in Slots /\ size \in 0..Size /\ ring \in [Slots -> Entry \cup {None}]
    BY DEF TypeOK
  <1>2. SlotOf(i) \in Slots
    BY <1>1, SlotOfInside
  <1>3. SlotOf(i) < size
    BY <1>1 DEF SlotOf, Slots, RingShape
  <1> QED BY <1>1, <1>2, <1>3 DEF RingShape

\* Inserting moves every record one place back and puts the new one in front.
LEMMA SlotOfAfterInsert ==
  ASSUME next \in Slots, size \in 0..Size, size < Size => next = size,
         next' = NextSlot, size' = Grown
  PROVE  /\ SlotOf(0)' = next
         /\ \A k \in 1..size : k < size' => SlotOf(k)' = SlotOf(k - 1) /\ SlotOf(k - 1) # next
         /\ size' = (IF size < Size THEN size + 1 ELSE Size)
  <1>1. next' = IF next = Size - 1 THEN 0 ELSE next + 1
    BY NextSlotValue
  <1>2. size' = (IF size < Size THEN size + 1 ELSE Size)
    BY DEF Grown
  <1> QED BY <1>1, <1>2 DEF SlotOf, Slots

-----------------------------------------------------------------------------
(* The invariant is inductive                                              *)

LEMMA Initially == Init => IInv
  <1> SUFFICES ASSUME Init PROVE IInv
    OBVIOUS
  <1>1. TypeOK
    <2>1. NoScan \in Scan
      BY DEF NoScan, Scan, Times
    <2> QED BY <2>1 DEF Init, TypeOK, Times, IDs, Slots
  <1>2. RingShape /\ FreshIDs /\ DistinctIDs /\ IndexExact /\ ScanInside
    BY DEF Init, RingShape, FreshIDs, DistinctIDs, IndexExact, ScanInside, Slots, NoScan
  <1> QED BY <1>1, <1>2 DEF IInv

\* The clock goes on.
LEMMA TickKeeps == IInv /\ Tick => IInv'
  <1> SUFFICES ASSUME IInv, Tick PROVE IInv'
    OBVIOUS
  <1>1. TypeOK'
    BY DEF IInv, Tick, TypeOK, Times, store
  <1> QED BY <1>1 DEF IInv, Tick, store, RingShape, FreshIDs, DistinctIDs, IndexExact, ScanInside

\* A new record has an ID nobody has.
LEMMA CreateKeeps == ASSUME IInv, NEW w \in Writers, Create(w) PROVE IInv'
  <1> DEFINE e == [id |-> created + 1, at |-> now]
  <1>1. e \in Entry /\ created' = created + 1 /\ created' \in 0..MaxEntries
    BY DEF IInv, TypeOK, Create, Entry, IDs, Times
  <1>2. /\ pending' = [pending EXCEPT ![w] = e]
        /\ UNCHANGED <<now, ring, next, size, byID, scan>>
    BY DEF Create, store
  <1>3. TypeOK'
    BY <1>1, <1>2 DEF IInv, TypeOK
  <1>4. \A v \in Writers : pending'[v] = IF v = w THEN e ELSE pending[v]
    BY <1>2 DEF IInv, TypeOK
  <1>5. /\ \A v \in Writers : pending[v] # None => pending[v].id \in Nat
        /\ \A j \in Slots : ring[j] # None => ring[j].id \in Nat
    BY DEF IInv, TypeOK, Entry, IDs
  <1>6. created \in Nat /\ e.id = created + 1
    BY DEF IInv, TypeOK
  <1> HIDE DEF e
  <1>7. FreshIDs'
    BY <1>1, <1>2, <1>4, <1>5, <1>6 DEF IInv, FreshIDs
  <1>8. DistinctIDs'
    BY <1>2, <1>4, <1>5, <1>6 DEF IInv, FreshIDs, DistinctIDs
  <1>9. RingShape' /\ IndexExact' /\ ScanInside'
    BY <1>2 DEF IInv, RingShape, IndexExact, ScanInside
  <1> QED BY <1>3, <1>7, <1>8, <1>9 DEF IInv

\* The pending record takes the next slot and what was there leaves the index.
LEMMA InsertKeeps == ASSUME IInv, NEW w \in Writers, Insert(w) PROVE IInv'
  <1> DEFINE e == pending[w]
             gone == IF ring[next] = None THEN {} ELSE {ring[next].id}
  <1>1. e \in Entry /\ e # None /\ next \in Slots /\ size \in 0..Size
    BY DEF IInv, TypeOK, Insert
  <1>2. /\ ring' = [ring EXCEPT ![next] = e]
        /\ byID' = Reindexed(gone, e)
        /\ next' = NextSlot /\ size' = Grown
        /\ pending' = [pending EXCEPT ![w] = None]
        /\ UNCHANGED <<now, created, scan>>
        /\ \A r \in Readers : ~scan[r].open
    BY DEF Insert, CanWrite
  <1>3. /\ next' = (IF next = Size - 1 THEN 0 ELSE next + 1)
        /\ size' = (IF size < Size THEN size + 1 ELSE Size)
    BY <1>1, <1>2, NextSlotValue DEF Grown
  <1>4. /\ \A j \in Slots : ring'[j] = IF j = next THEN e ELSE ring[j]
        /\ \A v \in Writers : pending'[v] = IF v = w THEN None ELSE pending[v]
    BY <1>1, <1>2 DEF IInv, TypeOK
  <1>5. /\ DOMAIN byID' = (DOMAIN byID \ gone) \cup {e.id}
        /\ \A id \in DOMAIN byID' : byID'[id] = IF id = e.id THEN e ELSE byID[id]
    BY <1>2 DEF Reindexed
  <1>6. next' \in Slots /\ size' \in 0..Size
    BY <1>1, <1>3 DEF Slots
  <1>7. e.id \in IDs
    BY <1>1 DEF Entry
  <1> HIDE DEF e
  <1>8. TypeOK'
    <2>1. ring' \in [Slots -> Entry \cup {None}] /\ pending' \in [Writers -> Entry \cup {None}]
      BY <1>1, <1>2 DEF IInv, TypeOK
    <2>2. DOMAIN byID' \subseteq IDs /\ \A id \in DOMAIN byID' : byID'[id] \in Entry
      BY <1>1, <1>5, <1>7 DEF IInv, TypeOK
    <2> QED BY <1>2, <1>6, <2>1, <2>2 DEF IInv, TypeOK
  <1>9. RingShape'
    BY <1>1, <1>3, <1>4 DEF IInv, RingShape, Slots
  <1>10. FreshIDs' /\ DistinctIDs'
    BY <1>1, <1>2, <1>4 DEF IInv, FreshIDs, DistinctIDs, e
  <1>11. IndexExact'
    <2>1. ASSUME NEW j \in Slots, ring'[j] # None
          PROVE  ring'[j].id \in DOMAIN byID' /\ byID'[ring'[j].id] = ring'[j]
      <3>1. CASE j = next
        BY <1>4, <1>5, <3>1
      <3>2. CASE j # next
        <4>1. ring'[j] = ring[j] /\ ring[j] # None
          BY <1>4, <2>1, <3>2
        <4>2. ring[j].id # e.id /\ ring[j].id \notin gone
          BY <1>1, <3>2, <4>1 DEF IInv, DistinctIDs, e
        <4> QED BY <1>5, <4>1, <4>2 DEF IInv, IndexExact
      <3> QED BY <3>1, <3>2
    <2>2. ASSUME NEW id \in DOMAIN byID'
          PROVE  \E j \in Slots : ring'[j] # None /\ ring'[j].id = id
      <3>1. CASE id = e.id
        BY <1>1, <1>4, <3>1
      <3>2. CASE id # e.id
        <4>1. id \in DOMAIN byID /\ id \notin gone
          BY <1>5, <3>2
        <4>2. PICK j \in Slots : ring[j] # None /\ ring[j].id = id
          BY <4>1 DEF IInv, IndexExact
        <4>3. j # next
          BY <4>1, <4>2
        <4> QED BY <1>4, <4>2, <4>3
      <3> QED BY <3>1, <3>2
    <2> QED BY <2>1, <2>2 DEF IndexExact
  <1>12. ScanInside'
    BY <1>2 DEF ScanInside
  <1> QED BY <1>8, <1>9, <1>10, <1>11, <1>12 DEF IInv

\* An empty history.
LEMMA ClearKeeps == IInv /\ Clear => IInv'
  <1> SUFFICES ASSUME IInv, Clear PROVE IInv'
    OBVIOUS
  <1>1. TypeOK'
    BY DEF IInv, Clear, TypeOK, Slots
  <1>2. RingShape' /\ FreshIDs' /\ DistinctIDs' /\ IndexExact' /\ ScanInside'
    BY DEF IInv, Clear, CanWrite, RingShape, FreshIDs, DistinctIDs, IndexExact, ScanInside, Slots
  <1> QED BY <1>1, <1>2 DEF IInv

\* Reading a page changes nothing but the reader's own progress.
LEMMA ReadKeeps ==
  ASSUME IInv, NEW r \in Readers,
         (\E limit \in Limits : OpenPage(r, limit)) \/ ScanEntry(r) \/ ClosePage(r)
  PROVE  IInv'
  <1>1. UNCHANGED <<now, created, pending, ring, next, size, byID>>
    BY DEF OpenPage, ScanEntry, ClosePage, store
  <1>2. scan' \in [Readers -> Scan] /\ ScanInside'
    <2>1. CASE \E limit \in Limits : OpenPage(r, limit)
      <3>1. PICK limit \in Limits : OpenPage(r, limit)
        BY <2>1
      <3>2. OpenedScan(limit) \in Scan /\ OpenedScan(limit).i = 0
        <4>1. limit \in Nat /\ now \in Times
          BY DEF IInv, TypeOK
        <4>2. <<>> \in Seq(Entry) /\ 0 \in 0..Size
          OBVIOUS
        <4> QED BY <4>1, <4>2 DEF Scan, OpenedScan
      <3>3. scan' = [scan EXCEPT ![r] = OpenedScan(limit)]
        BY <3>1 DEF OpenPage
      <3> QED BY <1>1, <3>2, <3>3 DEF IInv, TypeOK, ScanInside
    <2>2. CASE ScanEntry(r)
      <3> DEFINE e == ring[SlotOf(scan[r].i)]
                 page == IF IsExpired(e) THEN scan[r].page ELSE Append(scan[r].page, e)
      <3>1. /\ scan[r] \in Scan /\ scan[r].i \in 0..(size - 1)
            /\ scan[r].page \in Seq(Entry) /\ size \in 0..Size
        BY <2>2 DEF IInv, TypeOK, Scan, ScanEntry, Scanning
      <3>2. e \in Entry
        BY <3>1, SlotOfOccupied DEF IInv
      <3>3. page \in Seq(Entry)
        BY <3>1, <3>2
      <3>4. scan[r].i + 1 \in 0..Size /\ scan[r].i + 1 <= size
        BY <3>1
      <3>5. scan' = [scan EXCEPT ![r].i = @ + 1, ![r].page = page]
        BY <2>2 DEF ScanEntry
      <3>6. scan' = [scan EXCEPT ![r] = [scan[r] EXCEPT !.i = @ + 1, !.page = page]]
        <4> HIDE DEF page
        <4> QED BY <3>5 DEF IInv, TypeOK
      <3> HIDE DEF page, e
      <3> DEFINE moved == [scan[r] EXCEPT !.i = @ + 1, !.page = page]
      <3>7. moved \in Scan /\ moved.i <= size
        BY <3>1, <3>3, <3>4 DEF Scan
      <3>8. scan' = [scan EXCEPT ![r] = moved]
        BY <3>6
      <3> HIDE DEF moved
      <3> QED BY <1>1, <3>7, <3>8 DEF IInv, TypeOK, ScanInside
    <2>3. CASE ClosePage(r)
      BY <1>1, <2>3 DEF IInv, ClosePage, TypeOK, NoScan, Scan, Times, ScanInside
    <2> QED BY <2>1, <2>2, <2>3
  <1>3. TypeOK'
    BY <1>1, <1>2 DEF IInv, TypeOK
  <1>4. RingShape' /\ FreshIDs' /\ DistinctIDs' /\ IndexExact'
    BY <1>1 DEF IInv, RingShape, FreshIDs, DistinctIDs, IndexExact
  <1> QED BY <1>2, <1>3, <1>4 DEF IInv

LEMMA Inductive == IInv /\ [Next]_vars => IInv'
  <1> SUFFICES ASSUME IInv, [Next]_vars PROVE IInv'
    OBVIOUS
  <1>1. CASE UNCHANGED vars
    BY <1>1 DEF vars, store, IInv, TypeOK, RingShape, FreshIDs, DistinctIDs, IndexExact, ScanInside
  <1>2. CASE Next
    BY <1>2, TickKeeps, CreateKeeps, InsertKeeps, ClearKeeps, ReadKeeps DEF Next
  <1> QED BY <1>1, <1>2

LEMMA Invariance == Spec => []IInv
  BY Initially, Inductive, PTL DEF Spec

-----------------------------------------------------------------------------
(* Theorems                                                                *)

\* Every variable of the history keeps its type, its write index stays inside
\* the ring and its size within it, for any ring, TTL, writers and readers.
THEOREM TypeCorrect == Spec => []TypeOK
  BY Invariance, PTL DEF IInv

\* A record can be opened by its ID exactly while the ring holds it alive.
THEOREM IndexCorrect == Spec => []IndexAgrees
  <1>1. IInv => IndexAgrees
    <2> SUFFICES ASSUME IInv, NEW id \in 1..created
        PROVE  /\ GetByID(id) # None =>
                    \E i \in 1..size : Contents[i] = GetByID(id) /\ Contents[i].id = id
               /\ \A i \in 1..size :
                    Contents[i].id = id /\ ~IsExpired(Contents[i]) => GetByID(id) = Contents[i]
      BY DEF IndexAgrees
    <2>1. next \in Slots /\ size \in 0..Size
      BY DEF IInv, TypeOK
    <2>2. ASSUME NEW i \in 1..size
          PROVE  /\ Contents[i] = ring[SlotOf(i - 1)]
                 /\ SlotOf(i - 1) \in Slots /\ ring[SlotOf(i - 1)] # None
      BY <2>1, SlotOfOccupied, NoneIsNoEntry DEF Contents, IInv
    <2>3. ASSUME GetByID(id) # None
          PROVE  \E i \in 1..size : Contents[i] = GetByID(id) /\ Contents[i].id = id
      <3>1. id \in DOMAIN byID /\ GetByID(id) = byID[id]
        BY <2>3 DEF GetByID
      <3>2. PICK j \in Slots : ring[j] # None /\ ring[j].id = id
        BY <3>1 DEF IInv, IndexExact
      <3>3. j < size /\ byID[id] = ring[j]
        BY <3>2 DEF IInv, IndexExact, RingShape
      <3>4. PICK i \in 1..size : SlotOf(i - 1) = j
        <4>1. size < Size => next = size
          BY DEF IInv, RingShape
        <4>2. CASE j < next
          <5>1. next - j \in 1..size /\ SlotOf(next - j - 1) = j
            BY <2>1, <3>3, <4>1, <4>2 DEF Slots, SlotOf
          <5> QED BY <5>1
        <4>3. CASE j >= next
          <5> DEFINE i == next - j + Size
          <5>1. i \in 1..size /\ SlotOf(i - 1) = j
            BY <2>1, <3>3, <4>1, <4>3 DEF Slots, SlotOf
          <5> HIDE DEF i
          <5> QED BY <5>1
        <4>4. j < next \/ j >= next
          BY <2>1 DEF Slots
        <4> QED BY <4>2, <4>3, <4>4
      <3> QED BY <2>2, <3>1, <3>2, <3>3, <3>4
    <2>4. ASSUME NEW i \in 1..size, Contents[i].id = id, ~IsExpired(Contents[i])
          PROVE  GetByID(id) = Contents[i]
      BY <2>2, <2>4 DEF IInv, IndexExact, GetByID
    <2> QED BY <2>3, <2>4
  <1> QED BY <1>1, Invariance, PTL

-----------------------------------------------------------------------------
(* The ring implements the bounded log                                     *)

\* What the ring holds is a sequence of records.
LEMMA ContentsIsLog ==
  ASSUME IInv
  PROVE  Contents \in Seq(Entry) /\ Len(Contents) = size
  <1>1. size \in Nat
    BY DEF IInv, TypeOK
  <1>2. \A i \in 1..size : ring[SlotOf(i - 1)] \in Entry
    BY <1>1, SlotOfOccupied DEF IInv
  <1> QED BY <1>1, <1>2 DEF Contents

\* No record is in the ring while it is pending.
LEMMA PendingIsNew ==
  ASSUME IInv, NEW w \in Writers, pending[w] # None, NEW i \in 1..size
  PROVE  Contents[i] # pending[w]
  <1>1. Contents[i] = ring[SlotOf(i - 1)] /\ SlotOf(i - 1) \in Slots /\ ring[SlotOf(i - 1)] # None
    BY SlotOfOccupied, NoneIsNoEntry DEF Contents, IInv, TypeOK
  <1> QED BY <1>1 DEF IInv, DistinctIDs

\* Insert records at the head of the log and drops what no longer fits.
LEMMA InsertRecords ==
  ASSUME IInv, NEW w \in Writers, Insert(w)
  PROVE  Promise!Record(pending[w])
  <1> DEFINE e == pending[w]
             longer == <<e>> \o Contents
  <1>1. e \in Entry /\ e # None /\ next \in Slots /\ size \in 0..Size
    BY DEF IInv, TypeOK, Insert
  <1>2. /\ ring' = [ring EXCEPT ![next] = e] /\ next' = NextSlot /\ size' = Grown
        /\ size < Size => next = size
        /\ ring \in [Slots -> Entry \cup {None}]
    BY DEF Insert, IInv, RingShape, TypeOK
  <1>3. /\ SlotOf(0)' = next
        /\ \A k \in 1..size : k < size' => SlotOf(k)' = SlotOf(k - 1) /\ SlotOf(k - 1) # next
        /\ size' = (IF size < Size THEN size + 1 ELSE Size)
    BY <1>1, <1>2, SlotOfAfterInsert
  <1>4. Contents \in Seq(Entry) /\ Len(Contents) = size
    BY ContentsIsLog
  <1>5. Contents' = [i \in 1..size' |-> ring'[SlotOf(i - 1)']]
    BY DEF Contents
  <1>6. longer \in Seq(Entry) /\ Len(longer) = size + 1
        /\ \A i \in 1..(size + 1) : longer[i] = IF i = 1 THEN e ELSE Contents[i - 1]
    BY <1>1, <1>4
  <1>7. Promise!Newest(longer) = SubSeq(longer, 1, size')
    BY <1>1, <1>3, <1>6 DEF Promise!Newest
  <1>8. size' \in 1..(size + 1)
    BY <1>1, <1>3
  <1> HIDE DEF longer
  <1>9. SubSeq(longer, 1, size') = [i \in 1..size' |-> longer[i]]
    BY <1>1, <1>6, <1>8
  <1>10. ASSUME NEW i \in 1..size'
         PROVE  ring'[SlotOf(i - 1)'] = longer[i]
    <2>1. CASE i = 1
      BY <1>1, <1>2, <1>3, <1>6, <1>8, <2>1
    <2>2. CASE i # 1
      <3> DEFINE k == i - 1
      <3>1. k \in 1..size /\ k < size' /\ k - 1 \in 0..(size - 1)
        <4>1. size' \in Nat /\ size' <= size + 1 /\ size \in Nat
          BY <1>1, <1>8
        <4>2. i \in Nat /\ i <= size' /\ 1 < i
          BY <4>1, <2>2
        <4> QED BY <4>1, <4>2
      <3>2. SlotOf(k)' = SlotOf(k - 1) /\ SlotOf(k - 1) # next
        BY <1>3, <3>1
      <3>3. SlotOf(k - 1) \in Slots
        BY <3>1, SlotOfOccupied DEF IInv
      <3>4. ring'[SlotOf(k)'] = ring[SlotOf(k - 1)]
        BY <1>1, <1>2, <3>2, <3>3
      <3>5. Contents[k] = ring[SlotOf(k - 1)]
        BY <3>1 DEF Contents
      <3>6. longer[i] = Contents[k]
        BY <1>6, <1>8, <2>2
      <3> QED BY <3>4, <3>5, <3>6
    <2> QED BY <2>1, <2>2
  <1>11. Contents' = Promise!Newest(longer)
    BY <1>5, <1>7, <1>9, <1>10
  <1>12. \A i \in 1..Len(Contents) : Contents[i] # e
    BY <1>1, <1>4, PendingIsNew
  <1> QED BY <1>11, <1>12 DEF Promise!Record, longer

\* Every step of the history is a step of the log or leaves it alone.
LEMMA StepRefines ==
  ASSUME IInv, [Next]_vars
  PROVE  [Promise!Next]_Contents
  <1>1. ASSUME NEW w \in Writers, Insert(w) PROVE Promise!Next
    <2>1. pending[w] \in Entry
      BY <1>1 DEF Insert, IInv, TypeOK
    <2> QED BY <1>1, <2>1, InsertRecords DEF Promise!Next
  <1>2. CASE Clear
    <2>1. size' = 0
      BY <1>2 DEF Clear
    <2>2. Contents' = <<>>
      BY <2>1 DEF Contents
    <2> QED BY <2>2 DEF Promise!Next, Promise!Empty
  <1>3. ASSUME UNCHANGED <<ring, next, size>> PROVE UNCHANGED Contents
    BY <1>3 DEF Contents, SlotOf
  <1>4. CASE Tick
    BY <1>3, <1>4 DEF Tick, store
  <1>5. ASSUME NEW w \in Writers, Create(w) PROVE UNCHANGED Contents
    BY <1>3, <1>5 DEF Create, store
  <1>6. ASSUME NEW r \in Readers,
               (\E limit \in Limits : OpenPage(r, limit)) \/ ScanEntry(r) \/ ClosePage(r)
        PROVE  UNCHANGED Contents
    BY <1>3, <1>6 DEF OpenPage, ScanEntry, ClosePage, store
  <1>7. CASE UNCHANGED vars
    BY <1>3, <1>7 DEF vars, store
  <1> QED BY <1>1, <1>2, <1>4, <1>5, <1>6, <1>7 DEF Next

\* The in-memory history implements the bounded log of the interface, for any
\* ring: records enter at the head, the oldest one leaves when there is no room.
THEOREM Refinement == Spec => IsBoundedLog
  <1>1. Init => Promise!Init
    BY DEF Init, Contents, Promise!Init
  <1>2. Spec => Promise!Init /\ [][Promise!Next]_Contents
    BY <1>1, StepRefines, Invariance, PTL DEF Spec
  <1> QED BY <1>2 DEF IsBoundedLog, Promise!Spec

-----------------------------------------------------------------------------
(* A page misses no live record                                            *)

\* PageExact for one reader, and that its page was opened in the past.
ExactScan(s) ==
    s.open =>
        /\ s.i <= size /\ Len(s.page) <= s.limit /\ s.since <= now
        /\ \A a \in 1..Len(s.page) : \E b \in 1..s.i :
             s.page[a] = Contents[b] /\ (TTL > 0 => s.since <= s.page[a].at + TTL)
        /\ \A a1, a2 \in 1..Len(s.page), b1, b2 \in 1..s.i :
             a1 < a2 /\ s.page[a1] = Contents[b1] /\ s.page[a2] = Contents[b2] => b1 < b2
        /\ \A b \in 1..s.i :
             ~IsExpired(Contents[b]) => \E a \in 1..Len(s.page) : s.page[a] = Contents[b]

PagesExact == \A r \in Readers : ExactScan(scan[r])

\* No record is listed twice.
LEMMA ContentsDistinct ==
  ASSUME IInv, NEW b \in 1..size, NEW c \in 1..size, Contents[b] = Contents[c]
  PROVE  b = c
  <1>1. next \in Slots /\ size \in 0..Size
    BY DEF IInv, TypeOK
  <1>2. /\ Contents[b] = ring[SlotOf(b - 1)] /\ Contents[c] = ring[SlotOf(c - 1)]
        /\ SlotOf(b - 1) \in Slots /\ SlotOf(c - 1) \in Slots
        /\ ring[SlotOf(b - 1)] # None /\ ring[SlotOf(c - 1)] # None
    BY <1>1, SlotOfOccupied, NoneIsNoEntry DEF Contents, IInv
  <1>3. SlotOf(b - 1) = SlotOf(c - 1)
    BY <1>2 DEF IInv, DistinctIDs
  <1> QED BY <1>1, <1>3 DEF SlotOf, Slots

\* As long as neither ring nor clock moves, only the pages matter.
LEMMA SameRing ==
  ASSUME UNCHANGED <<now, ring, next, size>>, \A q \in Readers : ExactScan(scan'[q])
  PROVE  PagesExact'
  <1>1. Contents' = Contents
    BY DEF Contents, SlotOf
  <1> QED BY <1>1 DEF PagesExact, ExactScan, IsExpired

\* A round of the loop adds the next record to the page or passes it over.
LEMMA RoundIsExact ==
  ASSUME IInv, PagesExact, NEW r \in Readers, ScanEntry(r)
  PROVE  PagesExact'
  <1> DEFINE s == scan[r]
             n == s.i + 1
             e == ring[SlotOf(s.i)]
             page == IF IsExpired(e) THEN s.page ELSE Append(s.page, e)
             moved == [s EXCEPT !.i = @ + 1, !.page = page]
  <1>1. /\ s \in Scan /\ s.open /\ s.i \in 0..(size - 1) /\ s.page \in Seq(Entry)
        /\ s.limit \in Nat /\ s.since \in Nat /\ now \in Nat
        /\ size \in 0..Size /\ Len(s.page) < s.limit
    BY DEF IInv, TypeOK, Scan, ScanEntry, Scanning, Times
  <1>2. n \in 1..size /\ e = Contents[n] /\ e \in Entry /\ e.at \in Nat
    <2>1. n \in 1..size /\ n - 1 = s.i
      BY <1>1
    <2>2. e \in Entry
      BY <1>1, SlotOfOccupied DEF IInv
    <2> HIDE DEF n
    <2> QED BY <2>1, <2>2 DEF Contents, Entry, Times
  <1>3. scan' = [scan EXCEPT ![r] = moved] /\ UNCHANGED <<now, ring, next, size>>
    <2>1. scan' = [scan EXCEPT ![r].i = @ + 1, ![r].page = page]
      BY DEF ScanEntry
    <2> HIDE DEF page
    <2> QED BY <2>1 DEF IInv, TypeOK, ScanEntry, store
  <1>4. moved.open /\ moved.i = n /\ moved.page = page /\ moved.limit = s.limit /\ moved.since = s.since
    <2> HIDE DEF page
    <2> QED BY <1>1 DEF Scan
  <1>5. ExactScan(s)
    BY DEF PagesExact
  <1>6. \A x \in 1..size, y \in 1..size : Contents[x] = Contents[y] => x = y
    BY ContentsDistinct
  <1> HIDE DEF e, moved
  <1> SUFFICES ExactScan(moved)
    <2>1. \A q \in Readers : scan'[q] = IF q = r THEN moved ELSE scan[q]
      BY <1>3 DEF IInv, TypeOK
    <2>2. ASSUME ExactScan(moved) PROVE \A q \in Readers : ExactScan(scan'[q])
      BY <2>1, <2>2 DEF PagesExact
    <2> QED BY <1>3, <2>2, SameRing
  <1>7. CASE IsExpired(e)
    <2>1. page = s.page
      BY <1>7
    <2>2. \A a \in 1..Len(s.page) : \E b \in 1..s.i :
            s.page[a] = Contents[b] /\ (TTL > 0 => s.since <= s.page[a].at + TTL)
      BY <1>1, <1>5 DEF ExactScan
    <2>3. \A a1, a2 \in 1..Len(page), b1, b2 \in 1..n :
            a1 < a2 /\ page[a1] = Contents[b1] /\ page[a2] = Contents[b2] => b1 < b2
      <3> SUFFICES ASSUME NEW a1 \in 1..Len(s.page), NEW a2 \in 1..Len(s.page),
                          NEW b1 \in 1..n, NEW b2 \in 1..n, a1 < a2,
                          s.page[a1] = Contents[b1], s.page[a2] = Contents[b2]
                   PROVE  b1 < b2
        BY <2>1
      <3>1. b1 \in 1..s.i /\ b2 \in 1..s.i
        <4>1. PICK c1 \in 1..s.i : s.page[a1] = Contents[c1]
          BY <2>2
        <4>2. PICK c2 \in 1..s.i : s.page[a2] = Contents[c2]
          BY <2>2
        <4>3. c1 \in 1..size /\ c2 \in 1..size /\ b1 \in 1..size /\ b2 \in 1..size
          BY <1>1, <1>2
        <4> QED BY <1>6, <4>1, <4>2, <4>3
      <3> QED BY <1>1, <1>5, <3>1 DEF ExactScan
    <2>4. \A b \in 1..n : ~IsExpired(Contents[b]) => \E a \in 1..Len(page) : page[a] = Contents[b]
      <3> SUFFICES ASSUME NEW b \in 1..n, ~IsExpired(Contents[b])
                   PROVE  \E a \in 1..Len(s.page) : s.page[a] = Contents[b]
        BY <2>1
      <3>1. b # n
        BY <1>2, <1>7
      <3>2. b \in 1..s.i
        BY <1>1, <3>1
      <3> QED BY <1>1, <1>5, <3>2 DEF ExactScan
    <2>5. \A a \in 1..Len(page) : \E b \in 1..n :
            page[a] = Contents[b] /\ (TTL > 0 => s.since <= page[a].at + TTL)
      <3>1. 1..s.i \subseteq 1..n
        BY <1>1
      <3> QED BY <2>1, <2>2, <3>1
    <2>6. n <= size /\ Len(page) <= s.limit /\ s.since <= now
      BY <1>1, <1>2, <1>5, <2>1 DEF ExactScan
    <2> HIDE DEF n, page, s
    <2>7. ExactScan(moved)
      BY <1>4, <2>3, <2>4, <2>5, <2>6 DEF ExactScan
    <2> QED BY <2>7
  <1>8. CASE ~IsExpired(e)
    <2> DEFINE m == Len(s.page)
    <2>1. /\ m \in Nat /\ Len(page) = m + 1 /\ page[m + 1] = e
          /\ \A a \in 1..m : page[a] = s.page[a]
      <3>1. page = Append(s.page, e)
        BY <1>8
      <3> HIDE DEF page
      <3> QED BY <1>1, <1>2, <3>1
    <2>2. \A a \in 1..(m + 1) : a = m + 1 \/ a \in 1..m
      BY <2>1
    <2>3. /\ \A b \in 1..n : b = n \/ b \in 1..s.i
          /\ \A b \in 1..s.i : b \in 1..n /\ b < n /\ b \in 1..size
      BY <1>1
    <2>4. \A a \in 1..m : \E b \in 1..s.i :
            s.page[a] = Contents[b] /\ (TTL > 0 => s.since <= s.page[a].at + TTL)
      BY <1>1, <1>5 DEF ExactScan
    <2>5. TTL > 0 => s.since <= e.at + TTL
      <3>1. s.since <= now
        BY <1>1, <1>5 DEF ExactScan
      <3>2. TTL > 0 => now <= e.at + TTL
        BY <1>1, <1>2, <1>8, TTLAssumption DEF IsExpired, TTLAssumption
      <3> HIDE DEF s
      <3> QED BY <1>1, <1>2, <3>1, <3>2, TTLAssumption DEF TTLAssumption
    <2>6. n <= size /\ Len(page) <= s.limit /\ s.since <= now
      BY <1>1, <1>2, <1>5, <2>1 DEF ExactScan
    <2> HIDE DEF page, n, m, s
    <2>7. \A a \in 1..Len(page) : \E b \in 1..n :
            page[a] = Contents[b] /\ (TTL > 0 => s.since <= page[a].at + TTL)
      <3> SUFFICES ASSUME NEW a \in 1..(m + 1)
                   PROVE  \E b \in 1..n : page[a] = Contents[b]
                                         /\ (TTL > 0 => s.since <= page[a].at + TTL)
        BY <2>1
      <3>1. CASE a = m + 1
        <4>1. n \in 1..n
          BY <1>2
        <4> QED BY <1>2, <2>1, <2>5, <3>1, <4>1
      <3>2. CASE a \in 1..m
        BY <2>1, <2>3, <2>4, <3>2
      <3> QED BY <2>2, <3>1, <3>2
    <2>8. ASSUME NEW a1 \in 1..Len(page), NEW a2 \in 1..Len(page),
                 NEW b1 \in 1..n, NEW b2 \in 1..n, a1 < a2,
                 page[a1] = Contents[b1], page[a2] = Contents[b2]
          PROVE  b1 < b2
      <3>1. a1 \in 1..m
        BY <2>1, <2>8
      <3>2. b1 \in 1..s.i
        <4>1. PICK c \in 1..s.i : s.page[a1] = Contents[c]
          BY <2>4, <3>1
        <4>2. c \in 1..size /\ b1 \in 1..size
          BY <1>2, <2>3
        <4> QED BY <1>6, <2>1, <2>8, <3>1, <4>1, <4>2
      <3>3. CASE a2 = m + 1
        <4>1. b2 \in 1..size
          BY <1>2, <2>3
        <4>2. b2 = n
          BY <1>2, <1>6, <2>1, <2>8, <3>3, <4>1
        <4> QED BY <2>3, <3>2, <4>2
      <3>4. CASE a2 \in 1..m
        <4>1. b2 \in 1..s.i
          <5>1. PICK c \in 1..s.i : s.page[a2] = Contents[c]
            BY <2>4, <3>4
          <5>2. c \in 1..size /\ b2 \in 1..size
            BY <1>2, <2>3
          <5> QED BY <1>6, <2>1, <2>8, <3>4, <5>1, <5>2
        <4>2. s.page[a1] = Contents[b1] /\ s.page[a2] = Contents[b2]
          BY <2>1, <2>8, <3>1, <3>4
        <4> QED BY <1>1, <1>5, <2>8, <3>1, <3>2, <3>4, <4>1, <4>2 DEF ExactScan, m
      <3> QED BY <2>1, <2>2, <3>3, <3>4
    <2>9. ASSUME NEW b \in 1..n, ~IsExpired(Contents[b])
          PROVE  \E a \in 1..Len(page) : page[a] = Contents[b]
      <3>1. CASE b = n
        <4>1. m + 1 \in 1..Len(page)
          BY <2>1
        <4> QED BY <1>2, <2>1, <3>1, <4>1
      <3>2. CASE b \in 1..s.i
        <4>1. PICK a \in 1..m : s.page[a] = Contents[b]
          BY <1>1, <1>5, <2>9, <3>2 DEF ExactScan, m
        <4>2. a \in 1..Len(page)
          BY <2>1
        <4> QED BY <2>1, <4>1, <4>2
      <3> QED BY <2>3, <3>1, <3>2
    <2> QED BY <1>4, <2>6, <2>7, <2>8, <2>9 DEF ExactScan
  <1> QED BY <1>7, <1>8

\* Records only die while the clock goes on.
LEMMA TickIsExact == IInv /\ PagesExact /\ Tick => PagesExact'
  <1> SUFFICES ASSUME IInv, PagesExact, Tick, NEW r \in Readers
               PROVE  ExactScan(scan[r])'
    BY DEF PagesExact
  <1>1. /\ Contents' = Contents /\ scan' = scan /\ size' = size
        /\ now' = now + 1 /\ now \in Nat /\ scan[r].since \in Nat /\ scan[r] \in Scan
    BY DEF Tick, store, Contents, SlotOf, IInv, TypeOK, Scan, Times
  <1>2. \A b \in 1..size : Contents[b].at \in Nat
    <2>1. Contents \in Seq(Entry) /\ Len(Contents) = size
      BY ContentsIsLog
    <2>2. \A b \in 1..size : Contents[b] \in Entry
      BY <2>1
    <2> QED BY <2>2 DEF Entry, Times
  <1>3. \A b \in 1..size : ~IsExpired(Contents[b])' => ~IsExpired(Contents[b])
    BY <1>1, <1>2, TTLAssumption DEF IsExpired, TTLAssumption
  <1>4. ExactScan(scan[r])
    BY DEF PagesExact
  <1>5. ASSUME scan[r].open, NEW b \in 1..scan[r].i, ~IsExpired(Contents[b])'
        PROVE  \E a \in 1..Len(scan[r].page) : scan[r].page[a] = Contents[b]
    <2>1. b \in 1..size
      BY <1>4, <1>5 DEF ExactScan, IInv, TypeOK, Scan
    <2> QED BY <1>3, <1>4, <1>5, <2>1 DEF ExactScan
  <1>6. scan[r].open => scan[r].since <= now + 1
    BY <1>1, <1>4 DEF ExactScan
  <1> QED BY <1>1, <1>4, <1>5, <1>6 DEF ExactScan

LEMMA PagesStep == IInv /\ PagesExact /\ [Next]_vars => PagesExact'
  <1> SUFFICES ASSUME IInv, PagesExact, [Next]_vars PROVE PagesExact'
    OBVIOUS
  <1>1. \A q \in Readers : ExactScan(scan[q])
    BY DEF PagesExact
  <1>2. CASE UNCHANGED vars
    BY <1>1, <1>2, SameRing DEF vars, store
  <1>3. CASE Tick
    BY <1>3, TickIsExact
  <1>4. ASSUME NEW w \in Writers, Create(w) PROVE PagesExact'
    BY <1>1, <1>4, SameRing DEF Create, store
  <1>5. ASSUME NEW w \in Writers, Insert(w) PROVE PagesExact'
    <2>1. scan' = scan /\ \A r \in Readers : ~scan[r].open
      BY <1>5 DEF Insert, CanWrite
    <2> QED BY <2>1 DEF PagesExact, ExactScan
  <1>6. CASE Clear
    <2>1. scan' = scan /\ \A r \in Readers : ~scan[r].open
      BY <1>6 DEF Clear, CanWrite
    <2> QED BY <2>1 DEF PagesExact, ExactScan
  <1>7. ASSUME NEW r \in Readers, NEW limit \in Limits, OpenPage(r, limit)
        PROVE  PagesExact'
    <2>1. \A q \in Readers : scan'[q] = IF q = r THEN OpenedScan(limit) ELSE scan[q]
      BY <1>7 DEF OpenPage, IInv, TypeOK
    <2>2. ExactScan(OpenedScan(limit))
      <3>1. size \in Nat /\ now \in Nat /\ limit \in Nat
        BY DEF IInv, TypeOK, Times
      <3> QED BY <3>1 DEF ExactScan, OpenedScan
    <2>3. \A q \in Readers : ExactScan(scan'[q])
      BY <1>1, <2>1, <2>2
    <2> QED BY <1>7, <2>3, SameRing DEF OpenPage, store
  <1>8. ASSUME NEW r \in Readers, ScanEntry(r) PROVE PagesExact'
    BY <1>8, RoundIsExact
  <1>9. ASSUME NEW r \in Readers, ClosePage(r) PROVE PagesExact'
    <2>1. \A q \in Readers : scan'[q] = IF q = r THEN NoScan ELSE scan[q]
      BY <1>9 DEF ClosePage, IInv, TypeOK
    <2>2. ExactScan(NoScan)
      BY DEF ExactScan, NoScan
    <2>3. \A q \in Readers : ExactScan(scan'[q])
      BY <1>1, <2>1, <2>2
    <2> QED BY <1>9, <2>3, SameRing DEF ClosePage, store
  <1> QED BY <1>2, <1>3, <1>4, <1>5, <1>6, <1>7, <1>8, <1>9 DEF Next

\* A page lists, newest first, every record that is alive when it is returned
\* and none that was dead when it was opened, for any ring, TTL, limit, writers
\* and readers (history_table.go 29-30).
THEOREM PagesMissNothing == Spec => []PageExact
  <1>1. Init => PagesExact
    BY DEF Init, PagesExact, ExactScan, NoScan
  <1>2. PagesExact => PageExact
    BY DEF PagesExact, ExactScan, PageExact
  <1> QED BY <1>1, <1>2, PagesStep, Invariance, PTL DEF Spec
=============================================================================
