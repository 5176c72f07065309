---------------------------- MODULE MemoryHistory ----------------------------
(* The in-memory history of one service (db/memory_history.go): a ring of   *)
(* Size records with an index by ID, guarded by one RWMutex.  A record gets *)
(* its ID and its time before the lock is taken, so records may enter the   *)
(* ring in another order than they were created.  A page is read entry by   *)
(* entry under the read lock while the clock goes on.  What a record holds  *)
(* beside its ID and its time is left out.                                  *)
EXTENDS Integers, Sequences, FiniteSets

CONSTANTS
    Writers,      \* goroutines that record an answer
    Readers,      \* callers of the history page
    Limits,       \* the page lengths that are asked for
    Size,         \* maxSize, MaxHistoryEntries in the code
    TTL,          \* history.duration; 0 is for ever
    None,         \* the nil record
    MaxTime,      \* bound on the clock
    MaxEntries    \* bound on the records created

ASSUME SizeAssumption == Size \in Nat \ {0}
ASSUME TTLAssumption == TTL \in Nat
ASSUME LimitsAssumption == Limits \subseteq Nat \ {0}
ASSUME BoundAssumption == MaxTime \in Nat /\ MaxEntries \in Nat
ASSUME NoneAssumption == None \notin [id : Nat, at : Nat]

VARIABLES
    now,        \* the wall clock
    created,    \* how many IDs were handed out
    pending,    \* the record each writer holds before it gets the lock
    ring, next, size, byID,
    scan        \* what each reader of a page has done, or None

store == <<ring, next, size, byID>>
vars == <<now, created, pending, store, scan>>

Slots == 0..(Size - 1)
IDs   == 1..MaxEntries
Times == 0..MaxTime
Entry == [id : IDs, at : Times]
NoScan == [open |-> FALSE, limit |-> 0, i |-> 0, page |-> <<>>, since |-> 0]
Scan  == [open : BOOLEAN, limit : Nat, i : 0..Size, page : Seq(Entry), since : Times]

TypeOK ==
    /\ now \in Times /\ created \in 0..MaxEntries
    /\ pending \in [Writers -> Entry \cup {None}]
    /\ ring \in [Slots -> Entry \cup {None}]
    /\ next \in Slots /\ size \in 0..Size
    /\ DOMAIN byID \subseteq IDs
    /\ \A id \in DOMAIN byID : byID[id] \in Entry
    /\ scan \in [Readers -> Scan]

Init ==
    /\ now = 0 /\ created = 0
    /\ pending = [w \in Writers |-> None]
    /\ ring = [j \in Slots |-> None] /\ next = 0 /\ size = 0
    /\ byID = [id \in {} |-> None]
    /\ scan = [r \in Readers |-> NoScan]

-----------------------------------------------------------------------------
\* isExpired: a TTL of 0 never expires.
IsExpired(e) == TTL > 0 /\ now > e.at + TTL

\* The write lock is granted when no reader holds the read lock.
CanWrite == \A r \in Readers : ~scan[r].open

Tick ==
    /\ now < MaxTime
    /\ now' = now + 1
    /\ UNCHANGED <<created, pending, store, scan>>

\* Set, before the lock: the ID and the creation time.
Create(w) ==
    /\ pending[w] = None /\ created < MaxEntries
    /\ created' = created + 1
    /\ pending' = [pending EXCEPT ![w] = [id |-> created + 1, at |-> now]]
    /\ UNCHANGED <<now, store, scan>>

\* Mutant: the write index runs past the ring.
NextSlot_NoWrap == next + 1

NextSlot == (next + 1) % Size

Grown == IF size < Size THEN size + 1 ELSE size

\* The index once e is stored and `evicted' is dropped.
Reindexed(evicted, e) ==
    [id \in (DOMAIN byID \ evicted) \cup {e.id} |-> IF id = e.id THEN e ELSE byID[id]]

\* Mutant: the evicted record stays in the index.
Insert_LeakIndex(w) ==
    /\ pending[w] # None /\ CanWrite
    /\ ring' = [ring EXCEPT ![next] = pending[w]]
    /\ byID' = Reindexed({}, pending[w])
    /\ next' = NextSlot /\ size' = Grown
    /\ pending' = [pending EXCEPT ![w] = None]
    /\ UNCHANGED <<now, created, scan>>

\* Set, under the lock: drop what the slot held, store, advance.
Insert(w) ==
    /\ pending[w] # None /\ CanWrite
    /\ ring' = [ring EXCEPT ![next] = pending[w]]
    /\ byID' = Reindexed(IF ring[next] = None THEN {} ELSE {ring[next].id}, pending[w])
    /\ next' = NextSlot /\ size' = Grown
    /\ pending' = [pending EXCEPT ![w] = None]
    /\ UNCHANGED <<now, created, scan>>

Clear ==
    /\ CanWrite
    /\ ring' = [j \in Slots |-> None] /\ next' = 0 /\ size' = 0
    /\ byID' = [id \in {} |-> None]
    /\ UNCHANGED <<now, created, pending, scan>>

-----------------------------------------------------------------------------
\* Mutant: reading starts at the slot written next.
SlotOf_NextFirst(i) == IF next - i < 0 THEN next - i + Size ELSE next - i

\* The slot of the i-th newest record, counted from 0 (Recent's idx).
SlotOf(i) == IF next - 1 - i < 0 THEN next - 1 - i + Size ELSE next - 1 - i

OpenedScan(limit) == [open |-> TRUE, limit |-> limit, i |-> 0, page |-> <<>>, since |-> now]

\* Recent takes the read lock.
OpenPage(r, limit) ==
    /\ ~scan[r].open
    /\ scan' = [scan EXCEPT ![r] = OpenedScan(limit)]
    /\ UNCHANGED <<now, created, pending, store>>

Scanning(r) == scan[r].open /\ scan[r].i < size /\ Len(scan[r].page) < scan[r].limit

\* Mutant: the first expired record ends the page.
ScanEntry_StopAtExpired(r) ==
    /\ Scanning(r)
    /\ LET e == ring[SlotOf(scan[r].i)] IN
         scan' = IF IsExpired(e)
                 THEN [scan EXCEPT ![r].i = size]
                 ELSE [scan EXCEPT ![r].i = @ + 1, ![r].page = Append(@, e)]
    /\ UNCHANGED <<now, created, pending, store>>

\* One round of Recent's loop: an expired record is passed over.
ScanEntry(r) ==
    /\ Scanning(r)
    /\ LET e == ring[SlotOf(scan[r].i)] IN
         scan' = [scan EXCEPT ![r].i = @ + 1,
                              ![r].page = IF IsExpired(e) THEN @ ELSE Append(@, e)]
    /\ UNCHANGED <<now, created, pending, store>>

\* The loop is over: the page is returned and the lock released.
ClosePage(r) ==
    /\ scan[r].open /\ ~Scanning(r)
    /\ scan' = [scan EXCEPT ![r] = NoScan]
    /\ UNCHANGED <<now, created, pending, store>>

\* GetByID, one look under the read lock.
GetByID(id) ==
    IF id \in DOMAIN byID /\ ~IsExpired(byID[id]) THEN byID[id] ELSE None

Next ==
    \/ Tick
    \/ \E w \in Writers : Create(w) \/ Insert(w)
    \/ Clear
    \/ \E r \in Readers :
         \/ \E limit \in Limits : OpenPage(r, limit)
         \/ ScanEntry(r) \/ ClosePage(r)

Spec == Init /\ [][Next]_vars

-----------------------------------------------------------------------------
(* Properties                                                              *)

\* The records of the ring, newest first.
Contents == [i \in 1..size |-> ring[SlotOf(i - 1)]]

\* The ring is the bounded log the interface promises: a record enters at the
\* head, the oldest leaves when there is no room, nothing else changes it
\* (history_table.go 15-35, memory_history.go 9-12).
Promise == INSTANCE HistoryLog WITH Entries <- Entry, Keep <- Size, Once <- TRUE, log <- Contents
IsBoundedLog == Promise!Spec

\* A record can be opened by its ID exactly while a page would list it: the
\* index neither outlives the ring nor misses a record (memory_history.go 10-12).
IndexAgrees ==
    \A id \in 1..created :
        /\ GetByID(id) # None =>
             \E i \in 1..size : Contents[i] = GetByID(id) /\ Contents[i].id = id
        /\ \A i \in 1..size :
             Contents[i].id = id /\ ~IsExpired(Contents[i]) => GetByID(id) = Contents[i]

\* A page under way has, of the records passed so far, newest first, every one
\* that is still alive and none that was dead when the page was opened, although
\* the clock runs and writers queue up meanwhile (history_table.go 29-30).
PageExact ==
    \A r \in Readers : scan[r].open =>
        LET page == scan[r].page
            i    == scan[r].i
        IN /\ i <= size /\ Len(page) <= scan[r].limit
           /\ \A a \in 1..Len(page) : \E b \in 1..i :
                page[a] = Contents[b] /\ (TTL > 0 => scan[r].since <= page[a].at + TTL)
           /\ \A a1, a2 \in 1..Len(page), b1, b2 \in 1..i :
                a1 < a2 /\ page[a1] = Contents[b1] /\ page[a2] = Contents[b2] => b1 < b2
           /\ \A b \in 1..i :
                ~IsExpired(Contents[b]) => \E a \in 1..Len(page) : page[a] = Contents[b]
=============================================================================
