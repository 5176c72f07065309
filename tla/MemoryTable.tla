----------------------------- MODULE MemoryTable -----------------------------
(* One named table of one service in the shared in-memory storage           *)
(* (db/memory_storage.go, db/memory_table.go).  A caller first asks the     *)
(* storage for the table, which is created on first use by whoever finds it *)
(* missing, then works on it.  Get looks the entry up under the read lock,  *)
(* tests its expiry outside any lock, and deletes an expired entry under    *)
(* the write lock; Set computes the expiry before it locks.  The critical   *)
(* sections contain no call that waits, so each is one step.                *)
EXTENDS Naturals, Sequences

CONSTANTS
    Callers,     \* goroutines using the table
    Keys, Values,
    TTLs,        \* lifetimes that are asked for; 0 is for ever
    None,        \* no entry, no table, no call
    MaxTime      \* bound on the clock

ASSUME TableAssumption ==
    /\ TTLs \subseteq Nat /\ MaxTime \in Nat
    /\ None \notin Nat
    /\ None \notin [value : Values, stamped : Nat, ttl : TTLs]
    /\ None \notin Keys

VARIABLES
    now,
    table,     \* storage.tables[name]: the number of a table, or None
    data,      \* the entries of the tables, in the order of their creation
    pc, op, key, \* each caller: its place, what it does and to which key
    handle,    \* the table the storage gave it
    entry,     \* Get: the entry it read; Set: the one it is about to store
    promised,  \* observer: what the calls so far leave under each key
    seen       \* observer: what was alive under a caller's key since it called

vars == <<now, table, data, pc, op, key, handle, entry, promised, seen>>

Times  == 0..MaxTime
Entry  == [value : Values, stamped : Times, ttl : TTLs]
Tables == DOMAIN data
Ops    == {"get", "set", "delete", "clear"}
PC     == {"idle", "open", "create", "do", "check", "purge", "hit", "store"}

TypeOK ==
    /\ now \in Times
    /\ data \in Seq([Keys -> Entry \cup {None}])
    /\ table \in Tables \cup {None}
    /\ pc \in [Callers -> PC]
    /\ op \in [Callers -> Ops \cup {None}]
    /\ key \in [Callers -> Keys \cup {None}]
    /\ \A c \in Callers : /\ (key[c] = None) = (pc[c] = "idle")
                         /\ (handle[c] = None) = (pc[c] \in {"idle", "open", "create"})
    /\ handle \in [Callers -> Tables \cup {None}]
    /\ entry \in [Callers -> Entry \cup {None}]
    /\ promised \in [Keys -> Entry \cup {None}]
    /\ seen \in [Callers -> SUBSET (Entry \cup {None})]

Empty == [k \in Keys |-> None]

Init ==
    /\ now = 0
    /\ table = None /\ data = <<>>
    /\ pc = [c \in Callers |-> "idle"]
    /\ op = [c \in Callers |-> None]
    /\ key = [c \in Callers |-> None]
    /\ handle = [c \in Callers |-> None]
    /\ entry = [c \in Callers |-> None]
    /\ promised = Empty
    /\ seen = [c \in Callers |-> {}]

-----------------------------------------------------------------------------
\* isExpired: a lifetime of 0 has no end.
IsExpired(e) == e.ttl > 0 /\ now > e.stamped + e.ttl

Live(e) == IF e = None \/ IsExpired(e) THEN None ELSE e

\* What a reader of the table finds under k.
Stored(k) == IF table = None THEN None ELSE data[table][k]

Goto(c, where) == pc' = [pc EXCEPT ![c] = where]

\* The call returns and its locals are gone.
Leave(c) ==
    /\ Goto(c, "idle")
    /\ op' = [op EXCEPT ![c] = None]
    /\ key' = [key EXCEPT ![c] = None]
    /\ handle' = [handle EXCEPT ![c] = None]
    /\ entry' = [entry EXCEPT ![c] = None]

\* The observer adds what is alive now to what a caller may answer.
Observe ==
    seen' = [c \in Callers |->
               IF pc'[c] = "idle" THEN {}
               ELSE seen[c] \cup {Live(promised[key[c]])'}]

Tick ==
    /\ now < MaxTime
    /\ now' = now + 1
    /\ UNCHANGED <<table, data, pc, op, key, handle, entry, promised>>
    /\ Observe

\* A caller wants o done under k: DB.Table(name) first.
Call(c, o, k) ==
    /\ pc[c] = "idle"
    /\ op' = [op EXCEPT ![c] = o]
    /\ key' = [key EXCEPT ![c] = k]
    /\ Goto(c, "open")
    /\ UNCHANGED <<now, table, data, handle, entry, promised>>
    /\ Observe

\* Mutant: what the look-up found is handed out although it found nothing.
OpenTable_Unchecked(c) ==
    /\ pc[c] = "open"
    /\ handle' = [handle EXCEPT ![c] = table]
    /\ Goto(c, "do")
    /\ UNCHANGED <<now, table, data, op, key, entry, promised>>
    /\ Observe

\* getOrCreateTable looks under the read lock.
OpenTable(c) ==
    /\ pc[c] = "open"
    /\ \/ table # None /\ handle' = [handle EXCEPT ![c] = table] /\ Goto(c, "do")
       \/ table = None /\ Goto(c, "create") /\ UNCHANGED handle
    /\ UNCHANGED <<now, table, data, op, key, entry, promised>>
    /\ Observe

\* Makes a table, names it and hands it to c.
Make(c) ==
    /\ data' = Append(data, Empty)
    /\ table' = Len(data')
    /\ handle' = [handle EXCEPT ![c] = table']

\* Mutant: no second look under the write lock.
CreateTable_NoRecheck(c) ==
    /\ pc[c] = "create"
    /\ Make(c)
    /\ Goto(c, "do")
    /\ UNCHANGED <<now, op, key, entry, promised>>
    /\ Observe

\* getOrCreateTable looks again under the write lock before it creates.
CreateTable(c) ==
    /\ pc[c] = "create"
    /\ \/ table # None /\ handle' = [handle EXCEPT ![c] = table] /\ UNCHANGED <<table, data>>
       \/ table = None /\ Make(c)
    /\ Goto(c, "do")
    /\ UNCHANGED <<now, op, key, entry, promised>>
    /\ Observe

-----------------------------------------------------------------------------
(* Get *)

\* The look-up under the read lock.
ReadEntry(c) ==
    /\ pc[c] = "do" /\ op[c] = "get"
    /\ \/ /\ data[handle[c]][key[c]] = None
          /\ Leave(c)
       \/ /\ data[handle[c]][key[c]] # None
          /\ entry' = [entry EXCEPT ![c] = data[handle[c]][key[c]]]
          /\ Goto(c, "check")
          /\ UNCHANGED <<op, key, handle>>
    /\ UNCHANGED <<now, table, data, promised>>
    /\ Observe

\* Mutant: an expired entry is handed out while it is being deleted.
CheckEntry_Ignored(c) ==
    /\ pc[c] = "check"
    /\ Goto(c, "hit")
    /\ UNCHANGED <<now, table, data, op, key, handle, entry, promised>>
    /\ Observe

\* The entry read is tested without a lock.
CheckEntry(c) ==
    /\ pc[c] = "check"
    /\ Goto(c, IF IsExpired(entry[c]) THEN "purge" ELSE "hit")
    /\ UNCHANGED <<now, table, data, op, key, handle, entry, promised>>
    /\ Observe

\* Mutant: what was expired when it was read is deleted, whatever is there now.
Purge_NoRecheck(c) ==
    /\ pc[c] = "purge"
    /\ data' = [data EXCEPT ![handle[c]][key[c]] = None]
    /\ Leave(c)
    /\ UNCHANGED <<now, table, promised>>
    /\ Observe

\* Lazy deletion looks at what is there now, under the write lock.
Purge(c) ==
    /\ pc[c] = "purge"
    /\ LET t == handle[c]
           e == data[t][key[c]]
       IN \/ e # None /\ IsExpired(e) /\ data' = [data EXCEPT ![t][key[c]] = None]
          \/ Live(e) = e /\ UNCHANGED data
    /\ Leave(c)
    /\ UNCHANGED <<now, table, promised>>
    /\ Observe

\* Get returns the value.
Return(c) ==
    /\ pc[c] = "hit"
    /\ Leave(c)
    /\ UNCHANGED <<now, table, data, promised>>
    /\ Observe

-----------------------------------------------------------------------------
(* Set, Delete, Clear *)

\* Set computes the expiry in front of the lock.
StampEntry(c, v, ttl) ==
    /\ pc[c] = "do" /\ op[c] = "set"
    /\ entry' = [entry EXCEPT ![c] = [value |-> v, stamped |-> now, ttl |-> ttl]]
    /\ Goto(c, "store")
    /\ UNCHANGED <<now, table, data, op, key, handle, promised>>
    /\ Observe

StoreEntry(c) ==
    /\ pc[c] = "store"
    /\ data' = [data EXCEPT ![handle[c]][key[c]] = entry[c]]
    /\ promised' = [promised EXCEPT ![key[c]] = entry[c]]
    /\ Leave(c)
    /\ UNCHANGED <<now, table>>
    /\ Observe

Delete(c) ==
    /\ pc[c] = "do" /\ op[c] = "delete"
    /\ data' = [data EXCEPT ![handle[c]][key[c]] = None]
    /\ promised' = [promised EXCEPT ![key[c]] = None]
    /\ Leave(c)
    /\ UNCHANGED <<now, table>>
    /\ Observe

Clear(c) ==
    /\ pc[c] = "do" /\ op[c] = "clear"
    /\ data' = [data EXCEPT ![handle[c]] = Empty]
    /\ promised' = Empty
    /\ Leave(c)
    /\ UNCHANGED <<now, table>>
    /\ Observe

Next ==
    \/ Tick
    \/ \E c \in Callers :
         \/ \E o \in Ops, k \in Keys : Call(c, o, k)
         \/ OpenTable(c) \/ CreateTable(c)
         \/ ReadEntry(c) \/ CheckEntry(c) \/ Purge(c) \/ Return(c)
         \/ \E v \in Values, ttl \in TTLs : StampEntry(c, v, ttl)
         \/ StoreEntry(c) \/ Delete(c) \/ Clear(c)

Spec == Init /\ [][Next]_vars

-----------------------------------------------------------------------------
(* Properties                                                              *)

\* A reader finds under every key exactly what the calls so far left there and
\* the clock spared: no store goes to a table nobody reads (memory_storage.go
\* 63-73) and lazy deletion never takes a fresh value (memory_table.go 45-50).
StoresReachReaders == \A k \in Keys : Live(Stored(k)) = Live(promised[k])

\* A value that Get returns was alive under its key at some moment of the call
\* (memory_table.go 33-34).
HitWasAlive == \A c \in Callers : pc[c] = "hit" => entry[c] \in seen[c]
=============================================================================
