-------------------------- MODULE MemoryTable_proofs --------------------------
(* Proofs about MemoryTable, for any callers, keys, values, lifetimes and   *)
(* bound on the clock.                                                      *)
EXTENDS MemoryTable, SequenceTheorems, TLAPS

USE TableAssumption
USE DEF TableAssumption

-----------------------------------------------------------------------------
(* The inductive invariant                                                 *)

\* There is one table: whoever was given one was given the one readers use.
OneTable == \A c \in Callers : handle[c] # None => handle[c] = table

\* It holds what the calls left there, unless that expired and was deleted.
Faithful ==
    \A k \in Keys : \/ Stored(k) = promised[k]
                    \/ /\ Stored(k) = None
                       /\ promised[k] # None
                       /\ IsExpired(promised[k])

\* A reader's entry is alive somewhere in its call, unless it was read expired.
Witness(c) ==
    /\ pc[c] = "check" => /\ entry[c] # None
                          /\ IsExpired(entry[c]) \/ entry[c] \in seen[c]
    /\ pc[c] = "hit" => entry[c] \in seen[c]
    /\ pc[c] = "store" => entry[c] # None
Witnessed == \A c \in Callers : Witness(c)

IInv == TypeOK /\ OneTable /\ Faithful /\ Witnessed

-----------------------------------------------------------------------------
(* Facts about entries                                                     *)

\* A stored entry can be told from a missing one.
LEMMA NoneIsNoEntry == None \notin Entry
  BY DEF Entry, Times

\* An entry that has expired stays so.
LEMMA ExpiryIsFinal ==
  ASSUME now \in Times, now' \in Times, now' >= now, NEW e \in Entry, IsExpired(e)
  PROVE  IsExpired(e)'
  <1>1. e.ttl \in Nat /\ e.stamped \in Nat
    <2>1. TTLs \subseteq Nat /\ Times \subseteq Nat
      BY DEF Times
    <2> QED BY <2>1 DEF Entry
  <1>2. now \in Nat /\ now' \in Nat
    BY DEF Times
  <1> QED BY <1>1, <1>2 DEF IsExpired

\* The observer keeps what it saw of a call for as long as the call lasts,
\* and sees what is alive after the step.
LEMMA ObserveKeeps ==
  ASSUME TypeOK, Observe, NEW c \in Callers, pc'[c] # "idle"
  PROVE  /\ seen[c] \subseteq seen'[c]
         /\ Live(promised[key[c]])' \in seen'[c]
  BY DEF Observe, TypeOK

\* What the observer records is typed.
LEMMA ObserveTyped ==
  ASSUME TypeOK, Observe,
         pc' \in [Callers -> PC], key' \in [Callers -> Keys \cup {None}],
         \A c \in Callers : key'[c] = None <=> pc'[c] = "idle",
         promised' \in [Keys -> Entry \cup {None}]
  PROVE  seen' \in [Callers -> SUBSET (Entry \cup {None})]
  BY DEF Observe, TypeOK, Live

\* The table that readers find holds an entry or None under every key.
LEMMA StoredTyped ==
  ASSUME TypeOK
  PROVE  \A k \in Keys : Stored(k) \in Entry \cup {None}
  BY DEF TypeOK, Stored, Tables

\* While a call works on its table, that is a table that exists.
LEMMA HandleExists ==
  ASSUME TypeOK, NEW c \in Callers, pc[c] \notin {"idle", "open", "create"}
  PROVE  handle[c] \in Tables /\ handle[c] # None /\ key[c] \in Keys
  BY DEF TypeOK, Tables

-----------------------------------------------------------------------------
(* The two steps of the induction                                          *)

LEMMA InitHolds == Init => IInv
  <1> SUFFICES ASSUME Init PROVE IInv
    OBVIOUS
  <1>1. TypeOK
    BY DEF Init, TypeOK, Tables, Times, PC, Empty
  <1>2. OneTable /\ Faithful /\ Witnessed
    BY DEF Init, OneTable, Faithful, Witnessed, Witness, Stored, Empty
  <1> QED BY <1>1, <1>2 DEF IInv

\* Types are kept: what a step writes, then what the observer makes of it.
LEMMA TypeStep == TypeOK /\ [Next]_vars => TypeOK'
  <1> SUFFICES ASSUME TypeOK, [Next]_vars PROVE TypeOK'
    OBVIOUS
  <1> USE DEF TypeOK, Tables, PC, Ops, Goto, Leave
  <1> DEFINE Rest ==
        /\ now \in Times
        /\ data \in Seq([Keys -> Entry \cup {None}])
        /\ table \in Tables \cup {None}
        /\ pc \in [Callers -> PC]
        /\ op \in [Callers -> Ops \cup {None}]
        /\ key \in [Callers -> Keys \cup {None}]
        /\ \A c \in Callers : /\ (key[c] = None) = (pc[c] = "idle")
                             /\ (handle[c] = None) = (pc[c] \in {"idle", "open", "create"})
        /\ handle \in [Callers -> Tables \cup {None}]
        /\ entry \in [Callers -> Entry \cup {None}]
        /\ promised \in [Keys -> Entry \cup {None}]
  <1>1. CASE Tick
    <2>1. Rest'
      BY <1>1 DEF Tick, Times
    <2> QED BY <1>1, <2>1, ObserveTyped DEF Tick
  <1>2. ASSUME NEW c \in Callers, NEW o \in Ops, NEW k \in Keys, Call(c, o, k)
        PROVE  TypeOK'
    <2>1. Rest'
      BY <1>2 DEF Call
    <2> QED BY <1>2, <2>1, ObserveTyped DEF Call
  <1>3. ASSUME NEW c \in Callers, OpenTable(c) PROVE TypeOK'
    <2>1. Rest'
      BY <1>3 DEF OpenTable
    <2> QED BY <1>3, <2>1, ObserveTyped DEF OpenTable
  <1>4. ASSUME NEW c \in Callers, CreateTable(c) PROVE TypeOK'
    <2>1. CASE table # None
      <3>1. Rest'
        BY <1>4, <2>1 DEF CreateTable
      <3> QED BY <1>4, <3>1, ObserveTyped DEF CreateTable
    <2>2. CASE table = None
      <3>1. Make(c)
        BY <1>4, <2>2 DEF CreateTable
      <3>2. Empty \in [Keys -> Entry \cup {None}]
        BY DEF Empty
      <3>3. /\ data' \in Seq([Keys -> Entry \cup {None}])
            /\ Len(data') = Len(data) + 1
            /\ Len(data) \in Nat
        BY <3>1, <3>2 DEF Make
      <3>4. DOMAIN data \subseteq DOMAIN data' /\ table' \in DOMAIN data' /\ table' # None
        BY <3>1, <3>3 DEF Make
      <3>5. Rest'
        BY <1>4, <3>1, <3>3, <3>4 DEF CreateTable, Make
      <3> QED BY <1>4, <3>5, ObserveTyped DEF CreateTable
    <2> QED BY <2>1, <2>2
  <1>5. ASSUME NEW c \in Callers, ReadEntry(c) PROVE TypeOK'
    <2>1. handle[c] \in Tables /\ key[c] \in Keys
      BY <1>5, HandleExists DEF ReadEntry
    <2>2. data[handle[c]][key[c]] \in Entry \cup {None}
      BY <2>1
    <2>3. ASSUME data[handle[c]][key[c]] = None PROVE Rest'
      <3>1. Leave(c) /\ UNCHANGED <<now, table, data, promised>>
        BY <1>5, <2>3 DEF ReadEntry
      <3> QED BY <3>1
    <2>4. ASSUME data[handle[c]][key[c]] # None PROVE Rest'
      BY <1>5, <2>2, <2>4 DEF ReadEntry
    <2>5. Rest'
      BY <2>3, <2>4
    <2> QED BY <1>5, <2>5, ObserveTyped DEF ReadEntry
  <1>6. ASSUME NEW c \in Callers, CheckEntry(c) PROVE TypeOK'
    <2>1. Rest'
      BY <1>6 DEF CheckEntry
    <2> QED BY <1>6, <2>1, ObserveTyped DEF CheckEntry
  <1>7. ASSUME NEW c \in Callers, Purge(c) PROVE TypeOK'
    <2>1. handle[c] \in Tables /\ key[c] \in Keys
      BY <1>7, HandleExists DEF Purge
    <2>2. /\ data' \in Seq([Keys -> Entry \cup {None}])
          /\ DOMAIN data' = DOMAIN data
      <3>1. CASE data' = [data EXCEPT ![handle[c]][key[c]] = None]
        BY <2>1, <3>1
      <3>2. CASE UNCHANGED data
        BY <3>2
      <3> QED BY <1>7, <3>1, <3>2 DEF Purge
    <2>3. Rest'
      BY <1>7, <2>2 DEF Purge
    <2> QED BY <1>7, <2>3, ObserveTyped DEF Purge
  <1>8. ASSUME NEW c \in Callers, Return(c) PROVE TypeOK'
    <2>1. Rest'
      BY <1>8 DEF Return
    <2> QED BY <1>8, <2>1, ObserveTyped DEF Return
  <1>9. ASSUME NEW c \in Callers, NEW v \in Values, NEW ttl \in TTLs, StampEntry(c, v, ttl)
        PROVE  TypeOK'
    <2>1. [value |-> v, stamped |-> now, ttl |-> ttl] \in Entry
      BY DEF Entry
    <2>2. Rest'
      BY <1>9, <2>1 DEF StampEntry
    <2> QED BY <1>9, <2>2, ObserveTyped DEF StampEntry
  <1>10. ASSUME NEW c \in Callers, StoreEntry(c) PROVE TypeOK'
    <2>1. handle[c] \in Tables /\ key[c] \in Keys
      BY <1>10, HandleExists DEF StoreEntry
    <2>2. /\ data' \in Seq([Keys -> Entry \cup {None}])
          /\ DOMAIN data' = DOMAIN data
      BY <1>10, <2>1 DEF StoreEntry
    <2>3. Rest'
      BY <1>10, <2>1, <2>2 DEF StoreEntry
    <2> QED BY <1>10, <2>3, ObserveTyped DEF StoreEntry
  <1>11. ASSUME NEW c \in Callers, Delete(c) PROVE TypeOK'
    <2>1. handle[c] \in Tables /\ key[c] \in Keys
      BY <1>11, HandleExists DEF Delete
    <2>2. /\ data' \in Seq([Keys -> Entry \cup {None}])
          /\ DOMAIN data' = DOMAIN data
      BY <1>11, <2>1 DEF Delete
    <2>3. Rest'
      BY <1>11, <2>1, <2>2 DEF Delete
    <2> QED BY <1>11, <2>3, ObserveTyped DEF Delete
  <1>12. ASSUME NEW c \in Callers, Clear(c) PROVE TypeOK'
    <2>1. handle[c] \in Tables /\ Empty \in [Keys -> Entry \cup {None}]
      BY <1>12, HandleExists DEF Clear, Empty
    <2>2. /\ data' \in Seq([Keys -> Entry \cup {None}])
          /\ DOMAIN data' = DOMAIN data
      BY <1>12, <2>1 DEF Clear
    <2>3. Rest'
      BY <1>12, <2>1, <2>2 DEF Clear
    <2> QED BY <1>12, <2>3, ObserveTyped DEF Clear
  <1>13. CASE UNCHANGED vars
    BY <1>13 DEF vars
  <1> QED
    BY <1>1, <1>2, <1>3, <1>4, <1>5, <1>6, <1>7, <1>8, <1>9, <1>10, <1>11, <1>12, <1>13
    DEF Next

\* The clock alone takes nothing from the table that was not expired.
LEMMA FaithfulKept ==
  ASSUME TypeOK, Faithful, now' \in Times, now' >= now,
         UNCHANGED <<table, data, promised>>
  PROVE  Faithful'
  <1> SUFFICES ASSUME NEW k \in Keys
               PROVE  \/ Stored(k)' = promised[k]'
                      \/ /\ Stored(k)' = None
                         /\ promised[k]' # None
                         /\ IsExpired(promised[k])'
    BY DEF Faithful
  <1>1. Stored(k)' = Stored(k) /\ promised[k]' = promised[k]
    BY DEF Stored
  <1>2. CASE Stored(k) = promised[k]
    BY <1>1, <1>2
  <1>3. CASE Stored(k) = None /\ promised[k] # None /\ IsExpired(promised[k])
    <2>1. promised[k] \in Entry
      BY <1>3 DEF TypeOK
    <2>2. now \in Times
      BY DEF TypeOK
    <2>3. \A e \in Entry : IsExpired(e) => IsExpired(e)'
      BY <2>2, ExpiryIsFinal
    <2>4. IsExpired(promised[k])'
      BY <1>1, <1>3, <2>1, <2>3 DEF IsExpired
    <2> QED BY <1>1, <1>3, <2>4
  <1> QED BY <1>2, <1>3 DEF Faithful

\* A caller that does not move keeps its witness.
LEMMA WitnessKept ==
  ASSUME TypeOK, Observe, now' \in Times, now' >= now,
         NEW c \in Callers, Witness(c), pc'[c] = pc[c], entry'[c] = entry[c]
  PROVE  Witness(c)'
  <1>1. pc[c] # "idle" => seen[c] \subseteq seen'[c]
    BY ObserveKeeps
  <1>2. pc[c] = "check" /\ IsExpired(entry[c]) => IsExpired(entry[c])'
    <2>1. SUFFICES ASSUME pc[c] = "check", IsExpired(entry[c]) PROVE IsExpired(entry[c])'
      OBVIOUS
    <2>2. entry[c] \in Entry /\ now \in Times
      BY <2>1 DEF TypeOK, Witness
    <2>3. \A e \in Entry : IsExpired(e) => IsExpired(e)'
      BY <2>2, ExpiryIsFinal
    <2> QED BY <2>1, <2>2, <2>3 DEF IsExpired
  <1> QED BY <1>1, <1>2 DEF Witness

\* When only c moves, its own witness is what is left to show.
LEMMA WitnessOfMover ==
  ASSUME TypeOK, Witnessed, Observe, UNCHANGED now, NEW c \in Callers, Witness(c)',
         \A d \in Callers \ {c} : pc'[d] = pc[d] /\ entry'[d] = entry[d]
  PROVE  Witnessed'
  <1>1. now \in Times /\ now' \in Times /\ now' >= now
    BY DEF TypeOK, Times
  <1>2. \A d \in Callers \ {c} : Witness(d)'
    BY <1>1, WitnessKept DEF Witnessed
  <1> QED BY <1>2 DEF Witnessed

\* A write to c's table under c's key is what readers then find there.
LEMMA WriteLands ==
  ASSUME TypeOK, OneTable, NEW c \in Callers, pc[c] \notin {"idle", "open", "create"},
         NEW e, UNCHANGED table, data' = [data EXCEPT ![handle[c]][key[c]] = e]
  PROVE  \A k \in Keys : Stored(k)' = IF k = key[c] THEN e ELSE Stored(k)
  <1>1. handle[c] \in Tables /\ handle[c] # None /\ key[c] \in Keys
    BY HandleExists
  <1>2. handle[c] = table
    BY <1>1 DEF OneTable
  <1> QED BY <1>1, <1>2 DEF Stored, TypeOK, Tables

\* Every step keeps the invariant.
LEMMA InvStep == IInv /\ [Next]_vars => IInv'
  <1> SUFFICES ASSUME IInv, [Next]_vars PROVE IInv'
    OBVIOUS
  <1>1. TypeOK' /\ TypeOK /\ OneTable /\ Faithful /\ Witnessed
    BY TypeStep DEF IInv
  <1>2. now \in Times /\ now' \in Times /\ now \in Nat
    BY <1>1 DEF TypeOK, Times
  <1>3. ASSUME UNCHANGED <<now, table, data, promised>> PROVE Faithful'
    BY <1>1, <1>2, <1>3, FaithfulKept
  <1>4. CASE Tick
    <2>1. now' >= now
      BY <1>2, <1>4 DEF Tick
    <2>2. OneTable'
      BY <1>1, <1>4 DEF Tick, OneTable
    <2>3. Faithful'
      BY <1>1, <1>2, <1>4, <2>1, FaithfulKept DEF Tick
    <2>4. Witnessed'
      BY <1>1, <1>2, <1>4, <2>1, WitnessKept DEF Tick, Witnessed
    <2> QED BY <1>1, <2>2, <2>3, <2>4 DEF IInv
  <1>5. ASSUME NEW c \in Callers, NEW o \in Ops, NEW k \in Keys, Call(c, o, k)
        PROVE  IInv'
    <2>1. OneTable'
      BY <1>1, <1>5 DEF Call, OneTable
    <2>2. Faithful'
      BY <1>3, <1>5 DEF Call
    <2>3. Witness(c)'
      BY <1>1, <1>5 DEF Call, Goto, Witness, TypeOK
    <2>4. Witnessed'
      BY <1>1, <1>5, <2>3, WitnessOfMover DEF Call, Goto, TypeOK
    <2> QED BY <1>1, <2>1, <2>2, <2>4 DEF IInv
  <1>6. ASSUME NEW c \in Callers, OpenTable(c) PROVE IInv'
    <2>1. OneTable'
      BY <1>1, <1>6 DEF OpenTable, OneTable, TypeOK
    <2>2. Faithful'
      BY <1>3, <1>6 DEF OpenTable
    <2>3. Witness(c)'
      BY <1>1, <1>6 DEF OpenTable, Goto, Witness, TypeOK
    <2>4. Witnessed'
      BY <1>1, <1>6, <2>3, WitnessOfMover DEF OpenTable, Goto, TypeOK
    <2> QED BY <1>1, <2>1, <2>2, <2>4 DEF IInv
  <1>7. ASSUME NEW c \in Callers, CreateTable(c) PROVE IInv'
    <2>1. Witness(c)'
      BY <1>1, <1>7 DEF CreateTable, Goto, Witness, TypeOK
    <2>2. Witnessed'
      BY <1>1, <1>7, <2>1, WitnessOfMover DEF CreateTable, Goto, TypeOK
    <2>3. CASE table # None
      <3>1. OneTable'
        BY <1>1, <1>7, <2>3 DEF CreateTable, OneTable, TypeOK
      <3>2. Faithful'
        BY <1>3, <1>7, <2>3 DEF CreateTable
      <3> QED BY <1>1, <2>2, <3>1, <3>2 DEF IInv
    <2>4. CASE table = None
      <3>1. Make(c) /\ UNCHANGED <<now, promised>>
        BY <1>7, <2>4 DEF CreateTable
      <3>2. OneTable'
        BY <1>1, <2>4, <3>1 DEF Make, OneTable, TypeOK
      <3>3. data'[table'] = Empty /\ table' # None
        BY <1>1, <3>1 DEF Make, TypeOK
      <3>4. \A k \in Keys : Stored(k)' = None /\ Stored(k) = None
        BY <2>4, <3>3 DEF Stored, Empty
      <3>5. Faithful'
        BY <1>1, <3>1, <3>4 DEF Faithful, IsExpired
      <3> QED BY <1>1, <2>2, <3>2, <3>5 DEF IInv
    <2> QED BY <2>3, <2>4
  <1>8. ASSUME NEW c \in Callers, ReadEntry(c) PROVE IInv'
    <2>1. handle[c] \in Tables /\ handle[c] # None /\ key[c] \in Keys
      BY <1>1, <1>8, HandleExists DEF ReadEntry
    <2>2. data[handle[c]][key[c]] = Stored(key[c])
      BY <1>1, <2>1 DEF OneTable, Stored
    <2>3. OneTable'
      BY <1>1, <1>8 DEF ReadEntry, Leave, OneTable, TypeOK
    <2>4. Faithful'
      BY <1>3, <1>8 DEF ReadEntry
    <2>5. CASE data[handle[c]][key[c]] = None
      <3>1. Witness(c)'
        BY <1>1, <1>8, <2>5 DEF ReadEntry, Leave, Goto, Witness, TypeOK
      <3>2. Witnessed'
        BY <1>1, <1>8, <2>5, <3>1, WitnessOfMover DEF ReadEntry, Leave, Goto, TypeOK
      <3> QED BY <1>1, <2>3, <2>4, <3>2 DEF IInv
    <2>6. CASE data[handle[c]][key[c]] # None
      <3>1. /\ pc'[c] = "check" /\ entry'[c] = Stored(key[c]) /\ entry'[c] # None
            /\ key'[c] = key[c] /\ UNCHANGED <<now, promised>>
            /\ Observe
        BY <1>1, <1>8, <2>2, <2>6 DEF ReadEntry, Goto, TypeOK
      <3>2. Stored(key[c]) = promised[key[c]]
        BY <1>1, <2>1, <2>2, <2>6 DEF Faithful
      <3>3. Live(promised[key[c]])' \in seen'[c]
        BY <1>1, <3>1, ObserveKeeps
      <3>4. IsExpired(entry[c])' \/ entry'[c] \in seen'[c]
        BY <3>1, <3>2, <3>3 DEF Live, IsExpired
      <3>5. Witness(c)'
        BY <3>1, <3>4 DEF Witness
      <3>6. Witnessed'
        BY <1>1, <1>8, <2>6, <3>5, WitnessOfMover DEF ReadEntry, Goto, TypeOK
      <3> QED BY <1>1, <2>3, <2>4, <3>6 DEF IInv
    <2> QED BY <2>5, <2>6
  <1>9. ASSUME NEW c \in Callers, CheckEntry(c) PROVE IInv'
    <2>1. OneTable'
      BY <1>1, <1>9 DEF CheckEntry, OneTable
    <2>2. Faithful'
      BY <1>3, <1>9 DEF CheckEntry
    <2>3. seen[c] \subseteq seen'[c]
      BY <1>1, <1>9, ObserveKeeps DEF CheckEntry, Goto, TypeOK
    <2>4. Witness(c)'
      BY <1>1, <1>9, <2>3 DEF CheckEntry, Goto, Witnessed, Witness, TypeOK
    <2>5. Witnessed'
      BY <1>1, <1>9, <2>4, WitnessOfMover DEF CheckEntry, Goto, TypeOK
    <2> QED BY <1>1, <2>1, <2>2, <2>5 DEF IInv
  <1>10. ASSUME NEW c \in Callers, Purge(c) PROVE IInv'
    <2>1. handle[c] \in Tables /\ handle[c] # None /\ key[c] \in Keys
      BY <1>1, <1>10, HandleExists DEF Purge
    <2>2. data[handle[c]][key[c]] = Stored(key[c])
      BY <1>1, <2>1 DEF OneTable, Stored
    <2>3. OneTable'
      BY <1>1, <1>10 DEF Purge, Leave, OneTable, TypeOK
    <2>4. Witness(c)'
      BY <1>1, <1>10 DEF Purge, Leave, Goto, Witness, TypeOK
    <2>5. Witnessed'
      BY <1>1, <1>10, <2>4, WitnessOfMover DEF Purge, Leave, Goto, TypeOK
    <2>6. CASE UNCHANGED data
      BY <1>1, <1>3, <1>10, <2>3, <2>5, <2>6 DEF IInv, Purge
    <2>7. CASE /\ Stored(key[c]) # None /\ IsExpired(Stored(key[c]))
               /\ data' = [data EXCEPT ![handle[c]][key[c]] = None]
      <3>1. UNCHANGED <<now, table, promised>>
        BY <1>10 DEF Purge
      <3>2. \A k \in Keys : Stored(k)' = IF k = key[c] THEN None ELSE Stored(k)
        BY <1>1, <1>10, <2>7, <3>1, WriteLands DEF Purge
      <3>3. promised[key[c]] = Stored(key[c])
        BY <1>1, <2>1, <2>7 DEF Faithful
      <3>4. Faithful'
        BY <1>1, <2>1, <2>7, <3>1, <3>2, <3>3 DEF Faithful, IsExpired
      <3> QED BY <1>1, <2>3, <2>5, <3>4 DEF IInv
    <2> QED BY <1>10, <2>2, <2>6, <2>7 DEF Purge
  <1>11. ASSUME NEW c \in Callers, Return(c) PROVE IInv'
    <2>1. OneTable'
      BY <1>1, <1>11 DEF Return, Leave, OneTable, TypeOK
    <2>2. Faithful'
      BY <1>3, <1>11 DEF Return
    <2>3. Witness(c)'
      BY <1>1, <1>11 DEF Return, Leave, Goto, Witness, TypeOK
    <2>4. Witnessed'
      BY <1>1, <1>11, <2>3, WitnessOfMover DEF Return, Leave, Goto, TypeOK
    <2> QED BY <1>1, <2>1, <2>2, <2>4 DEF IInv
  <1>12. ASSUME NEW c \in Callers, NEW v \in Values, NEW ttl \in TTLs, StampEntry(c, v, ttl)
         PROVE  IInv'
    <2>1. OneTable'
      BY <1>1, <1>12 DEF StampEntry, OneTable
    <2>2. Faithful'
      BY <1>3, <1>12 DEF StampEntry
    <2>3. [value |-> v, stamped |-> now, ttl |-> ttl] # None
      BY <1>2
    <2>4. Witness(c)'
      BY <1>1, <1>12, <2>3 DEF StampEntry, Goto, Witness, TypeOK
    <2>5. Witnessed'
      BY <1>1, <1>12, <2>4, WitnessOfMover DEF StampEntry, Goto, TypeOK
    <2> QED BY <1>1, <2>1, <2>2, <2>5 DEF IInv
  <1>13. ASSUME NEW c \in Callers, StoreEntry(c) PROVE IInv'
    <2>1. OneTable'
      BY <1>1, <1>13 DEF StoreEntry, Leave, OneTable, TypeOK
    <2>2. \A k \in Keys : Stored(k)' = IF k = key[c] THEN entry[c] ELSE Stored(k)
      BY <1>1, <1>13, WriteLands DEF StoreEntry
    <2>3. \A k \in Keys : promised'[k] = IF k = key[c] THEN entry[c] ELSE promised[k]
      BY <1>1, <1>13 DEF StoreEntry, TypeOK
    <2>4. Faithful'
      BY <1>1, <1>13, <2>2, <2>3 DEF Faithful, IsExpired, StoreEntry
    <2>5. Witness(c)'
      BY <1>1, <1>13 DEF StoreEntry, Leave, Goto, Witness, TypeOK
    <2>6. Witnessed'
      BY <1>1, <1>13, <2>5, WitnessOfMover DEF StoreEntry, Leave, Goto, TypeOK
    <2> QED BY <1>1, <2>1, <2>4, <2>6 DEF IInv
  <1>14. ASSUME NEW c \in Callers, Delete(c) PROVE IInv'
    <2>1. OneTable'
      BY <1>1, <1>14 DEF Delete, Leave, OneTable, TypeOK
    <2>2. \A k \in Keys : Stored(k)' = IF k = key[c] THEN None ELSE Stored(k)
      BY <1>1, <1>14, WriteLands DEF Delete
    <2>3. \A k \in Keys : promised'[k] = IF k = key[c] THEN None ELSE promised[k]
      BY <1>1, <1>14 DEF Delete, TypeOK
    <2>4. Faithful'
      BY <1>1, <1>14, <2>2, <2>3 DEF Faithful, IsExpired, Delete
    <2>5. Witness(c)'
      BY <1>1, <1>14 DEF Delete, Leave, Goto, Witness, TypeOK
    <2>6. Witnessed'
      BY <1>1, <1>14, <2>5, WitnessOfMover DEF Delete, Leave, Goto, TypeOK
    <2> QED BY <1>1, <2>1, <2>4, <2>6 DEF IInv
  <1>15. ASSUME NEW c \in Callers, Clear(c) PROVE IInv'
    <2>1. handle[c] \in Tables /\ handle[c] # None /\ handle[c] = table
      BY <1>1, <1>15, HandleExists DEF Clear, OneTable
    <2>2. OneTable'
      BY <1>1, <1>15 DEF Clear, Leave, OneTable, TypeOK
    <2>3. \A k \in Keys : Stored(k)' = None /\ promised'[k] = None
      BY <1>1, <1>15, <2>1 DEF Clear, Stored, Empty, TypeOK, Tables
    <2>4. Faithful'
      BY <2>3 DEF Faithful
    <2>5. Witness(c)'
      BY <1>1, <1>15 DEF Clear, Leave, Goto, Witness, TypeOK
    <2>6. Witnessed'
      BY <1>1, <1>15, <2>5, WitnessOfMover DEF Clear, Leave, Goto, TypeOK
    <2> QED BY <1>1, <2>2, <2>4, <2>6 DEF IInv
  <1>16. CASE UNCHANGED vars
    <2>1. OneTable' /\ Witnessed'
      BY <1>1, <1>16 DEF vars, OneTable, Witnessed, Witness, IsExpired
    <2>2. Faithful'
      BY <1>3, <1>16 DEF vars
    <2> QED BY <1>1, <2>1, <2>2 DEF IInv
  <1> QED
    BY <1>4, <1>5, <1>6, <1>7, <1>8, <1>9, <1>10, <1>11, <1>12, <1>13, <1>14, <1>15, <1>16
    DEF Next

-----------------------------------------------------------------------------
(* The theorems                                                            *)

LEMMA Invariance == Spec => []IInv
  BY InitHolds, InvStep, PTL DEF Spec

\* A caller works on a table that exists, and only while it is in a call.
THEOREM TypeCorrect == Spec => []TypeOK
  <1>1. IInv => TypeOK
    BY DEF IInv
  <1> QED BY <1>1, Invariance, PTL

\* Whatever callers race over the creation of the table and over the deletion
\* of expired entries, readers find what the calls so far left there.
THEOREM StoresAreRead == Spec => []StoresReachReaders
  <1>1. IInv => StoresReachReaders
    BY DEF IInv, Faithful, StoresReachReaders, Live
  <1> QED BY <1>1, Invariance, PTL

\* Get never answers with a value that was not alive at some moment of the call.
THEOREM HitsAreAlive == Spec => []HitWasAlive
  <1>1. IInv => HitWasAlive
    BY DEF IInv, Witnessed, Witness, HitWasAlive
  <1> QED BY <1>1, Invariance, PTL
=============================================================================
