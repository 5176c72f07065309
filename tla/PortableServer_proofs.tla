------------------------- MODULE PortableServer_proofs -------------------------
(***************************************************************************)
(* The portable server for any deployment: its packages run what its       *)
(* directories run, its registrations keep what Registration promises, its *)
(* root service is not behind the UI, and when its watcher has nothing     *)
(* left to do its services serve what is on disk.                          *)
(***************************************************************************)
EXTENDS PortableServer, FiniteSetTheorems, TLAPS

USE DEF Services, fixedVars, storageVars

(* ----------------------------- Registration ---------------------------- *)
(* What is in the map and in chi's tree, what serial registration guarantees *)
(* and what a panic takes, for any list of services, limit and storage.      *)

(* -------------------------------- Types -------------------------------- *)

\* The types hold at the start.
LEMMA RegTypeInit == RegInit => RegTypeOK
<1> SUFFICES ASSUME RegInit PROVE RegTypeOK
  OBVIOUS
<1>1. Empty(ServiceNames) \in [ServiceNames -> Nat] /\ Empty(Paths) \in [Paths -> Nat]
  BY DEF Empty
<1>2. pc \in [Services -> PC] /\ snap \in [Services -> [Paths -> Nat]]
  BY <1>1 DEF RegInit, PC
<1>3. connected \in BOOLEAN /\ dead \in BOOLEAN
  BY DEF RegInit
<1> QED BY <1>1, <1>2, <1>3 DEF RegInit, RegTypeOK

\* Every step keeps the types.
LEMMA RegTypeStep ==
  ASSUME RegTypeOK, [RegNext]_regVars
  PROVE  RegTypeOK'
<1> USE DEF RegTypeOK
<1>1. CASE OpenStorage
  BY <1>1 DEF OpenStorage, UseMemory, OpenDriver, Install, FallBack, Unopened
<1>2. ASSUME NEW i \in Services, Start(i) \/ GiveUp(i) \/ CheckName(i) \/ CheckMount(i)
      PROVE  RegTypeOK'
  BY <1>2 DEF Start, GiveUp, CheckName, CheckMount, Goto, PC
<1>3. ASSUME NEW i \in Services, MountRoot(i)
      PROVE  RegTypeOK'
  <2>1. i \in Nat
    BY <1>3
  <2> QED BY <1>3, <2>1 DEF MountRoot, Goto, PC
<1>4. ASSUME NEW i \in Services, MountBegin(i)
      PROVE  RegTypeOK'
  BY <1>4 DEF MountBegin, Goto, PC
<1>5. ASSUME NEW i \in Services, MountEnd(i)
      PROVE  RegTypeOK'
  <2>1. PICK seen \in {tree, snap[i]} : tree' = [seen EXCEPT ![confs[i].path] = i]
    BY <1>5 DEF MountEnd
  <2>2. seen \in [Paths -> Nat] /\ i \in Nat /\ confs[i] \in Conf
    BY <2>1
  <2>3. tree' \in [Paths -> Nat]
    BY <2>1, <2>2
  <2> QED BY <1>5, <2>3 DEF MountEnd, Goto, PC
<1>6. ASSUME NEW i \in Services, Store(i)
      PROVE  RegTypeOK'
  <2>1. i \in Nat
    BY <1>6
  <2> QED BY <1>6, <2>1 DEF Store, Goto, PC
<1>7. CASE UNCHANGED regVars
  BY <1>7 DEF regVars
<1> QED BY <1>1, <1>2, <1>3, <1>4, <1>5, <1>6, <1>7 DEF RegNext, Register

(* ------------------------------- Storage ------------------------------- *)

\* No storage is open at the start.
LEMMA StorageInit == RegInit => StorageAsConfigured
  BY DEF RegInit, StorageAsConfigured

\* Each step of opening keeps the storage as configured.
LEMMA StorageStep ==
  ASSUME RegTypeOK, StorageAsConfigured, [RegNext]_regVars
  PROVE  StorageAsConfigured'
<1> USE DEF StorageAsConfigured
<1>1. CASE OpenStorage
  BY <1>1 DEF OpenStorage, UseMemory, OpenDriver, Install, FallBack, OpenFails, Unopened
<1>2. ASSUME NEW i \in Services, Start(i) \/ GiveUp(i) \/ Register(i)
      PROVE  StorageAsConfigured'
  BY <1>2 DEF Start, GiveUp, Register, CheckName, CheckMount, MountRoot, MountBegin,
              MountEnd, Store, RegTypeOK
<1>3. CASE UNCHANGED regVars
  BY <1>3 DEF regVars
<1> QED BY <1>1, <1>2, <1>3 DEF RegNext

(* ---------------------------- Map and routes ---------------------------- *)

\* j is what the routes may hold at p.
IsEntry(j, p) ==
    j \in Services /\ confs[j].path = p /\ p # Root /\ pc[j] \in {"store", "registered"}

\* The map holds registered services under their names, the routes hold
\* mounted ones under their paths, and so does what a service has seen of them.
EntriesOK ==
    /\ \A n \in ServiceNames : services[n] # 0 =>
          services[n] \in Services /\ confs[services[n]].name = n /\ pc[services[n]] = "registered"
    /\ \A p \in Paths : tree[p] # 0 => IsEntry(tree[p], p)
    /\ \A i \in Services : pc[i] = "inserting" =>
          /\ confs[i].path # Root
          /\ \A p \in Paths : snap[i][p] # 0 => IsEntry(snap[i][p], p)

\* Map and tree are empty at the start.
LEMMA EntriesInit == RegInit => EntriesOK
  BY DEF RegInit, EntriesOK, Empty

\* A step of one service that only moves it on, and not out of the map.
LEMMA EntriesGoto ==
  ASSUME RegTypeOK, EntriesOK, NEW i \in Services, NEW where \in PC \ {"inserting"},
         pc[i] \notin {"store", "registered"}, Goto(i, where),
         UNCHANGED <<confs, services, tree, snap>>
  PROVE  EntriesOK'
<1>1. \A j \in Services : j # i => pc'[j] = pc[j]
  BY DEF Goto, RegTypeOK
<1>2. pc'[i] = where /\ Services' = Services
  BY DEF Goto, RegTypeOK
<1>3. \A j, p : IsEntry(j, p) => IsEntry(j, p)'
  BY <1>1, <1>2 DEF IsEntry
<1> QED BY <1>1, <1>2, <1>3 DEF EntriesOK

\* Each registration step keeps the entries.
LEMMA EntriesStep ==
  ASSUME RegTypeOK, EntriesOK, [RegNext]_regVars
  PROVE  EntriesOK'
<1>1. CASE OpenStorage
  BY <1>1 DEF OpenStorage, UseMemory, OpenDriver, Install, FallBack, Unopened, EntriesOK, IsEntry
<1>2. ASSUME NEW i \in Services, Start(i) \/ GiveUp(i) \/ CheckName(i) \/ CheckMount(i)
      PROVE  EntriesOK'
  <2>1. pc[i] \notin {"store", "registered"} /\ UNCHANGED <<confs, services, tree, snap>>
    BY <1>2 DEF Start, GiveUp, CheckName, CheckMount, MayStart
  <2>2. PICK where \in PC \ {"inserting"} : Goto(i, where)
    BY <1>2 DEF Start, GiveUp, CheckName, CheckMount, PC
  <2> QED BY <2>1, <2>2, EntriesGoto
<1>3. ASSUME NEW i \in Services, MountRoot(i)
      PROVE  EntriesOK'
  <2>1. /\ pc[i] \notin {"store", "registered"} /\ UNCHANGED <<confs, services, tree, snap>>
        /\ Goto(i, "store") /\ "store" \in PC \ {"inserting"}
    BY <1>3 DEF MountRoot, PC
  <2> QED BY <2>1, EntriesGoto
<1>4. ASSUME NEW i \in Services, MountBegin(i)
      PROVE  EntriesOK'
  <2>1. CASE dead' = TRUE /\ UNCHANGED <<pc, snap>>
    BY <1>4, <2>1 DEF MountBegin, EntriesOK, IsEntry
  <2>2. CASE snap' = [snap EXCEPT ![i] = tree] /\ Goto(i, "inserting")
    <3>1. /\ \A j \in Services : j # i => pc'[j] = pc[j] /\ snap'[j] = snap[j]
          /\ pc'[i] = "inserting" /\ snap'[i] = tree /\ pc[i] = "mounting"
          /\ UNCHANGED <<confs, services, tree>> /\ confs[i].path # Root
      BY <1>4, <2>2 DEF MountBegin, Goto, RegTypeOK
    <3>2. \A j, p : IsEntry(j, p) => IsEntry(j, p)'
      BY <3>1 DEF IsEntry
    <3> QED BY <3>1, <3>2 DEF EntriesOK
  <2> QED BY <1>4, <2>1, <2>2 DEF MountBegin
<1>5. ASSUME NEW i \in Services, MountEnd(i)
      PROVE  EntriesOK'
  <2>1. PICK seen \in {tree, snap[i]} : tree' = [seen EXCEPT ![confs[i].path] = i]
    BY <1>5 DEF MountEnd
  <2>2. /\ \A j \in Services : j # i => pc'[j] = pc[j]
        /\ pc'[i] = "store" /\ pc[i] = "inserting" /\ UNCHANGED <<confs, services, snap>>
    BY <1>5 DEF MountEnd, Goto, RegTypeOK
  <2>3. \A j, p : IsEntry(j, p) => IsEntry(j, p)'
    BY <2>2 DEF IsEntry
  <2>4. IsEntry(i, confs[i].path)'
    BY <2>2 DEF IsEntry, EntriesOK
  <2>5. seen \in [Paths -> Nat] /\ \A p \in Paths : seen[p] # 0 => IsEntry(seen[p], p)
    BY <2>1, <2>2 DEF RegTypeOK, EntriesOK
  <2>6. \A p \in Paths : tree'[p] = IF p = confs[i].path THEN i ELSE seen[p]
    BY <2>1, <2>5
  <2>7. \A p \in Paths : tree'[p] # 0 => IsEntry(tree[p], p)'
    BY <2>2, <2>3, <2>4, <2>5, <2>6
  <2> QED BY <2>2, <2>3, <2>7 DEF EntriesOK
<1>6. ASSUME NEW i \in Services, Store(i)
      PROVE  EntriesOK'
  <2>1. /\ \A j \in Services : j # i => pc'[j] = pc[j]
        /\ pc'[i] = "registered" /\ pc[i] = "store" /\ UNCHANGED <<confs, tree, snap>>
    BY <1>6 DEF Store, Goto, RegTypeOK
  <2>2. \A n \in ServiceNames : services'[n] = IF n = confs[i].name THEN i ELSE services[n]
    BY <1>6 DEF Store, RegTypeOK
  <2>3. \A j, p : IsEntry(j, p) => IsEntry(j, p)'
    BY <2>1 DEF IsEntry
  <2> QED BY <2>1, <2>2, <2>3 DEF EntriesOK
<1>7. CASE UNCHANGED regVars
  BY <1>7 DEF regVars, EntriesOK, IsEntry
<1> QED BY <1>1, <1>2, <1>3, <1>4, <1>5, <1>6, <1>7 DEF RegNext, Register

(* ------------------------- One service at a time ------------------------- *)

\* With a limit of one: at most one service is under way; the name and the
\* prefix it has checked are still free, and so is its place in the routes.
Serial ==
    limit = 1 =>
      /\ \A i, j \in Services : pc[i] \in Busy /\ pc[j] \in Busy => i = j
      /\ \A i \in Services :
           /\ pc[i] \in {"mount", "mounting", "inserting", "store"} => services[confs[i].name] = 0
           /\ pc[i] \in {"mounting", "inserting", "store"} =>
                 \A j \in Services : InMap(j) => ~SamePrefix(i, j)
           /\ pc[i] = "inserting" => snap[i] = tree /\ tree[confs[i].path] = 0
           /\ pc[i] = "store" => Mounted(i)

\* What serial registration keeps.
SerialInv == Serial /\ SerialMounts

\* Nobody has started.
LEMMA SerialInit == RegInit => SerialInv
  BY DEF RegInit, SerialInv, Serial, SerialMounts, Busy, PC, Finished

\* A service that may start finds no other under way.
LEMMA NoneBusy ==
  ASSUME RegTypeOK, limit = 1, NEW i \in Services, MayStart(i)
  PROVE  \A j \in Services : pc[j] \notin Busy
<1> DEFINE B == {j \in Services : pc[j] \in Busy}
<1>1. IsFiniteSet(Services)
  <2>1. Services = 1..Len(confs) /\ Len(confs) \in Nat
    BY DEF RegTypeOK
  <2> QED BY <2>1, FS_Interval
<1>2. IsFiniteSet(B)
  BY <1>1, FS_Subset
<1>3. Cardinality(B) \in Nat /\ Cardinality(B) < 1
  BY <1>2, FS_CardinalityType DEF MayStart
<1>4. B = {}
  BY <1>2, <1>3, FS_EmptySet
<1> QED BY <1>4

\* What a step of i that leaves map and routes alone does to the others.
LEMMA SerialGoto ==
  ASSUME RegTypeOK, SerialInv, limit = 1, NEW i \in Services, NEW where \in PC,
         \A j \in Services : j # i => pc[j] \notin Busy,
         pc[i] \notin {"registered", "skipped"}, Goto(i, where),
         UNCHANGED <<confs, limit, services, tree, notFound, snap>>,
         where \in {"mount", "mounting", "inserting", "store"} => services[confs[i].name] = 0,
         where \in {"mounting", "inserting", "store"} =>
            \A j \in Services : InMap(j) => ~SamePrefix(i, j),
         where # "inserting", where = "store" => Mounted(i), where # "registered",
         where = "skipped" => \E j \in Services :
            pc[j] = "registered" /\ (confs[j].name = confs[i].name \/ SamePrefix(i, j))
  PROVE  SerialInv'
<1>1. /\ \A j \in Services : j # i => pc'[j] = pc[j]
      /\ pc'[i] = where /\ Services' = Services
  BY DEF Goto, RegTypeOK
<1>2. \A j, k : /\ InMap(j)' = InMap(j) /\ SamePrefix(j, k)' = SamePrefix(j, k)
                /\ Mounted(j)' = Mounted(j)
  BY DEF InMap, SamePrefix, Mounted
<1>3. Serial'
  BY <1>1, <1>2 DEF SerialInv, Serial, Busy, Finished
<1>4. SerialMounts'
  BY <1>1, <1>2 DEF SerialInv, SerialMounts
<1> QED BY <1>3, <1>4 DEF SerialInv

\* Every step keeps what serial registration keeps.
LEMMA SerialStep ==
  ASSUME RegTypeOK, EntriesOK, SerialInv, [RegNext]_regVars
  PROVE  SerialInv'
<1>0. limit' = limit /\ confs' = confs
  BY DEF RegNext, OpenStorage, UseMemory, OpenDriver, Install, FallBack, Unopened, Register,
         Start, GiveUp, CheckName, CheckMount, MountRoot, MountBegin, MountEnd, Store, regVars
<1> SUFFICES ASSUME limit = 1 PROVE SerialInv'
  BY <1>0 DEF SerialInv, Serial, SerialMounts
<1>1. CASE OpenStorage
  BY <1>1 DEF OpenStorage, UseMemory, OpenDriver, Install, FallBack, Unopened, SerialInv, Serial,
              SerialMounts, InMap, SamePrefix, Mounted
<1>2. ASSUME NEW i \in Services, Start(i) \/ GiveUp(i)
      PROVE  SerialInv'
  <2>1. \A j \in Services : pc[j] \notin Busy
    BY <1>2, NoneBusy DEF Start, GiveUp
  <2>2. /\ pc[i] = "waiting" /\ (Goto(i, "name") \/ Goto(i, "failed"))
        /\ UNCHANGED <<confs, limit, services, tree, notFound, snap>>
    BY <1>2 DEF Start, GiveUp, MayStart
  <2> QED BY <2>1, <2>2, SerialGoto DEF PC
<1>3. ASSUME NEW i \in Services, CheckName(i)
      PROVE  SerialInv'
  <2>1. /\ pc[i] = "name" /\ UNCHANGED <<confs, limit, services, tree, notFound, snap>>
        /\ Goto(i, IF services[confs[i].name] # 0 THEN "skipped" ELSE "mount")
    BY <1>3 DEF CheckName
  <2>2. \A j \in Services : j # i => pc[j] \notin Busy
    BY <2>1 DEF SerialInv, Serial, Busy, PC, Finished
  <2>3. confs[i].name \in ServiceNames
    BY DEF RegTypeOK, Conf
  <2>4. services[confs[i].name] # 0 =>
          \E j \in Services : pc[j] = "registered" /\ confs[j].name = confs[i].name
    BY <2>3 DEF EntriesOK
  <2>5. CASE services[confs[i].name] # 0
    BY <2>1, <2>2, <2>4, <2>5, SerialGoto DEF PC
  <2>6. CASE services[confs[i].name] = 0
    BY <2>1, <2>2, <2>6, SerialGoto DEF PC
  <2> QED BY <2>5, <2>6
<1>4. ASSUME NEW i \in Services, CheckMount(i)
      PROVE  SerialInv'
  <2> DEFINE Owned == \E j \in Services : InMap(j) /\ SamePrefix(i, j)
  <2>1. /\ pc[i] = "mount" /\ UNCHANGED <<confs, limit, services, tree, notFound, snap>>
        /\ Goto(i, IF Owned THEN "skipped" ELSE "mounting")
    BY <1>4 DEF CheckMount
  <2>2. \A j \in Services : j # i => pc[j] \notin Busy
    BY <2>1 DEF SerialInv, Serial, Busy, PC, Finished
  <2>3. services[confs[i].name] = 0
    BY <2>1 DEF SerialInv, Serial
  <2>4. \A j \in Services : InMap(j) => pc[j] = "registered"
    BY DEF InMap, EntriesOK, RegTypeOK
  <2>5. CASE Owned
    BY <2>1, <2>2, <2>4, <2>5, SerialGoto DEF PC
  <2>6. CASE ~Owned
    BY <2>1, <2>2, <2>3, <2>6, SerialGoto DEF PC
  <2> QED BY <2>5, <2>6
<1>5. ASSUME NEW i \in Services, MountRoot(i)
      PROVE  SerialInv'
  <2>1. /\ pc[i] = "mounting" /\ confs[i].path = Root /\ notFound' = i /\ pc'[i] = "store"
        /\ UNCHANGED <<confs, limit, services, tree, snap>>
        /\ \A j \in Services : j # i => pc'[j] = pc[j]
    BY <1>5 DEF MountRoot, Goto, RegTypeOK
  <2>2. \A j \in Services : j # i => pc[j] \notin Busy
    BY <2>1 DEF SerialInv, Serial, Busy, PC, Finished
  <2>3. \A j \in Services : pc[j] = "registered" => confs[j].path # Root
    <3> SUFFICES ASSUME NEW j \in Services, pc[j] = "registered", confs[j].path = Root
                 PROVE  FALSE
      OBVIOUS
    <3>1. confs[j] \in Conf /\ confs[i] \in Conf
      BY DEF RegTypeOK
    <3>2. SamePrefix(i, j)
      BY <2>1, <3>1 DEF SamePrefix, Conf
    <3>3. InMap(j)
      BY <3>1 DEF InMap, SerialInv, SerialMounts, Conf
    <3> QED BY <2>1, <3>2, <3>3 DEF SerialInv, Serial
  <2>4. \A j \in Services : pc[j] = "registered" => Mounted(j)'
    BY <2>1, <2>3 DEF SerialInv, SerialMounts, Mounted
  <2>5. Mounted(i)'
    BY <2>1 DEF Mounted
  <2>6. \A j, k : InMap(j)' = InMap(j) /\ SamePrefix(j, k)' = SamePrefix(j, k)
    BY <2>1 DEF InMap, SamePrefix
  <2>7. Serial'
    BY <2>1, <2>2, <2>5, <2>6 DEF SerialInv, Serial, Busy, PC, Finished
  <2>8. SerialMounts'
    BY <2>1, <2>4, <2>6 DEF SerialInv, SerialMounts
  <2> QED BY <2>7, <2>8 DEF SerialInv
<1>6. ASSUME NEW i \in Services, MountBegin(i)
      PROVE  SerialInv'
  <2>1. pc[i] = "mounting" /\ UNCHANGED <<confs, limit, services, tree, notFound>>
    BY <1>6 DEF MountBegin
  <2>2. CASE UNCHANGED <<pc, snap>>
    BY <2>1, <2>2 DEF SerialInv, Serial, SerialMounts, InMap, SamePrefix, Mounted
  <2>3. CASE tree[confs[i].path] = 0 /\ snap' = [snap EXCEPT ![i] = tree] /\ Goto(i, "inserting")
    <3>1. /\ \A j \in Services : j # i => pc'[j] = pc[j] /\ snap'[j] = snap[j]
          /\ pc'[i] = "inserting" /\ snap'[i] = tree
      BY <2>3 DEF Goto, RegTypeOK
    <3>2. \A j \in Services : j # i => pc[j] \notin Busy
      BY <2>1 DEF SerialInv, Serial, Busy, PC, Finished
    <3>3. \A j, k : /\ InMap(j)' = InMap(j) /\ SamePrefix(j, k)' = SamePrefix(j, k)
                    /\ Mounted(j)' = Mounted(j)
      BY <2>1 DEF InMap, SamePrefix, Mounted
    <3>4. Serial'
      BY <2>1, <2>3, <3>1, <3>2, <3>3 DEF SerialInv, Serial, Busy, PC, Finished
    <3>5. SerialMounts'
      BY <2>1, <3>1, <3>3 DEF SerialInv, SerialMounts
    <3> QED BY <3>4, <3>5 DEF SerialInv
  <2> QED BY <1>6, <2>2, <2>3 DEF MountBegin, Taken
<1>7. ASSUME NEW i \in Services, MountEnd(i)
      PROVE  SerialInv'
  <2>1. /\ pc[i] = "inserting" /\ pc'[i] = "store"
        /\ UNCHANGED <<confs, limit, services, notFound, snap>>
        /\ \A j \in Services : j # i => pc'[j] = pc[j]
    BY <1>7 DEF MountEnd, Goto, RegTypeOK
  <2>2. \A j \in Services : j # i => pc[j] \notin Busy
    BY <2>1 DEF SerialInv, Serial, Busy, PC, Finished
  <2>3. snap[i] = tree /\ tree[confs[i].path] = 0 /\ confs[i].path # Root /\ confs[i].path \in Paths
    BY <2>1 DEF SerialInv, Serial, EntriesOK, RegTypeOK, Conf
  <2>4. tree' = [tree EXCEPT ![confs[i].path] = i]
    BY <1>7, <2>3 DEF MountEnd
  <2>5. tree'[confs[i].path] = i /\ \A p \in Paths : p # confs[i].path => tree'[p] = tree[p]
    BY <2>3, <2>4 DEF RegTypeOK
  <2>6. Mounted(i)'
    BY <2>1, <2>3, <2>5 DEF Mounted
  <2>7. \A j \in Services : pc[j] = "registered" => Mounted(j)'
    <3> SUFFICES ASSUME NEW j \in Services, pc[j] = "registered" PROVE Mounted(j)'
      OBVIOUS
    <3>1. confs[j] \in Conf /\ j # 0
      BY DEF RegTypeOK
    <3>2. Mounted(j)
      BY DEF SerialInv, SerialMounts
    <3>3. confs[j].path \in Paths
      BY <3>1 DEF Conf
    <3> QED BY <2>1, <2>3, <2>5, <3>1, <3>2, <3>3 DEF Mounted
  <2>8. \A j, k : InMap(j)' = InMap(j) /\ SamePrefix(j, k)' = SamePrefix(j, k)
    BY <2>1 DEF InMap, SamePrefix
  <2>9. Serial'
    BY <2>1, <2>2, <2>6, <2>8 DEF SerialInv, Serial, Busy, PC, Finished
  <2>10. SerialMounts'
    BY <2>1, <2>7, <2>8 DEF SerialInv, SerialMounts
  <2> QED BY <2>9, <2>10 DEF SerialInv
<1>8. ASSUME NEW i \in Services, Store(i)
      PROVE  SerialInv'
  <2>1. /\ pc[i] = "store" /\ pc'[i] = "registered"
        /\ UNCHANGED <<confs, limit, tree, notFound, snap>>
        /\ \A j \in Services : j # i => pc'[j] = pc[j]
    BY <1>8 DEF Store, Goto, RegTypeOK
  <2>2. \A j \in Services : j # i => pc[j] \notin Busy
    BY <2>1 DEF SerialInv, Serial, Busy, PC, Finished
  <2>3. confs[i].name \in ServiceNames /\ services[confs[i].name] = 0
    BY <2>1 DEF SerialInv, Serial, RegTypeOK, Conf
  <2>4. \A n \in ServiceNames : services'[n] = IF n = confs[i].name THEN i ELSE services[n]
    BY <1>8 DEF Store, RegTypeOK
  <2>5. \A j \in Services : pc[j] = "registered" => services'[confs[j].name] = j
    <3> SUFFICES ASSUME NEW j \in Services, pc[j] = "registered"
                 PROVE  services'[confs[j].name] = j
      OBVIOUS
    <3>1. services[confs[j].name] = j /\ confs[j].name \in ServiceNames /\ j # 0
      BY DEF SerialInv, SerialMounts, RegTypeOK, Conf
    <3> QED BY <2>3, <2>4, <3>1
  <2>6. \A j, k : SamePrefix(j, k)' = SamePrefix(j, k) /\ Mounted(j)' = Mounted(j)
    BY <2>1 DEF SamePrefix, Mounted
  <2>7. Mounted(i)
    BY <2>1 DEF SerialInv, Serial
  <2>8. Serial'
    BY <2>1, <2>2 DEF Serial, Busy, PC, Finished
  <2>9. SerialMounts'
    <3>1. services'[confs[i].name] = i
      BY <2>3, <2>4
    <3> QED BY <2>1, <2>5, <2>6, <2>7, <3>1 DEF SerialInv, SerialMounts
  <2> QED BY <2>8, <2>9 DEF SerialInv
<1>9. CASE UNCHANGED regVars
  BY <1>9 DEF regVars, SerialInv, Serial, SerialMounts, InMap, SamePrefix, Mounted
<1> QED BY <1>1, <1>2, <1>3, <1>4, <1>5, <1>6, <1>7, <1>8, <1>9 DEF RegNext, Register

(* ---------------------- Panics and the specification --------------------- *)

\* A step that panics has a conflict to panic on.
LEMMA PanicStep ==
  ASSUME RegTypeOK, EntriesOK, SerialInv, PanicNeedsConflict, [RegNext]_regVars
  PROVE  PanicNeedsConflict'
<1>1. CASE OpenStorage
  BY <1>1 DEF OpenStorage, UseMemory, OpenDriver, Install, FallBack, OpenFails, Unopened,
              PanicNeedsConflict
<1>2. ASSUME NEW i \in Services,
             Start(i) \/ GiveUp(i) \/ CheckName(i) \/ CheckMount(i) \/ MountRoot(i)
               \/ MountEnd(i) \/ Store(i)
      PROVE  PanicNeedsConflict'
  <2>1. ~dead /\ dead' = dead
    BY <1>2 DEF Start, GiveUp, CheckName, CheckMount, MountRoot, MountEnd, Store, Alive
  <2> QED BY <2>1 DEF PanicNeedsConflict
<1>3. ASSUME NEW i \in Services, MountBegin(i)
      PROVE  PanicNeedsConflict'
  <2>1. /\ ~dead /\ pc[i] = "mounting" /\ confs[i].path # Root
        /\ UNCHANGED <<confs, limit, services>>
    BY <1>3 DEF MountBegin, Alive
  <2>2. CASE dead' = dead
    BY <2>1, <2>2 DEF PanicNeedsConflict
  <2>3. CASE tree[confs[i].path] # 0
    <3> DEFINE j == tree[confs[i].path]
    <3>1. confs[i].path \in Paths
      BY DEF RegTypeOK, Conf
    <3>2. IsEntry(j, confs[i].path)
      BY <2>3, <3>1 DEF EntriesOK
    <3>3. j \in Services /\ j # i /\ confs[j].path = confs[i].path
      BY <2>1, <3>2 DEF IsEntry
    <3>4. limit > 1 \/ confs[i].slash # confs[j].slash
      <4> SUFFICES ASSUME ~(limit > 1) PROVE confs[i].slash # confs[j].slash
        OBVIOUS
      <4>1. limit = 1
        BY DEF RegTypeOK
      <4>2. pc[j] = "registered"
        BY <2>1, <3>2, <3>3, <4>1 DEF IsEntry, SerialInv, Serial, Busy, PC, Finished
      <4>3. InMap(j)
        <5>1. services[confs[j].name] = j
          BY <3>3, <4>1, <4>2 DEF SerialInv, SerialMounts
        <5>2. confs[j].name \in ServiceNames
          BY <3>3 DEF RegTypeOK, Conf
        <5> QED BY <5>1, <5>2 DEF InMap
      <4>4. ~SamePrefix(i, j)
        BY <2>1, <3>3, <4>1, <4>3 DEF SerialInv, Serial
      <4> QED BY <3>3, <4>4 DEF SamePrefix
    <3> QED BY <2>1, <3>3, <3>4 DEF PanicNeedsConflict
  <2>4. CASE confs[i].path \in shared /\ pc' = pc /\ shared' = shared
    BY <2>1, <2>4 DEF PanicNeedsConflict
  <2> QED BY <1>3, <2>2, <2>3, <2>4 DEF MountBegin, Taken
<1>4. CASE UNCHANGED regVars
  BY <1>4 DEF regVars, PanicNeedsConflict
<1> QED BY <1>1, <1>2, <1>3, <1>4 DEF RegNext, Register

\* The inductive invariant.
RegInv == RegTypeOK /\ StorageAsConfigured /\ EntriesOK /\ SerialInv /\ PanicNeedsConflict

\* It holds at the start.
LEMMA RegInvInit == RegInit => RegInv
<1>1. RegInit => PanicNeedsConflict
  BY DEF RegInit, PanicNeedsConflict
<1> QED BY <1>1, RegTypeInit, StorageInit, EntriesInit, SerialInit DEF RegInv

\* Every step keeps it.
LEMMA RegInvStep == RegInv /\ [RegNext]_regVars => RegInv'
  BY RegTypeStep, StorageStep, EntriesStep, SerialStep, PanicStep DEF RegInv

\* Storage, mounts and panics are as said for any list of services, any limit, any
\* storage and any paths of the server's own, whatever calls the router.
THEOREM RegistrationSafe == RegSpec => [](StorageAsConfigured /\ SerialMounts /\ PanicNeedsConflict)
<1>1. RegInv => StorageAsConfigured /\ SerialMounts /\ PanicNeedsConflict
  BY DEF RegInv, SerialInv
<1> QED BY <1>1, RegInvInit, RegInvStep, PTL DEF RegSpec

(* -------------------------- Places in an order ------------------------- *)

\* R is a strict total order on S.
IsOrder(R, S) ==
    /\ \A x \in S : <<x, x>> \notin R
    /\ \A x, y, z \in S : <<x, y>> \in R /\ <<y, z>> \in R => <<x, z>> \in R
    /\ \A x, y \in S : x # y => <<x, y>> \in R \/ <<y, x>> \in R

\* Who comes before x.
Under(R, S, x) == {y \in S : <<y, x>> \in R}

\* In a finite set with a strict total order every place below the set's size
\* is somebody's.
LEMMA Ranked ==
  ASSUME NEW S, IsFiniteSet(S), NEW R, IsOrder(R, S), NEW k \in 1..Cardinality(S)
  PROVE  \E x \in S : Cardinality(Under(R, S, x)) = k - 1
<1> USE DEF IsOrder, Under
<1> DEFINE below(x) == {y \in S : <<y, x>> \in R}
           n        == Cardinality(S)
           T        == 0..(n - 1)
           rank     == [x \in S |-> Cardinality(below(x))]
<1>1. n \in Nat
  BY FS_CardinalityType
<1>2. ASSUME NEW x \in S PROVE Cardinality(below(x)) \in T
  <2>1. below(x) \in SUBSET S /\ below(x) # S
    OBVIOUS
  <2>2. IsFiniteSet(below(x)) /\ Cardinality(below(x)) <= n /\ n # Cardinality(below(x))
    BY <2>1, FS_Subset
  <2>3. Cardinality(below(x)) \in Nat
    BY <2>2, FS_CardinalityType
  <2> QED BY <1>1, <2>2, <2>3
<1>3. ASSUME NEW x \in S, NEW y \in S, <<x, y>> \in R
      PROVE  Cardinality(below(x)) # Cardinality(below(y))
  <2>1. below(x) \in SUBSET below(y) /\ below(x) # below(y)
    BY <1>3
  <2>2. IsFiniteSet(below(y))
    BY FS_Subset
  <2> QED BY <2>1, <2>2, FS_Subset
<1>4. rank \in Injection(S, T)
  <2>1. rank \in [S -> T]
    BY <1>2
  <2>2. ASSUME NEW x \in S, NEW y \in S, x # y PROVE rank[x] # rank[y]
    <3>1. CASE <<x, y>> \in R
      BY <1>3, <3>1
    <3>2. CASE <<y, x>> \in R
      BY <1>3, <3>2
    <3> QED BY <2>2, <3>1, <3>2
  <2> QED BY <2>1, <2>2 DEF Injection, IsInjective
<1>5. IsFiniteSet(T) /\ Cardinality(T) = n
  <2>1. 0 \in Int /\ n - 1 \in Int
    BY <1>1
  <2>2. IsFiniteSet(T) /\ Cardinality(T) = IF 0 > n - 1 THEN 0 ELSE n - 1 - 0 + 1
    BY <2>1, FS_Interval
  <2> QED BY <1>1, <2>2
<1>6. rank \in Surjection(S, T)
  BY <1>4, <1>5, FS_Injection
<1>7. k - 1 \in T
  BY <1>1
<1> QED BY <1>6, <1>7 DEF Surjection

\* The k-th number of a finite set.
LEMMA Nth ==
  ASSUME NEW S \in SUBSET Nat, IsFiniteSet(S), NEW k \in 1..Cardinality(S)
  PROVE  LET m == CHOOSE i \in S : Cardinality({j \in S : j < i}) = k - 1
         IN  m \in S /\ Cardinality({j \in S : j < m}) = k - 1
<1> DEFINE R == {p \in S \X S : p[1] < p[2]}
<1>1. \A x, y \in S : x \in Nat /\ y \in Nat /\ (<<x, y>> \in R <=> x < y)
  OBVIOUS
<1> HIDE DEF R
<1>2. IsOrder(R, S)
  BY <1>1 DEF IsOrder
<1>3. PICK x \in S : Cardinality(Under(R, S, x)) = k - 1
  BY <1>2, Ranked
<1>4. Under(R, S, x) = {j \in S : j < x}
  BY <1>1 DEF Under
<1> QED BY <1>3, <1>4

\* Each of them has its turn.
LEMMA Turn ==
  ASSUME NEW S \in SUBSET Nat, IsFiniteSet(S), NEW m \in S
  PROVE  \E k \in 1..Cardinality(S) :
            m = CHOOSE i \in S : Cardinality({j \in S : j < i}) = k - 1
<1> DEFINE below(x) == {j \in S : j < x}
           k        == Cardinality(below(m)) + 1
<1>1. Cardinality(S) \in Nat
  BY FS_CardinalityType
<1>2. below(m) \in SUBSET S /\ below(m) # S
  OBVIOUS
<1>3. IsFiniteSet(below(m)) /\ Cardinality(below(m)) <= Cardinality(S)
      /\ Cardinality(S) # Cardinality(below(m))
  BY <1>2, FS_Subset
<1>4. Cardinality(below(m)) \in Nat
  BY <1>3, FS_CardinalityType
<1>5. k \in 1..Cardinality(S) /\ Cardinality(below(m)) = k - 1
  BY <1>1, <1>3, <1>4
<1>6. ASSUME NEW x \in S, NEW y \in S, x < y
      PROVE  Cardinality(below(x)) # Cardinality(below(y))
  <2>1. below(x) \in SUBSET below(y) /\ x \in below(y) /\ x \notin below(x)
    <3>1. x \in Nat /\ y \in Nat /\ \A z \in S : z \in Nat
      OBVIOUS
    <3>2. x \in below(y) /\ x \notin below(x)
      BY <1>6, <3>1
    <3>3. ASSUME NEW z \in below(x) PROVE z \in below(y)
      BY <1>6, <3>1
    <3> QED BY <3>2, <3>3
  <2>2. IsFiniteSet(below(y))
    BY FS_Subset
  <2> QED BY <2>1, <2>2, FS_Subset
<1>7. ASSUME NEW x \in S, Cardinality(below(x)) = k - 1 PROVE x = m
  BY <1>4, <1>6, <1>7
<1>8. m = CHOOSE i \in S : Cardinality(below(i)) = k - 1
  BY <1>5, <1>7
<1> QED BY <1>5, <1>8

\* Nobody else has its place.
LEMMA Placed ==
  ASSUME NEW S, IsFiniteSet(S), NEW R, IsOrder(R, S), NEW x \in S
  PROVE  \E k \in 1..Cardinality(S) :
            /\ Cardinality(Under(R, S, x)) = k - 1
            /\ \A y \in S : Cardinality(Under(R, S, y)) = k - 1 => y = x
<1> USE DEF IsOrder, Under
<1> DEFINE below(y) == Under(R, S, y)
           k        == Cardinality(below(x)) + 1
<1>1. Cardinality(S) \in Nat
  BY FS_CardinalityType
<1>2. below(x) \in SUBSET S /\ below(x) # S
  OBVIOUS
<1>3. IsFiniteSet(below(x)) /\ Cardinality(below(x)) <= Cardinality(S)
      /\ Cardinality(S) # Cardinality(below(x))
  BY <1>2, FS_Subset
<1>4. Cardinality(below(x)) \in Nat
  BY <1>3, FS_CardinalityType
<1>5. k \in 1..Cardinality(S) /\ Cardinality(below(x)) = k - 1
  BY <1>1, <1>3, <1>4
<1>6. ASSUME NEW y \in S, NEW z \in S, <<y, z>> \in R
      PROVE  Cardinality(below(y)) # Cardinality(below(z))
  <2>1. below(y) \in SUBSET below(z) /\ below(y) # below(z)
    BY <1>6
  <2>2. IsFiniteSet(below(z))
    BY FS_Subset
  <2> QED BY <2>1, <2>2, FS_Subset
<1>7. ASSUME NEW y \in S, Cardinality(below(y)) = k - 1 PROVE y = x
  <2>1. <<x, y>> \notin R /\ <<y, x>> \notin R
    BY <1>5, <1>6, <1>7
  <2> QED BY <2>1
<1> QED BY <1>5, <1>7

\* The last of several numbers.
LEMMA Largest ==
  ASSUME NEW S \in SUBSET Nat, IsFiniteSet(S), S # {}
  PROVE  \E i \in S : \A j \in S : j <= i
<1> DEFINE R == {p \in S \X S : p[1] > p[2]}
<1>1. Cardinality(S) \in Nat /\ Cardinality(S) # 0
  BY FS_CardinalityType, FS_EmptySet
<1>2. \A x, y \in S : x \in Nat /\ y \in Nat /\ (<<x, y>> \in R <=> x > y)
  OBVIOUS
<1> HIDE DEF R
<1>3. PICK x \in S : Under(R, S, x) = {}
  <2>1. IsOrder(R, S)
    BY <1>2 DEF IsOrder
  <2>2. 1 \in 1..Cardinality(S) /\ 1 - 1 = 0
    BY <1>1
  <2>3. PICK x \in S : Cardinality(Under(R, S, x)) = 1 - 1
    BY <2>1, <2>2, Ranked
  <2>4. IsFiniteSet(Under(R, S, x))
    BY FS_Subset DEF Under
  <2> QED BY <2>2, <2>3, <2>4, FS_EmptySet
<1>4. ASSUME NEW y \in S PROVE y <= x
  <2>1. <<y, x>> \notin R
    BY <1>3 DEF Under
  <2> QED BY <1>2, <2>1
<1> QED BY <1>4

\* Names are told apart by their rank.
LEMMA RankType ==
  /\ IsFiniteSet(Names)
  /\ \A x \in Names : Rank(x) \in 1..Len(Alphabet) /\ Alphabet[Rank(x)] = x
<1>1. Alphabet \in Seq(Names)
  BY DiscoveryAssumption DEF DiscoveryAssumption
<1>2. \A x \in Names : Rank(x) \in 1..Len(Alphabet) /\ Alphabet[Rank(x)] = x
  BY <1>1 DEF Names, Rank
<1>3. Alphabet \in Surjection(1..Len(Alphabet), Names)
  BY <1>1, <1>2 DEF Surjection
<1>4. IsFiniteSet(1..Len(Alphabet))
  BY <1>1, FS_Interval
<1> QED BY <1>2, <1>3, <1>4, FS_Surjection

\* The first of some names is one of them.
LEMMA FirstIsIn ==
  ASSUME NEW S \in SUBSET Names, S # {}
  PROVE  FirstOf(S) \in S
<1> DEFINE I == {Rank(x) : x \in S}
           J == {Len(Alphabet) - i : i \in I}
<1>1. Len(Alphabet) \in Nat /\ \A x \in S : Rank(x) \in 1..Len(Alphabet)
  BY RankType, DiscoveryAssumption DEF DiscoveryAssumption
<1>2. J \in SUBSET (0..Len(Alphabet)) /\ J # {} /\ J \in SUBSET Nat
  BY <1>1
<1>3. IsFiniteSet(J)
  <2>1. IsFiniteSet(0..Len(Alphabet))
    BY <1>1, FS_Interval
  <2> QED BY <1>2, <2>1, FS_Subset
<1>4. PICK j \in J : \A k \in J : k <= j
  BY <1>2, <1>3, Largest
<1>5. PICK x \in S : j = Len(Alphabet) - Rank(x)
  OBVIOUS
<1>6. ASSUME NEW y \in S PROVE Rank(x) <= Rank(y)
  <2>1. Len(Alphabet) - Rank(y) <= Len(Alphabet) - Rank(x)
    BY <1>4, <1>5
  <2> QED BY <1>1, <2>1
<1> QED BY <1>6 DEF FirstOf

(* ------------------------------- Packages ------------------------------- *)

\* Packing leaves every subfolder that counts as it is, and adds a file to the
\* top.
LEMMA PackedFolders ==
  ASSUME NEW t, IsTree(t)
  PROVE  /\ Visible(Packed(t)) = Visible(t) /\ Top \notin Visible(t)
         /\ \A d \in Visible(t) : FolderAt(Packed(t), d) = FolderAt(t, d)
         /\ HasStatic(Whole(Packed(t))) = HasStatic(Whole(t))
         /\ Whole(t).specs = t.top.specs
         /\ Whole(Packed(t)).specs = t.top.specs \cup {Manifest}
         /\ Packed(t).manifest = Discover(t)
<1>1. /\ Visible(Packed(t)) = Visible(t)
      /\ Packed(t).top = [t.top EXCEPT !.specs = @ \cup {Manifest}]
      /\ Packed(t).manifest = Discover(t)
      /\ t.top \in Folder
  BY DEF Packed, Visible, IsTree
<1>2. \A s \in Visible(t) : Packed(t).subs[s] = t.subs[s]
  BY DEF Packed, Visible, IsTree
<1>3. Top \notin Visible(t)
  BY DiscoveryAssumption DEF DiscoveryAssumption, Visible, IsTree
<1>4. \A d \in Visible(t) : FolderAt(Packed(t), d) = FolderAt(t, d)
  BY <1>2, <1>3 DEF FolderAt
<1>5. /\ Whole(Packed(t)).specs = t.top.specs \cup {Manifest} /\ Whole(t).specs = t.top.specs
      /\ Whole(Packed(t)).index = Whole(t).index /\ Whole(Packed(t)).meta = Whole(t).meta
  BY <1>1 DEF Whole, Folder
<1>6. Whole(Packed(t)).deep = Whole(t).deep
  <2>1. (\E s \in Visible(Packed(t)) : HasStatic(Packed(t).subs[s]))
          <=> (\E s \in Visible(t) : HasStatic(t.subs[s]))
    BY <1>1, <1>2
  <2>2. /\ Whole(t).deep = (t.top.deep \/ \E s \in Visible(t) : HasStatic(t.subs[s]))
        /\ Whole(Packed(t)).deep =
              (Packed(t).top.deep \/ \E s \in Visible(Packed(t)) : HasStatic(Packed(t).subs[s]))
    BY <1>1 DEF Whole, Folder
  <2>3. Packed(t).top.deep = t.top.deep
    BY <1>1 DEF Folder
  <2> QED BY <2>1, <2>2, <2>3
<1> QED BY <1>1, <1>3, <1>4, <1>5, <1>6 DEF HasStatic

\* A service with another spec file.
LEMMA WithSpec ==
  ASSUME NEW name, NEW d, NEW x, NEW y, NEW static, NEW configured
  PROVE  [[name |-> name, dir |-> d, spec |-> x, static |-> static,
           configured |-> configured] EXCEPT !.spec = y]
           = [name |-> name, dir |-> d, spec |-> y, static |-> static,
              configured |-> configured]
  OBVIOUS

\* One folder: what its entry says is what is made of it again, the manifest
\* apart.
LEMMA EntryMirrors ==
  ASSUME NEW t, IsTree(t), NEW d \in Visible(t) \cup {Top}, NEW name,
         Usable(FolderAt(t, d))
  PROVE  /\ FromEntry(Packed(t), Entry(t, d, name)) = AsPacked(t, FolderService(t, d, name))
         /\ Usable(FolderAt(Packed(t), d))
<1> DEFINE f == FolderAt(t, d)
           e == Entry(t, d, name)
<1>1. /\ HasStatic(f) \in BOOLEAN /\ HasStatic(FolderAt(Packed(t), d)) = HasStatic(f)
      /\ d # Top => FolderAt(Packed(t), d) = f
      /\ d = Top => FolderAt(Packed(t), d).specs = t.top.specs \cup {Manifest}
      /\ f.specs \in SUBSET Names
  BY PackedFolders DEF HasStatic, FolderAt, IsTree, Folder, Visible
<1>5. Usable(FolderAt(Packed(t), d))
  BY <1>1 DEF Usable
<1>2. /\ e.name = name /\ e.dir = d /\ e.spec = FirstOf(f.specs)
      /\ HasStatic(f) => e.mode # "spec"
      /\ ~HasStatic(f) => e.mode = "spec"
  BY DEF Entry
<1>3. CASE HasStatic(f)
  <2>1. FromEntry(Packed(t), e) = FolderService(Packed(t), d, name)
    BY <1>2, <1>3 DEF FromEntry
  <2>2. CASE d = Top
    <3> DEFINE yes == TRUE
               S   == FolderService(t, d, name)
    <3>1. FolderService(Packed(t), d, name) =
            [name |-> name, dir |-> d, spec |-> FirstOf(t.top.specs \cup {Manifest}),
             static |-> yes, configured |-> yes]
      BY <1>1, <1>3, <2>2 DEF FolderService
    <3>2. S = [name |-> name, dir |-> d, spec |-> FirstOf(f.specs), static |-> yes,
               configured |-> yes]
      BY <1>1, <1>3 DEF FolderService
    <3>3. S.dir = Top /\ S.static = TRUE
      BY <2>2, <3>2
    <3> HIDE DEF S, yes
    <3>4. [S EXCEPT !.spec = FirstOf(t.top.specs \cup {Manifest})]
            = FolderService(Packed(t), d, name)
      BY <3>1, <3>2, WithSpec
    <3>5. AsPacked(t, S) = FolderService(Packed(t), d, name)
      BY <3>1, <3>3, <3>4 DEF AsPacked
    <3> QED BY <1>5, <2>1, <3>5 DEF S
  <2>3. CASE d # Top
    BY <1>1, <2>1, <2>3 DEF FolderService, AsPacked
  <2> QED BY <2>2, <2>3
<1>4. CASE ~HasStatic(f)
  <2>1. FolderService(t, d, name) =
          [name |-> name, dir |-> d, spec |-> FirstOf(f.specs), static |-> FALSE,
           configured |-> TRUE]
    BY <1>1, <1>4 DEF FolderService
  <2>2. AsPacked(t, FolderService(t, d, name)) = FolderService(t, d, name)
    BY <2>1 DEF AsPacked
  <2>3. e.spec # None
    <3>1. FirstOf(f.specs) \in f.specs
      BY <1>1, <1>4, FirstIsIn DEF Usable
    <3> QED BY <1>1, <1>2, <3>1, DiscoveryAssumption DEF DiscoveryAssumption
  <2> QED BY <1>2, <1>4, <2>1, <2>2, <2>3, <1>5 DEF FromEntry, SpecService
<1> QED BY <1>3, <1>4, <1>5

\* A folder of services: the same folders are found when none is refused.
LEMMA RootMirrors ==
  ASSUME NEW t, IsTree(t), Discover(t) = DiscoverRoot(t), DiscoverRoot(t) # {}
  PROVE  FromManifest(Packed(t)) = {AsPacked(t, s) : s \in ResolveRoot(t)}
<1>1. \A s \in Visible(t) : Usable(t.subs[s])
  BY DEF DiscoverRoot
<1>2. DiscoverRoot(t) = {Entry(t, s, s) : s \in Visible(t)}
  BY <1>1 DEF DiscoverRoot
<1>3. ResolveRoot(t) = {FolderService(t, s, s) : s \in Visible(t)}
  BY <1>1 DEF ResolveRoot
<1>4. \A s \in Visible(t) :
        /\ FromEntry(Packed(t), Entry(t, s, s)) = AsPacked(t, FolderService(t, s, s))
        /\ Usable(FolderAt(Packed(t), Entry(t, s, s).dir))
  <2> SUFFICES ASSUME NEW s \in Visible(t)
               PROVE  /\ FromEntry(Packed(t), Entry(t, s, s)) = AsPacked(t, FolderService(t, s, s))
                      /\ Usable(FolderAt(Packed(t), Entry(t, s, s).dir))
    OBVIOUS
  <2>1. FolderAt(t, s) = t.subs[s]
    BY PackedFolders DEF FolderAt
  <2>2. Entry(t, s, s).dir = s
    BY DEF Entry
  <2> QED BY <1>1, <2>1, <2>2, EntryMirrors
<1>5. Packed(t).manifest = {Entry(t, s, s) : s \in Visible(t)}
  BY <1>2, PackedFolders
<1>6. {e \in Packed(t).manifest : \/ e.mode = "spec" /\ e.spec # None
                                  \/ Usable(FolderAt(Packed(t), e.dir))}
        = {Entry(t, s, s) : s \in Visible(t)}
  BY <1>4, <1>5
<1> QED BY <1>3, <1>4, <1>6 DEF FromManifest

\* The flat root: a spec file in the archive's root is the service again.
LEMMA FlatMirrors ==
  ASSUME NEW t, IsTree(t), Discover(t) = DiscoverFlat(t)
  PROVE  FromManifest(Packed(t)) = {AsPacked(t, s) : s \in FlatRoot(t)}
<1> DEFINE entry(s) == [name |-> s, dir |-> Top, spec |-> s, mode |-> "spec"]
<1>1. ASSUME NEW s \in t.top.specs
      PROVE  /\ FromEntry(Packed(t), entry(s)) = SpecService(Top, s, s)
             /\ AsPacked(t, SpecService(Top, s, s)) = SpecService(Top, s, s)
             /\ entry(s).mode = "spec" /\ entry(s).spec # None
  <2>1. s # None
    BY DiscoveryAssumption DEF DiscoveryAssumption, IsTree, Folder
  <2> QED BY <2>1 DEF FromEntry, AsPacked, SpecService
<1>2. Packed(t).manifest = {entry(s) : s \in t.top.specs}
  BY PackedFolders DEF DiscoverFlat
<1>3. {e \in Packed(t).manifest : \/ e.mode = "spec" /\ e.spec # None
                                  \/ Usable(FolderAt(Packed(t), e.dir))}
        = {entry(s) : s \in t.top.specs}
  BY <1>1, <1>2
<1> HIDE DEF entry
<1> QED BY <1>1, <1>3 DEF FromManifest, FlatRoot

\* A package that can be made runs the services its directory runs, but for what
\* the static files at its top are merged into, for every tree the packer reads
\* as the runtime does (discover.go 26-27).
THEOREM PackageMirrorsDirectory == \A t : IsTree(t) => MirrorsRaw(t)
<1> SUFFICES ASSUME NEW t, IsTree(t), ~HasManifest(t), ReadAlike(t), Discover(t) # {}
             PROVE  Resolve(Packed(t)) = {AsPacked(t, s) : s \in Resolve(t)}
  BY DEF MirrorsRaw
<1>0. Resolve(Packed(t)) = FromManifest(Packed(t))
  <2>1. HasManifest(Packed(t))
    BY DEF HasManifest, Packed, IsTree, Folder
  <2> QED BY <2>1 DEF Resolve
<1>1. t.wrapped \/ (ImplicitRoot(t, t.top.index \/ t.top.meta)
                     <=> ImplicitRoot(t, t.top.index))
  BY DEF ReadAlike, ImplicitRoot
<1>2. CASE t.wrapped \/ ImplicitRoot(t, t.top.index)
  <2>1. Discover(t) = DiscoverRoot(t) /\ Resolve(t) = ResolveRoot(t)
    BY <1>1, <1>2 DEF Discover, Resolve
  <2> QED BY <1>0, <2>1, RootMirrors
<1>3. CASE ~(t.wrapped \/ ImplicitRoot(t, t.top.index)) /\ ~Single(t)
  <2>1. Discover(t) = DiscoverFlat(t) /\ Resolve(t) = FlatRoot(t)
    BY <1>1, <1>3 DEF Discover, Resolve
  <2> QED BY <1>0, <2>1, FlatMirrors
<1>4. CASE ~(t.wrapped \/ ImplicitRoot(t, t.top.index)) /\ Single(t)
  <2> DEFINE name == InferName(t, ParsedName(t))
             e == Entry(t, Top, name)
  <2>1. /\ Usable(Whole(t))
        /\ Discover(t) = {e}
        /\ Resolve(t) = {FolderService(t, Top, name)}
    BY <1>1, <1>4 DEF Discover, Resolve, ReadAlike
  <2>2. /\ FromEntry(Packed(t), e) = AsPacked(t, FolderService(t, Top, name))
        /\ Usable(FolderAt(Packed(t), Top))
    BY <2>1, EntryMirrors DEF FolderAt
  <2>3. e.dir = Top /\ Packed(t).manifest = {e}
    BY <2>1, PackedFolders DEF Entry
  <2> HIDE DEF e
  <2>4. FromManifest(Packed(t)) = {FromEntry(Packed(t), e)}
    BY <2>2, <2>3 DEF FromManifest
  <2> QED BY <1>0, <2>1, <2>2, <2>4
<1> QED BY <1>2, <1>3, <1>4

(* -------------------------------- Server -------------------------------- *)

\* Resolving, reloading and editing leave the router alone; the rest are its
\* own steps.
LEMMA StepsRegister == [Next]_vars => [RegNext]_regVars
  BY DEF Next, vars, RegNext, Opening, StartGenerated, ReadService, FailService, Registering,
         WatchStart, Edit, HandleEvent, TimerFires, NoHandler, Resynthesize, Rebuild

\* What the server was started with does not change.
LEMMA InputsFixed == [Next]_vars => UNCHANGED <<args, flag, list, home>>
  BY DEF Next, vars, portVars, inputVars, Opening, StartGenerated, ReadService, FailService,
         Registering, WatchStart, Edit, HandleEvent, TimerFires, NoHandler, Resynthesize, Rebuild

\* The server keeps it.
LEMMA RegInvAlways == Spec => []RegInv
<1>1. Init => RegInv
  BY RegInvInit DEF Init
<1>2. RegInv /\ [Next]_vars => RegInv'
  BY RegInvStep, StepsRegister
<1> QED BY <1>1, <1>2, PTL DEF Spec

\* The storage is the configured one, or memory where that is allowed, for any
\* deployment (storage.go 51-53, 73-75).
THEOREM StorageHolds == Spec => []StorageAsConfigured
<1>1. RegInv => StorageAsConfigured
  BY DEF RegInv
<1> QED BY <1>1, RegInvAlways, PTL

\* Registered one at a time, services are reached where the map says they are,
\* for any list of services (router.go 90-93).
THEOREM SerialMountsHold == Spec => []SerialMounts
<1>1. RegInv => SerialMounts
  BY DEF RegInv, SerialInv
<1> QED BY <1>1, RegInvAlways, PTL

\* chi panics only on services that race for a path or spell it in two ways, or
\* on one at a path of the server's own, for any list of services, any limit and
\* any pages (router.go 92-93, 282-292).
THEOREM PanicExplained == Spec => []PanicNeedsConflict
<1>1. RegInv => PanicNeedsConflict
  BY DEF RegInv
<1> QED BY <1>1, RegInvAlways, PTL

\* A package made of an argument runs what the argument runs, but for what the
\* static files at its top are merged into, for any deployment (discover.go
\* 26-27).
THEOREM PackagesMirror == Spec => []PackedMirrorsRaw
<1> DEFINE Trees == \A k \in DOMAIN args : IsTree(args[k].tree)
<1>1. Init => Trees
  BY PortableAssumption DEF PortableAssumption, IsDeployment, IsArg, Init
<1>2. Trees /\ [Next]_vars => Trees'
  BY InputsFixed
<1>3. Trees => PackedMirrorsRaw
  BY PackageMirrorsDirectory DEF PackedMirrorsRaw
<1> QED BY <1>1, <1>2, <1>3, PTL DEF Spec

\* The root service was taken into account when the UI's place was chosen.
RootInv ==
    /\ notFound # 0 => notFound \in Services /\ confs[notFound].path = Root
    /\ Portable => /\ DOMAIN confs = DOMAIN list
                   /\ \A i \in DOMAIN list : confs[i] = ConfOf(list[i], flag)
                   /\ home \in {"none", IF ClaimsRoot(list, flag) THEN "/.ui" ELSE "/"}

\* A service at / that has no name, or was put there by --mount, is not hidden
\* by the UI, for any deployment (runner.go 123-131).
THEOREM RootIsServed == Spec => []RootServed
<1>1. Init => RootInv
  <2> SUFFICES ASSUME Init PROVE RootInv
    OBVIOUS
  <2>1. notFound = 0
    BY DEF Init, RegInit
  <2> QED BY <2>1 DEF Init, RootInv, Portable
<1>2. RootInv /\ [Next]_vars => RootInv'
  <2> SUFFICES ASSUME RootInv, [Next]_vars PROVE RootInv'
    OBVIOUS
  <2>1. [RegNext]_regVars /\ UNCHANGED <<args, flag, list, home>>
    BY StepsRegister, InputsFixed
  <2>2. confs' = confs
    BY <2>1 DEF RegNext, OpenStorage, UseMemory, OpenDriver, Install, FallBack, Unopened,
                Register, Start, GiveUp, CheckName, CheckMount, MountRoot, MountBegin,
                MountEnd, Store, regVars
  <2>3. notFound' = notFound \/ \E i \in Services : confs[i].path = Root /\ notFound' = i
    BY <2>1 DEF RegNext, OpenStorage, UseMemory, OpenDriver, Install, FallBack, Unopened,
                Register, Start, GiveUp, CheckName, CheckMount, MountRoot, MountBegin,
                MountEnd, Store, regVars
  <2> QED BY <2>1, <2>2, <2>3 DEF RootInv, Portable
<1>3. RootInv => RootServed
  <2> SUFFICES ASSUME RootInv, Portable, notFound # 0, flag = Root \/ list[notFound].name = NoName
               PROVE  home # "/"
    BY DEF RootServed
  <2>1. /\ notFound \in DOMAIN list /\ MountOf(list[notFound], flag) = Root
        /\ home \in {"none", IF ClaimsRoot(list, flag) THEN "/.ui" ELSE "/"}
    BY DEF RootInv, ConfOf
  <2>2. Root # None
    BY PortableAssumption, DiscoveryAssumption DEF PortableAssumption, DiscoveryAssumption
  <2>3. ClaimsRoot(list, flag)
    BY <2>1, <2>2 DEF ClaimsRoot, MountOf
  <2> QED BY <2>1, <2>3
<1> QED BY <1>1, <1>2, <1>3, PTL DEF Spec

(* ------------------------- The list of services ------------------------ *)

\* The folder of an argument that its file lists name by d.
FileFolder(a, d) == IF d = Top THEN a.tree.top ELSE a.tree.subs[d]

\* What an argument resolves to: services of its folders, from spec files there.
LEMMA ArgServices ==
  ASSUME NEW a, IsArg(a), NEW s \in ResolveArg(a)
  PROVE  /\ s.name \in Names \cup {NoName}
         /\ s.dir \in {Top} \cup Visible(a.tree) /\ s.static \in BOOLEAN
         /\ s.spec \in Names \cup {None}
         /\ ~s.static => s.spec \in FileFolder(a, s.dir).specs /\ s.spec \in Names
         /\ ~s.configured => ~s.static /\ s.name = s.spec
         /\ s.static /\ s.dir = Top => \A u \in Resolve(a.tree) : u.dir = Top
<1> DEFINE t == a.tree
<1>1. /\ t.top \in Folder /\ DOMAIN t.subs \subseteq Names /\ t.base \in Names \cup {NoName}
      /\ \A d \in DOMAIN t.subs : t.subs[d] \in Folder
      /\ a.bare \in t.top.specs \cup {None} /\ IsManifest(t)
  BY DEF IsArg, IsTree
<1>2. Top \notin Names /\ None \notin Names
  BY DiscoveryAssumption DEF DiscoveryAssumption
<1>3. ASSUME NEW f \in Folder
      PROVE  f.specs \in SUBSET Names /\ FirstOf(f.specs) \in Names \cup {None}
             /\ (f.specs # {} => FirstOf(f.specs) \in f.specs)
             /\ (f.config # None => f.config \in Config)
             /\ HasStatic(f) \in BOOLEAN
  <2>1. f.specs \in SUBSET Names /\ (f.config # None => f.config \in Config)
        /\ HasStatic(f) \in BOOLEAN
    BY DEF Folder, HasStatic
  <2>2. FirstOf({}) = None
    BY DEF FirstOf
  <2> QED BY <2>1, <2>2, FirstIsIn
<1>4. Whole(t) \in Folder /\ Whole(t).specs = t.top.specs /\ Whole(t).config = t.top.config
  BY <1>1 DEF Whole, Folder
<1>5. CASE a.bare # None
  <2>1. s = BareService(Top, a.bare)
    BY <1>5 DEF ResolveArg
  <2> QED BY <1>1, <1>2, <1>3, <1>5, <2>1 DEF BareService, FileFolder
<1>6. CASE a.bare = None
  <2>1. s \in Resolve(t)
    BY <1>6 DEF ResolveArg
  <2>2. ASSUME NEW d \in Visible(t)
        PROVE  d \in Names /\ d # Top /\ t.subs[d] \in Folder /\ FolderAt(t, d) = t.subs[d]
               /\ FileFolder(a, d) = t.subs[d]
    BY <1>1, <1>2 DEF Visible, FolderAt, FileFolder
  <2>3. CASE ~HasManifest(t) /\ (t.wrapped \/ ImplicitRoot(t, t.top.index \/ t.top.meta))
    <3>1. PICK d \in Visible(t) : Usable(t.subs[d]) /\ s = FolderService(t, d, d)
      BY <2>1, <2>3 DEF Resolve, ResolveRoot
    <3>2. /\ s.name = d /\ s.dir = d /\ s.static = HasStatic(t.subs[d])
          /\ s.spec = FirstOf(t.subs[d].specs) /\ s.configured = TRUE
      BY <2>2, <3>1 DEF FolderService
    <3> QED BY <1>3, <2>2, <3>1, <3>2 DEF Usable
  <2>4. CASE /\ ~HasManifest(t) /\ ~Single(t)
             /\ ~(t.wrapped \/ ImplicitRoot(t, t.top.index \/ t.top.meta))
    <3>1. PICK spec \in t.top.specs : s = SpecService(Top, spec, spec)
      BY <2>1, <2>4 DEF Resolve, FlatRoot
    <3>2. /\ s.name = spec /\ s.dir = Top /\ s.static = FALSE
          /\ s.spec = spec /\ s.configured = TRUE
      BY <3>1 DEF SpecService
    <3> QED BY <1>1, <1>3, <3>1, <3>2 DEF FileFolder
  <2>5. CASE /\ ~HasManifest(t) /\ Single(t)
             /\ ~(t.wrapped \/ ImplicitRoot(t, t.top.index \/ t.top.meta))
    <3> DEFINE name == InferName(t, ParsedName(t))
    <3>1. Resolve(t) = {FolderService(t, Top, name)} /\ Usable(Whole(t))
      BY <2>1, <2>5 DEF Resolve
    <3>2. /\ s.name = name /\ s.dir = Top /\ s.static = HasStatic(Whole(t))
          /\ s.spec = FirstOf(Whole(t).specs) /\ s.configured = TRUE
      BY <2>1, <3>1 DEF FolderService, FolderAt
    <3>3. name \in Names \cup {NoName}
      <4>1. t.top.specs \ {Generic} \in SUBSET Names
        BY <1>1, <1>3
      <4>2. FirstOf(t.top.specs \ {Generic}) \in Names \cup {None}
        BY <4>1, FirstIsIn DEF FirstOf
      <4>3. t.top.config # None => t.top.config.name \in Names \cup {NoName}
        BY <1>1, <1>3 DEF Config
      <4> QED BY <1>1, <4>2, <4>3 DEF InferName, ParsedName
    <3>4. \A u \in Resolve(t) : u.dir = Top
      BY <3>1 DEF FolderService
    <3> QED BY <1>3, <1>4, <3>1, <3>2, <3>3, <3>4 DEF Usable, FileFolder
  <2>6. CASE HasManifest(t)
    <3>1. PICK e \in t.manifest :
            /\ s = FromEntry(t, e)
            /\ (e.mode = "spec" /\ e.spec # None) \/ Usable(FolderAt(t, e.dir))
      BY <2>1, <2>6 DEF Resolve, FromManifest
    <3>2. /\ e.name \in Names \cup {NoName} /\ e.dir \in {Top} \cup Visible(t)
          /\ e.spec # None => e.spec \in FileFolder(a, e.dir).specs
          /\ FileFolder(a, e.dir) \in Folder
          /\ FolderAt(t, e.dir) \in Folder
          /\ FolderAt(t, e.dir).specs = FileFolder(a, e.dir).specs
      BY <1>1, <1>4, <2>2 DEF IsManifest, Entries, FileFolder, FolderAt
    <3>3. \A u \in Resolve(t) : \E g \in t.manifest : u = FromEntry(t, g)
      BY <2>6 DEF Resolve, FromManifest
    <3>4. \A g \in t.manifest : FromEntry(t, g).dir = g.dir
      BY DEF FromEntry, SpecService, FolderService
    <3>5. s.static /\ s.dir = Top => \A u \in Resolve(t) : u.dir = Top
      <4> SUFFICES ASSUME s.static, s.dir = Top PROVE \A u \in Resolve(t) : u.dir = Top
        OBVIOUS
      <4>1. e.dir = Top /\ ~(e.mode = "spec" /\ e.spec # None)
        BY <3>1, <3>4 DEF FromEntry, SpecService
      <4>2. \A g \in t.manifest : g = e
        BY <1>1, <4>1 DEF IsManifest
      <4> QED BY <3>3, <3>4, <4>1, <4>2
    <3>6. CASE e.mode = "spec" /\ e.spec # None
      <4>1. /\ s.name = e.name /\ s.dir = e.dir /\ s.static = FALSE
            /\ s.spec = e.spec /\ s.configured = TRUE
        BY <3>1, <3>6 DEF FromEntry, SpecService
      <4>2. e.spec \in Names
        BY <1>3, <3>2, <3>6
      <4> QED BY <3>2, <3>5, <3>6, <4>1, <4>2
    <3>7. CASE ~(e.mode = "spec" /\ e.spec # None)
      <4>1. /\ s.name = e.name /\ s.dir = e.dir /\ s.static = HasStatic(FolderAt(t, e.dir))
            /\ s.spec = FirstOf(FolderAt(t, e.dir).specs) /\ s.configured = TRUE
        BY <3>1, <3>7 DEF FromEntry, FolderService
      <4> QED BY <1>3, <3>1, <3>2, <3>5, <3>7, <4>1 DEF Usable
    <3> QED BY <3>6, <3>7
  <2> QED BY <2>3, <2>4, <2>5, <2>6
<1> QED BY <1>5, <1>6

\* Its services are told apart by the keys they are listed by.
LEMMA ArgKeys ==
  ASSUME NEW a, IsArg(a), NEW s \in ResolveArg(a), NEW u \in ResolveArg(a)
  PROVE  Key(s) \in 0..Len(Alphabet) /\ (Key(s) = Key(u) => s = u)
<1> DEFINE t == a.tree
<1>1. Top \notin Names /\ None \notin Names /\ Len(Alphabet) \in Nat
  BY DiscoveryAssumption DEF DiscoveryAssumption
<1>2. Visible(t) \subseteq Names /\ t.top.specs \subseteq Names
  BY DEF IsArg, IsTree, Visible, Folder
<1>3. \A x, y \in Names : Rank(x) \in 1..Len(Alphabet) /\ (Rank(x) = Rank(y) => x = y)
  BY RankType
<1>4. Key(s) \in 0..Len(Alphabet)
  BY <1>1, <1>2, <1>3, ArgServices DEF Key
<1>5. CASE a.bare # None
  BY <1>4, <1>5 DEF ResolveArg
<1>6. CASE a.bare = None
  <2>1. s \in Resolve(t) /\ u \in Resolve(t)
    BY <1>6 DEF ResolveArg
  <2>2. CASE ~HasManifest(t) /\ (t.wrapped \/ ImplicitRoot(t, t.top.index \/ t.top.meta))
    <3>1. PICK d \in Visible(t) : s = FolderService(t, d, d)
      BY <2>1, <2>2 DEF Resolve, ResolveRoot
    <3>2. PICK e \in Visible(t) : u = FolderService(t, e, e)
      BY <2>1, <2>2 DEF Resolve, ResolveRoot
    <3>3. Key(s) = Rank(d) /\ Key(u) = Rank(e) /\ d \in Names /\ e \in Names
      BY <1>1, <1>2, <3>1, <3>2 DEF Key, FolderService
    <3> QED BY <1>3, <1>4, <3>1, <3>2, <3>3
  <2>3. CASE /\ ~HasManifest(t) /\ ~Single(t)
             /\ ~(t.wrapped \/ ImplicitRoot(t, t.top.index \/ t.top.meta))
    <3>1. PICK p \in t.top.specs : s = SpecService(Top, p, p)
      BY <2>1, <2>3 DEF Resolve, FlatRoot
    <3>2. PICK q \in t.top.specs : u = SpecService(Top, q, q)
      BY <2>1, <2>3 DEF Resolve, FlatRoot
    <3>3. Key(s) = Rank(p) /\ Key(u) = Rank(q) /\ p \in Names /\ q \in Names
      BY <1>1, <1>2, <3>1, <3>2 DEF Key, SpecService
    <3> QED BY <1>3, <1>4, <3>1, <3>2, <3>3
  <2>4. CASE /\ ~HasManifest(t) /\ Single(t)
             /\ ~(t.wrapped \/ ImplicitRoot(t, t.top.index \/ t.top.meta))
    BY <1>4, <2>1, <2>4 DEF Resolve
  <2>5. CASE HasManifest(t)
    <3>1. PICK e \in t.manifest : s = FromEntry(t, e)
      BY <2>1, <2>5 DEF Resolve, FromManifest
    <3>2. PICK g \in t.manifest : u = FromEntry(t, g)
      BY <2>1, <2>5 DEF Resolve, FromManifest
    <3>3. IsManifest(t) /\ t.top.specs \subseteq Names
      BY <1>2 DEF IsArg, IsTree
    <3>4. CASE \E x \in Entries : t.manifest \subseteq {x}
      BY <1>4, <3>1, <3>2, <3>4
    <3>5. CASE \A x \in t.manifest :
                  x.dir = Top /\ x.mode = "spec" /\ x.spec # None /\ x.name = x.spec
      <4>1. e.spec \in Names /\ g.spec \in Names
        BY <3>3, <3>5 DEF IsManifest
      <4>2. s = SpecService(Top, e.spec, e.spec) /\ u = SpecService(Top, g.spec, g.spec)
        BY <3>1, <3>2, <3>5 DEF FromEntry
      <4>3. Key(s) = Rank(e.spec) /\ Key(u) = Rank(g.spec)
        BY <1>1, <4>1, <4>2 DEF Key, SpecService
      <4> QED BY <1>3, <1>4, <4>1, <4>2, <4>3
    <3>6. CASE \A x, y \in t.manifest : x.dir # Top /\ (x.dir = y.dir => x = y)
      <4>1. e.dir \in Names /\ g.dir \in Names
        BY <1>2, <3>3, <3>6 DEF IsManifest
      <4>2. s.dir = e.dir /\ u.dir = g.dir
        BY <3>1, <3>2 DEF FromEntry, SpecService, FolderService
      <4>3. Key(s) = Rank(e.dir) /\ Key(u) = Rank(g.dir)
        BY <3>6, <4>2 DEF Key
      <4>4. Key(s) = Key(u) => s = u
        BY <1>3, <3>1, <3>2, <3>6, <4>1, <4>3
      <4> QED BY <1>4, <4>4
    <3> QED BY <3>3, <3>4, <3>5, <3>6 DEF IsManifest
  <2> QED BY <2>2, <2>3, <2>4, <2>5
<1> QED BY <1>5, <1>6

\* Command lines.
IsCommand(as) ==
    /\ Len(as) \in Nat /\ DOMAIN as = 1..Len(as)
    /\ \A k \in DOMAIN as : IsArg(as[k])

\* All arguments' services are told apart so, and there are finitely many.
LEMMA FoundOrder ==
  ASSUME NEW as, IsCommand(as)
  PROVE  /\ IsFiniteSet(Found(as))
         /\ IsOrder({p \in Found(as) \X Found(as) : Before(p[1], p[2])}, Found(as))
<1> DEFINE F == Found(as)
           R == {p \in F \X F : Before(p[1], p[2])}
           K == (1..Len(as)) \X (0..Len(Alphabet))
           key == [x \in F |-> <<x[1], Key(x[2])>>]
<1> HIDE DEF F, R, K, key
<1>1. Len(as) \in Nat /\ Len(Alphabet) \in Nat
  <2>1. Len(as) \in Nat
    BY DEF IsCommand
  <2>2. Len(Alphabet) \in Nat
    BY DiscoveryAssumption DEF DiscoveryAssumption
  <2> QED BY <2>1, <2>2
<1>2. ASSUME NEW x \in F
      PROVE  /\ x = <<x[1], x[2]>> /\ x[1] \in 1..Len(as) /\ IsArg(as[x[1]])
             /\ x[2] \in ResolveArg(as[x[1]]) /\ Key(x[2]) \in 0..Len(Alphabet)
             /\ x[1] \in Nat /\ Key(x[2]) \in Nat
  <2>1. PICK k \in DOMAIN as : \E s \in ResolveArg(as[k]) : x = <<k, s>>
    BY DEF F, Found
  <2>2. PICK s \in ResolveArg(as[k]) : x = <<k, s>>
    BY <2>1
  <2>3. IsArg(as[k]) /\ k \in 1..Len(as)
    BY DEF IsCommand
  <2>4. Key(s) \in 0..Len(Alphabet)
    BY <2>3, ArgKeys
  <2>5. k \in Nat /\ Key(s) \in Nat
    BY <1>1, <2>3, <2>4
  <2> QED BY <2>2, <2>3, <2>4, <2>5
<1>3. ASSUME NEW x \in F, NEW y \in F, x[1] = y[1], Key(x[2]) = Key(y[2])
      PROVE  x = y
  <2> DEFINE a == as[x[1]]
             s == x[2]
             u == y[2]
  <2>1. IsArg(a) /\ s \in ResolveArg(a) /\ u \in ResolveArg(a) /\ Key(s) = Key(u)
    BY <1>2, <1>3
  <2> HIDE DEF a, s, u
  <2>2. s = u
    BY <2>1, ArgKeys
  <2> QED BY <1>2, <1>3, <2>2 DEF s, u
<1>4. key \in Injection(F, K)
  <2>1. key \in [F -> K]
    BY <1>2 DEF key, K
  <2>2. \A x, y \in F : key[x] = key[y] => x = y
    BY <1>3 DEF key
  <2> QED BY <2>1, <2>2 DEF Injection, IsInjective
<1>5. IsFiniteSet(1..Len(as)) /\ IsFiniteSet(0..Len(Alphabet))
  <2>1. 0 \in Int /\ 1 \in Int /\ Len(as) \in Int /\ Len(Alphabet) \in Int
    BY <1>1
  <2> QED BY <2>1, FS_Interval
<1>6. IsFiniteSet(K)
  BY <1>5, FS_Product DEF K
<1>7. IsFiniteSet(F)
  BY <1>4, <1>6, FS_Injection
<1>8. \A x, y \in F : <<x, y>> \in R <=> Before(x, y)
  BY DEF R
<1>9. \A x \in F : x[1] \in Nat /\ Key(x[2]) \in Nat
  BY <1>2
<1>10. IsOrder(R, F)
  <2>1. \A x \in F : ~Before(x, x)
    BY <1>9 DEF Before
  <2>2. \A x, y, z \in F : Before(x, y) /\ Before(y, z) => Before(x, z)
    BY <1>9 DEF Before
  <2>3. \A x, y \in F : x # y => Before(x, y) \/ Before(y, x)
    BY <1>3, <1>9 DEF Before
  <2> QED BY <1>8, <2>1, <2>2, <2>3 DEF IsOrder
<1> QED BY <1>7, <1>10 DEF F, R

\* What is listed is what was found.
LEMMA ListedFound ==
  ASSUME NEW as, IsCommand(as)
  PROVE  /\ Len(Listed(as)) \in Nat /\ DOMAIN Listed(as) = 1..Len(Listed(as))
         /\ \A i \in DOMAIN Listed(as) : \E k \in DOMAIN as : \E s \in ResolveArg(as[k]) :
               /\ Listed(as)[i].at = as[k].at /\ Listed(as)[i].name = s.name
               /\ Listed(as)[i].dir = s.dir /\ Listed(as)[i].spec = s.spec
               /\ Listed(as)[i].static = s.static
               /\ Listed(as)[i].configured = s.configured
<1> DEFINE F     == Found(as)
           R     == {p \in F \X F : Before(p[1], p[2])}
           At(i) == CHOOSE x \in F : Cardinality({y \in F : Before(y, x)}) = i - 1
<1>1. IsFiniteSet(F) /\ IsOrder(R, F)
  BY FoundOrder
<1>2. Cardinality(F) \in Nat
  BY <1>1, FS_CardinalityType
<1>3. DOMAIN Listed(as) = 1..Cardinality(F) /\ Len(Listed(as)) = Cardinality(F)
  BY <1>2 DEF Listed
<1>4. ASSUME NEW i \in 1..Cardinality(F) PROVE At(i) \in F
  <2>1. PICK x \in F : Cardinality(Under(R, F, x)) = i - 1
    <3> HIDE DEF F, R
    <3> QED BY <1>1, Ranked
  <2>2. Under(R, F, x) = {y \in F : Before(y, x)}
    <3> HIDE DEF F
    <3> QED BY DEF Under
  <2> QED BY <2>1, <2>2
<1>5. ASSUME NEW i \in 1..Cardinality(F)
      PROVE  /\ Listed(as)[i].at = as[At(i)[1]].at /\ Listed(as)[i].name = At(i)[2].name
             /\ Listed(as)[i].dir = At(i)[2].dir /\ Listed(as)[i].spec = At(i)[2].spec
             /\ Listed(as)[i].static = At(i)[2].static
             /\ Listed(as)[i].configured = At(i)[2].configured
  <2> DEFINE config == IF At(i)[2].configured
                       THEN (IF At(i)[2].dir = Top THEN as[At(i)[1]].tree.top
                             ELSE as[At(i)[1]].tree.subs[At(i)[2].dir]).config
                       ELSE None
  <2>1. Listed(as)[i] =
          [at |-> as[At(i)[1]].at, clean |-> as[At(i)[1]].clean,
           name |-> At(i)[2].name, dir |-> At(i)[2].dir,
           spec |-> At(i)[2].spec, static |-> At(i)[2].static,
           configured |-> At(i)[2].configured, config |-> config]
    BY DEF Listed
  <2> HIDE DEF At, config
  <2> QED BY <2>1
<1>6. ASSUME NEW x \in F PROVE x[1] \in DOMAIN as /\ x[2] \in ResolveArg(as[x[1]])
  <2>1. PICK k \in DOMAIN as : \E s \in ResolveArg(as[k]) : x = <<k, s>>
    BY DEF Found
  <2>2. PICK s \in ResolveArg(as[k]) : x = <<k, s>>
    BY <2>1
  <2> QED BY <2>2
<1> HIDE DEF F, At
<1> QED BY <1>2, <1>3, <1>4, <1>5, <1>6

\* The list is what the arguments resolve to, and the router registers it.
InputInv ==
    /\ list = Listed(args) /\ IsCommand(args)
    /\ \A k, l \in DOMAIN args : args[k].at = args[l].at => args[k].tree = args[l].tree
    /\ Portable => Services = DOMAIN list

\* A listed service comes from an argument.
LEMMA Origin ==
  ASSUME InputInv, NEW i \in DOMAIN list
  PROVE  \E k \in DOMAIN args : \E s \in ResolveArg(args[k]) :
            /\ list[i].at = args[k].at /\ list[i].name = s.name /\ list[i].dir = s.dir
            /\ list[i].spec = s.spec /\ list[i].static = s.static
            /\ list[i].configured = s.configured /\ IsArg(args[k])
<1>1. IsCommand(args) /\ list = Listed(args) /\ \A k \in DOMAIN args : IsArg(args[k])
  BY DEF InputInv, IsCommand
<1> QED BY <1>1, ListedFound

\* The list of services is one, and empty without arguments.
LEMMA ListType ==
  ASSUME InputInv
  PROVE  /\ Len(list) \in Nat /\ DOMAIN list = 1..Len(list) /\ IsFiniteSet(DOMAIN list)
         /\ ~Portable => DOMAIN list = {}
<1>1. Len(list) \in Nat /\ DOMAIN list = 1..Len(list)
  BY ListedFound DEF InputInv
<1>2. 1 \in Int /\ Len(list) \in Int
  BY <1>1
<1>3. IsFiniteSet(DOMAIN list)
  BY <1>1, <1>2, FS_Interval
<1>4. ~Portable => DOMAIN list = {}
  BY Origin DEF Portable
<1> QED BY <1>1, <1>3, <1>4

\* What a listed service is: its spec file is there, a spec file given by
\* itself is called what its service is called, and the services of a
\* directory that is one static service are in that directory.
LEMMA ListFacts ==
  ASSUME InputInv, NEW i \in DOMAIN list
  PROVE  /\ list[i].name \in ServiceNames /\ list[i].static \in BOOLEAN
         /\ ~list[i].static => list[i].spec \in Names /\ SpecFile(i) \in Files
         /\ ~list[i].configured => ~list[i].static /\ list[i].name = list[i].spec
         /\ Material(i) \subseteq Files /\ Settings(i) \subseteq Files
         /\ list[i].static /\ list[i].dir = Top =>
              \A j \in DOMAIN list : list[j].at = list[i].at => list[j].dir = Top
<1>1. PICK k \in DOMAIN args : \E s \in ResolveArg(args[k]) :
            /\ list[i].at = args[k].at /\ list[i].name = s.name /\ list[i].dir = s.dir
            /\ list[i].spec = s.spec /\ list[i].static = s.static
            /\ list[i].configured = s.configured /\ IsArg(args[k])
  BY Origin
<1>2. PICK s \in ResolveArg(args[k]) :
            /\ list[i].at = args[k].at /\ list[i].name = s.name /\ list[i].dir = s.dir
            /\ list[i].spec = s.spec /\ list[i].static = s.static
            /\ list[i].configured = s.configured /\ IsArg(args[k])
  BY <1>1
<1> DEFINE a == args[k]
<1>3. /\ s.name \in Names \cup {NoName}
      /\ s.dir \in {Top} \cup Visible(a.tree) /\ s.static \in BOOLEAN
      /\ ~s.static => s.spec \in FileFolder(a, s.dir).specs /\ s.spec \in Names
      /\ ~s.configured => ~s.static /\ s.name = s.spec
      /\ s.static /\ s.dir = Top => \A u \in Resolve(a.tree) : u.dir = Top
  BY <1>2, ArgServices
<1>4. FilesIn(a, s.dir) \subseteq Files
  BY <1>3 DEF Files
<1>5. {<<a.at, s.dir, f>> : f \in FileFolder(a, s.dir).specs \cup {"config", "context"}}
         \subseteq FilesIn(a, s.dir)
  BY DEF FilesIn, InFolder, FileFolder
<1>6. SpecFile(i) = <<a.at, s.dir, s.spec>> /\ Settings(i) \subseteq Files
  BY <1>2, <1>4, <1>5 DEF SpecFile, Settings
<1>7. ~s.static => SpecFile(i) \in Files
  BY <1>3, <1>4, <1>5, <1>6
<1>8. Material(i) \subseteq Files
  BY <1>2, <1>7 DEF Material, Scanned
<1>9. ASSUME list[i].static, list[i].dir = Top, NEW j \in DOMAIN list, list[j].at = list[i].at
      PROVE  list[j].dir = Top
  <2>1. PICK l \in DOMAIN args : \E u \in ResolveArg(args[l]) :
            list[j].at = args[l].at /\ list[j].dir = u.dir /\ IsArg(args[l])
    BY Origin
  <2>2. PICK u \in ResolveArg(args[l]) : list[j].dir = u.dir
    BY <2>1
  <2>3. args[l].tree = a.tree
    BY <1>2, <1>9, <2>1 DEF InputInv
  <2>4. CASE args[l].bare = None
    BY <1>2, <1>3, <1>9, <2>2, <2>3, <2>4 DEF ResolveArg
  <2>5. CASE args[l].bare # None
    BY <2>2, <2>5 DEF ResolveArg, BareService
  <2> QED BY <2>4, <2>5
<1>10. list[i].name \in ServiceNames
  BY <1>2, <1>3, PortableAssumption DEF PortableAssumption
<1> QED BY <1>2, <1>3, <1>6, <1>7, <1>8, <1>9, <1>10

\* Where a service's files are.
LEMMA SourcePlaces ==
  ASSUME InputInv, NEW i \in DOMAIN list, NEW f \in Sources(i)
  PROVE  /\ f[1] = list[i].at /\ (f[2] = list[i].dir \/ (list[i].static /\ list[i].dir = Top))
         /\ \A j \in DOMAIN list : <<f[1], f[2]>> = Place(j) => <<f[1], f[2]>> = Place(i)
<1>1. f[1] = list[i].at /\ (f[2] = list[i].dir \/ (list[i].static /\ list[i].dir = Top))
  BY ListFacts DEF Sources, Material, Settings, Scanned, SpecFile
<1>2. ASSUME NEW j \in DOMAIN list, <<f[1], f[2]>> = Place(j) PROVE <<f[1], f[2]>> = Place(i)
  <2>1. f[1] = list[j].at /\ f[2] = list[j].dir
    BY <1>2 DEF Place
  <2>2. f[2] = list[i].dir
    BY <1>1, <2>1, ListFacts
  <2> QED BY <1>1, <2>2 DEF Place
<1> QED BY <1>1, <1>2

\* The last service of a name.
LEMMA LastIsNamed ==
  ASSUME InputInv, NEW I \in SUBSET DOMAIN list, NEW n
  PROVE  /\ LastNamed(I, n) # 0 => LastNamed(I, n) \in I /\ list[LastNamed(I, n)].name = n
         /\ LastNamed(I, n) = 0 => \A i \in I : list[i].name # n
<1> DEFINE S == {i \in I : list[i].name = n}
<1>1. S \in SUBSET DOMAIN list /\ DOMAIN list \in SUBSET (Nat \ {0}) /\ IsFiniteSet(DOMAIN list)
  BY ListType
<1>2. IsFiniteSet(S) /\ S \in SUBSET Nat /\ 0 \notin S
  BY <1>1, FS_Subset
<1>3. S # {} => \E i \in S : \A j \in S : j <= i
  BY <1>2, Largest
<1>4. S # {} => LastNamed(I, n) \in S
  BY <1>3 DEF LastNamed
<1>5. S = {} => LastNamed(I, n) = 0
  BY DEF LastNamed
<1> QED BY <1>2, <1>4, <1>5

\* An undisturbed service is found by its name.
LEMMA OwnName ==
  ASSUME InputInv, NEW i \in DOMAIN list, Undisturbed(i)
  PROVE  /\ ByName(list[i].name) = i
         /\ LastNamed(Bare, list[i].name) = IF list[i].configured THEN 0 ELSE i
         /\ \A j \in DOMAIN list : list[j].name = list[i].name => j = i
<1>1. \A j \in DOMAIN list : list[j].name = list[i].name => j = i
  BY DEF Undisturbed
<1>2. Bare \in SUBSET DOMAIN list /\ (i \in Bare <=> ~list[i].configured)
  BY DEF Bare
<1>3. ByName(list[i].name) = i
  BY <1>1, LastIsNamed DEF ByName
<1>4. LastNamed(Bare, list[i].name) = IF list[i].configured THEN 0 ELSE i
  BY <1>1, <1>2, LastIsNamed
<1> QED BY <1>1, <1>3, <1>4

\* A name filterBareSpecs leaves in an event's list.
Kept(n, f) == LET i == LastNamed(Bare, n) IN i = 0 \/ list[i].spec = f[3]

\* A filtered list has what it should.
HasKept(w, names, f) ==
    \A m \in DOMAIN names : Kept(names[m], f) => \E k \in DOMAIN w : w[k] = names[m]

\* What is left of a list is what it leaves, in its order.
LEMMA WantedKept ==
  ASSUME NEW T, NEW names \in Seq(T), NEW f
  PROVE  /\ Wanted(names, f) \in Seq(T) /\ Len(Wanted(names, f)) <= Len(names)
         /\ \A k \in DOMAIN Wanted(names, f) : \E m \in DOMAIN names :
               Wanted(names, f)[k] = names[m] /\ Kept(names[m], f)
         /\ HasKept(Wanted(names, f), names, f)
<1> DEFINE M     == {m \in DOMAIN names : Kept(names[m], f)}
           At(k) == CHOOSE m \in M : Cardinality({l \in M : l < m}) = k - 1
<1>1. Wanted(names, f) = [k \in 1..Cardinality(M) |-> names[At(k)]]
  BY DEF Wanted, Kept
<1> HIDE DEF M
<1>2. M \in SUBSET DOMAIN names /\ DOMAIN names = 1..Len(names) /\ Len(names) \in Nat
  BY DEF M
<1>3. IsFiniteSet(1..Len(names)) /\ Cardinality(1..Len(names)) = Len(names)
  <2>1. 1 \in Int /\ Len(names) \in Int
    BY <1>2
  <2>2. /\ IsFiniteSet(1..Len(names))
        /\ Cardinality(1..Len(names)) = IF 1 > Len(names) THEN 0 ELSE Len(names) - 1 + 1
    BY <2>1, FS_Interval
  <2> QED BY <1>2, <2>2
<1>4. IsFiniteSet(M) /\ Cardinality(M) <= Len(names) /\ M \in SUBSET Nat
  BY <1>2, <1>3, FS_Subset
<1>5. Cardinality(M) \in Nat
  BY <1>4, FS_CardinalityType
<1>6. \A k \in 1..Cardinality(M) : At(k) \in M
  BY <1>4, Nth
<1>7. \A m \in M : \E k \in 1..Cardinality(M) : m = At(k)
  BY <1>4, Turn
<1> HIDE DEF At
<1>8. \A m \in M : names[m] \in T
  BY <1>2
<1>9. Wanted(names, f) \in Seq(T) /\ Len(Wanted(names, f)) = Cardinality(M)
      /\ DOMAIN Wanted(names, f) = 1..Cardinality(M)
  BY <1>1, <1>5, <1>6, <1>8
<1>10. ASSUME NEW k \in DOMAIN Wanted(names, f)
       PROVE  \E m \in DOMAIN names : Wanted(names, f)[k] = names[m] /\ Kept(names[m], f)
  <2>1. Wanted(names, f)[k] = names[At(k)] /\ At(k) \in M
    BY <1>1, <1>6, <1>9
  <2> QED BY <2>1 DEF M
<1>11. ASSUME NEW m \in DOMAIN names, Kept(names[m], f)
       PROVE  \E k \in DOMAIN Wanted(names, f) : Wanted(names, f)[k] = names[m]
  <2>1. PICK k \in 1..Cardinality(M) : m = At(k)
    BY <1>7, <1>11 DEF M
  <2> QED BY <1>1, <1>9, <2>1
<1> QED BY <1>4, <1>9, <1>10, <1>11 DEF HasKept

(* -------------------------------- Events ------------------------------- *)

\* Its directory's list has its name, and only names of services there.
Routed(i) ==
    watching =>
        /\ \E m \in DOMAIN routes[Place(i)] : routes[Place(i)][m] = list[i].name
        /\ \A m \in DOMAIN routes[Place(i)] : \E j \in DOMAIN list :
              Place(j) = Place(i) /\ list[j].name = routes[Place(i)][m]
        /\ Len(routes[Place(i)]) > 1 =>
              ListedTwice(i) \/ \E j \in DOMAIN list \ {i} : Place(j) = Place(i)

\* Who is m-th in a directory.
HereAt(p, m) == CHOOSE x \in Here(p) : Cardinality({y \in Here(p) : Above(y, x)}) = m - 1

\* A directory's services have a place each, or two.
LEMMA Hosts ==
  ASSUME InputInv, Services = DOMAIN list, NEW p
  PROVE  /\ IsFiniteSet(Here(p)) /\ Cardinality(Here(p)) \in Nat
         /\ \A m \in 1..Cardinality(Here(p)) : HereAt(p, m) \in Here(p)
         /\ \A x \in Here(p) : \E m \in 1..Cardinality(Here(p)) : x = HereAt(p, m)
         /\ \A x \in Here(p) : /\ x[1] \in DOMAIN list /\ Place(x[1]) = p
                               /\ x[2] \in {1, 2} /\ x = <<x[1], x[2]>>
<1> DEFINE H == Here(p)
           R == {q \in H \X H : Above(q[1], q[2])}
<1>1. \A x \in H : /\ x[1] \in DOMAIN list /\ Place(x[1]) = p
                   /\ x[2] \in {1, 2} /\ x = <<x[1], x[2]>>
  BY DEF Here
<1>2. IsFiniteSet(H)
  <2>1. IsFiniteSet({1, 2}) /\ IsFiniteSet(DOMAIN list)
    <3>1. IsFiniteSet(1..2)
      <4>1. 1 \in Int /\ 2 \in Int
        OBVIOUS
      <4> QED BY <4>1, FS_Interval
    <3>2. 1..2 = {1, 2}
      OBVIOUS
    <3> QED BY <3>1, <3>2, ListType
  <2>2. IsFiniteSet((DOMAIN list) \X {1, 2})
    BY <2>1, FS_Product
  <2>3. H \in SUBSET ((DOMAIN list) \X {1, 2})
    BY DEF Here
  <2> QED BY <2>2, <2>3, FS_Subset
<1>3. Cardinality(H) \in Nat
  BY <1>2, FS_CardinalityType
<1>4. \A x \in H : x[1] \in Nat /\ x[2] \in Nat /\ x = <<x[1], x[2]>>
  BY <1>1, ListType
<1> HIDE DEF H
<1>5. \A x, y \in H : <<x, y>> \in R <=> Above(x, y)
  OBVIOUS
<1> HIDE DEF R
<1>6. IsOrder(R, H)
  <2>1. \A x \in H : ~Above(x, x)
    BY <1>4 DEF Above
  <2>2. \A x, y, z \in H : Above(x, y) /\ Above(y, z) => Above(x, z)
    BY <1>4 DEF Above
  <2>3. ASSUME NEW x \in H, NEW y \in H, x # y PROVE Above(x, y) \/ Above(y, x)
    <3>1. x[1] # y[1] \/ x[2] # y[2]
      BY <1>4, <2>3
    <3> QED BY <1>4, <3>1 DEF Above
  <2> QED BY <1>5, <2>1, <2>2, <2>3 DEF IsOrder
<1>7. \A x \in H : Under(R, H, x) = {y \in H : Above(y, x)}
  BY <1>5 DEF Under
<1>8. ASSUME NEW m \in 1..Cardinality(H) PROVE HereAt(p, m) \in H
  <2>1. \E x \in H : Cardinality(Under(R, H, x)) = m - 1
    BY <1>2, <1>6, Ranked
  <2>2. \E x \in H : Cardinality({y \in H : Above(y, x)}) = m - 1
    BY <1>7, <2>1
  <2> QED BY <2>2 DEF HereAt, H
<1>9. ASSUME NEW x \in H PROVE \E m \in 1..Cardinality(H) : x = HereAt(p, m)
  <2>1. PICK m \in 1..Cardinality(H) :
           /\ Cardinality(Under(R, H, x)) = m - 1
           /\ \A y \in H : Cardinality(Under(R, H, y)) = m - 1 => y = x
    BY <1>2, <1>6, Placed
  <2>2. /\ Cardinality({y \in H : Above(y, x)}) = m - 1
        /\ \A z \in H : Cardinality({y \in H : Above(y, z)}) = m - 1 => z = x
    BY <1>7, <2>1
  <2>3. x = HereAt(p, m)
    BY <2>2 DEF HereAt, H
  <2> QED BY <2>3
<1> QED BY <1>1, <1>2, <1>3, <1>8, <1>9 DEF H

\* A name that is left in is left in wherever it is.
LEMMA WantedHas ==
  ASSUME NEW T, NEW names \in Seq(T), NEW f, NEW m \in DOMAIN names, Kept(names[m], f)
  PROVE  \E k \in DOMAIN Wanted(names, f) : Wanted(names, f)[k] = names[m]
<1>1. HasKept(Wanted(names, f), names, f)
  BY WantedKept
<1> QED BY <1>1 DEF HasKept

\* What matchServices answers is from the directory's list.
LEMMA MatchesOf ==
  ASSUME NEW f, NEW names, names = routes[<<f[1], f[2]>>], names \in Seq(ServiceNames)
  PROVE  /\ Matches(f) \in Seq(ServiceNames)
         /\ Matches(f) = names \/ (Len(names) > 1 /\ f[3] \in Names)
         /\ Len(names) > 1 /\ f[3] \in Names => Matches(f) # names
         /\ Len(names) > 1 /\ f[3] \in Names /\ (\E m \in DOMAIN names : names[m] = f[3]) =>
              Matches(f) = <<f[3]>>
<1>1. CASE ~(Len(names) > 1 /\ f[3] \in Names)
  <2>1. Len(names) \in Nat
    OBVIOUS
  <2> QED BY <1>1, <2>1 DEF Matches
<1>2. CASE Len(names) > 1 /\ f[3] \in Names /\ \E m \in DOMAIN names : names[m] = f[3]
  <2>1. Matches(f) = <<f[3]>>
    BY <1>2 DEF Matches
  <2>2. f[3] \in ServiceNames
    BY <1>2
  <2>3. Len(Matches(f)) = 1 /\ Matches(f) \in Seq(ServiceNames)
    BY <2>1, <2>2
  <2>4. ASSUME Matches(f) = names PROVE FALSE
    BY <1>2, <2>3, <2>4
  <2> QED BY <1>2, <2>1, <2>3, <2>4
<1>3. CASE Len(names) > 1 /\ f[3] \in Names /\ ~\E m \in DOMAIN names : names[m] = f[3]
  <2>1. Matches(f) = <<>>
    BY <1>3 DEF Matches
  <2> QED BY <1>3, <2>1
<1> QED BY <1>1, <1>2, <1>3

\* An undisturbed service is in its directory's list; who shares the directory
\* with it is like it.
LEMMA Shared ==
  ASSUME InputInv, NEW i \in DOMAIN list, Undisturbed(i), Routed(i), watching,
         Len(routes[Place(i)]) > 1
  PROVE  /\ ~list[i].static /\ list[i].name = list[i].spec
         /\ \A j \in DOMAIN list : Place(j) = Place(i) =>
               (list[j].configured <=> list[i].configured)
<1>1. ListedTwice(i) \/ \E j \in DOMAIN list \ {i} : Place(j) = Place(i)
  BY DEF Routed
<1> QED BY <1>1 DEF Undisturbed, ListedTwice

\* A saved file of an undisturbed service reaches it.
LEMMA EventReaches ==
  ASSUME InputInv, NEW i \in DOMAIN list, Undisturbed(i), Routed(i), watching,
         routes[Place(i)] \in Seq(ServiceNames),
         NEW f \in Sources(i), <<f[1], f[2]>> = Place(i)
  PROVE  \E k \in DOMAIN Wanted(Matches(f), f) : Wanted(Matches(f), f)[k] = list[i].name
<1> DEFINE n     == list[i].name
           names == routes[Place(i)]
<1>1. PICK m \in DOMAIN names : names[m] = n
  BY DEF Routed
<1>2. Names \cap Kinds = {}
  BY PortableAssumption DEF PortableAssumption
<1>3. Kept(n, f)
  <2>1. CASE list[i].configured
    BY <2>1, OwnName DEF Kept
  <2>2. CASE ~list[i].configured
    <3>1. f = SpecFile(i)
      BY <2>2, ListFacts DEF Sources, Material, Settings
    <3> QED BY <2>2, <3>1, OwnName DEF Kept, SpecFile
  <2> QED BY <2>1, <2>2
<1>4. CASE Matches(f) = names
  <2>1. Kept(names[m], f)
    BY <1>1, <1>3
  <2>2. \E k \in DOMAIN Wanted(names, f) : Wanted(names, f)[k] = names[m]
    BY <2>1, WantedHas
  <2> QED BY <1>1, <1>4, <2>2
<1>5. CASE Matches(f) # names
  <2>1. Len(names) > 1 /\ f[3] \in Names
    BY <1>5, MatchesOf
  <2>2. f = SpecFile(i)
    BY <1>2, <2>1, Shared DEF Sources, Material, Settings, Kinds
  <2>3. f[3] = n
    BY <2>1, <2>2, Shared DEF SpecFile
  <2>4. Matches(f) = <<n>>
    BY <1>1, <2>1, <2>3, MatchesOf
  <2>5. <<n>> \in Seq(ServiceNames) /\ 1 \in DOMAIN <<n>> /\ <<n>>[1] = n
    BY ListFacts
  <2> DEFINE one == <<n>>
  <2>6. one \in Seq(ServiceNames) /\ 1 \in DOMAIN one /\ one[1] = n /\ Kept(one[1], f)
    BY <1>3, <2>5
  <2> HIDE DEF one
  <2>7. \E k \in DOMAIN Wanted(one, f) : Wanted(one, f)[k] = one[1]
    BY <2>6, WantedHas
  <2> QED BY <2>4, <2>6, <2>7 DEF one
<1> QED BY <1>4, <1>5

\* Whatever an event leaves of a directory's list, the undisturbed services of
\* the directory are still in it.
LEMMA StaysRouted ==
  ASSUME InputInv, NEW i \in DOMAIN list, Undisturbed(i), Routed(i), watching,
         routes[Place(i)] \in Seq(ServiceNames), NEW f, <<f[1], f[2]>> = Place(i),
         Matches(f) = routes[Place(i)]
  PROVE  \E m \in DOMAIN routes[Place(i)] :
            list[i].name = IF m <= Len(Wanted(Matches(f), f))
                           THEN Wanted(Matches(f), f)[m] ELSE routes[Place(i)][m]
<1> DEFINE n     == list[i].name
           names == routes[Place(i)]
           w     == Wanted(names, f)
<1>1. PICK m \in DOMAIN names : names[m] = n
  BY DEF Routed
<1>2. /\ w \in Seq(ServiceNames) /\ Len(w) <= Len(names)
      /\ Len(w) \in Nat /\ Len(names) \in Nat
      /\ DOMAIN names = 1..Len(names) /\ DOMAIN w = 1..Len(w)
      /\ \A k \in DOMAIN w : \E l \in DOMAIN names : w[k] = names[l] /\ Kept(names[l], f)
      /\ \A l \in DOMAIN names : Kept(names[l], f) => \E k \in DOMAIN w : w[k] = names[l]
  <2>1. w \in Seq(ServiceNames) /\ Len(w) <= Len(names)
    BY WantedKept
  <2>2. \A k \in DOMAIN w : \E l \in DOMAIN names : w[k] = names[l] /\ Kept(names[l], f)
    BY WantedKept
  <2>3. ASSUME NEW l \in DOMAIN names, Kept(names[l], f) PROVE \E k \in DOMAIN w : w[k] = names[l]
    BY <2>3, WantedHas
  <2> HIDE DEF w
  <2> QED BY <2>1, <2>2, <2>3
<1>3. CASE Kept(n, f)
  <2>1. PICK k \in DOMAIN w : w[k] = n
    BY <1>1, <1>2, <1>3
  <2>2. k \in DOMAIN names /\ k <= Len(w)
    BY <1>2
  <2> QED BY <2>1, <2>2
<1>4. CASE ~Kept(n, f) /\ Len(names) <= 1
  <2>1. m = 1 /\ \A l \in DOMAIN names : l = 1
    BY <1>1, <1>2, <1>4
  <2>2. w = <<>>
    BY <1>1, <1>2, <1>4, <2>1
  <2> QED BY <1>1, <2>1, <2>2
<1>5. CASE ~Kept(n, f) /\ Len(names) > 1
  <2>1. ~list[i].configured
    BY <1>5, OwnName DEF Kept
  <2>2. f[3] \notin Names
    BY <1>5, MatchesOf
  <2>3. ASSUME NEW l \in DOMAIN names PROVE ~Kept(names[l], f)
    <3>1. PICK j \in DOMAIN list : Place(j) = Place(i) /\ list[j].name = names[l]
      BY DEF Routed
    <3>2. j \in Bare
      BY <1>5, <2>1, <3>1, Shared DEF Bare
    <3> DEFINE b == LastNamed(Bare, names[l])
    <3>3. Bare \in SUBSET DOMAIN list
      BY DEF Bare
    <3>4. b # 0 /\ b \in Bare /\ b \in DOMAIN list
      BY <3>1, <3>2, <3>3, LastIsNamed
    <3>5. list[b].spec \in Names
      BY <3>4, ListFacts DEF Bare
    <3> QED BY <2>2, <3>4, <3>5 DEF Kept
  <2>4. Len(w) = 0
    BY <1>2, <2>3
  <2>5. ~(m <= Len(w))
    BY <1>2, <2>4
  <2> QED BY <1>1, <2>5
<1> QED BY <1>2, <1>3, <1>4, <1>5

(* -------------------------------- Types -------------------------------- *)

\* The types, and what they rest on.
PortTypes ==
    /\ home \in {"/", "/.ui", "none"}
    /\ bad \cup unseen \subseteq Files /\ edits \in Nat
    /\ DOMAIN disk = Files /\ (\A f \in bad : Breakable(f))
    /\ temp = [n \in ServiceNames |-> temp[n]]
    /\ \A n \in ServiceNames : DOMAIN temp[n] \subseteq Files
    /\ handlers \in [ServiceNames -> 0..Len(list)]
    /\ content = [i \in DOMAIN list |-> content[i]]
    /\ \A i \in DOMAIN list : DOMAIN content[i] \subseteq Files
    /\ \A p \in DOMAIN routes : routes[p] \in Seq(ServiceNames)
    /\ events \in Seq(Files)
    /\ pending \subseteq ServiceNames /\ work \subseteq ServiceNames
    /\ resolved \in work \cup {None}
    /\ resolved # None => handlers[resolved] # 0

\* The directories the services are in.
Watched == {Place(i) : i \in DOMAIN list}

\* Nothing is told or reloaded before the watcher runs, which it does when all
\* services are done.
Phases ==
    /\ ~watching => events = <<>> /\ pending = {} /\ work = {}
    /\ watching => /\ Portable /\ \A i \in Services : pc[i] \in Finished
                   /\ DOMAIN routes = Watched
    /\ pending # {} => timer
    /\ \A m \in DOMAIN events : <<events[m][1], events[m][2]>> \in DOMAIN routes

\* What the arguments say stays as it is.
LEMMA SameInputs ==
  ASSUME UNCHANGED <<args, list>>
  PROVE  /\ Files' = Files /\ Bare' = Bare /\ (Portable' <=> Portable)
         /\ \A i \in DOMAIN list :
              /\ Place(i)' = Place(i) /\ Settings(i)' = Settings(i) /\ SpecFile(i)' = SpecFile(i)
              /\ Material(i)' = Material(i) /\ Sources(i)' = Sources(i)
              /\ Undisturbed(i)' <=> Undisturbed(i)
              /\ ListedTwice(i)' <=> ListedTwice(i)
<1>1. Files' = Files
  BY DEF Files
<1>2. Bare' = Bare /\ (Portable' <=> Portable)
  BY DEF Bare, Portable
<1>3. ASSUME NEW i \in DOMAIN list
      PROVE  Place(i)' = Place(i) /\ Settings(i)' = Settings(i) /\ SpecFile(i)' = SpecFile(i)
  BY DEF Place, Settings, SpecFile
<1>4. ASSUME NEW i \in DOMAIN list
      PROVE  Material(i)' = Material(i)
  BY <1>1, <1>3 DEF Material, Scanned
<1>5. ASSUME NEW i \in DOMAIN list
      PROVE  Sources(i)' = Sources(i) /\ (Undisturbed(i)' <=> Undisturbed(i))
  BY <1>3, <1>4 DEF Sources, Undisturbed, Place, ListedTwice
<1>6. ASSUME NEW i \in DOMAIN list PROVE ListedTwice(i)' <=> ListedTwice(i)
  BY DEF ListedTwice
<1> QED BY <1>1, <1>2, <1>3, <1>4, <1>5, <1>6

\* The list registers on and nobody who is done starts over.
LEMMA Moves ==
  ASSUME RegTypeOK, [Next]_vars
  PROVE  confs' = confs /\ \A i \in Services : pc[i] \in Finished => pc'[i] = pc[i]
<1>1. [RegNext]_regVars
  BY StepsRegister
<1>2. CASE UNCHANGED regVars
  BY <1>2 DEF regVars
<1>3. CASE OpenStorage
  BY <1>3 DEF OpenStorage, UseMemory, OpenDriver, Install, FallBack, Unopened, fixedVars
<1>4. ASSUME NEW i \in Services, Start(i) \/ GiveUp(i)
      PROVE  confs' = confs /\ \A j \in Services : pc[j] \in Finished => pc'[j] = pc[j]
  BY <1>4 DEF Start, GiveUp, MayStart, Goto, Finished, fixedVars, RegTypeOK
<1>5. ASSUME NEW i \in Services, Register(i)
      PROVE  confs' = confs /\ \A j \in Services : pc[j] \in Finished => pc'[j] = pc[j]
  BY <1>5 DEF Register, CheckName, CheckMount, MountRoot, MountBegin, MountEnd, Store, Goto,
              Finished, fixedVars, RegTypeOK
<1> QED BY <1>1, <1>2, <1>3, <1>4, <1>5 DEF RegNext

\* No step changes the list or what it is made from.
LEMMA InputStep ==
  ASSUME RegTypeOK, InputInv, [Next]_vars
  PROVE  InputInv'
<1>1. UNCHANGED <<args, list, confs>>
  BY InputsFixed, Moves
<1> QED BY <1>1 DEF InputInv, Portable

\* A handler is built from files there are.
LEMMA LoadType ==
  ASSUME InputInv, PortTypes, NEW i \in DOMAIN list
  PROVE  DOMAIN Load(i) \subseteq Files
<1>1. DOMAIN Load(i) = (IF list[i].static THEN DOMAIN temp[list[i].name] ELSE {SpecFile(i)})
                         \cup Settings(i)
  BY DEF Load
<1> QED BY <1>1, ListFacts DEF PortTypes

\* What a handled event adds to the pending names is names.
LEMMA EventTypes ==
  ASSUME PortTypes, Phases, events # <<>>
  PROVE  LET f == Head(events)
             names == Wanted(Matches(f), f)
         IN  /\ f \in Files /\ <<f[1], f[2]>> \in DOMAIN routes
             /\ Matches(f) \in Seq(ServiceNames) /\ names \in Seq(ServiceNames)
             /\ Len(names) <= Len(Matches(f))
             /\ {names[m] : m \in DOMAIN names} \subseteq ServiceNames
<1> DEFINE f == Head(events)
<1>1. f \in Files /\ f = events[1] /\ 1 \in DOMAIN events
  BY DEF PortTypes
<1>2. <<f[1], f[2]>> \in DOMAIN routes
  BY <1>1 DEF Phases
<1> DEFINE p == routes[<<f[1], f[2]>>]
<1>3. p \in Seq(ServiceNames)
  BY <1>2 DEF PortTypes
<1> HIDE DEF f
<1>4. Matches(f) \in Seq(ServiceNames)
  BY <1>3, MatchesOf
<1>5. Wanted(Matches(f), f) \in Seq(ServiceNames)
      /\ Len(Wanted(Matches(f), f)) <= Len(Matches(f))
  BY <1>4, WantedKept
<1>6. {Wanted(Matches(f), f)[m] : m \in DOMAIN Wanted(Matches(f), f)} \subseteq ServiceNames
  BY <1>5
<1> QED BY <1>1, <1>2, <1>4, <1>5, <1>6 DEF f

\* Steps that leave all of this alone.
LEMMA TypesRest ==
  ASSUME PortTypes, UNCHANGED portVars
  PROVE  PortTypes'
<1>1. Files' = Files
  BY SameInputs DEF portVars, inputVars
<1> QED BY <1>1 DEF PortTypes, portVars, inputVars, diskVars, handlerVars, watchVars, reloadVars

\* Building a service's handler.
LEMMA TypesRead ==
  ASSUME InputInv, PortTypes, NEW i \in Services, ReadService(i)
  PROVE  PortTypes'
<1>1. Files' = Files
  BY SameInputs DEF ReadService, inputVars
<1>2. i \in DOMAIN list /\ i \in 0..Len(list) /\ i # 0
  BY ListType DEF InputInv, ReadService
<1>3. /\ handlers' = [handlers EXCEPT ![list[i].name] = i]
      /\ content' = [content EXCEPT ![i] = Load(i)]
  BY DEF ReadService
<1>4. UNCHANGED <<home, list, disk, bad, unseen, edits, temp, routes, events, pending, work,
                  resolved>>
  BY DEF ReadService, inputVars, diskVars, watchVars, reloadVars
<1>5. list[i].name \in ServiceNames /\ DOMAIN Load(i) \subseteq Files
  BY <1>2, LoadType, ListFacts
<1>6. handlers' \in [ServiceNames -> 0..Len(list)]
      /\ \A n \in ServiceNames : handlers[n] # 0 => handlers'[n] # 0
  BY <1>2, <1>3, <1>5 DEF PortTypes
<1>7. content' = [j \in DOMAIN list |-> content'[j]]
      /\ \A j \in DOMAIN list : DOMAIN content'[j] \subseteq Files
  BY <1>2, <1>3, <1>5 DEF PortTypes
<1>8. resolved # None => resolved \in ServiceNames
  BY DEF PortTypes
<1> QED BY <1>1, <1>4, <1>6, <1>7, <1>8 DEF PortTypes

\* The lists of the watched directories are of names.
LEMMA TypesWatch ==
  ASSUME InputInv, PortTypes, WatchStart
  PROVE  PortTypes'
<1>1. Files' = Files
  BY SameInputs DEF WatchStart, inputVars
<1>2. UNCHANGED <<home, list, disk, bad, unseen, edits, temp, handlers, content, events, pending,
                  work, resolved>>
  BY DEF WatchStart, inputVars, diskVars, handlerVars, reloadVars
<1>3. ASSUME NEW p \in DOMAIN routes' PROVE routes'[p] \in Seq(ServiceNames)
  <2> DEFINE n == Cardinality(Here(p))
  <2>1. routes'[p] = [m \in 1..n |-> list[HereAt(p, m)[1]].name]
    BY <1>3 DEF WatchStart, HereAt
  <2>2. Services = DOMAIN list
    BY DEF InputInv, WatchStart
  <2>3. n \in Nat /\ \A m \in 1..n : HereAt(p, m)[1] \in DOMAIN list
    BY <2>2, Hosts
  <2>4. \A m \in 1..n : list[HereAt(p, m)[1]].name \in ServiceNames
    BY <2>3, ListFacts
  <2> HIDE DEF n
  <2> QED BY <2>1, <2>3, <2>4
<1> QED BY <1>1, <1>2, <1>3 DEF PortTypes

\* An edit is of a file there is.
LEMMA TypesEdit ==
  ASSUME PortTypes, NEW f \in Files, NEW broken \in BOOLEAN, Edit(f, broken)
  PROVE  PortTypes'
<1>1. Files' = Files
  BY SameInputs DEF Edit, inputVars
<1>2. UNCHANGED <<home, list, temp, handlers, content, routes, pending, work, resolved>>
  BY DEF Edit, inputVars, handlerVars, reloadVars
<1>3. /\ edits' \in Nat /\ bad' \subseteq Files /\ DOMAIN disk' = Files
      /\ \A g \in bad' : Breakable(g)
  BY DEF Edit, PortTypes, Breakable
<1>4. unseen' \subseteq Files /\ events' \in Seq(Files)
  <2>1. \/ events' = Append(events, f) /\ unseen' = unseen \ {f}
        \/ events' = events /\ unseen' = unseen \cup {f}
    BY DEF Edit
  <2>2. unseen \subseteq Files /\ events \in Seq(Files)
    BY DEF PortTypes
  <2> QED BY <2>1, <2>2
<1> QED BY <1>1, <1>2, <1>3, <1>4 DEF PortTypes

\* Handling an event leaves lists of names, and only names pending.
LEMMA TypesEvent ==
  ASSUME PortTypes, Phases, HandleEvent
  PROVE  PortTypes'
<1> DEFINE f     == Head(events)
           names == Wanted(Matches(f), f)
           p     == <<f[1], f[2]>>
<1>1. Files' = Files
  BY SameInputs DEF HandleEvent, inputVars
<1>2. UNCHANGED <<home, list, disk, bad, unseen, edits, temp, handlers, content, work, resolved>>
  BY DEF HandleEvent, inputVars, diskVars, handlerVars
<1>3. /\ p \in DOMAIN routes /\ names \in Seq(ServiceNames) /\ Len(names) <= Len(Matches(f))
      /\ Matches(f) \in Seq(ServiceNames) /\ {names[m] : m \in DOMAIN names} \subseteq ServiceNames
  BY EventTypes DEF HandleEvent
<1>4. routes[p] \in Seq(ServiceNames)
  BY <1>3 DEF PortTypes
<1>5. /\ pending' = pending \/ pending' = pending \cup {names[m] : m \in DOMAIN names}
      /\ routes' = [routes EXCEPT ![p] =
            IF Matches(f) # @ THEN @
            ELSE [m \in DOMAIN @ |-> IF m <= Len(names) THEN names[m] ELSE @[m]]]
      /\ events' = Tail(events) /\ events # <<>>
  BY DEF HandleEvent
<1> HIDE DEF f, names, p
<1>6. [m \in DOMAIN routes[p] |-> IF m <= Len(names) THEN names[m] ELSE routes[p][m]]
         \in Seq(ServiceNames)
  <2>1. Len(routes[p]) \in Nat /\ DOMAIN routes[p] = 1..Len(routes[p])
        /\ \A m \in DOMAIN routes[p] : routes[p][m] \in ServiceNames
    BY <1>4
  <2>2. Len(names) \in Nat /\ \A m \in 1..Len(names) : names[m] \in ServiceNames
    BY <1>3
  <2> QED BY <2>1, <2>2
<1>7. \A q \in DOMAIN routes' : routes'[q] \in Seq(ServiceNames)
  BY <1>4, <1>5, <1>6 DEF PortTypes
<1>8. pending' \subseteq ServiceNames /\ events' \in Seq(Files)
  BY <1>3, <1>5 DEF PortTypes
<1> QED BY <1>1, <1>2, <1>7, <1>8 DEF PortTypes

\* A handler is known by its service's name and was not made from a manifest;
\* who has been read has one.
Handled ==
    /\ \A n \in ServiceNames : handlers[n] # 0 =>
          list[handlers[n]].name = n /\ list[handlers[n]].spec # Manifest
    /\ \A i \in DOMAIN list :
          pc[i] \notin {"waiting", "failed"} => handlers[list[i].name] # 0

\* A name that has a handler has a service.
LEMMA HandlerService ==
  ASSUME InputInv, PortTypes, Handled, NEW n \in work, handlers[n] # 0
  PROVE  ByName(n) \in DOMAIN list /\ list[ByName(n)].name = n /\ handlers[n] \in DOMAIN list
<1>1. handlers[n] \in DOMAIN list /\ list[handlers[n]].name = n
  BY ListType DEF PortTypes, Handled
<1> QED BY <1>1, LastIsNamed DEF ByName

\* No name stands for none.
LEMMA NoneIsNoName == None \notin ServiceNames
  BY PortableAssumption, DiscoveryAssumption DEF PortableAssumption, DiscoveryAssumption

\* The steps of a reload.
LEMMA TypesReload ==
  ASSUME InputInv, PortTypes, Handled, NEW n \in work,
         NoHandler(n) \/ Resynthesize(n) \/ Rebuild(n)
  PROVE  PortTypes'
<1>1. Files' = Files
  BY SameInputs DEF NoHandler, Resynthesize, Rebuild, inputVars
<1>2. UNCHANGED <<home, list, disk, bad, unseen, edits, handlers, routes, events, pending>>
  BY DEF NoHandler, Resynthesize, Rebuild, inputVars, diskVars, handlerVars, watchVars
<1>3. n \in ServiceNames /\ n # None
  BY NoneIsNoName DEF PortTypes
<1>4. CASE NoHandler(n)
  <2>1. n # resolved
    BY <1>3, <1>4 DEF NoHandler, PortTypes
  <2> QED BY <1>1, <1>2, <1>4, <2>1 DEF PortTypes, NoHandler, handlerVars
<1>5. CASE Resynthesize(n)
  <2>1. Material(ByName(n)) \subseteq Files
    BY <1>5, HandlerService, ListFacts DEF Resynthesize
  <2>2. temp' = temp \/ temp' = [temp EXCEPT ![n] = Read(Material(ByName(n)))]
    BY <1>5 DEF Resynthesize
  <2>3. DOMAIN Read(Material(ByName(n))) = Material(ByName(n))
    BY DEF Read
  <2>4. temp' = [m \in ServiceNames |-> temp'[m]]
        /\ \A m \in ServiceNames : DOMAIN temp'[m] \subseteq Files
    BY <1>3, <2>1, <2>2, <2>3 DEF PortTypes
  <2>5. /\ work' \subseteq ServiceNames /\ resolved' \in work' \cup {None}
        /\ resolved' # None => handlers[resolved'] # 0
    BY <1>3, <1>5 DEF PortTypes, Resynthesize
  <2>6. content' = content
    BY <1>5 DEF Resynthesize, handlerVars
  <2> QED BY <1>1, <1>2, <2>4, <2>5, <2>6 DEF PortTypes
<1>6. CASE Rebuild(n)
  <2>1. /\ work' \subseteq ServiceNames /\ resolved' = None /\ temp' = temp
        /\ content' = content \/ content' = [content EXCEPT ![handlers[n]] = Load(ByName(n))]
    BY <1>6 DEF Rebuild, PortTypes
  <2>2. DOMAIN Load(ByName(n)) \subseteq Files /\ handlers[n] \in DOMAIN list
    BY <1>6, HandlerService, LoadType DEF Rebuild
  <2>3. content' = [i \in DOMAIN list |-> content'[i]]
        /\ \A i \in DOMAIN list : DOMAIN content'[i] \subseteq Files
    BY <2>1, <2>2 DEF PortTypes
  <2> QED BY <1>1, <1>2, <2>1, <2>3 DEF PortTypes
<1> QED BY <1>4, <1>5, <1>6

\* The callback takes names.
LEMMA TypesTimer ==
  ASSUME PortTypes, TimerFires
  PROVE  PortTypes'
<1>1. Files' = Files
  BY SameInputs DEF TimerFires, inputVars
<1>2. UNCHANGED <<home, list, disk, bad, unseen, edits, temp, handlers, content, routes, events,
                  resolved>>
  BY DEF TimerFires, inputVars, diskVars, handlerVars, watchVars
<1>3. work' = pending /\ pending' = {} /\ resolved = None
  BY DEF TimerFires, PortTypes
<1> QED BY <1>1, <1>2, <1>3 DEF PortTypes

\* The types hold through every step.
LEMMA TypesStep ==
  ASSUME InputInv, PortTypes, Phases, Handled, [Next]_vars
  PROVE  PortTypes'
<1>1. CASE \E i \in Services : ReadService(i)
  BY <1>1, TypesRead
<1>2. CASE WatchStart
  BY <1>2, TypesWatch
<1>3. CASE \E f \in Files, broken \in BOOLEAN : Edit(f, broken)
  BY <1>3, TypesEdit
<1>4. CASE HandleEvent
  BY <1>4, TypesEvent
<1>5. CASE TimerFires
  BY <1>5, TypesTimer
<1>6. CASE \E n \in work : NoHandler(n) \/ Resynthesize(n) \/ Rebuild(n)
  BY <1>6, TypesReload
<1>7. CASE UNCHANGED portVars
  BY <1>7, TypesRest
<1> QED BY <1>1, <1>2, <1>3, <1>4, <1>5, <1>6, <1>7
        DEF Next, vars, Opening, StartGenerated, FailService, Registering

\* The watcher starts when all services are done, and reloads nothing before.
LEMMA PhasesStep ==
  ASSUME RegTypeOK, InputInv, PortTypes, Phases, [Next]_vars
  PROVE  Phases'
<1>1. UNCHANGED <<args, list, confs>> /\ \A i \in Services : pc[i] \in Finished => pc'[i] = pc[i]
  BY InputsFixed, Moves
<1>2. /\ Portable' <=> Portable
      /\ Watched' = Watched
  BY <1>1, SameInputs DEF Watched
<1>3. CASE UNCHANGED portVars \/ (\E i \in Services : ReadService(i))
  <2>1. UNCHANGED <<watching, routes, events, pending, timer, work>>
    BY <1>3 DEF portVars, watchVars, reloadVars, ReadService
  <2> QED BY <1>1, <1>2, <2>1 DEF Phases
<1>4. CASE WatchStart
  <2>1. /\ ~watching /\ watching' /\ Portable /\ DOMAIN routes' = Watched
        /\ \A i \in Services : pc[i] \in Finished
        /\ UNCHANGED <<events, pending, timer, work>>
    BY <1>4 DEF WatchStart, reloadVars, InputInv, Watched
  <2>2. events' = <<>>
    BY <2>1 DEF Phases
  <2> QED BY <1>1, <1>2, <2>1, <2>2 DEF Phases
<1>5. CASE \E f \in Files, broken \in BOOLEAN : Edit(f, broken)
  <2>1. PICK f \in Files : \E broken \in BOOLEAN : Edit(f, broken)
    BY <1>5
  <2>2. /\ UNCHANGED <<watching, routes, pending, timer, work>>
        /\ \/ watching /\ <<f[1], f[2]>> \in DOMAIN routes /\ events' = Append(events, f)
           \/ events' = events
    BY <2>1 DEF Edit, reloadVars
  <2>3. events \in Seq(Files)
    BY DEF PortTypes
  <2>4. \A m \in DOMAIN events' : <<events'[m][1], events'[m][2]>> \in DOMAIN routes
    <3>1. \A m \in DOMAIN events : <<events[m][1], events[m][2]>> \in DOMAIN routes
      BY DEF Phases
    <3>2. CASE events' = events
      BY <3>1, <3>2
    <3>3. CASE <<f[1], f[2]>> \in DOMAIN routes /\ events' = Append(events, f)
      <4>1. \A m \in DOMAIN events' :
               events'[m] = f \/ (m \in DOMAIN events /\ events'[m] = events[m])
        BY <2>3, <3>3
      <4> QED BY <3>1, <3>3, <4>1
    <3> QED BY <2>2, <3>2, <3>3
  <2> QED BY <1>1, <1>2, <2>2, <2>4 DEF Phases
<1>6. CASE HandleEvent
  <2>1. /\ watching /\ watching' /\ work' = work /\ events # <<>> /\ events' = Tail(events)
        /\ DOMAIN routes' = DOMAIN routes /\ ((pending' = pending /\ timer' = timer) \/ timer')
    BY <1>6 DEF HandleEvent
  <2>2. events \in Seq(Files)
    BY DEF PortTypes
  <2>3. \A m \in DOMAIN events' : <<events'[m][1], events'[m][2]>> \in DOMAIN routes'
    BY <2>1, <2>2 DEF Phases
  <2> QED BY <1>1, <1>2, <2>1, <2>3 DEF Phases
<1>7. CASE TimerFires \/ \E n \in work : NoHandler(n) \/ Resynthesize(n) \/ Rebuild(n)
  <2>1. /\ UNCHANGED <<watching, routes, events>>
        /\ ~watching => pending = {} /\ work = {}
        /\ pending' = {} \/ (pending' = pending /\ timer' = timer)
        /\ work' \subseteq work \cup pending
    BY <1>7 DEF TimerFires, NoHandler, Resynthesize, Rebuild, watchVars, Phases
  <2> QED BY <1>1, <1>2, <2>1 DEF Phases
<1> QED BY <1>3, <1>4, <1>5, <1>6, <1>7
        DEF Next, vars, Opening, StartGenerated, FailService, Registering

(* ------------------------- What handlers serve ------------------------- *)

\* Its reload is pending, or an event of one of its files is on the way.
Told(i) ==
    list[i].name \in pending \/ \E m \in DOMAIN events : events[m] \in Sources(i)

\* One of its files that a reload reads and checks does not parse.
Blocked(i) ==
    \E f \in Sources(i) \cap bad : f \in Settings(i) \/ f = SpecFile(i) \/ f[3] = "meta"

\* A meta.json below its folder was edited, of which it is not told.
Lost(i) == \E f \in Sources(i) \cap unseen : f[3] = "meta" /\ f[2] # list[i].dir

\* What is made from the files of S is what is on disk, as far as the watcher saw.
Fresh(c, S) == \A f \in S \ unseen : c[f] = disk[f]

\* The synthesized spec of its name was made from its files, and is fresh when
\* its handler is about to be built from it, or its reload is still to come.
Made(i) ==
    list[i].static =>
        /\ DOMAIN temp[list[i].name] = Material(i)
        /\ ~watching => Fresh(temp[list[i].name], Material(i))
        /\ resolved = list[i].name =>
              Told(i) \/ Blocked(i) \/ Lost(i) \/ Fresh(temp[list[i].name], Material(i))

\* Its handler is fresh, or will be built again, or cannot be.
Served(i) ==
    pc[i] \notin {"waiting", "failed"} =>
        \/ Fresh(content[i], Sources(i))
        \/ watching /\ (list[i].name \in work \/ Told(i) \/ Blocked(i) \/ Lost(i))

\* What holds of every undisturbed service.
ServiceInv(i) == Routed(i) /\ Made(i) /\ Served(i)

\* Only reading makes a listed service more than waiting or failed.
LEMMA OnlyRead ==
  ASSUME RegTypeOK, InputInv, [Next]_vars, NEW i \in DOMAIN list, ~ReadService(i),
         pc'[i] \notin {"waiting", "failed"}
  PROVE  pc[i] \notin {"waiting", "failed"}
<1>1. i \in Services /\ Portable
  BY ListType DEF InputInv
<1>2. CASE UNCHANGED regVars
  BY <1>2 DEF regVars
<1>3. CASE Opening
  BY <1>3 DEF Opening, OpenStorage, UseMemory, OpenDriver, Install, FallBack, Unopened
<1>4. ASSUME NEW j \in Services, ReadService(j) \/ FailService(j)
      PROVE  pc[i] \notin {"waiting", "failed"}
  <2>1. (j # i /\ pc'[i] = pc[i]) \/ pc'[i] = "failed"
    BY <1>1, <1>4 DEF ReadService, FailService, Start, GiveUp, Goto, RegTypeOK
  <2> QED BY <2>1
<1>5. ASSUME NEW j \in Services, Registering(j)
      PROVE  pc[i] \notin {"waiting", "failed"}
  <2>1. pc'[i] = pc[i] \/ pc[i] \in {"name", "mount", "mounting", "inserting", "store"}
    BY <1>1, <1>5 DEF Registering, Register, CheckName, CheckMount, MountRoot, MountBegin,
                      MountEnd, Store, Goto, RegTypeOK
  <2> QED BY <2>1
<1> QED BY <1>1, <1>2, <1>3, <1>4, <1>5
        DEF Next, vars, StartGenerated, WatchStart, Edit, HandleEvent, TimerFires, NoHandler,
            Resynthesize, Rebuild

\* Handlers stay known by their names.
LEMMA HandledStep ==
  ASSUME RegTypeOK, InputInv, PortTypes, Handled, [Next]_vars
  PROVE  Handled'
<1>1. UNCHANGED list
  BY InputsFixed
<1>2. CASE handlers' = handlers /\ ~\E i \in Services : ReadService(i)
  <2>1. ASSUME NEW i \in DOMAIN list, pc'[i] \notin {"waiting", "failed"}
        PROVE  pc[i] \notin {"waiting", "failed"}
    <3>1. i \in Services
      BY ListType DEF InputInv
    <3> QED BY <1>2, <2>1, <3>1, OnlyRead
  <2> QED BY <1>1, <1>2, <2>1 DEF Handled
<1>3. ASSUME NEW i \in Services, ReadService(i)
      PROVE  Handled'
  <2>1. /\ i \in DOMAIN list /\ i # 0 /\ list[i].name \in ServiceNames
        /\ handlers' = [handlers EXCEPT ![list[i].name] = i] /\ list[i].spec # Manifest
    BY <1>3, ListType, ListFacts DEF ReadService, InputInv, Unloadable
  <2>2. \A n \in ServiceNames : handlers'[n] = IF n = list[i].name THEN i ELSE handlers[n]
    BY <2>1 DEF PortTypes
  <2>3. \A j \in DOMAIN list : j # i => pc'[j] = pc[j]
    BY <1>3, <2>1 DEF ReadService, Start, Goto, RegTypeOK, InputInv
  <2>4. \A j \in DOMAIN list : list[j].name \in ServiceNames
    BY ListFacts
  <2> QED BY <1>1, <2>1, <2>2, <2>3, <2>4 DEF Handled
<1> QED BY <1>2, <1>3
        DEF Next, vars, portVars, handlerVars, Opening, StartGenerated, FailService, Registering,
            WatchStart, Edit, HandleEvent, TimerFires, NoHandler, Resynthesize, Rebuild

\* Steps of the router alone.
LEMMA ServesRest ==
  ASSUME InputInv, NEW i \in DOMAIN list, ServiceInv(i), UNCHANGED portVars,
         pc'[i] \notin {"waiting", "failed"} => pc[i] \notin {"waiting", "failed"}
  PROVE  ServiceInv(i)'
<1>1. UNCHANGED <<args, list, disk, bad, unseen, temp, content, watching, routes, events, pending,
                  work, resolved>>
  BY DEF portVars, inputVars, diskVars, handlerVars, watchVars, reloadVars
<1>2. /\ Place(i)' = Place(i) /\ Settings(i)' = Settings(i) /\ SpecFile(i)' = SpecFile(i)
      /\ Material(i)' = Material(i) /\ Sources(i)' = Sources(i)
      /\ \A j \in DOMAIN list : Place(j)' = Place(j)
  BY <1>1, SameInputs
<1>3. Routed(i)'
  BY <1>1, <1>2 DEF ServiceInv, Routed, ListedTwice
<1>4. (Told(i)' <=> Told(i)) /\ (Blocked(i)' <=> Blocked(i)) /\ (Lost(i)' <=> Lost(i))
  BY <1>1, <1>2 DEF Told, Blocked, Lost
<1>5. Made(i)'
  BY <1>1, <1>2, <1>4 DEF ServiceInv, Made, Fresh
<1>6. Served(i)'
  BY <1>1, <1>2, <1>4 DEF ServiceInv, Served, Fresh
<1> QED BY <1>3, <1>5, <1>6 DEF ServiceInv

\* What a handler is built from is fresh if the synthesized spec is.
LEMMA LoadFresh ==
  ASSUME NEW i \in DOMAIN list,
         list[i].static => /\ DOMAIN temp[list[i].name] = Material(i)
                           /\ Fresh(temp[list[i].name], Material(i))
  PROVE  Fresh(Load(i), Sources(i))
<1>1. Sources(i) = (IF list[i].static THEN DOMAIN temp[list[i].name] ELSE {SpecFile(i)})
                      \cup Settings(i)
  BY DEF Sources, Material
<1>2. ASSUME NEW f \in Sources(i) \ unseen PROVE Load(i)[f] = disk[f]
  <2>1. Load(i)[f] = IF list[i].static /\ f \notin Settings(i) THEN temp[list[i].name][f]
                     ELSE disk[f]
    BY <1>1 DEF Load
  <2> QED BY <1>1, <2>1 DEF Fresh
<1> QED BY <1>2 DEF Fresh

\* Its handler is built the first time, or another service's is.
LEMMA ServesRead ==
  ASSUME RegTypeOK, InputInv, PortTypes, Phases, NEW i \in DOMAIN list, ServiceInv(i),
         NEW j \in Services, ReadService(j)
  PROVE  ServiceInv(i)'
<1>1. UNCHANGED <<args, list, disk, bad, unseen, temp, watching, routes, events, pending, work,
                  resolved>>
  BY DEF ReadService, inputVars, diskVars, watchVars, reloadVars
<1>2. /\ Place(i)' = Place(i) /\ Settings(i)' = Settings(i) /\ SpecFile(i)' = SpecFile(i)
      /\ Material(i)' = Material(i) /\ Sources(i)' = Sources(i)
      /\ \A k \in DOMAIN list : Place(k)' = Place(k)
  BY <1>1, SameInputs
<1>3. Services = DOMAIN list /\ ~watching
  BY DEF InputInv, ReadService, Start, MayStart, Phases, Finished
<1>4. Routed(i)'
  BY <1>1, <1>3 DEF Routed
<1>5. (Told(i)' <=> Told(i)) /\ (Blocked(i)' <=> Blocked(i)) /\ (Lost(i)' <=> Lost(i))
  BY <1>1, <1>2 DEF Told, Blocked, Lost
<1>6. Made(i)'
  BY <1>1, <1>2, <1>5 DEF ServiceInv, Made, Fresh
<1>7. Served(i)'
  <2>1. content' = [content EXCEPT ![j] = Load(j)]
    BY DEF ReadService
  <2>2. CASE i = j
    <3>1. content'[i] = Load(i)
      BY <2>1, <2>2 DEF PortTypes
    <3>2. Fresh(Load(i), Sources(i))
      BY <1>3, LoadFresh DEF ServiceInv, Made
    <3> QED BY <1>1, <1>2, <3>1, <3>2 DEF Served, Fresh
  <2>3. CASE i # j
    <3>1. content'[i] = content[i] /\ pc'[i] = pc[i]
      BY <1>3, <2>1, <2>3 DEF PortTypes, ReadService, Start, Goto, RegTypeOK
    <3> QED BY <1>1, <1>2, <1>5, <3>1 DEF ServiceInv, Served, Fresh
  <2> QED BY <2>2, <2>3
<1> QED BY <1>4, <1>6, <1>7 DEF ServiceInv

\* The watcher starts: the directory's list has the service's name.
LEMMA ServesWatch ==
  ASSUME InputInv, PortTypes, Phases, NEW i \in DOMAIN list, ServiceInv(i), WatchStart
  PROVE  ServiceInv(i)'
<1>1. UNCHANGED <<args, list, disk, bad, unseen, temp, content, events, pending, work,
                  resolved>> /\ ~watching
  BY DEF WatchStart, inputVars, diskVars, handlerVars, reloadVars
<1>2. /\ Place(i)' = Place(i) /\ Settings(i)' = Settings(i) /\ SpecFile(i)' = SpecFile(i)
      /\ Material(i)' = Material(i) /\ Sources(i)' = Sources(i)
      /\ \A k \in DOMAIN list : Place(k)' = Place(k)
  BY <1>1, SameInputs
<1>3. Services = DOMAIN list /\ pc' = pc
  BY DEF InputInv, WatchStart, regVars
<1>4. Routed(i)'
  <2> DEFINE p     == Place(i)
             n     == Cardinality(Here(p))
             names == [m \in 1..n |-> list[HereAt(p, m)[1]].name]
  <2>1. routes'[p] = names
    <3>1. p \in {Place(k) : k \in Services}
      BY <1>3
    <3> QED BY <3>1 DEF WatchStart, HereAt
  <2>2. <<i, 1>> \in Here(p)
    BY <1>3 DEF Here
  <2> HIDE DEF p
  <2>3. /\ IsFiniteSet(Here(p)) /\ n \in Nat
        /\ \A m \in 1..n : HereAt(p, m) \in Here(p)
        /\ \A x \in Here(p) : \E m \in 1..n : x = HereAt(p, m)
        /\ \A x \in Here(p) : /\ x[1] \in DOMAIN list /\ Place(x[1]) = p
                              /\ x[2] \in {1, 2} /\ x = <<x[1], x[2]>>
    BY <1>3, Hosts
  <2>4. DOMAIN names = 1..n /\ Len(names) = n
    BY <2>3
  <2>5. \E m \in DOMAIN names : names[m] = list[i].name
    <3>1. PICK m \in 1..n : <<i, 1>> = HereAt(p, m)
      BY <2>2, <2>3
    <3>2. HereAt(p, m)[1] = i
      BY <3>1
    <3> QED BY <2>4, <3>2
  <2>6. \A m \in DOMAIN names : \E j \in DOMAIN list : Place(j) = p /\ list[j].name = names[m]
    BY <2>3, <2>4
  <2>7. Len(names) > 1 => ListedTwice(i) \/ \E j \in DOMAIN list \ {i} : Place(j) = p
    <3> SUFFICES ASSUME n > 1
                 PROVE  ListedTwice(i) \/ \E j \in DOMAIN list \ {i} : Place(j) = p
      BY <2>4
    <3>1. Here(p) # {<<i, 1>>}
      <4>1. Cardinality({<<i, 1>>}) = 1
        BY FS_Singleton
      <4> QED BY <4>1
    <3>2. PICK x \in Here(p) : x # <<i, 1>>
      BY <2>2, <3>1
    <3>3. x[1] = i => x[2] = 2
      BY <2>3, <3>2
    <3>4. x[2] = 2 => ListedTwice(x[1])
      BY DEF Here
    <3> QED BY <2>3, <3>3, <3>4
  <2> HIDE DEF names
  <2> QED BY <1>1, <1>2, <2>1, <2>5, <2>6, <2>7 DEF Routed, p, ListedTwice
<1>5. (Told(i)' <=> Told(i)) /\ (Blocked(i)' <=> Blocked(i)) /\ (Lost(i)' <=> Lost(i))
  BY <1>1, <1>2 DEF Told, Blocked, Lost
<1>6. Made(i)'
  BY <1>1, <1>2, <1>5 DEF ServiceInv, Made, Fresh, WatchStart
<1>7. Served(i)'
  BY <1>1, <1>2, <1>3, <1>5 DEF ServiceInv, Served, Fresh
<1> QED BY <1>4, <1>6, <1>7 DEF ServiceInv

\* An edit of one of its files is told, or is not seen.
LEMMA ServesEdit ==
  ASSUME InputInv, PortTypes, Phases, NEW i \in DOMAIN list, ServiceInv(i),
         NEW f \in Files, NEW broken \in BOOLEAN, Edit(f, broken)
  PROVE  ServiceInv(i)'
<1> DEFINE seen == watching /\ <<f[1], f[2]>> \in DOMAIN routes /\ f[3] # "deep"
<1>1. UNCHANGED <<args, list, temp, content, pc, watching, routes, pending, work, resolved>>
  BY DEF Edit, inputVars, handlerVars, reloadVars, regVars
<1>2. /\ Place(i)' = Place(i) /\ Settings(i)' = Settings(i) /\ SpecFile(i)' = SpecFile(i)
      /\ Material(i)' = Material(i) /\ Sources(i)' = Sources(i)
      /\ \A k \in DOMAIN list : Place(k)' = Place(k)
  BY <1>1, SameInputs
<1>3. Routed(i)'
  BY <1>1, <1>2 DEF ServiceInv, Routed, ListedTwice
<1>4. Sources(i) = Material(i) \cup Settings(i) /\ Sources(i) \subseteq Files
  BY ListFacts DEF Sources
<1>5. /\ \A g \in Files : g # f => disk'[g] = disk[g]
      /\ \A g : g # f => (g \in bad' <=> g \in bad) /\ (g \in unseen' <=> g \in unseen)
      /\ broken => f \in bad'
      /\ ~broken => f \notin bad'
  BY DEF Edit, PortTypes
<1>6. /\ seen => events' = Append(events, f)
      /\ ~seen => events' = events /\ f \in unseen'
  BY DEF Edit
<1>7. \A m \in DOMAIN events : m \in DOMAIN events' /\ events'[m] = events[m]
  <2>1. events \in Seq(Files)
    BY DEF PortTypes
  <2>2. CASE events' = Append(events, f)
    BY <2>1, <2>2
  <2>3. CASE events' = events
    BY <2>3
  <2> QED BY <1>6, <2>2, <2>3
<1>8. Told(i) => Told(i)'
  BY <1>1, <1>2, <1>7 DEF Told
<1>9. CASE f \in Sources(i) /\ seen
  <2>1. \E m \in DOMAIN events' : events'[m] = f
    BY <1>6, <1>9 DEF PortTypes
  <2>2. Told(i)' /\ watching
    BY <1>2, <1>9, <2>1 DEF Told
  <2>3. Made(i)'
    BY <1>1, <1>2, <2>2 DEF ServiceInv, Made
  <2>4. Served(i)'
    BY <1>1, <2>2 DEF Served
  <2> QED BY <1>3, <2>3, <2>4 DEF ServiceInv
<1>10. CASE f \notin Sources(i) \/ ~seen
  <2>1. ASSUME NEW c, NEW S \in SUBSET Sources(i), Fresh(c, S)
        PROVE  \A g \in S \ unseen' : c[g] = disk'[g]
    BY <1>4, <1>5, <1>6, <1>10, <2>1 DEF Fresh
  <2>2. Lost(i) => Lost(i)'
    BY <1>1, <1>2, <1>5, <1>6, <1>10 DEF Lost
  <2>3. ASSUME watching, Blocked(i), ~Blocked(i)' PROVE Lost(i)'
    <3>1. PICK g \in Sources(i) \cap bad : g \in Settings(i) \/ g = SpecFile(i) \/ g[3] = "meta"
      BY <2>3 DEF Blocked
    <3>2. g = f /\ f \notin bad'
      BY <1>2, <1>5, <2>3, <3>1 DEF Blocked
    <3>3. f[3] # "deep"
      BY <3>1, <3>2, PortableAssumption DEF PortTypes, Breakable, PortableAssumption, Kinds
    <3>4. ~seen /\ <<f[1], f[2]>> # Place(i)
      BY <1>10, <2>3, <3>1, <3>2, <3>3 DEF Phases, Watched
    <3>5. f[1] = list[i].at
      BY <3>1, <3>2, SourcePlaces
    <3>6. f[2] # list[i].dir
      BY <3>4, <3>5 DEF Place
    <3>7. f[3] = "meta"
      BY <3>1, <3>2, <3>6 DEF Settings, SpecFile
    <3> QED BY <1>1, <1>2, <1>6, <3>1, <3>2, <3>4, <3>6, <3>7 DEF Lost
  <2>4. Made(i)'
    <3>1. Fresh(temp[list[i].name], Material(i)) =>
             \A g \in Material(i) \ unseen' : temp[list[i].name][g] = disk'[g]
      BY <1>4, <2>1
    <3> QED BY <1>1, <1>2, <1>8, <2>2, <2>3, <3>1 DEF ServiceInv, Made, Fresh
  <2>5. Served(i)'
    <3>1. Fresh(content[i], Sources(i)) =>
             \A g \in Sources(i) \ unseen' : content[i][g] = disk'[g]
      BY <2>1
    <3> QED BY <1>1, <1>2, <1>8, <2>2, <2>3, <3>1 DEF ServiceInv, Served, Fresh
  <2> QED BY <1>3, <2>4, <2>5 DEF ServiceInv
<1> QED BY <1>9, <1>10

\* An event of one of its files makes its reload pending.
LEMMA ServesEvent ==
  ASSUME InputInv, PortTypes, Phases, HandleEvent,
         NEW i \in DOMAIN list, Undisturbed(i), ServiceInv(i)
  PROVE  ServiceInv(i)'
<1> DEFINE f     == Head(events)
           names == Wanted(Matches(f), f)
           p     == <<f[1], f[2]>>
<1>1. UNCHANGED <<args, list, disk, bad, unseen, temp, content, pc, watching, work, resolved>>
  BY DEF HandleEvent, inputVars, diskVars, handlerVars, regVars
<1>2. /\ Place(i)' = Place(i) /\ Settings(i)' = Settings(i) /\ SpecFile(i)' = SpecFile(i)
      /\ Material(i)' = Material(i) /\ Sources(i)' = Sources(i)
      /\ \A k \in DOMAIN list : Place(k)' = Place(k)
  BY <1>1, SameInputs
<1>3. /\ watching /\ events # <<>> /\ events' = Tail(events)
      /\ names # <<>> => pending' = pending \cup {names[m] : m \in DOMAIN names}
      /\ names = <<>> => pending' = pending
      /\ routes' = [routes EXCEPT ![p] =
            IF Matches(f) # @ THEN @
            ELSE [m \in DOMAIN @ |-> IF m <= Len(names) THEN names[m] ELSE @[m]]]
  BY DEF HandleEvent
<1>4. /\ p \in DOMAIN routes /\ names \in Seq(ServiceNames) /\ Len(names) <= Len(Matches(f))
      /\ Matches(f) \in Seq(ServiceNames)
  BY <1>3, EventTypes
<1>5. /\ Place(i) \in DOMAIN routes /\ routes[Place(i)] \in Seq(ServiceNames)
      /\ routes[p] \in Seq(ServiceNames)
  BY <1>3, <1>4 DEF Phases, Watched, PortTypes
<1>6. /\ f = events[1]
      /\ \A m \in DOMAIN events :
            m = 1 \/ (m - 1 \in DOMAIN events' /\ events'[m - 1] = events[m])
  BY <1>3 DEF PortTypes
<1> HIDE DEF f, names
<1>7. ASSUME f \in Sources(i) PROVE list[i].name \in pending'
  <2>1. p \in Watched
    BY <1>3, <1>4 DEF Phases
  <2>2. p = Place(i)
    BY <1>7, <2>1, SourcePlaces DEF Watched
  <2>3. \E k \in DOMAIN names : names[k] = list[i].name
    BY <1>3, <1>5, <1>7, <2>2, EventReaches DEF names, ServiceInv
  <2> QED BY <1>3, <1>4, <2>3
<1>8. Told(i) => Told(i)'
  <2>1. pending \subseteq pending'
    BY <1>3
  <2> QED BY <1>1, <1>2, <1>6, <1>7, <2>1 DEF Told
<1>9. Routed(i)'
  <2>1. CASE Place(i) # p \/ Matches(f) # routes[p]
    <3>1. routes'[Place(i)] = routes[Place(i)]
      BY <1>3, <1>5, <2>1
    <3> QED BY <1>1, <1>2, <3>1 DEF ServiceInv, Routed, ListedTwice
  <2>2. CASE Place(i) = p /\ Matches(f) = routes[p]
    <3> DEFINE old == routes[p]
               new == routes'[p]
    <3>1. new = [m \in DOMAIN old |-> IF m <= Len(names) THEN names[m] ELSE old[m]]
      BY <1>3, <1>4, <2>2
    <3>2. /\ DOMAIN old = 1..Len(old) /\ Len(old) \in Nat
          /\ DOMAIN names = 1..Len(names) /\ Len(names) \in Nat
      BY <1>4, <1>5
    <3>3. \E m \in DOMAIN old :
             list[i].name = IF m <= Len(names) THEN names[m] ELSE old[m]
      BY <1>3, <1>5, <2>2, StaysRouted DEF ServiceInv, names
    <3>4. \A k \in DOMAIN names : \E m \in DOMAIN old : names[k] = old[m]
      BY <1>5, <2>2, WantedKept DEF names
    <3>5. /\ \A l \in DOMAIN old : \E j \in DOMAIN list :
                Place(j) = Place(i) /\ list[j].name = old[l]
          /\ Len(old) > 1 =>
                ListedTwice(i) \/ \E j \in DOMAIN list \ {i} : Place(j) = Place(i)
      BY <1>3, <2>2 DEF ServiceInv, Routed
    <3> HIDE DEF old
    <3>6. Len(new) = Len(old) /\ DOMAIN new = DOMAIN old
      BY <3>1, <3>2
    <3>7. \A m \in DOMAIN new : \E l \in DOMAIN old : new[m] = old[l]
      BY <3>1, <3>2, <3>4
    <3>8. \E m \in DOMAIN new : new[m] = list[i].name
      BY <3>1, <3>3
    <3>9. /\ \A m \in DOMAIN new : \E j \in DOMAIN list :
                Place(j) = Place(i) /\ list[j].name = new[m]
          /\ Len(new) > 1 =>
                ListedTwice(i) \/ \E j \in DOMAIN list \ {i} : Place(j) = Place(i)
      BY <3>5, <3>6, <3>7
    <3>10. /\ routes'[Place(i)'] = new /\ list' = list
           /\ \A j \in DOMAIN list : Place(j)' = Place(j)
      BY <1>1, <1>2, <2>2
    <3> HIDE DEF new
    <3> QED BY <3>8, <3>9, <3>10 DEF Routed, ListedTwice
  <2> QED BY <2>1, <2>2
<1>10. (Blocked(i)' <=> Blocked(i)) /\ (Lost(i)' <=> Lost(i))
  BY <1>1, <1>2 DEF Blocked, Lost
<1>11. Made(i)'
  BY <1>1, <1>2, <1>8, <1>10 DEF ServiceInv, Made, Fresh
<1>12. Served(i)'
  BY <1>1, <1>2, <1>8, <1>10 DEF ServiceInv, Served, Fresh
<1> QED BY <1>9, <1>11, <1>12 DEF ServiceInv

\* What is pending is reloaded.
LEMMA ServesTimer ==
  ASSUME InputInv, PortTypes, Phases, NEW i \in DOMAIN list, ServiceInv(i), TimerFires
  PROVE  ServiceInv(i)'
<1>1. UNCHANGED <<args, list, disk, bad, unseen, temp, content, pc, watching, routes, events,
                  resolved>>
  BY DEF TimerFires, inputVars, diskVars, handlerVars, watchVars, regVars
<1>2. /\ Place(i)' = Place(i) /\ Settings(i)' = Settings(i) /\ SpecFile(i)' = SpecFile(i)
      /\ Material(i)' = Material(i) /\ Sources(i)' = Sources(i)
      /\ \A k \in DOMAIN list : Place(k)' = Place(k)
  BY <1>1, SameInputs
<1>3. work = {} /\ work' = pending /\ resolved = None
  BY DEF TimerFires, PortTypes
<1>4. resolved' # list[i].name
  BY <1>1, <1>3, ListFacts, NoneIsNoName
<1>5. Routed(i)'
  BY <1>1, <1>2 DEF ServiceInv, Routed, ListedTwice
<1>6. /\ Told(i) => list[i].name \in work' \/ Told(i)'
      /\ Blocked(i)' <=> Blocked(i)
      /\ Lost(i)' <=> Lost(i)
  BY <1>1, <1>2, <1>3 DEF Told, Blocked, Lost
<1>7. Made(i)'
  BY <1>1, <1>2, <1>4 DEF ServiceInv, Made, Fresh
<1>8. Served(i)'
  BY <1>1, <1>2, <1>3, <1>6 DEF ServiceInv, Served, Fresh
<1> QED BY <1>5, <1>7, <1>8 DEF ServiceInv

\* A reload ends, of another name or of this one.
LEMMA ServesReload ==
  ASSUME InputInv, PortTypes, Phases, Handled, NEW i \in DOMAIN list, Undisturbed(i), ServiceInv(i),
         NEW n \in work, NoHandler(n) \/ Resynthesize(n) \/ Rebuild(n)
  PROVE  ServiceInv(i)'
<1>1. UNCHANGED <<args, list, disk, bad, unseen, handlers, pc, watching, routes, events, pending>>
  BY DEF NoHandler, Resynthesize, Rebuild, inputVars, diskVars, handlerVars, watchVars, regVars
<1>2. /\ Place(i)' = Place(i) /\ Settings(i)' = Settings(i) /\ SpecFile(i)' = SpecFile(i)
      /\ Material(i)' = Material(i) /\ Sources(i)' = Sources(i)
      /\ \A k \in DOMAIN list : Place(k)' = Place(k)
  BY <1>1, SameInputs
<1>3. watching /\ n \in ServiceNames /\ n # None /\ list[i].name \in ServiceNames
      /\ list[i].name # None
  BY ListFacts, NoneIsNoName DEF Phases, PortTypes
<1>4. Routed(i)'
  BY <1>1, <1>2 DEF ServiceInv, Routed, ListedTwice
<1>5. (Told(i)' <=> Told(i)) /\ (Blocked(i)' <=> Blocked(i)) /\ (Lost(i)' <=> Lost(i))
  BY <1>1, <1>2 DEF Told, Blocked, Lost
<1>6. \A m \in work : m # n => m \in work'
  BY DEF NoHandler, Resynthesize, Rebuild
<1>7. CASE NoHandler(n)
  <2>1. UNCHANGED <<temp, content, resolved>> /\ handlers[n] = 0
    BY <1>7 DEF NoHandler, handlerVars
  <2>2. pc[i] \notin {"waiting", "failed"} => list[i].name # n
    BY <2>1 DEF Handled
  <2>3. Made(i)'
    BY <1>1, <1>2, <1>5, <2>1 DEF ServiceInv, Made, Fresh
  <2>4. Served(i)'
    BY <1>1, <1>2, <1>5, <1>6, <2>1, <2>2 DEF ServiceInv, Served, Fresh
  <2> QED BY <1>4, <2>3, <2>4 DEF ServiceInv
<1>8. CASE Resynthesize(n) /\ list[i].name # n
  <2>1. temp'[list[i].name] = temp[list[i].name] /\ content' = content
        /\ resolved' # list[i].name
    BY <1>3, <1>8 DEF Resynthesize, PortTypes, handlerVars
  <2>2. Made(i)'
    BY <1>1, <1>2, <1>3, <2>1 DEF ServiceInv, Made, Fresh
  <2>3. Served(i)'
    BY <1>1, <1>2, <1>5, <1>6, <1>8, <2>1 DEF ServiceInv, Served, Fresh
  <2> QED BY <1>4, <2>2, <2>3 DEF ServiceInv
<1>9. CASE Resynthesize(n) /\ list[i].name = n
  <2>1. ByName(n) = i /\ content' = content /\ resolved = None
    BY <1>9, OwnName DEF Resynthesize, handlerVars
  <2>2. CASE \E f \in bad \cap Material(i) : f = SpecFile(i) \/ f[3] = "meta"
    <3>1. UNCHANGED <<temp, resolved>> /\ resolved # list[i].name
      BY <1>3, <1>9, <2>1, <2>2 DEF Resynthesize
    <3>2. Blocked(i)
      BY <2>2 DEF Blocked, Sources
    <3>3. Made(i)'
      BY <1>1, <1>2, <1>3, <3>1 DEF ServiceInv, Made, Fresh
    <3>4. Served(i)'
      BY <1>1, <1>3, <1>5, <3>2 DEF Served
    <3> QED BY <1>4, <3>3, <3>4 DEF ServiceInv
  <2>3. CASE ~\E f \in bad \cap Material(i) : f = SpecFile(i) \/ f[3] = "meta"
    <3>1. temp' = [temp EXCEPT ![n] = Read(Material(i))] /\ work' = work
      BY <1>9, <2>1, <2>3 DEF Resynthesize
    <3>2. temp'[n] = Read(Material(i))
      BY <1>3, <3>1 DEF PortTypes
    <3>3. /\ DOMAIN Read(Material(i)) = Material(i)
          /\ \A f \in Material(i) : Read(Material(i))[f] = disk[f]
      BY DEF Read
    <3>4. Made(i)'
      BY <1>1, <1>2, <1>9, <3>2, <3>3 DEF Made, Fresh
    <3>5. Served(i)'
      BY <1>1, <1>2, <1>5, <2>1, <3>1 DEF ServiceInv, Served, Fresh
    <3> QED BY <1>4, <3>4, <3>5 DEF ServiceInv
  <2> QED BY <2>2, <2>3
<1>10. CASE Rebuild(n) /\ list[i].name # n
  <2>1. temp' = temp /\ resolved' # list[i].name
    BY <1>3, <1>10 DEF Rebuild
  <2>2. handlers[n] # i
    BY <1>10, HandlerService DEF Rebuild, Handled, PortTypes
  <2>3. content'[i] = content[i]
    BY <1>10, <2>2 DEF Rebuild, PortTypes
  <2>4. Made(i)'
    BY <1>1, <1>2, <1>3, <2>1 DEF ServiceInv, Made, Fresh
  <2>5. Served(i)'
    BY <1>1, <1>2, <1>5, <1>6, <1>10, <2>3 DEF ServiceInv, Served, Fresh
  <2> QED BY <1>4, <2>4, <2>5 DEF ServiceInv
<1>11. CASE Rebuild(n) /\ list[i].name = n
  <2>1. temp' = temp /\ resolved' # list[i].name /\ (list[i].static => resolved = list[i].name)
    BY <1>3, <1>11, OwnName DEF Rebuild
  <2>2. ByName(n) = i /\ handlers[n] = i
    <3>1. handlers[n] \in DOMAIN list /\ list[handlers[n]].name = n
      BY <1>3, <1>11, HandlerService DEF Rebuild, Handled
    <3> QED BY <1>11, <3>1, OwnName
  <2>3. Made(i)'
    BY <1>1, <1>2, <1>3, <2>1 DEF ServiceInv, Made, Fresh
  <2>4. CASE Unloadable(i)
    <3>1. Blocked(i)
      <4>1. list[i].spec # Manifest
        BY <1>3, <1>11, <2>2, ListType DEF Handled
      <4> QED BY <2>4, <4>1 DEF Unloadable, Blocked, Sources, Material
    <3>2. Served(i)'
      BY <1>1, <1>3, <1>5, <3>1 DEF Served
    <3> QED BY <1>4, <2>3, <3>2 DEF ServiceInv
  <2>5. CASE ~Unloadable(i)
    <3>1. content'[i] = Load(i)
      BY <1>11, <2>2, <2>5 DEF Rebuild, PortTypes
    <3>2. \/ Told(i) \/ Blocked(i) \/ Lost(i)
          \/ list[i].static => /\ DOMAIN temp[list[i].name] = Material(i)
                               /\ Fresh(temp[list[i].name], Material(i))
      BY <2>1 DEF ServiceInv, Made
    <3>3. Told(i) \/ Blocked(i) \/ Lost(i) \/ Fresh(Load(i), Sources(i))
      BY <3>2, LoadFresh
    <3>4. Served(i)'
      BY <1>1, <1>2, <1>3, <1>5, <3>1, <3>3 DEF Served, Fresh
    <3> QED BY <1>4, <2>3, <3>4 DEF ServiceInv
  <2> QED BY <2>4, <2>5
<1> QED BY <1>7, <1>8, <1>9, <1>10, <1>11

\* What holds of an undisturbed service holds through every step.
LEMMA ServesStep ==
  ASSUME RegTypeOK, InputInv, PortTypes, Phases, Handled, [Next]_vars,
         NEW i \in DOMAIN list, Undisturbed(i), ServiceInv(i)
  PROVE  ServiceInv(i)'
<1>1. CASE \E j \in Services : ReadService(j)
  BY <1>1, ServesRead
<1>2. CASE WatchStart
  BY <1>2, ServesWatch
<1>3. CASE \E f \in Files, broken \in BOOLEAN : Edit(f, broken)
  BY <1>3, ServesEdit
<1>4. CASE HandleEvent
  BY <1>4, ServesEvent
<1>5. CASE TimerFires
  BY <1>5, ServesTimer
<1>6. CASE \E n \in work : NoHandler(n) \/ Resynthesize(n) \/ Rebuild(n)
  BY <1>6, ServesReload
<1>7. CASE UNCHANGED portVars /\ ~\E j \in Services : ReadService(j)
  <2>1. i \in Services
    BY ListType DEF InputInv
  <2>2. pc'[i] \notin {"waiting", "failed"} => pc[i] \notin {"waiting", "failed"}
    BY <1>7, <2>1, OnlyRead
  <2> QED BY <1>7, <2>2, ServesRest
<1> QED BY <1>1, <1>2, <1>3, <1>4, <1>5, <1>6, <1>7
        DEF Next, vars, Opening, StartGenerated, FailService, Registering

\* The whole invariant.
PortInv ==
    /\ InputInv /\ PortTypes /\ Phases /\ Handled
    /\ \A i \in DOMAIN list : Undisturbed(i) => ServiceInv(i)

\* The server starts so.
LEMMA PortInit == Init => PortInv
<1> SUFFICES ASSUME Init PROVE PortInv
  OBVIOUS
<1>1. PICK d \in Deployments :
         /\ args = d.args /\ edits = d.edits
         /\ list = Listed(d.args)
         /\ confs = IF d.args = <<>> THEN d.confs
                    ELSE [i \in DOMAIN list |-> ConfOf(list[i], d.flag)]
  BY DEF Init
<1>2. IsDeployment(d)
  BY PortableAssumption DEF PortableAssumption
<1>3. InputInv
  <2>1. IsCommand(args)
    BY <1>1, <1>2 DEF IsDeployment, IsCommand
  <2>2. \A k, l \in DOMAIN args : args[k].at = args[l].at => args[k].tree = args[l].tree
    BY <1>1, <1>2 DEF IsDeployment
  <2>3. Portable => Services = DOMAIN list
    BY <1>1 DEF Portable
  <2> QED BY <1>1, <2>1, <2>2, <2>3 DEF InputInv
<1> DEFINE Statics == {j \in DOMAIN list : list[j].static}
           i0(n)   == LastNamed(Statics, n)
<1>4. /\ disk = [f \in Files |-> 0] /\ bad = {} /\ unseen = {}
      /\ temp = [n \in ServiceNames |-> IF i0(n) = 0 THEN <<>> ELSE Read(Material(i0(n)))]
      /\ handlers = Empty(ServiceNames)
      /\ content = [i \in DOMAIN list |-> <<>>]
      /\ watching = FALSE /\ routes = <<>> /\ events = <<>>
      /\ pending = {} /\ timer = FALSE /\ work = {} /\ resolved = None
      /\ pc = [i \in Services |-> "waiting"]
      /\ home \in {"/", "/.ui", "none"}
  BY DEF Init, RegInit
<1>5. ASSUME NEW n
      PROVE  /\ i0(n) # 0 => i0(n) \in Statics /\ list[i0(n)].name = n
             /\ i0(n) = 0 => \A i \in Statics : list[i].name # n
  BY <1>3, LastIsNamed
<1> HIDE DEF i0
<1>6. PortTypes
  <2>1. ASSUME NEW n \in ServiceNames PROVE DOMAIN temp[n] \subseteq Files
    <3>1. CASE i0(n) = 0
      BY <1>4, <3>1
    <3>2. CASE i0(n) # 0
      <4>1. temp[n] = Read(Material(i0(n))) /\ Material(i0(n)) \subseteq Files
        BY <1>3, <1>4, <1>5, <3>2, ListFacts
      <4> QED BY <4>1 DEF Read
    <3> QED BY <3>1, <3>2
  <2>2. handlers \in [ServiceNames -> 0..Len(list)]
    <3>1. Len(list) \in Nat
      BY <1>3, ListType
    <3> QED BY <1>4, <3>1 DEF Empty
  <2>3. \A i \in DOMAIN list : DOMAIN content[i] \subseteq Files
    BY <1>4
  <2>4. edits \in Nat
    BY <1>1, <1>2 DEF IsDeployment
  <2>5. DOMAIN routes = {} /\ events \in Seq(Files)
    BY <1>4
  <2>6. temp = [n \in ServiceNames |-> temp[n]] /\ content = [i \in DOMAIN list |-> content[i]]
    BY <1>4
  <2> QED BY <1>4, <2>1, <2>2, <2>3, <2>4, <2>5, <2>6 DEF PortTypes
<1>7. Phases
  BY <1>4 DEF Phases
<1>8. Handled
  <2>1. \A n \in ServiceNames : handlers[n] = 0
    BY <1>4 DEF Empty
  <2>2. \A i \in DOMAIN list : pc[i] = "waiting"
    BY <1>3, <1>4, ListType DEF InputInv
  <2> QED BY <2>1, <2>2 DEF Handled
<1>9. ASSUME NEW i \in DOMAIN list, Undisturbed(i)
      PROVE  ServiceInv(i)
  <2>1. Routed(i)
    BY <1>4 DEF Routed
  <2>2. pc[i] = "waiting"
    BY <1>3, <1>4, ListType DEF InputInv
  <2>3. Made(i)
    <3> SUFFICES ASSUME list[i].static PROVE Made(i)
      BY DEF Made
    <3>1. i0(list[i].name) = i
      BY <1>3, <1>5, <1>9, OwnName
    <3>2. list[i].name \in ServiceNames /\ i # 0 /\ Material(i) \subseteq Files
      BY <1>3, ListType, ListFacts
    <3>3. temp[list[i].name] = Read(Material(i))
      BY <1>4, <3>1, <3>2
    <3>4. resolved # list[i].name
      BY <1>4, <3>2, NoneIsNoName
    <3> QED BY <3>3, <3>4 DEF Made, Fresh, Read
  <2> QED BY <2>1, <2>2, <2>3 DEF ServiceInv, Served
<1> QED BY <1>3, <1>6, <1>7, <1>8, <1>9 DEF PortInv

\* Every step keeps it.
LEMMA PortStep ==
  ASSUME RegTypeOK, PortInv, [Next]_vars
  PROVE  PortInv'
<1>1. InputInv'
  BY InputStep DEF PortInv
<1>2. PortTypes'
  BY TypesStep DEF PortInv
<1>3. Phases'
  BY PhasesStep DEF PortInv
<1>4. Handled'
  BY HandledStep DEF PortInv
<1>5. UNCHANGED <<args, list>>
  BY InputsFixed
<1>6. ASSUME NEW i \in DOMAIN list', Undisturbed(i)'
      PROVE  ServiceInv(i)'
  <2>1. i \in DOMAIN list /\ Undisturbed(i)
    BY <1>5, <1>6, SameInputs
  <2> QED BY <2>1, ServesStep DEF PortInv
<1> QED BY <1>1, <1>2, <1>3, <1>4, <1>6 DEF PortInv

\* When nothing is left to do, nothing is to come: what cannot be built or was
\* not seen is excluded, so the handler is fresh.
LEMMA IdleServed == PortInv => IdleServesDisk
<1> SUFFICES ASSUME PortInv, Idle, NEW i \in Services,
                    pc[i] = "registered", Undisturbed(i), Sources(i) \cap bad = {},
                    \A f \in Sources(i) \cap unseen : f[3] = "meta" => f[2] = list[i].dir,
                    NEW f \in Sources(i) \ unseen
             PROVE  content[i][f] = disk[f]
  BY DEF IdleServesDisk
<1>1. watching /\ events = <<>> /\ work = {} /\ pending = {}
  BY DEF Idle, PortInv, Phases
<1>2. i \in DOMAIN list
  BY <1>1 DEF PortInv, InputInv, Phases
<1>3. ~Told(i) /\ ~Blocked(i) /\ ~Lost(i)
  BY <1>1 DEF Told, Blocked, Lost
<1> QED BY <1>1, <1>2, <1>3 DEF PortInv, ServiceInv, Served, Fresh

(* ------------------------------- Theorems ------------------------------- *)

\* They hold throughout.
LEMMA PortInvAlways == Spec => [](RegTypeOK /\ PortInv)
<1>1. Init => RegTypeOK /\ PortInv
  BY PortInit, RegTypeInit DEF Init
<1>2. RegTypeOK /\ PortInv /\ [Next]_vars => (RegTypeOK /\ PortInv)'
  BY RegTypeStep, StepsRegister, PortStep
<1> QED BY <1>1, <1>2, PTL DEF Spec

\* The server's state is of its types, for any deployment.
THEOREM PortableTypes == Spec => []TypeOK
<1>1. RegTypeOK /\ PortInv => TypeOK
  BY DEF PortInv, PortTypes, TypeOK
<1> QED BY <1>1, PortInvAlways, PTL

\* Once the watcher has nothing left to do, a service serves what is on disk, for
\* any deployment (watcher.go 16-18, 96-146).  That is said of undisturbed
\* services: not of two of one name, of spec files given with the folder they are
\* in, nor of one whose folder is listed twice and whose spec file is not called
\* what it is, which the watcher loses edits of.
THEOREM IdleServerServesDisk == Spec => []IdleServesDisk
<1>1. RegTypeOK /\ PortInv => IdleServesDisk
  BY IdleServed
<1> QED BY <1>1, PortInvAlways, PTL
=============================================================================
