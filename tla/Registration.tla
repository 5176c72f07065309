----------------------------- MODULE Registration -----------------------------
(***************************************************************************)
(* Services registering on the router: register (pkg/api/router.go) called *)
(* by a loop (BuildSetup, internal/portable/runner.go) or by goroutines    *)
(* behind a semaphore (LoadAll, pkg/loader/loader.go), after NewRouter has *)
(* opened the storage (pkg/db/storage.go).                                 *)
(*                                                                         *)
(* A service is its place in the list.  A mount prefix is a path and the   *)
(* slash it may end in: the router tells "/pets" from "/pets/", chi does   *)
(* not.  The services map has a lock, chi's tree has none.  The server's   *)
(* own pages are on the same tree before the first service, and the        *)
(* services map does not know of them.                                     *)
(***************************************************************************)
EXTENDS Naturals, Sequences, FiniteSets

CONSTANTS
    ServiceNames,  \* names, the empty one among them
    Paths,         \* mount paths
    Root           \* the path of /

\* The root path has no slash of its own to end in.
Conf == {c \in [name : ServiceNames, path : Paths, slash : BOOLEAN] : c.path = Root => ~c.slash}

Storages == [type : {"memory", "unknown", "driver"},
             opens : BOOLEAN, installs : BOOLEAN, strict : BOOLEAN]

ASSUME RegistrationAssumption == Root \in Paths

VARIABLES
    confs,      \* the services' configurations, in the order of the list
    limit,      \* services that may register at a time
    storageCfg, \* app.yml's storage section
    shared,     \* paths where the server's own routes are mounted
    storage,    \* what NewRouter holds
    connected,  \* the driver's connection is open
    services,   \* r.services: the service of each name, 0 for none
    tree,       \* chi's routes: the service mounted at each path, 0 for none
    notFound,   \* the service that answers what nothing else does, 0 for none
    pc,         \* where each service is in register
    snap,       \* the routes a service has seen when it started to mount
    dead        \* a panic no one recovers

regVars == <<confs, limit, storageCfg, shared, storage, connected, services, tree, notFound,
             pc, snap, dead>>
fixedVars   == <<confs, limit, storageCfg, shared>>
storageVars == <<storage, connected>>

Services == DOMAIN confs

PC == {"waiting", "name", "mount", "mounting", "inserting", "store",
       "registered", "skipped", "failed"}
Finished == {"registered", "skipped", "failed"}
Busy     == PC \ ({"waiting"} \cup Finished)

RegTypeOK ==
    /\ confs \in Seq(Conf) /\ limit \in Nat \ {0} /\ storageCfg \in Storages
    /\ shared \subseteq Paths
    /\ storage \in {"none", "opened", "memory", "driver"} /\ connected \in BOOLEAN
    /\ services \in [ServiceNames -> Nat]
    /\ tree \in [Paths -> Nat] /\ notFound \in Nat
    /\ pc \in [Services -> PC]
    /\ snap \in [Services -> [Paths -> Nat]]
    /\ dead \in BOOLEAN

Empty(S) == [x \in S |-> 0]

\* A loop may meet a name twice; LoadAll ranges over a map from names.
NamesAllowed ==
    limit > 1 => \A i, j \in Services : confs[i].name = confs[j].name => i = j

\* The router before its first service: only the server's own routes are there.
RegInit ==
    /\ confs \in Seq(Conf) /\ limit \in Nat \ {0} /\ storageCfg \in Storages
    /\ shared \subseteq Paths
    /\ NamesAllowed
    /\ storage = "none" /\ connected = FALSE
    /\ services = Empty(ServiceNames) /\ tree = Empty(Paths) /\ notFound = 0
    /\ pc = [i \in Services |-> "waiting"]
    /\ snap = [i \in Services |-> Empty(Paths)]
    /\ dead = FALSE

Goto(i, where) == pc' = [pc EXCEPT ![i] = where]

-----------------------------------------------------------------------------
(* NewRouter: NewStorage and OpenStorage                                   *)

Unopened == UNCHANGED <<fixedVars, services, tree, notFound, pc, snap>>

\* Memory needs no driver.
UseMemory ==
    /\ ~dead /\ storage = "none" /\ storageCfg.type = "memory"
    /\ storage' = "memory"
    /\ Unopened /\ UNCHANGED <<connected, dead>>

\* The driver's factory answers.
OpenDriver ==
    /\ ~dead /\ storage = "none" /\ storageCfg.type = "driver" /\ storageCfg.opens
    /\ storage' = "opened" /\ connected' = TRUE
    /\ Unopened /\ UNCHANGED dead

\* Its schema is installed, or only verified.
Install ==
    /\ ~dead /\ storage = "opened" /\ storageCfg.installs
    /\ storage' = "driver"
    /\ Unopened /\ UNCHANGED <<connected, dead>>

\* No such driver, no connection, or no schema.
OpenFails ==
    \/ storage = "none" /\ storageCfg.type = "unknown"
    \/ storage = "none" /\ storageCfg.type = "driver" /\ ~storageCfg.opens
    \/ storage = "opened" /\ ~storageCfg.installs

\* Mutant: a backend whose schema is refused stays open.
FallBack_Leaking ==
    /\ ~dead /\ OpenFails
    /\ \/ storageCfg.strict /\ dead' = TRUE /\ UNCHANGED storage
       \/ ~storageCfg.strict /\ storage' = "memory" /\ UNCHANGED dead
    /\ Unopened /\ UNCHANGED connected

\* OpenStorage closes what it opened; NewStorage panics or uses memory.
FallBack ==
    /\ ~dead /\ OpenFails
    /\ connected' = FALSE
    /\ \/ storageCfg.strict /\ dead' = TRUE /\ UNCHANGED storage
       \/ ~storageCfg.strict /\ storage' = "memory" /\ UNCHANGED dead
    /\ Unopened

-----------------------------------------------------------------------------
(* The list of services, one goroutine each                                *)

Alive == ~dead /\ storage \in {"memory", "driver"}

\* A loop registers them one after the other; LoadAll ranges over a map and
\* starts the next whenever its semaphore has room.
MayStart(i) ==
    /\ pc[i] = "waiting"
    /\ Cardinality({j \in Services : pc[j] \in Busy}) < limit
    /\ limit = 1 => \A j \in 1..(i - 1) : pc[j] \in Finished

Start(i) ==
    /\ Alive /\ MayStart(i)
    /\ Goto(i, "name")
    /\ UNCHANGED <<fixedVars, storageVars, services, tree, notFound, snap, dead>>

\* A portable service whose files do not load is left out.
GiveUp(i) ==
    /\ Alive /\ MayStart(i)
    /\ Goto(i, "failed")
    /\ UNCHANGED <<fixedVars, storageVars, services, tree, notFound, snap, dead>>

\* Mutant: a name is registered twice.
CheckName_Dropped(i) ==
    /\ Alive /\ pc[i] = "name"
    /\ Goto(i, "mount")
    /\ UNCHANGED <<fixedVars, storageVars, services, tree, notFound, snap, dead>>

\* isServiceRegistered, under the read lock.
CheckName(i) ==
    /\ Alive /\ pc[i] = "name"
    /\ Goto(i, IF services[confs[i].name] # 0 THEN "skipped" ELSE "mount")
    /\ UNCHANGED <<fixedVars, storageVars, services, tree, notFound, snap, dead>>

\* ServicePrefix.
SamePrefix(i, j) == confs[i].path = confs[j].path /\ confs[i].slash = confs[j].slash

InMap(j) == \E n \in ServiceNames : services[n] = j

\* Mutant: the map is not asked who owns the prefix.
CheckMount_Dropped(i) ==
    /\ Alive /\ pc[i] = "mount"
    /\ Goto(i, "mounting")
    /\ UNCHANGED <<fixedVars, storageVars, services, tree, notFound, snap, dead>>

\* mountOwner, under the read lock.
CheckMount(i) ==
    /\ Alive /\ pc[i] = "mount"
    /\ Goto(i, IF \E j \in Services : InMap(j) /\ SamePrefix(i, j)
               THEN "skipped" ELSE "mounting")
    /\ UNCHANGED <<fixedVars, storageVars, services, tree, notFound, snap, dead>>

\* r.NotFound: the root service answers what no route does.
MountRoot(i) ==
    /\ Alive /\ pc[i] = "mounting" /\ confs[i].path = Root
    /\ notFound' = i
    /\ Goto(i, "store")
    /\ UNCHANGED <<fixedVars, storageVars, services, tree, snap, dead>>

\* What chi finds at a path: a service or a route of the server's own.
Taken(p) == tree[p] # 0 \/ p \in shared

\* r.Route: chi's Mount looks for the path in its tree and panics on it.
MountBegin(i) ==
    /\ Alive /\ pc[i] = "mounting" /\ confs[i].path # Root
    /\ \/ /\ Taken(confs[i].path)
          /\ dead' = TRUE
          /\ UNCHANGED <<pc, snap>>
       \/ /\ ~Taken(confs[i].path)
          /\ snap' = [snap EXCEPT ![i] = tree]
          /\ Goto(i, "inserting")
          /\ UNCHANGED dead
    /\ UNCHANGED <<fixedVars, storageVars, services, tree, notFound>>

\* Its insertion is not synchronised: what others inserted since may be lost.
MountEnd(i) ==
    /\ Alive /\ pc[i] = "inserting"
    /\ \E seen \in {tree, snap[i]} : tree' = [seen EXCEPT ![confs[i].path] = i]
    /\ Goto(i, "store")
    /\ UNCHANGED <<fixedVars, storageVars, services, notFound, snap, dead>>

\* The services map, under the lock.
Store(i) ==
    /\ Alive /\ pc[i] = "store"
    /\ services' = [services EXCEPT ![confs[i].name] = i]
    /\ Goto(i, "registered")
    /\ UNCHANGED <<fixedVars, storageVars, tree, notFound, snap, dead>>

OpenStorage == UseMemory \/ OpenDriver \/ Install \/ FallBack

Register(i) ==
    \/ CheckName(i) \/ CheckMount(i) \/ MountRoot(i) \/ MountBegin(i) \/ MountEnd(i)
    \/ Store(i)

RegNext ==
    \/ OpenStorage
    \/ \E i \in Services : Start(i) \/ GiveUp(i) \/ Register(i)

RegSpec == RegInit /\ [][RegNext]_regVars

-----------------------------------------------------------------------------
(* Properties                                                              *)

\* A strict storage is never replaced by memory, and a backend that could not
\* be set up is not left open behind what replaced it (storage.go 51-53,
\* 73-75).
StorageAsConfigured ==
    /\ storage = "memory" => storageCfg.type = "memory" \/ ~storageCfg.strict
    /\ dead \/ (connected <=> storage \in {"opened", "driver"})

Mounted(i) == (IF confs[i].path = Root THEN notFound ELSE tree[confs[i].path]) = i

\* Services that register one at a time are reached where the map says they
\* are; one that is skipped leaves its name or its prefix to a service that is
\* reached (router.go 90-93).
SerialMounts ==
    limit = 1 => \A i \in Services :
        /\ pc[i] = "registered" => services[confs[i].name] = i /\ Mounted(i)
        /\ pc[i] = "skipped" => \E j \in Services :
              /\ pc[j] = "registered"
              /\ confs[j].name = confs[i].name \/ SamePrefix(i, j)

\* The guard keeps chi.Mount from panicking (router.go 92-93), unless two
\* services claim one path at the same time or spell it with and without the
\* slash, or one claims a path of the server's own, which the guard does not
\* look for (mountOwner, router.go 282-292); the other panic is a strict
\* storage that does not open.
PanicNeedsConflict ==
    dead => \/ storageCfg.strict /\ storage \in {"none", "opened"}
            \/ \E i \in Services :
                  pc[i] = "mounting" /\ confs[i].path \in shared \ {Root}
            \/ \E i, j \in Services :
                  /\ i # j /\ confs[i].path = confs[j].path /\ confs[i].path # Root
                  /\ limit > 1 \/ confs[i].slash # confs[j].slash
=============================================================================
