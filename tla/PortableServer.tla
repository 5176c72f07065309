---------------------------- MODULE PortableServer ----------------------------
(***************************************************************************)
(* The portable server (internal/portable/runner.go, watcher.go): it       *)
(* resolves its arguments to services (Discovery), registers them one by   *)
(* one on the router (Registration), then watches their directories and    *)
(* routes what changes there to the services that read it.                 *)
(*                                                                         *)
(* An argument is a directory or a spec file in one.  A file is the        *)
(* argument's directory, the folder in it and what it is; its content is a *)
(* version.  What a handler serves is the versions it was built from.      *)
(* With no arguments the services are generated code and LoadAll registers *)
(* them.                                                                   *)
(***************************************************************************)
EXTENDS Registration, Discovery

CONSTANTS
    Deployments,  \* what is started, and how many edits follow
    Directories,  \* the directories arguments name
    Pages,        \* where the pages of services, history and replay are
    Docs,         \* the path of the documentation when the UI is at /
    Relocated     \* the path the UI goes to when a service wants /

\* An argument is a directory or, with `bare', one spec file at its top;
\* `clean' says that it is spelled as filepath.Clean would spell it.
IsArg(a) ==
    /\ a.at \in Directories /\ IsTree(a.tree) /\ a.clean \in BOOLEAN
    /\ a.bare \in (a.tree.top.specs \ {Manifest}) \cup {None}

IsDeployment(d) ==
    /\ d.flag \in Paths \cup {None} /\ d.confs \in Seq(Conf) /\ d.limit \in Nat \ {0}
    /\ d.storage \in Storages /\ d.ui \in BOOLEAN /\ d.edits \in Nat
    /\ Len(d.args) \in Nat /\ DOMAIN d.args = 1..Len(d.args)
    /\ \A k \in DOMAIN d.args :
          /\ IsArg(d.args[k])
          /\ \A l \in DOMAIN d.args :
                d.args[k].at = d.args[l].at => d.args[k].tree = d.args[l].tree
    /\ d.args # <<>> => d.limit = 1

\* What a file of a folder can be besides a spec file, which is its stem.
Kinds == {"index", "meta", "deep", "config", "context", "other"}

ASSUME PortableAssumption ==
    /\ ServiceNames = Names \cup {NoName} /\ Paths = ServiceNames /\ Root = NoName
    /\ Names \cap Kinds = {}
    /\ Pages \cup {Docs, Relocated} \subseteq Names
    /\ \A d \in Deployments : IsDeployment(d)

VARIABLES
    args, flag,  \* the command line: what to serve, --mount
    list,        \* Setup.Services
    home,        \* where the UI is, "none" if it is off
    disk,        \* the version of each file
    bad,         \* files that do not parse
    unseen,      \* files whose last edit no watch reported
    edits,       \* edits left
    temp,        \* the synthesized spec of each name: the versions it was made from
    handlers,    \* the service whose handler each name reloads, 0 for none
    content,     \* what each service's handler was built from
    watching,    \* the event loop runs
    routes,      \* dirToServices
    events,      \* the watcher's channel
    pending,     \* names to reload when the timer fires
    timer,       \* the debounce timer runs
    work,        \* names its callback has yet to reload
    resolved     \* the one of them whose spec is synthesized again, or None

inputVars   == <<args, flag, list, home>>
diskVars    == <<disk, bad, unseen, edits>>
handlerVars == <<handlers, content>>
watchVars   == <<watching, routes, events>>
reloadVars  == <<pending, timer, work, resolved>>
portVars    == <<inputVars, diskVars, temp, handlerVars, watchVars, reloadVars>>
vars        == <<regVars, portVars>>

-----------------------------------------------------------------------------
(* Files                                                                   *)

\* The files of a folder; the last three may be edited into being.
InFolder(f) ==
    f.specs \cup {k \in {"index"} : f.index} \cup {k \in {"meta"} : f.meta}
            \cup {k \in {"deep"} : f.deep} \cup {"config", "context", "other"}

FilesIn(a, d) ==
    {<<a.at, d, k>> : k \in InFolder(IF d = Top THEN a.tree.top ELSE a.tree.subs[d])}

Files == UNION {UNION {FilesIn(args[k], d) : d \in {Top} \cup Visible(args[k].tree)} :
                   k \in DOMAIN args}

\* Files that can fail to parse.
Breakable(f) == f[3] \in Names \cup {"meta", "config", "context"}

Place(i) == <<list[i].at, list[i].dir>>

Settings(i) ==
    IF list[i].configured
    THEN {<<list[i].at, list[i].dir, k>> : k \in {"config", "context"}} ELSE {}

\* What scanStaticFiles reads: everything but the folder's own settings, and
\* for the top folder what is below it.
Scanned(i) ==
    {f \in Files : /\ f[1] = list[i].at /\ f \notin Settings(i)
                   /\ f[2] = list[i].dir \/ list[i].dir = Top}

SpecFile(i) == <<list[i].at, list[i].dir, list[i].spec>>

\* What a service is made from, its settings apart.
Material(i) == IF list[i].static THEN Scanned(i) ELSE {SpecFile(i)}

Sources(i) == Material(i) \cup Settings(i)

Read(S) == [f \in S |-> disk[f]]

-----------------------------------------------------------------------------
(* Start-up: BuildSetup                                                    *)

ResolveArg(a) == IF a.bare # None THEN {BareService(Top, a.bare)} ELSE Resolve(a.tree)

\* The services of all arguments, each with the argument's number.
Found(as) == UNION {{<<k, s>> : s \in ResolveArg(as[k])} : k \in DOMAIN as}

\* One argument's services come in the order of their folders or spec files.
Key(s) == IF s.dir # Top THEN Rank(s.dir) ELSE IF s.spec # None THEN Rank(s.spec) ELSE 0

Before(x, y) == x[1] < y[1] \/ (x[1] = y[1] /\ Key(x[2]) < Key(y[2]))

\* resolveServices.
Listed(as) ==
    LET At(i) == CHOOSE x \in Found(as) :
                    Cardinality({y \in Found(as) : Before(y, x)}) = i - 1
    IN  [i \in 1..Cardinality(Found(as)) |->
            [at |-> as[At(i)[1]].at, clean |-> as[At(i)[1]].clean,
             name |-> At(i)[2].name, dir |-> At(i)[2].dir,
             spec |-> At(i)[2].spec, static |-> At(i)[2].static,
             configured |-> At(i)[2].configured,
             config |-> IF At(i)[2].configured
                        THEN (IF At(i)[2].dir = Top THEN as[At(i)[1]].tree.top
                              ELSE as[At(i)[1]].tree.subs[At(i)[2].dir]).config
                        ELSE None]]

\* Mutant: only the first service is asked.
ClaimsRoot_First(l, mount) ==
    IF mount # None THEN mount = Root ELSE l # <<>> /\ l[1].name = NoName

\* anyServiceClaimsRoot.
ClaimsRoot(l, mount) ==
    IF mount # None THEN mount = Root ELSE \E i \in DOMAIN l : l[i].name = NoName

\* CreateHomeRoutes, CreateServiceRoutes, CreateHistoryRoutes, CreateReplayRoutes.
PagesWith(ui) ==
    IF ui = "none" THEN {} ELSE Pages \cup {IF ui = "/" THEN Docs ELSE Relocated}

\* loadServiceConfig, the --mount flag and ServicePrefix: where it mounts.
MountOf(svc, mount) ==
    IF mount # None THEN mount
    ELSE IF svc.config # None /\ svc.config.mount # None THEN svc.config.mount
    ELSE svc.name

ConfOf(svc, mount) == [name |-> svc.name, path |-> MountOf(svc, mount), slash |-> FALSE]

\* The last service of a name, which is what a map keeps.
LastNamed(I, n) ==
    LET S == {i \in I : list[i].name = n}
    IN  IF S = {} THEN 0 ELSE CHOOSE i \in S : \A j \in S : j <= i

\* After resolveServices, which has synthesized the static services' specs.
Init ==
    /\ \E d \in Deployments :
          /\ args = d.args /\ flag = d.flag /\ limit = d.limit /\ storageCfg = d.storage
          /\ edits = d.edits
          /\ list = Listed(d.args)
          /\ confs = IF d.args = <<>> THEN d.confs
                     ELSE [i \in DOMAIN list |-> ConfOf(list[i], d.flag)]
          /\ d.args # <<>> => list # <<>>
          /\ d.flag # None => Len(list) = 1
          /\ home = IF ~d.ui THEN "none" ELSE IF ClaimsRoot(list, d.flag) THEN "/.ui" ELSE "/"
          /\ shared = PagesWith(home)
    /\ RegInit
    /\ disk = [f \in Files |-> 0] /\ bad = {} /\ unseen = {}
    /\ temp = [n \in ServiceNames |->
                 LET i == LastNamed({j \in DOMAIN list : list[j].static}, n)
                 IN  IF i = 0 THEN <<>> ELSE Read(Material(i))]
    /\ handlers = Empty(ServiceNames)
    /\ content = [i \in DOMAIN list |-> <<>>]
    /\ watching = FALSE /\ routes = <<>> /\ events = <<>>
    /\ pending = {} /\ timer = FALSE /\ work = {} /\ resolved = None

Portable == args # <<>>

\* A spec or settings file that is read when a handler is built does not parse.
\* A manifest taken for a spec is none, with or without static files in it.
Unloadable(i) ==
    \/ bad \cap (Settings(i) \cup (IF list[i].static THEN {} ELSE {SpecFile(i)})) # {}
    \/ list[i].spec = Manifest

\* buildHandler: the service's spec, or the synthesized one of its name.
Load(i) ==
    [f \in (IF list[i].static THEN DOMAIN temp[list[i].name] ELSE {SpecFile(i)}) \cup Settings(i)
       |-> IF list[i].static /\ f \notin Settings(i) THEN temp[list[i].name][f] ELSE disk[f]]

\* registerService, up to RegisterService: the handler is known by its name
\* whether or not the router then takes it.
ReadService(i) ==
    /\ Portable /\ ~Unloadable(i)
    /\ Start(i)
    /\ handlers' = [handlers EXCEPT ![list[i].name] = i]
    /\ content' = [content EXCEPT ![i] = Load(i)]
    /\ UNCHANGED <<inputVars, diskVars, temp, watchVars, reloadVars>>

FailService(i) ==
    /\ Portable /\ Unloadable(i)
    /\ GiveUp(i)
    /\ UNCHANGED portVars

\* LoadAll starts a generated service's registration.
StartGenerated(i) ==
    /\ ~Portable
    /\ Start(i)
    /\ UNCHANGED portVars

Opening == OpenStorage /\ UNCHANGED portVars

Registering(i) == Register(i) /\ UNCHANGED portVars

-----------------------------------------------------------------------------
(* The watcher: watchServices                                              *)

\* dirsToWatch compares the argument, as it was given, with the directory of
\* the spec file, which has been cleaned: spelled differently they are two.
ListedTwice(i) ==
    list[i].configured /\ ~list[i].static /\ list[i].dir = Top /\ ~list[i].clean

\* The services of a directory, each as often as dirsToWatch names it.
Here(p) ==
    {x \in Services \X {1, 2} : Place(x[1]) = p /\ (x[2] = 2 => ListedTwice(x[1]))}

Above(x, y) == x[1] < y[1] \/ (x[1] = y[1] /\ x[2] < y[2])

\* Each service's directory is watched; folders below it are not.
WatchStart ==
    /\ Portable /\ Alive /\ ~watching
    /\ \A i \in Services : pc[i] \in Finished
    /\ watching' = TRUE
    /\ routes' = [p \in {Place(i) : i \in Services} |->
                     LET At(m) == CHOOSE x \in Here(p) :
                                     Cardinality({y \in Here(p) : Above(y, x)}) = m - 1
                     IN  [m \in 1..Cardinality(Here(p)) |-> list[At(m)[1]].name]]
    /\ UNCHANGED <<regVars, inputVars, diskVars, temp, handlerVars, events, reloadVars>>

\* Someone saves a file.
Edit(f, broken) ==
    /\ Alive /\ edits > 0
    /\ broken => Breakable(f)
    /\ edits' = edits - 1
    /\ disk' = [disk EXCEPT ![f] = @ + 1]
    /\ bad' = IF broken THEN bad \cup {f} ELSE bad \ {f}
    /\ \/ /\ watching /\ <<f[1], f[2]>> \in DOMAIN routes /\ f[3] # "deep"
          /\ events' = Append(events, f)
          /\ unseen' = unseen \ {f}
       \/ /\ ~watching \/ <<f[1], f[2]>> \notin DOMAIN routes \/ f[3] = "deep"
          /\ unseen' = unseen \cup {f}
          /\ UNCHANGED events
    /\ UNCHANGED <<regVars, inputVars, temp, handlerVars, watching, routes, reloadVars>>

\* matchServices: in a directory of several services a spec file is the
\* service of that name's, anything else is everybody's.
Matches(f) ==
    LET names == routes[<<f[1], f[2]>>]
    IN  IF Len(names) <= 1 \/ f[3] \notin Names THEN names
        ELSE IF \E m \in DOMAIN names : names[m] = f[3] THEN <<f[3]>> ELSE <<>>

\* bareSpecs: services given as a spec file.
Bare == {i \in DOMAIN list : ~list[i].configured}

\* filterBareSpecs.
Wanted(names, f) ==
    LET Kept == {m \in DOMAIN names : LET i == LastNamed(Bare, names[m])
                                      IN  i = 0 \/ list[i].spec = f[3]}
        At(k) == CHOOSE m \in Kept : Cardinality({l \in Kept : l < m}) = k - 1
    IN  [k \in 1..Cardinality(Kept) |-> names[At(k)]]

\* Mutant: an event while reloads are under way is dropped.
HandleEvent_IdleOnly ==
    /\ Alive /\ watching /\ events # <<>>
    /\ LET f == Head(events)
           names == Wanted(Matches(f), f)
       IN  IF names = <<>> \/ work # {} THEN UNCHANGED <<pending, timer>>
           ELSE pending' = pending \cup {names[m] : m \in DOMAIN names} /\ timer' = TRUE
    /\ events' = Tail(events)
    /\ UNCHANGED <<regVars, inputVars, diskVars, temp, handlerVars, watching, routes,
                   work, resolved>>

\* The loop takes one event.  The list of services is filtered in place, so
\* what is filtered out of a shared list is overwritten there.
HandleEvent ==
    /\ Alive /\ watching /\ events # <<>>
    /\ LET f == Head(events)
           names == Wanted(Matches(f), f)
       IN  /\ IF names = <<>> THEN UNCHANGED <<pending, timer>>
              ELSE pending' = pending \cup {names[m] : m \in DOMAIN names} /\ timer' = TRUE
           /\ routes' = [routes EXCEPT ![<<f[1], f[2]>>] =
                 IF Matches(f) # @ THEN @
                 ELSE [m \in DOMAIN @ |-> IF m <= Len(names) THEN names[m] ELSE @[m]]]
    /\ events' = Tail(events)
    /\ UNCHANGED <<regVars, inputVars, diskVars, temp, handlerVars, watching, work, resolved>>

\* The callback takes the pending names.  One callback runs at a time here;
\* SwappableHandler has them overlap.
TimerFires ==
    /\ Alive /\ timer /\ work = {}
    /\ work' = pending /\ pending' = {} /\ timer' = FALSE
    /\ UNCHANGED <<regVars, inputVars, diskVars, temp, handlerVars, watchVars, resolved>>

\* serviceByName.
ByName(n) == LastNamed(DOMAIN list, n)

Reloading(n) == Alive /\ n \in work /\ (resolved # None => resolved = n)

\* reloadService of a name that has no handler.
NoHandler(n) ==
    /\ Reloading(n) /\ handlers[n] = 0
    /\ work' = work \ {n}
    /\ UNCHANGED <<regVars, inputVars, diskVars, temp, handlerVars, watchVars,
                   pending, timer, resolved>>

\* resolveServiceDir of a static service reads its files and writes its spec
\* again; a spec or a meta.json that does not parse ends the reload.
Resynthesize(n) ==
    /\ Reloading(n) /\ handlers[n] # 0 /\ resolved = None
    /\ list[ByName(n)].static
    /\ \/ /\ \E f \in bad \cap Material(ByName(n)) : f = SpecFile(ByName(n)) \/ f[3] = "meta"
          /\ work' = work \ {n}
          /\ UNCHANGED <<temp, resolved>>
       \/ /\ ~\E f \in bad \cap Material(ByName(n)) : f = SpecFile(ByName(n)) \/ f[3] = "meta"
          /\ temp' = [temp EXCEPT ![n] = Read(Material(ByName(n)))]
          /\ resolved' = n
          /\ UNCHANGED work
    /\ UNCHANGED <<regVars, inputVars, diskVars, handlerVars, watchVars, pending, timer>>

\* Mutant: the name stays marked when its reload is over.
Rebuild_Marked(n) ==
    /\ Reloading(n) /\ handlers[n] # 0
    /\ list[ByName(n)].static => resolved = n
    /\ content' = IF Unloadable(ByName(n)) THEN content
                  ELSE [content EXCEPT ![handlers[n]] = Load(ByName(n))]
    /\ work' = work \ {n}
    /\ UNCHANGED <<regVars, inputVars, diskVars, temp, handlers, watchVars, pending, timer,
                   resolved>>

\* buildHandler and swap.
Rebuild(n) ==
    /\ Reloading(n) /\ handlers[n] # 0
    /\ list[ByName(n)].static => resolved = n
    /\ content' = IF Unloadable(ByName(n)) THEN content
                  ELSE [content EXCEPT ![handlers[n]] = Load(ByName(n))]
    /\ work' = work \ {n} /\ resolved' = None
    /\ UNCHANGED <<regVars, inputVars, diskVars, temp, handlers, watchVars, pending, timer>>

Next ==
    \/ Opening
    \/ \E i \in Services : StartGenerated(i)
    \/ \E i \in Services : ReadService(i)
    \/ \E i \in Services : FailService(i)
    \/ \E i \in Services : Registering(i)
    \/ WatchStart
    \/ \E f \in Files, broken \in BOOLEAN : Edit(f, broken)
    \/ HandleEvent
    \/ TimerFires
    \/ \E n \in work : NoHandler(n)
    \/ \E n \in work : Resynthesize(n)
    \/ \E n \in work : Rebuild(n)

Spec == Init /\ [][Next]_vars

-----------------------------------------------------------------------------
(* Properties                                                              *)

TypeOK ==
    /\ RegTypeOK
    /\ home \in {"/", "/.ui", "none"}
    /\ bad \cup unseen \subseteq Files /\ edits \in Nat
    /\ handlers \in [ServiceNames -> 0..Len(list)]
    /\ \A i \in DOMAIN list : DOMAIN content[i] \subseteq Files
    /\ \A p \in DOMAIN routes : routes[p] \in Seq(ServiceNames)
    /\ events \in Seq(Files)
    /\ pending \subseteq ServiceNames /\ work \subseteq ServiceNames
    /\ resolved \in work \cup {None}

\* A package made of an argument's directory runs the services the directory
\* runs (discover.go 26-27).
PackedMirrorsRaw == \A k \in DOMAIN args : MirrorsRaw(args[k].tree)

\* The UI does not hide a service that is mounted at / because it has no name
\* or by --mount (runner.go 123-131).
RootServed ==
    Portable /\ notFound # 0 /\ (flag = Root \/ list[notFound].name = NoName) => home # "/"

Idle == watching /\ events = <<>> /\ ~timer /\ work = {}

\* Where the watcher is known to lose edits nothing is said.  Two services of one
\* name share its handler; spec files given with the folder they are in have that
\* folder's list overwritten in place (filterBareSpecs, watcher.go 217-231); one
\* whose folder is listed twice is not told of its spec file unless that goes by
\* its name (dirsToWatch, watcher.go 130-147).
Undisturbed(i) ==
    /\ ListedTwice(i) => list[i].name = list[i].spec
    /\ \A j \in DOMAIN list \ {i} :
          /\ list[j].name # list[i].name
          /\ Place(j) = Place(i) => /\ ~list[i].static /\ ~list[j].static
                                   /\ list[j].configured = list[i].configured
                                   /\ list[j].name = list[j].spec /\ list[i].name = list[i].spec

\* Once the watcher has nothing left to do, a registered service serves the
\* last version of every file it is made from, except files it may not have
\* been told of, unless one of its files does not parse (watcher.go 16-18).
\* A meta.json below its folder is one it is never told of, and one that does
\* not parse may have cost it a reload.
IdleServesDisk ==
    Idle => \A i \in Services :
        /\ pc[i] = "registered" /\ Undisturbed(i) /\ Sources(i) \cap bad = {}
        /\ \A f \in Sources(i) \cap unseen : f[3] = "meta" => f[2] = list[i].dir
        => \A f \in Sources(i) \ unseen : content[i][f] = disk[f]
=============================================================================
