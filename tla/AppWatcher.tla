------------------------------ MODULE AppWatcher ------------------------------
(* App mode (cmd/mockzilla): a server that is compiled from its services and  *)
(* rebuilds itself when their files change.  The watcher's event loop, the    *)
(* callback of its debounce timer and the main goroutine all start builds; a  *)
(* finished build puts a token into the restart channel, on which the main    *)
(* goroutine shuts the server down, stops the watcher and replaces itself by  *)
(* the new binary.  Everything the watcher knew is lost then; what is on disk *)
(* is scanned again.                                                         *)
EXTENDS Naturals, Sequences, FiniteSets

CONSTANTS
    Services,
    Static,    \* services made of static files; the others have an OpenAPI file
    Deletable, \* services whose source is ever deleted
    BadSpec,   \* sources that generation fails on
    BadCode,   \* code that does not compile
    MaxEdits,  \* bound on the edits
    None

ASSUME ServicesAssumption ==
    IsFiniteSet(Services) /\ Static \subseteq Services /\ Deletable \subseteq Services
ASSUME EditsAssumption ==
    MaxEdits \in Nat \ {0} /\ BadSpec \subseteq 1..MaxEdits /\ BadCode \subseteq 1..MaxEdits
ASSUME NoneAssumption == None \notin Services

VARIABLES
    edits,    \* edits made so far; each is named by its number
    spec,     \* the edit that wrote the source of a service, 0 without one
    code,     \* the edit that the service's directory was made from or is, or 0
    husks,    \* directories with a configuration but not yet a service in them
    listed,   \* the services that services_gen.go imports
    binary,   \* what .build/mockzilla was compiled from
    running,  \* what the process was compiled from
    main,     \* where the main goroutine is
    registered, watched, events,        \* the watcher
    work,     \* what each goroutine that builds is doing
    pending, timer, due, locked,        \* pendingRestart, its timer and restartMu
    tokens,   \* in the restart channel
    forgotten \* history: services with work that the code has lost track of

disk    == <<edits, spec, code, husks, listed, binary>>
watcher == <<registered, watched, events>>
restart == <<pending, timer, due, locked, tokens>>
vars    == <<disk, running, main, watcher, work, restart, forgotten>>

Versions  == 0..MaxEdits
Binary    == [Services -> Versions]
Empty     == [s \in Services |-> 0]
Goroutine == {"loop", "callback", "main"}
SourceKind == {"create", "update", "delete"}
Event     == [kind : SourceKind \cup {"go", "dir"}, svc : Services]
Work      == [at : {"idle", "generate", "finish", "schedule", "generated", "discover",
                    "compile", "link", "request"},
              svc : Services \cup {None}, out : Binary]
Idle      == [at |-> "idle", svc |-> None, out |-> Empty]

TypeOK ==
    /\ edits \in Versions /\ spec \in Binary /\ code \in Binary
    /\ husks \subseteq Services /\ listed \subseteq Services /\ binary \in Binary /\ running \in Binary
    /\ main \in {"boot", "existing", "rebuild", "select", "shutdown", "stop", "exec", "failing",
                 "dead"}
    /\ registered \subseteq Services /\ watched \subseteq Services /\ events \in Seq(Event)
    /\ work \in [Goroutine -> Work]
    /\ pending \in BOOLEAN /\ timer \in BOOLEAN /\ due \in Nat /\ locked \in BOOLEAN
    /\ tokens \in 0..1 /\ forgotten \subseteq Services

\* A server that was built without services starts; sources may be there.
Init ==
    /\ edits = 1 /\ spec \in [Services -> {0, 1}] /\ code = Empty
    /\ husks = {} /\ listed = {} /\ binary = Empty /\ running = Empty
    /\ main = "boot"
    /\ registered = {} /\ watched = {} /\ events = <<>>
    /\ work = [g \in Goroutine |-> Idle]
    /\ pending = FALSE /\ timer = FALSE /\ due = 0 /\ locked = FALSE /\ tokens = 0
    /\ forgotten = {}

-----------------------------------------------------------------------------
(* Edits                                                                   *)

Alive  == main \notin {"boot", "dead"}
Generated(s) == code[s] # 0

\* The directory of s was made from its source, or edited since.
Current(s) == IF spec[s] = 0 THEN ~Generated(s) ELSE code[s] >= spec[s]

MayEdit == edits < MaxEdits /\ main # "dead"

\* What a watcher that is there is told of service s.
Tell(kinds, s) ==
    events' = IF Alive THEN events \o [i \in 1..Len(kinds) |-> [kind |-> kinds[i], svc |-> s]]
              ELSE events
\* Files of a directory are told of if it is watched.
GoEvent(s) == IF s \in watched THEN <<"go">> ELSE <<>>

\* A new file is created and then written.
EditSource(s) ==
    /\ MayEdit
    /\ edits' = edits + 1
    /\ spec' = [spec EXCEPT ![s] = edits + 1]
    /\ Tell(IF spec[s] = 0 THEN <<"create", "update">> ELSE <<"update">>, s)
    /\ forgotten' = IF Alive THEN forgotten \ {s}
                    ELSE IF Generated(s) THEN forgotten \cup {s} ELSE forgotten
    /\ UNCHANGED <<code, husks, listed, binary, running, main, registered, watched, work, restart>>

DeleteSource(s) ==
    /\ MayEdit /\ s \in Deletable /\ spec[s] # 0
    /\ edits' = edits + 1
    /\ spec' = [spec EXCEPT ![s] = 0]
    /\ Tell(<<"delete">>, s)
    /\ forgotten' = IF Alive THEN forgotten \ {s} ELSE forgotten \cup {s}
    /\ UNCHANGED <<code, husks, listed, binary, running, main, registered, watched, work, restart>>

\* A generated service is edited by hand.
EditCode(s) ==
    /\ MayEdit /\ Generated(s) /\ s \notin husks
    /\ edits' = edits + 1
    /\ code' = [code EXCEPT ![s] = edits + 1]
    /\ Tell(GoEvent(s), s)
    /\ forgotten' = IF ~(Alive /\ s \in watched) THEN forgotten \cup {s}
                    ELSE IF spec[s] # 0 /\ s \in listed THEN forgotten \ {s} ELSE forgotten
    /\ UNCHANGED <<spec, husks, listed, binary, running, main, registered, watched, work, restart>>

-----------------------------------------------------------------------------
(* The event loop                                                          *)

LoopFree == Alive /\ main \notin {"existing", "rebuild"} /\ work["loop"] = Idle /\ events # <<>>
Job      == Head(events)
At(where, s) == [at |-> where, svc |-> s, out |-> Empty]
Go(g, w)     == work' = [work EXCEPT ![g] = w]

\* A new directory is watched from when its event is handled.
HandleNewDir ==
    /\ LoopFree /\ Job.kind = "dir"
    /\ watched' = IF Generated(Job.svc) THEN watched \cup {Job.svc} ELSE watched
    /\ events' = Tail(events)
    /\ UNCHANGED <<disk, running, main, registered, work, restart, forgotten>>

HandleGoFile ==
    /\ LoopFree /\ Job.kind = "go"
    /\ events' = Tail(events)
    /\ Go("loop", At("schedule", None))
    /\ UNCHANGED <<disk, running, main, registered, watched, restart, forgotten>>

\* Removing a watched directory tells of the go files in it.
RemoveDir(s) ==
    /\ code' = [code EXCEPT ![s] = 0] /\ husks' = husks \ {s}
    /\ watched' = watched \ {s}
    /\ events' = IF s \in watched /\ Generated(s)
                 THEN Append(Tail(events), [kind |-> "go", svc |-> s]) ELSE Tail(events)

\* Static files generated anew are built only for the go files that were removed, of
\* which nothing is told while their directory is not watched.
Regenerate(s) ==
    /\ Go("loop", At("generate", s))
    /\ forgotten' = forgotten \cup (({s} \cap Static) \ watched)

\* A new OpenAPI file; static files are generated anew whether new or not.
HandleCreate ==
    /\ LoopFree /\ Job.kind = "create" /\ Job.svc \notin Static
    /\ events' = Tail(events)
    /\ Go("loop", At("generate", Job.svc))
    /\ UNCHANGED <<disk, running, main, registered, watched, restart, forgotten>>

\* Only an OpenAPI service is unregistered with its directory.
HandleUpdate ==
    /\ LoopFree /\ (Job.kind = "update" \/ (Job.kind = "create" /\ Job.svc \in Static))
    /\ RemoveDir(Job.svc)
    /\ registered' = IF Job.svc \in Static THEN registered ELSE registered \ {Job.svc}
    /\ Regenerate(Job.svc)
    /\ UNCHANGED <<edits, spec, listed, binary, running, main, restart>>

\* An OpenAPI service goes in any case, a static one when its directory is empty.
HandleDelete ==
    /\ LoopFree /\ Job.kind = "delete"
    /\ RemoveDir(Job.svc)
    /\ IF Job.svc \in Static /\ spec[Job.svc] # 0
       THEN Regenerate(Job.svc) /\ UNCHANGED registered
       ELSE /\ Go("loop", At("schedule", None)) /\ registered' = registered \ {Job.svc}
            /\ UNCHANGED forgotten
    /\ UNCHANGED <<edits, spec, listed, binary, running, main, restart>>

\* GenerateService writes the configuration first; without a source it writes nothing.
StartGenerate ==
    LET s == work["loop"].svc IN
    /\ Alive /\ work["loop"].at = "generate"
    /\ IF spec[s] = 0
       THEN Go("loop", Idle) /\ UNCHANGED <<code, husks, events>>
       ELSE /\ Go("loop", At("finish", s))
            /\ code' = [code EXCEPT ![s] = spec[s]] /\ husks' = husks \cup {s}
            /\ Tell(IF Generated(s) THEN GoEvent(s) ELSE <<"dir">>, s)
    /\ UNCHANGED <<edits, spec, listed, binary, running, main, registered, watched, restart,
                   forgotten>>

\* A service that is not registered yet is registered and the server rebuilt.  A
\* static one is registered in front of that question.  A source that generation
\* fails on leaves the husk.
FinishGenerate ==
    LET s == work["loop"].svc
        fresh == s \notin registered /\ s \notin Static
    IN  /\ Alive /\ work["loop"].at = "finish"
        /\ IF code[s] \in BadSpec
           THEN Go("loop", Idle) /\ UNCHANGED <<husks, registered>>
           ELSE /\ husks' = husks \ {s} /\ registered' = registered \cup {s}
                /\ Go("loop", IF fresh THEN At("discover", None) ELSE Idle)
        /\ UNCHANGED <<edits, spec, code, listed, binary, running, main, watched, events, restart,
                       forgotten>>

\* Mutant: the timer is set, but the restart not marked as pending.
Schedule_NotPending ==
    /\ Alive /\ work["loop"].at = "schedule" /\ ~locked
    /\ timer' = TRUE
    /\ Go("loop", Idle)
    /\ UNCHANGED <<disk, running, main, watcher, pending, due, locked, tokens, forgotten>>

\* scheduleRestart: a timer that has not fired yet is replaced.
Schedule ==
    /\ Alive /\ work["loop"].at = "schedule" /\ ~locked
    /\ pending' = TRUE /\ timer' = TRUE
    /\ Go("loop", Idle)
    /\ UNCHANGED <<disk, running, main, watcher, due, locked, tokens, forgotten>>

-----------------------------------------------------------------------------
(* The debounce timer                                                      *)

TimerFires ==
    /\ Alive /\ timer
    /\ timer' = FALSE /\ due' = due + 1
    /\ UNCHANGED <<disk, running, main, watcher, work, pending, locked, tokens, forgotten>>

\* The callback keeps restartMu until its build is over and its token is sent.
RunCallback ==
    /\ Alive /\ due > 0 /\ ~locked
    /\ due' = due - 1 /\ pending' = FALSE
    /\ locked' = pending
    /\ IF pending THEN Go("callback", At("compile", None)) ELSE UNCHANGED work
    /\ UNCHANGED <<disk, running, main, watcher, timer, tokens, forgotten>>

-----------------------------------------------------------------------------
(* Building                                                                *)

Release(g) == locked' = (locked /\ g # "callback")

\* runGenDiscover: whatever has a configuration is imported.
Discover(g) ==
    /\ Alive /\ work[g].at = "discover"
    /\ listed' = {s \in Services : Generated(s)}
    /\ Go(g, At("compile", None))
    /\ UNCHANGED <<edits, spec, code, husks, binary, running, main, watcher, restart, forgotten>>

\* What is compiled in; a husk has no code to register a service.
Compiled  == [s \in Services |-> IF s \in listed \ husks THEN code[s] ELSE 0]

Buildable == \A s \in listed : Generated(s) /\ code[s] \notin BadCode
\* What the next build would bring into the binary.
Unbuilt == {s \in Services : code[s] # binary[s] \/ (Generated(s) /\ s \notin listed)}

\* The compiler reads the sources, or the build fails and that is all.
Compile(g) ==
    /\ Alive /\ work[g].at = "compile"
    /\ IF Buildable
       THEN /\ Go(g, [at |-> "link", svc |-> None, out |-> Compiled])
            /\ forgotten' = {s \in forgotten : s \notin listed \ husks \/ ~Current(s)}
            /\ UNCHANGED locked
       ELSE Go(g, Idle) /\ Release(g) /\ forgotten' = forgotten \cup Unbuilt
    /\ UNCHANGED <<disk, running, main, watcher, pending, timer, due, tokens>>

\* The last build to end is the one that stays, whatever it has read.
Link(g) ==
    /\ Alive /\ work[g].at = "link"
    /\ binary' = work[g].out
    /\ forgotten' = forgotten \cup {s \in Services : code[s] = binary[s] /\ code[s] # binary'[s]}
    /\ Go(g, At("request", None))
    /\ UNCHANGED <<edits, spec, code, husks, listed, running, main, watcher, restart>>

\* Mutant: the channel takes any number of tokens.
RequestRestart_Unbounded(g) ==
    /\ Alive /\ work[g].at = "request"
    /\ tokens' = tokens + 1
    /\ Go(g, Idle) /\ Release(g)
    /\ UNCHANGED <<disk, running, main, watcher, pending, timer, due, forgotten>>

\* onReload blocks while there is a token in the channel.
RequestRestart(g) ==
    /\ Alive /\ work[g].at = "request" /\ tokens = 0
    /\ tokens' = 1
    /\ Go(g, Idle) /\ Release(g)
    /\ UNCHANGED <<disk, running, main, watcher, pending, timer, due, forgotten>>

-----------------------------------------------------------------------------
(* The main goroutine                                                      *)

\* Mutant: nothing that is on disk counts as registered.
Boot_Forgetful ==
    /\ main = "boot" /\ main' = "existing"
    /\ registered' = {}
    /\ watched' = {s \in Services : Generated(s)} /\ events' = <<>>
    /\ UNCHANGED <<disk, running, work, restart, forgotten>>

\* newDataWatcher: what was generated before is registered and watched.
Boot ==
    /\ main = "boot" /\ main' = "existing"
    /\ registered' = {s \in Services : Generated(s)}
    /\ watched' = registered' /\ events' = <<>>
    /\ UNCHANGED <<disk, running, work, restart, forgotten>>

Starting == main = "existing" /\ work["main"].at \in {"idle", "generated"}

Missing(s) == spec[s] # 0 /\ s \notin registered

\* processExistingFiles: sources of services that are not registered, each once; one
\* that generation failed on is a husk by now, which no other unregistered one is.
GenerateExisting(s) ==
    /\ Starting /\ Missing(s) /\ s \notin husks
    /\ code' = [code EXCEPT ![s] = spec[s]]
    /\ Tell(<<"dir">>, s)
    /\ IF spec[s] \in BadSpec
       THEN husks' = husks \cup {s} /\ UNCHANGED <<registered, work>>
       ELSE /\ registered' = registered \cup {s} /\ Go("main", At("generated", None))
            /\ UNCHANGED husks
    /\ UNCHANGED <<edits, spec, listed, binary, running, main, watched, restart, forgotten>>

\* If any service was generated, the server is rebuilt before the watcher starts.
FinishExisting ==
    /\ Starting /\ \A s \in Services : Missing(s) => s \in husks
    /\ IF work["main"].at = "generated"
       THEN main' = "rebuild" /\ Go("main", At("discover", None))
       ELSE main' = "select" /\ UNCHANGED work
    /\ UNCHANGED <<disk, running, watcher, restart, forgotten>>

StartWatching ==
    /\ main = "rebuild" /\ work["main"] = Idle
    /\ main' = "select"
    /\ UNCHANGED <<disk, running, watcher, work, restart, forgotten>>

TakeToken ==
    /\ main = "select" /\ tokens > 0
    /\ tokens' = tokens - 1 /\ main' = "shutdown"
    /\ UNCHANGED <<disk, running, watcher, work, pending, timer, due, locked, forgotten>>

ShutDown ==
    /\ main = "shutdown" /\ main' = "stop"
    /\ UNCHANGED <<disk, running, watcher, work, restart, forgotten>>

\* stop waits for a callback that is building, on either way out.
Stop ==
    /\ main \in {"stop", "failing"} /\ ~locked
    /\ pending' = FALSE /\ timer' = FALSE
    /\ main' = IF main = "stop" THEN "exec" ELSE "dead"
    /\ forgotten' = IF pending THEN forgotten \cup Unbuilt ELSE forgotten
    /\ UNCHANGED <<disk, running, watcher, work, due, locked, tokens>>

\* What the watcher has yet to do for the directory of s, and for the binary.
Unmade(s) ==
    \/ \E i \in 1..Len(events) : events[i].svc = s /\ events[i].kind \in SourceKind
    \/ work["loop"].svc = s /\ work["loop"].at \in {"generate", "finish"}
Rebuilding ==
    \/ timer \/ due > 0 \/ \E i \in 1..Len(events) : events[i].kind = "go"
    \/ \E g \in Goroutine : work[g].at \in {"schedule", "discover", "compile", "link"}

\* The process becomes the new binary; nothing in memory survives.  The next one
\* looks again only at a source that has no directory.
Exec ==
    /\ main = "exec" /\ main' = "boot"
    /\ running' = binary
    /\ registered' = {} /\ watched' = {} /\ events' = <<>>
    /\ work' = [g \in Goroutine |-> Idle]
    /\ pending' = FALSE /\ timer' = FALSE /\ due' = 0 /\ locked' = FALSE /\ tokens' = 0
    /\ forgotten' = forgotten \cup
           {s \in Services : (Unmade(s) \/ (Rebuilding /\ s \in Unbuilt))
                             /\ (Generated(s) \/ spec[s] = 0)}
    /\ UNCHANGED disk

\* A request that outlasts the shutdown's deadline: the process is to end with an
\* error.
GiveUp ==
    /\ main = "shutdown" /\ main' = "failing"
    /\ UNCHANGED <<disk, running, watcher, work, restart, forgotten>>

MainStep == Boot \/ FinishExisting \/ StartWatching \/ TakeToken \/ ShutDown \/ Stop \/ Exec
            \/ \E s \in Services : GenerateExisting(s)
LoopStep == \/ HandleNewDir \/ HandleGoFile \/ HandleCreate \/ HandleUpdate \/ HandleDelete
            \/ StartGenerate \/ FinishGenerate \/ Schedule
Build(g) == Discover(g) \/ Compile(g) \/ Link(g) \/ RequestRestart(g)

Next ==
    \/ \E s \in Services : EditSource(s) \/ DeleteSource(s) \/ EditCode(s) \/ GenerateExisting(s)
    \/ HandleNewDir \/ HandleGoFile \/ HandleCreate \/ HandleUpdate \/ HandleDelete
    \/ StartGenerate \/ FinishGenerate \/ Schedule
    \/ TimerFires \/ RunCallback
    \/ \E g \in Goroutine : Discover(g) \/ Compile(g) \/ Link(g) \/ RequestRestart(g)
    \/ Boot \/ FinishExisting \/ StartWatching \/ TakeToken \/ ShutDown \/ Stop \/ Exec \/ GiveUp

Spec == Init /\ [][Next]_vars

\* Every goroutine that can go on goes on; edits stop after MaxEdits.
Fairness ==
    /\ WF_vars(MainStep) /\ WF_vars(LoopStep)
    /\ WF_vars(TimerFires) /\ WF_vars(RunCallback)
    /\ \A g \in Goroutine : WF_vars(Build(g))
FairSpec == Spec /\ Fairness

-----------------------------------------------------------------------------
(* Properties                                                              *)

\* Nothing is left to do for any edit.
Settled ==
    /\ main = "select" /\ tokens = 0 /\ events = <<>> /\ ~timer /\ due = 0
    /\ \A g \in Goroutine : work[g] = Idle

\* When nothing is left to do, every source has been given to the generator, a
\* directory is half made only where generation fails, and the process serves the
\* code on disk (watcher.go 270-390, main.go 251-292): no told edit is lost to the
\* interleaving of the loop, the timer's callback and the main goroutine, unless the
\* code loses it.  It does lose track of a service, and then nothing is said of it
\* before an edit of it is told or a build takes it in,
\*   - when a restart comes while there is work to be done for it (main.go 84),
\*   - when a build fails, or ends after a newer one (watcher.go 373-381),
\*   - when an edit of it is not told, during start-up or in a new directory,
\*   - when static files are generated anew and their directory is new, too.
\* Nor is anything said of static files that no discovery has listed (watcher.go 594).
SettledServes ==
    Settled => \A s \in Services \ forgotten :
        /\ Current(s)
        /\ s \in husks => code[s] \in BadSpec
        /\ s \notin husks /\ (s \in Static /\ Generated(s) => s \in listed)
               => running[s] = code[s]

\* A server that generates code into what it watches and restarts on what it finds
\* there comes to an end of it (watcher.go 115-148 and 602-626).
RestartsEnd == <>[](main # "boot")

\* A shutdown that has begun ends in a restart or, if a request outlasts its
\* timeout, in an error (main.go 279-286).
RestartCompletes == (main = "shutdown") ~> (main \in {"boot", "dead"})
=============================================================================
