--------------------------- MODULE AppWatcher_proofs ---------------------------
(***************************************************************************)
(* The application watcher for any services, edits and failures: the types *)
(* of its state, and that every edit it is told of is served unless the    *)
(* code loses track of it.                                                 *)
(***************************************************************************)
EXTENDS AppWatcher, SequenceTheorems, TLAPS

(* -------------------------------- Types -------------------------------- *)

Loop      == work["loop"]
Kinds     == {"create", "update", "delete", "go", "dir"}
MakingOne == Loop.at \in {"generate", "finish"}

\* The loop generates for a service, never for None.
TypeInv == TypeOK /\ (MakingOne => Loop.svc \in Services)

\* What the loop or main is set to do, as a goroutine's work.
LEMMA IdleIsWork == Idle \in Work /\ Empty \in Binary
BY EditsAssumption DEF Idle, Work, Empty, Binary, Versions

\* A goroutine that goes on to a next line of its work.
LEMMA AtIsWork ==
  ASSUME NEW where \in {"generate", "finish", "schedule", "generated", "discover", "compile",
                        "request"},
         NEW s \in Services \cup {None}
  PROVE  At(where, s) \in Work
BY IdleIsWork DEF At, Work

\* Telling the watcher of something keeps a queue a queue.
LEMMA TellTypes ==
  ASSUME events \in Seq(Event), NEW s \in Services,
         NEW kinds \in Seq(Kinds), Tell(kinds, s)
  PROVE  events' \in Seq(Event)
<1> DEFINE told == [i \in 1..Len(kinds) |-> [kind |-> kinds[i], svc |-> s]]
<1>1. told \in Seq(Event)
  <2>1. \A i \in 1..Len(kinds) : kinds[i] \in Kinds
    OBVIOUS
  <2>2. told \in [1..Len(kinds) -> Event]
    BY <2>1 DEF Event, SourceKind, Kinds
  <2> QED BY <2>2
<1>2. events' = IF Alive THEN events \o told ELSE events
  BY DEF Tell
<1> QED BY <1>1, <1>2

\* What the watcher is told of after an edit.
LEMMA KindsAreKinds ==
  ASSUME NEW s
  PROVE  /\ GoEvent(s) \in Seq(Kinds)
         /\ <<"dir">> \in Seq(Kinds)
         /\ <<"delete">> \in Seq(Kinds)
         /\ <<"update">> \in Seq(Kinds)
         /\ <<"create", "update">> \in Seq(Kinds)
<1>1. <<"go">> \in Seq(Kinds) /\ <<>> \in Seq(Kinds)
  BY DEF Kinds
<1>2. GoEvent(s) \in Seq(Kinds)
  BY <1>1 DEF GoEvent
<1> QED BY <1>2 DEF Kinds

\* The event the loop takes next is one.
LEMMA JobTypes ==
  ASSUME events \in Seq(Event), events # <<>>
  PROVE  Tail(events) \in Seq(Event) /\ Job \in Event /\ Job.svc \in Services
<1>1. Job \in Event
  BY DEF Job
<1> QED BY <1>1 DEF Event

\* The first process starts with typed variables.
LEMMA TypeInit == Init => TypeInv
<1> SUFFICES ASSUME Init PROVE TypeInv
  OBVIOUS
<1>1. 1 \in Versions /\ 0 \in Versions
  BY EditsAssumption DEF Versions
<1>2. work \in [Goroutine -> Work] /\ Loop = Idle
  BY IdleIsWork DEF Init, Goroutine, Loop
<1>3. spec \in Binary
  BY <1>1 DEF Init, Binary
<1>4. ~MakingOne
  BY <1>2 DEF MakingOne, Idle
<1>5. pending \in BOOLEAN /\ timer \in BOOLEAN /\ locked \in BOOLEAN
  BY DEF Init
<1> QED BY <1>1, <1>2, <1>3, <1>4, <1>5, IdleIsWork DEF Init, TypeInv, TypeOK

\* Every step keeps the types; the ones that build keep the channel to one token.
LEMMA TypeStep ==
  ASSUME TypeInv, [Next]_vars
  PROVE  TypeInv'
<1> USE DEF TypeInv, TypeOK
<1> USE IdleIsWork, AtIsWork
<1>1. ASSUME NEW s \in Services, EditSource(s) \/ DeleteSource(s) \/ EditCode(s)
      PROVE  TypeInv'
  <2>1. edits' \in Versions /\ spec' \in Binary /\ code' \in Binary
    <3>1. edits + 1 \in Versions /\ 0 \in Versions /\ edits' = edits + 1
      BY <1>1, EditsAssumption DEF EditSource, DeleteSource, EditCode, MayEdit, Versions
    <3>2. CASE EditSource(s)
      BY <3>1, <3>2 DEF EditSource, Binary
    <3>3. CASE DeleteSource(s)
      BY <3>1, <3>3 DEF DeleteSource, Binary
    <3>4. CASE EditCode(s)
      BY <3>1, <3>4 DEF EditCode, Binary
    <3> QED BY <1>1, <3>2, <3>3, <3>4
  <2>2. events' \in Seq(Event)
    BY <1>1, TellTypes, KindsAreKinds DEF EditSource, DeleteSource, EditCode
  <2>3. UNCHANGED <<husks, listed, binary, running, main, registered, watched, work, restart>>
    BY <1>1 DEF EditSource, DeleteSource, EditCode
  <2>4. forgotten' \subseteq Services
    BY <1>1 DEF EditSource, DeleteSource, EditCode
  <2> QED BY <2>1, <2>2, <2>3, <2>4 DEF restart, MakingOne, Loop
<1>2. CASE HandleNewDir
  BY <1>2, JobTypes DEF HandleNewDir, LoopFree, disk, restart, MakingOne, Loop
<1>3. CASE HandleGoFile
  BY <1>3, JobTypes
     DEF HandleGoFile, LoopFree, disk, restart, MakingOne, Loop, Go, At, Goroutine
<1>4. CASE HandleCreate
  BY <1>4, JobTypes
     DEF HandleCreate, LoopFree, disk, restart, MakingOne, Loop, Go, At, Goroutine
<1>5. ASSUME HandleUpdate \/ HandleDelete
      PROVE  TypeInv'
  <2>1. LoopFree
    BY <1>5 DEF HandleUpdate, HandleDelete
  <2>2. RemoveDir(Job.svc)
    BY <1>5 DEF HandleUpdate, HandleDelete
  <2>3. [kind |-> "go", svc |-> Job.svc] \in Event
    BY <2>1, JobTypes DEF LoopFree, Event
  <2>4. events' \in Seq(Event)
    BY <2>1, <2>2, <2>3, JobTypes DEF LoopFree, RemoveDir
  <2>5. code' \in Binary /\ husks' \subseteq Services /\ watched' \subseteq Services
    BY <2>1, <2>2, JobTypes, EditsAssumption DEF LoopFree, RemoveDir, Binary, Versions
  <2>6. registered' \subseteq Services
    BY <1>5 DEF HandleUpdate, HandleDelete
  <2>7. work' \in [Goroutine -> Work] /\ (MakingOne => Loop.svc \in Services)'
    BY <1>5, <2>1, JobTypes
       DEF LoopFree, HandleUpdate, HandleDelete, Regenerate, Go, At, Goroutine, MakingOne, Loop
  <2>8. UNCHANGED <<edits, spec, listed, binary, running, main, restart>>
    BY <1>5 DEF HandleUpdate, HandleDelete
  <2>9. forgotten' \subseteq Services
    BY <1>5, <2>1, JobTypes DEF HandleUpdate, HandleDelete, Regenerate, LoopFree
  <2> QED BY <2>4, <2>5, <2>6, <2>7, <2>8, <2>9 DEF restart
<1>6. CASE StartGenerate
  <2> DEFINE s == Loop.svc
  <2>1. s \in Services
    BY <1>6 DEF StartGenerate, MakingOne, Loop
  <2>2. CASE spec[s] = 0
    BY <1>6, <2>2 DEF StartGenerate, Go, Idle, MakingOne, Loop, Goroutine, restart
  <2>3. CASE spec[s] # 0
    <3>1. code' = [code EXCEPT ![s] = spec[s]] /\ husks' = husks \cup {s}
      BY <1>6, <2>3 DEF StartGenerate, Loop
    <3>2. Tell(IF Generated(s) THEN GoEvent(s) ELSE <<"dir">>, s)
      BY <1>6, <2>3 DEF StartGenerate, Loop
    <3>3. events' \in Seq(Event)
      BY <2>1, <3>2, TellTypes, KindsAreKinds
    <3>4. work' = [work EXCEPT !["loop"] = At("finish", s)]
      BY <1>6, <2>3 DEF StartGenerate, Go, Loop
    <3>5. UNCHANGED <<edits, spec, listed, binary, running, main, registered, watched, restart, forgotten>>
      BY <1>6 DEF StartGenerate
    <3> HIDE DEF s
    <3>6. work' \in [Goroutine -> Work] /\ Loop' = At("finish", s)
      BY <2>1, <3>4 DEF Goroutine, Loop
    <3>7. Loop'.svc \in Services
      BY <2>1, <3>6 DEF At
    <3>8. code' \in Binary
      BY <2>1, <3>1 DEF Binary
    <3> QED BY <2>1, <3>1, <3>3, <3>5, <3>6, <3>7, <3>8 DEF restart
  <2> QED BY <2>2, <2>3
<1>7. CASE FinishGenerate
  <2>1. Loop.svc \in Services
    BY <1>7 DEF FinishGenerate, MakingOne, Loop
  <2>2. husks' \subseteq Services /\ registered' \subseteq Services
    BY <1>7, <2>1 DEF FinishGenerate, Loop
  <2>3. Go("loop", At("discover", None)) \/ Go("loop", Idle)
    BY <1>7 DEF FinishGenerate
  <2>4. work' \in [Goroutine -> Work] /\ (MakingOne => Loop.svc \in Services)'
    BY <2>3 DEF Go, Idle, At, MakingOne, Loop, Goroutine
  <2> QED BY <1>7, <2>2, <2>4 DEF FinishGenerate, restart
<1>8. CASE Schedule
  BY <1>8 DEF Schedule, Go, Idle, MakingOne, Loop, Goroutine, disk, watcher
<1>9. CASE TimerFires
  <2>1. timer' \in BOOLEAN /\ pending' \in BOOLEAN /\ locked' \in BOOLEAN
    BY <1>9 DEF TimerFires
  <2> QED BY <1>9, <2>1 DEF TimerFires, MakingOne, Loop, disk, watcher
<1>10. CASE RunCallback
  <2>1. work' \in [Goroutine -> Work] /\ work'["loop"] = work["loop"]
    BY <1>10 DEF RunCallback, Go, Goroutine
  <2>2. pending' \in BOOLEAN /\ locked' \in BOOLEAN
    BY <1>10 DEF RunCallback
  <2>3. due' \in Nat
    BY <1>10 DEF RunCallback
  <2> QED BY <1>10, <2>1, <2>2, <2>3 DEF RunCallback, MakingOne, Loop, disk, watcher
<1>11. ASSUME NEW g \in Goroutine, Discover(g) \/ Link(g)
      PROVE  TypeInv'
  <2>1. work' \in [Goroutine -> Work] /\ (MakingOne => Loop.svc \in Services)'
    BY <1>11 DEF Discover, Link, Go, At, MakingOne, Loop, Goroutine
  <2>2. listed' \subseteq Services /\ binary' \in Binary
    BY <1>11 DEF Discover, Link, Work
  <2>3. forgotten' \subseteq Services
    BY <1>11 DEF Discover, Link
  <2> QED BY <1>11, <2>1, <2>2, <2>3 DEF Discover, Link, watcher, restart
<1>12. ASSUME NEW g \in Goroutine, Compile(g) \/ RequestRestart(g)
      PROVE  TypeInv'
  <2>1. Compiled \in Binary
    BY EditsAssumption DEF Compiled, Binary, Versions
  <2>2. [at |-> "link", svc |-> None, out |-> Compiled] \in Work
    BY <2>1 DEF Work
  <2>3. work' \in [Goroutine -> Work] /\ (MakingOne => Loop.svc \in Services)'
    BY <1>12, <2>2 DEF Compile, RequestRestart, Go, Idle, MakingOne, Loop, Goroutine
  <2>4. locked' \in BOOLEAN
    BY <1>12 DEF Compile, RequestRestart, Release
  <2>5. tokens' \in 0..1
    BY <1>12 DEF Compile, RequestRestart
  <2>6. forgotten' \subseteq Services
    BY <1>12 DEF Compile, RequestRestart, Unbuilt
  <2> QED BY <1>12, <2>3, <2>4, <2>5, <2>6 DEF Compile, RequestRestart, disk, watcher
<1>13. CASE Boot \/ StartWatching \/ TakeToken \/ ShutDown \/ Stop \/ GiveUp
  <2>1. pending' \in BOOLEAN /\ timer' \in BOOLEAN /\ locked' \in BOOLEAN
    BY <1>13 DEF Boot, StartWatching, TakeToken, ShutDown, Stop, GiveUp, restart
  <2>2. work' = work /\ UNCHANGED disk
    BY <1>13 DEF Boot, StartWatching, TakeToken, ShutDown, Stop, GiveUp
  <2>3. registered' \subseteq Services /\ watched' \subseteq Services /\ events' \in Seq(Event)
    <3>1. \/ /\ registered' = {s \in Services : Generated(s)} /\ watched' = registered'
             /\ events' = <<>>
          \/ registered' = registered /\ watched' = watched /\ events' = events
      BY <1>13 DEF Boot, StartWatching, TakeToken, ShutDown, Stop, GiveUp, watcher
    <3>2. {s \in Services : Generated(s)} \subseteq Services /\ <<>> \in Seq(Event)
      OBVIOUS
    <3>3. registered' \subseteq Services /\ watched' \subseteq Services
      BY <3>1, <3>2
    <3>4. events' \in Seq(Event)
      BY <3>1, <3>2
    <3> QED BY <3>3, <3>4
  <2>4. tokens' \in 0..1 /\ due' \in Nat /\ running' = running
    BY <1>13 DEF Boot, StartWatching, TakeToken, ShutDown, Stop, GiveUp, restart
  <2>5. main' \in {"boot", "existing", "rebuild", "select", "shutdown", "stop", "exec", "failing",
                   "dead"}
    BY <1>13 DEF Boot, StartWatching, TakeToken, ShutDown, Stop, GiveUp
  <2>6. forgotten' \subseteq Services
    BY <1>13 DEF Boot, StartWatching, TakeToken, ShutDown, Stop, GiveUp, Unbuilt
  <2> QED BY <2>1, <2>2, <2>3, <2>4, <2>5, <2>6 DEF MakingOne, Loop, disk
<1>14. ASSUME NEW s \in Services, GenerateExisting(s)
      PROVE  TypeInv'
  <2>1. events' \in Seq(Event)
    BY <1>14, TellTypes, KindsAreKinds DEF GenerateExisting
  <2>2. code' \in Binary /\ husks' \subseteq Services /\ registered' \subseteq Services
    BY <1>14 DEF GenerateExisting, Binary
  <2>3. work' \in [Goroutine -> Work] /\ (MakingOne => Loop.svc \in Services)'
    BY <1>14 DEF GenerateExisting, Go, MakingOne, Loop, Goroutine
  <2> QED BY <1>14, <2>1, <2>2, <2>3 DEF GenerateExisting, restart
<1>15. CASE FinishExisting
  <2>1. work' \in [Goroutine -> Work] /\ (MakingOne => Loop.svc \in Services)'
    BY <1>15 DEF FinishExisting, Go, MakingOne, Loop, Goroutine
  <2> QED BY <1>15, <2>1 DEF FinishExisting, disk, watcher, restart
<1>16. CASE Exec
  <2>1. work' \in [Goroutine -> Work] /\ (MakingOne => Loop.svc \in Services)'
    BY <1>16 DEF Exec, Idle, MakingOne, Loop, Goroutine
  <2>2. pending' \in BOOLEAN /\ timer' \in BOOLEAN /\ locked' \in BOOLEAN
    BY <1>16 DEF Exec
  <2>3. UNCHANGED disk /\ running' = binary /\ main' = "boot" /\ due' = 0 /\ tokens' = 0
    BY <1>16 DEF Exec
  <2>4. registered' = {} /\ watched' = {} /\ events' = <<>>
    BY <1>16 DEF Exec
  <2>5. forgotten' \subseteq Services
    BY <1>16 DEF Exec
  <2> QED BY <2>1, <2>2, <2>3, <2>4, <2>5 DEF disk
<1>17. CASE UNCHANGED vars
  BY <1>17 DEF vars, MakingOne, Loop, disk, watcher, restart
<1> QED BY <1>1, <1>2, <1>3, <1>4, <1>5, <1>6, <1>7, <1>8, <1>9, <1>10, <1>11, <1>12, <1>13,
           <1>14, <1>15, <1>16, <1>17 DEF Next

\* Every variable has its type, whatever fails and whenever the edits fall: the
\* restart channel never holds more than its one token (main.go:251-255), and only
\* services are generated.
THEOREM TypeCorrect == Spec => []TypeOK
<1>1. TypeInv => TypeOK
  BY DEF TypeInv
<1> QED BY TypeInit, TypeStep, <1>1, PTL DEF Spec

(* ------------------------ The inductive invariant ------------------------ *)

\* What is in a queue, and whether every event of one kind comes before one of
\* another.
In(q, k, s)         == \E i \in 1..Len(q) : q[i].kind = k /\ q[i].svc = s
HasGo(q)            == \E i \in 1..Len(q) : q[i].kind = "go"
Follows(q, k, l, s) ==
    \A i \in 1..Len(q) : q[i].kind = k /\ q[i].svc = s =>
        \E j \in (i + 1)..Len(q) : q[j].kind = l /\ q[j].svc = s

Making(s) == Loop.svc = s /\ MakingOne
ToMake(s) == Making(s) /\ Loop.at = "generate"
Busy(at)  == \E g \in Goroutine : work[g].at = at
\* Start-up has yet to look at the sources.
Early     == main \in {"boot", "existing"}

\* What the goroutines may be doing, and when.
Shapes ==
    /\ Loop.at # "generated" /\ work["callback"].at \in {"idle", "compile", "link", "request"}
    /\ work["callback"].at # "idle" => locked
    /\ work["main"].at # "idle" => main \in {"existing", "rebuild"}
    /\ work["main"].at = "generated" => main = "existing"
    /\ main = "existing" => work["main"].at \in {"idle", "generated"}
    /\ main \in {"boot", "existing", "rebuild"} => Loop.at = "idle"
    /\ main = "boot" => events = <<>>

\* A binary that is not what runs is on its way there.
Ongoing ==
    binary # running =>
        Busy("request") \/ tokens > 0 \/ main \in {"shutdown", "stop", "exec", "failing", "dead"}

\* What the watcher knows has been generated; what the loop generates is half made.
Tidy(s) ==
    /\ spec[s] <= edits
    /\ s \in husks \cup watched => Generated(s)
    /\ main = "existing" /\ s \in registered => Generated(s)
    /\ Making(s) => (Loop.at = "finish" => s \in husks)
    /\ Making(s) /\ s \in Static => (Loop.at = "generate" => ~Generated(s))

\* The last that the queue tells of a source is what is true of it.
Queue(s) ==
    /\ spec[s] # 0 => Follows(events, "delete", "update", s)
    /\ spec[s] = 0 => Follows(events, "update", "delete", s)
    /\ Follows(events, "create", "update", s)
    /\ ToMake(s) /\ spec[s] = 0 => In(events, "delete", s)
    /\ Making(s) /\ s \in registered /\ s \notin Static => In(events, "update", s)

\* The directory is as the source is, or becomes so.
Made(s) ==
    /\ spec[s] # 0 => \/ In(events, "update", s) \/ code[s] >= spec[s]
                      \/ ToMake(s) \/ (Early /\ ~Generated(s))
    /\ spec[s] = 0 /\ Generated(s) => In(events, "delete", s)

\* The service will be looked at, or is being made.
Ahead(s) == In(events, "update", s) \/ In(events, "delete", s) \/ Making(s)
\* A build will begin, or read the disk.
Due ==
    \/ HasGo(events) \/ (pending /\ (timer \/ due > 0))
    \/ Busy("schedule") \/ Busy("discover") \/ Busy("compile") \/ Busy("generated")
Linking(s) == \E g \in Goroutine : work[g].at = "link" /\ work[g].out[s] = code[s]

\* What is on disk is in the binary, or comes there.
Carried(s) ==
    \/ s \in husks \/ (s \in Static /\ Generated(s) /\ s \notin listed)
    \/ Ahead(s) \/ Due \/ Linking(s)
    \/ Early /\ spec[s] # 0 /\ ~Generated(s)
    \/ binary[s] = code[s]

\* An OpenAPI service that is generated is discovered.
Listing(s) ==
    Generated(s) /\ s \notin Static \cup husks \cup listed =>
        \/ Busy("discover") \/ Busy("generated")
        \/ In(events, "update", s) \/ In(events, "delete", s)
        \/ Making(s) /\ s \notin registered

\* A service the code has not lost track of.
Tracked(s) ==
    /\ Made(s) /\ Carried(s) /\ Listing(s)
    /\ s \in husks => code[s] \in BadSpec \/ Ahead(s)
    /\ Making(s) /\ s \in Static =>
           HasGo(events) \/ In(events, "update", s) \/ In(events, "delete", s)

Course ==
    /\ Shapes /\ Ongoing
    /\ \A s \in Services : Tidy(s) /\ Queue(s) /\ (s \notin forgotten => Tracked(s))

\* An event goes to the end of the queue.
LEMMA Pushed ==
  ASSUME NEW q \in Seq(Event), NEW e \in Event, NEW p, p = Append(q, e)
  PROVE  /\ HasGo(p) <=> HasGo(q) \/ e.kind = "go"
         /\ \A k, s : In(p, k, s) <=> In(q, k, s) \/ (e.kind = k /\ e.svc = s)
         /\ \A k, l, s : Follows(q, k, l, s) /\ ~(e.kind = k /\ e.svc = s) => Follows(p, k, l, s)
         /\ \A k, l, s : e.kind = l /\ e.svc = s /\ k # l => Follows(p, k, l, s)
<1>1. /\ Len(p) = Len(q) + 1 /\ Len(q) \in Nat
      /\ \A i \in 1..Len(q) : p[i] = q[i]
      /\ p[Len(q) + 1] = e
  OBVIOUS
<1>2. HasGo(p) <=> HasGo(q) \/ e.kind = "go"
  BY <1>1 DEF HasGo
<1>3. \A k, s : In(p, k, s) <=> In(q, k, s) \/ (e.kind = k /\ e.svc = s)
  BY <1>1 DEF In
<1>4. ASSUME NEW k, NEW l, NEW s, Follows(q, k, l, s), ~(e.kind = k /\ e.svc = s)
      PROVE  Follows(p, k, l, s)
  BY <1>1, <1>4 DEF Follows
<1>5. ASSUME NEW k, NEW l, NEW s, e.kind = l, e.svc = s, k # l
      PROVE  Follows(p, k, l, s)
  <2>1. SUFFICES ASSUME NEW i \in 1..Len(p), p[i].kind = k
                 PROVE  Len(q) + 1 \in (i + 1)..Len(p)
    BY <1>1, <1>5 DEF Follows
  <2> QED BY <1>1, <1>5, <2>1
<1> QED BY <1>2, <1>3, <1>4, <1>5

\* The event of a file or a directory says nothing of the sources.
LEMMA PushedFile ==
  ASSUME NEW q \in Seq(Event), NEW e \in Event, NEW p, p = Append(q, e),
         e.kind \in {"go", "dir"}, NEW s
  PROVE  /\ HasGo(p) <=> HasGo(q) \/ e.kind = "go"
         /\ In(p, "update", s) <=> In(q, "update", s)
         /\ In(p, "delete", s) <=> In(q, "delete", s)
         /\ Follows(q, "delete", "update", s) => Follows(p, "delete", "update", s)
         /\ Follows(q, "update", "delete", s) => Follows(p, "update", "delete", s)
         /\ Follows(q, "create", "update", s) => Follows(p, "create", "update", s)
<1>1. e.kind \notin SourceKind
  BY DEF SourceKind
<1>2. In(p, "update", s) <=> In(q, "update", s)
  BY <1>1, Pushed DEF SourceKind
<1>3. In(p, "delete", s) <=> In(q, "delete", s)
  BY <1>1, Pushed DEF SourceKind
<1>4. HasGo(p) <=> HasGo(q) \/ e.kind = "go"
  BY Pushed
<1>5. Follows(q, "delete", "update", s) => Follows(p, "delete", "update", s)
  BY <1>1, Pushed DEF SourceKind
<1>6. Follows(q, "update", "delete", s) => Follows(p, "update", "delete", s)
  BY <1>1, Pushed DEF SourceKind
<1>7. Follows(q, "create", "update", s) => Follows(p, "create", "update", s)
  BY <1>1, Pushed DEF SourceKind
<1> QED BY <1>2, <1>3, <1>4, <1>5, <1>6, <1>7

\* The first event is taken from the queue.
LEMMA Popped ==
  ASSUME NEW q \in Seq(Event), q # <<>>, NEW p, p = Tail(q), NEW e, e = Head(q)
  PROVE  /\ HasGo(q) <=> HasGo(p) \/ e.kind = "go"
         /\ \A k, s : In(q, k, s) <=> In(p, k, s) \/ (e.kind = k /\ e.svc = s)
         /\ \A k, l, s : Follows(q, k, l, s) => Follows(p, k, l, s)
         /\ \A k, l, s : Follows(q, k, l, s) /\ e.kind = k /\ e.svc = s => In(p, l, s)
<1>1. /\ p \in Seq(Event) /\ Len(q) \in Nat \ {0} /\ Len(p) = Len(q) - 1
      /\ \A i \in 1..Len(p) : p[i] = q[i + 1]
      /\ \A i \in 2..Len(q) : q[i] = p[i - 1]
      /\ e = q[1]
  OBVIOUS
<1>2. HasGo(q) <=> HasGo(p) \/ e.kind = "go"
  <2>1. HasGo(q) => HasGo(p) \/ e.kind = "go"
    <3>1. ASSUME NEW i \in 1..Len(q), q[i].kind = "go", i # 1
          PROVE  i - 1 \in 1..Len(p) /\ p[i - 1].kind = "go"
      BY <1>1, <3>1
    <3> QED BY <1>1, <3>1 DEF HasGo
  <2>2. HasGo(p) \/ e.kind = "go" => HasGo(q)
    BY <1>1 DEF HasGo
  <2> QED BY <2>1, <2>2
<1>3. ASSUME NEW k, NEW s
      PROVE  In(q, k, s) <=> In(p, k, s) \/ (e.kind = k /\ e.svc = s)
  <2>1. In(q, k, s) => In(p, k, s) \/ (e.kind = k /\ e.svc = s)
    <3>1. ASSUME NEW i \in 1..Len(q), q[i].kind = k, q[i].svc = s, i # 1
          PROVE  i - 1 \in 1..Len(p) /\ p[i - 1].kind = k /\ p[i - 1].svc = s
      BY <1>1, <3>1
    <3> QED BY <1>1, <3>1 DEF In
  <2>2. In(p, k, s) \/ (e.kind = k /\ e.svc = s) => In(q, k, s)
    BY <1>1 DEF In
  <2> QED BY <2>1, <2>2
<1>4. ASSUME NEW k, NEW l, NEW s, Follows(q, k, l, s)
      PROVE  Follows(p, k, l, s)
  <2>1. SUFFICES ASSUME NEW i \in 1..Len(p), p[i].kind = k, p[i].svc = s
                 PROVE  \E j \in (i + 1)..Len(p) : p[j].kind = l /\ p[j].svc = s
    BY DEF Follows
  <2>2. i + 1 \in 1..Len(q) /\ q[i + 1] = p[i]
    BY <1>1
  <2>3. PICK j \in (i + 2)..Len(q) : q[j].kind = l /\ q[j].svc = s
    BY <1>1, <1>4, <2>1, <2>2 DEF Follows
  <2>4. j - 1 \in (i + 1)..Len(p) /\ p[j - 1] = q[j]
    BY <1>1, <2>3
  <2> QED BY <2>3, <2>4
<1>5. ASSUME NEW k, NEW l, NEW s, Follows(q, k, l, s), e.kind = k, e.svc = s
      PROVE  In(p, l, s)
  <2>1. PICK j \in 2..Len(q) : q[j].kind = l /\ q[j].svc = s
    BY <1>1, <1>5 DEF Follows
  <2>2. j - 1 \in 1..Len(p) /\ p[j - 1] = q[j]
    BY <1>1, <2>1
  <2> QED BY <2>1, <2>2 DEF In
<1> QED BY <1>2, <1>3, <1>4, <1>5

\* The empty queue.
LEMMA Nothing ==
  /\ ~HasGo(<<>>)
  /\ \A k, s : ~In(<<>>, k, s)
  /\ \A k, l, s : Follows(<<>>, k, l, s)
BY DEF HasGo, In, Follows

\* One event is told of.
LEMMA TellOne ==
  ASSUME NEW kind \in Kinds, NEW s \in Services, events \in Seq(Event), Alive, Tell(<<kind>>, s)
  PROVE  /\ events' = Append(events, [kind |-> kind, svc |-> s])
         /\ [kind |-> kind, svc |-> s] \in Event
<1>1. [i \in 1..Len(<<kind>>) |-> [kind |-> <<kind>>[i], svc |-> s]]
          = <<[kind |-> kind, svc |-> s]>>
  OBVIOUS
<1>2. [kind |-> kind, svc |-> s] \in Event
  BY DEF Event, SourceKind, Kinds
<1> QED BY <1>1, <1>2 DEF Tell

\* A file is told of if its directory is watched.
LEMMA TellFile ==
  ASSUME NEW s \in Services, events \in Seq(Event), Alive, Tell(GoEvent(s), s)
  PROVE  \/ s \in watched /\ events' = Append(events, [kind |-> "go", svc |-> s])
         \/ s \notin watched /\ events' = events
<1>1. CASE s \in watched
  BY <1>1, TellOne DEF GoEvent, Kinds
<1>2. CASE s \notin watched
  <2>1. [i \in 1..Len(<<>>) |-> [kind |-> <<>>[i], svc |-> s]] = <<>>
    OBVIOUS
  <2> QED BY <1>2, <2>1 DEF GoEvent, Tell
<1> QED BY <1>1, <1>2

\* A new source is told of twice.
LEMMA TellTwo ==
  ASSUME NEW s \in Services, events \in Seq(Event), Alive, Tell(<<"create", "update">>, s)
  PROVE  events' = Append(Append(events, [kind |-> "create", svc |-> s]),
                          [kind |-> "update", svc |-> s])
<1>1. [i \in 1..Len(<<"create", "update">>) |->
          [kind |-> <<"create", "update">>[i], svc |-> s]]
          = <<[kind |-> "create", svc |-> s], [kind |-> "update", svc |-> s]>>
  OBVIOUS
<1>2. [kind |-> "create", svc |-> s] \in Event /\ [kind |-> "update", svc |-> s] \in Event
  BY DEF Event, SourceKind
<1> QED BY <1>1, <1>2 DEF Tell

\* A step of one goroutine.
LEMMA Goes ==
  ASSUME TypeInv, NEW g \in Goroutine, NEW w, Go(g, w)
  PROVE  work'[g] = w /\ \A h \in Goroutine : h # g => work'[h] = work[h]
BY DEF TypeInv, TypeOK, Go

\* Versions are numbers, so that they can be compared.
LEMMA Numbers ==
  ASSUME TypeInv, NEW s \in Services
  PROVE  code[s] \in Nat /\ spec[s] \in Nat /\ None \notin Services
BY NoneAssumption DEF TypeInv, TypeOK, Binary, Versions

\* What is tracked stays so if neither the disk nor the queue changes, and what was
\* to come is still to come.
LEMMA Frame ==
  ASSUME TypeInv, Course, Shapes', Ongoing',
         edits' = edits, spec' = spec, code' = code, husks' = husks, listed' = listed,
         binary' = binary, events' = events, registered' = registered, watched' = watched,
         forgotten' = forgotten,
         Loop' = Loop \/ (~MakingOne /\ ~MakingOne'),
         Early' <=> Early, main' = "existing" <=> main = "existing",
         Due => Due',
         Busy("discover") \/ Busy("generated") => (Busy("discover") \/ Busy("generated"))',
         \A s \in Services : Linking(s) => Linking(s)'
  PROVE  Course'
<1> SUFFICES ASSUME NEW s \in Services
             PROVE  (Tidy(s) /\ Queue(s) /\ (s \notin forgotten => Tracked(s)))'
  BY DEF Course
<1>1. Tidy(s) /\ Queue(s) /\ (s \notin forgotten => Tracked(s))
  BY DEF Course
<1>2. (Making(s)' <=> Making(s)) /\ (ToMake(s)' <=> ToMake(s))
  BY DEF Making, ToMake, MakingOne
<1>3. Making(s) => Loop' = Loop
  BY DEF Making
<1>4. Tidy(s)'
  BY <1>1, <1>2, <1>3 DEF Tidy, Generated
<1>5. Queue(s)'
  BY <1>1, <1>2 DEF Queue
<1>6. ASSUME s \notin forgotten PROVE Tracked(s)'
  <2>1. Made(s)' /\ (Ahead(s)' <=> Ahead(s))
    BY <1>1, <1>2, <1>6 DEF Tracked, Made, Ahead, Generated
  <2>2. Carried(s)'
    BY <1>1, <1>6, <2>1 DEF Tracked, Carried, Generated
  <2>3. Listing(s)'
    BY <1>1, <1>2, <1>6 DEF Tracked, Listing, Generated
  <2> QED BY <1>1, <1>2, <1>6, <2>1, <2>2, <2>3 DEF Tracked
<1> QED BY <1>4, <1>5, <1>6

\* scheduleRestart arms the timer: the restart is pending, and the loop is free
\* (watcher.go:350-390).
LEMMA ScheduleStep == TypeInv /\ Course /\ Schedule => Course'
<1> SUFFICES ASSUME TypeInv, Course, Schedule PROVE Course'
  OBVIOUS
<1>1. work'["loop"] = Idle /\ \A h \in Goroutine : h # "loop" => work'[h] = work[h]
  BY Goes DEF Schedule, Goroutine
<1>2. /\ edits' = edits /\ spec' = spec /\ code' = code /\ husks' = husks /\ listed' = listed
      /\ binary' = binary /\ running' = running /\ main' = main /\ events' = events
      /\ registered' = registered /\ watched' = watched /\ forgotten' = forgotten
      /\ tokens' = tokens /\ locked' = locked
      /\ Loop.at = "schedule" /\ pending' /\ timer'
  BY DEF Schedule, disk, watcher, Loop
<1>3. Loop'.at = "idle"
  BY <1>1 DEF Loop, Idle
<1>4. Shapes' /\ Ongoing' /\ Due'
  BY <1>1, <1>2, <1>3 DEF Course, Shapes, Ongoing, Due, Busy, Loop, Goroutine
<1>5. ~MakingOne /\ ~MakingOne'
  BY <1>2, <1>3 DEF MakingOne
<1>6. Busy("discover") \/ Busy("generated") => (Busy("discover") \/ Busy("generated"))'
  BY <1>1, <1>2 DEF Busy, Loop, Goroutine
<1>7. \A s \in Services : Linking(s) => Linking(s)'
  BY <1>1, <1>2 DEF Linking, Loop, Goroutine
<1> QED BY <1>2, <1>4, <1>5, <1>6, <1>7, Frame DEF Early

\* The timer fires (watcher.go:365).
LEMMA TimerFiresStep == TypeInv /\ Course /\ TimerFires => Course'
<1> SUFFICES ASSUME TypeInv, Course, TimerFires PROVE Course'
  OBVIOUS
<1>1. /\ edits' = edits /\ spec' = spec /\ code' = code /\ husks' = husks /\ listed' = listed
      /\ binary' = binary /\ running' = running /\ main' = main /\ events' = events
      /\ registered' = registered /\ watched' = watched /\ forgotten' = forgotten
      /\ tokens' = tokens /\ work' = work /\ pending' = pending /\ locked' = locked
  BY DEF TimerFires, disk, watcher
<1>2. due' > 0 /\ Loop' = Loop
  BY <1>1 DEF TimerFires, TypeInv, TypeOK, Loop
<1>3. Shapes' /\ Ongoing' /\ (Due => Due')
  BY <1>1, <1>2 DEF Course, Shapes, Ongoing, Due, Busy
<1>4. \A s \in Services : Linking(s) => Linking(s)'
  BY <1>1 DEF Linking
<1> QED BY <1>1, <1>2, <1>3, <1>4, Frame DEF Early, Busy

\* The callback builds if the restart is still pending (watcher.go:365-372).
LEMMA RunCallbackStep == TypeInv /\ Course /\ RunCallback => Course'
<1> SUFFICES ASSUME TypeInv, Course, RunCallback PROVE Course'
  OBVIOUS
<1>1. /\ edits' = edits /\ spec' = spec /\ code' = code /\ husks' = husks /\ listed' = listed
      /\ binary' = binary /\ running' = running /\ main' = main /\ events' = events
      /\ registered' = registered /\ watched' = watched /\ forgotten' = forgotten
      /\ tokens' = tokens /\ locked' = pending /\ ~locked /\ Alive
  BY DEF RunCallback, disk, watcher
<1>2. work["callback"].at = "idle"
  BY <1>1 DEF Course, Shapes
<1>3. \/ pending /\ work'["callback"].at = "compile"
      \/ ~pending /\ work'["callback"] = work["callback"]
  BY Goes DEF RunCallback, Goroutine, At
<1>4. work'["loop"] = work["loop"] /\ work'["main"] = work["main"] /\ Loop' = Loop
  BY Goes DEF RunCallback, Goroutine, Loop
<1>5. Shapes' /\ Ongoing'
  BY <1>1, <1>2, <1>3, <1>4 DEF Course, Shapes, Ongoing, Busy, Goroutine, Loop
<1>6. Due => Due'
  BY <1>1, <1>2, <1>3, <1>4 DEF Due, Busy, Goroutine
<1>7. Busy("discover") \/ Busy("generated") => (Busy("discover") \/ Busy("generated"))'
  BY <1>2, <1>4 DEF Busy, Goroutine
<1>8. \A s \in Services : Linking(s) => Linking(s)'
  BY <1>1, <1>2, <1>4 DEF Linking, Goroutine
<1> QED BY <1>1, <1>4, <1>5, <1>6, <1>7, <1>8, Frame DEF Early

\* A token goes into the channel; the goroutine is free, and a callback gives its
\* lock back (main.go:251-255).
LEMMA RequestRestartStep ==
  ASSUME TypeInv, Course, NEW g \in Goroutine, RequestRestart(g)
  PROVE  Course'
<1>1. /\ edits' = edits /\ spec' = spec /\ code' = code /\ husks' = husks /\ listed' = listed
      /\ binary' = binary /\ running' = running /\ main' = main /\ events' = events
      /\ registered' = registered /\ watched' = watched /\ forgotten' = forgotten
      /\ tokens' > 0 /\ pending' = pending /\ timer' = timer /\ due' = due
      /\ locked' = (locked /\ g # "callback")
  BY DEF RequestRestart, Release, disk, watcher
<1>2. work'[g].at = "idle" /\ \A h \in Goroutine : h # g => work'[h] = work[h]
  BY Goes DEF RequestRestart, Idle
<1>3. work[g].at = "request"
  BY DEF RequestRestart
<1>4. Shapes' /\ Ongoing'
  BY <1>1, <1>2, <1>3 DEF Course, Shapes, Ongoing, Goroutine, Loop
<1>5. Due => Due'
  BY <1>1, <1>2, <1>3 DEF Due, Busy
<1>6. Busy("discover") \/ Busy("generated") => (Busy("discover") \/ Busy("generated"))'
  BY <1>2, <1>3 DEF Busy
<1>7. \A s \in Services : Linking(s) => Linking(s)'
  BY <1>1, <1>2, <1>3 DEF Linking
<1>8. Loop' = Loop \/ (~MakingOne /\ ~MakingOne')
  BY <1>2, <1>3 DEF MakingOne, Loop, Goroutine
<1> QED BY <1>1, <1>4, <1>5, <1>6, <1>7, <1>8, Frame DEF Early

\* Main takes the token and shuts the server down, or gives up and ends
\* (main.go:268-292); or the watcher starts, after the rebuild (main.go:263).
LEMMA MainGoesOn ==
  TypeInv /\ Course /\ (TakeToken \/ ShutDown \/ GiveUp \/ StartWatching) => Course'
<1> SUFFICES ASSUME TypeInv, Course, TakeToken \/ ShutDown \/ GiveUp \/ StartWatching
             PROVE  Course'
  OBVIOUS
<1>1. /\ edits' = edits /\ spec' = spec /\ code' = code /\ husks' = husks /\ listed' = listed
      /\ binary' = binary /\ running' = running /\ events' = events
      /\ registered' = registered /\ watched' = watched /\ forgotten' = forgotten
      /\ pending' = pending /\ timer' = timer /\ due' = due /\ locked' = locked
      /\ work' = work
  BY DEF TakeToken, ShutDown, GiveUp, StartWatching, disk, watcher, restart
<1>2. \/ main = "select" /\ main' = "shutdown"
      \/ main = "shutdown" /\ main' \in {"stop", "failing"}
      \/ main = "rebuild" /\ main' = "select" /\ work["main"].at = "idle" /\ tokens' = tokens
  BY DEF TakeToken, ShutDown, GiveUp, StartWatching, restart, Idle
<1>3. Shapes' /\ Ongoing'
  BY <1>1, <1>2 DEF Course, Shapes, Ongoing, Busy, Loop
<1>4. (Due => Due') /\ \A s \in Services : Linking(s) => Linking(s)'
  BY <1>1 DEF Due, Busy, Linking
<1>5. Loop' = Loop /\ (Early' <=> Early)
  BY <1>1, <1>2 DEF Loop, Early
<1> QED BY <1>1, <1>2, <1>3, <1>4, <1>5, Frame DEF Busy

\* A step of nobody.
LEMMA StutterStep == TypeInv /\ Course /\ UNCHANGED vars => Course'
<1> SUFFICES ASSUME TypeInv, Course, UNCHANGED vars PROVE Course'
  OBVIOUS
<1>1. /\ edits' = edits /\ spec' = spec /\ code' = code /\ husks' = husks /\ listed' = listed
      /\ binary' = binary /\ running' = running /\ events' = events /\ main' = main
      /\ registered' = registered /\ watched' = watched /\ forgotten' = forgotten
      /\ pending' = pending /\ timer' = timer /\ due' = due /\ locked' = locked
      /\ work' = work /\ tokens' = tokens
  BY DEF vars, disk, watcher, restart
<1>2. Shapes' /\ Ongoing'
  BY <1>1 DEF Course, Shapes, Ongoing, Busy, Loop
<1>3. (Due => Due') /\ \A s \in Services : Linking(s) => Linking(s)'
  BY <1>1 DEF Due, Busy, Linking
<1> QED BY <1>1, <1>2, <1>3, Frame DEF Busy, Early, Loop

\* The scan of a new process finds what is generated (watcher.go:54-92, 600-626).
LEMMA BootStep == TypeInv /\ Course /\ Boot => Course'
<1> SUFFICES ASSUME TypeInv, Course, Boot PROVE Course'
  OBVIOUS
<1>1. /\ edits' = edits /\ spec' = spec /\ code' = code /\ husks' = husks /\ listed' = listed
      /\ binary' = binary /\ running' = running /\ work' = work /\ pending' = pending
      /\ timer' = timer /\ due' = due /\ locked' = locked /\ tokens' = tokens
      /\ forgotten' = forgotten
  BY DEF Boot, disk, restart
<1>2. main = "boot" /\ main' = "existing" /\ events = <<>> /\ events' = <<>>
  BY DEF Boot, Course, Shapes
<1>3. registered' = {s \in Services : Generated(s)} /\ watched' = registered'
  BY DEF Boot
<1>4. Loop.at = "idle" /\ work["main"].at = "idle" /\ Loop' = Loop
  BY <1>1, <1>2 DEF Course, Shapes, Loop
<1>5. Shapes' /\ Ongoing'
  BY <1>1, <1>2, <1>4 DEF Course, Shapes, Ongoing, Busy
<1> SUFFICES ASSUME NEW s \in Services
             PROVE  (Tidy(s) /\ Queue(s) /\ (s \notin forgotten => Tracked(s)))'
  BY <1>5 DEF Course
<1>6. ~Making(s) /\ ~Making(s)' /\ ~ToMake(s)'
  BY <1>4 DEF Making, MakingOne, ToMake
<1>7. Tidy(s)'
  BY <1>1, <1>3, <1>6 DEF Course, Tidy, Generated
<1>8. Queue(s)'
  BY <1>1, <1>2, <1>6 DEF Course, Queue
<1>9. Early /\ Early' /\ events' = events
  BY <1>2 DEF Early
<1>10. (Due <=> Due') /\ (Linking(s) <=> Linking(s)')
  BY <1>1, <1>9 DEF Due, Busy, Linking
<1>11. ASSUME s \notin forgotten PROVE Tracked(s)'
  <2>1. Made(s)' /\ Ahead(s)' = Ahead(s)
    BY <1>1, <1>6, <1>9, <1>11 DEF Course, Tracked, Made, Ahead, Generated, ToMake
  <2>2. Carried(s)' /\ Listing(s)'
    BY <1>1, <1>6, <1>9, <1>10, <1>11, <2>1 DEF Course, Tracked, Carried, Listing, Generated, Busy
  <2> QED BY <1>1, <1>6, <1>9, <1>11, <2>1, <2>2 DEF Course, Tracked
<1> QED BY <1>1, <1>7, <1>8, <1>11

\* Every source has a directory when the start-up has looked at them, and what was
\* made then is discovered (watcher.go:115-148).
LEMMA FinishExistingStep == TypeInv /\ Course /\ FinishExisting => Course'
<1> SUFFICES ASSUME TypeInv, Course, FinishExisting PROVE Course'
  OBVIOUS
<1>1. /\ edits' = edits /\ spec' = spec /\ code' = code /\ husks' = husks /\ listed' = listed
      /\ binary' = binary /\ running' = running /\ pending' = pending
      /\ registered' = registered /\ watched' = watched /\ events' = events
      /\ timer' = timer /\ due' = due /\ locked' = locked /\ tokens' = tokens
      /\ forgotten' = forgotten
  BY DEF FinishExisting, disk, watcher, restart
<1>2. main = "existing" /\ \A s \in Services : Missing(s) => s \in husks
  BY DEF FinishExisting, Starting
<1>3. \/ /\ work["main"].at = "generated" /\ main' = "rebuild"
         /\ work'["main"].at = "discover"
      \/ /\ work["main"].at = "idle" /\ main' = "select" /\ work'["main"] = work["main"]
  BY Goes DEF FinishExisting, Starting, Goroutine, At
<1>4. work'["loop"] = work["loop"] /\ work'["callback"] = work["callback"] /\ Loop.at = "idle"
      /\ Loop' = Loop
  BY Goes, <1>2 DEF FinishExisting, Course, Shapes, Goroutine, Loop
<1>5. Shapes' /\ Ongoing'
  BY <1>1, <1>2, <1>3, <1>4 DEF Course, Shapes, Ongoing, Busy, Goroutine
<1> SUFFICES ASSUME NEW s \in Services
             PROVE  (Tidy(s) /\ Queue(s) /\ (s \notin forgotten => Tracked(s)))'
  BY <1>5 DEF Course
<1>6. ~Making(s) /\ ~Making(s)' /\ ~ToMake(s) /\ ~ToMake(s)'
  BY <1>4 DEF Making, MakingOne, ToMake
<1>7. Tidy(s)'
  BY <1>1, <1>3, <1>6 DEF Course, Tidy, Generated
<1>8. Queue(s)'
  BY <1>1, <1>6 DEF Course, Queue
<1>9. spec[s] # 0 => Generated(s)
  BY <1>2 DEF Course, Tidy, Missing
<1>10. Due => Due'
  BY <1>1, <1>3, <1>4 DEF Due, Busy, Goroutine
<1>11. Linking(s) => Linking(s)'
  BY <1>1, <1>3, <1>4 DEF Linking, Goroutine
<1>12. Busy("discover") \/ Busy("generated") => Busy("discover")'
  BY <1>3, <1>4 DEF Busy, Goroutine, Course, Shapes, Loop
<1>13. ASSUME s \notin forgotten PROVE Tracked(s)'
  <2>1. Made(s)' /\ Ahead(s)' = Ahead(s)
    BY <1>1, <1>6, <1>9, <1>13 DEF Course, Tracked, Made, Ahead, Generated
  <2>2. Carried(s)'
    BY <1>1, <1>9, <1>10, <1>11, <1>13, <2>1 DEF Course, Tracked, Carried, Generated
  <2>3. Listing(s)'
    BY <1>1, <1>6, <1>12, <1>13 DEF Course, Tracked, Listing, Generated
  <2> QED BY <1>1, <1>6, <1>13, <2>1, <2>2, <2>3 DEF Course, Tracked
<1> QED BY <1>1, <1>7, <1>8, <1>13

\* Discovery lists what has a directory and goes on to the compiler
\* (discover.go:23-116).
LEMMA DiscoverStep ==
  ASSUME TypeInv, Course, NEW g \in Goroutine, Discover(g)
  PROVE  Course'
<1>1. /\ edits' = edits /\ spec' = spec /\ code' = code /\ husks' = husks
      /\ binary' = binary /\ running' = running /\ main' = main /\ events' = events
      /\ registered' = registered /\ watched' = watched /\ forgotten' = forgotten
      /\ pending' = pending /\ timer' = timer /\ due' = due /\ locked' = locked
      /\ tokens' = tokens
  BY DEF Discover, watcher, restart
<1>2. work[g].at = "discover" /\ listed' = {s \in Services : Generated(s)}
  BY DEF Discover
<1>3. work'[g].at = "compile" /\ \A h \in Goroutine : h # g => work'[h] = work[h]
  BY Goes DEF Discover, At
<1>4. Shapes' /\ Ongoing' /\ Due'
  BY <1>1, <1>2, <1>3 DEF Course, Shapes, Ongoing, Due, Busy, Goroutine, Loop
<1> SUFFICES ASSUME NEW s \in Services
             PROVE  (Tidy(s) /\ Queue(s) /\ (s \notin forgotten => Tracked(s)))'
  BY <1>4 DEF Course
<1>5. (Making(s)' <=> Making(s)) /\ (ToMake(s)' <=> ToMake(s)) /\ (Making(s) => Loop' = Loop)
  BY <1>2, <1>3 DEF Making, MakingOne, ToMake, Loop, Goroutine
<1>6. Tidy(s)' /\ Queue(s)'
  BY <1>1, <1>5 DEF Course, Tidy, Queue, Generated
<1>7. ASSUME s \notin forgotten PROVE Tracked(s)'
  <2>1. Made(s)' /\ Ahead(s)' = Ahead(s)
    BY <1>1, <1>5, <1>7 DEF Course, Tracked, Made, Ahead, Generated, Early
  <2>2. Carried(s)' /\ Listing(s)'
    BY <1>1, <1>2, <1>4 DEF Carried, Listing, Generated
  <2> QED BY <1>1, <1>5, <1>7, <2>1, <2>2 DEF Course, Tracked
<1> QED BY <1>1, <1>6, <1>7

\* The compiler takes in what is on disk, which is known again from then on; a build
\* that fails is lost (watcher.go:760-781).
LEMMA CompileStep ==
  ASSUME TypeInv, Course, NEW g \in Goroutine, Compile(g)
  PROVE  Course'
<1>1. /\ edits' = edits /\ spec' = spec /\ code' = code /\ husks' = husks /\ listed' = listed
      /\ binary' = binary /\ running' = running /\ main' = main /\ events' = events
      /\ registered' = registered /\ watched' = watched
      /\ pending' = pending /\ timer' = timer /\ due' = due /\ tokens' = tokens
  BY DEF Compile, disk, watcher
<1>2. \A h \in Goroutine : h # g => work'[h] = work[h]
  BY Goes DEF Compile
<1>3. work[g].at = "compile"
  BY DEF Compile
<1>4. \/ /\ Buildable /\ work'[g].at = "link" /\ work'[g].out = Compiled
         /\ forgotten' = {s \in forgotten : s \notin listed \ husks \/ ~Current(s)}
         /\ locked' = locked
      \/ /\ ~Buildable /\ work'[g].at = "idle" /\ forgotten' = forgotten \cup Unbuilt
         /\ locked' = (locked /\ g # "callback")
  BY Goes DEF Compile, Release, Idle
<1>5. Shapes' /\ Ongoing'
  BY <1>1, <1>2, <1>3, <1>4 DEF Course, Shapes, Ongoing, Busy, Goroutine, Loop
<1> SUFFICES ASSUME NEW s \in Services
             PROVE  (Tidy(s) /\ Queue(s) /\ (s \notin forgotten => Tracked(s)))'
  BY <1>5 DEF Course
<1>6. (Making(s)' <=> Making(s)) /\ (ToMake(s)' <=> ToMake(s)) /\ (Making(s) => Loop' = Loop)
  BY <1>2, <1>3, <1>4 DEF Making, MakingOne, ToMake, Loop, Goroutine
<1>7. Tidy(s)' /\ Queue(s)'
  BY <1>1, <1>6 DEF Course, Tidy, Queue, Generated
<1>8. Busy("discover") \/ Busy("generated") => (Busy("discover") \/ Busy("generated"))'
  BY <1>2, <1>3 DEF Busy
<1>9. Ahead(s)' = Ahead(s) /\ Early' = Early
  BY <1>1, <1>6 DEF Ahead, Early
<1>10. CASE Buildable
  <2>1. work'[g].at = "link" /\ work'[g].out[s] = IF s \in listed \ husks THEN code[s] ELSE 0
    BY <1>4, <1>10 DEF Compiled
  <2>2. s \in listed => Generated(s)
    BY <1>10 DEF Buildable
  <2>3. s \in listed \ husks \/ ~Generated(s) => Linking(s)'
    BY <1>1, <2>1, <2>2 DEF Linking, Generated
  <2>4. Busy("discover") \/ Busy("generated") => Due'
    BY <1>8 DEF Due
  <2>5. CASE s \notin forgotten
    <3>1. Tracked(s)
      BY <2>5 DEF Course
    <3>2. Made(s)' /\ Listing(s)'
      BY <1>1, <1>6, <1>8, <1>9, <3>1 DEF Tracked, Made, Listing, Generated
    <3>3. Carried(s)'
      BY <1>1, <1>9, <2>3, <2>4, <3>1 DEF Tracked, Listing, Carried, Generated, Ahead
    <3> QED BY <1>1, <1>6, <1>7, <1>9, <3>1, <3>2, <3>3 DEF Tracked
  <2>6. ASSUME s \in forgotten, s \notin forgotten' PROVE Tracked(s)'
    <3>1. s \in listed /\ s \notin husks /\ Current(s) /\ Generated(s)
      BY <1>4, <1>10, <2>2, <2>6
    <3>2. Made(s)' /\ Listing(s)' /\ Carried(s)'
      BY <1>1, <2>3, <3>1 DEF Made, Listing, Carried, Generated, Current
    <3>3. Making(s) => s \notin Static
      <4>1. Making(s) => Loop.at = "generate" \/ Loop.at = "finish"
        BY DEF Making, MakingOne
      <4> QED BY <3>1, <4>1 DEF Course, Tidy
    <3> QED BY <1>1, <1>6, <3>1, <3>2, <3>3 DEF Tracked
  <2> QED BY <1>7, <2>5, <2>6
<1>11. CASE ~Buildable
  <2>1. ASSUME s \notin forgotten' PROVE Tracked(s)'
    <3>1. Tracked(s) /\ binary[s] = code[s]
      BY <1>4, <1>11, <2>1 DEF Course, Unbuilt
    <3>2. Made(s)' /\ Listing(s)' /\ Carried(s)'
      BY <1>1, <1>6, <1>8, <1>9, <3>1 DEF Tracked, Made, Listing, Carried, Generated
    <3> QED BY <1>1, <1>6, <1>9, <3>1, <3>2 DEF Tracked
  <2> QED BY <1>7, <2>1
<1> QED BY <1>10, <1>11

\* The build ends: what an older one has written over is lost (watcher.go:777-785).
LEMMA LinkStep ==
  ASSUME TypeInv, Course, NEW g \in Goroutine, Link(g)
  PROVE  Course'
<1>1. /\ edits' = edits /\ spec' = spec /\ code' = code /\ husks' = husks /\ listed' = listed
      /\ running' = running /\ main' = main /\ events' = events
      /\ registered' = registered /\ watched' = watched
      /\ pending' = pending /\ timer' = timer /\ due' = due /\ locked' = locked
      /\ tokens' = tokens
  BY DEF Link, watcher, restart
<1>2. work'[g].at = "request" /\ \A h \in Goroutine : h # g => work'[h] = work[h]
  BY Goes DEF Link, At
<1>3. work[g].at = "link" /\ binary' = work[g].out
  BY DEF Link
<1>4. Busy("request")'
  BY <1>2 DEF Busy
<1>5. Shapes' /\ Ongoing'
  BY <1>1, <1>2, <1>3, <1>4 DEF Course, Shapes, Ongoing, Goroutine, Loop
<1> SUFFICES ASSUME NEW s \in Services
             PROVE  (Tidy(s) /\ Queue(s) /\ (s \notin forgotten => Tracked(s)))'
  BY <1>5 DEF Course
<1>6. (Making(s)' <=> Making(s)) /\ (ToMake(s)' <=> ToMake(s)) /\ (Making(s) => Loop' = Loop)
  BY <1>2, <1>3 DEF Making, MakingOne, ToMake, Loop, Goroutine
<1>7. Tidy(s)' /\ Queue(s)'
  BY <1>1, <1>6 DEF Course, Tidy, Queue, Generated
<1>8. Busy("discover") \/ Busy("generated") => (Busy("discover") \/ Busy("generated"))'
  BY <1>2, <1>3 DEF Busy
<1>9. Ahead(s)' = Ahead(s) /\ Early' = Early
  BY <1>1, <1>6 DEF Ahead, Early
<1>10. Due => Due'
  BY <1>1, <1>2, <1>3 DEF Due, Busy
<1>11. ASSUME s \notin forgotten' PROVE Tracked(s)'
  <2>1. s \notin forgotten /\ (binary[s] = code[s] => binary'[s] = code[s])
    BY <1>11 DEF Link
  <2>2. Linking(s) => Linking(s)' \/ binary'[s] = code[s]
    BY <1>1, <1>2, <1>3 DEF Linking
  <2>3. Tracked(s)
    BY <2>1 DEF Course
  <2>4. Made(s)' /\ Listing(s)'
    BY <1>1, <1>6, <1>8, <1>9, <2>3 DEF Tracked, Made, Listing, Generated
  <2>5. Carried(s)'
    BY <1>1, <1>9, <1>10, <2>1, <2>2, <2>3 DEF Tracked, Carried, Generated
  <2> QED BY <1>1, <1>6, <1>9, <2>3, <2>4, <2>5 DEF Tracked
<1> QED BY <1>7, <1>11

\* What the timer was to build is lost when the watcher is stopped (watcher.go:98-109).
LEMMA StopStep == TypeInv /\ Course /\ Stop => Course'
<1> SUFFICES ASSUME TypeInv, Course, Stop PROVE Course'
  OBVIOUS
<1>1. /\ edits' = edits /\ spec' = spec /\ code' = code /\ husks' = husks /\ listed' = listed
      /\ binary' = binary /\ running' = running /\ events' = events
      /\ registered' = registered /\ watched' = watched /\ work' = work
      /\ due' = due /\ locked' = locked /\ tokens' = tokens
      /\ main \in {"stop", "failing"} /\ main' \in {"exec", "dead"}
  BY DEF Stop, disk, watcher
<1>2. Shapes' /\ Ongoing'
  BY <1>1 DEF Course, Shapes, Ongoing, Busy, Loop
<1> SUFFICES ASSUME NEW s \in Services
             PROVE  (Tidy(s) /\ Queue(s) /\ (s \notin forgotten => Tracked(s)))'
  BY <1>2 DEF Course
<1>3. (Making(s)' <=> Making(s)) /\ (ToMake(s)' <=> ToMake(s)) /\ Loop' = Loop
  BY <1>1 DEF Making, MakingOne, ToMake, Loop
<1>4. Tidy(s)' /\ Queue(s)'
  BY <1>1, <1>3 DEF Course, Tidy, Queue, Generated
<1>5. ~Early /\ Ahead(s)' = Ahead(s)
  BY <1>1, <1>3 DEF Ahead, Early
<1>6. ASSUME s \notin forgotten' PROVE Tracked(s)'
  <2>1. s \notin forgotten /\ (pending => binary[s] = code[s])
    BY <1>6 DEF Stop, Unbuilt
  <2>2. Due => Due' \/ pending
    BY <1>1 DEF Due, Busy
  <2>3. Linking(s)' = Linking(s) /\ Tracked(s)
    BY <1>1, <2>1 DEF Linking, Course
  <2>4. Made(s)' /\ Listing(s)'
    BY <1>1, <1>3, <1>5, <2>3 DEF Tracked, Made, Listing, Generated, Busy
  <2>5. Carried(s)'
    BY <1>1, <1>5, <2>1, <2>2, <2>3 DEF Tracked, Carried, Generated
  <2> QED BY <1>1, <1>3, <1>5, <2>3, <2>4, <2>5 DEF Tracked
<1> QED BY <1>4, <1>6

\* What is left to do is lost when the process replaces itself, unless there is no
\* directory yet (main.go:51-90).
LEMMA ExecStep == TypeInv /\ Course /\ Exec => Course'
<1> SUFFICES ASSUME TypeInv, Course, Exec PROVE Course'
  OBVIOUS
<1>1. /\ edits' = edits /\ spec' = spec /\ code' = code /\ husks' = husks /\ listed' = listed
      /\ binary' = binary
  BY DEF Exec, disk
<1>2. /\ main = "exec" /\ main' = "boot" /\ running' = binary /\ events' = <<>>
      /\ registered' = {} /\ watched' = {}
  BY DEF Exec
<1>3. \A g \in Goroutine : work'[g].at = "idle"
  BY DEF Exec, Idle
<1>4. Shapes' /\ Ongoing'
  BY <1>1, <1>2, <1>3 DEF Shapes, Ongoing, Goroutine, Loop
<1> SUFFICES ASSUME NEW s \in Services
             PROVE  (Tidy(s) /\ Queue(s) /\ (s \notin forgotten => Tracked(s)))'
  BY <1>4 DEF Course
<1>5. ~Making(s)' /\ ~ToMake(s)'
  BY <1>3 DEF Making, MakingOne, ToMake, Loop, Goroutine
<1>6. Tidy(s)'
  BY <1>1, <1>2, <1>5 DEF Course, Tidy, Generated
<1>7. Queue(s)'
  BY <1>2, <1>5, Nothing DEF Queue
<1>8. ASSUME s \notin forgotten' PROVE Tracked(s)'
  <2>1. /\ s \notin forgotten
        /\ Unmade(s) \/ (Rebuilding /\ s \in Unbuilt) => spec[s] # 0 /\ ~Generated(s)
    BY <1>8 DEF Exec
  <2>2. Tracked(s) /\ ~Early /\ Early'
    BY <1>2, <2>1 DEF Course, Early
  <2>3. CASE spec[s] # 0 /\ ~Generated(s)
    <3>1. s \notin husks
      BY <2>3 DEF Course, Tidy
    <3> QED BY <1>1, <1>5, <2>2, <2>3, <3>1 DEF Tracked, Made, Carried, Listing, Generated
  <2>4. CASE ~(spec[s] # 0 /\ ~Generated(s))
    <3>1. ~Unmade(s) /\ ~(Rebuilding /\ s \in Unbuilt)
      BY <2>1, <2>4
    <3>2. ~In(events, "update", s) /\ ~In(events, "delete", s) /\ ~Making(s) /\ ~Ahead(s)
      BY <3>1 DEF Unmade, In, Making, MakingOne, SourceKind, Ahead, Loop
    <3>3. ~ToMake(s) /\ ~Busy("generated")
      BY <1>2, <3>2 DEF ToMake, Busy, Course, Shapes, Goroutine, Loop
    <3>4. Made(s)'
      BY <1>1, <2>2, <2>4, <3>2, <3>3 DEF Tracked, Made, Generated
    <3>5. (s \in husks => code[s] \in BadSpec \/ Ahead(s))'
      BY <1>1, <2>2, <3>2 DEF Tracked
    <3>6. Due \/ Linking(s) \/ Busy("discover") => Rebuilding
      BY <3>3 DEF Due, Linking, Busy, Rebuilding, HasGo
    <3>7. s \notin Unbuilt => binary[s] = code[s] /\ (Generated(s) => s \in listed)
      BY DEF Unbuilt
    <3>8. Carried(s)'
      BY <1>1, <2>2, <3>1, <3>2, <3>6, <3>7 DEF Tracked, Carried, Generated
    <3>9. Listing(s)'
      BY <1>1, <2>2, <3>1, <3>2, <3>3, <3>6, <3>7 DEF Tracked, Listing, Generated
    <3> QED BY <1>5, <3>4, <3>5, <3>8, <3>9 DEF Tracked
  <2> QED BY <2>3, <2>4
<1> QED BY <1>6, <1>7, <1>8

\* A source without a directory is generated; if generation fails the directory is
\* a husk (watcher.go:630-754).
LEMMA GenerateExistingStep ==
  ASSUME TypeInv, Course, NEW t \in Services, GenerateExisting(t)
  PROVE  Course'
<1>1. /\ edits' = edits /\ spec' = spec /\ listed' = listed /\ binary' = binary
      /\ running' = running /\ main' = main /\ watched' = watched /\ forgotten' = forgotten
      /\ pending' = pending /\ timer' = timer /\ due' = due /\ locked' = locked
      /\ tokens' = tokens
  BY DEF GenerateExisting, restart
<1>2. /\ main = "existing" /\ spec[t] # 0 /\ t \notin registered /\ t \notin husks
      /\ code' = [code EXCEPT ![t] = spec[t]] /\ Alive
  BY DEF GenerateExisting, Starting, Missing, Alive
<1>3. events' = Append(events, [kind |-> "dir", svc |-> t])
      /\ [kind |-> "dir", svc |-> t] \in Event /\ events \in Seq(Event)
  BY <1>2, TellOne DEF GenerateExisting, Kinds, TypeInv, TypeOK
<1>4. \/ /\ spec[t] \in BadSpec /\ husks' = husks \cup {t} /\ registered' = registered
         /\ work' = work
      \/ /\ spec[t] \notin BadSpec /\ husks' = husks /\ registered' = registered \cup {t}
         /\ work'["main"].at = "generated"
         /\ work'["loop"] = work["loop"] /\ work'["callback"] = work["callback"]
  BY Goes DEF GenerateExisting, Goroutine, At
<1>5. work["main"].at \in {"idle", "generated"} /\ Loop.at = "idle" /\ Loop' = Loop
  BY <1>2, <1>4 DEF Course, Shapes, Loop
<1>6. Shapes' /\ Ongoing'
  BY <1>1, <1>2, <1>4, <1>5 DEF Course, Shapes, Ongoing, Busy, Goroutine, Loop
<1> SUFFICES ASSUME NEW s \in Services
             PROVE  (Tidy(s) /\ Queue(s) /\ (s \notin forgotten => Tracked(s)))'
  BY <1>6 DEF Course
<1>7. ~Making(s) /\ ~Making(s)' /\ ~ToMake(s) /\ ~ToMake(s)'
  BY <1>5 DEF Making, MakingOne, ToMake
<1>8. code'[s] = IF s = t THEN spec[t] ELSE code[s]
  BY <1>2 DEF TypeInv, TypeOK, Binary
<1>9. Tidy(s)'
  BY <1>1, <1>2, <1>4, <1>7, <1>8 DEF Course, Tidy, Generated
<1> DEFINE e == [kind |-> "dir", svc |-> t]
<1>10. /\ In(events', "update", s) <=> In(events, "update", s)
       /\ In(events', "delete", s) <=> In(events, "delete", s)
       /\ HasGo(events') <=> HasGo(events)
       /\ Follows(events, "delete", "update", s) => Follows(events', "delete", "update", s)
       /\ Follows(events, "update", "delete", s) => Follows(events', "update", "delete", s)
       /\ Follows(events, "create", "update", s) => Follows(events', "create", "update", s)
  <2>1. e.kind \in {"go", "dir"} /\ e.kind # "go" /\ e \in Event /\ events' = Append(events, e)
    BY <1>3
  <2> HIDE DEF e
  <2> QED BY <1>3, <2>1, PushedFile
<1>11. Queue(s)'
  BY <1>1, <1>7, <1>10 DEF Course, Queue
<1>12. ASSUME s \notin forgotten PROVE Tracked(s)'
  <2>1. Tracked(s) /\ Early' = Early
    BY <1>1, <1>12 DEF Course, Early
  <2>2. Ahead(s)' = Ahead(s)
    BY <1>7, <1>10 DEF Ahead
  <2>3. Made(s)'
    BY <1>1, <1>2, <1>7, <1>8, <1>10, <2>1, Numbers DEF Tracked, Made, Generated, Early
  <2>4. Due => Due'
    BY <1>1, <1>4, <1>5, <1>10 DEF Due, Busy, Goroutine
  <2>5. s # t => (Linking(s) => Linking(s)')
    BY <1>4, <1>5, <1>8 DEF Linking, Goroutine
  <2>6. s = t => s \in husks' \/ Busy("generated")'
    BY <1>4 DEF Busy, Goroutine
  <2>7. Carried(s)'
    BY <1>1, <1>4, <1>8, <2>1, <2>2, <2>4, <2>5, <2>6 DEF Tracked, Carried, Generated, Due
  <2>8. Busy("discover") \/ Busy("generated") => (Busy("discover") \/ Busy("generated"))'
    BY <1>4, <1>5 DEF Busy, Goroutine
  <2>9. Listing(s)'
    BY <1>1, <1>4, <1>7, <1>8, <1>10, <2>1, <2>6, <2>8 DEF Tracked, Listing, Generated
  <2>10. (s \in husks => code[s] \in BadSpec \/ Ahead(s))'
    BY <1>2, <1>4, <1>8, <2>1, <2>2 DEF Tracked
  <2> QED BY <1>7, <2>3, <2>7, <2>9, <2>10 DEF Tracked
<1> QED BY <1>1, <1>9, <1>11, <1>12

\* The loop takes an event while it makes nothing, after the start-up.
LEMMA Taken ==
  ASSUME TypeInv, Course, LoopFree, NEW s, NEW p, p = Tail(events)
  PROVE  /\ p \in Seq(Event) /\ Job.svc \in Services
         /\ Loop = Idle /\ Loop.at = "idle" /\ ~MakingOne /\ ~Making(s) /\ ~ToMake(s) /\ ~Early
         /\ HasGo(events) <=> HasGo(p) \/ Job.kind = "go"
         /\ In(events, "update", s) <=> In(p, "update", s) \/ (Job.kind = "update" /\ Job.svc = s)
         /\ In(events, "delete", s) <=> In(p, "delete", s) \/ (Job.kind = "delete" /\ Job.svc = s)
         /\ Follows(events, "delete", "update", s) =>
                /\ Follows(p, "delete", "update", s)
                /\ Job.kind = "delete" /\ Job.svc = s => In(p, "update", s)
         /\ Follows(events, "update", "delete", s) =>
                /\ Follows(p, "update", "delete", s)
                /\ Job.kind = "update" /\ Job.svc = s => In(p, "delete", s)
                /\ In(p, "update", s) => In(p, "delete", s)
         /\ Follows(events, "create", "update", s) =>
                /\ Follows(p, "create", "update", s)
                /\ Job.kind = "create" /\ Job.svc = s => In(p, "update", s)
<1>1. events \in Seq(Event) /\ events # <<>> /\ Job = Head(events)
  BY DEF TypeInv, TypeOK, LoopFree, Job
<1>2. p \in Seq(Event) /\ Job.svc \in Services
  BY <1>1, JobTypes
<1>3. Loop = Idle /\ Loop.at = "idle" /\ ~MakingOne /\ ~Making(s) /\ ~ToMake(s) /\ ~Early
  BY DEF LoopFree, Loop, Idle, MakingOne, Making, ToMake, Early, Alive
<1>4. In(p, "update", s) /\ Follows(p, "update", "delete", s) => In(p, "delete", s)
  <2>1. SUFFICES ASSUME Follows(p, "update", "delete", s),
                        NEW i \in 1..Len(p), p[i].kind = "update", p[i].svc = s
                 PROVE  In(p, "delete", s)
    BY DEF In
  <2>2. PICK j \in (i + 1)..Len(p) : p[j].kind = "delete" /\ p[j].svc = s
    BY <2>1 DEF Follows
  <2>3. j \in 1..Len(p)
    BY <1>2, <2>2
  <2> QED BY <2>2, <2>3 DEF In
<1> DEFINE e == Job
<1>5. e = Head(events)
  BY <1>1
<1> HIDE DEF e
<1>6. HasGo(events) <=> HasGo(p) \/ e.kind = "go"
  BY <1>1, <1>5, Popped
<1>7. \A k : In(events, k, s) <=> In(p, k, s) \/ (e.kind = k /\ e.svc = s)
  BY <1>1, <1>5, Popped
<1>8. In(events, "update", s) <=> In(p, "update", s) \/ (e.kind = "update" /\ e.svc = s)
  BY <1>7
<1>9. In(events, "delete", s) <=> In(p, "delete", s) \/ (e.kind = "delete" /\ e.svc = s)
  BY <1>7
<1>10. Follows(events, "delete", "update", s) =>
          /\ Follows(p, "delete", "update", s)
          /\ e.kind = "delete" /\ e.svc = s => In(p, "update", s)
  BY <1>1, <1>5, Popped
<1>11. Follows(events, "update", "delete", s) =>
          /\ Follows(p, "update", "delete", s)
          /\ e.kind = "update" /\ e.svc = s => In(p, "delete", s)
  BY <1>1, <1>5, Popped
<1>12. Follows(events, "create", "update", s) =>
          /\ Follows(p, "create", "update", s)
          /\ e.kind = "create" /\ e.svc = s => In(p, "update", s)
  BY <1>1, <1>5, Popped
<1> QED BY <1>2, <1>3, <1>4, <1>6, <1>8, <1>9, <1>10, <1>11, <1>12 DEF e

\* A new directory is watched; the go file of one has a build scheduled; a new OpenAPI
\* file is given to the generator (watcher.go:202-238, 322-348, 400-421).
LEMMA HandleStep ==
  TypeInv /\ Course /\ (HandleNewDir \/ HandleGoFile \/ HandleCreate) => Course'
<1> SUFFICES ASSUME TypeInv, Course, HandleNewDir \/ HandleGoFile \/ HandleCreate
             PROVE  Course'
  OBVIOUS
<1>1. /\ edits' = edits /\ spec' = spec /\ code' = code /\ husks' = husks /\ listed' = listed
      /\ binary' = binary /\ running' = running /\ main' = main /\ registered' = registered
      /\ pending' = pending /\ timer' = timer /\ due' = due /\ locked' = locked
      /\ tokens' = tokens /\ forgotten' = forgotten /\ events' = Tail(events) /\ LoopFree
  BY DEF HandleNewDir, HandleGoFile, HandleCreate, disk, restart
<1>2. work'["callback"] = work["callback"] /\ work'["main"] = work["main"]
  BY Goes DEF HandleNewDir, HandleGoFile, HandleCreate, Goroutine
<1>3. \/ /\ Job.kind = "dir" /\ Loop' = Loop
         /\ watched' = IF Generated(Job.svc) THEN watched \cup {Job.svc} ELSE watched
      \/ /\ Job.kind = "go" /\ Loop' = At("schedule", None) /\ watched' = watched
      \/ /\ Job.kind = "create" /\ Job.svc \notin Static
         /\ Loop' = At("generate", Job.svc) /\ watched' = watched
  BY Goes DEF HandleNewDir, HandleGoFile, HandleCreate, Goroutine, Loop
<1>4. Loop.at = "idle" /\ main \notin {"boot", "existing", "rebuild"} /\ ~Early
  BY <1>1, Taken DEF LoopFree, Alive
<1>5. Loop'.at \in {"idle", "schedule", "generate"}
  BY <1>3, <1>4 DEF At
<1>6. Shapes' /\ Ongoing'
  BY <1>1, <1>2, <1>4, <1>5 DEF Course, Shapes, Ongoing, Busy, Goroutine, Loop
<1> SUFFICES ASSUME NEW s \in Services
             PROVE  (Tidy(s) /\ Queue(s) /\ (s \notin forgotten => Tracked(s)))'
  BY <1>6 DEF Course
<1> DEFINE p == Tail(events)
<1>7. /\ Job.svc \in Services /\ ~Making(s) /\ ~ToMake(s)
      /\ HasGo(events) <=> HasGo(p) \/ Job.kind = "go"
      /\ In(events, "update", s) <=> In(p, "update", s) \/ (Job.kind = "update" /\ Job.svc = s)
      /\ In(events, "delete", s) <=> In(p, "delete", s) \/ (Job.kind = "delete" /\ Job.svc = s)
      /\ Follows(events, "delete", "update", s) => Follows(p, "delete", "update", s)
      /\ Follows(events, "update", "delete", s) =>
             Follows(p, "update", "delete", s) /\ (In(p, "update", s) => In(p, "delete", s))
      /\ Follows(events, "create", "update", s) =>
             /\ Follows(p, "create", "update", s)
             /\ Job.kind = "create" /\ Job.svc = s => In(p, "update", s)
  BY <1>1, Taken
<1>8. events' = p
  BY <1>1
<1> HIDE DEF p
<1>9. /\ Making(s)' => Job.kind = "create" /\ Job.svc = s /\ s \notin Static /\ ToMake(s)'
      /\ ToMake(s)' => Making(s)'
      /\ Job.kind = "create" /\ Job.svc = s => Making(s)'
      /\ ToMake(s)' => Loop'.at = "generate"
  BY <1>3, <1>4 DEF Making, MakingOne, ToMake, At
<1>10. Tidy(s)'
  BY <1>1, <1>3, <1>4, <1>7, <1>9 DEF Course, Tidy, Generated, Early
<1>11. Queue(s)'
  <2>1. Queue(s)
    BY DEF Course
  <2>2. spec[s] = 0 /\ Making(s)' => In(p, "delete", s)
    BY <1>7, <1>9, <2>1 DEF Queue
  <2>3. Making(s)' => In(p, "update", s)
    BY <1>7, <1>9, <2>1 DEF Queue
  <2> QED BY <1>1, <1>7, <1>8, <1>9, <2>1, <2>2, <2>3 DEF Queue
<1>12. ASSUME s \notin forgotten PROVE Tracked(s)'
  <2>1. Tracked(s)
    BY <1>12 DEF Course
  <2>2. /\ In(events, "update", s) => In(p, "update", s)
        /\ In(events, "delete", s) => In(p, "delete", s)
    BY <1>3, <1>7
  <2>3. Made(s)'
    BY <1>1, <1>4, <1>7, <1>8, <2>1, <2>2 DEF Tracked, Made, Generated
  <2>4. Ahead(s) => Ahead(s)'
    BY <1>7, <1>8, <2>2 DEF Ahead
  <2>5. Due => Due'
    <3>1. Job.kind = "go" => Busy("schedule")'
      BY <1>3 DEF Busy, Loop, Goroutine, At
    <3>2. HasGo(events) => Job.kind = "go" \/ HasGo(p)
      BY <1>7
    <3> QED BY <1>1, <1>2, <1>4, <1>8, <3>1, <3>2 DEF Due, Busy, Goroutine, Loop
  <2>6. Linking(s) => Linking(s)'
    BY <1>1, <1>2, <1>4 DEF Linking, Goroutine, Loop
  <2>7. Carried(s)'
    BY <1>1, <1>4, <2>1, <2>4, <2>5, <2>6 DEF Tracked, Carried, Generated
  <2>8. Busy("discover") \/ Busy("generated") => (Busy("discover") \/ Busy("generated"))'
    BY <1>2, <1>4 DEF Busy, Goroutine, Loop
  <2>9. Listing(s)'
    BY <1>1, <1>7, <1>8, <2>1, <2>2, <2>8 DEF Tracked, Listing, Generated
  <2> QED BY <1>1, <1>9, <2>1, <2>3, <2>4, <2>7, <2>9 DEF Tracked
<1> QED BY <1>1, <1>10, <1>11, <1>12

\* The directory of the event's service goes: what the queue says of the sources is
\* what it said behind the event (watcher.go:429-439).
LEMMA Removed ==
  ASSUME TypeInv, Course, LoopFree, RemoveDir(Job.svc), Job.kind # "go",
         NEW s \in Services
  PROVE  /\ code'[s] = IF s = Job.svc THEN 0 ELSE code[s]
         /\ husks' = husks \ {Job.svc} /\ watched' = watched \ {Job.svc}
         /\ HasGo(events') <=> HasGo(events) \/ Job.svc \in watched
         /\ In(events, "update", s) <=>
                In(events', "update", s) \/ (Job.kind = "update" /\ Job.svc = s)
         /\ In(events, "delete", s) <=>
                In(events', "delete", s) \/ (Job.kind = "delete" /\ Job.svc = s)
         /\ Follows(events, "delete", "update", s) =>
                /\ Follows(events', "delete", "update", s)
                /\ Job.kind = "delete" /\ Job.svc = s => In(events', "update", s)
         /\ Follows(events, "update", "delete", s) =>
                /\ Follows(events', "update", "delete", s)
                /\ Job.kind = "update" /\ Job.svc = s => In(events', "delete", s)
                /\ Job.kind = "create" /\ Job.svc = s /\ Follows(events, "create", "update", s)
                       => In(events', "delete", s)
         /\ Follows(events, "create", "update", s) => Follows(events', "create", "update", s)
<1> DEFINE p == Tail(events)
           e == [kind |-> "go", svc |-> Job.svc]
<1>1. p \in Seq(Event) /\ Job.svc \in Services
  BY Taken
<1>2. /\ code' = [code EXCEPT ![Job.svc] = 0]
      /\ husks' = husks \ {Job.svc} /\ watched' = watched \ {Job.svc}
  BY DEF RemoveDir
<1>3. code'[s] = IF s = Job.svc THEN 0 ELSE code[s]
  BY <1>2 DEF TypeInv, TypeOK, Binary
<1>4. \/ Job.svc \in watched /\ events' = Append(p, e)
      \/ Job.svc \notin watched /\ events' = p
  BY <1>1 DEF RemoveDir, Course, Tidy
<1>5. e \in Event /\ e.kind \in {"go", "dir"} /\ e.kind = "go"
  BY <1>1 DEF Event
<1> HIDE DEF e, p
<1>6. /\ HasGo(events') <=> HasGo(p) \/ Job.svc \in watched
      /\ In(events', "update", s) <=> In(p, "update", s)
      /\ In(events', "delete", s) <=> In(p, "delete", s)
      /\ Follows(p, "delete", "update", s) => Follows(events', "delete", "update", s)
      /\ Follows(p, "update", "delete", s) => Follows(events', "update", "delete", s)
      /\ Follows(p, "create", "update", s) => Follows(events', "create", "update", s)
  BY <1>1, <1>4, <1>5, PushedFile
<1>7. p = Tail(events)
  BY DEF p
<1>8. /\ HasGo(events) <=> HasGo(p) \/ Job.kind = "go"
      /\ In(events, "update", s) <=> In(p, "update", s) \/ (Job.kind = "update" /\ Job.svc = s)
      /\ In(events, "delete", s) <=> In(p, "delete", s) \/ (Job.kind = "delete" /\ Job.svc = s)
      /\ Follows(events, "delete", "update", s) =>
             /\ Follows(p, "delete", "update", s)
             /\ Job.kind = "delete" /\ Job.svc = s => In(p, "update", s)
      /\ Follows(events, "update", "delete", s) =>
             /\ Follows(p, "update", "delete", s)
             /\ Job.kind = "update" /\ Job.svc = s => In(p, "delete", s)
             /\ In(p, "update", s) => In(p, "delete", s)
      /\ Follows(events, "create", "update", s) =>
             /\ Follows(p, "create", "update", s)
             /\ Job.kind = "create" /\ Job.svc = s => In(p, "update", s)
  BY <1>7, Taken
<1> QED BY <1>2, <1>3, <1>6, <1>8

\* What is not the event's service is tracked as before when that one's directory goes.
LEMMA OthersKept ==
  ASSUME TypeInv, Course, LoopFree, RemoveDir(Job.svc), Job.kind # "go",
         NEW s \in Services, s # Job.svc,
         edits' = edits, spec' = spec, listed' = listed, binary' = binary, main' = main,
         pending' = pending, timer' = timer, due' = due,
         work'["callback"] = work["callback"], work'["main"] = work["main"],
         registered' = registered \/ registered' = registered \ {Job.svc},
         forgotten' = forgotten \/ forgotten' = forgotten \cup {Job.svc}, ~Making(s)'
  PROVE  (Tidy(s) /\ Queue(s) /\ (s \notin forgotten => Tracked(s)))'
<1>1. /\ code'[s] = code[s] /\ (s \in husks' <=> s \in husks) /\ (s \in watched' <=> s \in watched)
      /\ (s \in registered' <=> s \in registered) /\ (s \in forgotten' <=> s \in forgotten)
  BY Removed
<1>2. /\ HasGo(events) => HasGo(events')
      /\ In(events', "update", s) <=> In(events, "update", s)
      /\ In(events', "delete", s) <=> In(events, "delete", s)
      /\ Follows(events, "delete", "update", s) => Follows(events', "delete", "update", s)
      /\ Follows(events, "update", "delete", s) => Follows(events', "update", "delete", s)
      /\ Follows(events, "create", "update", s) => Follows(events', "create", "update", s)
  BY Removed
<1>3. ~Making(s) /\ ~ToMake(s) /\ ~ToMake(s)' /\ ~Early /\ ~Early' /\ Loop.at = "idle"
  BY Taken DEF ToMake, Early
<1>4. Tidy(s)'
  BY <1>1, <1>3 DEF Course, Tidy, Generated
<1>5. Queue(s)'
  BY <1>2, <1>3 DEF Course, Queue
<1>6. ASSUME s \notin forgotten PROVE Tracked(s)'
  <2>1. Tracked(s)
    BY <1>6 DEF Course
  <2>2. Made(s)' /\ Ahead(s)' = Ahead(s)
    BY <1>1, <1>2, <1>3, <2>1 DEF Tracked, Made, Ahead, Generated
  <2>3. (Due => Due') /\ (Linking(s) => Linking(s)')
    BY <1>1, <1>2, <1>3 DEF Due, Busy, Linking, Goroutine, Loop
  <2>4. Carried(s)'
    BY <1>1, <1>3, <2>1, <2>2, <2>3 DEF Tracked, Carried, Generated
  <2>5. Busy("discover") \/ Busy("generated") => (Busy("discover") \/ Busy("generated"))'
    BY <1>3 DEF Busy, Goroutine, Loop
  <2>6. Listing(s)'
    BY <1>1, <1>2, <1>3, <2>1, <2>5 DEF Tracked, Listing, Generated
  <2> QED BY <1>1, <1>3, <2>1, <2>2, <2>4, <2>6 DEF Tracked
<1> QED BY <1>1, <1>4, <1>5, <1>6

\* A service whose source was edited or deleted is made anew, or a build without it is
\* scheduled (watcher.go:441-467, 501-534).
LEMMA HandleSourceStep == TypeInv /\ Course /\ (HandleUpdate \/ HandleDelete) => Course'
<1> SUFFICES ASSUME TypeInv, Course, HandleUpdate \/ HandleDelete
             PROVE  Course'
  OBVIOUS
<1>1. /\ edits' = edits /\ spec' = spec /\ listed' = listed /\ binary' = binary
      /\ running' = running /\ main' = main /\ pending' = pending /\ timer' = timer
      /\ due' = due /\ locked' = locked /\ tokens' = tokens
      /\ LoopFree /\ RemoveDir(Job.svc) /\ Job.kind # "go"
  BY DEF HandleUpdate, HandleDelete, restart
<1>2. work'["callback"] = work["callback"] /\ work'["main"] = work["main"]
  BY Goes DEF HandleUpdate, HandleDelete, Regenerate, Goroutine
<1>3. \/ /\ Job.kind \in {"create", "update"} /\ (Job.kind = "create" => Job.svc \in Static)
         /\ Loop' = At("generate", Job.svc)
         /\ registered' = IF Job.svc \in Static THEN registered ELSE registered \ {Job.svc}
         /\ forgotten' = forgotten \cup (({Job.svc} \cap Static) \ watched)
      \/ /\ Job.kind = "delete" /\ Job.svc \in Static /\ spec[Job.svc] # 0
         /\ Loop' = At("generate", Job.svc) /\ registered' = registered
         /\ forgotten' = forgotten \cup (({Job.svc} \cap Static) \ watched)
      \/ /\ Job.kind = "delete" /\ Loop' = At("schedule", None)
         /\ registered' = registered \ {Job.svc} /\ forgotten' = forgotten
  BY Goes DEF HandleUpdate, HandleDelete, Regenerate, Goroutine, Loop
<1>4. Loop.at = "idle" /\ main \notin {"boot", "existing", "rebuild"} /\ ~Early /\ ~Early'
  BY <1>1, Taken DEF LoopFree, Alive, Early
<1>5. Loop'.at \in {"schedule", "generate"}
  BY <1>3 DEF At
<1>6. Shapes' /\ Ongoing'
  BY <1>1, <1>2, <1>4, <1>5 DEF Course, Shapes, Ongoing, Busy, Goroutine, Loop
<1> SUFFICES ASSUME NEW s \in Services
             PROVE  (Tidy(s) /\ Queue(s) /\ (s \notin forgotten => Tracked(s)))'
  BY <1>6 DEF Course
<1>7. Making(s)' => s = Job.svc /\ ToMake(s)' /\ Loop'.at = "generate"
  BY <1>3 DEF Making, MakingOne, ToMake, At
<1>8. CASE s # Job.svc
  <2>1. ~Making(s)'
    BY <1>7, <1>8
  <2>2. /\ registered' = registered \/ registered' = registered \ {Job.svc}
        /\ forgotten' = forgotten \/ forgotten' = forgotten \cup {Job.svc}
    BY <1>3
  <2> QED BY <1>1, <1>2, <1>8, <2>1, <2>2, OthersKept
<1>9. CASE s = Job.svc
  <2>1. /\ code'[s] = 0 /\ s \notin husks' /\ s \notin watched'
        /\ (s \in watched => HasGo(events'))
        /\ Follows(events', "delete", "update", s) \/ spec[s] = 0
        /\ Follows(events', "update", "delete", s) \/ spec[s] # 0
        /\ Follows(events', "create", "update", s)
        /\ Job.kind = "delete" /\ spec[s] # 0 => In(events', "update", s)
        /\ Job.kind = "update" /\ spec[s] = 0 => In(events', "delete", s)
        /\ Job.kind = "create" /\ spec[s] = 0 => In(events', "delete", s)
    BY <1>1, <1>9, Removed DEF Course, Queue
  <2>2. Tidy(s)'
    BY <1>1, <1>4, <1>7, <2>1 DEF Course, Tidy, Generated, Early
  <2>3. Making(s)' /\ s \in registered' => s \in Static
    BY <1>3, <1>7, <1>9 DEF At
  <2>4. Making(s)' /\ spec[s] = 0 => In(events', "delete", s)
    BY <1>3, <1>7, <1>9, <2>1 DEF At
  <2>5. Queue(s)'
    BY <1>1, <1>7, <2>1, <2>3, <2>4 DEF Queue, ToMake
  <2>6. (Making(s)' /\ ToMake(s)') \/ (Busy("schedule")' /\ Job.kind = "delete")
    BY <1>3, <1>9 DEF Making, MakingOne, ToMake, At, Busy, Goroutine, Loop
  <2>7. Made(s)'
    BY <1>1, <2>1, <2>6 DEF Made, Generated
  <2>8. Carried(s)' /\ Listing(s)'
    BY <2>1, <2>6 DEF Carried, Listing, Generated, Ahead, Due
  <2>9. Making(s)' /\ s \in Static /\ s \notin forgotten' => HasGo(events')
    BY <1>3, <1>7, <1>9, <2>1 DEF At
  <2> QED BY <2>1, <2>2, <2>5, <2>7, <2>8, <2>9 DEF Tracked
<1> QED BY <1>8, <1>9

\* GenerateService writes the configuration, or finds no source (service.go:335-463).
LEMMA StartGenerateStep == TypeInv /\ Course /\ StartGenerate => Course'
<1> SUFFICES ASSUME TypeInv, Course, StartGenerate PROVE Course'
  OBVIOUS
<1> DEFINE t == Loop.svc
<1>1. /\ edits' = edits /\ spec' = spec /\ listed' = listed /\ binary' = binary
      /\ running' = running /\ main' = main /\ registered' = registered /\ watched' = watched
      /\ pending' = pending /\ timer' = timer /\ due' = due /\ locked' = locked
      /\ tokens' = tokens /\ forgotten' = forgotten /\ Alive /\ Loop.at = "generate"
  BY DEF StartGenerate, restart, Loop
<1>2. work'["callback"] = work["callback"] /\ work'["main"] = work["main"]
  BY Goes DEF StartGenerate, Goroutine
<1>3. t \in Services /\ ToMake(t) /\ Making(t)
  BY <1>1 DEF TypeInv, MakingOne, ToMake, Making
<1>4. \/ /\ spec[t] = 0 /\ Loop' = Idle /\ code' = code /\ husks' = husks /\ events' = events
      \/ /\ spec[t] # 0 /\ Loop' = At("finish", t) /\ husks' = husks \cup {t}
         /\ code' = [code EXCEPT ![t] = spec[t]]
         /\ Tell(IF Generated(t) THEN GoEvent(t) ELSE <<"dir">>, t)
  BY Goes DEF StartGenerate, Goroutine, Loop
<1>5. \/ events' = events
      \/ \E e \in Event : e.kind \in {"go", "dir"} /\ events' = Append(events, e)
  <2>1. CASE spec[t] # 0 /\ Generated(t)
    <3>1. events' = Append(events, [kind |-> "go", svc |-> t]) \/ events' = events
      BY <1>1, <1>3, <1>4, <2>1, TellFile DEF TypeInv, TypeOK
    <3>2. [kind |-> "go", svc |-> t] \in Event
      BY <1>3 DEF Event
    <3> QED BY <3>1, <3>2
  <2>2. CASE spec[t] # 0 /\ ~Generated(t)
    BY <1>1, <1>3, <1>4, <2>2, TellOne DEF TypeInv, TypeOK, Kinds
  <2> QED BY <1>4, <2>1, <2>2
<1> HIDE DEF t
<1>6. Loop'.at \in {"idle", "finish"} /\ main \notin {"boot", "existing", "rebuild"}
  BY <1>1, <1>4 DEF At, Idle, Course, Shapes
<1>7. Shapes' /\ Ongoing'
  BY <1>1, <1>2, <1>6 DEF Course, Shapes, Ongoing, Busy, Goroutine, Loop
<1> SUFFICES ASSUME NEW s \in Services
             PROVE  (Tidy(s) /\ Queue(s) /\ (s \notin forgotten => Tracked(s)))'
  BY <1>7 DEF Course
<1>8. /\ HasGo(events) => HasGo(events')
      /\ In(events', "update", s) <=> In(events, "update", s)
      /\ In(events', "delete", s) <=> In(events, "delete", s)
      /\ Follows(events, "delete", "update", s) => Follows(events', "delete", "update", s)
      /\ Follows(events, "update", "delete", s) => Follows(events', "update", "delete", s)
      /\ Follows(events, "create", "update", s) => Follows(events', "create", "update", s)
  <2>1. ASSUME NEW e \in Event, e.kind \in {"go", "dir"}, events' = Append(events, e)
        PROVE  /\ HasGo(events) => HasGo(events')
               /\ In(events', "update", s) <=> In(events, "update", s)
               /\ In(events', "delete", s) <=> In(events, "delete", s)
               /\ Follows(events, "delete", "update", s) => Follows(events', "delete", "update", s)
               /\ Follows(events, "update", "delete", s) => Follows(events', "update", "delete", s)
               /\ Follows(events, "create", "update", s) => Follows(events', "create", "update", s)
    BY <2>1, PushedFile DEF TypeInv, TypeOK
  <2> QED BY <1>5, <2>1
<1>9. /\ code'[s] = IF s = t /\ spec[t] # 0 THEN spec[t] ELSE code[s]
      /\ s \in husks' <=> s \in husks \/ (s = t /\ spec[t] # 0)
  BY <1>4 DEF TypeInv, TypeOK, Binary
<1>10. /\ Making(s) <=> s = t
       /\ ToMake(s) <=> s = t
       /\ Making(s)' <=> s = t /\ spec[t] # 0
       /\ ~ToMake(s)' /\ ~Early /\ ~Early'
       /\ spec[t] # 0 => Loop'.at = "finish"
  BY <1>1, <1>3, <1>4, <1>6 DEF Making, MakingOne, ToMake, Early, At, Idle
<1>11. Tidy(s)'
  BY <1>1, <1>3, <1>9, <1>10 DEF Course, Tidy, Generated, Early
<1>12. Queue(s)'
  BY <1>1, <1>8, <1>10 DEF Course, Queue
<1>13. s = t /\ spec[t] = 0 => In(events', "delete", s)
  BY <1>8, <1>10 DEF Course, Queue
<1>14. ASSUME s \notin forgotten PROVE Tracked(s)'
  <2>1. Tracked(s)
    BY <1>14 DEF Course
  <2>2. Made(s)'
    BY <1>1, <1>8, <1>9, <1>10, <2>1, Numbers DEF Tracked, Made, Generated
  <2>3. Ahead(s) => Ahead(s)'
    BY <1>8, <1>10, <1>13 DEF Ahead
  <2>4. Due => Due'
    BY <1>1, <1>2, <1>8 DEF Due, Busy, Goroutine, Loop
  <2>5. s # t => (Linking(s) => Linking(s)')
    BY <1>1, <1>2, <1>9 DEF Linking, Goroutine, Loop
  <2>6. s = t => Ahead(s)'
    BY <1>10, <1>13 DEF Ahead
  <2>7. Carried(s)'
    BY <1>1, <1>9, <1>10, <2>1, <2>3, <2>4, <2>5, <2>6 DEF Tracked, Carried, Generated
  <2>8. Busy("discover") \/ Busy("generated") => (Busy("discover") \/ Busy("generated"))'
    BY <1>1, <1>2 DEF Busy, Goroutine, Loop
  <2>9. Listing(s)'
    BY <1>1, <1>8, <1>9, <1>10, <1>13, <2>1, <2>8 DEF Tracked, Listing, Generated
  <2>10. (s \in husks => code[s] \in BadSpec \/ Ahead(s))'
    BY <1>9, <2>1, <2>3, <2>6 DEF Tracked
  <2>11. (Making(s) /\ s \in Static =>
              HasGo(events) \/ In(events, "update", s) \/ In(events, "delete", s))'
    BY <1>8, <1>10, <2>1 DEF Tracked
  <2> QED BY <2>2, <2>7, <2>9, <2>10, <2>11 DEF Tracked
<1> QED BY <1>1, <1>11, <1>12, <1>14

\* A service is made, or stays half made where generation fails; an OpenAPI service
\* that is not registered is, and is to be discovered (watcher.go:270-320).
LEMMA FinishGenerateStep == TypeInv /\ Course /\ FinishGenerate => Course'
<1> SUFFICES ASSUME TypeInv, Course, FinishGenerate PROVE Course'
  OBVIOUS
<1> DEFINE t == Loop.svc
           fresh == t \notin registered /\ t \notin Static
<1>1. /\ edits' = edits /\ spec' = spec /\ code' = code /\ listed' = listed /\ binary' = binary
      /\ running' = running /\ main' = main /\ watched' = watched /\ events' = events
      /\ pending' = pending /\ timer' = timer /\ due' = due /\ locked' = locked
      /\ tokens' = tokens /\ forgotten' = forgotten /\ Loop.at = "finish"
  BY DEF FinishGenerate, restart, Loop
<1>2. work'["callback"] = work["callback"] /\ work'["main"] = work["main"]
  BY Goes DEF FinishGenerate, Goroutine
<1>3. t \in Services /\ Making(t)
  BY <1>1 DEF TypeInv, MakingOne, Making
<1>4. \/ /\ code[t] \in BadSpec /\ Loop' = Idle /\ husks' = husks /\ registered' = registered
      \/ /\ husks' = husks \ {t} /\ registered' = registered \cup {t}
         /\ Loop' = IF fresh THEN At("discover", None) ELSE Idle
  BY Goes DEF FinishGenerate, Goroutine, Loop
<1>5. Loop'.at \in {"idle", "discover"} /\ main \notin {"boot", "existing", "rebuild"}
  BY <1>1, <1>4 DEF At, Idle, Course, Shapes
<1>6. Shapes' /\ Ongoing'
  BY <1>1, <1>2, <1>5 DEF Course, Shapes, Ongoing, Busy, Goroutine, Loop
<1>7. ~MakingOne' /\ ~Early /\ ~Early'
  BY <1>1, <1>5 DEF MakingOne, Early
<1>8. \/ code[t] \in BadSpec /\ husks' = husks /\ registered' = registered
      \/ /\ husks' = husks \ {t} /\ registered' = registered \cup {t}
         /\ t \notin registered /\ t \notin Static => Busy("discover")'
  BY <1>4 DEF Busy, Goroutine, Loop, At
<1> HIDE DEF t, fresh
<1> SUFFICES ASSUME NEW s \in Services
             PROVE  (Tidy(s) /\ Queue(s) /\ (s \notin forgotten => Tracked(s)))'
  BY <1>6 DEF Course
<1>9. ~Making(s)' /\ ~ToMake(s)' /\ (Making(s) => s = t) /\ ~ToMake(s)
  BY <1>1, <1>7 DEF Making, ToMake, t
<1>10. Tidy(s)'
  BY <1>1, <1>5, <1>8, <1>9 DEF Course, Tidy, Generated
<1>11. Queue(s)'
  BY <1>1, <1>9 DEF Course, Queue
<1>12. ASSUME s \notin forgotten PROVE Tracked(s)'
  <2>1. Tracked(s)
    BY <1>12 DEF Course
  <2>2. Made(s)'
    BY <1>1, <1>7, <1>9, <2>1 DEF Tracked, Made, Generated
  <2>3. Due => Due'
    BY <1>1, <1>2 DEF Due, Busy, Goroutine, Loop
  <2>4. Linking(s) => Linking(s)'
    BY <1>1, <1>2 DEF Linking, Goroutine, Loop
  <2>5. /\ s # t => (Ahead(s)' <=> Ahead(s)) /\ (s \in husks' <=> s \in husks)
        /\ In(events, "update", s) \/ In(events, "delete", s) => Ahead(s)'
    BY <1>1, <1>8, <1>9 DEF Ahead
  <2>6. s = t => (s \in husks' /\ code[s] \in BadSpec) \/ Ahead(s)' \/ Due'
    <3>1. CASE code[t] \in BadSpec /\ husks' = husks
      BY <1>1, <1>3, <3>1 DEF Course, Tidy
    <3>2. CASE Busy("discover")'
      BY <3>2 DEF Due
    <3>3. CASE t \in registered \/ t \in Static
      <4>1. s = t => HasGo(events) \/ In(events, "update", s) \/ In(events, "delete", s)
        BY <1>3, <2>1, <3>3 DEF Course, Queue, Tracked
      <4> QED BY <1>1, <2>5, <4>1 DEF Due
    <3> QED BY <1>8, <3>1, <3>2, <3>3
  <2>7. Carried(s)'
    BY <1>1, <1>7, <2>1, <2>3, <2>4, <2>5, <2>6 DEF Tracked, Carried, Generated
  <2>8. Busy("discover") \/ Busy("generated") => (Busy("discover") \/ Busy("generated"))'
    BY <1>1, <1>2 DEF Busy, Goroutine, Loop
  <2>9. Listing(s)'
    <3>1. CASE s # t
      BY <1>1, <1>8, <1>9, <2>1, <2>8, <3>1 DEF Tracked, Listing, Generated
    <3>2. CASE s = t
      <4>1. (s \notin registered /\ s \notin Static) \/ s \in Static \/ In(events, "update", s)
        BY <1>3, <3>2 DEF Course, Queue
      <4>2. s \notin husks' => \/ Busy("discover")' \/ s \in Static
                               \/ In(events, "update", s)
        BY <1>1, <1>3, <1>8, <3>2, <4>1 DEF Course, Tidy
      <4> QED BY <1>1, <4>2 DEF Listing
    <3> QED BY <3>1, <3>2
  <2>10. (s \in husks => code[s] \in BadSpec \/ Ahead(s))'
    BY <1>1, <1>8, <2>1, <2>5 DEF Tracked
  <2> QED BY <1>9, <2>2, <2>7, <2>9, <2>10 DEF Tracked
<1> QED BY <1>1, <1>10, <1>11, <1>12

\* What the queue holds when a source was edited or deleted: the last event is the
\* edit's.
LEMMA SourceTold ==
  ASSUME TypeInv, Alive, NEW t \in Services, EditSource(t) \/ DeleteSource(t), NEW s \in Services
  PROVE  /\ HasGo(events) => HasGo(events')
         /\ In(events, "update", s) => In(events', "update", s)
         /\ In(events, "delete", s) => In(events', "delete", s)
         /\ Follows(events, "create", "update", s) => Follows(events', "create", "update", s)
         /\ s # t => /\ In(events', "update", s) => In(events, "update", s)
                     /\ In(events', "delete", s) => In(events, "delete", s)
                     /\ Follows(events, "delete", "update", s) => Follows(events', "delete", "update", s)
                     /\ Follows(events, "update", "delete", s) => Follows(events', "update", "delete", s)
         /\ s = t /\ EditSource(t) =>
                     In(events', "update", s) /\ Follows(events', "delete", "update", s)
         /\ s = t /\ DeleteSource(t) =>
                     In(events', "delete", s) /\ Follows(events', "update", "delete", s)
<1> DEFINE e(k) == [kind |-> k, svc |-> t]
           Kept(q) ==
             /\ HasGo(events) => HasGo(q)
             /\ In(events, "update", s) => In(q, "update", s)
             /\ In(events, "delete", s) => In(q, "delete", s)
             /\ s # t => /\ In(q, "update", s) => In(events, "update", s)
                         /\ In(q, "delete", s) => In(events, "delete", s)
                         /\ Follows(events, "delete", "update", s) => Follows(q, "delete", "update", s)
                         /\ Follows(events, "update", "delete", s) => Follows(q, "update", "delete", s)
                         /\ Follows(events, "create", "update", s) => Follows(q, "create", "update", s)
<1>1. ASSUME NEW k \in SourceKind, NEW q \in Seq(Event), Kept(q), NEW p, p = Append(q, e(k))
      PROVE  /\ Kept(p) /\ p \in Seq(Event)
             /\ s = t => In(p, k, s)
             /\ s = t /\ k = "update" =>
                    Follows(p, "delete", "update", s) /\ Follows(p, "create", "update", s)
             /\ s = t /\ k = "delete" =>
                    /\ Follows(p, "update", "delete", s)
                    /\ Follows(q, "create", "update", s) => Follows(p, "create", "update", s)
  <2>1. e(k) \in Event /\ e(k).kind = k /\ e(k).svc = t /\ k # "go"
    BY DEF Event, SourceKind
  <2> HIDE DEF e
  <2>2. /\ HasGo(p) <=> HasGo(q)
        /\ \A l, r : In(p, l, r) <=> In(q, l, r) \/ (k = l /\ t = r)
        /\ \A l, m, r : Follows(q, l, m, r) /\ ~(k = l /\ t = r) => Follows(p, l, m, r)
        /\ \A l, m, r : k = m /\ t = r /\ l # m => Follows(p, l, m, r)
    <3>1. /\ HasGo(p) <=> HasGo(q) \/ e(k).kind = "go"
          /\ \A l, r : In(p, l, r) <=> In(q, l, r) \/ (e(k).kind = l /\ e(k).svc = r)
          /\ \A l, m, r : Follows(q, l, m, r) /\ ~(e(k).kind = l /\ e(k).svc = r)
                             => Follows(p, l, m, r)
          /\ \A l, m, r : e(k).kind = m /\ e(k).svc = r /\ l # m => Follows(p, l, m, r)
      BY <1>1, <2>1, Pushed
    <3> QED BY <2>1, <3>1
  <2>3. p \in Seq(Event)
    BY <1>1, <2>1
  <2>4. Kept(p)
    BY <1>1, <2>2
  <2> QED BY <2>2, <2>3, <2>4
<1>2. Kept(events) /\ events \in Seq(Event)
  BY DEF TypeInv, TypeOK
<1> HIDE DEF Kept
<1>3. CASE EditSource(t)
  <2>1. \/ events' = Append(events, e("update"))
        \/ events' = Append(Append(events, e("create")), e("update"))
    BY <1>2, <1>3, TellOne, TellTwo DEF EditSource, Kinds
  <2> HIDE DEF e
  <2>2. ~DeleteSource(t)
    <3>1. edits \in Nat
      BY EditsAssumption DEF TypeInv, TypeOK, Versions
    <3> QED BY <1>3, <3>1 DEF EditSource, DeleteSource, TypeInv, TypeOK, Binary
  <2>3. CASE events' = Append(events, e("update"))
    <3>1. Kept(events') /\ (s = t => /\ In(events', "update", s)
                                     /\ Follows(events', "delete", "update", s)
                                     /\ Follows(events', "create", "update", s))
      <4>1. "update" \in SourceKind
        BY DEF SourceKind
      <4> QED BY <1>1, <1>2, <2>3, <4>1
    <3> QED BY <2>2, <3>1 DEF Kept
  <2>4. CASE events' = Append(Append(events, e("create")), e("update"))
    <3> DEFINE q == Append(events, e("create"))
    <3>1. q \in Seq(Event) /\ Kept(q) /\ "update" \in SourceKind
      BY <1>1, <1>2 DEF SourceKind
    <3>2. events' = Append(q, e("update"))
      BY <2>4
    <3> HIDE DEF q
    <3>3. Kept(events') /\ (s = t => /\ In(events', "update", s)
                                     /\ Follows(events', "delete", "update", s)
                                     /\ Follows(events', "create", "update", s))
      BY <1>1, <3>1, <3>2
    <3> QED BY <2>2, <3>3 DEF Kept
  <2> QED BY <2>1, <2>3, <2>4
<1>4. CASE DeleteSource(t)
  <2>1. events' = Append(events, e("delete")) /\ "delete" \in SourceKind
    BY <1>2, <1>4, TellOne DEF DeleteSource, Kinds, SourceKind
  <2> HIDE DEF e
  <2>2. Kept(events') /\ (s = t => /\ In(events', "delete", s)
                                   /\ Follows(events', "update", "delete", s)
                                   /\ (Follows(events, "create", "update", s)
                                       => Follows(events', "create", "update", s)))
    BY <1>1, <1>2, <2>1
  <2>3. ~EditSource(t)
    <3>1. edits \in Nat
      BY EditsAssumption DEF TypeInv, TypeOK, Versions
    <3> QED BY <1>4, <3>1 DEF EditSource, DeleteSource, TypeInv, TypeOK, Binary
  <2> QED BY <2>2, <2>3 DEF Kept
<1> QED BY <1>3, <1>4

\* An edit that the watcher is told of is ahead of it; one that it is not told of is
\* lost, unless start-up finds the source (watcher.go:150-181, 575-600).
LEMMA SourceStep ==
  ASSUME TypeInv, Course, NEW t \in Services, EditSource(t) \/ DeleteSource(t)
  PROVE  Course'
<1>1. /\ edits' = edits + 1 /\ edits \in Nat /\ main # "dead"
      /\ code' = code /\ husks' = husks /\ listed' = listed /\ binary' = binary
      /\ running' = running /\ main' = main /\ registered' = registered /\ watched' = watched
      /\ work' = work /\ pending' = pending /\ timer' = timer /\ due' = due
      /\ locked' = locked /\ tokens' = tokens
  BY EditsAssumption
     DEF EditSource, DeleteSource, restart, MayEdit, TypeInv, TypeOK, Versions
<1>2. \/ EditSource(t) /\ spec' = [spec EXCEPT ![t] = edits + 1]
      \/ DeleteSource(t) /\ spec' = [spec EXCEPT ![t] = 0]
  BY DEF EditSource, DeleteSource
<1>3. ~Alive => main = "boot" /\ events = <<>> /\ events' = events /\ Loop.at = "idle"
  BY <1>1 DEF Alive, Course, Shapes, EditSource, DeleteSource, Tell
<1>4. Shapes' /\ Ongoing'
  BY <1>1, <1>3 DEF Course, Shapes, Ongoing, Busy, Loop, Alive
<1> SUFFICES ASSUME NEW s \in Services
             PROVE  (Tidy(s) /\ Queue(s) /\ (s \notin forgotten => Tracked(s)))'
  BY <1>4 DEF Course
<1>5. /\ EditSource(t) => spec'[t] = edits + 1
      /\ DeleteSource(t) => spec'[t] = 0
      /\ s # t => spec'[s] = spec[s]
      /\ spec[s] \in Nat /\ code[s] \in Nat
  <2>1. edits + 1 # 0 /\ spec \in [Services -> Nat]
    BY <1>1 DEF TypeInv, TypeOK, Binary, Versions
  <2>2. ~(EditSource(t) /\ DeleteSource(t))
    BY <2>1 DEF EditSource, DeleteSource
  <2> QED BY <1>2, <2>1, <2>2, Numbers
<1>6. /\ Making(s)' <=> Making(s)
      /\ ToMake(s)' <=> ToMake(s)
      /\ Early' <=> Early
      /\ Loop' = Loop
  BY <1>1 DEF Making, ToMake, MakingOne, Loop, Early
<1>7. Tidy(s)'
  BY <1>1, <1>2, <1>5, <1>6 DEF Course, Tidy, Generated
<1>8. (Linking(s)' <=> Linking(s)) /\ (Busy("discover")' <=> Busy("discover"))
      /\ (Busy("generated")' <=> Busy("generated")) /\ (Busy("schedule")' <=> Busy("schedule"))
      /\ (Busy("compile")' <=> Busy("compile"))
  BY <1>1 DEF Linking, Busy
<1>9. CASE Alive
  <2>1. /\ HasGo(events) => HasGo(events')
        /\ In(events, "update", s) => In(events', "update", s)
        /\ In(events, "delete", s) => In(events', "delete", s)
        /\ Follows(events, "create", "update", s) => Follows(events', "create", "update", s)
        /\ s # t => /\ In(events', "update", s) => In(events, "update", s)
                    /\ In(events', "delete", s) => In(events, "delete", s)
                    /\ Follows(events, "delete", "update", s) => Follows(events', "delete", "update", s)
                    /\ Follows(events, "update", "delete", s) => Follows(events', "update", "delete", s)
        /\ s = t /\ EditSource(t) =>
                    In(events', "update", s) /\ Follows(events', "delete", "update", s)
        /\ s = t /\ DeleteSource(t) =>
                    In(events', "delete", s) /\ Follows(events', "update", "delete", s)
    BY <1>9, SourceTold
  <2>2. Due => Due'
    BY <1>1, <1>8, <2>1 DEF Due
  <2>3. s # t => (s \in forgotten' <=> s \in forgotten)
    BY <1>9 DEF EditSource, DeleteSource
  <2>4. CASE s # t
    <3>1. Queue(s)'
      BY <1>1, <1>5, <1>6, <2>1, <2>4 DEF Course, Queue
    <3>2. ASSUME s \notin forgotten PROVE Tracked(s)'
      <4>1. Tracked(s)
        BY <3>2 DEF Course
      <4>2. Made(s)' /\ (Ahead(s) => Ahead(s)')
        BY <1>1, <1>5, <1>6, <2>1, <2>4, <4>1 DEF Tracked, Made, Ahead, Generated
      <4>3. Carried(s)'
        BY <1>1, <1>5, <1>6, <1>8, <2>2, <2>4, <4>1, <4>2 DEF Tracked, Carried, Generated
      <4>4. Listing(s)'
        BY <1>1, <1>6, <1>8, <2>1, <4>1 DEF Tracked, Listing, Generated
      <4> QED BY <1>1, <1>6, <2>1, <4>1, <4>2, <4>3, <4>4 DEF Tracked
    <3> QED BY <1>7, <2>3, <2>4, <3>1, <3>2
  <2>5. CASE s = t
    <3>1. \/ In(events', "update", s) /\ spec'[s] # 0
          \/ In(events', "delete", s) /\ spec'[s] = 0
      BY <1>1, <1>2, <1>5, <2>1, <2>5
    <3>2. Queue(s)'
      BY <1>1, <1>2, <1>5, <1>6, <2>1, <2>5, <3>1 DEF Course, Queue
    <3>3. Ahead(s)'
      BY <3>1 DEF Ahead
    <3>4. Made(s)' /\ Carried(s)' /\ Listing(s)'
      BY <3>1, <3>3 DEF Made, Carried, Listing
    <3>5. Tracked(s)'
      BY <3>1, <3>3, <3>4 DEF Tracked
    <3> QED BY <1>7, <3>2, <3>5
  <2> QED BY <2>4, <2>5
<1>10. CASE ~Alive
  <2>1. events' = <<>> /\ events = <<>> /\ ~Making(s) /\ Early
    BY <1>3, <1>10 DEF Making, MakingOne, Early
  <2>2. Queue(s)'
    BY <1>6, <2>1, Nothing DEF Queue, ToMake, Making
  <2>3. s # t => (s \in forgotten' <=> s \in forgotten)
    BY <1>10 DEF EditSource, DeleteSource
  <2>4. CASE s # t
    <3>1. ASSUME s \notin forgotten PROVE Tracked(s)'
      <4>1. Tracked(s)
        BY <3>1 DEF Course
      <4>2. Made(s)' /\ (Ahead(s)' <=> Ahead(s))
        BY <1>1, <1>5, <1>6, <2>1, <2>4, <4>1 DEF Tracked, Made, Ahead, Generated
      <4>3. Due => Due'
        BY <1>1, <1>8, <2>1 DEF Due
      <4>4. Carried(s)'
        BY <1>1, <1>5, <1>6, <1>8, <2>4, <4>1, <4>2, <4>3 DEF Tracked, Carried, Generated
      <4>5. Listing(s)'
        BY <1>1, <1>6, <1>8, <2>1, <4>1 DEF Tracked, Listing, Generated
      <4> QED BY <1>1, <1>6, <2>1, <4>1, <4>2, <4>4, <4>5 DEF Tracked
    <3> QED BY <1>7, <2>2, <2>3, <2>4, <3>1
  <2>5. CASE s = t
    <3>1. ASSUME s \notin forgotten' PROVE Tracked(s)'
      <4>1. EditSource(t) /\ ~Generated(s)
        BY <1>10, <2>5, <3>1 DEF EditSource, DeleteSource
      <4>2. code'[s] = 0 /\ spec'[s] # 0 /\ s \notin husks' /\ Early' /\ ~Making(s)'
        <5>1. code'[s] = 0 /\ spec'[s] = edits + 1 /\ edits + 1 # 0
          BY <1>1, <1>5, <2>5, <4>1 DEF Generated
        <5>2. s \notin husks' /\ Early' /\ ~Making(s)'
          BY <1>1, <1>6, <2>1, <4>1 DEF Course, Tidy
        <5> QED BY <5>1, <5>2
      <4> QED BY <4>2 DEF Tracked, Made, Carried, Listing, Generated
    <3> QED BY <1>7, <2>2, <3>1
  <2> QED BY <2>4, <2>5
<1> QED BY <1>9, <1>10

\* A go file edited in a watched directory is told of, and that schedules a build
\* (watcher.go:323-349, 602-626).
LEMMA EditCodeStep ==
  ASSUME TypeInv, Course, NEW t \in Services, EditCode(t)
  PROVE  Course'
<1>1. /\ edits' = edits + 1 /\ edits \in Nat /\ main # "dead"
      /\ code' = [code EXCEPT ![t] = edits + 1] /\ Generated(t) /\ t \notin husks
      /\ spec' = spec /\ husks' = husks /\ listed' = listed /\ binary' = binary
      /\ running' = running /\ main' = main /\ registered' = registered /\ watched' = watched
      /\ work' = work /\ pending' = pending /\ timer' = timer /\ due' = due
      /\ locked' = locked /\ tokens' = tokens
  BY EditsAssumption DEF EditCode, restart, MayEdit, TypeInv, TypeOK, Versions
<1>2. ~Alive => events' = events /\ main = "boot" /\ events = <<>>
  BY <1>1 DEF Alive, Course, Shapes, EditCode, Tell
<1>3. /\ \/ events' = events
         \/ \E e \in Event : e.kind \in {"go", "dir"} /\ events' = Append(events, e)
      /\ Alive /\ t \in watched => HasGo(events')
  <2>1. CASE Alive
    <3>1. \/ t \in watched /\ events' = Append(events, [kind |-> "go", svc |-> t])
          \/ t \notin watched /\ events' = events
      BY <2>1, TellFile DEF EditCode, TypeInv, TypeOK
    <3>2. [kind |-> "go", svc |-> t] \in Event /\ [kind |-> "go", svc |-> t].kind = "go"
      BY DEF Event
    <3>3. events' = Append(events, [kind |-> "go", svc |-> t]) => HasGo(events')
      BY <3>2, Pushed DEF TypeInv, TypeOK
    <3> QED BY <3>1, <3>2, <3>3
  <2> QED BY <1>2, <2>1
<1>4. Shapes' /\ Ongoing'
  BY <1>1, <1>2 DEF Course, Shapes, Ongoing, Busy, Loop, Alive
<1> SUFFICES ASSUME NEW s \in Services
             PROVE  (Tidy(s) /\ Queue(s) /\ (s \notin forgotten => Tracked(s)))'
  BY <1>4 DEF Course
<1>5. /\ HasGo(events) => HasGo(events')
      /\ In(events', "update", s) <=> In(events, "update", s)
      /\ In(events', "delete", s) <=> In(events, "delete", s)
      /\ Follows(events, "delete", "update", s) => Follows(events', "delete", "update", s)
      /\ Follows(events, "update", "delete", s) => Follows(events', "update", "delete", s)
      /\ Follows(events, "create", "update", s) => Follows(events', "create", "update", s)
  <2>1. ASSUME NEW e \in Event, e.kind \in {"go", "dir"}, events' = Append(events, e)
        PROVE  /\ HasGo(events) => HasGo(events')
               /\ In(events', "update", s) <=> In(events, "update", s)
               /\ In(events', "delete", s) <=> In(events, "delete", s)
               /\ Follows(events, "delete", "update", s) => Follows(events', "delete", "update", s)
               /\ Follows(events, "update", "delete", s) => Follows(events', "update", "delete", s)
               /\ Follows(events, "create", "update", s) => Follows(events', "create", "update", s)
    BY <2>1, PushedFile DEF TypeInv, TypeOK
  <2> QED BY <1>3, <2>1
<1>6. /\ code'[s] = IF s = t THEN edits + 1 ELSE code[s]
      /\ spec[s] \in Nat /\ code[s] \in Nat
  BY <1>1, Numbers DEF TypeInv, TypeOK, Binary
<1>7. /\ Making(s)' <=> Making(s)
      /\ ToMake(s)' <=> ToMake(s)
      /\ Early' <=> Early
      /\ Loop' = Loop
  BY <1>1 DEF Making, ToMake, MakingOne, Loop, Early
<1>8. Tidy(s)'
  BY <1>1, <1>6, <1>7 DEF Course, Tidy, Generated
<1>9. Queue(s)'
  BY <1>1, <1>5, <1>7 DEF Course, Queue
<1>10. (s # t => (Linking(s)' <=> Linking(s))) /\ (Busy("discover")' <=> Busy("discover"))
       /\ (Busy("generated")' <=> Busy("generated")) /\ (Busy("schedule")' <=> Busy("schedule"))
       /\ (Busy("compile")' <=> Busy("compile"))
  BY <1>1, <1>6 DEF Linking, Busy
<1>11. Due => Due'
  BY <1>1, <1>5, <1>10 DEF Due
<1>12. CASE s # t
  <2>1. s \in forgotten' <=> s \in forgotten
    BY <1>12 DEF EditCode
  <2>2. ASSUME s \notin forgotten PROVE Tracked(s)'
    <3>1. Tracked(s)
      BY <2>2 DEF Course
    <3>2. Made(s)' /\ (Ahead(s)' <=> Ahead(s))
      BY <1>1, <1>5, <1>6, <1>7, <1>12, <3>1 DEF Tracked, Made, Ahead, Generated
    <3>3. Carried(s)'
      BY <1>1, <1>6, <1>7, <1>10, <1>11, <1>12, <3>1, <3>2 DEF Tracked, Carried, Generated
    <3>4. Listing(s)'
      BY <1>1, <1>5, <1>6, <1>7, <1>10, <1>12, <3>1 DEF Tracked, Listing, Generated
    <3> QED BY <1>1, <1>5, <1>6, <1>7, <1>12, <3>1, <3>2, <3>3, <3>4 DEF Tracked
  <2> QED BY <1>8, <1>9, <2>1, <2>2
<1>13. CASE s = t
  <2>1. ASSUME s \notin forgotten' PROVE Tracked(s)'
    <3>1. Alive /\ s \in watched /\ (s \notin forgotten \/ (spec[s] # 0 /\ s \in listed))
      BY <1>13, <2>1 DEF EditCode
    <3>2. HasGo(events') /\ Due'
      BY <1>3, <1>13, <3>1 DEF Due
    <3>3. Made(s)'
      BY <1>1, <1>5, <1>6, <1>13, <3>1 DEF Course, Tracked, Made, Tidy, Generated
    <3>4. Listing(s)'
      BY <1>1, <1>5, <1>7, <1>10, <1>13, <3>1 DEF Course, Tracked, Listing, Generated
    <3> QED BY <1>1, <1>13, <3>2, <3>3, <3>4 DEF Tracked, Carried
  <2> QED BY <1>8, <1>9, <2>1
<1> QED BY <1>12, <1>13

\* The first process has nothing on its way.
LEMMA CourseInit == Init => Course
<1> SUFFICES ASSUME Init PROVE Course
  OBVIOUS
<1>1. /\ edits = 1 /\ code = Empty /\ binary = Empty /\ running = Empty /\ husks = {}
      /\ watched = {} /\ main = "boot" /\ events = <<>> /\ spec \in [Services -> {0, 1}]
      /\ tokens = 0
      /\ \A g \in Goroutine : work[g].at = "idle"
  BY DEF Init, Idle
<1>2. Shapes /\ Ongoing
  BY <1>1 DEF Shapes, Ongoing, Loop, Goroutine
<1>3. ASSUME NEW s \in Services
      PROVE  Tidy(s) /\ Queue(s) /\ Tracked(s)
  <2>1. ~MakingOne /\ ~Making(s) /\ ~ToMake(s) /\ Early
    BY <1>1 DEF MakingOne, Making, ToMake, Loop, Goroutine, Early
  <2>2. spec[s] \in {0, 1} /\ code[s] = 0 /\ binary[s] = 0 /\ ~Generated(s)
    BY <1>1 DEF Empty, Generated
  <2>3. Tidy(s)
    BY <1>1, <2>1, <2>2 DEF Tidy
  <2>4. Queue(s)
    BY <1>1, <2>1, Nothing DEF Queue
  <2> QED BY <1>1, <2>1, <2>2, <2>3, <2>4 DEF Tracked, Made, Carried, Listing
<1> QED BY <1>2, <1>3 DEF Course

\* Every step keeps the course.
LEMMA CourseStep == TypeInv /\ Course /\ [Next]_vars => Course'
<1> SUFFICES ASSUME TypeInv, Course, [Next]_vars PROVE Course'
  OBVIOUS
<1>1. ASSUME NEW s \in Services, EditSource(s) \/ DeleteSource(s)
      PROVE  Course'
  BY <1>1, SourceStep
<1>2. ASSUME NEW s \in Services, EditCode(s)
      PROVE  Course'
  BY <1>2, EditCodeStep
<1>3. ASSUME NEW s \in Services, GenerateExisting(s)
      PROVE  Course'
  BY <1>3, GenerateExistingStep
<1>4. CASE HandleNewDir \/ HandleGoFile \/ HandleCreate
  BY <1>4, HandleStep
<1>5. CASE HandleUpdate \/ HandleDelete
  BY <1>5, HandleSourceStep
<1>6. CASE StartGenerate \/ FinishGenerate \/ Schedule
  BY <1>6, StartGenerateStep, FinishGenerateStep, ScheduleStep
<1>7. CASE TimerFires \/ RunCallback
  BY <1>7, TimerFiresStep, RunCallbackStep
<1>8. ASSUME NEW g \in Goroutine, Discover(g) \/ Compile(g) \/ Link(g) \/ RequestRestart(g)
      PROVE  Course'
  BY <1>8, DiscoverStep, CompileStep, LinkStep, RequestRestartStep
<1>9. CASE Boot \/ FinishExisting \/ Stop \/ Exec
  BY <1>9, BootStep, FinishExistingStep, StopStep, ExecStep
<1>10. CASE StartWatching \/ TakeToken \/ ShutDown \/ GiveUp
  BY <1>10, MainGoesOn
<1>11. CASE UNCHANGED vars
  BY <1>11, StutterStep
<1> QED BY <1>1, <1>2, <1>3, <1>4, <1>5, <1>6, <1>7, <1>8, <1>9, <1>10, <1>11 DEF Next

\* With an empty queue, nothing pending and every goroutine idle, what is tracked has
\* arrived.
LEMMA CourseServes == TypeInv /\ Course => SettledServes
<1> SUFFICES ASSUME TypeInv, Course, Settled, NEW s \in Services \ forgotten
             PROVE  /\ Current(s)
                    /\ s \in husks => code[s] \in BadSpec
                    /\ s \notin husks /\ (s \in Static /\ Generated(s) => s \in listed)
                           => running[s] = code[s]
  BY DEF SettledServes
<1>1. /\ main = "select" /\ tokens = 0 /\ events = <<>> /\ ~timer /\ due = 0
      /\ \A g \in Goroutine : work[g].at = "idle"
  BY DEF Settled, Idle
<1>2. ~Early /\ ~MakingOne /\ ~Making(s) /\ ~ToMake(s)
  BY <1>1 DEF Early, MakingOne, Making, ToMake, Loop, Goroutine
<1>3. ~Due /\ ~Ahead(s) /\ ~Linking(s)
  BY <1>1, <1>2, Nothing DEF Due, Ahead, Linking, Busy
<1>4. ~In(events, "update", s) /\ ~In(events, "delete", s) /\ ~Busy("discover")
  BY <1>1, Nothing DEF Busy
<1>5. Tracked(s)
  BY DEF Course
<1>6. Current(s)
  BY <1>2, <1>4, <1>5 DEF Tracked, Made, Current
<1>7. s \in husks => code[s] \in BadSpec
  BY <1>3, <1>5 DEF Tracked
<1>8. binary = running
  BY <1>1 DEF Course, Ongoing, Busy
<1>9. s \notin husks /\ (s \in Static /\ Generated(s) => s \in listed) => binary[s] = code[s]
  BY <1>2, <1>3, <1>5 DEF Tracked, Carried
<1> QED BY <1>6, <1>7, <1>8, <1>9

\* When nothing is left to do, the process serves what is on disk and every source has
\* been given to the generator (watcher.go:270-390, main.go:251-292), whatever services
\* there are, whenever they are edited and whichever builds fail: during a generation, a
\* build or a restart too.  The watcher's edits are lost only where the code drops the
\* service itself (forgotten): with what it had in hand at a restart (main.go:84), with
\* a failed or overtaken build (watcher.go:373-381), or with what it is never told of.
THEOREM EditsAreServed == Spec => []SettledServes
<1>1. Init => TypeInv /\ Course
  BY TypeInit, CourseInit
<1>2. TypeInv /\ Course /\ [Next]_vars => (TypeInv /\ Course)'
  BY TypeStep, CourseStep
<1>3. TypeInv /\ Course => SettledServes
  BY CourseServes
<1> QED BY <1>1, <1>2, <1>3, PTL DEF Spec

=============================================================================
