---------------------------- MODULE BatchPipeline ----------------------------
(***************************************************************************)
(* The integration harness (internal/integrationtest, pipeline.go and      *)
(* batch.go): specs are packed into batches; batches are prepared          *)
(* concurrently (their services generated, a server for all of them built  *)
(* and started) and tested one after the other as they come out of a       *)
(* channel.  An interrupt or too many failures abort the run.              *)
(*                                                                         *)
(* A spec is its position when specs are sorted by size, largest first.    *)
(* What is prepared is a record: `error' fails the whole batch, `failed'   *)
(* are specs that could not be generated, `built' says that it knows its   *)
(* binary.  The result cache and all statistics are left out.              *)
(***************************************************************************)
EXTENDS Naturals, FiniteSets, SequencesExt

CONSTANTS
    Corpora,       \* the sizes of the specs of a run, largest first
    Target,        \* the size a batch is packed up to
    MaxFiles,      \* defaultBatchMaxFiles
    Concurrencies, \* BATCH_CONCURRENCY
    MaxFails,      \* failures that abort a run
    Endpoints      \* most endpoints of a service, each of which may fail its test

ASSUME BatchAssumption ==
    /\ \A c \in Corpora :
          c \in Seq(Nat) /\ \A i, j \in DOMAIN c : i <= j => c[i] >= c[j]
    /\ Target \in Nat \ {0} /\ MaxFiles \in Nat \ {0}
    /\ Concurrencies \subseteq Nat \ {0}
    /\ MaxFails \in Nat \ {0} /\ Endpoints \in Nat \ {0}

VARIABLES
    sizes,       \* the sizes of the specs of the run, largest first
    batches,     \* what they are packed into
    packed,      \* how many are packed
    concurrency, \* batches prepared at a time, and room in the channel
    interrupt,   \* InterruptCh is closed
    aborted,     \* no further batch is wanted
    failCount,   \* failures so far
    crashed,     \* a panic ended the process
    producer,    \* the goroutine that starts the builders
    next,        \* the batch it comes to next
    builder,     \* the goroutine of each batch
    prep,        \* the goroutine in which it runs prepareBatch
    prepared,    \* what it will send, or has sent
    timedOut,    \* batches it has stopped waiting for
    binaries,    \* batch servers on disk
    servers,     \* batch servers that run
    preparedCh,  \* batches ready to test
    main,        \* processBatches
    current,     \* the batch under test
    todo,        \* its specs not yet tested
    reported     \* how often each spec's result was reported

setupVars == <<sizes, batches, packed, concurrency>>
abortVars == <<interrupt, aborted, failCount>>
buildVars == <<builder, prep, prepared, timedOut>>
hostVars  == <<binaries, servers>>
mainVars  == <<main, current, todo, reported>>
vars == <<setupVars, abortVars, crashed, producer, next, buildVars, hostVars, preparedCh, mainVars>>

specs == DOMAIN sizes

\* There is a builder for at most as many batches as there are specs.
Slots      == UNION {DOMAIN c : c \in Corpora}
SpecsIn(b) == ToSet(batches[b])

Failed  == [error |-> TRUE, failed |-> {}, built |-> FALSE]
Broken(b) == [error |-> TRUE, failed |-> prepared[b].failed, built |-> b \in binaries]

Init ==
    /\ sizes \in Corpora /\ batches = <<>> /\ packed = 0
    /\ concurrency \in Concurrencies
    /\ interrupt = FALSE /\ aborted = FALSE /\ failCount = 0 /\ crashed = FALSE
    /\ producer = "none" /\ next = 1
    /\ builder = [b \in Slots |-> "none"] /\ prep = [b \in Slots |-> "none"]
    /\ prepared = [b \in Slots |-> Failed] /\ timedOut = {}
    /\ binaries = {} /\ servers = {} /\ preparedCh = <<>>
    /\ main = "split" /\ current = 0 /\ todo = <<>>
    /\ reported = [i \in specs |-> 0]

\* The process ends with a panic, or when RunPipeline has returned.
Alive == ~crashed /\ main # "returned"

\* isInterrupted.
Interrupted == aborted \/ interrupt

\* The user interrupts the run.
Interrupt ==
    /\ Alive /\ ~interrupt
    /\ interrupt' = TRUE
    /\ UNCHANGED <<setupVars, aborted, failCount, crashed, producer, next, buildVars,
                   hostVars, preparedCh, mainVars>>

-----------------------------------------------------------------------------
(* SplitIntoBatches                                                        *)

Weight(batch) == FoldLeft(LAMBDA w, i : w + sizes[i], 0, batch)

HasRoom(batch, i) == Weight(batch) + sizes[i] <= Target /\ Len(batch) < MaxFiles

\* The batches that can take spec i; a large one does not join a batch.
Room(i) == {b \in DOMAIN batches : sizes[i] < Target \div 2 /\ HasRoom(batches[b], i)}

\* The next spec, in the order of size, joins the first batch that has room or
\* opens one.
PlaceSpec ==
    /\ Alive /\ main = "split" /\ packed < Len(sizes)
    /\ packed' = packed + 1
    /\ \/ Room(packed') = {} /\ batches' = Append(batches, <<packed'>>)
       \/ \E b \in Room(packed') :
             /\ \A c \in Room(packed') : b <= c
             /\ batches' = [batches EXCEPT ![b] = Append(@, packed')]
    /\ UNCHANGED <<sizes, concurrency, abortVars, crashed, producer, next, buildVars, hostVars,
                   preparedCh, mainVars>>

\* All are, and RunPipeline starts the producer.
StartRun ==
    /\ Alive /\ main = "split" /\ packed = Len(sizes)
    /\ main' = "receive" /\ producer' = "check"
    /\ UNCHANGED <<setupVars, abortVars, crashed, next, buildVars, hostVars, preparedCh,
                   current, todo, reported>>

-----------------------------------------------------------------------------
(* The producer                                                            *)

\* It takes the next batch, unless there is none or the run is over.
NextBatch ==
    /\ Alive /\ producer = "check"
    /\ producer' = IF next > Len(batches) \/ Interrupted THEN "wait" ELSE "acquire"
    /\ aborted' = (aborted \/ (next <= Len(batches) /\ interrupt))
    /\ UNCHANGED <<setupVars, interrupt, failCount, crashed, next, buildVars, hostVars,
                   preparedCh, mainVars>>

\* Mutant: a builder that is done keeps its place.
Building_NoRelease == {b \in Slots : builder[b] # "none"}

\* Builders that hold a place of the semaphore.
Building == {b \in Slots : builder[b] \in {"start", "wait", "send"}}

\* It takes a place of the semaphore and starts a builder.
Acquire ==
    /\ Alive /\ producer = "acquire" /\ Cardinality(Building) < concurrency
    /\ builder' = [builder EXCEPT ![next] = "start"]
    /\ next' = next + 1 /\ producer' = "check"
    /\ UNCHANGED <<setupVars, abortVars, crashed, prep, prepared, timedOut, hostVars,
                   preparedCh, mainVars>>

\* When all builders are done it closes the channel.
CloseChannel ==
    /\ Alive /\ producer = "wait" /\ Building = {}
    /\ producer' = "closed"
    /\ UNCHANGED <<setupVars, abortVars, crashed, next, buildVars, hostVars, preparedCh,
                   mainVars>>

-----------------------------------------------------------------------------
(* A builder                                                               *)

\* It has prepareBatch run, unless the run is over.
StartBuilder(b) ==
    /\ Alive /\ builder[b] = "start"
    /\ \/ /\ Interrupted
          /\ aborted' = TRUE
          /\ prepared' = [prepared EXCEPT ![b] = Failed]
          /\ builder' = [builder EXCEPT ![b] = "send"]
          /\ UNCHANGED prep
       \/ /\ ~Interrupted
          /\ builder' = [builder EXCEPT ![b] = "wait"]
          /\ prep' = [prep EXCEPT ![b] = "setup"]
          /\ UNCHANGED <<aborted, prepared>>
    /\ UNCHANGED <<setupVars, interrupt, failCount, crashed, producer, next, timedOut,
                   hostVars, preparedCh, mainVars>>

\* After BatchPrepTimeout it gives up on prepareBatch, which goes on.
TimeOut(b) ==
    /\ Alive /\ builder[b] = "wait"
    /\ timedOut' = timedOut \cup {b}
    /\ prepared' = [prepared EXCEPT ![b] = Failed]
    /\ builder' = [builder EXCEPT ![b] = "send"]
    /\ UNCHANGED <<setupVars, abortVars, crashed, producer, next, prep, hostVars, preparedCh,
                   mainVars>>

\* Mutant: the channel has room for everything.
Send_Unbounded(b) ==
    /\ Alive /\ builder[b] = "send"
    /\ preparedCh' = Append(preparedCh, b)
    /\ builder' = [builder EXCEPT ![b] = "done"]
    /\ UNCHANGED <<setupVars, abortVars, crashed, producer, next, prep, prepared, timedOut,
                   hostVars, mainVars>>

\* It sends when the channel has room, then leaves the semaphore and the group.
Send(b) ==
    /\ Alive /\ builder[b] = "send" /\ Len(preparedCh) < concurrency
    /\ preparedCh' = Append(preparedCh, b)
    /\ builder' = [builder EXCEPT ![b] = "done"]
    /\ UNCHANGED <<setupVars, abortVars, crashed, producer, next, prep, prepared, timedOut,
                   hostVars, mainVars>>

-----------------------------------------------------------------------------
(* prepareBatch                                                            *)

\* It returns; nobody may be waiting any more.
EndPrep(b, result) ==
    /\ prep' = [prep EXCEPT ![b] = "over"]
    /\ IF builder[b] = "wait"
       THEN /\ prepared' = [prepared EXCEPT ![b] = result]
            /\ builder' = [builder EXCEPT ![b] = "send"]
       ELSE UNCHANGED <<prepared, builder>>

prepRest == <<setupVars, abortVars, crashed, producer, next, timedOut, preparedCh, mainVars>>

\* The services are set up and generated, or not.  An interrupt on the way
\* skips some of them and is seen again at the end.
SetUp(b) ==
    /\ Alive /\ prep[b] = "setup"
    /\ \E F \in SUBSET SpecsIn(b) :
          \/ (Interrupted \/ F = SpecsIn(b)) /\ EndPrep(b, Failed)
          \/ /\ ~Interrupted /\ F # SpecsIn(b)
             /\ prep' = [prep EXCEPT ![b] = "build"]
             /\ prepared' = [prepared EXCEPT ![b].failed = IF builder[b] = "wait" THEN F ELSE @]
             /\ UNCHANGED builder
    /\ UNCHANGED <<prepRest, hostVars>>

\* The batch's server is generated and compiled.
Build(b) ==
    /\ Alive /\ prep[b] = "build"
    /\ \/ EndPrep(b, Broken(b)) /\ UNCHANGED binaries
       \/ /\ binaries' = binaries \cup {b}
          /\ prep' = [prep EXCEPT ![b] = "launch"]
          /\ UNCHANGED <<builder, prepared>>
    /\ UNCHANGED <<prepRest, servers>>

\* It is started, unless the run is over.
Launch(b) ==
    /\ Alive /\ prep[b] = "launch"
    /\ \/ EndPrep(b, Broken(b)) /\ UNCHANGED servers
       \/ /\ ~Interrupted
          /\ servers' = servers \cup {b}
          /\ prep' = [prep EXCEPT ![b] = "health"]
          /\ UNCHANGED <<builder, prepared>>
    /\ UNCHANGED <<prepRest, binaries>>

\* Mutant: a server that does not become ready is left running.
AwaitHealth_NoStop(b) ==
    /\ Alive /\ prep[b] = "health"
    /\ \/ EndPrep(b, [prepared[b] EXCEPT !.error = FALSE, !.built = TRUE]) /\ UNCHANGED servers
       \/ EndPrep(b, Broken(b)) /\ UNCHANGED servers
    /\ UNCHANGED <<prepRest, binaries>>

\* WaitForServer: it answers, or it is stopped since it exited, took too long
\* or the run is over.
AwaitHealth(b) ==
    /\ Alive /\ prep[b] = "health"
    /\ \/ EndPrep(b, [prepared[b] EXCEPT !.error = FALSE, !.built = TRUE]) /\ UNCHANGED servers
       \/ EndPrep(b, Broken(b)) /\ servers' = servers \ {b}
    /\ UNCHANGED <<prepRest, binaries>>

\* A spec makes its set-up panic.  The builder would recover, but prepareBatch
\* and the set-ups run on goroutines of their own.
Panic(b) ==
    /\ Alive /\ prep[b] = "setup"
    /\ crashed' = TRUE
    /\ UNCHANGED <<setupVars, abortVars, producer, next, buildVars, hostVars, preparedCh,
                   mainVars>>

-----------------------------------------------------------------------------
(* processBatches                                                          *)

mainRest == <<setupVars, interrupt, crashed, producer, next, buildVars>>

\* Each of S is reported once; n failures are counted.
Report(S, n) ==
    /\ reported' = [i \in specs |-> reported[i] + (IF i \in S THEN 1 ELSE 0)]
    /\ failCount' = failCount + n
    /\ aborted' = (aborted \/ (n > 0 /\ failCount' >= MaxFails))

\* A batch that failed has no server to stop, even if one is started later.
Discard(b) ==
    /\ servers' = IF prepared[b].error THEN servers ELSE servers \ {b}
    /\ binaries' = IF prepared[b].built THEN binaries \ {b} ELSE binaries

Received(b) ==
    /\ Alive /\ main = "receive" /\ preparedCh # <<>> /\ b = Head(preparedCh)
    /\ preparedCh' = Tail(preparedCh)

\* A batch that comes after the end is cleaned up and not reported.
ReceiveAborted(b) ==
    /\ Received(b) /\ aborted
    /\ Discard(b)
    /\ UNCHANGED <<mainRest, aborted, failCount, mainVars>>

\* A batch that failed fails all of its specs.
ReceiveError(b) ==
    /\ Received(b) /\ ~aborted /\ prepared[b].error
    /\ Report(SpecsIn(b), Cardinality(SpecsIn(b)))
    /\ UNCHANGED <<mainRest, hostVars, main, current, todo>>

\* Otherwise the specs that failed are reported and the others tested.
ReceiveReady(b) ==
    /\ Received(b) /\ ~aborted /\ ~prepared[b].error
    /\ Report(prepared[b].failed, Cardinality(prepared[b].failed))
    /\ current' = b /\ todo' = batches[b] /\ main' = "next"
    /\ UNCHANGED <<mainRest, hostVars>>

\* An interrupt ends it at once.
SeeInterrupt ==
    /\ Alive /\ main = "receive" /\ interrupt
    /\ aborted' = TRUE /\ main' = "returned"
    /\ UNCHANGED <<mainRest, failCount, hostVars, preparedCh, current, todo, reported>>

SeeClosed ==
    /\ Alive /\ main = "receive" /\ producer = "closed" /\ preparedCh = <<>>
    /\ main' = "returned"
    /\ UNCHANGED <<mainRest, aborted, failCount, hostVars, preparedCh, current, todo, reported>>

\* Mutant: specs that were not generated are tested all the same.
NextTest_NoSkip ==
    /\ Alive /\ main = "next" /\ todo # <<>> /\ ~Interrupted
    /\ main' = "testing" /\ UNCHANGED todo
    /\ UNCHANGED <<mainRest, aborted, failCount, hostVars, preparedCh, current, reported>>

NextTest ==
    /\ Alive /\ main = "next" /\ todo # <<>> /\ ~Interrupted
    /\ IF Head(todo) \in prepared[current].failed
       THEN todo' = Tail(todo) /\ UNCHANGED main
       ELSE main' = "testing" /\ UNCHANGED todo
    /\ UNCHANGED <<mainRest, aborted, failCount, hostVars, preparedCh, current, reported>>

\* TestService answers, or panics itself, which counts as one failure.
FinishTest ==
    /\ Alive /\ main = "testing"
    /\ \E n \in 0..Endpoints : Report({Head(todo)}, n)
    /\ todo' = Tail(todo) /\ main' = "next"
    /\ UNCHANGED <<mainRest, hostVars, preparedCh, current>>

\* A route's test panics on a goroutine of its own, where nothing recovers it.
PanicInTest ==
    /\ Alive /\ main = "testing"
    /\ crashed' = TRUE
    /\ UNCHANGED <<setupVars, abortVars, producer, next, buildVars, hostVars, preparedCh,
                   mainVars>>

\* The batch is through, or the run is over: its server and binary go.
StopBatch ==
    /\ Alive /\ main = "next" /\ (todo = <<>> \/ Interrupted)
    /\ aborted' = (aborted \/ todo # <<>>)
    /\ Discard(current)
    /\ main' = "receive" /\ current' = 0 /\ todo' = <<>>
    /\ UNCHANGED <<mainRest, failCount, preparedCh, reported>>

-----------------------------------------------------------------------------
Produce  == NextBatch \/ Acquire \/ CloseChannel
Prepare(b) == SetUp(b) \/ Build(b) \/ Launch(b) \/ AwaitHealth(b) \/ Panic(b)
Receive(b) == ReceiveAborted(b) \/ ReceiveError(b) \/ ReceiveReady(b)
Split    == PlaceSpec \/ StartRun
Test     == NextTest \/ FinishTest \/ PanicInTest \/ StopBatch

Next ==
    \/ Interrupt
    \/ Split
    \/ Produce
    \/ \E b \in Slots : StartBuilder(b) \/ TimeOut(b) \/ Send(b)
    \/ \E b \in Slots : Prepare(b)
    \/ \E b \in Slots : Receive(b)
    \/ SeeInterrupt \/ SeeClosed
    \/ Test

Spec == Init /\ [][Next]_vars

\* Goroutines run when they can, the timer of a batch fires and tests end;
\* prepareBatch may hang.
FairSpec ==
    /\ Spec
    /\ WF_vars(Produce)
    /\ \A b \in Slots : WF_vars(StartBuilder(b) \/ TimeOut(b) \/ Send(b))
    /\ WF_vars((\E b \in Slots : Receive(b)) \/ SeeInterrupt \/ SeeClosed \/ Split \/ Test)

-----------------------------------------------------------------------------
(* Properties                                                              *)

TypeOK ==
    /\ sizes \in Corpora /\ batches \in Seq(Seq(specs)) /\ packed \in 0..Len(sizes)
    /\ concurrency \in Concurrencies
    /\ <<interrupt, aborted, crashed>> \in BOOLEAN \X BOOLEAN \X BOOLEAN /\ failCount \in Nat
    /\ producer \in {"none", "check", "acquire", "wait", "closed"} /\ next \in 1..(Len(batches) + 1)
    /\ builder \in [Slots -> {"none", "start", "wait", "send", "done"}]
    /\ prep \in [Slots -> {"none", "setup", "build", "launch", "health", "over"}]
    /\ prepared \in [Slots -> [error : BOOLEAN, failed : SUBSET specs, built : BOOLEAN]]
    /\ timedOut \subseteq Slots /\ binaries \subseteq Slots /\ servers \subseteq binaries
    /\ preparedCh \in Seq(Slots) /\ Len(preparedCh) <= concurrency
    /\ main \in {"split", "receive", "next", "testing", "returned"}
    /\ current \in Slots \cup {0} /\ todo \in Seq(specs)
    /\ reported \in [specs -> Nat]

\* No spec's result is reported twice, whatever fails, panics or times out,
\* and a run that was not aborted has reported every spec of the corpus
\* (pipeline.go 276-421).
ReportedOnce ==
    \A i \in specs :
        /\ reported[i] <= 1
        /\ main = "returned" /\ ~aborted => reported[i] = 1

\* A run that was not interrupted stops every server it started and removes
\* every binary (pipeline.go 263-272, 397-406), except for batches it stopped
\* waiting for and, of the binaries, for batches that failed after the build.
NothingLeft ==
    main = "returned" /\ ~interrupt =>
        /\ servers \subseteq timedOut
        /\ \A b \in binaries : b \in timedOut \/ prepared[b].error

\* RunPipeline returns (pipeline.go 235-421), even if a preparation never
\* ends, whenever it is interrupted or has failures enough, and whatever fails.
RunReturns == <>(main = "returned" \/ crashed)
=============================================================================
