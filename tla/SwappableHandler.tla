-------------------------- MODULE SwappableHandler --------------------------
(***************************************************************************)
(* Portable mode's hot-swappable service handler: swappableHandler in      *)
(* internal/portable/handler.go, the reload path that drives its swap      *)
(* (watchServices' debounce timer and reloadService, internal/portable/    *)
(* watcher.go) and the startup goroutine that waits for the validator      *)
(* (registerService, internal/portable/runner.go).  One service.           *)
(*                                                                         *)
(* A spec is its version number: 0 is the file the process booted with and *)
(* every edit of the file makes the next one.  A handler or a validator is *)
(* the version of the spec it was built from.  buildFn always closes over  *)
(* the handler stored with it, so it is that handler's version too and     *)
(* needs no variable.                                                      *)
(*                                                                         *)
(* The n-th swap makes the n-th buildDone channel, so `done' is both the   *)
(* number of swaps and the identity of the current channel, and a builder  *)
(* goroutine is named by the value of `done' when its compare-and-swap     *)
(* succeeded: between two swaps at most one can succeed.                   *)
(***************************************************************************)
EXTENDS Naturals, FiniteSets

CONSTANTS
    Requests,    \* goroutines serving requests that want validation
    Waiters,     \* goroutines in WaitForValidator (the eager startup build)
    Reloaders,   \* debounce-timer callbacks that may run at the same time
    MaxEdits,    \* bound on the edits of the spec file
    Unparsable,  \* spec versions buildHandler refuses
    NoBuild,     \* spec versions buildValidator fails on
    Nil          \* no validator; nobody announced as writer

ASSUME SwappableHandlerAssumption ==
    /\ MaxEdits \in Nat
    /\ Unparsable \subseteq Nat \ {0}   \* registerService refuses to boot one
    /\ NoBuild \subseteq Nat
    /\ Nil \notin Nat
    /\ Nil \notin Reloaders
    /\ Reloaders \cap Nat = {}
    /\ Requests \cap Waiters = {}

VARIABLES
    disk,         \* version of the spec file
    events,       \* file events fsnotify has not delivered
    pending,      \* watchServices' pending[service]
    timer,        \* the debounce timer is running
    rpc,          \* where each timer callback is
    rspec,        \* reloadService's h
    rvalidator,   \* reloadService's v
    late,         \* history: a validator was stored since a reload looked for one
    handler,      \* s.handler (and s.buildFn)
    validator,    \* s.validator
    buildStarted, \* s.buildStarted
    done,         \* s.buildDone
    newest,       \* history: the newest version that was ever swapped in
    closes,       \* how often each channel was closed
    builders,     \* the builder goroutine started after each swap
    pc,           \* where each request and each waiter is
    epoch,        \* the builder a caller's compare-and-swap entitles it to
    chan,         \* the channel a waiter parks on
    result,       \* what WaitForValidator returned
    readers,      \* requests holding the read lock
    waiting,      \* requests queued behind an announced writer
    writer,       \* the writer that announced itself on s.mu, or Nil
    panicked      \* close of a closed channel: the process is dead

reloadVars == <<disk, events, pending, timer, rpc, rspec, rvalidator, late>>
swapVars   == <<handler, validator, buildStarted, done, newest>>
buildVars  == <<closes, builders>>
callVars   == <<pc, epoch, chan, result>>
lockVars   == <<readers, waiting, writer>>
vars == <<reloadVars, swapVars, buildVars, callVars, lockVars, panicked>>

Callers == Requests \cup Waiters
Specs   == 0..MaxEdits
Epochs  == 0..done

ReloadPC  == {"idle", "fired", "load", "fallback", "lock", "swap"}
BuildPC   == {"none", "build", "set", "setting", "close", "exited"}
CallerPC  == {"idle", "cas", "launch", "after", "serve", "serving",
              "park", "returned"}
NoBuilder == [phase |-> "none", spec |-> 0, chan |-> 0]
Builder   == [phase : BuildPC, spec : Specs, chan : Epochs]

ReloadType ==
    /\ disk \in Specs /\ events \in Nat
    /\ pending \in BOOLEAN /\ timer \in BOOLEAN
    /\ rpc \in [Reloaders -> ReloadPC]
    /\ rspec \in [Reloaders -> Specs]
    /\ rvalidator \in [Reloaders -> Specs \cup {Nil}]
    /\ late \in [Reloaders -> BOOLEAN]
SwapType ==
    /\ handler \in Specs
    /\ validator \in Specs \cup {Nil}
    /\ buildStarted \in BOOLEAN
    /\ done \in Nat
    /\ newest \in Specs
BuildType ==
    /\ closes \in [Epochs -> {0, 1}]
    /\ builders \in [Epochs -> Builder]
CallType ==
    /\ pc \in [Callers -> CallerPC]
    /\ epoch \in [Callers -> Epochs]
    /\ chan \in [Callers -> Epochs]
    /\ result \in [Waiters -> Specs \cup {Nil}]
LockType ==
    /\ readers \in SUBSET Requests
    /\ waiting \in SUBSET Requests
    /\ writer \in Reloaders \cup Epochs \cup {Nil}

TypeOK ==
    /\ ReloadType /\ SwapType /\ BuildType /\ CallType /\ LockType
    /\ panicked \in BOOLEAN

Init ==
    /\ disk = 0 /\ events = 0 /\ pending = FALSE /\ timer = FALSE
    /\ rpc = [r \in Reloaders |-> "idle"]
    /\ rspec = [r \in Reloaders |-> 0]
    /\ rvalidator = [r \in Reloaders |-> Nil] /\ late = [r \in Reloaders |-> FALSE]
    /\ handler = 0 /\ validator = Nil /\ buildStarted = FALSE /\ done = 0 /\ newest = 0
    /\ closes = [c \in {0} |-> 0]
    /\ builders = [e \in {0} |-> NoBuilder]
    /\ pc = [c \in Callers |-> "idle"]
    /\ epoch = [c \in Callers |-> 0]
    /\ chan = [c \in Callers |-> 0]
    /\ result = [w \in Waiters |-> Nil]
    /\ readers = {} /\ waiting = {} /\ writer = Nil
    /\ panicked = FALSE

-----------------------------------------------------------------------------
(* sync.RWMutex.  A writer announces itself, which keeps new readers out,  *)
(* then waits for the readers inside; its release admits the readers that  *)
(* queued meanwhile.  The critical sections that only load or store fields *)
(* are one step, enabled when no writer is announced; the one that spans a *)
(* request is modelled with `readers'.                                     *)

\* Mutant: readers overtake an announced writer.
CanRead_Overtaking == TRUE

CanRead == writer = Nil

Announce(w) ==
    /\ writer = Nil
    /\ writer' = w
    /\ UNCHANGED <<readers, waiting>>

CanWrite(w) == writer = w /\ readers = {}

ReleaseWrite ==
    /\ writer' = Nil
    /\ readers' = waiting
    /\ waiting' = {}

\* A panic in any goroutine ends the process.
Alive == ~panicked

Goto(c, where) == pc' = [pc EXCEPT ![c] = where]

-----------------------------------------------------------------------------
(* Requests (EnsureValidator, handleRequest) and waiters (WaitForValidator) *)

\* s.Validator() at the head of EnsureValidator and WaitForValidator.
ReadValidator(c) ==
    /\ Alive /\ pc[c] = "idle" /\ CanRead
    /\ \/ /\ validator = Nil
          /\ Goto(c, "cas")
          /\ UNCHANGED result
       \/ /\ validator # Nil /\ c \in Requests
          /\ Goto(c, "serve")
          /\ UNCHANGED result
       \/ /\ validator # Nil /\ c \in Waiters
          /\ Goto(c, "returned")
          /\ result' = [result EXCEPT ![c] = validator]
    /\ UNCHANGED <<reloadVars, swapVars, buildVars, epoch, chan, lockVars, panicked>>

\* Mutant: the flag is set but not tested.
TryStartBuild_NoTest(c) ==
    /\ Alive /\ pc[c] = "cas"
    /\ buildStarted' = TRUE
    /\ epoch' = [epoch EXCEPT ![c] = done]
    /\ Goto(c, "launch")
    /\ UNCHANGED <<reloadVars, handler, validator, done, newest, buildVars, chan, result,
                   lockVars, panicked>>

\* startBuild's CompareAndSwap, taken without s.mu.
TryStartBuild(c) ==
    /\ Alive /\ pc[c] = "cas"
    /\ \/ /\ buildStarted
          /\ Goto(c, "after")
          /\ UNCHANGED <<buildStarted, epoch>>
       \/ /\ ~buildStarted
          /\ buildStarted' = TRUE
          /\ epoch' = [epoch EXCEPT ![c] = done]
          /\ Goto(c, "launch")
    /\ UNCHANGED <<reloadVars, handler, validator, done, newest, buildVars, chan, result,
                   lockVars, panicked>>

\* startBuild reads buildFn and buildDone, whatever they are by now, and
\* starts the builder goroutine on them.
LaunchBuild(c) ==
    /\ Alive /\ pc[c] = "launch" /\ CanRead
    /\ builders' = [builders EXCEPT
                      ![epoch[c]] = [phase |-> "build", spec |-> handler, chan |-> done]]
    /\ Goto(c, "after")
    /\ UNCHANGED <<reloadVars, swapVars, closes, epoch, chan, result, lockVars, panicked>>

\* Mutant: the request waits for the build, as WaitForValidator does.
ProceedAfterEnsure_Blocking(r) ==
    /\ Alive /\ r \in Requests /\ pc[r] = "after" /\ CanRead
    /\ closes[done] > 0
    /\ Goto(r, "serve")
    /\ UNCHANGED <<reloadVars, swapVars, buildVars, epoch, chan, result, lockVars, panicked>>

\* EnsureValidator's second s.Validator(): nil or not, the request goes on.
ProceedAfterEnsure(r) ==
    /\ Alive /\ r \in Requests /\ pc[r] = "after" /\ CanRead
    /\ Goto(r, "serve")
    /\ UNCHANGED <<reloadVars, swapVars, buildVars, epoch, chan, result, lockVars, panicked>>

\* handleRequest's RLock: granted at once, or queued behind a writer.
EnterHandle(r) ==
    /\ Alive /\ r \in Requests /\ pc[r] = "serve"
    /\ Goto(r, "serving")
    /\ \/ CanRead /\ readers' = readers \cup {r} /\ UNCHANGED waiting
       \/ ~CanRead /\ waiting' = waiting \cup {r} /\ UNCHANGED readers
    /\ UNCHANGED <<reloadVars, swapVars, buildVars, epoch, chan, result, writer, panicked>>

\* handleRequest has answered from s.handler and releases the read lock.
LeaveHandle(r) ==
    /\ Alive /\ pc[r] = "serving" /\ r \in readers
    /\ readers' = readers \ {r}
    /\ Goto(r, "idle")
    /\ UNCHANGED <<reloadVars, swapVars, buildVars, epoch, chan, result, waiting, writer,
                   panicked>>

\* WaitForValidator reads buildDone once startBuild has returned.
ReadDone(w) ==
    /\ Alive /\ w \in Waiters /\ pc[w] = "after" /\ CanRead
    /\ chan' = [chan EXCEPT ![w] = done]
    /\ Goto(w, "park")
    /\ UNCHANGED <<reloadVars, swapVars, buildVars, epoch, result, lockVars, panicked>>

\* <-done, then s.Validator().
WakeUp(w) ==
    /\ Alive /\ pc[w] = "park" /\ closes[chan[w]] > 0 /\ CanRead
    /\ result' = [result EXCEPT ![w] = validator]
    /\ Goto(w, "returned")
    /\ UNCHANGED <<reloadVars, swapVars, buildVars, epoch, chan, lockVars, panicked>>

-----------------------------------------------------------------------------
(* The builder goroutine: build(), setValidator on success, close(done).   *)

Phase(e, p) == builders' = [builders EXCEPT ![e].phase = p]

\* Mutant: the validator is built and dropped.
BuildReturns_Dropped(e) ==
    /\ Alive /\ builders[e].phase = "build"
    /\ Phase(e, "close")
    /\ UNCHANGED <<reloadVars, swapVars, closes, callVars, lockVars, panicked>>

BuildReturns(e) ==
    /\ Alive /\ builders[e].phase = "build"
    /\ Phase(e, IF builders[e].spec \in NoBuild THEN "close" ELSE "set")
    /\ UNCHANGED <<reloadVars, swapVars, closes, callVars, lockVars, panicked>>

LockSetValidator(e) ==
    /\ Alive /\ builders[e].phase = "set"
    /\ Announce(e)
    /\ Phase(e, "setting")
    /\ UNCHANGED <<reloadVars, swapVars, closes, callVars, panicked>>

SetValidator(e) ==
    /\ Alive /\ builders[e].phase = "setting" /\ CanWrite(e)
    /\ validator' = builders[e].spec
    /\ late' = [r \in Reloaders |-> TRUE]
    /\ ReleaseWrite
    /\ Phase(e, "close")
    /\ UNCHANGED <<disk, events, pending, timer, rpc, rspec, rvalidator, handler, buildStarted,
                   done, newest, closes, callVars, panicked>>

\* Mutant: the builder exits without closing its channel.
CloseDone_Forgotten(e) ==
    /\ Alive /\ builders[e].phase = "close"
    /\ Phase(e, "exited")
    /\ UNCHANGED <<reloadVars, swapVars, closes, callVars, lockVars, panicked>>

\* Mutant: closing a closed channel is taken for a no-op that still counts.
CloseDone_Counting(e) ==
    /\ Alive /\ builders[e].phase = "close"
    /\ Phase(e, "exited")
    /\ closes' = [closes EXCEPT ![builders[e].chan] = @ + 1]
    /\ UNCHANGED <<reloadVars, swapVars, callVars, lockVars, panicked>>

CloseDone(e) ==
    LET c == builders[e].chan IN
    /\ Alive /\ builders[e].phase = "close"
    /\ Phase(e, "exited")
    /\ \/ closes[c] = 0 /\ closes' = [closes EXCEPT ![c] = 1] /\ UNCHANGED panicked
       \/ closes[c] = 1 /\ panicked' = TRUE /\ UNCHANGED closes
    /\ UNCHANGED <<reloadVars, swapVars, callVars, lockVars>>

-----------------------------------------------------------------------------
(* Editor, file watcher, debounce timer                                    *)

EditSpec ==
    /\ Alive /\ disk < MaxEdits /\ Reloaders # {}
    /\ disk' = disk + 1
    /\ events' = events + 1
    /\ UNCHANGED <<pending, timer, rpc, rspec, rvalidator, late, swapVars, buildVars, callVars,
                   lockVars, panicked>>

\* Mutant: events that arrive during a reload are dropped.
HandleEvent_IdleOnly ==
    /\ Alive /\ events > 0
    /\ events' = events - 1
    /\ IF \A r \in Reloaders : rpc[r] = "idle"
       THEN pending' = TRUE /\ timer' = TRUE
       ELSE UNCHANGED <<pending, timer>>
    /\ UNCHANGED <<disk, rpc, rspec, rvalidator, late, swapVars, buildVars, callVars, lockVars,
                   panicked>>

\* The event loop marks the service and re-arms the timer.
HandleEvent ==
    /\ Alive /\ events > 0
    /\ events' = events - 1
    /\ pending' = TRUE /\ timer' = TRUE
    /\ UNCHANGED <<disk, rpc, rspec, rvalidator, late, swapVars, buildVars, callVars, lockVars,
                   panicked>>

\* The timer goes off on a goroutine of its own; Stop cannot recall it.
TimerFires(r) ==
    /\ Alive /\ timer /\ rpc[r] = "idle"
    /\ timer' = FALSE
    /\ rpc' = [rpc EXCEPT ![r] = "fired"]
    /\ UNCHANGED <<disk, events, pending, rspec, rvalidator, late, swapVars, buildVars, callVars,
                   lockVars, panicked>>

\* The callback takes the pending set; it may find it already taken.
TakePending(r) ==
    /\ Alive /\ rpc[r] = "fired"
    /\ pending' = FALSE
    /\ rpc' = [rpc EXCEPT ![r] = IF pending THEN "load" ELSE "idle"]
    /\ UNCHANGED <<disk, events, timer, rspec, rvalidator, late, swapVars, buildVars, callVars,
                   lockVars, panicked>>

(* reloadService *)

\* buildHandler reads the file; buildValidator then works on what it read.
LoadSpec(r) ==
    /\ Alive /\ rpc[r] = "load"
    /\ \/ /\ disk \in Unparsable
          /\ rpc' = [rpc EXCEPT ![r] = "idle"]
          /\ UNCHANGED <<rspec, rvalidator>>
       \/ /\ disk \notin Unparsable
          /\ rspec' = [rspec EXCEPT ![r] = disk]
          /\ \/ /\ disk \in NoBuild
                /\ rpc' = [rpc EXCEPT ![r] = "fallback"]
                /\ UNCHANGED rvalidator
             \/ /\ disk \notin NoBuild
                /\ rpc' = [rpc EXCEPT ![r] = "lock"]
                /\ rvalidator' = [rvalidator EXCEPT ![r] = disk]
    /\ UNCHANGED <<disk, events, pending, timer, late, swapVars, buildVars, callVars, lockVars,
                   panicked>>

\* Mutant: the failed build's empty result is swapped in.
KeepValidator_Forgotten(r) ==
    /\ Alive /\ rpc[r] = "fallback" /\ CanRead
    /\ rvalidator' = [rvalidator EXCEPT ![r] = Nil]
    /\ late' = [late EXCEPT ![r] = FALSE]
    /\ rpc' = [rpc EXCEPT ![r] = "lock"]
    /\ UNCHANGED <<disk, events, pending, timer, rspec, swapVars, buildVars, callVars,
                   lockVars, panicked>>

\* v = sw.Validator(): keep what is there when the new spec has no validator.
KeepValidator(r) ==
    /\ Alive /\ rpc[r] = "fallback" /\ CanRead
    /\ rvalidator' = [rvalidator EXCEPT ![r] = validator]
    /\ late' = [late EXCEPT ![r] = FALSE]
    /\ rpc' = [rpc EXCEPT ![r] = "lock"]
    /\ UNCHANGED <<disk, events, pending, timer, rspec, swapVars, buildVars, callVars,
                   lockVars, panicked>>

LockSwap(r) ==
    /\ Alive /\ rpc[r] = "lock"
    /\ Announce(r)
    /\ rpc' = [rpc EXCEPT ![r] = "swap"]
    /\ UNCHANGED <<disk, events, pending, timer, rspec, rvalidator, late, swapVars, buildVars,
                   callVars, panicked>>

\* swap resets the build guard and makes a channel for the next build.
ResetBuild ==
    /\ buildStarted' = FALSE
    /\ done' = done + 1
    /\ closes' = [c \in 0..(done + 1) |-> IF c = done + 1 THEN 0 ELSE closes[c]]
    /\ builders' = [e \in 0..(done + 1) |-> IF e = done + 1 THEN NoBuilder ELSE builders[e]]

Swap(r) ==
    /\ Alive /\ rpc[r] = "swap" /\ CanWrite(r)
    /\ handler' = rspec[r]
    /\ validator' = rvalidator[r]
    /\ late' = [q \in Reloaders |-> late[q] \/ rvalidator[r] # Nil]
    /\ newest' = IF rspec[r] > newest THEN rspec[r] ELSE newest
    /\ ResetBuild
    /\ ReleaseWrite
    /\ rpc' = [rpc EXCEPT ![r] = "idle"]
    /\ UNCHANGED <<disk, events, pending, timer, rspec, rvalidator, callVars, panicked>>

-----------------------------------------------------------------------------
CallerStep(c) ==
    \/ ReadValidator(c) \/ TryStartBuild(c) \/ LaunchBuild(c)
    \/ ProceedAfterEnsure(c) \/ EnterHandle(c) \/ LeaveHandle(c)
    \/ ReadDone(c) \/ WakeUp(c)

BuilderStep(e)  == BuildReturns(e) \/ LockSetValidator(e) \/ SetValidator(e) \/ CloseDone(e)
WatcherStep     == HandleEvent \/ \E r \in Reloaders : TimerFires(r)
ReloaderStep(r) == TakePending(r) \/ LoadSpec(r) \/ KeepValidator(r) \/ LockSwap(r) \/ Swap(r)

Next ==
    \/ \E c \in Callers : CallerStep(c)
    \/ \E e \in Epochs : BuilderStep(e)
    \/ EditSpec
    \/ WatcherStep
    \/ \E r \in Reloaders : ReloaderStep(r)

Spec == Init /\ [][Next]_vars

(* Goroutines are scheduled: a step that stays enabled happens, except an  *)
(* edit.  Weak fairness is enough for the steps that compete for s.mu,     *)
(* because only a swap or a builder writes and both are bounded by the     *)
(* edits.  LeaveHandle is fair because generation ends and the server's    *)
(* WriteTimeout bounds the writes.                                         *)
ProgressFairness ==
    /\ \A c \in Callers : WF_vars(CallerStep(c))
    /\ \A e \in Specs :
         WF_vars(/\ e \in Epochs
                 /\ (LockSetValidator(e) \/ SetValidator(e) \/ CloseDone(e)))
    /\ WF_vars(WatcherStep)
    /\ \A r \in Reloaders : WF_vars(ReloaderStep(r))

\* Nothing is assumed of how long build() takes.
FairSpec == Spec /\ ProgressFairness

\* Every build() returns.  Not part of FairSpec: WaiterReturns assumes it.
BuildsReturn == \A e \in Specs : WF_vars(e \in Epochs /\ BuildReturns(e))

-----------------------------------------------------------------------------
(* Properties                                                              *)

\* No channel is closed twice: one builder per channel, which is what the
\* compare-and-swap in startBuild is there for (handler.go 157-160).
NoPanic == ~panicked

\* What the code does keep of NoPanic: whatever edits, timers and callbacks
\* are under way, it takes a completed swap to give one channel two builders
\* (handler.go 218-227).
PanicNeedsSwap == done = 0 => NoPanic

\* Until the first swap, WaitForValidator comes back empty-handed only when
\* the build failed (handler.go 189-191): the validator is stored before the
\* channel closes, and nobody else closes it.
WaiterGetsValidator ==
    done = 0 => \A w \in Waiters :
                   pc[w] = "returned" /\ result[w] = Nil => handler \in NoBuild

\* A reload whose specification has no validator keeps the one that is there
\* (watcher.go 276-278).  It looks for it outside the lock that swap takes, so
\* all it can lose is one that a builder or another reload has stored between
\* its look and its swap: none that was there when it looked.
KeepsValidator ==
    [][validator # Nil /\ validator' = Nil =>
          \E r \in Reloaders : rpc[r] = "swap" /\ rpc'[r] = "idle" /\ late[r]]_vars

\* Once no event, timer or callback is left, the file on disk is what is
\* served, unless it does not parse (docs/usage/portable.md 292-294).  All that
\* can leave an older one there is a callback that was overtaken: the file on
\* disk had been swapped in when it swapped (watcher.go 103).  No edit goes
\* unloaded, also after such an inversion.
QuiescentFresh ==
    /\ events = 0 /\ ~timer
    /\ \A r \in Reloaders : rpc[r] = "idle"
    => \/ handler = disk \/ disk \in Unparsable
       \/ handler < newest /\ newest = disk

\* A request is answered however long the validator build takes
\* (EnsureValidator never blocks, handler.go 174-180) and although reloads
\* write under the lock it reads.
RequestNeverHangs ==
    \A r \in Requests : pc[r] # "idle" ~> (pc[r] = "idle" \/ panicked)

\* A reload gets the write lock although requests keep coming.
ReloadCompletes ==
    \A r \in Reloaders : rpc[r] # "idle" ~> (rpc[r] = "idle" \/ panicked)

\* WaitForValidator returns once the build it started or found has finished
\* (handler.go 189-191), if builds finish and no swap replaces the channel
\* while it is on its way there.
WaiterReturns ==
    BuildsReturn =>
        \A w \in Waiters : pc[w] = "cas" ~> (pc[w] = "returned" \/ panicked \/ done > 0)
=============================================================================
