---------------------- MODULE SwappableHandler_proofs ----------------------
(***************************************************************************)
(* Proofs about SwappableHandler, for any number of requests, waiters and  *)
(* reloaders, any number of edits and any sets of bad specs.               *)
(***************************************************************************)
EXTENDS SwappableHandler, TLAPS

(* Frames: a part of the state that a step leaves alone keeps its type.    *)

LEMMA ReloadFrame == ReloadType /\ UNCHANGED reloadVars => ReloadType'
  BY DEF ReloadType, reloadVars

LEMMA SwapFrame == SwapType /\ UNCHANGED swapVars => SwapType'
  BY DEF SwapType, swapVars

LEMMA BuildFrame == BuildType /\ UNCHANGED <<buildVars, done>> => BuildType'
  BY DEF BuildType, buildVars, Epochs, Builder

LEMMA CallFrame == CallType /\ UNCHANGED <<callVars, done>> => CallType'
  BY DEF CallType, callVars, Epochs

LEMMA LockFrame == LockType /\ UNCHANGED <<lockVars, done>> => LockType'
  BY DEF LockType, lockVars, Epochs

LEMMA InitTypeOK == Init => TypeOK
<1> SUFFICES ASSUME Init PROVE TypeOK
  OBVIOUS
<1> USE SwappableHandlerAssumption DEF SwappableHandlerAssumption, Init, Specs
<1>1. Epochs = {0}
  BY DEF Epochs
<1>2. /\ pending \in BOOLEAN /\ timer \in BOOLEAN /\ buildStarted \in BOOLEAN
      /\ late \in [Reloaders -> BOOLEAN]
  OBVIOUS
<1>9. 0 \in Specs /\ newest \in Specs
  OBVIOUS
<1>3. ReloadType /\ SwapType
  BY <1>2, <1>9 DEF ReloadType, ReloadPC, SwapType
<1>4. BuildType
  BY <1>1 DEF BuildType, BuildPC, NoBuilder, Builder
<1>5. CallType
  BY <1>1 DEF CallType, CallerPC
<1>6. LockType
  BY <1>1 DEF LockType
<1> QED BY <1>3, <1>4, <1>5, <1>6 DEF TypeOK

\* Every step of a caller keeps the types.
LEMMA CallerTypeOK ==
  ASSUME TypeOK, NEW c \in Callers, CallerStep(c)
  PROVE  TypeOK'
<1> USE ReloadFrame, SwapFrame, BuildFrame, CallFrame, LockFrame
        DEF TypeOK, Goto, swapVars
<1>1. CASE ReadValidator(c)
  <2>1. CallType'
    BY <1>1 DEF ReadValidator, CallType, SwapType, CallerPC, Epochs
  <2> QED BY <1>1, <2>1 DEF ReadValidator
<1>2. CASE TryStartBuild(c)
  <2>1. CallType'
    BY <1>2 DEF TryStartBuild, CallType, SwapType, CallerPC, Epochs
  <2>2. SwapType'
    BY <1>2 DEF TryStartBuild, SwapType
  <2> QED BY <1>2, <2>1, <2>2 DEF TryStartBuild
<1>3. CASE LaunchBuild(c)
  <2>1. CallType'
    BY <1>3 DEF LaunchBuild, CallType, CallerPC, Epochs
  <2>2. BuildType'
    <3>1. [phase |-> "build", spec |-> handler, chan |-> done] \in Builder
      BY DEF SwapType, Builder, BuildPC, Epochs
    <3>2. builders' \in [Epochs -> Builder] /\ Epochs' = Epochs /\ Builder' = Builder
      BY <1>3, <3>1 DEF LaunchBuild, BuildType, Epochs, Builder
    <3> QED BY <1>3, <3>2 DEF LaunchBuild, BuildType
  <2> QED BY <1>3, <2>1, <2>2 DEF LaunchBuild
<1>4. CASE ProceedAfterEnsure(c)
  <2>1. CallType'
    BY <1>4 DEF ProceedAfterEnsure, CallType, CallerPC, Epochs
  <2> QED BY <1>4, <2>1 DEF ProceedAfterEnsure
<1>5. CASE EnterHandle(c)
  <2>1. CallType'
    BY <1>5 DEF EnterHandle, CallType, CallerPC, Epochs
  <2>2. LockType'
    BY <1>5 DEF EnterHandle, LockType, Epochs
  <2> QED BY <1>5, <2>1, <2>2 DEF EnterHandle
<1>6. CASE LeaveHandle(c)
  <2>1. CallType'
    BY <1>6 DEF LeaveHandle, CallType, CallerPC, Epochs
  <2>2. LockType'
    BY <1>6 DEF LeaveHandle, LockType, Epochs
  <2> QED BY <1>6, <2>1, <2>2 DEF LeaveHandle
<1>7. CASE ReadDone(c)
  <2>1. CallType'
    BY <1>7 DEF ReadDone, CallType, SwapType, CallerPC, Epochs
  <2> QED BY <1>7, <2>1 DEF ReadDone
<1>8. CASE WakeUp(c)
  <2>1. CallType'
    BY <1>8 DEF WakeUp, CallType, SwapType, CallerPC, Epochs
  <2> QED BY <1>8, <2>1 DEF WakeUp
<1> QED BY <1>1, <1>2, <1>3, <1>4, <1>5, <1>6, <1>7, <1>8 DEF CallerStep

\* A change of phase keeps the builders' types.
LEMMA PhaseType ==
  ASSUME BuildType, NEW e \in Epochs, NEW p \in BuildPC, Phase(e, p)
  PROVE  builders' \in [Epochs -> Builder]
<1>1. [builders[e] EXCEPT !.phase = p] \in Builder
  BY DEF BuildType, Builder
<1>2. builders' = [builders EXCEPT ![e] = [builders[e] EXCEPT !.phase = p]]
  BY DEF Phase
<1> QED BY <1>1, <1>2 DEF BuildType

\* Every step of a builder keeps the types.
LEMMA BuilderTypeOK ==
  ASSUME TypeOK, NEW e \in Epochs, BuilderStep(e)
  PROVE  TypeOK'
<1> USE ReloadFrame, SwapFrame, CallFrame, LockFrame DEF TypeOK, swapVars
<1>1. done' = done /\ Epochs' = Epochs /\ Builder' = Builder
  BY DEF Epochs, Builder, BuilderStep, BuildReturns, LockSetValidator, SetValidator, CloseDone
<1>2. builders' \in [Epochs -> Builder]
  <2>1. \E p \in BuildPC : Phase(e, p)
    BY DEF BuilderStep, BuildReturns, LockSetValidator, SetValidator, CloseDone, BuildPC
  <2> QED BY <2>1, PhaseType
<1>3. builders[e] \in Builder
  BY DEF BuildType
<1>4. CASE BuildReturns(e)
  BY <1>1, <1>2, <1>4 DEF BuildReturns, BuildType
<1>5. CASE LockSetValidator(e)
  <2>1. LockType'
    BY <1>1, <1>5 DEF LockSetValidator, Announce, LockType
  <2> QED BY <1>1, <1>2, <1>5, <2>1 DEF LockSetValidator, BuildType
<1>6. CASE SetValidator(e)
  <2>1. LockType'
    BY <1>1, <1>6 DEF SetValidator, ReleaseWrite, LockType
  <2>2. SwapType'
    BY <1>3, <1>6 DEF SetValidator, SwapType, Builder
  <2>3. ReloadType'
    BY <1>6 DEF SetValidator, ReloadType
  <2> QED BY <1>1, <1>2, <1>6, <2>1, <2>2, <2>3 DEF SetValidator, BuildType
<1>7. CASE CloseDone(e)
  <2>1. BuildType'
    BY <1>1, <1>2, <1>3, <1>7 DEF CloseDone, BuildType, Builder
  <2> QED BY <1>1, <1>7, <2>1 DEF CloseDone
<1> QED BY <1>4, <1>5, <1>6, <1>7 DEF BuilderStep

\* Every step of the editor, the watcher or a reload keeps the types.
LEMMA ReloadTypeOK ==
  ASSUME TypeOK, EditSpec \/ WatcherStep \/ \E r \in Reloaders : ReloaderStep(r)
  PROVE  TypeOK'
<1> USE SwapFrame, BuildFrame, CallFrame, LockFrame DEF TypeOK
<1>1. CASE EditSpec
  <2>1. ReloadType'
    BY <1>1, SwappableHandlerAssumption
       DEF EditSpec, ReloadType, Specs, SwappableHandlerAssumption
  <2> QED BY <1>1, <2>1 DEF EditSpec, swapVars
<1>2. CASE HandleEvent
  <2>1. ReloadType'
    BY <1>2 DEF HandleEvent, ReloadType
  <2> QED BY <1>2, <2>1 DEF HandleEvent, swapVars
<1>3. ASSUME NEW r \in Reloaders, TimerFires(r) PROVE TypeOK'
  <2>1. ReloadType'
    BY <1>3 DEF TimerFires, ReloadType, ReloadPC
  <2> QED BY <1>3, <2>1 DEF TimerFires, swapVars
<1>4. ASSUME NEW r \in Reloaders, ReloaderStep(r) PROVE TypeOK'
  <2>1. CASE TakePending(r)
    <3>1. ReloadType'
      BY <2>1 DEF TakePending, ReloadType, ReloadPC
    <3> QED BY <2>1, <3>1 DEF TakePending, swapVars
  <2>2. CASE LoadSpec(r)
    <3>1. ReloadType'
      BY <2>2 DEF LoadSpec, ReloadType, ReloadPC
    <3> QED BY <2>2, <3>1 DEF LoadSpec, swapVars
  <2>3. CASE KeepValidator(r)
    <3>1. ReloadType'
      BY <2>3 DEF KeepValidator, ReloadType, SwapType, ReloadPC
    <3> QED BY <2>3, <3>1 DEF KeepValidator, swapVars
  <2>4. CASE LockSwap(r)
    <3>1. ReloadType'
      BY <2>4 DEF LockSwap, ReloadType, ReloadPC
    <3>2. LockType'
      BY <2>4 DEF LockSwap, Announce, LockType, Epochs, swapVars
    <3> QED BY <2>4, <3>1, <3>2 DEF LockSwap, swapVars
  <2>5. CASE Swap(r)
    <3> USE <2>5 DEF Swap, ResetBuild, ReleaseWrite
    <3>1. ReloadType'
      <4>1. late' \in [Reloaders -> BOOLEAN]
        OBVIOUS
      <4> QED BY <4>1 DEF ReloadType, ReloadPC
    <3>2. SwapType'
      <4>1. done' \in Nat
        BY DEF SwapType
      <4>3. buildStarted' \in BOOLEAN /\ newest' \in Specs
        BY DEF ReloadType, SwapType
      <4>2. handler' \in Specs /\ validator' \in Specs \cup {Nil}
        BY DEF ReloadType
      <4> QED BY <4>1, <4>2, <4>3 DEF SwapType
    <3>3. Epochs' = 0..(done + 1) /\ Epochs \subseteq Epochs'
      BY DEF Epochs, SwapType
    <3>4. BuildType'
      <4>1. NoBuilder \in Builder'
        BY <3>3, SwappableHandlerAssumption
           DEF NoBuilder, Builder, BuildPC, SwapType, Specs, SwappableHandlerAssumption
      <4>2. \A b \in Builder : b \in Builder'
        BY <3>3 DEF Builder
      <4>3. \A e \in 0..(done + 1) : e # done + 1 => e \in Epochs
        BY DEF Epochs, SwapType
      <4>4. builders' \in [Epochs' -> Builder']
        BY <3>3, <4>1, <4>2, <4>3 DEF BuildType
      <4>5. closes' \in [Epochs' -> {0, 1}]
        BY <3>3, <4>3 DEF BuildType
      <4> QED BY <4>4, <4>5 DEF BuildType
    <3>5. CallType'
      BY <3>3 DEF CallType, callVars
    <3>6. LockType'
      BY DEF LockType
    <3> QED BY <3>1, <3>2, <3>4, <3>5, <3>6
  <2> QED BY <1>4, <2>1, <2>2, <2>3, <2>4, <2>5 DEF ReloaderStep
<1> QED BY <1>1, <1>2, <1>3, <1>4 DEF WatcherStep

\* Every variable keeps its type, whatever the schedule of requests, builds
\* and reloads.
THEOREM TypeCorrect == Spec => []TypeOK
<1>1. TypeOK /\ [Next]_vars => TypeOK'
  <2> SUFFICES ASSUME TypeOK, [Next]_vars PROVE TypeOK'
    OBVIOUS
  <2>1. CASE Next
    BY <2>1, CallerTypeOK, BuilderTypeOK, ReloadTypeOK DEF Next
  <2>2. CASE UNCHANGED vars
    BY <2>2, ReloadFrame, SwapFrame, BuildFrame, CallFrame, LockFrame
       DEF vars, swapVars, TypeOK
  <2> QED BY <2>1, <2>2
<1> QED BY <1>1, InitTypeOK, PTL DEF Spec

-----------------------------------------------------------------------------
(* Startup: until the first swap the lazy build is sound, whatever edits,   *)
(* timers and callbacks are under way.  The invariant says that the right  *)
(* to build is held by one caller, then by the builder, and that the       *)
(* channel is closed last.                                                 *)

Launching == {c \in Callers : pc[c] = "launch"}

\* Whoever waited has the validator or the build failed.
Served == \A w \in Waiters : pc[w] = "returned" /\ result[w] = Nil => handler \in NoBuild

Unswapped ==
    /\ done = 0 /\ handler = 0 /\ ~panicked
    /\ \A c, d \in Launching : c = d
    /\ Launching # {} => buildStarted
    /\ ~buildStarted \/ Launching # {} => builders[0].phase = "none"
    /\ builders[0].phase # "none" => builders[0].spec = 0 /\ builders[0].chan = 0
    /\ closes[0] = 1 => builders[0].phase = "exited"
    /\ builders[0].phase \in {"close", "exited"} => validator # Nil \/ 0 \in NoBuild
    /\ Served

StartupInv == done = 0 => Unswapped

\* A step of a caller keeps Unswapped.
LEMMA CallerStartup ==
  ASSUME TypeOK, Unswapped, NEW c \in Callers, CallerStep(c)
  PROVE  Unswapped'
<1>1. /\ pc \in [Callers -> CallerPC] /\ result \in [Waiters -> Specs \cup {Nil}]
      /\ chan[c] = 0 /\ epoch[c] = 0 /\ Epochs = {0} /\ Waiters \subseteq Callers
      /\ builders \in [{0} -> Builder] /\ closes \in [{0} -> {0, 1}]
  BY DEF TypeOK, CallType, BuildType, Unswapped, Epochs, Callers
<1> USE <1>1 DEF Unswapped, Launching, Served, Goto,
                 swapVars, buildVars, reloadVars, lockVars
<1>2. CASE ReadValidator(c)
  BY <1>2 DEF ReadValidator
<1>3. CASE TryStartBuild(c)
  BY <1>3 DEF TryStartBuild
<1>4. CASE LaunchBuild(c)
  BY <1>4 DEF LaunchBuild
<1>5. CASE ProceedAfterEnsure(c)
  BY <1>5 DEF ProceedAfterEnsure
<1>6. CASE EnterHandle(c)
  BY <1>6 DEF EnterHandle
<1>7. CASE LeaveHandle(c)
  BY <1>7 DEF LeaveHandle
<1>8. CASE ReadDone(c)
  BY <1>8 DEF ReadDone
<1>9. CASE WakeUp(c)
  BY <1>9 DEF WakeUp
<1> QED BY <1>2, <1>3, <1>4, <1>5, <1>6, <1>7, <1>8, <1>9 DEF CallerStep

\* A step of a builder keeps Unswapped.
LEMMA BuilderStartup ==
  ASSUME TypeOK, Unswapped, NEW e \in Epochs, BuilderStep(e)
  PROVE  Unswapped'
<1>1. /\ e = 0 /\ Nil # 0
      /\ builders \in [{0} -> Builder] /\ closes \in [{0} -> {0, 1}]
  BY SwappableHandlerAssumption
     DEF TypeOK, BuildType, Unswapped, Epochs, SwappableHandlerAssumption
<1>2. builders[0] \in Builder
  BY <1>1
<1> USE <1>1, <1>2 DEF Unswapped, Launching, Served, Phase, Builder,
                 swapVars, callVars, reloadVars, lockVars
<1>3. CASE BuildReturns(e)
  BY <1>3 DEF BuildReturns
<1>4. CASE LockSetValidator(e)
  BY <1>4 DEF LockSetValidator
<1>5. CASE SetValidator(e)
  BY <1>5 DEF SetValidator
<1>6. CASE CloseDone(e)
  BY <1>6 DEF CloseDone
<1> QED BY <1>3, <1>4, <1>5, <1>6 DEF BuilderStep

\* Edits, events, timers and callbacks keep Unswapped up to the swap itself.
LEMMA ReloadStartup ==
  ASSUME TypeOK, Unswapped, done' = 0,
         EditSpec \/ WatcherStep \/ \E r \in Reloaders : ReloaderStep(r)
  PROVE  Unswapped'
<1>1. UNCHANGED <<swapVars, buildVars, callVars, panicked>>
  <2>1. CASE EditSpec \/ WatcherStep
    BY <2>1 DEF EditSpec, WatcherStep, HandleEvent, TimerFires
  <2>2. ASSUME NEW r \in Reloaders, ReloaderStep(r) PROVE UNCHANGED <<swapVars, buildVars, callVars, panicked>>
    <3>1. ~Swap(r)
      BY DEF Swap, ResetBuild, Unswapped
    <3> QED BY <2>2, <3>1 DEF ReloaderStep, TakePending, LoadSpec, KeepValidator, LockSwap
  <2> QED BY <2>1, <2>2
<1> QED BY <1>1 DEF Unswapped, Launching, Served, swapVars, buildVars, callVars

\* StartupInv is inductive.
LEMMA StartupKept == Spec => []StartupInv
<1>1. Init => StartupInv
  BY DEF Init, StartupInv, Unswapped, Launching, Served, NoBuilder, Callers
<1>2. TypeOK /\ StartupInv /\ [Next]_vars => StartupInv'
  <2> SUFFICES ASSUME TypeOK, StartupInv, [Next]_vars, done' = 0 PROVE Unswapped'
    BY DEF StartupInv
  <2>1. Unswapped
    <3>1. done \in Nat
      BY DEF TypeOK, SwapType
    <3>2. done' = done \/ done' = done + 1
      BY DEF Next, vars, swapVars, CallerStep, ReadValidator, TryStartBuild, LaunchBuild,
         ProceedAfterEnsure, EnterHandle, LeaveHandle, ReadDone, WakeUp, BuilderStep,
         BuildReturns, LockSetValidator, SetValidator, CloseDone, EditSpec, WatcherStep,
         HandleEvent, TimerFires, ReloaderStep, TakePending, LoadSpec, KeepValidator,
         LockSwap, Swap, ResetBuild
    <3> QED BY <3>1, <3>2 DEF StartupInv
  <2>2. CASE UNCHANGED vars
    BY <2>1, <2>2 DEF vars, swapVars, buildVars, callVars, Unswapped, Launching, Served
  <2> QED BY <2>1, <2>2, CallerStartup, BuilderStartup, ReloadStartup DEF Next
<1> QED BY <1>1, <1>2, TypeCorrect, PTL DEF Spec

\* It takes a completed swap to give one channel two builders: until then the
\* channel is closed at most once, for any number of requests, waiters,
\* edits and callbacks.
THEOREM StartupCannotPanic == Spec => []PanicNeedsSwap
<1>1. StartupInv => PanicNeedsSwap
  BY DEF StartupInv, Unswapped, PanicNeedsSwap, NoPanic
<1> QED BY <1>1, StartupKept, PTL

\* Until the first swap, whoever waits for the build gets the validator
\* unless the build failed.
THEOREM WaitersServed == Spec => []WaiterGetsValidator
<1>1. StartupInv => WaiterGetsValidator
  BY DEF StartupInv, Unswapped, Served, WaiterGetsValidator
<1> QED BY <1>1, StartupKept, PTL

-----------------------------------------------------------------------------
(* No edit goes unloaded, however many callbacks reload at the same time.  *)
(* The invariant says where an edit that is not served yet can be:         *)
(* undelivered, pending, or held by a reload that has read it; once it was *)
(* swapped in, only the swap of an older file takes it away.               *)

InReload(r) == rpc[r] \in {"fallback", "lock", "swap"}
Outdated    == events > 0 \/ pending

FreshInv ==
    /\ pending => timer \/ \E r \in Reloaders : rpc[r] = "fired"
    /\ handler <= newest /\ newest <= disk
    /\ \A r \in Reloaders : InReload(r) => rspec[r] <= disk
    /\ \/ newest = disk \/ disk \in Unparsable \/ Outdated
       \/ \E r \in Reloaders : rpc[r] = "load" \/ (InReload(r) /\ rspec[r] = disk)

LEMMA FreshStep ==
  ASSUME TypeOK, FreshInv, Next
  PROVE  FreshInv'
<1> USE DEF FreshInv, InReload, Outdated
<1>1. /\ rpc \in [Reloaders -> ReloadPC] /\ rspec \in [Reloaders -> Nat] /\ events \in Nat
      /\ disk \in Nat /\ handler \in Nat /\ newest \in Nat
  BY SwappableHandlerAssumption DEF TypeOK, ReloadType, SwapType, Specs, SwappableHandlerAssumption
<1>2. ASSUME UNCHANGED reloadVars, UNCHANGED <<handler, newest>> PROVE FreshInv'
  BY <1>2 DEF reloadVars
<1>3. ASSUME NEW c \in Callers, CallerStep(c) PROVE FreshInv'
  BY <1>2, <1>3 DEF CallerStep, ReadValidator, TryStartBuild, LaunchBuild,
     ProceedAfterEnsure, EnterHandle, LeaveHandle, ReadDone, WakeUp, swapVars
<1>4. ASSUME NEW e \in Epochs, BuilderStep(e) PROVE FreshInv'
  <2>1. UNCHANGED <<disk, events, pending, timer, rpc, rspec, handler, newest>>
    BY <1>4 DEF BuilderStep, BuildReturns, LockSetValidator, SetValidator, CloseDone,
       reloadVars, swapVars
  <2> QED BY <2>1
<1>5. CASE EditSpec
  BY <1>1, <1>5 DEF EditSpec, swapVars
<1>6. CASE HandleEvent
  BY <1>1, <1>6 DEF HandleEvent, swapVars
<1>7. ASSUME NEW r \in Reloaders, TimerFires(r) PROVE FreshInv'
  BY <1>1, <1>7 DEF TimerFires, swapVars
<1>8. ASSUME NEW r \in Reloaders, ReloaderStep(r) PROVE FreshInv'
  <2>1. CASE TakePending(r)
    BY <1>1, <2>1 DEF TakePending, swapVars
  <2>2. CASE LoadSpec(r)
    BY <1>1, <2>2 DEF LoadSpec, swapVars
  <2>3. CASE KeepValidator(r)
    BY <1>1, <2>3 DEF KeepValidator, swapVars
  <2>4. CASE LockSwap(r)
    BY <1>1, <2>4 DEF LockSwap, swapVars
  <2>5. CASE Swap(r)
    <3>1. /\ rpc[r] = "swap" /\ rpc' = [rpc EXCEPT ![r] = "idle"] /\ handler' = rspec[r]
          /\ newest' = IF rspec[r] > newest THEN rspec[r] ELSE newest
          /\ UNCHANGED <<disk, events, pending, timer, rspec>>
      BY <2>5 DEF Swap
    <3>2. rspec[r] <= disk /\ rspec[r] \in Nat
      BY <1>1, <3>1
    <3>3. /\ handler' <= newest' /\ newest' <= disk'
          /\ pending' => timer' \/ \E q \in Reloaders : rpc'[q] = "fired"
          /\ \A q \in Reloaders : InReload(q)' => rspec'[q] <= disk'
      BY <1>1, <3>1, <3>2
    <3>4. (\/ newest = disk \/ disk \in Unparsable \/ Outdated
           \/ \E q \in Reloaders : rpc[q] = "load" \/ (InReload(q) /\ rspec[q] = disk))'
      <4>1. CASE rspec[r] = disk \/ newest = disk
        BY <1>1, <3>1, <3>2, <4>1
      <4>2. CASE disk \in Unparsable \/ Outdated
        BY <3>1, <4>2
      <4>3. ASSUME rspec[r] # disk, NEW q \in Reloaders,
                   rpc[q] = "load" \/ (InReload(q) /\ rspec[q] = disk)
            PROVE  (\E p \in Reloaders : rpc[p] = "load" \/ (InReload(p) /\ rspec[p] = disk))'
        <5>1. q # r
          BY <3>1, <4>3
        <5>2. rpc'[q] = rpc[q]
          BY <1>1, <3>1, <5>1
        <5> QED BY <3>1, <4>3, <5>2
      <4> QED BY <4>1, <4>2, <4>3
    <3> QED BY <3>3, <3>4
  <2> QED BY <1>8, <2>1, <2>2, <2>3, <2>4, <2>5 DEF ReloaderStep
<1> QED BY <1>3, <1>4, <1>5, <1>6, <1>7, <1>8 DEF Next, WatcherStep

\* Once the watcher has nothing left to do, the file on disk is what is
\* served, unless a callback that had been overtaken swapped an older one in
\* after that very file: for any number of callbacks at a time, any edits, parsable or
\* not, and any traffic.
THEOREM ReloadFresh == Spec => []QuiescentFresh
<1>1. Init => FreshInv
  BY DEF Init, FreshInv, InReload, Outdated
<1>2. TypeOK /\ FreshInv /\ [Next]_vars => FreshInv'
  <2> SUFFICES ASSUME TypeOK, FreshInv, [Next]_vars PROVE FreshInv'
    OBVIOUS
  <2>1. CASE UNCHANGED vars
    BY <2>1 DEF vars, reloadVars, swapVars, FreshInv, InReload, Outdated
  <2> QED BY <2>1, FreshStep
<1>3. TypeOK /\ FreshInv => QuiescentFresh
  BY SwappableHandlerAssumption
     DEF FreshInv, InReload, Outdated, QuiescentFresh, TypeOK, ReloadType, SwapType, Specs,
         SwappableHandlerAssumption
<1> QED BY <1>1, <1>2, <1>3, TypeCorrect, PTL DEF Spec

-----------------------------------------------------------------------------
(* What a reload can lose: one that is on its way to the lock with empty   *)
(* hands found nothing, so what is there now was stored since.             *)

EmptyHanded ==
    \A r \in Reloaders :
        rpc[r] \in {"lock", "swap"} /\ rvalidator[r] = Nil /\ validator # Nil => late[r]

LEMMA EmptyHandedStep ==
  ASSUME TypeOK, EmptyHanded, Next
  PROVE  EmptyHanded'
<1>1. /\ rpc \in [Reloaders -> ReloadPC] /\ rvalidator \in [Reloaders -> Specs \cup {Nil}]
      /\ late \in [Reloaders -> BOOLEAN] /\ disk \in Specs
  BY DEF TypeOK, ReloadType
<1>2. ASSUME validator' = validator, late' = late,
             \A r \in Reloaders : rpc'[r] \in {"lock", "swap"} /\ rvalidator'[r] = Nil =>
                rpc[r] \in {"lock", "swap"} /\ rvalidator[r] = Nil
      PROVE  EmptyHanded'
  BY <1>2 DEF EmptyHanded
<1>3. ASSUME NEW c \in Callers, CallerStep(c) PROVE EmptyHanded'
  BY <1>2, <1>3 DEF CallerStep, ReadValidator, TryStartBuild, LaunchBuild, ProceedAfterEnsure,
     EnterHandle, LeaveHandle, ReadDone, WakeUp, reloadVars, swapVars
<1>4. ASSUME NEW e \in Epochs, BuilderStep(e) PROVE EmptyHanded'
  <2>1. CASE SetValidator(e)
    BY <2>1 DEF SetValidator, EmptyHanded
  <2>2. CASE ~SetValidator(e)
    BY <1>2, <1>4, <2>2 DEF BuilderStep, BuildReturns, LockSetValidator, CloseDone, reloadVars,
       swapVars
  <2> QED BY <2>1, <2>2
<1>5. CASE EditSpec \/ WatcherStep
  BY <1>1, <1>2, <1>5 DEF EditSpec, WatcherStep, HandleEvent, TimerFires, swapVars
<1>6. ASSUME NEW r \in Reloaders, ReloaderStep(r) PROVE EmptyHanded'
  <2>1. CASE Swap(r)
    <3>1. /\ validator' = rvalidator[r]
          /\ late' = [q \in Reloaders |-> late[q] \/ rvalidator[r] # Nil]
      BY <2>1 DEF Swap
    <3> QED BY <3>1 DEF EmptyHanded
  <2>2. CASE KeepValidator(r)
    <3>1. /\ validator' = validator /\ rvalidator'[r] = validator
          /\ \A q \in Reloaders \ {r} : /\ rpc'[q] = rpc[q] /\ rvalidator'[q] = rvalidator[q]
                                        /\ late'[q] = late[q]
      BY <1>1, <2>2 DEF KeepValidator, swapVars
    <3> QED BY <3>1 DEF EmptyHanded
  <2>3. CASE LoadSpec(r)
    <3>1. disk # Nil
      BY <1>1, SwappableHandlerAssumption DEF SwappableHandlerAssumption, Specs
    <3> QED BY <1>1, <1>2, <2>3, <3>1 DEF LoadSpec, swapVars
  <2>4. CASE TakePending(r) \/ LockSwap(r)
    BY <1>1, <1>2, <2>4 DEF TakePending, LockSwap, swapVars
  <2> QED BY <1>6, <2>1, <2>2, <2>3, <2>4 DEF ReloaderStep
<1> QED BY <1>3, <1>4, <1>5, <1>6 DEF Next

\* A reload takes away no validator that was there when it looked for one to
\* keep: what it loses was stored between its look and its swap, for any
\* number of callbacks at a time, any edits and any traffic (watcher.go
\* 276-288).
THEOREM ValidatorsKept == Spec => KeepsValidator
<1>1. Init => EmptyHanded
  BY DEF Init, EmptyHanded
<1>2. TypeOK /\ EmptyHanded /\ [Next]_vars => EmptyHanded'
  <2> SUFFICES ASSUME TypeOK, EmptyHanded, [Next]_vars PROVE EmptyHanded'
    OBVIOUS
  <2>1. CASE UNCHANGED vars
    BY <2>1 DEF vars, reloadVars, swapVars, EmptyHanded
  <2> QED BY <2>1, EmptyHandedStep
<1> DEFINE Lost == validator # Nil /\ validator' = Nil
           Excused == \E r \in Reloaders : rpc[r] = "swap" /\ rpc'[r] = "idle" /\ late[r]
<1>3. TypeOK /\ EmptyHanded /\ [Next]_vars => [Lost => Excused]_vars
  <2> SUFFICES ASSUME TypeOK, EmptyHanded, Next, Lost PROVE Excused
    OBVIOUS
  <2>1. ASSUME NEW c \in Callers, CallerStep(c) PROVE FALSE
    BY <2>1 DEF CallerStep, ReadValidator, TryStartBuild, LaunchBuild, ProceedAfterEnsure,
       EnterHandle, LeaveHandle, ReadDone, WakeUp, swapVars
  <2>2. ASSUME NEW e \in Epochs, BuilderStep(e) PROVE FALSE
    <3>1. builders[e].spec # Nil
      BY SwappableHandlerAssumption
         DEF TypeOK, BuildType, Builder, Specs, SwappableHandlerAssumption
    <3> QED BY <2>2, <3>1 DEF BuilderStep, BuildReturns, LockSetValidator, SetValidator, CloseDone,
          swapVars
  <2>3. ~EditSpec /\ ~WatcherStep
    BY DEF EditSpec, WatcherStep, HandleEvent, TimerFires, swapVars
  <2>4. PICK r \in Reloaders : ReloaderStep(r)
    BY <2>1, <2>2, <2>3 DEF Next
  <2>5. Swap(r)
    BY <2>4 DEF ReloaderStep, TakePending, LoadSpec, KeepValidator, LockSwap, swapVars
  <2>6. rpc[r] = "swap" /\ rpc'[r] = "idle" /\ rvalidator[r] = Nil
    BY <2>5 DEF Swap, TypeOK, ReloadType
  <2> QED BY <2>6 DEF EmptyHanded
<1> HIDE DEF Lost, Excused
<1>4. Spec => [][Lost => Excused]_vars
  BY <1>1, <1>2, <1>3, TypeCorrect, PTL DEF Spec
<1> QED BY <1>4 DEF KeepsValidator, Lost, Excused
=============================================================================
