---------------------- MODULE RequestPipeline_proofs -----------------------
(***************************************************************************)
(* Proofs about RequestPipeline, for any requests, URLs, patterns and      *)
(* shapes, with or without history and upstream-only, over a reliable or a *)
(* lossy store.                                                            *)
(***************************************************************************)
EXTENDS RequestPipeline, TLAPS

\* The fields of a request have their types.
LEMMA ShapeFields ==
  ASSUME FlightType, NEW r \in Requests
  PROVE  /\ shape[r] \in Shape
         /\ shape[r].method \in {"GET", "POST"}
         /\ shape[r].url \in URLs
         /\ shape[r].upstream \in {"none", "plain", "sticky"}
         /\ Key(r) \in Keys
<1>1. shape[r] \in Shape
  BY PipelineAssumption DEF PipelineAssumption, FlightType
<1> QED BY <1>1 DEF Shape, Key, Keys

\* Wherever the chain goes on, it goes on somewhere.
LEMMA NextStop ==
  ASSUME FlightType, NEW r \in Requests
  PROVE  /\ EnterUpstream(r) \in {"handler", "call", "stickyCheck"}
         /\ EnterCacheRead(r) \in {"cacheRead", "handler", "call", "stickyCheck"}
         /\ EnterReplay(r) \in {"replayRead", "cacheRead", "handler", "call", "stickyCheck"}
         /\ Return(r) \in {"replayWrite", "reply"}
         /\ AfterSticky(r) \in {"cacheSuccess", "replayWrite", "reply"}
         /\ AfterSuccess(r) \in {"clearSticky", "cacheSuccess", "replayWrite", "reply"}
         /\ AfterError(r) \in {"recordError", "replayWrite", "reply"}
         /\ AfterGenerated(r) \in {"cacheGenerated", "replayWrite", "reply"}
  BY ShapeFields DEF EnterUpstream, EnterCacheRead, EnterReplay, Return, AfterSticky,
     AfterSuccess, AfterError, AfterGenerated

LEMMA InitTypeOK == Init => TypeOK
<1> SUFFICES ASSUME Init PROVE TypeOK
  OBVIOUS
<1> USE DEF Init
<1>1. FlightType
  BY DEF FlightType, PC
<1>2. TableType
  <2>1. sticky \in BOOLEAN
    OBVIOUS
  <2>2. <<>> \in Seq(Entry)
    OBVIOUS
  <2> QED BY <2>1, <2>2 DEF TableType
<1>3. ObserverType
  BY DEF ObserverType
<1> QED BY <1>1, <1>2, <1>3 DEF TypeOK

\* A body a request was answered with.
LEMMA ResponseFields ==
  ASSUME FlightType, NEW r \in Requests, resp[r] # None
  PROVE  /\ resp[r] \in Response
         /\ resp[r].source \in Sources
         /\ resp[r].body \in Body /\ resp[r].body # None
<1>1. resp[r] \in Response
  BY DEF FlightType
<1>2. resp[r].body \in Body
  BY <1>1 DEF Response
<1> QED BY <1>1, <1>2, PipelineAssumption DEF PipelineAssumption, Response

LEMMA FlightStep ==
  ASSUME TypeOK, NEW r \in Requests, RequestStep(r)
  PROVE  FlightType'
<1> USE NextStop, ShapeFields DEF TypeOK, flight, Goto, End
<1>1. ASSUME NEW p \in PC, Goto(r, p), UNCHANGED <<flight, resp, answer>> PROVE FlightType'
  BY <1>1 DEF FlightType
<1>2. ASSUME NEW a \in Answers, End(r, a), UNCHANGED <<flight, resp>> PROVE FlightType'
  BY <1>2 DEF FlightType, PC
<1>3. ASSUME NEW p \in PC, NEW s \in Sources, NEW b \in Body, Goto(r, p), Produce(r, s, b),
             UNCHANGED <<flight, answer>>
      PROVE  FlightType'
  BY <1>3 DEF FlightType, Produce, Response
<1>4. CASE Arrive(r)
  BY <1>1, <1>4 DEF Arrive, PC
<1>5. CASE ValidateRequest(r)
  BY <1>1, <1>2, <1>5 DEF ValidateRequest, PC, Answers
<1>6. CASE LatencyAndError(r)
  BY <1>1, <1>2, <1>6 DEF LatencyAndError, PC, Answers
<1>7. CASE ReplayRead(r)
  <2>1. PICK rec \in Reads(replayTable[Key(r)]) :
           \/ rec = None /\ Goto(r, "replayCheck") /\ UNCHANGED resp
           \/ rec # None /\ Produce(r, "replay", rec) /\ Goto(r, "reply")
    BY <1>7 DEF ReplayRead
  <2>2. rec = None \/ rec \in Body
    BY DEF Reads, TableType
  <2> QED BY <1>1, <1>3, <1>7, <2>1, <2>2 DEF ReplayRead, PC, Sources
<1>8. CASE ReplayCheck(r)
  <2>1. wraps' \in [Requests -> BOOLEAN]
    BY <1>8 DEF ReplayCheck, FlightType
  <2> QED BY <1>8, <2>1 DEF ReplayCheck, FlightType, PC
<1>9. CASE CacheRead(r)
  <2>1. PICK hit \in Reads(cacheTable[shape[r].url]) :
           \/ hit = None /\ Goto(r, EnterUpstream(r)) /\ UNCHANGED resp
           \/ hit # None /\ Produce(r, "cache", hit) /\ Goto(r, Return(r))
    BY <1>9 DEF CacheRead
  <2>2. hit = None \/ hit \in Body
    BY DEF Reads, TableType
  <2> QED BY <1>1, <1>3, <1>9, <2>1, <2>2 DEF CacheRead, PC, Sources
<1>10. CASE StickyCheck(r)
  BY <1>1, <1>10 DEF StickyCheck, PC
<1>11. CASE CallUpstream(r)
  <2>1. failed' \in [Requests -> BOOLEAN] /\ called' \in [Requests -> BOOLEAN]
    BY <1>11 DEF CallUpstream, FlightType
  <2>2. resp' \in [Requests -> Response \cup {None}]
    <3>1. \A ok \in BOOLEAN : [by |-> r, from |-> "upstream", ok |-> ok] \in Body
      BY DEF Body
    <3>2. \A b \in Body : [source |-> "upstream", body |-> b] \in Response
      BY DEF Response, Sources
    <3> QED BY <1>11, <3>1, <3>2 DEF CallUpstream, FlightType, Produce
  <2>3. pc' \in [Requests -> PC]
    BY <1>11 DEF CallUpstream, FlightType, PC
  <2> QED BY <1>11, <2>1, <2>2, <2>3 DEF CallUpstream, FlightType
<1>12. CASE RecordSuccess(r)
  BY <1>1, <1>12 DEF RecordSuccess, PC
<1>13. CASE ClearSticky(r)
  BY <1>1, <1>13 DEF ClearSticky, PC
<1>14. CASE CacheSuccess(r)
  BY <1>1, <1>14 DEF CacheSuccess, PC
<1>15. CASE CacheError(r)
  BY <1>1, <1>15 DEF CacheError, PC
<1>16. CASE RecordError(r)
  BY <1>1, <1>16 DEF RecordError, PC
<1>17. CASE SetSticky(r)
  BY <1>1, <1>17 DEF SetSticky, PC
<1>18. CASE Handle(r)
  <2>1. \A ok \in BOOLEAN : [by |-> r, from |-> "generated", ok |-> ok] \in Body
    BY DEF Body
  <2> QED BY <1>2, <1>3, <1>18, <2>1 DEF Handle, PC, Sources, Answers
<1>19. CASE RecordGenerated(r)
  BY <1>1, <1>19 DEF RecordGenerated, PC
<1>20. CASE CacheGenerated(r)
  BY <1>1, <1>20 DEF CacheGenerated, PC
<1>21. CASE ReplayWrite(r)
  BY <1>1, <1>2, <1>21 DEF ReplayWrite, PC, Answers
<1>22. CASE Reply(r)
  BY <1>1, <1>2, <1>22 DEF Reply, PC, Answers
<1> QED BY <1>4, <1>5, <1>6, <1>7, <1>8, <1>9, <1>10, <1>11, <1>12, <1>13, <1>14,
           <1>15, <1>16, <1>17, <1>18, <1>19, <1>20, <1>21, <1>22
        DEF RequestStep, UpstreamStep

\* A request has an answer in flight exactly while it is on its way back, and
\* how it ends is known when it has ended.
Returning == {"recordSuccess", "clearSticky", "cacheSuccess", "cacheError", "recordError",
              "recordGenerated", "cacheGenerated", "replayWrite", "reply"}

InFlight ==
    \A r \in Requests :
        /\ pc[r] \in Returning => resp[r] # None
        /\ pc[r] \notin Returning \cup {"done"} => resp[r] = None
        /\ pc[r] # "done" => answer[r] = None

LEMMA TableStep ==
  ASSUME TypeOK, InFlight, NEW r \in Requests, RequestStep(r)
  PROVE  TableType'
<1> USE DEF TypeOK
<1>1. ASSUME UNCHANGED <<replayTable, cacheTable, sticky, history>> PROVE TableType'
  BY <1>1 DEF TableType
<1>2. ASSUME NEW e \in Entry, Record(r, e), UNCHANGED <<replayTable, cacheTable, sticky>>
      PROVE  TableType'
  <2>1. Append(history[r], e) \in Seq(Entry) /\ history[r] \in Seq(Entry)
    BY DEF TableType
  <2> QED BY <1>2, <2>1 DEF Record, Writes, TableType
<1>3. ASSUME resp[r] # None, WriteCache(r), UNCHANGED <<replayTable, sticky, history>>
      PROVE  TableType'
  <2>1. resp[r].body \in Body /\ shape[r].url \in URLs
    BY <1>3, ResponseFields, ShapeFields
  <2> QED BY <1>3, <2>1 DEF WriteCache, TableType
<1>4. CASE Arrive(r) \/ ValidateRequest(r) \/ LatencyAndError(r) \/ ReplayRead(r)
           \/ ReplayCheck(r) \/ CacheRead(r) \/ StickyCheck(r) \/ CallUpstream(r)
           \/ Handle(r) \/ Reply(r)
  BY <1>1, <1>4 DEF Arrive, ValidateRequest, LatencyAndError, ReplayRead, ReplayCheck,
     CacheRead, StickyCheck, CallUpstream, Handle, Reply, tables
<1>5. CASE RecordSuccess(r) \/ RecordError(r) \/ RecordGenerated(r)
  <2>1. resp[r] # None
    BY <1>5 DEF RecordSuccess, RecordError, RecordGenerated, InFlight, Returning
  <2>2. resp[r].body \in Body /\ failed[r] \in BOOLEAN
    BY <2>1, ResponseFields DEF FlightType
  <2>3. \A u, f \in BOOLEAN : [body |-> resp[r].body, upstream |-> u, failed |-> f] \in Entry
    BY <2>2 DEF Entry
  <2> QED BY <1>2, <1>5, <2>2, <2>3 DEF RecordSuccess, RecordError, RecordGenerated
<1>6. CASE CacheSuccess(r) \/ CacheError(r) \/ CacheGenerated(r)
  BY <1>3, <1>6 DEF CacheSuccess, CacheError, CacheGenerated, InFlight, Returning
<1>7. CASE ClearSticky(r) \/ SetSticky(r)
  <2>1. sticky' \in BOOLEAN
    BY <1>7 DEF ClearSticky, SetSticky, Writes, TableType
  <2> QED BY <1>7, <2>1 DEF ClearSticky, SetSticky, TableType
<1>8. CASE ReplayWrite(r)
  <2>1. resp[r].body \in Body /\ Key(r) \in Keys
    BY <1>8, ResponseFields, ShapeFields DEF ReplayWrite, InFlight, Returning
  <2> QED BY <1>8, <2>1 DEF ReplayWrite, Writes, TableType
<1> QED BY <1>4, <1>5, <1>6, <1>7, <1>8 DEF RequestStep, UpstreamStep

\* An expiring entry keeps the types.
LEMMA ExpiryTypeOK ==
  ASSUME TypeOK,
         (\E k \in Keys : ExpireReplay(k)) \/ ClearReplay \/ (\E u \in URLs : ExpireCache(u)) \/ ExpireSticky
  PROVE  TypeOK'
<1> USE DEF TypeOK, Forget
<1>1. FlightType'
  BY DEF ExpireReplay, ClearReplay, DropRecordings, ExpireCache, ExpireSticky, FlightType, flight
<1>2. TableType'
  BY DEF ExpireReplay, ClearReplay, DropRecordings, ExpireCache, ExpireSticky, TableType
<1>3. ObserverType'
  BY DEF ExpireReplay, ClearReplay, DropRecordings, ExpireCache, ExpireSticky, ObserverType
<1> QED BY <1>1, <1>2, <1>3

LEMMA StepTypeOK ==
  ASSUME TypeOK, InFlight, [Next]_vars
  PROVE  TypeOK'
<1>1. ASSUME NEW r \in Requests, RequestStep(r) PROVE TypeOK'
  <2>1. ObserverType'
    <3>1. CASE Arrive(r)
      <4>1. FactsFor(shape[r]) \in SUBSET Facts
        BY DEF FactsFor
      <4> QED BY <3>1, <4>1 DEF Arrive, TypeOK, ObserverType
    <3>2. CASE ~Arrive(r)
      <4>1. UNCHANGED known
        BY <1>1, <3>2 DEF RequestStep, UpstreamStep, ValidateRequest, LatencyAndError,
           ReplayRead, ReplayCheck, CacheRead, StickyCheck, CallUpstream, RecordSuccess,
           ClearSticky, CacheSuccess, CacheError, RecordError, SetSticky, Handle,
           RecordGenerated, CacheGenerated, ReplayWrite, Reply
      <4> QED BY <4>1 DEF TypeOK, ObserverType
    <3> QED BY <3>1, <3>2
  <2> QED BY <1>1, <2>1, FlightStep, TableStep DEF TypeOK
<1>2. CASE UNCHANGED vars
  BY <1>2 DEF vars, flight, tables, TypeOK, FlightType, TableType, ObserverType
<1> QED BY <1>1, <1>2, ExpiryTypeOK DEF Next, AllAnswered

LEMMA StepInFlight ==
  ASSUME TypeOK, InFlight, [Next]_vars
  PROVE  InFlight'
<1> USE DEF InFlight
<1>1. ASSUME NEW r \in Requests, RequestStep(r) PROVE InFlight'
  <2> USE DEF TypeOK, FlightType
  <2>1. ASSUME NEW p \in PC \ (Returning \cup {"done"}), pc[r] \notin Returning \cup {"done"},
               Goto(r, p), UNCHANGED <<resp, answer>>
        PROVE  InFlight'
    BY <2>1 DEF Goto
  <2>2. ASSUME NEW p \in Returning, pc[r] \in Returning, Goto(r, p), UNCHANGED <<resp, answer>>
        PROVE  InFlight'
    BY <2>2 DEF Goto, Returning
  <2>3. ASSUME NEW s \in Sources, NEW b \in Body, NEW p \in Returning, Produce(r, s, b),
               Goto(r, p), UNCHANGED answer, pc[r] # "done"
        PROVE  InFlight'
    <3>1. [source |-> s, body |-> b] # None
      BY PipelineAssumption DEF PipelineAssumption, Sources
    <3> QED BY <2>3, <3>1 DEF Goto, Produce, Returning
  <2>4. ASSUME NEW a, End(r, a), UNCHANGED resp PROVE InFlight'
    BY <2>4 DEF End, Goto, Returning
  <2> USE NextStop DEF Returning, PC
  <2>5. CASE Arrive(r) \/ ValidateRequest(r) \/ LatencyAndError(r)
    BY <2>1, <2>4, <2>5 DEF Arrive, ValidateRequest, LatencyAndError
  <2>6. CASE ReplayCheck(r)
    <3>1. EnterCacheRead(r) \in PC \ (Returning \cup {"done"})
      OBVIOUS
    <3> QED BY <2>1, <2>6, <3>1 DEF ReplayCheck
  <2>7. CASE StickyCheck(r) \/ SetSticky(r)
    BY <2>1, <2>7 DEF StickyCheck, SetSticky
  <2>8. CASE RecordSuccess(r)
    BY <2>2, <2>8 DEF RecordSuccess
  <2>9. CASE ClearSticky(r) \/ CacheSuccess(r)
    BY <2>2, <2>9 DEF ClearSticky, CacheSuccess
  <2>10. CASE CacheError(r) \/ RecordError(r)
    BY <2>2, <2>10 DEF CacheError, RecordError
  <2>11. CASE RecordGenerated(r) \/ CacheGenerated(r)
    BY <2>2, <2>11 DEF RecordGenerated, CacheGenerated
  <2>12. CASE ReplayWrite(r) \/ Reply(r)
    BY <2>2, <2>4, <2>12 DEF ReplayWrite, Reply
  <2>13. CASE ReplayRead(r) \/ CacheRead(r)
    <3>1. \A e : e # None /\ (e \in Reads(replayTable[Key(r)]) \/ e \in Reads(cacheTable[shape[r].url]))
             => e \in Body
      BY ShapeFields DEF Reads, TableType
    <3>2. CASE ReplayRead(r)
      BY <2>1, <2>3, <3>1, <3>2 DEF ReplayRead, Sources
    <3>3. CASE CacheRead(r)
      BY <2>1, <2>3, <3>1, <3>3 DEF CacheRead, Sources
    <3> QED BY <2>13, <3>2, <3>3
  <2>14. CASE CallUpstream(r) \/ Handle(r)
    <3>1. \A f \in {"upstream", "generated"} : \A ok \in BOOLEAN :
             [by |-> r, from |-> f, ok |-> ok] \in Body
      BY DEF Body
    <3>2. CASE CallUpstream(r)
      <4>1. AfterSuccess(r) \in Returning /\ AfterError(r) \in Returning
        OBVIOUS
      <4>2. pc[r] = "call" /\ UNCHANGED answer
        BY <3>2 DEF CallUpstream
      <4>3. \/ \E ok \in BOOLEAN, p \in Returning :
                 Produce(r, "upstream", [by |-> r, from |-> "upstream", ok |-> ok]) /\ Goto(r, p)
            \/ \E p \in {"setSticky", "handler"} : Goto(r, p) /\ UNCHANGED resp
        BY <3>2, <4>1 DEF CallUpstream
      <4> QED BY <2>1, <2>3, <3>1, <4>2, <4>3 DEF Sources
    <3>3. CASE Handle(r)
      <4>1. AfterGenerated(r) \in Returning
        OBVIOUS
      <4> QED BY <2>3, <2>4, <3>1, <3>3, <4>1 DEF Handle, Sources
    <3> QED BY <2>14, <3>2, <3>3
  <2> QED BY <1>1, <2>5, <2>6, <2>7, <2>8, <2>9, <2>10, <2>11, <2>12, <2>13, <2>14
          DEF RequestStep, UpstreamStep
<1>2. ASSUME UNCHANGED <<pc, resp, answer>> PROVE InFlight'
  BY <1>2
<1> QED BY <1>1, <1>2 DEF Next, AllAnswered, vars, ExpireReplay, ClearReplay, DropRecordings, ExpireCache, ExpireSticky

\* Every variable of the chain keeps its type, whatever requests arrive and
\* whatever the store loses.
THEOREM TypeCorrect == Spec => [](TypeOK /\ InFlight)
<1>1. Init => InFlight
  BY DEF Init, InFlight, Returning
<1> QED BY <1>1, InitTypeOK, StepTypeOK, StepInFlight, PTL DEF Spec

-----------------------------------------------------------------------------
(* Where bodies come from.  The invariant says which requests can be where *)
(* in the chain, and who made what the two tables hold.                    *)

Fresh == {"recordSuccess", "clearSticky", "cacheSuccess", "cacheError", "recordError",
          "recordGenerated", "cacheGenerated"}

\* A request is at a step of a middleware only if that middleware applies.
Route ==
    \A r \in Requests :
        /\ pc[r] \in {"replayRead", "replayCheck"} => shape[r].replay
        /\ wraps[r] => shape[r].replay
        /\ pc[r] \in {"cacheRead", "cacheSuccess", "cacheError", "cacheGenerated"} => Caches(r)
        /\ pc[r] = "replayWrite" => wraps[r]
        /\ pc[r] \in Fresh => resp[r].source \in {"upstream", "generated"}

\* What is cached was made by a GET of its URL.
CachedFrom ==
    \A u \in URLs : cacheTable[u] # None =>
        LET q == cacheTable[u].by IN
        resp[q] # None /\ shape[q].url = u /\ shape[q].method = "GET"

\* What is recorded was made by a request of its key that passed the writer.
MadeFor(k, q, from) ==
    /\ resp[q] # None /\ shape[q].replay /\ Key(q) = k
    /\ wraps[q] /\ pc[q] \in {"reply", "done"} /\ answer[q] # "refused"
    /\ UpstreamOnly => from = "upstream"

RecordedFrom ==
    \A k \in Keys : replayTable[k] # None => MadeFor(k, replayTable[k].by, replayTable[k].from)

LEMMA NextRoute ==
  ASSUME NEW r \in Requests, FlightType
  PROVE  /\ EnterReplay(r) = "replayRead" => shape[r].replay
         /\ EnterReplay(r) = "cacheRead" => Caches(r)
         /\ EnterCacheRead(r) = "cacheRead" => Caches(r)
         /\ AfterSticky(r) = "cacheSuccess" => Caches(r)
         /\ AfterSuccess(r) = "cacheSuccess" => Caches(r)
         /\ AfterGenerated(r) = "cacheGenerated" => Caches(r)
         /\ \A e \in {Return(r), AfterSticky(r), AfterSuccess(r), AfterError(r), AfterGenerated(r)} :
                e = "replayWrite" => wraps[r]
  BY ShapeFields DEF EnterReplay, EnterCacheRead, EnterUpstream, AfterSticky, AfterSuccess,
     AfterGenerated, AfterError, Return

\* An answer, once there, stays; nobody changes what a request asks for.
LEMMA Stable ==
  ASSUME TypeOK, InFlight, Next
  PROVE  /\ shape' = shape
         /\ \A q \in Requests : resp[q] # None => resp'[q] = resp[q]
<1>1. ASSUME NEW r \in Requests, RequestStep(r)
      PROVE  /\ shape' = shape
             /\ \A q \in Requests : resp[q] # None => resp'[q] = resp[q]
  <2> USE DEF TypeOK, FlightType, InFlight, Returning, flight, Produce
  <2>1. CASE ReplayRead(r) \/ CacheRead(r) \/ CallUpstream(r) \/ Handle(r)
    <3>1. resp[r] = None /\ shape' = shape
      BY <2>1 DEF ReplayRead, CacheRead, CallUpstream, Handle
    <3>2. \A q \in Requests : q # r => resp'[q] = resp[q]
      BY <2>1 DEF ReplayRead, CacheRead, CallUpstream, Handle
    <3> QED BY <3>1, <3>2
  <2>2. CASE ~(ReplayRead(r) \/ CacheRead(r) \/ CallUpstream(r) \/ Handle(r))
    BY <1>1, <2>2 DEF RequestStep, UpstreamStep, Arrive, ValidateRequest, LatencyAndError,
       ReplayCheck, StickyCheck, RecordSuccess, ClearSticky, CacheSuccess, CacheError,
       RecordError, SetSticky, RecordGenerated, CacheGenerated, ReplayWrite, Reply
  <2> QED BY <2>1, <2>2
<1> QED BY <1>1 DEF Next, AllAnswered, vars, flight, ExpireReplay, ClearReplay, DropRecordings, ExpireCache, ExpireSticky

LEMMA StepRoute ==
  ASSUME TypeOK, InFlight, Route, [Next]_vars
  PROVE  Route'
<1> USE DEF Route, Fresh, Caches
<1>1. ASSUME NEW r \in Requests, RequestStep(r) PROVE Route'
  <2> USE NextRoute, NextStop DEF TypeOK, FlightType, flight
  <2>1. ASSUME NEW p \in PC, Goto(r, p), UNCHANGED <<shape, wraps, resp>>,
               p \in {"replayRead", "replayCheck"} => shape[r].replay,
               p \in {"cacheRead", "cacheSuccess", "cacheError", "cacheGenerated"} => Caches(r),
               p = "replayWrite" => wraps[r],
               p \in Fresh => resp[r].source \in {"upstream", "generated"}
        PROVE  Route'
    BY <2>1 DEF Goto
  <2>2. ASSUME NEW p \in PC, NEW s, NEW b, Goto(r, p), Produce(r, s, b), UNCHANGED <<shape, wraps>>,
               p \in {"replayWrite", "reply"} \cup Fresh,
               p \in {"cacheSuccess", "cacheError", "cacheGenerated"} => Caches(r),
               p = "replayWrite" => wraps[r],
               p \in Fresh => s \in {"upstream", "generated"}
        PROVE  Route'
    BY <2>2 DEF Goto, Produce
  <2>3. ASSUME NEW a, End(r, a), UNCHANGED <<shape, wraps, resp>> PROVE Route'
    BY <2>3 DEF End, Goto
  <2> USE DEF PC
  <2>4. CASE Arrive(r) \/ ValidateRequest(r) \/ LatencyAndError(r)
    BY <2>1, <2>3, <2>4 DEF Arrive, ValidateRequest, LatencyAndError
  <2>5. CASE ReplayRead(r)
    BY <2>1, <2>2, <2>5 DEF ReplayRead
  <2>6. CASE ReplayCheck(r)
    <3>1. wraps'[r] => shape[r].replay
      BY <2>6 DEF ReplayCheck
    <3>2. EnterCacheRead(r) \notin {"replayRead", "replayCheck", "replayWrite"}
      OBVIOUS
    <3> QED BY <2>6, <3>1, <3>2 DEF ReplayCheck, Goto
  <2>7. CASE CacheRead(r)
    BY <2>1, <2>2, <2>7 DEF CacheRead
  <2>8. CASE StickyCheck(r) \/ SetSticky(r)
    BY <2>1, <2>8 DEF StickyCheck, SetSticky
  <2>9. CASE CallUpstream(r)
    <3>1. \/ \E ok \in BOOLEAN : \E p \in {"recordSuccess", AfterSuccess(r), AfterError(r)} :
               Produce(r, "upstream", [by |-> r, from |-> "upstream", ok |-> ok]) /\ Goto(r, p)
          \/ \E ok \in BOOLEAN :
               Caches(r) /\ Goto(r, "cacheError")
               /\ Produce(r, "upstream", [by |-> r, from |-> "upstream", ok |-> ok])
          \/ \E p \in {"setSticky", "handler"} : Goto(r, p) /\ UNCHANGED resp
      BY <2>9 DEF CallUpstream
    <3>2. UNCHANGED <<shape, wraps>>
      BY <2>9 DEF CallUpstream
    <3>3. ASSUME NEW ok, NEW p \in {"recordSuccess", AfterSuccess(r), AfterError(r)}, Goto(r, p),
                 Produce(r, "upstream", [by |-> r, from |-> "upstream", ok |-> ok])
          PROVE  Route'
      <4>1. /\ p \in PC /\ p \in {"replayWrite", "reply"} \cup Fresh
            /\ p \notin {"cacheError", "cacheGenerated"}
            /\ p = "cacheSuccess" => Caches(r)
        BY <3>3
      <4> QED BY <2>2, <3>2, <3>3, <4>1
    <3>4. ASSUME NEW ok, Caches(r), Goto(r, "cacheError"),
                 Produce(r, "upstream", [by |-> r, from |-> "upstream", ok |-> ok])
          PROVE  Route'
      BY <2>2, <3>2, <3>4
    <3>5. ASSUME NEW p \in {"setSticky", "handler"}, Goto(r, p), UNCHANGED resp PROVE Route'
      BY <2>1, <3>2, <3>5
    <3> QED BY <3>1, <3>3, <3>4, <3>5
  <2>10. CASE RecordSuccess(r) \/ ClearSticky(r) \/ CacheSuccess(r)
    BY <2>1, <2>10 DEF RecordSuccess, ClearSticky, CacheSuccess
  <2>11. CASE CacheError(r) \/ RecordError(r)
    BY <2>1, <2>11 DEF CacheError, RecordError
  <2>12. CASE Handle(r)
    BY <2>2, <2>3, <2>12 DEF Handle
  <2>13. CASE RecordGenerated(r) \/ CacheGenerated(r)
    BY <2>1, <2>13 DEF RecordGenerated, CacheGenerated
  <2>14. CASE ReplayWrite(r) \/ Reply(r)
    BY <2>1, <2>3, <2>14 DEF ReplayWrite, Reply
  <2> QED BY <1>1, <2>4, <2>5, <2>6, <2>7, <2>8, <2>9, <2>10, <2>11, <2>12, <2>13, <2>14
          DEF RequestStep, UpstreamStep
<1>2. ASSUME UNCHANGED <<pc, resp, shape, wraps>> PROVE Route'
  BY <1>2
<1> QED BY <1>1, <1>2 DEF Next, AllAnswered, vars, flight, ExpireReplay, ClearReplay, DropRecordings, ExpireCache, ExpireSticky

\* A table read yields what the table holds, or nothing.
LEMMA StepTruthful ==
  ASSUME TypeOK, InFlight, Route, CachedFrom, RecordedFrom, SourceTruthful, Next
  PROVE  SourceTruthful'
<1> USE Stable, ShapeFields DEF SourceTruthful
<1>1. ASSUME NEW r \in Requests, RequestStep(r), resp'[r] # None, resp[r] = None
      PROVE  Truthful(r, resp'[r].source, resp'[r].body)
  <2> USE <1>1 DEF TypeOK, FlightType, Produce
  <2>1. CASE ReplayRead(r)
    <3>1. replayTable[Key(r)] # None /\ resp'[r] = [source |-> "replay", body |-> replayTable[Key(r)]]
      BY <2>1 DEF ReplayRead, Reads
    <3>2. LET q == replayTable[Key(r)].by
          IN  resp[q] # None /\ shape[q].replay /\ Key(q) = Key(r)
      BY <3>1 DEF RecordedFrom, MadeFor
    <3>3. \A q : Key(q) = Key(r) => /\ shape[q].method = shape[r].method
                                   /\ Pattern[shape[q].url] = Pattern[shape[r].url]
      BY DEF Key
    <3> QED BY <3>1, <3>2, <3>3 DEF Truthful
  <2>2. CASE CacheRead(r)
    <3>1. /\ cacheTable[shape[r].url] # None
          /\ resp'[r] = [source |-> "cache", body |-> cacheTable[shape[r].url]]
      BY <2>2 DEF CacheRead, Reads
    <3>2. shape[r].method = "GET"
      BY <2>2 DEF CacheRead, Route, Caches
    <3> QED BY <3>1, <3>2 DEF CachedFrom, Truthful
  <2>3. CASE CallUpstream(r) \/ Handle(r)
    <3>1. \E f \in {"upstream", "generated"} : \E ok \in BOOLEAN :
            resp'[r] = [source |-> f, body |-> [by |-> r, from |-> f, ok |-> ok]]
      <4>1. CASE CallUpstream(r)
        BY <4>1 DEF CallUpstream
      <4>2. CASE Handle(r)
        BY <4>2 DEF Handle
      <4> QED BY <2>3, <4>1, <4>2
    <3> QED BY <3>1 DEF Truthful
  <2>4. CASE ~(ReplayRead(r) \/ CacheRead(r) \/ CallUpstream(r) \/ Handle(r))
    BY <2>4 DEF RequestStep, UpstreamStep, Arrive, ValidateRequest, LatencyAndError,
       ReplayCheck, StickyCheck, RecordSuccess, ClearSticky, CacheSuccess, CacheError,
       RecordError, SetSticky, RecordGenerated, CacheGenerated, ReplayWrite, Reply
  <2> QED BY <2>1, <2>2, <2>3, <2>4
<1>2. ASSUME NEW r \in Requests, NEW q \in Requests, RequestStep(r), q # r
      PROVE  resp'[q] = resp[q]
  BY <1>2 DEF RequestStep, UpstreamStep, Arrive, ValidateRequest, LatencyAndError, ReplayRead,
     ReplayCheck, CacheRead, StickyCheck, CallUpstream, RecordSuccess, ClearSticky, CacheSuccess,
     CacheError, RecordError, SetSticky, Handle, RecordGenerated, CacheGenerated, ReplayWrite,
     Reply, Produce, TypeOK, FlightType
<1>3. ASSUME NEW r \in Requests, RequestStep(r) PROVE SourceTruthful'
  <2> SUFFICES ASSUME NEW q \in Requests, resp'[q] # None
               PROVE  Truthful(q, resp[q].source, resp[q].body)'
    BY DEF SourceTruthful
  <2>1. shape' = shape
    OBVIOUS
  <2>2. CASE q = r /\ resp[q] = None
    BY <1>1, <1>3, <2>1, <2>2 DEF Truthful
  <2>3. CASE resp[q] # None \/ q # r
    <3>1. resp'[q] = resp[q]
      BY <1>2, <1>3, <2>3
    <3> QED BY <2>1, <3>1 DEF Truthful
  <2> QED BY <2>2, <2>3
<1>4. CASE UNCHANGED <<resp, shape>>
  BY <1>4 DEF Truthful
<1> QED BY <1>3, <1>4 DEF Next, AllAnswered, vars, flight, ExpireReplay, ClearReplay, DropRecordings, ExpireCache, ExpireSticky

\* A cache write stores what its own request was just answered with.
LEMMA StepCachedFrom ==
  ASSUME TypeOK, InFlight, Route, SourceTruthful, CachedFrom, Next
  PROVE  CachedFrom'
<1> USE Stable, ShapeFields DEF CachedFrom
<1>1. ASSUME NEW r \in Requests, WriteCache(r), resp[r] # None, Caches(r), pc[r] \in Fresh
      PROVE  CachedFrom'
  <2>1. resp[r].body.by = r
    BY <1>1 DEF Route, SourceTruthful, Truthful
  <2>2. shape[r].method = "GET"
    BY <1>1 DEF Caches
  <2>3. \A u \in URLs : \/ cacheTable'[u] = cacheTable[u]
                        \/ u = shape[r].url /\ cacheTable'[u] = resp[r].body
    BY <1>1 DEF WriteCache, TypeOK, TableType
  <2>4. \A u \in URLs : cacheTable[u] # None => cacheTable[u].by \in Requests
    BY DEF TypeOK, TableType, Body
  <2> QED BY <1>1, <2>1, <2>2, <2>3, <2>4
<1>2. CASE UNCHANGED cacheTable
  BY <1>2 DEF TypeOK, TableType, Body
<1>3. CASE \E u \in URLs : ExpireCache(u)
  BY <1>3 DEF ExpireCache, TypeOK, TableType, Body
<1>4. ASSUME NEW r \in Requests, RequestStep(r) PROVE CachedFrom'
  <2>1. CASE CacheSuccess(r) \/ CacheError(r) \/ CacheGenerated(r)
    BY <1>1, <2>1 DEF CacheSuccess, CacheError, CacheGenerated, InFlight, Returning, Route, Fresh
  <2>2. CASE ~(CacheSuccess(r) \/ CacheError(r) \/ CacheGenerated(r))
    <3>1. UNCHANGED cacheTable
      BY <1>4, <2>2 DEF RequestStep, UpstreamStep, Arrive, ValidateRequest, LatencyAndError,
         ReplayRead, ReplayCheck, CacheRead, StickyCheck, CallUpstream, RecordSuccess,
         ClearSticky, RecordError, SetSticky, Handle, RecordGenerated, ReplayWrite, Reply, tables
    <3> QED BY <1>2, <3>1
  <2> QED BY <2>1, <2>2
<1> QED BY <1>2, <1>3, <1>4 DEF Next, AllAnswered, vars, tables, ExpireReplay, ClearReplay, DropRecordings, ExpireSticky

\* A request that has passed the writer never comes back to it and is never
\* refused.
LEMMA StepRecordedFrom ==
  ASSUME TypeOK, InFlight, Route, SourceTruthful, RecordedFrom, Next
  PROVE  RecordedFrom'
<1> USE Stable DEF RecordedFrom
<1>k. \A q \in Requests : Key(q)' = Key(q)
  BY DEF Key
<1>1. ASSUME NEW q \in Requests, resp[q] # None, wraps[q], pc[q] \in {"reply", "done"},
             answer[q] # "refused"
      PROVE  wraps'[q] /\ pc'[q] \in {"reply", "done"} /\ answer'[q] # "refused"
  <2>1. ASSUME NEW r \in Requests, RequestStep(r), r # q
        PROVE  wraps'[q] = wraps[q] /\ pc'[q] = pc[q] /\ answer'[q] = answer[q]
    BY <2>1 DEF RequestStep, UpstreamStep, Arrive, ValidateRequest, LatencyAndError,
       ReplayRead, ReplayCheck, CacheRead, StickyCheck, CallUpstream, RecordSuccess,
       ClearSticky, CacheSuccess, CacheError, RecordError, SetSticky, Handle, RecordGenerated,
       CacheGenerated, ReplayWrite, Reply, TypeOK, FlightType, Goto, End, flight
  <2>2. CASE RequestStep(q)
    <3>1. Reply(q)
      BY <1>1, <2>2 DEF RequestStep, UpstreamStep, Arrive, ValidateRequest, LatencyAndError,
         ReplayRead, ReplayCheck, CacheRead, StickyCheck, CallUpstream, RecordSuccess,
         ClearSticky, CacheSuccess, CacheError, RecordError, SetSticky, Handle,
         RecordGenerated, CacheGenerated, ReplayWrite
    <3> QED BY <1>1, <3>1 DEF Reply, End, Goto, flight, TypeOK, FlightType
  <2>3. CASE UNCHANGED <<pc, wraps, answer>>
    BY <1>1, <2>3
  <2> QED BY <1>1, <2>1, <2>2, <2>3
          DEF Next, AllAnswered, vars, flight, ExpireReplay, ClearReplay, DropRecordings, ExpireCache, ExpireSticky
<1>2. ASSUME NEW k \in Keys, NEW q \in Requests, NEW from, MadeFor(k, q, from)
      PROVE  MadeFor(k, q, from)'
  BY <1>1, <1>2, <1>k DEF MadeFor
<1>3. ASSUME NEW k \in Keys, replayTable'[k] # None, replayTable'[k] = replayTable[k]
      PROVE  MadeFor(k, replayTable[k].by, replayTable[k].from)'
  <2>1. replayTable[k].by \in Requests
    BY <1>3 DEF TypeOK, TableType, Body
  <2>2. MadeFor(k, replayTable[k].by, replayTable[k].from)
    BY <1>3 DEF RecordedFrom
  <2>3. PICK q, from : q \in Requests /\ q = replayTable[k].by /\ from = replayTable[k].from
    BY <2>1
  <2> QED BY <1>2, <1>3, <2>2, <2>3
<1>4. ASSUME NEW r \in Requests, ReplayWrite(r), Recordable(r)
      PROVE  MadeFor(Key(r), r, resp[r].body.from)' /\ resp[r].body.by = r
  <2>1. /\ pc[r] = "replayWrite" /\ resp[r] # None /\ wraps[r] /\ shape[r].replay
        /\ answer[r] = None /\ ~Refuses(r)
    BY <1>4 DEF ReplayWrite, InFlight, Returning, Route, Recordable
  <2>2. resp[r].source \in {"upstream", "generated"}
    BY <1>4, <2>1, ResponseFields DEF Recordable, Sources, TypeOK
  <2>3. resp[r].body.by = r /\ (UpstreamOnly => resp[r].body.from = "upstream")
    BY <2>1, <2>2 DEF SourceTruthful, Truthful, Refuses
  <2>4. wraps' = wraps /\ pc'[r] = "reply" /\ answer' = answer /\ shape' = shape /\ resp' = resp
    BY <1>4, <2>1 DEF ReplayWrite, flight, Goto, TypeOK, FlightType
  <2>5. None # "refused"
    BY PipelineAssumption DEF PipelineAssumption
  <2> QED BY <1>k, <2>1, <2>3, <2>4, <2>5 DEF MadeFor
<1>5. ASSUME NEW r \in Requests, ReplayWrite(r), NEW k \in Keys
      PROVE  \/ replayTable'[k] = replayTable[k]
             \/ Recordable(r) /\ k = Key(r) /\ replayTable'[k] = resp[r].body
  <2>1. PICK rec : /\ replayTable' = [replayTable EXCEPT ![Key(r)] = rec]
                   /\ rec \in IF Recordable(r) THEN Writes(replayTable[Key(r)], resp[r].body)
                              ELSE {replayTable[Key(r)]}
    BY <1>5 DEF ReplayWrite
  <2>2. rec = replayTable[Key(r)] \/ (Recordable(r) /\ rec = resp[r].body)
    BY <2>1 DEF Writes
  <2> QED BY <2>1, <2>2 DEF TypeOK, TableType
<1>6. ASSUME NEW r \in Requests, ReplayWrite(r) PROVE RecordedFrom'
  <2> SUFFICES ASSUME NEW k \in Keys, replayTable'[k] # None
               PROVE  MadeFor(k, replayTable[k].by, replayTable[k].from)'
    BY DEF RecordedFrom
  <2>1. CASE replayTable'[k] = replayTable[k]
    BY <1>3, <2>1
  <2>2. CASE Recordable(r) /\ k = Key(r) /\ replayTable'[k] = resp[r].body
    <3>1. Key(r)' = Key(r) /\ UNCHANGED resp
      BY <1>k, <1>6 DEF ReplayWrite
    <3> QED BY <1>4, <1>6, <2>2, <3>1 DEF MadeFor
  <2> QED BY <1>5, <1>6, <2>1, <2>2
<1>7. CASE \A k \in Keys : replayTable'[k] \in {replayTable[k], None}
  BY <1>3, <1>7 DEF RecordedFrom
<1>8. ASSUME NEW r \in Requests, RequestStep(r), ~ReplayWrite(r) PROVE UNCHANGED replayTable
  BY <1>8 DEF RequestStep, UpstreamStep, Arrive, ValidateRequest, LatencyAndError,
     ReplayRead, ReplayCheck, CacheRead, StickyCheck, CallUpstream, RecordSuccess,
     ClearSticky, CacheSuccess, CacheError, RecordError, SetSticky, Handle, RecordGenerated,
     CacheGenerated, Reply, tables
<1>9. CASE (\E k \in Keys : ExpireReplay(k)) \/ ClearReplay
  BY <1>7, <1>9 DEF ExpireReplay, ClearReplay, DropRecordings, TypeOK, TableType
<1> QED BY <1>6, <1>7, <1>8, <1>9
        DEF Next, AllAnswered, vars, tables, ExpireCache, ExpireSticky

Provenance == Route /\ CachedFrom /\ RecordedFrom /\ SourceTruthful

LEMMA InitProvenance == Init => Provenance
  BY DEF Init, Provenance, Route, Fresh, CachedFrom, RecordedFrom, SourceTruthful

\* For any requests and any schedule, over a reliable or a lossy store: the
\* source tag is true of every answer, and every recording is first-hand.
THEOREM ProvenanceHolds == Spec => [](SourceTruthful /\ RecordedFirstHand)
<1>1. TypeOK /\ InFlight /\ Provenance /\ [Next]_vars => Provenance'
  <2> SUFFICES ASSUME TypeOK, InFlight, Provenance, [Next]_vars PROVE Provenance'
    OBVIOUS
  <2> USE DEF Provenance
  <2>1. CASE Next
    BY <2>1, StepRoute, StepTruthful, StepCachedFrom, StepRecordedFrom
  <2>2. CASE UNCHANGED vars
    <3>1. UNCHANGED <<pc, shape, resp, wraps, answer, replayTable, cacheTable>>
      BY <2>2 DEF vars, flight, tables
    <3>2. Route' /\ CachedFrom' /\ SourceTruthful'
      BY <3>1 DEF Route, Caches, CachedFrom, SourceTruthful, Truthful
    <3>3. RecordedFrom'
      BY <3>1 DEF RecordedFrom, MadeFor, Key
    <3> QED BY <3>2, <3>3
  <2> QED BY <2>1, <2>2
<1>2. Provenance => SourceTruthful /\ RecordedFirstHand
  BY DEF Provenance, RecordedFrom, MadeFor, RecordedFirstHand
<1> QED BY <1>1, <1>2, InitProvenance, TypeCorrect, PTL DEF Spec

\* In particular, whoever reads a recording reads what the upstream or the
\* handler told the request that recorded it.
THEOREM RecordingsFirstHand == Spec => []RecordedFirstHand
  BY ProvenanceHolds, PTL

-----------------------------------------------------------------------------
(* What a reliable store adds: what a request could have found when it     *)
(* arrived decides how it is answered.                                     *)

\* A request's step leaves the others where they are.
LEMMA OthersStay ==
  ASSUME TypeOK, NEW r \in Requests, RequestStep(r), NEW q \in Requests, q # r
  PROVE  /\ pc'[q] = pc[q] /\ resp'[q] = resp[q] /\ known'[q] = known[q]
         /\ called'[q] = called[q] /\ failed'[q] = failed[q] /\ history'[q] = history[q]
<1> USE DEF TypeOK, FlightType, TableType, ObserverType, flight, tables, Goto, End, Produce
<1>1. CASE Arrive(r) \/ ValidateRequest(r) \/ LatencyAndError(r) \/ ReplayRead(r)
           \/ ReplayCheck(r) \/ CacheRead(r) \/ StickyCheck(r)
  BY <1>1 DEF Arrive, ValidateRequest, LatencyAndError, ReplayRead, ReplayCheck, CacheRead,
     StickyCheck
<1>2. CASE CallUpstream(r) \/ Handle(r)
  BY <1>2 DEF CallUpstream, Handle
<1>3. CASE RecordSuccess(r) \/ RecordError(r) \/ RecordGenerated(r)
  BY <1>3 DEF RecordSuccess, RecordError, RecordGenerated, Record
<1>4. CASE ClearSticky(r) \/ SetSticky(r) \/ CacheSuccess(r) \/ CacheError(r)
           \/ CacheGenerated(r) \/ ReplayWrite(r) \/ Reply(r)
  BY <1>4 DEF ClearSticky, SetSticky, CacheSuccess, CacheError, CacheGenerated, ReplayWrite, Reply
<1> QED BY <1>1, <1>2, <1>3, <1>4 DEF RequestStep, UpstreamStep

\* Only expiry empties an entry of a reliable store.
LEMMA EntriesStay ==
  ASSUME TypeOK, InFlight, NEW r \in Requests, RequestStep(r)
  PROVE  /\ \A k \in Keys : replayTable[k] # None => replayTable'[k] # None
         /\ \A u \in URLs : cacheTable[u] # None => cacheTable'[u] # None
<1> USE DEF TypeOK
<1>1. CASE ReplayWrite(r)
  <2>1. resp[r].body # None
    BY <1>1, ResponseFields DEF ReplayWrite, InFlight, Returning
  <2>2. PICK rec : /\ rec \in IF Recordable(r) THEN Writes(replayTable[Key(r)], resp[r].body)
                              ELSE {replayTable[Key(r)]}
                   /\ replayTable' = [replayTable EXCEPT ![Key(r)] = rec]
    BY <1>1 DEF ReplayWrite
  <2>3. rec = replayTable[Key(r)] \/ rec = resp[r].body
    BY <2>2 DEF Writes
  <2> QED BY <1>1, <2>1, <2>2, <2>3 DEF ReplayWrite, TableType
<1>2. CASE CacheSuccess(r) \/ CacheError(r) \/ CacheGenerated(r)
  <2>1. resp[r].body # None
    BY <1>2, ResponseFields DEF CacheSuccess, CacheError, CacheGenerated, InFlight, Returning
  <2>2. WriteCache(r) /\ UNCHANGED replayTable
    BY <1>2 DEF CacheSuccess, CacheError, CacheGenerated
  <2> QED BY <2>1, <2>2 DEF WriteCache, TableType
<1>3. CASE ~(ReplayWrite(r) \/ CacheSuccess(r) \/ CacheError(r) \/ CacheGenerated(r))
  BY <1>3 DEF RequestStep, UpstreamStep, Arrive, ValidateRequest, LatencyAndError,
     ReplayRead, ReplayCheck, CacheRead, StickyCheck, CallUpstream, RecordSuccess,
     ClearSticky, RecordError, SetSticky, Handle, RecordGenerated, Reply, tables
<1> QED BY <1>1, <1>2, <1>3

\* A request that could be replayed when it arrived gets to the reader, and
\* the recording waits for it.
ReplayKnown ==
    \A r \in Requests : "replay" \in known[r] =>
        /\ shape[r].replay /\ replayTable[Key(r)] # None
        /\ pc[r] \in {"validate", "latency", "replayRead", "reply", "done"}
        /\ resp[r] # None => resp[r].source = "replay"

\* The same for the cache.
CacheKnown ==
    \A r \in Requests : "cache" \in known[r] =>
        /\ Caches(r) /\ cacheTable[shape[r].url] # None
        /\ pc[r] \in {"validate", "latency", "replayRead", "replayCheck", "cacheRead",
                      "replayWrite", "reply", "done"}
        /\ resp[r] # None => resp[r].source \in {"replay", "cache"}

LEMMA StepReplayKnown ==
  ASSUME ~Lossy, TypeOK, InFlight, ReplayKnown, Next
  PROVE  ReplayKnown'
<1> USE Stable, ShapeFields DEF ReplayKnown
<1>1. ASSUME NEW r \in Requests, RequestStep(r) PROVE ReplayKnown'
  <2> SUFFICES ASSUME NEW q \in Requests, "replay" \in known'[q]
               PROVE  /\ shape'[q].replay /\ replayTable'[Key(q)] # None
                      /\ pc'[q] \in {"validate", "latency", "replayRead", "reply", "done"}
                      /\ resp'[q] # None => resp'[q].source = "replay"
    BY DEF Key
  <2> USE DEF TypeOK, FlightType, ObserverType, Goto, End, Produce
  <2>1. CASE q # r
    BY <1>1, <2>1, OthersStay, EntriesStay
  <2>2. CASE q = r /\ Arrive(r)
    <3>1. pc[r] = "idle" /\ resp'[r] = resp[r] /\ "replay" \in FactsFor(shape[r])
      BY <2>2 DEF Arrive
    <3>2. resp[r] = None
      BY <3>1 DEF InFlight, Returning
    <3>3. shape[r].replay /\ replayTable[Key(r)] # None
      BY <3>1 DEF FactsFor, Key
    <3> QED BY <1>1, <2>2, <3>1, <3>2, <3>3, EntriesStay DEF Arrive
  <2>3. CASE q = r /\ ~Arrive(r)
    <3>1. known' = known
      BY <1>1, <2>3 DEF RequestStep, UpstreamStep, ValidateRequest, LatencyAndError,
         ReplayRead, ReplayCheck, CacheRead, StickyCheck, CallUpstream, RecordSuccess,
         ClearSticky, CacheSuccess, CacheError, RecordError, SetSticky, Handle,
         RecordGenerated, CacheGenerated, ReplayWrite, Reply
    <3>2. /\ shape[r].replay /\ replayTable[Key(r)] # None /\ shape' = shape
          /\ pc[r] \in {"validate", "latency", "replayRead", "reply", "done"}
          /\ resp[r] # None => resp[r].source = "replay"
      BY <2>3, <3>1
    <3>3. ValidateRequest(r) \/ LatencyAndError(r) \/ ReplayRead(r) \/ Reply(r)
      BY <1>1, <2>3, <3>2 DEF RequestStep, UpstreamStep, ReplayCheck, CacheRead, StickyCheck,
         CallUpstream, RecordSuccess, ClearSticky, CacheSuccess, CacheError, RecordError,
         SetSticky, Handle, RecordGenerated, CacheGenerated, ReplayWrite
    <3>4. replayTable'[Key(r)] # None
      BY <1>1, <3>2, EntriesStay
    <3>5. CASE ValidateRequest(r) \/ LatencyAndError(r) \/ Reply(r)
      BY <2>3, <3>2, <3>4, <3>5 DEF ValidateRequest, LatencyAndError, Reply, EnterReplay
    <3>6. CASE ReplayRead(r)
      <4>1. Goto(r, "reply") /\ Produce(r, "replay", replayTable[Key(r)])
        BY <3>2, <3>6 DEF ReplayRead, Reads
      <4> QED BY <2>3, <3>2, <3>4, <4>1
    <3> QED BY <3>3, <3>5, <3>6
  <2> QED BY <2>1, <2>2, <2>3
<1>2. ASSUME NEW K \in SUBSET Keys, DropRecordings(K) PROVE ReplayKnown'
  BY <1>2 DEF DropRecordings, Forget, flight, TypeOK, TableType, ObserverType, Key
<1>3. ASSUME UNCHANGED <<pc, flight, resp, replayTable>>,
             \A q \in Requests : "replay" \in known'[q] => "replay" \in known[q]
      PROVE  ReplayKnown'
  BY <1>3 DEF flight, Key
<1>4. CASE (\E u \in URLs : ExpireCache(u)) \/ ExpireSticky
  BY <1>3, <1>4 DEF ExpireCache, ExpireSticky, Forget, TypeOK, ObserverType
<1>5. CASE AllAnswered
  BY <1>3, <1>5 DEF AllAnswered, vars, tables
<1> QED BY <1>1, <1>2, <1>4, <1>5 DEF Next, ExpireReplay, ClearReplay

LEMMA StepCacheKnown ==
  ASSUME ~Lossy, TypeOK, InFlight, CacheKnown, Next
  PROVE  CacheKnown'
<1> USE Stable, ShapeFields DEF CacheKnown
<1>1. ASSUME NEW r \in Requests, RequestStep(r) PROVE CacheKnown'
  <2> SUFFICES ASSUME NEW q \in Requests, "cache" \in known'[q]
               PROVE  /\ Caches(q) /\ cacheTable'[shape[q].url] # None
                      /\ pc'[q] \in {"validate", "latency", "replayRead", "replayCheck",
                                     "cacheRead", "replayWrite", "reply", "done"}
                      /\ resp'[q] # None => resp'[q].source \in {"replay", "cache"}
    BY DEF Caches
  <2> USE DEF TypeOK, FlightType, ObserverType, Goto, End, Produce
  <2>1. CASE q # r
    BY <1>1, <2>1, OthersStay, EntriesStay
  <2>2. CASE q = r /\ Arrive(r)
    <3>1. pc[r] = "idle" /\ resp'[r] = resp[r] /\ "cache" \in FactsFor(shape[r])
      BY <2>2 DEF Arrive
    <3>2. resp[r] = None
      BY <3>1 DEF InFlight, Returning
    <3>3. Caches(r) /\ cacheTable[shape[r].url] # None
      BY <3>1 DEF FactsFor, Caches
    <3> QED BY <1>1, <2>2, <3>1, <3>2, <3>3, EntriesStay DEF Arrive
  <2>3. CASE q = r /\ ~Arrive(r)
    <3>1. known' = known
      BY <1>1, <2>3 DEF RequestStep, UpstreamStep, ValidateRequest, LatencyAndError,
         ReplayRead, ReplayCheck, CacheRead, StickyCheck, CallUpstream, RecordSuccess,
         ClearSticky, CacheSuccess, CacheError, RecordError, SetSticky, Handle,
         RecordGenerated, CacheGenerated, ReplayWrite, Reply
    <3>2. /\ Caches(r) /\ cacheTable[shape[r].url] # None
          /\ pc[r] \in {"validate", "latency", "replayRead", "replayCheck", "cacheRead",
                        "replayWrite", "reply", "done"}
          /\ resp[r] # None => resp[r].source \in {"replay", "cache"}
      BY <2>3, <3>1
    <3>3. \/ ValidateRequest(r) \/ LatencyAndError(r) \/ ReplayCheck(r)
          \/ ReplayRead(r) \/ CacheRead(r) \/ ReplayWrite(r) \/ Reply(r)
      BY <1>1, <2>3, <3>2 DEF RequestStep, UpstreamStep, StickyCheck, CallUpstream,
         RecordSuccess, ClearSticky, CacheSuccess, CacheError, RecordError, SetSticky, Handle,
         RecordGenerated, CacheGenerated
    <3>4. cacheTable'[shape[r].url] # None
      BY <1>1, <3>2, EntriesStay
    <3>5. CASE ValidateRequest(r) \/ LatencyAndError(r) \/ ReplayCheck(r)
      BY <2>3, <3>2, <3>4, <3>5 DEF ValidateRequest, LatencyAndError, ReplayCheck,
         EnterReplay, EnterCacheRead
    <3>6. CASE ReplayWrite(r) \/ Reply(r)
      BY <2>3, <3>2, <3>4, <3>6 DEF ReplayWrite, Reply
    <3>7. CASE ReplayRead(r)
      BY <2>3, <3>2, <3>4, <3>7 DEF ReplayRead
    <3>8. CASE CacheRead(r)
      <4>1. Goto(r, Return(r)) /\ Produce(r, "cache", cacheTable[shape[r].url])
        BY <3>2, <3>8 DEF CacheRead, Reads
      <4> QED BY <2>3, <3>2, <3>4, <4>1, NextStop
    <3> QED BY <3>3, <3>5, <3>6, <3>7, <3>8
  <2> QED BY <2>1, <2>2, <2>3
<1>2. ASSUME NEW u \in URLs, ExpireCache(u) PROVE CacheKnown'
  BY <1>2 DEF ExpireCache, Forget, flight, TypeOK, TableType, ObserverType, Caches
<1>3. ASSUME UNCHANGED <<pc, flight, resp, cacheTable>>,
             \A q \in Requests : "cache" \in known'[q] => "cache" \in known[q]
      PROVE  CacheKnown'
  BY <1>3 DEF flight, Caches
<1>4. CASE (\E k \in Keys : ExpireReplay(k)) \/ ClearReplay \/ ExpireSticky
  BY <1>3, <1>4 DEF ExpireReplay, ClearReplay, DropRecordings, ExpireSticky, Forget, TypeOK, ObserverType
<1>5. CASE AllAnswered
  BY <1>3, <1>5 DEF AllAnswered, vars, tables
<1> QED BY <1>1, <1>2, <1>4, <1>5 DEF Next

\* Over a reliable store, for any requests and any schedule: a recording that
\* is there when a request arrives answers it.
THEOREM ReplayFirst == ~Lossy => (Spec => []ReplayPriority)
<1> SUFFICES ASSUME ~Lossy PROVE Spec => []ReplayPriority
  OBVIOUS
<1>1. Init => ReplayKnown
  BY DEF Init, ReplayKnown
<1>2. TypeOK /\ InFlight /\ ReplayKnown /\ [Next]_vars => ReplayKnown'
  <2>1. ASSUME UNCHANGED vars, ReplayKnown PROVE ReplayKnown'
    BY <2>1 DEF vars, flight, tables, ReplayKnown, Key
  <2> QED BY <2>1, StepReplayKnown
<1>3. ReplayKnown => ReplayPriority
  BY DEF ReplayKnown, ReplayPriority
<1> QED BY <1>1, <1>2, <1>3, TypeCorrect, PTL DEF Spec

\* Likewise a cached answer that is there when a GET arrives keeps it from the
\* upstream and from the handler.
THEOREM CacheFirst == ~Lossy => (Spec => []CachePriority)
<1> SUFFICES ASSUME ~Lossy PROVE Spec => []CachePriority
  OBVIOUS
<1>1. Init => CacheKnown
  BY DEF Init, CacheKnown
<1>2. TypeOK /\ InFlight /\ CacheKnown /\ [Next]_vars => CacheKnown'
  <2>1. ASSUME UNCHANGED vars, CacheKnown PROVE CacheKnown'
    BY <2>1 DEF vars, flight, tables, CacheKnown, Caches
  <2> QED BY <2>1, StepCacheKnown
<1>3. CacheKnown => CachePriority
  BY DEF CacheKnown, CachePriority
<1> QED BY <1>1, <1>2, <1>3, TypeCorrect, PTL DEF Spec

-----------------------------------------------------------------------------
(* Which requests call the upstream, and what is recorded of each.         *)

\* Requests whose answer is not made yet.
Ahead == {"idle", "validate", "latency", "replayRead", "replayCheck", "cacheRead",
          "stickyCheck", "call"}

\* Only a call leads to the steps behind it, and a failed one to the handler.
CallsAgree ==
    \A r \in Requests :
        /\ pc[r] \in Ahead => ~called[r] /\ ~failed[r]
        /\ pc[r] \in {"setSticky", "handler", "recordGenerated"} => failed[r] = called[r]
        /\ pc[r] \in {"stickyCheck", "clearSticky", "setSticky"} => shape[r].upstream = "sticky"

\* The marker keeps the requests that arrived under it away from the upstream.
MarkerHolds ==
    \A r \in Requests : "marked" \in known[r] =>
        shape[r].upstream = "sticky" /\ sticky /\ Calling = {} /\ ~called[r]

LEMMA StepCallsAgree ==
  ASSUME TypeOK, InFlight, CallsAgree, Next
  PROVE  CallsAgree'
<1> USE Stable, ShapeFields DEF CallsAgree, Ahead
<1>1. ASSUME NEW r \in Requests, RequestStep(r) PROVE CallsAgree'
  <2> SUFFICES ASSUME NEW q \in Requests
               PROVE  /\ pc'[q] \in Ahead => ~called'[q] /\ ~failed'[q]
                      /\ pc'[q] \in {"setSticky", "handler", "recordGenerated"} => failed'[q] = called'[q]
                      /\ pc'[q] \in {"stickyCheck", "clearSticky", "setSticky"} => shape'[q].upstream = "sticky"
    BY DEF CallsAgree
  <2> USE DEF TypeOK, FlightType, Goto, End
  <2>1. CASE q # r
    BY <1>1, <2>1, OthersStay
  <2>2. CASE q = r /\ CallUpstream(r)
    <3>1. /\ pc[r] = "call" /\ called'[r] = TRUE /\ failed[r] = FALSE
          /\ \/ failed' = failed /\ pc'[r] \in {"recordSuccess", AfterSuccess(r), "cacheError", AfterError(r)}
             \/ failed'[r] = TRUE /\ pc'[r] = IF shape[r].upstream = "sticky" THEN "setSticky" ELSE "handler"
      BY <2>2 DEF CallUpstream
    <3>2. AfterSuccess(r) = "clearSticky" => shape[r].upstream = "sticky"
      BY DEF AfterSuccess, AfterSticky, Return
    <3> QED BY <2>2, <3>1, <3>2, NextStop
  <2>3. CASE q = r /\ ~CallUpstream(r)
    <3>1. called' = called /\ failed' = failed
      BY <1>1, <2>3 DEF RequestStep, UpstreamStep, Arrive, ValidateRequest, LatencyAndError,
         ReplayRead, ReplayCheck, CacheRead, StickyCheck, RecordSuccess, ClearSticky,
         CacheSuccess, CacheError, RecordError, SetSticky, Handle, RecordGenerated,
         CacheGenerated, ReplayWrite, Reply, flight
    <3>2. /\ EnterUpstream(r) = "stickyCheck" => shape[r].upstream = "sticky"
          /\ EnterCacheRead(r) = "stickyCheck" => shape[r].upstream = "sticky"
          /\ EnterReplay(r) = "stickyCheck" => shape[r].upstream = "sticky"
          /\ AfterSuccess(r) = "clearSticky" => shape[r].upstream = "sticky"
      BY DEF EnterUpstream, EnterCacheRead, EnterReplay, AfterSuccess, AfterSticky, Return
    <3>3. CASE Arrive(r) \/ ValidateRequest(r) \/ LatencyAndError(r) \/ ReplayRead(r)
               \/ ReplayCheck(r) \/ CacheRead(r) \/ StickyCheck(r)
      <4>1. ~called[r] /\ ~failed[r]
        BY <3>3 DEF Arrive, ValidateRequest, LatencyAndError, ReplayRead, ReplayCheck,
           CacheRead, StickyCheck
      <4>2. pc'[r] \in {"validate", "latency", "done", "replayCheck", "reply", "handler", "call",
                        EnterReplay(r), EnterCacheRead(r), EnterUpstream(r), Return(r)}
        BY <3>3 DEF Arrive, ValidateRequest, LatencyAndError, ReplayRead, ReplayCheck,
           CacheRead, StickyCheck
      <4> QED BY <2>3, <3>1, <3>2, <4>1, <4>2, NextStop
    <3>4. CASE RecordSuccess(r) \/ ClearSticky(r) \/ CacheSuccess(r) \/ CacheError(r)
               \/ RecordError(r) \/ SetSticky(r)
      BY <2>3, <3>1, <3>2, <3>4, NextStop DEF RecordSuccess, ClearSticky, CacheSuccess,
         CacheError, RecordError, SetSticky
    <3>5. CASE Handle(r) \/ RecordGenerated(r) \/ CacheGenerated(r) \/ ReplayWrite(r) \/ Reply(r)
      BY <2>3, <3>1, <3>2, <3>5, NextStop DEF Handle, RecordGenerated, CacheGenerated,
         ReplayWrite, Reply
    <3> QED BY <1>1, <2>3, <3>3, <3>4, <3>5 DEF RequestStep, UpstreamStep
  <2> QED BY <2>1, <2>2, <2>3
<1>2. ASSUME UNCHANGED <<pc, shape, called, failed>> PROVE CallsAgree'
  BY <1>2
<1> QED BY <1>1, <1>2 DEF Next, AllAnswered, vars, flight, ExpireReplay, ClearReplay, DropRecordings, ExpireCache, ExpireSticky

LEMMA StepMarkerHolds ==
  ASSUME ~Lossy, TypeOK, InFlight, CallsAgree, MarkerHolds, Next
  PROVE  MarkerHolds'
<1> USE Stable, ShapeFields DEF MarkerHolds
<1>1. ASSUME NEW r \in Requests, RequestStep(r) PROVE MarkerHolds'
  <2> SUFFICES ASSUME NEW q \in Requests, "marked" \in known'[q]
               PROVE  shape[q].upstream = "sticky" /\ sticky' /\ Calling' = {} /\ ~called'[q]
    OBVIOUS
  <2> USE DEF TypeOK, FlightType, TableType, ObserverType, Goto, End
  <2>1. shape[q].upstream = "sticky" /\ sticky /\ Calling = {} /\ ~called[q]
    <3>1. CASE Arrive(r) /\ q = r
      <4>1. pc[r] = "idle" /\ "marked" \in FactsFor(shape[r])
        BY <3>1 DEF Arrive
      <4> QED BY <3>1, <4>1 DEF FactsFor, CallsAgree, Ahead
    <3>2. CASE q # r
      BY <1>1, <3>2, OthersStay
    <3>3. CASE ~Arrive(r)
      <4>1. known' = known
        BY <1>1, <3>3 DEF RequestStep, UpstreamStep, ValidateRequest, LatencyAndError,
           ReplayRead, ReplayCheck, CacheRead, StickyCheck, CallUpstream, RecordSuccess,
           ClearSticky, CacheSuccess, CacheError, RecordError, SetSticky, Handle,
           RecordGenerated, CacheGenerated, ReplayWrite, Reply
      <4> QED BY <4>1
    <3> QED BY <3>1, <3>2, <3>3
  <2>2. r \notin Calling
    BY <2>1
  <2>3. ~ClearSticky(r)
    BY <2>2 DEF ClearSticky, Calling, CallsAgree
  <2>4. sticky'
    <3>1. sticky' = sticky \/ SetSticky(r)
      BY <1>1, <2>3 DEF RequestStep, UpstreamStep, Arrive, ValidateRequest, LatencyAndError,
         ReplayRead, ReplayCheck, CacheRead, StickyCheck, CallUpstream, RecordSuccess,
         CacheSuccess, CacheError, RecordError, Handle, RecordGenerated, CacheGenerated,
         ReplayWrite, Reply, tables
    <3> QED BY <2>1, <3>1 DEF SetSticky, Writes
  <2>5. shape[r].upstream = "sticky" => pc'[r] \notin {"call", "recordSuccess", "clearSticky"}
    <3> SUFFICES ASSUME shape[r].upstream = "sticky"
                 PROVE  pc'[r] \notin {"call", "recordSuccess", "clearSticky"}
      OBVIOUS
    <3>1. pc[r] \notin {"call", "recordSuccess", "clearSticky"}
      BY <2>2 DEF Calling
    <3>2. EnterUpstream(r) = "stickyCheck"
      BY DEF EnterUpstream
    <3>3. {EnterCacheRead(r), EnterReplay(r), AfterSticky(r), Return(r), AfterError(r), AfterGenerated(r)}
             \cap {"call", "recordSuccess", "clearSticky"} = {}
      BY <3>2 DEF EnterCacheRead, EnterReplay, AfterSticky, Return, AfterError, AfterGenerated
    <3>4. CASE StickyCheck(r)
      BY <2>1, <3>4 DEF StickyCheck
    <3>5. CASE Arrive(r) \/ ValidateRequest(r) \/ LatencyAndError(r) \/ ReplayRead(r)
               \/ ReplayCheck(r) \/ CacheRead(r)
      BY <3>2, <3>3, <3>5 DEF Arrive, ValidateRequest, LatencyAndError, ReplayRead,
         ReplayCheck, CacheRead
    <3>6. CASE CacheSuccess(r) \/ CacheError(r) \/ RecordError(r) \/ SetSticky(r) \/ Handle(r)
               \/ RecordGenerated(r) \/ CacheGenerated(r) \/ ReplayWrite(r) \/ Reply(r)
      BY <3>3, <3>6 DEF CacheSuccess, CacheError, RecordError, SetSticky, Handle,
         RecordGenerated, CacheGenerated, ReplayWrite, Reply
    <3>7. ~(CallUpstream(r) \/ RecordSuccess(r) \/ ClearSticky(r))
      BY <3>1 DEF CallUpstream, RecordSuccess, ClearSticky
    <3> QED BY <1>1, <3>4, <3>5, <3>6, <3>7 DEF RequestStep, UpstreamStep
  <2>6. Calling' = {}
    <3> SUFFICES ASSUME NEW p \in Requests
                 PROVE  ~(shape'[p].upstream = "sticky"
                          /\ pc'[p] \in {"call", "recordSuccess", "clearSticky"})
      BY DEF Calling
    <3>1. CASE p = r
      BY <2>5, <3>1
    <3>2. CASE p # r
      BY <1>1, <2>1, <3>2, OthersStay DEF Calling
    <3> QED BY <3>1, <3>2
  <2>7. ~called'[q]
    <3>1. CASE q = r
      <4>1. ~CallUpstream(r)
        BY <2>1, <2>2, <3>1 DEF CallUpstream, Calling
      <4>2. called' = called
        BY <1>1, <4>1 DEF RequestStep, UpstreamStep, Arrive, ValidateRequest, LatencyAndError,
           ReplayRead, ReplayCheck, CacheRead, StickyCheck, RecordSuccess, ClearSticky,
           CacheSuccess, CacheError, RecordError, SetSticky, Handle, RecordGenerated,
           CacheGenerated, ReplayWrite, Reply, flight
      <4> QED BY <2>1, <4>2
    <3>2. CASE q # r
      BY <1>1, <2>1, <3>2, OthersStay
    <3> QED BY <3>1, <3>2
  <2> QED BY <2>1, <2>4, <2>6, <2>7
<1>2. CASE ExpireSticky
  BY <1>2 DEF ExpireSticky, Forget, TypeOK, ObserverType
<1>3. ASSUME UNCHANGED <<pc, flight, sticky>>,
             \A q \in Requests : "marked" \in known'[q] => "marked" \in known[q]
      PROVE  MarkerHolds'
  BY <1>3 DEF flight, Calling
<1>4. CASE (\E k \in Keys : ExpireReplay(k)) \/ ClearReplay \/ (\E u \in URLs : ExpireCache(u))
  BY <1>3, <1>4 DEF ExpireReplay, ClearReplay, DropRecordings, ExpireCache, Forget, TypeOK, ObserverType
<1>5. CASE AllAnswered
  BY <1>3, <1>5 DEF AllAnswered, vars, tables
<1> QED BY <1>1, <1>2, <1>4, <1>5 DEF Next

\* Over a reliable store: a request that arrives while the upstream is marked
\* as failing, and nobody is calling it, does not call it before the marker
\* expires.
THEOREM MarkerKept == ~Lossy => (Spec => []StickyHolds)
<1> SUFFICES ASSUME ~Lossy PROVE Spec => []StickyHolds
  OBVIOUS
<1>1. Init => CallsAgree /\ MarkerHolds
  BY DEF Init, CallsAgree, Ahead, MarkerHolds
<1>2. TypeOK /\ InFlight /\ CallsAgree /\ MarkerHolds /\ [Next]_vars => (CallsAgree /\ MarkerHolds)'
  <2> SUFFICES ASSUME TypeOK, InFlight, CallsAgree, MarkerHolds, [Next]_vars
               PROVE  (CallsAgree /\ MarkerHolds)'
    OBVIOUS
  <2>1. CASE Next
    BY <2>1, StepCallsAgree, StepMarkerHolds
  <2>2. CASE UNCHANGED vars
    BY <2>2 DEF vars, flight, tables, CallsAgree, MarkerHolds, Calling
  <2> QED BY <2>1, <2>2
<1>3. MarkerHolds => StickyHolds
  BY DEF MarkerHolds, StickyHolds
<1> QED BY <1>1, <1>2, <1>3, TypeCorrect, PTL DEF Spec

\* What history owes a request that has its answer.
Owed(r) ==
    IF RecordHistory /\ resp[r] # None /\ resp[r].source \in {"upstream", "generated"}
    THEN <<[body |-> resp[r].body, upstream |-> resp[r].source = "upstream",
            failed |-> resp[r].source = "generated" /\ called[r]]>>
    ELSE <<>>

Unrecorded == Ahead \cup {"recordSuccess", "cacheError", "recordError", "setSticky", "handler",
                          "recordGenerated"}
Recorded   == {"clearSticky", "cacheSuccess", "cacheGenerated", "replayWrite", "reply", "done"}

HistoryAgree ==
    \A r \in Requests :
        /\ pc[r] \in Unrecorded => history[r] = <<>>
        /\ pc[r] \in Recorded => history[r] = Owed(r)
        /\ pc[r] \in {"recordSuccess", "recordError", "recordGenerated"} => RecordHistory
        /\ pc[r] \in {"recordSuccess", "recordError", "cacheError"} => resp[r].source = "upstream"
        /\ pc[r] = "recordGenerated" => resp[r].source = "generated"

LEMMA StepHistoryAgree ==
  ASSUME ~Lossy, TypeOK, InFlight, CallsAgree, HistoryAgree, Next
  PROVE  HistoryAgree'
<1>1. ASSUME NEW r \in Requests, RequestStep(r) PROVE HistoryAgree'
  <2> USE DEF TypeOK, FlightType, TableType
  <2>1. ASSUME NEW q \in Requests, q # r
        PROVE  /\ pc'[q] = pc[q] /\ resp'[q] = resp[q] /\ history'[q] = history[q]
               /\ Owed(q)' = Owed(q)
    BY <1>1, <2>1, OthersStay DEF Owed
  <2>2. SUFFICES
          /\ pc'[r] \in Unrecorded => history'[r] = <<>>
          /\ pc'[r] \in Recorded => history'[r] = Owed(r)'
          /\ pc'[r] \in {"recordSuccess", "recordError", "recordGenerated"} => RecordHistory
          /\ pc'[r] \in {"recordSuccess", "recordError", "cacheError"} => resp'[r].source = "upstream"
          /\ pc'[r] = "recordGenerated" => resp'[r].source = "generated"
    BY <2>1 DEF HistoryAgree
  <2> USE DEF HistoryAgree, Unrecorded, Recorded, Ahead, Goto, End
  <2>3. CASE Arrive(r) \/ ValidateRequest(r) \/ LatencyAndError(r) \/ ReplayCheck(r)
             \/ StickyCheck(r) \/ SetSticky(r)
    <3>1. /\ pc[r] \in Unrecorded /\ pc[r] \notin Returning /\ pc[r] # "done"
          /\ UNCHANGED <<history, resp>>
      BY <2>3 DEF Arrive, ValidateRequest, LatencyAndError, ReplayCheck, StickyCheck, SetSticky,
         Returning, tables
    <3>2. history[r] = <<>> /\ resp[r] = None
      BY <3>1 DEF InFlight
    <3>3. pc'[r] \in {"validate", "latency", "handler", "call", "done", EnterReplay(r), EnterCacheRead(r)}
      BY <2>3 DEF Arrive, ValidateRequest, LatencyAndError, ReplayCheck, StickyCheck, SetSticky
    <3> QED BY <3>1, <3>2, <3>3, NextStop DEF Owed
  <2>4. CASE ReplayRead(r) \/ CacheRead(r)
    <3>1. pc[r] \in Ahead /\ pc[r] \notin Returning /\ pc[r] # "done" /\ UNCHANGED history
      BY <2>4 DEF ReplayRead, CacheRead, Returning, tables
    <3>2. history[r] = <<>> /\ resp[r] = None
      BY <3>1 DEF InFlight
    <3>3. \/ pc'[r] \in {"replayCheck", EnterUpstream(r)}
          \/ pc'[r] \in {"reply", Return(r)} /\ resp'[r].source \in {"replay", "cache"}
      BY <2>4 DEF ReplayRead, CacheRead, Produce
    <3> QED BY <3>1, <3>2, <3>3, NextStop DEF Owed
  <2>5. CASE CallUpstream(r)
    <3>1. history[r] = <<>> /\ UNCHANGED history
      BY <2>5 DEF CallUpstream, tables
    <3>2. \/ pc'[r] \in {"setSticky", "handler"}
          \/ resp'[r].source = "upstream" /\ pc'[r] = "cacheError"
          \/ resp'[r].source = "upstream" /\ RecordHistory /\ pc'[r] \in {"recordSuccess", "recordError"}
          \/ ~RecordHistory /\ pc'[r] \in {AfterSuccess(r), Return(r)}
      BY <2>5 DEF CallUpstream, Produce, AfterError
    <3> QED BY <3>1, <3>2, NextStop DEF Owed
  <2>6. CASE RecordSuccess(r) \/ RecordError(r)
    <3>1. /\ RecordHistory /\ resp[r].source = "upstream" /\ resp[r] # None /\ history[r] = <<>>
          /\ UNCHANGED <<resp, called>>
      BY <2>6 DEF RecordSuccess, RecordError, flight, InFlight, Returning
    <3>2. history'[r] = Append(history[r], [body |-> resp[r].body, upstream |-> TRUE, failed |-> FALSE])
      BY <2>6 DEF RecordSuccess, RecordError, Record, Writes
    <3>3. Owed(r)' = <<[body |-> resp[r].body, upstream |-> TRUE, failed |-> FALSE]>>
      BY <3>1 DEF Owed
    <3>4. pc'[r] \in {"clearSticky", "cacheSuccess", "replayWrite", "reply"}
      BY <2>6, NextStop DEF RecordSuccess, RecordError
    <3> QED BY <3>1, <3>2, <3>3, <3>4
  <2>7. CASE RecordGenerated(r)
    <3>1. /\ RecordHistory /\ resp[r].source = "generated" /\ resp[r] # None /\ history[r] = <<>>
          /\ UNCHANGED <<resp, called>> /\ failed[r] = called[r]
      BY <2>7 DEF RecordGenerated, flight, InFlight, Returning, CallsAgree
    <3>2. history'[r] = Append(history[r], [body |-> resp[r].body, upstream |-> FALSE, failed |-> failed[r]])
      BY <2>7 DEF RecordGenerated, Record, Writes
    <3>3. Owed(r)' = <<[body |-> resp[r].body, upstream |-> FALSE, failed |-> failed[r]]>>
      <4>1. (resp[r].source = "upstream") = FALSE /\ (resp[r].source = "generated" /\ called[r]) = called[r]
        BY <3>1
      <4> QED BY <3>1, <4>1 DEF Owed
    <3>4. pc'[r] \in {"cacheGenerated", "replayWrite", "reply"}
      BY <2>7, NextStop DEF RecordGenerated
    <3> QED BY <3>1, <3>2, <3>3, <3>4
  <2>8. CASE ClearSticky(r) \/ CacheSuccess(r) \/ CacheGenerated(r) \/ ReplayWrite(r) \/ Reply(r)
    <3>1. /\ pc[r] \in Recorded /\ UNCHANGED <<history, resp, called>>
      BY <2>8 DEF ClearSticky, CacheSuccess, CacheGenerated, ReplayWrite, Reply, flight, tables
    <3>2. pc'[r] \in {AfterSticky(r), Return(r), "reply", "done"}
      BY <2>8 DEF ClearSticky, CacheSuccess, CacheGenerated, ReplayWrite, Reply
    <3>3. Owed(r)' = Owed(r)
      BY <3>1 DEF Owed
    <3> QED BY <3>1, <3>2, <3>3, NextStop
  <2>9. CASE CacheError(r)
    <3>1. history[r] = <<>> /\ resp[r].source = "upstream" /\ UNCHANGED <<history, resp, called>>
      BY <2>9 DEF CacheError, flight
    <3>2. IF RecordHistory THEN pc'[r] = "recordError" ELSE pc'[r] = Return(r)
      BY <2>9 DEF CacheError, AfterError
    <3> QED BY <3>1, <3>2, NextStop DEF Owed
  <2>10. CASE Handle(r)
    <3>1. history[r] = <<>> /\ UNCHANGED history /\ resp[r] = None
      BY <2>10 DEF Handle, tables, InFlight, Returning
    <3>2. \/ pc'[r] = "done" /\ UNCHANGED resp
          \/ resp'[r].source = "generated" /\ RecordHistory /\ pc'[r] = "recordGenerated"
          \/ ~RecordHistory /\ pc'[r] = AfterGenerated(r)
      BY <2>10 DEF Handle, Produce
    <3> QED BY <3>1, <3>2, NextStop DEF Owed
  <2> QED BY <1>1, <2>3, <2>4, <2>5, <2>6, <2>7, <2>8, <2>9, <2>10 DEF RequestStep, UpstreamStep
<1>2. ASSUME UNCHANGED <<pc, resp, called, history>> PROVE HistoryAgree'
  BY <1>2 DEF HistoryAgree, Owed
<1> QED BY <1>1, <1>2 DEF Next, AllAnswered, vars, flight, tables, ExpireReplay, ClearReplay, DropRecordings, ExpireCache,
        ExpireSticky

\* Over a reliable store: when a request is done, history holds one entry for
\* an answer the upstream or the handler made, none for one read from a table,
\* and it tells whether a failed call came before.
THEOREM HistoryKept == ~Lossy => (Spec => []HistoryExact)
<1> SUFFICES ASSUME ~Lossy PROVE Spec => []HistoryExact
  OBVIOUS
<1>1. Init => CallsAgree /\ HistoryAgree
  BY DEF Init, CallsAgree, HistoryAgree, Ahead, Unrecorded, Recorded
<1>2. TypeOK /\ InFlight /\ CallsAgree /\ HistoryAgree /\ [Next]_vars => (CallsAgree /\ HistoryAgree)'
  <2> SUFFICES ASSUME TypeOK, InFlight, CallsAgree, HistoryAgree, [Next]_vars
               PROVE  (CallsAgree /\ HistoryAgree)'
    OBVIOUS
  <2>1. CASE Next
    BY <2>1, StepCallsAgree, StepHistoryAgree
  <2>2. CASE UNCHANGED vars
    BY <2>2 DEF vars, flight, tables, CallsAgree, HistoryAgree, Owed
  <2> QED BY <2>1, <2>2
<1>3. HistoryAgree => HistoryExact
  BY DEF HistoryAgree, Recorded, Owed, HistoryExact, Done
<1> QED BY <1>1, <1>2, <1>3, TypeCorrect, PTL DEF Spec
=============================================================================
