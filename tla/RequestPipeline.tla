-------------------------- MODULE RequestPipeline --------------------------
(***************************************************************************)
(* The middleware chain one service puts in front of its handler           *)
(* (pkg/api/router.go, register): validation, latency and simulated        *)
(* errors, replay read, replay write, cache read, upstream, cache write.   *)
(* Requests run concurrently and meet in the service's tables; a step is   *)
(* one access to a table (pkg/db), one upstream call or one call of the    *)
(* handler, because another request can run between any two of those.      *)
(*                                                                         *)
(* A request's `shape' is what the chain reads of it once the config       *)
(* override headers are applied.  A body is named by the request it was    *)
(* made for: `by' and `from' say who produced it, `ok' that its status is  *)
(* below 400.  An entry that expires just disappears, at any time.         *)
(***************************************************************************)
EXTENDS Naturals, Sequences, FiniteSets

CONSTANTS
    Requests,      \* concurrent requests to the service
    URLs,          \* URLs they ask for
    Pattern,       \* replay pattern and matched values of each URL
    Shapes,        \* the requests clients send
    RecordHistory, \* serviceConfig.HistoryEnabled()
    UpstreamOnly,  \* replay.upstream-only
    Lossy,         \* a storage call may fail (Redis; never the memory tables)
    None           \* no entry, no response

Shape == [method : {"GET", "POST"}, url : URLs,
          replay   : BOOLEAN,    \* replay is activated and the key not empty
          cache    : BOOLEAN,    \* cache.requests
          upstream : {"none", "plain", "sticky"}, \* sticky: sticky-timeout > 0
          validate : BOOLEAN]    \* request and response validation are on

Body == [by : Requests, from : {"upstream", "generated"}, ok : BOOLEAN]
Keys == {"GET", "POST"} \X {Pattern[u] : u \in URLs}

ASSUME PipelineAssumption ==
    /\ Shapes \subseteq Shape
    /\ RecordHistory \in BOOLEAN /\ UpstreamOnly \in BOOLEAN /\ Lossy \in BOOLEAN
    /\ None \notin Body
    /\ None \notin {"served", "simulated", "rejected", "invalid", "refused", "panicked", "gone"}
    /\ None \notin [source : {"upstream", "generated", "cache", "replay"}, body : Body]

VARIABLES
    pc,          \* where each request is
    shape,       \* what it asks for
    resp,        \* the response on its way back: source tag and body
    wraps,       \* requests whose answer the replay writer captures
    failed,      \* requests with an upstreamError in their context
    called,      \* requests that have called the upstream
    answer,      \* how the request ended for its client
    replayTable, \* table "replay"
    cacheTable,  \* table "cache"
    sticky,      \* the marker in table "sticky-source"
    history,     \* the entries recorded for each request, in order
    known        \* observer: what the tables held when the request arrived

flight == <<shape, wraps, failed, called>>
tables == <<replayTable, cacheTable, sticky, history>>
vars   == <<pc, flight, resp, answer, tables, known>>

PC == {"idle", "validate", "latency", "replayRead", "replayCheck", "cacheRead",
       "stickyCheck", "call", "recordSuccess", "clearSticky", "cacheSuccess",
       "cacheError", "recordError", "setSticky", "handler", "recordGenerated",
       "cacheGenerated", "replayWrite", "reply", "done"}
Sources  == {"upstream", "generated", "cache", "replay"}
Response == [source : Sources, body : Body]
Entry    == [body : Body, upstream : BOOLEAN, failed : BOOLEAN]
Answers  == {"served", "simulated", "rejected", "invalid", "refused", "panicked", "gone"}
Facts    == {"replay", "cache", "marked"}
-----------------------------------------------------------------------------
(* Reading and writing the tables. *)

Reads(entry)     == IF Lossy THEN {entry, None} ELSE {entry}
Writes(old, new) == IF Lossy THEN {old, new} ELSE {new}

Goto(r, where) == pc' = [pc EXCEPT ![r] = where]
\* Mutant: the answer carries no source.
Produce_Untagged(r, source, body) ==
    resp' = [resp EXCEPT ![r] = [source |-> "", body |-> body]]
Produce(r, source, body) ==
    resp' = [resp EXCEPT ![r] = [source |-> source, body |-> body]]
End(r, how) == answer' = [answer EXCEPT ![r] = how] /\ Goto(r, "done")

\* buildReplayKey: the method, the pattern and the matched values.
Key(r) == <<shape[r].method, Pattern[shape[r].url]>>

\* isRequestCacheEnabled: only GET is cached.
Caches(r) == shape[r].cache /\ shape[r].method = "GET"

(* The order of the chain: the first step of each middleware that applies. *)

EnterUpstream(r) == CASE shape[r].upstream = "none"   -> "handler"
                      [] shape[r].upstream = "plain"  -> "call"
                      [] shape[r].upstream = "sticky" -> "stickyCheck"
\* Mutant: the upstream goes before the cache.
EnterCacheRead_UpstreamFirst(r) ==
    IF Caches(r) /\ shape[r].upstream = "none" THEN "cacheRead" ELSE EnterUpstream(r)
EnterCacheRead(r) == IF Caches(r) THEN "cacheRead" ELSE EnterUpstream(r)
EnterReplay(r)    == IF shape[r].replay THEN "replayRead" ELSE EnterCacheRead(r)
Return(r)         == IF wraps[r] THEN "replayWrite" ELSE "reply"
AfterSticky(r)    == IF Caches(r) THEN "cacheSuccess" ELSE Return(r)
AfterSuccess(r)   == IF shape[r].upstream = "sticky" THEN "clearSticky" ELSE AfterSticky(r)
AfterError(r)     == IF RecordHistory THEN "recordError" ELSE Return(r)
AfterGenerated(r) == IF Caches(r) THEN "cacheGenerated" ELSE Return(r)

\* Requests past the sticky check whose call may still clear the marker.
Calling == {r \in Requests : shape[r].upstream = "sticky"
                          /\ pc[r] \in {"call", "recordSuccess", "clearSticky"}}

\* What an observer could have found in the tables when s arrived.
FactsFor(s) ==
    {f \in Facts :
        \/ f = "replay" /\ s.replay /\ replayTable[<<s.method, Pattern[s.url]>>] # None
        \/ f = "cache" /\ s.cache /\ s.method = "GET" /\ cacheTable[s.url] # None
        \/ f = "marked" /\ s.upstream = "sticky" /\ sticky /\ Calling = {}}
-----------------------------------------------------------------------------
Init ==
    /\ pc = [r \in Requests |-> "idle"]
    /\ shape \in [Requests -> Shapes]
    /\ resp = [r \in Requests |-> None]
    /\ wraps = [r \in Requests |-> FALSE]
    /\ failed = [r \in Requests |-> FALSE]
    /\ called = [r \in Requests |-> FALSE]
    /\ answer = [r \in Requests |-> None]
    /\ replayTable = [k \in Keys |-> None]
    /\ cacheTable = [u \in URLs |-> None]
    /\ sticky = FALSE
    /\ history = [r \in Requests |-> <<>>]
    /\ known = [r \in Requests |-> {}]

\* The router dispatches the request into the service's chain.
Arrive(r) ==
    /\ pc[r] = "idle"
    /\ Goto(r, IF shape[r].validate THEN "validate" ELSE "latency")
    /\ known' = [known EXCEPT ![r] = FactsFor(shape[r])]
    /\ UNCHANGED <<flight, resp, answer, tables>>

\* Request validation lets the request through (a validator that panics or
\* times out does too) or answers 400.
ValidateRequest(r) ==
    /\ pc[r] = "validate"
    /\ \/ Goto(r, "latency") /\ UNCHANGED answer
       \/ End(r, "rejected")
    /\ UNCHANGED <<flight, resp, tables, known>>

\* The configured latency passes, or the client leaves while it does; then a
\* simulated error may answer before any table is read.
LatencyAndError(r) ==
    /\ pc[r] = "latency"
    /\ \/ Goto(r, EnterReplay(r)) /\ UNCHANGED answer
       \/ End(r, "gone")
       \/ End(r, "simulated")
    /\ UNCHANGED <<flight, resp, tables, known>>

\* Mutant: a cached answer goes before the recording.
ReplayRead_CacheFirst(r) ==
    /\ pc[r] = "replayRead"
    /\ \E rec \in Reads(replayTable[Key(r)]) :
         \/ Caches(r) /\ cacheTable[shape[r].url] # None /\ Goto(r, "cacheRead") /\ UNCHANGED resp
         \/ rec = None /\ Goto(r, "replayCheck") /\ UNCHANGED resp
         \/ rec # None /\ Produce(r, "replay", rec) /\ Goto(r, "reply")
    /\ UNCHANGED <<flight, answer, tables, known>>
ReplayRead(r) ==
    /\ pc[r] = "replayRead"
    /\ \E rec \in Reads(replayTable[Key(r)]) :
         \/ rec = None /\ Goto(r, "replayCheck") /\ UNCHANGED resp
         \/ rec # None /\ Produce(r, "replay", rec) /\ Goto(r, "reply")
    /\ UNCHANGED <<flight, answer, tables, known>>

\* The replay writer's own look-up: an answer is captured unless one is
\* recorded already.
ReplayCheck(r) ==
    /\ pc[r] = "replayCheck"
    /\ \E rec \in Reads(replayTable[Key(r)]) :
         wraps' = [wraps EXCEPT ![r] = (rec = None)]
    /\ Goto(r, EnterCacheRead(r))
    /\ UNCHANGED <<shape, failed, called, resp, answer, tables, known>>

CacheRead(r) ==
    /\ pc[r] = "cacheRead"
    /\ \E hit \in Reads(cacheTable[shape[r].url]) :
         \/ hit = None /\ Goto(r, EnterUpstream(r)) /\ UNCHANGED resp
         \/ hit # None /\ Produce(r, "cache", hit) /\ Goto(r, Return(r))
    /\ UNCHANGED <<flight, answer, tables, known>>

\* Mutant: the marker is looked up under another key than it is set.
StickyCheck_WrongKey(r) ==
    /\ pc[r] = "stickyCheck"
    /\ Goto(r, "call")
    /\ UNCHANGED <<flight, resp, answer, tables, known>>
StickyCheck(r) ==
    /\ pc[r] = "stickyCheck"
    /\ \E seen \in IF Lossy THEN {sticky, FALSE} ELSE {sticky} :
         Goto(r, IF seen THEN "handler" ELSE "call")
    /\ UNCHANGED <<flight, resp, answer, tables, known>>

\* getUpstreamResponse: the request's headers are thinned in place and the
\* upstream answers, answers with an error that fail-on names, or fails.
CallUpstream(r) ==
    /\ pc[r] = "call"
    /\ called' = [called EXCEPT ![r] = TRUE]
    /\ \/ /\ Produce(r, "upstream", [by |-> r, from |-> "upstream", ok |-> TRUE])
          /\ Goto(r, IF RecordHistory THEN "recordSuccess" ELSE AfterSuccess(r))
          /\ UNCHANGED failed
       \/ /\ Produce(r, "upstream", [by |-> r, from |-> "upstream", ok |-> FALSE])
          /\ Goto(r, IF Caches(r) THEN "cacheError" ELSE AfterError(r))
          /\ UNCHANGED failed
       \/ /\ failed' = [failed EXCEPT ![r] = TRUE]
          /\ Goto(r, IF shape[r].upstream = "sticky" THEN "setSticky" ELSE "handler")
          /\ UNCHANGED resp
    /\ UNCHANGED <<shape, wraps, answer, tables, known>>

\* history.Set under safeWrite: the entry is appended, or lost with the store.
Record(r, entry) ==
    \E log \in Writes(history[r], Append(history[r], entry)) :
        history' = [history EXCEPT ![r] = log]

\* getUpstreamResponse records a success before it returns.
RecordSuccess(r) ==
    /\ pc[r] = "recordSuccess"
    /\ Record(r, [body |-> resp[r].body, upstream |-> TRUE, failed |-> FALSE])
    /\ Goto(r, AfterSuccess(r))
    /\ UNCHANGED <<flight, resp, answer, replayTable, cacheTable, sticky, known>>

ClearSticky(r) ==
    /\ pc[r] = "clearSticky"
    /\ sticky' \in Writes(sticky, FALSE)
    /\ Goto(r, AfterSticky(r))
    /\ UNCHANGED <<flight, resp, answer, replayTable, cacheTable, history, known>>

\* Mutant: the cache is keyed by the replay pattern instead of the URL.
WriteCache_ByPattern(r) ==
    \E e \in {cacheTable[Pattern[shape[r].url]], resp[r].body} :
        cacheTable' = [cacheTable EXCEPT ![Pattern[shape[r].url]] = e]
\* writeCache: a body above maxCacheBodyBytes is not stored.
WriteCache(r) ==
    \E e \in {cacheTable[shape[r].url], resp[r].body} :
        cacheTable' = [cacheTable EXCEPT ![shape[r].url] = e]

CacheSuccess(r) ==
    /\ pc[r] = "cacheSuccess"
    /\ WriteCache(r)
    /\ Goto(r, Return(r))
    /\ UNCHANGED <<flight, resp, answer, replayTable, sticky, history, known>>

\* An error fail-on names is cached first and recorded after.
CacheError(r) ==
    /\ pc[r] = "cacheError"
    /\ WriteCache(r)
    /\ Goto(r, AfterError(r))
    /\ UNCHANGED <<flight, resp, answer, replayTable, sticky, history, known>>

RecordError(r) ==
    /\ pc[r] = "recordError"
    /\ Record(r, [body |-> resp[r].body, upstream |-> TRUE, failed |-> FALSE])
    /\ Goto(r, Return(r))
    /\ UNCHANGED <<flight, resp, answer, replayTable, cacheTable, sticky, known>>

\* Any other failure falls back to the handler and marks the service.
SetSticky(r) ==
    /\ pc[r] = "setSticky"
    /\ sticky' \in Writes(sticky, TRUE)
    /\ Goto(r, "handler")
    /\ UNCHANGED <<flight, resp, answer, replayTable, cacheTable, history, known>>

\* The service's handler, called from the cache writer, generates an answer or
\* panics (the router's Recoverer then answers 500 and nothing is recorded).
Handle(r) ==
    /\ pc[r] = "handler"
    /\ \/ /\ \E ok \in BOOLEAN :
               Produce(r, "generated", [by |-> r, from |-> "generated", ok |-> ok])
          /\ Goto(r, IF RecordHistory THEN "recordGenerated" ELSE AfterGenerated(r))
          /\ UNCHANGED answer
       \/ End(r, "panicked") /\ UNCHANGED resp
    /\ UNCHANGED <<flight, tables, known>>

\* Mutant: the upstream's failure is not recorded with the fallback.
RecordGenerated_NoError(r) ==
    /\ pc[r] = "recordGenerated"
    /\ Record(r, [body |-> resp[r].body, upstream |-> FALSE, failed |-> FALSE])
    /\ Goto(r, AfterGenerated(r))
    /\ UNCHANGED <<flight, resp, answer, replayTable, cacheTable, sticky, known>>
RecordGenerated(r) ==
    /\ pc[r] = "recordGenerated"
    /\ Record(r, [body |-> resp[r].body, upstream |-> FALSE, failed |-> failed[r]])
    /\ Goto(r, AfterGenerated(r))
    /\ UNCHANGED <<flight, resp, answer, replayTable, cacheTable, sticky, known>>

CacheGenerated(r) ==
    /\ pc[r] = "cacheGenerated"
    /\ WriteCache(r)
    /\ Goto(r, Return(r))
    /\ UNCHANGED <<flight, resp, answer, replayTable, sticky, history, known>>

\* What the replay writer refuses to pass on: upstream-only is set and the
\* answer is neither the upstream's nor read from a table.
Refuses(r) == UpstreamOnly /\ resp[r].source \notin {"upstream", "cache", "replay"}

\* Mutant: any answer is recorded, wherever it was read.
Recordable_AnySource(r) == ~Refuses(r)
\* What it records.
Recordable(r) == resp[r].source \notin {"cache", "replay"} /\ ~Refuses(r)

ReplayWrite(r) ==
    /\ pc[r] = "replayWrite"
    /\ IF Refuses(r) THEN End(r, "refused") ELSE Goto(r, "reply") /\ UNCHANGED answer
    /\ \E rec \in IF Recordable(r) THEN Writes(replayTable[Key(r)], resp[r].body)
                  ELSE {replayTable[Key(r)]} :
         replayTable' = [replayTable EXCEPT ![Key(r)] = rec]
    /\ UNCHANGED <<flight, resp, cacheTable, sticky, history, known>>

\* The answer leaves the chain; response validation replaces a 2xx it rejects.
Reply(r) ==
    /\ pc[r] = "reply"
    /\ \/ End(r, "served")
       \/ shape[r].validate /\ resp[r].body.ok /\ End(r, "invalid")
    /\ UNCHANGED <<flight, resp, tables, known>>

(* Entries expire, each at its own time. *)

Forget(who, fact) == known' = [r \in Requests |-> IF r \in who THEN known[r] \ fact ELSE known[r]]

DropRecordings(K) ==
    /\ replayTable' = [k \in Keys |-> IF k \in K THEN None ELSE replayTable[k]]
    /\ Forget({r \in Requests : Key(r) \in K}, {"replay"})
    /\ UNCHANGED <<pc, flight, resp, answer, cacheTable, sticky, history>>

\* A recording runs out, or the replay API deletes it.
ExpireReplay(k) == replayTable[k] # None /\ DropRecordings({k})

\* The replay API clears the table; Redis may keep some.
ClearReplay ==
    /\ \E k \in Keys : replayTable[k] # None
    /\ \E K \in IF Lossy THEN SUBSET Keys ELSE {Keys} : DropRecordings(K)

ExpireCache(u) ==
    /\ cacheTable[u] # None
    /\ cacheTable' = [cacheTable EXCEPT ![u] = None]
    /\ Forget({r \in Requests : shape[r].url = u}, {"cache"})
    /\ UNCHANGED <<pc, flight, resp, answer, replayTable, sticky, history>>

ExpireSticky ==
    /\ sticky
    /\ sticky' = FALSE
    /\ Forget(Requests, {"marked"})
    /\ UNCHANGED <<pc, flight, resp, answer, replayTable, cacheTable, history>>

\* Every request has been answered.
AllAnswered == (\A r \in Requests : pc[r] = "done") /\ UNCHANGED vars

UpstreamStep(r) ==
    \/ StickyCheck(r) \/ CallUpstream(r) \/ RecordSuccess(r) \/ ClearSticky(r)
    \/ CacheSuccess(r) \/ CacheError(r) \/ RecordError(r) \/ SetSticky(r)

RequestStep(r) ==
    \/ Arrive(r) \/ ValidateRequest(r) \/ LatencyAndError(r)
    \/ ReplayRead(r) \/ ReplayCheck(r) \/ CacheRead(r)
    \/ UpstreamStep(r)
    \/ Handle(r) \/ RecordGenerated(r) \/ CacheGenerated(r)
    \/ ReplayWrite(r) \/ Reply(r)

Next ==
    \/ \E r \in Requests : RequestStep(r)
    \/ \E k \in Keys : ExpireReplay(k)
    \/ ClearReplay
    \/ \E u \in URLs : ExpireCache(u)
    \/ ExpireSticky
    \/ AllAnswered

Spec == Init /\ [][Next]_vars
-----------------------------------------------------------------------------
(* Types, in named parts: the proofs take them one at a time. *)

FlightType ==
    /\ pc \in [Requests -> PC]
    /\ shape \in [Requests -> Shapes]
    /\ resp \in [Requests -> Response \cup {None}]
    /\ wraps \in [Requests -> BOOLEAN]
    /\ failed \in [Requests -> BOOLEAN]
    /\ called \in [Requests -> BOOLEAN]
    /\ answer \in [Requests -> Answers \cup {None}]

TableType ==
    /\ replayTable \in [Keys -> Body \cup {None}]
    /\ cacheTable \in [URLs -> Body \cup {None}]
    /\ sticky \in BOOLEAN
    /\ history \in [Requests -> Seq(Entry)]

ObserverType == known \in [Requests -> SUBSET Facts]

\* The variables hold values of their types.
TypeOK == FlightType /\ TableType /\ ObserverType

Done(r) == pc[r] = "done"

\* X-Mockzilla-Source tells the truth: "upstream" and "generated" name a body
\* made for this request, "cache" one made for another GET of the same URL and
\* "replay" one that another replay request of the same method, pattern and
\* matched values got from the upstream or the handler.
Truthful(r, source, b) ==
    /\ source \in {"upstream", "generated"} => b.by = r /\ b.from = source
    /\ source = "cache" =>
         /\ b.by # r /\ shape[b.by].url = shape[r].url
         /\ shape[b.by].method = "GET" /\ shape[r].method = "GET"
    /\ source = "replay" =>
         /\ b.by # r /\ shape[b.by].replay
         /\ shape[b.by].method = shape[r].method
         /\ Pattern[shape[b.by].url] = Pattern[shape[r].url]
SourceTruthful ==
    \A r \in Requests : resp[r] # None => Truthful(r, resp[r].source, resp[r].body)

\* A recording is first-hand: the request that made the body captured it
\* itself (a body served from the cache is never recorded), was not refused,
\* and under upstream-only got it from the upstream.
RecordedFirstHand ==
    \A k \in Keys : replayTable[k] # None =>
        LET b == replayTable[k] IN
        /\ wraps[b.by] /\ answer[b.by] # "refused"
        /\ UpstreamOnly => b.from = "upstream"

\* A request for which a recording exists when it arrives is answered from it,
\* whatever the cache holds, unless the recording expires meanwhile.
ReplayPriority ==
    \A r \in Requests :
        "replay" \in known[r] /\ resp[r] # None => resp[r].source = "replay"

\* A GET whose answer is cached when it arrives neither calls the upstream nor
\* the handler, unless the entry expires meanwhile.
CachePriority ==
    \A r \in Requests :
        "cache" \in known[r] /\ resp[r] # None => resp[r].source \in {"replay", "cache"}

\* A request that arrives while the sticky marker is set and no other request
\* has an upstream call under way does not call the upstream before the marker
\* expires.
StickyHolds == \A r \in Requests : "marked" \in known[r] => ~called[r]

\* History holds exactly one entry for every answer the upstream or the handler
\* made, none for an answer read from a table, and the entry says whether a
\* failed upstream call came before the generated answer.
HistoryExact ==
    \A r \in Requests : Done(r) =>
        history[r] =
          IF RecordHistory /\ resp[r] # None /\ resp[r].source \in {"upstream", "generated"}
          THEN <<[body |-> resp[r].body, upstream |-> resp[r].source = "upstream",
                  failed |-> resp[r].source = "generated" /\ called[r]]>>
          ELSE <<>>
\* Under upstream-only a replay request is refused unless the upstream answers
\* it, now or in the recording.
RefusedUnlessUpstream ==
    \A r \in Requests : UpstreamOnly /\ shape[r].replay /\ answer[r] = "served" =>
        resp[r].source \in {"upstream", "replay"}

=============================================================================
