----------------------------- MODULE RedisHistory -----------------------------
(* The history of one service in Redis (db/redis_history.go): a list of     *)
(* summaries, newest first, and a key per record.  Set sends its commands   *)
(* as a pipeline, which Redis carries out one by one and not as a whole:    *)
(* commands of other clients come in between, the connection may break in   *)
(* the middle, and the client library then sends the whole pipeline again   *)
(* while the server may still be working on the first.  Clear reads the     *)
(* list and deletes what it read with a second command.  Redis drops a key  *)
(* when its time has passed.                                                *)
EXTENDS Naturals, Sequences

CONSTANTS
    Keep,        \* MaxHistoryEntries
    TTL,         \* how long a record lives; 0 is for ever
    Retries,     \* how often the library repeats a failed pipeline
    None,        \* no key, no deadline, no Clear under way
    MaxEntries,  \* bound on the records written
    MaxTime      \* bound on the clock

ASSUME KeepAssumption == Keep \in Nat \ {0}
ASSUME BoundAssumption ==
    TTL \in Nat /\ Retries \in Nat /\ MaxEntries \in Nat /\ MaxTime \in Nat
ASSUME NoneAssumption == None \notin Nat

VARIABLES
    now,
    created,   \* records handed to Set so far; a record's ID is its number
    sent,      \* how often the pipeline of each record was sent
    pipes,     \* the pipelines sent, and how far the server has got with each
    index,     \* the list of summaries, newest first
    indexEnds, \* when Redis drops the list
    records,   \* when Redis drops each record, or that there is none
    clearing   \* the IDs that a Clear read and is about to delete

vars == <<now, created, sent, pipes, index, indexEnds, records, clearing>>

IDs       == 1..MaxEntries
Times     == 0..MaxTime
Summary   == [id : IDs, at : Times]
Deadlines == 0..(MaxTime + TTL)
Never     == MaxTime + TTL + 1      \* later than any moment of a run
Commands  == {"set", "push", "trim", "expire", "end"}
Pipe      == [entry : Summary, attempt : 1..(Retries + 1), next : Commands]

TypeOK ==
    /\ now \in Times /\ created \in 0..MaxEntries
    /\ sent \in [IDs -> 0..(Retries + 1)]
    /\ pipes \subseteq Pipe
    /\ index \in Seq(Summary)
    /\ indexEnds \in Deadlines \cup {Never}
    /\ records \in [IDs -> Deadlines \cup {Never, None}]
    /\ clearing \in (SUBSET IDs) \cup {None}

Init ==
    /\ now = 0 /\ created = 0
    /\ sent = [id \in IDs |-> 0]
    /\ pipes = {}
    /\ index = <<>> /\ indexEnds = Never
    /\ records = [id \in IDs |-> None]
    /\ clearing = None

-----------------------------------------------------------------------------
\* When a key that is given its lifetime now runs out.
Lifetime == IF TTL = 0 THEN Never ELSE now + TTL

\* What Recent leaves out of a page: summaries older than the cutoff.
Aged(s) == TTL > 0 /\ s.at + TTL < now

Listed == {index[i].id : i \in 1..Len(index)}

\* Time passes, and Redis drops the keys it has run out for.
Tick ==
    /\ now < MaxTime
    /\ now' = now + 1
    /\ \/ indexEnds < now' /\ index' = <<>> /\ indexEnds' = Never
       \/ indexEnds >= now' /\ UNCHANGED <<index, indexEnds>>
    /\ records' = [id \in IDs |->
                     IF records[id] # None /\ records[id] < now' THEN None ELSE records[id]]
    /\ UNCHANGED <<created, sent, pipes, clearing>>

-----------------------------------------------------------------------------
(* Set                                                                     *)

\* Mutant: the ID is the number of records before this one.
NewID_OffByOne == created

NewID == created + 1

\* The k-th pipeline of a record, as it is sent.
Pipeline(e, k) == [entry |-> e, attempt |-> k, next |-> "set"]

\* The record gets its ID and its time, and its pipeline is sent.
Set ==
    /\ created < MaxEntries
    /\ created' = created + 1
    /\ pipes' = pipes \cup {Pipeline([id |-> NewID, at |-> now], 1)}
    /\ sent' = [sent EXCEPT ![NewID] = 1]
    /\ UNCHANGED <<now, index, indexEnds, records, clearing>>

\* The library got no answer from attempt p and sends the pipeline again.  The
\* server may have done any part of p or all of it, and may go on with it.
Retry(p) ==
    /\ p.attempt = sent[p.entry.id] /\ p.attempt <= Retries
    /\ sent' = [sent EXCEPT ![p.entry.id] = @ + 1]
    /\ pipes' = pipes \cup {Pipeline(p.entry, p.attempt + 1)}
    /\ UNCHANGED <<now, created, index, indexEnds, records, clearing>>

\* The command behind cmd in the pipeline.
Following(cmd) ==
    CASE cmd = "set"  -> "push"
      [] cmd = "push" -> "trim"
      [] cmd = "trim" /\ TTL > 0 -> "expire"
      [] OTHER -> "end"

\* The server is through with the command of p that is next.
Advance(p) == pipes' = (pipes \ {p}) \cup {[p EXCEPT !.next = Following(p.next)]}

\* The records whose pipeline was once carried out to its end.
Complete == {p.entry.id : p \in {q \in pipes : q.next = "end"}}

SetRecord(p) ==
    /\ p.next = "set"
    /\ records' = [records EXCEPT ![p.entry.id] = Lifetime]
    /\ Advance(p)
    /\ UNCHANGED <<now, created, sent, index, indexEnds, clearing>>

PushSummary(p) ==
    /\ p.next = "push"
    /\ index' = <<p.entry>> \o index
    /\ Advance(p)
    /\ UNCHANGED <<now, created, sent, indexEnds, records, clearing>>

\* Mutant: the last index of LTRIM taken for a length, twice.
TrimIndex_OffByOne(p) ==
    /\ p.next = "trim"
    /\ index' = IF Len(index) < Keep THEN index ELSE SubSeq(index, 1, Keep - 1)
    /\ Advance(p)
    /\ UNCHANGED <<now, created, sent, indexEnds, records, clearing>>

TrimIndex(p) ==
    /\ p.next = "trim"
    /\ index' = IF Len(index) <= Keep THEN index ELSE SubSeq(index, 1, Keep)
    /\ Advance(p)
    /\ UNCHANGED <<now, created, sent, indexEnds, records, clearing>>

\* Mutant: only a list without a deadline gets one.
ExpireIndex_NewOnly(p) ==
    /\ p.next = "expire"
    /\ indexEnds' = IF index # <<>> /\ indexEnds = Never THEN Lifetime ELSE indexEnds
    /\ Advance(p)
    /\ UNCHANGED <<now, created, sent, index, records, clearing>>

\* EXPIRE does nothing to a list that is not there.
ExpireIndex(p) ==
    /\ p.next = "expire"
    /\ indexEnds' = IF index # <<>> THEN Lifetime ELSE indexEnds
    /\ Advance(p)
    /\ UNCHANGED <<now, created, sent, index, records, clearing>>

-----------------------------------------------------------------------------
(* Clear                                                                   *)

\* Clear reads the list.
ListForClear ==
    /\ clearing = None
    /\ clearing' = Listed
    /\ UNCHANGED <<now, created, sent, pipes, index, indexEnds, records>>

\* Mutant: the records are deleted, the list is not.
DeleteCleared_KeepIndex ==
    /\ clearing # None
    /\ records' = [id \in IDs |-> IF id \in clearing THEN None ELSE records[id]]
    /\ clearing' \in {None, clearing}
    /\ UNCHANGED <<now, created, sent, pipes, index, indexEnds>>

\* One DEL takes the list and the records it showed.  The library may not get
\* the answer and send the DEL again.
DeleteCleared ==
    /\ clearing # None
    /\ index' = <<>> /\ indexEnds' = Never
    /\ records' = [id \in IDs |-> IF id \in clearing THEN None ELSE records[id]]
    /\ clearing' \in {None, clearing}
    /\ UNCHANGED <<now, created, sent, pipes>>

\* The DEL never arrives.
FailClear ==
    /\ clearing # None
    /\ clearing' = None
    /\ UNCHANGED <<now, created, sent, pipes, index, indexEnds, records>>

Next ==
    \/ Tick
    \/ Set
    \/ \E p \in pipes :
         \/ Retry(p)
         \/ SetRecord(p) \/ PushSummary(p) \/ TrimIndex(p) \/ ExpireIndex(p)
    \/ ListForClear \/ DeleteCleared \/ FailClear

Spec == Init /\ [][Next]_vars

-----------------------------------------------------------------------------
(* Properties                                                              *)

\* Whatever a page lists can be opened: a summary that is not aged has its
\* record, whatever was cut short or cleared in between (redis_history.go 52-53
\* and 131).  A pipeline that was sent twice is exempt: a Clear between the two
\* can delete the record that the second one's summary stands for.
ListedCanBeOpened ==
    \A i \in 1..Len(index) :
      sent[index[i].id] = 1 /\ ~Aged(index[i]) => records[index[i].id] # None

\* Redis never drops the list while it holds a young summary whose pipeline was
\* carried out, whatever happened to the pipelines behind it; trimming takes
\* none of the newest Keep (redis_history.go 54-60).
YoungStayListed ==
    [][\A i \in 1..Len(index) :
         \/ i > Keep
         \/ index[i].id \notin Complete
         \/ TTL > 0 /\ index[i].at + TTL < now'
         \/ \E j \in 1..Len(index') : index'[j] = index[i]
         \/ clearing # None /\ now' = now /\ index' = <<>>]_vars

\* The newest Keep summaries are the bounded log of the interface; a record can
\* enter it twice only if pipelines are repeated.
Promise ==
    INSTANCE HistoryLog
    WITH Entries <- Summary, Once <- (Retries = 0),
         log <- SubSeq(index, 1, IF Len(index) <= Keep THEN Len(index) ELSE Keep)
IsBoundedLog == Promise!Spec
=============================================================================
