------------------------- MODULE RedisHistory_proofs -------------------------
(* Proofs about RedisHistory, for every length of the list, every TTL, any  *)
(* number of records and of repeated pipelines.                             *)
EXTENDS RedisHistory, SequenceTheorems, TLAPS

USE KeepAssumption, BoundAssumption, NoneAssumption
USE DEF KeepAssumption, BoundAssumption, NoneAssumption

-----------------------------------------------------------------------------
(* The inductive invariant                                                 *)

\* A record has been sent when it has an ID, and no pipeline or summary is
\* from the future.
Dated ==
    /\ \A id \in IDs : sent[id] = 0 <=> id > created
    /\ \A p \in pipes : p.entry.at <= now /\ p.attempt <= sent[p.entry.id]
    /\ \A i \in 1..Len(index) : index[i].at <= now
Known ==
    /\ \A p \in pipes : p.entry.id <= created
    /\ \A i \in 1..Len(index) : index[i].id <= created
    /\ clearing # None => \A id \in clearing : id <= created

\* A record that was sent once has one pipeline, which lists it once; nobody
\* deletes it before it is listed.
SentOnce(p) == sent[p.entry.id] = 1
Lone ==
    \A p \in pipes : SentOnce(p) =>
      /\ \A q \in pipes : q.entry.id = p.entry.id => q = p
      /\ p.next \in {"set", "push"} =>
           /\ \A i \in 1..Len(index) : index[i].id # p.entry.id
           /\ clearing # None => p.entry.id \notin clearing

\* The record of a summary lives as long as the summary is young.
Kept(s) ==
    \/ Aged(s)
    \/ /\ records[s.id] # None
       /\ s.at + TTL <= records[s.id]
       /\ TTL = 0 => records[s.id] = Never
RecordsKept ==
    /\ \A p \in pipes : SentOnce(p) /\ p.next = "push" => Kept(p.entry)
    /\ \A i \in 1..Len(index) : sent[index[i].id] = 1 => Kept(index[i])

\* The list outlives what was carried out to the end and may yet be repeated.
Outlives ==
    /\ index = <<>> => indexEnds = Never
    /\ TTL = 0 => indexEnds = Never
    /\ \A i \in 1..Len(index) : index[i].id \in Complete => index[i].at + TTL <= indexEnds
    /\ \A p \in pipes : p.entry.id \in Complete => p.entry.at + TTL <= indexEnds

IInv == TypeOK /\ Dated /\ Known /\ Lone /\ RecordsKept /\ Outlives

-----------------------------------------------------------------------------
(* Facts about the list and the clock                                      *)

\* What the type invariant says of the parts of the state.
LEMMA PartsTyped ==
  ASSUME TypeOK
  PROVE  /\ now \in Nat /\ created \in Nat
         /\ \A p \in pipes : /\ p.entry \in Summary /\ p.entry.id \in IDs /\ p.entry.at \in Nat
                            /\ p.entry.at <= MaxTime
                            /\ p.attempt \in 1..(Retries + 1) /\ p.attempt \in Nat
                            /\ p.next \in Commands
         /\ \A i \in 1..Len(index) : /\ index[i] \in Summary /\ index[i].id \in IDs
                                    /\ index[i].at \in Nat /\ index[i].at <= MaxTime
         /\ \A id \in IDs : id \in Nat /\ sent[id] \in Nat
         /\ clearing # None => clearing \subseteq IDs
         /\ Complete \subseteq IDs
         /\ indexEnds \in Nat /\ Never \in Nat /\ Never # None /\ indexEnds <= Never
         /\ \A id \in IDs : records[id] # None => records[id] \in Nat
  <1>1. now \in Nat /\ created \in Nat
    BY DEF TypeOK, Times
  <1>2. \A s \in Summary : s.id \in IDs /\ s.at \in Nat /\ s.at <= MaxTime
    BY DEF Summary, Times
  <1>3. \A p \in Pipe : /\ p.entry \in Summary /\ p.attempt \in 1..(Retries + 1)
                        /\ p.attempt \in Nat /\ p.next \in Commands
    BY DEF Pipe
  <1>4. \A i \in 1..Len(index) : index[i] \in Summary
    BY DEF TypeOK
  <1>5. \A id \in IDs : id \in Nat /\ sent[id] \in Nat
    BY DEF TypeOK, IDs
  <1>6. clearing # None => clearing \subseteq IDs
    BY DEF TypeOK
  <1>7. indexEnds \in Nat /\ Never \in Nat /\ Never # None /\ indexEnds <= Never
    BY DEF TypeOK, Deadlines, Never
  <1>8. \A id \in IDs : records[id] # None => records[id] \in Nat
    BY DEF TypeOK, Deadlines, Never
  <1>9. pipes \subseteq Pipe
    BY DEF TypeOK
  <1>10. Complete \subseteq IDs
    BY <1>2, <1>3, <1>9 DEF Complete
  <1> QED BY <1>1, <1>2, <1>3, <1>4, <1>5, <1>6, <1>7, <1>8, <1>9, <1>10

\* Pushing puts one summary in front and moves the others back.
LEMMA PushedIndex ==
  ASSUME NEW s \in Seq(Summary), NEW e \in Summary
  PROVE  /\ <<e>> \o s \in Seq(Summary)
         /\ Len(<<e>> \o s) = Len(s) + 1
         /\ (<<e>> \o s)[1] = e
         /\ \A i \in 1..Len(s) : (<<e>> \o s)[i + 1] = s[i]
         /\ \A i \in 1..Len(<<e>> \o s) : i = 1 \/ (i - 1 \in 1..Len(s) /\ (<<e>> \o s)[i] = s[i - 1])
  OBVIOUS

\* Trimming keeps the newest Keep summaries where they are.
LEMMA TrimmedIndex ==
  ASSUME NEW s \in Seq(Summary), Len(s) > Keep
  PROVE  /\ SubSeq(s, 1, Keep) \in Seq(Summary)
         /\ Len(SubSeq(s, 1, Keep)) = Keep
         /\ \A i \in 1..Keep : i \in 1..Len(s) /\ SubSeq(s, 1, Keep)[i] = s[i]
  OBVIOUS

\* A record is complete when one of its pipelines is at its end.
LEMMA CompleteMeans ==
  /\ \A p \in pipes : p.next = "end" => p.entry.id \in Complete
  /\ \A id \in Complete : \E p \in pipes : p.next = "end" /\ p.entry.id = id
  BY DEF Complete

\* A pipeline that has just been sent completes nothing.
LEMMA CompleteUnlessSent ==
  ASSUME NEW n, n.next = "set", pipes' = pipes \cup {n}
  PROVE  Complete' = Complete
  BY DEF Complete

\* The server's step to the next command touches one pipeline only.
LEMMA Advanced ==
  ASSUME TypeOK, NEW p \in pipes, Advance(p), p.next # "end"
  PROVE  /\ pipes' \subseteq Pipe
         /\ Complete' \subseteq Complete \cup {p.entry.id}
         /\ p.entry.id \in IDs
         /\ Following(p.next) # "end" => Complete' = Complete
         /\ Following(p.next) = "end" => p.next \notin {"set", "push"} /\ (TTL > 0 => p.next = "expire")
         /\ \A q \in pipes' : \/ q \in pipes /\ q # p
                              \/ /\ q.entry = p.entry /\ q.attempt = p.attempt
                                 /\ q.next = Following(p.next) /\ p \in pipes
  <1> DEFINE n == [p EXCEPT !.next = Following(p.next)]
  <1>1. p \in Pipe /\ pipes' = (pipes \ {p}) \cup {n}
    BY DEF TypeOK, Advance
  <1>2. Following(p.next) \in Commands
    BY <1>1 DEF Following, Commands, Pipe
  <1>3. n \in Pipe /\ n.entry = p.entry /\ n.attempt = p.attempt /\ n.next = Following(p.next)
    BY <1>1, <1>2 DEF Pipe
  <1>4. p.entry.id \in IDs
    BY <1>1 DEF Pipe, Summary
  <1> HIDE DEF n
  <1>5. Complete' \subseteq Complete \cup {p.entry.id}
    BY <1>1, <1>3 DEF Complete
  <1>6. Following(p.next) # "end" => Complete' = Complete
    BY <1>1, <1>3 DEF Complete
  <1>7. Following(p.next) = "end" => p.next \notin {"set", "push"} /\ (TTL > 0 => p.next = "expire")
    BY <1>1 DEF Following, Pipe, Commands
  <1> QED BY <1>1, <1>3, <1>4, <1>5, <1>6, <1>7 DEF TypeOK

-----------------------------------------------------------------------------
(* The steps of the induction                                              *)

LEMMA InitHolds == Init => IInv
  <1> SUFFICES ASSUME Init PROVE IInv
    OBVIOUS
  <1>1. TypeOK
    <2>1. <<>> \in Seq(Summary)
      OBVIOUS
    <2> QED BY <2>1 DEF Init, TypeOK, Times, IDs, Deadlines, Never
  <1>2. Dated /\ Known /\ Lone /\ RecordsKept /\ Outlives
    BY DEF Init, Dated, Known, Lone, RecordsKept, Outlives, IDs
  <1> QED BY <1>1, <1>2 DEF IInv

\* The clock takes only what it has run out for.
LEMMA TickStep == IInv /\ Tick => IInv'
  <1> SUFFICES ASSUME IInv, Tick PROVE IInv'
    OBVIOUS
  <1>1. /\ now \in Nat /\ now' = now + 1 /\ now' \in Times /\ now' <= MaxTime
        /\ \A d \in Deadlines \cup {Never} : d \in Nat
        /\ Never > now' /\ Never \in Nat /\ Never # None
    BY DEF IInv, TypeOK, Tick, Times, Deadlines, Never
  <1>2. UNCHANGED <<created, sent, pipes, clearing>>
    BY DEF Tick
  <1>3. /\ \A id \in IDs : records'[id] \in {records[id], None}
        /\ \A id \in IDs : records[id] # None /\ records[id] >= now' => records'[id] = records[id]
        /\ records' \in [IDs -> Deadlines \cup {Never, None}]
    BY <1>1 DEF IInv, TypeOK, Tick, Deadlines
  <1>4. /\ index' = index \/ index' = <<>>
        /\ index' = index => indexEnds' \in {indexEnds, Never}
        /\ index' # index => indexEnds' = Never
    BY DEF Tick
  <1>5. TypeOK'
    <2>1. index' \in Seq(Summary)
      <3>1. <<>> \in Seq(Summary)
        OBVIOUS
      <3> QED BY <1>4, <3>1 DEF IInv, TypeOK
    <2>2. indexEnds' \in Deadlines \cup {Never}
      BY <1>4 DEF IInv, TypeOK
    <2> QED BY <1>1, <1>2, <1>3, <2>1, <2>2 DEF IInv, TypeOK
  <1>6. Dated' /\ Known' /\ Lone'
    <2>1. Len(<<>>) = 0
      OBVIOUS
    <2>2. \A i \in 1..Len(index') : i \in 1..Len(index) /\ index'[i] = index[i]
      BY <1>4, <2>1
    <2>3. Dated'
      <3>1. \A p \in pipes : p.entry.at \in Nat /\ p.entry.at <= now
        BY PartsTyped DEF IInv, Dated
      <3>2. \A i \in 1..Len(index) : index[i].at \in Nat /\ index[i].at <= now
        BY PartsTyped DEF IInv, Dated
      <3>3. \A t \in Nat : t <= now => t <= now'
        BY <1>1
      <3> QED BY <1>2, <2>2, <3>1, <3>2, <3>3 DEF IInv, Dated
    <2>4. Known'
      BY <1>2, <2>2 DEF IInv, Known
    <2>5. Lone'
      BY <1>2, <2>2 DEF IInv, Lone, SentOnce
    <2> QED BY <2>3, <2>4, <2>5
  <1>7. ASSUME NEW s \in Summary, Kept(s) PROVE Kept(s)'
    <2>1. s.at \in Nat /\ s.id \in IDs
      BY <1>7 DEF Summary, Times
    <2>2. CASE Aged(s)
      BY <1>1, <2>1, <2>2 DEF Kept, Aged
    <2>3. CASE ~Aged(s)' /\ ~Aged(s)
      <3>1. /\ records[s.id] # None /\ s.at + TTL <= records[s.id]
            /\ TTL = 0 => records[s.id] = Never
        BY <1>7, <2>3 DEF Kept
      <3>2. records[s.id] \in Nat
        BY <1>1, <2>1, <3>1 DEF IInv, TypeOK
      <3>3. records[s.id] >= now'
        BY <1>1, <2>1, <2>3, <3>1, <3>2 DEF Aged
      <3> QED BY <1>3, <2>1, <3>1, <3>3 DEF Kept, Never
    <2> QED BY <2>2, <2>3 DEF Kept
  <1>8. RecordsKept'
    <2>1. \A p \in pipes : p.entry \in Summary
      BY DEF IInv, TypeOK, Pipe
    <2>2. \A i \in 1..Len(index) : index[i] \in Summary
      BY DEF IInv, TypeOK
    <2>3. \A p \in pipes' : SentOnce(p)' /\ p.next = "push" => Kept(p.entry)'
      BY <1>2, <1>7, <2>1 DEF IInv, RecordsKept, SentOnce
    <2>4. \A i \in 1..Len(index') : sent'[index'[i].id] = 1 => Kept(index[i])' \/ index' # index
      BY <1>2, <1>4, <1>7, <2>2 DEF IInv, RecordsKept
    <2>5. CASE index' = index
      <3>1. \A i \in 1..Len(index) : sent[index[i].id] = 1 => Kept(index[i])
        BY DEF IInv, RecordsKept
      <3>2. \A s \in Summary : Kept(s) => Kept(s)'
        BY <1>7
      <3>3. \A i \in 1..Len(index') : sent'[index'[i].id] = 1 => Kept(index[i])'
        BY <1>2, <2>2, <2>5, <3>1, <3>2 DEF Kept, Aged
      <3> QED BY <2>3, <2>5, <3>3 DEF RecordsKept, Kept, Aged
    <2>6. CASE index' = <<>>
      BY <2>3, <2>6 DEF RecordsKept
    <2> QED BY <1>4, <2>5, <2>6
  <1>9. Outlives'
    <2>1. \A p \in pipes : p.entry.at + TTL <= Never
      BY <1>1 DEF IInv, TypeOK, Pipe, Summary, Times, Never
    <2>4. Complete' = Complete
      BY <1>2 DEF Complete
    <2>2. CASE index' = index /\ indexEnds' = indexEnds
      BY <1>2, <2>2, <2>4 DEF IInv, Outlives, Never
    <2>3. CASE index' = <<>> /\ indexEnds' = Never
      BY <1>2, <2>1, <2>3 DEF IInv, Outlives, Never
    <2> QED BY <2>2, <2>3 DEF Tick
  <1> QED BY <1>5, <1>6, <1>8, <1>9 DEF IInv

\* A new record is unknown to everybody.
LEMMA SetStep == IInv /\ Set => IInv'
  <1> SUFFICES ASSUME IInv, Set PROVE IInv'
    OBVIOUS
  <1> DEFINE e == [id |-> NewID, at |-> now]
             n == Pipeline(e, 1)
  <1>1. /\ NewID = created + 1 /\ NewID \in IDs /\ created' = created + 1 /\ created \in Nat
        /\ created' \in 0..MaxEntries
    BY DEF IInv, TypeOK, Set, NewID, IDs
  <1>2. /\ pipes' = pipes \cup {n} /\ sent' = [sent EXCEPT ![NewID] = 1]
        /\ UNCHANGED <<now, index, indexEnds, records, clearing>>
    BY DEF Set
  <1> USE DEF Pipeline
  <1>3. n \in Pipe /\ e \in Summary
    BY <1>1 DEF IInv, TypeOK, Pipe, Summary, Commands
  <1>4. /\ n.entry = e /\ e.id = NewID /\ e.at = now /\ n.attempt = 1 /\ n.next = "set"
    OBVIOUS
  <1> HIDE DEF e, n
  <1>5. TypeOK'
    BY <1>1, <1>2, <1>3 DEF IInv, TypeOK
  <1>6. /\ \A p \in pipes : p.entry.id # NewID /\ p.entry.id \in IDs /\ p.entry.id <= created
        /\ \A i \in 1..Len(index) : index[i].id # NewID /\ index[i].id \in IDs
        /\ clearing # None => NewID \notin clearing
        /\ NewID \notin Complete
    <2>1. created # NewID /\ ~(NewID <= created)
      BY <1>1
    <2>2. \A id \in Complete : id <= created
      BY CompleteMeans DEF IInv, Known
    <2> QED BY <2>1, <2>2, PartsTyped DEF IInv, Known
  <1>7. \A id \in IDs : sent'[id] = IF id = NewID THEN 1 ELSE sent[id]
    BY <1>1, <1>2 DEF IInv, TypeOK
  <1>8. Dated'
    <2>1. \A id \in IDs : sent'[id] = 0 <=> id > created'
      BY <1>1, <1>7 DEF IInv, Dated, IDs
    <2>2. \A p \in pipes' : p.entry.at <= now' /\ p.attempt <= sent'[p.entry.id]
      BY <1>1, <1>2, <1>4, <1>6, <1>7 DEF IInv, TypeOK, Dated, Times
    <2> QED BY <1>2, <2>1, <2>2 DEF IInv, Dated
  <1>9. Known'
    <2>1. clearing # None => clearing \subseteq IDs
      BY PartsTyped DEF IInv
    <2>2. \A i \in 1..Len(index) : index[i].id \in IDs /\ index[i].id <= created
      BY <1>6 DEF IInv, Known
    <2>3. \A id \in IDs : id <= created => id <= created'
      BY <1>1 DEF IDs
    <2>4. \A p \in pipes' : p.entry.id <= created'
      <3>1. NewID <= created'
        BY <1>1
      <3> QED BY <1>2, <1>4, <1>6, <2>3, <3>1
    <2> QED BY <1>2, <2>1, <2>2, <2>3, <2>4 DEF IInv, Known
  <1>10. Lone'
    BY <1>2, <1>4, <1>6, <1>7 DEF IInv, Lone, SentOnce
  <1>11. \A s : Kept(s)' <=> Kept(s)
    BY <1>2 DEF Kept, Aged
  <1>12. RecordsKept'
    BY <1>2, <1>4, <1>6, <1>7 DEF IInv, RecordsKept, SentOnce, Kept, Aged
  <1>13. Outlives'
    <2>1. Complete' = Complete
      BY <1>2, <1>4, CompleteUnlessSent
    <2> QED BY <1>2, <1>4, <1>6, <2>1 DEF IInv, Outlives, Never
  <1> QED BY <1>5, <1>8, <1>9, <1>10, <1>12, <1>13 DEF IInv

\* A repeated pipeline is exempt from what holds of those sent once.
LEMMA RetryStep == ASSUME IInv, NEW p \in pipes, Retry(p) PROVE IInv'
  <1> DEFINE n == Pipeline(p.entry, p.attempt + 1)
             id == p.entry.id
  <1>1. p \in Pipe /\ id \in IDs /\ p.attempt \in Nat /\ p.attempt >= 1 /\ sent[id] = p.attempt
        /\ p.attempt <= Retries
    BY PartsTyped DEF IInv, TypeOK, Retry
  <1>2. /\ pipes' = pipes \cup {n} /\ sent' = [sent EXCEPT ![id] = p.attempt + 1]
        /\ UNCHANGED <<now, created, index, indexEnds, records, clearing>>
    BY <1>1 DEF Retry, IInv, TypeOK
  <1>3. n \in Pipe /\ n.entry = p.entry /\ n.attempt = p.attempt + 1 /\ n.next = "set"
    BY <1>1, PartsTyped DEF IInv, Pipe, Commands, Pipeline
  <1> HIDE DEF n
  <1>4. TypeOK'
    <2>1. p.attempt + 1 \in 0..(Retries + 1)
      BY <1>1
    <2> QED BY <1>1, <1>2, <1>3, <2>1 DEF IInv, TypeOK
  <1>5. \A q \in pipes : q.entry.id \in IDs /\ q.attempt \in Nat
    BY PartsTyped DEF IInv
  <1>6. \A i \in IDs : sent'[i] = IF i = id THEN p.attempt + 1 ELSE sent[i]
    BY <1>1, <1>2 DEF IInv, TypeOK
  <1>7. \A i \in 1..Len(index) : index[i].id \in IDs
    BY PartsTyped DEF IInv
  <1>8. Dated'
    <2>1. \A i \in IDs : sent'[i] = 0 <=> i > created'
      BY <1>1, <1>2, <1>6 DEF IInv, Dated
    <2>2. \A q \in pipes' : q.entry.at <= now' /\ q.attempt <= sent'[q.entry.id]
      BY <1>1, <1>2, <1>3, <1>5, <1>6 DEF IInv, Dated
    <2> QED BY <1>2, <2>1, <2>2 DEF IInv, Dated
  <1>9. Known'
    BY <1>2, <1>3 DEF IInv, Known
  <1>10. \A q \in pipes' : SentOnce(q)' => q \in pipes /\ q.entry.id # id /\ SentOnce(q)
    BY <1>1, <1>2, <1>3, <1>5, <1>6 DEF SentOnce
  <1>11. Lone'
    BY <1>2, <1>3, <1>10 DEF IInv, Lone
  <1>12. RecordsKept'
    <2>1. \A i \in 1..Len(index) : sent'[index[i].id] = 1 => sent[index[i].id] = 1
      BY <1>1, <1>6, <1>7
    <2> QED BY <1>2, <1>10, <2>1 DEF IInv, RecordsKept, Kept, Aged
  <1>13. Outlives'
    <2>1. Complete' = Complete
      BY <1>2, <1>3, CompleteUnlessSent
    <2> QED BY <1>2, <1>3, <2>1 DEF IInv, Outlives, Never
  <1> QED BY <1>4, <1>8, <1>9, <1>11, <1>12, <1>13 DEF IInv

\* What holds of the pipelines alone survives any step to a next command that
\* leaves the clock and the senders alone.
LEMMA PipesAdvance ==
  ASSUME IInv, NEW p \in pipes, Advance(p), p.next # "end", UNCHANGED <<now, created, sent>>
  PROVE  /\ \A q \in pipes' : q.entry.at <= now' /\ q.attempt <= sent'[q.entry.id]
         /\ \A q \in pipes' : q.entry.id <= created'
         /\ \A q \in pipes' : SentOnce(q)' =>
              \A r \in pipes' : r.entry.id = q.entry.id => r = q
         /\ \A q \in pipes' : \E o \in pipes : q.entry = o.entry
  <1>1. \A q \in pipes' : \/ q \in pipes /\ q # p
                          \/ /\ q.entry = p.entry /\ q.attempt = p.attempt
                             /\ q.next = Following(p.next)
    BY Advanced DEF IInv
  <1>2. p.entry.id <= created
    BY DEF IInv, Known
  <1>3. \A q \in pipes' : q.entry.at <= now' /\ q.attempt <= sent'[q.entry.id]
    BY <1>1 DEF IInv, Dated
  <1>4. \A q \in pipes' : q.entry.id <= created'
    BY <1>1, <1>2 DEF IInv, Known
  <1>6. ASSUME NEW q \in pipes', SentOnce(q)', NEW r \in pipes', r.entry.id = q.entry.id
        PROVE  r = q
    <2>1. SentOnce(q) /\ SentOnce(r)
      BY <1>6 DEF SentOnce
    <2>2. CASE q \in pipes /\ q # p
      BY <1>1, <1>6, <2>1, <2>2 DEF IInv, Lone, SentOnce
    <2>3. CASE r \in pipes /\ r # p
      BY <1>1, <1>6, <2>1, <2>3 DEF IInv, Lone, SentOnce
    <2>4. CASE ~(q \in pipes /\ q # p) /\ ~(r \in pipes /\ r # p)
      <3>2. q \in Pipe /\ r \in Pipe
        BY Advanced DEF IInv
      <3>3. q.entry = r.entry /\ q.attempt = r.attempt /\ q.next = r.next
        BY <1>1, <1>6, <2>4
      <3> QED BY <3>2, <3>3 DEF Pipe
    <2> QED BY <2>2, <2>3, <2>4
  <1>7. \A q \in pipes' : \E o \in pipes : q.entry = o.entry
    BY <1>1
  <1> QED BY <1>3, <1>4, <1>6, <1>7

\* SET gives a record its full lifetime before anything lists it.
LEMMA SetRecordStep == ASSUME IInv, NEW p \in pipes, SetRecord(p) PROVE IInv'
  <1> DEFINE id == p.entry.id
  <1>1. /\ Advance(p) /\ p.next = "set" /\ Following(p.next) = "push"
        /\ records' = [records EXCEPT ![id] = Lifetime]
        /\ UNCHANGED <<now, created, sent, index, indexEnds, clearing>>
    BY DEF SetRecord, Following
  <1>2. Complete' = Complete /\ pipes' \subseteq Pipe /\ id \in IDs
    BY <1>1, Advanced DEF IInv
  <1>3. \A q \in pipes' : \/ q \in pipes /\ q # p
                          \/ q.entry = p.entry /\ q.next = "push"
    BY <1>1, Advanced DEF IInv
  <1>4. Lifetime \in Deadlines \cup {Never}
    BY DEF IInv, TypeOK, Lifetime, Deadlines, Times
  <1>5. TypeOK'
    BY <1>1, <1>2, <1>4 DEF IInv, TypeOK
  <1>6. Dated' /\ Known'
    BY <1>1, PipesAdvance DEF IInv, Dated, Known
  <1>7. Lone'
    <2>1. \A q \in pipes' : SentOnce(q)' => \A r \in pipes' : r.entry.id = q.entry.id => r = q
      BY <1>1, PipesAdvance
    <2>2. \A q \in pipes' : SentOnce(q)' /\ q.next \in {"set", "push"} =>
            /\ \A i \in 1..Len(index) : index[i].id # q.entry.id
            /\ clearing # None => q.entry.id \notin clearing
      BY <1>1, <1>3 DEF IInv, Lone, SentOnce
    <2> QED BY <1>1, <2>1, <2>2 DEF Lone
  <1>8. RecordsKept'
    <2>1. records'[id] = Lifetime /\ \A o \in IDs : o # id => records'[o] = records[o]
      BY <1>1, <1>2 DEF IInv, TypeOK
    <2>2. \A s \in Summary : s.id # id /\ Kept(s) => Kept(s)'
      BY <1>1, <2>1 DEF Summary, Kept, Aged, Never
    <2>3. Kept(p.entry)'
      <3>1. p.entry.at \in Nat /\ p.entry.at <= now /\ now \in Nat /\ p.entry.at <= MaxTime
        BY PartsTyped DEF IInv, Dated
      <3>2. Lifetime # None /\ p.entry.at + TTL <= Lifetime
        BY <3>1 DEF Lifetime, Never
      <3>3. TTL = 0 => Lifetime = Never'
        BY DEF Lifetime, Never
      <3> QED BY <2>1, <3>2, <3>3 DEF Kept
    <2>4. ASSUME NEW q \in pipes', SentOnce(q)', q.next = "push" PROVE Kept(q.entry)'
      <3>1. CASE q.entry = p.entry
        BY <2>3, <3>1 DEF Kept, Aged
      <3>2. CASE q \in pipes /\ q # p
        <4>1. SentOnce(q) /\ q.entry.id # id
          BY <1>1, <2>4, <3>2 DEF IInv, Lone, SentOnce
        <4>2. Kept(q.entry) /\ q.entry \in Summary
          BY <2>4, <3>2, <4>1, PartsTyped DEF IInv, RecordsKept
        <4> QED BY <2>2, <4>1, <4>2 DEF Kept, Aged
      <3> QED BY <1>3, <3>1, <3>2
    <2>5. ASSUME NEW i \in 1..Len(index), sent[index[i].id] = 1 PROVE Kept(index[i])'
      <3>1. index[i].id # id
        BY <1>1, <2>5 DEF IInv, Lone, SentOnce
      <3>2. Kept(index[i]) /\ index[i] \in Summary
        BY <2>5, PartsTyped DEF IInv, RecordsKept
      <3> QED BY <1>1, <2>2, <3>1, <3>2 DEF Kept, Aged
    <2> QED BY <1>1, <2>4, <2>5 DEF RecordsKept
  <1>9. Outlives'
    <2>1. \A q \in pipes' : q.entry.id \in Complete => q.entry.at + TTL <= indexEnds
      BY <1>1, PipesAdvance DEF IInv, Outlives
    <2> QED BY <1>1, <1>2, <2>1 DEF IInv, Outlives, Never
  <1> QED BY <1>5, <1>6, <1>7, <1>8, <1>9 DEF IInv

\* LPUSH lists a record that is there, and that nobody has listed before if it
\* was sent once.
LEMMA PushSummaryStep == ASSUME IInv, NEW p \in pipes, PushSummary(p) PROVE IInv'
  <1> DEFINE e == p.entry
  <1>1. /\ Advance(p) /\ p.next = "push" /\ Following(p.next) = "trim"
        /\ index' = <<e>> \o index
        /\ UNCHANGED <<now, created, sent, indexEnds, records, clearing>>
    BY DEF PushSummary, Following
  <1>2. Complete' = Complete /\ pipes' \subseteq Pipe
    BY <1>1, Advanced DEF IInv
  <1>3. \A q \in pipes' : \/ q \in pipes /\ q # p
                          \/ q.entry = e /\ q.next = "trim"
    BY <1>1, Advanced DEF IInv
  <1>4. e \in Summary /\ index \in Seq(Summary)
    BY PartsTyped DEF IInv, TypeOK
  <1>5. index' \in Seq(Summary) /\ Len(index') = Len(index) + 1
    BY <1>1, <1>4, PushedIndex
  <1>6. \A i \in 1..Len(index') : index'[i] = e \/ \E j \in 1..Len(index) : index'[i] = index[j]
    BY <1>1, <1>4, PushedIndex
  <1>7. TypeOK'
    BY <1>1, <1>2, <1>5 DEF IInv, TypeOK
  <1>8. Dated' /\ Known'
    <2>1. e.at <= now /\ e.id <= created
      BY DEF IInv, Dated, Known
    <2>2. \A i \in 1..Len(index') : index'[i].at <= now /\ index'[i].id <= created
      BY <1>6, <2>1 DEF IInv, Dated, Known
    <2> QED BY <1>1, <2>2, PipesAdvance DEF IInv, Dated, Known
  <1>9. Lone'
    <2>1. \A q \in pipes' : SentOnce(q)' => \A r \in pipes' : r.entry.id = q.entry.id => r = q
      BY <1>1, PipesAdvance
    <2>2. ASSUME NEW q \in pipes', SentOnce(q)', q.next \in {"set", "push"}
          PROVE  /\ \A i \in 1..Len(index') : index'[i].id # q.entry.id
                 /\ clearing' # None => q.entry.id \notin clearing'
      <3>1. q \in pipes /\ q # p /\ SentOnce(q)
        BY <1>1, <1>3, <2>2 DEF SentOnce
      <3>2. e.id # q.entry.id
        BY <3>1 DEF IInv, Lone
      <3> QED BY <1>1, <1>6, <2>2, <3>1, <3>2 DEF IInv, Lone
    <2> QED BY <2>1, <2>2 DEF Lone
  <1>10. RecordsKept'
    <2>1. \A s : Kept(s) => \/ TTL > 0 /\ s.at + TTL < now'
                            \/ /\ records'[s.id] # None
                               /\ s.at + TTL <= records'[s.id]
                               /\ TTL = 0 => records'[s.id] = Never
      BY <1>1 DEF Kept, Aged
    <2>2. sent[e.id] = 1 => Kept(e)
      BY <1>1 DEF IInv, RecordsKept, SentOnce
    <2>3. \A q \in pipes' : SentOnce(q)' /\ q.next = "push" => SentOnce(q) /\ Kept(q.entry)
      BY <1>1, <1>3 DEF IInv, RecordsKept, SentOnce
    <2>4. \A i \in 1..Len(index') : sent[index'[i].id] = 1 =>
            \E s \in Summary : s = index'[i] /\ Kept(s)
      <3>1. \A j \in 1..Len(index) : sent[index[j].id] = 1 => index[j] \in Summary /\ Kept(index[j])
        BY PartsTyped DEF IInv, RecordsKept
      <3> HIDE DEF e
      <3> SUFFICES ASSUME NEW i \in 1..Len(index'), sent[index'[i].id] = 1
                   PROVE  \E s \in Summary : s = index'[i] /\ Kept(s)
        OBVIOUS
      <3>2. CASE index'[i] = e
        BY <1>4, <2>2, <3>2
      <3>3. ASSUME NEW j \in 1..Len(index), index'[i] = index[j]
            PROVE  \E s \in Summary : s = index'[i] /\ Kept(s)
        <4>1. index[j] \in Summary /\ Kept(index[j])
          BY <3>1, <3>3
        <4> QED BY <3>3, <4>1
      <3> QED BY <1>6, <3>2, <3>3
    <2> QED BY <1>1, <2>1, <2>3, <2>4 DEF RecordsKept, Kept, Aged, Never
  <1>11. Outlives'
    <2>1. \A q \in pipes' : q.entry.id \in Complete => q.entry.at + TTL <= indexEnds
      BY <1>1, PipesAdvance DEF IInv, Outlives
    <2>2. \A i \in 1..Len(index') : index'[i].id \in Complete => index'[i].at + TTL <= indexEnds
      BY <1>6 DEF IInv, Outlives
    <2>3. index' # <<>>
      <3>1. Len(index) \in Nat /\ Len(<<>>) = 0
        BY <1>4
      <3> QED BY <1>5, <3>1
    <2> QED BY <1>1, <1>2, <2>1, <2>2, <2>3 DEF IInv, Outlives, Never
  <1> QED BY <1>7, <1>8, <1>9, <1>10, <1>11 DEF IInv

\* A step that only takes summaries away from the list, or gives it a deadline
\* that none of them outlives, and moves p on.
LEMMA LaterStep ==
  ASSUME IInv, NEW p \in pipes, Advance(p), p.next \in {"trim", "expire"},
         index' \in Seq(Summary), indexEnds' \in Deadlines \cup {Never},
         \A i \in 1..Len(index') : \E j \in 1..Len(index) : index'[i] = index[j],
         UNCHANGED <<now, created, sent, records, clearing>>, Outlives'
  PROVE  IInv'
  <1>1. Following(p.next) \notin {"set", "push"}
    BY DEF Following
  <1>2. pipes' \subseteq Pipe /\ Complete' \subseteq IDs
    BY Advanced, PartsTyped DEF IInv
  <1>3. \A q \in pipes' : (q \in pipes /\ q # p) \/ q.next \notin {"set", "push"}
    BY <1>1, Advanced DEF IInv
  <1>4. TypeOK'
    BY <1>2 DEF IInv, TypeOK
  <1>5. Dated' /\ Known'
    <2>1. \A i \in 1..Len(index') : index'[i].at <= now /\ index'[i].id <= created
      BY DEF IInv, Dated, Known
    <2> QED BY <2>1, PipesAdvance DEF IInv, Dated, Known
  <1>6. Lone'
    <2>1. \A q \in pipes' : SentOnce(q)' => \A r \in pipes' : r.entry.id = q.entry.id => r = q
      BY PipesAdvance
    <2>2. \A q \in pipes' : SentOnce(q)' /\ q.next \in {"set", "push"} =>
            /\ \A i \in 1..Len(index') : index'[i].id # q.entry.id
            /\ clearing' # None => q.entry.id \notin clearing'
      BY <1>3 DEF IInv, Lone, SentOnce
    <2> QED BY <2>1, <2>2 DEF Lone
  <1>7. RecordsKept'
    BY <1>3 DEF IInv, RecordsKept, SentOnce, Kept, Aged, Never
  <1> QED BY <1>4, <1>5, <1>6, <1>7 DEF IInv

\* LTRIM takes summaries from the end only.
LEMMA TrimIndexStep == ASSUME IInv, NEW p \in pipes, TrimIndex(p) PROVE IInv'
  <1>1. /\ Advance(p) /\ p.next = "trim" /\ UNCHANGED <<now, created, sent, indexEnds, records, clearing>>
        /\ index' = IF Len(index) <= Keep THEN index ELSE SubSeq(index, 1, Keep)
    BY DEF TrimIndex
  <1>2. index \in Seq(Summary) /\ Len(index) \in Nat
    BY DEF IInv, TypeOK
  <1>3. /\ index' \in Seq(Summary)
        /\ \A i \in 1..Len(index') : \E j \in 1..Len(index) : index'[i] = index[j]
        /\ index' = <<>> => index = <<>>
    <2>1. CASE Len(index) <= Keep
      BY <1>1, <1>2, <2>1
    <2>2. CASE Len(index) > Keep
      <3>1. index' = SubSeq(index, 1, Keep)
        BY <1>1, <1>2, <2>2
      <3>2. index' \in Seq(Summary) /\ Len(index') = Keep
            /\ \A i \in 1..Keep : i \in 1..Len(index) /\ index'[i] = index[i]
        BY <1>2, <2>2, <3>1, TrimmedIndex
      <3>3. index' # <<>>
        <4>1. Len(<<>>) = 0
          OBVIOUS
        <4> QED BY <3>2, <4>1
      <3> QED BY <3>2, <3>3
    <2> QED BY <1>2, <2>1, <2>2
  <1>4. \A q \in pipes' : q.entry.id \in Complete => q.entry.at + TTL <= indexEnds
    BY <1>1, PipesAdvance DEF IInv, Outlives
  <1>5. indexEnds' \in Deadlines \cup {Never}
    BY <1>1 DEF IInv, TypeOK
  <1>6. Outlives'
    <2>1. CASE Complete' = Complete
      BY <1>1, <1>3, <1>4, <2>1 DEF IInv, Outlives, Never
    <2>2. CASE Complete' # Complete
      <3>1. TTL = 0
        BY <1>1, <2>2, Advanced DEF IInv
      <3>2. indexEnds = Never
        BY <3>1 DEF IInv, Outlives
      <3>3. \A s \in Summary : s.at + TTL <= Never
        BY DEF Summary, Times, Never
      <3>4. pipes' \subseteq Pipe /\ \A q \in Pipe : q.entry \in Summary
        BY <1>1, Advanced DEF IInv, Pipe
      <3>5. \A i \in 1..Len(index') : index'[i] \in Summary
        BY <1>3
      <3> QED BY <1>1, <3>2, <3>3, <3>4, <3>5 DEF Outlives, Never
    <2> QED BY <2>1, <2>2
  <1> QED BY <1>1, <1>3, <1>5, <1>6, LaterStep

\* EXPIRE gives the list a deadline that no summary of the past outlives.
LEMMA ExpireIndexStep == ASSUME IInv, NEW p \in pipes, ExpireIndex(p) PROVE IInv'
  <1>1. /\ Advance(p) /\ p.next = "expire"
        /\ indexEnds' = IF index # <<>> THEN Lifetime ELSE indexEnds
        /\ UNCHANGED <<now, created, sent, index, records, clearing>>
    BY DEF ExpireIndex
  <1>2. Lifetime \in Deadlines \cup {Never} /\ (TTL = 0 => Lifetime = Never)
    BY DEF IInv, TypeOK, Lifetime, Deadlines, Times
  <1>3. \A s \in Summary : s.at <= now => s.at + TTL <= Lifetime /\ s.at + TTL <= Never
    BY PartsTyped DEF IInv, Summary, Times, Lifetime, Never
  <1>4. \A q \in pipes' : q.entry \in Summary /\ q.entry.at <= now
    BY <1>1, PipesAdvance, PartsTyped DEF IInv, Dated
  <1>5. \A i \in 1..Len(index) : index[i] \in Summary /\ index[i].at <= now
    BY PartsTyped DEF IInv, Dated
  <1>6. Outlives'
    <2>1. CASE index # <<>>
      BY <1>1, <1>2, <1>3, <1>4, <1>5, <2>1 DEF Outlives, Never
    <2>2. CASE index = <<>>
      <3>1. indexEnds' = Never
        BY <1>1, <2>2 DEF IInv, Outlives
      <3> QED BY <1>1, <1>3, <1>4, <1>5, <2>2, <3>1 DEF Outlives, Never
    <2> QED BY <2>1, <2>2
  <1>7. index' \in Seq(Summary) /\ indexEnds' \in Deadlines \cup {Never}
    BY <1>1, <1>2 DEF IInv, TypeOK
  <1> QED BY <1>1, <1>6, <1>7, LaterStep

\* Clear deletes what was listed, which no pipeline that was sent once has yet
\* to list.
LEMMA ClearStep == IInv /\ (ListForClear \/ DeleteCleared \/ FailClear) => IInv'
  <1> SUFFICES ASSUME IInv, ListForClear \/ DeleteCleared \/ FailClear PROVE IInv'
    OBVIOUS
  <1>1. CASE ListForClear
    <2>1. /\ clearing' = Listed
          /\ UNCHANGED <<now, created, sent, pipes, index, indexEnds, records>>
      BY <1>1 DEF ListForClear
    <2>2. \A id \in Listed : id \in IDs /\ \E i \in 1..Len(index) : index[i].id = id
      BY PartsTyped DEF IInv, Listed
    <2>3. TypeOK'
      BY <2>1, <2>2 DEF IInv, TypeOK
    <2>4. Known'
      BY <2>1, <2>2 DEF IInv, Known
    <2>5. Lone'
      BY <2>1, <2>2 DEF IInv, Lone, SentOnce
    <2> QED BY <2>1, <2>3, <2>4, <2>5 DEF IInv, Dated, RecordsKept, SentOnce, Kept, Aged, Outlives,
                   Complete, Never
  <1>2. CASE FailClear
    <2>1. /\ clearing' = None
          /\ UNCHANGED <<now, created, sent, pipes, index, indexEnds, records>>
      BY <1>2 DEF FailClear
    <2> QED BY <2>1 DEF IInv, TypeOK, Dated, Known, Lone, RecordsKept, SentOnce, Kept, Aged, Outlives,
                   Complete, Never
  <1>3. CASE DeleteCleared
    <2>1. /\ clearing # None /\ index' = <<>> /\ indexEnds' = Never
          /\ records' = [id \in IDs |-> IF id \in clearing THEN None ELSE records[id]]
          /\ clearing' \in {None, clearing}
          /\ UNCHANGED <<now, created, sent, pipes>>
      BY <1>3 DEF DeleteCleared
    <2>2. TypeOK'
      <3>1. <<>> \in Seq(Summary)
        OBVIOUS
      <3> QED BY <2>1, <3>1 DEF IInv, TypeOK
    <2>3. 1..Len(<<>>) = {}
      OBVIOUS
    <2>4. Dated' /\ Known' /\ Lone'
      BY <2>1, <2>3 DEF IInv, Dated, Known, Lone, SentOnce
    <2>5. RecordsKept'
      <3>1. ASSUME NEW p \in pipes, SentOnce(p), p.next = "push" PROVE Kept(p.entry)'
        <4>1. p.entry.id \in IDs /\ p.entry.id \notin clearing /\ Kept(p.entry)
          BY <2>1, <3>1, PartsTyped DEF IInv, Lone, RecordsKept
        <4>2. records'[p.entry.id] = records[p.entry.id]
          BY <2>1, <4>1
        <4> QED BY <2>1, <4>1, <4>2 DEF Kept, Aged, Never
      <3> QED BY <2>1, <2>3, <3>1 DEF RecordsKept, SentOnce
    <2>6. Outlives'
      <3>1. \A s \in Summary : s.at + TTL <= Never
        BY DEF Summary, Times, Never
      <3> QED BY <2>1, <2>3, <3>1, PartsTyped DEF IInv, Outlives, Never
    <2> QED BY <2>2, <2>4, <2>5, <2>6 DEF IInv
  <1> QED BY <1>1, <1>2, <1>3

LEMMA InvStep == IInv /\ [Next]_vars => IInv'
  <1> SUFFICES ASSUME IInv, [Next]_vars PROVE IInv'
    OBVIOUS
  <1>1. CASE UNCHANGED vars
    BY <1>1 DEF vars, IInv, TypeOK, Dated, Known, Lone, RecordsKept, SentOnce, Kept, Aged, Outlives,
                   Complete, Never
  <1>2. ASSUME NEW p \in pipes,
               Retry(p) \/ SetRecord(p) \/ PushSummary(p) \/ TrimIndex(p) \/ ExpireIndex(p)
        PROVE  IInv'
    BY <1>2, RetryStep, SetRecordStep, PushSummaryStep, TrimIndexStep, ExpireIndexStep
  <1> QED BY <1>1, <1>2, TickStep, SetStep, ClearStep DEF Next

LEMMA Invariance == Spec => []IInv
  BY InitHolds, InvStep, PTL DEF Spec

-----------------------------------------------------------------------------
(* The theorems                                                            *)

THEOREM TypeCorrect == Spec => []TypeOK
  <1>1. IInv => TypeOK
    BY DEF IInv
  <1> QED BY <1>1, Invariance, PTL

\* However the commands of pipelines and of a Clear interleave, what a page
\* lists can be opened if its pipeline was sent once.
THEOREM ListedOpens == Spec => []ListedCanBeOpened
  <1>1. IInv => ListedCanBeOpened
    BY DEF IInv, RecordsKept, Kept, ListedCanBeOpened
  <1> QED BY <1>1, Invariance, PTL

\* A step keeps every young summary of a finished pipeline, or deletes for Clear.
LEMMA StepKeepsYoung ==
  ASSUME IInv, [Next]_vars, NEW i \in 1..Len(index), i <= Keep, index[i].id \in Complete,
         ~(TTL > 0 /\ index[i].at + TTL < now'),
         ~(clearing # None /\ now' = now /\ index' = <<>>)
  PROVE  \E j \in 1..Len(index') : index'[j] = index[i]
  <1>1. CASE index' = index
    BY <1>1
  <1>2. CASE Tick
    <2>1. index[i].at \in Nat /\ index[i].at + TTL <= indexEnds /\ indexEnds \in Nat
          /\ (TTL = 0 => indexEnds = Never)
      BY PartsTyped DEF IInv, Outlives
    <2>2. now' <= MaxTime /\ now' \in Nat
      BY <1>2 DEF IInv, TypeOK, Tick, Times
    <2>3. ~(indexEnds < now')
      BY <2>1, <2>2 DEF Never
    <2> QED BY <1>1, <1>2, <2>3 DEF Tick
  <1>3. ASSUME NEW p \in pipes, PushSummary(p) PROVE \E j \in 1..Len(index') : index'[j] = index[i]
    <2>1. p.entry \in Summary /\ index \in Seq(Summary) /\ index' = <<p.entry>> \o index
      BY <1>3, PartsTyped DEF IInv, TypeOK, PushSummary
    <2>2. Len(index') = Len(index) + 1 /\ index'[i + 1] = index[i] /\ Len(index) \in Nat
      BY <2>1, PushedIndex
    <2> QED BY <2>2
  <1>4. ASSUME NEW p \in pipes, TrimIndex(p) PROVE \E j \in 1..Len(index') : index'[j] = index[i]
    <2>1. index \in Seq(Summary) /\ Len(index) \in Nat
      BY DEF IInv, TypeOK
    <2>2. CASE Len(index) <= Keep
      BY <1>1, <1>4, <2>2 DEF TrimIndex
    <2>3. CASE Len(index) > Keep
      <3>1. index' = SubSeq(index, 1, Keep)
        BY <1>4, <2>1, <2>3 DEF TrimIndex
      <3>2. Len(index') = Keep /\ i \in 1..Keep /\ index'[i] = index[i]
        BY <2>1, <2>3, <3>1, TrimmedIndex
      <3> QED BY <3>2
    <2> QED BY <2>1, <2>2, <2>3
  <1>5. CASE DeleteCleared
    BY <1>5 DEF DeleteCleared
  <1>6. ASSUME NEW p \in pipes, Retry(p) \/ SetRecord(p) \/ ExpireIndex(p) PROVE index' = index
    BY <1>6 DEF Retry, SetRecord, ExpireIndex
  <1>7. CASE Set \/ ListForClear \/ FailClear \/ UNCHANGED vars
    BY <1>1, <1>7 DEF Set, ListForClear, FailClear, vars
  <1> QED BY <1>1, <1>2, <1>3, <1>4, <1>5, <1>6, <1>7 DEF Next

\* Redis drops no young summary of a finished pipeline, whatever pipelines come
\* after it or break off: its deadline, and the trim, only ever take old ones.
THEOREM YoungStay == Spec => YoungStayListed
  <1>1. IInv /\ [Next]_vars =>
          [\A i \in 1..Len(index) :
             \/ i > Keep
             \/ index[i].id \notin Complete
             \/ TTL > 0 /\ index[i].at + TTL < now'
             \/ \E j \in 1..Len(index') : index'[j] = index[i]
             \/ clearing # None /\ now' = now /\ index' = <<>>]_vars
    <2> SUFFICES ASSUME IInv, [Next]_vars, NEW i \in 1..Len(index)
                 PROVE  \/ i > Keep
                        \/ index[i].id \notin Complete
                        \/ TTL > 0 /\ index[i].at + TTL < now'
                        \/ \E j \in 1..Len(index') : index'[j] = index[i]
                        \/ clearing # None /\ now' = now /\ index' = <<>>
      OBVIOUS
    <2>1. i > Keep \/ i <= Keep
      BY DEF IInv, TypeOK
    <2> QED BY <2>1, StepKeepsYoung
  <1> QED BY <1>1, Invariance, PTL DEF Spec, YoungStayListed

-----------------------------------------------------------------------------
(* The refinement                                                          *)

Front(s) == SubSeq(s, 1, IF Len(s) <= Keep THEN Len(s) ELSE Keep)
Log == Front(index)

\* The log is what is left of the list after a trim.
LEMMA LogIsPrefix ==
  ASSUME NEW s \in Seq(Summary)
  PROVE  /\ Front(s) \in Seq(Summary)
         /\ Len(Front(s)) = IF Len(s) <= Keep THEN Len(s) ELSE Keep
         /\ Len(Front(s)) \in Nat /\ Len(s) \in Nat
         /\ \A i \in 1..Len(Front(s)) : i \in 1..Len(s) /\ Front(s)[i] = s[i]
  BY DEF Front

\* Pushing onto the list and looking at its newest records is pushing onto
\* those and looking at the newest again.
LEMMA NewestOfPushed ==
  ASSUME NEW s \in Seq(Summary), NEW e \in Summary
  PROVE  Front(<<e>> \o s) = Promise!Newest(<<e>> \o Front(s))
  <1> DEFINE l == Front(s)
  <1>1. /\ l \in Seq(Summary) /\ Len(l) \in Nat /\ Len(s) \in Nat
        /\ Len(l) = IF Len(s) <= Keep THEN Len(s) ELSE Keep
        /\ \A i \in 1..Len(l) : i \in 1..Len(s) /\ l[i] = s[i]
    BY LogIsPrefix
  <1> HIDE DEF l
  <1> DEFINE t == <<e>> \o s
             u == <<e>> \o l
             n == IF Len(t) <= Keep THEN Len(t) ELSE Keep
             m == IF Len(u) <= Keep THEN Len(u) ELSE Keep
  <1>2. /\ t \in Seq(Summary) /\ Len(t) = Len(s) + 1 /\ t[1] = e
        /\ \A i \in 1..Len(t) : i = 1 \/ (i - 1 \in 1..Len(s) /\ t[i] = s[i - 1])
    BY PushedIndex
  <1>3. /\ u \in Seq(Summary) /\ Len(u) = Len(l) + 1 /\ u[1] = e
        /\ \A i \in 1..Len(u) : i = 1 \/ (i - 1 \in 1..Len(l) /\ u[i] = l[i - 1])
    BY <1>1, PushedIndex
  <1>4. n = m /\ n \in Nat /\ n <= Len(t) /\ n <= Len(u)
    BY <1>1, <1>2, <1>3
  <1>5. \A i \in 1..n : t[i] = u[i]
    BY <1>1, <1>2, <1>3, <1>4
  <1>6. Promise!Newest(u) = SubSeq(u, 1, m)
    BY DEF Promise!Newest
  <1>9. Front(t) = SubSeq(t, 1, n)
    BY DEF Front
  <1> HIDE DEF t, u, n, m
  <1>7. SubSeq(t, 1, n) = [i \in 1..n |-> t[i]] /\ SubSeq(u, 1, n) = [i \in 1..n |-> u[i]]
    BY <1>2, <1>3, <1>4
  <1>8. SubSeq(t, 1, n) = SubSeq(u, 1, n)
    BY <1>5, <1>7
  <1> QED BY <1>4, <1>6, <1>8, <1>9 DEF t, u, l

\* A push records, a lost list or a Clear empties, everything else stutters.
LEMMA StepRefines ==
  ASSUME IInv, [Next]_vars
  PROVE  [Promise!Next]_Log
  <1>1. index \in Seq(Summary)
    BY DEF IInv, TypeOK
  <1>2. index' = index => UNCHANGED Log
    BY DEF Log, Front
  <1>3. index' = <<>> => Promise!Empty
    <2>1. SubSeq(<<>>, 1, Len(<<>>)) = <<>> /\ Len(<<>>) = 0
      OBVIOUS
    <2> QED BY <2>1 DEF Promise!Empty
  <1>4. ASSUME NEW p \in pipes, PushSummary(p) PROVE Promise!Record(p.entry) /\ p.entry \in Summary
    <2>1. p.entry \in Summary /\ index' = <<p.entry>> \o index /\ p.next = "push"
      BY <1>4, PartsTyped DEF IInv, PushSummary
    <2>2. Log' = Promise!Newest(<<p.entry>> \o Log)
      BY <1>1, <2>1, NewestOfPushed DEF Log
    <2>3. Retries = 0 => \A i \in 1..Len(Log) : Log[i] # p.entry
      <3>1. SUFFICES ASSUME Retries = 0, NEW i \in 1..Len(Log) PROVE Log[i] # p.entry
        OBVIOUS
      <3>2. SentOnce(p)
        <4>1. p.attempt <= sent[p.entry.id] /\ p.attempt >= 1
              /\ sent[p.entry.id] \in 0..(Retries + 1) /\ p.attempt \in Nat
          BY PartsTyped DEF IInv, Dated, TypeOK
        <4> QED BY <3>1, <4>1 DEF SentOnce
      <3>3. i \in 1..Len(index) /\ Log[i] = index[i]
        BY <1>1, <3>1, LogIsPrefix DEF Log
      <3> QED BY <2>1, <3>2, <3>3 DEF IInv, Lone
    <2> QED BY <2>1, <2>2, <2>3 DEF Promise!Record, Log, Front
  <1>5. ASSUME NEW p \in pipes, TrimIndex(p) PROVE UNCHANGED Log
    <2>1. CASE Len(index) <= Keep
      BY <1>2, <1>5, <2>1 DEF TrimIndex
    <2>2. CASE Len(index) > Keep
      <3>1. index' = SubSeq(index, 1, Keep) /\ Len(index') = Keep
        BY <1>1, <1>5, <2>2, TrimmedIndex DEF TrimIndex
      <3>2. Log = index'
        BY <1>1, <2>2, <3>1 DEF Log, Front
      <3>3. index' \in Seq(Summary)
        BY <1>1, <2>2, <3>1, TrimmedIndex
      <3>4. Log' = SubSeq(index', 1, Len(index'))
        BY <3>1 DEF Log, Front
      <3>5. SubSeq(index', 1, Len(index')) = index'
        BY <3>3
      <3> QED BY <3>2, <3>4, <3>5
    <2> QED BY <1>1, <2>1, <2>2
  <1>6. CASE Tick
    BY <1>2, <1>3, <1>6 DEF Tick, Promise!Next
  <1>7. CASE DeleteCleared
    BY <1>3, <1>7 DEF DeleteCleared, Promise!Next
  <1>8. ASSUME NEW p \in pipes, Retry(p) \/ SetRecord(p) \/ ExpireIndex(p) PROVE UNCHANGED Log
    BY <1>2, <1>8 DEF Retry, SetRecord, ExpireIndex
  <1>9. CASE Set \/ ListForClear \/ FailClear \/ UNCHANGED vars
    BY <1>2, <1>9 DEF Set, ListForClear, FailClear, vars
  <1>10. ASSUME NEW p \in pipes, PushSummary(p) PROVE Promise!Next
    BY <1>4, <1>10 DEF Promise!Next
  <1> QED BY <1>5, <1>6, <1>7, <1>8, <1>9, <1>10 DEF Next

\* The newest summaries in Redis are the bounded log of the interface; without
\* repeated pipelines each record enters it once.
THEOREM Refinement == Spec => IsBoundedLog
  <1>1. Init => Promise!Init
    <2>1. SubSeq(<<>>, 1, Len(<<>>)) = <<>> /\ Len(<<>>) = 0
      OBVIOUS
    <2> QED BY <2>1 DEF Init, Promise!Init
  <1>2. IInv /\ [Next]_vars => [Promise!Next]_Log
    BY StepRefines
  <1> QED BY <1>1, <1>2, Invariance, PTL DEF Spec, IsBoundedLog, Promise!Spec, Log, Front
=============================================================================
