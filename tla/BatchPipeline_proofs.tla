------------------------ MODULE BatchPipeline_proofs -------------------------
(***************************************************************************)
(* Proofs about BatchPipeline, for any corpora, any batch size and any     *)
(* concurrency: packing puts every spec into one batch, a run reports      *)
(* every spec once, and what it started is stopped.                        *)
(***************************************************************************)
EXTENDS BatchPipeline, FiniteSetTheorems, SequenceTheorems, TLAPS

-----------------------------------------------------------------------------
(* Sequences without repetition                                            *)

LEMMA HeadAndTail ==
  ASSUME NEW S, NEW s \in Seq(S), s # <<>>
  PROVE  /\ Head(s) \in S /\ Tail(s) \in Seq(S)
         /\ ToSet(s) = {Head(s)} \cup ToSet(Tail(s))
         /\ IsInjective(s) => Head(s) \notin ToSet(Tail(s)) /\ IsInjective(Tail(s))
<1>1. /\ Head(s) \in S /\ Tail(s) \in Seq(S)
      /\ Len(s) \in Nat \ {0} /\ DOMAIN s = 1..Len(s) /\ Head(s) = s[1]
      /\ Len(Tail(s)) = Len(s) - 1 /\ DOMAIN Tail(s) = 1..(Len(s) - 1)
      /\ \A i \in 1..(Len(s) - 1) : Tail(s)[i] = s[i + 1]
  BY HeadTailProperties, EmptySeq, LenProperties
<1>2. ASSUME NEW i \in 1..Len(s), i # 1
      PROVE  i - 1 \in 1..(Len(s) - 1) /\ s[i] = Tail(s)[i - 1]
  <2>1. i - 1 \in 1..(Len(s) - 1) /\ (i - 1) + 1 = i
    BY <1>1, <1>2
  <2> QED BY <1>1, <2>1
<1>3. ToSet(s) = {Head(s)} \cup ToSet(Tail(s))
  <2>1. \A i \in 1..Len(s) : s[i] = Head(s) \/ s[i] \in ToSet(Tail(s))
    BY <1>1, <1>2 DEF ToSet
  <2>2. \A x : x = Head(s) \/ x \in ToSet(Tail(s)) => x \in ToSet(s)
    BY <1>1 DEF ToSet
  <2> QED BY <1>1, <2>1, <2>2 DEF ToSet
<1>4. ASSUME IsInjective(s) PROVE Head(s) \notin ToSet(Tail(s)) /\ IsInjective(Tail(s))
  BY <1>1, <1>4 DEF ToSet, IsInjective
<1> QED BY <1>1, <1>3, <1>4

LEMMA AppendOne ==
  ASSUME NEW S, NEW s \in Seq(S), NEW e \in S
  PROVE  /\ Append(s, e) \in Seq(S) /\ Len(Append(s, e)) = Len(s) + 1
         /\ ToSet(Append(s, e)) = ToSet(s) \cup {e}
         /\ IsInjective(s) /\ e \notin ToSet(s) => IsInjective(Append(s, e))
<1>1. /\ Append(s, e) \in Seq(S) /\ Len(s) \in Nat
      /\ Len(Append(s, e)) = Len(s) + 1
      /\ DOMAIN s = 1..Len(s) /\ DOMAIN Append(s, e) = 1..(Len(s) + 1)
      /\ \A i \in 1..Len(s) : Append(s, e)[i] = s[i]
      /\ Append(s, e)[Len(s) + 1] = e
  BY AppendProperties, LenProperties
<1>2. ToSet(Append(s, e)) = ToSet(s) \cup {e}
  <2>1. \A x : x \in ToSet(Append(s, e)) => x = e \/ x \in ToSet(s)
    BY <1>1 DEF ToSet
  <2>2. \A x : x = e \/ x \in ToSet(s) => x \in ToSet(Append(s, e))
    BY <1>1 DEF ToSet
  <2> QED BY <2>1, <2>2
<1>3. ASSUME IsInjective(s), e \notin ToSet(s) PROVE IsInjective(Append(s, e))
  BY <1>1, <1>3 DEF ToSet, IsInjective
<1> QED BY <1>1, <1>2, <1>3

LEMMA EmptyFacts == ToSet(<<>>) = {} /\ IsInjective(<<>>)
  BY DEF ToSet, IsInjective

-----------------------------------------------------------------------------
(* Packing                                                                 *)

\* The specs 1..n are in one batch each, once.
Apart(bs, n) ==
    /\ bs \in Seq(Seq(1..n)) /\ Len(bs) <= n
    /\ \A b \in DOMAIN bs : IsInjective(bs[b])
    /\ \A b, c \in DOMAIN bs : b # c => ToSet(bs[b]) \cap ToSet(bs[c]) = {}
    /\ \A i \in 1..n : \E b \in DOMAIN bs : i \in ToSet(bs[b])

\* A batch holds numbers up to n.
LEMMA Holds ==
  ASSUME NEW n \in Nat, NEW bs, Apart(bs, n)
  PROVE  /\ Len(bs) \in Nat /\ Len(bs) <= n /\ DOMAIN bs = 1..Len(bs)
         /\ \A b \in DOMAIN bs : bs[b] \in Seq(1..n) /\ ToSet(bs[b]) \subseteq 1..n
<1>1. Len(bs) \in Nat /\ DOMAIN bs = 1..Len(bs) /\ bs \in [1..Len(bs) -> Seq(1..n)]
  BY LenProperties DEF Apart
<1>2. ASSUME NEW b \in DOMAIN bs PROVE bs[b] \in Seq(1..n) /\ ToSet(bs[b]) \subseteq 1..n
  <2>1. bs[b] \in Seq(1..n)
    BY <1>1
  <2> QED BY <2>1, LenProperties DEF ToSet
<1> QED BY <1>1, <1>2 DEF Apart

LEMMA OpenBatch ==
  ASSUME NEW n \in Nat, NEW bs, Apart(bs, n)
  PROVE  Apart(Append(bs, <<n + 1>>), n + 1)
<1> DEFINE new == Append(bs, <<n + 1>>)
<1> DEFINE k == Len(bs) + 1
<1>1. /\ DOMAIN bs = 1..Len(bs) /\ Len(bs) \in Nat /\ Len(bs) <= n
      /\ \A b \in DOMAIN bs : ToSet(bs[b]) \subseteq 1..n
  BY Holds
<1>2. bs \in Seq(Seq(1..(n + 1)))
  <2>1. Seq(1..n) \subseteq Seq(1..(n + 1))
    BY SeqMonotonic
  <2> QED BY <2>1, SeqMonotonic DEF Apart
<1>3. <<n + 1>> \in Seq(1..(n + 1)) /\ ToSet(<<n + 1>>) = {n + 1} /\ IsInjective(<<n + 1>>)
  BY DEF ToSet, IsInjective
<1>4. /\ new \in Seq(Seq(1..(n + 1))) /\ Len(new) = k /\ DOMAIN new = 1..k
      /\ \A b \in DOMAIN bs : new[b] = bs[b]
      /\ new[k] = <<n + 1>>
  BY <1>1, <1>2, <1>3, AppendProperties, LenProperties
<1>5. /\ \A b \in DOMAIN new : b \in DOMAIN bs \/ b = k
      /\ \A b \in DOMAIN bs : b \in DOMAIN new
      /\ k \in DOMAIN new
  BY <1>1, <1>4
<1> HIDE DEF new, k
<1>6. \A b \in DOMAIN new : IsInjective(new[b])
  BY <1>3, <1>4, <1>5 DEF Apart
<1>7. \A b \in DOMAIN bs : n + 1 \notin ToSet(bs[b])
  BY <1>1
<1>8. ASSUME NEW b \in DOMAIN new, NEW c \in DOMAIN new, b # c
      PROVE  ToSet(new[b]) \cap ToSet(new[c]) = {}
  <2>1. ToSet(new[k]) = {n + 1} /\ \A d \in DOMAIN bs : ToSet(new[d]) = ToSet(bs[d])
    BY <1>3, <1>4
  <2>2. CASE b \in DOMAIN bs /\ c \in DOMAIN bs
    <3>1. ToSet(bs[b]) \cap ToSet(bs[c]) = {}
      BY <1>8, <2>2 DEF Apart
    <3> QED BY <2>1, <2>2, <3>1
  <2>3. CASE b = k /\ c \in DOMAIN bs
    BY <1>7, <2>1, <2>3
  <2>4. CASE c = k /\ b \in DOMAIN bs
    BY <1>7, <2>1, <2>4
  <2> QED BY <1>5, <1>8, <2>2, <2>3, <2>4
<1>9. ASSUME NEW i \in 1..(n + 1) PROVE \E b \in DOMAIN new : i \in ToSet(new[b])
  <2>1. CASE i = n + 1
    BY <1>3, <1>4, <1>5, <2>1
  <2>2. CASE i \in 1..n
    BY <1>4, <1>5, <2>2 DEF Apart
  <2> QED BY <2>1, <2>2
<1>10. Len(new) <= n + 1
  BY <1>1, <1>4 DEF k
<1>11. Apart(new, n + 1)
  BY <1>4, <1>6, <1>8, <1>9, <1>10 DEF Apart
<1> QED BY <1>11 DEF new

LEMMA JoinBatch ==
  ASSUME NEW n \in Nat, NEW bs, Apart(bs, n), NEW k \in DOMAIN bs
  PROVE  Apart([bs EXCEPT ![k] = Append(@, n + 1)], n + 1)
<1> DEFINE new == [bs EXCEPT ![k] = Append(@, n + 1)]
<1>1. /\ DOMAIN bs = 1..Len(bs) /\ Len(bs) \in Nat /\ Len(bs) <= n
      /\ \A b \in DOMAIN bs : bs[b] \in Seq(1..n) /\ ToSet(bs[b]) \subseteq 1..n
  BY Holds
<1>2. Seq(1..n) \subseteq Seq(1..(n + 1))
  BY SeqMonotonic
<1>3. bs \in Seq(Seq(1..(n + 1)))
  BY <1>2, SeqMonotonic DEF Apart
<1>4. \A b \in DOMAIN bs : n + 1 \notin ToSet(bs[b])
  BY <1>1
<1>5. /\ Append(bs[k], n + 1) \in Seq(1..(n + 1))
      /\ ToSet(Append(bs[k], n + 1)) = ToSet(bs[k]) \cup {n + 1}
      /\ IsInjective(Append(bs[k], n + 1))
  <2>1. bs[k] \in Seq(1..(n + 1)) /\ n + 1 \in 1..(n + 1)
    BY <1>1, <1>2
  <2> QED BY <1>4, <2>1, AppendOne DEF Apart
<1>6. /\ new \in Seq(Seq(1..(n + 1))) /\ Len(new) = Len(bs) /\ DOMAIN new = DOMAIN bs
      /\ \A b \in DOMAIN bs : b # k => new[b] = bs[b]
      /\ new[k] = Append(bs[k], n + 1)
  BY <1>1, <1>3, <1>5, ExceptSeq
<1> HIDE DEF new
<1>7. \A b \in DOMAIN new : IsInjective(new[b])
  BY <1>5, <1>6 DEF Apart
<1>8. ASSUME NEW b \in DOMAIN new, NEW c \in DOMAIN new, b # c
      PROVE  ToSet(new[b]) \cap ToSet(new[c]) = {}
  <2>1. ToSet(bs[b]) \cap ToSet(bs[c]) = {}
    BY <1>6, <1>8 DEF Apart
  <2>2. ToSet(new[b]) = ToSet(bs[b]) \/ (b = k /\ ToSet(new[b]) = ToSet(bs[b]) \cup {n + 1})
    BY <1>5, <1>6
  <2>3. ToSet(new[c]) = ToSet(bs[c]) \/ (c = k /\ ToSet(new[c]) = ToSet(bs[c]) \cup {n + 1})
    BY <1>5, <1>6
  <2> QED BY <1>4, <1>6, <1>8, <2>1, <2>2, <2>3
<1>9. ASSUME NEW i \in 1..(n + 1) PROVE \E b \in DOMAIN new : i \in ToSet(new[b])
  <2>1. CASE i = n + 1
    BY <1>5, <1>6, <2>1
  <2>2. CASE i \in 1..n
    <3>1. PICK b \in DOMAIN bs : i \in ToSet(bs[b])
      BY <2>2 DEF Apart
    <3>2. i \in ToSet(new[b])
      BY <1>5, <1>6, <3>1
    <3> QED BY <1>6, <3>1, <3>2
  <2> QED BY <2>1, <2>2
<1>10. Len(new) <= n + 1
  BY <1>1, <1>6
<1>11. Apart(new, n + 1)
  BY <1>6, <1>7, <1>8, <1>9, <1>10 DEF Apart
<1> QED BY <1>11 DEF new

\* What is packed, and that a run starts when all of it is.
Packing ==
    /\ sizes \in Corpora /\ packed \in 0..Len(sizes)
    /\ Apart(batches, packed)
    /\ main # "split" => packed = Len(sizes)

LEMMA Corpus ==
  ASSUME sizes \in Corpora
  PROVE  Len(sizes) \in Nat /\ specs = 1..Len(sizes) /\ specs \subseteq Slots
<1>1. sizes \in Seq(Nat)
  BY BatchAssumption DEF BatchAssumption
<1> QED BY <1>1, LenProperties DEF specs, Slots

LEMMA SlotsAreNumbers == Slots \subseteq Nat \ {0}
<1>1. \A c \in Corpora : DOMAIN c = 1..Len(c) /\ Len(c) \in Nat
  BY BatchAssumption, LenProperties DEF BatchAssumption
<1> QED BY <1>1 DEF Slots

\* Every batch has a slot and holds specs.
LEMMA Batches ==
  ASSUME Packing
  PROVE  /\ Len(batches) \in Nat /\ DOMAIN batches = 1..Len(batches)
         /\ DOMAIN batches \subseteq Slots
         /\ batches \in Seq(Seq(specs))
         /\ \A b \in DOMAIN batches : batches[b] \in Seq(specs) /\ SpecsIn(b) \subseteq specs
<1>1. packed \in Nat /\ Len(sizes) \in Nat /\ packed <= Len(sizes) /\ specs = 1..Len(sizes)
      /\ specs \subseteq Slots
  BY Corpus DEF Packing
<1>2. 1..packed \subseteq specs
  BY <1>1
<1>3. /\ Len(batches) \in Nat /\ Len(batches) <= packed /\ DOMAIN batches = 1..Len(batches)
      /\ \A b \in DOMAIN batches : batches[b] \in Seq(1..packed) /\ ToSet(batches[b]) \subseteq 1..packed
  BY <1>1, Holds DEF Packing
<1>4. Seq(1..packed) \subseteq Seq(specs)
  BY <1>2, SeqMonotonic
<1>5. batches \in Seq(Seq(specs))
  BY <1>4, SeqMonotonic DEF Packing, Apart
<1>6. DOMAIN batches \subseteq Slots
  BY <1>1, <1>3
<1> QED BY <1>2, <1>3, <1>4, <1>5, <1>6 DEF SpecsIn

LEMMA StepPacking ==
  ASSUME Packing, Next
  PROVE  Packing'
<1>1. CASE PlaceSpec
  <2>1. packed \in Nat /\ packed + 1 \in 0..Len(sizes)
    BY <1>1, Corpus DEF Packing, PlaceSpec
  <2>2. packed' = packed + 1 /\ sizes' = sizes /\ main' = "split"
    BY <1>1 DEF PlaceSpec, mainVars
  <2>3. Apart(batches', packed + 1)
    <3>1. CASE batches' = Append(batches, <<packed + 1>>)
      BY <2>1, <3>1, OpenBatch DEF Packing
    <3>2. CASE \E b \in Room(packed + 1) : batches' = [batches EXCEPT ![b] = Append(@, packed + 1)]
      BY <2>1, <3>2, JoinBatch DEF Packing, Room
    <3> QED BY <1>1, <2>2, <3>1, <3>2 DEF PlaceSpec
  <2>4. sizes' \in Corpora /\ packed' \in 0..Len(sizes')
    BY <2>1, <2>2 DEF Packing
  <2>5. Apart(batches', packed')
    BY <2>2, <2>3
  <2> QED BY <2>2, <2>4, <2>5 DEF Packing
<1>2. CASE StartRun
  BY <1>2 DEF StartRun, setupVars, Packing
<1>3. CASE ~PlaceSpec /\ ~StartRun
  <2>1. sizes' = sizes /\ batches' = batches /\ packed' = packed
    BY <1>3 DEF Next, Interrupt, Split, Produce, NextBatch, Acquire, CloseChannel, StartBuilder,
       TimeOut, Send, Prepare, SetUp, Build, Launch, AwaitHealth, Panic, prepRest, Receive,
       ReceiveAborted, ReceiveError, ReceiveReady, SeeInterrupt, SeeClosed, Test, NextTest,
       FinishTest, PanicInTest, StopBatch, mainRest, setupVars
  <2>2. main = "split" => main' = "split"
    <3>1. Interrupt \/ Produce => main' = main
      BY DEF Interrupt, Produce, NextBatch, Acquire, CloseChannel, mainVars
    <3>2. ASSUME NEW b \in Slots, StartBuilder(b) \/ TimeOut(b) \/ Send(b) \/ Prepare(b)
          PROVE  main' = main
      BY <3>2 DEF StartBuilder, TimeOut, Send, Prepare, SetUp, Build, Launch, AwaitHealth, Panic,
         prepRest, mainVars
    <3>3. (\E b \in Slots : Receive(b)) \/ SeeInterrupt \/ SeeClosed \/ Test => main # "split"
      BY DEF Receive, ReceiveAborted, ReceiveError, ReceiveReady, Received, SeeInterrupt, SeeClosed,
         Test, NextTest, FinishTest, PanicInTest, StopBatch
    <3> QED BY <1>3, <3>1, <3>2, <3>3 DEF Next, Split
  <2>3. Apart(batches', packed')
    BY <2>1 DEF Packing
  <2>4. /\ sizes' \in Corpora /\ packed' \in 0..Len(sizes')
        /\ main' # "split" => packed' = Len(sizes')
    BY <2>1, <2>2 DEF Packing
  <2> QED BY <2>3, <2>4 DEF Packing
<1> QED BY <1>1, <1>2, <1>3
-----------------------------------------------------------------------------
(* How far a run and its batches are                                       *)

Working == {"setup", "build", "launch", "health"}

Result == [error : BOOLEAN, failed : SUBSET specs, built : BOOLEAN]

Types ==
    /\ failCount \in Nat /\ next \in Nat \ {0}
    /\ builder \in [Slots -> {"none", "start", "wait", "send", "done"}]
    /\ prep \in [Slots -> {"none", "over"} \cup Working]
    /\ prepared \in [Slots -> Result]
    /\ timedOut \subseteq Slots /\ binaries \subseteq Slots /\ servers \subseteq Slots
    /\ preparedCh \in Seq(Slots)
    /\ current \in Slots \cup {0} /\ todo \in Seq(specs)
    /\ reported \in [specs -> Nat]

\* The producer has started the builders of the first batches.
Produced ==
    /\ producer = "none" <=> main = "split"
    /\ main = "split" => next = 1
    /\ producer = "acquire" => next <= Len(batches)
    /\ next <= Len(batches) + 1
    /\ producer \in {"wait", "closed"} => next > Len(batches) \/ aborted
    /\ producer = "closed" => Building = {}
    /\ \A b \in Slots : builder[b] = "none" <=> b >= next

\* A builder waits for as long as its preparation goes on, if it has not given
\* it up.
Waiting ==
    \A b \in Slots :
        /\ builder[b] \in {"none", "start"} => prep[b] = "none" /\ b \notin timedOut
        /\ builder[b] = "wait" => prep[b] \in Working /\ b \notin timedOut
        /\ prep[b] \in Working => builder[b] = "wait" \/ b \in timedOut

\* A batch comes out of the channel once, and the loop has one at a time.
Passing ==
    /\ IsInjective(preparedCh)
    /\ \A b \in ToSet(preparedCh) : builder[b] = "done" /\ b # current
    /\ main \in {"next", "testing"} <=> current # 0
    /\ current # 0 => builder[current] = "done"
    /\ main = "returned" => \/ interrupt /\ aborted
                            \/ producer = "closed" /\ preparedCh = <<>>

\* The loop will still see the batch.
InHand(b) == builder[b] = "send" \/ b \in ToSet(preparedCh) \/ current = b

\* What is known of a batch tells what it has left on the machine.
Hosted(b) ==
    /\ prepared[b].error \/ prepared[b].built
    /\ prepared[b].built => b \notin timedOut /\ prep[b] = "over"
    /\ prep[b] \in {"launch", "health"} => b \in binaries
    /\ b \in servers => b \in binaries
    /\ b \in servers /\ b \notin timedOut =>
          prep[b] = "health" \/ (prep[b] = "over" /\ ~prepared[b].error /\ InHand(b))
    /\ b \in binaries /\ b \notin timedOut =>
          \/ prep[b] \in {"launch", "health"}
          \/ prep[b] = "over" /\ (prepared[b].error \/ (prepared[b].built /\ InHand(b)))

Hosting == \A b \in Slots : Hosted(b)

\* Of the batch under test the specs in front are reported and those that failed.
Reported(b) ==
    /\ prepared[b].failed \subseteq SpecsIn(b)
    /\ builder[b] # "done" \/ b \in ToSet(preparedCh) => \A i \in SpecsIn(b) : reported[i] = 0
    /\ current = b => \A i \in SpecsIn(b) :
          reported[i] = IF i \in prepared[b].failed \/ i \notin ToSet(todo) THEN 1 ELSE 0
    /\ builder[b] = "done" /\ b \notin ToSet(preparedCh) /\ current # b =>
          \A i \in SpecsIn(b) : reported[i] <= 1 /\ (aborted \/ reported[i] = 1)

Reporting ==
    /\ main = "split" => /\ \A i \in specs : reported[i] = 0
                         /\ \A b \in Slots : prepared[b].failed = {}
    /\ \A b \in DOMAIN batches : Reported(b)
    /\ IsInjective(todo)
    /\ current # 0 => ToSet(todo) \subseteq SpecsIn(current)
    /\ main = "testing" => todo # <<>> /\ Head(todo) \notin prepared[current].failed

BatchInv == Packing /\ Types /\ Produced /\ Waiting /\ Passing /\ Hosting /\ Reporting

LEMMA SetupStays ==
  ASSUME Next
  PROVE  sizes' = sizes /\ specs' = specs /\ concurrency' = concurrency
<1>1. sizes' = sizes /\ concurrency' = concurrency
  BY DEF Next, Interrupt, Split, PlaceSpec, StartRun, Produce, NextBatch, Acquire, CloseChannel,
     StartBuilder, TimeOut, Send, Prepare, SetUp, Build, Launch, AwaitHealth, Panic, prepRest,
     Receive, ReceiveAborted, ReceiveError, ReceiveReady, SeeInterrupt, SeeClosed, Test, NextTest,
     FinishTest, PanicInTest, StopBatch, mainRest, setupVars
<1> QED BY <1>1 DEF specs

\* Whatever has begun is a batch.
LEMMA Started ==
  ASSUME Packing, Types, Produced, NEW b \in Slots, builder[b] # "none"
  PROVE  /\ b \in DOMAIN batches /\ SpecsIn(b) \subseteq specs /\ batches[b] \in Seq(specs)
         /\ Cardinality(SpecsIn(b)) \in Nat
         /\ Cardinality(prepared[b].failed) \in Nat
<1>1. b \in Nat \ {0} /\ next \in Nat /\ Len(batches) \in Nat /\ DOMAIN batches = 1..Len(batches)
  BY Batches, SlotsAreNumbers DEF Types
<1>2. b \in DOMAIN batches
  BY <1>1 DEF Produced
<1>3. SpecsIn(b) \subseteq specs /\ batches[b] \in Seq(specs)
  BY <1>2, Batches
<1>4. IsFiniteSet(specs)
  BY Corpus, FS_Interval DEF Packing
<1>5. prepared[b].failed \subseteq specs
  <2>1. prepared[b] \in Result
    BY DEF Types
  <2> QED BY <2>1 DEF Result
<1>6. IsFiniteSet(SpecsIn(b)) /\ IsFiniteSet(prepared[b].failed)
  BY <1>3, <1>4, <1>5, FS_Subset
<1> QED BY <1>2, <1>3, <1>6, FS_CardinalityType

LEMMA ResultsAreTyped ==
  ASSUME Types
  PROVE  /\ Failed \in Result
         /\ \A b \in Slots :
               /\ Broken(b) \in Result
               /\ [prepared[b] EXCEPT !.error = FALSE, !.built = TRUE] \in Result
               /\ \A F \in SUBSET specs : [prepared[b] EXCEPT !.failed = F] \in Result
<1>1. Failed \in Result
  BY DEF Failed, Result
<1>2. ASSUME NEW b \in Slots
      PROVE  /\ Broken(b) \in Result
             /\ [prepared[b] EXCEPT !.error = FALSE, !.built = TRUE] \in Result
             /\ \A F \in SUBSET specs : [prepared[b] EXCEPT !.failed = F] \in Result
  <2>1. (b \in binaries) \in BOOLEAN
    OBVIOUS
  <2>2. prepared[b] \in Result
    BY DEF Types
  <2>3. prepared[b].failed \in SUBSET specs
    BY <2>2 DEF Result
  <2>4. Broken(b) \in Result
    BY <2>1, <2>3 DEF Broken, Result
  <2> QED BY <2>2, <2>4 DEF Result
<1> QED BY <1>1, <1>2

LEMMA EndPrepTypes ==
  ASSUME Types, NEW b \in Slots, NEW r \in Result, EndPrep(b, r)
  PROVE  /\ prep' \in [Slots -> {"none", "over"} \cup Working]
         /\ builder' \in [Slots -> {"none", "start", "wait", "send", "done"}]
         /\ prepared' \in [Slots -> Result]
  BY DEF EndPrep, Types

LEMMA StepTypes ==
  ASSUME BatchInv, Next
  PROVE  Types'
<1> USE DEF BatchInv
<1>1. sizes' = sizes /\ specs' = specs /\ Result' = Result
  BY SetupStays DEF Result
<1>2. CASE Interrupt \/ Split \/ CloseChannel \/ NextBatch
  <2>1. UNCHANGED <<failCount, next, builder, prep, prepared, timedOut, binaries, servers,
                   preparedCh, current, todo, reported>>
    BY <1>2 DEF Interrupt, Split, PlaceSpec, StartRun, CloseChannel, NextBatch, abortVars,
       buildVars, hostVars, mainVars
  <2> QED BY <1>1, <2>1 DEF Types
<1>3. CASE Acquire
  <2>1. next' \in Nat \ {0} /\ builder' \in [Slots -> {"none", "start", "wait", "send", "done"}]
    <3>1. next \in Nat \ {0} /\ next' = next + 1
      BY <1>3 DEF Acquire, Types
    <3>2. builder' = [builder EXCEPT ![next] = "start"]
      BY <1>3 DEF Acquire
    <3>3. builder' \in [Slots -> {"none", "start", "wait", "send", "done"}]
      BY <3>2 DEF Types
    <3> QED BY <3>1, <3>3
  <2>2. UNCHANGED <<failCount, prep, prepared, timedOut, binaries, servers, preparedCh, current,
                   todo, reported>>
    BY <1>3 DEF Acquire, abortVars, hostVars, mainVars
  <2> QED BY <1>1, <2>1, <2>2 DEF Types
<1>4. ASSUME NEW b \in Slots, StartBuilder(b) \/ TimeOut(b)
      PROVE  Types'
  <2>1. CASE StartBuilder(b)
    <3>1. /\ prep' \in [Slots -> {"none", "over"} \cup Working]
          /\ builder' \in [Slots -> {"none", "start", "wait", "send", "done"}]
      BY <2>1 DEF StartBuilder, Types, Working
    <3>2. prepared' \in [Slots -> Result]
      BY <2>1, ResultsAreTyped DEF StartBuilder, Types
    <3>3. UNCHANGED <<failCount, next, timedOut, binaries, servers, preparedCh, current, todo, reported>>
      BY <2>1 DEF StartBuilder, hostVars, mainVars
    <3> QED BY <1>1, <3>1, <3>2, <3>3 DEF Types
  <2>2. CASE TimeOut(b)
    BY <1>1, <2>2, ResultsAreTyped DEF TimeOut, abortVars, hostVars, mainVars, Types
  <2> QED BY <1>4, <2>1, <2>2
<1>5. ASSUME NEW b \in Slots, Send(b)
      PROVE  Types'
  BY <1>1, <1>5 DEF Send, abortVars, hostVars, mainVars, Types
<1>6. ASSUME NEW b \in Slots, SetUp(b)
      PROVE  Types'
  <2>1. SpecsIn(b) \subseteq specs
    BY <1>6, Started DEF Waiting, SetUp
  <2>2. PICK F \in SUBSET SpecsIn(b) :
          \/ EndPrep(b, Failed)
          \/ /\ prep' = [prep EXCEPT ![b] = "build"]
             /\ prepared' = [prepared EXCEPT ![b].failed = IF builder[b] = "wait" THEN F ELSE @]
             /\ UNCHANGED builder
    BY <1>6 DEF SetUp
  <2>3. CASE EndPrep(b, Failed)
    BY <1>1, <1>6, <2>3, ResultsAreTyped, EndPrepTypes DEF SetUp, prepRest, abortVars, hostVars, mainVars, Types
  <2>4. CASE ~EndPrep(b, Failed)
    <3>1. prepared[b].failed \in SUBSET specs /\ F \in SUBSET specs
      <4>1. prepared[b] \in Result
        BY DEF Types
      <4> QED BY <2>1, <4>1 DEF Result
    <3>2. PICK G \in SUBSET specs : prepared' = [prepared EXCEPT ![b] = [prepared[b] EXCEPT !.failed = G]]
      BY <2>2, <2>4, <3>1 DEF Types
    <3>3. prepared' \in [Slots -> Result] /\ prep' \in [Slots -> {"none", "over"} \cup Working]
      BY <2>2, <2>4, <3>2, ResultsAreTyped DEF Types, Working
    <3> QED BY <1>1, <1>6, <2>2, <2>4, <3>3 DEF SetUp, prepRest, abortVars, hostVars, mainVars, Types
  <2> QED BY <2>3, <2>4
<1>7. ASSUME NEW b \in Slots, Build(b) \/ Launch(b) \/ AwaitHealth(b)
      PROVE  Types'
  <2>1. binaries' \subseteq Slots /\ servers' \subseteq Slots
    BY <1>7 DEF Build, Launch, AwaitHealth, Types
  <2>2. \/ \E r \in Result : EndPrep(b, r)
        \/ /\ \E p \in Working : prep' = [prep EXCEPT ![b] = p]
           /\ UNCHANGED <<builder, prepared>>
    BY <1>7, ResultsAreTyped DEF Build, Launch, AwaitHealth, Working
  <2>3. /\ prep' \in [Slots -> {"none", "over"} \cup Working]
        /\ builder' \in [Slots -> {"none", "start", "wait", "send", "done"}]
        /\ prepared' \in [Slots -> Result]
    <3>1. CASE \E r \in Result : EndPrep(b, r)
      BY <3>1, EndPrepTypes
    <3>2. CASE ~\E r \in Result : EndPrep(b, r)
      BY <2>2, <3>2 DEF Types
    <3> QED BY <3>1, <3>2
  <2> QED BY <1>1, <1>7, <2>1, <2>3 DEF Build, Launch, AwaitHealth, prepRest, abortVars, mainVars, Types
<1>8. ASSUME NEW b \in Slots, Panic(b)
      PROVE  Types'
  BY <1>1, <1>8 DEF Panic, abortVars, buildVars, hostVars, mainVars, Types
<1>9. ASSUME NEW b \in Slots, Receive(b)
      PROVE  Types'
  <2>1. /\ b \in ToSet(preparedCh) /\ preparedCh' \in Seq(Slots) /\ builder[b] = "done"
        /\ b \in DOMAIN batches /\ batches[b] \in Seq(specs)
        /\ Cardinality(SpecsIn(b)) \in Nat /\ Cardinality(prepared[b].failed) \in Nat
    <3>1. b \in ToSet(preparedCh) /\ preparedCh' \in Seq(Slots)
      <4>1. preparedCh # <<>> /\ b = Head(preparedCh) /\ preparedCh' = Tail(preparedCh)
        BY <1>9 DEF Receive, ReceiveAborted, ReceiveError, ReceiveReady, Received
      <4>2. preparedCh \in Seq(Slots)
        BY DEF Types
      <4> QED BY <4>1, <4>2, HeadAndTail
    <3>2. builder[b] = "done"
      BY <3>1 DEF Passing
    <3> QED BY <3>1, <3>2, Started
  <2>2. binaries' \subseteq Slots /\ servers' \subseteq Slots
    BY <1>9 DEF Receive, ReceiveAborted, ReceiveError, ReceiveReady, Discard, hostVars, Types
  <2>3. failCount' \in Nat /\ reported' \in [specs -> Nat]
    <3>1. CASE ReceiveAborted(b)
      BY <1>1, <3>1 DEF ReceiveAborted, mainVars, Types
    <3>2. ASSUME NEW S, NEW n \in Nat, Report(S, n)
          PROVE  failCount' \in Nat /\ reported' \in [specs -> Nat]
      BY <3>2 DEF Report, Types
    <3> QED BY <1>9, <2>1, <3>1, <3>2 DEF Receive, ReceiveError, ReceiveReady
  <2>4. current' \in Slots \cup {0} /\ todo' \in Seq(specs)
    BY <1>9, <2>1 DEF Receive, ReceiveAborted, ReceiveError, ReceiveReady, mainVars, Types
  <2>5. UNCHANGED <<next, builder, prep, prepared, timedOut>>
    BY <1>9 DEF Receive, ReceiveAborted, ReceiveError, ReceiveReady, mainRest, buildVars
  <2> QED BY <1>1, <2>1, <2>2, <2>3, <2>4, <2>5 DEF Types
<1>10. CASE SeeInterrupt \/ SeeClosed
  BY <1>1, <1>10 DEF SeeInterrupt, SeeClosed, mainRest, buildVars, hostVars, Types
<1>11. CASE NextTest
  <2>1. todo' \in Seq(specs)
    <3>1. todo # <<>> /\ todo \in Seq(specs)
      BY <1>11 DEF NextTest, Types
    <3>2. Tail(todo) \in Seq(specs)
      BY <3>1, HeadAndTail
    <3> QED BY <1>11, <3>1, <3>2 DEF NextTest
  <2> QED BY <1>1, <1>11, <2>1 DEF NextTest, mainRest, buildVars, hostVars, Types
<1>12. CASE FinishTest
  <2>1. current # 0
    BY <1>12 DEF Passing, FinishTest
  <2>2. todo' \in Seq(specs)
    <3>1. todo # <<>> /\ todo \in Seq(specs)
      BY <1>12 DEF Reporting, FinishTest, Types
    <3> QED BY <1>12, <3>1, HeadAndTail DEF FinishTest
  <2>3. failCount' \in Nat /\ reported' \in [specs -> Nat]
    BY <1>12, BatchAssumption DEF FinishTest, Report, Types, BatchAssumption
  <2> QED BY <1>1, <1>12, <2>2, <2>3 DEF FinishTest, mainRest, buildVars, hostVars, Types
<1>13. CASE StopBatch
  BY <1>1, <1>13 DEF StopBatch, Discard, mainRest, buildVars, Types
<1>14. CASE PanicInTest
  BY <1>1, <1>14 DEF PanicInTest, abortVars, buildVars, hostVars, mainVars, Types
<1> QED BY <1>2, <1>3, <1>4, <1>5, <1>6, <1>7, <1>8, <1>9, <1>10, <1>11, <1>12, <1>13, <1>14
        DEF Next, Produce, Prepare, Test

LEMMA NextBatchAborts ==
  ASSUME NextBatch
  PROVE  /\ aborted => aborted'
         /\ next <= Len(batches) /\ Interrupted => aborted'
<1> DEFINE more == next <= Len(batches)
<1>1. aborted' = (aborted \/ (more /\ interrupt))
  BY DEF NextBatch
<1> HIDE DEF more
<1>2. aborted \/ (more /\ interrupt) => aborted'
  BY <1>1, Zenon
<1>3. aborted => aborted'
  BY <1>2, Zenon
<1>4. more /\ Interrupted => aborted'
  BY <1>2, Zenon DEF Interrupted
<1> QED BY <1>3, <1>4, Zenon DEF more

\* What only some actions change.
LEMMA OthersStay ==
  ASSUME Next
  PROVE  /\ ~PlaceSpec => batches' = batches /\ packed' = packed
         /\ ~Acquire => next' = next
         /\ ~Produce /\ ~StartRun => producer' = producer
         /\ ~StartRun => (main = "split" <=> main' = "split")
         /\ aborted => aborted'
         /\ interrupt => interrupt'
<1>1. CASE Interrupt \/ Split
  BY <1>1 DEF Interrupt, Split, PlaceSpec, StartRun, setupVars, abortVars, mainVars, Produce
<1>2. CASE Produce
  <2>1. /\ UNCHANGED <<batches, packed, main, interrupt>>
        /\ ~Acquire => next' = next
    BY <1>2 DEF Produce, NextBatch, Acquire, CloseChannel, setupVars, abortVars, mainVars
  <2>2. CASE NextBatch
    BY <1>2, <2>1, <2>2, NextBatchAborts DEF NextBatch
  <2>3. CASE Acquire \/ CloseChannel
    BY <1>2, <2>1, <2>3 DEF Acquire, CloseChannel, abortVars
  <2> QED BY <1>2, <2>2, <2>3 DEF Produce
<1>3. ASSUME NEW b \in Slots, StartBuilder(b) \/ TimeOut(b) \/ Send(b) \/ Prepare(b)
      PROVE  /\ UNCHANGED <<batches, packed, next, producer, main, interrupt>>
             /\ aborted => aborted'
  BY <1>3 DEF StartBuilder, TimeOut, Send, Prepare, SetUp, Build, Launch, AwaitHealth, Panic,
     prepRest, setupVars, abortVars, mainVars
<1>4. ASSUME NEW b \in Slots, Receive(b)
      PROVE  /\ UNCHANGED <<batches, packed, next, producer, interrupt>>
             /\ aborted => aborted'
             /\ main # "split" /\ main' # "split"
  BY <1>4 DEF Receive, ReceiveAborted, ReceiveError, ReceiveReady, Received, Report, mainRest,
     setupVars, mainVars
<1>5. CASE SeeInterrupt \/ SeeClosed \/ Test
  <2>1. UNCHANGED <<batches, packed, next, producer, interrupt>>
    BY <1>5 DEF SeeInterrupt, SeeClosed, Test, NextTest, FinishTest, PanicInTest, StopBatch,
       mainRest, setupVars, abortVars
  <2>2. main # "split" /\ main' # "split"
    BY <1>5 DEF SeeInterrupt, SeeClosed, Test, NextTest, FinishTest, PanicInTest, StopBatch,
       mainVars
  <2>3. aborted => aborted'
    BY <1>5 DEF SeeInterrupt, SeeClosed, Test, NextTest, FinishTest, PanicInTest, StopBatch,
       Report, abortVars
  <2> QED BY <2>1, <2>2, <2>3
<1> QED BY <1>1, <1>2, <1>3, <1>4, <1>5 DEF Next

\* A builder that has been started goes on or stays as it is.
LEMMA BuildersGoOn ==
  ASSUME Types, Next, ~Acquire, NEW b \in Slots
  PROVE  \/ builder'[b] = builder[b]
         \/ builder[b] \in {"start", "wait", "send"} /\ builder'[b] \in {"wait", "send", "done"}
<1>1. CASE Interrupt \/ Split \/ NextBatch \/ CloseChannel
  BY <1>1 DEF Interrupt, Split, PlaceSpec, StartRun, NextBatch, CloseChannel, buildVars
<1>2. ASSUME NEW c \in Slots, StartBuilder(c) \/ TimeOut(c) \/ Send(c)
      PROVE  \/ builder'[b] = builder[b]
             \/ builder[b] \in {"start", "wait", "send"} /\ builder'[b] \in {"wait", "send", "done"}
  BY <1>2 DEF StartBuilder, TimeOut, Send, Types
<1>3. ASSUME NEW c \in Slots, Prepare(c)
      PROVE  \/ builder'[b] = builder[b]
             \/ builder[b] \in {"start", "wait", "send"} /\ builder'[b] \in {"wait", "send", "done"}
  BY <1>3 DEF Prepare, SetUp, Build, Launch, AwaitHealth, Panic, EndPrep, buildVars, Types
<1>4. ASSUME NEW c \in Slots, Receive(c)
      PROVE  builder' = builder
  BY <1>4 DEF Receive, ReceiveAborted, ReceiveError, ReceiveReady, mainRest, buildVars
<1>5. CASE SeeInterrupt \/ SeeClosed \/ Test
  BY <1>5 DEF SeeInterrupt, SeeClosed, Test, NextTest, FinishTest, PanicInTest, StopBatch, mainRest, buildVars
<1> QED BY <1>1, <1>2, <1>3, <1>4, <1>5 DEF Next, Produce

LEMMA StepProduced ==
  ASSUME Packing, Types, Produced, Next
  PROVE  Produced'
<1>1. /\ Len(batches) \in Nat /\ DOMAIN batches = 1..Len(batches) /\ Len(batches') \in Nat
      /\ Slots \subseteq Nat \ {0} /\ next \in Nat \ {0}
  <2>1. Packing'
    BY StepPacking
  <2>2. Len(batches') \in Nat
    BY <2>1, StepPacking, Holds, Corpus DEF Packing
  <2> QED BY <2>2, Batches, SlotsAreNumbers DEF Types
<1>2. CASE PlaceSpec
  BY <1>1, <1>2 DEF PlaceSpec, Produced, buildVars, mainVars
<1>3. CASE StartRun
  BY <1>1, <1>3 DEF StartRun, Produced, setupVars, buildVars, abortVars
<1>4. CASE NextBatch
  <2>1. UNCHANGED <<batches, next, builder, main>>
    BY <1>4 DEF NextBatch, setupVars, buildVars, mainVars
  <2>2. /\ producer = "check" /\ producer' \in {"wait", "acquire"}
        /\ producer' = "acquire" => next <= Len(batches)
    BY <1>1, <1>4 DEF NextBatch
  <2>3. producer' = "wait" => next > Len(batches) \/ aborted'
    <3>1. producer' = "wait" => next > Len(batches) \/ (next <= Len(batches) /\ Interrupted)
      BY <1>1, <1>4 DEF NextBatch
    <3> QED BY <1>4, <3>1, NextBatchAborts
  <2> QED BY <1>1, <2>1, <2>2, <2>3 DEF Produced
<1>5. CASE Acquire
  BY <1>1, <1>5 DEF Acquire, Produced, setupVars, abortVars, mainVars, Types
<1>6. CASE CloseChannel
  BY <1>1, <1>6 DEF CloseChannel, Building, Produced, setupVars, abortVars, buildVars, mainVars
<1>7. CASE ~PlaceSpec /\ ~StartRun /\ ~Produce
  <2>1. /\ batches' = batches /\ next' = next /\ producer' = producer
        /\ main = "split" <=> main' = "split"
        /\ aborted => aborted'
    BY <1>7, OthersStay DEF Produce
  <2>2. \A b \in Slots : \/ builder'[b] = builder[b]
                         \/ builder[b] \in {"start", "wait", "send"} /\ builder'[b] \in {"wait", "send", "done"}
    BY <1>7, BuildersGoOn DEF Produce
  <2>3. Building = {} => Building' = {}
    BY <2>2 DEF Building
  <2>4. \A b \in Slots : builder[b] = "none" <=> builder'[b] = "none"
    BY <2>2
  <2> QED BY <2>1, <2>3, <2>4 DEF Produced
<1> QED BY <1>2, <1>3, <1>4, <1>5, <1>6, <1>7 DEF Produce

LEMMA StepWaiting ==
  ASSUME Packing, Types, Produced, Waiting, Next
  PROVE  Waiting'
<1>1. CASE Interrupt \/ Split \/ NextBatch \/ CloseChannel
  BY <1>1 DEF Interrupt, Split, PlaceSpec, StartRun, NextBatch, CloseChannel, buildVars, Waiting
<1>2. CASE Acquire
  <2>1. \A b \in Slots : b = next => builder[b] = "none"
    BY SlotsAreNumbers DEF Produced, Types
  <2> QED BY <1>2, <2>1 DEF Acquire, Waiting, Types, Working
<1>3. ASSUME NEW b \in Slots, StartBuilder(b) \/ TimeOut(b) \/ Send(b)
      PROVE  Waiting'
  BY <1>3 DEF StartBuilder, TimeOut, Send, Waiting, Types, Working
<1>4. ASSUME NEW b \in Slots, Prepare(b)
      PROVE  Waiting'
  BY <1>4 DEF Prepare, SetUp, Build, Launch, AwaitHealth, Panic, EndPrep, prepRest, buildVars,
     Waiting, Types, Working
<1>5. ASSUME NEW b \in Slots, Receive(b)
      PROVE  Waiting'
  BY <1>5 DEF Receive, ReceiveAborted, ReceiveError, ReceiveReady, mainRest, buildVars, Waiting
<1>6. CASE SeeInterrupt \/ SeeClosed \/ Test
  BY <1>6 DEF SeeInterrupt, SeeClosed, Test, NextTest, FinishTest, PanicInTest, StopBatch, mainRest, buildVars,
     Waiting
<1> QED BY <1>1, <1>2, <1>3, <1>4, <1>5, <1>6 DEF Next, Produce

\* Nothing happens after the end.
LEMMA OnlyAlive ==
  ASSUME Next
  PROVE  Alive
BY DEF Next, Interrupt, Split, PlaceSpec, StartRun, Produce, NextBatch, Acquire, CloseChannel,
   StartBuilder, TimeOut, Send, Prepare, SetUp, Build, Launch, AwaitHealth, Panic, Receive,
   ReceiveAborted, ReceiveError, ReceiveReady, Received, SeeInterrupt, SeeClosed, Test, NextTest,
   FinishTest, PanicInTest, StopBatch

LEMMA ReceivedOne ==
  ASSUME Types, Passing, NEW b \in Slots, Received(b)
  PROVE  /\ preparedCh' \in Seq(Slots) /\ ToSet(preparedCh) = {b} \cup ToSet(preparedCh')
         /\ b \notin ToSet(preparedCh') /\ IsInjective(preparedCh')
         /\ builder[b] = "done" /\ current = 0 /\ main = "receive"
<1>1. preparedCh # <<>> /\ b = Head(preparedCh) /\ preparedCh' = Tail(preparedCh) /\ main = "receive"
  BY DEF Received
<1>2. preparedCh \in Seq(Slots) /\ IsInjective(preparedCh)
  BY DEF Types, Passing
<1>3. /\ preparedCh' \in Seq(Slots) /\ ToSet(preparedCh) = {b} \cup ToSet(preparedCh')
      /\ b \notin ToSet(preparedCh') /\ IsInjective(preparedCh')
  BY <1>1, <1>2, HeadAndTail
<1> QED BY <1>1, <1>3 DEF Passing

\* The channel, the loop's place and what it tests are left alone.
LEMMA LoopStays ==
  ASSUME Next, ~StartRun, \A b \in Slots : ~Send(b) /\ ~Receive(b),
         ~SeeInterrupt, ~SeeClosed, ~Test
  PROVE  UNCHANGED <<preparedCh, main, current, todo, reported>> \/ PlaceSpec
<1>1. CASE Interrupt \/ Split \/ Produce
  BY <1>1 DEF Interrupt, Split, Produce, NextBatch, Acquire, CloseChannel, mainVars
<1>2. ASSUME NEW b \in Slots, StartBuilder(b) \/ TimeOut(b) \/ Prepare(b)
      PROVE  UNCHANGED <<preparedCh, main, current, todo, reported>>
  BY <1>2 DEF StartBuilder, TimeOut, Prepare, SetUp, Build, Launch, AwaitHealth, Panic,
     prepRest, mainVars
<1> QED BY <1>1, <1>2 DEF Next

LEMMA StepPassing ==
  ASSUME Packing, Types, Produced, Passing, Next
  PROVE  Passing'
<1>1. main # "returned" /\ 0 \notin Slots /\ preparedCh \in Seq(Slots) /\ current \in Slots \cup {0}
  BY OnlyAlive, SlotsAreNumbers DEF Alive, Types
<1>2. \A b \in Slots : builder[b] = "done" => builder'[b] = "done"
  <2>1. CASE Acquire
    BY <2>1, SlotsAreNumbers DEF Acquire, Produced, Types
  <2>2. CASE ~Acquire
    BY <2>2, BuildersGoOn
  <2> QED BY <2>1, <2>2
<1>3. \A b \in ToSet(preparedCh) : b \in Slots
  BY <1>1, LenProperties DEF ToSet
<1>4. CASE PlaceSpec \/ StartRun
  BY <1>2, <1>4 DEF PlaceSpec, StartRun, buildVars, mainVars, Passing
<1>5. ASSUME NEW b \in Slots, Send(b)
      PROVE  Passing'
  <2>1. /\ builder[b] = "send" /\ builder' = [builder EXCEPT ![b] = "done"]
        /\ preparedCh' = Append(preparedCh, b)
        /\ UNCHANGED <<main, current>>
    BY <1>5 DEF Send, mainVars
  <2>2. b \notin ToSet(preparedCh)
    BY <2>1 DEF Passing
  <2>3. IsInjective(preparedCh') /\ ToSet(preparedCh') = ToSet(preparedCh) \cup {b}
    BY <1>1, <2>1, <2>2, AppendOne DEF Passing
  <2>4. b # current /\ builder'[b] = "done"
    BY <1>1, <2>1 DEF Passing, Types
  <2> QED BY <1>1, <1>2, <1>3, <2>1, <2>3, <2>4 DEF Passing
<1>6. ASSUME NEW b \in Slots, Receive(b)
      PROVE  Passing'
  <2>1. /\ preparedCh' \in Seq(Slots) /\ ToSet(preparedCh) = {b} \cup ToSet(preparedCh')
        /\ b \notin ToSet(preparedCh') /\ IsInjective(preparedCh')
        /\ builder[b] = "done" /\ current = 0 /\ main = "receive"
    BY <1>6, ReceivedOne DEF Receive, ReceiveAborted, ReceiveError, ReceiveReady
  <2>2. builder' = builder
    BY <1>6 DEF Receive, ReceiveAborted, ReceiveError, ReceiveReady, mainRest, buildVars
  <2>3. (current' = 0 /\ main' = "receive") \/ (current' = b /\ main' = "next")
    BY <1>6, <2>1 DEF Receive, ReceiveAborted, ReceiveError, ReceiveReady, mainVars
  <2>4. \A c \in ToSet(preparedCh') : c \in Slots /\ c # 0 /\ c # b /\ builder[c] = "done"
    BY <1>1, <1>3, <2>1 DEF Passing
  <2> QED BY <1>1, <2>1, <2>2, <2>3, <2>4 DEF Passing
<1>7. CASE SeeInterrupt \/ SeeClosed
  BY <1>1, <1>7 DEF SeeInterrupt, SeeClosed, mainRest, buildVars, Passing
<1>8. CASE Test
  <2>1. UNCHANGED <<builder, preparedCh>> /\ main \in {"next", "testing"}
    BY <1>8 DEF Test, NextTest, FinishTest, PanicInTest, StopBatch, mainRest, buildVars
  <2>2. \/ main' \in {"next", "testing"} /\ current' = current
        \/ main' = "receive" /\ current' = 0
    BY <1>8, <2>1 DEF Test, NextTest, FinishTest, PanicInTest, StopBatch, mainVars
  <2> QED BY <1>1, <1>3, <2>1, <2>2 DEF Passing
<1>9. CASE ~PlaceSpec /\ ~StartRun /\ ~SeeInterrupt /\ ~SeeClosed /\ ~Test
           /\ \A b \in Slots : ~Send(b) /\ ~Receive(b)
  <2>1. UNCHANGED <<preparedCh, main, current>>
    BY <1>9, LoopStays
  <2> QED BY <1>1, <1>2, <1>3, <2>1 DEF Passing
<1> QED BY <1>4, <1>5, <1>6, <1>7, <1>8, <1>9

-----------------------------------------------------------------------------
(* What is left on the machine                                             *)

\* A batch is cleaned up when the loop lets go of it.
LEMMA Cleanup ==
  ASSUME BatchInv, NEW b \in Slots, NEW c \in Slots, builder[c] = "done", Discard(c),
         UNCHANGED <<builder, prep, prepared, timedOut>>,
         b # c /\ InHand(b) => InHand(b)'
  PROVE  Hosted(b)'
<1> USE DEF BatchInv
<1>1. Hosted(b) /\ Hosted(c)
  BY DEF Hosting
<1>2. prep[c] \in Working => c \in timedOut
  BY DEF Waiting
<1>3. CASE b # c
  BY <1>1, <1>3 DEF Hosted, Discard
<1>4. CASE b = c
  <2>1. CASE prepared[c].error
    BY <1>1, <1>2, <1>4, <2>1 DEF Hosted, Discard, Working
  <2>2. CASE ~prepared[c].error
    BY <1>1, <1>2, <1>4, <2>2 DEF Hosted, Discard, Working
  <2> QED BY <2>1, <2>2
<1> QED BY <1>3, <1>4

LEMMA StepHosting ==
  ASSUME BatchInv, Next, NEW b \in Slots
  PROVE  Hosted(b)'
<1> USE DEF BatchInv
<1>1. Hosted(b) /\ 0 \notin Slots /\ preparedCh \in Seq(Slots)
  BY SlotsAreNumbers DEF Hosting, Types
<1>2. CASE Interrupt \/ Split \/ Produce \/ SeeInterrupt \/ SeeClosed \/ NextTest \/ FinishTest
           \/ PanicInTest
  <2>1. UNCHANGED <<prep, prepared, timedOut, binaries, servers, preparedCh, current>>
    BY <1>2 DEF Interrupt, Split, PlaceSpec, StartRun, Produce, NextBatch, Acquire, CloseChannel,
       SeeInterrupt, SeeClosed, NextTest, FinishTest, PanicInTest, mainRest, buildVars, hostVars,
       mainVars
  <2>2. builder[b] = "send" => builder'[b] = "send"
    <3>1. b = next => builder[b] = "none"
      BY SlotsAreNumbers DEF Produced, Types
    <3> QED BY <1>2, <3>1 DEF Interrupt, Split, PlaceSpec, StartRun, Produce, NextBatch, Acquire,
            CloseChannel, SeeInterrupt, SeeClosed, NextTest, FinishTest, PanicInTest, mainRest,
            buildVars, Types
  <2> QED BY <1>1, <2>1, <2>2 DEF Hosted, InHand
<1>3. ASSUME NEW c \in Slots, StartBuilder(c) \/ TimeOut(c)
      PROVE  Hosted(b)'
  <2>1. UNCHANGED <<binaries, servers, preparedCh, current>>
    BY <1>3 DEF StartBuilder, TimeOut, hostVars, mainVars
  <2>2. CASE b # c
    BY <1>1, <1>3, <2>1, <2>2 DEF StartBuilder, TimeOut, Hosted, InHand, Types
  <2>3. CASE b = c /\ StartBuilder(c)
    BY <1>1, <2>1, <2>3 DEF StartBuilder, Hosted, InHand, Types, Waiting, Failed
  <2>4. CASE b = c /\ TimeOut(c)
    BY <1>1, <2>1, <2>4 DEF TimeOut, Hosted, InHand, Types, Waiting, Working, Failed
  <2> QED BY <1>3, <2>2, <2>3, <2>4
<1>4. ASSUME NEW c \in Slots, Send(c)
      PROVE  Hosted(b)'
  <2>1. ToSet(preparedCh') = ToSet(preparedCh) \cup {c}
    BY <1>1, <1>4, AppendOne DEF Send
  <2>2. InHand(b) => InHand(b)'
    BY <1>4, <2>1 DEF Send, mainVars, InHand, Types
  <2> QED BY <1>1, <1>4, <2>2 DEF Send, hostVars, Hosted
<1>5. ASSUME NEW c \in Slots, Prepare(c), b # c
      PROVE  Hosted(b)'
  <2>1. /\ UNCHANGED <<timedOut, preparedCh, current>>
        /\ prep'[b] = prep[b] /\ prepared'[b] = prepared[b] /\ builder'[b] = builder[b]
    BY <1>5 DEF Prepare, SetUp, Build, Launch, AwaitHealth, Panic, EndPrep, prepRest, buildVars,
       mainVars, Types
  <2>2. (b \in binaries' <=> b \in binaries) /\ (b \in servers' <=> b \in servers)
    BY <1>5 DEF Prepare, SetUp, Build, Launch, AwaitHealth, Panic, hostVars
  <2> QED BY <1>1, <2>1, <2>2 DEF Hosted, InHand
<1>6. ASSUME SetUp(b) \/ Build(b) \/ Launch(b) \/ AwaitHealth(b)
      PROVE  Hosted(b)'
  <2>1. UNCHANGED <<timedOut, preparedCh, current>> /\ prep[b] \in Working
    BY <1>6 DEF SetUp, Build, Launch, AwaitHealth, prepRest, mainVars, Working
  <2>2. ~prepared[b].built /\ prepared[b].error
    BY <1>1, <2>1 DEF Hosted, Working
  <2>3. b \notin timedOut => builder[b] = "wait"
    BY <2>1 DEF Waiting
  <2>4. ASSUME NEW r, EndPrep(b, r)
        PROVE  /\ prep'[b] = "over"
               /\ b \notin timedOut => prepared'[b] = r /\ builder'[b] = "send"
               /\ (prepared'[b] = r /\ builder[b] = "wait") \/ prepared'[b] = prepared[b]
    BY <2>3, <2>4 DEF EndPrep, Types
  <2>5. builder[b] = "wait" => b \notin timedOut
    BY DEF Waiting
  <2>6. CASE SetUp(b)
    <3>1. UNCHANGED <<binaries, servers>> /\ prep[b] = "setup"
      BY <2>6 DEF SetUp, hostVars
    <3>2. CASE EndPrep(b, Failed)
      BY <1>1, <2>1, <2>2, <2>4, <3>1, <3>2 DEF Hosted, Failed
    <3>3. CASE ~EndPrep(b, Failed)
      <4>1. /\ prep'[b] = "build"
            /\ prepared'[b].error = prepared[b].error /\ prepared'[b].built = prepared[b].built
        BY <2>6, <3>3 DEF SetUp, Types, Result
      <4> QED BY <1>1, <2>1, <2>2, <3>1, <4>1 DEF Hosted
    <3> QED BY <3>2, <3>3
  <2>7. CASE Build(b)
    <3>1. servers' = servers /\ prep[b] = "build"
      BY <2>7 DEF Build
    <3>2. CASE EndPrep(b, Broken(b)) /\ UNCHANGED binaries
      BY <1>1, <2>1, <2>2, <2>4, <2>5, <3>1, <3>2 DEF Hosted, Broken
    <3>3. CASE binaries' = binaries \cup {b} /\ prep'[b] = "launch" /\ UNCHANGED <<builder, prepared>>
      BY <1>1, <2>1, <2>2, <3>1, <3>3 DEF Hosted
    <3> QED BY <2>7, <3>2, <3>3 DEF Build, Types
  <2>8. CASE Launch(b)
    <3>1. binaries' = binaries /\ prep[b] = "launch"
      BY <2>8 DEF Launch
    <3>2. CASE EndPrep(b, Broken(b)) /\ UNCHANGED servers
      BY <1>1, <2>1, <2>2, <2>4, <2>5, <3>1, <3>2 DEF Hosted, Broken
    <3>3. CASE servers' = servers \cup {b} /\ prep'[b] = "health" /\ UNCHANGED <<builder, prepared>>
      BY <1>1, <2>1, <2>2, <3>1, <3>3 DEF Hosted
    <3> QED BY <2>8, <3>2, <3>3 DEF Launch, Types
  <2>9. CASE AwaitHealth(b)
    <3>1. binaries' = binaries /\ prep[b] = "health"
      BY <2>9 DEF AwaitHealth
    <3>2. CASE EndPrep(b, Broken(b)) /\ servers' = servers \ {b}
      BY <1>1, <2>1, <2>2, <2>4, <2>5, <3>1, <3>2 DEF Hosted, Broken
    <3>3. CASE /\ EndPrep(b, [prepared[b] EXCEPT !.error = FALSE, !.built = TRUE])
               /\ UNCHANGED servers
      <4>1. prepared[b] \in Result
        BY DEF Types
      <4>2. /\ ~[prepared[b] EXCEPT !.error = FALSE, !.built = TRUE].error
            /\ [prepared[b] EXCEPT !.error = FALSE, !.built = TRUE].built
        BY <4>1 DEF Result
      <4> QED BY <1>1, <2>1, <2>2, <2>4, <2>5, <3>1, <3>3, <4>2 DEF Hosted, InHand
    <3> QED BY <2>9, <3>2, <3>3 DEF AwaitHealth
  <2> QED BY <1>6, <2>6, <2>7, <2>8, <2>9
<1>7. CASE Panic(b)
  BY <1>1, <1>7 DEF Panic, buildVars, hostVars, mainVars, Hosted, InHand
<1>8. ASSUME NEW c \in Slots, Receive(c)
      PROVE  Hosted(b)'
  <2>1. /\ preparedCh' \in Seq(Slots) /\ ToSet(preparedCh) = {c} \cup ToSet(preparedCh')
        /\ builder[c] = "done" /\ current = 0
    BY <1>8, ReceivedOne DEF Receive, ReceiveAborted, ReceiveError, ReceiveReady
  <2>2. UNCHANGED <<builder, prep, prepared, timedOut>>
    BY <1>8 DEF Receive, ReceiveAborted, ReceiveError, ReceiveReady, mainRest, buildVars
  <2>3. b # c /\ InHand(b) => InHand(b)'
    BY <1>1, <2>1, <2>2 DEF InHand
  <2>4. CASE ReceiveAborted(c)
    BY <2>1, <2>2, <2>3, <2>4, Cleanup DEF ReceiveAborted
  <2>5. CASE ReceiveError(c)
    BY <1>1, <2>2, <2>3, <2>5 DEF ReceiveError, hostVars, Hosted
  <2>6. CASE ReceiveReady(c)
    <3>1. InHand(b) => InHand(b)'
      BY <2>2, <2>3, <2>6 DEF ReceiveReady, InHand
    <3> QED BY <1>1, <2>2, <2>6, <3>1 DEF ReceiveReady, hostVars, Hosted
  <2> QED BY <1>8, <2>4, <2>5, <2>6 DEF Receive
<1>9. CASE StopBatch
  <2>1. current \in Slots /\ builder[current] = "done"
    BY <1>9 DEF StopBatch, Passing, Types
  <2>2. UNCHANGED <<builder, prep, prepared, timedOut, preparedCh>> /\ Discard(current)
    BY <1>9 DEF StopBatch, mainRest, buildVars
  <2>3. b # current /\ InHand(b) => InHand(b)'
    BY <2>2 DEF InHand
  <2> QED BY <2>1, <2>2, <2>3, Cleanup
<1>10. ASSUME NEW c \in Slots, Prepare(c)
      PROVE  Hosted(b)'
  BY <1>5, <1>6, <1>7, <1>10 DEF Prepare
<1> QED BY <1>2, <1>3, <1>4, <1>8, <1>9, <1>10 DEF Next, Test

-----------------------------------------------------------------------------
(* What is reported                                                        *)

LEMMA Disjoint ==
  ASSUME Packing, NEW b \in DOMAIN batches, NEW c \in DOMAIN batches, b # c
  PROVE  SpecsIn(b) \cap SpecsIn(c) = {}
BY DEF Packing, Apart, SpecsIn

LEMMA Counted ==
  ASSUME NEW S, NEW n, Report(S, n)
  PROVE  /\ aborted => aborted'
         /\ \A i \in specs : reported'[i] = reported[i] + (IF i \in S THEN 1 ELSE 0)
<1>1. aborted => aborted'
  BY DEF Report
<1>2. \A i \in specs : reported'[i] = reported[i] + (IF i \in S THEN 1 ELSE 0)
  BY DEF Report
<1> QED BY <1>1, <1>2

\* While specs are packed nothing has begun.
LEMMA NothingBegan ==
  ASSUME BatchInv, main = "split"
  PROVE  current = 0 /\ \A b \in Slots : builder[b] = "none"
BY SlotsAreNumbers DEF BatchInv, Produced, Passing

\* Preparing a batch says nothing about its specs yet.
LEMMA PreparingReports ==
  ASSUME BatchInv, NEW b \in DOMAIN batches, NEW c \in Slots,
         StartBuilder(c) \/ TimeOut(c) \/ Prepare(c)
  PROVE  Reported(b)'
<1> USE DEF BatchInv
<1>1. Reported(b) /\ b \in Slots
  BY Batches DEF Reporting
<1>2. UNCHANGED <<batches, preparedCh, current, todo, reported>> /\ (aborted => aborted')
  BY DEF StartBuilder, TimeOut, Prepare, SetUp, Build, Launch, AwaitHealth, Panic, prepRest,
     setupVars, abortVars, mainVars
<1>3. SpecsIn(b)' = SpecsIn(b)
  BY <1>2 DEF SpecsIn
<1>4. CASE b # c
  <2>1. builder'[b] = builder[b] /\ prepared'[b] = prepared[b]
    <3>1. CASE StartBuilder(c) \/ TimeOut(c)
      BY <1>1, <1>4, <3>1 DEF StartBuilder, TimeOut, Types
    <3>2. CASE Prepare(c)
      BY <1>1, <1>4, <3>2 DEF Prepare, SetUp, Build, Launch, AwaitHealth, Panic, EndPrep, buildVars, Types
    <3> QED BY <3>1, <3>2
  <2> QED BY <1>1, <1>2, <1>3, <2>1 DEF Reported
<1>5. CASE b = c
  <2>1. /\ builder'[b] = builder[b] \/ (builder[b] # "done" /\ builder'[b] # "done")
        /\ builder[b] = "done" => prepared'[b].failed = prepared[b].failed
    BY <1>5 DEF StartBuilder, TimeOut, Prepare, SetUp, Build, Launch, AwaitHealth, Panic,
       EndPrep, buildVars, Types, Result
  <2>2. prepared'[b].failed \subseteq SpecsIn(b)
    <3>1. CASE StartBuilder(c) \/ TimeOut(c)
      BY <1>1, <1>5, <3>1 DEF StartBuilder, TimeOut, Failed, Types, Reported
    <3>2. CASE SetUp(c)
      BY <1>1, <1>5, <3>2 DEF SetUp, EndPrep, Failed, Types, Result, Reported
    <3>3. CASE Build(c) \/ Launch(c)
      BY <1>1, <1>5, <3>3 DEF Build, Launch, EndPrep, Broken, Types, Result, Reported
    <3>4. CASE AwaitHealth(c)
      <4>1. prepared[b] \in Result
        BY <1>1 DEF Types
      <4>2. [prepared[b] EXCEPT !.error = FALSE, !.built = TRUE].failed = prepared[b].failed
        BY <4>1 DEF Result
      <4>3. Broken(b).failed = prepared[b].failed
        BY DEF Broken
      <4>4. \/ prepared'[b] = prepared[b]
            \/ prepared'[b] = [prepared[b] EXCEPT !.error = FALSE, !.built = TRUE]
            \/ prepared'[b] = Broken(b)
        BY <1>1, <1>5, <3>4 DEF AwaitHealth, EndPrep, Types
      <4> QED BY <1>1, <4>2, <4>3, <4>4 DEF Reported
    <3>5. CASE Panic(c)
      BY <1>1, <1>5, <3>5 DEF Panic, buildVars, Reported
    <3> QED BY <3>1, <3>2, <3>3, <3>4, <3>5 DEF Prepare
  <2>3. builder[b] # "done" => current # b
    BY DEF Passing
  <2> QED BY <1>1, <1>2, <1>3, <2>1, <2>2, <2>3 DEF Reported
<1> QED BY <1>4, <1>5

LEMMA ReceivingReports ==
  ASSUME BatchInv, NEW b \in DOMAIN batches, NEW c \in Slots, Receive(c)
  PROVE  Reported(b)'
<1> USE DEF BatchInv
<1>1. Reported(b) /\ b \in Slots /\ SpecsIn(b) \subseteq specs
  BY Batches DEF Reporting
<1>2. /\ ToSet(preparedCh) = {c} \cup ToSet(preparedCh') /\ c \notin ToSet(preparedCh')
      /\ builder[c] = "done" /\ current = 0
  BY ReceivedOne DEF Receive, ReceiveAborted, ReceiveError, ReceiveReady
<1>3. UNCHANGED <<batches, builder, prepared>>
  BY DEF Receive, ReceiveAborted, ReceiveError, ReceiveReady, mainRest, setupVars, buildVars
<1>4. SpecsIn(b)' = SpecsIn(b)
  BY <1>3 DEF SpecsIn
<1>5. b # 0 /\ c \in DOMAIN batches /\ Reported(c)
  BY <1>1, <1>2, Started, SlotsAreNumbers DEF Reporting
<1>6. CASE b # c
  <2>1. SpecsIn(b) \cap SpecsIn(c) = {} /\ prepared[c].failed \subseteq SpecsIn(c)
    BY <1>5, <1>6, Disjoint DEF Reported
  <2>2. \A i \in SpecsIn(b) : reported'[i] = reported[i]
    <3>1. CASE ReceiveAborted(c)
      BY <3>1 DEF ReceiveAborted, mainVars
    <3>2. CASE ReceiveError(c)
      BY <1>1, <2>1, <3>2, Counted DEF ReceiveError, Types
    <3>3. CASE ReceiveReady(c)
      BY <1>1, <2>1, <3>3, Counted DEF ReceiveReady, Types
    <3> QED BY <3>1, <3>2, <3>3 DEF Receive
  <2>3. current' # b
    BY <1>2, <1>5, <1>6 DEF Receive, ReceiveAborted, ReceiveError, ReceiveReady, mainVars
  <2>4. aborted => aborted'
    BY Counted DEF Receive, ReceiveAborted, ReceiveError, ReceiveReady
  <2> QED BY <1>1, <1>2, <1>3, <1>4, <1>5, <1>6, <2>2, <2>3, <2>4 DEF Reported
<1>7. CASE b = c
  <2>1. \A i \in SpecsIn(b) : i \in specs /\ reported[i] = 0
    BY <1>1, <1>2, <1>7 DEF Reported
  <2>2. CASE ReceiveAborted(c)
    BY <1>1, <1>2, <1>3, <1>4, <1>5, <1>7, <2>1, <2>2 DEF ReceiveAborted, mainVars, Reported
  <2>3. CASE ReceiveError(c)
    <3>1. \A i \in SpecsIn(b) : reported'[i] = 1
      BY <1>7, <2>1, <2>3, Counted DEF ReceiveError
    <3>2. current' # b
      BY <1>2, <1>5, <2>3 DEF ReceiveError
    <3> QED BY <1>1, <1>2, <1>3, <1>4, <1>7, <3>1, <3>2 DEF Reported
  <2>4. CASE ReceiveReady(c)
    <3>1. \A i \in SpecsIn(b) : reported'[i] = IF i \in prepared[b].failed THEN 1 ELSE 0
      BY <1>7, <2>1, <2>4, Counted DEF ReceiveReady
    <3>2. current' = b /\ ToSet(todo') = SpecsIn(b)
      BY <1>7, <2>4 DEF ReceiveReady, SpecsIn
    <3> QED BY <1>1, <1>2, <1>3, <1>4, <1>7, <3>1, <3>2 DEF Reported
  <2> QED BY <2>2, <2>3, <2>4 DEF Receive
<1> QED BY <1>6, <1>7

LEMMA TestingReports ==
  ASSUME BatchInv, NEW b \in DOMAIN batches, Test
  PROVE  Reported(b)'
<1> USE DEF BatchInv
<1>1. Reported(b) /\ b \in Slots /\ SpecsIn(b) \subseteq specs /\ b # 0
  BY Batches, SlotsAreNumbers DEF Reporting
<1>2. UNCHANGED <<batches, builder, prepared, preparedCh>>
  BY DEF Test, NextTest, FinishTest, PanicInTest, StopBatch, mainRest, setupVars, buildVars
<1>3. SpecsIn(b)' = SpecsIn(b)
  BY <1>2 DEF SpecsIn
<1>4. /\ current \in DOMAIN batches /\ builder[current] = "done" /\ Reported(current)
      /\ current \notin ToSet(preparedCh)
      /\ ToSet(todo) \subseteq SpecsIn(current) /\ todo \in Seq(specs) /\ IsInjective(todo)
  <2>1. current # 0
    BY DEF Passing, Test, NextTest, FinishTest, PanicInTest, StopBatch
  <2>2. current \in Slots /\ builder[current] = "done"
    BY <2>1 DEF Passing, Types
  <2> QED BY <2>1, <2>2, Started DEF Passing, Reporting, Types
<1>5. todo # <<>> => /\ ToSet(todo) = {Head(todo)} \cup ToSet(Tail(todo))
                     /\ Head(todo) \notin ToSet(Tail(todo))
  BY <1>4, HeadAndTail
<1>6. CASE NextTest
  <2>1. reported' = reported /\ current' = current /\ (aborted => aborted')
    BY <1>6 DEF NextTest
  <2>2. CASE b = current
    BY <1>1, <1>2, <1>3, <1>4, <1>5, <1>6, <2>1, <2>2 DEF NextTest, Reported
  <2>3. CASE b # current
    BY <1>1, <1>2, <1>3, <2>1, <2>3 DEF Reported
  <2> QED BY <2>2, <2>3
<1>7. CASE FinishTest
  <2>1. todo # <<>> /\ Head(todo) \notin prepared[current].failed
    BY <1>7 DEF FinishTest, Reporting
  <2>2. current' = current /\ todo' = Tail(todo)
    BY <1>7 DEF FinishTest
  <2>3. /\ aborted => aborted'
        /\ \A i \in specs : reported'[i] = reported[i] + (IF i = Head(todo) THEN 1 ELSE 0)
    BY <1>7, Counted DEF FinishTest
  <2>4. CASE b = current
    <3>1. \A i \in SpecsIn(b) :
             reported'[i] = IF i \in prepared[b].failed \/ i \notin ToSet(todo') THEN 1 ELSE 0
      BY <1>1, <1>5, <2>1, <2>2, <2>3, <2>4 DEF Reported
    <3> QED BY <1>1, <1>2, <1>3, <1>4, <2>2, <2>4, <3>1 DEF Reported
  <2>5. CASE b # current
    <3>1. Head(todo) \notin SpecsIn(b)
      BY <1>4, <1>5, <2>1, <2>5, Disjoint
    <3>2. \A i \in SpecsIn(b) : reported'[i] = reported[i]
      BY <1>1, <2>3, <3>1 DEF Types
    <3> QED BY <1>1, <1>2, <1>3, <2>2, <2>3, <2>5, <3>2 DEF Reported
  <2> QED BY <2>4, <2>5
<1>8. CASE StopBatch
  <2>1. reported' = reported /\ current' = 0 /\ (todo = <<>> \/ Interrupted)
    BY <1>8 DEF StopBatch
  <2>2. (aborted \/ todo # <<>>) => aborted'
    BY <1>8, Zenon DEF StopBatch
  <2>3. CASE b = current
    <3>1. \A i \in SpecsIn(b) : reported[i] <= 1 /\ (aborted' \/ reported[i] = 1)
      BY <1>1, <2>2, <2>3, EmptyFacts DEF Reported
    <3> QED BY <1>1, <1>2, <1>3, <1>4, <2>1, <2>3, <3>1 DEF Reported
  <2>4. CASE b # current
    BY <1>1, <1>2, <1>3, <2>1, <2>2, <2>4 DEF Reported
  <2> QED BY <2>3, <2>4
<1>9. CASE PanicInTest
  <2>1. UNCHANGED <<reported, current, todo>> /\ (aborted => aborted')
    BY <1>9 DEF PanicInTest, abortVars, mainVars
  <2> QED BY <1>1, <1>2, <1>3, <2>1 DEF Reported
<1> QED BY <1>6, <1>7, <1>8, <1>9 DEF Test

LEMMA StepReported ==
  ASSUME BatchInv, Next, NEW b \in DOMAIN batches'
  PROVE  Reported(b)'
<1> USE DEF BatchInv
<1>1. CASE main = "split" /\ (PlaceSpec \/ StartRun \/ Interrupt)
  <2>1. UNCHANGED <<builder, prepared, preparedCh, current, reported>>
    BY <1>1 DEF PlaceSpec, StartRun, Interrupt, buildVars, mainVars
  <2>2. b \in Slots /\ SpecsIn(b)' \subseteq specs /\ b # 0
    <3>1. Packing' /\ specs' = specs
      BY StepPacking, SetupStays
    <3>2. DOMAIN batches' = 1..Len(batches') /\ Len(batches') \in Nat
          /\ Len(batches') <= packed' /\ packed' \in 0..Len(sizes') /\ Len(sizes') \in Nat
          /\ ToSet(batches'[b]) \subseteq 1..packed'
      <4>1. Apart(batches', packed') /\ packed' \in 0..Len(sizes') /\ sizes' = sizes
        BY <3>1, SetupStays DEF Packing
      <4>2. Len(sizes) \in Nat
        BY Corpus DEF Packing
      <4> QED BY <4>1, <4>2, Holds
    <3>3. specs = 1..Len(sizes') /\ specs \subseteq Slots
      BY SetupStays, Corpus DEF Packing
    <3> QED BY <3>2, <3>3, SlotsAreNumbers DEF SpecsIn
  <2>3. builder[b] = "none" /\ current = 0 /\ prepared[b].failed = {} /\ \A i \in specs : reported[i] = 0
    BY <1>1, <2>2, NothingBegan DEF Reporting
  <2> QED BY <2>1, <2>2, <2>3 DEF Reported
<1>2. CASE main # "split" \/ (~PlaceSpec /\ ~StartRun /\ ~Interrupt)
  <2>1. batches' = batches /\ b \in DOMAIN batches /\ ~PlaceSpec /\ ~StartRun
    BY <1>2, OthersStay DEF PlaceSpec, StartRun
  <2>2. Reported(b) /\ b \in Slots /\ SpecsIn(b)' = SpecsIn(b) /\ (aborted => aborted')
    BY <2>1, Batches, OthersStay DEF Reporting, SpecsIn
  <2>3. CASE Interrupt \/ Produce \/ SeeInterrupt \/ SeeClosed
    <3>1. UNCHANGED <<prepared, preparedCh, current, todo, reported>>
      BY <2>3 DEF Interrupt, Produce, NextBatch, Acquire, CloseChannel, SeeInterrupt, SeeClosed,
         mainRest, buildVars, mainVars
    <3>2. builder[b] = "done" <=> builder'[b] = "done"
      <4>1. b = next => builder[b] = "none"
        BY <2>2, SlotsAreNumbers DEF Produced, Types
      <4> QED BY <2>2, <2>3, <4>1 DEF Interrupt, Produce, NextBatch, Acquire, CloseChannel,
              SeeInterrupt, SeeClosed, mainRest, buildVars, Types
    <3> QED BY <2>2, <3>1, <3>2 DEF Reported
  <2>4. ASSUME NEW c \in Slots, Send(c)
        PROVE  Reported(b)'
    <3>1. ToSet(preparedCh') = ToSet(preparedCh) \cup {c} /\ builder[c] = "send"
      BY <2>4, AppendOne DEF Send, Types
    <3>2. UNCHANGED <<prepared, current, todo, reported>> /\ builder' = [builder EXCEPT ![c] = "done"]
      BY <2>4 DEF Send, mainVars
    <3>3. builder'[b] = "done" <=> builder[b] = "done" \/ b = c
      BY <2>2, <3>2 DEF Types
    <3> QED BY <2>2, <3>1, <3>2, <3>3 DEF Reported
  <2> QED BY <2>1, <2>3, <2>4, PreparingReports, ReceivingReports, TestingReports DEF Next, Split
<1> QED BY <1>1, <1>2 DEF PlaceSpec, StartRun, Interrupt

\* What is still to be tested belongs to the batch under test.
LEMMA StepTodo ==
  ASSUME BatchInv, Next
  PROVE  /\ IsInjective(todo')
         /\ current' # 0 => ToSet(todo') \subseteq ToSet(batches'[current'])
         /\ main' = "testing" => todo' # <<>> /\ Head(todo') \notin prepared'[current'].failed
<1> USE DEF BatchInv
<1>1. /\ 0 \notin Slots /\ todo \in Seq(specs) /\ IsInjective(todo)
      /\ current # 0 => ToSet(todo) \subseteq SpecsIn(current)
  BY SlotsAreNumbers DEF Types, Reporting
<1>2. CASE PlaceSpec
  <2>1. current = 0 /\ UNCHANGED <<main, current, todo>> /\ main = "split"
    BY <1>2, NothingBegan DEF PlaceSpec, mainVars
  <2> QED BY <1>1, <2>1
<1>3. ASSUME NEW c \in Slots, Receive(c)
      PROVE  /\ IsInjective(todo')
             /\ current' # 0 => ToSet(todo') \subseteq ToSet(batches'[current'])
             /\ main' = "testing" => todo' # <<>> /\ Head(todo') \notin prepared'[current'].failed
  <2>1. current = 0 /\ builder[c] = "done" /\ main' # "testing" /\ batches' = batches
    BY <1>3, ReceivedOne, OthersStay DEF Receive, ReceiveAborted, ReceiveError, ReceiveReady,
       Received, mainVars, PlaceSpec
  <2>2. CASE current' = 0 /\ todo' = todo
    BY <1>1, <2>1, <2>2
  <2>3. CASE current' = c /\ todo' = batches[c]
    <3>1. c \in DOMAIN batches
      BY <2>1, Started
    <3>2. IsInjective(batches[c])
      BY <3>1 DEF Packing, Apart
    <3> QED BY <2>1, <2>3, <3>2 DEF SpecsIn
  <2> QED BY <1>3, <2>1, <2>2, <2>3 DEF Receive, ReceiveAborted, ReceiveError, ReceiveReady, mainVars
<1>4. CASE Test
  <2>1. UNCHANGED <<batches, prepared>>
    BY <1>4 DEF Test, NextTest, FinishTest, PanicInTest, StopBatch, mainRest, setupVars, buildVars
  <2>2. current # 0
    BY <1>4 DEF Passing, Test, NextTest, FinishTest, PanicInTest, StopBatch
  <2>3. todo # <<>> => ToSet(Tail(todo)) \subseteq ToSet(todo) /\ IsInjective(Tail(todo))
    BY <1>1, HeadAndTail
  <2>4. CASE NextTest
    BY <1>1, <2>1, <2>2, <2>3, <2>4 DEF NextTest, SpecsIn
  <2>5. CASE FinishTest
    <3>1. todo # <<>>
      BY <2>5 DEF FinishTest, Reporting
    <3> QED BY <1>1, <2>1, <2>2, <2>3, <2>5, <3>1 DEF FinishTest, SpecsIn
  <2>6. CASE StopBatch
    BY <2>6, EmptyFacts DEF StopBatch
  <2>7. CASE PanicInTest
    BY <1>1, <2>1, <2>2, <2>7 DEF PanicInTest, mainVars, Reporting, SpecsIn
  <2> QED BY <1>4, <2>4, <2>5, <2>6, <2>7 DEF Test
<1>5. CASE ~PlaceSpec /\ ~Test /\ \A c \in Slots : ~Receive(c)
  <2>1. batches' = batches /\ UNCHANGED <<current, todo>>
    BY <1>5, OthersStay, LoopStays DEF StartRun, Send, SeeInterrupt, SeeClosed, mainVars
  <2>2. ToSet(batches'[current']) = SpecsIn(current)
    BY <2>1 DEF SpecsIn
  <2>3. main' = "testing" => main = "testing"
    BY <1>5, LoopStays DEF StartRun, Send, SeeInterrupt, SeeClosed, mainVars
  <2>4. current # 0 => prepared'[current].failed = prepared[current].failed
    <3>1. current # 0 => current \in Slots /\ builder[current] = "done"
      BY DEF Passing, Types
    <3>2. CASE Interrupt \/ Split \/ Produce \/ SeeInterrupt \/ SeeClosed
      BY <3>2 DEF Interrupt, Split, PlaceSpec, StartRun, Produce, NextBatch, Acquire,
         CloseChannel, SeeInterrupt, SeeClosed, mainRest, buildVars
    <3>3. ASSUME NEW c \in Slots, StartBuilder(c) \/ TimeOut(c) \/ Send(c) \/ Prepare(c)
          PROVE  current # 0 => prepared'[current].failed = prepared[current].failed
      BY <3>1, <3>3 DEF StartBuilder, TimeOut, Send, Prepare, SetUp, Build, Launch, AwaitHealth,
         Panic, EndPrep, buildVars, Types, Result
    <3> QED BY <1>5, <3>2, <3>3 DEF Next
  <2> QED BY <1>1, <2>1, <2>2, <2>3, <2>4 DEF Reporting, Passing
<1> QED BY <1>2, <1>3, <1>4, <1>5

LEMMA StepReporting ==
  ASSUME BatchInv, Next
  PROVE  Reporting'
<1> USE DEF BatchInv
<1>1. ASSUME main' = "split"
      PROVE  (\A i \in specs' : reported'[i] = 0) /\ \A b \in Slots : prepared'[b].failed = {}
  <2>1. main = "split" /\ specs' = specs /\ ~StartRun
    BY <1>1, OthersStay, SetupStays DEF StartRun
  <2>2. \A b \in Slots : builder[b] = "none" /\ prep[b] = "none"
    BY <2>1, NothingBegan DEF Waiting
  <2>3. UNCHANGED <<reported, prepared>>
    <3>1. CASE Interrupt \/ Split \/ Produce
      BY <3>1 DEF Interrupt, Split, PlaceSpec, StartRun, Produce, NextBatch, Acquire, CloseChannel,
         buildVars, mainVars
    <3>2. ASSUME NEW c \in Slots, StartBuilder(c) \/ TimeOut(c) \/ Send(c) \/ Prepare(c)
          PROVE  FALSE
      BY <2>2, <3>2 DEF StartBuilder, TimeOut, Send, Prepare, SetUp, Build, Launch, AwaitHealth, Panic
    <3>3. ~(\E c \in Slots : Receive(c)) /\ ~SeeInterrupt /\ ~SeeClosed /\ ~Test
      BY <2>1 DEF Receive, ReceiveAborted, ReceiveError, ReceiveReady, Received, SeeInterrupt,
         SeeClosed, Test, NextTest, FinishTest, PanicInTest, StopBatch
    <3> QED BY <3>1, <3>2, <3>3 DEF Next
  <2> QED BY <2>1, <2>3 DEF Reporting
<1>2. /\ IsInjective(todo')
      /\ current' # 0 => ToSet(todo') \subseteq ToSet(batches'[current'])
      /\ main' = "testing" => todo' # <<>> /\ Head(todo') \notin prepared'[current'].failed
  BY StepTodo
<1>3. \A b \in DOMAIN batches' : Reported(b)'
  BY StepReported
<1> QED BY <1>1, <1>2, <1>3 DEF Reporting, SpecsIn

-----------------------------------------------------------------------------
(* The theorems                                                            *)

LEMMA BatchInductive == Spec => []BatchInv
<1>1. Init => BatchInv
  <2> SUFFICES ASSUME Init PROVE BatchInv
    OBVIOUS
  <2>1. Packing
    BY Corpus DEF Init, Packing, Apart
  <2>2. Types
    BY DEF Init, Types, Result, Failed
  <2>3. Produced
    BY SlotsAreNumbers DEF Init, Produced, Building
  <2>4. Waiting /\ Passing
    BY EmptyFacts DEF Init, Waiting, Passing, Working
  <2>5. Hosting
    BY DEF Init, Hosting, Hosted, Failed
  <2>6. Reporting
    BY EmptyFacts DEF Init, Reporting, Failed
  <2> QED BY <2>1, <2>2, <2>3, <2>4, <2>5, <2>6 DEF BatchInv
<1>2. BatchInv /\ [Next]_vars => BatchInv'
  <2> SUFFICES ASSUME BatchInv, [Next]_vars PROVE BatchInv'
    OBVIOUS
  <2>1. CASE Next
    BY <2>1, StepPacking, StepTypes, StepProduced, StepWaiting, StepPassing, StepHosting,
       StepReporting DEF BatchInv, Hosting
  <2>2. CASE UNCHANGED vars
    <3>1. /\ UNCHANGED <<sizes, batches, packed, aborted, interrupt, failCount, producer, next>>
          /\ UNCHANGED <<builder, prep, prepared, timedOut, binaries, servers, preparedCh>>
          /\ UNCHANGED <<main, current, todo, reported>>
      BY <2>2 DEF vars, setupVars, abortVars, buildVars, hostVars, mainVars
    <3>2. Packing'
      BY <3>1 DEF BatchInv, Packing
    <3>3. Types'
      BY <3>1 DEF BatchInv, Types, Result, specs
    <3>4. Produced' /\ Waiting' /\ Passing'
      BY <3>1 DEF BatchInv, Produced, Building, Waiting, Passing
    <3>5. Hosting'
      BY <3>1 DEF BatchInv, Hosting, Hosted, InHand
    <3>6. Reporting'
      <4>1. \A b \in DOMAIN batches : Reported(b)'
        BY <3>1 DEF BatchInv, Reporting, Reported, SpecsIn
      <4> QED BY <3>1, <4>1 DEF BatchInv, Reporting, specs, SpecsIn
    <3> QED BY <3>2, <3>3, <3>4, <3>5, <3>6 DEF BatchInv
  <2> QED BY <2>1, <2>2
<1> QED BY <1>1, <1>2, PTL DEF Spec

\* However specs are packed, no result is reported twice, and a run that is not
\* aborted reports every spec (pipeline.go 276-421).
THEOREM EverySpecOnce == Spec => []ReportedOnce
<1>1. BatchInv => ReportedOnce
  <2> SUFFICES ASSUME BatchInv, NEW i \in specs
               PROVE  /\ reported[i] <= 1
                      /\ main = "returned" /\ ~aborted => reported[i] = 1
    BY DEF ReportedOnce
  <2> USE DEF BatchInv
  <2>1. CASE main = "split"
    BY <2>1 DEF Reporting
  <2>2. CASE main # "split"
    <3>1. specs = 1..packed
      BY <2>2, Corpus DEF Packing
    <3>2. PICK b \in DOMAIN batches : i \in SpecsIn(b)
      BY <3>1 DEF Packing, Apart, SpecsIn
    <3>3. Reported(b) /\ b \in Slots /\ b # 0
      BY Batches, SlotsAreNumbers DEF Reporting
    <3>4. reported[i] <= 1
      BY <3>2, <3>3 DEF Reported
    <3>5. ASSUME main = "returned", ~aborted PROVE reported[i] = 1
      <4>1. producer = "closed" /\ preparedCh = <<>> /\ current = 0
        BY <3>5 DEF Passing
      <4>2. builder[b] = "done"
        <5>1. b \in 1..Len(batches) /\ Len(batches) \in Nat /\ next \in Nat /\ next > Len(batches)
          BY <3>5, <4>1, Batches DEF Produced, Types
        <5>2. builder[b] # "none" /\ builder[b] \notin {"start", "wait", "send"}
          BY <3>3, <4>1, <5>1 DEF Produced, Building
        <5> QED BY <3>3, <5>2 DEF Types
      <4> QED BY <3>2, <3>3, <3>5, <4>1, <4>2, EmptyFacts DEF Reported
    <3> QED BY <3>4, <3>5
  <2> QED BY <2>1, <2>2
<1> QED BY <1>1, BatchInductive, PTL

\* For any corpus and any schedule: at the end of a run that was not interrupted
\* the servers that run are those of batches it had given up, and the binaries
\* left are theirs or of batches that failed (pipeline.go 263-272, 397-406).
THEOREM MachineIsClean == Spec => []NothingLeft
<1>1. BatchInv => NothingLeft
  <2> SUFFICES ASSUME BatchInv, main = "returned", ~interrupt
               PROVE  /\ servers \subseteq timedOut
                      /\ \A b \in binaries : b \in timedOut \/ prepared[b].error
    BY DEF NothingLeft
  <2> USE DEF BatchInv
  <2>1. producer = "closed" /\ preparedCh = <<>> /\ current = 0 /\ 0 \notin Slots
    BY SlotsAreNumbers DEF Passing
  <2>2. \A b \in Slots : builder[b] \notin {"start", "wait", "send"}
    BY <2>1 DEF Produced, Building
  <2>3. \A b \in Slots : ~InHand(b) /\ (prep[b] \in Working => b \in timedOut)
    BY <2>1, <2>2, EmptyFacts DEF InHand, Waiting
  <2>4. \A b \in Slots : Hosted(b)
    BY DEF Hosting
  <2>5. servers \subseteq Slots /\ binaries \subseteq Slots
    BY DEF Types
  <2> QED BY <2>3, <2>4, <2>5 DEF Hosted, Working
<1> QED BY <1>1, BatchInductive, PTL

\* Flags are flags, and the channel has room for what is in it.
Bounded ==
    /\ interrupt \in BOOLEAN /\ aborted \in BOOLEAN /\ crashed \in BOOLEAN
    /\ concurrency \in Concurrencies /\ Len(preparedCh) <= concurrency
    /\ producer \in {"none", "check", "acquire", "wait", "closed"}
    /\ main \in {"split", "receive", "next", "testing", "returned"}

LEMMA StepBounded ==
  ASSUME BatchInv, Bounded, Next
  PROVE  Bounded'
<1>1. interrupt' \in BOOLEAN /\ crashed' \in BOOLEAN
  <2>1. interrupt' = interrupt \/ interrupt' = TRUE
    BY DEF Next, Interrupt, Split, PlaceSpec, StartRun, Produce, NextBatch, Acquire, CloseChannel,
       StartBuilder, TimeOut, Send, Prepare, SetUp, Build, Launch, AwaitHealth, Panic, prepRest,
       Receive, ReceiveAborted, ReceiveError, ReceiveReady, SeeInterrupt, SeeClosed, Test, NextTest,
       FinishTest, PanicInTest, StopBatch, mainRest, abortVars
  <2>2. crashed' = crashed \/ crashed' = TRUE
    BY DEF Next, Interrupt, Split, PlaceSpec, StartRun, Produce, NextBatch, Acquire, CloseChannel,
       StartBuilder, TimeOut, Send, Prepare, SetUp, Build, Launch, AwaitHealth, Panic, prepRest,
       Receive, ReceiveAborted, ReceiveError, ReceiveReady, SeeInterrupt, SeeClosed, Test, NextTest,
       FinishTest, PanicInTest, StopBatch, mainRest
  <2>3. interrupt' \in BOOLEAN
    BY <2>1, Zenon DEF Bounded
  <2>4. crashed' \in BOOLEAN
    BY <2>2, Zenon DEF Bounded
  <2> QED BY <2>3, <2>4
<1>2. aborted' \in BOOLEAN
  <2>1. CASE NextBatch
    <3>1. aborted' = (aborted \/ (next <= Len(batches) /\ interrupt))
      BY <2>1 DEF NextBatch
    <3> QED BY <3>1, Zenon
  <2>2. CASE StopBatch
    <3>1. aborted' = (aborted \/ todo # <<>>)
      BY <2>2 DEF StopBatch
    <3> QED BY <3>1, Zenon
  <2>3. ASSUME NEW S, NEW n, Report(S, n)
        PROVE  aborted' \in BOOLEAN
    <3>1. aborted' = (aborted \/ (n > 0 /\ failCount' >= MaxFails))
      BY <2>3 DEF Report
    <3> QED BY <3>1, Zenon
  <2>4. CASE ~NextBatch /\ ~StopBatch /\ \A S, n : ~Report(S, n)
    <3>1. aborted' = aborted \/ aborted' = TRUE
      BY <2>4 DEF Next, Interrupt, Split, PlaceSpec, StartRun, Produce, Acquire, CloseChannel,
         StartBuilder, TimeOut, Send, Prepare, SetUp, Build, Launch, AwaitHealth, Panic, prepRest,
         Receive, ReceiveAborted, ReceiveError, ReceiveReady, SeeInterrupt, SeeClosed, Test,
         NextTest, FinishTest, PanicInTest, abortVars
    <3> QED BY <3>1, Zenon DEF Bounded
  <2> QED BY <2>1, <2>2, <2>3, <2>4
<1>3. concurrency' \in Concurrencies /\ Len(preparedCh') <= concurrency'
  <2>1. concurrency \in Nat /\ concurrency' = concurrency /\ preparedCh \in Seq(Slots)
    BY SetupStays, BatchAssumption DEF BatchAssumption, Bounded, BatchInv, Types
  <2>2. Len(preparedCh') <= concurrency
    <3>1. ASSUME NEW b \in Slots, Send(b)
          PROVE  Len(preparedCh') <= concurrency
      <4>1. Len(preparedCh') = Len(preparedCh) + 1 /\ Len(preparedCh) < concurrency
            /\ Len(preparedCh) \in Nat
        BY <2>1, <3>1, AppendOne, LenProperties DEF Send
      <4> QED BY <2>1, <4>1
    <3>2. ASSUME NEW b \in Slots, Receive(b)
          PROVE  Len(preparedCh') <= concurrency
      <4>1. preparedCh # <<>> /\ preparedCh' = Tail(preparedCh)
        BY <3>2 DEF Receive, ReceiveAborted, ReceiveError, ReceiveReady, Received
      <4>2. Len(preparedCh') = Len(preparedCh) - 1 /\ Len(preparedCh) \in Nat
        BY <2>1, <4>1, HeadTailProperties, LenProperties
      <4> QED BY <2>1, <4>2 DEF Bounded
    <3>3. CASE \A b \in Slots : ~Send(b) /\ ~Receive(b)
      <4>1. preparedCh' = preparedCh
        BY <3>3, LoopStays DEF PlaceSpec, StartRun, SeeInterrupt, SeeClosed, Test, NextTest, FinishTest, PanicInTest,
           StopBatch
      <4> QED BY <4>1 DEF Bounded
    <3> QED BY <3>1, <3>2, <3>3
  <2> QED BY <2>1, <2>2 DEF Bounded
<1>4. /\ producer' \in {"none", "check", "acquire", "wait", "closed"}
      /\ main' \in {"split", "receive", "next", "testing", "returned"}
  <2>1. producer' \in {"none", "check", "acquire", "wait", "closed"}
    BY OthersStay DEF Bounded, Produce, NextBatch, Acquire, CloseChannel, StartRun
  <2>2. CASE Interrupt \/ Split \/ Produce \/ SeeInterrupt \/ SeeClosed \/ Test
    BY <2>1, <2>2 DEF Interrupt, Split, PlaceSpec, StartRun, Produce, NextBatch, Acquire, CloseChannel,
       SeeInterrupt, SeeClosed, Test, NextTest, FinishTest, PanicInTest, StopBatch, mainVars, Bounded
  <2>3. ASSUME NEW b \in Slots, StartBuilder(b) \/ TimeOut(b) \/ Send(b) \/ Prepare(b) \/ Receive(b)
        PROVE  main' = main \/ main' = "next"
    BY <2>3 DEF StartBuilder, TimeOut, Send, Prepare, SetUp, Build, Launch, AwaitHealth, Panic,
       prepRest, Receive, ReceiveAborted, ReceiveError, ReceiveReady, mainVars
  <2> QED BY <2>1, <2>2, <2>3 DEF Next, Bounded
<1> QED BY <1>1, <1>2, <1>3, <1>4 DEF Bounded

\* The types, for any corpora and bounds: in particular the channel never holds
\* more batches than may be prepared at a time (pipeline.go 126).
THEOREM TypeCorrect == Spec => []TypeOK
<1>1. Init => Bounded
  <2> SUFFICES ASSUME Init PROVE Bounded
    OBVIOUS
  <2>1. interrupt \in BOOLEAN /\ aborted \in BOOLEAN /\ crashed \in BOOLEAN
    BY DEF Init
  <2>2. concurrency \in Concurrencies /\ Len(preparedCh) <= concurrency
    BY BatchAssumption DEF Init, BatchAssumption
  <2> QED BY <2>1, <2>2 DEF Init, Bounded
<1>2. BatchInv /\ Bounded /\ [Next]_vars => Bounded'
  <2> SUFFICES ASSUME BatchInv, Bounded, [Next]_vars PROVE Bounded'
    OBVIOUS
  <2>1. CASE Next
    BY <2>1, StepBounded
  <2>2. CASE UNCHANGED vars
    BY <2>2 DEF vars, setupVars, abortVars, buildVars, mainVars, Bounded
  <2> QED BY <2>1, <2>2
<1>3. BatchInv /\ Bounded => TypeOK
  <2> SUFFICES ASSUME BatchInv, Bounded PROVE TypeOK
    OBVIOUS
  <2>1. sizes \in Corpora /\ batches \in Seq(Seq(specs)) /\ packed \in 0..Len(sizes)
    BY Batches DEF BatchInv, Packing
  <2>2. <<interrupt, aborted, crashed>> \in BOOLEAN \X BOOLEAN \X BOOLEAN
    BY DEF Bounded
  <2>3. next \in 1..(Len(batches) + 1)
    BY Batches DEF BatchInv, Types, Produced
  <2>4. servers \subseteq binaries
    BY DEF BatchInv, Hosting, Hosted, Types
  <2> QED BY <2>1, <2>2, <2>3, <2>4 DEF BatchInv, Types, Result, Working, Bounded, TypeOK
<1> QED BY <1>1, <1>2, <1>3, BatchInductive, PTL DEF Spec
=============================================================================
