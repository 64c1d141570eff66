------------------------ MODULE OrderConsumer_proofs ------------------------
(***************************************************************************)
(* Theorems about the order processor's loop, for every batch size and     *)
(* every number of records.                                                *)
(***************************************************************************)
EXTENDS OrderConsumer, SequenceTheorems, FiniteSetTheorems, TLAPS

\* What the two invariants rest on: inside a batch at least one record is left,
\* a select that waits has the handler in place (a signal cannot kill it and
\* leave its listener behind), and the topic is a sequence of values.
BatchInv == /\ topic \in Seq(Value)
            /\ TypeOK
            /\ pc = "processing" => handled < position
            /\ pc = "waiting" => handler
            /\ BatchesAreFinished

\* The process starts with nothing handed out.
LEMMA InitBatchInv == Init => BatchInv
<1> SUFFICES ASSUME Init PROVE BatchInv
  OBVIOUS
<1>1. topic \in Seq(Value) /\ Len(topic) = 0
  BY DEF Init
<1>2. counted \in [Ending -> Nat]
  BY DEF Init
<1>3. start = 0 /\ position = 0 /\ handled = 0
  BY DEF Init
<1>4. /\ Len(topic) <= MaxRecords /\ position \in 0 .. Len(topic)
      /\ handled \in start .. position /\ start \in Nat
  BY <1>1, <1>3, ConsumerAssumption
<1> QED
  BY <1>1, <1>2, <1>3, <1>4 DEF Init, BatchInv, TypeOK, BatchesAreFinished

\* Every step of the loop, the signals included, keeps it.
LEMMA NextBatchInv == BatchInv /\ [Next]_vars => BatchInv'
<1> SUFFICES ASSUME BatchInv, [Next]_vars PROVE BatchInv'
  OBVIOUS
<1> USE DEF BatchInv, TypeOK, BatchesAreFinished
<1>1. ASSUME NEW value \in Value, Produce(value) PROVE BatchInv'
  <2>1. topic' \in Seq(Value) /\ Len(topic') = Len(topic) + 1 /\ Len(topic) \in Nat
    BY <1>1, LenProperties, AppendProperties DEF Produce
  <2> QED
    BY <1>1, <2>1, ConsumerAssumption DEF Produce
<1>2. CASE Signal
  <2>1. handler' = handler /\ raised' \in BOOLEAN
    BY <1>2 DEF Signal
  <2>2. pc' = pc \/ (pc' = "killed" /\ pc # "waiting")
    BY <1>2 DEF Signal, Stopped
  <2>3. UNCHANGED <<listener, topic, start, position, handled, counted>>
    BY <1>2 DEF Signal
  <2> QED
    BY <2>1, <2>2, <2>3
<1>9. CASE Notify
  BY <1>9 DEF Notify, Hear
<1>3. CASE Start
  BY <1>3 DEF Start
<1>8. CASE Arm \/ PollFails \/ Close \/ Flush
  BY <1>8 DEF Arm, PollFails, Close, Flush
<1>4. CASE StopOnSignal
  BY <1>4 DEF StopOnSignal, AfterSignal
<1>5. CASE HandleRecord
  <2>1. EndOf(topic[handled + 1]) \in Ending
    <3>1. handled + 1 \in 1 .. Len(topic)
      BY <1>5 DEF HandleRecord
    <3>2. topic[handled + 1] \in Value
      BY <3>1, ElementOfSeq
    <3> QED
      BY <3>2 DEF EndOf, decode_order, Value, Ending
  <2>2. counted' \in [Ending -> Nat]
    BY <1>5, <2>1 DEF HandleRecord
  <2> QED
    BY <1>5, <2>2 DEF HandleRecord, AfterRecord
<1>6. ASSUME NEW n \in 0 .. MaxBatch, PollReturns(n) PROVE BatchInv'
  BY <1>6, ConsumerAssumption DEF PollReturns
<1>7. CASE Terminated \/ UNCHANGED vars
  BY <1>7 DEF Terminated, vars
<1> QED
  BY <1>1, <1>2, <1>3, <1>4, <1>5, <1>6, <1>7, <1>8, <1>9 DEF Next, Step

\* BatchInv holds of every reachable state.
LEMMA BatchInvAlways == Spec => []BatchInv
  BY InitBatchInv, NextBatchInv, PTL DEF Spec

\* The consumer's variables stay in their domains; a listener exists exactly
\* while the select waits, which is why signals get lost.
THEOREM ConsumerTypeCorrect == Spec => []TypeOK
  BY BatchInvAlways, PTL DEF BatchInv

\* Neither a bad record nor a signal cuts a batch short.
THEOREM NoBatchIsCutShort == Spec => []BatchesAreFinished
  BY BatchInvAlways, PTL DEF BatchInv

-----------------------------------------------------------------------------
(* Each record in its counter.                                             *)

\* The offsets of the handled records with this value.
HandledWith(value) == {n \in start + 1 .. handled : topic[n] = value}

\* There are finitely many.
LEMMA HandledFinite ==
  ASSUME BatchInv, NEW value
  PROVE  IsFiniteSet(HandledWith(value)) /\ Cardinality(HandledWith(value)) \in Nat
<1>1. start + 1 \in Int /\ handled \in Int
  BY DEF BatchInv, TypeOK
<1>2. IsFiniteSet(start + 1 .. handled)
  BY <1>1, FS_Interval
<1> QED
  BY <1>2, FS_Subset, FS_CardinalityType DEF HandledWith

\* BatchInv says where the records handled are; this that they are counted.
CountInv == /\ BatchInv
            /\ pc = "startup" => handled = start
            /\ \A value \in Value : counted[EndOf(value)] = Cardinality(HandledWith(value))

\* Values end in different counters.
LEMMA EndsDiffer ==
  ASSUME NEW v \in Value, NEW w \in Value
  PROVE  EndOf(v) \in Ending /\ (EndOf(v) = EndOf(w) => v = w)
  BY DEF EndOf, decode_order, Value, Ending

\* Only HandleRecord counts, and what is handled is not changed by what is
\* produced later.
LEMMA NextCountInv == CountInv /\ [Next]_vars => CountInv'
<1> SUFFICES ASSUME CountInv, [Next]_vars PROVE CountInv'
  OBVIOUS
<1>0. BatchInv /\ BatchInv'
  BY NextBatchInv DEF CountInv
<1>t. /\ topic \in Seq(Value) /\ Len(topic) \in Nat /\ position \in 0 .. Len(topic)
      /\ handled \in start .. position /\ start \in Nat /\ counted \in [Ending -> Nat]
  BY <1>0 DEF BatchInv, TypeOK
<1>s. pc' = "startup" => handled' = start'
  BY DEF CountInv, Next, Step, Produce, Signal, Notify, Start, Arm, PollReturns, PollFails,
         StopOnSignal, AfterSignal, HandleRecord, AfterRecord, Close, Flush, Terminated, vars
<1>1. ASSUME UNCHANGED counted, \A value \in Value : HandledWith(value)' = HandledWith(value)
      PROVE  CountInv'
  BY <1>0, <1>s, <1>1 DEF CountInv, EndOf, decode_order
<1>2. ASSUME NEW value \in Value, Produce(value) PROVE CountInv'
  <2>1. \A n \in 1 .. Len(topic) : topic'[n] = topic[n]
    BY <1>2, <1>t DEF Produce
  <2>2. \A n \in start + 1 .. handled : n \in 1 .. Len(topic)
    BY <1>t
  <2> QED
    BY <1>1, <1>2, <2>1, <2>2 DEF Produce, HandledWith
<1>3. CASE Start
  <2>1. start' = handled' /\ start = handled /\ UNCHANGED counted /\ start' \in Nat
    BY <1>3, <1>t DEF Start, CountInv
  <2>2. \A value \in Value : HandledWith(value)' = {} /\ HandledWith(value) = {}
    BY <1>t, <2>1 DEF HandledWith
  <2> QED
    BY <1>1, <2>1, <2>2
<1>4. CASE HandleRecord
  <2>1. handled + 1 \in 1 .. Len(topic) /\ handled' = handled + 1 /\ UNCHANGED <<topic, start>>
    BY <1>4, <1>t DEF HandleRecord
  <2>v. PICK v \in Value : v = topic[handled + 1]
    BY <1>t, <2>1, ElementOfSeq
  <2>2. counted' = [counted EXCEPT ![EndOf(v)] = @ + 1]
    BY <1>4, <2>v DEF HandleRecord
  <2>3. HandledWith(v)' = HandledWith(v) \cup {handled + 1} /\ handled + 1 \notin HandledWith(v)
    BY <1>t, <2>1, <2>v DEF HandledWith
  <2>4. \A w \in Value : w # v => HandledWith(w)' = HandledWith(w)
    BY <1>t, <2>1, <2>v DEF HandledWith
  <2>5. Cardinality(HandledWith(v)') = Cardinality(HandledWith(v)) + 1
    BY <1>0, <2>3, HandledFinite, FS_AddElement
  <2>6. ASSUME NEW w \in Value PROVE counted'[EndOf(w)] = Cardinality(HandledWith(w)')
    <3>1. EndOf(w) \in Ending /\ EndOf(v) \in Ending /\ (EndOf(v) = EndOf(w) => v = w)
      BY EndsDiffer
    <3>2. counted[EndOf(w)] = Cardinality(HandledWith(w))
      BY DEF CountInv
    <3>3. CASE w = v
      BY <1>t, <2>2, <2>5, <3>1, <3>2, <3>3
    <3>4. CASE w # v
      BY <1>t, <2>2, <2>4, <3>1, <3>2, <3>4
    <3> QED
      BY <3>3, <3>4
  <2> QED
    BY <1>0, <1>s, <2>6 DEF CountInv, EndOf, decode_order
<1>5. CASE UNCHANGED <<counted, topic, start, handled>>
  BY <1>1, <1>5 DEF HandledWith
<1> QED
  BY <1>2, <1>3, <1>4, <1>5 DEF Next, Step, Signal, Notify, Arm, PollFails, StopOnSignal, Close,
     Flush, PollReturns, Terminated, vars

\* Every record the loop is done with is in one counter, the one its value
\* calls for, whatever else was in its batch.
THEOREM RecordsAreCountedOnce == Spec => []EveryRecordCounted
<1>1. Init => CountInv
  <2> SUFFICES ASSUME Init PROVE CountInv
    OBVIOUS
  <2>1. \A value \in Value : HandledWith(value) = {}
    BY DEF Init, HandledWith
  <2>2. \A value \in Value : counted[EndOf(value)] = 0
    BY EndsDiffer DEF Init
  <2> QED
    BY <2>1, <2>2, InitBatchInv, FS_EmptySet DEF CountInv, Init
<1>2. CountInv => EveryRecordCounted
  BY DEF CountInv, EveryRecordCounted, HandledWith
<1> QED
  BY <1>1, <1>2, NextCountInv, PTL DEF Spec
=============================================================================
