-------------------------- MODULE ConcurrencyProofs --------------------------
(***************************************************************************)
(* Proofs about the services that several threads or tasks call at once:   *)
(* the timeline, the cooldown and limit of an event type, the trackers of  *)
(* correlated events, and the step graphs that share a semaphore; and      *)
(* about what a decision becomes on its way through process_decision().    *)
(***************************************************************************)
EXTENDS Timeline, Orchestration, StepRunner, DecisionRouting, FiniteSetTheorems,
        SequenceTheorems, WellFoundedInduction, TLAPS

-----------------------------------------------------------------------------
(* The timeline *)

TimelineSpec == TimelineInit /\ [][TimelineNext]_timelineVars

RecordedEvent == [correlation_id : CorrelationIds, timestamp : Nat, sequence_number : Int]

TimelineTypes ==
    /\ instant \in Nat /\ eventCount \in Nat /\ overlapped \in BOOLEAN
    /\ timelines \in [CorrelationIds -> Seq(RecordedEvent)]
    /\ recorder \in [Recorders -> {<<>>} \cup {<<e>> : e \in RecordedEvent}]

\* The positions of the events in all timelines.
Slots(lines) == UNION {{c} \X DOMAIN lines[c] : c \in CorrelationIds}

\* The numbers of the events in all timelines.
SequenceNumbers(lines) ==
    UNION {{lines[c][i].sequence_number : i \in DOMAIN lines[c]} : c \in CorrelationIds}

\* While calls follow one another, the one under way has no number yet or the number
\* that comes next, and it is no earlier than what has been recorded.
InTurn ==
    /\ \A t, u \in Recorders : recorder[t] # <<>> /\ recorder[u] # <<>> => t = u
    /\ \A t \in Recorders : recorder[t] # <<>> =>
          /\ recorder[t][1].sequence_number \in {-1, eventCount}
          /\ recorder[t][1].timestamp <= instant
          /\ \A c \in CorrelationIds : \A i \in DOMAIN timelines[c] :
                timelines[c][i].timestamp <= recorder[t][1].timestamp
    /\ \A c \in CorrelationIds : \A i \in DOMAIN timelines[c] :
          timelines[c][i].timestamp <= instant

TimelineInv ==
    /\ TimelineTypes
    /\ IsFiniteSet(Slots(timelines)) /\ eventCount = Cardinality(Slots(timelines))
    /\ SequenceNumbersAreTotal
    /\ ~overlapped => InTurn

LEMMA TimelineStart == TimelineInit => TimelineInv
<1> SUFFICES ASSUME TimelineInit PROVE TimelineInv
  OBVIOUS
<1>1. TimelineTypes
  <2>1. timelines \in [CorrelationIds -> Seq(RecordedEvent)]
    BY EmptySeq, Zenon DEF TimelineInit
  <2>2. recorder \in [Recorders -> {<<>>} \cup {<<e>> : e \in RecordedEvent}]
    BY Zenon DEF TimelineInit
  <2> QED
    BY <2>1, <2>2 DEF TimelineInit, TimelineTypes
<1>2. \A c \in CorrelationIds : DOMAIN timelines[c] = {}
  BY DEF TimelineInit
<1>3. Slots(timelines) = {}
  BY <1>2 DEF Slots
<1>4. UNION {{timelines[c][i].sequence_number : i \in DOMAIN timelines[c]} : c \in CorrelationIds} = {}
  BY <1>2
<1>5. eventCount = 0 /\ 0..(0 - 1) = {}
  BY DEF TimelineInit
<1>6. \A c \in CorrelationIds : ValidateTimeline(timelines[c]) = {}
  BY Zenon, <1>2, SMT DEF TimelineInit, ValidateTimeline
<1>7. InTurn
  BY <1>2 DEF InTurn, TimelineInit
<1> QED
  BY <1>1, <1>3, <1>4, <1>5, <1>6, <1>7, FS_EmptySet DEF TimelineInv, SequenceNumbersAreTotal

\* The event that a thread appends, and what the lists hold afterwards.
LEMMA Appended ==
    ASSUME TimelineTypes, NEW t \in Recorders, AppendEvent(t)
    PROVE  \E e \in RecordedEvent :
              /\ recorder[t] = <<e>> /\ e.sequence_number >= 0
              /\ recorder' = [recorder EXCEPT ![t] = <<>>]
              /\ timelines' = [timelines EXCEPT ![e.correlation_id] =
                                   Append(timelines[e.correlation_id], e)]
<1>1. recorder[t] # <<>> /\ recorder[t] \in {<<>>} \cup {<<e>> : e \in RecordedEvent}
  BY DEF AppendEvent, TimelineTypes
<1>2. PICK e \in RecordedEvent : recorder[t] = <<e>>
  BY <1>1
<1>3. recorder[t][1] = e
  BY <1>2
<1> QED
  BY <1>2, <1>3 DEF AppendEvent, TimelineTypes

\* One more event is one more slot.
LEMMA OneSlotMore ==
    ASSUME TimelineTypes, NEW e \in RecordedEvent,
           timelines' = [timelines EXCEPT ![e.correlation_id] =
                             Append(timelines[e.correlation_id], e)]
    PROVE  LET c == e.correlation_id
               n == Len(timelines[c]) + 1
           IN  /\ timelines' \in [CorrelationIds -> Seq(RecordedEvent)]
               /\ c \in CorrelationIds /\ n \in Nat \ {0}
               /\ DOMAIN timelines[c] = 1..(n - 1) /\ DOMAIN timelines'[c] = 1..n
               /\ timelines'[c][n] = e
               /\ \A i \in DOMAIN timelines[c] : timelines'[c][i] = timelines[c][i]
               /\ \A d \in CorrelationIds : d # c => timelines'[d] = timelines[d]
               /\ <<c, n>> \notin Slots(timelines)
               /\ Slots(timelines') = Slots(timelines) \cup {<<c, n>>}
<1> DEFINE c == e.correlation_id
           n == Len(timelines[c]) + 1
<1>1. c \in CorrelationIds /\ timelines[c] \in Seq(RecordedEvent)
  BY DEF RecordedEvent, TimelineTypes
<1>2. timelines'[c] = Append(timelines[c], e)
      /\ \A d \in CorrelationIds : d # c => timelines'[d] = timelines[d]
  BY <1>1 DEF TimelineTypes
<1>3. n \in Nat \ {0} /\ DOMAIN timelines[c] = 1..(n - 1)
  BY <1>1, LenProperties
<1>4. /\ Append(timelines[c], e) \in Seq(RecordedEvent)
      /\ DOMAIN Append(timelines[c], e) = 1..n
      /\ Append(timelines[c], e)[n] = e
      /\ \A i \in DOMAIN timelines[c] : Append(timelines[c], e)[i] = timelines[c][i]
  BY <1>1, <1>3, AppendProperties
<1>5. timelines' \in [CorrelationIds -> Seq(RecordedEvent)]
  BY <1>1, <1>4 DEF TimelineTypes
<1> HIDE DEF c, n
<1>6. DOMAIN timelines[c] \cup {n} = DOMAIN timelines'[c] /\ n \notin DOMAIN timelines[c]
  BY <1>2, <1>3, <1>4
<1>7. <<c, n>> \notin Slots(timelines)
  <2> SUFFICES ASSUME NEW d \in CorrelationIds, <<c, n>> \in {d} \X DOMAIN timelines[d]
               PROVE  FALSE
    BY DEF Slots
  <2> QED
    BY <1>6
<1>8. Slots(timelines') = Slots(timelines) \cup {<<c, n>>}
  <2>1. ASSUME NEW p \in Slots(timelines') PROVE p \in Slots(timelines) \cup {<<c, n>>}
    <3>1. PICK d \in CorrelationIds : p \in {d} \X DOMAIN timelines'[d]
      BY <2>1 DEF Slots
    <3>2. CASE d # c
      BY <1>2, <3>1, <3>2 DEF Slots
    <3>3. CASE d = c
      <4>1. p = <<c, n>> \/ p \in {c} \X DOMAIN timelines[c]
        BY <1>6, <3>1, <3>3
      <4> QED
        BY <1>1, <4>1 DEF Slots, c
    <3> QED
      BY <3>2, <3>3
  <2>2. ASSUME NEW p \in Slots(timelines) PROVE p \in Slots(timelines')
    <3>1. PICK d \in CorrelationIds : p \in {d} \X DOMAIN timelines[d]
      BY <2>2 DEF Slots
    <3>2. p \in {d} \X DOMAIN timelines'[d]
      BY <1>2, <1>6, <3>1
    <3> QED
      BY <3>2 DEF Slots
  <2>3. <<c, n>> \in {c} \X DOMAIN timelines'[c]
    BY <1>6
  <2>4. <<c, n>> \in Slots(timelines')
    BY <1>1, <2>3 DEF Slots, c
  <2> QED
    BY <2>1, <2>2, <2>4
<1> QED
  BY <1>1, <1>2, <1>3, <1>4, <1>5, <1>7, <1>8 DEF c, n

\* A call that begins, or takes its number, leaves the lists alone.
LEMMA TimelineCallStep ==
    ASSUME TimelineInv, NEW t \in Recorders,
           NumberEvent(t) \/ \E c \in CorrelationIds : BuildEvent(t, c)
    PROVE  TimelineInv'
<1> USE DEF TimelineInv
<1>1. UNCHANGED <<timelines, eventCount, instant>>
  BY DEF NumberEvent, BuildEvent
<1>2. overlapped' = FALSE => overlapped = FALSE
  BY DEF NumberEvent, BuildEvent, TimelineTypes
<1>3. SequenceNumbersAreTotal'
  BY <1>1, <1>2 DEF SequenceNumbersAreTotal, ValidateTimeline, TimelineTypes
<1>4. CASE NumberEvent(t)
  <2>1. PICK e \in RecordedEvent : recorder[t] = <<e>>
    BY <1>4 DEF NumberEvent, TimelineTypes
  <2> DEFINE f == [e EXCEPT !.sequence_number = eventCount]
  <2>2. f \in RecordedEvent /\ f.timestamp = e.timestamp /\ f.sequence_number = eventCount
    <3>1. eventCount \in Int
      BY DEF TimelineTypes
    <3> HIDE DEF TimelineInv
    <3> QED
      BY <3>1 DEF RecordedEvent
  <2> HIDE DEF f
  <2>3. recorder' = [recorder EXCEPT ![t] = <<f>>]
    <3>1. [recorder[t] EXCEPT ![1] = f] = <<f>> /\ recorder[t][1] = e
      BY <2>1
    <3>2. recorder' = [recorder EXCEPT ![t] = [recorder[t] EXCEPT ![1] = f]]
      BY <1>4, <3>1 DEF NumberEvent, f
    <3> QED
      BY <3>1, <3>2
  <2>4. recorder' \in [Recorders -> {<<>>} \cup {<<q>> : q \in RecordedEvent}]
    BY <2>2, <2>3 DEF TimelineTypes
  <2>5. TimelineTypes'
    BY <1>1, <1>4, <2>4 DEF TimelineTypes, NumberEvent
  <2>6. /\ recorder'[t][1] = f /\ recorder[t][1] = e /\ recorder[t] # <<>>
        /\ \A u \in Recorders : u # t => recorder'[u] = recorder[u]
    BY <2>1, <2>3 DEF TimelineTypes
  <2>7. ASSUME InTurn PROVE InTurn'
    <3>1. \A u \in Recorders : recorder'[u] # <<>> => u = t
      BY <2>6, <2>7 DEF InTurn
    <3> QED
      BY <1>1, <2>2, <2>6, <2>7, <3>1 DEF InTurn
  <2> QED
    BY <1>1, <1>2, <1>3, <1>4, <2>5, <2>7 DEF NumberEvent, TimelineTypes
<1>5. ASSUME NEW c \in CorrelationIds, BuildEvent(t, c) PROVE TimelineInv'
  <2> DEFINE f == [correlation_id |-> c, timestamp |-> instant, sequence_number |-> -1]
  <2>1. f \in RecordedEvent /\ f.timestamp = instant /\ f.sequence_number = -1
    BY DEF RecordedEvent, TimelineTypes
  <2>2. recorder' = [recorder EXCEPT ![t] = <<f>>]
    BY <1>5 DEF BuildEvent
  <2> HIDE DEF f
  <2>3. recorder' \in [Recorders -> {<<>>} \cup {<<q>> : q \in RecordedEvent}]
    BY <2>1, <2>2 DEF TimelineTypes
  <2>4. overlapped' = (overlapped \/ Recording)
    BY <1>5 DEF BuildEvent
  <2>5. TimelineTypes'
    BY <1>1, <2>3, <2>4 DEF TimelineTypes, Recording
  <2>6. /\ recorder'[t][1] = f
        /\ \A u \in Recorders : u # t => recorder'[u] = recorder[u]
    BY <2>2 DEF TimelineTypes
  <2>7. ASSUME ~overlapped' PROVE InTurn'
    <3>1. ~overlapped /\ \A u \in Recorders : recorder[u] = <<>>
      BY <2>4, <2>7 DEF Recording
    <3>2. InTurn /\ \A u \in Recorders : recorder'[u] # <<>> => u = t
      BY <2>6, <3>1
    <3> QED
      BY <1>1, <2>1, <2>6, <3>2 DEF InTurn, TimelineTypes
  <2> QED
    BY <1>1, <1>3, <2>5, <2>7
<1> QED
  BY <1>4, <1>5

\* The append under the lock.
LEMMA TimelineAppendStep ==
    ASSUME TimelineInv, NEW t \in Recorders, AppendEvent(t)
    PROVE  TimelineInv'
<1> USE DEF TimelineInv
<1>1. PICK e \in RecordedEvent :
         /\ recorder[t] = <<e>> /\ e.sequence_number >= 0
         /\ recorder' = [recorder EXCEPT ![t] = <<>>]
         /\ timelines' = [timelines EXCEPT ![e.correlation_id] =
                              Append(timelines[e.correlation_id], e)]
  BY Appended
<1> DEFINE c == e.correlation_id
           n == Len(timelines[c]) + 1
<1>2. /\ timelines' \in [CorrelationIds -> Seq(RecordedEvent)]
      /\ c \in CorrelationIds /\ n \in Nat \ {0}
      /\ DOMAIN timelines[c] = 1..(n - 1) /\ DOMAIN timelines'[c] = 1..n
      /\ timelines'[c][n] = e
      /\ \A i \in DOMAIN timelines[c] : timelines'[c][i] = timelines[c][i]
      /\ \A d \in CorrelationIds : d # c => timelines'[d] = timelines[d]
      /\ <<c, n>> \notin Slots(timelines)
      /\ Slots(timelines') = Slots(timelines) \cup {<<c, n>>}
  BY <1>1, OneSlotMore
<1> HIDE DEF c, n
<1>3. eventCount' = eventCount + 1 /\ UNCHANGED <<instant, overlapped>>
  BY DEF AppendEvent
<1>4. /\ recorder'[t] = <<>> /\ \A u \in Recorders : u # t => recorder'[u] = recorder[u]
      /\ recorder[t] # <<>> /\ recorder[t][1] = e
  BY <1>1 DEF TimelineTypes
<1>5. TimelineTypes'
  BY <1>1, <1>2, <1>3 DEF TimelineTypes
<1>6. IsFiniteSet(Slots(timelines')) /\ eventCount' = Cardinality(Slots(timelines'))
  BY <1>2, <1>3, FS_AddElement
<1>7. ASSUME ~overlapped PROVE InTurn'
  <2>1. InTurn /\ \A u \in Recorders : recorder'[u] = <<>>
    BY <1>4, <1>7 DEF InTurn
  <2>2. \A d \in CorrelationIds : \A i \in DOMAIN timelines'[d] :
           \/ timelines'[d][i] = e
           \/ i \in DOMAIN timelines[d] /\ timelines'[d][i] = timelines[d][i]
    <3> SUFFICES ASSUME NEW d \in CorrelationIds, NEW i \in DOMAIN timelines'[d],
                        ~(d = c /\ i = n)
                 PROVE  i \in DOMAIN timelines[d] /\ timelines'[d][i] = timelines[d][i]
      BY <1>2
    <3>1. DOMAIN timelines'[c] = DOMAIN timelines[c] \cup {n}
      BY <1>2
    <3> QED
      BY <1>2, <3>1
  <2>3. e.timestamp <= instant
    BY <1>4, <2>1 DEF InTurn
  <2> QED
    BY <1>3, <2>1, <2>2, <2>3 DEF InTurn
<1>8. ASSUME ~overlapped PROVE SequenceNumbersAreTotal'
  <2>1. /\ e.sequence_number = eventCount
        /\ \A d \in CorrelationIds : \A i \in DOMAIN timelines[d] :
              timelines[d][i].timestamp <= e.timestamp
    BY <1>1, <1>4, <1>7, <1>8 DEF InTurn
  <2>2. SequenceNumbers(timelines) = 0..(eventCount - 1)
    BY <1>8 DEF SequenceNumbersAreTotal, SequenceNumbers
  <2>3. SequenceNumbers(timelines') = SequenceNumbers(timelines) \cup {e.sequence_number}
    <3>1. DOMAIN timelines'[c] = DOMAIN timelines[c] \cup {n}
      BY <1>2
    <3>2. ASSUME NEW x \in SequenceNumbers(timelines')
          PROVE  x \in SequenceNumbers(timelines) \cup {e.sequence_number}
      <4>1. PICK d \in CorrelationIds :
               x \in {timelines'[d][i].sequence_number : i \in DOMAIN timelines'[d]}
        BY <3>2 DEF SequenceNumbers
      <4>2. PICK i \in DOMAIN timelines'[d] : x = timelines'[d][i].sequence_number
        BY <4>1
      <4>3. CASE d = c /\ i = n
        BY <1>2, <4>2, <4>3
      <4>4. CASE ~(d = c /\ i = n)
        <5>1. i \in DOMAIN timelines[d] /\ timelines'[d][i] = timelines[d][i]
          BY <1>2, <3>1, <4>4
        <5>2. x \in {timelines[d][k].sequence_number : k \in DOMAIN timelines[d]}
          BY <4>2, <5>1
        <5> QED
          BY <5>2 DEF SequenceNumbers
      <4> QED
        BY <4>3, <4>4
    <3>3. ASSUME NEW x \in SequenceNumbers(timelines) PROVE x \in SequenceNumbers(timelines')
      <4>1. PICK d \in CorrelationIds :
               x \in {timelines[d][i].sequence_number : i \in DOMAIN timelines[d]}
        BY <3>3 DEF SequenceNumbers
      <4>2. PICK i \in DOMAIN timelines[d] : x = timelines[d][i].sequence_number
        BY <4>1
      <4>3. i \in DOMAIN timelines'[d] /\ timelines'[d][i] = timelines[d][i]
        BY <1>2, <3>1
      <4>4. x \in {timelines'[d][k].sequence_number : k \in DOMAIN timelines'[d]}
        BY <4>2, <4>3
      <4> QED
        BY <4>4 DEF SequenceNumbers
    <3>4. e.sequence_number \in {timelines'[c][k].sequence_number : k \in DOMAIN timelines'[c]}
      BY <1>2, <3>1
    <3>5. e.sequence_number \in SequenceNumbers(timelines')
      BY <1>2, <3>4 DEF SequenceNumbers
    <3> QED
      BY <3>2, <3>3, <3>5
  <2>4. SequenceNumbers(timelines') = 0..(eventCount' - 1)
    BY <1>3, <2>1, <2>2, <2>3 DEF TimelineTypes
  <2>5. \A d \in CorrelationIds : \A i \in DOMAIN timelines[d] :
           timelines[d][i].sequence_number < eventCount
    <3> SUFFICES ASSUME NEW d \in CorrelationIds, NEW i \in DOMAIN timelines[d]
                 PROVE  timelines[d][i].sequence_number < eventCount
      OBVIOUS
    <3>1. timelines[d][i].sequence_number
             \in {timelines[d][k].sequence_number : k \in DOMAIN timelines[d]}
      OBVIOUS
    <3>2. timelines[d][i].sequence_number \in SequenceNumbers(timelines)
      BY <3>1 DEF SequenceNumbers
    <3> QED
      BY <2>2, <3>2 DEF TimelineTypes
  <2>6. ASSUME NEW d \in CorrelationIds PROVE ValidateTimeline(timelines'[d]) = {}
    <3>1. ValidateTimeline(timelines[d]) = {}
      BY <1>8 DEF SequenceNumbersAreTotal
    <3>2. CASE d # c
      BY <1>2, <3>1, <3>2
    <3>3. CASE d = c
      <4>1. Len(timelines[c]) = n - 1 /\ Len(timelines'[c]) = n
        BY <1>2, LenProperties DEF TimelineTypes
      <4>2. ASSUME NEW i \in 2..(n - 1) PROVE i \notin ValidateTimeline(timelines'[c])
        <5>1. i \in DOMAIN timelines[c] /\ i - 1 \in DOMAIN timelines[c]
          <6>1. i \in 1..(n - 1) /\ i - 1 \in 1..(n - 1)
            BY <1>2
          <6> QED
            BY <1>2, <6>1
        <5>2. i \notin ValidateTimeline(timelines[c]) /\ i \in 2..Len(timelines[c])
          BY <3>1, <3>3, <4>1
        <5> QED
          BY <1>2, <5>1, <5>2, Zenon DEF ValidateTimeline
      <4>3. ASSUME n > 1 PROVE n \notin ValidateTimeline(timelines'[c])
        <5>1. n - 1 \in DOMAIN timelines[c]
          BY <1>2, <4>3
        <5>2. /\ timelines'[c][n] = e /\ timelines'[c][n - 1] = timelines[c][n - 1]
              /\ timelines[c][n - 1] \in RecordedEvent
          BY <1>2, <5>1, ElementOfSeq, LenProperties DEF TimelineTypes
        <5>3. /\ timelines[c][n - 1].sequence_number < e.sequence_number
              /\ timelines[c][n - 1].timestamp <= e.timestamp
          BY <1>2, <2>1, <2>5, <5>1
        <5> DEFINE old == timelines[c][n - 1]
        <5>4. old \in RecordedEvent
          BY <5>2
        <5>5. /\ old.sequence_number < e.sequence_number /\ old.timestamp <= e.timestamp
              /\ timelines'[c][n] = e /\ timelines'[c][n - 1] = old
          BY <5>2, <5>3
        <5> HIDE DEF old
        <5>6. ~(e.sequence_number < old.sequence_number) /\ ~(e.timestamp < old.timestamp)
          BY <5>4, <5>5 DEF RecordedEvent
        <5> QED
          BY <5>5, <5>6, Zenon DEF ValidateTimeline
      <4>4. ValidateTimeline(timelines'[c]) \subseteq 2..n
        BY <4>1 DEF ValidateTimeline
      <4> QED
        BY <1>2, <3>3, <4>2, <4>3, <4>4
    <3> QED
      BY <3>2, <3>3
  <2> QED
    BY <1>2, <2>4, <2>6 DEF SequenceNumbersAreTotal, SequenceNumbers
<1> QED
  BY <1>3, <1>5, <1>6, <1>7, <1>8 DEF SequenceNumbersAreTotal

LEMMA TimelineStep == TimelineInv /\ [TimelineNext]_timelineVars => TimelineInv'
<1> SUFFICES ASSUME TimelineInv, [TimelineNext]_timelineVars PROVE TimelineInv'
  OBVIOUS
<1>1. CASE \E t \in Recorders : NumberEvent(t) \/ \E c \in CorrelationIds : BuildEvent(t, c)
  BY <1>1, TimelineCallStep
<1>2. CASE \E t \in Recorders : AppendEvent(t)
  BY <1>2, TimelineAppendStep
<1>3. CASE ClearAll
  <2>1. /\ eventCount' = 0 /\ timelines' = [c \in CorrelationIds |-> <<>>]
        /\ UNCHANGED <<instant, recorder>> /\ overlapped' = (overlapped \/ Recording)
    BY <1>3 DEF ClearAll
  <2>2. /\ \A c \in CorrelationIds : DOMAIN timelines'[c] = {} /\ Len(timelines'[c]) = 0
        /\ timelines' \in [CorrelationIds -> Seq(RecordedEvent)]
    BY <2>1, EmptySeq
  <2>3. Slots(timelines') = {} /\ SequenceNumbers(timelines') = {}
    <3>1. \A c \in CorrelationIds : DOMAIN timelines'[c] = {}
      BY <2>2
    <3> QED
      BY <3>1 DEF Slots, SequenceNumbers
  <2>4. SequenceNumbersAreTotal'
    <3>1. \A c \in CorrelationIds : ValidateTimeline(timelines'[c]) = {}
      <4>1. 2..0 = {}
        OBVIOUS
      <4> QED
        BY <2>2, <4>1, Zenon DEF ValidateTimeline
    <3>2. SequenceNumbers(timelines') = 0..(eventCount' - 1)
      BY <2>1, <2>3
    <3> QED
      BY <3>1, <3>2 DEF SequenceNumbersAreTotal, SequenceNumbers
  <2>5. ASSUME ~overlapped' PROVE InTurn'
    <3>1. \A t \in Recorders : recorder'[t] = <<>>
      BY <2>1, <2>5 DEF Recording
    <3> QED
      BY <2>2, <3>1 DEF InTurn
  <2>6. TimelineTypes'
    BY <2>1, <2>2 DEF TimelineInv, TimelineTypes, Recording
  <2> QED
    BY <2>1, <2>3, <2>4, <2>5, <2>6, FS_EmptySet DEF TimelineInv
<1>4. CASE InstantPasses
  <2>1. instant' = instant + 1 /\ UNCHANGED <<timelines, eventCount, recorder, overlapped>>
    BY <1>4 DEF InstantPasses
  <2>2. SequenceNumbersAreTotal' /\ TimelineTypes'
    BY <2>1 DEF TimelineInv, SequenceNumbersAreTotal, ValidateTimeline, TimelineTypes
  <2>3. ASSUME InTurn PROVE InTurn'
    <3>1. \A t \in Recorders : recorder[t] # <<>> => recorder[t][1].timestamp \in Nat
      <4> SUFFICES ASSUME NEW t \in Recorders, recorder[t] # <<>>
                   PROVE  recorder[t][1].timestamp \in Nat
        OBVIOUS
      <4>1. PICK e \in RecordedEvent : recorder[t] = <<e>>
        BY DEF TimelineInv, TimelineTypes
      <4> QED
        BY <4>1 DEF RecordedEvent
    <3>2. \A c \in CorrelationIds : \A i \in DOMAIN timelines[c] : timelines[c][i].timestamp \in Nat
      <4> SUFFICES ASSUME NEW c \in CorrelationIds, NEW i \in DOMAIN timelines[c]
                   PROVE  timelines[c][i].timestamp \in Nat
        OBVIOUS
      <4>1. timelines[c][i] \in RecordedEvent
        BY ElementOfSeq, LenProperties DEF TimelineInv, TimelineTypes
      <4> QED
        BY <4>1 DEF RecordedEvent
    <3> QED
      BY <2>1, <2>3, <3>1, <3>2 DEF InTurn, TimelineInv, TimelineTypes
  <2> QED
    BY <2>1, <2>2, <2>3 DEF TimelineInv
<1>5. CASE UNCHANGED timelineVars
  BY <1>5 DEF timelineVars, TimelineInv, TimelineTypes, SequenceNumbersAreTotal,
              ValidateTimeline, InTurn
<1> QED
  BY <1>1, <1>2, <1>3, <1>4, <1>5 DEF TimelineNext

\* The lock of record_event() loses no event although clock and counter are read
\* before it; and when no two calls overlap, the numbers are 0, 1, ... and
\* validate_timeline() finds no issue, for any number of threads and timelines.
THEOREM TimelinesAreSound == TimelineSpec => []TimelineIsSound
<1>1. TimelineInv => TimelineIsSound
  BY DEF TimelineInv, TimelineIsSound, CountIsExact, GetEventCount, Slots
<1> QED
  BY <1>1, TimelineStart, TimelineStep, PTL DEF TimelineSpec

-----------------------------------------------------------------------------
(* The cooldown *)

OrchestrationSpec == OrchestrationInit /\ [][CooldownNext \/ CorrelationNext]_orchestrationVars

\* The tasks between check and record, and those whose check was before the window.
Busy == {c \in Callers : caller[c].at # "idle"}
Late == {c \in Busy : caller[c].window < Len(windows)}

CooldownTypes ==
    /\ ms \in Nat /\ overlap \in Nat /\ windows \in Seq(Nat)
    /\ tracker \in [cooldown_until_ms : Nat, events_in_window : Nat]
    /\ caller \in [Callers -> Caller]

\* Who has checked since the window began found its cooldown over.
ChecksAreHonest ==
    \A c \in Callers :
        /\ caller[c].window <= Len(windows)
        /\ caller[c].at # "idle" /\ caller[c].window = Len(windows) => ~IsCoolingDown

\* The events of a window come from tasks that were between check and record when
\* it began: those recorded, those to come and the one that began it were there at once.
EventsWereThere ==
    /\ Cardinality(Busy) <= overlap
    /\ windows = <<>> => tracker = [cooldown_until_ms |-> 0, events_in_window |-> 0]
    /\ windows # <<>> =>
          /\ tracker.cooldown_until_ms = windows[Len(windows)] + CooldownMs
          /\ tracker.events_in_window + Cardinality(Late) + 1 <= overlap

CooldownInv == CooldownTypes /\ ChecksAreHonest /\ EventsWereThere

LEMMA CooldownStart == OrchestrationInit => CooldownInv
<1> SUFFICES ASSUME OrchestrationInit PROVE CooldownInv
  OBVIOUS
<1> USE OrchestrationAssumption DEF OrchestrationInit
<1>1. CooldownTypes
  BY EmptySeq DEF CooldownTypes, Caller
<1>2. Busy = {} /\ Len(windows) = 0 /\ windows = <<>>
  BY DEF Busy
<1>3. ChecksAreHonest /\ EventsWereThere
  BY <1>2, FS_EmptySet DEF ChecksAreHonest, EventsWereThere
<1> QED
  BY <1>1, <1>3 DEF CooldownInv

\* The tasks under way are finitely many.
LEMMA BusyIsFinite ==
    /\ IsFiniteSet(Busy) /\ IsFiniteSet(Late) /\ IsFiniteSet(Busy') /\ IsFiniteSet(Late')
    /\ {Cardinality(Busy), Cardinality(Late), Cardinality(Busy'), Cardinality(Late')} \subseteq Nat
<1>1. Busy \subseteq Callers /\ Late \subseteq Callers /\ Busy' \subseteq Callers /\ Late' \subseteq Callers
  BY DEF Busy, Late
<1>2. IsFiniteSet(Busy) /\ IsFiniteSet(Late) /\ IsFiniteSet(Busy') /\ IsFiniteSet(Late')
  BY <1>1, OrchestrationAssumption, FS_Subset
<1> QED
  BY <1>2, FS_CardinalityType

\* A task that goes on, or back to where it began, stays in its window.
LEMMA CallerMoves ==
    ASSUME CooldownInv, NEW c \in Callers, NEW at \in {"idle", "limit", "admitted"},
           caller[c].at # "idle", caller' = [caller EXCEPT ![c].at = at],
           UNCHANGED <<ms, tracker, overlap, windows>>
    PROVE  CooldownInv'
<1>1. /\ caller' \in [Callers -> Caller] /\ caller'[c].at = at
      /\ \A d \in Callers : caller'[d].window = caller[d].window
      /\ \A d \in Callers : d # c => caller'[d] = caller[d]
  BY DEF CooldownInv, CooldownTypes, Caller
<1>2. Busy' \subseteq Busy /\ Late' \subseteq Late
  BY <1>1 DEF Busy, Late
<1>3. Cardinality(Busy') <= Cardinality(Busy) /\ Cardinality(Late') <= Cardinality(Late)
  BY <1>2, BusyIsFinite, FS_Subset
<1>4. CooldownTypes'
  BY <1>1 DEF CooldownInv, CooldownTypes
<1>5. ChecksAreHonest'
  <2>1. \A d \in Callers : caller'[d].at # "idle" => caller[d].at # "idle"
    BY <1>1
  <2> QED
    BY <1>1, <2>1 DEF CooldownInv, ChecksAreHonest, IsCoolingDown
<1>6. EventsWereThere'
  BY <1>3, BusyIsFinite DEF CooldownInv, EventsWereThere, CooldownTypes
<1> QED
  BY <1>4, <1>5, <1>6 DEF CooldownInv

LEMMA CheckStep ==
    ASSUME CooldownInv, NEW c \in Callers, CheckCooldown(c), UNCHANGED ms
    PROVE  CooldownInv'
<1>1. CASE IsCoolingDown
  <2>1. caller' = [caller EXCEPT ![c].rounds = @ + 1] /\ UNCHANGED <<tracker, overlap, windows>>
    BY <1>1 DEF CheckCooldown
  <2>2. caller[c].rounds + 1 \in 0..MaxRounds
    BY OrchestrationAssumption DEF CheckCooldown, CooldownInv, CooldownTypes, Caller
  <2>3. /\ caller' \in [Callers -> Caller]
        /\ \A d \in Callers : caller'[d].at = caller[d].at /\ caller'[d].window = caller[d].window
    BY <2>1, <2>2 DEF CooldownInv, CooldownTypes, Caller
  <2>4. Busy' = Busy /\ Late' = Late
    BY <2>1, <2>3 DEF Busy, Late
  <2> QED
    BY <2>1, <2>3, <2>4
       DEF CooldownInv, CooldownTypes, ChecksAreHonest, EventsWereThere, IsCoolingDown
<1>2. CASE ~IsCoolingDown
  <2> DEFINE new == [at |-> "session", window |-> Len(windows), rounds |-> caller[c].rounds + 1]
  <2>1. /\ caller' = [caller EXCEPT ![c] = new] /\ UNCHANGED <<tracker, windows>>
        /\ overlap' = Max({overlap, Cardinality(Busy')})
    BY <1>2 DEF CheckCooldown, Busy
  <2>2. caller[c].rounds + 1 \in 0..MaxRounds /\ Len(windows) \in Nat
    BY OrchestrationAssumption, LenProperties DEF CheckCooldown, CooldownInv, CooldownTypes, Caller
  <2>3. new \in Caller /\ new.at = "session" /\ new.window = Len(windows)
    BY <2>2 DEF Caller
  <2> HIDE DEF new
  <2>4. /\ caller' \in [Callers -> Caller] /\ caller'[c] = new
        /\ \A d \in Callers : d # c => caller'[d] = caller[d]
    BY <2>1, <2>3 DEF CooldownInv, CooldownTypes
  <2>5. /\ overlap' \in Nat /\ overlap <= overlap' /\ Cardinality(Busy') <= overlap'
    <3> DEFINE m == IF overlap <= Cardinality(Busy') THEN Cardinality(Busy') ELSE overlap
    <3>1. /\ overlap \in Nat /\ Cardinality(Busy') \in Nat
      BY BusyIsFinite DEF CooldownInv, CooldownTypes
    <3>2. \E x \in {overlap, Cardinality(Busy')} : \A y \in {overlap, Cardinality(Busy')} : x >= y
      <4>1. m \in {overlap, Cardinality(Busy')} /\ \A y \in {overlap, Cardinality(Busy')} : m >= y
        BY <3>1
      <4> QED
        BY <4>1
    <3>3. /\ overlap' \in {overlap, Cardinality(Busy')}
          /\ \A y \in {overlap, Cardinality(Busy')} : overlap' >= y
      BY <2>1, <3>2, Zenon DEF Max
    <3> QED
      BY <3>1, <3>3
  <2>6. Late' = Late
    <3>1. c \notin Busy
      BY DEF CheckCooldown, Busy
    <3> QED
      BY <2>1, <2>2, <2>3, <2>4, <3>1 DEF Late, Busy
  <2>7. ChecksAreHonest'
    BY <1>2, <2>1, <2>2, <2>3, <2>4 DEF CooldownInv, ChecksAreHonest, IsCoolingDown
  <2>8. EventsWereThere'
    <3>1. UNCHANGED <<tracker, windows, Late>> /\ {Cardinality(Late), overlap} \subseteq Nat
      BY <2>1, <2>6, BusyIsFinite DEF CooldownInv, CooldownTypes
    <3>2. tracker.events_in_window \in Nat
      BY DEF CooldownInv, CooldownTypes
    <3> QED
      BY <2>5, <3>1, <3>2 DEF CooldownInv, EventsWereThere
  <2> QED
    BY <2>1, <2>4, <2>5, <2>7, <2>8 DEF CooldownInv, CooldownTypes
<1> QED
  BY <1>1, <1>2

\* record_event(): an event of the window, or the first of the next one.
LEMMA RecordStep ==
    ASSUME CooldownInv, NEW c \in Callers, RecordEvent(c), UNCHANGED ms
    PROVE  CooldownInv'
<1> USE DEF CooldownInv
<1>1. /\ caller[c].at = "admitted" /\ caller' = [caller EXCEPT ![c].at = "idle"]
      /\ UNCHANGED <<ms, overlap>>
  BY DEF RecordEvent
<1>2. /\ caller' \in [Callers -> Caller] /\ caller'[c].at = "idle"
      /\ \A d \in Callers : caller'[d].window = caller[d].window
      /\ \A d \in Callers : d # c => caller'[d] = caller[d]
  BY <1>1 DEF CooldownTypes, Caller
<1>3. /\ Busy' = Busy \ {c} /\ c \in Busy
      /\ Cardinality(Busy') = Cardinality(Busy) - 1
  <2>1. Busy' = Busy \ {c} /\ c \in Busy
    BY <1>1, <1>2 DEF Busy
  <2> QED
    BY <2>1, BusyIsFinite, FS_RemoveElement
<1>4. /\ {Cardinality(Busy), Cardinality(Late), Cardinality(Busy'), Cardinality(Late')} \subseteq Nat
      /\ Len(windows) \in Nat /\ overlap \in Nat /\ ms \in Nat
      /\ tracker.events_in_window \in Nat /\ tracker.cooldown_until_ms \in Nat
  BY BusyIsFinite, LenProperties DEF CooldownTypes
<1>5. CASE IsCoolingDown
  <2>1. /\ tracker' = [tracker EXCEPT !.events_in_window = tracker.events_in_window + 1]
        /\ windows' = windows
    BY <1>5 DEF RecordEvent
  <2>2. /\ tracker' \in [cooldown_until_ms : Nat, events_in_window : Nat]
        /\ tracker'.cooldown_until_ms = tracker.cooldown_until_ms
        /\ tracker'.events_in_window = tracker.events_in_window + 1
    BY <1>4, <2>1 DEF CooldownTypes
  <2>3. windows # <<>>
    BY <1>4, <1>5 DEF EventsWereThere, IsCoolingDown
  <2>4. c \in Late /\ Late' = Late \ {c}
    <3>1. caller[c].window <= Len(windows) /\ caller[c].window # Len(windows)
      BY <1>1, <1>5 DEF ChecksAreHonest
    <3>2. caller[c].window \in Nat
      BY DEF CooldownTypes, Caller
    <3>3. c \in Late
      BY <1>3, <1>4, <3>1, <3>2 DEF Late
    <3>4. Len(windows') = Len(windows) /\ \A d \in Busy' : caller'[d].window = caller[d].window
      BY <1>2, <2>1 DEF Busy
    <3>5. \A d : d \in Late' <=> d \in Late /\ d # c
      BY <1>3, <3>4 DEF Late
    <3> QED
      BY <3>3, <3>5
  <2>5. Cardinality(Late') = Cardinality(Late) - 1
    BY <2>4, BusyIsFinite, FS_RemoveElement
  <2>6. ChecksAreHonest'
    BY <1>1, <1>2, <2>1, <2>2 DEF ChecksAreHonest, IsCoolingDown
  <2>7. EventsWereThere'
    <3>1. Cardinality(Busy') <= overlap'
      BY <1>1, <1>3, <1>4 DEF EventsWereThere
    <3>2. tracker'.cooldown_until_ms = windows'[Len(windows')] + CooldownMs
      BY <2>1, <2>2, <2>3 DEF EventsWereThere
    <3>3. tracker'.events_in_window + Cardinality(Late') + 1 <= overlap'
      BY <1>1, <1>4, <2>2, <2>3, <2>5 DEF EventsWereThere
    <3> QED
      BY <2>1, <2>3, <3>1, <3>2, <3>3 DEF EventsWereThere
  <2> QED
    BY <1>1, <1>2, <2>1, <2>2, <2>6, <2>7 DEF CooldownTypes
<1>6. CASE ~IsCoolingDown
  <2>1. /\ tracker' = [cooldown_until_ms |-> ms + CooldownMs, events_in_window |-> 0]
        /\ windows' = Append(windows, ms)
    BY <1>6 DEF RecordEvent, ResetWindow
  <2>2. /\ windows' \in Seq(Nat) /\ windows' # <<>> /\ Len(windows') = Len(windows) + 1
        /\ windows'[Len(windows')] = ms
    BY <1>4, <2>1, AppendProperties DEF CooldownTypes
  <2>3. /\ tracker' \in [cooldown_until_ms : Nat, events_in_window : Nat]
        /\ tracker'.cooldown_until_ms = ms + CooldownMs /\ tracker'.events_in_window = 0
    BY <1>4, <2>1, OrchestrationAssumption
  <2>4. \A d \in Callers : caller'[d].window < Len(windows')
    <3>1. \A d \in Callers : caller[d].window \in Nat /\ caller[d].window <= Len(windows)
      BY DEF CooldownTypes, Caller, ChecksAreHonest
    <3> QED
      BY <1>2, <1>4, <2>2, <3>1, SMTT(40)
  <2>5. Late' = Busy'
    BY <2>4 DEF Late, Busy
  <2>6. ChecksAreHonest'
    <3>1. \A d \in Callers : caller'[d].window \in Nat
      BY <1>2 DEF Caller
    <3> QED
      BY <1>4, <2>2, <2>4, <3>1 DEF ChecksAreHonest
  <2>7. EventsWereThere'
    BY <1>1, <1>3, <1>4, <2>2, <2>3, <2>5 DEF EventsWereThere
  <2> QED
    BY <1>1, <1>2, <2>2, <2>3, <2>6, <2>7 DEF CooldownTypes
<1> QED
  BY <1>5, <1>6

LEMMA CooldownStep ==
    CooldownInv /\ [CooldownNext \/ CorrelationNext]_orchestrationVars => CooldownInv'
<1> SUFFICES ASSUME CooldownInv, [CooldownNext \/ CorrelationNext]_orchestrationVars
             PROVE  CooldownInv'
  OBVIOUS
<1>1. ASSUME NEW c \in Callers, CallerStep(c) PROVE CooldownInv'
  <2>1. UNCHANGED ms
    BY <1>1 DEF CallerStep
  <2>2. CASE CheckCooldown(c)
    BY <2>1, <2>2, CheckStep
  <2>3. CASE CheckSessionWindow(c) \/ CheckEventLimit(c)
    <3>1. /\ caller[c].at # "idle" /\ UNCHANGED <<ms, tracker, overlap, windows>>
          /\ \E at \in {"idle", "limit", "admitted"} : caller' = [caller EXCEPT ![c].at = at]
      BY <2>1, <2>3 DEF CheckSessionWindow, CheckEventLimit, Refused, Past
    <3> QED
      BY <3>1, CallerMoves
  <2>4. CASE RecordEvent(c)
    BY <2>1, <2>4, RecordStep
  <2> QED
    BY <1>1, <2>2, <2>3, <2>4 DEF CallerStep
<1>2. CASE (\E last \in {MaxMs, MaxStamp} : MsTick(last)) \/ UNCHANGED <<ms, cooldownVars>>
  <2>1. ms' \in {ms, ms + 1} /\ UNCHANGED cooldownVars
    BY <1>2 DEF MsTick
  <2>2. Busy' = Busy /\ Late' = Late
    BY <2>1 DEF Busy, Late, cooldownVars
  <2>3. CooldownTypes' /\ (IsCoolingDown' => IsCoolingDown)
    BY <2>1 DEF CooldownInv, CooldownTypes, cooldownVars, IsCoolingDown
  <2> QED
    BY <2>1, <2>2, <2>3 DEF CooldownInv, cooldownVars, ChecksAreHonest, EventsWereThere
<1>3. CASE CorrelationNext
  BY <1>2, <1>3 DEF CorrelationNext, CreateEventTracker, UpdateEventState
<1> QED
  BY <1>1, <1>2, <1>3 DEF CooldownNext, orchestrationVars

\* Who is admitted in the cooldown of the last window was checked before it began.
LEMMA SpacedInv == CooldownInv => EventsAreSpaced
<1> SUFFICES ASSUME CooldownInv, NEW c \in Callers, caller[c].at = "admitted",
                    windows # <<>>, ms < Last(windows) + CooldownMs
             PROVE  caller[c].window < Len(windows)
  BY DEF EventsAreSpaced
<1>1. IsCoolingDown
  BY DEF CooldownInv, EventsWereThere, IsCoolingDown, Last
<1>2. caller[c].window <= Len(windows) /\ caller[c].window # Len(windows)
  BY <1>1 DEF CooldownInv, ChecksAreHonest
<1>3. caller[c].window \in Nat /\ Len(windows) \in Nat
  BY LenProperties DEF CooldownInv, CooldownTypes, Caller
<1> QED
  BY <1>2, <1>3

\* The events of a window and the one that began it overlapped.
LEMMA LimitInv == ASSUME MaxEvents > 0, CooldownInv PROVE LockoutNeedsOverlap
<1> SUFFICES ASSUME tracker.events_in_window >= MaxEvents PROVE overlap > MaxEvents
  BY DEF LockoutNeedsOverlap
<1>1. /\ {Cardinality(Late), overlap, tracker.events_in_window, MaxEvents} \subseteq Nat
  BY BusyIsFinite, OrchestrationAssumption DEF CooldownInv, CooldownTypes
<1> QED
  BY <1>1 DEF CooldownInv, EventsWereThere

\* Each check of the cooldown holds until the record that begins the next window:
\* two events less than cooldown_ms apart need checks that overlapped, for any
\* number of tasks (check_cooldown() and record_event() lock separately).
THEOREM CooldownsSpaceEvents == OrchestrationSpec => [][EventsAreSpaced]_orchestrationVars
BY SpacedInv, CooldownStart, CooldownStep, PTL DEF OrchestrationSpec

\* The counter of check_event_limit() reaches max_events, and refuses everything from
\* then on, only if more tasks than that were between check and record at once (a
\* limit of none refuses everything at once).
THEOREM LockoutsNeedOverlap == MaxEvents > 0 => (OrchestrationSpec => []LockoutNeedsOverlap)
<1> SUFFICES ASSUME MaxEvents > 0 PROVE OrchestrationSpec => []LockoutNeedsOverlap
  OBVIOUS
<1>1. CooldownInv => LockoutNeedsOverlap
  BY LimitInv
<1> QED
  BY <1>1, CooldownStart, CooldownStep, PTL DEF OrchestrationSpec

-----------------------------------------------------------------------------
(* The correlated events *)

TrackedEvent == [id : 1..MaxIds, created_at_ms : Nat, state : EventState]

TrackerInv ==
    /\ ms \in Nat /\ trackedEvents \in Seq(TrackedEvent)
    /\ \A i \in DOMAIN trackedEvents : trackedEvents[i].created_at_ms <= ms
    /\ TrackersAreBounded

Entries(s, places) == {s[i] : i \in places}

\* Choosing places of a sequence keeps what is there, each at a place of its own.
LEMMA AtPlacesKeeps ==
    ASSUME NEW S, NEW s, NEW kept \in SUBSET Nat, IsFiniteSet(kept),
           Entries(s, kept) \in SUBSET S, NEW less, less = AtPlaces(s, kept)
    PROVE  /\ less \in Seq(S) /\ Len(less) = Cardinality(kept)
           /\ Entries(less, DOMAIN less) = Entries(s, kept)
<1> DEFINE upTo(i) == {j \in kept : j <= i}
           place == [i \in kept |-> Cardinality(upTo(i))]
           size == Cardinality(kept)
           at(n) == CHOOSE i \in kept : Cardinality(upTo(i)) = n
<1>1. kept \subseteq Nat
  OBVIOUS
<1>2. IsFiniteSet(kept) /\ size \in Nat
  BY FS_CardinalityType
<1>3. \A i \in kept : /\ IsFiniteSet(upTo(i)) /\ upTo(i) # {}
                      /\ Cardinality(upTo(i)) \in 1..size
  <2> SUFFICES ASSUME NEW i \in kept
               PROVE  /\ IsFiniteSet(upTo(i)) /\ upTo(i) # {}
                      /\ Cardinality(upTo(i)) \in 1..size
    OBVIOUS
  <2>1. i \in upTo(i) /\ upTo(i) \in SUBSET kept
    BY <1>1
  <2>2. IsFiniteSet(upTo(i)) /\ Cardinality(upTo(i)) <= size
    BY <1>2, <2>1, FS_Subset
  <2>3. Cardinality(upTo(i)) \in Nat /\ Cardinality(upTo(i)) # 0
    BY <2>1, <2>2, FS_CardinalityType, FS_EmptySet
  <2> QED
    BY <1>2, <2>1, <2>2, <2>3
<1>4. ASSUME NEW i \in kept, NEW k \in kept, Cardinality(upTo(i)) = Cardinality(upTo(k))
      PROVE  i = k
  <2>1. ASSUME NEW a \in kept, NEW b \in kept, a < b, Cardinality(upTo(a)) = Cardinality(upTo(b))
        PROVE  FALSE
    <3>1. upTo(a) \in SUBSET upTo(b) /\ b \in upTo(b) /\ b \notin upTo(a)
      <4>1. a \in Nat /\ b \in Nat /\ \A j \in kept : j \in Nat
        BY <1>1
      <4>2. b <= b /\ ~(b <= a) /\ \A j \in kept : j <= a => j <= b
        BY <2>1, <4>1
      <4> QED
        BY <4>2
    <3>2. upTo(a) = upTo(b)
      BY <1>3, <2>1, <3>1, FS_Subset
    <3> QED
      BY <3>1, <3>2
  <2>2. i \in Nat /\ k \in Nat
    BY <1>1
  <2> QED
    BY <1>4, <2>1, <2>2
<1>5. IsFiniteSet(1..size) /\ Cardinality(1..size) = size
  BY <1>2, FS_Interval
<1> HIDE DEF upTo
<1>6. place \in Injection(kept, 1..size)
  BY <1>3, <1>4 DEF Injection, IsInjective
<1>7. place \in Surjection(kept, 1..size)
  BY <1>5, <1>6, FS_Injection
<1>8. ASSUME NEW n \in 1..size PROVE at(n) \in kept /\ Cardinality(upTo(at(n))) = n
  <2>1. PICK i \in kept : place[i] = n
    BY <1>7 DEF Surjection
  <2> QED
    BY <2>1
<1>9. AtPlaces(s, kept) = [n \in 1..size |-> s[at(n)]]
  BY DEF AtPlaces, upTo
<1>10. \A i \in kept : s[i] \in S
  BY DEF Entries
<1> HIDE DEF at, size
<1>11. [n \in 1..size |-> s[at(n)]] \in [1..size -> S]
  BY <1>8, <1>10
<1>12. AtPlaces(s, kept) \in Seq(S) /\ Len(AtPlaces(s, kept)) = size
       /\ DOMAIN AtPlaces(s, kept) = 1..size
  <2>1. AtPlaces(s, kept) \in Seq(S)
    BY <1>2, <1>9, <1>11, SeqDef
  <2>2. DOMAIN AtPlaces(s, kept) = 1..size
    BY <1>9
  <2> QED
    BY <1>2, <2>1, <2>2, LenProperties
<1>13. ASSUME NEW i \in kept
       PROVE  \E n \in DOMAIN AtPlaces(s, kept) : AtPlaces(s, kept)[n] = s[i]
  <2> DEFINE n == Cardinality(upTo(i))
  <2>1. n \in 1..size
    BY <1>3
  <2>2. at(n) = i
    BY <1>4, <1>8, <2>1
  <2>3. AtPlaces(s, kept)[n] = s[i]
    BY <1>9, <2>1, <2>2
  <2> QED
    BY <1>12, <2>1, <2>3
<1>14. \A n \in DOMAIN AtPlaces(s, kept) : \E i \in kept : AtPlaces(s, kept)[n] = s[i]
  BY <1>8, <1>9, <1>12
<1> QED
  <2>1. Entries(less, DOMAIN less) \subseteq Entries(s, kept)
    BY <1>14 DEF Entries
  <2>2. Entries(s, kept) \subseteq Entries(less, DOMAIN less)
    BY <1>13 DEF Entries
  <2>3. less \in Seq(S) /\ Len(less) = Cardinality(kept)
    BY <1>12 DEF size
  <2> QED
    BY <2>1, <2>2, <2>3

\* sorted() by creation time, stable.
LiesBefore(i, j) ==
    \/ trackedEvents[i].created_at_ms < trackedEvents[j].created_at_ms
    \/ trackedEvents[i].created_at_ms = trackedEvents[j].created_at_ms /\ i < j
Predecessors(j) == {i \in DOMAIN trackedEvents : LiesBefore(i, j)}

\* The oldest are no younger than the others, and there is one.
LEMMA OldestAreOld ==
    ASSUME TrackerInv, NEW n \in Nat
    PROVE  /\ \A i \in Oldest(n), j \in DOMAIN trackedEvents \ Oldest(n) :
                 trackedEvents[i].created_at_ms <= trackedEvents[j].created_at_ms
           /\ Oldest(n) \subseteq DOMAIN trackedEvents
           /\ n > 0 /\ trackedEvents # <<>> => Oldest(n) # {}
<1> DEFINE places == DOMAIN trackedEvents
           made(i) == trackedEvents[i].created_at_ms
<1>1. Oldest(n) = {j \in places : Cardinality(Predecessors(j)) < n}
  BY DEF Oldest, Predecessors, LiesBefore
<1>2. places = 1..Len(trackedEvents) /\ Len(trackedEvents) \in Nat /\ IsFiniteSet(places)
  BY LenProperties, FS_Interval DEF TrackerInv
<1>3. \A i \in places : i \in Nat /\ made(i) \in Nat
  <2> SUFFICES ASSUME NEW i \in places PROVE i \in Nat /\ made(i) \in Nat
    OBVIOUS
  <2>1. trackedEvents[i] \in TrackedEvent
    BY <1>2, ElementOfSeq DEF TrackerInv
  <2> QED
    BY <1>2, <2>1 DEF TrackedEvent
<1>4. ASSUME NEW i \in Oldest(n), NEW j \in places \ Oldest(n), ~(made(i) <= made(j))
      PROVE  FALSE
  <2>1. i \in places /\ j \in places /\ made(j) < made(i)
    BY <1>1, <1>3, <1>4
  <2>2. Predecessors(j) \subseteq Predecessors(i)
    <3> SUFFICES ASSUME NEW k \in places, LiesBefore(k, j) PROVE LiesBefore(k, i)
      BY DEF Predecessors
    <3>1. made(k) <= made(j)
      BY <1>3, <2>1 DEF LiesBefore
    <3>2. made(k) < made(i)
      BY <1>3, <2>1, <3>1
    <3> QED
      BY <3>2 DEF LiesBefore
  <2>3. IsFiniteSet(Predecessors(i)) /\ IsFiniteSet(Predecessors(j))
    BY <1>2, FS_Subset DEF Predecessors
  <2>4. Cardinality(Predecessors(j)) <= Cardinality(Predecessors(i))
    BY <2>2, <2>3, FS_Subset
  <2>5. Cardinality(Predecessors(j)) \in Nat /\ Cardinality(Predecessors(i)) \in Nat
    BY <2>3, FS_CardinalityType
  <2> QED
    BY <1>1, <2>1, <2>4, <2>5
<1>5. ASSUME n > 0, trackedEvents # <<>> PROVE Oldest(n) # {}
  <2> DEFINE R == OpToRel(<, Nat)
             times == {made(i) : i \in places}
  <2>1. \A x, y \in Nat : <<x, y>> \in R <=> x < y
    BY DEF OpToRel
  <2>2. times \subseteq Nat /\ times # {} /\ IsWellFoundedOn(R, Nat)
    <3>1. 1 \in places
      BY <1>2, <1>5, EmptySeq DEF TrackerInv
    <3> QED
      BY <1>3, <3>1, NatLessThanWellFounded
  <2> HIDE DEF R
  <2>3. PICK m \in times : \A y \in times : ~(<<y, m>> \in R)
    BY <2>2, WFMin
  <2> DEFINE first == {i \in places : made(i) = m}
  <2>4. first \subseteq Nat /\ first # {}
    BY <1>3, <2>3
  <2>5. PICK i \in first : \A k \in first : ~(<<k, i>> \in R)
    BY <2>2, <2>4, WFMin
  <2>6. Predecessors(i) = {}
    <3> SUFFICES ASSUME NEW k \in places, LiesBefore(k, i) PROVE FALSE
      BY DEF Predecessors
    <3>1. made(k) \in times /\ ~(made(k) < m) /\ m \in Nat
      BY <1>3, <2>1, <2>2, <2>3
    <3>2. made(k) = m /\ k < i
      BY <1>3, <2>5, <3>1 DEF LiesBefore
    <3> QED
      BY <1>3, <2>1, <2>5, <3>2
  <2> QED
    BY <1>1, <1>5, <2>5, <2>6, FS_EmptySet
<1> QED
  BY <1>1, <1>4, <1>5

\* A full manager of a capacity that has a tenth gets room.
LEMMA CleanedHasRoom ==
    ASSUME TrackerInv, MaxTrackedEvents >= 10
    PROVE  /\ Cleaned \in Seq(TrackedEvent) /\ Len(Cleaned) < MaxTrackedEvents
           /\ \A n \in DOMAIN Cleaned : \E i \in DOMAIN trackedEvents : Cleaned[n] = trackedEvents[i]
           /\ \A i, j \in DOMAIN trackedEvents :
                 /\ \A n \in DOMAIN Cleaned : Cleaned[n] # trackedEvents[i]
                 /\ \E n \in DOMAIN Cleaned : Cleaned[n] = trackedEvents[j]
                 => trackedEvents[i].created_at_ms <= trackedEvents[j].created_at_ms
<1> DEFINE few == MaxTrackedEvents \div 10
           gone == Oldest(few)
           kept == DOMAIN trackedEvents \ gone
<1>1. /\ trackedEvents \in Seq(TrackedEvent) /\ Len(trackedEvents) \in Nat
      /\ Len(trackedEvents) <= MaxTrackedEvents /\ MaxTrackedEvents \in Nat
  BY OrchestrationAssumption, LenProperties DEF TrackerInv, TrackersAreBounded
<1>2. CASE Len(trackedEvents) < MaxTrackedEvents
  <2>1. Cleaned = trackedEvents
    BY <1>2 DEF Cleaned
  <2> QED
    BY <1>1, <1>2, <2>1
<1>3. CASE ~(Len(trackedEvents) < MaxTrackedEvents)
  <2>1. Cleaned = AtPlaces(trackedEvents, kept)
    BY <1>3 DEF Cleaned, Without
  <2>2. few \in Nat /\ few > 0 /\ trackedEvents # <<>>
    BY <1>1, <1>3, EmptySeq
  <2> HIDE DEF few
  <2>3. /\ \A i \in gone, j \in kept :
              trackedEvents[i].created_at_ms <= trackedEvents[j].created_at_ms
        /\ gone \subseteq DOMAIN trackedEvents /\ gone # {}
    BY <2>2, OldestAreOld
  <2> HIDE DEF gone
  <2>4. /\ Cleaned \in Seq(TrackedEvent) /\ Len(Cleaned) = Cardinality(kept)
        /\ \A n \in DOMAIN Cleaned : \E i \in kept : Cleaned[n] = trackedEvents[i]
        /\ \A i \in kept : \E n \in DOMAIN Cleaned : Cleaned[n] = trackedEvents[i]
    <3>1. /\ kept \in SUBSET Nat /\ IsFiniteSet(kept)
          /\ Entries(trackedEvents, kept) \in SUBSET TrackedEvent
      <4>1. \A n \in Nat : IsFiniteSet(1..n)
        BY FS_Interval
      <4>2. DOMAIN trackedEvents = 1..Len(trackedEvents) /\ IsFiniteSet(DOMAIN trackedEvents)
        BY <1>1, <4>1, LenProperties
      <4>3. kept \subseteq DOMAIN trackedEvents /\ IsFiniteSet(kept)
        BY <4>2, FS_Subset
      <4>4. \A i \in DOMAIN trackedEvents : trackedEvents[i] \in TrackedEvent
        BY <1>1, <4>2, ElementOfSeq
      <4> QED
        BY <1>1, <4>2, <4>3, <4>4 DEF Entries
    <3> HIDE DEF kept
    <3>2. /\ Cleaned \in Seq(TrackedEvent) /\ Len(Cleaned) = Cardinality(kept)
          /\ Entries(Cleaned, DOMAIN Cleaned) = Entries(trackedEvents, kept)
      BY <2>1, <3>1, AtPlacesKeeps, SMTT(60)
    <3>3. ASSUME NEW n \in DOMAIN Cleaned PROVE \E i \in kept : Cleaned[n] = trackedEvents[i]
      <4>1. Cleaned[n] \in Entries(Cleaned, DOMAIN Cleaned)
        BY DEF Entries
      <4> QED
        BY <3>2, <4>1 DEF Entries
    <3>4. ASSUME NEW i \in kept PROVE \E n \in DOMAIN Cleaned : Cleaned[n] = trackedEvents[i]
      <4>1. trackedEvents[i] \in Entries(trackedEvents, kept)
        BY DEF Entries
      <4> QED
        BY <3>2, <4>1 DEF Entries
    <3> QED
      BY <3>2, <3>3, <3>4
  <2>5. Len(Cleaned) < MaxTrackedEvents
    <3>1. /\ DOMAIN trackedEvents = 1..Len(trackedEvents)
          /\ IsFiniteSet(DOMAIN trackedEvents)
          /\ Cardinality(DOMAIN trackedEvents) = Len(trackedEvents)
      <4>1. ASSUME NEW n \in Nat PROVE IsFiniteSet(1..n) /\ Cardinality(1..n) = n
        BY FS_Interval
      <4> QED
        BY <1>1, <4>1, LenProperties
    <3>2. kept \in SUBSET (DOMAIN trackedEvents) /\ kept # DOMAIN trackedEvents
      BY <2>3
    <3>3. Cardinality(kept) <= Len(trackedEvents) /\ Cardinality(kept) # Len(trackedEvents)
          /\ IsFiniteSet(kept)
      BY <3>1, <3>2, FS_Subset
    <3>4. Cardinality(kept) \in Nat
      BY <3>3, FS_CardinalityType
    <3> QED
      BY <1>1, <2>4, <3>3, <3>4
  <2>6. ASSUME NEW i \in DOMAIN trackedEvents, NEW j \in DOMAIN trackedEvents,
               \A n \in DOMAIN Cleaned : Cleaned[n] # trackedEvents[i],
               \E n \in DOMAIN Cleaned : Cleaned[n] = trackedEvents[j]
        PROVE  trackedEvents[i].created_at_ms <= trackedEvents[j].created_at_ms
    <3>1. PICK k \in kept : trackedEvents[k] = trackedEvents[j]
      BY <2>4, <2>6
    <3>2. i \in gone
      BY <2>4, <2>6
    <3>3. trackedEvents[i].created_at_ms <= trackedEvents[k].created_at_ms
      BY <2>3, <3>1, <3>2
    <3> QED
      BY <3>1, <3>3
  <2> QED
    BY <2>4, <2>5, <2>6
<1> QED
  BY <1>2, <1>3

\* What create_event_tracker() leaves: the new tracker, and what was kept but for one of
\* the same id.
LEMMA TrackerCreated ==
    ASSUME TrackerInv, MaxTrackedEvents >= 10, NEW id \in 1..MaxIds, CreateEventTracker(id)
    PROVE  TrackerInv' /\ EvictsOldest
<1> DEFINE new == [id |-> id, created_at_ms |-> ms, state |-> "pending"]
           at == {i \in DOMAIN Cleaned : Cleaned[i].id = id}
           some == CHOOSE i \in at : TRUE
<1>1. /\ Cleaned \in Seq(TrackedEvent) /\ Len(Cleaned) < MaxTrackedEvents
      /\ Len(Cleaned) \in Nat /\ DOMAIN Cleaned = 1..Len(Cleaned)
      /\ \A n \in DOMAIN Cleaned : \E i \in DOMAIN trackedEvents : Cleaned[n] = trackedEvents[i]
  BY CleanedHasRoom, LenProperties
<1>2. new \in TrackedEvent /\ new.id = id /\ new.created_at_ms = ms
  BY DEF TrackerInv, TrackedEvent, EventState
<1>3. /\ ms' = ms
      /\ trackedEvents' = IF at = {} THEN Append(Cleaned, new) ELSE [Cleaned EXCEPT ![some] = new]
  BY DEF CreateEventTracker
<1> HIDE DEF new
<1>4. /\ trackedEvents' \in Seq(TrackedEvent) /\ Len(trackedEvents') <= MaxTrackedEvents
      /\ \A k \in DOMAIN trackedEvents' :
            trackedEvents'[k] = new \/ (k \in DOMAIN Cleaned /\ trackedEvents'[k] = Cleaned[k])
      /\ \A n \in DOMAIN Cleaned : /\ n \in DOMAIN trackedEvents'
                                   /\ trackedEvents'[n].id = Cleaned[n].id
  <2>1. CASE at = {}
    <3>1. trackedEvents' = Append(Cleaned, new)
      BY <1>3, <2>1
    <3>2. /\ trackedEvents' \in Seq(TrackedEvent) /\ Len(trackedEvents') = Len(Cleaned) + 1
          /\ DOMAIN trackedEvents' = 1..(Len(Cleaned) + 1)
          /\ trackedEvents'[Len(Cleaned) + 1] = new
          /\ \A n \in DOMAIN Cleaned : trackedEvents'[n] = Cleaned[n]
      BY <1>1, <1>2, <3>1, AppendProperties
    <3> QED
      BY <1>1, <3>2, OrchestrationAssumption
  <2>2. CASE at # {}
    <3>1. some \in DOMAIN Cleaned /\ Cleaned[some].id = id
      BY <2>2
    <3>2. trackedEvents' = [Cleaned EXCEPT ![some] = new]
      BY <1>3, <2>2
    <3> HIDE DEF some
    <3>3. trackedEvents' \in Seq(TrackedEvent) /\ Len(trackedEvents') = Len(Cleaned)
      BY <1>1, <1>2, <3>1, <3>2, ExceptSeq
    <3> QED
      BY <1>1, <1>2, <3>1, <3>2, <3>3, OrchestrationAssumption
  <2> QED
    BY <2>1, <2>2
<1>5. TrackerInv'
  <2>1. \A k \in DOMAIN trackedEvents' : trackedEvents'[k].created_at_ms <= ms
    <3> SUFFICES ASSUME NEW k \in DOMAIN trackedEvents'
                 PROVE  trackedEvents'[k].created_at_ms <= ms
      OBVIOUS
    <3>1. CASE trackedEvents'[k] = new
      BY <1>2, <3>1 DEF TrackerInv
    <3>2. CASE k \in DOMAIN Cleaned /\ trackedEvents'[k] = Cleaned[k]
      <4>1. PICK i \in DOMAIN trackedEvents : Cleaned[k] = trackedEvents[i]
        BY <1>1, <3>2
      <4> QED
        BY <3>2, <4>1 DEF TrackerInv
    <3> QED
      BY <1>4, <3>1, <3>2
  <2> QED
    BY <1>3, <1>4, <2>1 DEF TrackerInv, TrackersAreBounded
<1>6. ASSUME NEW i \in DOMAIN trackedEvents, NEW j \in DOMAIN trackedEvents,
             \A k \in DOMAIN trackedEvents' : trackedEvents'[k].id # trackedEvents[i].id,
             NEW k \in DOMAIN trackedEvents', trackedEvents'[k] = trackedEvents[j]
      PROVE  trackedEvents[i].created_at_ms <= trackedEvents[j].created_at_ms
  <2>1. CASE trackedEvents'[k] = new
    BY <1>2, <1>6, <2>1 DEF TrackerInv
  <2>2. CASE k \in DOMAIN Cleaned /\ trackedEvents'[k] = Cleaned[k]
    <3>1. \A n \in DOMAIN Cleaned : Cleaned[n] # trackedEvents[i]
      BY <1>4, <1>6
    <3>2. \E n \in DOMAIN Cleaned : Cleaned[n] = trackedEvents[j]
      BY <1>6, <2>2
    <3> QED
      BY <3>1, <3>2, CleanedHasRoom
  <2> QED
    BY <1>4, <2>1, <2>2
<1>7. EvictsOldest
  BY <1>6 DEF EvictsOldest
<1> QED
  BY <1>5, <1>7

LEMMA TrackerStep ==
    ASSUME TrackerInv, MaxTrackedEvents >= 10, [CooldownNext \/ CorrelationNext]_orchestrationVars
    PROVE  TrackerInv' /\ EvictsOldest
<1>1. CASE UNCHANGED trackedEvents /\ ms' \in {ms, ms + 1}
  <2>1. \A i \in DOMAIN trackedEvents : trackedEvents[i].created_at_ms \in Nat
    <3> SUFFICES ASSUME NEW i \in DOMAIN trackedEvents
                 PROVE  trackedEvents[i].created_at_ms \in Nat
      OBVIOUS
    <3>1. trackedEvents[i] \in TrackedEvent
      BY ElementOfSeq, LenProperties DEF TrackerInv
    <3> QED
      BY <3>1 DEF TrackedEvent
  <2>2. TrackerInv'
    BY <1>1, <2>1 DEF TrackerInv, TrackersAreBounded
  <2>3. EvictsOldest
    BY <1>1 DEF EvictsOldest
  <2> QED
    BY <2>2, <2>3
<1>2. CASE \E id \in 1..MaxIds : CreateEventTracker(id)
  BY <1>2, TrackerCreated
<1>3. ASSUME NEW state \in {"deferred", "processed"}, UpdateEventState(1, state)
      PROVE  TrackerInv' /\ EvictsOldest
  <2>1. PICK i \in DOMAIN trackedEvents :
           trackedEvents' = [trackedEvents EXCEPT ![i].state = state]
    BY <1>3 DEF UpdateEventState
  <2>2. ms' = ms
    BY <1>3 DEF UpdateEventState
  <2> DEFINE new == [trackedEvents[i] EXCEPT !.state = state]
  <2>3. trackedEvents[i] \in TrackedEvent
    BY ElementOfSeq, LenProperties DEF TrackerInv
  <2>4. /\ new \in TrackedEvent /\ new.id = trackedEvents[i].id
        /\ new.created_at_ms = trackedEvents[i].created_at_ms
    BY <2>3 DEF TrackedEvent, EventState
  <2>5. trackedEvents' = [trackedEvents EXCEPT ![i] = new]
    BY <2>1
  <2> HIDE DEF new
  <2>6. trackedEvents' \in Seq(TrackedEvent) /\ Len(trackedEvents') = Len(trackedEvents)
    BY <2>4, <2>5, ExceptSeq, LenProperties DEF TrackerInv
  <2>7. /\ DOMAIN trackedEvents' = DOMAIN trackedEvents
        /\ \A k \in DOMAIN trackedEvents :
              /\ trackedEvents'[k].id = trackedEvents[k].id
              /\ trackedEvents'[k].created_at_ms = trackedEvents[k].created_at_ms
    BY <2>4, <2>5
  <2>8. TrackerInv'
    BY <2>2, <2>6, <2>7 DEF TrackerInv, TrackersAreBounded
  <2>9. EvictsOldest
    BY <2>7 DEF EvictsOldest
  <2> QED
    BY <2>8, <2>9
<1>4. CASE \E last \in {MaxMs, MaxStamp} : MsTick(last)
  BY <1>1, <1>4 DEF MsTick
<1>5. CASE (\E c \in Callers : CallerStep(c)) \/ UNCHANGED orchestrationVars
  BY <1>1, <1>5 DEF CallerStep, orchestrationVars
<1> QED
  BY <1>2, <1>3, <1>4, <1>5 DEF CooldownNext, CorrelationNext

\* Cooldowns and trackers keep their promises together, for any number of tasks and ids:
\* checked one after another, no two events share a cooldown; the limit locks up only
\* after an overlap of more than max_events tasks; and a manager whose capacity has a
\* tenth neither outgrows it nor discards a tracker younger than one that stays.
THEOREM ManagersHold ==
    MaxEvents > 0 /\ MaxTrackedEvents >= 10 => (OrchestrationSpec => OrchestrationHolds)
<1> SUFFICES ASSUME MaxEvents > 0, MaxTrackedEvents >= 10
             PROVE  OrchestrationSpec => OrchestrationHolds
  OBVIOUS
<1>1. OrchestrationInit => TrackerInv
  BY EmptySeq, OrchestrationAssumption DEF OrchestrationInit, TrackerInv, TrackersAreBounded
<1>2. TrackerInv /\ [CooldownNext \/ CorrelationNext]_orchestrationVars
         => TrackerInv' /\ EvictsOldest
  BY TrackerStep
<1>3. (CooldownInv => LockoutNeedsOverlap) /\ (TrackerInv => TrackersAreBounded)
  BY LimitInv DEF TrackerInv
<1> QED
  BY <1>1, <1>2, <1>3, SpacedInv, CooldownStart, CooldownStep, PTL
  DEF OrchestrationSpec, OrchestrationHolds

-----------------------------------------------------------------------------
(* Step graphs *)

StepRunnerSpec == StepRunnerInit /\ [][StepRunnerNext]_planRun

StepNames == {StartStep} \cup UNION {DOMAIN StepPlans[p] : p \in DOMAIN StepPlans}

Run ==
    [plan : DOMAIN StepPlans,
     at : {"new", "ready", "running", "resting", "publishing", "done", "raised"},
     current : StepNames, attempt : Nat, results : SUBSET StepNames, letters : Nat,
     entered : SUBSET StepNames, exhausted : SUBSET StepNames]

\* A failure without on_failure is being published, or has been and ended the plan; any
\* other was taken over, or its successor is next, or that does not exist.
Answers(q) ==
    LET onFailure(s) == StepPlans[q.plan][s].on_failure
        unhandled == \E s \in q.exhausted : onFailure(s) = {}
    IN  /\ q.letters = IF q.at = "done" /\ unhandled THEN 1 ELSE 0
        /\ unhandled => q.at \in {"publishing", "done"}
        /\ q.at = "publishing" => unhandled
        /\ \A s \in q.exhausted : onFailure(s) # {} =>
              \/ onFailure(s) \cap q.entered # {}
              \/ ~(onFailure(s) \subseteq DOMAIN StepPlans[q.plan])
              \/ q.at = "ready" /\ q.current \in onFailure(s)

StepRunnerInv ==
    planRun \in [PlanRuns -> Run] /\ \A r \in PlanRuns : Answers(planRun[r])

\* The plan goes on with one of the next steps if the plan has them, or ends.
LEMMA Transits ==
    ASSUME NEW r \in PlanRuns, planRun[r] \in Run, NEW q \in Run, q.plan = planRun[r].plan,
           NEW next
    PROVE  LET t == Transition(q, r, next)
           IN  /\ t \in Run /\ t.plan = q.plan /\ t.letters = q.letters
               /\ t.entered = q.entered /\ t.exhausted = q.exhausted
               /\ \/ t.at = "ready" /\ t.current \in next
                  \/ t.at = "done" /\ (next = {} \/ ~(next \subseteq DOMAIN StepPlans[q.plan]))
<1> DEFINE some == CHOOSE s \in next : TRUE
<1>1. CASE next \subseteq DOMAIN Steps(r) /\ next # {}
  <2>1. some \in next
    BY <1>1
  <2>2. some \in StepNames
    BY <1>1, <2>1 DEF StepNames, Steps, Run
  <2>3. Transition(q, r, next) = [q EXCEPT !.at = "ready", !.attempt = 0, !.current = some]
    BY <1>1 DEF Transition
  <2> DEFINE t == [q EXCEPT !.at = "ready", !.attempt = 0, !.current = some]
  <2> HIDE DEF some
  <2>4. t \in Run
    BY <2>2 DEF Run
  <2>5. /\ t.plan = q.plan /\ t.letters = q.letters /\ t.entered = q.entered
        /\ t.exhausted = q.exhausted /\ t.at = "ready" /\ t.current = some
    BY DEF Run
  <2> HIDE DEF t
  <2> QED
    BY <2>1, <2>3, <2>4, <2>5 DEF t
<1>2. CASE ~(next \subseteq DOMAIN Steps(r) /\ next # {})
  <2>1. Transition(q, r, next) = [q EXCEPT !.at = "done"]
    BY <1>2 DEF Transition
  <2> QED
    BY <1>2, <2>1 DEF Run, Steps
<1> QED
  BY <1>1, <1>2

LEMMA StepRunnerStart == StepRunnerInit => StepRunnerInv
<1> SUFFICES ASSUME StepRunnerInit PROVE StepRunnerInv
  OBVIOUS
<1>1. ASSUME NEW p \in DOMAIN StepPlans
      PROVE  LET q == [plan |-> p, at |-> "new", current |-> StartStep, attempt |-> 0,
                       results |-> {}, letters |-> 0, entered |-> {}, exhausted |-> {}]
             IN  q \in Run /\ Answers(q)
  BY DEF Run, StepNames, Answers
<1> QED
  BY <1>1 DEF StepRunnerInit, StepRunnerInv

\* What one step makes of its run.
LEMMA RunAnswers ==
    ASSUME StepRunnerInv, NEW r \in PlanRuns, PlanRunStep(r)
    PROVE  \E q \in Run : Answers(q) /\ planRun' = [planRun EXCEPT ![r] = q]
<1> DEFINE p == planRun[r]
<1>1. p \in Run /\ Answers(p)
  BY DEF StepRunnerInv
<1> HIDE DEF p
<1>2. ASSUME NEW q \in Run, q.plan = p.plan, NEW next, p.at \notin {"publishing", "done"},
             q.letters = p.letters, q.entered = p.entered,
             \/ q.exhausted = p.exhausted /\ p.at # "ready"
             \/ /\ q.exhausted = p.exhausted \cup {p.current} /\ p.at # "ready"
                /\ next = StepPlans[p.plan][p.current].on_failure /\ next # {}
      PROVE  Transition(q, r, next) \in Run /\ Answers(Transition(q, r, next))
  <2> DEFINE t == Transition(q, r, next)
  <2>1. /\ t \in Run /\ t.plan = p.plan /\ t.letters = p.letters
        /\ t.entered = p.entered /\ t.exhausted = q.exhausted
        /\ \/ t.at = "ready" /\ t.current \in next
           \/ t.at = "done" /\ (next = {} \/ ~(next \subseteq DOMAIN StepPlans[p.plan]))
    BY <1>1, <1>2, Transits DEF p
  <2> HIDE DEF t
  <2>2. Answers(t)
    BY <1>1, <1>2, <2>1 DEF Answers
  <2> QED
    BY <2>1, <2>2 DEF t
<1>3. CASE RunPlan(r)
  <2>1. CASE DOMAIN Steps(r) = {}
    <3> DEFINE q == [p EXCEPT !.at = "raised"]
    <3>1. /\ q \in Run /\ q.at = "raised" /\ q.plan = p.plan /\ q.letters = p.letters
          /\ q.entered = p.entered /\ q.exhausted = p.exhausted
      BY <1>1 DEF Run
    <3>2. p.at = "new" /\ planRun' = [planRun EXCEPT ![r] = q]
      BY <1>3, <2>1 DEF RunPlan, p
    <3> HIDE DEF q
    <3>3. Answers(q)
      BY <1>1, <3>1, <3>2 DEF Answers
    <3> QED
      BY <3>1, <3>2, <3>3
  <2>2. CASE DOMAIN Steps(r) # {}
    <3>1. p.at = "new" /\ planRun' = [planRun EXCEPT ![r] = Transition(p, r, {StartStep})]
      BY <1>3, <2>2 DEF RunPlan, p
    <3> QED
      BY <1>1, <1>2, <3>1
  <2> QED
    BY <2>1, <2>2
<1>4. CASE Acquire(r)
  <2> DEFINE q == [p EXCEPT !.at = "running", !.attempt = p.attempt + 1,
                            !.entered = p.entered \cup {p.current}]
  <2>1. /\ q \in Run /\ q.at = "running" /\ q.plan = p.plan /\ q.letters = p.letters
        /\ q.entered = p.entered \cup {p.current} /\ q.exhausted = p.exhausted
    <3>1. p.attempt + 1 \in Nat /\ p.entered \cup {p.current} \in SUBSET StepNames
      BY <1>1 DEF Run
    <3>2. q \in Run
      BY <1>1, <3>1 DEF Run
    <3> QED
      BY <1>1, <3>2 DEF Run
  <2>2. p.at = "ready" /\ planRun' = [planRun EXCEPT ![r] = q]
    BY <1>1, <1>4 DEF Acquire, p, Run, StepRunnerInv
  <2> HIDE DEF q
  <2>3. Answers(q)
    BY <1>1, <2>1, <2>2 DEF Answers
  <2> QED
    BY <2>1, <2>2, <2>3
<1>5. CASE StepSucceeds(r)
  <2> DEFINE q == [p EXCEPT !.results = p.results \cup {p.current}]
             next == CurrentStep(r).on_success
  <2>1. /\ q \in Run /\ q.plan = p.plan /\ q.letters = p.letters
        /\ q.entered = p.entered /\ q.exhausted = p.exhausted
    BY <1>1 DEF Run
  <2>2. p.at = "running" /\ planRun' = [planRun EXCEPT ![r] = Transition(q, r, next)]
    <3>1. q = [planRun[r] EXCEPT !.results = planRun[r].results \cup {planRun[r].current}]
      BY DEF p
    <3>2. next = CurrentStep(r).on_success
      OBVIOUS
    <3> HIDE DEF q, next
    <3> QED
      BY <1>5, <3>1, <3>2 DEF StepSucceeds, p
  <2> HIDE DEF q, next
  <2> QED
    BY <1>2, <2>1, <2>2
<1>6. CASE StepFails(r)
  <2> DEFINE f == [p EXCEPT !.exhausted = p.exhausted \cup {p.current}]
             next == StepPlans[p.plan][p.current].on_failure
  <2>1. /\ f \in Run /\ f.plan = p.plan /\ f.letters = p.letters /\ f.at = p.at
        /\ f.entered = p.entered /\ f.exhausted = p.exhausted \cup {p.current}
    BY <1>1, SMTT(40) DEF Run
  <2>2. /\ p.at = "running"
        /\ \/ planRun' = [planRun EXCEPT ![r] = [p EXCEPT !.at = "resting"]]
           \/ next = {} /\ planRun' = [planRun EXCEPT ![r] = [f EXCEPT !.at = "publishing"]]
           \/ next # {} /\ planRun' = [planRun EXCEPT ![r] = Transition(f, r, next)]
    BY <1>6, ZenonT(30) DEF StepFails, p, CurrentStep, Steps
  <2> HIDE DEF f
  <2>3. LET q == [p EXCEPT !.at = "resting"] IN q \in Run /\ Answers(q)
    <3> DEFINE q == [p EXCEPT !.at = "resting"]
    <3>1. /\ q \in Run /\ q.at = "resting" /\ q.plan = p.plan /\ q.letters = p.letters
          /\ q.entered = p.entered /\ q.exhausted = p.exhausted
      BY <1>1 DEF Run
    <3> HIDE DEF q
    <3>2. Answers(q)
      BY <1>1, <2>2, <3>1 DEF Answers
    <3> QED
      BY <3>1, <3>2 DEF q
  <2>4. ASSUME next = {} PROVE LET q == [f EXCEPT !.at = "publishing"] IN q \in Run /\ Answers(q)
    <3> DEFINE q == [f EXCEPT !.at = "publishing"]
    <3>1. /\ q \in Run /\ q.at = "publishing" /\ q.plan = p.plan /\ q.letters = p.letters
          /\ q.entered = p.entered /\ q.exhausted = p.exhausted \cup {p.current}
      BY <2>1 DEF Run
    <3> HIDE DEF q
    <3>2. Answers(q)
      BY <1>1, <2>2, <2>4, <3>1 DEF Answers
    <3> QED
      BY <3>1, <3>2 DEF q
  <2>5. ASSUME next # {} PROVE Transition(f, r, next) \in Run /\ Answers(Transition(f, r, next))
    BY <1>2, <2>1, <2>2, <2>5
  <2> QED
    BY <2>2, <2>3, <2>4, <2>5
<1>7. CASE RetryDelayOver(r) \/ HandleFailureToDlq(r)
  <2> DEFINE q(at, n) == [p EXCEPT !.at = at, !.letters = n]
  <2>1. ASSUME NEW at \in {"ready", "done"}, NEW n \in Nat
        PROVE  /\ q(at, n) \in Run /\ q(at, n).at = at /\ q(at, n).plan = p.plan
               /\ q(at, n).letters = n /\ q(at, n).current = p.current
               /\ q(at, n).entered = p.entered /\ q(at, n).exhausted = p.exhausted
    BY <1>1 DEF Run
  <2>2. \/ p.at = "resting" /\ planRun' = [planRun EXCEPT ![r] = q("ready", p.letters)]
        \/ p.at = "publishing" /\ planRun' = [planRun EXCEPT ![r] = q("done", p.letters + 1)]
    BY <1>1, <1>7 DEF RetryDelayOver, HandleFailureToDlq, p, Run, StepRunnerInv
  <2>3. p.letters \in Nat
    BY <1>1 DEF Run
  <2> HIDE DEF q
  <2>4. p.at = "resting" => Answers(q("ready", p.letters))
    BY <1>1, <2>1, <2>3 DEF Answers
  <2>5. p.at = "publishing" => Answers(q("done", p.letters + 1))
    BY <1>1, <2>1, <2>3 DEF Answers
  <2> QED
    BY <2>1, <2>2, <2>3, <2>4, <2>5
<1> QED
  BY <1>3, <1>4, <1>5, <1>6, <1>7 DEF PlanRunStep

LEMMA RunsStep == StepRunnerInv /\ [StepRunnerNext]_planRun => StepRunnerInv'
<1> SUFFICES ASSUME StepRunnerInv, [StepRunnerNext]_planRun PROVE StepRunnerInv'
  OBVIOUS
<1>1. ASSUME NEW r \in PlanRuns, PlanRunStep(r) PROVE StepRunnerInv'
  <2>1. PICK q \in Run : Answers(q) /\ planRun' = [planRun EXCEPT ![r] = q]
    BY <1>1, RunAnswers
  <2> QED
    BY <2>1 DEF StepRunnerInv
<1> QED
  BY <1>1 DEF StepRunnerNext, StepRunnerInv

\* Whatever runs share the semaphore and whatever their steps do: when a plan has ended,
\* a failure that used up its retries was taken over by on_failure, or sent to the dead
\* letters exactly once (run_plan(), _handle_failure_to_dlq()).
THEOREM EndedPlansAnswer == StepRunnerSpec => []FailuresAreAnswered
<1>1. StepRunnerInv /\ [StepRunnerNext]_planRun => StepRunnerInv'
  BY RunsStep
<1>2. StepRunnerInv => FailuresAreAnswered
  <2> SUFFICES ASSUME StepRunnerInv, NEW r \in PlanRuns, planRun[r].at = "done"
               PROVE  /\ \A s \in planRun[r].exhausted :
                            \/ Steps(r)[s].on_failure \cap planRun[r].entered # {}
                            \/ /\ Steps(r)[s].on_failure # {}
                               /\ ~(Steps(r)[s].on_failure \subseteq DOMAIN Steps(r))
                            \/ Steps(r)[s].on_failure = {} /\ planRun[r].letters = 1
                      /\ (planRun[r].letters = 1)
                            <=> \E s \in planRun[r].exhausted : Steps(r)[s].on_failure = {}
    BY DEF FailuresAreAnswered
  <2>1. Answers(planRun[r])
    BY DEF StepRunnerInv
  <2> QED
    BY <2>1 DEF Answers, Steps
<1> QED
  BY <1>1, <1>2, StepRunnerStart, PTL DEF StepRunnerSpec

-----------------------------------------------------------------------------
(* What process_decision() computes of a decision *)

RoutingSpec == DecisionRoutingInit /\ [][DecisionRoutingNext]_routingVars

RoutedDecisions == {NormalizeDecision(raw, time) : raw \in RawDecisions, time \in DecisionTimes}
Keyed == {[decision |-> d, key |-> ComputeDedupKey(d)] : d \in RoutedDecisions}

\* The larger and the smaller of two numbers.
LEMMA MaxOfTwo ==
    ASSUME NEW a \in Int, NEW b \in Int
    PROVE  /\ Max({a, b}) = IF a >= b THEN a ELSE b
           /\ Min({a, b}) = IF a <= b THEN a ELSE b
<1>1. \A x \in {a, b} : (\A y \in {a, b} : x >= y) <=> x = IF a >= b THEN a ELSE b
  OBVIOUS
<1>2. \A x \in {a, b} : (\A y \in {a, b} : x <= y) <=> x = IF a <= b THEN a ELSE b
  OBVIOUS
<1>3. Max({a, b}) = IF a >= b THEN a ELSE b
  <2>1. \E x \in {a, b} : \A y \in {a, b} : x >= y
    BY <1>1
  <2>2. Max({a, b}) \in {a, b} /\ \A y \in {a, b} : Max({a, b}) >= y
    BY <2>1, Zenon DEF Max
  <2> QED
    BY <1>1, <2>2
<1>4. Min({a, b}) = IF a <= b THEN a ELSE b
  <2>1. \E x \in {a, b} : \A y \in {a, b} : x <= y
    BY <1>2
  <2>2. Min({a, b}) \in {a, b} /\ \A y \in {a, b} : Min({a, b}) <= y
    BY <2>1, Zenon DEF Min
  <2> QED
    BY <1>2, <2>2
<1> QED
  BY <1>3, <1>4

\* The confidence of a decision is a number, clamped or 0, and its time the one given.
LEMMA DecisionsAreNormal ==
    ASSUME NEW d \in RoutedDecisions
    PROVE  /\ d.confidence \in Int /\ d.confidence \in 0..1000
           /\ d.timestamp_ms \in Int
<1>1. PICK raw \in RawDecisions, time \in DecisionTimes : d = NormalizeDecision(raw, time)
  BY DEF RoutedDecisions
<1> DEFINE c == raw.confidence
           clamped == IF c = {} THEN 0 ELSE Max({0, Min({1000, CHOOSE x \in c : TRUE})})
<1>2. clamped \in 0..1000
  <2>1. CASE c # {}
    <3> DEFINE x == CHOOSE y \in c : TRUE
               m == Min({1000, x})
    <3>1. x \in Int
      BY <2>1, DecisionRoutingAssumption
    <3> HIDE DEF x
    <3>2. m \in Int /\ m <= 1000
      BY <3>1, MaxOfTwo
    <3> HIDE DEF m
    <3>3. Max({0, m}) = IF 0 >= m THEN 0 ELSE m
      BY <3>2, MaxOfTwo
    <3>4. Max({0, m}) \in 0..1000
      BY <3>2, <3>3
    <3>5. clamped = Max({0, m})
      BY <2>1, Zenon DEF m, x
    <3> HIDE DEF clamped
    <3> QED
      BY <3>4, <3>5
  <2>2. CASE c = {}
    <3>1. clamped = 0
      BY <2>2, Zenon
    <3> HIDE DEF clamped
    <3> QED
      BY <3>1
  <2> QED
    BY <2>1, <2>2, Zenon
<1>3. d = Normal(raw, time, clamped)
  BY <1>1 DEF NormalizeDecision
<1> HIDE DEF clamped
<1>4. clamped \in Int /\ clamped \in 0..1000
  BY <1>2
<1>5. d.confidence = clamped /\ d.timestamp_ms = time
  BY <1>3 DEF Normal
<1>6. time \in Int
  BY DecisionRoutingAssumption
<1> QED
  BY <1>4, <1>5, <1>6, ZenonT(30)

\* Times in one bucket are less than its width apart.
LEMMA BucketsAreNarrow ==
    ASSUME NEW x \in Int, NEW y \in Int, NEW w \in Nat, w > 0, x \div w = y \div w
    PROVE  x - y \in (1 - w)..(w - 1)
<1>1. \A n \in Int : w * (n \div w) <= n /\ n < w * (n \div w) + w /\ w * (n \div w) \in Int
  OBVIOUS
<1> QED
  BY <1>1

\* Confidences of one percentage are within a per cent.
LEMMA ConfidencesAreClose ==
    ASSUME NEW x \in Int, NEW y \in Int, Percent(x) = Percent(y)
    PROVE  x - y \in -10..10
<1>1. Percent(x) \in Int /\ 10 * Percent(x) - 5 <= x /\ x <= 10 * Percent(x) + 5
  BY DEF Percent
<1>2. Percent(y) \in Int /\ 10 * Percent(y) - 5 <= y /\ y <= 10 * Percent(y) + 5
  BY DEF Percent
<1>3. PICK q \in Int : q = Percent(x)
  BY <1>1
<1>4. 10 * q - 5 <= x /\ x <= 10 * q + 5
  BY <1>1, <1>3
<1>5. 10 * q - 5 <= y /\ y <= 10 * q + 5
  BY <1>2, <1>3
<1> QED
  BY <1>4, <1>5

\* Two decisions carry one id, or are close to one another.
SameOrClose(a, b) ==
    \/ a.idempotency_key # {} /\ a.idempotency_key = b.idempotency_key
    \/ a.signal_id # {} /\ a.signal_id = b.signal_id
    \/ /\ a.symbol = b.symbol /\ a.recommendation = b.recommendation
       /\ a.confidence - b.confidence \in -10..10
       /\ (a.timestamp_ms \div 1000) - (b.timestamp_ms \div 1000)
            \in (1 - Max({1, DedupWindow}))..(Max({1, DedupWindow}) - 1)

\* Only such decisions share a key.
LEMMA KeysAreFaithful ==
    ASSUME NEW a \in RoutedDecisions, NEW b \in RoutedDecisions, ComputeDedupKey(a) = ComputeDedupKey(b)
    PROVE  SameOrClose(a, b)
<1> DEFINE w == Max({1, DedupWindow})
           bucket(d) == (d.timestamp_ms \div 1000) \div w
           plain(d) == d.idempotency_key = {} /\ d.signal_id = {}
           norm(d) == <<"norm", d.symbol, d.recommendation, Percent(d.confidence), bucket(d)>>
<1>1. \A d \in RoutedDecisions : ComputeDedupKey(d) =
         IF d.idempotency_key # {} THEN <<"idem", d.idempotency_key>>
         ELSE IF d.signal_id # {} THEN <<"sig", d.signal_id>> ELSE norm(d)
  BY DEF ComputeDedupKey
<1> HIDE DEF bucket
<1>2. CASE a.idempotency_key # {} \/ b.idempotency_key # {}
  BY <1>1, <1>2 DEF SameOrClose
<1>3. CASE a.idempotency_key = {} /\ b.idempotency_key = {} /\ (a.signal_id # {} \/ b.signal_id # {})
  BY <1>1, <1>3 DEF SameOrClose
<1>4. CASE plain(a) /\ plain(b)
  <2>1. norm(a) = norm(b)
    BY <1>1, <1>4
  <2>2. /\ a.symbol = b.symbol /\ a.recommendation = b.recommendation
        /\ Percent(a.confidence) = Percent(b.confidence) /\ bucket(a) = bucket(b)
    BY <2>1
  <2>3. a.confidence - b.confidence \in -10..10
    <3>1. a.confidence \in Int /\ b.confidence \in Int
      BY DecisionsAreNormal
    <3>2. PICK x \in Int, y \in Int : x = a.confidence /\ y = b.confidence
      BY <3>1
    <3>3. Percent(x) = Percent(y)
      BY <2>2, <3>2
    <3>4. x - y \in -10..10
      BY <3>3, ConfidencesAreClose
    <3> QED
      BY <3>2, <3>4
  <2>4. (a.timestamp_ms \div 1000) - (b.timestamp_ms \div 1000) \in (1 - w)..(w - 1)
    <3>1. w \in Nat /\ w > 0
      <4>1. DedupWindow \in Int
        BY DecisionRoutingAssumption
      <4>2. \E x \in {1, DedupWindow} : \A y \in {1, DedupWindow} : x >= y
        BY <4>1
      <4>3. w \in {1, DedupWindow} /\ w >= 1
        BY <4>2, Zenon DEF Max
      <4> QED
        BY <4>1, <4>3
    <3> HIDE DEF w
    <3>2. (a.timestamp_ms \div 1000) \in Int /\ (b.timestamp_ms \div 1000) \in Int
      BY DecisionsAreNormal
    <3> QED
      BY <2>2, <3>1, <3>2, BucketsAreNarrow DEF bucket
  <2> QED
    BY <2>2, <2>3, <2>4 DEF SameOrClose
<1> QED
  BY <1>2, <1>3, <1>4

\* Some number of a set of natural numbers is the least.
LEMMA LeastOfSome ==
    ASSUME NEW T, T \subseteq Nat, T # {}
    PROVE  \E n \in T : \A k \in T : n <= k
<1> DEFINE R == OpToRel(<, Nat)
<1>1. \A x, y \in Nat : <<x, y>> \in R <=> x < y
  BY DEF OpToRel
<1>2. IsWellFoundedOn(R, Nat)
  BY NatLessThanWellFounded
<1> HIDE DEF R
<1>3. PICK n \in T : \A k \in T : ~(<<k, n>> \in R)
  BY <1>2, WFMin
<1>4. ASSUME NEW k \in T PROVE n <= k
  <2>1. n \in Nat /\ k \in Nat /\ ~(<<k, n>> \in R)
    BY <1>3
  <2>2. ~(k < n)
    BY <1>1, <2>1
  <2> QED
    BY <2>1, <2>2
<1> QED
  BY <1>4

\* A set of places has a first and a last one.
LEMMA FirstAndLast ==
    ASSUME NEW n \in Nat, NEW T, T \subseteq 1..n, T # {}
    PROVE  Min(T) \in T /\ Max(T) \in T
<1>1. PICK m \in T : \A k \in T : m <= k
  <2>1. T \subseteq Nat
    OBVIOUS
  <2> QED
    BY <2>1, LeastOfSome
<1>2. Min(T) \in T
  BY <1>1, Zenon DEF Min
<1> DEFINE D == {n - t : t \in T}
<1>3. PICK d \in D : \A k \in D : d <= k
  <2>1. D \subseteq Nat /\ D # {}
    OBVIOUS
  <2> HIDE DEF D
  <2> QED
    BY <2>1, LeastOfSome
<1>4. PICK x \in T : d = n - x
  BY <1>3
<1>5. \A t \in T : x >= t
  <2> SUFFICES ASSUME NEW t \in T PROVE x >= t
    OBVIOUS
  <2>1. n - x <= n - t
    BY <1>3, <1>4
  <2>2. x \in Int /\ t \in Int
    OBVIOUS
  <2> QED
    BY <2>1, <2>2
<1>6. Max(T) \in T
  BY <1>5, Zenon DEF Max
<1> QED
  BY <1>2, <1>6

\* All of a sequence, in its order, is the sequence.
LEMMA AllPlaces ==
    ASSUME NEW S, NEW s \in Seq(S)
    PROVE  AtPlaces(s, DOMAIN s) = s
<1> DEFINE size == Len(s)
           rank(i) == Cardinality({j \in 1..size : j <= i})
<1>1. size \in Nat /\ DOMAIN s = 1..size /\ s = [i \in 1..size |-> s[i]]
  OBVIOUS
<1> HIDE DEF size
<1>0. ASSUME NEW n \in Nat PROVE Cardinality(1..n) = n
  <2>1. Cardinality(1..n) = IF 1 > n THEN 0 ELSE n - 1 + 1
    BY FS_Interval
  <2> QED
    BY <2>1
<1>2. ASSUME NEW i \in 0..size PROVE rank(i) = i
  <2>1. {j \in 1..size : j <= i} = 1..i
    BY <1>1
  <2>2. i \in Nat
    BY <1>1
  <2> QED
    BY <1>0, <2>1, <2>2
<1>3. Cardinality(1..size) = size
  BY <1>0, <1>1
<1> HIDE DEF rank
<1>4. ASSUME NEW n \in 1..size PROVE (CHOOSE i \in 1..size : rank(i) = n) = n
  <2>1. \A i \in 1..size : rank(i) = n <=> i = n
    BY <1>1, <1>2
  <2> QED
    BY <2>1
<1>5. AtPlaces(s, DOMAIN s) = [n \in 1..size |-> s[CHOOSE i \in 1..size : rank(i) = n]]
  BY <1>1, <1>3 DEF AtPlaces, rank
<1> QED
  BY <1>1, <1>4, <1>5

\* Flattening sequences over a set gives a sequence over it. The partial results are
\* a recursive function: it exists, and its values are sequences, by least counterexample.
LEMMA FlatIsASequence ==
    ASSUME NEW S, NEW seqs \in Seq(Seq(S))
    PROVE  FlattenSeq(seqs) \in Seq(S)
<1> DEFINE size == Len(seqs)
           Body(f, n) == [i \in 1..n |-> IF i = 1 THEN seqs[i] ELSE f[i-1] \o seqs[i]]
           Partial(n) == {f \in [1..n -> Seq(S)] : f = Body(f, n)}
<1>1. size \in Nat /\ \A i \in 1..size : seqs[i] \in Seq(S)
  OBVIOUS
<1> HIDE DEF size
<1>2. \A s, t \in Seq(S) : s \o t \in Seq(S)
  OBVIOUS
<1>3. \A n \in 0..size : Partial(n) # {}
  <2> DEFINE T == {n \in 0..size : Partial(n) = {}}
  <2> SUFFICES ASSUME T # {} PROVE FALSE
    OBVIOUS
  <2>1. PICK n \in T : \A k \in T : n <= k
    <3>1. T \subseteq Nat
      <4> HIDE DEF Partial
      <4> QED
        BY <1>1
    <3> HIDE DEF T
    <3> QED
      BY <3>1, LeastOfSome
  <2>2. n # 0
    <3>1. [i \in 1..0 |-> <<>>] \in Partial(0)
      OBVIOUS
    <3> QED
      BY <3>1, <2>1
  <2>3. n - 1 \in 0..size /\ n \in 1..size /\ n - 1 \in Nat
    BY <1>1, <2>1, <2>2
  <2>4. Partial(n - 1) # {}
    <3>1. ~(n <= n - 1)
      BY <2>3
    <3> QED
      BY <2>1, <2>3, <3>1
  <2>5. PICK f \in [1..(n - 1) -> Seq(S)] : f = Body(f, n - 1)
    BY <2>4
  <2> DEFINE new == IF n = 1 THEN seqs[n] ELSE f[n - 1] \o seqs[n]
             g == [i \in 1..n |-> IF i = n THEN new ELSE f[i]]
  <2>6. new \in Seq(S)
    <3>1. CASE n = 1
      BY <1>1, <2>3, <3>1
    <3>2. CASE n # 1
      <4>1. n - 1 \in 1..(n - 1)
        BY <2>3, <3>2
      <4>2. f[n - 1] \in Seq(S) /\ seqs[n] \in Seq(S)
        BY <1>1, <2>3, <4>1
      <4> QED
        BY <1>2, <3>2, <4>2
    <3> QED
      BY <3>1, <3>2
  <2> HIDE DEF new
  <2>7. g \in [1..n -> Seq(S)]
    BY <2>3, <2>6
  <2>8. ASSUME NEW i \in 1..n
        PROVE  g[i] = IF i = 1 THEN seqs[i] ELSE g[i-1] \o seqs[i]
    <3>1. CASE i = n
      <4>1. i # 1 => i - 1 \in 1..n /\ i - 1 # n
        BY <2>3
      <4> QED
        BY <3>1, <4>1 DEF new
    <3>2. CASE i # n
      <4>1. i \in 1..(n - 1) /\ (i # 1 => i - 1 \in 1..n /\ i - 1 # n)
        BY <2>3, <3>2
      <4>2. f[i] = IF i = 1 THEN seqs[i] ELSE f[i-1] \o seqs[i]
        BY <2>5, <4>1
      <4> QED
        BY <3>2, <4>1, <4>2
    <3> QED
      BY <3>1, <3>2
  <2>9. g = Body(g, n)
    <3> HIDE DEF new
    <3> QED
      BY <2>8
  <2> HIDE DEF g
  <2>10. g \in Partial(n)
    BY <2>7, <2>9
  <2> QED
    BY <2>1, <2>10
<1>4. ASSUME NEW f, f = Body(f, size) PROVE f \in [1..size -> Seq(S)]
  <2>1. DOMAIN f = 1..size /\ f = [i \in 1..size |-> f[i]]
    BY <1>4
  <2>2. \A i \in 1..size : f[i] = IF i = 1 THEN seqs[i] ELSE f[i-1] \o seqs[i]
    BY <1>4
  <2> DEFINE T == {i \in 1..size : f[i] \notin Seq(S)}
  <2>3. T = {}
    <3> SUFFICES ASSUME T # {} PROVE FALSE
      OBVIOUS
    <3>1. PICK i \in T : \A k \in T : i <= k
      <4>1. T \subseteq Nat
        OBVIOUS
      <4> HIDE DEF T
      <4> QED
        BY <4>1, LeastOfSome
    <3>2. i # 1
      BY <1>1, <2>2, <3>1
    <3>3. i - 1 \in 1..size /\ ~(i <= i - 1)
      BY <1>1, <3>1, <3>2
    <3>4. f[i-1] \in Seq(S)
      BY <3>1, <3>3
    <3>5. f[i] \in Seq(S)
      BY <1>1, <1>2, <2>2, <3>1, <3>2, <3>4
    <3> QED
      BY <3>1, <3>5
  <2> QED
    BY <2>1, <2>3
<1>5. CASE size = 0
  BY <1>5 DEF FlattenSeq, size
<1>6. CASE size # 0
  <2> DEFINE flat == CHOOSE f : f = Body(f, size)
  <2>1. FlattenSeq(seqs) = flat[size]
    BY <1>6 DEF FlattenSeq, size
  <2>2. \E f : f = Body(f, size)
    <3>1. Partial(size) # {}
      <4>1. size \in 0..size
        BY <1>1
      <4> HIDE DEF Partial
      <4> QED
        BY <1>3, <4>1, Zenon
    <3> QED
      BY <3>1
  <2>3. flat = Body(flat, size)
    BY <2>2, Zenon
  <2> HIDE DEF flat
  <2>4. flat \in [1..size -> Seq(S)]
    <3> HIDE DEF Body
    <3> QED
      BY <1>4, <2>3
  <2>5. size \in 1..size
    BY <1>1, <1>6
  <2> QED
    BY <2>1, <2>4, <2>5
<1> QED
  BY <1>5, <1>6

AnyChannel == Channels \cup {"slack", "discord", "telegram"}

\* Dropping repetitions leaves a sequence over the same set.
LEMMA UniqueIsASequence ==
    ASSUME NEW S, NEW s \in Seq(S)
    PROVE  Unique(s) \in Seq(S)
<1> DEFINE first == {i \in DOMAIN s : \A j \in DOMAIN s : s[j] = s[i] => i <= j}
<1>1. Len(s) \in Nat /\ DOMAIN s = 1..Len(s) /\ \A i \in DOMAIN s : s[i] \in S
  OBVIOUS
<1>2. IsFiniteSet(DOMAIN s)
  BY <1>1, FS_Interval
<1>3. first \in SUBSET Nat /\ IsFiniteSet(first)
  <2>1. first \in SUBSET DOMAIN s
    OBVIOUS
  <2> HIDE DEF first
  <2> QED
    BY <1>1, <1>2, <2>1, FS_Subset
<1>4. Entries(s, first) \in SUBSET S
  BY <1>1 DEF Entries
<1>5. Unique(s) = AtPlaces(s, first)
  BY DEF Unique
<1> HIDE DEF first
<1> QED
  BY <1>3, <1>4, <1>5, AtPlacesKeeps

\* The first of some rules, chosen by their places, names a sequence of channels.
LEMMA FirstRuleTells ==
    ASSUME NEW rules, ChannelsOf(rules) \in Seq(Seq(Channels)),
           NEW places \in SUBSET DOMAIN rules, places # {}
    PROVE  FirstChannels(rules, places) \in Seq(AnyChannel)
<1>1. DOMAIN ChannelsOf(rules) = DOMAIN rules
      /\ \A i \in DOMAIN rules : ChannelsOf(rules)[i] = rules[i].channels
  BY DEF ChannelsOf
<1>2. DOMAIN rules = 1..Len(ChannelsOf(rules)) /\ Len(ChannelsOf(rules)) \in Nat
      /\ \A i \in DOMAIN rules : ChannelsOf(rules)[i] \in Seq(Channels)
  BY <1>1
<1>3. Min(places) \in DOMAIN rules
  BY <1>2, FirstAndLast
<1>4. rules[Min(places)].channels \in Seq(Channels)
  BY <1>1, <1>2, <1>3
<1>5. \A s \in Seq(Channels) : s \in Seq(AnyChannel)
  BY DEF AnyChannel
<1> QED
  BY <1>4, <1>5 DEF FirstChannels

\* Whichever rule applies, a decision is routed to a sequence of channels.
LEMMA RoutedToChannels ==
    ASSUME NEW d, NEW hour
    PROVE  GetRoutingForDecision(d, hour) \in Seq(AnyChannel)
<1> DEFINE overridden == {i \in DOMAIN Overrides :
               LET o == Overrides[i]
               IN  o.symbol = d.symbol /\ InWindow(o.window, hour) /\ o.channels # <<>>}
           those(kind) == {i \in DOMAIN RoutingRules : RoutingRules[i].kind = kind}
           exact == {i \in those("symbol") : RoutingRules[i].key = d.symbol}
           told(i) == IF i \in those("tags") /\ RoutingRules[i].key \subseteq d.tags
                      THEN RoutingRules[i].channels ELSE <<>>
           byTags == [i \in DOMAIN RoutingRules |-> told(i)]
           tagged == FlattenSeq(byTags)
           wild == {i \in those("prefix") : PrefixOf(RoutingRules[i].key, d.symbol)}
<1>1. /\ overridden \in SUBSET DOMAIN Overrides
      /\ exact \in SUBSET DOMAIN RoutingRules /\ wild \in SUBSET DOMAIN RoutingRules
  OBVIOUS
<1>2. tagged \in Seq(AnyChannel)
  <2> HIDE DEF told
  <2>1. ChannelsOf(RoutingRules) \in Seq(Seq(Channels))
    BY DecisionRoutingAssumption
  <2>2. /\ DOMAIN RoutingRules = 1..Len(ChannelsOf(RoutingRules))
        /\ Len(ChannelsOf(RoutingRules)) \in Nat
        /\ \A i \in DOMAIN RoutingRules : RoutingRules[i].channels \in Seq(Channels)
    <3>1. DOMAIN ChannelsOf(RoutingRules) = DOMAIN RoutingRules
          /\ \A i \in DOMAIN RoutingRules : ChannelsOf(RoutingRules)[i] = RoutingRules[i].channels
      BY DEF ChannelsOf
    <3> QED
      BY <2>1, <3>1
  <2>3. \A s \in Seq(Channels) : s \in Seq(AnyChannel)
    BY DEF AnyChannel
  <2>4. ASSUME NEW i \in DOMAIN RoutingRules PROVE told(i) \in Seq(AnyChannel)
    <3>1. told(i) = RoutingRules[i].channels \/ told(i) = <<>>
      BY Zenon DEF told
    <3>2. RoutingRules[i].channels \in Seq(AnyChannel)
      BY <2>2, <2>3, Zenon
    <3>3. <<>> \in Seq(AnyChannel)
      OBVIOUS
    <3> QED
      BY <3>1, <3>2, <3>3, Zenon
  <2>5. byTags \in Seq(Seq(AnyChannel))
    BY <2>2, <2>4
  <2> HIDE DEF byTags
  <2> QED
    BY <2>5, FlatIsASequence
<1>3. overridden # {} => FirstChannels(Overrides, overridden) \in Seq(AnyChannel)
  <2> HIDE DEF overridden
  <2> QED
    BY <1>1, FirstRuleTells, DecisionRoutingAssumption
<1>4. /\ exact # {} => FirstChannels(RoutingRules, exact) \in Seq(AnyChannel)
      /\ wild # {} => FirstChannels(RoutingRules, wild) \in Seq(AnyChannel)
  <2> HIDE DEF exact, wild
  <2> QED
    BY <1>1, FirstRuleTells, DecisionRoutingAssumption
<1>5. AllChannels \in Seq(AnyChannel)
  BY DEF AllChannels, AnyChannel
<1>6. GetRoutingForDecision(d, hour) =
         IF overridden # {} THEN FirstChannels(Overrides, overridden)
         ELSE IF exact # {} THEN FirstChannels(RoutingRules, exact)
         ELSE IF tagged # <<>> THEN Unique(tagged)
         ELSE IF wild # {} THEN FirstChannels(RoutingRules, wild)
         ELSE AllChannels
  BY Zenon DEF GetRoutingForDecision
<1> HIDE DEF overridden, exact, tagged, wild
<1> QED
  BY <1>2, <1>3, <1>4, <1>5, <1>6, UniqueIsASequence

RoutingInv ==
    /\ processed \in Seq(Keyed)
    /\ ResultsTellChannels /\ BlockedTypesStop

LEMMA RoutingStart == DecisionRoutingInit => RoutingInv
<1> SUFFICES ASSUME DecisionRoutingInit PROVE RoutingInv
  OBVIOUS
<1>1. processed \in Seq(Keyed)
  BY DEF DecisionRoutingInit
<1>2. ResultsTellChannels
  <2>1. ~delivery.sent
    BY DEF DecisionRoutingInit
  <2> QED
    BY <2>1 DEF ResultsTellChannels
<1>3. BlockedTypesStop
  <2>1. signals.passed = <<>>
    BY DEF DecisionRoutingInit
  <2> QED
    BY <2>1 DEF BlockedTypesStop
<1> QED
  BY <1>1, <1>2, <1>3 DEF RoutingInv

\* Where every routed channel has a notifier, the results are paired right.
LEMMA PairsAreTrue ==
    ASSUME NEW S, NEW routed \in Seq(S), NEW results, results = PairResults(routed, routed)
    PROVE  /\ DOMAIN results = ToSet(routed)
           /\ \A c \in DOMAIN results : results[c] = c
<1> DEFINE size == Len(routed)
           upTo == 1..Min({size, size})
           at(c) == {i \in upTo : routed[i] = c}
<1>1. size \in Nat /\ DOMAIN routed = 1..size
  OBVIOUS
<1>2. upTo = 1..size
  <2>1. ASSUME NEW n \in Nat PROVE Min({n, n}) = n
    <3>1. n \in {n, n} /\ \A y \in {n, n} : n <= y
      OBVIOUS
    <3>2. Min({n, n}) \in {n, n}
      BY <3>1, Zenon DEF Min
    <3> QED
      BY <3>2
  <2>2. Min({size, size}) = size
    BY <1>1, <2>1
  <2> QED
    BY <2>2
<1>3. results = [c \in {routed[i] : i \in upTo} |-> routed[Max(at(c))]]
  BY DEF PairResults
<1> HIDE DEF size, upTo
<1>4. DOMAIN results = ToSet(routed)
  BY <1>1, <1>2, <1>3 DEF ToSet
<1>5. ASSUME NEW c \in DOMAIN results PROVE results[c] = c
  <2>1. PICK i \in upTo : c = routed[i]
    BY <1>3
  <2>2. at(c) # {} /\ at(c) \subseteq 1..size
    BY <1>2, <2>1
  <2> HIDE DEF at
  <2>3. Max(at(c)) \in at(c)
    BY <1>1, <2>2, FirstAndLast
  <2>4. routed[Max(at(c))] = c
    BY <2>3 DEF at
  <2> QED
    BY <1>3, <2>4
<1> QED
  BY <1>4, <1>5

\* What is sent is sent to every routed channel that has a notifier.
LEMMA DeliverStep ==
    ASSUME NEW d, NEW hour, NEW skipped, Deliver(d, hour, skipped)
    PROVE  ResultsTellChannels'
<1> DEFINE routed == GetRoutingForDecision(d, hour)
           told == {i \in DOMAIN routed : routed[i] \in Notifiers}
           called == AtPlaces(routed, told)
<1> SUFFICES ASSUME delivery'.sent, ToSet(delivery'.routed) \subseteq Notifiers
             PROVE  /\ DOMAIN delivery'.results = ToSet(delivery'.routed)
                    /\ \A c \in DOMAIN delivery'.results : delivery'.results[c] = c
  BY DEF ResultsTellChannels
<1>1. routed \in Seq(AnyChannel)
  BY RoutedToChannels
<1>2. delivery'.routed = routed /\ delivery'.results = PairResults(routed, called)
  BY DEF Deliver
<1> HIDE DEF routed
<1>3. told = DOMAIN routed
  BY <1>2 DEF ToSet
<1>4. called = routed
  BY <1>1, <1>3, AllPlaces
<1>5. delivery'.results = PairResults(routed, routed)
  BY <1>2, <1>4
<1> QED
  BY <1>1, <1>2, <1>5, PairsAreTrue

LEMMA ProcessStep ==
    ASSUME RoutingInv, NEW raw \in RawDecisions, NEW time \in DecisionTimes, NEW hour \in HoursOfDay,
           ProcessDecision(raw, time, hour)
    PROVE  RoutingInv'
<1> DEFINE d == NormalizeDecision(raw, time)
           key == ComputeDedupKey(d)
           skipped == \E i \in DOMAIN processed : processed[i].key = key
<1>1. /\ processed' = Append(processed, [decision |-> d, key |-> key])
      /\ Deliver(d, hour, skipped)
      /\ signals' = signals
  BY DEF ProcessDecision
<1>2. [decision |-> d, key |-> key] \in Keyed
  BY DEF Keyed, RoutedDecisions
<1>3. processed' \in Seq(Keyed)
  <2> HIDE DEF d, key
  <2> QED
    BY <1>1, <1>2, AppendProperties DEF RoutingInv
<1>4. ResultsTellChannels'
  <2> HIDE DEF d, skipped
  <2> QED
    BY <1>1, DeliverStep
<1>5. BlockedTypesStop'
  BY <1>1 DEF BlockedTypesStop, RoutingInv
<1> QED
  BY <1>3, <1>4, <1>5 DEF RoutingInv

\* Unless the filter failed, what passes is of no blocked type.
LEMMA PoliciesStep ==
    ASSUME NEW a \in AdvisorySignals, NEW b \in AdvisorySignals, NEW policy,
           ApplyPolicies(<<a, b>>, policy)
    PROVE  BlockedTypesStop'
<1> DEFINE given == <<a, b>>
           low(s) == s.confidence # {} /\ \A c \in s.confidence : c < MinConfidence
           failed == policy = "error" \/ \E i \in DOMAIN given :
                         given[i].confidence = {-1} /\ given[i].signal_type \notin BlockedTypes
           kept == {i \in DOMAIN given : given[i].signal_type \notin BlockedTypes /\ ~low(given[i])}
           Free == {s \in AdvisorySignals : s.signal_type \notin BlockedTypes}
<1>1. /\ signals'.failed = (failed \/ policy = "none")
      /\ signals'.passed = IF failed \/ policy = "none" THEN given ELSE AtPlaces(given, kept)
  BY DEF ApplyPolicies
<1> SUFFICES ASSUME ~signals'.failed,
                    NEW i \in DOMAIN signals'.passed
             PROVE  signals'.passed[i].signal_type \notin BlockedTypes
  BY DEF BlockedTypesStop
<1> DEFINE less == AtPlaces(given, kept)
<1>2. signals'.passed = less
  <2> HIDE DEF failed, kept
  <2> QED
    BY <1>1
<1>3. kept \in SUBSET (1..2) /\ Entries(given, kept) \in SUBSET Free
  <2>1. DOMAIN given = 1..2 /\ \A k \in DOMAIN given : given[k] \in AdvisorySignals
    OBVIOUS
  <2>2. kept \in SUBSET DOMAIN given
        /\ \A k \in kept : given[k].signal_type \notin BlockedTypes
    OBVIOUS
  <2> HIDE DEF kept, given
  <2>3. \A k \in kept : given[k] \in Free
    BY <2>1, <2>2
  <2> HIDE DEF Free
  <2> QED
    BY <2>1, <2>2, <2>3 DEF Entries
<1>4. kept \in SUBSET Nat /\ IsFiniteSet(kept)
  <2> HIDE DEF kept
  <2>1. ASSUME NEW n \in Nat PROVE IsFiniteSet(1..n)
    BY FS_Interval
  <2>2. IsFiniteSet(1..2)
    BY <2>1
  <2>3. kept \in SUBSET Nat
    BY <1>3
  <2> QED
    BY <1>3, <2>2, <2>3, FS_Subset
<1>5. less \in Seq(Free)
  <2> HIDE DEF kept, given, Free
  <2> QED
    BY <1>3, <1>4, AtPlacesKeeps
<1> HIDE DEF less
<1>6. less[i] \in Free
  <2> HIDE DEF Free
  <2> QED
    BY <1>2, <1>5
<1> QED
  BY <1>2, <1>6

LEMMA RoutingStep == RoutingInv /\ [DecisionRoutingNext]_routingVars => RoutingInv'
<1> SUFFICES ASSUME RoutingInv, [DecisionRoutingNext]_routingVars PROVE RoutingInv'
  OBVIOUS
<1>1. CASE ProcessNext
  BY <1>1, ProcessStep DEF ProcessNext
<1>2. CASE FilterNext
  <2>1. BlockedTypesStop'
    BY <1>2, PoliciesStep DEF FilterNext
  <2>2. ResultsTellChannels' /\ (processed \in Seq(Keyed))'
    BY <1>2 DEF FilterNext, RoutingInv, ResultsTellChannels
  <2> QED
    BY <2>1, <2>2 DEF RoutingInv
<1>3. CASE UNCHANGED routingVars
  BY <1>3 DEF routingVars, RoutingInv, ResultsTellChannels, BlockedTypesStop
<1> QED
  BY <1>1, <1>2, <1>3 DEF DecisionRoutingNext

\* Nothing is dropped, sent or reported for another decision or channel: decisions
\* share a key of compute_dedup_key() only if they carry one id or are close to one
\* another; with a notifier for every channel, each result is that of its channel,
\* whichever rule of _get_routing_for_decision() chose them; and a signal of a blocked
\* type passes apply_policies() only when the filter failed.
THEOREM DecisionsAreRouted == RoutingSpec => []RoutingHolds
<1>1. ASSUME RoutingInv PROVE RoutingHolds
  <2>1. KeysTellApart
    <3> SUFFICES ASSUME NEW i \in DOMAIN processed, NEW j \in DOMAIN processed,
                        processed[i].key = processed[j].key
                 PROVE  SameOrClose(processed[i].decision, processed[j].decision)
      BY Zenon DEF KeysTellApart, SameOrClose
    <3>1. processed[i] \in Keyed /\ processed[j] \in Keyed
      BY <1>1 DEF RoutingInv
    <3>2. PICK a \in RoutedDecisions : processed[i] = [decision |-> a, key |-> ComputeDedupKey(a)]
      BY <3>1 DEF Keyed
    <3>3. PICK b \in RoutedDecisions : processed[j] = [decision |-> b, key |-> ComputeDedupKey(b)]
      BY <3>1 DEF Keyed
    <3>4. /\ processed[i].decision = a /\ processed[j].decision = b
          /\ ComputeDedupKey(a) = ComputeDedupKey(b)
      BY <3>2, <3>3
    <3>5. SameOrClose(a, b)
      BY <3>4, KeysAreFaithful
    <3> QED
      BY <3>4, <3>5
  <2> QED
    BY <1>1, <2>1 DEF RoutingInv, RoutingHolds
<1> QED
  BY <1>1, RoutingStart, RoutingStep, PTL DEF RoutingSpec

-----------------------------------------------------------------------------
(* Types *)

\* The events under way; those recorded or under way have begun.
Pending == {t \in Recorders : recorder[t] # <<>>}

TimelineBounds ==
    /\ instant \in 0..MaxInstant /\ begun \in 0..MaxRecorded
    /\ IsFiniteSet(Pending) /\ eventCount + Cardinality(Pending) <= begun
    /\ \A t \in Pending : recorder[t][1].sequence_number \in -1..MaxRecorded

TimelineTypeInv == TimelineInv /\ TimelineBounds

\* An event under way is the only one of its thread.
LEMMA OneEvent ==
    ASSUME TimelineInv, NEW t \in Pending
    PROVE  /\ t \in Recorders /\ Len(recorder[t]) = 1 /\ recorder[t][1] \in RecordedEvent
           /\ recorder[t] = <<recorder[t][1]>>
<1>1. t \in Recorders /\ recorder[t] # <<>>
  BY DEF Pending
<1>2. PICK e \in RecordedEvent : recorder[t] = <<e>>
  BY <1>1 DEF TimelineInv, TimelineTypes
<1> QED
  BY <1>1, <1>2

LEMMA TimelineBoundsStep == TimelineTypeInv /\ [TimelineNext]_timelineVars => TimelineTypeInv'
<1> SUFFICES ASSUME TimelineTypeInv, [TimelineNext]_timelineVars PROVE TimelineTypeInv'
  OBVIOUS
<1> USE DEF TimelineTypeInv
<1>1. TimelineInv'
  BY TimelineStep
<1>2. /\ eventCount \in Nat /\ instant \in Nat /\ eventCount' \in Nat
      /\ DOMAIN recorder = Recorders /\ DOMAIN recorder' = Recorders
  BY <1>1 DEF TimelineInv, TimelineTypes
<1>3. Cardinality(Pending) \in Nat /\ IsFiniteSet(Pending) /\ begun \in Nat
      /\ instant \in 0..MaxInstant /\ begun \in 0..MaxRecorded
      /\ eventCount + Cardinality(Pending) <= begun /\ eventCount \in 0..MaxRecorded
  <2>1. IsFiniteSet(Pending) /\ Cardinality(Pending) \in Nat
    BY FS_CardinalityType DEF TimelineBounds
  <2> QED
    BY <1>2, <2>1, TimelineAssumption DEF TimelineBounds
<1>4. ASSUME NEW t \in Recorders, NEW c \in CorrelationIds, BuildEvent(t, c) PROVE TimelineBounds'
  <2> DEFINE f == [correlation_id |-> c, timestamp |-> instant, sequence_number |-> -1]
  <2>1. /\ recorder[t] = <<>> /\ begun < MaxRecorded /\ recorder' = [recorder EXCEPT ![t] = <<f>>]
        /\ begun' = begun + 1 /\ UNCHANGED <<instant, eventCount>>
    BY <1>4 DEF BuildEvent
  <2>2. recorder'[t] = <<f>> /\ <<f>>[1].sequence_number = -1 /\ <<f>> # <<>>
    BY <1>2, <2>1
  <2>3. \A u \in Recorders : u # t => recorder'[u] = recorder[u]
    BY <1>2, <2>1
  <2>4. Pending' = Pending \cup {t} /\ t \notin Pending
    BY <2>1, <2>2, <2>3 DEF Pending
  <2>5. IsFiniteSet(Pending') /\ Cardinality(Pending') = Cardinality(Pending) + 1
    BY <1>3, <2>4, FS_AddElement
  <2>6. \A u \in Pending' : recorder'[u][1].sequence_number \in -1..MaxRecorded
    BY <2>2, <2>3, <2>4, TimelineAssumption DEF TimelineBounds, Pending
  <2>7. begun' \in 0..MaxRecorded /\ eventCount' + Cardinality(Pending') <= begun'
    BY <1>2, <1>3, <2>1, <2>5, TimelineAssumption
  <2> QED
    BY <1>3, <2>1, <2>5, <2>6, <2>7 DEF TimelineBounds
<1>5. ASSUME NEW t \in Recorders, NumberEvent(t) PROVE TimelineBounds'
  <2>1. /\ recorder[t] # <<>> /\ recorder' = [recorder EXCEPT ![t][1].sequence_number = eventCount]
        /\ UNCHANGED <<instant, eventCount, begun>>
    BY <1>5 DEF NumberEvent
  <2>2. PICK e \in RecordedEvent : recorder[t] = <<e>>
    BY <2>1 DEF TimelineInv, TimelineTypes
  <2> DEFINE f == [e EXCEPT !.sequence_number = eventCount]
  <2>3. f.sequence_number = eventCount
    BY <2>2 DEF RecordedEvent
  <2> HIDE DEF f
  <2>4. recorder' = [recorder EXCEPT ![t] = <<f>>]
    <3>1. [recorder[t] EXCEPT ![1] = f] = <<f>> /\ recorder[t][1] = e
      BY <2>2
    <3>2. recorder' = [recorder EXCEPT ![t] = [recorder[t] EXCEPT ![1] = f]]
      BY <2>1, <3>1 DEF f
    <3> QED
      BY <3>1, <3>2
  <2>5. recorder'[t] = <<f>> /\ <<f>>[1] = f /\ <<f>> # <<>>
    BY <1>2, <2>4
  <2>6. \A u \in Recorders : u # t => recorder'[u] = recorder[u]
    BY <1>2, <2>4
  <2>7. Pending' = Pending
    BY <2>1, <2>5, <2>6 DEF Pending
  <2>8. eventCount \in -1..MaxRecorded
    BY <1>2, <1>3
  <2>9. \A u \in Pending' : recorder'[u][1].sequence_number \in -1..MaxRecorded
    BY <2>3, <2>5, <2>6, <2>7, <2>8 DEF TimelineBounds, Pending
  <2> QED
    BY <1>3, <2>1, <2>7, <2>9 DEF TimelineBounds
<1>6. ASSUME NEW t \in Recorders, AppendEvent(t) PROVE TimelineBounds'
  <2>1. /\ recorder[t] # <<>> /\ recorder' = [recorder EXCEPT ![t] = <<>>]
        /\ eventCount' = eventCount + 1 /\ UNCHANGED <<instant, begun>>
    BY <1>6 DEF AppendEvent
  <2>2. recorder'[t] = <<>> /\ \A u \in Recorders : u # t => recorder'[u] = recorder[u]
    BY <1>2, <2>1
  <2>3. Pending' = Pending \ {t} /\ t \in Pending
    BY <2>1, <2>2 DEF Pending
  <2>4. IsFiniteSet(Pending') /\ Cardinality(Pending') = Cardinality(Pending) - 1
    BY <1>3, <2>3, FS_RemoveElement
  <2>5. \A u \in Pending' : recorder'[u][1].sequence_number \in -1..MaxRecorded
    BY <2>2, <2>3 DEF TimelineBounds, Pending
  <2>6. eventCount' + Cardinality(Pending') <= begun'
    BY <1>2, <1>3, <2>1, <2>4
  <2> QED
    BY <1>3, <2>1, <2>4, <2>5, <2>6 DEF TimelineBounds
<1>7. ASSUME ClearAll \/ InstantPasses \/ UNCHANGED timelineVars PROVE TimelineBounds'
  <2>1. /\ recorder' = recorder /\ begun' = begun /\ eventCount' \in {0, eventCount}
        /\ instant' \in 0..MaxInstant
    BY <1>2, <1>3, <1>7, TimelineAssumption DEF ClearAll, InstantPasses, timelineVars
  <2>2. Pending' = Pending
    BY <2>1 DEF Pending
  <2>3. eventCount' + Cardinality(Pending') <= begun'
    BY <1>2, <1>3, <2>1, <2>2
  <2> QED
    BY <1>3, <2>1, <2>2, <2>3 DEF TimelineBounds
<1>8. TimelineBounds'
  BY <1>4, <1>5, <1>6, <1>7 DEF TimelineNext
<1> QED
  BY <1>1, <1>8

\* Clock, counter and timelines keep their types: a thread builds one event at a time, and
\* there are no more events, recorded or under way, than calls have begun.
THEOREM TimelinesKeepTheirTypes == TimelineSpec => []TimelineTypeOK
<1>1. TimelineInit => TimelineTypeInv
  <2> SUFFICES ASSUME TimelineInit PROVE TimelineTypeInv
    OBVIOUS
  <2>1. Pending = {} /\ instant = 0 /\ begun = 0 /\ eventCount = 0
    BY DEF TimelineInit, Pending
  <2> QED
    BY <2>1, TimelineStart, TimelineAssumption, FS_EmptySet DEF TimelineTypeInv, TimelineBounds
<1>2. TimelineTypeInv => TimelineTypeOK
  <2> SUFFICES ASSUME TimelineTypeInv PROVE TimelineTypeOK
    OBVIOUS
  <2> USE DEF TimelineTypeInv
  <2>1. \A t \in Recorders, i \in 1..2 : i <= Len(recorder[t]) =>
          i = 1 /\ recorder[t][i].sequence_number \in -1..MaxRecorded
    <3> SUFFICES ASSUME NEW t \in Recorders, NEW i \in 1..2, i <= Len(recorder[t])
                 PROVE  i = 1 /\ recorder[t][i].sequence_number \in -1..MaxRecorded
      OBVIOUS
    <3>1. t \in Pending
      BY DEF Pending
    <3>2. Len(recorder[t]) = 1
      BY <3>1, OneEvent
    <3>3. i = 1
      BY <3>2
    <3> QED
      BY <3>1, <3>3 DEF TimelineBounds
  <2>2. eventCount \in 0..MaxRecorded /\ overlapped \in BOOLEAN /\ DOMAIN timelines = CorrelationIds
    <3>1. Cardinality(Pending) \in Nat
      BY FS_CardinalityType DEF TimelineBounds
    <3> QED
      BY <3>1, TimelineAssumption DEF TimelineInv, TimelineTypes, TimelineBounds
  <2> QED
    BY <2>1, <2>2 DEF TimelineTypeOK, TimelineBounds
<1> QED
  BY <1>1, <1>2, TimelineBoundsStep, PTL DEF TimelineSpec

\* What a run keeps of the plan's steps: results and failures are of steps it entered, and
\* where it stands there is a step.
Walks(q) ==
    /\ q.results \cup q.exhausted \subseteq q.entered
    /\ q.at \in {"ready", "running", "resting", "publishing"} =>
          q.current \in DOMAIN StepPlans[q.plan]
    /\ q.at \in {"running", "resting"} => q.current \in q.entered

StepRunnerTypeInv == StepRunnerInv /\ \A r \in PlanRuns : Walks(planRun[r])

\* A run that is in a step and goes on, goes on to a step of its plan, or ends.
LEMMA TransitionWalks ==
    ASSUME NEW r \in PlanRuns, planRun[r] \in Run, NEW q \in Run, q.plan = planRun[r].plan,
           q.results \cup q.exhausted \subseteq q.entered, NEW next
    PROVE  Walks(Transition(q, r, next))
<1> DEFINE t == Transition(q, r, next)
<1>1. CASE next \subseteq DOMAIN Steps(r) /\ next # {}
  <2>1. PICK s \in next : s = CHOOSE u \in next : TRUE
    BY <1>1
  <2>2. t = [q EXCEPT !.at = "ready", !.attempt = 0, !.current = s]
    BY <1>1, <2>1 DEF Transition
  <2>3. /\ t.at = "ready" /\ t.current = s /\ t.plan = q.plan /\ t.results = q.results
        /\ t.exhausted = q.exhausted /\ t.entered = q.entered
    BY <2>2 DEF Run
  <2>4. s \in DOMAIN StepPlans[q.plan]
    BY <1>1, <2>1 DEF Steps
  <2> HIDE DEF t
  <2>5. Walks(t)
    BY <2>3, <2>4 DEF Walks
  <2> QED
    BY <2>5 DEF t
<1>2. CASE ~(next \subseteq DOMAIN Steps(r) /\ next # {})
  <2>1. t = [q EXCEPT !.at = "done"]
    BY <1>2 DEF Transition
  <2>2. /\ t.at = "done" /\ t.results = q.results
        /\ t.exhausted = q.exhausted /\ t.entered = q.entered
    BY <2>1 DEF Run
  <2> HIDE DEF t
  <2>3. Walks(t)
    BY <2>2 DEF Walks
  <2> QED
    BY <2>3 DEF t
<1> QED
  BY <1>1, <1>2

\* What one step makes of its run walks on.
LEMMA StepWalks ==
    ASSUME StepRunnerTypeInv, NEW r \in PlanRuns, PlanRunStep(r)
    PROVE  \A q \in PlanRuns : Walks(planRun'[q])
<1>1. planRun \in [PlanRuns -> Run] /\ \A q \in PlanRuns : Walks(planRun[q])
  BY DEF StepRunnerTypeInv, StepRunnerInv
<1> DEFINE p == planRun[r]
<1>2. p \in Run /\ Walks(p)
  BY <1>1
<1>3. ASSUME NEW q, Walks(q), planRun' = [planRun EXCEPT ![r] = q]
      PROVE  \A s \in PlanRuns : Walks(planRun'[s])
  BY <1>1, <1>3
<1>4. CASE RunPlan(r)
  <2>1. CASE DOMAIN Steps(r) = {}
    <3> DEFINE q == [p EXCEPT !.at = "raised"]
    <3>1. planRun' = [planRun EXCEPT ![r] = q]
      BY <1>4, <2>1 DEF RunPlan
    <3>2. q.at = "raised" /\ q.results = p.results /\ q.exhausted = p.exhausted /\ q.entered = p.entered
      BY <1>2 DEF Run
    <3>3. Walks(q)
      BY <1>2, <3>2 DEF Walks
    <3> HIDE DEF q
    <3> QED
      BY <1>3, <3>1, <3>3
  <2>2. CASE DOMAIN Steps(r) # {}
    <3> DEFINE q == Transition(p, r, {StartStep})
    <3>1. planRun' = [planRun EXCEPT ![r] = q]
      BY <1>4, <2>2 DEF RunPlan
    <3>2. Walks(q)
      <4>1. p.results \cup p.exhausted \subseteq p.entered
        BY <1>2 DEF Walks
      <4> QED
        BY <1>2, <4>1, TransitionWalks
    <3> HIDE DEF q
    <3> QED
      BY <1>3, <3>1, <3>2
  <2> QED
    BY <2>1, <2>2
<1>5. CASE Acquire(r)
  <2> DEFINE q == [p EXCEPT !.at = "running", !.attempt = p.attempt + 1,
                            !.entered = p.entered \cup {p.current}]
  <2>1. planRun' = [planRun EXCEPT ![r] = q]
    BY <1>1, <1>5 DEF Acquire
  <2>2. /\ q.at = "running" /\ q.results = p.results /\ q.exhausted = p.exhausted
        /\ q.entered = p.entered \cup {p.current} /\ q.current = p.current /\ q.plan = p.plan
    BY <1>2 DEF Run
  <2>3. p.at = "ready"
    BY <1>5 DEF Acquire
  <2> HIDE DEF q
  <2>4. Walks(q)
    BY <1>2, <2>2, <2>3 DEF Walks
  <2> QED
    BY <1>3, <2>1, <2>4
<1>6. CASE StepSucceeds(r)
  <2> DEFINE s == [p EXCEPT !.results = p.results \cup {p.current}]
             q == Transition(s, r, CurrentStep(r).on_success)
  <2>1. planRun' = [planRun EXCEPT ![r] = q]
    BY <1>6 DEF StepSucceeds
  <2>2. /\ s \in Run /\ s.plan = p.plan /\ s.results = p.results \cup {p.current}
        /\ s.exhausted = p.exhausted /\ s.entered = p.entered
    BY <1>2 DEF Run
  <2>3. p.at = "running"
    BY <1>6 DEF StepSucceeds
  <2> HIDE DEF s
  <2>4. s.results \cup s.exhausted \subseteq s.entered
    BY <1>2, <2>2, <2>3 DEF Walks
  <2>5. Walks(q)
    BY <1>2, <2>2, <2>4, TransitionWalks
  <2> HIDE DEF q
  <2> QED
    BY <1>3, <2>1, <2>5
<1>7. CASE StepFails(r)
  <2> DEFINE f == [p EXCEPT !.exhausted = p.exhausted \cup {p.current}]
  <2>1. p.at = "running"
    BY <1>7 DEF StepFails
  <2>2. /\ f \in Run /\ f.plan = p.plan /\ f.exhausted = p.exhausted \cup {p.current}
        /\ f.results = p.results /\ f.entered = p.entered /\ f.current = p.current
    BY <1>2 DEF Run
  <2> DEFINE rest == [p EXCEPT !.at = "resting"]
             out == [f EXCEPT !.at = "publishing"]
             on == Transition(f, r, CurrentStep(r).on_failure)
  <2>3. \/ planRun' = [planRun EXCEPT ![r] = rest]
        \/ planRun' = [planRun EXCEPT ![r] = out]
        \/ planRun' = [planRun EXCEPT ![r] = on]
    BY <1>7 DEF StepFails
  <2> HIDE DEF f
  <2>4. f.results \cup f.exhausted \subseteq f.entered
    BY <1>2, <2>1, <2>2 DEF Walks
  <2>5. Walks(on)
    BY <1>2, <2>2, <2>4, TransitionWalks
  <2>6. Walks(rest)
    <3>1. /\ rest.at = "resting" /\ rest.results = p.results /\ rest.exhausted = p.exhausted
          /\ rest.entered = p.entered /\ rest.current = p.current /\ rest.plan = p.plan
      BY <1>2 DEF Run
    <3> HIDE DEF rest
    <3> QED
      BY <1>2, <2>1, <3>1 DEF Walks
  <2>7. Walks(out)
    <3>1. /\ out.at = "publishing" /\ out.results = f.results /\ out.exhausted = f.exhausted
          /\ out.entered = f.entered /\ out.current = f.current /\ out.plan = f.plan
      BY <2>2 DEF Run
    <3> HIDE DEF out
    <3> QED
      BY <1>2, <2>1, <2>2, <2>4, <3>1 DEF Walks
  <2> HIDE DEF rest, out, on
  <2> QED
    BY <1>3, <2>3, <2>5, <2>6, <2>7
<1>8. CASE RetryDelayOver(r)
  <2> DEFINE q == [p EXCEPT !.at = "ready"]
  <2>1. planRun' = [planRun EXCEPT ![r] = q] /\ p.at = "resting"
    BY <1>8 DEF RetryDelayOver
  <2>2. /\ q.at = "ready" /\ q.results = p.results /\ q.exhausted = p.exhausted
        /\ q.entered = p.entered /\ q.current = p.current /\ q.plan = p.plan
    BY <1>2 DEF Run
  <2> HIDE DEF q
  <2>3. Walks(q)
    BY <1>2, <2>1, <2>2 DEF Walks
  <2> QED
    BY <1>3, <2>1, <2>3
<1>9. CASE HandleFailureToDlq(r)
  <2> DEFINE q == [p EXCEPT !.at = "done", !.letters = p.letters + 1]
  <2>1. planRun' = [planRun EXCEPT ![r] = q]
    BY <1>1, <1>9 DEF HandleFailureToDlq
  <2>2. /\ q.at = "done" /\ q.results = p.results /\ q.exhausted = p.exhausted
        /\ q.entered = p.entered
    BY <1>2 DEF Run
  <2> HIDE DEF q
  <2>3. Walks(q)
    BY <1>2, <2>2 DEF Walks
  <2> QED
    BY <1>3, <2>1, <2>3
<1> QED
  BY <1>4, <1>5, <1>6, <1>7, <1>8, <1>9 DEF PlanRunStep

\* A run of a plan keeps its types: its results and failures are of steps that were tried,
\* and where it is ready, running, resting or publishing the plan has the step.
THEOREM RunsKeepTheirTypes == StepRunnerSpec => []StepRunnerTypeOK
<1>1. StepRunnerInit => StepRunnerTypeInv
  <2> SUFFICES ASSUME StepRunnerInit, NEW r \in PlanRuns PROVE Walks(planRun[r])
    BY StepRunnerStart DEF StepRunnerTypeInv
  <2>1. /\ planRun[r].at = "new" /\ planRun[r].results = {} /\ planRun[r].exhausted = {}
    BY DEF StepRunnerInit
  <2> QED
    BY <2>1 DEF Walks
<1>2. StepRunnerTypeInv /\ [StepRunnerNext]_planRun => StepRunnerTypeInv'
  <2> SUFFICES ASSUME StepRunnerTypeInv, [StepRunnerNext]_planRun PROVE StepRunnerTypeInv'
    OBVIOUS
  <2>1. StepRunnerInv'
    BY RunsStep DEF StepRunnerTypeInv
  <2>2. CASE StepRunnerNext
    BY <2>1, <2>2, StepWalks DEF StepRunnerNext, StepRunnerTypeInv
  <2>3. CASE planRun' = planRun
    BY <2>1, <2>3 DEF StepRunnerTypeInv
  <2> QED
    BY <2>2, <2>3
<1>3. StepRunnerTypeInv => StepRunnerTypeOK
  BY DEF StepRunnerTypeInv, StepRunnerInv, StepRunnerTypeOK, Run, Walks
<1> QED
  BY <1>1, <1>2, <1>3, PTL DEF StepRunnerSpec

\* What has a notifier is called and reported; what passes was given.
DeliveryBounds ==
    /\ Len(processed) <= MaxProcessed
    /\ ToSet(delivery.called) \subseteq Notifiers
    /\ DOMAIN delivery.results \subseteq ToSet(delivery.routed)
    /\ ToSet(signals.passed) \subseteq ToSet(signals.given)

\* A finite sequence's places are finitely many numbers.
LEMMA PlacesAreFew ==
    ASSUME NEW S, NEW s \in Seq(S), NEW kept \in SUBSET DOMAIN s
    PROVE  kept \in SUBSET Nat /\ IsFiniteSet(kept)
<1>1. ASSUME NEW n \in Nat PROVE IsFiniteSet(1..n)
  BY FS_Interval
<1>2. DOMAIN s = 1..Len(s) /\ Len(s) \in Nat
  BY LenProperties
<1>3. IsFiniteSet(DOMAIN s)
  BY <1>1, <1>2
<1> QED
  BY <1>2, <1>3, FS_Subset

\* What is chosen from a sequence is of what was chosen.
LEMMA ChosenFrom ==
    ASSUME NEW S, NEW s \in Seq(S), NEW kept \in SUBSET DOMAIN s, NEW T,
           \A i \in kept : s[i] \in T
    PROVE  AtPlaces(s, kept) \in Seq(T) /\ ToSet(AtPlaces(s, kept)) \subseteq T
<1>1. kept \in SUBSET Nat /\ IsFiniteSet(kept)
  BY PlacesAreFew
<1>2. Entries(s, kept) \in SUBSET T
  BY DEF Entries
<1> DEFINE less == AtPlaces(s, kept)
<1>3. less \in Seq(T)
  BY <1>1, <1>2, AtPlacesKeeps
<1> HIDE DEF less
<1>4. ToSet(less) \subseteq T
  BY <1>3, ElementOfSeq, LenProperties DEF ToSet
<1> QED
  BY <1>3, <1>4 DEF less

\* A delivery calls notifiers only, and files results under channels it was routed to.
LEMMA DeliverBounds ==
    ASSUME NEW d, NEW hour, NEW skipped, Deliver(d, hour, skipped)
    PROVE  /\ ToSet(delivery'.called) \subseteq Notifiers
           /\ DOMAIN delivery'.results \subseteq ToSet(delivery'.routed)
<1> DEFINE routed == GetRoutingForDecision(d, hour)
           told == {i \in DOMAIN routed : routed[i] \in Notifiers}
           called == AtPlaces(routed, told)
<1>1. routed \in Seq(AnyChannel)
  BY RoutedToChannels
<1>2. /\ delivery'.routed = routed /\ delivery'.called \in {called, <<>>}
      /\ delivery'.results \in {PairResults(routed, called), <<>>}
  BY DEF Deliver
<1> HIDE DEF routed
<1>3. called \in Seq(Notifiers) /\ ToSet(called) \subseteq Notifiers
  BY <1>1, ChosenFrom
<1> HIDE DEF called
<1>4. DOMAIN PairResults(routed, called) \subseteq ToSet(routed)
  <2>1. Len(routed) \in Nat /\ Len(called) \in Nat /\ DOMAIN routed = 1..Len(routed)
    BY <1>1, <1>3, LenProperties
  <2>2. PICK m : m = Min({Len(routed), Len(called)})
    OBVIOUS
  <2>3. m \in Int /\ m <= Len(routed)
    <3>1. PICK a \in Nat, b \in Nat : a = Len(routed) /\ b = Len(called)
      <4>1. PICK a \in Nat : a = Len(routed)
        BY <2>1
      <4>2. PICK b \in Nat : b = Len(called)
        BY <2>1
      <4> QED
        BY <4>1, <4>2, SMTT(30)
    <3>2. m = Min({a, b})
      BY <2>2, <3>1
    <3>3. m = IF a <= b THEN a ELSE b
      BY <3>2, MaxOfTwo
    <3> QED
      BY <3>1, <3>3
  <2>4. DOMAIN PairResults(routed, called) = {routed[i] : i \in 1..m}
    BY <2>2 DEF PairResults
  <2>5. 1..m \subseteq DOMAIN routed
    BY <2>1, <2>3
  <2> QED
    BY <2>4, <2>5 DEF ToSet
<1>5. ToSet(<<>>) = {} /\ DOMAIN <<>> = {}
  BY DEF ToSet
<1>6. ToSet(delivery'.called) \subseteq Notifiers
  BY <1>2, <1>3, <1>5
<1>7. DOMAIN delivery'.results \subseteq ToSet(routed)
  BY <1>2, <1>4, <1>5
<1> QED
  BY <1>2, <1>6, <1>7

LEMMA DeliveryBoundsStep ==
    ASSUME RoutingInv, DeliveryBounds, [DecisionRoutingNext]_routingVars
    PROVE  DeliveryBounds'
<1> USE DEF DeliveryBounds
<1>1. ASSUME NEW raw \in RawDecisions, NEW time \in DecisionTimes, NEW hour \in HoursOfDay,
             ProcessDecision(raw, time, hour)
      PROVE  DeliveryBounds'
  <2>1. PICK rec, d, skipped :
           /\ processed' = Append(processed, rec) /\ Len(processed) < MaxProcessed
           /\ Deliver(d, hour, skipped) /\ signals' = signals
    BY <1>1 DEF ProcessDecision
  <2>2. Len(processed') = Len(processed) + 1 /\ Len(processed) \in Nat
    <3>1. processed \in Seq(Keyed \cup {rec}) /\ rec \in Keyed \cup {rec}
      BY DEF RoutingInv
    <3> QED
      BY <2>1, <3>1, AppendProperties, LenProperties
  <2>3. /\ ToSet(delivery'.called) \subseteq Notifiers
        /\ DOMAIN delivery'.results \subseteq ToSet(delivery'.routed)
    BY <2>1, DeliverBounds
  <2>4. MaxProcessed \in Nat
    BY DecisionRoutingAssumption
  <2> QED
    BY <2>1, <2>2, <2>3, <2>4
<1>2. ASSUME NEW a \in AdvisorySignals, NEW b \in AdvisorySignals, NEW policy,
             ApplyPolicies(<<a, b>>, policy), UNCHANGED <<processed, delivery>>
      PROVE  DeliveryBounds'
  <2> DEFINE given == <<a, b>>
  <2>1. signals'.given = given
        /\ \/ signals'.passed = given
           \/ \E kept \in SUBSET DOMAIN given : signals'.passed = AtPlaces(given, kept)
    BY <1>2 DEF ApplyPolicies
  <2>2. given \in Seq(AdvisorySignals)
    OBVIOUS
  <2> HIDE DEF given
  <2>3. ASSUME NEW kept \in SUBSET DOMAIN given PROVE ToSet(AtPlaces(given, kept)) \subseteq ToSet(given)
    <3>1. \A i \in kept : given[i] \in ToSet(given)
      BY DEF ToSet
    <3> QED
      BY <2>2, <3>1, ChosenFrom
  <2>4. ToSet(signals'.passed) \subseteq ToSet(signals'.given)
    BY <2>1, <2>3
  <2> QED
    BY <1>2, <2>4
<1>3. CASE UNCHANGED routingVars
  BY <1>3 DEF routingVars
<1> QED
  BY <1>1, <1>2, <1>3 DEF DecisionRoutingNext, ProcessNext, FilterNext

\* Decisions, delivery and signals keep their types: confidences are clamped, notifiers
\* are called and results filed only for routed channels, and no signal passes that was
\* not given.
THEOREM RoutesKeepTheirTypes == RoutingSpec => []DecisionRoutingTypeOK
<1>1. DecisionRoutingInit => DeliveryBounds
  <2> SUFFICES ASSUME DecisionRoutingInit PROVE DeliveryBounds
    OBVIOUS
  <2>1. /\ processed = <<>> /\ delivery.called = <<>> /\ delivery.results = <<>>
        /\ signals.passed = <<>> /\ signals.given = <<>>
    BY DEF DecisionRoutingInit
  <2>2. ToSet(<<>>) = {} /\ DOMAIN <<>> = {} /\ Len(<<>>) = 0
    BY DEF ToSet
  <2>3. MaxProcessed \in Nat
    BY DecisionRoutingAssumption
  <2> QED
    BY <2>1, <2>2, <2>3 DEF DeliveryBounds
<1>2. RoutingInv /\ DeliveryBounds => DecisionRoutingTypeOK
  <2> SUFFICES ASSUME RoutingInv, DeliveryBounds PROVE DecisionRoutingTypeOK
    OBVIOUS
  <2>1. ASSUME NEW i \in DOMAIN processed PROVE processed[i].decision.confidence \in 0..1000
    <3>1. processed[i] \in Keyed
      BY ElementOfSeq, LenProperties DEF RoutingInv
    <3>2. PICK d \in RoutedDecisions : processed[i] = [decision |-> d, key |-> ComputeDedupKey(d)]
      BY <3>1 DEF Keyed
    <3>3. processed[i].decision = d
      BY <3>2
    <3>4. d.confidence \in 0..1000
      BY DecisionsAreNormal
    <3> QED
      BY <3>3, <3>4
  <2> QED
    BY <2>1 DEF DecisionRoutingTypeOK, DeliveryBounds
<1> QED
  BY <1>1, <1>2, RoutingStart, RoutingStep, DeliveryBoundsStep, PTL DEF RoutingSpec

\* The trackers, of a manager of any capacity: no younger than the clock.
TrackedAt(last) == [id : 1..MaxIds, created_at_ms : 0..last, state : EventState]

OrchestrationBounds ==
    /\ ms \in 0..MaxMs
    /\ metrics \in [total : Nat, accepted : Nat, deferred : Nat]
    /\ overlap <= Cardinality(Callers)
    /\ trackedEvents \in Seq(TrackedAt(MaxMs))

\* What a clean-up leaves are trackers there were.
LEMMA CleanedIsTyped ==
    ASSUME trackedEvents \in Seq(TrackedAt(MaxMs))
    PROVE  Cleaned \in Seq(TrackedAt(MaxMs))
<1> DEFINE kept == DOMAIN trackedEvents \ Oldest(MaxTrackedEvents \div 10)
<1>1. Cleaned = trackedEvents \/ Cleaned = AtPlaces(trackedEvents, kept)
  BY DEF Cleaned, Without
<1>2. kept \in SUBSET DOMAIN trackedEvents
  OBVIOUS
<1> HIDE DEF kept
<1>3. \A i \in kept : trackedEvents[i] \in TrackedAt(MaxMs)
  BY <1>2, ElementOfSeq, LenProperties
<1>4. AtPlaces(trackedEvents, kept) \in Seq(TrackedAt(MaxMs))
  BY <1>2, <1>3, ChosenFrom
<1> QED
  BY <1>1, <1>4

\* Of all callers no more are between check and record than there are.
LEMMA OverlapIsBounded ==
    ASSUME CooldownInv, NEW c \in Callers, CheckCooldown(c), overlap <= Cardinality(Callers)
    PROVE  overlap' <= Cardinality(Callers)
<1>1. overlap \in Nat /\ Cardinality(Callers) \in Nat
  BY OrchestrationAssumption, FS_CardinalityType DEF CooldownInv, CooldownTypes
<1>2. CASE overlap' = overlap
  BY <1>2
<1>3. CASE overlap' = Max({overlap, Cardinality(Busy')})
  <2>1. Busy' \subseteq Callers
    BY DEF Busy
  <2>2. Cardinality(Busy') \in Nat /\ Cardinality(Busy') <= Cardinality(Callers)
    BY <2>1, OrchestrationAssumption, FS_Subset, BusyIsFinite
  <2>3. PICK a \in Nat, b \in Nat : a = overlap /\ b = Cardinality(Busy')
    <3>1. PICK a \in Nat : a = overlap
      BY <1>1
    <3>2. PICK b \in Nat : b = Cardinality(Busy')
      BY <2>2
    <3> QED
      BY <3>1, <3>2
  <2>4. overlap' = IF a >= b THEN a ELSE b
    BY <1>3, <2>3, MaxOfTwo
  <2> QED
    BY <1>1, <2>2, <2>3, <2>4
<1> QED
  BY <1>2, <1>3 DEF CheckCooldown, Busy

LEMMA OrchestrationBoundsStep ==
    ASSUME CooldownInv, OrchestrationBounds, [CooldownNext \/ CorrelationNext]_orchestrationVars
    PROVE  OrchestrationBounds'
<1> USE DEF OrchestrationBounds
<1>1. ASSUME NEW status \in {"accepted", "deferred"}, AddEvent(status)
      PROVE  metrics' \in [total : Nat, accepted : Nat, deferred : Nat]
  <2>1. metrics.total \in Nat /\ metrics.accepted \in Nat /\ metrics.deferred \in Nat
    OBVIOUS
  <2>2. metrics = [total |-> metrics.total, accepted |-> metrics.accepted, deferred |-> metrics.deferred]
    OBVIOUS
  <2>3. CASE status = "accepted"
    <3>1. metrics' = [total |-> metrics.total + 1, accepted |-> metrics.accepted + 1,
                      deferred |-> metrics.deferred]
      BY <1>1, <2>2, <2>3 DEF AddEvent
    <3> QED
      BY <2>1, <3>1
  <2>4. CASE status = "deferred"
    <3>1. metrics' = [total |-> metrics.total + 1, accepted |-> metrics.accepted,
                      deferred |-> metrics.deferred + 1]
      BY <1>1, <2>2, <2>4 DEF AddEvent
    <3> QED
      BY <2>1, <3>1
  <2> QED
    BY <2>3, <2>4
<1>2. ASSUME NEW c \in Callers, CallerStep(c) PROVE OrchestrationBounds'
  <2>1. UNCHANGED <<ms, trackedEvents>>
    BY <1>2 DEF CallerStep
  <2>2. CASE CheckCooldown(c)
    <3>1. overlap' <= Cardinality(Callers)
      BY <2>2, OverlapIsBounded
    <3>2. metrics' = metrics \/ AddEvent("deferred")
      BY <2>2 DEF CheckCooldown
    <3> QED
      BY <1>1, <2>1, <3>1, <3>2
  <2>3. CASE CheckSessionWindow(c) \/ CheckEventLimit(c) \/ RecordEvent(c)
    <3>1. overlap' = overlap /\ (metrics' = metrics \/ AddEvent("deferred") \/ AddEvent("accepted"))
      BY <2>3 DEF CheckSessionWindow, CheckEventLimit, RecordEvent, Refused, Past
    <3> QED
      BY <1>1, <2>1, <3>1
  <2> QED
    BY <1>2, <2>2, <2>3 DEF CallerStep
<1>3. ASSUME NEW last \in {MaxMs, MaxStamp}, MsTick(last) PROVE OrchestrationBounds'
  <2>1. last \in 0..MaxMs /\ MaxMs \in Nat
    BY OrchestrationAssumption
  <2>2. ms' \in 0..MaxMs
    BY <1>3, <2>1 DEF MsTick
  <2> QED
    BY <1>3, <2>2 DEF MsTick, cooldownVars
<1>4. ASSUME NEW id \in 1..MaxIds, CreateEventTracker(id) PROVE OrchestrationBounds'
  <2> DEFINE new == [id |-> id, created_at_ms |-> ms, state |-> "pending"]
             at == {i \in DOMAIN Cleaned : Cleaned[i].id = id}
             some == CHOOSE i \in at : TRUE
  <2>1. UNCHANGED <<ms, cooldownVars>>
        /\ trackedEvents' = IF at = {} THEN Append(Cleaned, new) ELSE [Cleaned EXCEPT ![some] = new]
    BY <1>4 DEF CreateEventTracker
  <2>2. new \in TrackedAt(MaxMs)
    BY DEF TrackedAt, EventState
  <2>3. Cleaned \in Seq(TrackedAt(MaxMs))
    BY CleanedIsTyped
  <2> HIDE DEF new
  <2>4. CASE at = {}
    BY <2>1, <2>2, <2>3, <2>4, AppendProperties DEF cooldownVars
  <2>5. CASE at # {}
    <3>1. some \in DOMAIN Cleaned
      BY <2>5
    <3>2. trackedEvents' = [Cleaned EXCEPT ![some] = new]
      BY <2>1, <2>5
    <3> HIDE DEF some
    <3>3. trackedEvents' \in Seq(TrackedAt(MaxMs))
      BY <2>2, <2>3, <3>1, <3>2, ExceptSeq
    <3> QED
      BY <2>1, <3>3 DEF cooldownVars
  <2> QED
    BY <2>4, <2>5
<1>5. ASSUME NEW state \in {"deferred", "processed"}, NEW id, UpdateEventState(id, state)
      PROVE  OrchestrationBounds'
  <2>1. PICK i \in DOMAIN trackedEvents :
          trackedEvents' = [trackedEvents EXCEPT ![i].state = state] /\ UNCHANGED <<ms, cooldownVars>>
    BY <1>5 DEF UpdateEventState
  <2> DEFINE new == [trackedEvents[i] EXCEPT !.state = state]
  <2>2. trackedEvents[i] \in TrackedAt(MaxMs)
    BY ElementOfSeq, LenProperties
  <2>3. new \in TrackedAt(MaxMs)
    BY <2>2 DEF TrackedAt, EventState
  <2>4. trackedEvents' = [trackedEvents EXCEPT ![i] = new]
    BY <2>1
  <2> HIDE DEF new
  <2>5. trackedEvents' \in Seq(TrackedAt(MaxMs))
    BY <2>3, <2>4, ExceptSeq
  <2> QED
    BY <2>1, <2>5 DEF cooldownVars
<1>6. CASE UNCHANGED orchestrationVars
  BY <1>6 DEF orchestrationVars, cooldownVars
<1> QED
  BY <1>2, <1>3, <1>4, <1>5, <1>6 DEF CooldownNext, CorrelationNext

\* Clock, cooldown, callers, metrics and trackers keep their types, for a manager of any
\* capacity: no more tasks overlap than there are, and no tracker is of a time to come.
THEOREM ManagersKeepTheirTypes == OrchestrationSpec => []OrchestrationTypeOK
<1>1. OrchestrationInit => OrchestrationBounds
  <2> SUFFICES ASSUME OrchestrationInit PROVE OrchestrationBounds
    OBVIOUS
  <2>1. Cardinality(Callers) \in Nat /\ MaxMs \in Nat
    BY OrchestrationAssumption, FS_CardinalityType
  <2> QED
    BY <2>1, EmptySeq DEF OrchestrationInit, OrchestrationBounds
<1>2. CooldownInv /\ OrchestrationBounds => OrchestrationTypeOK
  <2> SUFFICES ASSUME CooldownInv, OrchestrationBounds PROVE OrchestrationTypeOK
    OBVIOUS
  <2>1. \A i \in DOMAIN trackedEvents :
          trackedEvents[i] \in [id : 1..MaxIds, created_at_ms : 0..MaxMs, state : EventState]
    BY ElementOfSeq, LenProperties, ZenonT(60) DEF OrchestrationBounds, TrackedAt
  <2>2. overlap \in 0..Cardinality(Callers)
    BY OrchestrationAssumption, FS_CardinalityType DEF OrchestrationBounds, CooldownInv, CooldownTypes
  <2> QED
    BY <2>1, <2>2 DEF OrchestrationTypeOK, OrchestrationBounds, CooldownInv, CooldownTypes
<1> QED
  BY <1>1, <1>2, CooldownStart, CooldownStep, OrchestrationBoundsStep, PTL DEF OrchestrationSpec
=============================================================================
