------------------------------- MODULE Timeline -------------------------------
(***************************************************************************)
(* DecisionTimelineService: threads record events.  record_event() reads   *)
(* the clock and the event counter before it takes the lock.               *)
(***************************************************************************)
EXTENDS Integers, Sequences, FiniteSets

CONSTANTS
    Recorders,       \* threads
    CorrelationIds,
    MaxRecorded,     \* bound: calls of record_event() by all threads
    MaxInstant       \* bound: the clock stops there

ASSUME TimelineAssumption == MaxRecorded \in Nat /\ MaxInstant \in Nat

VARIABLES
    instant,         \* the clock
    timelines,       \* _timelines
    eventCount,      \* _event_count
    recorder,        \* thread -> the event it is building: a sequence of at most one
    begun,           \* history: calls begun
    overlapped       \* history: two calls ever overlapped
timelineVars == <<instant, timelines, eventCount, recorder, begun, overlapped>>

TimelineTypeOK ==
    /\ instant \in 0..MaxInstant /\ eventCount \in 0..MaxRecorded
    /\ begun \in 0..MaxRecorded /\ overlapped \in BOOLEAN
    /\ DOMAIN timelines = CorrelationIds
    /\ \A t \in Recorders, i \in 1..2 : i <= Len(recorder[t]) =>
          i = 1 /\ recorder[t][i].sequence_number \in -1..MaxRecorded

TimelineInit ==
    /\ instant = 0 /\ eventCount = 0 /\ begun = 0 /\ overlapped = FALSE
    /\ timelines = [c \in CorrelationIds |-> <<>>]
    /\ recorder = [t \in Recorders |-> <<>>]

Recording == \E t \in Recorders : recorder[t] # <<>>

\* record_event() with arguments that it takes: the clock first, ...
BuildEvent(t, c) ==
    /\ recorder[t] = <<>> /\ begun < MaxRecorded
    /\ recorder' = [recorder EXCEPT ![t] =
          <<[correlation_id |-> c, timestamp |-> instant, sequence_number |-> -1]>>]
    /\ begun' = begun + 1 /\ overlapped' = (overlapped \/ Recording)
    /\ UNCHANGED <<instant, timelines, eventCount>>

\* ... then the counter, ...
NumberEvent(t) ==
    /\ recorder[t] # <<>> /\ recorder[t][1].sequence_number = -1
    /\ recorder' = [recorder EXCEPT ![t][1].sequence_number = eventCount]
    /\ UNCHANGED <<instant, timelines, eventCount, begun, overlapped>>

\* ... then, under the lock, the list and the counter.
AppendEvent_mut_stale(t) ==
    /\ recorder[t] # <<>> /\ recorder[t][1].sequence_number >= 0
    /\ timelines' = [timelines EXCEPT ![recorder[t][1].correlation_id] = Append(@, recorder[t][1])]
    /\ eventCount' = recorder[t][1].sequence_number + 1
    /\ recorder' = [recorder EXCEPT ![t] = <<>>]
    /\ UNCHANGED <<instant, begun, overlapped>>
AppendEvent_mut_perId(t) ==
    /\ recorder[t] # <<>> /\ recorder[t][1].sequence_number >= 0
    /\ timelines' = [timelines EXCEPT ![recorder[t][1].correlation_id] = Append(@, recorder[t][1])]
    /\ eventCount' = Len(timelines'[recorder[t][1].correlation_id])
    /\ recorder' = [recorder EXCEPT ![t] = <<>>]
    /\ UNCHANGED <<instant, begun, overlapped>>
AppendEvent(t) ==
    /\ recorder[t] # <<>> /\ recorder[t][1].sequence_number >= 0
    /\ timelines' = [timelines EXCEPT ![recorder[t][1].correlation_id] = Append(@, recorder[t][1])]
    /\ eventCount' = eventCount + 1
    /\ recorder' = [recorder EXCEPT ![t] = <<>>]
    /\ UNCHANGED <<instant, begun, overlapped>>

\* clear_all(); an event that is under way keeps the number it has got.
ClearAll ==
    /\ eventCount > 0 /\ eventCount' = 0
    /\ timelines' = [c \in CorrelationIds |-> <<>>]
    /\ overlapped' = (overlapped \/ Recording)
    /\ UNCHANGED <<instant, recorder, begun>>

InstantPasses ==
    /\ instant < MaxInstant /\ instant' = instant + 1
    /\ UNCHANGED <<timelines, eventCount, recorder, begun, overlapped>>

TimelineNext ==
    \/ \E t \in Recorders :
          NumberEvent(t) \/ AppendEvent(t) \/ \E c \in CorrelationIds : BuildEvent(t, c)
    \/ ClearAll \/ InstantPasses

\* validate_timeline(): the positions at which it finds an issue
ValidateTimeline(s) ==
    {i \in 2..Len(s) : \/ s[i].sequence_number < s[i - 1].sequence_number
                       \/ s[i].timestamp < s[i - 1].timestamp}

\* get_event_count() and get_statistics() count what is in the timelines.
GetEventCount == Cardinality(UNION {{c} \X DOMAIN timelines[c] : c \in CorrelationIds})

-----------------------------------------------------------------------------
(* Properties *)

\* However the threads interleave, the counter that numbers the events is the
\* number of the events that the timelines hold: the lock loses no update.
CountIsExact == eventCount = GetEventCount

\* As long as no two calls have overlapped, the events of all timelines together
\* carry the numbers 0, 1, ... once each, and validate_timeline() finds no issue.
SequenceNumbersAreTotal ==
    ~overlapped =>
        /\ \A c \in CorrelationIds : ValidateTimeline(timelines[c]) = {}
        /\ UNION {{timelines[c][i].sequence_number : i \in DOMAIN timelines[c]} : c \in CorrelationIds}
             = 0..(eventCount - 1)

\* What the timeline promises of its numbers
TimelineIsSound == CountIsExact /\ SequenceNumbersAreTotal
=============================================================================
