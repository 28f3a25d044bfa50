---------------------------- MODULE Orchestration ----------------------------
(***************************************************************************)
(* orchestration_advanced.py: cooldown, session window and event limit of  *)
(* one event type, asked by several tasks at once, and the trackers of     *)
(* correlated events.  Every method holds its lock for its whole body, so  *)
(* a call is one step; a task gives up the lock between two calls.         *)
(***************************************************************************)
EXTENDS Optionals

CONSTANTS
    Callers,          \* tasks that check the constraints and record an event
    CooldownMs,       \* CooldownConfig.cooldown_ms
    MaxEvents,        \* SessionWindow.max_events
    ActiveHours,      \* the times at which SessionWindow.is_active()
    MaxTrackedEvents, \* EventCorrelationManager.max_tracked_events
    MaxIds,           \* bound: correlation ids 1..MaxIds
    MaxMs,            \* bound: the clock stops there, when the cooldown is used
    MaxStamp,         \* bound: ... and when events are tracked
    MaxRounds         \* bound: checks by one caller

ASSUME OrchestrationAssumption ==
    /\ IsFiniteSet(Callers)
    /\ CooldownMs \in Nat /\ MaxEvents \in Nat /\ MaxMs \in Nat /\ MaxRounds \in Nat
    /\ MaxTrackedEvents \in Nat /\ MaxIds \in Nat /\ MaxStamp \in 0..MaxMs

VARIABLES
    ms,              \* the clock
    tracker,         \* CooldownTracker of the event type
    caller,          \* where each task is
    metrics,         \* OrchestrationMetrics
    overlap,         \* history: most tasks at once between check and record
    windows,         \* history: the times at which windows began
    trackedEvents    \* EventCorrelationManager._events, in the order of the dict

cooldownVars == <<tracker, caller, metrics, overlap, windows>>
orchestrationVars == <<ms, cooldownVars, trackedEvents>>

EventState == {"pending", "deferred", "escalated", "processed", "discarded"}
Caller == [at : {"idle", "session", "limit", "admitted"}, window : Nat, rounds : 0..MaxRounds]

OrchestrationTypeOK ==
    /\ ms \in 0..MaxMs
    /\ tracker \in [cooldown_until_ms : Nat, events_in_window : Nat]
    /\ caller \in [Callers -> Caller]
    /\ metrics \in [total : Nat, accepted : Nat, deferred : Nat]
    /\ overlap \in 0..Cardinality(Callers) /\ windows \in Seq(Nat)
    /\ \A i \in DOMAIN trackedEvents :
          trackedEvents[i] \in [id : 1..MaxIds, created_at_ms : 0..MaxMs, state : EventState]

OrchestrationInit ==
    /\ ms = 0
    /\ tracker = [cooldown_until_ms |-> 0, events_in_window |-> 0]
    /\ caller = [c \in Callers |-> [at |-> "idle", window |-> 0, rounds |-> 0]]
    /\ metrics = [total |-> 0, accepted |-> 0, deferred |-> 0]
    /\ overlap = 0 /\ windows = <<>>
    /\ trackedEvents = <<>>

-----------------------------------------------------------------------------
(* Cooldown and session window *)

IsCoolingDown == ms < tracker.cooldown_until_ms

\* OrchestrationMetrics.add_event()
AddEvent(status) == metrics' = [metrics EXCEPT !.total = @ + 1, ![status] = @ + 1]

Refused(c) ==
    /\ caller' = [caller EXCEPT ![c].at = "idle"]
    /\ AddEvent("deferred")
    /\ UNCHANGED <<tracker, overlap, windows>>

Past(c, place) ==
    /\ caller' = [caller EXCEPT ![c].at = place]
    /\ UNCHANGED <<tracker, metrics, windows>>

CheckCooldown(c) ==
    /\ caller[c].at = "idle" /\ caller[c].rounds < MaxRounds
    /\ IF IsCoolingDown
       THEN /\ caller' = [caller EXCEPT ![c].rounds = @ + 1]
            /\ AddEvent("deferred") /\ UNCHANGED <<tracker, overlap, windows>>
       ELSE /\ caller' = [caller EXCEPT ![c] =
                    [at |-> "session", window |-> Len(windows), rounds |-> @.rounds + 1]]
            /\ overlap' = Max({overlap, Cardinality({d \in Callers : caller'[d].at # "idle"})})
            /\ UNCHANGED <<tracker, metrics, windows>>

CheckSessionWindow(c) ==
    /\ caller[c].at = "session"
    /\ IF ms \in ActiveHours THEN Past(c, "limit") /\ UNCHANGED overlap ELSE Refused(c)

CheckEventLimit(c) ==
    /\ caller[c].at = "limit"
    /\ IF tracker.events_in_window < MaxEvents
       THEN Past(c, "admitted") /\ UNCHANGED overlap
       ELSE Refused(c)

ResetWindow_mut_keepsCount(t) == [t EXCEPT !.cooldown_until_ms = ms + CooldownMs]
ResetWindow_mut_notFromNow(t) == [cooldown_until_ms |-> CooldownMs, events_in_window |-> 0]
ResetWindow(t) == [cooldown_until_ms |-> ms + CooldownMs, events_in_window |-> 0]

\* record_event(): the event that begins a window is not counted in it.
RecordEvent(c) ==
    /\ caller[c].at = "admitted"
    /\ LET counted == [tracker EXCEPT !.events_in_window = @ + 1]
       IN  tracker' = IF IsCoolingDown THEN counted ELSE ResetWindow(counted)
    /\ windows' = IF IsCoolingDown THEN windows ELSE Append(windows, ms)
    /\ caller' = [caller EXCEPT ![c].at = "idle"]
    /\ AddEvent("accepted")
    /\ UNCHANGED overlap

-----------------------------------------------------------------------------
(* EventCorrelationManager *)

\* The positions of the n oldest trackers; sorted() is stable.
Oldest_mut_newest(n) ==
    {i \in DOMAIN trackedEvents : i > Len(trackedEvents) - n}
Oldest(n) ==
    LET before(i, j) == \/ trackedEvents[i].created_at_ms < trackedEvents[j].created_at_ms
                        \/ trackedEvents[i].created_at_ms = trackedEvents[j].created_at_ms /\ i < j
    IN  {j \in DOMAIN trackedEvents :
            Cardinality({i \in DOMAIN trackedEvents : before(i, j)}) < n}

\* What stays when the entries at some positions are deleted from the dict.
Without(gone) == AtPlaces(trackedEvents, DOMAIN trackedEvents \ gone)

\* A full manager first forgets a tenth of its capacity, rounded down.
Cleaned_mut_late ==
    IF Len(trackedEvents) <= MaxTrackedEvents THEN trackedEvents
    ELSE Without(Oldest(MaxTrackedEvents \div 10))
Cleaned ==
    IF Len(trackedEvents) < MaxTrackedEvents THEN trackedEvents
    ELSE Without(Oldest(MaxTrackedEvents \div 10))

\* An id that is tracked keeps its place in the dict and starts anew.
CreateEventTracker(id) ==
    LET new == [id |-> id, created_at_ms |-> ms, state |-> "pending"]
        at(s) == {i \in DOMAIN s : s[i].id = id}
    IN  /\ trackedEvents' =
              IF at(Cleaned) = {} THEN Append(Cleaned, new)
              ELSE [Cleaned EXCEPT ![CHOOSE i \in at(Cleaned) : TRUE] = new]
        /\ UNCHANGED <<ms, cooldownVars>>

UpdateEventState(id, state) ==
    /\ \E i \in DOMAIN trackedEvents :
          /\ trackedEvents[i].id = id /\ trackedEvents[i].state # state
          /\ trackedEvents' = [trackedEvents EXCEPT ![i].state = state]
    /\ UNCHANGED <<ms, cooldownVars>>

MsTick(last) == ms < last /\ ms' = ms + 1 /\ UNCHANGED <<cooldownVars, trackedEvents>>

CallerStep(c) ==
    /\ CheckCooldown(c) \/ CheckSessionWindow(c) \/ CheckEventLimit(c) \/ RecordEvent(c)
    /\ UNCHANGED <<ms, trackedEvents>>
CooldownNext == MsTick(MaxMs) \/ \E c \in Callers : CallerStep(c)

\* Ids come in their order; only the first comes twice and changes its state.
CorrelationNext ==
    \/ MsTick(MaxStamp)
    \/ \E id \in 1..MaxIds :
          /\ id = 1 \/ \A i \in DOMAIN trackedEvents : trackedEvents[i].id < id
          /\ id > 2 => \E i \in DOMAIN trackedEvents : trackedEvents[i].id = id - 1
          /\ CreateEventTracker(id)
    \/ \E state \in {"deferred", "processed"} : UpdateEventState(1, state)

-----------------------------------------------------------------------------
(* Properties *)

\* Checks that follow one another never put two events into one cooldown: an
\* event recorded less than cooldown_ms after a window began was checked by its
\* task before that window.
EventsAreSpaced ==
    \A c \in Callers :
        /\ caller[c].at = "admitted" /\ caller'[c].at = "idle"
        /\ windows # <<>> /\ ms < Last(windows) + CooldownMs
        => caller[c].window < Len(windows)

\* check_event_limit() goes by a counter that only record_event() resets: once
\* the limit is reached when the cooldown is over, every check is refused for
\* ever.  That takes more than max_events tasks between check and record at once.
LockoutNeedsOverlap ==
    ~IsCoolingDown /\ tracker.events_in_window >= MaxEvents => overlap > MaxEvents

\* The manager never holds more trackers than max_tracked_events.
TrackersAreBounded == Len(trackedEvents) <= MaxTrackedEvents

\* A tracker that create_event_tracker() discards is no younger than any other
\* that stays: events under way are not forgotten for older ones.
EvictsOldest ==
    LET ids(s) == {s[i].id : i \in DOMAIN s}
    IN  \A i, j \in DOMAIN trackedEvents :
           /\ trackedEvents[i].id \notin ids(trackedEvents')
           /\ \E k \in DOMAIN trackedEvents' : trackedEvents'[k] = trackedEvents[j]
           => trackedEvents[i].created_at_ms <= trackedEvents[j].created_at_ms

\* What every call of the cooldown and correlation managers keeps.
OrchestrationHolds ==
    [][/\ EventsAreSpaced /\ EvictsOldest
       /\ LockoutNeedsOverlap' /\ TrackersAreBounded']_orchestrationVars
=============================================================================
