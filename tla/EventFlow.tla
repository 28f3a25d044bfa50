------------------------------ MODULE EventFlow ------------------------------
(***************************************************************************)
(* DecisionOrchestrator: handle_event(), which answers one event, and      *)
(* run_from_queue(), which works through a queue, both of which end in     *)
(* process_decision().  Several events are handled at once and the queue   *)
(* has one consumer; policies, the clock, the database and Redis change    *)
(* between any two awaits.  What becomes of a decision that is kept for a  *)
(* later retry is the subject of PersistDlq.                               *)
(***************************************************************************)
EXTENDS PolicyGates, PlanContract

CONSTANTS
    Events,          \* calls of handle_event()
    Queued,          \* items of the queue, in the order <<...>> of QueueOrder
    QueueOrder,
    Decisions,       \* names of decisions -> decisions
    Forms,           \* assignments of a name, or "idle", to every event and item
    Trades,          \* the closed trades in the database, the newest first
    Changes,         \* what may change: pairs of a policy name and its new value
    QuietHours,      \* times at which _is_quiet_hours() is true
    Modes,           \* modes the reasoning manager knows; {}: there is no manager
    PlansEnabled,    \* ENABLE_PLAN_EXECUTOR
    Notifiers,       \* channels that have a notifier
    MaxTime,         \* bound: the clock stops there
    MaxChanges,      \* bound: changes of the policies
    MaxFaults        \* bound: failures of the database and of Redis

Tasks == Events \cup Queued
PolicyNames == {"killzone", "regime", "cooldown", "exposure", "confidence_threshold"}
Gates == <<"allowlist", "killzone", "regime", "cooldown", "exposure", "outcome",
           "memory", "recall">>

ASSUME FlowAssumption ==
    /\ IsFiniteSet(Events \cup Queued)
    /\ Events \cap Queued = {} /\ ToSet(QueueOrder) = Queued /\ IsInjective(QueueOrder)
    /\ Forms \subseteq [Tasks -> DOMAIN Decisions \cup {"idle"}]
    /\ MaxTime \in Nat /\ MaxChanges \in Nat /\ MaxFaults \in Nat

VARIABLES
    decision,        \* task -> the name of its decision
    now,
    policy_config,   \* _policy_config: policy -> its value, if set
    file,            \* what the allowlist file holds: an optional set of keys
    loader,          \* the AllowlistLoader
    task,            \* task -> where it is, and what it has got
    counters,        \* _policy_counters
    audit,           \* _policy_audit, by task: the reasons, in their order
    kept,            \* task -> entries in the dead letter queue, by their error
    stored,          \* tasks whose decision is in the database
    dedup,           \* keys that Redis holds
    sent,            \* history: task -> channels that were notified
    traded,          \* tasks for which a paper trade was recorded
    standing,        \* history: refusals that have stood since the check began
    changes, faults

vars == <<decision, now, policy_config, file, loader, task, counters, audit, kept,
          stored, dedup, sent, traded, standing, changes, faults>>
policyVars == <<now, policy_config, file, changes>>
outVars == <<stored, sent, traded, dedup>>

\* where a task can be; "checking" and "rechecking" have a gate to ask next.
Places == {"new", "checking", "selecting", "reasoning", "planning", "rechecking",
           "judging", "trading", "deduping", "persisting", "notifying", "done"}
Statuses == {"none", "accepted", "rejected", "deferred", "error", "task_done"}
Task == [at : Places, gate : DOMAIN Gates, status : Statuses,
         dedup : {"none", "first", "duplicate", "unknown"},
         signals : {"none", "signals", "timeout", "error"}]

TypeOK ==
    /\ decision \in Forms
    /\ now \in 0..MaxTime
    /\ DOMAIN policy_config = PolicyNames
    /\ loader.loaded \in BOOLEAN
    /\ task \in [Tasks -> Task]
    /\ counters \in [{"pass", "veto", "defer"} -> Nat]
    /\ DOMAIN audit = Tasks
    /\ kept \in [Tasks -> [policy_defer : Nat, failure : 0..1]]
    /\ stored \subseteq Tasks /\ traded \subseteq Tasks
    /\ sent \in [Tasks -> SUBSET Notifiers]
    /\ standing \in [Tasks -> SUBSET PolicyNames]
    /\ changes \in 0..MaxChanges /\ faults \in 0..MaxFaults

\* __init__() and setup()
Init ==
    /\ decision \in Forms
    /\ now = 0
    /\ policy_config = [killzone |-> Unset(FALSE), regime |-> Unset("normal"),
            cooldown |-> Unset(0), exposure |-> Unset([exposure |-> 0, max |-> 0]),
            confidence_threshold |-> Unset(0)]
    /\ file = {}
    /\ loader = [loaded |-> FALSE, keys |-> {}]
    /\ task = [t \in Tasks |-> [at |-> IF decision[t] = "idle" THEN "done" ELSE "new", gate |-> 1, status |-> "none",
                                dedup |-> "none", signals |-> "none"]]
    /\ counters = [c \in {"pass", "veto", "defer"} |-> 0]
    /\ audit = [t \in Tasks |-> <<>>]
    /\ kept = [t \in Tasks |-> [policy_defer |-> 0, failure |-> 0]]
    /\ stored = {} /\ traded = {} /\ dedup = {}
    /\ sent = [t \in Tasks |-> {}]
    /\ standing = [t \in Tasks |-> {}]
    /\ changes = 0 /\ faults = 0

D(t) == Decisions[decision[t]]
Go(t, place) == task' = [task EXCEPT ![t].at = place, ![t].gate = 1]
Answer(t, status) == task' = [task EXCEPT ![t].at = "done", ![t].status = status]

\* A failure of the database or of Redis, of which there are at most MaxFaults.
Works(up) == (up \/ faults < MaxFaults) /\ faults' = IF up THEN faults ELSE faults + 1

-----------------------------------------------------------------------------
(* pre_reasoning_policy_check(): one gate at a time *)

\* What the next gate of task t says; without the database the memory gates
\* say nothing.
Verdicts(t, databaseUp) ==
    LET d == D(t)
        gate == Gates[task[t].gate]
        trades == IF databaseUp THEN Trades ELSE <<>>
    IN  CASE gate = "allowlist" -> AllowlistGate(d, LoadedForGate(loader, file))
          [] gate = "killzone" -> KillzoneGate(d, policy_config)
          [] gate = "regime" -> RegimeGate(d, policy_config)
          [] gate = "cooldown" -> CooldownGate(d, policy_config, now)
          [] gate = "exposure" -> ExposureGate(d, policy_config)
          [] gate = "outcome" -> OutcomeGate(d)
          [] gate = "memory" -> MemoryGate(d, trades)
          [] gate = "recall" -> RecallGate(d, trades)

\* The refusals of the policy store that hold at the moment.
Refusals(d, config, time) ==
    {name \in PolicyNames :
        \/ name = "killzone" /\ KillzoneGate(d, config) # {}
        \/ name = "regime" /\ RegimeGate(d, config) # {}
        \/ name = "cooldown" /\ CooldownGate(d, config, time) # {}
        \/ name = "exposure" /\ ExposureGate(d, config) # {}}

\* The last gate that lets pass counts a pass; the recall gate's own pass and
\* the gates before it do not.
Record_mut_noEntry(t, verdicts) ==
    /\ counters' = [c \in DOMAIN counters |->
            counters[c] + Cardinality({v \in verdicts : v.result = c /\ v.reason # "recalled"})]
    /\ audit' = [audit EXCEPT ![t] = @ \o SetToSeq({v \in verdicts : v.result = "defer"})]
    /\ kept' = [kept EXCEPT ![t].policy_defer =
                    @ + Cardinality({v \in verdicts : v.result = "defer"})]
Record_mut_keepsVetoes(t, verdicts) ==
    /\ counters' = [c \in DOMAIN counters |->
            counters[c] + Cardinality({v \in verdicts : v.result = c /\ v.reason # "recalled"})]
    /\ audit' = [audit EXCEPT ![t] = @ \o SetToSeq({v \in verdicts : v.result # "pass"})]
    /\ kept' = [kept EXCEPT ![t].policy_defer =
                    @ + Cardinality({v \in verdicts : v.result # "pass"})]
Record(t, verdicts) ==
    IF \E v \in verdicts : v.result # "pass"
    THEN \E v \in verdicts :
            /\ counters' = [counters EXCEPT ![v.result] = @ + 1]
            /\ audit' = [audit EXCEPT ![t] = Append(@, v)]
            /\ kept' = [kept EXCEPT ![t].policy_defer =
                                        IF v.result = "defer" THEN @ + 1 ELSE @]
    ELSE /\ counters' = [counters EXCEPT !["pass"] =
                IF verdicts = {} /\ task[t].gate = Len(Gates) THEN @ + 1 ELSE @]
         /\ UNCHANGED <<audit, kept>>

\* What follows a check in handle_event(): a refusal is the answer.
AfterCheck_mut_defersGoOn(t, verdicts) ==
    IF \E v \in verdicts : v.result = "veto" THEN Answer(t, "rejected")
    ELSE IF task[t].gate < Len(Gates) /\ verdicts = {}
         THEN task' = [task EXCEPT ![t].gate = @ + 1]
         ELSE Go(t, "selecting")
AfterCheck(t, verdicts) ==
    IF \E v \in verdicts : v.result = "veto" THEN Answer(t, "rejected")
    ELSE IF \E v \in verdicts : v.result = "defer" THEN Answer(t, "deferred")
    ELSE IF verdicts = {} /\ task[t].gate < Len(Gates)
         THEN task' = [task EXCEPT ![t].gate = @ + 1]
         ELSE Go(t, "selecting")

\* In run_from_queue() and process_decision() every outcome is passed over.
AfterIgnoredCheck(t, verdicts, place) ==
    IF verdicts = {} /\ task[t].gate < Len(Gates)
    THEN task' = [task EXCEPT ![t].gate = @ + 1]
    ELSE Go(t, place)

AskGate(t) ==
    /\ task[t].at \in {"checking", "rechecking"}
    /\ \E up \in (IF Gates[task[t].gate] \in {"memory", "recall"} THEN BOOLEAN ELSE {TRUE}) :
          /\ Works(up)
          /\ Record(t, Verdicts(t, up))
          /\ IF task[t].at = "rechecking" THEN AfterIgnoredCheck(t, Verdicts(t, up), "judging")
             ELSE IF t \in Queued THEN AfterIgnoredCheck(t, Verdicts(t, up), "planning")
             ELSE AfterCheck(t, Verdicts(t, up))
    /\ loader' = IF Gates[task[t].gate] = "allowlist" THEN LoadedForGate(loader, file)
                 ELSE loader
    /\ UNCHANGED <<decision, policyVars, outVars, standing>>

-----------------------------------------------------------------------------
(* handle_event() *)

Begin(t) ==
    /\ Go(t, "checking")
    /\ standing' = [standing EXCEPT ![t] = Refusals(D(t), policy_config, now)]
    /\ UNCHANGED <<decision, policyVars, outVars, loader, counters, audit, kept, faults>>

\* _is_quiet_hours() is asked under the lock, before the type of the event.
HandleEvent(t) ==
    /\ t \in Events /\ task[t].at = "new"
    /\ now \notin QuietHours /\ D(t).event_type = "decision"
    /\ Begin(t)

\* execute_plan_if_enabled(): {} of a disabled executor and of every exception
PlanResults(t) ==
    IF ~PlansEnabled THEN {}
    ELSE UNION {Execute(p) : p \in D(t).plan}

AnswerAtOnce(t) ==
    /\ t \in Events /\ task[t].at = "new"
    /\ \/ now \in QuietHours /\ Answer(t, "deferred")
       \/ /\ now \notin QuietHours /\ D(t).event_type = "unsupported"
          /\ Answer(t, "rejected")
       \/ /\ now \notin QuietHours /\ D(t).event_type = "plan_execution"
          /\ Answer(t, IF D(t).plan = {} THEN "error"
                       ELSE IF \E r \in PlanResults(t) : r.status = "failure" THEN "rejected"
                       ELSE "accepted")
    /\ UNCHANGED <<decision, policyVars, outVars, loader, counters, audit, kept, standing, faults>>

Pass(t, place) ==
    /\ Go(t, place)
    /\ UNCHANGED <<decision, policyVars, outVars, loader, counters, audit, kept, standing, faults>>

\* _select_reasoning_mode(), when there is a reasoning manager
SelectReasoningMode(t) ==
    /\ task[t].at = "selecting"
    /\ IF Modes = {} THEN Pass(t, "planning")
       ELSE IF SelectMode(D(t).bias, D(t).position_open) # {}
            THEN Pass(t, "reasoning")
            ELSE /\ Answer(t, "rejected")
                 /\ UNCHANGED <<decision, policyVars, outVars, loader, counters, audit, kept,
                                standing, faults>>

\* ReasoningManager.reason() answers with signals, whatever its function does.
Reason_mut_noAnswer(t) ==
    /\ task[t].at = "reasoning"
    /\ \E outcome \in {"signals", "timeout", "exception"} :
          task' = [task EXCEPT ![t].at = "planning", ![t].signals = outcome]
    /\ UNCHANGED <<decision, policyVars, outVars, loader, counters, audit, kept, standing, faults>>
Reason_mut_retries(t) ==
    /\ task[t].at = "reasoning"
    /\ \E outcome \in {"signals", "timeout", "error"} :
          task' = [task EXCEPT ![t].at = IF outcome = "timeout" THEN "selecting" ELSE "planning",
                               ![t].signals = outcome]
    /\ UNCHANGED <<decision, policyVars, outVars, loader, counters, audit, kept, standing, faults>>
Reason(t) ==
    /\ task[t].at = "reasoning"
    /\ \E outcome \in (IF SelectMode(D(t).bias, D(t).position_open) \subseteq Modes
                       THEN {"signals", "timeout", "error"} ELSE {"error"}) :
          task' = [task EXCEPT ![t].at = "planning", ![t].signals = outcome]
    /\ UNCHANGED <<decision, policyVars, outVars, loader, counters, audit, kept, standing, faults>>

\* In run_from_queue() the result goes through the post-reasoning check, which
\* finds nothing to refuse in it.
ExecutePlan(t) ==
    /\ task[t].at = "planning"
    /\ IF t \in Events /\ \E r \in PlanResults(t) : r.status = "failure"
       THEN Answer(t, "rejected")
       ELSE Go(t, "rechecking")
    /\ counters' = [counters EXCEPT !["pass"] =
            IF t \in Queued /\ D(t).plan # {} THEN @ + 1 ELSE @]
    /\ UNCHANGED <<decision, policyVars, outVars, loader, audit, kept, standing, faults>>

-----------------------------------------------------------------------------
(* process_decision() *)

\* post_reasoning_policy_check(), whose outcome is passed over
JudgeConfidence(t) ==
    /\ task[t].at = "judging"
    /\ LET verdicts == ConfidenceGate(D(t), policy_config)
       IN  /\ counters' = [counters EXCEPT ![IF verdicts = {} THEN "pass" ELSE "veto"] = @ + 1]
           /\ audit' = [audit EXCEPT ![t] = @ \o SetToSeq(verdicts)]
    /\ Go(t, "trading")
    /\ UNCHANGED <<decision, policyVars, outVars, loader, kept, standing, faults>>

\* _execute_paper_trade_if_enabled(): no failure of it stops the decision
PaperTrade(t) ==
    /\ task[t].at = "trading"
    /\ \E up \in BOOLEAN :
          /\ Works(up)
          /\ traded' = IF up /\ D(t).paper THEN traded \cup {t} ELSE traded
    /\ Go(t, "deduping")
    /\ UNCHANGED <<decision, policyVars, loader, counters, audit, kept, stored, dedup, sent, standing>>

\* SET with NX: the first to set the key goes on, the others are skipped.  When
\* Redis fails nobody is.
Deduplicate_mut_noNx(t) ==
    /\ task[t].at = "deduping"
    /\ \E up \in BOOLEAN :
          /\ Works(up)
          /\ dedup' = IF up THEN dedup \cup {D(t).key} ELSE dedup
          /\ task' = [task EXCEPT ![t].at = "persisting",
                                  ![t].dedup = IF up THEN "first" ELSE "unknown"]
    /\ UNCHANGED <<decision, policyVars, loader, counters, audit, kept, stored, sent, traded, standing>>
Deduplicate(t) ==
    /\ task[t].at = "deduping"
    /\ \E up \in BOOLEAN :
          /\ Works(up)
          /\ dedup' = IF up THEN dedup \cup {D(t).key} ELSE dedup
          /\ task' = [task EXCEPT ![t].at = "persisting",
                ![t].dedup = CASE ~up -> "unknown"
                               [] up /\ D(t).key \in dedup -> "duplicate"
                               [] up /\ D(t).key \notin dedup -> "first"]
    /\ UNCHANGED <<decision, policyVars, loader, counters, audit, kept, stored, sent, traded, standing>>

\* A decision that is skipped is inserted all the same.
Persist_mut_forgets(t) ==
    /\ task[t].at = "persisting"
    /\ \E up \in BOOLEAN :
          /\ Works(up)
          /\ stored' = IF up THEN stored \cup {t} ELSE stored
          /\ UNCHANGED kept
    /\ Go(t, "notifying")
    /\ UNCHANGED <<decision, policyVars, loader, counters, audit, sent, dedup, traded, standing>>
Persist(t) ==
    /\ task[t].at = "persisting"
    /\ \E up \in BOOLEAN :
          /\ Works(up)
          /\ stored' = IF up THEN stored \cup {t} ELSE stored
          /\ kept' = [kept EXCEPT ![t].failure = IF up THEN @ ELSE @ + 1]
    /\ Go(t, "notifying")
    /\ UNCHANGED <<decision, policyVars, loader, counters, audit, sent, dedup, traded, standing>>

\* _get_routing_for_decision() by now has named the channels; those that have
\* no notifier are passed over.
Notify(t) ==
    /\ task[t].at = "notifying"
    /\ sent' = [sent EXCEPT ![t] =
            IF task[t].dedup = "duplicate" \/ (now \in QuietHours /\ ~D(t).urgent) THEN {}
            ELSE D(t).channels \cap Notifiers]
    /\ Answer(t, IF t \in Events THEN "accepted" ELSE "task_done")
    /\ UNCHANGED <<decision, policyVars, loader, counters, audit, kept, stored, dedup, traded,
                   standing, faults>>

-----------------------------------------------------------------------------
(* run_from_queue(): one item at a time, in the order of the queue *)

RunFromQueue(t) ==
    /\ t \in Queued /\ task[t].at = "new"
    /\ \A i, j \in DOMAIN QueueOrder :
          i < j /\ QueueOrder[j] = t => task[QueueOrder[i]].at = "done"
    /\ Begin(t)

-----------------------------------------------------------------------------
(* The environment *)

\* A refusal stands as long as no change and no tick has lifted it.
StillStanding(config, time) ==
    standing' = [t \in Tasks |->
        IF task[t].at = "checking" THEN standing[t] \cap Refusals(D(t), config, time)
        ELSE standing[t]]

ChangePolicy ==
    /\ changes < MaxChanges /\ changes' = changes + 1
    /\ \E change \in Changes :
          policy_config' = [policy_config EXCEPT ![change[1]] = change[2]]
    /\ StillStanding(policy_config', now)
    /\ UNCHANGED <<decision, now, file, loader, task, counters, audit, kept, outVars, faults>>

\* build_allowlist_from_replay.py writes the file.
WriteAllowlist ==
    /\ Allowlist /\ changes < MaxChanges /\ changes' = changes + 1
    /\ \E keys \in SUBSET (UNION {GroupKey(Decisions[n]) : n \in DOMAIN Decisions}) :
          file # {keys} /\ file' = {keys}
    /\ UNCHANGED <<decision, now, policy_config, loader, task, counters, audit, kept,
                   outVars, standing, faults>>

Tick ==
    /\ now < MaxTime /\ now' = now + 1
    /\ StillStanding(policy_config, now')
    /\ UNCHANGED <<decision, policy_config, file, changes, loader, task, counters, audit,
                   kept, outVars, faults>>

TaskStep(t) ==
    \/ HandleEvent(t) \/ AnswerAtOnce(t) \/ RunFromQueue(t) \/ AskGate(t)
    \/ SelectReasoningMode(t) \/ Reason(t) \/ ExecutePlan(t) \/ JudgeConfidence(t)
    \/ PaperTrade(t) \/ Deduplicate(t) \/ Persist(t) \/ Notify(t)

Finished == (\A t \in Tasks : task[t].at = "done") /\ UNCHANGED vars

Next == (\E t \in Tasks : TaskStep(t)) \/ ChangePolicy \/ WriteAllowlist \/ Tick \/ Finished

\* The event loop runs some task that is ready; reasoning is bounded by its
\* timeout, and a database or Redis call ends, if only by failing.
Fairness == WF_vars(\E t \in Tasks : TaskStep(t))
Spec == Init /\ [][Next]_vars /\ Fairness

-----------------------------------------------------------------------------
(* Properties *)

\* A refusal of handle_event() is final and leaves nothing behind: no row, no
\* paper trade, no message, no entry but the one of a deferral, and the audit
\* holds its reason (the returns of "rejected" and "deferred").
RefusedLeavesNothing ==
    \A t \in Events : task[t].status \in {"rejected", "deferred"} =>
        /\ t \notin stored \cup traded /\ sent[t] = {} /\ kept[t].failure = 0
        /\ kept[t].policy_defer = Cardinality({i \in DOMAIN audit[t] : audit[t][i].result = "defer"})
        /\ kept[t].policy_defer > 0 => task[t].status = "deferred"

\* A refusal of the policy store that stands from the start of an event's
\* check to its end is in the answer, whatever else changes in between and
\* however the gates interleave with the changes.
StandingRefusalRefuses ==
    \A t \in Events : task[t].at \notin {"new", "checking"} /\ standing[t] # {} =>
        task[t].status \in {"rejected", "deferred"}

\* Every decision that was accepted, or taken from the queue and done, is in
\* the database or kept for a retry: persist in process_decision().
AcceptedIsKept ==
    \A t \in Tasks :
        /\ decision[t] # "idle" /\ D(t).event_type = "decision"
        /\ \/ task[t].status \in {"accepted", "task_done"}
           \/ task[t].at = "notifying"
        => t \in stored \/ kept[t].failure > 0

\* The counters of the policy gates agree with the audit and the deferrals in
\* the queue, although every gate writes the three one by one.
CountersMatchAudit ==
    LET Indices == 1..3    \* two checks and the judgement of the confidence
        entries(result) == Cardinality({p \in Tasks \X Indices :
            p[2] \in DOMAIN audit[p[1]] /\ audit[p[1]][p[2]].result = result})
    IN  /\ counters["veto"] = entries("veto")
        /\ counters["defer"] = entries("defer")
        /\ entries("defer") =
             Cardinality({p \in Tasks \X Indices : p[2] <= kept[p[1]].policy_defer})

\* Of the decisions with one key that asked Redis with success, at most one
\* is notified, however the calls overlap (deduplication in process_decision()).
NotifiedOnce ==
    \A t, u \in Tasks :
        /\ t # u /\ "idle" \notin {decision[t], decision[u]} /\ D(t).key = D(u).key
        /\ "unknown" \notin {task[t].dedup, task[u].dedup}
        => sent[t] = {} \/ sent[u] = {}

\* Every event is answered and the queue is emptied, whatever reasoning, plan,
\* database and Redis do.
EveryTaskEnds == <>(\A t \in Tasks : task[t].at = "done")

\* Refusals leave nothing but their entries, and all of those.
RefusalsAreBooked == RefusedLeavesNothing /\ CountersMatchAudit
=============================================================================
