--------------------------- MODULE EventFlowProofs ---------------------------
(***************************************************************************)
(* Proofs about EventFlow for any finite set of events and items, any      *)
(* decisions, policies and trades, and any number of changes and failures. *)
(*                                                                         *)
(* A task carries its decision through a dozen awaits at which the others  *)
(* move.  What the proofs need of the others is little: nobody else writes *)
(* a task's entries, and only the keys in Redis and the counters are       *)
(* shared.                                                                 *)
(***************************************************************************)
EXTENDS EventFlow, FiniteSetTheorems, SequenceTheorems, TLAPS

-----------------------------------------------------------------------------
(* The gates *)

Reasons == {"not_in_allowlist", "killzone", "regime_restricted", "cooldown",
    "risk_limit_exceeded", "outcome_underperformance", "memory_underperformance",
    "low_confidence"}
Entry == [result : {"veto", "defer"}, reason : Reasons]

\* A gate answers nothing, one refusal, or, the recall gate alone, a pass.
LEMMA GatesAnswer ==
    ASSUME NEW t, NEW up, task[t].gate \in 1..8
    PROVE  \/ Verdicts(t, up) = {}
           \/ \E v \in Entry : Verdicts(t, up) = {v}
           \/ /\ task[t].gate = 8
              /\ Verdicts(t, up) = {[result |-> "pass", reason |-> "recalled"]}
<1> DEFINE V == Verdicts(t, up)
<1> USE DEF Entry, Reasons, Veto, Defer
<1>1. CASE task[t].gate = 1
  BY <1>1 DEF Verdicts, Gates, AllowlistGate
<1>2. CASE task[t].gate = 2
  BY <1>2 DEF Verdicts, Gates, KillzoneGate
<1>3. CASE task[t].gate = 3
  BY <1>3 DEF Verdicts, Gates, RegimeGate
<1>4. CASE task[t].gate = 4
  BY <1>4 DEF Verdicts, Gates, CooldownGate
<1>5. CASE task[t].gate = 5
  BY <1>5 DEF Verdicts, Gates, ExposureGate
<1>6. CASE task[t].gate = 6
  BY <1>6 DEF Verdicts, Gates, OutcomeGate
<1>7. CASE task[t].gate = 7
  BY <1>7 DEF Verdicts, Gates, MemoryGate
<1>8. CASE task[t].gate = 8
  BY <1>8 DEF Verdicts, Gates, RecallGate
<1> QED
  BY <1>1, <1>2, <1>3, <1>4, <1>5, <1>6, <1>7, <1>8

\* A refusal is noted in the counters, the audit and, if it defers, the queue.
Noted(t, v) ==
    /\ counters' = [counters EXCEPT ![v.result] = @ + 1]
    /\ audit' = [audit EXCEPT ![t] = Append(@, v)]
    /\ kept' = [kept EXCEPT ![t].policy_defer = IF v.result = "defer" THEN @ + 1 ELSE @]

NothingNoted ==
    /\ counters' = counters \/ counters' = [counters EXCEPT !["pass"] = @ + 1]
    /\ UNCHANGED <<audit, kept>>

\* Where the check that ends leads to, with and without a refusal.
Onwards(t) ==
    Go(t, IF task[t].at = "rechecking" THEN "judging"
          ELSE IF t \in Queued THEN "planning" ELSE "selecting")

Refused(t, v) ==
    IF task[t].at = "checking" /\ t \notin Queued
    THEN Answer(t, IF v.result = "veto" THEN "rejected" ELSE "deferred")
    ELSE Onwards(t)

\* What one gate does to its task.
LEMMA GateAsked ==
    ASSUME TypeOK, NEW t \in Tasks, AskGate(t)
    PROVE  /\ task[t].at \in {"checking", "rechecking"}
           /\ UNCHANGED <<decision, policyVars, outVars, standing>>
           /\ faults' \in 0..MaxFaults
           /\ loader' = loader \/ loader' = LoadedForGate(loader, file)
           /\ \/ \E v \in Entry : Noted(t, v) /\ Refused(t, v)
              \/ /\ NothingNoted /\ task[t].gate < 8
                 /\ \E up \in BOOLEAN : Verdicts(t, up) = {}
                 /\ task' = [task EXCEPT ![t].gate = @ + 1]
              \/ NothingNoted /\ task[t].gate = 8 /\ Onwards(t)
<1>1. task[t].gate \in 1..8 /\ Len(Gates) = 8 /\ faults \in 0..MaxFaults /\ MaxFaults \in Nat
  BY FlowAssumption DEF TypeOK, Task, Gates
<1>2. PICK up \in BOOLEAN :
         /\ Works(up)
         /\ Record(t, Verdicts(t, up))
         /\ IF task[t].at = "rechecking"
            THEN AfterIgnoredCheck(t, Verdicts(t, up), "judging")
            ELSE IF t \in Queued THEN AfterIgnoredCheck(t, Verdicts(t, up), "planning")
            ELSE AfterCheck(t, Verdicts(t, up))
  BY DEF AskGate
<1>3. /\ task[t].at \in {"checking", "rechecking"}
      /\ UNCHANGED <<decision, policyVars, outVars, standing>>
      /\ faults' \in 0..MaxFaults
      /\ loader' = loader \/ loader' = LoadedForGate(loader, file)
  BY <1>1, <1>2 DEF AskGate, Works
<1> DEFINE V == Verdicts(t, up)
<1>4. V = {} \/ (\E v \in Entry : V = {v})
      \/ (task[t].gate = 8 /\ V = {[result |-> "pass", reason |-> "recalled"]})
  BY <1>1, GatesAnswer
<1>5. Record(t, V) /\ (task[t].at = "rechecking" => AfterIgnoredCheck(t, V, "judging"))
      /\ (task[t].at = "checking" /\ t \in Queued => AfterIgnoredCheck(t, V, "planning"))
      /\ (task[t].at = "checking" /\ t \notin Queued => AfterCheck(t, V))
  BY <1>2
<1> HIDE DEF V
<1>6. ASSUME NEW v \in Entry, V = {v} PROVE Noted(t, v) /\ Refused(t, v)
  <2>1. v.result \in {"veto", "defer"}
    BY DEF Entry
  <2>2. Noted(t, v)
    BY <1>5, <1>6, <2>1 DEF Record, Noted
  <2>3. Refused(t, v)
    BY <1>3, <1>5, <1>6, <2>1, Zenon
    DEF Refused, Onwards, AfterCheck, AfterIgnoredCheck
  <2> QED
    BY <2>2, <2>3
<1>7. ASSUME \A v \in V : v.result = "pass" PROVE NothingNoted
  <2>1. ~\E v \in V : v.result # "pass"
    BY <1>7
  <2>2. UNCHANGED <<audit, kept>>
        /\ counters' = [counters EXCEPT !["pass"] =
              IF V = {} /\ task[t].gate = Len(Gates) THEN @ + 1 ELSE @]
    BY <1>5, <2>1 DEF Record
  <2>3. counters = [counters EXCEPT !["pass"] = @]
    BY DEF TypeOK
  <2>4. counters' = counters \/ counters' = [counters EXCEPT !["pass"] = @ + 1]
    BY <2>2, <2>3
  <2> QED
    BY <2>2, <2>4 DEF NothingNoted
<1>8. CASE V = {} /\ task[t].gate < 8
  <2>1. task' = [task EXCEPT ![t].gate = @ + 1]
    BY <1>1, <1>3, <1>5, <1>8 DEF AfterCheck, AfterIgnoredCheck
  <2> QED
    BY <1>3, <1>7, <1>8, <2>1 DEF V
<1>9. CASE task[t].gate = 8 /\ \A v \in V : v.result = "pass"
  <2>1. ~(task[t].gate < Len(Gates)) /\ (~\E v \in V : v.result = "veto")
        /\ ~\E v \in V : v.result = "defer"
    BY <1>1, <1>9
  <2>2. Onwards(t)
    BY <1>3, <1>5, <2>1 DEF AfterCheck, AfterIgnoredCheck, Onwards
  <2> QED
    BY <1>3, <1>7, <1>9, <2>2
<1> QED
  BY <1>1, <1>3, <1>4, <1>6, <1>8, <1>9

-----------------------------------------------------------------------------
(* Types *)

\* What TypeOK leaves open: the entries of the audit, the loader's fields, and that
\* a decision is written only once.
FlowTypes ==
    /\ TypeOK
    /\ audit \in [Tasks -> Seq(Entry)]
    /\ "loaded" \in DOMAIN loader
    /\ \A t \in Tasks : task[t].at \notin {"notifying", "done"} => kept[t].failure = 0

\* Where a task goes.
Moves(t, at, status) ==
    /\ task' \in [Tasks -> Task]
    /\ \A u \in Tasks : u # t => task'[u] = task[u]
    /\ task'[t].at = at /\ task'[t].status = status

LEMMA GoMoves ==
    ASSUME TypeOK, NEW t \in Tasks, NEW place \in Places, Go(t, place)
    PROVE  Moves(t, place, task[t].status) /\ task'[t].gate = 1
           /\ task'[t].dedup = task[t].dedup /\ task'[t].signals = task[t].signals
<1>1. task \in [Tasks -> Task] /\ task[t] \in Task /\ 1 \in DOMAIN Gates
  BY DEF TypeOK, Gates
<1> DEFINE r == [task[t] EXCEPT !.at = place, !.gate = 1]
<1>2. task' = [task EXCEPT ![t] = r]
  BY <1>1 DEF Go
<1>3. /\ r \in Task /\ r.at = place /\ r.gate = 1 /\ r.status = task[t].status
      /\ r.dedup = task[t].dedup /\ r.signals = task[t].signals
  BY <1>1 DEF Task
<1> HIDE DEF r
<1> QED
  BY <1>1, <1>2, <1>3 DEF Moves

LEMMA AnswerMoves ==
    ASSUME TypeOK, NEW t \in Tasks, NEW status \in Statuses, Answer(t, status)
    PROVE  Moves(t, "done", status) /\ task'[t].dedup = task[t].dedup
<1>1. task \in [Tasks -> Task] /\ task[t] \in Task
  BY DEF TypeOK
<1> DEFINE r == [task[t] EXCEPT !.at = "done", !.status = status]
<1>2. task' = [task EXCEPT ![t] = r]
  BY <1>1 DEF Answer
<1>3. r \in Task /\ r.at = "done" /\ r.status = status /\ r.dedup = task[t].dedup
  BY <1>1 DEF Task, Places
<1> HIDE DEF r
<1> QED
  BY <1>1, <1>2, <1>3 DEF Moves

\* What a gate does to its task, in terms of where it leads.
LEMMA GateMoves ==
    ASSUME TypeOK, NEW t \in Tasks, AskGate(t)
    PROVE  /\ \/ Moves(t, task[t].at, task[t].status)
              \/ /\ task[t].at = "rechecking"
                 /\ Moves(t, "judging", task[t].status)
              \/ /\ task[t].at = "checking" /\ t \in Queued
                 /\ Moves(t, "planning", task[t].status)
              \/ /\ task[t].at = "checking" /\ t \notin Queued
                 /\ NothingNoted /\ Moves(t, "selecting", task[t].status)
              \/ /\ task[t].at = "checking" /\ t \notin Queued
                 /\ \E v \in Entry :
                       /\ Noted(t, v)
                       /\ Moves(t, "done", IF v.result = "veto" THEN "rejected" ELSE "deferred")
           /\ \/ NothingNoted
              \/ /\ \E v \in Entry : Noted(t, v)
                 /\ task'[t].at # task[t].at
           /\ task'[t].dedup = task[t].dedup
<1>1. task \in [Tasks -> Task] /\ task[t] \in Task /\ DOMAIN Gates = 1..8
  BY DEF TypeOK, Gates
<1>2. \A place \in Places : Go(t, place) =>
          Moves(t, place, task[t].status) /\ task'[t].dedup = task[t].dedup
  BY GoMoves
<1>3. {"judging", "planning", "selecting"} \subseteq Places
  BY DEF Places
<1>4. ASSUME Onwards(t), task[t].at \in {"checking", "rechecking"}
      PROVE  /\ \/ /\ task[t].at = "rechecking"
                   /\ Moves(t, "judging", task[t].status)
                \/ /\ task[t].at = "checking" /\ t \in Queued
                   /\ Moves(t, "planning", task[t].status)
                \/ /\ task[t].at = "checking" /\ t \notin Queued
                   /\ Moves(t, "selecting", task[t].status)
             /\ task'[t].dedup = task[t].dedup /\ task'[t].at # task[t].at
  <2>1. CASE task[t].at = "rechecking"
    BY <1>2, <1>3, <1>4, <2>1 DEF Onwards, Moves
  <2>2. CASE task[t].at = "checking" /\ t \in Queued
    BY <1>2, <1>3, <1>4, <2>2 DEF Onwards, Moves
  <2>3. CASE task[t].at = "checking" /\ t \notin Queued
    BY <1>2, <1>3, <1>4, <2>3 DEF Onwards, Moves
  <2> QED
    BY <1>4, <2>1, <2>2, <2>3
<1>5. task[t].at \in {"checking", "rechecking"}
  BY GateAsked
<1>6. ASSUME NEW v \in Entry, Noted(t, v), Refused(t, v)
      PROVE  \/ Onwards(t) /\ ~(task[t].at = "checking" /\ t \notin Queued)
             \/ /\ task[t].at = "checking" /\ t \notin Queued
                /\ Moves(t, "done", IF v.result = "veto" THEN "rejected" ELSE "deferred")
                /\ task'[t].dedup = task[t].dedup
  <2> DEFINE status == IF v.result = "veto" THEN "rejected" ELSE "deferred"
  <2>1. status \in Statuses
    BY DEF Statuses
  <2>2. CASE task[t].at = "checking" /\ t \notin Queued
    <3>1. Answer(t, status)
      BY <1>6, <2>2 DEF Refused
    <3> QED
      BY <2>1, <2>2, <3>1, AnswerMoves
  <2>3. CASE ~(task[t].at = "checking" /\ t \notin Queued)
    BY <1>6, <2>3 DEF Refused
  <2> QED
    BY <2>2, <2>3
<1>7. ASSUME task[t].gate < 8, task' = [task EXCEPT ![t].gate = @ + 1]
      PROVE  Moves(t, task[t].at, task[t].status) /\ task'[t].dedup = task[t].dedup
  <2> DEFINE r == [task[t] EXCEPT !.gate = task[t].gate + 1]
  <2>1. r \in Task /\ r.at = task[t].at /\ r.status = task[t].status
        /\ r.dedup = task[t].dedup
    BY <1>1, <1>7 DEF Task
  <2>2. task' = [task EXCEPT ![t] = r]
    BY <1>1, <1>7
  <2> HIDE DEF r
  <2> QED
    BY <1>1, <2>1, <2>2 DEF Moves
<1>8. \/ \E v \in Entry : Noted(t, v) /\ Refused(t, v)
      \/ /\ NothingNoted /\ task[t].gate < 8
         /\ task' = [task EXCEPT ![t].gate = @ + 1]
      \/ NothingNoted /\ Onwards(t)
  BY GateAsked
<1>9. ASSUME NEW v \in Entry, Noted(t, v), Refused(t, v) PROVE task'[t].at # task[t].at
  BY <1>4, <1>5, <1>6, <1>9 DEF Moves
<1>10. CASE \E v \in Entry : Noted(t, v) /\ Refused(t, v)
  BY <1>4, <1>5, <1>6, <1>9, <1>10
<1>11. CASE NothingNoted
  BY <1>4, <1>5, <1>6, <1>7, <1>8, <1>11
<1> QED
  BY <1>8, <1>10, <1>11

-----------------------------------------------------------------------------
(* The steps of a task, by what they leave behind *)

\* Nothing is booked, stored, sent or traded.
Silent == UNCHANGED <<stored, sent, traded, audit, kept, counters>>

Begins(t) ==
    /\ task[t].at = "new" /\ Moves(t, "checking", task[t].status)
    /\ task'[t].gate = 1
    /\ standing' = [standing EXCEPT ![t] = Refusals(D(t), policy_config, now)]
    /\ Silent /\ UNCHANGED <<dedup, loader, faults>> /\ task'[t].dedup = task[t].dedup

AnswersAtOnce(t) ==
    /\ task[t].at = "new" /\ t \in Events
    /\ \E status \in {"accepted", "rejected", "deferred", "error"} :
          /\ Moves(t, "done", status)
          /\ status = "accepted" => D(t).event_type = "plan_execution"
    /\ Silent /\ UNCHANGED <<dedup, loader, faults, standing>>
    /\ task'[t].dedup = task[t].dedup

Thinks(t) ==
    /\ task[t].at \in {"selecting", "reasoning", "planning"}
    /\ \/ \E at \in {"reasoning", "planning", "rechecking"} :
             /\ Moves(t, at, task[t].status)
             /\ at = "rechecking" <=> task[t].at = "planning"
       \/ Moves(t, "done", "rejected") /\ (task[t].at = "planning" => t \in Events)
    /\ UNCHANGED <<stored, sent, traded, audit, kept, dedup, loader, faults, standing>>
    /\ counters' = counters \/ counters' = [counters EXCEPT !["pass"] = @ + 1]
    /\ task'[t].dedup = task[t].dedup

Judges(t) ==
    /\ task[t].at = "judging" /\ Moves(t, "trading", task[t].status)
    /\ \/ /\ counters' = [counters EXCEPT !["pass"] = @ + 1] /\ audit' = audit
       \/ \E v \in Entry :
             /\ v.result = "veto"
             /\ counters' = [counters EXCEPT !["veto"] = @ + 1]
             /\ audit' = [audit EXCEPT ![t] = Append(@, v)]
    /\ UNCHANGED <<stored, sent, traded, kept, dedup, loader, faults, standing>>
    /\ task'[t].dedup = task[t].dedup

\* One entry more, for what a set of one verdict becomes in a sequence.
LEMMA OneEntry ==
    ASSUME NEW v
    PROVE  SetToSeq({v}) = <<v>> /\ SetToSeq({}) = <<>>
<1>1. Cardinality({v}) = 1 /\ Cardinality({}) = 0
  BY FS_Singleton, FS_EmptySet
<1>2. SetToSeq({v}) = <<v>>
  <2>1. <<v>> \in [1..1 -> {v}] /\ IsInjective(<<v>>)
    BY DEF IsInjective
  <2>2. \E f \in [1..Cardinality({v}) -> {v}] : IsInjective(f)
    BY <1>1, <2>1
  <2>3. SetToSeq({v}) \in [1..Cardinality({v}) -> {v}]
    BY <2>2, Zenon DEF SetToSeq
  <2>4. SetToSeq({v}) \in [1..1 -> {v}]
    BY <1>1, <2>3
  <2>5. SetToSeq({v}) = [i \in 1..1 |-> v]
    BY <2>4
  <2> QED
    BY <2>5
<1>3. SetToSeq({}) = <<>>
  <2>1. <<>> \in [1..0 -> {}] /\ IsInjective(<<>>)
    BY DEF IsInjective
  <2>2. \E f \in [1..Cardinality({}) -> {}] : IsInjective(f)
    BY <1>1, <2>1
  <2>3. SetToSeq({}) \in [1..Cardinality({}) -> {}]
    BY <2>2, Zenon DEF SetToSeq
  <2>4. SetToSeq({}) \in [1..0 -> {}]
    BY <1>1, <2>3
  <2> QED
    BY <2>4
<1> QED
  BY <1>2, <1>3

Ends(t) ==
    \/ /\ task[t].at = "trading" /\ Moves(t, "deduping", task[t].status)
       /\ traded' = traded \/ traded' = traded \cup {t}
       /\ UNCHANGED <<stored, sent, kept, dedup>> /\ task'[t].dedup = task[t].dedup
    \/ /\ task[t].at = "deduping" /\ Moves(t, "persisting", task[t].status)
       /\ \/ dedup' = dedup /\ task'[t].dedup = "unknown"
          \/ /\ dedup' = dedup \cup {D(t).key}
             /\ task'[t].dedup = IF D(t).key \in dedup THEN "duplicate" ELSE "first"
       /\ UNCHANGED <<stored, sent, kept, traded>>
    \/ /\ task[t].at = "persisting" /\ Moves(t, "notifying", task[t].status)
       /\ \/ stored' = stored \cup {t} /\ kept' = kept
          \/ stored' = stored /\ kept' = [kept EXCEPT ![t].failure = @ + 1]
       /\ UNCHANGED <<sent, dedup, traded>> /\ task'[t].dedup = task[t].dedup
    \/ /\ task[t].at = "notifying"
       /\ Moves(t, "done", IF t \in Events THEN "accepted" ELSE "task_done")
       /\ \E channels \in SUBSET Notifiers :
             /\ sent' = [sent EXCEPT ![t] = channels]
             /\ task[t].dedup = "duplicate" => channels = {}
       /\ UNCHANGED <<stored, kept, dedup, traded>> /\ task'[t].dedup = task[t].dedup

Finishes(t) == Ends(t) /\ UNCHANGED <<audit, counters, loader, standing>>

LEMMA TaskShapes ==
    ASSUME FlowTypes, NEW t \in Tasks, TaskStep(t)
    PROVE  /\ AskGate(t) \/ Begins(t) \/ AnswersAtOnce(t) \/ Thinks(t) \/ Judges(t)
                 \/ Finishes(t)
           /\ UNCHANGED <<decision, policyVars>>
           /\ faults' \in 0..MaxFaults
<1> USE DEF outVars
<1> TypeOK
  BY DEF FlowTypes
<1>1. /\ task \in [Tasks -> Task] /\ task[t] \in Task
      /\ faults \in 0..MaxFaults /\ MaxFaults \in Nat
  BY FlowAssumption DEF TypeOK
<1>2. UNCHANGED <<decision, policyVars>>
  BY DEF TaskStep, HandleEvent, AnswerAtOnce, RunFromQueue, Begin, AskGate, Pass,
     SelectReasoningMode, Reason, ExecutePlan, JudgeConfidence, PaperTrade, Deduplicate,
     Persist, Notify
<1>3. \A up \in BOOLEAN : Works(up) => faults' \in 0..MaxFaults
  BY <1>1 DEF Works
<1>4. \A place \in Places : Go(t, place) =>
          Moves(t, place, task[t].status) /\ task'[t].gate = 1
          /\ task'[t].dedup = task[t].dedup
  BY GoMoves
<1>5. \A status \in Statuses : Answer(t, status) =>
          Moves(t, "done", status) /\ task'[t].dedup = task[t].dedup
  BY AnswerMoves
<1>6. CASE AskGate(t)
  BY <1>2, <1>6, GateAsked
<1>7. CASE HandleEvent(t) \/ RunFromQueue(t)
  <2>1. task[t].at = "new" /\ Begin(t)
    BY <1>7 DEF HandleEvent, RunFromQueue
  <2>2. Moves(t, "checking", task[t].status) /\ task'[t].gate = 1
        /\ task'[t].dedup = task[t].dedup
    BY <1>4, <2>1 DEF Begin, Places
  <2>3. Begins(t)
    BY <2>1, <2>2 DEF Begin, Begins, Silent
  <2> QED
    BY <1>1, <1>2, <2>1, <2>3 DEF Begin
<1>8. CASE AnswerAtOnce(t)
  <2>1. PICK status \in {"accepted", "rejected", "deferred", "error"} :
            Answer(t, status) /\ (status = "accepted" => D(t).event_type = "plan_execution")
    BY <1>8 DEF AnswerAtOnce
  <2>2. Moves(t, "done", status) /\ task'[t].dedup = task[t].dedup
    BY <1>5, <2>1 DEF Statuses
  <2>3. AnswersAtOnce(t)
    BY <1>8, <2>1, <2>2 DEF AnswerAtOnce, AnswersAtOnce, Silent
  <2> QED
    BY <1>1, <1>2, <1>8, <2>3 DEF AnswerAtOnce
<1>9. CASE SelectReasoningMode(t)
  <2>1. /\ task[t].at = "selecting"
        /\ Go(t, "planning") \/ Go(t, "reasoning") \/ Answer(t, "rejected")
        /\ UNCHANGED <<outVars, loader, counters, audit, kept, standing, faults>>
    BY <1>9 DEF SelectReasoningMode, Pass
  <2>2. /\ \/ Moves(t, "planning", task[t].status) \/ Moves(t, "reasoning", task[t].status)
           \/ Moves(t, "done", "rejected")
        /\ task'[t].dedup = task[t].dedup
    BY <1>4, <1>5, <2>1 DEF Places, Statuses
  <2> QED
    BY <1>1, <1>2, <2>1, <2>2 DEF Thinks
<1>10. CASE Reason(t)
  <2>1. PICK outcome \in {"signals", "timeout", "error"} :
            task' = [task EXCEPT ![t].at = "planning", ![t].signals = outcome]
    BY <1>10 DEF Reason
  <2> DEFINE r == [task[t] EXCEPT !.at = "planning", !.signals = outcome]
  <2>2. task' = [task EXCEPT ![t] = r]
    BY <1>1, <2>1
  <2>3. r \in Task /\ r.at = "planning" /\ r.status = task[t].status
        /\ r.dedup = task[t].dedup
    BY <1>1 DEF Task, Places
  <2> HIDE DEF r
  <2>4. Moves(t, "planning", task[t].status) /\ task'[t].dedup = task[t].dedup
    BY <1>1, <2>2, <2>3 DEF Moves
  <2> QED
    BY <1>1, <1>2, <1>10, <2>4 DEF Reason, Thinks
<1>11. CASE ExecutePlan(t)
  <2>1. /\ task[t].at = "planning"
        /\ (t \in Events /\ Answer(t, "rejected")) \/ Go(t, "rechecking")
        /\ UNCHANGED <<outVars, loader, audit, kept, standing, faults>>
    BY <1>11 DEF ExecutePlan
  <2>2. counters' = counters \/ counters' = [counters EXCEPT !["pass"] = @ + 1]
    <3>1. counters = [counters EXCEPT !["pass"] = @]
      BY DEF TypeOK
    <3> QED
      BY <1>11, <3>1 DEF ExecutePlan
  <2>3. /\ \/ Moves(t, "rechecking", task[t].status)
           \/ Moves(t, "done", "rejected") /\ t \in Events
        /\ task'[t].dedup = task[t].dedup
    BY <1>4, <1>5, <2>1 DEF Places, Statuses
  <2> QED
    BY <1>1, <1>2, <2>1, <2>2, <2>3 DEF Thinks
<1>12. CASE JudgeConfidence(t)
  <2> DEFINE V == ConfidenceGate(D(t), policy_config)
  <2>1. /\ task[t].at = "judging" /\ Go(t, "trading")
        /\ counters' = [counters EXCEPT ![IF V = {} THEN "pass" ELSE "veto"] = @ + 1]
        /\ audit' = [audit EXCEPT ![t] = @ \o SetToSeq(V)]
        /\ UNCHANGED <<outVars, loader, kept, standing, faults>>
    BY <1>12 DEF JudgeConfidence
  <2>2. V = {} \/ V = {Veto("low_confidence")}
    BY DEF ConfidenceGate
  <2>3. Moves(t, "trading", task[t].status) /\ task'[t].dedup = task[t].dedup
    BY <1>4, <2>1 DEF Places
  <2> HIDE DEF V
  <2>4. audit \in [Tasks -> Seq(Entry)] /\ audit[t] \in Seq(Entry)
    BY DEF FlowTypes
  <2>5. CASE V = {}
    <3>1. audit[t] \o <<>> = audit[t] /\ SetToSeq(V) = <<>>
      BY <2>4, <2>5, ConcatEmptySeq, OneEntry
    <3>2. audit' = audit
      BY <2>1, <2>4, <3>1
    <3>3. counters' = [counters EXCEPT !["pass"] = @ + 1]
      BY <2>1, <2>5
    <3> QED
      BY <1>1, <1>2, <2>1, <2>3, <3>2, <3>3 DEF Judges
  <2>6. CASE V = {Veto("low_confidence")}
    <3> DEFINE v == Veto("low_confidence")
    <3>1. v \in Entry /\ v.result = "veto"
      BY DEF Veto, Entry, Reasons
    <3> HIDE DEF v
    <3>2. V = {v}
      BY <2>6 DEF v
    <3>3. audit[t] \o SetToSeq(V) = Append(audit[t], v)
      <4>1. SetToSeq(V) = <<v>>
        BY <3>2, OneEntry
      <4>2. Append(audit[t], v) = audit[t] \o <<v>>
        BY <2>4, <3>1, AppendIsConcat
      <4> QED
        BY <4>1, <4>2
    <3>4. audit' = [audit EXCEPT ![t] = Append(@, v)]
      BY <2>1, <3>3
    <3>5. counters' = [counters EXCEPT !["veto"] = @ + 1]
      BY <2>1, <3>2
    <3> QED
      BY <1>1, <1>2, <2>1, <2>3, <3>1, <3>4, <3>5 DEF Judges
  <2> QED
    BY <2>2, <2>5, <2>6
<1>13. CASE PaperTrade(t)
  <2>1. PICK up \in BOOLEAN :
           /\ Works(up)
           /\ traded' = IF up /\ D(t).paper THEN traded \cup {t} ELSE traded
    BY <1>13 DEF PaperTrade
  <2>2. Moves(t, "deduping", task[t].status) /\ task'[t].dedup = task[t].dedup
    BY <1>4, <1>13 DEF PaperTrade, Places
  <2>3. traded' = traded \/ traded' = traded \cup {t}
    BY <2>1
  <2>4. Finishes(t)
    BY <1>13, <2>2, <2>3 DEF PaperTrade, Finishes, Ends
  <2> QED
    BY <1>2, <1>3, <2>1, <2>4
<1>14. CASE Deduplicate(t)
  <2>1. PICK up \in BOOLEAN :
           /\ Works(up)
           /\ dedup' = IF up THEN dedup \cup {D(t).key} ELSE dedup
           /\ task' = [task EXCEPT ![t].at = "persisting",
                 ![t].dedup = CASE ~up -> "unknown"
                                [] up /\ D(t).key \in dedup -> "duplicate"
                                [] up /\ D(t).key \notin dedup -> "first"]
    BY <1>14 DEF Deduplicate
  <2> DEFINE asked == IF ~up THEN "unknown"
                      ELSE IF D(t).key \in dedup THEN "duplicate" ELSE "first"
  <2> DEFINE r == [task[t] EXCEPT !.at = "persisting", !.dedup = asked]
  <2>2. task' = [task EXCEPT ![t] = r]
    BY <1>1, <2>1
  <2>3. r \in Task /\ r.at = "persisting" /\ r.status = task[t].status /\ r.dedup = asked
    BY <1>1 DEF Task, Places
  <2> HIDE DEF r
  <2>4. Moves(t, "persisting", task[t].status) /\ task'[t].dedup = asked
    BY <1>1, <2>2, <2>3 DEF Moves
  <2>5. Finishes(t)
    BY <1>14, <2>1, <2>4 DEF Deduplicate, Finishes, Ends
  <2> QED
    BY <1>2, <1>3, <2>1, <2>5
<1>15. CASE Persist(t)
  <2>1. PICK up \in BOOLEAN :
           /\ Works(up)
           /\ stored' = IF up THEN stored \cup {t} ELSE stored
           /\ kept' = [kept EXCEPT ![t].failure = IF up THEN @ ELSE @ + 1]
    BY <1>15 DEF Persist
  <2>2. Moves(t, "notifying", task[t].status) /\ task'[t].dedup = task[t].dedup
    BY <1>4, <1>15 DEF Persist, Places
  <2>3. kept = [kept EXCEPT ![t].failure = @]
    BY DEF TypeOK
  <2>4. \/ stored' = stored \cup {t} /\ kept' = kept
        \/ stored' = stored /\ kept' = [kept EXCEPT ![t].failure = @ + 1]
    BY <2>1, <2>3
  <2>5. Finishes(t)
    BY <1>15, <2>2, <2>4 DEF Persist, Finishes, Ends
  <2> QED
    BY <1>2, <1>3, <2>1, <2>5
<1>16. CASE Notify(t)
  <2> DEFINE channels == IF task[t].dedup = "duplicate" \/ (now \in QuietHours /\ ~D(t).urgent)
                         THEN {} ELSE D(t).channels \cap Notifiers
  <2> DEFINE status == IF t \in Events THEN "accepted" ELSE "task_done"
  <2>1. status \in Statuses
    BY DEF Statuses
  <2>2. Moves(t, "done", status) /\ task'[t].dedup = task[t].dedup
    BY <1>5, <1>16, <2>1 DEF Notify
  <2>3. channels \in SUBSET Notifiers /\ (task[t].dedup = "duplicate" => channels = {})
        /\ sent' = [sent EXCEPT ![t] = channels]
    BY <1>16 DEF Notify
  <2> HIDE DEF channels
  <2>4. Finishes(t)
    BY <1>16, <2>2, <2>3 DEF Notify, Finishes, Ends
  <2> QED
    BY <1>1, <1>2, <1>16, <2>4 DEF Notify
<1> QED
  BY <1>6, <1>7, <1>8, <1>9, <1>10, <1>11, <1>12, <1>13, <1>14, <1>15, <1>16 DEF TaskStep

\* What becomes of the entries of the other tasks when t takes a step: nothing.
Alone(t) ==
    \A u \in Tasks \ {t} :
        /\ task'[u] = task[u] /\ audit'[u] = audit[u] /\ kept'[u] = kept[u]
        /\ sent'[u] = sent[u] /\ standing'[u] = standing[u]
        /\ u \in stored' <=> u \in stored
        /\ u \in traded' <=> u \in traded

LEMMA NotedTypes ==
    ASSUME FlowTypes, NEW t \in Tasks, NEW v \in Entry, Noted(t, v)
    PROVE  /\ counters' \in [{"pass", "veto", "defer"} -> Nat]
           /\ audit' \in [Tasks -> Seq(Entry)]
           /\ audit'[t] = Append(audit[t], v)
           /\ kept' \in [Tasks -> [policy_defer : Nat, failure : 0..1]]
           /\ kept'[t].failure = kept[t].failure
           /\ kept'[t].policy_defer = IF v.result = "defer" THEN kept[t].policy_defer + 1
                                      ELSE kept[t].policy_defer
           /\ \A u \in Tasks \ {t} : audit'[u] = audit[u] /\ kept'[u] = kept[u]
<1>1. /\ counters \in [{"pass", "veto", "defer"} -> Nat]
      /\ kept \in [Tasks -> [policy_defer : Nat, failure : 0..1]]
      /\ audit \in [Tasks -> Seq(Entry)] /\ audit[t] \in Seq(Entry)
      /\ v.result \in {"veto", "defer"}
  BY DEF FlowTypes, TypeOK, Entry
<1>2. counters' \in [{"pass", "veto", "defer"} -> Nat]
  BY <1>1 DEF Noted
<1>3. Append(audit[t], v) \in Seq(Entry)
  BY <1>1, AppendProperties
<1> DEFINE e == Append(audit[t], v)
<1>4. audit' = [audit EXCEPT ![t] = e]
  BY DEF Noted
<1>5. e \in Seq(Entry)
  BY <1>3
<1> HIDE DEF e
<1>6. /\ audit' \in [Tasks -> Seq(Entry)] /\ audit'[t] = e
      /\ \A u \in Tasks \ {t} : audit'[u] = audit[u]
  BY <1>1, <1>4, <1>5
<1> DEFINE n == IF v.result = "defer" THEN kept[t].policy_defer + 1
                ELSE kept[t].policy_defer
<1> DEFINE k == [kept[t] EXCEPT !.policy_defer = n]
<1>7. kept' = [kept EXCEPT ![t] = k]
  BY <1>1 DEF Noted
<1>8. k \in [policy_defer : Nat, failure : 0..1] /\ k.failure = kept[t].failure
      /\ k.policy_defer = n
  <2>1. n \in Nat /\ kept[t] \in [policy_defer : Nat, failure : 0..1]
    BY <1>1
  <2> HIDE DEF n
  <2> QED
    BY <2>1
<1> HIDE DEF k
<1>9. /\ kept' \in [Tasks -> [policy_defer : Nat, failure : 0..1]] /\ kept'[t] = k
      /\ \A u \in Tasks \ {t} : kept'[u] = kept[u]
  BY <1>1, <1>7, <1>8
<1> QED
  BY <1>2, <1>6, <1>8, <1>9 DEF e

LEMMA FramesGate ==
    ASSUME FlowTypes, NEW t \in Tasks, AskGate(t)
    PROVE  FlowTypes' /\ Alone(t) /\ kept'[t].failure = kept[t].failure
<1> TypeOK
  BY DEF FlowTypes
<1>1. /\ UNCHANGED <<decision, now, policy_config, file, changes, stored, sent, traded,
                     dedup, standing>>
      /\ faults' \in 0..MaxFaults
      /\ loader' = loader \/ loader' = LoadedForGate(loader, file)
      /\ task[t].at \in {"checking", "rechecking"}
  BY GateAsked DEF policyVars, outVars
<1>2. loader'.loaded \in BOOLEAN /\ "loaded" \in DOMAIN loader'
  <2>1. loader.loaded \in BOOLEAN /\ "loaded" \in DOMAIN loader
    BY DEF FlowTypes, TypeOK
  <2>2. Load(loader, file).loaded \in BOOLEAN /\ "loaded" \in DOMAIN Load(loader, file)
    <3>1. CASE file = {}
      <4>1. Load(loader, file) = [loader EXCEPT !.loaded = FALSE]
        BY <3>1 DEF Load
      <4>2. DOMAIN [loader EXCEPT !.loaded = FALSE] = DOMAIN loader
            /\ [loader EXCEPT !.loaded = FALSE].loaded = FALSE
        BY <2>1
      <4> QED
        BY <2>1, <4>1, <4>2
    <3>2. CASE file # {}
      <4>1. Load(loader, file) = [loaded |-> TRUE, keys |-> CHOOSE keys \in file : TRUE]
        BY <3>2 DEF Load
      <4> QED
        BY <4>1
    <3> QED
      BY <3>1, <3>2
  <2>3. loader' = loader \/ loader' = Load(loader, file)
    BY <1>1 DEF LoadedForGate
  <2>4. CASE loader' = loader
    BY <2>1, <2>4
  <2>5. CASE loader' = Load(loader, file)
    BY <2>2, <2>5
  <2> QED
    BY <2>3, <2>4, <2>5
<1>3. /\ task' \in [Tasks -> Task] /\ \A u \in Tasks : u # t => task'[u] = task[u]
      /\ NothingNoted \/ \E v \in Entry : Noted(t, v)
  BY GateMoves DEF Moves
<1>4. /\ counters' \in [{"pass", "veto", "defer"} -> Nat]
      /\ audit' \in [Tasks -> Seq(Entry)]
      /\ kept' \in [Tasks -> [policy_defer : Nat, failure : 0..1]]
      /\ kept'[t].failure = kept[t].failure
      /\ \A u \in Tasks \ {t} : audit'[u] = audit[u] /\ kept'[u] = kept[u]
  <2>1. CASE NothingNoted
    BY <2>1 DEF NothingNoted, FlowTypes, TypeOK
  <2> QED
    BY <1>3, <2>1, NotedTypes
<1>5. Alone(t)
  BY <1>1, <1>3, <1>4 DEF Alone
<1>6. TypeOK'
  BY <1>1, <1>2, <1>3, <1>4 DEF TypeOK
<1>7. \A u \in Tasks : task'[u].at \notin {"notifying", "done"} => kept'[u].failure = 0
  BY <1>1, <1>3, <1>4 DEF FlowTypes
<1> QED
  BY <1>2, <1>4, <1>5, <1>6, <1>7 DEF FlowTypes

LEMMA FramesOther ==
    ASSUME FlowTypes, NEW t \in Tasks, TaskStep(t), ~AskGate(t)
    PROVE  FlowTypes' /\ Alone(t)
<1> TypeOK
  BY DEF FlowTypes
<1>1. /\ UNCHANGED <<decision, now, policy_config, file, changes>>
      /\ faults' \in 0..MaxFaults
      /\ Begins(t) \/ AnswersAtOnce(t) \/ Thinks(t) \/ Judges(t) \/ Finishes(t)
  BY TaskShapes DEF policyVars
<1>2. loader' = loader
  BY <1>1 DEF Begins, AnswersAtOnce, Thinks, Judges, Finishes
<1>3. task' \in [Tasks -> Task] /\ \A u \in Tasks : u # t => task'[u] = task[u]
  BY <1>1 DEF Begins, AnswersAtOnce, Thinks, Judges, Finishes, Ends, Moves
<1>4. counters' \in [{"pass", "veto", "defer"} -> Nat]
  <2>1. counters \in [{"pass", "veto", "defer"} -> Nat]
    BY DEF TypeOK
  <2>2. \/ counters' = counters \/ counters' = [counters EXCEPT !["pass"] = @ + 1]
        \/ counters' = [counters EXCEPT !["veto"] = @ + 1]
    BY <1>1 DEF Begins, AnswersAtOnce, Thinks, Judges, Finishes, Silent
  <2> QED
    BY <2>1, <2>2
<1>5. audit' \in [Tasks -> Seq(Entry)] /\ \A u \in Tasks \ {t} : audit'[u] = audit[u]
  <2>1. audit \in [Tasks -> Seq(Entry)]
    BY DEF FlowTypes
  <2>2. CASE audit' = audit
    BY <2>1, <2>2
  <2>3. ASSUME NEW v \in Entry, audit' = [audit EXCEPT ![t] = Append(@, v)]
        PROVE  audit' \in [Tasks -> Seq(Entry)] /\ \A u \in Tasks \ {t} : audit'[u] = audit[u]
    <3> DEFINE e == Append(audit[t], v)
    <3>1. e \in Seq(Entry)
      BY <2>1, AppendProperties
    <3>2. audit' = [audit EXCEPT ![t] = e]
      BY <2>3
    <3> HIDE DEF e
    <3> QED
      BY <2>1, <3>1, <3>2
  <2>4. audit' = audit \/ \E v \in Entry : audit' = [audit EXCEPT ![t] = Append(@, v)]
    BY <1>1 DEF Begins, AnswersAtOnce, Thinks, Judges, Finishes, Silent
  <2> QED
    BY <2>2, <2>3, <2>4
<1>6. /\ kept' \in [Tasks -> [policy_defer : Nat, failure : 0..1]]
      /\ \A u \in Tasks \ {t} : kept'[u] = kept[u]
      /\ task'[t].at \notin {"notifying", "done"} => kept'[t].failure = 0
  <2>1. kept \in [Tasks -> [policy_defer : Nat, failure : 0..1]]
        /\ (task[t].at \notin {"notifying", "done"} => kept[t].failure = 0)
    BY DEF FlowTypes, TypeOK
  <2>2. CASE kept' = kept
    <3>1. task'[t].at \notin {"notifying", "done"} => task[t].at \notin {"notifying", "done"}
      BY <1>1 DEF Begins, AnswersAtOnce, Thinks, Judges, Finishes, Ends, Moves
    <3> QED
      BY <2>1, <2>2, <3>1
  <2>3. CASE kept' = [kept EXCEPT ![t].failure = @ + 1] /\ task[t].at = "persisting"
              /\ task'[t].at = "notifying"
    <3> DEFINE k == [kept[t] EXCEPT !.failure = 1]
    <3>1. k \in [policy_defer : Nat, failure : 0..1] /\ kept[t].failure + 1 = 1
      BY <2>1, <2>3
    <3>2. kept' = [kept EXCEPT ![t] = k]
      BY <2>1, <2>3, <3>1
    <3> HIDE DEF k
    <3> QED
      BY <2>1, <2>3, <3>1, <3>2
  <2> QED
    BY <1>1, <2>2, <2>3 DEF Begins, AnswersAtOnce, Thinks, Judges, Finishes, Ends, Silent, Moves
<1>7. /\ stored' \subseteq Tasks /\ traded' \subseteq Tasks
      /\ sent' \in [Tasks -> SUBSET Notifiers] /\ standing' \in [Tasks -> SUBSET PolicyNames]
      /\ \A u \in Tasks \ {t} : /\ sent'[u] = sent[u] /\ standing'[u] = standing[u]
                                /\ u \in stored' <=> u \in stored
                                /\ u \in traded' <=> u \in traded
  <2>1. stored \subseteq Tasks /\ traded \subseteq Tasks
        /\ sent \in [Tasks -> SUBSET Notifiers] /\ standing \in [Tasks -> SUBSET PolicyNames]
    BY DEF TypeOK
  <2>2. \/ UNCHANGED <<stored, traded, sent, standing>>
        \/ /\ UNCHANGED <<stored, traded, sent>>
           /\ standing' = [standing EXCEPT ![t] = Refusals(D(t), policy_config, now)]
        \/ UNCHANGED <<stored, sent, standing>> /\ traded' = traded \cup {t}
        \/ UNCHANGED <<traded, sent, standing>> /\ stored' = stored \cup {t}
        \/ /\ UNCHANGED <<stored, traded, standing>>
           /\ \E channels \in SUBSET Notifiers : sent' = [sent EXCEPT ![t] = channels]
    BY <1>1 DEF Begins, AnswersAtOnce, Thinks, Judges, Finishes, Ends, Silent
  <2>3. Refusals(D(t), policy_config, now) \subseteq PolicyNames
    BY DEF Refusals
  <2> QED
    BY <2>1, <2>2, <2>3
<1>8. Alone(t)
  BY <1>3, <1>5, <1>6, <1>7 DEF Alone
<1>9. TypeOK'
  BY <1>1, <1>2, <1>3, <1>4, <1>5, <1>6, <1>7 DEF TypeOK
<1>10. \A u \in Tasks : task'[u].at \notin {"notifying", "done"} => kept'[u].failure = 0
  BY <1>3, <1>6 DEF FlowTypes
<1> QED
  BY <1>2, <1>5, <1>8, <1>9, <1>10 DEF FlowTypes

EnvironmentStep == ChangePolicy \/ WriteAllowlist \/ Tick \/ Finished \/ UNCHANGED vars

LEMMA FramesEnvironment ==
    ASSUME FlowTypes, EnvironmentStep
    PROVE  /\ UNCHANGED <<decision, loader, task, counters, audit, kept, outVars, faults>>
           /\ standing' = standing \/ StillStanding(policy_config', now')
           /\ FlowTypes'
<1> TypeOK
  BY DEF FlowTypes
<1>1. UNCHANGED <<decision, loader, task, counters, audit, kept, stored, sent, traded, dedup, faults>>
      /\ (standing' = standing \/ StillStanding(policy_config', now'))
  BY DEF EnvironmentStep, ChangePolicy, WriteAllowlist, Tick, Finished, vars, outVars
<1>2. standing' \in [Tasks -> SUBSET PolicyNames]
  BY <1>1 DEF TypeOK, StillStanding, Refusals
<1>3. /\ now' \in 0..MaxTime /\ changes' \in 0..MaxChanges
      /\ DOMAIN policy_config' = PolicyNames
  <2>1. now \in 0..MaxTime /\ changes \in 0..MaxChanges /\ DOMAIN policy_config = PolicyNames
        /\ MaxTime \in Nat /\ MaxChanges \in Nat
    BY FlowAssumption DEF TypeOK
  <2>2. policy_config' = policy_config
        \/ \E change \in Changes : policy_config' = [policy_config EXCEPT ![change[1]] = change[2]]
    BY DEF EnvironmentStep, ChangePolicy, WriteAllowlist, Tick, Finished, vars
  <2>3. DOMAIN policy_config' = PolicyNames
    BY <2>1, <2>2
  <2>4. /\ now' = now \/ (now < MaxTime /\ now' = now + 1)
        /\ changes' = changes \/ (changes < MaxChanges /\ changes' = changes + 1)
    BY DEF EnvironmentStep, ChangePolicy, WriteAllowlist, Tick, Finished, vars
  <2> QED
    BY <2>1, <2>3, <2>4
<1>4. TypeOK'
  BY <1>1, <1>2, <1>3 DEF TypeOK
<1> QED
  BY <1>1, <1>4 DEF FlowTypes, outVars

LEMMA TypesInit == Init => FlowTypes
<1> SUFFICES ASSUME Init PROVE FlowTypes
  OBVIOUS
<1>1. task \in [Tasks -> Task]
  BY DEF Init, Task, Places, Statuses, Gates
<1>2. TypeOK
  BY <1>1, FlowAssumption DEF Init, TypeOK, PolicyNames
<1>3. <<>> \in Seq(Entry)
  BY EmptySeq
<1> QED
  BY <1>2, <1>3 DEF Init, FlowTypes

LEMMA TypesStep == FlowTypes /\ [Next]_vars => FlowTypes'
<1> SUFFICES ASSUME FlowTypes, [Next]_vars PROVE FlowTypes'
  OBVIOUS
<1>1. ASSUME NEW t \in Tasks, TaskStep(t) PROVE FlowTypes'
  BY <1>1, FramesGate, FramesOther
<1>2. CASE EnvironmentStep
  BY <1>2, FramesEnvironment
<1> QED
  BY <1>1, <1>2 DEF Next, EnvironmentStep

-----------------------------------------------------------------------------
(* One message for a key *)

\* The task that set the key is the one that may send.
OnceInv ==
    /\ FlowTypes
    /\ \A t \in Tasks :
          /\ sent[t] # {} => task[t].at = "done" /\ task[t].dedup \in {"first", "unknown"}
          /\ task[t].at \in {"persisting", "notifying"} => task[t].dedup # "none"
          /\ task[t].dedup = "first" => D(t).key \in dedup
    /\ \A t, u \in Tasks :
          t # u /\ D(t).key = D(u).key => "first" \notin {task[t].dedup, task[u].dedup}
                                          \/ task[t].dedup # task[u].dedup

LEMMA OnceInit == Init => OnceInv
<1> SUFFICES ASSUME Init PROVE OnceInv
  OBVIOUS
<1>1. \A t \in Tasks : /\ sent[t] = {} /\ task[t].dedup = "none"
                       /\ task[t].at \in {"new", "done"}
  BY DEF Init
<1> QED
  BY <1>1, TypesInit DEF OnceInv

LEMMA OnceTaskStep ==
    ASSUME OnceInv, NEW t \in Tasks, TaskStep(t)
    PROVE  OnceInv'
<1> FlowTypes /\ TypeOK
  BY DEF OnceInv, FlowTypes
<1>1. FlowTypes' /\ Alone(t)
  BY FramesGate, FramesOther
<1>2. /\ \A u \in Tasks : D(u)' = D(u)
      /\ task[t] \in Task
  BY TaskShapes DEF D, TypeOK
<1>3. CASE task'[t].dedup = task[t].dedup /\ dedup' = dedup /\ sent'[t] = sent[t]
           /\ task[t].at # "done" /\ task'[t].at \notin {"persisting", "notifying"}
  BY <1>1, <1>2, <1>3 DEF OnceInv, Alone
<1>4. CASE AskGate(t)
  <2>1. UNCHANGED <<dedup, sent>> /\ task[t].at \in {"checking", "rechecking"}
    BY <1>4, GateAsked DEF outVars
  <2>2. task'[t].dedup = task[t].dedup /\ task'[t].at \notin {"persisting", "notifying"}
    BY <1>4, <2>1, GateMoves DEF Moves
  <2> QED
    BY <1>3, <2>1, <2>2
<1>5. CASE Begins(t) \/ AnswersAtOnce(t) \/ Thinks(t) \/ Judges(t)
  <2>1. /\ task'[t].dedup = task[t].dedup /\ dedup' = dedup /\ sent'[t] = sent[t]
        /\ task[t].at # "done" /\ task'[t].at \notin {"persisting", "notifying"}
    BY <1>5 DEF Begins, AnswersAtOnce, Thinks, Judges, Silent, Moves
  <2> QED
    BY <1>3, <2>1
<1>6. CASE Finishes(t)
  <2>1. CASE task[t].at = "trading"
    BY <1>3, <1>6, <2>1 DEF Finishes, Ends, Moves
  <2>2. CASE task[t].at = "deduping"
    <3>1. /\ task'[t].at = "persisting" /\ sent'[t] = sent[t]
          /\ \/ dedup' = dedup /\ task'[t].dedup = "unknown"
             \/ /\ dedup' = dedup \cup {D(t).key}
                /\ task'[t].dedup = IF D(t).key \in dedup THEN "duplicate" ELSE "first"
      BY <1>6, <2>2 DEF Finishes, Ends, Moves
    <3>2. sent[t] = {}
      BY <2>2 DEF OnceInv
    <3>3. CASE dedup' = dedup /\ task'[t].dedup = "unknown"
      BY <1>1, <1>2, <3>1, <3>2, <3>3 DEF OnceInv, Alone
    <3>4. CASE /\ dedup' = dedup \cup {D(t).key}
               /\ task'[t].dedup = "duplicate"
      BY <1>1, <1>2, <3>1, <3>2, <3>4 DEF OnceInv, Alone
    <3>5. CASE /\ dedup' = dedup \cup {D(t).key} /\ D(t).key \notin dedup
               /\ task'[t].dedup = "first"
      <4>1. \A u \in Tasks : u # t /\ D(u).key = D(t).key => task[u].dedup # "first"
        BY <3>5 DEF OnceInv
      <4> QED
        BY <1>1, <1>2, <3>1, <3>2, <3>5, <4>1 DEF OnceInv, Alone
    <3> QED
      BY <3>1, <3>3, <3>4, <3>5
  <2>3. CASE task[t].at = "persisting"
    <3>1. /\ task'[t].at = "notifying" /\ sent'[t] = sent[t] /\ dedup' = dedup
          /\ task'[t].dedup = task[t].dedup
      BY <1>6, <2>3 DEF Finishes, Ends, Moves
    <3> QED
      BY <1>1, <1>2, <2>3, <3>1 DEF OnceInv, Alone
  <2>4. CASE task[t].at = "notifying"
    <3>1. /\ task'[t].at = "done" /\ dedup' = dedup /\ task'[t].dedup = task[t].dedup
          /\ task[t].dedup = "duplicate" => sent'[t] = {}
      BY <1>6, <2>4 DEF Finishes, Ends, Moves, TypeOK
    <3>2. task[t].dedup \in {"first", "duplicate", "unknown"}
      BY <1>2, <2>4 DEF OnceInv, Task
    <3> QED
      BY <1>1, <1>2, <2>4, <3>1, <3>2 DEF OnceInv, Alone
  <2> QED
    BY <1>6, <2>1, <2>2, <2>3, <2>4 DEF Finishes, Ends
<1> QED
  BY <1>4, <1>5, <1>6, TaskShapes

LEMMA OnceStep == OnceInv /\ [Next]_vars => OnceInv'
<1> SUFFICES ASSUME OnceInv, [Next]_vars PROVE OnceInv'
  OBVIOUS
<1>1. ASSUME NEW t \in Tasks, TaskStep(t) PROVE OnceInv'
  BY <1>1, OnceTaskStep
<1>2. CASE EnvironmentStep
  <2>1. FlowTypes' /\ UNCHANGED <<decision, task, sent, dedup>>
    BY <1>2, FramesEnvironment DEF OnceInv, outVars
  <2> QED
    BY <2>1 DEF OnceInv, D
<1> QED
  BY <1>1, <1>2 DEF Next, EnvironmentStep

-----------------------------------------------------------------------------
(* Accepted decisions are kept *)

\* Only a task that is done has been accepted, and whoever comes to notify has
\* stored the decision or put it aside.
KeptInv ==
    /\ FlowTypes
    /\ \A t \in Tasks :
          /\ task[t].status \in {"accepted", "task_done"} => task[t].at = "done"
          /\ \/ task[t].at = "notifying"
             \/ /\ task[t].status \in {"accepted", "task_done"}
                /\ D(t).event_type = "decision"
             => t \in stored \/ kept[t].failure > 0

LEMMA KeptInit == Init => KeptInv
<1> SUFFICES ASSUME Init PROVE KeptInv
  OBVIOUS
<1>1. \A t \in Tasks : task[t].status = "none" /\ task[t].at \in {"new", "done"}
  BY DEF Init
<1> QED
  BY <1>1, TypesInit DEF KeptInv

LEMMA KeptTaskStep ==
    ASSUME KeptInv, NEW t \in Tasks, TaskStep(t)
    PROVE  KeptInv'
<1> FlowTypes /\ TypeOK
  BY DEF KeptInv, FlowTypes
<1>1. FlowTypes' /\ Alone(t)
  BY FramesGate, FramesOther
<1>2. /\ \A u \in Tasks : D(u)' = D(u)
      /\ task[t] \in Task
  BY TaskShapes DEF D, TypeOK
<1>3. CASE /\ task'[t].at # "notifying"
           /\ task'[t].status \in {"accepted", "task_done"} =>
                 /\ task'[t].at = "done"
                 /\ D(t).event_type = "decision" => t \in stored' \/ kept'[t].failure > 0
  BY <1>1, <1>2, <1>3 DEF KeptInv, Alone
<1>4. CASE AskGate(t)
  <2>1. task[t].at \in {"checking", "rechecking"}
    BY <1>4, GateAsked
  <2>2. task[t].status \notin {"accepted", "task_done"}
    BY <2>1 DEF KeptInv
  <2>3. task'[t].status \notin {"accepted", "task_done"} /\ task'[t].at # "notifying"
    BY <1>4, <2>1, <2>2, GateMoves DEF Moves
  <2> QED
    BY <1>3, <2>3
<1>5. CASE Begins(t) \/ AnswersAtOnce(t) \/ Thinks(t) \/ Judges(t)
  <2>1. task[t].at # "done"
    BY <1>5 DEF Begins, AnswersAtOnce, Thinks, Judges
  <2>2. task[t].status \notin {"accepted", "task_done"}
    BY <2>1 DEF KeptInv
  <2>3. /\ task'[t].at # "notifying"
        /\ task'[t].status \in {"accepted", "task_done"} =>
              task'[t].at = "done" /\ D(t).event_type # "decision"
    BY <1>5, <2>2 DEF Begins, AnswersAtOnce, Thinks, Judges, Moves
  <2> QED
    BY <1>3, <2>3
<1>6. CASE Finishes(t) /\ task[t].at \in {"trading", "deduping"}
  <2>1. task[t].status \notin {"accepted", "task_done"}
    BY <1>6 DEF KeptInv
  <2>2. task'[t].at # "notifying" /\ task'[t].status = task[t].status
    BY <1>6 DEF Finishes, Ends, Moves
  <2> QED
    BY <1>3, <2>1, <2>2
<1>7. CASE Finishes(t) /\ task[t].at = "persisting"
  <2>1. task[t].status \notin {"accepted", "task_done"} /\ kept[t].failure = 0
    BY <1>7 DEF KeptInv, FlowTypes
  <2>2. task'[t].at = "notifying" /\ task'[t].status = task[t].status
    BY <1>7 DEF Finishes, Ends, Moves
  <2>3. t \in stored' \/ kept'[t].failure > 0
    BY <1>7, <2>1 DEF Finishes, Ends, TypeOK
  <2> QED
    BY <1>1, <1>2, <2>1, <2>2, <2>3 DEF KeptInv, Alone
<1>8. CASE Finishes(t) /\ task[t].at = "notifying"
  <2>1. t \in stored \/ kept[t].failure > 0
    BY <1>8 DEF KeptInv
  <2>2. task'[t].at = "done" /\ stored' = stored /\ kept' = kept
    BY <1>8 DEF Finishes, Ends, Moves
  <2> QED
    BY <1>3, <2>1, <2>2
<1> QED
  BY <1>4, <1>5, <1>6, <1>7, <1>8, TaskShapes DEF Finishes, Ends

LEMMA KeptStep == KeptInv /\ [Next]_vars => KeptInv'
<1> SUFFICES ASSUME KeptInv, [Next]_vars PROVE KeptInv'
  OBVIOUS
<1>1. ASSUME NEW t \in Tasks, TaskStep(t) PROVE KeptInv'
  BY <1>1, KeptTaskStep
<1>2. CASE EnvironmentStep
  <2>1. FlowTypes' /\ UNCHANGED <<decision, task, stored, kept>>
    BY <1>2, FramesEnvironment DEF KeptInv, outVars
  <2> QED
    BY <2>1 DEF KeptInv, D
<1> QED
  BY <1>1, <1>2 DEF Next, EnvironmentStep

-----------------------------------------------------------------------------
(* Standing refusals *)

\* The gate that refuses by a policy.
GateOf(name) ==
    CASE name = "killzone" -> 2 [] name = "regime" -> 3
      [] name = "cooldown" -> 4 [] name = "exposure" -> 5 [] OTHER -> 0

\* A refusal that has stood so far still holds, and its gate is yet to be asked.
StandingInv ==
    /\ FlowTypes
    /\ \A t \in Events :
          /\ task[t].at = "new" => standing[t] = {}
          /\ task[t].at = "checking" =>
                \A name \in standing[t] : /\ name \in Refusals(D(t), policy_config, now)
                                          /\ task[t].gate <= GateOf(name)
          /\ task[t].at \notin {"new", "checking"} /\ standing[t] # {} =>
                task[t].at = "done" /\ task[t].status \in {"rejected", "deferred"}

LEMMA StandingInit == Init => StandingInv
<1> SUFFICES ASSUME Init PROVE StandingInv
  OBVIOUS
<1>1. \A t \in Tasks : standing[t] = {} /\ task[t].at \in {"new", "done"}
  BY DEF Init
<1> QED
  BY <1>1, TypesInit DEF StandingInv, Tasks

\* A gate that lets pass refuted its own policy's refusal.
LEMMA PassedGate ==
    ASSUME NEW t, NEW up, task[t].gate \in 1..8, Verdicts(t, up) = {},
           NEW name \in Refusals(D(t), policy_config, now)
    PROVE  GateOf(name) # task[t].gate
<1>1. name \in {"killzone", "regime", "cooldown", "exposure"}
  BY DEF Refusals
<1>2. CASE name = "killzone" /\ task[t].gate = 2
  BY <1>2 DEF Verdicts, Gates, Refusals
<1>3. CASE name = "regime" /\ task[t].gate = 3
  BY <1>3 DEF Verdicts, Gates, Refusals
<1>4. CASE name = "cooldown" /\ task[t].gate = 4
  BY <1>4 DEF Verdicts, Gates, Refusals
<1>5. CASE name = "exposure" /\ task[t].gate = 5
  BY <1>5 DEF Verdicts, Gates, Refusals
<1>6. /\ name = "killzone" => GateOf(name) = 2
      /\ name = "regime" => GateOf(name) = 3
      /\ name = "cooldown" => GateOf(name) = 4
      /\ name = "exposure" => GateOf(name) = 5
  BY DEF GateOf
<1> QED
  BY <1>1, <1>2, <1>3, <1>4, <1>5, <1>6

LEMMA StandingAsk ==
    ASSUME StandingInv, NEW t \in Tasks, AskGate(t), t \in Events
    PROVE  /\ task'[t].at # "new" /\ standing' = standing
           /\ task'[t].at = "checking" =>
                 \A name \in standing[t] : /\ name \in Refusals(D(t), policy_config, now)
                                           /\ task'[t].gate <= GateOf(name)
           /\ task'[t].at # "checking" /\ standing[t] # {} =>
                 task'[t].at = "done" /\ task'[t].status \in {"rejected", "deferred"}
<1> FlowTypes /\ TypeOK
  BY DEF StandingInv, FlowTypes
<1>1. /\ task \in [Tasks -> Task] /\ task[t].gate \in 1..8 /\ t \notin Queued
      /\ task[t].at \in {"checking", "rechecking"} /\ standing' = standing
  BY FlowAssumption, GateAsked DEF TypeOK, Task, Gates
<1>2. \A name \in standing[t] : GateOf(name) \in 2..5 \/ task[t].at # "checking"
  BY DEF StandingInv, GateOf, Refusals
<1>3. CASE task[t].at = "rechecking"
  <2>1. standing[t] = {}
    BY <1>3 DEF StandingInv
  <2>2. task'[t].at \notin {"new", "checking"}
    BY <1>3, GateMoves DEF Moves
  <2> QED
    BY <1>1, <2>1, <2>2
<1>4. CASE task[t].at = "checking" /\ \E v \in Entry : Noted(t, v) /\ Refused(t, v)
  <2>1. PICK v \in Entry : Noted(t, v) /\ Refused(t, v)
    BY <1>4
  <2> DEFINE status == IF v.result = "veto" THEN "rejected" ELSE "deferred"
  <2>2. Answer(t, status) /\ status \in Statuses /\ status \in {"rejected", "deferred"}
    BY <1>1, <1>4, <2>1 DEF Refused, Statuses
  <2> HIDE DEF status
  <2>3. Moves(t, "done", status)
    BY <2>2, AnswerMoves
  <2> QED
    BY <1>1, <2>2, <2>3 DEF Moves
<1>5. CASE /\ task[t].at = "checking" /\ task[t].gate < 8
           /\ \E up \in BOOLEAN : Verdicts(t, up) = {}
           /\ task' = [task EXCEPT ![t].gate = @ + 1]
  <2>1. task'[t].at = "checking" /\ task'[t].gate = task[t].gate + 1
    BY <1>1, <1>5 DEF Task
  <2>2. \A name \in standing[t] : /\ name \in Refusals(D(t), policy_config, now)
                                  /\ task[t].gate <= GateOf(name)
    BY <1>5 DEF StandingInv
  <2>3. \A name \in standing[t] : GateOf(name) # task[t].gate
    BY <1>1, <1>5, <2>2, PassedGate
  <2> QED
    BY <1>1, <1>2, <1>5, <2>1, <2>2, <2>3
<1>6. CASE task[t].at = "checking" /\ task[t].gate = 8 /\ Onwards(t)
  <2>1. standing[t] = {}
    BY <1>2, <1>6 DEF StandingInv
  <2>2. Go(t, "selecting") /\ "selecting" \in Places
    BY <1>1, <1>6 DEF Onwards, Places
  <2>3. task'[t].at = "selecting"
    BY <2>2, GoMoves DEF Moves
  <2> QED
    BY <1>1, <2>1, <2>3
<1> QED
  BY <1>1, <1>3, <1>4, <1>5, <1>6, GateAsked

LEMMA StandingTaskStep ==
    ASSUME StandingInv, NEW t \in Tasks, TaskStep(t)
    PROVE  StandingInv'
<1> FlowTypes /\ TypeOK
  BY DEF StandingInv, FlowTypes
<1>1. FlowTypes' /\ Alone(t)
  BY FramesGate, FramesOther
<1>2. /\ \A u \in Tasks : D(u)' = D(u)
      /\ UNCHANGED <<policy_config, now>> /\ Events \subseteq Tasks
  BY TaskShapes DEF D, Tasks, policyVars
<1>3. ASSUME t \in Events =>
                /\ task'[t].at = "new" => standing'[t] = {}
                /\ task'[t].at = "checking" =>
                      \A name \in standing'[t] :
                          /\ name \in Refusals(D(t), policy_config, now)
                          /\ task'[t].gate <= GateOf(name)
                /\ task'[t].at \notin {"new", "checking"} /\ standing'[t] # {} =>
                      task'[t].at = "done" /\ task'[t].status \in {"rejected", "deferred"}
      PROVE  StandingInv'
  BY <1>1, <1>2, <1>3 DEF StandingInv, Alone
<1>4. CASE AskGate(t)
  BY <1>3, <1>4, StandingAsk
<1>5. CASE Begins(t)
  <2>1. /\ task'[t].at = "checking" /\ task'[t].gate = 1
        /\ standing'[t] = Refusals(D(t), policy_config, now)
    BY <1>5 DEF Begins, Moves, TypeOK
  <2>2. \A name \in Refusals(D(t), policy_config, now) : 1 <= GateOf(name)
    BY DEF Refusals, GateOf
  <2> QED
    BY <1>3, <2>1, <2>2
<1>6. CASE AnswersAtOnce(t) \/ Thinks(t) \/ Judges(t) \/ Finishes(t)
  <2>1. /\ standing' = standing /\ task[t].at \notin {"checking", "done"}
        /\ task'[t].at \notin {"new", "checking"}
    BY <1>6 DEF AnswersAtOnce, Thinks, Judges, Finishes, Ends, Moves
  <2>2. t \in Events => standing[t] = {}
    BY <2>1 DEF StandingInv
  <2> QED
    BY <1>3, <2>1, <2>2
<1> QED
  BY <1>4, <1>5, <1>6, TaskShapes

LEMMA StandingStep == StandingInv /\ [Next]_vars => StandingInv'
<1> SUFFICES ASSUME StandingInv, [Next]_vars PROVE StandingInv'
  OBVIOUS
<1>1. ASSUME NEW t \in Tasks, TaskStep(t) PROVE StandingInv'
  BY <1>1, StandingTaskStep
<1>2. CASE EnvironmentStep
  <2>1. FlowTypes' /\ UNCHANGED <<decision, task>>
    BY <1>2, FramesEnvironment DEF StandingInv
  <2>2. UNCHANGED <<standing, policy_config, now>> \/ StillStanding(policy_config', now')
    BY <1>2 DEF EnvironmentStep, ChangePolicy, WriteAllowlist, Tick, Finished, vars
  <2>3. CASE UNCHANGED <<standing, policy_config, now>>
    BY <2>1, <2>3 DEF StandingInv, D
  <2>4. CASE StillStanding(policy_config', now')
    <3>1. \A t \in Events :
             standing'[t] = IF task[t].at = "checking"
                            THEN standing[t] \cap Refusals(D(t), policy_config', now')
                            ELSE standing[t]
      BY <2>4 DEF StillStanding, Tasks
    <3>2. \A t \in Events : Refusals(D(t), policy_config, now)'
                               = Refusals(D(t), policy_config', now')
      BY <2>1 DEF D
    <3> QED
      BY <2>1, <3>1, <3>2 DEF StandingInv
  <2> QED
    BY <2>2, <2>3, <2>4
<1> QED
  BY <1>1, <1>2 DEF Next, EnvironmentStep

-----------------------------------------------------------------------------
(* The books of the policy gates *)

Deferrals(a) == {i \in DOMAIN a : a[i].result = "defer"}

\* One entry more in an audit.
LEMMA DeferralsAfter ==
    ASSUME NEW a \in Seq(Entry), NEW v \in Entry
    PROVE  /\ Cardinality(Deferrals(a)) \in Nat
           /\ Cardinality(Deferrals(a)) <= Len(a) /\ Len(a) \in Nat
           /\ Len(Append(a, v)) = Len(a) + 1
           /\ DOMAIN Append(a, v) = DOMAIN a \cup {Len(a) + 1}
           /\ \A k \in DOMAIN a : Append(a, v)[k] = a[k]
           /\ Append(a, v)[Len(a) + 1] = v
           /\ Cardinality(Deferrals(Append(a, v))) =
                 IF v.result = "defer" THEN Cardinality(Deferrals(a)) + 1
                 ELSE Cardinality(Deferrals(a))
<1> DEFINE b == Append(a, v)
<1> DEFINE new == Len(a) + 1
<1>1. /\ Len(a) \in Nat /\ DOMAIN a = 1..Len(a)
      /\ b \in Seq(Entry) /\ Len(b) = new /\ DOMAIN b = 1..Len(b)
      /\ \A k \in 1..Len(a) : b[k] = a[k]
      /\ b[new] = v
  <2>0. Len(a) \in Nat /\ DOMAIN a = 1..Len(a)
    BY LenProperties
  <2>1. /\ Append(a, v) \in Seq(Entry) /\ Len(Append(a, v)) = Len(a) + 1
        /\ \A k \in 1..Len(a) : Append(a, v)[k] = a[k]
        /\ Append(a, v)[Len(a) + 1] = v
    BY AppendProperties
  <2>2. b \in Seq(Entry) /\ Len(b) = new /\ b[new] = v
        /\ \A k \in 1..Len(a) : b[k] = a[k]
    BY <2>1
  <2> HIDE DEF b, new
  <2>3. DOMAIN b = 1..Len(b)
    BY <2>2, LenProperties
  <2> QED
    BY <2>0, <2>2, <2>3
<1> HIDE DEF b
<1>2. DOMAIN b = DOMAIN a \cup {new} /\ new \notin DOMAIN a
  <2>1. \A n \in Nat : 1..(n + 1) = (1..n) \cup {n + 1} /\ n + 1 \notin 1..n
    OBVIOUS
  <2> QED
    BY <1>1, <2>1
<1>3. /\ IsFiniteSet(Deferrals(a)) /\ Cardinality(Deferrals(a)) \in Nat
      /\ Cardinality(Deferrals(a)) <= Len(a)
  <2>1. Deferrals(a) \subseteq 1..Len(a)
    BY <1>1 DEF Deferrals
  <2>2. \A n \in Nat : IsFiniteSet(1..n) /\ Cardinality(1..n) = n
    BY FS_Interval
  <2>3. IsFiniteSet(1..Len(a)) /\ Cardinality(1..Len(a)) = Len(a)
    BY <1>1, <2>2
  <2> QED
    BY <2>1, <2>3, FS_Subset, FS_CardinalityType
<1>4. Deferrals(b) = IF v.result = "defer" THEN Deferrals(a) \cup {new} ELSE Deferrals(a)
  <2> HIDE DEF new
  <2> QED
    BY <1>1, <1>2 DEF Deferrals
<1>5. Cardinality(Deferrals(a) \cup {new}) = Cardinality(Deferrals(a)) + 1
  <2>1. new \notin Deferrals(a)
    BY <1>2 DEF Deferrals
  <2> QED
    BY <1>3, <2>1, FS_AddElement
<1> QED
  BY <1>1, <1>2, <1>3, <1>4, <1>5 DEF b

\* Places at which an event has not got past a refusal.
Early == {"new", "checking", "selecting", "reasoning", "planning"}

\* Every deferral of the audit is in the queue, and until the plan has passed an
\* event leaves nothing; what is refused then leaves its one entry.
RefusedInv ==
    /\ FlowTypes
    /\ \A t \in Tasks : kept[t].policy_defer = Cardinality(Deferrals(audit[t]))
    /\ \A t \in Events :
          /\ task[t].at \in Early =>
                t \notin stored /\ t \notin traded /\ sent[t] = {} /\ audit[t] = <<>>
          /\ task[t].status \in {"rejected", "deferred"} =>
                /\ task[t].at = "done"
                /\ t \notin stored /\ t \notin traded /\ sent[t] = {}
                /\ kept[t].failure = 0
                /\ kept[t].policy_defer > 0 => task[t].status = "deferred"

LEMMA NoDeferrals == Deferrals(<<>>) = {} /\ Cardinality({}) = 0
BY FS_EmptySet DEF Deferrals

LEMMA RefusedInit == Init => RefusedInv
<1> SUFFICES ASSUME Init PROVE RefusedInv
  OBVIOUS
<1>1. \A t \in Tasks : task[t].status = "none" /\ task[t].at \in {"new", "done"}
  BY DEF Init
<1> QED
  BY <1>1, TypesInit, NoDeferrals DEF RefusedInv, Init, Tasks

\* What a task's step does to its own entries keeps the deferrals in step.
LEMMA DeferralsKept ==
    ASSUME RefusedInv, NEW t \in Tasks, TaskStep(t)
    PROVE  \A u \in Tasks : kept'[u].policy_defer = Cardinality(Deferrals(audit'[u]))
<1> FlowTypes /\ TypeOK
  BY DEF RefusedInv, FlowTypes
<1>1. Alone(t) /\ audit \in [Tasks -> Seq(Entry)] /\ audit[t] \in Seq(Entry)
      /\ kept \in [Tasks -> [policy_defer : Nat, failure : 0..1]]
      /\ kept[t].policy_defer = Cardinality(Deferrals(audit[t]))
  BY FramesGate, FramesOther DEF FlowTypes, TypeOK, RefusedInv
<1>2. SUFFICES kept'[t].policy_defer = Cardinality(Deferrals(audit'[t]))
  BY <1>1 DEF Alone, RefusedInv
<1>3. ASSUME NEW v \in Entry, Noted(t, v)
      PROVE  kept'[t].policy_defer = Cardinality(Deferrals(audit'[t]))
  <2>1. /\ audit'[t] = Append(audit[t], v)
        /\ kept'[t].policy_defer = IF v.result = "defer" THEN kept[t].policy_defer + 1
                                   ELSE kept[t].policy_defer
    BY <1>3, NotedTypes DEF RefusedInv
  <2>2. Cardinality(Deferrals(Append(audit[t], v))) =
           IF v.result = "defer" THEN Cardinality(Deferrals(audit[t])) + 1
           ELSE Cardinality(Deferrals(audit[t]))
    BY <1>1, DeferralsAfter
  <2> QED
    BY <1>1, <2>1, <2>2
<1>4. CASE audit' = audit /\ kept'[t].policy_defer = kept[t].policy_defer
  BY <1>1, <1>4
<1>5. CASE AskGate(t)
  BY <1>3, <1>4, <1>5, GateMoves DEF NothingNoted
<1>6. CASE Begins(t) \/ AnswersAtOnce(t) \/ Thinks(t)
  BY <1>4, <1>6 DEF Begins, AnswersAtOnce, Thinks, Silent
<1>7. CASE Judges(t)
  <2>1. kept' = kept
    BY <1>7 DEF Judges
  <2>2. ASSUME NEW v \in Entry, v.result = "veto",
               audit' = [audit EXCEPT ![t] = Append(@, v)]
        PROVE  kept'[t].policy_defer = Cardinality(Deferrals(audit'[t]))
    <3>1. audit'[t] = Append(audit[t], v)
      BY <1>1, <2>2
    <3> QED
      BY <1>1, <2>1, <2>2, <3>1, DeferralsAfter
  <2> QED
    BY <1>4, <1>7, <2>1, <2>2 DEF Judges
<1>8. CASE Finishes(t)
  <2>1. audit' = audit
    BY <1>8 DEF Finishes
  <2>2. kept' = kept \/ kept' = [kept EXCEPT ![t].failure = @ + 1]
    BY <1>8 DEF Finishes, Ends
  <2>3. kept'[t].policy_defer = kept[t].policy_defer
    BY <1>1, <2>2
  <2> QED
    BY <1>4, <2>1, <2>3
<1> QED
  BY <1>5, <1>6, <1>7, <1>8, TaskShapes

\* What an event of its own leaves.
Leaves(t) ==
    /\ task[t].at \in Early =>
          t \notin stored /\ t \notin traded /\ sent[t] = {} /\ audit[t] = <<>>
    /\ task[t].status \in {"rejected", "deferred"} =>
          /\ task[t].at = "done"
          /\ t \notin stored /\ t \notin traded /\ sent[t] = {}
          /\ kept[t].failure = 0
          /\ kept[t].policy_defer > 0 => task[t].status = "deferred"

LEMMA EventLeaves ==
    ASSUME RefusedInv, NEW t \in Events, TaskStep(t)
    PROVE  Leaves(t)'
<1> t \in Tasks /\ t \notin Queued
  BY FlowAssumption DEF Tasks
<1> FlowTypes /\ TypeOK
  BY DEF RefusedInv, FlowTypes
<1>1. /\ Leaves(t) /\ kept[t].policy_defer = Cardinality(Deferrals(audit[t]))
      /\ task[t].at # "done" => task[t].status \notin {"rejected", "deferred"}
      /\ task[t].at \notin {"notifying", "done"} => kept[t].failure = 0
  BY DEF RefusedInv, Leaves, FlowTypes
<1>2. task[t].at \in Early => audit[t] = <<>> /\ kept[t].policy_defer = 0
  BY <1>1, NoDeferrals DEF Leaves
<1>3. CASE AskGate(t)
  <2>1. /\ UNCHANGED <<stored, sent, traded>> /\ task[t].at \in {"checking", "rechecking"}
        /\ kept'[t].failure = kept[t].failure
    BY <1>3, GateAsked, FramesGate DEF outVars
  <2>2. CASE task[t].at = "rechecking"
    <3>1. task'[t].at \in {"rechecking", "judging"} /\ task'[t].status = task[t].status
      BY <1>3, <2>2, GateMoves DEF Moves
    <3> QED
      BY <1>1, <2>2, <3>1 DEF Leaves, Early
  <2>3. CASE task[t].at = "checking"
    <3>1. task[t].at \in Early
      BY <2>3 DEF Early
    <3>2. CASE \E v \in Entry :
                  /\ Noted(t, v)
                  /\ Moves(t, "done", IF v.result = "veto" THEN "rejected" ELSE "deferred")
      <4>1. PICK v \in Entry :
                  /\ Noted(t, v)
                  /\ Moves(t, "done", IF v.result = "veto" THEN "rejected" ELSE "deferred")
        BY <3>2
      <4>2. /\ task'[t].at = "done"
            /\ task'[t].status = IF v.result = "veto" THEN "rejected" ELSE "deferred"
            /\ kept'[t].policy_defer = IF v.result = "defer" THEN kept[t].policy_defer + 1
                                       ELSE kept[t].policy_defer
            /\ v.result \in {"veto", "defer"}
        BY <4>1, NotedTypes DEF Moves, Entry
      <4> QED
        BY <1>1, <1>2, <2>1, <2>3, <3>1, <4>2 DEF Leaves, Early
    <3>3. CASE /\ NothingNoted
               /\ Moves(t, "selecting", task[t].status) \/ Moves(t, task[t].at, task[t].status)
      <4>1. /\ task'[t].at \in {"checking", "selecting"} /\ task'[t].status = task[t].status
            /\ audit'[t] = audit[t]
        BY <2>3, <3>3 DEF Moves, NothingNoted
      <4> QED
        BY <1>1, <2>1, <2>3, <3>1, <4>1 DEF Leaves
    <3>4. Moves(t, task[t].at, task[t].status) => NothingNoted
      BY <1>3, GateMoves DEF Moves
    <3> QED
      BY <1>3, <2>3, <3>2, <3>3, <3>4, GateMoves
  <2> QED
    BY <2>1, <2>2, <2>3

<1>4. CASE Begins(t) \/ AnswersAtOnce(t)
  <2>1. /\ UNCHANGED <<stored, sent, traded, audit, kept>> /\ task[t].at = "new"
        /\ \/ task'[t].at = "checking" /\ task'[t].status = task[t].status
           \/ task'[t].at = "done"
    BY <1>4 DEF Begins, AnswersAtOnce, Moves, Silent
  <2> QED
    BY <1>1, <1>2, <2>1 DEF Leaves, Early
<1>5. CASE Thinks(t)
  <2>1. /\ UNCHANGED <<stored, sent, traded, audit, kept>>
        /\ task[t].at \in {"selecting", "reasoning", "planning"}
        /\ \/ /\ task'[t].at \in {"reasoning", "planning", "rechecking"}
              /\ task'[t].status = task[t].status
           \/ task'[t].at = "done"
    BY <1>5 DEF Thinks, Moves
  <2> QED
    BY <1>1, <1>2, <2>1 DEF Leaves, Early
<1>6. CASE Judges(t) \/ Finishes(t)
  <2>1. /\ task[t].at \in {"judging", "trading", "deduping", "persisting", "notifying"}
        /\ \/ /\ task'[t].at \in {"trading", "deduping", "persisting", "notifying"}
              /\ task'[t].status = task[t].status
           \/ task'[t].at = "done" /\ task'[t].status = "accepted"
    BY <1>6 DEF Judges, Finishes, Ends, Moves
  <2>2. task'[t].status \notin {"rejected", "deferred"} /\ task'[t].at \notin Early
    BY <1>1, <2>1 DEF Early
  <2> QED
    BY <2>2 DEF Leaves
<1> QED
  BY <1>3, <1>4, <1>5, <1>6, TaskShapes

LEMMA RefusedStep == RefusedInv /\ [Next]_vars => RefusedInv'
<1> SUFFICES ASSUME RefusedInv, [Next]_vars PROVE RefusedInv'
  OBVIOUS
<1>1. ASSUME NEW t \in Tasks, TaskStep(t) PROVE RefusedInv'
  <2>1. FlowTypes' /\ Alone(t)
    BY <1>1, FramesGate, FramesOther DEF RefusedInv
  <2>2. \A u \in Tasks : kept'[u].policy_defer = Cardinality(Deferrals(audit'[u]))
    BY <1>1, DeferralsKept
  <2>3. \A u \in Tasks : (kept[u].policy_defer = Cardinality(Deferrals(audit[u])))'
    BY <2>2
  <2>4. \A u \in Events : Leaves(u)'
    <3>1. \A u \in Events \ {t} : Leaves(u)'
      BY <2>1 DEF Leaves, Alone, RefusedInv, Tasks
    <3>2. t \in Events => Leaves(t)'
      BY <1>1, EventLeaves
    <3> QED
      BY <3>1, <3>2
  <2> QED
    BY <2>1, <2>3, <2>4 DEF RefusedInv, Leaves
<1>2. CASE EnvironmentStep
  <2>1. FlowTypes' /\ UNCHANGED <<task, audit, kept, stored, sent, traded>>
    BY <1>2, FramesEnvironment DEF RefusedInv, outVars
  <2> QED
    BY <2>1 DEF RefusedInv
<1> QED
  BY <1>1, <1>2 DEF Next, EnvironmentStep


\* The entries of one kind in all audits, and the deferrals in the queue, as the
\* pairs that CountersMatchAudit counts.
Pairs == Tasks \X (1..3)
EntriesOf(a, result) ==
    {p \in Pairs : p[2] \in DOMAIN a[p[1]] /\ a[p[1]][p[2]].result = result}
Owed(k) == {p \in Pairs : p[2] <= k[p[1]].policy_defer}

LEMMA PairsAreFinite ==
    ASSUME NEW S \in SUBSET Pairs
    PROVE  IsFiniteSet(S) /\ Cardinality(S) \in Nat
<1>1. IsFiniteSet(Tasks)
  BY FlowAssumption DEF Tasks
<1>2. IsFiniteSet(1..3)
  <2>1. \A n \in Nat : IsFiniteSet(1..n)
    BY FS_Interval
  <2> QED
    BY <2>1
<1>3. IsFiniteSet(Pairs)
  BY <1>1, <1>2, FS_Product DEF Pairs
<1> QED
  BY <1>3, FS_Subset, FS_CardinalityType

\* Task t has written entry v, which makes b of a.
Writes(a, b, t, v) ==
    /\ b[t] = Append(a[t], v)
    /\ \A u \in Tasks \ {t} : b[u] = a[u]

\* One entry more counts once.
LEMMA EntriesAfter ==
    ASSUME NEW a \in [Tasks -> Seq(Entry)], NEW b \in [Tasks -> Seq(Entry)],
           NEW t \in Tasks, NEW v \in Entry, NEW result \in {"veto", "defer"},
           Len(a[t]) <= 2, Writes(a, b, t, v)
    PROVE  /\ v.result = result =>
                 Cardinality(EntriesOf(b, result)) = Cardinality(EntriesOf(a, result)) + 1
           /\ v.result # result =>
                 Cardinality(EntriesOf(b, result)) = Cardinality(EntriesOf(a, result))
<1> DEFINE new == Len(a[t]) + 1
<1>1. /\ new \in 1..3 /\ new \notin DOMAIN a[t]
      /\ DOMAIN b[t] = DOMAIN a[t] \cup {new} /\ b[t][new] = v
      /\ \A k \in DOMAIN a[t] : b[t][k] = a[t][k]
  <2>1. a[t] \in Seq(Entry)
    OBVIOUS
  <2>2. Len(a[t]) \in Nat /\ DOMAIN a[t] = 1..Len(a[t])
    BY <2>1, LenProperties
  <2>3. /\ DOMAIN Append(a[t], v) = DOMAIN a[t] \cup {Len(a[t]) + 1}
        /\ \A k \in DOMAIN a[t] : Append(a[t], v)[k] = a[t][k]
        /\ Append(a[t], v)[Len(a[t]) + 1] = v
    BY <2>1, DeferralsAfter
  <2> QED
    BY <2>2, <2>3 DEF Writes
<1> HIDE DEF new
<1> DEFINE pair == <<t, new>>
<1>2. pair \in Pairs /\ pair \notin EntriesOf(a, result)
  BY <1>1 DEF Pairs, EntriesOf
<1>3. ASSUME NEW p \in Pairs
      PROVE  p \in EntriesOf(b, result) <=>
                p \in EntriesOf(a, result) \/ (p = pair /\ v.result = result)
  <2>1. p[1] \in Tasks /\ p[2] \in 1..3 /\ p = <<p[1], p[2]>>
    BY DEF Pairs
  <2>2. CASE p[1] # t
    BY <2>1, <2>2 DEF EntriesOf, Writes
  <2>3. CASE p[1] = t /\ p[2] = new
    BY <1>1, <2>1, <2>3 DEF EntriesOf
  <2>4. CASE p[1] = t /\ p[2] # new
    BY <1>1, <2>1, <2>4 DEF EntriesOf
  <2> QED
    BY <2>2, <2>3, <2>4
<1>4. EntriesOf(b, result) = IF v.result = result THEN EntriesOf(a, result) \cup {pair}
                             ELSE EntriesOf(a, result)
  <2>1. EntriesOf(b, result) \subseteq Pairs /\ EntriesOf(a, result) \subseteq Pairs
    BY DEF EntriesOf
  <2> HIDE DEF pair
  <2> QED
    BY <1>2, <1>3, <2>1
<1>5. IsFiniteSet(EntriesOf(a, result))
  BY PairsAreFinite DEF EntriesOf
<1>6. Cardinality(EntriesOf(a, result) \cup {pair}) = Cardinality(EntriesOf(a, result)) + 1
  BY <1>2, <1>5, FS_AddElement
<1> QED
  BY <1>4, <1>6

\* One deferral more in the queue counts once.
LEMMA OwedAfter ==
    ASSUME NEW k \in [Tasks -> [policy_defer : Nat, failure : 0..1]],
           NEW m \in [Tasks -> [policy_defer : Nat, failure : 0..1]],
           NEW t \in Tasks, k[t].policy_defer <= 2,
           m[t].policy_defer = k[t].policy_defer + 1,
           \A u \in Tasks \ {t} : m[u].policy_defer = k[u].policy_defer
    PROVE  Cardinality(Owed(m)) = Cardinality(Owed(k)) + 1
<1> DEFINE new == k[t].policy_defer + 1
<1>1. new \in 1..3 /\ k[t].policy_defer \in Nat /\ new = k[t].policy_defer + 1
  <2>1. k[t] \in [policy_defer : Nat, failure : 0..1]
    OBVIOUS
  <2>2. k[t].policy_defer \in Nat
    BY <2>1
  <2>3. \A n \in Nat : n <= 2 => n + 1 \in 1..3
    OBVIOUS
  <2> QED
    BY <2>2, <2>3
<1> HIDE DEF new
<1> DEFINE pair == <<t, new>>
<1>2. pair \in Pairs /\ pair \notin Owed(k)
  BY <1>1 DEF Pairs, Owed
<1>3. ASSUME NEW p \in Pairs
      PROVE  p \in Owed(m) <=> p \in Owed(k) \/ p = pair
  <2>1. p[1] \in Tasks /\ p[2] \in 1..3 /\ p = <<p[1], p[2]>>
    BY DEF Pairs
  <2>2. CASE p[1] # t
    BY <2>1, <2>2 DEF Owed
  <2>3. CASE p[1] = t
    BY <1>1, <2>1, <2>3 DEF Owed
  <2> QED
    BY <2>2, <2>3
<1>4. Owed(m) = Owed(k) \cup {pair}
  <2>1. Owed(m) \subseteq Pairs /\ Owed(k) \subseteq Pairs
    BY DEF Owed
  <2> HIDE DEF pair
  <2> QED
    BY <1>2, <1>3, <2>1
<1>5. IsFiniteSet(Owed(k))
  BY PairsAreFinite DEF Owed
<1> QED
  BY <1>2, <1>4, <1>5, FS_AddElement


\* How long the audit of a task can be where it stands: two checks and the judgement
\* of the confidence write at most one entry each.
Written(at) ==
    CASE at \in {"new", "checking"} -> 0
      [] at \in {"selecting", "reasoning", "planning", "rechecking"} -> 1
      [] at = "judging" -> 2
      [] OTHER -> 3

CountInv ==
    /\ RefusedInv
    /\ \A t \in Tasks : Len(audit[t]) <= Written(task[t].at)
    /\ counters["veto"] = Cardinality(EntriesOf(audit, "veto"))
    /\ counters["defer"] = Cardinality(EntriesOf(audit, "defer"))
    /\ counters["defer"] = Cardinality(Owed(kept))

LEMMA CountInit == Init => CountInv
<1> SUFFICES ASSUME Init PROVE CountInv
  OBVIOUS
<1>1. \A t \in Tasks : audit[t] = <<>> /\ kept[t].policy_defer = 0
                       /\ Len(audit[t]) = 0 /\ task[t].at \in {"new", "done"}
  BY DEF Init
<1>2. EntriesOf(audit, "veto") = {} /\ EntriesOf(audit, "defer") = {} /\ Owed(kept) = {}
  BY <1>1 DEF EntriesOf, Owed, Pairs
<1>3. counters["veto"] = 0 /\ counters["defer"] = 0
  BY DEF Init
<1>4. \A t \in Tasks : Len(audit[t]) <= Written(task[t].at)
  <2>1. \A at : Written(at) \in 0..3
    BY DEF Written
  <2> QED
    BY <1>1, <2>1
<1> QED
  BY <1>2, <1>3, <1>4, RefusedInit, NoDeferrals DEF CountInv

\* The audit of a task that asks a gate, or has its confidence judged, has room.
LEMMA RoomToWrite ==
    ASSUME CountInv, NEW t \in Tasks
    PROVE  /\ Len(audit[t]) \in Nat /\ audit[t] \in Seq(Entry)
           /\ task[t].at = "checking" => Len(audit[t]) = 0
           /\ task[t].at = "rechecking" => Len(audit[t]) <= 1
           /\ task[t].at = "judging" => Len(audit[t]) <= 2
           /\ kept[t].policy_defer \in Nat /\ kept[t].policy_defer <= Len(audit[t])
<1>1. audit[t] \in Seq(Entry) /\ kept[t].policy_defer = Cardinality(Deferrals(audit[t]))
  BY DEF CountInv, RefusedInv, FlowTypes
<1>2. Len(audit[t]) \in Nat
  BY <1>1, LenProperties
<1>3. kept[t].policy_defer \in Nat /\ kept[t].policy_defer <= Len(audit[t])
  <2> DEFINE v == [result |-> "defer", reason |-> "killzone"]
  <2>1. v \in Entry
    BY DEF Entry, Reasons
  <2> QED
    BY <1>1, <2>1, DeferralsAfter
<1> QED
  BY <1>1, <1>2, <1>3 DEF CountInv, Written

\* A step writes one entry, or none, and the books agree.
LEMMA CountsStep ==
    ASSUME CountInv, NEW t \in Tasks, TaskStep(t)
    PROVE  /\ (counters["veto"] = Cardinality(EntriesOf(audit, "veto")))'
           /\ (counters["defer"] = Cardinality(EntriesOf(audit, "defer")))'
           /\ (counters["defer"] = Cardinality(Owed(kept)))'
<1> FlowTypes /\ TypeOK
  BY DEF CountInv, RefusedInv, FlowTypes
<1>1. /\ FlowTypes' /\ Alone(t) /\ audit \in [Tasks -> Seq(Entry)]
      /\ audit' \in [Tasks -> Seq(Entry)]
      /\ kept \in [Tasks -> [policy_defer : Nat, failure : 0..1]]
      /\ kept' \in [Tasks -> [policy_defer : Nat, failure : 0..1]]
      /\ counters \in [{"pass", "veto", "defer"} -> Nat]
  BY FramesGate, FramesOther DEF FlowTypes, TypeOK
<1>2. /\ counters["veto"] = Cardinality(EntriesOf(audit, "veto"))
      /\ counters["defer"] = Cardinality(EntriesOf(audit, "defer"))
      /\ counters["defer"] = Cardinality(Owed(kept))
  BY DEF CountInv
<1>3. ASSUME NEW v \in Entry, audit'[t] = Append(audit[t], v), Len(audit[t]) <= 2,
             NEW result \in {"veto", "defer"}
      PROVE  Cardinality(EntriesOf(audit, result))' =
                IF v.result = result THEN Cardinality(EntriesOf(audit, result)) + 1
                ELSE Cardinality(EntriesOf(audit, result))
  <2> DEFINE b == audit'
  <2> DEFINE a == audit
  <2>1. b \in [Tasks -> Seq(Entry)] /\ Writes(a, b, t, v)
    BY <1>1, <1>3 DEF Alone, Writes
  <2>2. a \in [Tasks -> Seq(Entry)] /\ Len(a[t]) <= 2
    BY <1>1, <1>3
  <2> HIDE DEF a, b
  <2>3. /\ v.result = result =>
              Cardinality(EntriesOf(b, result)) = Cardinality(EntriesOf(a, result)) + 1
        /\ v.result # result =>
              Cardinality(EntriesOf(b, result)) = Cardinality(EntriesOf(a, result))
    BY <2>1, <2>2, EntriesAfter
  <2> QED
    BY <2>3 DEF a, b, EntriesOf, Pairs

<1>4. ASSUME audit'[t] = audit[t]
      PROVE  /\ Cardinality(EntriesOf(audit, "veto"))' = Cardinality(EntriesOf(audit, "veto"))
             /\ Cardinality(EntriesOf(audit, "defer"))' = Cardinality(EntriesOf(audit, "defer"))
  <2>1. \A u \in Tasks : audit'[u] = audit[u]
    BY <1>1, <1>4 DEF Alone
  <2>2. audit' = audit
    BY <1>1, <2>1
  <2> QED
    BY <2>2 DEF EntriesOf, Pairs
<1>5. ASSUME kept'[t].policy_defer = kept[t].policy_defer
      PROVE  Cardinality(Owed(kept))' = Cardinality(Owed(kept))
  <2>1. \A u \in Tasks : kept'[u].policy_defer = kept[u].policy_defer
    BY <1>1, <1>5 DEF Alone
  <2>2. Owed(kept') = Owed(kept)
    BY <2>1 DEF Owed, Pairs
  <2> QED
    BY <2>2 DEF Owed, Pairs
<1>6. ASSUME NEW v \in Entry, Noted(t, v), Len(audit[t]) <= 2, kept[t].policy_defer <= 2
      PROVE  /\ (counters["veto"] = Cardinality(EntriesOf(audit, "veto")))'
             /\ (counters["defer"] = Cardinality(EntriesOf(audit, "defer")))'
             /\ (counters["defer"] = Cardinality(Owed(kept)))'
  <2>1. /\ audit'[t] = Append(audit[t], v)
        /\ kept'[t].policy_defer = IF v.result = "defer" THEN kept[t].policy_defer + 1
                                   ELSE kept[t].policy_defer
        /\ v.result \in {"veto", "defer"}
    BY <1>6, NotedTypes DEF Entry
  <2>2. /\ Cardinality(EntriesOf(audit, "veto"))' =
              IF v.result = "veto" THEN Cardinality(EntriesOf(audit, "veto")) + 1
              ELSE Cardinality(EntriesOf(audit, "veto"))
        /\ Cardinality(EntriesOf(audit, "defer"))' =
              IF v.result = "defer" THEN Cardinality(EntriesOf(audit, "defer")) + 1
              ELSE Cardinality(EntriesOf(audit, "defer"))
    BY <1>3, <1>6, <2>1
  <2>3. /\ counters'["veto"] = IF v.result = "veto" THEN counters["veto"] + 1
                               ELSE counters["veto"]
        /\ counters'["defer"] = IF v.result = "defer" THEN counters["defer"] + 1
                                ELSE counters["defer"]
    BY <1>1, <1>6, <2>1 DEF Noted
  <2>4. CASE v.result = "defer"
    <3> DEFINE m == kept'
    <3>1. /\ m \in [Tasks -> [policy_defer : Nat, failure : 0..1]]
          /\ m[t].policy_defer = kept[t].policy_defer + 1
          /\ \A u \in Tasks \ {t} : m[u].policy_defer = kept[u].policy_defer
      BY <1>1, <2>1, <2>4 DEF Alone
    <3> HIDE DEF m
    <3>2. Cardinality(Owed(m)) = Cardinality(Owed(kept)) + 1
      BY <1>1, <1>6, <3>1, OwedAfter
    <3>3. Cardinality(Owed(kept))' = Cardinality(Owed(kept)) + 1
      BY <3>2 DEF m, Owed, Pairs
    <3> QED
      BY <1>2, <2>2, <2>3, <2>4, <3>3
  <2>5. CASE v.result = "veto"
    <3>1. Cardinality(Owed(kept))' = Cardinality(Owed(kept))
      BY <1>5, <2>1, <2>5
    <3> QED
      BY <1>2, <2>2, <2>3, <2>5, <3>1
  <2> QED
    BY <2>1, <2>4, <2>5
<1>7. ASSUME audit'[t] = audit[t], kept'[t].policy_defer = kept[t].policy_defer,
             counters'["veto"] = counters["veto"], counters'["defer"] = counters["defer"]
      PROVE  /\ (counters["veto"] = Cardinality(EntriesOf(audit, "veto")))'
             /\ (counters["defer"] = Cardinality(EntriesOf(audit, "defer")))'
             /\ (counters["defer"] = Cardinality(Owed(kept)))'
  BY <1>2, <1>4, <1>5, <1>7
<1>8. counters' = counters \/ counters' = [counters EXCEPT !["pass"] = @ + 1] =>
         counters'["veto"] = counters["veto"] /\ counters'["defer"] = counters["defer"]
  BY <1>1
<1>9. CASE AskGate(t)
  <2>1. Len(audit[t]) <= 2 /\ kept[t].policy_defer <= 2
    BY <1>9, RoomToWrite, GateAsked
  <2>2. CASE NothingNoted
    BY <1>7, <1>8, <2>2 DEF NothingNoted
  <2> QED
    BY <1>6, <1>9, <2>1, <2>2, GateMoves
<1>10. CASE Begins(t) \/ AnswersAtOnce(t) \/ Thinks(t)
  BY <1>7, <1>8, <1>10 DEF Begins, AnswersAtOnce, Thinks, Silent
<1>11. CASE Judges(t)
  <2>1. kept' = kept /\ Len(audit[t]) <= 2 /\ Cardinality(Owed(kept))' = Cardinality(Owed(kept))
    BY <1>5, <1>11, RoomToWrite DEF Judges
  <2>2. CASE counters' = [counters EXCEPT !["pass"] = @ + 1] /\ audit' = audit
    BY <1>7, <1>8, <2>1, <2>2
  <2>3. ASSUME NEW v \in Entry, v.result = "veto",
               counters' = [counters EXCEPT !["veto"] = @ + 1],
               audit' = [audit EXCEPT ![t] = Append(@, v)]
        PROVE  /\ (counters["veto"] = Cardinality(EntriesOf(audit, "veto")))'
               /\ (counters["defer"] = Cardinality(EntriesOf(audit, "defer")))'
               /\ (counters["defer"] = Cardinality(Owed(kept)))'
    <3>1. audit'[t] = Append(audit[t], v)
      BY <1>1, <2>3
    <3>2. /\ Cardinality(EntriesOf(audit, "veto"))' = Cardinality(EntriesOf(audit, "veto")) + 1
          /\ Cardinality(EntriesOf(audit, "defer"))' = Cardinality(EntriesOf(audit, "defer"))
      BY <1>3, <2>1, <2>3, <3>1
    <3>3. counters'["veto"] = counters["veto"] + 1 /\ counters'["defer"] = counters["defer"]
      BY <1>1, <2>3
    <3> QED
      BY <1>2, <2>1, <3>2, <3>3
  <2> QED
    BY <1>11, <2>2, <2>3 DEF Judges
<1>12. CASE Finishes(t)
  <2>1. kept'[t].policy_defer = kept[t].policy_defer
    <3>1. kept' = kept \/ kept' = [kept EXCEPT ![t].failure = @ + 1]
      BY <1>12 DEF Finishes, Ends
    <3> QED
      BY <1>1, <3>1
  <2> QED
    BY <1>7, <1>12, <2>1 DEF Finishes
<1> QED
  BY <1>9, <1>10, <1>11, <1>12, TaskShapes


LEMMA LengthStep ==
    ASSUME CountInv, NEW t \in Tasks, TaskStep(t)
    PROVE  Len(audit'[t]) <= Written(task'[t].at)
<1> FlowTypes /\ TypeOK
  BY DEF CountInv, RefusedInv, FlowTypes
<1>1. /\ task \in [Tasks -> Task] /\ task' \in [Tasks -> Task]
      /\ audit \in [Tasks -> Seq(Entry)]
      /\ audit[t] \in Seq(Entry) /\ Len(audit[t]) \in Nat
      /\ Len(audit[t]) <= Written(task[t].at)
  BY FramesGate, FramesOther, RoomToWrite DEF FlowTypes, TypeOK, CountInv
<1>2. ASSUME NEW v \in Entry, audit'[t] = Append(audit[t], v)
      PROVE  Len(audit'[t]) = Len(audit[t]) + 1
  BY <1>1, <1>2, DeferralsAfter
<1>3. ASSUME audit'[t] = audit[t],
             \/ task'[t].at = task[t].at
             \/ task[t].at \in {"new", "checking"}
             \/ /\ task[t].at \in {"selecting", "reasoning", "planning", "rechecking"}
                /\ task'[t].at \notin {"new", "checking"}
             \/ /\ task[t].at \in {"judging", "trading", "deduping", "persisting", "notifying"}
                /\ task'[t].at \in {"trading", "deduping", "persisting", "notifying", "done"}
      PROVE  Len(audit'[t]) <= Written(task'[t].at)
  BY <1>1, <1>3 DEF Written
<1>4. CASE AskGate(t)
  <2>1. \/ task'[t].at = task[t].at
        \/ task[t].at = "rechecking" /\ task'[t].at = "judging"
        \/ task[t].at = "checking" /\ task'[t].at \in {"planning", "selecting", "done"}
    BY <1>4, GateMoves DEF Moves
  <2>2. CASE NothingNoted
    BY <1>3, <2>1, <2>2 DEF NothingNoted
  <2>3. CASE (\E v \in Entry : Noted(t, v)) /\ task'[t].at # task[t].at
    <3>1. Len(audit'[t]) = Len(audit[t]) + 1
      BY <1>2, <2>3, NotedTypes
    <3> QED
      BY <1>1, <2>1, <2>3, <3>1 DEF Written
  <2> QED
    BY <1>4, <2>2, <2>3, GateMoves
<1>5. CASE Begins(t) \/ AnswersAtOnce(t) \/ Thinks(t)
  BY <1>3, <1>5 DEF Begins, AnswersAtOnce, Thinks, Silent, Moves
<1>6. CASE Judges(t)
  <2>1. task[t].at = "judging" /\ task'[t].at = "trading"
    BY <1>6 DEF Judges, Moves
  <2>2. CASE audit' = audit
    BY <1>3, <2>1, <2>2
  <2>3. CASE \E v \in Entry : audit' = [audit EXCEPT ![t] = Append(@, v)]
    <3>1. PICK v \in Entry : audit' = [audit EXCEPT ![t] = Append(@, v)]
      BY <2>3
    <3>2. audit'[t] = Append(audit[t], v)
      BY <1>1, <3>1
    <3>3. Len(audit'[t]) = Len(audit[t]) + 1
      BY <1>2, <3>2
    <3> QED
      BY <1>1, <2>1, <3>3 DEF Written
  <2> QED
    BY <1>6, <2>2, <2>3 DEF Judges
<1>7. CASE Finishes(t)
  BY <1>3, <1>7 DEF Finishes, Ends, Moves
<1> QED
  BY <1>4, <1>5, <1>6, <1>7, TaskShapes

LEMMA CountStep == CountInv /\ [Next]_vars => CountInv'
<1> SUFFICES ASSUME CountInv, [Next]_vars PROVE CountInv'
  OBVIOUS
<1>1. RefusedInv'
  BY RefusedStep DEF CountInv
<1>2. ASSUME NEW t \in Tasks, TaskStep(t) PROVE CountInv'
  <2>1. Alone(t)
    BY <1>2, FramesGate, FramesOther DEF CountInv, RefusedInv
  <2>2. \A u \in Tasks : Len(audit'[u]) <= Written(task'[u].at)
    BY <1>2, <2>1, LengthStep DEF Alone, CountInv
  <2>3. \A u \in Tasks : (Len(audit[u]) <= Written(task[u].at))'
    BY <2>2 DEF Written
  <2> QED
    BY <1>1, <1>2, <2>3, CountsStep DEF CountInv
<1>3. CASE EnvironmentStep
  <2>1. UNCHANGED <<task, counters, audit, kept>>
    BY <1>3, FramesEnvironment DEF CountInv, RefusedInv
  <2> QED
    BY <1>1, <2>1 DEF CountInv, Written, EntriesOf, Owed, Pairs
<1> QED
  BY <1>2, <1>3 DEF Next, EnvironmentStep


-----------------------------------------------------------------------------
(* Theorems *)

LEMMA TypesInvariance == Spec => []FlowTypes
BY TypesInit, TypesStep, PTL DEF Spec

LEMMA OnceInvariance == Spec => []OnceInv
BY OnceInit, OnceStep, PTL DEF Spec

LEMMA KeptInvariance == Spec => []KeptInv
BY KeptInit, KeptStep, PTL DEF Spec

LEMMA StandingInvariance == Spec => []StandingInv
BY StandingInit, StandingStep, PTL DEF Spec

LEMMA CountInvariance == Spec => []CountInv
BY CountInit, CountStep, PTL DEF Spec

\* The state of the orchestrator keeps its types, whatever is asked and changed
\* (DecisionOrchestrator's fields).
THEOREM FlowKeepsItsTypes == Spec => []TypeOK
<1>1. FlowTypes => TypeOK
  BY DEF FlowTypes
<1> QED
  BY <1>1, TypesInvariance, PTL

\* Deduplication in process_decision(): of the decisions with one key that Redis
\* answered, one at most is notified, for any number of them in any interleaving.
THEOREM KeysAreNotifiedOnce == Spec => []NotifiedOnce
<1>1. OnceInv => NotifiedOnce
  BY DEF OnceInv, NotifiedOnce
<1> QED
  BY <1>1, OnceInvariance, PTL

\* process_decision() loses no decision that it accepts: it is in the database or
\* kept for a retry, whatever fails.
THEOREM NoDecisionIsLost == Spec => []AcceptedIsKept
<1>1. KeptInv => AcceptedIsKept
  BY DEF KeptInv, AcceptedIsKept
<1> QED
  BY <1>1, KeptInvariance, PTL

\* pre_reasoning_policy_check() asks its gates across awaits; a refusal that stands
\* from the first to the last is the answer, however policies and clock change.
THEOREM ChecksMissNoRefusal == Spec => []StandingRefusalRefuses
<1>1. StandingInv => StandingRefusalRefuses
  BY DEF StandingInv, StandingRefusalRefuses
<1> QED
  BY <1>1, StandingInvariance, PTL

\* The returns of "rejected" and "deferred" leave nothing but their entries, and
\* counters, audit and queue agree on those (handle_event(), the policy gates).
THEOREM BooksAgree == Spec => []RefusalsAreBooked
<1>1. ASSUME CountInv PROVE RefusedLeavesNothing
  <2>1. Events \subseteq Tasks
    BY DEF Tasks
  <2> QED
    BY <1>1, <2>1 DEF CountInv, RefusedInv, RefusedLeavesNothing, Deferrals
<1>2. ASSUME CountInv PROVE CountersMatchAudit
  BY <1>2 DEF CountInv, CountersMatchAudit, EntriesOf, Owed, Pairs
<1>3. CountInv => RefusalsAreBooked
  BY <1>1, <1>2 DEF RefusalsAreBooked
<1> QED
  BY <1>3, CountInvariance, PTL

=============================================================================
