------------------------------ MODULE PersistDlq ------------------------------
(***************************************************************************)
(* The dead-letter queue for decisions that could not be written to the    *)
(* database: process_decision() and _dlq_retry_loop() of                   *)
(* reasoner_service/orchestrator.py, redis_op() of utils/redis_wrapper.py  *)
(* and the queue operations of reasoner_service/admin.py.                  *)
(*                                                                         *)
(* One event loop runs a task for each decision, the retry loop and the    *)
(* administrator.  A step ends where a task awaits: the database, or a     *)
(* reply from Redis.  The lock of the queue is never held across an await. *)
(*                                                                         *)
(* Time is relative: an entry carries the time left until it is due, and   *)
(* the loop the time since it last read the clock.                         *)
(***************************************************************************)
EXTENDS Integers, Sequences, FiniteSets, SequencesExt

CONSTANTS
    Decisions,
    RedisEnabled,      \* REDIS_DLQ_ENABLED
    MaxRetries,        \* DLQ_MAX_RETRIES
    BaseDelay,         \* DLQ_BASE_DELAY_SECONDS
    MaxDelay,          \* DLQ_MAX_DELAY_SECONDS
    SameMillisecond,   \* may two failures fall into the same millisecond?
    MaxFaults,         \* bound: faults of Redis, and commits whose answer is lost
    MaxAdmin           \* bound: calls of the administrator

Loop == "loop"
Admin == "admin"
Tasks == Decisions \cup {Loop, Admin}

ASSUME DlqAssumption ==
    /\ IsFiniteSet(Decisions)
    /\ Loop \notin Decisions /\ Admin \notin Decisions
    /\ RedisEnabled \in BOOLEAN /\ SameMillisecond \in BOOLEAN
    /\ MaxRetries \in Nat \ {0}
    /\ BaseDelay \in Nat \ {0} /\ MaxDelay \in Nat /\ BaseDelay <= MaxDelay
    /\ MaxFaults \in Nat /\ MaxAdmin \in Nat

VARIABLES
    pc,            \* decision -> "new", "push" and "llen" (Redis) or "done"
    stamp,         \* decision -> "ts" of its entry; 0 without one
    persist_dlq,   \* the queue in memory
    redis_dlq,     \* the list in Redis
    client,        \* is _redis not None?
    circuit,       \* is _redis_circuit_open_until > 0?
    op,            \* task -> where its redis_op() is
    loop,          \* the retry loop: "sleep", "pop", "scan" or "push"
    work,          \* the rest of the pass's copy of the queue, from an entry that is due
    age,           \* time since the pass read the clock
    rows,          \* decision -> rows in the database
    unsure,        \* history: decision -> commits whose answer was lost
    retries,       \* history: decision -> failed retries
    flushed,       \* history: the decisions the administrator deleted
    doubled,       \* history: the decisions the administrator queued again
    faults, calls  \* bounds: faults and administrator's calls so far

queueVars == <<persist_dlq, redis_dlq>>
redisVars == <<client, circuit, op>>
loopVars == <<loop, work, age>>
storeVars == <<rows, unsure, retries>>
vars == <<pc, stamp, queueVars, redisVars, loopVars, storeVars, flushed, doubled,
          faults, calls>>

\* oid tells objects apart that may be equal; an entry in Redis is no object.
\* AttemptCap and RowCap: attempts and rows are counted only up to there.
AttemptCap == MaxRetries + 1
RowCap == MaxFaults + 2
Entry == [oid : Nat, decision : Decisions, ts : Nat, attempts : 0..AttemptCap,
          wait : 0..MaxDelay]

-----------------------------------------------------------------------------
(* Entries and the queue in memory *)

Lesser(a, b) == IF a < b THEN a ELSE b
Greater(a, b) == IF a > b THEN a ELSE b

\* min(max_delay, base_delay * 2 ** (attempts - 1))
Backoff(attempts) == Lesser(MaxDelay, BaseDelay * 2 ^ (attempts - 1))

NewEntry(d) == [oid |-> 0, decision |-> d, ts |-> stamp[d], attempts |-> 0,
                wait |-> 0]

\* json.dumps()
Json(e) == [e EXCEPT !.oid = 0]

\* An object for an entry, different from those in use.
Object(e) ==
    LET used == {x.oid : x \in ToSet(persist_dlq) \cup ToSet(work)}
    IN [e EXCEPT !.oid = CHOOSE n \in 1..(Cardinality(used) + 1) : n \notin used]

\* next_attempt_ts <= now
Due_mut_swapped(e) == e.wait > 0
Due(e) == e.wait = 0

\* The entry after a failed retry; next_attempt_ts counts from the start of the pass.
Failed(e) ==
    LET attempts == Lesser(e.attempts + 1, AttemptCap)
    IN [e EXCEPT !.attempts = attempts,
                 !.wait = Greater(Backoff(attempts) - age, 0)]

\* The queue, or the copy of a pass, after the object e has been modified.
Modified(queue, e) ==
    [i \in DOMAIN queue |-> IF queue[i].oid = e.oid THEN e ELSE queue[i]]

\* What is left of the pass then: by its clock, e is due after the whole delay.
Rest(e) == Modified(Tail(work), [e EXCEPT !.wait = Backoff(e.attempts)])

\* _persist_dlq.remove(e): the first equal entry, if any.
Removed(queue, e) ==
    RemoveFirstMatch(queue, LAMBDA x : x.oid = e.oid \/ Json(x) = Json(e))

\* "update stored entry": the first one with this time stamp is replaced.
Updated(queue, e) ==
    LET i == SelectInSeq(queue, LAMBDA x : x.ts = e.ts)
    IN IF i = 0 THEN queue ELSE ReplaceAt(queue, i, e)

\* The copy from its first entry that is due.
FromDue(entries) ==
    LET i == SelectInSeq(entries, Due)
    IN IF i = 0 THEN <<>> ELSE SubSeq(entries, i, Len(entries))

\* Entries that are not due are passed over; the pass ends with the copy.
Scan_mut_no_return(entries) ==
    /\ work' = FromDue(entries)
    /\ loop' = "scan"
    /\ age' = IF work' = <<>> THEN 0 ELSE age
Scan(entries) ==
    /\ work' = FromDue(entries)
    /\ loop' = IF work' = <<>> THEN "sleep" ELSE "scan"
    /\ age' = IF work' = <<>> THEN 0 ELSE age

-----------------------------------------------------------------------------
(* process_decision(), persist branch *)

\* insert_decision() commits and returns.
PersistOk(d) ==
    /\ pc[d] = "new"
    /\ pc' = [pc EXCEPT ![d] = "done"]
    /\ rows' = [rows EXCEPT ![d] = Lesser(@ + 1, RowCap)]
    /\ UNCHANGED <<stamp, queueVars, redisVars, loopVars, unsure, retries, flushed, doubled,
                   faults, calls>>

\* A failed insert, which has committed all the same when refresh() raised.
InsertRaises(d) ==
    \/ UNCHANGED <<rows, unsure, faults>>
    \/ /\ faults < MaxFaults
       /\ faults' = faults + 1
       /\ rows' = [rows EXCEPT ![d] = Lesser(@ + 1, RowCap)]
       /\ unsure' = [unsure EXCEPT ![d] = @ + 1]

\* Time stamps are numbered in their order.
LastStamp == Cardinality({stamp[d] : d \in Decisions} \ {0})

\* redis_op() looks at the circuit before it sends anything, and reconnects first
\* when there is no client.
Started == IF circuit THEN "refused" ELSE IF client THEN "first" ELSE "ensure"
Issue(t) == op' = [op EXCEPT ![t] = Started]

\* insert_decision() raises: the entry goes to Redis if there is a client, else
\* to the queue in memory.
PersistFails(d) ==
    /\ pc[d] = "new"
    /\ InsertRaises(d)
    /\ \E ts \in {LastStamp + 1} \cup
                 (IF SameMillisecond /\ LastStamp > 0 THEN {LastStamp} ELSE {}) :
          stamp' = [stamp EXCEPT ![d] = ts]
    /\ IF client
         THEN /\ pc' = [pc EXCEPT ![d] = "push"]
              /\ Issue(d)
              /\ UNCHANGED persist_dlq
         ELSE /\ pc' = [pc EXCEPT ![d] = "done"]
              /\ persist_dlq' = Append(persist_dlq,
                                       Object([NewEntry(d) EXCEPT !.ts = stamp'[d]]))
              /\ UNCHANGED op
    /\ UNCHANGED <<redis_dlq, client, circuit, loopVars, retries, flushed, doubled, calls>>

-----------------------------------------------------------------------------
(* _dlq_retry_once() *)

\* A pass begins with the clock; with a client it takes one entry out of Redis,
\* without one it copies the queue.
PassStart ==
    /\ loop = "sleep"
    /\ IF client
         THEN /\ loop' = "pop"
              /\ age' = 0
              /\ Issue(Loop)
              /\ UNCHANGED work
         ELSE /\ Scan(persist_dlq)
              /\ UNCHANGED op
    /\ UNCHANGED <<pc, stamp, queueVars, client, circuit, storeVars, flushed, doubled,
                   faults, calls>>

\* The retry commits: an entry that came from Redis is gone already.
RetryOk_mut_keeps ==
    /\ loop = "scan"
    /\ rows' = [rows EXCEPT ![Head(work).decision] = Lesser(@ + 1, RowCap)]
    /\ Scan(Tail(work))
    /\ UNCHANGED <<pc, stamp, queueVars, redisVars, unsure, retries, flushed, doubled,
                   faults, calls>>
RetryOk ==
    /\ loop = "scan"
    /\ rows' = [rows EXCEPT ![Head(work).decision] = Lesser(@ + 1, RowCap)]
    /\ persist_dlq' = IF client THEN persist_dlq ELSE Removed(persist_dlq, Head(work))
    /\ Scan(Tail(work))
    /\ UNCHANGED <<pc, stamp, redis_dlq, redisVars, unsure, retries, flushed, doubled,
                   faults, calls>>

\* "will be dropped": only from memory.
Dropped_mut_off_by_one(queue, e) ==
    IF e.attempts > MaxRetries /\ ~client THEN Removed(queue, e) ELSE queue
Dropped(queue, e) ==
    IF e.attempts >= MaxRetries /\ ~client THEN Removed(queue, e) ELSE queue

\* The retry raises.
RetryFails_mut_drops ==
    /\ loop = "scan"
    /\ LET e == Failed(Head(work))
       IN /\ InsertRaises(e.decision)
          /\ retries' = [retries EXCEPT ![e.decision] = Lesser(@ + 1, AttemptCap)]
          /\ IF client
               THEN /\ persist_dlq' = Modified(persist_dlq, e)
                    /\ work' = <<e>> \o Rest(e)
                    /\ loop' = "push"
                    /\ Issue(Loop)
                    /\ UNCHANGED age
               ELSE /\ persist_dlq' = Removed(Modified(persist_dlq, e), e)
                    /\ Scan(Rest(e))
                    /\ UNCHANGED op
    /\ UNCHANGED <<pc, stamp, redis_dlq, client, circuit, flushed, doubled, calls>>
RetryFails ==
    /\ loop = "scan"
    /\ LET e == Failed(Head(work))
       IN /\ InsertRaises(e.decision)
          /\ retries' = [retries EXCEPT ![e.decision] = Lesser(@ + 1, AttemptCap)]
          /\ IF client
               THEN /\ persist_dlq' = Modified(persist_dlq, e)
                    /\ work' = <<e>> \o Rest(e)
                    /\ loop' = "push"
                    /\ Issue(Loop)
                    /\ UNCHANGED age
               ELSE /\ persist_dlq' = Dropped(Updated(Modified(persist_dlq, e), e), e)
                    /\ Scan(Rest(e))
                    /\ UNCHANGED op
    /\ UNCHANGED <<pc, stamp, redis_dlq, client, circuit, flushed, doubled, calls>>

-----------------------------------------------------------------------------
(* redis_op(): one attempt, a reconnection, another attempt *)

\* What the command of a task makes of the list: RPUSH, LLEN, LPOP or DELETE.
Effect(t) ==
    CASE t \in Decisions -> IF pc[t] = "push" THEN Append(redis_dlq, NewEntry(t))
                                              ELSE redis_dlq
      [] t = Loop /\ loop = "pop" -> IF redis_dlq = <<>> THEN <<>> ELSE Tail(redis_dlq)
      [] t = Loop /\ loop = "push" -> Append(redis_dlq, Json(Head(work)))
      [] t = Admin -> <<>>

\* The caller after a reply.
Answered(t) ==
    /\ op' = [op EXCEPT ![t] = IF t \in Decisions /\ pc[t] = "push" THEN Started
                                                                     ELSE "none"]
    /\ \/ /\ t \in Decisions
          \* The length of the list is read for a metric.
          /\ pc' = [pc EXCEPT ![t] = IF @ = "push" THEN "llen" ELSE "done"]
          /\ UNCHANGED <<persist_dlq, loopVars, flushed>>
       \/ /\ t = Loop /\ loop = "pop"
          \* LPOP: an entry that is not due is dropped by the "continue".
          /\ Scan(IF redis_dlq = <<>> THEN <<>> ELSE <<Object(Head(redis_dlq))>>)
          /\ UNCHANGED <<pc, persist_dlq, flushed>>
       \/ /\ t = Loop /\ loop = "push"
          /\ persist_dlq' = Dropped(persist_dlq, Head(work))
          /\ Scan(Tail(work))
          /\ UNCHANGED <<pc, flushed>>
       \/ /\ t = Admin
          /\ flushed' = flushed \cup {redis_dlq[i].decision : i \in DOMAIN redis_dlq}
          /\ UNCHANGED <<pc, persist_dlq, loopVars>>

\* The caller after RedisUnavailable or RedisOpFailed.
Raised_mut_lost(t) ==
    /\ op' = [op EXCEPT ![t] = "none"]
    /\ \/ /\ t \in Decisions
          /\ UNCHANGED <<pc, persist_dlq, loopVars>>
       \/ /\ t = Loop /\ loop = "pop"
          /\ Scan(persist_dlq)
          /\ UNCHANGED <<pc, persist_dlq>>
       \/ /\ t = Loop /\ loop = "push"
          /\ persist_dlq' = Dropped(persist_dlq, Head(work))
          /\ Scan(Tail(work))
          /\ UNCHANGED pc
       \/ /\ t = Admin
          /\ UNCHANGED <<pc, persist_dlq, loopVars>>
Raised(t) ==
    /\ op' = [op EXCEPT ![t] = "none"]
    /\ \/ /\ t \in Decisions
          /\ pc' = [pc EXCEPT ![t] = "done"]
          /\ persist_dlq' = IF pc[t] = "push"
                              THEN Append(persist_dlq, Object(NewEntry(t)))
                              ELSE persist_dlq
          /\ UNCHANGED loopVars
       \/ /\ t = Loop /\ loop = "pop"
          /\ Scan(persist_dlq)
          /\ UNCHANGED <<pc, persist_dlq>>
       \/ /\ t = Loop /\ loop = "push"
          /\ persist_dlq' = Dropped(persist_dlq, Head(work))
          /\ Scan(Tail(work))
          /\ UNCHANGED pc
       \/ /\ t = Admin
          /\ UNCHANGED <<pc, persist_dlq, loopVars>>

\* The command is executed and answered.
RedisOk(t) ==
    /\ \/ op[t] = "first"
       \/ op[t] = "second" /\ client
    /\ redis_dlq' = Effect(t)
    /\ Answered(t)
    /\ UNCHANGED <<stamp, client, circuit, storeVars, doubled, faults, calls>>

\* An attempt raises, whether or not the command was executed: the first one
\* leads to a reconnection, the second is final.
RedisAttemptFails(t) ==
    /\ op[t] \in {"first", "second"}
    /\ \/ /\ faults < MaxFaults
          /\ faults' = faults + 1
          /\ redis_dlq' \in {redis_dlq, Effect(t)}
       \/ /\ op[t] = "second" /\ ~client
          /\ UNCHANGED <<faults, redis_dlq>>
    /\ IF op[t] = "first"
         THEN /\ op' = [op EXCEPT ![t] = "ensure"]
              /\ UNCHANGED <<pc, persist_dlq, loopVars>>
         ELSE Raised(t)
    /\ UNCHANGED <<stamp, client, circuit, storeVars, flushed, doubled, calls>>

\* The circuit was open, or there is no client after the reconnection.
RedisRefused(t) ==
    /\ op[t] = "refused"
    /\ Raised(t)
    /\ UNCHANGED <<stamp, redis_dlq, client, circuit, storeVars, flushed, doubled,
                   faults, calls>>

-----------------------------------------------------------------------------
(* _ensure_redis() *)

\* The circuit is open and its time is not over.
EnsureSkips(t) ==
    /\ op[t] = "ensure"
    /\ circuit
    /\ client' = FALSE
    /\ op' = [op EXCEPT ![t] = "refused"]
    /\ UNCHANGED <<pc, stamp, queueVars, circuit, loopVars, storeVars, flushed, doubled,
                   faults, calls>>

\* from_url() is stored before anyone knows whether Redis answers.
Connect(t) ==
    /\ op[t] \in {"ensure", "connect"}
    /\ client' = TRUE
    /\ op' = [op EXCEPT ![t] = "ping"]
    /\ UNCHANGED <<pc, stamp, queueVars, circuit, loopVars, storeVars, flushed, doubled,
                   faults, calls>>

\* ping() answers; meanwhile another task may have discarded the client.
PingOk_mut_no_reset(t) ==
    /\ op[t] = "ping"
    /\ op' = [op EXCEPT ![t] = IF client THEN "second" ELSE "refused"]
    /\ UNCHANGED <<pc, stamp, queueVars, client, circuit, loopVars, storeVars, flushed, doubled,
                   faults, calls>>
PingOk(t) ==
    /\ op[t] = "ping"
    /\ circuit' = FALSE
    /\ op' = [op EXCEPT ![t] = IF client THEN "second" ELSE "refused"]
    /\ UNCHANGED <<pc, stamp, queueVars, client, loopVars, storeVars, flushed, doubled,
                   faults, calls>>

\* ping() raises: another attempt, or the circuit is opened.
PingFails(t) ==
    /\ op[t] = "ping"
    /\ faults < MaxFaults
    /\ faults' = faults + 1
    /\ client' = FALSE
    /\ \/ op' = [op EXCEPT ![t] = "connect"] /\ UNCHANGED circuit
       \/ op' = [op EXCEPT ![t] = "refused"] /\ circuit' = TRUE
    /\ UNCHANGED <<pc, stamp, queueVars, loopVars, storeVars, flushed, doubled, calls>>

-----------------------------------------------------------------------------
(* admin.py, and time *)

\* dlq_requeue_all(): the queue in memory is appended to itself.
Requeue ==
    /\ calls < MaxAdmin
    /\ calls' = calls + 1
    /\ ~client
    /\ persist_dlq' = persist_dlq \o persist_dlq
    /\ doubled' = doubled \cup {x.decision : x \in ToSet(persist_dlq)}
    /\ UNCHANGED <<pc, stamp, redis_dlq, redisVars, loopVars, storeVars, flushed, faults>>

\* dlq_flush()
Flush ==
    /\ calls < MaxAdmin
    /\ calls' = calls + 1
    /\ op[Admin] = "none"
    /\ IF client
         THEN Issue(Admin) /\ UNCHANGED <<persist_dlq, flushed>>
         ELSE /\ persist_dlq' = <<>>
              /\ flushed' = flushed \cup {x.decision : x \in ToSet(persist_dlq)}
              /\ UNCHANGED op
    /\ UNCHANGED <<pc, stamp, redis_dlq, client, circuit, loopVars, storeVars, doubled,
                   faults>>

Closer(queue) ==
    [i \in DOMAIN queue |-> [queue[i] EXCEPT !.wait = Greater(@ - 1, 0)]]

\* Time passes.  A pass that waits for LPOP compares with the clock it read
\* before: the time it waits may as well pass afterwards.
Tick ==
    /\ loop # "pop"
    /\ persist_dlq' = Closer(persist_dlq)
    /\ redis_dlq' = Closer(redis_dlq)
    /\ age' = IF loop = "sleep" THEN 0 ELSE Lesser(age + 1, MaxDelay)
    /\ UNCHANGED <<pc, stamp, redisVars, loop, work, storeVars, flushed, doubled, faults, calls>>

-----------------------------------------------------------------------------
\* setup(): with Redis enabled, the connection has been made or given up.
Init ==
    /\ pc = [d \in Decisions |-> "new"]
    /\ stamp = [d \in Decisions |-> 0]
    /\ persist_dlq = <<>> /\ redis_dlq = <<>>
    /\ client \in (IF RedisEnabled THEN BOOLEAN ELSE {FALSE})
    /\ circuit = (RedisEnabled /\ ~client)
    /\ op = [t \in Tasks |-> "none"]
    /\ loop = "sleep" /\ work = <<>> /\ age = 0
    /\ rows = [d \in Decisions |-> 0]
    /\ unsure = [d \in Decisions |-> 0]
    /\ retries = [d \in Decisions |-> 0]
    /\ flushed = {} /\ doubled = {} /\ faults = 0 /\ calls = 0

RedisStep(t) ==
    \/ RedisOk(t) \/ RedisAttemptFails(t) \/ RedisRefused(t)
    \/ EnsureSkips(t) \/ Connect(t) \/ PingOk(t) \/ PingFails(t)

LoopStep == PassStart \/ RetryOk \/ RetryFails \/ RedisStep(Loop)

Producer(d) == PersistOk(d) \/ PersistFails(d) \/ RedisStep(d)

Next ==
    \/ \E d \in Decisions : Producer(d)
    \/ LoopStep
    \/ Requeue \/ Flush \/ RedisStep(Admin)
    \/ Tick

Spec == Init /\ [][Next]_vars

\* The event loop runs every task that can go on, and time passes.
FairSpec ==
    /\ Spec
    /\ \A d \in Decisions : WF_vars(Producer(d))
    /\ WF_vars(LoopStep)
    /\ WF_vars(Tick)

-----------------------------------------------------------------------------
(* Properties *)

OpStates == {"none", "refused", "first", "ensure", "connect", "ping", "second"}

\* Every variable keeps the type the code gives it; what is tried is an object.
TypeOK ==
    /\ pc \in [Decisions -> {"new", "push", "llen", "done"}]
    /\ stamp \in [Decisions -> Nat]
    /\ persist_dlq \in Seq(Entry) /\ redis_dlq \in Seq(Entry)
    /\ client \in BOOLEAN /\ circuit \in BOOLEAN
    /\ op \in [Tasks -> OpStates]
    /\ loop \in {"sleep", "pop", "scan", "push"}
    /\ work \in Seq(Entry) /\ (loop \in {"scan", "push"} => work # <<>>)
    /\ age \in 0..MaxDelay
    /\ rows \in [Decisions -> 0..RowCap] /\ unsure \in [Decisions -> Nat]
    /\ retries \in [Decisions -> 0..AttemptCap]
    /\ flushed \subseteq Decisions /\ doubled \subseteq Decisions
    /\ faults \in 0..MaxFaults /\ calls \in 0..MaxAdmin

Holds(queue, d) == \E i \in DOMAIN queue : queue[i].decision = d

\* "Enqueue decision to in-memory DLQ for later retry": a decision whose write
\* failed is in the database, waiting in a queue, being retried, deleted by the
\* administrator, or dropped after the configured number of retries.
NothingForgotten ==
    \A d \in Decisions :
        pc[d] = "done" => \/ rows[d] > 0
                          \/ Holds(persist_dlq, d) \/ Holds(redis_dlq, d)
                          \/ Holds(work, d)
                          \/ d \in flushed
                          \/ retries[d] >= MaxRetries

\* A decision is written twice only if the answer to a commit was lost or the
\* administrator asked for it, although the pass works on a copy of the queue
\* while new failures are appended to it and others are deleted.
OneRowPerDecision ==
    \A d \in Decisions : d \notin doubled => rows[d] <= 1 + unsure[d]

\* "Entries exceeding max attempts will be logged and dropped": no decision is
\* retried more often than that, unless it has been queued again.
RetriesAreBounded ==
    \A d \in Decisions : d \notin doubled => retries[d] <= MaxRetries

\* Of one failure come at most one row and the retries that are configured.
RetriesDoNotMultiply == OneRowPerDecision /\ RetriesAreBounded

\* The circuit breaker is shared by all tasks that reconnect at the same time: a
\* client beside an open circuit is one whose ping has not been answered.
OpenCircuitHasNoClient ==
    client /\ circuit => \E t \in Tasks : op[t] = "ping"

\* "Non-blocking fallback": process_decision() gets past the persist branch, in
\* whatever way database and Redis fail.
PersistBranchEnds == \A d \in Decisions : <>(pc[d] = "done")

\* "removes successful entries": every failed write is settled in the end.
EverythingSettles ==
    \A d \in Decisions :
        pc[d] = "done" ~> (rows[d] > 0 \/ retries[d] >= MaxRetries \/ d \in flushed)

=============================================================================
