--------------------------- MODULE PersistDlqProofs ---------------------------
(***************************************************************************)
(* Proofs about PersistDlq, for any number of decisions and faults: client *)
(* and circuit breaker, which all tasks share, are consistent, and the     *)
(* queue in memory forgets no failed write and multiplies none, although a *)
(* pass works on a copy of it.                                             *)
(***************************************************************************)
EXTENDS PersistDlq, FiniteSetTheorems, SequenceTheorems, WellFoundedInduction, TLAPS

-----------------------------------------------------------------------------
(* The circuit breaker *)

\* A task that is not in redis_op() has no operation under way.
Idle ==
    /\ \A d \in Decisions : pc[d] = "new" => op[d] = "none"
    /\ loop \in {"sleep", "scan"} => op[Loop] = "none"

\* What the proof needs of the types.
CircuitTypes ==
    /\ pc \in [Decisions -> {"new", "push", "llen", "done"}]
    /\ op \in [Tasks -> OpStates]

\* OpenCircuitHasNoClient is not inductive: a task that starts an operation must
\* not be one whose ping is under way.
CircuitInv == CircuitTypes /\ Idle /\ OpenCircuitHasNoClient

\* Answer and exception give the operation of one task up and leave the others
\* alone.
LEMMA CallerGoesOn ==
    ASSUME CircuitTypes, Idle, NEW t \in Tasks, op[t] # "none",
           Answered(t) \/ Raised(t)
    PROVE  CircuitTypes' /\ Idle'
<1> USE DEF CircuitTypes, Idle
<1>1. t # Loop => t \in Decisions \/ t = Admin
  BY DEF Tasks
<1>2. CircuitTypes'
  BY DlqAssumption, <1>1 DEF Answered, Raised, Started, Tasks, OpStates
<1>3. \A d \in Decisions : pc'[d] = "new" => op'[d] = "none"
  BY DlqAssumption, <1>1 DEF Answered, Raised, Started, Tasks
<1>4. loop' \in {"sleep", "scan"} => op'[Loop] = "none"
  BY DlqAssumption, <1>1 DEF Answered, Raised, Started, Tasks, loopVars
<1> QED BY <1>2, <1>3, <1>4

\* A step that changes the operation of one task only, which is not waiting for
\* a ping, and neither the client nor the circuit keeps the circuit consistent.
LEMMA OtherPingsStay ==
    ASSUME CircuitTypes, OpenCircuitHasNoClient, NEW t \in Tasks, op[t] # "ping",
           \A u \in Tasks : u # t => op'[u] = op[u],
           client' = client, circuit' = circuit
    PROVE  OpenCircuitHasNoClient'
BY DEF OpenCircuitHasNoClient, CircuitTypes

\* Every step of redis_op() and _ensure_redis() keeps the invariant.
LEMMA RedisStepKeeps ==
    ASSUME CircuitInv, NEW t \in Tasks, RedisStep(t)
    PROVE  CircuitInv'
<1> USE DEF CircuitInv
<1>1. CASE RedisOk(t)
  <2>1. op[t] # "none" /\ op[t] # "ping" /\ Answered(t)
    BY <1>1 DEF RedisOk
  <2>2. \A u \in Tasks : u # t => op'[u] = op[u]
    BY <2>1 DEF Answered, CircuitTypes
  <2>3. OpenCircuitHasNoClient'
    BY <1>1, <2>1, <2>2, OtherPingsStay DEF RedisOk
  <2> QED BY <2>1, <2>3, CallerGoesOn
<1>2. CASE RedisAttemptFails(t)
  <2>1. op[t] \in {"first", "second"} /\ client' = client /\ circuit' = circuit
    BY <1>2 DEF RedisAttemptFails
  <2>2. CASE op[t] = "first"
    <3>1. /\ op' = [op EXCEPT ![t] = "ensure"]
          /\ UNCHANGED <<pc, loop>>
      BY <1>2, <2>2 DEF RedisAttemptFails, loopVars
    <3>2. OpenCircuitHasNoClient'
      BY <2>1, <2>2, <3>1, OtherPingsStay DEF CircuitTypes
    <3> QED BY <2>2, <3>1, <3>2 DEF CircuitTypes, Idle, Tasks, OpStates
  <2>3. CASE op[t] = "second"
    <3>1. Raised(t)
      BY <1>2, <2>3 DEF RedisAttemptFails
    <3>2. OpenCircuitHasNoClient'
      BY <2>1, <2>3, <3>1, OtherPingsStay DEF Raised, CircuitTypes
    <3> QED BY <2>3, <3>1, <3>2, CallerGoesOn
  <2> QED BY <2>1, <2>2, <2>3
<1>3. CASE RedisRefused(t)
  <2>1. op[t] = "refused" /\ Raised(t) /\ client' = client /\ circuit' = circuit
    BY <1>3 DEF RedisRefused
  <2>2. OpenCircuitHasNoClient'
    BY <2>1, OtherPingsStay DEF Raised, CircuitTypes
  <2> QED BY <2>1, <2>2, CallerGoesOn
<1>4. CASE EnsureSkips(t) \/ Connect(t) \/ PingOk(t) \/ PingFails(t)
  <2>1. op[t] \in {"ensure", "connect", "ping"} /\ UNCHANGED <<pc, loop>>
    BY <1>4 DEF EnsureSkips, Connect, PingOk, PingFails, loopVars
  <2>2. PICK next \in {"refused", "ping", "second", "connect"} :
            op' = [op EXCEPT ![t] = next]
    BY <1>4 DEF EnsureSkips, Connect, PingOk, PingFails
  <2>3. CircuitTypes' /\ Idle'
    BY <2>1, <2>2 DEF CircuitTypes, Idle, Tasks, OpStates
  <2>4. OpenCircuitHasNoClient'
    BY <1>4 DEF EnsureSkips, Connect, PingOk, PingFails, OpenCircuitHasNoClient,
                CircuitTypes
  <2> QED BY <2>3, <2>4
<1> QED BY <1>1, <1>2, <1>3, <1>4 DEF RedisStep

\* Every other step of the tasks keeps it, because a task starts an operation
\* only when it has none.
LEMMA OtherStepsKeep ==
    ASSUME CircuitInv,
           \/ \E d \in Decisions : PersistOk(d) \/ PersistFails(d)
           \/ PassStart \/ RetryOk \/ RetryFails
           \/ Requeue \/ Flush \/ Tick \/ UNCHANGED vars
    PROVE  CircuitInv'
<1> USE DEF CircuitInv
<1>1. ASSUME NEW d \in Decisions, PersistOk(d) PROVE CircuitInv'
  <2>1. UNCHANGED <<client, circuit, op, loop>> /\ pc' = [pc EXCEPT ![d] = "done"]
    BY <1>1 DEF PersistOk, redisVars, loopVars
  <2> QED BY <2>1 DEF CircuitTypes, Idle, OpenCircuitHasNoClient
<1>2. ASSUME NEW d \in Decisions, PersistFails(d) PROVE CircuitInv'
  <2>1. /\ UNCHANGED <<client, circuit, loop>>
        /\ pc[d] = "new"
        /\ \E next \in {"push", "done"} : pc' = [pc EXCEPT ![d] = next]
        /\ \E start \in OpStates : op' = [op EXCEPT ![d] = start]
    BY <1>2 DEF PersistFails, loopVars, Issue, Started, OpStates, CircuitTypes, Tasks
  <2>2. op[d] = "none" /\ d # Loop /\ d \in Tasks
    BY <2>1, DlqAssumption DEF Idle, Tasks
  <2>3. OpenCircuitHasNoClient'
    BY <2>1, <2>2, OtherPingsStay DEF CircuitTypes
  <2> QED BY <2>1, <2>2, <2>3 DEF CircuitTypes, Idle, Tasks
<1>3. CASE PassStart \/ RetryFails
  <2>1. /\ UNCHANGED <<client, circuit, pc>>
        /\ op[Loop] = "none"
        /\ \/ /\ loop' \in {"pop", "push"}
              /\ \E start \in OpStates : op' = [op EXCEPT ![Loop] = start]
           \/ op' = op
    BY <1>3 DEF PassStart, RetryFails, Idle, Issue, Started, OpStates
  <2>2. OpenCircuitHasNoClient'
    BY <2>1, OtherPingsStay DEF CircuitTypes, Tasks
  <2> QED BY <2>1, <2>2, DlqAssumption DEF CircuitTypes, Idle, Tasks
<1>4. CASE RetryOk
  BY <1>4 DEF RetryOk, redisVars, CircuitTypes, Idle, OpenCircuitHasNoClient
<1>5. CASE Requeue \/ Tick \/ UNCHANGED vars
  BY <1>5 DEF Requeue, Tick, vars, redisVars, loopVars, CircuitTypes, Idle,
              OpenCircuitHasNoClient
<1>6. CASE Flush
  <2>1. /\ UNCHANGED <<client, circuit, pc, loop>>
        /\ op[Admin] = "none"
        /\ \/ \E start \in OpStates : op' = [op EXCEPT ![Admin] = start]
           \/ op' = op
    BY <1>6 DEF Flush, Issue, Started, OpStates, loopVars
  <2>2. OpenCircuitHasNoClient'
    BY <2>1, OtherPingsStay DEF CircuitTypes, Tasks
  <2> QED BY <2>1, <2>2, DlqAssumption DEF CircuitTypes, Idle, Tasks, Loop, Admin
<1> QED BY <1>1, <1>2, <1>3, <1>4, <1>5, <1>6

\* The circuit breaker of _ensure_redis() and redis_op() stays consistent however
\* many tasks reconnect at the same time: only a client that waits for its ping
\* can exist beside an open circuit.
THEOREM CircuitIsConsistent == Spec => []OpenCircuitHasNoClient
<1>1. Init => CircuitInv
  BY DlqAssumption DEF Init, CircuitInv, CircuitTypes, Idle, OpenCircuitHasNoClient,
                       OpStates, Tasks
<1>2. CircuitInv /\ [Next]_vars => CircuitInv'
  <2> SUFFICES ASSUME CircuitInv, [Next]_vars PROVE CircuitInv'
    OBVIOUS
  <2>1. CASE \E t \in Tasks : RedisStep(t)
    BY <2>1, RedisStepKeeps
  <2>2. CASE ~\E t \in Tasks : RedisStep(t)
    BY <2>2, OtherStepsKeep DEF Next, Producer, LoopStep, Tasks
  <2> QED BY <2>1, <2>2
<1>3. CircuitInv => OpenCircuitHasNoClient
  BY DEF CircuitInv
<1> QED BY <1>1, <1>2, <1>3, PTL DEF Spec


-----------------------------------------------------------------------------
(* Entries and sequences of them *)

LEMMA LeastNumber ==
    ASSUME NEW I \in SUBSET Nat, I # {}
    PROVE  Min(I) \in I
<1> DEFINE R == OpToRel(<, Nat)
<1>1. \E n \in I : \A m \in I : <<m, n>> \notin R
  BY NatLessThanWellFounded, WFMin
<1>2. \A m, n \in Nat : <<m, n>> \in R <=> m < n
  BY DEF OpToRel
<1> HIDE DEF R
<1>3. PICK n \in I : \A m \in I : <<m, n>> \notin R
  BY <1>1
<1>4. \A m \in I : ~(m < n)
  BY <1>2, <1>3
<1>5. \A m \in I : n <= m
  BY <1>4
<1> QED
  BY <1>5 DEF Min

\* The delay is due after some time, and no later than the limit.
LEMMA BackoffIsBounded == \A n \in Nat \ {0} : Backoff(n) \in 1..MaxDelay
<1> SUFFICES ASSUME NEW n \in Nat \ {0} PROVE Backoff(n) \in 1..MaxDelay
  OBVIOUS
<1> DEFINE S == 1..(n - 1)
<1> DEFINE power == 2 ^ (n - 1)
<1>1. IsFiniteSet(S) /\ Cardinality(S) = n - 1
  BY FS_Interval
<1>2. IsFiniteSet(SUBSET S) /\ Cardinality(SUBSET S) = 2 ^ Cardinality(S)
  BY <1>1, FS_SUBSET
<1>3. Cardinality(SUBSET S) \in Nat /\ Cardinality(SUBSET S) # 0
  <2> DEFINE T == SUBSET S
  <2>1. T # {} /\ IsFiniteSet(T)
    BY <1>2
  <2> HIDE DEF T
  <2>2. Cardinality(T) \in Nat /\ Cardinality(T) # 0
    BY <2>1, FS_CardinalityType, FS_EmptySet
  <2> QED
    BY <2>2 DEF T
<1>4. power \in Nat \ {0}
  BY <1>1, <1>2, <1>3
<1> HIDE DEF power, S
<1>5. BaseDelay * power \in Nat \ {0}
  <2>1. \A a, b \in Nat \ {0} : a * b \in Nat \ {0}
    OBVIOUS
  <2> QED
    BY <1>4, <2>1, DlqAssumption
<1>6. Backoff(n) = Lesser(MaxDelay, BaseDelay * power)
  BY DEF Backoff, power
<1> DEFINE delay == BaseDelay * power
<1>7. delay \in Nat \ {0} /\ Backoff(n) = Lesser(MaxDelay, delay)
  BY <1>5, <1>6
<1> HIDE DEF delay
<1> QED
  BY <1>7, DlqAssumption DEF Lesser

\* r is what stands in s from some place on.
Suffix(r, s) == \E k \in Nat : \A i \in DOMAIN r : i + k \in DOMAIN s /\ r[i] = s[i + k]

LEMMA FromDueShape ==
    ASSUME NEW s \in Seq(Entry)
    PROVE  /\ FromDue(s) \in Seq(Entry) /\ Suffix(FromDue(s), s)
           /\ FromDue(s) # <<>> => Due(FromDue(s)[1])
<1> DEFINE I == {i \in 1..Len(s) : Due(s[i])}
<1>1. Len(s) \in Nat /\ DOMAIN s = 1..Len(s)
  BY LenProperties
<1> DEFINE n == SelectInSeq(s, Due)
<1>2. n = IF I # {} THEN Min(I) ELSE 0
  BY DEF SelectInSeq
<1>0. FromDue(s) = IF n = 0 THEN <<>> ELSE SubSeq(s, n, Len(s))
  BY DEF FromDue
<1> HIDE DEF n
<1>3. CASE I = {}
  <2>1. FromDue(s) = <<>>
    BY <1>0, <1>2, <1>3
  <2> QED
    BY <2>1 DEF Suffix
<1>4. CASE I # {}
  <2> DEFINE k == Min(I)
  <2>1. I \in SUBSET Nat
    BY <1>1
  <2>2. k \in I
    BY <1>4, <2>1, LeastNumber
  <2>3. k \in 1..Len(s) /\ Due(s[k])
    BY <2>2
  <2>4. FromDue(s) = SubSeq(s, k, Len(s))
    <3>1. n = k
      BY <1>2, <1>4
    <3> HIDE DEF k
    <3> QED
      BY <1>0, <2>3, <3>1
  <2> HIDE DEF k, I
  <2>5. /\ SubSeq(s, k, Len(s)) \in Seq(Entry)
        /\ Len(SubSeq(s, k, Len(s))) = Len(s) - k + 1
        /\ \A i \in 1..(Len(s) - k + 1) : SubSeq(s, k, Len(s))[i] = s[k + i - 1]
    BY <1>1, <2>3, SubSeqProperties
  <2>6. DOMAIN FromDue(s) = 1..(Len(s) - k + 1)
    BY <2>4, <2>5, LenProperties
  <2>7. FromDue(s)[1] = s[k]
    BY <1>1, <2>3, <2>4, <2>5
  <2>8. \A i \in DOMAIN FromDue(s) : i + (k - 1) \in DOMAIN s /\ FromDue(s)[i] = s[i + (k - 1)]
    BY <1>1, <2>3, <2>4, <2>5, <2>6
  <2>9. k - 1 \in Nat
    BY <2>3
  <2> QED
    BY <2>3, <2>4, <2>5, <2>7, <2>8, <2>9 DEF Suffix
<1> QED
  BY <1>3, <1>4

\* An entry fewer: r is s without its place i.
Without(r, s, i) ==
    /\ r \in Seq(Entry) /\ i \in DOMAIN s /\ Len(r) = Len(s) - 1
    /\ \A k \in DOMAIN r : r[k] = s[IF k < i THEN k ELSE k + 1]

LEMMA RemoveAtShape ==
    ASSUME NEW s \in Seq(Entry), NEW i \in DOMAIN s
    PROVE  Without(RemoveAt(s, i), s, i)
<1> DEFINE a == SubSeq(s, 1, i - 1)
<1> DEFINE b == SubSeq(s, i + 1, Len(s))
<1>1. Len(s) \in Nat /\ DOMAIN s = 1..Len(s) /\ i \in 1..Len(s)
  BY LenProperties
<1>2. a \in Seq(Entry) /\ Len(a) = i - 1 /\ \A k \in 1..(i - 1) : a[k] = s[k]
  <2>1. 1..(i - 1) \subseteq DOMAIN s
    BY <1>1
  <2> QED
    BY <1>1, <2>1, SubSeqProperties
<1>3. b \in Seq(Entry) /\ Len(b) = Len(s) - i /\ \A k \in 1..(Len(s) - i) : b[k] = s[k + i]
  <2>1. (i + 1)..Len(s) \subseteq DOMAIN s
    BY <1>1
  <2> QED
    BY <1>1, <2>1, SubSeqProperties
<1>4. RemoveAt(s, i) = a \o b
  BY DEF RemoveAt
<1> HIDE DEF a, b
<1>5. /\ a \o b \in Seq(Entry) /\ Len(a \o b) = Len(a) + Len(b)
      /\ \A k \in 1..(Len(a) + Len(b)) :
            (a \o b)[k] = IF k <= Len(a) THEN a[k] ELSE b[k - Len(a)]
  BY <1>2, <1>3, ConcatProperties
<1> DEFINE c == a \o b
<1>6. /\ c \in Seq(Entry) /\ Len(c) = Len(a) + Len(b)
      /\ \A k \in 1..(Len(a) + Len(b)) : c[k] = IF k <= Len(a) THEN a[k] ELSE b[k - Len(a)]
  BY <1>5
<1> HIDE DEF c
<1>7. Len(c) = Len(s) - 1 /\ DOMAIN c = 1..(Len(s) - 1)
  BY <1>1, <1>2, <1>3, <1>6, LenProperties
<1>8. ASSUME NEW k \in 1..(Len(s) - 1) PROVE c[k] = s[IF k < i THEN k ELSE k + 1]
  <2>1. CASE k < i
    <3>1. k \in 1..(i - 1) /\ k <= Len(a) /\ k \in 1..(Len(a) + Len(b))
      BY <1>1, <1>2, <1>3, <2>1
    <3> QED
      BY <1>2, <1>6, <2>1, <3>1
  <2>2. CASE ~(k < i)
    <3>1. /\ k - Len(a) \in 1..(Len(s) - i) /\ ~(k <= Len(a))
          /\ k \in 1..(Len(a) + Len(b)) /\ (k - Len(a)) + i = k + 1
      BY <1>1, <1>2, <1>3, <2>2
    <3> QED
      BY <1>3, <1>6, <2>2, <3>1
  <2> QED
    BY <2>1, <2>2
<1> QED
  BY <1>4, <1>6, <1>7, <1>8 DEF Without, c


\* What Removed() takes for the entry e.
Matches(x, e) == x.oid = e.oid \/ Json(x) = Json(e)

LEMMA RemovedShape ==
    ASSUME NEW s \in Seq(Entry), NEW e
    PROVE  \/ Removed(s, e) = s /\ \A i \in DOMAIN s : ~Matches(s[i], e)
           \/ \E i \in DOMAIN s : Matches(s[i], e) /\ Without(Removed(s, e), s, i)
<1> DEFINE I == {i \in 1..Len(s) : Matches(s[i], e)}
<1>1. Len(s) \in Nat /\ DOMAIN s = 1..Len(s)
  BY LenProperties
<1> DEFINE n == SelectInSeq(s, LAMBDA x : x.oid = e.oid \/ Json(x) = Json(e))
<1>2. n = IF I # {} THEN Min(I) ELSE 0
  BY DEF SelectInSeq, Matches
<1>3. Removed(s, e) = IF I # {} THEN RemoveAt(s, n) ELSE s
  BY DEF Removed, RemoveFirstMatch, Matches
<1>4. I # {} => Min(I) \in I
  <2>1. I \in SUBSET Nat
    BY <1>1
  <2> HIDE DEF I
  <2> QED
    BY <2>1, LeastNumber
<1>5. I # {} => n \in DOMAIN s /\ Matches(s[n], e)
  <2> HIDE DEF n
  <2> QED
    BY <1>1, <1>2, <1>4
<1>6. I = {} => \A i \in DOMAIN s : ~Matches(s[i], e)
  BY <1>1
<1> HIDE DEF n, I
<1> QED
  BY <1>3, <1>5, <1>6, RemoveAtShape

LEMMA UpdatedShape ==
    ASSUME NEW s \in Seq(Entry), NEW e \in Entry
    PROVE  /\ Updated(s, e) \in Seq(Entry)
           /\ \/ Updated(s, e) = s
              \/ \E i \in DOMAIN s : s[i].ts = e.ts /\ Updated(s, e) = [s EXCEPT ![i] = e]
<1> DEFINE I == {i \in 1..Len(s) : s[i].ts = e.ts}
<1>1. Len(s) \in Nat /\ DOMAIN s = 1..Len(s)
  BY LenProperties
<1> DEFINE n == SelectInSeq(s, LAMBDA x : x.ts = e.ts)
<1>2. n = IF I # {} THEN Min(I) ELSE 0
  BY DEF SelectInSeq
<1>3. Updated(s, e) = IF n = 0 THEN s ELSE [s EXCEPT ![n] = e]
  BY DEF Updated, ReplaceAt
<1>4. I # {} => Min(I) \in I
  <2>1. I \in SUBSET Nat
    BY <1>1
  <2> HIDE DEF I
  <2> QED
    BY <2>1, LeastNumber
<1> HIDE DEF n
<1>5. n # 0 => n \in DOMAIN s /\ s[n].ts = e.ts
  BY <1>1, <1>2, <1>4
<1>6. \A i \in DOMAIN s : [s EXCEPT ![i] = e] \in Seq(Entry)
  BY ExceptSeq
<1> QED
  BY <1>3, <1>5, <1>6

\* The same sequence with other entries, which agree where no time is meant.
LEMMA MapShape ==
    ASSUME NEW s \in Seq(Entry), NEW r, DOMAIN r = DOMAIN s, r = [i \in DOMAIN s |-> r[i]],
           \A i \in DOMAIN s : r[i] \in Entry
    PROVE  r \in Seq(Entry) /\ Len(r) = Len(s)
<1>1. Len(s) \in Nat /\ DOMAIN s = 1..Len(s)
  BY LenProperties
<1>2. r \in [1..Len(s) -> Entry]
  BY <1>1
<1>3. r \in Seq(Entry)
  BY <1>1, <1>2, SeqDef
<1>4. Len(r) \in Nat /\ DOMAIN r = 1..Len(r)
  BY <1>3, LenProperties
<1>5. \A m, n \in Nat : 1..m = 1..n => m = n
  OBVIOUS
<1> QED
  BY <1>1, <1>3, <1>4, <1>5

LEMMA ModifiedShape ==
    ASSUME NEW s \in Seq(Entry), NEW e \in Entry
    PROVE  /\ Modified(s, e) \in Seq(Entry) /\ DOMAIN Modified(s, e) = DOMAIN s
           /\ \A i \in DOMAIN s :
                 Modified(s, e)[i] = IF s[i].oid = e.oid THEN e ELSE s[i]
<1>1. \A i \in DOMAIN s : s[i] \in Entry
  BY ElementOfSeq, LenProperties
<1> DEFINE r == Modified(s, e)
<1>2. /\ DOMAIN r = DOMAIN s /\ r = [i \in DOMAIN s |-> r[i]]
      /\ \A i \in DOMAIN s : r[i] = IF s[i].oid = e.oid THEN e ELSE s[i]
  BY DEF Modified
<1> HIDE DEF r
<1>3. \A i \in DOMAIN s : r[i] \in Entry
  BY <1>1, <1>2
<1>4. r \in Seq(Entry)
  BY <1>2, <1>3, MapShape
<1> QED
  BY <1>2, <1>4 DEF r

\* What time leaves of an entry.
SameButWait(x, y) ==
    x.oid = y.oid /\ x.decision = y.decision /\ x.ts = y.ts /\ x.attempts = y.attempts

LEMMA CloserShape ==
    ASSUME NEW s \in Seq(Entry)
    PROVE  /\ Closer(s) \in Seq(Entry) /\ DOMAIN Closer(s) = DOMAIN s
           /\ \A i \in DOMAIN s : SameButWait(Closer(s)[i], s[i])
<1>1. \A i \in DOMAIN s : s[i] \in Entry
  BY ElementOfSeq, LenProperties
<1>2. \A w \in 0..MaxDelay : Greater(w - 1, 0) \in 0..MaxDelay
  BY DlqAssumption DEF Greater
<1> DEFINE near(x) == [x EXCEPT !.wait = Greater(@ - 1, 0)]
<1>3. \A x \in Entry : near(x) \in Entry /\ SameButWait(near(x), x)
  BY <1>2 DEF Entry, SameButWait
<1> DEFINE r == Closer(s)
<1>4. DOMAIN r = DOMAIN s /\ r = [i \in DOMAIN s |-> r[i]]
      /\ \A i \in DOMAIN s : r[i] = near(s[i])
  BY DEF Closer
<1> HIDE DEF near, r
<1>5. r \in Seq(Entry)
  BY <1>1, <1>3, <1>4, MapShape
<1> QED
  BY <1>1, <1>3, <1>4, <1>5 DEF r


LEMMA ToSetIsFinite ==
    ASSUME NEW s \in Seq(Entry)
    PROVE  IsFiniteSet(ToSet(s)) /\ ToSet(s) \subseteq Entry
<1>1. Len(s) \in Nat /\ DOMAIN s = 1..Len(s) /\ s \in [1..Len(s) -> Entry]
  BY LenProperties
<1>2. s \in Surjection(1..Len(s), ToSet(s))
  BY <1>1 DEF Surjection, ToSet
<1>3. IsFiniteSet(1..Len(s))
  BY <1>1, FS_Interval
<1>4. ToSet(s) \subseteq Entry
  BY <1>1 DEF ToSet
<1> QED
  BY <1>2, <1>3, <1>4, FS_Surjection

\* The entries that the process holds as objects.
Held == ToSet(persist_dlq) \cup ToSet(work)

\* A new object is different from those in use.
LEMMA ObjectShape ==
    ASSUME persist_dlq \in Seq(Entry), work \in Seq(Entry), NEW e \in Entry
    PROVE  /\ Object(e) \in Entry
           /\ Object(e).decision = e.decision /\ Object(e).ts = e.ts
           /\ Object(e).attempts = e.attempts /\ Object(e).wait = e.wait
           /\ \A x \in Held : x.oid # Object(e).oid
<1> DEFINE used == {x.oid : x \in Held}
<1> DEFINE n == CHOOSE n \in 1..(Cardinality(used) + 1) : n \notin used
<1>1. IsFiniteSet(Held) /\ Held \subseteq Entry
  <2>1. IsFiniteSet(ToSet(persist_dlq)) /\ IsFiniteSet(ToSet(work))
        /\ ToSet(persist_dlq) \subseteq Entry /\ ToSet(work) \subseteq Entry
    BY ToSetIsFinite
  <2> QED
    BY <2>1, FS_Union DEF Held
<1>2. IsFiniteSet(used)
  <2> DEFINE f == [x \in Held |-> x.oid]
  <2>1. f \in Surjection(Held, used)
    BY DEF Surjection
  <2> HIDE DEF f, used
  <2> QED
    BY <1>1, <2>1, FS_Surjection
<1>3. Cardinality(used) \in Nat
  BY <1>2, FS_CardinalityType
<1>4. \E k \in 1..(Cardinality(used) + 1) : k \notin used
  <2> DEFINE m == Cardinality(used) + 1
  <2>1. m \in Nat /\ m > Cardinality(used)
    BY <1>3
  <2>2. Cardinality(1..m) = m
    <3> HIDE DEF m
    <3>1. \A k \in Nat : Cardinality(1..k) = k
      BY FS_Interval
    <3> QED
      BY <2>1, <3>1
  <2>3. ~(1..m \in SUBSET used)
    <3> HIDE DEF m, used
    <3>1. 1..m \in SUBSET used => Cardinality(1..m) <= Cardinality(used)
      BY <1>2, FS_Subset
    <3> QED
      BY <1>3, <2>1, <2>2, <3>1
  <2> QED
    BY <2>3
<1>5. n \in 1..(Cardinality(used) + 1) /\ n \notin used
  <2> HIDE DEF used
  <2> QED
    BY <1>4
<1>6. n \in Nat
  BY <1>3, <1>5
<1>7. Object(e) = [e EXCEPT !.oid = n]
  BY DEF Object, Held
<1>8. \A x \in Held : x.oid # n
  BY <1>5
<1> HIDE DEF n, used
<1>9. /\ [e EXCEPT !.oid = n] \in Entry /\ [e EXCEPT !.oid = n].oid = n
      /\ [e EXCEPT !.oid = n].decision = e.decision /\ [e EXCEPT !.oid = n].ts = e.ts
      /\ [e EXCEPT !.oid = n].attempts = e.attempts /\ [e EXCEPT !.oid = n].wait = e.wait
  BY <1>6 DEF Entry
<1> QED
  BY <1>7, <1>8, <1>9

\* What a failed retry makes of an entry, for the queue and for the pass.
LEMMA FailedShape ==
    ASSUME NEW e \in Entry, age \in Nat
    PROVE  /\ Failed(e) \in Entry
           /\ Failed(e).oid = e.oid /\ Failed(e).decision = e.decision /\ Failed(e).ts = e.ts
           /\ Failed(e).attempts = Lesser(e.attempts + 1, AttemptCap)
           /\ LET x == [Failed(e) EXCEPT !.wait = Backoff(Failed(e).attempts)]
              IN  x \in Entry /\ SameButWait(x, Failed(e)) /\ x.wait > 0
<1> DEFINE attempts == Lesser(e.attempts + 1, AttemptCap)
<1> DEFINE wait == Greater(Backoff(attempts) - age, 0)
<1>1. e.attempts \in 0..AttemptCap /\ AttemptCap \in Nat \ {0}
  BY DlqAssumption DEF Entry, AttemptCap
<1>2. attempts \in 0..AttemptCap /\ attempts \in Nat \ {0}
  BY <1>1 DEF Lesser
<1>3. Failed(e) = [e EXCEPT !.attempts = attempts, !.wait = wait]
  BY DEF Failed
<1> HIDE DEF attempts
<1>4. Backoff(attempts) \in 1..MaxDelay
  BY <1>2, BackoffIsBounded
<1>5. wait \in 0..MaxDelay
  BY <1>4, DlqAssumption DEF Greater
<1> HIDE DEF wait
<1> DEFINE f == [e EXCEPT !.attempts = attempts, !.wait = wait]
<1>6. /\ f \in Entry /\ f.oid = e.oid /\ f.decision = e.decision /\ f.ts = e.ts
      /\ f.attempts = attempts
  BY <1>2, <1>5 DEF Entry
<1> HIDE DEF f
<1> DEFINE x == [f EXCEPT !.wait = Backoff(attempts)]
<1>7. x \in Entry /\ SameButWait(x, f) /\ x.wait > 0
  BY <1>4, <1>6, DlqAssumption DEF Entry, SameButWait
<1> QED
  BY <1>3, <1>6, <1>7 DEF f, attempts


-----------------------------------------------------------------------------
(* Types *)

LEMMA SequencesOfEntries ==
    ASSUME NEW s \in Seq(Entry)
    PROVE  /\ \A e \in Entry : Append(s, e) \in Seq(Entry)
           /\ \A e \in Entry : <<e>> \in Seq(Entry) /\ <<e>> \o s \in Seq(Entry)
           /\ s # <<>> => s[1] \in Entry /\ Head(s) = s[1] /\ Tail(s) \in Seq(Entry)
           /\ \A e : Removed(s, e) \in Seq(Entry) /\ Dropped(s, e) \in Seq(Entry)
           /\ <<>> \in Seq(Entry)
<1>1. \A e \in Entry : Append(s, e) \in Seq(Entry)
  BY AppendProperties
<1>2. \A e \in Entry : <<e>> \in Seq(Entry) /\ <<e>> \o s \in Seq(Entry)
  <2>1. \A e \in Entry : <<e>> \in Seq(Entry)
    OBVIOUS
  <2> QED
    BY <2>1, ConcatProperties
<1>3. ASSUME s # <<>>
      PROVE  s[1] \in Entry /\ Head(s) = s[1] /\ Tail(s) \in Seq(Entry)
  <2>1. Head(s) \in Entry /\ Tail(s) \in Seq(Entry)
    BY <1>3, HeadTailProperties
  <2>2. Head(s) = s[1]
    OBVIOUS
  <2> QED
    BY <2>1, <2>2
<1>4. \A e : Removed(s, e) \in Seq(Entry)
  BY RemovedShape DEF Without
<1>5. \A e : Dropped(s, e) \in Seq(Entry)
  BY <1>4 DEF Dropped
<1> QED
  BY <1>1, <1>2, <1>3, <1>4, <1>5

LEMMA ScanTypes ==
    ASSUME NEW s \in Seq(Entry), Scan(s), age \in 0..MaxDelay
    PROVE  /\ work' = FromDue(s) /\ work' \in Seq(Entry)
           /\ loop' \in {"sleep", "scan"} /\ (loop' = "scan" <=> work' # <<>>)
           /\ age' \in 0..MaxDelay
BY FromDueShape, DlqAssumption DEF Scan

LEMMA StampTypes ==
    ASSUME stamp \in [Decisions -> Nat]
    PROVE  LastStamp \in Nat /\ IsFiniteSet({stamp[d] : d \in Decisions} \ {0})
<1> DEFINE S == {stamp[d] : d \in Decisions}
<1>1. stamp \in Surjection(Decisions, S)
  BY DEF Surjection
<1>2. LastStamp = Cardinality(S \ {0})
  BY DEF LastStamp
<1> HIDE DEF S
<1>3. IsFiniteSet(S)
  BY <1>1, FS_Surjection, DlqAssumption
<1>4. IsFiniteSet(S \ {0})
  BY <1>3, FS_RemoveElement
<1> QED
  BY <1>2, <1>4, FS_CardinalityType DEF S

LEMMA NewEntryTypes ==
    ASSUME stamp \in [Decisions -> Nat], NEW d \in Decisions
    PROVE  NewEntry(d) \in Entry
BY DlqAssumption DEF NewEntry, Entry, AttemptCap

LEMMA StoreTypes ==
    ASSUME TypeOK, NEW d \in Decisions, InsertRaises(d)
    PROVE  rows' \in [Decisions -> 0..RowCap] /\ unsure' \in [Decisions -> Nat]
           /\ faults' \in 0..MaxFaults
<1>1. \A n \in 0..RowCap : Lesser(n + 1, RowCap) \in 0..RowCap
  BY DlqAssumption DEF Lesser, RowCap
<1>2. /\ rows \in [Decisions -> 0..RowCap] /\ unsure \in [Decisions -> Nat]
      /\ faults \in 0..MaxFaults
  BY DEF TypeOK
<1>3. CASE UNCHANGED <<rows, unsure, faults>>
  BY <1>2, <1>3
<1>4. CASE /\ faults < MaxFaults /\ faults' = faults + 1
           /\ rows' = [rows EXCEPT ![d] = Lesser(@ + 1, RowCap)]
           /\ unsure' = [unsure EXCEPT ![d] = @ + 1]
  <2>1. rows' \in [Decisions -> 0..RowCap]
    BY <1>1, <1>2, <1>4
  <2>2. unsure' \in [Decisions -> Nat]
    BY <1>2, <1>4
  <2>3. faults' \in 0..MaxFaults
    BY <1>2, <1>4, DlqAssumption
  <2> QED
    BY <2>1, <2>2, <2>3
<1> QED
  BY <1>3, <1>4 DEF InsertRaises

\* What a caller's answer and exception leave of the sequences.
LEMMA CallerTypes ==
    ASSUME TypeOK, CircuitInv, NEW t \in Tasks, op[t] # "none", Answered(t) \/ Raised(t)
    PROVE  /\ persist_dlq' \in Seq(Entry) /\ work' \in Seq(Entry)
           /\ loop' \in {"sleep", "pop", "scan", "push"}
           /\ loop' \in {"scan", "push"} => work' # <<>>
           /\ age' \in 0..MaxDelay
<1>1. /\ persist_dlq \in Seq(Entry) /\ redis_dlq \in Seq(Entry) /\ work \in Seq(Entry)
      /\ age \in 0..MaxDelay /\ stamp \in [Decisions -> Nat]
      /\ loop \in {"sleep", "pop", "scan", "push"} /\ (loop \in {"scan", "push"} => work # <<>>)
  BY DEF TypeOK
<1>2. CASE UNCHANGED loopVars /\ persist_dlq' = persist_dlq
  BY <1>1, <1>2 DEF loopVars
<1>3. CASE /\ t \in Decisions /\ UNCHANGED loopVars
           /\ persist_dlq' = Append(persist_dlq, Object(NewEntry(t)))
  <2>1. Object(NewEntry(t)) \in Entry
    BY <1>1, <1>3, NewEntryTypes, ObjectShape
  <2> QED
    BY <1>1, <1>3, <2>1, SequencesOfEntries DEF loopVars
<1>4. CASE /\ persist_dlq' = persist_dlq
           /\ Scan(persist_dlq)
  BY <1>1, <1>4, ScanTypes
<1>5. CASE /\ persist_dlq' = persist_dlq
           /\ Scan(IF redis_dlq = <<>> THEN <<>> ELSE <<Object(Head(redis_dlq))>>)
  <2>1. (IF redis_dlq = <<>> THEN <<>> ELSE <<Object(Head(redis_dlq))>>) \in Seq(Entry)
    <3>1. CASE redis_dlq = <<>>
      BY <1>1, <3>1, SequencesOfEntries
    <3>2. CASE redis_dlq # <<>>
      <4>1. Object(Head(redis_dlq)) \in Entry
        BY <1>1, <3>2, SequencesOfEntries, ObjectShape
      <4> QED
        BY <1>1, <3>2, <4>1, SequencesOfEntries
    <3> QED
      BY <3>1, <3>2
  <2> DEFINE s == IF redis_dlq = <<>> THEN <<>> ELSE <<Object(Head(redis_dlq))>>
  <2>2. s \in Seq(Entry) /\ Scan(s)
    BY <1>5, <2>1
  <2> HIDE DEF s
  <2> QED
    BY <1>1, <1>5, <2>2, ScanTypes
<1>6. CASE /\ loop = "push" /\ persist_dlq' = Dropped(persist_dlq, Head(work))
           /\ Scan(Tail(work))
  <2>1. Tail(work) \in Seq(Entry) /\ persist_dlq' \in Seq(Entry)
    BY <1>1, <1>6, SequencesOfEntries
  <2> QED
    BY <1>1, <1>6, <2>1, ScanTypes
<1> QED
  BY <1>2, <1>3, <1>4, <1>5, <1>6 DEF Answered, Raised


LEMMA EffectTypes ==
    ASSUME TypeOK, CircuitInv, NEW t \in Tasks, op[t] # "none"
    PROVE  Effect(t) \in Seq(Entry)
<1>1. /\ redis_dlq \in Seq(Entry) /\ work \in Seq(Entry) /\ stamp \in [Decisions -> Nat]
      /\ loop \in {"scan", "push"} => work # <<>>
      /\ loop \in {"sleep", "pop", "scan", "push"}
  BY DEF TypeOK
<1>2. CASE t \in Decisions
  <2>1. Append(redis_dlq, NewEntry(t)) \in Seq(Entry)
    BY <1>1, <1>2, NewEntryTypes, SequencesOfEntries
  <2>2. Effect(t) = IF pc[t] = "push" THEN Append(redis_dlq, NewEntry(t)) ELSE redis_dlq
    BY <1>2, DlqAssumption DEF Effect
  <2> QED
    BY <1>1, <2>1, <2>2
<1>3. CASE t = Loop
  <2>1. loop \in {"pop", "push"} /\ t \notin Decisions /\ "pop" # "push"
    BY <1>1, <1>3, DlqAssumption DEF CircuitInv, Idle
  <2>2. CASE loop = "pop"
    <3>1. Effect(t) = IF redis_dlq = <<>> THEN <<>> ELSE Tail(redis_dlq)
      BY <1>3, <2>1, <2>2 DEF Effect, Loop, Admin
    <3> QED
      BY <1>1, <3>1, SequencesOfEntries
  <2>3. CASE loop = "push"
    <3>1. Effect(t) = Append(redis_dlq, Json(Head(work)))
      BY <1>3, <2>1, <2>3 DEF Effect, Loop, Admin
    <3>2. Head(work) \in Entry
      BY <1>1, <2>3, SequencesOfEntries
    <3>3. Json(Head(work)) \in Entry
      BY <3>2 DEF Json, Entry
    <3> QED
      BY <1>1, <3>1, <3>3, SequencesOfEntries
  <2> QED
    BY <2>1, <2>2, <2>3
<1>4. CASE t = Admin
  <2>1. Effect(t) = <<>>
    BY <1>4, DlqAssumption DEF Effect, Loop, Admin
  <2> QED
    BY <2>1, <1>1, SequencesOfEntries
<1> QED
  BY <1>2, <1>3, <1>4 DEF Tasks

\* What no step of redis_op() touches.
LEMMA RedisTypes ==
    ASSUME TypeOK, CircuitInv, NEW t \in Tasks, RedisStep(t)
    PROVE  TypeOK'
<1>1. CircuitInv'
  BY RedisStepKeeps
<1>2. pc' \in [Decisions -> {"new", "push", "llen", "done"}] /\ op' \in [Tasks -> OpStates]
  BY <1>1 DEF CircuitInv, CircuitTypes
<1>3. /\ stamp' \in [Decisions -> Nat]
      /\ rows' \in [Decisions -> 0..RowCap] /\ unsure' \in [Decisions -> Nat]
      /\ retries' \in [Decisions -> 0..AttemptCap] /\ doubled' \subseteq Decisions
      /\ calls' \in 0..MaxAdmin
  BY DEF RedisStep, RedisOk, RedisAttemptFails, RedisRefused, EnsureSkips, Connect, PingOk,
     PingFails, TypeOK, storeVars
<1>4. client' \in BOOLEAN /\ circuit' \in BOOLEAN
  BY DEF RedisStep, RedisOk, RedisAttemptFails, RedisRefused, EnsureSkips, Connect, PingOk,
     PingFails, TypeOK
<1>5. faults' \in 0..MaxFaults
  <2>1. faults \in 0..MaxFaults /\ MaxFaults \in Nat
    BY DlqAssumption DEF TypeOK
  <2>2. faults' = faults \/ (faults < MaxFaults /\ faults' = faults + 1)
    BY DEF RedisStep, RedisOk, RedisAttemptFails, RedisRefused, EnsureSkips, Connect, PingOk,
       PingFails
  <2> QED
    BY <2>1, <2>2
<1>6. flushed' \subseteq Decisions
  <2>1. flushed \subseteq Decisions /\ redis_dlq \in Seq(Entry)
    BY DEF TypeOK
  <2>2. \A i \in DOMAIN redis_dlq : redis_dlq[i].decision \in Decisions
    <3>1. \A i \in DOMAIN redis_dlq : redis_dlq[i] \in Entry
      BY <2>1, ElementOfSeq, LenProperties
    <3> QED
      BY <3>1 DEF Entry
  <2>3. flushed' = flushed
        \/ flushed' = flushed \cup {redis_dlq[i].decision : i \in DOMAIN redis_dlq}
    BY DEF RedisStep, RedisOk, RedisAttemptFails, RedisRefused, EnsureSkips, Connect, PingOk,
       PingFails, Answered
  <2> QED
    BY <2>1, <2>2, <2>3
<1>7. redis_dlq' \in Seq(Entry)
  <2>1. redis_dlq \in Seq(Entry)
    BY DEF TypeOK
  <2>2. \/ redis_dlq' = redis_dlq
        \/ op[t] # "none" /\ redis_dlq' = Effect(t)
    BY DEF RedisStep, RedisOk, RedisAttemptFails, RedisRefused, EnsureSkips, Connect, PingOk,
       PingFails, queueVars
  <2> QED
    BY <2>1, <2>2, EffectTypes
<1>8. /\ persist_dlq' \in Seq(Entry) /\ work' \in Seq(Entry)
      /\ loop' \in {"sleep", "pop", "scan", "push"}
      /\ loop' \in {"scan", "push"} => work' # <<>>
      /\ age' \in 0..MaxDelay
  <2>1. CASE UNCHANGED loopVars /\ persist_dlq' = persist_dlq
    BY <2>1 DEF TypeOK, loopVars
  <2>2. CASE op[t] # "none" /\ (Answered(t) \/ Raised(t))
    BY <2>2, CallerTypes
  <2> QED
    BY <2>1, <2>2 DEF RedisStep, RedisOk, RedisAttemptFails, RedisRefused, EnsureSkips,
       Connect, PingOk, PingFails, queueVars, loopVars
<1> QED
  BY <1>2, <1>3, <1>4, <1>5, <1>6, <1>7, <1>8 DEF TypeOK


\* What the steps of the retry loop do to the sequences.
LEMMA LoopTypes ==
    ASSUME TypeOK, PassStart \/ RetryOk \/ RetryFails
    PROVE  /\ persist_dlq' \in Seq(Entry) /\ work' \in Seq(Entry)
           /\ loop' \in {"sleep", "pop", "scan", "push"}
           /\ loop' \in {"scan", "push"} => work' # <<>>
           /\ age' \in 0..MaxDelay
<1>1. /\ persist_dlq \in Seq(Entry) /\ work \in Seq(Entry) /\ age \in 0..MaxDelay
      /\ loop \in {"scan", "push"} => work # <<>>
      /\ age \in Nat /\ 0 \in 0..MaxDelay
  BY DlqAssumption DEF TypeOK
<1>2. CASE PassStart
  <2>1. CASE client
    BY <1>1, <1>2, <2>1 DEF PassStart, queueVars
  <2>2. CASE ~client
    <3>1. Scan(persist_dlq) /\ persist_dlq' = persist_dlq
      BY <1>2, <2>2 DEF PassStart, queueVars
    <3> QED
      BY <1>1, <3>1, ScanTypes
  <2> QED
    BY <2>1, <2>2
<1>3. CASE RetryOk
  <2>1. Tail(work) \in Seq(Entry) /\ Removed(persist_dlq, Head(work)) \in Seq(Entry)
    BY <1>1, <1>3, SequencesOfEntries DEF RetryOk
  <2>2. Scan(Tail(work)) /\ persist_dlq' \in Seq(Entry)
    BY <1>1, <1>3, <2>1 DEF RetryOk
  <2> QED
    BY <1>1, <2>1, <2>2, ScanTypes
<1>4. CASE RetryFails
  <2> DEFINE e == Failed(Head(work))
  <2> DEFINE later == [e EXCEPT !.wait = Backoff(e.attempts)]
  <2>1. Head(work) \in Entry /\ Tail(work) \in Seq(Entry)
    BY <1>1, <1>4, SequencesOfEntries DEF RetryFails
  <2>2. e \in Entry /\ later \in Entry
    BY <1>1, <2>1, FailedShape
  <2>3. Rest(e) = Modified(Tail(work), later)
    BY DEF Rest
  <2>4. /\ client => /\ persist_dlq' = Modified(persist_dlq, e) /\ work' = <<e>> \o Rest(e)
                     /\ loop' = "push" /\ age' = age
        /\ ~client => /\ persist_dlq' = Dropped(Updated(Modified(persist_dlq, e), e), e)
                      /\ Scan(Rest(e))
    BY <1>4 DEF RetryFails
  <2> HIDE DEF e, later
  <2>5. Rest(e) \in Seq(Entry) /\ Modified(persist_dlq, e) \in Seq(Entry)
    <3> DEFINE tail == Tail(work)
    <3>1. tail \in Seq(Entry) /\ Rest(e) = Modified(tail, later)
      BY <2>1, <2>3
    <3> HIDE DEF tail
    <3>2. Modified(tail, later) \in Seq(Entry)
      BY <2>2, <3>1, ModifiedShape
    <3>3. Modified(persist_dlq, e) \in Seq(Entry)
      BY <1>1, <2>2, ModifiedShape
    <3> QED
      BY <3>1, <3>2, <3>3
  <2>6. Dropped(Updated(Modified(persist_dlq, e), e), e) \in Seq(Entry)
    BY <2>2, <2>5, UpdatedShape, SequencesOfEntries
  <2>7. <<e>> \o Rest(e) \in Seq(Entry) /\ <<e>> \o Rest(e) # <<>>
    <3>1. <<e>> \in Seq(Entry) /\ Len(<<e>>) = 1 /\ Len(Rest(e)) \in Nat
      BY <2>2, <2>5, LenProperties
    <3>2. <<e>> \o Rest(e) \in Seq(Entry) /\ Len(<<e>> \o Rest(e)) = 1 + Len(Rest(e))
      BY <2>5, <3>1, ConcatProperties
    <3>3. Len(<<>>) = 0
      OBVIOUS
    <3> QED
      BY <3>1, <3>2, <3>3
  <2>8. CASE client
    BY <1>1, <2>4, <2>5, <2>7, <2>8
  <2>9. CASE ~client
    BY <1>1, <2>4, <2>5, <2>6, <2>9, ScanTypes
  <2> QED
    BY <2>8, <2>9
<1> QED
  BY <1>2, <1>3, <1>4

LEMMA DecisionsOf ==
    ASSUME NEW s \in Seq(Entry)
    PROVE  {x.decision : x \in ToSet(s)} \subseteq Decisions
BY ToSetIsFinite DEF Entry

LEMMA OtherTypes ==
    ASSUME TypeOK, CircuitInv,
           \/ \E d \in Decisions : PersistOk(d) \/ PersistFails(d)
           \/ PassStart \/ RetryOk \/ RetryFails
           \/ Requeue \/ Flush \/ Tick \/ UNCHANGED vars
    PROVE  TypeOK'
<1>1. pc' \in [Decisions -> {"new", "push", "llen", "done"}] /\ op' \in [Tasks -> OpStates]
  BY OtherStepsKeep DEF CircuitInv, CircuitTypes
<1>2. /\ stamp \in [Decisions -> Nat]
      /\ persist_dlq \in Seq(Entry) /\ redis_dlq \in Seq(Entry) /\ work \in Seq(Entry)
      /\ age \in 0..MaxDelay /\ calls \in 0..MaxAdmin
      /\ rows \in [Decisions -> 0..RowCap] /\ retries \in [Decisions -> 0..AttemptCap]
      /\ loop \in {"scan", "push"} => work # <<>>
      /\ \A n \in 0..RowCap : Lesser(n + 1, RowCap) \in 0..RowCap
      /\ \A n \in 0..AttemptCap : Lesser(n + 1, AttemptCap) \in 0..AttemptCap
  BY DlqAssumption DEF TypeOK, Lesser, RowCap, AttemptCap
<1>3. CASE \E d \in Decisions : PersistOk(d)
  <2>1. PICK d \in Decisions : PersistOk(d)
    BY <1>3
  <2>2. rows' \in [Decisions -> 0..RowCap]
    BY <1>2, <2>1 DEF PersistOk
  <2> QED
    BY <1>1, <2>1, <2>2 DEF PersistOk, TypeOK, queueVars, redisVars, loopVars
<1>4. CASE \E d \in Decisions : PersistFails(d)
  <2>1. PICK d \in Decisions : PersistFails(d)
    BY <1>4
  <2>2. PICK ts \in {LastStamp + 1} \cup
                    (IF SameMillisecond /\ LastStamp > 0 THEN {LastStamp} ELSE {}) :
            stamp' = [stamp EXCEPT ![d] = ts]
    BY <2>1 DEF PersistFails
  <2>3. ts \in Nat /\ stamp' \in [Decisions -> Nat] /\ stamp'[d] = ts
    <3> DEFINE last == LastStamp
    <3>1. last \in Nat /\ ts \in {last, last + 1}
      BY <1>2, <2>2, StampTypes
    <3> HIDE DEF last
    <3>2. ts \in Nat
      BY <3>1
    <3> QED
      BY <1>2, <2>2, <3>2
  <2> DEFINE e == [NewEntry(d) EXCEPT !.ts = ts]
  <2>4. e \in Entry
    <3> DEFINE x == NewEntry(d)
    <3>1. x \in Entry
      BY <1>2, NewEntryTypes
    <3> HIDE DEF x
    <3>2. [x EXCEPT !.ts = ts] \in Entry
      BY <2>3, <3>1 DEF Entry
    <3> QED
      BY <3>2 DEF x
  <2>5. persist_dlq' = persist_dlq \/ persist_dlq' = Append(persist_dlq, Object(e))
    BY <2>1, <2>3 DEF PersistFails
  <2> HIDE DEF e
  <2>6. persist_dlq' \in Seq(Entry)
    <3>1. Object(e) \in Entry
      BY <1>2, <2>4, ObjectShape
    <3> QED
      BY <1>2, <2>5, <3>1, SequencesOfEntries
  <2>7. rows' \in [Decisions -> 0..RowCap] /\ unsure' \in [Decisions -> Nat]
        /\ faults' \in 0..MaxFaults
    BY <2>1, StoreTypes DEF PersistFails
  <2> QED
    BY <1>1, <2>1, <2>3, <2>6, <2>7 DEF PersistFails, TypeOK, loopVars
<1>5. CASE PassStart \/ RetryOk \/ RetryFails
  <2>1. /\ rows' \in [Decisions -> 0..RowCap] /\ unsure' \in [Decisions -> Nat]
        /\ retries' \in [Decisions -> 0..AttemptCap] /\ faults' \in 0..MaxFaults
    <3>1. CASE PassStart
      BY <3>1 DEF PassStart, TypeOK, storeVars
    <3>2. CASE RetryOk
      <4>1. rows' \in [Decisions -> 0..RowCap]
        BY <1>2, <3>2 DEF RetryOk
      <4> QED
        BY <3>2, <4>1 DEF RetryOk, TypeOK
    <3>3. CASE RetryFails
      <4>1. Failed(Head(work)).decision \in Decisions
        <5>1. Head(work) \in Entry /\ age \in Nat
          BY <1>2, <3>3, SequencesOfEntries, DlqAssumption DEF RetryFails
        <5> QED
          BY <5>1, FailedShape DEF Entry
      <4> DEFINE d == Failed(Head(work)).decision
      <4>2. /\ InsertRaises(d) /\ retries' = [retries EXCEPT ![d] = Lesser(@ + 1, AttemptCap)]
        BY <3>3 DEF RetryFails
      <4> HIDE DEF d
      <4>3. d \in Decisions
        BY <4>1 DEF d
      <4>4. retries' \in [Decisions -> 0..AttemptCap]
        BY <1>2, <4>2, <4>3
      <4> QED
        BY <4>2, <4>3, <4>4, StoreTypes
    <3> QED
      BY <1>5, <3>1, <3>2, <3>3
  <2>2. UNCHANGED <<stamp, redis_dlq, client, circuit, flushed, doubled, calls>>
    BY <1>5 DEF PassStart, RetryOk, RetryFails, queueVars, redisVars
  <2> QED
    BY <1>1, <1>5, <2>1, <2>2, LoopTypes DEF TypeOK
<1>6. CASE Requeue
  <2>1. persist_dlq \o persist_dlq \in Seq(Entry)
    BY <1>2, ConcatProperties
  <2>2. doubled' \subseteq Decisions
    BY <1>2, <1>6, DecisionsOf DEF Requeue, TypeOK
  <2>3. calls' \in 0..MaxAdmin
    BY <1>2, <1>6, DlqAssumption DEF Requeue
  <2> QED
    BY <1>1, <1>6, <2>1, <2>2, <2>3 DEF Requeue, TypeOK, redisVars, loopVars, storeVars
<1>7. CASE Flush
  <2>1. persist_dlq' \in Seq(Entry)
    BY <1>2, <1>7, SequencesOfEntries DEF Flush
  <2>2. flushed' \subseteq Decisions
    BY <1>2, <1>7, DecisionsOf DEF Flush, TypeOK
  <2>3. calls' \in 0..MaxAdmin
    BY <1>2, <1>7, DlqAssumption DEF Flush
  <2> QED
    BY <1>1, <1>7, <2>1, <2>2, <2>3 DEF Flush, TypeOK, loopVars, storeVars
<1>8. CASE Tick
  <2>1. persist_dlq' \in Seq(Entry) /\ redis_dlq' \in Seq(Entry)
    BY <1>2, <1>8, CloserShape DEF Tick
  <2>2. age' \in 0..MaxDelay
    BY <1>2, <1>8, DlqAssumption DEF Tick, Lesser
  <2> QED
    BY <1>1, <1>8, <2>1, <2>2 DEF Tick, TypeOK, redisVars, storeVars
<1>9. CASE UNCHANGED vars
  BY <1>9 DEF vars, TypeOK, queueVars, redisVars, loopVars, storeVars
<1> QED
  BY <1>3, <1>4, <1>5, <1>6, <1>7, <1>8, <1>9

LEMMA TypesAtStart == Init => TypeOK /\ CircuitInv
<1> SUFFICES ASSUME Init PROVE TypeOK /\ CircuitInv
  OBVIOUS
<1>1. CircuitInv
  BY DlqAssumption DEF Init, CircuitInv, CircuitTypes, Idle, OpenCircuitHasNoClient,
                       OpStates, Tasks
<1>2. /\ rows \in [Decisions -> 0..RowCap] /\ retries \in [Decisions -> 0..AttemptCap]
      /\ faults \in 0..MaxFaults /\ calls \in 0..MaxAdmin /\ age \in 0..MaxDelay
  BY DlqAssumption DEF Init, RowCap, AttemptCap
<1>3. <<>> \in Seq(Entry)
  OBVIOUS
<1> QED
  BY <1>1, <1>2, <1>3, DlqAssumption DEF Init, TypeOK, OpStates, CircuitInv, CircuitTypes

LEMMA TypesAreKept ==
    ASSUME TypeOK, CircuitInv, [Next]_vars
    PROVE  TypeOK' /\ CircuitInv'
<1>1. CASE \E t \in Tasks : RedisStep(t)
  BY <1>1, RedisTypes, RedisStepKeeps
<1>2. CASE ~\E t \in Tasks : RedisStep(t)
  <2>1. \/ \E d \in Decisions : PersistOk(d) \/ PersistFails(d)
        \/ PassStart \/ RetryOk \/ RetryFails
        \/ Requeue \/ Flush \/ Tick \/ UNCHANGED vars
    BY <1>2 DEF Next, Producer, LoopStep, Tasks
  <2> QED
    BY <2>1, OtherTypes, OtherStepsKeep
<1> QED
  BY <1>1, <1>2

\* However failures, replies of Redis, retries, administrator and clock interleave,
\* every variable keeps its type: the pass never looks at an entry it does not have,
\* and no counter leaves its range.
THEOREM DlqTypes == Spec => []TypeOK
<1>1. Init => TypeOK /\ CircuitInv
  BY TypesAtStart
<1>2. (TypeOK /\ CircuitInv) /\ [Next]_vars => (TypeOK /\ CircuitInv)'
  BY TypesAreKept
<1> QED
  BY <1>1, <1>2, PTL DEF Spec

-----------------------------------------------------------------------------
(* The queue in memory *)

\* Without Redis no task is ever in redis_op().
InMemory ==
    /\ ~client /\ \A t \in Tasks : op[t] = "none"
    /\ loop \in {"sleep", "scan"}
    /\ \A d \in Decisions : pc[d] \in {"new", "done"}

\* A time stamp tells the decision.
StampsDiffer ==
    /\ \A d \in Decisions : stamp[d] <= LastStamp
    /\ \A c, d \in Decisions : stamp[c] = stamp[d] /\ stamp[c] # 0 => c = d
    /\ \A d \in Decisions : pc[d] = "new" => stamp[d] = 0 /\ retries[d] = 0

\* An entry says of its decision what has happened to it.
Tracks(x) ==
    /\ pc[x.decision] = "done"
    /\ x.ts = stamp[x.decision] /\ x.ts > 0
    /\ x.attempts = retries[x.decision]

\* Entries are of one decision exactly if they are one object.
OneObjectEach ==
    /\ \A x \in Held : Tracks(x)
    /\ \A x, y \in Held : x.oid = y.oid <=> x.decision = y.decision

Once(queue, d) ==
    \A i, j \in DOMAIN queue : queue[i].decision = d /\ queue[j].decision = d => i = j

\* Only the administrator brings a second entry of a decision into the queue.
QueuedOnce ==
    \A d \in Decisions : d \notin doubled => Once(persist_dlq, d) /\ Once(work, d)

Waits(d) == Holds(persist_dlq, d) \/ Holds(work, d)

\* What is still to be written has no row yet, but for commits whose answer was lost,
\* and has retries left.
OpenIsUnwritten ==
    \A d \in Decisions : d \notin doubled =>
        /\ rows[d] <= 1 + unsure[d] /\ retries[d] <= MaxRetries
        /\ pc[d] = "new" \/ Waits(d) => rows[d] <= unsure[d]
        /\ Waits(d) => retries[d] < MaxRetries

\* The queue in memory alone keeps what the pass works on.
QueueKeeps ==
    \A d \in Decisions :
        pc[d] = "done" => \/ rows[d] > 0
                          \/ Holds(persist_dlq, d)
                          \/ d \in flushed
                          \/ retries[d] >= MaxRetries

\* NothingForgotten and RetriesDoNotMultiply speak of counters; they hold because the
\* entries in the queue and in the copy of the pass agree with the counters.
MemoryInv ==
    /\ TypeOK /\ CircuitInv
    /\ InMemory /\ StampsDiffer /\ OneObjectEach /\ QueuedOnce /\ OpenIsUnwritten
    /\ QueueKeeps

\* What r and s, two forms of the queue, have in common when every entry of r comes
\* from a place of its own in s.
Part(r, s) ==
    \E f \in [DOMAIN r -> DOMAIN s] :
        /\ \A i, j \in DOMAIN r : f[i] = f[j] => i = j
        /\ \A i \in DOMAIN r : r[i] = s[f[i]]

\* The same decisions at the same places.
Alike(r, s) == DOMAIN r = DOMAIN s /\ \A i \in DOMAIN s : r[i].decision = s[i].decision

LEMMA PartHas ==
    ASSUME NEW r, NEW s, Part(r, s)
    PROVE  /\ ToSet(r) \subseteq ToSet(s)
           /\ \A d : (Once(s, d) => Once(r, d)) /\ (Holds(r, d) => Holds(s, d))
<1>1. PICK f \in [DOMAIN r -> DOMAIN s] :
        /\ \A i, j \in DOMAIN r : f[i] = f[j] => i = j
        /\ \A i \in DOMAIN r : r[i] = s[f[i]]
  BY DEF Part
<1>2. \A i \in DOMAIN r : f[i] \in DOMAIN s
  BY <1>1
<1>3. ToSet(r) \subseteq ToSet(s)
  BY <1>1, <1>2 DEF ToSet
<1>4. \A d : Once(s, d) => Once(r, d)
  BY <1>1, <1>2 DEF Once
<1>5. \A d : Holds(r, d) => Holds(s, d)
  BY <1>1, <1>2 DEF Holds
<1> QED
  BY <1>3, <1>4, <1>5

LEMMA AlikeHas ==
    ASSUME NEW r, NEW s, Alike(r, s)
    PROVE  \A d : (Once(s, d) <=> Once(r, d)) /\ (Holds(r, d) <=> Holds(s, d))
BY DEF Alike, Once, Holds

LEMMA SuffixIsPart ==
    ASSUME NEW r \in Seq(Entry), NEW s \in Seq(Entry), Suffix(r, s)
    PROVE  Part(r, s)
<1>1. PICK k \in Nat : \A i \in DOMAIN r : i + k \in DOMAIN s /\ r[i] = s[i + k]
  BY DEF Suffix
<1>2. DOMAIN r \subseteq Nat
  BY LenProperties
<1> DEFINE f == [i \in DOMAIN r |-> i + k]
<1>3. f \in [DOMAIN r -> DOMAIN s] /\ \A i \in DOMAIN r : r[i] = s[f[i]]
  BY <1>1
<1>4. \A i, j \in DOMAIN r : f[i] = f[j] => i = j
  BY <1>1, <1>2
<1> QED
  BY <1>3, <1>4 DEF Part

LEMMA WithoutIsPart ==
    ASSUME NEW r, NEW s \in Seq(Entry), NEW n, Without(r, s, n)
    PROVE  /\ Part(r, s)
           /\ Once(s, s[n].decision) => ~Holds(r, s[n].decision)
<1>1. /\ Len(s) \in Nat /\ DOMAIN s = 1..Len(s) /\ n \in 1..Len(s)
      /\ r \in Seq(Entry) /\ Len(r) = Len(s) - 1
      /\ \A k \in DOMAIN r : r[k] = s[IF k < n THEN k ELSE k + 1]
  BY LenProperties DEF Without
<1>2. DOMAIN r = 1..(Len(s) - 1)
  BY <1>1, LenProperties
<1> DEFINE f == [k \in DOMAIN r |-> IF k < n THEN k ELSE k + 1]
<1>3. /\ \A k \in DOMAIN r : f[k] \in DOMAIN s /\ f[k] # n /\ r[k] = s[f[k]]
      /\ \A i, j \in DOMAIN r : f[i] = f[j] => i = j
      /\ f = [k \in DOMAIN r |-> f[k]]
  BY <1>1, <1>2
<1> HIDE DEF f
<1>4. f \in [DOMAIN r -> DOMAIN s]
  BY <1>3
<1>5. Part(r, s)
  BY <1>3, <1>4 DEF Part
<1>6. Once(s, s[n].decision) => ~Holds(r, s[n].decision)
  BY <1>1, <1>3 DEF Once, Holds
<1> QED
  BY <1>5, <1>6

LEMMA ItselfIsPart == ASSUME NEW s PROVE Part(s, s)
<1> DEFINE f == [i \in DOMAIN s |-> i]
<1>1. f \in [DOMAIN s -> DOMAIN s] /\ \A i \in DOMAIN s : f[i] = i
  OBVIOUS
<1> QED
  BY <1>1 DEF Part

\* What a pass goes on with is part of what it has in front of it.
LEMMA PassTakesPart ==
    ASSUME NEW s \in Seq(Entry)
    PROVE  /\ Part(FromDue(s), s)
           /\ s # <<>> => /\ Part(Tail(s), s)
                          /\ Once(s, Head(s).decision) => ~Holds(Tail(s), Head(s).decision)
<1>1. Part(FromDue(s), s)
  BY FromDueShape, SuffixIsPart
<1>2. ASSUME s # <<>>
      PROVE  /\ Part(Tail(s), s)
             /\ Once(s, Head(s).decision) => ~Holds(Tail(s), Head(s).decision)
  <2>1. /\ Len(s) \in Nat \ {0} /\ DOMAIN s = 1..Len(s)
        /\ Head(s) = s[1] /\ Tail(s) \in Seq(Entry)
    BY <1>2, SequencesOfEntries, LenProperties, EmptySeq
  <2>2. /\ Len(Tail(s)) = Len(s) - 1
        /\ \A i \in 1..(Len(s) - 1) : Tail(s)[i] = s[i + 1]
    BY <1>2, <2>1, HeadTailProperties
  <2>3. DOMAIN Tail(s) = 1..(Len(s) - 1)
    BY <2>1, <2>2, LenProperties
  <2>4. Without(Tail(s), s, 1)
    BY <2>1, <2>2, <2>3 DEF Without
  <2> QED
    BY <2>1, <2>4, WithoutIsPart
<1> QED
  BY <1>1, <1>2

LEMMA AppendHas ==
    ASSUME NEW s \in Seq(Entry), NEW e \in Entry
    PROVE  /\ ToSet(Append(s, e)) = ToSet(s) \cup {e}
           /\ \A d : Holds(Append(s, e), d) <=> Holds(s, d) \/ e.decision = d
           /\ \A d : Once(s, d) /\ ~(Holds(s, d) /\ e.decision = d) => Once(Append(s, e), d)
<1> DEFINE r == Append(s, e)
<1>1. /\ Len(s) \in Nat /\ DOMAIN s = 1..Len(s)
      /\ r \in Seq(Entry) /\ Len(r) = Len(s) + 1
      /\ \A i \in 1..Len(s) : r[i] = s[i]
      /\ r[Len(s) + 1] = e
  BY AppendProperties, LenProperties
<1> HIDE DEF r
<1>2. DOMAIN r = DOMAIN s \cup {Len(s) + 1} /\ Len(s) + 1 \notin DOMAIN s
  BY <1>1, LenProperties
<1>3. ToSet(r) = ToSet(s) \cup {e}
  BY <1>1, <1>2 DEF ToSet
<1>4. \A d : Holds(r, d) <=> Holds(s, d) \/ e.decision = d
  BY <1>1, <1>2 DEF Holds
<1>5. \A d : Once(s, d) /\ ~(Holds(s, d) /\ e.decision = d) => Once(r, d)
  BY <1>1, <1>2 DEF Once, Holds
<1> QED
  BY <1>3, <1>4, <1>5 DEF r

LEMMA DoubledHas ==
    ASSUME NEW s \in Seq(Entry)
    PROVE  /\ ToSet(s \o s) = ToSet(s)
           /\ \A d : Holds(s \o s, d) <=> Holds(s, d)
<1> DEFINE r == s \o s
<1>1. /\ Len(s) \in Nat /\ DOMAIN s = 1..Len(s)
      /\ r \in Seq(Entry) /\ Len(r) = Len(s) + Len(s)
      /\ \A i \in 1..(Len(s) + Len(s)) : r[i] = IF i <= Len(s) THEN s[i] ELSE s[i - Len(s)]
  BY ConcatProperties, LenProperties
<1> HIDE DEF r
<1>2. DOMAIN r = 1..(Len(s) + Len(s))
  BY <1>1, LenProperties
<1>3. \A i \in DOMAIN r : \E j \in DOMAIN s : r[i] = s[j]
  <2> SUFFICES ASSUME NEW i \in DOMAIN r PROVE \E j \in DOMAIN s : r[i] = s[j]
    OBVIOUS
  <2>1. CASE i <= Len(s)
    BY <1>1, <1>2, <2>1
  <2>2. CASE ~(i <= Len(s))
    <3>1. i - Len(s) \in DOMAIN s
      BY <1>1, <1>2, <2>2
    <3> QED
      BY <1>1, <1>2, <2>2, <3>1
  <2> QED
    BY <2>1, <2>2
<1>4. \A j \in DOMAIN s : j \in DOMAIN r /\ r[j] = s[j]
  BY <1>1, <1>2
<1> QED
  BY <1>3, <1>4 DEF ToSet, Holds, r

LEMMA WithoutLeaves ==
    ASSUME NEW r, NEW s \in Seq(Entry), NEW n, Without(r, s, n), NEW d,
           d # s[n].decision, Holds(s, d)
    PROVE  Holds(r, d)
<1>1. /\ Len(s) \in Nat /\ DOMAIN s = 1..Len(s) /\ n \in 1..Len(s)
      /\ r \in Seq(Entry) /\ Len(r) = Len(s) - 1
      /\ \A k \in DOMAIN r : r[k] = s[IF k < n THEN k ELSE k + 1]
  BY LenProperties DEF Without
<1>2. DOMAIN r = 1..(Len(s) - 1)
  BY <1>1, LenProperties
<1>3. PICK j \in 1..Len(s) : s[j].decision = d
  BY <1>1 DEF Holds
<1>4. j # n
  BY <1>3
<1>5. CASE j < n
  <2>1. j \in DOMAIN r /\ r[j] = s[j]
    BY <1>1, <1>2, <1>3, <1>5
  <2> QED
    BY <1>3, <2>1 DEF Holds
<1>6. CASE ~(j < n)
  <2>1. j - 1 \in DOMAIN r /\ ~(j - 1 < n) /\ (j - 1) + 1 = j
    BY <1>1, <1>2, <1>3, <1>4, <1>6
  <2>2. r[j - 1] = s[j]
    BY <1>1, <2>1
  <2> QED
    BY <1>3, <2>1, <2>2 DEF Holds
<1> QED
  BY <1>5, <1>6

\* remove(e) takes an entry of e's decision, and no other.
LEMMA RemovedHas ==
    ASSUME NEW s \in Seq(Entry), NEW e \in Entry,
           \A i \in DOMAIN s : s[i].oid = e.oid <=> s[i].decision = e.decision
    PROVE  /\ Part(Removed(s, e), s)
           /\ \A d : d # e.decision /\ Holds(s, d) => Holds(Removed(s, e), d)
           /\ Once(s, e.decision) => ~Holds(Removed(s, e), e.decision)
<1>1. \A i \in DOMAIN s : s[i] \in Entry
  BY ElementOfSeq, LenProperties
<1>2. \A x \in Entry : Json(x) = Json(e) => x.decision = e.decision
  <2> SUFFICES ASSUME NEW x \in Entry, Json(x) = Json(e) PROVE x.decision = e.decision
    OBVIOUS
  <2>1. Json(x).decision = x.decision /\ Json(e).decision = e.decision
    BY DEF Json, Entry
  <2> QED
    BY <2>1
<1>3. \A i \in DOMAIN s : Matches(s[i], e) <=> s[i].decision = e.decision
  BY <1>1, <1>2 DEF Matches
<1>4. CASE Removed(s, e) = s /\ \A i \in DOMAIN s : ~Matches(s[i], e)
  <2>1. ~Holds(s, e.decision)
    BY <1>3, <1>4 DEF Holds
  <2> QED
    BY <1>4, <2>1, ItselfIsPart
<1>5. CASE \E i \in DOMAIN s : Matches(s[i], e) /\ Without(Removed(s, e), s, i)
  <2>1. PICK n \in DOMAIN s : Matches(s[n], e) /\ Without(Removed(s, e), s, n)
    BY <1>5
  <2>2. s[n].decision = e.decision
    BY <1>3, <2>1
  <2>3. /\ Part(Removed(s, e), s)
        /\ Once(s, s[n].decision) => ~Holds(Removed(s, e), s[n].decision)
    BY <2>1, WithoutIsPart
  <2>4. \A d : d # s[n].decision /\ Holds(s, d) => Holds(Removed(s, e), d)
    BY <2>1, WithoutLeaves
  <2> QED
    BY <2>2, <2>3, <2>4
<1> QED
  BY <1>4, <1>5, RemovedShape

\* The entries of a queue and of the pass are held.
LEMMA HeldOnes ==
    ASSUME TypeOK
    PROVE  /\ Held \subseteq Entry
           /\ \A i \in DOMAIN persist_dlq : persist_dlq[i] \in Held
           /\ \A i \in DOMAIN work : work[i] \in Held
           /\ \A d : Waits(d) <=> \E x \in Held : x.decision = d
<1>1. persist_dlq \in Seq(Entry) /\ work \in Seq(Entry)
  BY DEF TypeOK
<1>2. Held \subseteq Entry
  BY <1>1, ToSetIsFinite DEF Held
<1> QED
  BY <1>2 DEF Held, ToSet, Waits, Holds

\* Without Redis, nothing of redis_op() happens.
LEMMA NothingOfRedis ==
    ASSUME MemoryInv, [Next]_vars
    PROVE  \/ \E d \in Decisions : PersistOk(d) \/ PersistFails(d)
           \/ PassStart \/ RetryOk \/ RetryFails
           \/ Requeue \/ Flush \/ Tick \/ UNCHANGED vars
<1>1. \A t \in Tasks : op[t] = "none"
  BY DEF MemoryInv, InMemory
<1>2. \A t \in Tasks : ~RedisStep(t)
  BY <1>1 DEF RedisStep, RedisOk, RedisAttemptFails, RedisRefused, EnsureSkips, Connect, PingOk,
     PingFails
<1> QED
  BY <1>2 DEF Next, Producer, LoopStep, Tasks

LEMMA StampsStay ==
    ASSUME StampsDiffer, stamp' = stamp,
           \A d \in Decisions : pc'[d] = "new" => pc[d] = "new" /\ retries'[d] = retries[d]
    PROVE  StampsDiffer'
<1>1. LastStamp' = LastStamp
  BY DEF LastStamp
<1> QED
  BY <1>1 DEF StampsDiffer

\* What holds of the entries holds of a part of them.
LEMMA FewerEntries ==
    ASSUME MemoryInv, Part(persist_dlq', persist_dlq),
           Part(work', work) \/ Part(work', persist_dlq),
           UNCHANGED <<stamp, retries, doubled>>,
           \A d \in Decisions : pc[d] = "done" => pc'[d] = "done"
    PROVE  /\ OneObjectEach' /\ QueuedOnce'
           /\ \A d : Holds(persist_dlq', d) \/ Holds(work', d) => Waits(d)
<1>1. /\ ToSet(persist_dlq') \subseteq ToSet(persist_dlq)
      /\ \A d : Once(persist_dlq, d) => Once(persist_dlq', d)
      /\ \A d : Holds(persist_dlq', d) => Holds(persist_dlq, d)
  BY PartHas
<1>2. /\ ToSet(work') \subseteq Held
      /\ \A d : Once(persist_dlq, d) /\ Once(work, d) => Once(work', d)
      /\ \A d : Holds(work', d) => Waits(d)
  BY PartHas DEF Held, Waits
<1>3. Held' \subseteq Held
  BY <1>1, <1>2 DEF Held
<1>4. \A x \in Held : x.decision \in Decisions /\ (Tracks(x) => Tracks(x)')
  BY HeldOnes DEF MemoryInv, Entry, Tracks
<1>5. OneObjectEach'
  BY <1>3, <1>4 DEF OneObjectEach, MemoryInv
<1>6. QueuedOnce'
  BY <1>1, <1>2 DEF QueuedOnce, MemoryInv
<1> QED
  BY <1>1, <1>2, <1>5, <1>6 DEF Waits

\* The rest of the invariant, which speaks of the counters.
CountersInv == OpenIsUnwritten /\ QueueKeeps

LEMMA WrittenAtOnce ==
    ASSUME MemoryInv, NEW d \in Decisions, PersistOk(d)
    PROVE  InMemory' /\ StampsDiffer' /\ OneObjectEach' /\ QueuedOnce' /\ CountersInv'
<1> USE DEF MemoryInv
<1>1. /\ pc[d] = "new" /\ pc' = [pc EXCEPT ![d] = "done"]
      /\ rows' = [rows EXCEPT ![d] = Lesser(@ + 1, RowCap)]
      /\ UNCHANGED <<stamp, persist_dlq, work, loop, client, op, unsure, retries, flushed,
                     doubled>>
  BY DEF PersistOk, queueVars, redisVars, loopVars
<1>2. /\ pc \in [Decisions -> {"new", "push", "llen", "done"}]
      /\ rows \in [Decisions -> 0..RowCap] /\ unsure \in [Decisions -> Nat] /\ RowCap \in Nat \ {0}
  BY DlqAssumption DEF TypeOK, RowCap
<1>3. InMemory'
  BY <1>1, <1>2 DEF InMemory
<1>4. StampsDiffer'
  BY <1>1, <1>2, StampsStay
<1>5. /\ OneObjectEach' /\ QueuedOnce'
      /\ \A c : Holds(persist_dlq', c) \/ Holds(work', c) => Waits(c)
  <2>1. Part(persist_dlq', persist_dlq) /\ Part(work', work)
    BY <1>1, ItselfIsPart
  <2>2. \A c \in Decisions : pc[c] = "done" => pc'[c] = "done"
    BY <1>1, <1>2
  <2> QED
    BY <1>1, <2>1, <2>2, FewerEntries
<1>6. ~Waits(d)
  <2>1. ~\E x \in Held : x.decision = d
    BY <1>1 DEF OneObjectEach, Tracks
  <2> QED
    BY <2>1, HeldOnes
<1>7. /\ rows'[d] = Lesser(rows[d] + 1, RowCap) /\ rows'[d] > 0 /\ rows'[d] <= rows[d] + 1
      /\ \A c \in Decisions : c # d => rows'[c] = rows[c] /\ pc'[c] = pc[c]
      /\ pc'[d] = "done"
  BY <1>1, <1>2 DEF Lesser
<1>8. OpenIsUnwritten'
  <2> SUFFICES ASSUME NEW c \in Decisions, c \notin doubled
               PROVE  /\ rows'[c] <= 1 + unsure[c] /\ retries[c] <= MaxRetries
                      /\ pc'[c] = "new" \/ Waits(c)' => rows'[c] <= unsure[c]
                      /\ Waits(c)' => retries[c] < MaxRetries
    BY <1>1 DEF OpenIsUnwritten
  <2>1. Waits(c)' => Waits(c)
    BY <1>5 DEF Waits
  <2>2. CASE c = d
    <3>1. rows[d] <= unsure[d] /\ retries[d] <= MaxRetries
      BY <1>1, <2>2 DEF OpenIsUnwritten
    <3>2. rows[d] \in Nat /\ unsure[d] \in Nat /\ rows'[d] \in Nat
      BY <1>1, <1>2, <1>7 DEF Lesser
    <3>3. rows'[d] <= 1 + unsure[d]
      BY <1>7, <3>1, <3>2
    <3> QED
      BY <1>6, <1>7, <2>1, <2>2, <3>1, <3>3
  <2>3. CASE c # d
    BY <1>7, <2>1, <2>3 DEF OpenIsUnwritten
  <2> QED
    BY <2>2, <2>3
<1>9. QueueKeeps'
  BY <1>1, <1>7 DEF QueueKeeps
<1> QED
  BY <1>3, <1>4, <1>5, <1>8, <1>9 DEF CountersInv

\* What a failed insert makes of the counters.
LEMMA InsertRaisesCounts ==
    ASSUME TypeOK, NEW d \in Decisions, InsertRaises(d)
    PROVE  /\ \A c \in Decisions : c # d => rows'[c] = rows[c] /\ unsure'[c] = unsure[c]
           /\ rows'[d] >= rows[d]
           /\ rows[d] <= unsure[d] => rows'[d] <= unsure'[d]
           /\ rows[d] <= 1 + unsure[d] => rows'[d] <= 1 + unsure'[d]
<1>1. /\ rows \in [Decisions -> 0..RowCap] /\ unsure \in [Decisions -> Nat] /\ RowCap \in Nat
  BY DlqAssumption DEF TypeOK, RowCap
<1>2. CASE UNCHANGED <<rows, unsure, faults>>
  BY <1>1, <1>2
<1>3. CASE /\ rows' = [rows EXCEPT ![d] = Lesser(@ + 1, RowCap)]
           /\ unsure' = [unsure EXCEPT ![d] = @ + 1]
  <2>1. /\ rows'[d] = Lesser(rows[d] + 1, RowCap) /\ unsure'[d] = unsure[d] + 1
        /\ rows[d] \in 0..RowCap /\ unsure[d] \in Nat
        /\ \A c \in Decisions : c # d => rows'[c] = rows[c] /\ unsure'[c] = unsure[c]
    BY <1>1, <1>3
  <2> QED
    BY <1>1, <2>1 DEF Lesser
<1> QED
  BY <1>2, <1>3 DEF InsertRaises

\* A new stamp is greater than all others.
LEMMA StampIsNew ==
    ASSUME TypeOK, StampsDiffer, NEW d \in Decisions, stamp[d] = 0,
           stamp' = [stamp EXCEPT ![d] = LastStamp + 1],
           \A c \in Decisions : pc'[c] = "new" => c # d /\ pc[c] = "new" /\ retries'[c] = retries[c]
    PROVE  StampsDiffer' /\ stamp'[d] = LastStamp + 1 /\ stamp'[d] \in Nat \ {0}
<1> DEFINE S == {stamp[c] : c \in Decisions} \ {0}
<1> DEFINE last == LastStamp
<1>1. stamp \in [Decisions -> Nat]
  BY DEF TypeOK
<1>2. last \in Nat /\ IsFiniteSet(S) /\ last = Cardinality(S)
  BY <1>1, StampTypes DEF LastStamp
<1>3. /\ \A c \in Decisions : stamp[c] <= last
      /\ stamp' = [stamp EXCEPT ![d] = last + 1]
  BY DEF StampsDiffer
<1> HIDE DEF last
<1>4. /\ stamp'[d] = last + 1
      /\ \A c \in Decisions : c # d => stamp'[c] = stamp[c]
      /\ \A c \in Decisions : stamp'[c] <= last + 1
  BY <1>1, <1>2, <1>3
<1>5. LastStamp' = last + 1
  <2>1. {stamp'[c] : c \in Decisions} \ {0} = S \cup {last + 1}
    <3>1. \A n : n \in {stamp'[c] : c \in Decisions} \ {0} <=> n \in S \cup {last + 1}
      <4> SUFFICES ASSUME NEW n
                   PROVE  n \in {stamp'[c] : c \in Decisions} \ {0} <=> n \in S \cup {last + 1}
        OBVIOUS
      <4>1. CASE n = last + 1
        <5>1. n = stamp'[d] /\ n # 0
          BY <1>2, <1>4, <4>1
        <5>2. n \in {stamp'[c] : c \in Decisions}
          BY <5>1
        <5> QED
          BY <4>1, <5>1, <5>2
      <4>2. CASE n # last + 1
        BY <1>2, <1>4, <4>2
      <4> QED
        BY <4>1, <4>2
    <3> QED
      BY <3>1
  <2>2. last + 1 \notin S
    BY <1>1, <1>2, <1>3
  <2>3. LastStamp' = Cardinality({stamp'[c] : c \in Decisions} \ {0})
    BY DEF LastStamp
  <2>4. Cardinality(S \cup {last + 1}) = Cardinality(S) + 1
    <3> HIDE DEF S
    <3>1. \A x : x \notin S => Cardinality(S \cup {x}) = Cardinality(S) + 1
      BY <1>2, FS_AddElement
    <3> QED
      BY <2>2, <3>1
  <2> QED
    BY <1>2, <2>1, <2>3, <2>4
<1>6. \A b, c \in Decisions : stamp'[b] = stamp'[c] /\ stamp'[b] # 0 => b = c
  <2> SUFFICES ASSUME NEW b \in Decisions, NEW c \in Decisions, stamp'[b] = stamp'[c],
                      stamp'[b] # 0, b # c
               PROVE  FALSE
    OBVIOUS
  <2>1. CASE b # d /\ c # d
    BY <1>4, <2>1 DEF StampsDiffer
  <2>2. CASE b = d \/ c = d
    BY <1>1, <1>2, <1>3, <1>4, <2>2
  <2> QED
    BY <2>1, <2>2
<1>7. \A c \in Decisions : pc'[c] = "new" => stamp'[c] = 0 /\ retries'[c] = 0
  BY <1>4 DEF StampsDiffer
<1> QED
  BY <1>2, <1>4, <1>5, <1>6, <1>7 DEF StampsDiffer, last

LEMMA FailureIsQueued ==
    ASSUME MemoryInv, TypeOK', ~SameMillisecond, NEW d \in Decisions, PersistFails(d)
    PROVE  InMemory' /\ StampsDiffer' /\ OneObjectEach' /\ QueuedOnce' /\ CountersInv'
<1> USE DEF MemoryInv
<1>1. /\ pc[d] = "new" /\ pc' = [pc EXCEPT ![d] = "done"]
      /\ persist_dlq' = Append(persist_dlq, Object([NewEntry(d) EXCEPT !.ts = stamp'[d]]))
      /\ stamp' = [stamp EXCEPT ![d] = LastStamp + 1]
      /\ InsertRaises(d)
      /\ UNCHANGED <<work, loop, client, op, retries, flushed, doubled>>
  BY DEF PersistFails, loopVars, InMemory
<1>2. /\ pc \in [Decisions -> {"new", "push", "llen", "done"}] /\ stamp \in [Decisions -> Nat]
      /\ rows \in [Decisions -> 0..RowCap] /\ unsure \in [Decisions -> Nat] /\ RowCap \in Nat \ {0}
      /\ persist_dlq \in Seq(Entry) /\ work \in Seq(Entry)
      /\ stamp[d] = 0 /\ retries[d] = 0
  BY <1>1, DlqAssumption DEF TypeOK, RowCap, StampsDiffer
<1>3. /\ \A c \in Decisions : c # d => pc'[c] = pc[c]
      /\ pc'[d] = "done"
  BY <1>1, <1>2
<1>4. StampsDiffer' /\ stamp'[d] \in Nat \ {0}
  <2>1. \A c \in Decisions : pc'[c] = "new" => c # d /\ pc[c] = "new" /\ retries'[c] = retries[c]
    BY <1>1, <1>3
  <2> QED
    BY <1>1, <1>2, <2>1, StampIsNew
<1>5. \A c \in Decisions : c # d => stamp'[c] = stamp[c]
  BY <1>1, <1>2
<1>6. PICK e \in Entry :
        /\ persist_dlq' = Append(persist_dlq, e)
        /\ e.decision = d /\ e.ts = stamp'[d] /\ e.attempts = 0
        /\ \A x \in Held : x.oid # e.oid
  <2> DEFINE x == NewEntry(d)
  <2> DEFINE new == [x EXCEPT !.ts = stamp'[d]]
  <2>1. x \in Entry /\ x.decision = d /\ x.attempts = 0
    BY <1>2, NewEntryTypes DEF NewEntry
  <2>2. persist_dlq' = Append(persist_dlq, Object(new))
    BY <1>1
  <2> HIDE DEF x
  <2>3. new \in Entry /\ new.decision = d /\ new.ts = stamp'[d] /\ new.attempts = 0
    BY <1>4, <2>1 DEF Entry
  <2> HIDE DEF new
  <2>4. /\ Object(new) \in Entry
        /\ Object(new).decision = d /\ Object(new).ts = stamp'[d] /\ Object(new).attempts = 0
        /\ \A y \in Held : y.oid # Object(new).oid
    BY <1>2, <2>3, ObjectShape
  <2> QED
    BY <2>2, <2>4
<1>7. InMemory'
  BY <1>1, <1>3 DEF InMemory
<1>8. \A x \in Held : x.decision # d /\ x.decision \in Decisions
  BY <1>1, HeldOnes DEF OneObjectEach, Tracks, Entry
<1>9. ~Waits(d)
  BY <1>8, HeldOnes
<1>10. /\ ToSet(persist_dlq') = ToSet(persist_dlq) \cup {e}
       /\ \A c : Holds(persist_dlq', c) <=> Holds(persist_dlq, c) \/ c = d
       /\ \A c : Once(persist_dlq, c) /\ ~(Holds(persist_dlq, c) /\ c = d)
                    => Once(persist_dlq', c)
  BY <1>2, <1>6, AppendHas
<1>11. OneObjectEach'
  <2>1. Held' = Held \cup {e}
    BY <1>1, <1>10 DEF Held
  <2>2. \A x \in Held : Tracks(x)'
    BY <1>1, <1>3, <1>5, <1>8 DEF OneObjectEach, Tracks
  <2>3. Tracks(e)'
    BY <1>1, <1>2, <1>3, <1>4, <1>6 DEF Tracks
  <2>4. \A x, y \in Held \cup {e} : x.oid = y.oid <=> x.decision = y.decision
    BY <1>6, <1>8 DEF OneObjectEach
  <2> QED
    BY <2>1, <2>2, <2>3, <2>4 DEF OneObjectEach
<1>12. QueuedOnce'
  BY <1>1, <1>9, <1>10 DEF QueuedOnce, Waits
<1>13. /\ \A c \in Decisions : c # d => rows'[c] = rows[c] /\ unsure'[c] = unsure[c]
       /\ rows[d] <= unsure[d] => rows'[d] <= unsure'[d]
       /\ rows'[d] \in Nat /\ unsure'[d] \in Nat
  <2>1. rows'[d] \in Nat /\ unsure'[d] \in Nat
    BY <1>2 DEF TypeOK, RowCap
  <2> QED
    BY <1>1, <2>1, InsertRaisesCounts
<1>14. OpenIsUnwritten'
  <2> SUFFICES ASSUME NEW c \in Decisions, c \notin doubled
               PROVE  /\ rows'[c] <= 1 + unsure'[c] /\ retries[c] <= MaxRetries
                      /\ pc'[c] = "new" \/ Waits(c)' => rows'[c] <= unsure'[c]
                      /\ Waits(c)' => retries[c] < MaxRetries
    BY <1>1 DEF OpenIsUnwritten
  <2>1. CASE c = d
    <3>1. rows'[d] <= unsure'[d]
      BY <1>1, <1>13, <2>1 DEF OpenIsUnwritten
    <3>2. rows'[d] <= 1 + unsure'[d]
      BY <1>13, <3>1
    <3> QED
      BY <1>2, <2>1, <3>1, <3>2, DlqAssumption
  <2>2. CASE c # d
    <3>1. Waits(c)' => Waits(c)
      BY <1>1, <1>10, <2>2 DEF Waits
    <3> QED
      BY <1>3, <1>13, <2>2, <3>1 DEF OpenIsUnwritten
  <2> QED
    BY <2>1, <2>2
<1>15. QueueKeeps'
  <2> SUFFICES ASSUME NEW c \in Decisions, pc'[c] = "done"
               PROVE  \/ rows'[c] > 0 \/ Holds(persist_dlq', c)
                      \/ c \in flushed \/ retries[c] >= MaxRetries
    BY <1>1 DEF QueueKeeps
  <2>1. CASE c = d
    BY <1>10, <2>1
  <2>2. CASE c # d
    BY <1>3, <1>10, <1>13, <2>2 DEF QueueKeeps
  <2> QED
    BY <2>1, <2>2
<1> QED
  BY <1>4, <1>7, <1>11, <1>12, <1>14, <1>15 DEF CountersInv

LEMMA PassIsCopied ==
    ASSUME MemoryInv, PassStart \/ UNCHANGED vars
    PROVE  InMemory' /\ StampsDiffer' /\ OneObjectEach' /\ QueuedOnce' /\ CountersInv'
<1> USE DEF MemoryInv
<1>1. /\ UNCHANGED <<pc, stamp, persist_dlq, client, op, rows, unsure, retries, flushed, doubled>>
      /\ loop' \in {"sleep", "scan"}
      /\ work' = FromDue(persist_dlq) \/ work' = work
  BY DEF PassStart, InMemory, queueVars, storeVars, Scan, vars, redisVars, loopVars
<1>2. InMemory'
  BY <1>1 DEF InMemory
<1>3. StampsDiffer'
  BY <1>1, StampsStay
<1>4. /\ OneObjectEach' /\ QueuedOnce'
      /\ \A c : Holds(persist_dlq', c) \/ Holds(work', c) => Waits(c)
  <2>1. Part(persist_dlq', persist_dlq)
    BY <1>1, ItselfIsPart
  <2>2. Part(work', work) \/ Part(work', persist_dlq)
    BY <1>1, ItselfIsPart, PassTakesPart DEF TypeOK
  <2> QED
    BY <1>1, <2>1, <2>2, FewerEntries
<1>5. \A c : Waits(c)' => Waits(c)
  BY <1>4 DEF Waits
<1>6. OpenIsUnwritten'
  BY <1>1, <1>5 DEF OpenIsUnwritten
<1>7. QueueKeeps'
  BY <1>1 DEF QueueKeeps
<1> QED
  BY <1>2, <1>3, <1>4, <1>6, <1>7 DEF CountersInv

\* What the pass has in front of it is an entry with an object of its own.
LEMMA HeadOfPass ==
    ASSUME MemoryInv, work # <<>>
    PROVE  /\ Head(work) \in Entry /\ Head(work) \in Held /\ Waits(Head(work).decision)
           /\ Head(work).decision \in Decisions /\ Tracks(Head(work))
           /\ \A i \in DOMAIN persist_dlq :
                 persist_dlq[i].oid = Head(work).oid <=>
                 persist_dlq[i].decision = Head(work).decision
           /\ \A i \in DOMAIN work :
                 work[i].oid = Head(work).oid <=> work[i].decision = Head(work).decision
<1> USE DEF MemoryInv
<1>1. work \in Seq(Entry)
  BY DEF TypeOK
<1>2. Head(work) = work[1] /\ 1 \in DOMAIN work
  BY <1>1, SequencesOfEntries, LenProperties, EmptySeq
<1>3. Head(work) \in Held /\ Head(work) \in Entry
  BY <1>2, HeldOnes
<1>4. Waits(Head(work).decision) /\ Head(work).decision \in Decisions
  BY <1>3, HeldOnes DEF Entry
<1> QED
  BY <1>3, <1>4, HeldOnes DEF OneObjectEach

LEMMA RetryIsWritten ==
    ASSUME MemoryInv, RetryOk
    PROVE  InMemory' /\ StampsDiffer' /\ OneObjectEach' /\ QueuedOnce' /\ CountersInv'
<1> USE DEF MemoryInv
<1>0. PICK e, d : e = Head(work) /\ d = e.decision
  OBVIOUS
<1>1. /\ loop = "scan" /\ work # <<>>
      /\ rows' = [rows EXCEPT ![d] = Lesser(@ + 1, RowCap)]
      /\ persist_dlq' = Removed(persist_dlq, e)
      /\ work' = FromDue(Tail(work))
      /\ loop' \in {"sleep", "scan"}
      /\ UNCHANGED <<pc, stamp, client, op, unsure, retries, flushed, doubled>>
  BY <1>0 DEF RetryOk, InMemory, Scan, redisVars, TypeOK
<1>2. /\ rows \in [Decisions -> 0..RowCap] /\ unsure \in [Decisions -> Nat] /\ RowCap \in Nat \ {0}
      /\ persist_dlq \in Seq(Entry) /\ work \in Seq(Entry)
  BY DlqAssumption DEF TypeOK, RowCap
<1>3. /\ e \in Entry /\ d \in Decisions /\ Waits(d)
      /\ \A i \in DOMAIN persist_dlq :
            persist_dlq[i].oid = e.oid <=> persist_dlq[i].decision = d
  BY <1>0, <1>1, HeadOfPass
<1>4. Tail(work) \in Seq(Entry)
  BY <1>1, <1>2, SequencesOfEntries
<1>5. /\ Part(Tail(work), work)
      /\ Once(work, d) => ~Holds(Tail(work), d)
      /\ Part(work', Tail(work))
  BY <1>0, <1>1, <1>2, <1>4, PassTakesPart
<1>6. Part(work', work)
  <2> DEFINE t == Tail(work)
  <2>1. Part(t, work) /\ Part(work', t)
    BY <1>5
  <2> HIDE DEF t
  <2>2. PICK f \in [DOMAIN t -> DOMAIN work] :
          /\ \A i, j \in DOMAIN t : f[i] = f[j] => i = j
          /\ \A i \in DOMAIN t : t[i] = work[f[i]]
    BY <2>1 DEF Part
  <2>3. PICK g \in [DOMAIN work' -> DOMAIN t] :
          /\ \A i, j \in DOMAIN work' : g[i] = g[j] => i = j
          /\ \A i \in DOMAIN work' : work'[i] = t[g[i]]
    BY <2>1 DEF Part
  <2> DEFINE h == [i \in DOMAIN work' |-> f[g[i]]]
  <2>4. h \in [DOMAIN work' -> DOMAIN work]
    BY <2>2, <2>3
  <2>5. /\ \A i, j \in DOMAIN work' : h[i] = h[j] => i = j
        /\ \A i \in DOMAIN work' : work'[i] = work[h[i]]
    BY <2>2, <2>3
  <2> HIDE DEF h
  <2> QED
    BY <2>4, <2>5 DEF Part
<1>7. /\ Part(persist_dlq', persist_dlq)
      /\ \A c : c # d /\ Holds(persist_dlq, c) => Holds(persist_dlq', c)
      /\ Once(persist_dlq, d) => ~Holds(persist_dlq', d)
  BY <1>0, <1>1, <1>2, <1>3, RemovedHas
<1>8. InMemory' /\ StampsDiffer'
  BY <1>1, StampsStay DEF InMemory
<1>9. /\ OneObjectEach' /\ QueuedOnce'
      /\ \A c : Holds(persist_dlq', c) \/ Holds(work', c) => Waits(c)
  BY <1>1, <1>6, <1>7, FewerEntries
<1>10. \A c : Waits(c)' => Waits(c)
  BY <1>9 DEF Waits
<1>11. d \notin doubled => ~Waits(d)'
  <2>1. Holds(work', d) => Holds(Tail(work), d)
    BY <1>5, PartHas
  <2> QED
    BY <1>3, <1>5, <1>7, <2>1 DEF Waits, QueuedOnce
<1>12. /\ \A c \in Decisions : c # d => rows'[c] = rows[c]
       /\ rows'[d] = Lesser(rows[d] + 1, RowCap)
       /\ rows[d] \in Nat /\ unsure[d] \in Nat
  BY <1>1, <1>2, <1>3
<1>13. OpenIsUnwritten'
  <2> SUFFICES ASSUME NEW c \in Decisions, c \notin doubled
               PROVE  /\ rows'[c] <= 1 + unsure[c] /\ retries[c] <= MaxRetries
                      /\ pc[c] = "new" \/ Waits(c)' => rows'[c] <= unsure[c]
                      /\ Waits(c)' => retries[c] < MaxRetries
    BY <1>1 DEF OpenIsUnwritten
  <2>1. CASE c = d
    <3>1. rows[d] <= unsure[d] /\ retries[d] <= MaxRetries /\ pc[d] = "done"
      BY <1>0, <1>1, <1>3, <2>1, HeadOfPass DEF OpenIsUnwritten, Tracks
    <3>2. rows'[d] <= 1 + unsure[d]
      BY <1>2, <1>12, <3>1 DEF Lesser
    <3> QED
      BY <1>11, <2>1, <3>1, <3>2
  <2>2. CASE c # d
    BY <1>10, <1>12, <2>2 DEF OpenIsUnwritten
  <2> QED
    BY <2>1, <2>2
<1>14. QueueKeeps'
  <2>1. rows'[d] > 0
    BY <1>2, <1>12 DEF Lesser
  <2> QED
    BY <1>1, <1>7, <1>12, <2>1 DEF QueueKeeps
<1> QED
  BY <1>8, <1>9, <1>13, <1>14 DEF CountersInv

\* The sequence r is s after the retry that made e of an entry: in the queue as well as
\* in the copy of the pass, all places with the object show it.
Renewed(r, s, e) ==
    /\ DOMAIN r = DOMAIN s
    /\ \A i \in DOMAIN s : IF s[i].decision = e.decision THEN SameButWait(r[i], e)
                                                         ELSE r[i] = s[i]

LEMMA RenewedHas ==
    ASSUME NEW r, NEW s, NEW e, Renewed(r, s, e)
    PROVE  /\ Alike(r, s)
           /\ \A x \in ToSet(r) : \/ x.decision = e.decision /\ SameButWait(x, e)
                                  \/ x.decision # e.decision /\ x \in ToSet(s)
BY DEF Renewed, Alike, SameButWait, ToSet

LEMMA ModifiedIsRenewed ==
    ASSUME NEW s \in Seq(Entry), NEW e \in Entry, NEW x \in Entry, SameButWait(x, e),
           \A i \in DOMAIN s : s[i].oid = e.oid <=> s[i].decision = e.decision
    PROVE  Modified(s, x) \in Seq(Entry) /\ Renewed(Modified(s, x), s, e)
<1>1. x.oid = e.oid
  BY DEF SameButWait
<1> DEFINE r == Modified(s, x)
<1>2. /\ r \in Seq(Entry) /\ DOMAIN r = DOMAIN s
      /\ \A i \in DOMAIN s : r[i] = IF s[i].oid = x.oid THEN x ELSE s[i]
  BY ModifiedShape
<1> HIDE DEF r
<1>3. Renewed(r, s, e)
  BY <1>1, <1>2 DEF Renewed
<1> QED
  BY <1>2, <1>3 DEF r

\* Where time stamps tell decisions apart, "update stored entry" finds the object that
\* has been modified already.
LEMMA UpdateChangesNothing ==
    ASSUME NEW s \in Seq(Entry), NEW e \in Entry, \A i \in DOMAIN s : s[i].ts = e.ts => s[i] = e
    PROVE  Updated(s, e) = s
<1>1. CASE \E i \in DOMAIN s : s[i].ts = e.ts /\ Updated(s, e) = [s EXCEPT ![i] = e]
  <2>1. PICK i \in DOMAIN s : s[i] = e /\ Updated(s, e) = [s EXCEPT ![i] = e]
    BY <1>1
  <2>2. s = [k \in DOMAIN s |-> s[k]]
    BY LenProperties
  <2> QED
    BY <2>1, <2>2
<1> QED
  BY <1>1, UpdatedShape

\* What a failed retry makes of the sequences.
LEMMA FailedRetryShape ==
    ASSUME MemoryInv, RetryFails, NEW e, e = Failed(Head(work))
    PROVE  /\ e \in Entry /\ e.oid = Head(work).oid /\ e.decision = Head(work).decision
           /\ e.ts = Head(work).ts
           /\ e.attempts = Lesser(Head(work).attempts + 1, AttemptCap)
           /\ \E q, r \in Seq(Entry) :
                 /\ Renewed(q, persist_dlq, e) /\ Renewed(r, Tail(work), e)
                 /\ Part(persist_dlq', q) /\ Part(work', r)
                 /\ \A c : c # e.decision /\ Holds(q, c) => Holds(persist_dlq', c)
                 /\ IF e.attempts >= MaxRetries
                      THEN Once(q, e.decision) => ~Holds(persist_dlq', e.decision)
                      ELSE persist_dlq' = q
<1> USE DEF MemoryInv
<1>1. /\ loop = "scan" /\ work # <<>> /\ ~client /\ age \in Nat
      /\ persist_dlq \in Seq(Entry) /\ work \in Seq(Entry)
      /\ persist_dlq' = Dropped(Updated(Modified(persist_dlq, e), e), e)
      /\ Scan(Rest(e))
  BY DlqAssumption DEF RetryFails, InMemory, TypeOK
<1> DEFINE w == Head(work)
<1>2. /\ w \in Entry /\ w \in Held /\ Tracks(w) /\ w.decision \in Decisions
      /\ \A i \in DOMAIN persist_dlq : persist_dlq[i].oid = w.oid <=>
                                       persist_dlq[i].decision = w.decision
      /\ \A i \in DOMAIN work : work[i].oid = w.oid <=> work[i].decision = w.decision
  BY <1>1, HeadOfPass
<1> DEFINE later == [e EXCEPT !.wait = Backoff(e.attempts)]
<1>3. /\ e \in Entry /\ e.oid = w.oid /\ e.decision = w.decision /\ e.ts = w.ts
      /\ e.attempts = Lesser(w.attempts + 1, AttemptCap)
      /\ later \in Entry /\ SameButWait(later, e)
  BY <1>1, <1>2, FailedShape
<1> DEFINE q == Modified(persist_dlq, e)
<1> DEFINE t == Tail(work)
<1> DEFINE r == Modified(t, later)
<1>4. t \in Seq(Entry) /\ ToSet(t) \subseteq ToSet(work)
  BY <1>1, SequencesOfEntries, PassTakesPart, PartHas
<1>5. \A i \in DOMAIN t : t[i].oid = e.oid <=> t[i].decision = e.decision
  BY <1>2, <1>3, <1>4 DEF ToSet
<1>6. work' = FromDue(r)
  BY <1>1 DEF Scan, Rest
<1>7. SameButWait(e, e)
  BY DEF SameButWait
<1>8. \A i \in DOMAIN persist_dlq : persist_dlq[i].ts = e.ts => persist_dlq[i].oid = e.oid
  <2> SUFFICES ASSUME NEW i \in DOMAIN persist_dlq, persist_dlq[i].ts = e.ts
               PROVE  persist_dlq[i].oid = e.oid
    OBVIOUS
  <2> DEFINE x == persist_dlq[i]
  <2>1. x \in Held /\ Tracks(x) /\ x \in Entry
    BY HeldOnes DEF OneObjectEach
  <2>2. x.decision \in Decisions /\ x.ts = stamp[x.decision] /\ x.ts > 0
    BY <2>1 DEF Tracks, Entry
  <2>3. stamp[x.decision] = stamp[w.decision] /\ stamp[x.decision] # 0
    BY <1>2, <1>3, <2>2 DEF Tracks
  <2>4. x.decision = w.decision
    BY <1>2, <2>2, <2>3 DEF StampsDiffer
  <2> QED
    BY <1>2, <1>3, <2>4
<1> HIDE DEF w, later, t
<1>9. q \in Seq(Entry) /\ Renewed(q, persist_dlq, e)
  BY <1>1, <1>2, <1>3, <1>7, ModifiedIsRenewed
<1>10. r \in Seq(Entry) /\ Renewed(r, t, e)
  BY <1>3, <1>4, <1>5, ModifiedIsRenewed
<1>11. /\ DOMAIN q = DOMAIN persist_dlq
       /\ \A i \in DOMAIN persist_dlq :
             q[i] = IF persist_dlq[i].oid = e.oid THEN e ELSE persist_dlq[i]
  BY <1>1, <1>3, ModifiedShape
<1> HIDE DEF q, r
<1>12. Updated(q, e) = q
  <2>1. \A i \in DOMAIN q : q[i].ts = e.ts => q[i] = e
    BY <1>8, <1>11
  <2> QED
    BY <1>3, <1>9, <2>1, UpdateChangesNothing
<1>13. persist_dlq' = IF e.attempts >= MaxRetries THEN Removed(q, e) ELSE q
  BY <1>1, <1>12 DEF Dropped, q
<1>14. \A i \in DOMAIN q : q[i].oid = e.oid <=> q[i].decision = e.decision
  BY <1>2, <1>3, <1>11
<1>15. /\ Part(Removed(q, e), q) /\ Part(q, q)
       /\ \A c : c # e.decision /\ Holds(q, c) => Holds(Removed(q, e), c)
       /\ Once(q, e.decision) => ~Holds(Removed(q, e), e.decision)
  BY <1>3, <1>9, <1>14, RemovedHas, ItselfIsPart
<1>16. Part(work', r)
  BY <1>6, <1>10, PassTakesPart
<1>17. /\ Part(persist_dlq', q)
       /\ \A c : c # e.decision /\ Holds(q, c) => Holds(persist_dlq', c)
       /\ IF e.attempts >= MaxRetries
            THEN Once(q, e.decision) => ~Holds(persist_dlq', e.decision)
            ELSE persist_dlq' = q
  BY <1>13, <1>15
<1> QED
  BY <1>3, <1>9, <1>10, <1>16, <1>17 DEF w, t

LEMMA RetryHasFailed ==
    ASSUME MemoryInv, TypeOK', RetryFails
    PROVE  InMemory' /\ StampsDiffer' /\ OneObjectEach' /\ QueuedOnce' /\ CountersInv'
<1> USE DEF MemoryInv
<1>1. PICK e, w, d : e = Failed(Head(work)) /\ w = Head(work) /\ d = w.decision
  OBVIOUS
<1>2. /\ loop = "scan" /\ work # <<>>
      /\ UNCHANGED <<pc, stamp, client, op, flushed, doubled>>
      /\ loop' \in {"sleep", "scan"}
      /\ work \in Seq(Entry) /\ persist_dlq \in Seq(Entry) /\ AttemptCap = MaxRetries + 1
      /\ MaxRetries \in Nat \ {0}
  BY DlqAssumption DEF RetryFails, InMemory, TypeOK, Scan, AttemptCap
<1>3. /\ e \in Entry /\ e.oid = w.oid /\ e.decision = d /\ e.ts = w.ts
      /\ e.attempts = Lesser(w.attempts + 1, AttemptCap)
  BY <1>1, FailedRetryShape
<1>4. PICK q \in Seq(Entry), r \in Seq(Entry) :
        /\ Renewed(q, persist_dlq, e) /\ Renewed(r, Tail(work), e)
        /\ Part(persist_dlq', q) /\ Part(work', r)
        /\ \A c : c # d /\ Holds(q, c) => Holds(persist_dlq', c)
        /\ IF e.attempts >= MaxRetries THEN Once(q, d) => ~Holds(persist_dlq', d)
                                       ELSE persist_dlq' = q
  BY <1>1, <1>3, FailedRetryShape
<1>5. /\ w \in Held /\ w \in Entry /\ d \in Decisions /\ Waits(d) /\ Tracks(w)
      /\ \A x \in Held : x.oid = w.oid <=> x.decision = d
  BY <1>1, <1>2, HeadOfPass DEF OneObjectEach
<1>6. /\ InsertRaises(d)
      /\ retries' = [retries EXCEPT ![d] = Lesser(@ + 1, AttemptCap)]
  BY <1>1, <1>3 DEF RetryFails
<1>7. /\ \A c \in Decisions : c # d => retries'[c] = retries[c]
      /\ retries'[d] = Lesser(retries[d] + 1, AttemptCap) /\ retries'[d] = e.attempts
      /\ retries[d] \in Nat
  <2>1. retries \in [Decisions -> 0..AttemptCap]
    BY DEF TypeOK
  <2> QED
    BY <1>2, <1>3, <1>5, <1>6, <2>1 DEF Tracks
<1>8. InMemory' /\ StampsDiffer'
  <2>1. pc[d] = "done"
    BY <1>1, <1>5 DEF Tracks
  <2>2. \A c \in Decisions : pc'[c] = "new" => pc[c] = "new" /\ retries'[c] = retries[c]
    BY <1>2, <1>7, <2>1
  <2> QED
    BY <1>2, <2>2, StampsStay DEF InMemory
<1>9. /\ Part(Tail(work), work)
      /\ Once(work, d) => ~Holds(Tail(work), d)
  BY <1>1, <1>2, PassTakesPart
<1>10. \A x \in Held' : \/ x.decision = d /\ SameButWait(x, e)
                        \/ x.decision # d /\ x \in Held
  <2>1. /\ ToSet(persist_dlq') \subseteq ToSet(q) /\ ToSet(work') \subseteq ToSet(r)
        /\ ToSet(Tail(work)) \subseteq ToSet(work)
    BY <1>4, <1>9, PartHas
  <2>2. /\ \A x \in ToSet(q) : \/ x.decision = d /\ SameButWait(x, e)
                               \/ x.decision # d /\ x \in ToSet(persist_dlq)
        /\ \A x \in ToSet(r) : \/ x.decision = d /\ SameButWait(x, e)
                               \/ x.decision # d /\ x \in ToSet(Tail(work))
    BY <1>3, <1>4, RenewedHas
  <2> QED
    BY <2>1, <2>2 DEF Held
<1>11. OneObjectEach'
  <2>1. \A x \in Held' : Tracks(x)'
    <3> SUFFICES ASSUME NEW x \in Held' PROVE Tracks(x)'
      OBVIOUS
    <3>1. CASE x.decision = d /\ SameButWait(x, e)
      BY <1>2, <1>3, <1>5, <1>7, <3>1, <1>1 DEF Tracks, SameButWait
    <3>2. CASE x.decision # d /\ x \in Held
      <4>1. x.decision \in Decisions /\ Tracks(x)
        BY <3>2, HeldOnes DEF OneObjectEach, Entry
      <4> QED
        BY <1>2, <1>7, <3>2, <4>1 DEF Tracks
    <3> QED
      BY <1>10, <3>1, <3>2
  <2>2. \A x, y \in Held' : x.oid = y.oid <=> x.decision = y.decision
    <3>1. \A x \in Held' : \/ x.decision = d /\ x.oid = w.oid
                           \/ x.decision # d /\ x \in Held
      BY <1>3, <1>10 DEF SameButWait
    <3> QED
      BY <1>5, <3>1 DEF OneObjectEach
  <2> QED
    BY <2>1, <2>2 DEF OneObjectEach
<1>12. \A c : /\ Holds(q, c) <=> Holds(persist_dlq, c)
              /\ Once(q, c) <=> Once(persist_dlq, c)
              /\ Holds(persist_dlq', c) => Holds(q, c)
              /\ Once(q, c) => Once(persist_dlq', c)
              /\ Holds(work', c) => Holds(Tail(work), c)
              /\ Holds(Tail(work), c) => Holds(work, c)
              /\ Once(work, c) => Once(work', c)
  BY <1>4, <1>9, RenewedHas, AlikeHas, PartHas
<1>13. QueuedOnce'
  BY <1>2, <1>12 DEF QueuedOnce
<1>14. OpenIsUnwritten'
  <2>1. rows'[d] \in Nat /\ unsure'[d] \in Nat
    BY <1>5, DlqAssumption DEF TypeOK, RowCap
  <2>2. /\ \A c \in Decisions : c # d => rows'[c] = rows[c] /\ unsure'[c] = unsure[c]
        /\ rows[d] <= unsure[d] => rows'[d] <= unsure'[d]
    BY <1>5, <1>6, InsertRaisesCounts
  <2> SUFFICES ASSUME NEW c \in Decisions, c \notin doubled
               PROVE  /\ rows'[c] <= 1 + unsure'[c] /\ retries'[c] <= MaxRetries
                      /\ pc[c] = "new" \/ Waits(c)' => rows'[c] <= unsure'[c]
                      /\ Waits(c)' => retries'[c] < MaxRetries
    BY <1>2 DEF OpenIsUnwritten
  <2>3. CASE c = d
    <3>1. rows[d] <= unsure[d] /\ retries[d] < MaxRetries
      BY <1>5, <2>3 DEF OpenIsUnwritten
    <3>2. rows'[d] <= unsure'[d] /\ rows'[d] <= 1 + unsure'[d]
      BY <2>1, <2>2, <3>1
    <3>3. retries'[d] = retries[d] + 1 /\ retries'[d] <= MaxRetries
      BY <1>2, <1>7, <3>1 DEF Lesser
    <3>4. ~Holds(work', d) /\ Once(q, d)
      BY <1>9, <1>12, <2>3 DEF QueuedOnce
    <3>5. Holds(persist_dlq', d) => retries'[d] < MaxRetries
      BY <1>2, <1>4, <1>7, <3>3, <3>4
    <3> QED
      BY <2>3, <3>2, <3>3, <3>4, <3>5 DEF Waits
  <2>4. CASE c # d
    <3>1. Waits(c)' => Waits(c)
      BY <1>12 DEF Waits
    <3> QED
      BY <1>7, <2>2, <2>4, <3>1 DEF OpenIsUnwritten
  <2> QED
    BY <2>3, <2>4
<1>15. QueueKeeps'
  <2> SUFFICES ASSUME NEW c \in Decisions, pc[c] = "done"
               PROVE  \/ rows'[c] > 0 \/ Holds(persist_dlq', c)
                      \/ c \in flushed \/ retries'[c] >= MaxRetries
    BY <1>2 DEF QueueKeeps
  <2>1. CASE c = d /\ e.attempts >= MaxRetries
    BY <1>7, <2>1
  <2>2. CASE c = d /\ ~(e.attempts >= MaxRetries)
    <3>1. persist_dlq' = q
      BY <1>4, <2>2
    <3>2. retries[d] < MaxRetries
      BY <1>2, <1>7, <2>2 DEF Lesser
    <3>3. rows[d] > 0 => rows'[d] > 0
      <4>1. rows[d] \in Nat /\ rows'[d] \in Nat
        BY <1>5, DlqAssumption DEF TypeOK, RowCap
      <4>2. rows'[d] >= rows[d]
        BY <1>5, <1>6, InsertRaisesCounts
      <4> QED
        BY <4>1, <4>2
    <3> QED
      BY <1>2, <1>7, <1>12, <2>2, <3>1, <3>2, <3>3 DEF QueueKeeps
  <2>3. CASE c # d
    BY <1>4, <1>5, <1>6, <1>7, <1>12, <2>3, InsertRaisesCounts DEF QueueKeeps
  <2> QED
    BY <2>1, <2>2, <2>3
<1> QED
  BY <1>8, <1>11, <1>13, <1>14, <1>15 DEF CountersInv

LEMMA QueuedAgain ==
    ASSUME MemoryInv, Requeue
    PROVE  InMemory' /\ StampsDiffer' /\ OneObjectEach' /\ QueuedOnce' /\ CountersInv'
<1> USE DEF MemoryInv
<1>1. /\ persist_dlq' = persist_dlq \o persist_dlq
      /\ doubled' = doubled \cup {x.decision : x \in ToSet(persist_dlq)}
      /\ UNCHANGED <<pc, stamp, work, loop, client, op, rows, unsure, retries, flushed>>
      /\ persist_dlq \in Seq(Entry)
  BY DEF Requeue, redisVars, loopVars, storeVars, TypeOK
<1>2. /\ ToSet(persist_dlq') = ToSet(persist_dlq)
      /\ \A c : Holds(persist_dlq', c) <=> Holds(persist_dlq, c)
  BY <1>1, DoubledHas
<1>3. InMemory' /\ StampsDiffer'
  BY <1>1, StampsStay DEF InMemory
<1>4. OneObjectEach'
  <2>1. Held' = Held
    BY <1>1, <1>2 DEF Held
  <2>2. \A x \in Held : Tracks(x)'
    BY <1>1 DEF OneObjectEach, Tracks
  <2> QED
    BY <2>1, <2>2 DEF OneObjectEach
<1>5. \A c : c \notin doubled' => c \notin doubled /\ ~Holds(persist_dlq, c)
  BY <1>1 DEF Holds, ToSet
<1>6. \A c : ~Holds(persist_dlq', c) => Once(persist_dlq', c)
  BY DEF Once, Holds
<1>7. QueuedOnce'
  BY <1>1, <1>2, <1>5, <1>6 DEF QueuedOnce
<1>8. \A c : Waits(c)' <=> Waits(c)
  BY <1>1, <1>2 DEF Waits
<1>9. CountersInv'
  <2>1. OpenIsUnwritten'
    BY <1>1, <1>5, <1>8 DEF OpenIsUnwritten
  <2>2. QueueKeeps'
    BY <1>1, <1>2 DEF QueueKeeps
  <2> QED
    BY <2>1, <2>2 DEF CountersInv
<1> QED
  BY <1>3, <1>4, <1>7, <1>9

LEMMA QueueIsFlushed ==
    ASSUME MemoryInv, Flush
    PROVE  InMemory' /\ StampsDiffer' /\ OneObjectEach' /\ QueuedOnce' /\ CountersInv'
<1> USE DEF MemoryInv
<1>1. /\ persist_dlq' = <<>>
      /\ flushed' = flushed \cup {x.decision : x \in ToSet(persist_dlq)}
      /\ UNCHANGED <<pc, stamp, work, loop, client, op, rows, unsure, retries, doubled>>
  BY DEF Flush, InMemory, loopVars, storeVars
<1>2. InMemory' /\ StampsDiffer'
  BY <1>1, StampsStay DEF InMemory
<1>3. Part(persist_dlq', persist_dlq) /\ Part(work', work)
  <2> DEFINE f == [i \in {} |-> 0]
  <2>1. DOMAIN persist_dlq' = {} /\ f \in [{} -> DOMAIN persist_dlq]
    BY <1>1
  <2>2. Part(persist_dlq', persist_dlq)
    BY <2>1 DEF Part
  <2> QED
    BY <1>1, <2>2, ItselfIsPart
<1>4. /\ OneObjectEach' /\ QueuedOnce'
      /\ \A c : Holds(persist_dlq', c) \/ Holds(work', c) => Waits(c)
  BY <1>1, <1>3, FewerEntries
<1>5. \A c : Waits(c)' => Waits(c)
  BY <1>4 DEF Waits
<1>6. OpenIsUnwritten'
  BY <1>1, <1>5 DEF OpenIsUnwritten
<1>7. QueueKeeps'
  <2>1. \A c : Holds(persist_dlq, c) => c \in flushed'
    BY <1>1 DEF Holds, ToSet
  <2> QED
    BY <1>1, <2>1 DEF QueueKeeps
<1> QED
  BY <1>2, <1>4, <1>6, <1>7 DEF CountersInv

LEMMA TimePasses ==
    ASSUME MemoryInv, Tick
    PROVE  InMemory' /\ StampsDiffer' /\ OneObjectEach' /\ QueuedOnce' /\ CountersInv'
<1> USE DEF MemoryInv
<1>1. /\ persist_dlq' = Closer(persist_dlq)
      /\ UNCHANGED <<pc, stamp, work, loop, client, op, rows, unsure, retries, flushed, doubled>>
      /\ persist_dlq \in Seq(Entry)
  BY DEF Tick, redisVars, storeVars, TypeOK
<1>2. /\ DOMAIN persist_dlq' = DOMAIN persist_dlq
      /\ \A i \in DOMAIN persist_dlq : SameButWait(persist_dlq'[i], persist_dlq[i])
  BY <1>1, CloserShape
<1>3. \A c : /\ Once(persist_dlq', c) <=> Once(persist_dlq, c)
             /\ Holds(persist_dlq', c) <=> Holds(persist_dlq, c)
  <2>1. Alike(persist_dlq', persist_dlq)
    BY <1>2 DEF Alike, SameButWait
  <2> QED
    BY <2>1, AlikeHas
<1>4. \A x \in Held' : \E y \in Held : SameButWait(x, y)
  <2>1. \A x \in ToSet(persist_dlq') : \E y \in ToSet(persist_dlq) : SameButWait(x, y)
    BY <1>2 DEF ToSet
  <2>2. \A x : SameButWait(x, x)
    BY DEF SameButWait
  <2> QED
    BY <1>1, <2>1, <2>2 DEF Held
<1>5. OneObjectEach'
  <2>1. \A x \in Held' : Tracks(x)'
    BY <1>1, <1>4 DEF OneObjectEach, Tracks, SameButWait
  <2>2. \A x, y \in Held' : x.oid = y.oid <=> x.decision = y.decision
    BY <1>4 DEF OneObjectEach, SameButWait
  <2> QED
    BY <2>1, <2>2 DEF OneObjectEach
<1>6. InMemory' /\ StampsDiffer'
  BY <1>1, StampsStay DEF InMemory
<1>7. QueuedOnce'
  BY <1>1, <1>3 DEF QueuedOnce
<1>8. \A c : Waits(c)' <=> Waits(c)
  BY <1>1, <1>3 DEF Waits
<1>9. CountersInv'
  <2>1. OpenIsUnwritten'
    BY <1>1, <1>8 DEF OpenIsUnwritten
  <2>2. QueueKeeps'
    BY <1>1, <1>3 DEF QueueKeeps
  <2> QED
    BY <2>1, <2>2 DEF CountersInv
<1> QED
  BY <1>5, <1>6, <1>7, <1>9

LEMMA MemoryAtStart ==
    ASSUME ~RedisEnabled, Init
    PROVE  MemoryInv
<1>1. TypeOK /\ CircuitInv
  BY TypesAtStart
<1>2. InMemory
  BY DEF Init, InMemory
<1>3. LastStamp \in Nat /\ Held = {}
  <2>1. LastStamp \in Nat
    BY <1>1, StampTypes DEF TypeOK
  <2>2. DOMAIN persist_dlq = {} /\ DOMAIN work = {}
    BY DEF Init
  <2> QED
    BY <2>1, <2>2 DEF Held, ToSet
<1>4. StampsDiffer /\ OneObjectEach
  BY <1>3 DEF Init, StampsDiffer, OneObjectEach
<1>5. DOMAIN persist_dlq = {} /\ DOMAIN work = {}
  BY DEF Init
<1>6. QueuedOnce /\ \A d : ~Waits(d)
  BY <1>5 DEF QueuedOnce, Once, Waits, Holds
<1>7. OpenIsUnwritten /\ QueueKeeps
  BY <1>6, DlqAssumption DEF Init, OpenIsUnwritten, QueueKeeps
<1> QED
  BY <1>1, <1>2, <1>4, <1>6, <1>7 DEF MemoryInv

LEMMA MemoryStep ==
    ASSUME ~SameMillisecond, MemoryInv, [Next]_vars
    PROVE  MemoryInv'
<1>1. TypeOK' /\ CircuitInv'
  BY TypesAreKept DEF MemoryInv
<1>2. \/ \E d \in Decisions : PersistOk(d) \/ PersistFails(d)
      \/ PassStart \/ RetryOk \/ RetryFails
      \/ Requeue \/ Flush \/ Tick \/ UNCHANGED vars
  BY NothingOfRedis
<1>3. InMemory' /\ StampsDiffer' /\ OneObjectEach' /\ QueuedOnce' /\ CountersInv'
  BY <1>1, <1>2, WrittenAtOnce, FailureIsQueued, PassIsCopied, RetryIsWritten, RetryHasFailed,
     QueuedAgain, QueueIsFlushed, TimePasses
<1> QED
  BY <1>1, <1>3 DEF MemoryInv, CountersInv

\* With the queue in memory and failures that differ in their time stamps, a decision
\* whose write failed is never forgotten, although new failures are appended, the queue
\* is doubled or deleted and time passes while a pass goes through its copy.
THEOREM FailedWritesAreKept ==
    ASSUME ~RedisEnabled, ~SameMillisecond
    PROVE  Spec => []NothingForgotten
<1>1. Init => MemoryInv
  BY MemoryAtStart
<1>2. MemoryInv /\ [Next]_vars => MemoryInv'
  BY MemoryStep
<1>3. MemoryInv => NothingForgotten
  BY DEF MemoryInv, QueueKeeps, NothingForgotten
<1> QED
  BY <1>1, <1>2, <1>3, PTL DEF Spec

\* Under the same conditions a failure that nobody queued again gives at most one row,
\* but for commits whose answer was lost, and no more retries than are configured.
THEOREM RetriesAreNotMultiplied ==
    ASSUME ~RedisEnabled, ~SameMillisecond
    PROVE  Spec => []RetriesDoNotMultiply
<1>1. Init => MemoryInv
  BY MemoryAtStart
<1>2. MemoryInv /\ [Next]_vars => MemoryInv'
  BY MemoryStep
<1>3. MemoryInv => RetriesDoNotMultiply
  BY DEF MemoryInv, OpenIsUnwritten, RetriesDoNotMultiply, OneRowPerDecision,
         RetriesAreBounded
<1> QED
  BY <1>1, <1>2, <1>3, PTL DEF Spec

=============================================================================
