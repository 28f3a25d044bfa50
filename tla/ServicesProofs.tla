---------------------------- MODULE ServicesProofs ----------------------------
(***************************************************************************)
(* Proofs about the services beside the event flow: human approval, the    *)
(* chain of policy backends, the governance of trades, the policies over   *)
(* outcomes, and the execution of validated plans.                         *)
(***************************************************************************)
EXTENDS HumanApproval, PolicyChain, Governance, OutcomePolicy, PlanExecution, FiniteSetTheorems,
        SequenceTheorems, WellFoundedInduction, TLAPS

-----------------------------------------------------------------------------
(* The chain of policy backends *)

PolicyChainSpec == PolicyChainInit /\ [][PolicyChainNext]_chainVars

LookupRecord ==
    [at : {"new", "asking", "pinging", "answered"}, backend : Nat, version : Int, began : Nat]

\* Of every version that has been replaced it is known when.
ChainTypes ==
    /\ clock \in Nat /\ version \in Nat
    /\ replaced \in Seq(Nat) /\ Len(replaced) = version
    /\ \A i \in 1..version : replaced[i] <= clock
    /\ lookup \in [Lookups -> LookupRecord]

\* An entry of the cache expires no later than the ttl after its version was replaced.
CacheIsRecent ==
    \A e \in cache :
        /\ e.version \in 0..version
        /\ e.expires \in Nat /\ e.expires <= clock + Ttl
        /\ e.version < version => e.expires <= replaced[e.version + 1] + Ttl

LookupsHaveBegun ==
    \A l \in Lookups : lookup[l].began <= clock /\ lookup[l].version <= version

ChainInv == ChainTypes /\ CacheIsRecent /\ LookupsHaveBegun /\ AnswersAreRecent

\* A backend's answer is recent if what it answers is: the version in force, one of
\* the cache, or that of config and defaults.
LEMMA RecentAnswer ==
    ASSUME ChainInv, NEW l \in Lookups, NEW versions, Answered(l, versions),
           UNCHANGED <<clock, version, replaced, cache>>,
           \A v \in versions :
              /\ v \in Int /\ v <= version
              /\ v \in 0..(version - 1) => replaced[v + 1] > clock - Ttl
    PROVE  ChainInv'
<1> USE DEF ChainInv
<1> DEFINE old == lookup[l]
<1>1. old \in LookupRecord /\ lookup \in [Lookups -> LookupRecord]
  BY DEF ChainTypes
<1>2. PICK new :
        /\ lookup' = [lookup EXCEPT ![l] = new]
        /\ \/ new = [old EXCEPT !.at = "asking", !.backend = old.backend + 1]
           \/ \E v \in versions : new = [old EXCEPT !.at = "answered", !.version = v]
  <2>1. CASE versions = {}
    BY <2>1 DEF Answered
  <2>2. CASE versions # {}
    <3>1. PICK v \in versions : v = CHOOSE u \in versions : TRUE
      BY <2>2
    <3>2. lookup' = [lookup EXCEPT ![l] = [old EXCEPT !.at = "answered", !.version = v]]
      BY <2>2, <3>1 DEF Answered
    <3> QED
      BY <3>2
  <2> QED
    BY <2>1, <2>2
<1>3. old.began \in Nat /\ old.began <= clock /\ old.version <= version /\ clock \in Nat /\ Ttl \in Nat
  BY <1>1, PolicyChainAssumption DEF LookupsHaveBegun, ChainTypes, LookupRecord
<1> HIDE DEF old
<1>4. new \in LookupRecord /\ new.began = old.began
  <2>1. /\ old.backend \in Nat /\ old.began \in Nat
        /\ old.backend + 1 \in Nat
    BY <1>1 DEF LookupRecord
  <2>2. CASE new = [old EXCEPT !.at = "asking", !.backend = old.backend + 1]
    BY <1>1, <2>1, <2>2 DEF LookupRecord
  <2>3. ASSUME NEW v \in versions, new = [old EXCEPT !.at = "answered", !.version = v]
        PROVE  new \in LookupRecord /\ new.began = old.began
    <3>1. v \in Int
      OBVIOUS
    <3> QED
      BY <1>1, <2>3, <3>1 DEF LookupRecord
  <2> QED
    BY <1>2, <2>2, <2>3
<1>5. \/ new.at = "asking" /\ new.version = old.version
      \/ new.at = "answered" /\ new.version \in versions
  BY <1>1, <1>2 DEF LookupRecord
<1>6. /\ lookup'[l] = new
      /\ \A k \in Lookups : k # l => lookup'[k] = lookup[k]
  BY <1>1, <1>2
<1>7. new.version <= version
  BY <1>3, <1>5
<1>8. ChainTypes'
  BY <1>1, <1>2, <1>4 DEF ChainTypes
<1>9. CacheIsRecent'
  BY DEF CacheIsRecent
<1>10. LookupsHaveBegun'
  BY <1>3, <1>4, <1>6, <1>7 DEF LookupsHaveBegun
<1>11. ASSUME new.at = "answered", new.version \in 0..(version - 1)
       PROVE  replaced[new.version + 1] > new.began - Ttl
  <2> DEFINE v == new.version
  <2>1. v + 1 \in 1..Len(replaced) /\ v \in versions
    BY <1>5, <1>11 DEF ChainTypes
  <2>2. replaced[v + 1] \in Nat
    BY <2>1, ElementOfSeq DEF ChainTypes
  <2>3. replaced[v + 1] > clock - Ttl
    BY <1>11, <2>1
  <2> HIDE DEF v
  <2>4. replaced[v + 1] > new.began - Ttl
    BY <1>3, <1>4, <2>2, <2>3
  <2> QED
    BY <2>4 DEF v
<1>12. AnswersAreRecent'
  BY <1>6, <1>11 DEF AnswersAreRecent
<1> QED
  BY <1>8, <1>9, <1>10, <1>12

\* A lookup that only moves on has the same past.
LEMMA LookupMovesOn ==
    ASSUME ChainInv, NEW l \in Lookups, NEW at \in {"asking", "pinging"},
           lookup' = [lookup EXCEPT ![l].at = at] \/
           lookup' = [lookup EXCEPT ![l].at = at, ![l].began = clock],
           UNCHANGED <<clock, version, replaced, cache>>
    PROVE  ChainInv'
<1> USE DEF ChainInv
<1> DEFINE old == lookup[l]
<1>1. old \in LookupRecord /\ clock \in Nat
  BY DEF ChainTypes
<1>2. PICK new \in {[old EXCEPT !.at = at], [old EXCEPT !.at = at, !.began = clock]} :
          lookup' = [lookup EXCEPT ![l] = new]
  BY DEF ChainTypes
<1>3. /\ new \in LookupRecord /\ new.at = at /\ new.version = old.version
      /\ new.began \in {old.began, clock}
  BY <1>1, <1>2 DEF LookupRecord
<1>4. old.began <= clock /\ old.version <= version
  BY DEF LookupsHaveBegun
<1> HIDE DEF old
<1>5. /\ lookup' \in [Lookups -> LookupRecord] /\ lookup'[l] = new
      /\ \A k \in Lookups : k # l => lookup'[k] = lookup[k]
  BY <1>2, <1>3 DEF ChainTypes
<1>6. ChainTypes' /\ CacheIsRecent'
  BY <1>5 DEF ChainTypes, CacheIsRecent
<1>7. LookupsHaveBegun'
  BY <1>1, <1>3, <1>4, <1>5 DEF LookupsHaveBegun
<1>8. AnswersAreRecent'
  BY <1>3, <1>5 DEF AnswersAreRecent
<1> QED
  BY <1>6, <1>7, <1>8

\* What Redis still holds was in force within the ttl before now.
LEMMA CachedIsRecent ==
    ASSUME ChainInv, NEW v \in Cached
    PROVE  /\ v \in Int /\ v <= version
           /\ v \in 0..(version - 1) => replaced[v + 1] > clock - Ttl
<1> USE DEF ChainInv
<1>1. PICK e \in cache : e.version = v /\ clock < e.expires
  BY DEF Cached
<1>2. /\ e.version \in 0..version /\ e.expires \in Nat
      /\ e.version < version => e.expires <= replaced[e.version + 1] + Ttl
  BY DEF CacheIsRecent
<1>3. clock \in Nat /\ version \in Nat /\ Ttl \in Nat
  BY PolicyChainAssumption DEF ChainTypes
<1>4. v \in Int /\ v <= version
  BY <1>1, <1>2, <1>3
<1>5. ASSUME v \in 0..(version - 1)
      PROVE  replaced[v + 1] > clock - Ttl
  <2> DEFINE r == replaced[v + 1]
  <2>1. v + 1 \in 1..Len(replaced)
    BY <1>3, <1>5 DEF ChainTypes
  <2>2. r \in Nat
    BY <2>1, ElementOfSeq DEF ChainTypes
  <2>3. e.expires <= r + Ttl
    BY <1>1, <1>2, <1>3, <1>5
  <2> HIDE DEF r
  <2>4. r > clock - Ttl
    BY <1>1, <1>2, <1>3, <2>2, <2>3
  <2> QED
    BY <2>4 DEF r
<1> QED
  BY <1>4, <1>5

LEMMA ChainBegins == PolicyChainInit => ChainInv
  BY PolicyChainAssumption DEF PolicyChainInit, ChainInv, ChainTypes, LookupRecord, CacheIsRecent,
     LookupsHaveBegun, AnswersAreRecent

\* The old version's entries, answers and the policy itself are replaced no earlier
\* than any lookup under way began and no entry can outlive it by more than the ttl.
LEMMA ChangesAreNoted ==
    ASSUME ChainInv, PolicyChanges
    PROVE  ChainInv'
<1> USE DEF ChainInv, PolicyChanges
<1>1. clock \in Nat /\ version \in Nat /\ Ttl \in Nat /\ Ttl > 0
  BY PolicyChainAssumption DEF ChainTypes
<1>2. /\ replaced' \in Seq(Nat) /\ Len(replaced') = version + 1
      /\ \A i \in 1..version : replaced'[i] = replaced[i]
      /\ replaced'[version + 1] = clock
  BY <1>1, AppendProperties DEF ChainTypes
<1>3. ChainTypes'
  BY <1>1, <1>2 DEF ChainTypes
<1>4. CacheIsRecent'
  <2> SUFFICES ASSUME NEW e \in cache
               PROVE  /\ e.version \in 0..(version + 1)
                      /\ e.expires \in Nat /\ e.expires <= clock + Ttl
                      /\ e.version < version + 1 => e.expires <= replaced'[e.version + 1] + Ttl
    BY DEF CacheIsRecent
  <2>1. /\ e.version \in 0..version /\ e.expires \in Nat /\ e.expires <= clock + Ttl
        /\ e.version < version => e.expires <= replaced[e.version + 1] + Ttl
    BY DEF CacheIsRecent
  <2>2. e.version < version => e.version + 1 \in 1..version
    BY <1>1, <2>1
  <2>3. e.version < version \/ e.version = version
    BY <1>1, <2>1
  <2> QED
    BY <1>1, <1>2, <2>1, <2>2, <2>3
<1>5. LookupsHaveBegun'
  BY <1>1 DEF LookupsHaveBegun, ChainTypes, LookupRecord
<1>6. AnswersAreRecent'
  <2>0. version' - 1 = version /\ lookup' = lookup
    BY <1>1
  <2> SUFFICES ASSUME NEW l \in Lookups, lookup[l].at = "answered", lookup[l].version \in 0..version
               PROVE  replaced'[lookup[l].version + 1] > lookup[l].began - Ttl
    BY <2>0 DEF AnswersAreRecent
  <2>1. lookup[l].began \in Nat /\ lookup[l].began <= clock
    BY DEF ChainTypes, LookupRecord, LookupsHaveBegun
  <2>2. CASE lookup[l].version = version
    BY <1>1, <1>2, <2>1, <2>2
  <2>3. CASE lookup[l].version # version
    <3>1. lookup[l].version \in 0..(version - 1) /\ lookup[l].version + 1 \in 1..version
      BY <1>1, <2>3
    <3> QED
      BY <1>2, <3>1 DEF AnswersAreRecent
  <2> QED
    BY <2>2, <2>3
<1> QED
  BY <1>3, <1>4, <1>5, <1>6

LEMMA EntriesExpire ==
    ASSUME ChainInv, SetPolicy
    PROVE  ChainInv'
<1> USE DEF ChainInv, SetPolicy
<1>1. clock \in Nat /\ version \in Nat /\ Ttl \in Nat
  BY PolicyChainAssumption DEF ChainTypes
<1>2. CacheIsRecent'
  BY <1>1 DEF CacheIsRecent
<1> QED
  BY <1>2 DEF ChainTypes, LookupsHaveBegun, AnswersAreRecent

LEMMA TimePasses ==
    ASSUME ChainInv, ClockTick
    PROVE  ChainInv'
<1> USE DEF ChainInv, ClockTick
<1>1. clock \in Nat /\ clock' = clock + 1 /\ Ttl \in Nat /\ version \in Nat
  BY PolicyChainAssumption DEF ChainTypes
<1>2. ChainTypes'
  <2>1. \A i \in 1..version : replaced[i] \in Nat /\ replaced[i] <= clock
    BY ElementOfSeq DEF ChainTypes
  <2> QED
    BY <1>1, <2>1 DEF ChainTypes
<1>3. CacheIsRecent'
  BY <1>1 DEF CacheIsRecent
<1>4. LookupsHaveBegun'
  BY <1>1 DEF LookupsHaveBegun, ChainTypes, LookupRecord
<1>5. AnswersAreRecent'
  BY DEF AnswersAreRecent
<1> QED
  BY <1>2, <1>3, <1>4, <1>5

LEMMA ChainStep ==
    ASSUME ChainInv, [PolicyChainNext]_chainVars
    PROVE  ChainInv'
<1> USE DEF ChainInv
<1>1. ASSUME NEW l \in Lookups, GetPolicyBegins(l)
      PROVE  ChainInv'
  BY <1>1, LookupMovesOn DEF GetPolicyBegins
<1>2. ASSUME NEW l \in Lookups, EnsureConnection(l)
      PROVE  ChainInv'
  BY <1>2, LookupMovesOn DEF EnsureConnection
<1>3. ASSUME NEW l \in Lookups, Ping(l)
      PROVE  ChainInv'
  <2>1. CASE lookup' = [lookup EXCEPT ![l].at = "asking"]
    BY <1>3, <2>1, LookupMovesOn DEF Ping
  <2>2. CASE Answered(l, {})
    BY <1>3, <2>2, RecentAnswer DEF Ping
  <2> QED
    BY <1>3, <2>1, <2>2 DEF Ping
<1>4. ASSUME NEW l \in Lookups, AskRedis(l)
      PROVE  ChainInv'
  <2>1. PICK versions \in {Cached, {}} : Answered(l, versions)
    BY <1>4 DEF AskRedis
  <2>2. \A v \in versions :
           /\ v \in Int /\ v <= version
           /\ v \in 0..(version - 1) => replaced[v + 1] > clock - Ttl
    BY <2>1, CachedIsRecent
  <2>3. UNCHANGED <<clock, version, replaced, cache>>
    BY <1>4 DEF AskRedis
  <2> QED
    BY <2>1, <2>2, <2>3, RecentAnswer
<1>5. ASSUME NEW l \in Lookups, AskHttp(l)
      PROVE  ChainInv'
  <2>1. PICK versions \in {{version}, {}} : Answered(l, versions)
    BY <1>5 DEF AskHttp
  <2>2. version \in Int /\ version <= version /\ version \notin 0..(version - 1)
    BY DEF ChainTypes
  <2>3. UNCHANGED <<clock, version, replaced, cache>>
    BY <1>5 DEF AskHttp
  <2> QED
    BY <2>1, <2>2, <2>3, RecentAnswer
<1>6. ASSUME NEW l \in Lookups, AskLocal(l)
      PROVE  ChainInv'
  <2>1. PICK versions \in {{-1}, {}} : Answered(l, versions)
    BY <1>6 DEF AskLocal
  <2>2. -1 \in Int /\ -1 <= version /\ -1 \notin 0..(version - 1)
    BY DEF ChainTypes
  <2>3. UNCHANGED <<clock, version, replaced, cache>>
    BY <1>6 DEF AskLocal
  <2> QED
    BY <2>1, <2>2, <2>3, RecentAnswer
<1>7. CASE CloseRedis
  BY <1>7 DEF CloseRedis, ChainTypes, CacheIsRecent, LookupsHaveBegun, AnswersAreRecent
<1>8. CASE UNCHANGED chainVars
  BY <1>8 DEF chainVars, ChainTypes, CacheIsRecent, LookupsHaveBegun, AnswersAreRecent
<1> QED
  BY <1>1, <1>2, <1>3, <1>4, <1>5, <1>6, <1>7, <1>8, EntriesExpire, ChangesAreNoted, TimePasses
     DEF PolicyChainNext

\* Whatever changes, expires or fails between the awaits of get_policy(), the answer
\* it returns was in force no longer than the cache's ttl before it was called.
THEOREM LookupsAnswerRecently == PolicyChainSpec => []AnswersAreRecent
<1>1. PolicyChainInit => ChainInv
  BY ChainBegins
<1>2. ChainInv /\ [PolicyChainNext]_chainVars => ChainInv'
  BY ChainStep
<1>3. ChainInv => AnswersAreRecent
  BY DEF ChainInv
<1> QED
  BY <1>1, <1>2, <1>3, PTL DEF PolicyChainSpec

-----------------------------------------------------------------------------
(* The governance of trades *)

GovernanceSpec == GovernanceInit /\ [][GovernanceNext]_governanceVars

Trade ==
    [symbol : {c.symbol : c \in TradeContexts}, timeframe : {c.timeframe : c \in TradeContexts},
     time : Nat, open : BOOLEAN, pnl : TradePnl \cup {{}}, informed : BOOLEAN]

\* The service is told only of trades that have closed.
TradesAreTyped ==
    /\ hour \in Nat /\ taken \in Seq(Trade)
    /\ \A i \in DOMAIN taken : taken[i].time <= hour
    /\ told \subseteq Closed

\* What the trade i was judged by has closed, and changes no more.
JudgedByClosed == \A i \in Informed : \A j \in 1..(i - 1) : ~taken[j].open

\* What GovernanceHolds says of the trade i
CapsHoldAt(i) ==
    /\ Cardinality(Before(i)) < MaxTradesPerDay
    /\ Cardinality({j \in Before(i) : taken[j].symbol = taken[i].symbol}) < MaxTradesPerSymbol
    /\ Cardinality({j \in Before(i) : taken[j].timeframe = taken[i].timeframe}) < MaxTradesPerTimeframe
LossEndsTheDayOf(i) ==
    (\A j \in Before(i) : taken[j].pnl # {}) => ~(DayPnl(Before(i)) <= -MaxDailyLoss)
SpacedAt(i) ==
    \A j \in 1..(i - 1) : taken[j].time < taken[i].time =>
        /\ taken[i].time - taken[j].time >= MinTradeSpacing
        /\ IsLoss(j) /\ (\A k \in 1..(i - 1) : taken[k].pnl # {}) =>
              taken[i].time - taken[j].time >= CooldownAfterLoss
Governed(i) == CapsHoldAt(i) /\ LossEndsTheDayOf(i) /\ SpacedAt(i)

GovernanceInv == TradesAreTyped /\ JudgedByClosed /\ \A i \in Informed : Governed(i)

LEMMA GovernedIsEnough == GovernanceInv => GovernanceHolds
<1> SUFFICES ASSUME GovernanceInv PROVE GovernanceHolds
  OBVIOUS
<1>1. DOMAIN taken = 1..Len(taken) /\ Len(taken) \in Nat
  BY DEF GovernanceInv, TradesAreTyped
<1>2. \A i \in Informed : CapsHoldAt(i) /\ LossEndsTheDayOf(i) /\ SpacedAt(i)
  BY DEF GovernanceInv, Governed
<1>3. CapsHoldWhenTold
  BY <1>2 DEF CapsHoldWhenTold, CapsHoldAt
<1>4. LossesEndTheDay
  BY <1>2 DEF LossesEndTheDay, LossEndsTheDayOf
<1>5. TradesAreSpaced
  <2>1. \A i \in Informed, j \in DOMAIN taken : j < i => j \in 1..(i - 1)
    BY <1>1 DEF Informed
  <2> QED
    BY <1>2, <2>1 DEF TradesAreSpaced, SpacedAt
<1> QED
  BY <1>3, <1>4, <1>5 DEF GovernanceHolds

\* A trade stays governed as long as it and those before it keep what they are
\* judged by.
LEMMA GovernedStays ==
    ASSUME NEW i \in Nat, Governed(i),
           \A j \in 1..(i - 1) : taken'[j] = taken[j],
           taken'[i].time = taken[i].time, taken'[i].symbol = taken[i].symbol,
           taken'[i].timeframe = taken[i].timeframe
    PROVE  Governed(i)'
<1>1. PICK before : before = Before(i)
  OBVIOUS
<1>2. Before(i)' = before /\ before \subseteq 1..(i - 1)
  BY <1>1 DEF Before
<1>3. CapsHoldAt(i)'
  <2>1. {j \in before : taken'[j].symbol = taken'[i].symbol}
           = {j \in before : taken[j].symbol = taken[i].symbol}
    BY <1>2
  <2>2. {j \in before : taken'[j].timeframe = taken'[i].timeframe}
           = {j \in before : taken[j].timeframe = taken[i].timeframe}
    BY <1>2
  <2> QED
    BY <1>1, <1>2, <2>1, <2>2 DEF Governed, CapsHoldAt
<1>4. LossEndsTheDayOf(i)'
  <2>1. [j \in before |-> PnlOf(taken'[j].pnl)] = [j \in before |-> PnlOf(taken[j].pnl)]
    BY <1>2
  <2>2. DayPnl(Before(i))' = DayPnl(Before(i))
    BY <1>1, <1>2, <2>1 DEF DayPnl
  <2> QED
    BY <1>1, <1>2, <2>2 DEF Governed, LossEndsTheDayOf
<1>5. SpacedAt(i)'
  <2>1. \A j \in 1..(i - 1) : IsLoss(j)' <=> IsLoss(j)
    BY DEF IsLoss
  <2> QED
    BY <2>1 DEF Governed, SpacedAt
<1> QED
  BY <1>3, <1>4, <1>5 DEF Governed

\* The greatest of bounded numbers is one of them, and no other is greater.
LEMMA GreatestOf ==
    ASSUME NEW n \in Nat, NEW S \in SUBSET (0..n), S # {}
    PROVE  Max(S) \in S /\ \A x \in S : x <= Max(S)
<1> DEFINE R == OpToRel(<, Nat)
           T == {n - x : x \in S}
<1>1. IsWellFoundedOn(R, Nat)
  BY NatLessThanWellFounded
<1>2. T \subseteq Nat /\ T # {}
  <2>1. \A x \in S : x \in 0..n
    OBVIOUS
  <2>2. \A x \in S : n - x \in Nat
    BY <2>1
  <2> QED
    BY <2>2
<1>3. \A a, b \in T : a < b => <<a, b>> \in R
  BY <1>2 DEF OpToRel
<1> HIDE DEF R, T
<1>4. PICK t \in T : \A a \in T : ~(<<a, t>> \in R)
  BY <1>1, <1>2, WFMin
<1>5. \A a \in T : a >= t
  <2>1. \A a \in T : ~(a < t)
    BY <1>3, <1>4
  <2>2. t \in Nat /\ \A a \in T : a \in Nat
    BY <1>2, <1>4
  <2> QED
    BY <2>1, <2>2
<1>6. PICK x \in S : t = n - x
  BY <1>4 DEF T
<1>7. \A y \in S : n - y >= n - x
  BY <1>5, <1>6 DEF T
<1>8. \A y \in S : x >= y
  BY <1>7
<1>9. \A y \in S : Max(S) >= y
  BY <1>6, <1>8 DEF Max
<1>10. Max(S) \in S
  BY <1>6, <1>8 DEF Max
<1> QED
  BY <1>9, <1>10

\* Outside a recent span every one of its moments is at least the span away.
LEMMA NotRecent ==
    ASSUME NEW times \in SUBSET Nat, NEW span \in Nat, hour \in Nat, \A t \in times : t <= hour,
           ~Recent(times, span)
    PROVE  \A t \in times : hour - t >= span
<1> SUFFICES ASSUME NEW t \in times PROVE hour - t >= span
  OBVIOUS
<1>1. times \in SUBSET (0..hour) /\ times # {}
  OBVIOUS
<1>2. Max(times) \in Nat /\ t <= Max(times)
  BY <1>1, GreatestOf
<1>3. ~(hour < Max(times) + span)
  BY <1>1 DEF Recent
<1> QED
  BY <1>2, <1>3

LEMMA ClosedIsBounded ==
    ASSUME TradesAreTyped, Closed # {}
    PROVE  Max(Closed) \in Closed
<1>1. Len(taken) \in Nat /\ Closed \in SUBSET (0..Len(taken))
  BY DEF TradesAreTyped, Closed
<1> QED
  BY <1>1, GreatestOf

\* A trade that evaluate_trade() lets pass, told of every trade before, is governed.
LEMMA JudgedWell ==
    ASSUME GovernanceInv, NEW c \in TradeContexts, EvaluateTrade(c), told = DOMAIN taken,
           NEW m \in Nat, m = Len(taken)
    PROVE  Governed(m + 1)'
<1> USE DEF GovernanceInv
<1> DEFINE rec == [symbol |-> c.symbol, timeframe |-> c.timeframe, time |-> hour,
                   open |-> TRUE, pnl |-> {}, informed |-> told = DOMAIN taken]
<1>1. rec.symbol = c.symbol /\ rec.timeframe = c.timeframe /\ rec.time = hour
  OBVIOUS
<1>2. rec \in Trade
  BY DEF Trade, TradesAreTyped
<1>3. taken' = Append(taken, rec) /\ hour' = hour
  BY DEF EvaluateTrade
<1> HIDE DEF rec
<1>4. /\ told = 1..m /\ taken'[m + 1] = rec
      /\ \A j \in 1..m : taken'[j] = taken[j]
  BY <1>2, <1>3, AppendProperties DEF TradesAreTyped
<1>5. PICK today : today = Today(told)
  OBVIOUS
<1>6. (m + 1) - 1 = m
  BY <1>4
<1>7. Before(m + 1)' = today /\ today \subseteq 1..m
  BY <1>1, <1>4, <1>5, <1>6 DEF Before, Today
<1>8. /\ ~(Cardinality(today) >= MaxTradesPerDay)
      /\ ~(CalculateDailyLoss(told) <= -MaxDailyLoss)
      /\ ~Recent(FindLastLossTime(told), CooldownAfterLoss)
      /\ ~(CountDailySymbolTrades(c.symbol, told) >= MaxTradesPerSymbol)
      /\ ~(CountDailyTimeframeTrades(c.timeframe, told) >= MaxTradesPerTimeframe)
      /\ ~Recent(FindLastTradeTime(told), MinTradeSpacing)
  <2>1. "day" \notin Violations(c, told)
    BY DEF EvaluateTrade
  <2>2. "loss" \notin Violations(c, told)
    BY DEF EvaluateTrade
  <2>3. "cooldown" \notin Violations(c, told)
    BY DEF EvaluateTrade
  <2>4. "symbol" \notin Violations(c, told)
    BY DEF EvaluateTrade
  <2>5. "timeframe" \notin Violations(c, told)
    BY DEF EvaluateTrade
  <2>6. "spacing" \notin Violations(c, told)
    BY DEF EvaluateTrade
  <2>7. ~(Cardinality(today) >= MaxTradesPerDay)
    BY <2>1, <1>5 DEF Violations
  <2>8. ~(CalculateDailyLoss(told) <= -MaxDailyLoss)
    BY <2>2 DEF Violations
  <2>9. ~Recent(FindLastLossTime(told), CooldownAfterLoss)
    BY <2>3 DEF Violations
  <2>10. ~(CountDailySymbolTrades(c.symbol, told) >= MaxTradesPerSymbol)
    BY <2>4 DEF Violations
  <2>11. ~(CountDailyTimeframeTrades(c.timeframe, told) >= MaxTradesPerTimeframe)
    BY <2>5 DEF Violations
  <2>12. ~Recent(FindLastTradeTime(told), MinTradeSpacing)
    BY <2>6 DEF Violations
  <2> QED
    BY <2>7, <2>8, <2>9, <2>10, <2>11, <2>12
<1>9. CapsHoldAt(m + 1)'
  <2> DEFINE symbols == {j \in today : taken[j].symbol = c.symbol}
             timeframes == {j \in today : taken[j].timeframe = c.timeframe}
  <2>1. IsFiniteSet(1..m)
    BY <1>4, FS_Interval
  <2>2. IsFiniteSet(today) /\ IsFiniteSet(symbols) /\ IsFiniteSet(timeframes)
    BY <1>7, <2>1, FS_Subset
  <2>3. /\ Cardinality(today) \in Nat /\ Cardinality(symbols) \in Nat
        /\ Cardinality(timeframes) \in Nat
    BY <2>2, FS_CardinalityType
  <2>4. /\ CountDailySymbolTrades(c.symbol, told) = Cardinality(symbols)
        /\ CountDailyTimeframeTrades(c.timeframe, told) = Cardinality(timeframes)
    BY <1>5 DEF CountDailySymbolTrades, CountDailyTimeframeTrades
  <2>5. /\ {j \in today : taken'[j].symbol = taken'[m + 1].symbol} = symbols
        /\ {j \in today : taken'[j].timeframe = taken'[m + 1].timeframe} = timeframes
    BY <1>1, <1>4, <1>7
  <2> HIDE DEF symbols, timeframes
  <2>6. /\ MaxTradesPerDay \in Nat /\ MaxTradesPerSymbol \in Nat /\ MaxTradesPerTimeframe \in Nat
    BY GovernanceAssumption
  <2>7. /\ Cardinality(today) < MaxTradesPerDay /\ Cardinality(symbols) < MaxTradesPerSymbol
        /\ Cardinality(timeframes) < MaxTradesPerTimeframe
    BY <1>8, <2>3, <2>4, <2>6
  <2> QED
    BY <1>7, <2>5, <2>7 DEF CapsHoldAt
<1>10. LossEndsTheDayOf(m + 1)'
  <2>1. [j \in today |-> PnlOf(taken'[j].pnl)] = [j \in today |-> PnlOf(taken[j].pnl)]
    BY <1>4, <1>7
  <2>2. DayPnl(Before(m + 1))' = DayPnl(today)
    BY <1>7, <2>1 DEF DayPnl
  <2>3. (\A j \in today : taken[j].pnl # {}) => CalculateDailyLoss(told) = DayPnl(today)
    BY <1>5 DEF CalculateDailyLoss
  <2> QED
    BY <1>4, <1>7, <1>8, <2>2, <2>3 DEF LossEndsTheDayOf
<1>11. SpacedAt(m + 1)'
  <2> SUFFICES ASSUME NEW j \in 1..m, taken[j].time < hour
               PROVE  /\ hour - taken[j].time >= MinTradeSpacing
                      /\ IsLoss(j) /\ (\A k \in 1..m : taken[k].pnl # {}) =>
                            hour - taken[j].time >= CooldownAfterLoss
    BY <1>1, <1>4, <1>6 DEF SpacedAt, IsLoss
  <2>1. \A i \in told : taken[i].time \in Nat /\ taken[i].time <= hour
    <3>1. \A i \in DOMAIN taken : taken[i] \in Trade
      BY DEF TradesAreTyped
    <3> QED
      BY <3>1 DEF TradesAreTyped, Trade
  <2>2. hour \in Nat /\ MinTradeSpacing \in Nat /\ CooldownAfterLoss \in Nat
    BY GovernanceAssumption DEF TradesAreTyped
  <2>3. j \in Earlier(told)
    BY <1>4 DEF Earlier
  <2>4. hour - taken[j].time >= MinTradeSpacing
    <3>1. /\ FindLastTradeTime(told) \in SUBSET Nat
          /\ \A t \in FindLastTradeTime(told) : t <= hour
          /\ taken[j].time \in FindLastTradeTime(told)
      BY <2>1, <2>3 DEF FindLastTradeTime, Earlier
    <3> QED
      BY <1>8, <2>2, <3>1, NotRecent
  <2>5. ASSUME IsLoss(j), \A k \in 1..m : taken[k].pnl # {}
        PROVE  hour - taken[j].time >= CooldownAfterLoss
    <3>1. FindLastLossTime(told) = {taken[i].time : i \in {k \in Earlier(told) : IsLoss(k)}}
      BY <1>4, <2>5 DEF FindLastLossTime, Earlier
    <3>2. /\ FindLastLossTime(told) \in SUBSET Nat
          /\ \A t \in FindLastLossTime(told) : t <= hour
          /\ taken[j].time \in FindLastLossTime(told)
      BY <2>1, <2>3, <2>5, <3>1 DEF Earlier
    <3> QED
      BY <1>8, <2>2, <3>2, NotRecent
  <2> QED
    BY <2>4, <2>5
<1> QED
  BY <1>9, <1>10, <1>11 DEF Governed

LEMMA TradeIsTaken ==
    ASSUME GovernanceInv, NEW c \in TradeContexts, EvaluateTrade(c)
    PROVE  GovernanceInv'
<1> USE DEF GovernanceInv
<1> DEFINE rec == [symbol |-> c.symbol, timeframe |-> c.timeframe, time |-> hour,
                   open |-> TRUE, pnl |-> {}, informed |-> told = DOMAIN taken]
<1>1. PICK m \in Nat : m = Len(taken)
  BY DEF TradesAreTyped
<1>2. /\ rec \in Trade /\ rec.time = hour /\ rec.open /\ (rec.informed <=> told = DOMAIN taken)
      /\ hour \in Nat
  BY DEF Trade, TradesAreTyped
<1>3. taken' = Append(taken, rec) /\ hour' = hour /\ told' = told
  BY DEF EvaluateTrade
<1> HIDE DEF rec
<1>4. /\ taken' \in Seq(Trade) /\ DOMAIN taken' = 1..(m + 1) /\ DOMAIN taken = 1..m
      /\ taken'[m + 1] = rec /\ \A j \in 1..m : taken'[j] = taken[j]
  BY <1>1, <1>2, <1>3, AppendProperties DEF TradesAreTyped
<1>5. \A i \in 1..(m + 1) : i \in 1..m \/ i = m + 1
  BY <1>1
<1>6. told \subseteq 1..m /\ \A i \in told : ~taken[i].open
  BY <1>4 DEF TradesAreTyped, Closed
<1>7. TradesAreTyped'
  <2>1. \A i \in 1..(m + 1) : taken'[i].time <= hour
    BY <1>2, <1>4, <1>5 DEF TradesAreTyped
  <2>2. 1..m \subseteq 1..(m + 1)
    BY <1>1
  <2> QED
    BY <1>2, <1>3, <1>4, <1>6, <2>1, <2>2 DEF TradesAreTyped, Closed
<1>8. \A i \in Informed' : i \in Informed \/ (i = m + 1 /\ told = DOMAIN taken)
  BY <1>2, <1>4, <1>5 DEF Informed
<1>9. \A i \in 1..m : \A j \in 1..(i - 1) : j \in 1..m /\ taken'[j] = taken[j]
  BY <1>1, <1>4
<1>10. JudgedByClosed'
  <2> SUFFICES ASSUME NEW i \in Informed', NEW j \in 1..(i - 1)
               PROVE  ~taken'[j].open
    BY DEF JudgedByClosed
  <2>1. CASE i \in Informed
    BY <1>4, <1>9, <2>1 DEF JudgedByClosed, Informed
  <2>2. CASE i = m + 1 /\ told = DOMAIN taken
    BY <1>1, <1>4, <1>6, <2>2
  <2> QED
    BY <1>8, <2>1, <2>2
<1>11. ASSUME NEW i \in Informed' PROVE Governed(i)'
  <2>1. CASE i \in Informed
    <3>1. Governed(i) /\ i \in 1..m
      BY <1>4, <2>1 DEF Informed
    <3> QED
      BY <1>4, <1>9, <3>1, GovernedStays
  <2>2. CASE i = m + 1 /\ told = DOMAIN taken
    BY <1>1, <2>2, JudgedWell
  <2> QED
    BY <1>8, <2>1, <2>2
<1> QED
  BY <1>7, <1>10, <1>11

\* What a trade was judged by does not change when another one closes: it had closed.
LEMMA TradeIsClosed ==
    ASSUME GovernanceInv, NEW k \in DOMAIN taken, NEW pnl \in TradePnl, TradeCloses(k, pnl)
    PROVE  GovernanceInv'
<1> USE DEF GovernanceInv
<1> DEFINE rec == [taken[k] EXCEPT !.open = FALSE, !.pnl = pnl]
<1>1. taken[k] \in Trade /\ taken[k].open
  BY DEF TradesAreTyped, TradeCloses
<1>2. /\ rec \in Trade /\ rec.time = taken[k].time /\ rec.symbol = taken[k].symbol
      /\ rec.timeframe = taken[k].timeframe /\ rec.informed = taken[k].informed /\ ~rec.open
  BY <1>1 DEF Trade
<1>3. taken' = [taken EXCEPT ![k] = rec] /\ hour' = hour /\ told' = told
  BY DEF TradeCloses
<1> HIDE DEF rec
<1>4. /\ taken' \in Seq(Trade) /\ DOMAIN taken' = DOMAIN taken /\ taken'[k] = rec
      /\ \A j \in DOMAIN taken : j # k => taken'[j] = taken[j]
  BY <1>2, <1>3 DEF TradesAreTyped
<1>5. PICK m \in Nat : DOMAIN taken = 1..m
  BY DEF TradesAreTyped
<1>6. Informed' = Informed
  BY <1>2, <1>4 DEF Informed
<1>7. TradesAreTyped'
  <2>1. \A i \in DOMAIN taken : taken'[i].time <= hour
    BY <1>2, <1>4 DEF TradesAreTyped
  <2>2. Closed \subseteq Closed'
    BY <1>2, <1>4 DEF Closed
  <2> QED
    BY <1>3, <1>4, <2>1, <2>2 DEF TradesAreTyped
<1>8. JudgedByClosed'
  BY <1>2, <1>4, <1>5, <1>6 DEF JudgedByClosed, Informed
<1>9. ASSUME NEW i \in Informed PROVE Governed(i)'
  <2>1. i \in 1..m /\ Governed(i) /\ \A j \in 1..(i - 1) : j \in 1..m /\ j # k
    BY <1>1, <1>5 DEF JudgedByClosed, Informed
  <2>2. \A j \in 1..(i - 1) : taken'[j] = taken[j]
    BY <1>4, <1>5, <2>1
  <2>3. /\ taken'[i].time = taken[i].time /\ taken'[i].symbol = taken[i].symbol
        /\ taken'[i].timeframe = taken[i].timeframe
    BY <1>2, <1>4, <1>5, <2>1
  <2> QED
    BY <2>1, <2>2, <2>3, GovernedStays
<1> QED
  BY <1>6, <1>7, <1>8, <1>9

LEMMA GovernanceStep ==
    ASSUME GovernanceInv, [GovernanceNext]_governanceVars
    PROVE  GovernanceInv'
<1>1. ASSUME taken' = taken, hour' \in Nat, hour <= hour', told' \subseteq Closed
      PROVE  GovernanceInv'
  <2>1. \A i \in DOMAIN taken : taken[i].time \in Nat /\ taken[i].time <= hour /\ hour \in Nat
    <3>1. \A i \in DOMAIN taken : taken[i] \in Trade
      BY DEF GovernanceInv, TradesAreTyped
    <3> QED
      BY <3>1 DEF GovernanceInv, TradesAreTyped, Trade
  <2>2. TradesAreTyped'
    BY <1>1, <2>1 DEF GovernanceInv, TradesAreTyped, Closed
  <2>3. Informed' = Informed /\ JudgedByClosed'
    BY <1>1 DEF GovernanceInv, JudgedByClosed, Informed
  <2>4. \A i \in Informed : i \in Nat /\ Governed(i)
    BY DEF GovernanceInv, TradesAreTyped, Informed
  <2>5. ASSUME NEW i \in Informed PROVE Governed(i)'
    BY <1>1, <2>4, GovernedStays
  <2> QED
    BY <2>2, <2>3, <2>5 DEF GovernanceInv
<1>2. hour \in Nat /\ told \subseteq Closed
  BY DEF GovernanceInv, TradesAreTyped
<1>3. ASSUME Closed # {}, NEW given \in {Closed, {Max(Closed)}}, AddOutcomes(given)
      PROVE  GovernanceInv'
  BY <1>1, <1>2, <1>3, ClosedIsBounded DEF AddOutcomes, GovernanceInv
<1>4. CASE HourPasses
  BY <1>1, <1>2, <1>4 DEF HourPasses
<1>5. CASE UNCHANGED governanceVars
  BY <1>1, <1>2, <1>5 DEF governanceVars
<1> QED
  BY <1>3, <1>4, <1>5, TradeIsTaken, TradeIsClosed DEF GovernanceNext

\* Whatever evaluate_trade() has been told, and in whichever order trades close: one
\* it lets pass knowing all those before keeps the day's caps, stops after the day's
\* loss, and keeps its distance from earlier trades and losses.
THEOREM InformedTradesAreGoverned == GovernanceSpec => []GovernanceHolds
<1>1. GovernanceInit => GovernanceInv
  BY DEF GovernanceInit, GovernanceInv, TradesAreTyped, JudgedByClosed, Informed, Closed
<1>2. GovernanceInv /\ [GovernanceNext]_governanceVars => GovernanceInv'
  BY GovernanceStep
<1> QED
  BY <1>1, <1>2, GovernedIsEnough, PTL DEF GovernanceSpec

-----------------------------------------------------------------------------
(* The policies over outcomes *)

OutcomePolicySpec == OutcomePolicyInit /\ [][OutcomePolicyNext]_outcomeVars

Rule == ToSet(DefaultRules)
Evaluation ==
    [signal_type : {t.signal_type : t \in PaperTrades}, symbol : {t.symbol : t \in PaperTrades},
     left : Seq(Rule), shared : BOOLEAN, decision : {"asking", "allow", "veto"},
     answered : BOOLEAN, broken : SUBSET Rule, down : BOOLEAN]

PolicyTypes ==
    /\ outcomes \in Seq(DecisionOutcome) /\ rules \in Seq(Rule)
    /\ evaluation \in Seq(Evaluation)
    /\ shadow = "new" => rules = <<>>

\* What NewSignalsPass asks of a refusal
Founded(table, signal, symbol) ==
    LET rows == Of(table, signal, symbol)
    IN  \/ Cardinality(rows) >= MinTrades \/ Cardinality(rows) >= MinDrawdownTrades
        \/ Cardinality({j \in rows : table[j].outcome = "loss"}) > MaxStreak

\* A rule that has been broken all along has not been asked yet, or gave no answer.
Judged(table, inForce, e) ==
    /\ e.decision = "asking" =>
          /\ e.left # <<>> /\ (e.answered => e.broken \subseteq ToSet(e.left))
          /\ e.broken \subseteq Broken(table, inForce, e.signal_type, e.symbol)
    /\ e.decision = "allow" /\ e.answered => e.broken = {}
    /\ e.decision = "veto" => Founded(table, e.signal_type, e.symbol)

OutcomeInv ==
    /\ PolicyTypes /\ RAgreesWithPnl
    /\ \A i \in DOMAIN evaluation : Judged(outcomes, ToSet(rules), evaluation[i])

LEMMA JudgedIsEnough == OutcomeInv => OutcomePolicyHolds
  BY DEF OutcomeInv, OutcomePolicyHolds, BrokenRulesVeto, NewSignalsPass, Answer, Judged, Founded, Of

\* A row that closes somewhere in between moves the later ones up.
LEMMA InsertedRow ==
    ASSUME NEW T, NEW s \in Seq(T), NEW x \in T, NEW p \in 1..(Len(s) + 1)
    PROVE  /\ InsertAt(s, p, x) \in Seq(T) /\ Len(InsertAt(s, p, x)) = Len(s) + 1
           /\ InsertAt(s, p, x)[p] = x
           /\ \A j \in 1..Len(s) : InsertAt(s, p, x)[IF j < p THEN j ELSE j + 1] = s[j]
<1> DEFINE n == Len(s)
           front == SubSeq(s, 1, p - 1)
           back == SubSeq(s, p, n)
           mid == front \o <<x>>
<1>1. n \in Nat /\ p \in Nat /\ \A i \in 1..n : s[i] \in T
  BY ElementOfSeq
<1> HIDE DEF n
<1>2. p \in 1..(n + 1)
  BY DEF n
<1>3. front \in Seq(T) /\ Len(front) = p - 1 /\ \A i \in 1..(p - 1) : front[i] = s[i]
  <2>1. 1 \in Int /\ p - 1 \in Int /\ \A i \in 1..(p - 1) : s[i] \in T
    BY <1>1, <1>2
  <2>2. /\ front \in Seq(T) /\ Len(front) = IF 1 <= p - 1 THEN p - 1 - 1 + 1 ELSE 0
        /\ \A i \in 1..(p - 1 - 1 + 1) : front[i] = s[1 + i - 1]
    BY <2>1, SubSeqProperties
  <2> HIDE DEF front
  <2> QED
    BY <1>1, <1>2, <2>2
<1>4. /\ back \in Seq(T) /\ Len(back) = n - p + 1
      /\ \A i \in 1..(n - p + 1) : back[i] = s[p + i - 1]
  <2>1. p \in Int /\ n \in Int /\ \A i \in p..n : s[i] \in T
    BY <1>1, <1>2
  <2>2. /\ back \in Seq(T) /\ Len(back) = IF p <= n THEN n - p + 1 ELSE 0
        /\ \A i \in 1..(n - p + 1) : back[i] = s[p + i - 1]
    BY <2>1, SubSeqProperties
  <2> HIDE DEF back
  <2> QED
    BY <1>1, <1>2, <2>2
<1> HIDE DEF front, back
<1>5. <<x>> \in Seq(T) /\ Len(<<x>>) = 1 /\ <<x>>[1] = x
  OBVIOUS
<1>6. /\ mid \in Seq(T) /\ Len(mid) = p
      /\ \A i \in 1..(p - 1) : mid[i] = s[i]
      /\ mid[p] = x
  <2>1. /\ mid \in Seq(T) /\ Len(mid) = p - 1 + 1
        /\ \A i \in 1..(p - 1 + 1) : mid[i] = IF i <= p - 1 THEN front[i] ELSE <<x>>[i - (p - 1)]
    BY <1>3, <1>5, ConcatProperties
  <2> HIDE DEF mid
  <2>2. p - 1 + 1 = p /\ p - (p - 1) = 1 /\ \A i \in 1..(p - 1) : i \in 1..p /\ i <= p - 1
    BY <1>1
  <2>3. ASSUME NEW i \in 1..(p - 1) PROVE mid[i] = s[i]
    BY <1>3, <2>1, <2>2
  <2>4. p \in 1..p /\ ~(p <= p - 1)
    BY <1>1
  <2>5. mid[p] = x
    BY <1>5, <2>1, <2>2, <2>4
  <2> QED
    BY <2>1, <2>2, <2>3, <2>5
<1> HIDE DEF mid
<1>7. InsertAt(s, p, x) = mid \o back
  BY DEF InsertAt, mid, front, back, n
<1>8. PICK t : t = mid \o back
  OBVIOUS
<1>9. /\ t \in Seq(T) /\ Len(t) = p + (n - p + 1)
      /\ \A i \in 1..(p + (n - p + 1)) : t[i] = IF i <= p THEN mid[i] ELSE back[i - p]
  <2>1. /\ t \in Seq(T) /\ Len(t) = Len(mid) + Len(back)
        /\ \A i \in 1..(Len(mid) + Len(back)) :
              t[i] = IF i <= Len(mid) THEN mid[i] ELSE back[i - Len(mid)]
    BY <1>4, <1>6, <1>8, ConcatProperties
  <2> QED
    BY <1>4, <1>6, <2>1
<1>10. Len(t) = n + 1 /\ \A i \in 1..(n + 1) : t[i] = IF i <= p THEN mid[i] ELSE back[i - p]
  BY <1>1, <1>9
<1>11. t[p] = x
  BY <1>1, <1>2, <1>6, <1>10
<1>12. ASSUME NEW j \in 1..n
       PROVE  t[IF j < p THEN j ELSE j + 1] = s[j]
  <2>1. CASE j < p
    BY <1>1, <1>2, <1>6, <1>10, <2>1
  <2>2. CASE ~(j < p)
    <3>1. j + 1 \in 1..(n + 1) /\ ~(j + 1 <= p) /\ j + 1 - p \in 1..(n - p + 1)
          /\ p + (j + 1 - p) - 1 = j
      BY <1>1, <1>2, <2>2
    <3> QED
      BY <1>4, <1>10, <2>2, <3>1
  <2> QED
    BY <2>1, <2>2
<1> QED
  BY <1>7, <1>8, <1>9, <1>10, <1>11, <1>12 DEF n

\* No row of a signal is lost when another row comes in.
LEMMA RowsGrow ==
    ASSUME NEW table \in Seq(DecisionOutcome), NEW p \in 1..(Len(table) + 1),
           NEW grown \in Seq(DecisionOutcome), Len(grown) = Len(table) + 1,
           \A j \in 1..Len(table) : grown[IF j < p THEN j ELSE j + 1] = table[j],
           NEW A \in SUBSET (1..Len(table)), NEW B \in SUBSET (1..Len(grown)),
           \A j \in A : (IF j < p THEN j ELSE j + 1) \in B
    PROVE  Cardinality(A) \in Nat /\ Cardinality(B) \in Nat /\ Cardinality(A) <= Cardinality(B)
<1> DEFINE f == [j \in A |-> IF j < p THEN j ELSE j + 1]
<1>1. Len(table) \in Nat /\ Len(grown) \in Nat /\ p \in Nat
  OBVIOUS
<1>2. IsFiniteSet(1..Len(table)) /\ IsFiniteSet(1..Len(grown))
  <2>1. \A n \in Nat : IsFiniteSet(1..n)
    <3> SUFFICES ASSUME NEW n \in Nat PROVE IsFiniteSet(1..n)
      OBVIOUS
    <3> QED
      BY 1 \in Int /\ n \in Int, FS_Interval
  <2> QED
    BY <1>1, <2>1
<1>3. IsFiniteSet(A) /\ IsFiniteSet(B)
  BY <1>2, FS_Subset
<1>4. \A j \in A : j \in Nat
  BY <1>1
<1>5. f \in [A -> B]
  OBVIOUS
<1>6. \A i, j \in A : f[i] = f[j] => i = j
  BY <1>1, <1>4
<1> HIDE DEF f
<1>7. f \in Injection(A, B)
  BY <1>5, <1>6 DEF Injection, IsInjective
<1> QED
  BY <1>3, <1>7, FS_CardinalityType, FS_Injection

LEMMA FoundedStays ==
    ASSUME NEW table \in Seq(DecisionOutcome), NEW p \in 1..(Len(table) + 1),
           NEW grown \in Seq(DecisionOutcome), Len(grown) = Len(table) + 1,
           \A j \in 1..Len(table) : grown[IF j < p THEN j ELSE j + 1] = table[j],
           NEW signal, NEW symbol, Founded(table, signal, symbol)
    PROVE  Founded(grown, signal, symbol)
<1> DEFINE A == Of(table, signal, symbol)
           B == Of(grown, signal, symbol)
           losses == {j \in A : table[j].outcome = "loss"}
           grownLosses == {j \in B : grown[j].outcome = "loss"}
           up(j) == IF j < p THEN j ELSE j + 1
<1>1. Len(table) \in Nat /\ p \in Nat /\ DOMAIN table = 1..Len(table) /\ DOMAIN grown = 1..Len(grown)
  OBVIOUS
<1>2. \A j \in 1..Len(table) : up(j) \in 1..Len(grown) /\ grown[up(j)] = table[j]
  BY <1>1
<1> HIDE DEF up
<1>3. /\ A \in SUBSET (1..Len(table)) /\ B \in SUBSET (1..Len(grown))
      /\ \A j \in A : up(j) \in B
  BY <1>1, <1>2 DEF Of
<1> HIDE DEF A, B
<1>4. /\ losses \in SUBSET (1..Len(table)) /\ grownLosses \in SUBSET (1..Len(grown))
      /\ \A j \in losses : up(j) \in grownLosses
  BY <1>2, <1>3
<1> HIDE DEF losses, grownLosses
<1>5. Cardinality(A) \in Nat /\ Cardinality(B) \in Nat /\ Cardinality(A) <= Cardinality(B)
  BY <1>3, RowsGrow DEF up
<1>6. /\ Cardinality(losses) \in Nat /\ Cardinality(grownLosses) \in Nat
      /\ Cardinality(losses) <= Cardinality(grownLosses)
  BY <1>4, RowsGrow DEF up
<1>7. MinTrades \in Nat /\ MinDrawdownTrades \in Nat /\ MaxStreak \in Nat
  BY OutcomePolicyAssumption
<1>8. \/ Cardinality(A) >= MinTrades \/ Cardinality(A) >= MinDrawdownTrades
      \/ Cardinality(losses) > MaxStreak
  BY DEF Founded, A, losses
<1>9. \/ Cardinality(B) >= MinTrades \/ Cardinality(B) >= MinDrawdownTrades
      \/ Cardinality(grownLosses) > MaxStreak
  BY <1>5, <1>6, <1>7, <1>8
<1> QED
  BY <1>9 DEF Founded, B, grownLosses

\* A rule that refuses a signal has enough of its rows, or losses in a row.
LEMMA VetoIsFounded ==
    ASSUME NEW table \in Seq(DecisionOutcome), NEW rule, NEW signal, NEW symbol,
           Vetoes(rule, table, Of(table, signal, symbol))
    PROVE  Founded(table, signal, symbol)
<1> DEFINE A == Of(table, signal, symbol)
           losses == {j \in A : table[j].outcome = "loss"}
           streak == {i \in A : \A j \in A : j <= i => table[j].outcome = "loss"}
<1>1. Len(table) \in Nat /\ A \subseteq 1..Len(table)
  BY DEF Of
<1>2. IsFiniteSet(1..Len(table))
  BY <1>1, FS_Interval
<1>3. IsFiniteSet(A)
  BY <1>1, <1>2, FS_Subset
<1>4. \A i \in A : i <= i
  BY <1>1
<1>5. Vetoes(rule, table, A)
  OBVIOUS
<1> HIDE DEF A
<1>6. streak \subseteq losses /\ losses \subseteq A
  BY <1>4
<1>7. CurrentStreak(table, A) = Cardinality(streak)
  BY DEF CurrentStreak
<1> HIDE DEF losses, streak
<1>8. IsFiniteSet(losses)
  BY <1>3, <1>6, FS_Subset
<1>9. /\ Cardinality(streak) <= Cardinality(losses)
      /\ Cardinality(streak) \in Nat /\ Cardinality(losses) \in Nat
  BY <1>6, <1>8, FS_Subset, FS_CardinalityType
<1>10. MaxStreak \in Nat
  BY OutcomePolicyAssumption
<1>11. \/ Cardinality(A) >= MinTrades \/ Cardinality(A) >= MinDrawdownTrades
       \/ Cardinality(streak) > MaxStreak
  BY <1>5, <1>7 DEF Vetoes, WinRateThreshold, LossStreak, AvgPnLThreshold, SymbolDrawdown
<1>12. \/ Cardinality(A) >= MinTrades \/ Cardinality(A) >= MinDrawdownTrades
       \/ Cardinality(losses) > MaxStreak
  BY <1>9, <1>10, <1>11
<1> QED
  BY <1>12 DEF Founded, A, losses

-----------------------------------------------------------------------------
(* A trade's R and its pnl *)

LEMMA SignsMultiply ==
    /\ \A x \in Int : Sign(x) \in Signs
    /\ \A x \in Int : x > 0 => Sign(x) = 1
    /\ \A x \in Int : x < 0 => Sign(x) = -1
    /\ \A a, b \in Signs : a * b \in Signs
    /\ \A a \in Signs : a * 1 = a
<1>1. /\ \A x \in Int : Sign(x) \in Signs
      /\ \A x \in Int : x > 0 => Sign(x) = 1
      /\ \A x \in Int : x < 0 => Sign(x) = -1
  BY DEF Sign, Signs
<1>2. \A a, b \in Signs : a * b \in Signs
  <2> SUFFICES ASSUME NEW a \in Signs, NEW b \in Signs PROVE a * b \in Signs
    OBVIOUS
  <2>1. CASE a = 0
    BY <2>1 DEF Signs
  <2>2. CASE a = 1
    BY <2>2 DEF Signs
  <2>3. CASE a = -1
    BY <2>3 DEF Signs
  <2> QED
    BY <2>1, <2>2, <2>3 DEF Signs
<1>3. \A a \in Signs : a * 1 = a
  BY DEF Signs
<1> QED
  BY <1>1, <1>2, <1>3

LEMMA RSignIsASign ==
    ASSUME NEW trade \in PaperTrades, NEW fill \in Int, NEW exit \in Int
    PROVE  RSign(trade, fill, exit) \in SUBSET Signs
<1> DEFINE risk == IF trade.direction = "short" THEN trade.sl - fill ELSE fill - trade.sl
           reward == IF trade.direction = "short" THEN fill - exit ELSE exit - fill
<1>1. trade.sl \in Nat
  BY OutcomePolicyAssumption
<1>2. risk \in Int /\ reward \in Int
  BY <1>1
<1>3. RSign(trade, fill, exit) = IF risk = 0 THEN {} ELSE {Sign(reward) * Sign(risk)}
  BY DEF RSign
<1> HIDE DEF risk, reward
<1>4. Sign(reward) \in Signs /\ Sign(risk) \in Signs
  BY <1>2, SignsMultiply
<1>5. Sign(reward) * Sign(risk) \in Signs
  BY <1>4, SignsMultiply
<1> QED
  BY <1>3, <1>5

\* With the stop on its side of the fill, the sign of R is that of the reward.
LEMMA RSignOfReward ==
    ASSUME NEW trade \in PaperTrades, NEW fill \in Int, NEW exit \in Int,
           IF trade.direction = "short" THEN trade.sl > fill ELSE fill > trade.sl
    PROVE  RSign(trade, fill, exit)
              = {Sign(IF trade.direction = "short" THEN fill - exit ELSE exit - fill)}
<1> DEFINE risk == IF trade.direction = "short" THEN trade.sl - fill ELSE fill - trade.sl
           reward == IF trade.direction = "short" THEN fill - exit ELSE exit - fill
<1>1. trade.sl \in Nat
  BY OutcomePolicyAssumption
<1>2. risk \in Int /\ reward \in Int /\ risk > 0
  BY <1>1
<1>3. RSign(trade, fill, exit) = IF risk = 0 THEN {} ELSE {Sign(reward) * Sign(risk)}
  BY DEF RSign
<1> HIDE DEF risk, reward
<1>4. Sign(reward) \in Signs /\ Sign(risk) = 1
  BY <1>2, SignsMultiply
<1>5. Sign(reward) * Sign(risk) = Sign(reward)
  BY <1>4, SignsMultiply
<1>6. risk # 0
  BY <1>2
<1>7. RSign(trade, fill, exit) = {Sign(reward)}
  BY <1>3, <1>5, <1>6
<1> QED
  BY <1>7 DEF reward

LEMMA RecordedRow ==
    ASSUME NEW t \in PaperTrades, NEW slippage \in Slippages, NEW exit \in {t.tp, t.sl},
           NEW row, row = RecordTradeOutcome(t, slippage, ExecuteEntry(t, slippage, exit))
    PROVE  row \in DecisionOutcome /\ (row.sound => row.r_sign = {Sign(row.pnl)})
<1>1. t.entry \in Nat /\ t.sl \in Nat /\ t.tp \in Nat /\ slippage \in Int /\ exit \in Int
  BY OutcomePolicyAssumption
<1> DEFINE result == ExecuteEntry(t, slippage, exit)
           fill == FillPrice(t, slippage)
           onSides(low, high) == low < t.entry /\ low < fill /\ t.entry < high /\ fill < high
           sound == \/ t.direction = "long" /\ onSides(t.sl, t.tp)
                    \/ t.direction = "short" /\ onSides(t.tp, t.sl)
<1>2. fill \in Int
  BY <1>1 DEF FillPrice
<1>3. result.pnl \in Int /\ result.r_sign \in SUBSET Signs
  <2>1. CASE t.direction = "none"
    <3>1. result = [pnl |-> -Abs(t.entry - t.sl), r_sign |-> {-1}]
      BY <2>1 DEF ExecuteEntry
    <3>2. -Abs(t.entry - t.sl) \in Int
      BY <1>1 DEF Abs
    <3> QED
      BY <3>1, <3>2 DEF Signs
  <2>2. CASE t.direction # "none"
    <3>1. result = [pnl |-> Pnl(t, exit), r_sign |-> RSign(t, fill, exit)]
      BY <2>2 DEF ExecuteEntry
    <3>2. Pnl(t, exit) \in Int
      BY <1>1 DEF Pnl
    <3>3. RSign(t, fill, exit) \in SUBSET Signs
      BY <1>1, <1>2, RSignIsASign
    <3> HIDE DEF fill, result
    <3> QED
      BY <3>1, <3>2, <3>3
  <2> QED
    BY <2>1, <2>2
<1>4. /\ row.signal_type = t.signal_type /\ row.symbol = t.symbol /\ row.pnl = result.pnl
      /\ row.sound = sound
      /\ row.r_sign = IF result.r_sign = {} THEN RSign(t, t.entry, t.entry + result.pnl)
                      ELSE result.r_sign
  BY DEF RecordTradeOutcome
<1>5. row \in DecisionOutcome
  <2>1. RSign(t, t.entry, t.entry + result.pnl) \in SUBSET Signs
    <3>1. t.entry \in Int /\ t.entry + result.pnl \in Int
      BY <1>1, <1>3
    <3> QED
      BY <3>1, RSignIsASign
  <2>2. PICK r_sign \in SUBSET Signs :
            r_sign = IF result.r_sign = {} THEN RSign(t, t.entry, t.entry + result.pnl)
                     ELSE result.r_sign
    BY <1>3, <2>1
  <2>3. PICK outcome \in {"win", "loss", "breakeven"} :
            outcome = CASE result.pnl > 0 -> "win" [] result.pnl < 0 -> "loss" [] OTHER -> "breakeven"
    OBVIOUS
  <2>4. row = [signal_type |-> t.signal_type, symbol |-> t.symbol, pnl |-> result.pnl,
               outcome |-> outcome, r_sign |-> r_sign, sound |-> sound]
    BY <2>2, <2>3 DEF RecordTradeOutcome
  <2>5. sound \in BOOLEAN
    OBVIOUS
  <2> HIDE DEF sound, result
  <2> QED
    BY <1>3, <2>4, <2>5 DEF DecisionOutcome
<1>6. ASSUME sound PROVE row.r_sign = {Sign(row.pnl)}
  <2>1. t.direction \in {"long", "short"} /\ t.direction # "none"
    BY <1>6
  <2>2. result.pnl = Pnl(t, exit) /\ result.r_sign = RSign(t, fill, exit)
    BY <2>1 DEF ExecuteEntry
  <2>3. IF t.direction = "short" THEN t.sl > fill ELSE fill > t.sl
    BY <1>1, <1>2, <1>6
  <2>4. PICK reward \in Int :
            reward = IF t.direction = "short" THEN fill - exit ELSE exit - fill
    BY <1>1, <1>2
  <2>5. result.r_sign = {Sign(reward)}
    BY <1>1, <1>2, <2>2, <2>3, <2>4, RSignOfReward
  <2>6. PICK pnl \in Int : pnl = Pnl(t, exit)
    BY <1>1 DEF Pnl
  <2>7. (reward > 0 /\ pnl > 0) \/ (reward < 0 /\ pnl < 0)
    BY <1>1, <1>2, <1>6, <2>4, <2>6 DEF Pnl
  <2>8. Sign(reward) = Sign(pnl)
    BY <2>7, SignsMultiply
  <2> HIDE DEF result
  <2> QED
    BY <1>4, <2>2, <2>5, <2>6, <2>8
<1> QED
  BY <1>4, <1>5, <1>6

-----------------------------------------------------------------------------
(* Evaluations *)

\* What an evaluation has been told of broken rules stays right when table and rules
\* change: history keeps only those still in force and still broken.
LEMMA StandingIsJudged ==
    ASSUME NEW e \in Evaluation,
           e.decision = "asking" =>
              e.left # <<>> /\ (e.answered => e.broken \subseteq ToSet(e.left)),
           e.decision # "asking" => Judged(outcomes', ToSet(rules'), e)
    PROVE  Standing(e) \in Evaluation /\ Judged(outcomes', ToSet(rules'), Standing(e))
<1>1. CASE e.decision # "asking"
  BY <1>1 DEF Standing
<1>2. CASE e.decision = "asking"
  <2>1. PICK broken \in SUBSET e.broken :
           broken = e.broken \cap Broken(outcomes', ToSet(rules'), e.signal_type, e.symbol)
    OBVIOUS
  <2>2. PICK down \in BOOLEAN :
           down = (e.down /\ "symbol_drawdown" \in ToSet(rules') /\ SymbolIsDown(outcomes', e.symbol))
    BY DEF Evaluation
  <2>3. PICK s : s = [e EXCEPT !.broken = broken, !.down = down]
    OBVIOUS
  <2>4. Standing(e) = s
    BY <1>2, <2>1, <2>2, <2>3 DEF Standing
  <2>5. /\ s \in Evaluation /\ s.broken = broken /\ s.decision = "asking" /\ s.left = e.left
        /\ s.answered = e.answered /\ s.signal_type = e.signal_type /\ s.symbol = e.symbol
    BY <1>2, <2>3 DEF Evaluation
  <2>6. Judged(outcomes', ToSet(rules'), s)
    BY <1>2, <2>1, <2>5 DEF Judged
  <2> QED
    BY <2>4, <2>5, <2>6
<1> QED
  BY <1>1, <1>2

LEMMA RulesAreListed ==
    ASSUME NEW s \in Seq(Rule)
    PROVE  /\ ToSet(s) \subseteq Rule
           /\ \A r \in Rule : Append(s, r) \in Seq(Rule) /\ ToSet(s) \subseteq ToSet(Append(s, r))
                              /\ Append(s, r) # <<>>
           /\ \A i \in DOMAIN s : RemoveAt(s, i) \in Seq(Rule)
           /\ s # <<>> => /\ Head(s) \in Rule /\ Tail(s) \in Seq(Rule)
                          /\ ToSet(s) \subseteq {Head(s)} \cup ToSet(Tail(s))
                          /\ Len(s) = 1 => ToSet(s) = {Head(s)}
                          /\ Len(s) # 1 => Tail(s) # <<>>
<1>1. PICK n \in Nat : n = Len(s) /\ DOMAIN s = 1..n
  OBVIOUS
<1>2. \A i \in 1..n : s[i] \in Rule
  BY <1>1, ElementOfSeq
<1>3. ToSet(s) \subseteq Rule
  BY <1>1, <1>2 DEF ToSet
<1>4. ASSUME NEW r \in Rule
      PROVE  /\ Append(s, r) \in Seq(Rule) /\ ToSet(s) \subseteq ToSet(Append(s, r))
             /\ Append(s, r) # <<>>
  <2>1. PICK t : t = Append(s, r)
    OBVIOUS
  <2>2. t \in Seq(Rule) /\ Len(t) = n + 1 /\ t # <<>> /\ \A i \in 1..n : t[i] = s[i]
    BY <1>1, <2>1, AppendProperties
  <2>3. DOMAIN t = 1..(n + 1) /\ 1..n \subseteq 1..(n + 1)
    BY <2>2
  <2>4. ToSet(s) \subseteq ToSet(t)
    BY <1>1, <2>2, <2>3 DEF ToSet
  <2> QED
    BY <2>1, <2>2, <2>4
<1>5. ASSUME NEW i \in DOMAIN s PROVE RemoveAt(s, i) \in Seq(Rule)
  <2>1. i \in 1..n
    BY <1>1
  <2>2. SubSeq(s, 1, i - 1) \in Seq(Rule)
    <3>1. 1 \in Int /\ i - 1 \in Int /\ \A j \in 1..(i - 1) : s[j] \in Rule
      BY <1>2, <2>1
    <3> QED
      BY <3>1, SubSeqProperties
  <2>3. SubSeq(s, i + 1, n) \in Seq(Rule)
    <3>1. i + 1 \in Int /\ n \in Int /\ \A j \in (i + 1)..n : s[j] \in Rule
      BY <1>1, <1>2, <2>1
    <3> QED
      BY <3>1, SubSeqProperties
  <2> QED
    BY <1>1, <2>2, <2>3, ConcatProperties DEF RemoveAt
<1>6. ASSUME s # <<>>
      PROVE  /\ Head(s) \in Rule /\ Tail(s) \in Seq(Rule)
             /\ ToSet(s) \subseteq {Head(s)} \cup ToSet(Tail(s))
             /\ Len(s) = 1 => ToSet(s) = {Head(s)}
             /\ Len(s) # 1 => Tail(s) # <<>>
  <2>1. PICK t : t = Tail(s)
    OBVIOUS
  <2>2. /\ Head(s) \in Rule /\ t \in Seq(Rule) /\ Len(t) = n - 1
        /\ \A i \in 1..Len(t) : t[i] = s[i + 1]
    BY <1>1, <1>6, <2>1, HeadTailProperties
  <2>3. n >= 1 /\ Head(s) = s[1]
    BY <1>1, <1>6
  <2>4. ASSUME NEW i \in 1..n, i # 1 PROVE s[i] \in ToSet(t)
    <3>1. i - 1 \in 1..Len(t) /\ i - 1 \in DOMAIN t /\ (i - 1) + 1 = i
      BY <1>1, <2>2, <2>4
    <3> QED
      BY <2>2, <3>1 DEF ToSet
  <2>5. ToSet(s) \subseteq {Head(s)} \cup ToSet(t)
    BY <1>1, <2>3, <2>4 DEF ToSet
  <2>6. ASSUME n = 1 PROVE ToSet(s) = {Head(s)}
    BY <1>1, <2>3, <2>6 DEF ToSet
  <2>7. ASSUME n # 1 PROVE t # <<>>
    BY <1>1, <2>2, <2>3, <2>7
  <2> QED
    BY <1>1, <2>1, <2>2, <2>5, <2>6, <2>7
<1> QED
  BY <1>3, <1>4, <1>5, <1>6

LEMMA RecordedTrade ==
    ASSUME OutcomeInv, NEW t \in PaperTrades, NEW slippage \in Slippages, NEW exit \in {t.tp, t.sl},
           ExecutePaperTrade(t, slippage, exit)
    PROVE  OutcomeInv'
<1> USE DEF OutcomeInv
<1>1. PICK row : row = RecordTradeOutcome(t, slippage, ExecuteEntry(t, slippage, exit))
  OBVIOUS
<1>2. row \in DecisionOutcome /\ (row.sound => row.r_sign = {Sign(row.pnl)})
  BY <1>1, RecordedRow
<1>3. PICK p \in 1..(Len(outcomes) + 1) : outcomes' = InsertAt(outcomes, p, row)
  BY <1>1 DEF ExecutePaperTrade
<1>4. PICK grown : grown = outcomes'
  OBVIOUS
<1>5. /\ grown \in Seq(DecisionOutcome) /\ Len(grown) = Len(outcomes) + 1 /\ grown[p] = row
      /\ \A j \in 1..Len(outcomes) : grown[IF j < p THEN j ELSE j + 1] = outcomes[j]
  BY <1>2, <1>3, <1>4, InsertedRow DEF PolicyTypes
<1>6. ASSUME NEW i \in DOMAIN evaluation
      PROVE  /\ Standing(evaluation[i]) \in Evaluation
             /\ Judged(outcomes', ToSet(rules'), Standing(evaluation[i]))
  <2>1. PICK e : e = evaluation[i]
    OBVIOUS
  <2>2. e \in Evaluation /\ Judged(outcomes, ToSet(rules), e)
    BY <2>1 DEF PolicyTypes
  <2>3. ASSUME e.decision # "asking" PROVE Judged(outcomes', ToSet(rules'), e)
    <3>1. e.decision = "veto" => Founded(grown, e.signal_type, e.symbol)
      BY <1>5, <2>2, FoundedStays DEF Judged, PolicyTypes
    <3> QED
      BY <1>4, <2>2, <2>3, <3>1 DEF Judged
  <2>4. e.decision = "asking" => e.left # <<>> /\ (e.answered => e.broken \subseteq ToSet(e.left))
    BY <2>2 DEF Judged
  <2>5. Standing(e) \in Evaluation /\ Judged(outcomes', ToSet(rules'), Standing(e))
    BY <2>2, <2>3, <2>4, StandingIsJudged
  <2> QED
    BY <2>1, <2>5
<1>7. /\ evaluation' = [i \in DOMAIN evaluation |-> Standing(evaluation[i])]
      /\ rules' = rules /\ shadow' = shadow
  BY DEF ExecutePaperTrade
<1>8. evaluation' \in Seq(Evaluation)
  <2> DEFINE new(i) == Standing(evaluation[i])
  <2>1. PICK n \in Nat : DOMAIN evaluation = 1..n
    BY DEF PolicyTypes
  <2>2. evaluation' = [i \in 1..n |-> new(i)] /\ \A i \in 1..n : new(i) \in Evaluation
    BY <1>6, <1>7, <2>1
  <2> HIDE DEF new
  <2>3. evaluation' \in [1..n -> Evaluation]
    BY <2>2
  <2> QED
    BY <2>3, SeqDef
<1>10. PolicyTypes'
  BY <1>4, <1>5, <1>7, <1>8 DEF PolicyTypes
<1>9. RAgreesWithPnl'
  <2> SUFFICES ASSUME NEW k \in DOMAIN grown, grown[k].sound
               PROVE  grown[k].r_sign = {Sign(grown[k].pnl)}
    BY <1>4 DEF RAgreesWithPnl
  <2>1. CASE k = p
    BY <1>2, <1>5, <2>1
  <2>2. CASE k # p
    <3>1. PICK n \in Nat : n = Len(outcomes) /\ DOMAIN outcomes = 1..n
      BY DEF PolicyTypes
    <3>2. k \in 1..(n + 1) /\ p \in 1..(n + 1)
      BY <1>5, <3>1
    <3>3. PICK j \in 1..n : k = IF j < p THEN j ELSE j + 1
      <4>1. CASE k < p
        BY <3>2, <4>1
      <4>2. CASE k > p
        <5>1. k - 1 \in 1..n /\ ~(k - 1 < p) /\ k = (k - 1) + 1
          BY <3>2, <4>2
        <5> QED
          BY <5>1
      <4> QED
        BY <2>2, <3>2, <4>1, <4>2
    <3>4. grown[k] = outcomes[j]
      BY <1>5, <3>1, <3>3
    <3> QED
      BY <3>1, <3>4 DEF RAgreesWithPnl
  <2> QED
    BY <2>1, <2>2
<1> QED
  BY <1>6, <1>7, <1>9, <1>10

LEMMA ShadowIsInitialized ==
    ASSUME OutcomeInv, NEW valid \in BOOLEAN, InitializeShadow(valid)
    PROVE  OutcomeInv'
<1> USE DEF OutcomeInv, InitializeShadow
<1>1. DefaultRules \in Seq(Rule)
  <2>1. /\ DefaultRules = <<DefaultRules[1], DefaultRules[2], DefaultRules[3], DefaultRules[4]>>
        /\ DOMAIN DefaultRules = 1..4
    BY DEF DefaultRules
  <2>2. /\ DefaultRules[1] \in Rule /\ DefaultRules[2] \in Rule
        /\ DefaultRules[3] \in Rule /\ DefaultRules[4] \in Rule
    BY <2>1 DEF Rule, ToSet
  <2>3. PICK a \in Rule, b \in Rule, c \in Rule, d \in Rule : DefaultRules = <<a, b, c, d>>
    BY <2>1, <2>2
  <2>4. <<a, b, c, d>> \in Seq(Rule)
    OBVIOUS
  <2> QED
    BY <2>3, <2>4
<1>2. rules' \in Seq(Rule) /\ shadow' # "new"
  BY <1>1
<1>3. PolicyTypes'
  BY <1>2 DEF PolicyTypes
<1>4. Broken(outcomes, ToSet(rules), "", "") = {} /\ ToSet(rules) = {}
  BY DEF PolicyTypes, Broken, ToSet
<1>5. ASSUME NEW i \in DOMAIN evaluation PROVE Judged(outcomes, ToSet(rules'), evaluation[i])
  <2>1. PICK e : e = evaluation[i] /\ Judged(outcomes, ToSet(rules), e)
    OBVIOUS
  <2>2. Broken(outcomes, ToSet(rules), e.signal_type, e.symbol) = {}
    BY <1>4 DEF Broken
  <2> QED
    BY <2>1, <2>2 DEF Judged
<1>6. RAgreesWithPnl'
  BY DEF RAgreesWithPnl
<1> QED
  BY <1>3, <1>5, <1>6

LEMMA RuleIsAdded ==
    ASSUME OutcomeInv, NEW rule \in Rule, AddRule(rule)
    PROVE  OutcomeInv'
<1> USE DEF OutcomeInv, AddRule
<1>1. ASSUME NEW i \in DOMAIN evaluation, NEW e,
             e = [evaluation[i] EXCEPT !.left = IF evaluation[i].shared
                                                THEN Append(evaluation[i].left, rule)
                                                ELSE evaluation[i].left]
      PROVE  Standing(e) \in Evaluation /\ Judged(outcomes', ToSet(rules'), Standing(e))
  <2>1. PICK old : old = evaluation[i]
    OBVIOUS
  <2>2. old \in Evaluation /\ Judged(outcomes, ToSet(rules), old)
    BY <2>1 DEF PolicyTypes
  <2> DEFINE left == IF old.shared THEN Append(old.left, rule) ELSE old.left
  <2>3. /\ left \in Seq(Rule)
        /\ ToSet(old.left) \subseteq ToSet(left) /\ (old.left # <<>> => left # <<>>)
    <3>1. PICK s \in Seq(Rule) : s = old.left
      BY <2>2 DEF Evaluation
    <3>2. /\ Append(s, rule) \in Seq(Rule) /\ ToSet(s) \subseteq ToSet(Append(s, rule))
          /\ Append(s, rule) # <<>>
      BY RulesAreListed
    <3> QED
      BY <3>1, <3>2
  <2>4. e = [old EXCEPT !.left = left]
    BY <1>1, <2>1
  <2> HIDE DEF left
  <2>5. /\ e \in Evaluation /\ e.left = left /\ e.decision = old.decision
        /\ e.answered = old.answered /\ e.broken = old.broken
        /\ e.signal_type = old.signal_type /\ e.symbol = old.symbol
    BY <2>2, <2>3, <2>4 DEF Evaluation
  <2>6. e.decision = "asking" => e.left # <<>> /\ (e.answered => e.broken \subseteq ToSet(e.left))
    BY <2>2, <2>3, <2>5 DEF Judged
  <2>7. e.decision # "asking" => Judged(outcomes', ToSet(rules'), e)
    BY <2>2, <2>5 DEF Judged
  <2> QED
    BY <2>5, <2>6, <2>7, StandingIsJudged
<1> DEFINE new(i) == Standing([evaluation[i] EXCEPT !.left = IF evaluation[i].shared
                                                             THEN Append(evaluation[i].left, rule)
                                                             ELSE evaluation[i].left])
<1>2. evaluation' = [i \in DOMAIN evaluation |-> new(i)]
  OBVIOUS
<1>3. /\ DOMAIN evaluation' = DOMAIN evaluation
      /\ \A i \in DOMAIN evaluation : /\ evaluation'[i] \in Evaluation
                                      /\ Judged(outcomes', ToSet(rules'), evaluation'[i])
  BY <1>1, <1>2
<1>4. evaluation' \in Seq(Evaluation)
  <2>1. PICK n \in Nat : DOMAIN evaluation = 1..n
    BY DEF PolicyTypes
  <2>2. \A i \in 1..n : new(i) \in Evaluation
    BY <1>2, <1>3, <2>1
  <2> HIDE DEF new
  <2>3. evaluation' \in [1..n -> Evaluation]
    BY <1>2, <2>1, <2>2
  <2> QED
    BY <2>3, SeqDef
<1>5. rules' \in Seq(Rule)
  BY RulesAreListed DEF PolicyTypes
<1>6. PolicyTypes' /\ RAgreesWithPnl'
  BY <1>4, <1>5 DEF PolicyTypes, RAgreesWithPnl
<1> QED
  BY <1>3, <1>6

LEMMA RuleIsRemoved ==
    ASSUME OutcomeInv, NEW rule \in Rule, RemoveRule(rule)
    PROVE  OutcomeInv'
<1> USE DEF OutcomeInv, RemoveRule
<1>1. ASSUME NEW i \in DOMAIN evaluation, NEW e, e = [evaluation[i] EXCEPT !.shared = FALSE]
      PROVE  Standing(e) \in Evaluation /\ Judged(outcomes', ToSet(rules'), Standing(e))
  <2>1. PICK old : old = evaluation[i]
    OBVIOUS
  <2>2. old \in Evaluation /\ Judged(outcomes, ToSet(rules), old)
    BY <2>1 DEF PolicyTypes
  <2>3. /\ e \in Evaluation /\ e.left = old.left /\ e.decision = old.decision
        /\ e.answered = old.answered /\ e.broken = old.broken
        /\ e.signal_type = old.signal_type /\ e.symbol = old.symbol
    BY <1>1, <2>1, <2>2 DEF Evaluation
  <2>4. e.decision = "asking" => e.left # <<>> /\ (e.answered => e.broken \subseteq ToSet(e.left))
    BY <2>2, <2>3 DEF Judged
  <2>5. e.decision # "asking" => Judged(outcomes', ToSet(rules'), e)
    BY <2>2, <2>3 DEF Judged
  <2> QED
    BY <2>3, <2>4, <2>5, StandingIsJudged
<1> DEFINE new(i) == Standing([evaluation[i] EXCEPT !.shared = FALSE])
<1>2. evaluation' = [i \in DOMAIN evaluation |-> new(i)]
  OBVIOUS
<1>3. /\ DOMAIN evaluation' = DOMAIN evaluation
      /\ \A i \in DOMAIN evaluation : /\ evaluation'[i] \in Evaluation
                                      /\ Judged(outcomes', ToSet(rules'), evaluation'[i])
  BY <1>1, <1>2
<1>4. evaluation' \in Seq(Evaluation)
  <2>1. PICK n \in Nat : DOMAIN evaluation = 1..n
    BY DEF PolicyTypes
  <2>2. \A i \in 1..n : new(i) \in Evaluation
    BY <1>2, <1>3, <2>1
  <2> HIDE DEF new
  <2>3. evaluation' \in [1..n -> Evaluation]
    BY <1>2, <2>1, <2>2
  <2> QED
    BY <2>3, SeqDef, ZenonT(30)
<1>5. rules' \in Seq(Rule) /\ rules # <<>>
  BY RulesAreListed DEF PolicyTypes
<1>6. PolicyTypes' /\ RAgreesWithPnl'
  BY <1>4, <1>5 DEF PolicyTypes, RAgreesWithPnl
<1> QED
  BY <1>3, <1>6

\* A rule that is broken answers with a veto: what is left after it is asked holds
\* every rule that still can.
LEMMA RuleIsAsked ==
    ASSUME OutcomeInv, AskRule
    PROVE  OutcomeInv'
<1> USE DEF OutcomeInv
<1>1. PICK i \in DOMAIN evaluation, answers \in BOOLEAN, e \in Evaluation, vetoed \in BOOLEAN,
           decision \in {"asking", "allow", "veto"} :
        /\ e = evaluation[i]
        /\ vetoed = (answers /\ Vetoes(Head(e.left), outcomes, Of(outcomes, e.signal_type, e.symbol)))
        /\ decision = IF vetoed THEN "veto" ELSE IF Len(e.left) = 1 THEN "allow" ELSE "asking"
        /\ e.decision = "asking"
        /\ evaluation' = <<[e EXCEPT !.left = Tail(e.left), !.answered = e.answered /\ answers,
                                     !.decision = decision]>>
        /\ UNCHANGED <<outcomes, rules, shadow>>
  <2>1. PICK i \in DOMAIN evaluation, answers \in BOOLEAN :
          LET e == evaluation[i]
              vetoed == answers /\ Vetoes(Head(e.left), outcomes, Of(outcomes, e.signal_type, e.symbol))
              decision == IF vetoed THEN "veto" ELSE IF Len(e.left) = 1 THEN "allow" ELSE "asking"
          IN  /\ e.decision = "asking"
              /\ evaluation' = <<[e EXCEPT !.left = Tail(e.left), !.answered = e.answered /\ answers,
                                           !.decision = decision]>>
              /\ UNCHANGED <<outcomes, rules, shadow>>
    BY DEF AskRule
  <2>2. evaluation[i] \in Evaluation
    BY DEF PolicyTypes
  <2> QED
    BY <2>1, <2>2
<1>2. /\ e.left # <<>> /\ (e.answered => e.broken \subseteq ToSet(e.left))
      /\ e.broken \subseteq Broken(outcomes, ToSet(rules), e.signal_type, e.symbol)
  BY <1>1 DEF PolicyTypes, Judged
<1>3. PICK left \in Seq(Rule) : left = e.left
  BY <1>2 DEF Evaluation
<1>4. /\ Tail(left) \in Seq(Rule) /\ ToSet(left) \subseteq {Head(left)} \cup ToSet(Tail(left))
      /\ Len(left) = 1 => ToSet(left) = {Head(left)}
      /\ Len(left) # 1 => Tail(left) # <<>>
  BY <1>2, <1>3, RulesAreListed
<1>5. PICK tail \in Seq(Rule) : tail = Tail(left)
  BY <1>4
<1>6. PICK answered \in BOOLEAN : answered = (e.answered /\ answers)
  BY <1>2 DEF Evaluation
<1>8. PICK new : new = [e EXCEPT !.left = tail, !.answered = answered, !.decision = decision]
  OBVIOUS
<1>9. evaluation' = <<new>>
  BY <1>1, <1>3, <1>5, <1>6, <1>8
<1>10. /\ new \in Evaluation /\ new.left = tail /\ new.answered = answered
       /\ new.decision = decision /\ new.broken = e.broken
       /\ new.signal_type = e.signal_type /\ new.symbol = e.symbol
  BY <1>2, <1>5, <1>6, <1>8 DEF Evaluation
<1>11. Judged(outcomes, ToSet(rules), new)
  <2>1. ASSUME answered, ~vetoed PROVE Head(left) \notin e.broken
    BY <1>1, <1>2, <1>3, <1>6, <2>1 DEF Broken
  <2>2. ASSUME decision = "asking"
        PROVE  tail # <<>> /\ (answered => e.broken \subseteq ToSet(tail))
    <3>1. ~vetoed /\ Len(left) # 1
      BY <1>1, <1>3, <2>2
    <3> QED
      BY <1>2, <1>3, <1>4, <1>5, <1>6, <2>1, <3>1
  <2>3. ASSUME decision = "allow", answered PROVE e.broken = {}
    <3>1. ~vetoed /\ Len(left) = 1
      BY <1>1, <1>3, <2>3
    <3> QED
      BY <1>2, <1>3, <1>4, <1>6, <2>1, <2>3, <3>1
  <2>4. ASSUME decision = "veto" PROVE Founded(outcomes, e.signal_type, e.symbol)
    <3>1. Vetoes(Head(e.left), outcomes, Of(outcomes, e.signal_type, e.symbol))
      BY <1>1, <2>4
    <3> QED
      BY <3>1, VetoIsFounded DEF PolicyTypes
  <2> QED
    BY <1>2, <1>10, <2>2, <2>3, <2>4 DEF Judged
<1>12. PolicyTypes' /\ RAgreesWithPnl'
  BY <1>1, <1>9, <1>10 DEF PolicyTypes, RAgreesWithPnl
<1>13. \A k \in DOMAIN <<new>> : <<new>>[k] = new
  OBVIOUS
<1>14. \A k \in DOMAIN evaluation' : Judged(outcomes', ToSet(rules'), evaluation'[k])
  BY <1>1, <1>9, <1>11, <1>13
<1> QED
  BY <1>12, <1>14

LEMMA EvaluationBegins ==
    ASSUME OutcomeInv, NEW t \in PaperTrades, EvaluateDecision(t.signal_type, t.symbol)
    PROVE  OutcomeInv'
<1> USE DEF OutcomeInv
<1>1. PICK broken : broken = Broken(outcomes, ToSet(rules), t.signal_type, t.symbol)
  OBVIOUS
<1>2. PICK down \in BOOLEAN :
        down = ("symbol_drawdown" \in ToSet(rules) /\ SymbolIsDown(outcomes, t.symbol))
  OBVIOUS
<1>3. PICK inForce \in Seq(Rule) : inForce = rules
  BY DEF PolicyTypes
<1>4. PICK new :
        new = [signal_type |-> t.signal_type, symbol |-> t.symbol, left |-> inForce, shared |-> TRUE,
               decision |-> IF inForce = <<>> THEN "allow" ELSE "asking", answered |-> TRUE,
               broken |-> broken, down |-> down]
  OBVIOUS
<1>5. evaluation' = <<new>> /\ UNCHANGED <<outcomes, rules, shadow>>
  BY <1>1, <1>2, <1>3, <1>4 DEF EvaluateDecision
<1>6. broken \subseteq ToSet(inForce) /\ ToSet(inForce) \subseteq Rule
  BY <1>1, <1>3, RulesAreListed DEF Broken
<1>7. new \in Evaluation
  BY <1>2, <1>4, <1>6 DEF Evaluation
<1>8. inForce = <<>> => ToSet(inForce) = {}
  BY DEF ToSet
<1>9. Judged(outcomes, ToSet(rules), new)
  BY <1>1, <1>3, <1>4, <1>6, <1>8 DEF Judged
<1>10. PolicyTypes' /\ RAgreesWithPnl'
  BY <1>5, <1>7 DEF PolicyTypes, RAgreesWithPnl
<1>11. \A k \in DOMAIN <<new>> : <<new>>[k] = new
  OBVIOUS
<1>12. \A k \in DOMAIN evaluation' : Judged(outcomes', ToSet(rules'), evaluation'[k])
  BY <1>5, <1>9, <1>11
<1> QED
  BY <1>10, <1>12

LEMMA OutcomeStep ==
    ASSUME OutcomeInv, [OutcomePolicyNext]_outcomeVars
    PROVE  OutcomeInv'
<1>1. ASSUME UNCHANGED <<outcomes, rules, shadow, evaluation>>
      PROVE  OutcomeInv'
  BY <1>1 DEF OutcomeInv, PolicyTypes, RAgreesWithPnl
<1>2. CASE ClearAuditTrail
  BY <1>1, <1>2 DEF ClearAuditTrail
<1>3. CASE UNCHANGED outcomeVars
  BY <1>1, <1>3 DEF outcomeVars
<1> QED
  BY <1>2, <1>3, RecordedTrade, ShadowIsInitialized, RuleIsAdded, RuleIsRemoved, RuleIsAsked,
     EvaluationBegins DEF OutcomePolicyNext, Rule

\* Whatever trades are recorded and whatever rules come and go between the awaits of
\* evaluate(): a rule broken all along refuses, a signal without history passes, and
\* what the recorder stores agrees on who won.
THEOREM StandingRulesRefuse == OutcomePolicySpec => []OutcomePolicyHolds
<1>1. OutcomePolicyInit => OutcomeInv
  BY DEF OutcomePolicyInit, OutcomeInv, PolicyTypes, RAgreesWithPnl
<1>2. OutcomeInv /\ [OutcomePolicyNext]_outcomeVars => OutcomeInv'
  BY OutcomeStep
<1> QED
  BY <1>1, <1>2, JudgedIsEnough, PTL DEF OutcomePolicySpec

-----------------------------------------------------------------------------
(* The pass over the steps of a plan *)

PlanExecutionSpec == PlanExecutionInit /\ [][PlanExecutionNext]_planCall

AnyPlan == Plan(StepNamesInQuestion, ContextKeys)

PlanInv == planCall.plan \in AnyPlan /\ ValidPlansSucceed

\* What the pass has when n steps are done.
FirstIds(p, n) == {p.steps[i].id : i \in 1..n}
Done(p, n) ==
    [completed |-> FirstIds(p, n), steps_executed |-> n, error |-> {}, halted |-> FALSE]

\* Of numbers there is a least.
LEMMA LeastNumber ==
    ASSUME NEW T, T \subseteq Nat, T # {}
    PROVE  \E n \in T : \A k \in T : n <= k
<1> DEFINE R == OpToRel(<, Nat)
<1>1. \A x, y \in Nat : <<x, y>> \in R <=> x < y
  BY DEF OpToRel
<1>2. IsWellFoundedOn(R, Nat)
  BY NatLessThanWellFounded
<1> HIDE DEF R
<1>3. PICK n \in T : \A k \in T : ~(<<k, n>> \in R)
  BY <1>2, WFMin
<1>4. ASSUME NEW k \in T PROVE n <= k
  <2>1. n \in Nat /\ k \in Nat /\ ~(<<k, n>> \in R)
    BY <1>3
  <2>2. ~(k < n)
    BY <1>1, <2>1
  <2> QED
    BY <2>1, <2>2
<1> QED
  BY <1>4

\* The steps of a plan and the places of their dependencies are numbered.
LEMMA StepsAreNumbered ==
    ASSUME NEW p \in AnyPlan
    PROVE  /\ Len(p.steps) \in Nat /\ DOMAIN p.steps = 1..Len(p.steps)
           /\ \A i \in DOMAIN p.steps :
                 /\ p.steps[i] \in PlanStep(StepNamesInQuestion)
                 /\ \A k \in DOMAIN p.steps[i].depends_on : k \in Nat
<1>1. p.steps \in Seq(PlanStep(StepNamesInQuestion))
  BY DEF AnyPlan, Plan
<1>2. ASSUME NEW i \in DOMAIN p.steps
      PROVE  /\ p.steps[i] \in PlanStep(StepNamesInQuestion)
             /\ \A k \in DOMAIN p.steps[i].depends_on : k \in Nat
  <2>1. p.steps[i] \in PlanStep(StepNamesInQuestion)
    BY <1>1, ElementOfSeq, LenProperties
  <2>2. p.steps[i].depends_on \in Seq(StepNamesInQuestion)
    BY <2>1 DEF PlanStep
  <2> QED
    BY <2>1, <2>2, LenProperties
<1> QED
  BY <1>1, <1>2, LenProperties

\* If there are bad edges, the loops meet one of them first.
LEMMA FirstIsBad ==
    ASSUME NEW p \in AnyPlan, BadEdges(p) # {}
    PROVE  FirstBadEdge(p) \in BadEdges(p)
<1> DEFINE B == BadEdges(p)
<1>1. \A e \in B : e[1] \in Nat /\ e[2] \in Nat /\ e = <<e[1], e[2]>>
  <2> SUFFICES ASSUME NEW e \in B PROVE e[1] \in Nat /\ e[2] \in Nat /\ e = <<e[1], e[2]>>
    OBVIOUS
  <2>1. PICK i \in DOMAIN p.steps : e \in {i} \X DOMAIN p.steps[i].depends_on
    BY DEF BadEdges
  <2> QED
    BY <2>1, StepsAreNumbered
<1> HIDE DEF B
<1>2. PICK a \in {e[1] : e \in B} : \A k \in {e[1] : e \in B} : a <= k
  <2>1. {e[1] : e \in B} \subseteq Nat /\ {e[1] : e \in B} # {}
    BY <1>1 DEF B
  <2> QED
    BY <2>1, LeastNumber
<1> DEFINE places == {e[2] : e \in {d \in B : d[1] = a}}
<1>3. PICK b \in places : \A k \in places : b <= k
  <2>1. places \subseteq Nat /\ places # {}
    BY <1>1, <1>2
  <2> QED
    BY <2>1, LeastNumber
<1>4. PICK e \in B : e[1] = a /\ e[2] = b
  BY <1>3
<1>5. ASSUME NEW d \in B PROVE e[1] < d[1] \/ (e[1] = d[1] /\ e[2] <= d[2])
  <2>1. a <= d[1] /\ (d[1] = a => b <= d[2])
    BY <1>2, <1>3
  <2> QED
    BY <1>1, <1>4, <2>1
<1> QED
  BY <1>4, <1>5, Zenon DEF FirstBadEdge, B

\* In a plan that passes the validation each step depends on steps before it.
LEMMA ValidEdges ==
    ASSUME NEW p \in AnyPlan, ValidatePlan(p) = {}, NEW i \in DOMAIN p.steps
    PROVE  ToSet(p.steps[i].depends_on) \subseteq FirstIds(p, i - 1)
<1>1. BadEdges(p) = {}
  <2> SUFFICES ASSUME BadEdges(p) # {} PROVE FALSE
    OBVIOUS
  <2>1. ErrorOfEdge(p, FirstBadEdge(p)) # {}
    BY FirstIsBad DEF BadEdges
  <2>2. {Fatal(c) : c \in ErrorOfEdge(p, FirstBadEdge(p))} = {}
    BY DEF ValidatePlan
  <2> QED
    BY <2>1, <2>2
<1>2. ASSUME NEW k \in DOMAIN p.steps[i].depends_on
      PROVE  p.steps[i].depends_on[k] \in FirstIds(p, i - 1)
  <2> DEFINE dep == p.steps[i].depends_on[k]
  <2>1. EdgeError(p, i, dep) = {}
    <3>1. <<i, k>> \in UNION {{j} \X DOMAIN p.steps[j].depends_on : j \in DOMAIN p.steps}
      OBVIOUS
    <3>2. ErrorOfEdge(p, <<i, k>>) = {}
      BY <1>1, <3>1 DEF BadEdges
    <3> QED
      BY <3>2 DEF ErrorOfEdge
  <2>2. dep \in StepIdsOf(p) /\ dep # p.steps[i].id /\ ~(Index(p, dep) > i)
    BY <2>1 DEF EdgeError
  <2>3. Index(p, dep) \in DOMAIN p.steps /\ p.steps[Index(p, dep)].id = dep
    BY <2>2 DEF Index, StepIdsOf
  <2>4. Index(p, dep) \in 1..(i - 1)
    BY <2>2, <2>3, StepsAreNumbered
  <2> QED
    BY <2>3, <2>4 DEF FirstIds
<1> QED
  BY <1>2 DEF ToSet

\* A step whose dependencies are done is done, and nothing else changes.
LEMMA OneStepMore ==
    ASSUME NEW p \in AnyPlan, ValidatePlan(p) = {}, NEW n \in DOMAIN p.steps
    PROVE  PassStep(Done(p, n - 1), p.steps[n]) = Done(p, n)
<1>1. n \in Nat /\ n > 0
  BY StepsAreNumbered
<1>2. ToSet(p.steps[n].depends_on) \subseteq FirstIds(p, n - 1)
  BY ValidEdges
<1>3. FirstIds(p, n) = FirstIds(p, n - 1) \cup {p.steps[n].id}
  BY <1>1 DEF FirstIds
<1>4. n - 1 + 1 = n
  BY <1>1
<1> QED
  BY <1>2, <1>3, <1>4 DEF PassStep, Done

\* The pass over a valid plan does every step.
LEMMA PassDoesAll ==
    ASSUME NEW p \in AnyPlan, ValidatePlan(p) = {}
    PROVE  ExecuteSteps(p) = Done(p, Len(p.steps))
<1> DEFINE N == Len(p.steps)
           start == [completed |-> {}, steps_executed |-> 0, error |-> {}, halted |-> FALSE]
           Pass(g) == [n \in 0..N |-> IF n = 0 THEN start ELSE PassStep(g[n - 1], p.steps[n])]
           done == [n \in 0..N |-> Done(p, n)]
<1>1. N \in Nat /\ DOMAIN p.steps = 1..N
  BY StepsAreNumbered
<1>2. start = Done(p, 0)
  <2>1. 1..0 = {}
    OBVIOUS
  <2>2. FirstIds(p, 0) = {}
    BY <2>1 DEF FirstIds
  <2> QED
    BY <2>2 DEF Done
<1>3. \A n \in 1..N : PassStep(Done(p, n - 1), p.steps[n]) = Done(p, n)
  BY <1>1, OneStepMore
<1> HIDE DEF start, N
<1>4. done = Pass(done)
  <2>1. ASSUME NEW n \in 0..N
        PROVE  done[n] = IF n = 0 THEN start ELSE PassStep(done[n - 1], p.steps[n])
    <3>1. CASE n = 0
      BY <1>2, <3>1
    <3>2. CASE n # 0
      <4>1. n \in 1..N /\ n - 1 \in 0..N
        BY <1>1, <3>2
      <4>2. done[n - 1] = Done(p, n - 1) /\ done[n] = Done(p, n)
        BY <4>1
      <4> QED
        BY <1>3, <3>2, <4>1, <4>2
    <3> QED
      BY <3>1, <3>2
  <2> QED
    BY <2>1
<1>5. ASSUME NEW g, g = Pass(g) PROVE g[N] = Done(p, N)
  <2> DEFINE wrong == {n \in 0..N : g[n] # Done(p, n)}
  <2>1. \A n \in 0..N : g[n] = IF n = 0 THEN start ELSE PassStep(g[n - 1], p.steps[n])
    BY <1>5
  <2>2. wrong = {}
    <3> SUFFICES ASSUME wrong # {} PROVE FALSE
      OBVIOUS
    <3>1. PICK n \in wrong : \A k \in wrong : n <= k
      <4>1. wrong \subseteq Nat
        BY <1>1
      <4> QED
        BY <4>1, LeastNumber
    <3>2. n # 0
      BY <1>2, <2>1, <3>1
    <3>3. n \in 1..N /\ n - 1 \in 0..N /\ n - 1 < n
      BY <1>1, <3>1, <3>2
    <3>4. g[n - 1] = Done(p, n - 1)
      BY <3>1, <3>3
    <3> QED
      BY <1>3, <2>1, <3>1, <3>3, <3>4
  <2> QED
    BY <1>1, <2>2
<1>6. ExecuteSteps(p) = (CHOOSE g : g = Pass(g))[N]
  BY DEF ExecuteSteps, start, N
<1>7. \E g : g = Pass(g)
  BY <1>4
<1> HIDE DEF Next
<1> QED
  BY <1>5, <1>6, <1>7 DEF N

LEMMA PlanStart == PlanExecutionInit => PlanInv
  BY PlanExecutionAssumption DEF PlanExecutionInit, PlanInv, ValidPlansSucceed, AnyPlan

LEMMA PlanMoves == PlanInv /\ [PlanExecutionNext]_planCall => PlanInv'
<1> SUFFICES ASSUME PlanInv, [PlanExecutionNext]_planCall PROVE PlanInv'
  OBVIOUS
<1>1. CASE CallExecute
  BY <1>1 DEF CallExecute, PlanInv, ValidPlansSucceed
<1>2. CASE CallSteps
  <2>1. PICK error, run :
           /\ error = IF ValidatePlan(planCall.plan) # {} THEN ValidatePlan(planCall.plan)
                      ELSE ValidateContext(planCall.plan, planCall.context)
           /\ run = IF error # {} THEN [steps_executed |-> 0, error |-> error]
                    ELSE ExecuteSteps(planCall.plan)
           /\ planCall' = [kind |-> "steps", plan |-> planCall.plan, context |-> planCall.context,
                  result |-> {BuildPlanResult(planCall.plan, run.steps_executed, run.error)}]
    BY <1>2 DEF CallSteps
  <2> DEFINE p == planCall.plan
             r == BuildPlanResult(p, run.steps_executed, run.error)
  <2>2. planCall'.plan = p /\ planCall'.context = planCall.context /\ planCall'.result = {r}
    BY <2>1
  <2>3. ASSUME ValidatePlan(p) = {}
        PROVE  \/ r.status = "success" /\ r.steps_executed = Len(p.steps) /\ r.error = {}
               \/ r.status = "failure" /\ r.error = ValidateContext(p, planCall.context)
    <3>1. error = ValidateContext(p, planCall.context)
      BY <2>1, <2>3
    <3>2. CASE error # {}
      <4>1. run.steps_executed = 0 /\ run.error = error
        BY <2>1, <3>2
      <4> QED
        BY <3>1, <3>2, <4>1 DEF BuildPlanResult
    <3>3. CASE error = {}
      <4>1. run = Done(p, Len(p.steps))
        BY <2>1, <2>3, <3>3, PassDoesAll DEF PlanInv
      <4>2. run.steps_executed = Len(p.steps) /\ run.error = {}
        BY <4>1 DEF Done
      <4> QED
        BY <4>2 DEF BuildPlanResult
    <3> QED
      BY <3>2, <3>3
  <2> HIDE DEF r
  <2> QED
    BY <2>2, <2>3 DEF PlanInv, ValidPlansSucceed
<1>3. CASE UNCHANGED planCall
  BY <1>3 DEF PlanInv, ValidPlansSucceed
<1> QED
  BY <1>1, <1>2, <1>3 DEF PlanExecutionNext

\* Whatever the plan and whatever its steps do on failure: when _validate_plan() finds
\* nothing, _execute_steps() carries out all of them, and _build_plan_result() answers
\* success, or the fault of the context; on_failure never comes into play.
THEOREM ValidPlansRun == PlanExecutionSpec => []ValidPlansSucceed
<1>1. PlanExecutionInit => PlanInv
  BY PlanStart
<1>2. PlanInv /\ [PlanExecutionNext]_planCall => PlanInv'
  BY PlanMoves
<1>3. PlanInv => ValidPlansSucceed
  BY DEF PlanInv
<1> QED
  BY <1>1, <1>2, <1>3, PTL DEF PlanExecutionSpec

-----------------------------------------------------------------------------
(* Human approval.  GrantsAreDecided is not inductive: it needs             *)
(* StoreMatchesAudit when an execution is let through, and both need that   *)
(* an appended entry changes nothing about the entries before it.           *)

\* A grant refers to a part of the audit log that exists.
GrantsArePast ==
    \A g \in DOMAIN granted : granted[g].audits \in 0..Len(audit_log)

ApprovalInv ==
    /\ TypeOK
    /\ StoreMatchesAudit
    /\ GrantsArePast
    /\ GrantsAreDecided

-----------------------------------------------------------------------------
(* Logs that grow *)

\* Appending an entry keeps the earlier ones.
LEMMA AuditGrows ==
    ASSUME NEW S, NEW log \in Seq(S), NEW e \in S
    PROVE  /\ Append(log, e) \in Seq(S)
           /\ Len(log) \in Nat
           /\ Len(Append(log, e)) = Len(log) + 1
           /\ DOMAIN log = 1..Len(log)
           /\ DOMAIN Append(log, e) = 1..(Len(log) + 1)
           /\ \A k \in 1..Len(log) : Append(log, e)[k] = log[k]
           /\ Append(log, e)[Len(log) + 1] = e
<1>1. /\ Append(log, e) \in Seq(S)
      /\ Len(Append(log, e)) = Len(log) + 1
      /\ \A k \in 1..Len(log) : Append(log, e)[k] = log[k]
      /\ Append(log, e)[Len(log) + 1] = e
  BY AppendProperties
<1>2. Len(log) \in Nat /\ DOMAIN log = 1..Len(log)
  BY LenProperties
<1>3. DOMAIN Append(log, e) = 1..Len(Append(log, e))
  BY <1>1, LenProperties
<1> QED
  BY <1>1, <1>2, <1>3

\* What was last among the first n entries stays so.
LEMMA LastKept ==
    ASSUME NEW S, NEW log \in Seq(S), NEW e \in S, NEW n \in 0..Len(log),
           NEW k, NEW id, NEW kinds, IsLast(log, k, id, kinds, n)
    PROVE  IsLast(Append(log, e), k, id, kinds, n)
<1>1. Len(log) \in Nat /\ \A j \in 1..Len(log) : Append(log, e)[j] = log[j]
  BY AuditGrows
<1>2. \A j \in 1..n : Append(log, e)[j] = log[j]
  BY <1>1
<1> QED
  BY <1>2 DEF IsLast

\* An entry about something else does not become the last one ...
LEMMA LastSkips ==
    ASSUME NEW S, NEW log \in Seq(S), NEW e \in S, NEW k, NEW id, NEW kinds,
           IsLast(log, k, id, kinds, Len(log)), ~Concerns(e, id, kinds)
    PROVE  IsLast(Append(log, e), k, id, kinds, Len(log) + 1)
<1>1. /\ Len(log) \in Nat
      /\ \A j \in 1..Len(log) : Append(log, e)[j] = log[j]
      /\ Append(log, e)[Len(log) + 1] = e
  BY AuditGrows
<1>2. \A j \in 1..(Len(log) + 1) : j \in 1..Len(log) \/ j = Len(log) + 1
  BY <1>1
<1>3. k \in 1..Len(log)
  BY DEF IsLast
<1>4. k \in 1..(Len(log) + 1)
  BY <1>1, <1>3
<1> QED
  BY <1>1, <1>2, <1>3, <1>4 DEF IsLast

\* ... and one that concerns it does.
LEMMA LastAppended ==
    ASSUME NEW S, NEW log \in Seq(S), NEW e \in S, NEW id, NEW kinds,
           Concerns(e, id, kinds)
    PROVE  IsLast(Append(log, e), Len(log) + 1, id, kinds, Len(log) + 1)
<1>1. Len(log) \in Nat /\ Append(log, e)[Len(log) + 1] = e
  BY AuditGrows
<1>2. \A j \in 1..(Len(log) + 1) : ~(j > Len(log) + 1)
  BY <1>1
<1>3. Len(log) + 1 \in 1..(Len(log) + 1)
  BY <1>1
<1> QED
  BY <1>1, <1>2, <1>3 DEF IsLast

\* The last decision, if it is an approval, is the last approval.
LEMMA LastApproval ==
    ASSUME NEW log, NEW n \in Nat, NEW id, NEW j \in 1..n, NEW k \in 1..n,
           IsLast(log, j, id, Decisions, n), log[j].outcome = "APPROVED",
           IsLast(log, k, id, {"APPROVED"}, n)
    PROVE  j = k
<1>1. Concerns(log[j], id, {"APPROVED"}) /\ Concerns(log[k], id, Decisions)
  BY DEF IsLast, Concerns, Decisions
<1>2. ~(j > k) /\ ~(k > j)
  BY <1>1 DEF IsLast
<1> QED
  BY <1>2

-----------------------------------------------------------------------------
(* The inductive step *)

LEMMA ApprovalStart == Init => ApprovalInv
<1> SUFFICES ASSUME Init PROVE ApprovalInv
  OBVIOUS
<1>1. audit_log \in Seq(AuditLogEntry) /\ granted \in Seq(Grant)
  BY EmptySeq DEF Init
<1>2. DOMAIN granted = {}
  BY DEF Init
<1>3. TypeOK
  BY <1>1 DEF Init, TypeOK
<1>4. StoreMatchesAudit /\ GrantsArePast /\ GrantsAreDecided
  BY <1>2 DEF Init, StoreMatchesAudit, GrantsArePast, GrantsAreDecided
<1> QED
  BY <1>3, <1>4 DEF ApprovalInv

\* None is not a snapshot and ids of snapshots are ids.
LEMMA SnapshotFacts ==
    ASSUME NEW s \in Snapshots
    PROVE  s.advisory_id \in AdvisoryIds /\ s.expiration \in Nat
BY ApprovalAssumption DEF AdvisorySnapshot

\* Whatever is appended to the audit log, earlier grants stay decided.
LEMMA GrantsKept ==
    ASSUME TypeOK, GrantsArePast, GrantsAreDecided, NEW e \in AuditLogEntry,
           audit_log' = Append(audit_log, e), granted' = granted
    PROVE  GrantsArePast' /\ GrantsAreDecided'
<1>1. audit_log \in Seq(AuditLogEntry)
  BY DEF TypeOK
<1>2. /\ Len(audit_log) \in Nat
      /\ Len(audit_log') = Len(audit_log) + 1
      /\ DOMAIN audit_log = 1..Len(audit_log)
      /\ DOMAIN audit_log' = 1..(Len(audit_log) + 1)
      /\ \A k \in 1..Len(audit_log) : audit_log'[k] = audit_log[k]
  BY <1>1, AuditGrows
<1>3. GrantsArePast'
  BY <1>2 DEF GrantsArePast
<1>4. ASSUME NEW g \in DOMAIN granted
      PROVE  /\ granted[g].at <= granted[g].snapshot.expiration
             /\ \E k \in DOMAIN audit_log' :
                   /\ IsLast(audit_log', k, granted[g].snapshot.advisory_id, Decisions,
                             granted[g].audits)
                   /\ audit_log'[k].outcome = "APPROVED"
                   /\ audit_log'[k].state_snapshot = granted[g].snapshot
  <2>1. PICK k \in DOMAIN audit_log :
           /\ IsLast(audit_log, k, granted[g].snapshot.advisory_id, Decisions,
                     granted[g].audits)
           /\ audit_log[k].outcome = "APPROVED"
           /\ audit_log[k].state_snapshot = granted[g].snapshot
    BY <1>4 DEF GrantsAreDecided
  <2>2. granted[g].audits \in 0..Len(audit_log)
    BY <1>4 DEF GrantsArePast
  <2>3. IsLast(audit_log', k, granted[g].snapshot.advisory_id, Decisions,
               granted[g].audits)
    BY <1>1, <2>1, <2>2, LastKept
  <2>4. k \in DOMAIN audit_log' /\ audit_log'[k] = audit_log[k]
    BY <1>2
  <2> QED
    BY <1>4, <2>1, <2>3, <2>4 DEF GrantsAreDecided
<1>5. GrantsAreDecided'
  BY <1>4 DEF GrantsAreDecided
<1> QED
  BY <1>3, <1>5

\* A store entry about an advisory that the appended entry does not concern.
LEMMA StoreKept ==
    ASSUME TypeOK, NEW e \in AuditLogEntry, audit_log' = Append(audit_log, e),
           NEW id, NEW kinds, ~Concerns(e, id, kinds),
           NEW k \in DOMAIN audit_log, IsLast(audit_log, k, id, kinds, Len(audit_log))
    PROVE  /\ k \in DOMAIN audit_log'
           /\ audit_log'[k] = audit_log[k]
           /\ IsLast(audit_log', k, id, kinds, Len(audit_log'))
<1>1. audit_log \in Seq(AuditLogEntry)
  BY DEF TypeOK
<1>2. /\ Len(audit_log) \in Nat
      /\ Len(audit_log') = Len(audit_log) + 1
      /\ DOMAIN audit_log = 1..Len(audit_log)
      /\ DOMAIN audit_log' = 1..(Len(audit_log) + 1)
      /\ \A j \in 1..Len(audit_log) : audit_log'[j] = audit_log[j]
  BY <1>1, AuditGrows
<1>3. IsLast(audit_log', k, id, kinds, Len(audit_log) + 1)
  BY <1>1, LastSkips
<1> QED
  BY <1>2, <1>3

\* An entry that concerns the advisory is the last one after it is appended.
LEMMA StoreReplaced ==
    ASSUME TypeOK, NEW e \in AuditLogEntry, audit_log' = Append(audit_log, e),
           NEW id, NEW kinds, Concerns(e, id, kinds)
    PROVE  \E k \in DOMAIN audit_log' :
              audit_log'[k] = e /\ IsLast(audit_log', k, id, kinds, Len(audit_log'))
<1>1. audit_log \in Seq(AuditLogEntry)
  BY DEF TypeOK
<1>2. /\ Len(audit_log) \in Nat
      /\ Len(audit_log') = Len(audit_log) + 1
      /\ DOMAIN audit_log' = 1..(Len(audit_log) + 1)
      /\ audit_log'[Len(audit_log) + 1] = e
  BY <1>1, AuditGrows
<1>3. IsLast(audit_log', Len(audit_log) + 1, id, kinds, Len(audit_log) + 1)
  BY <1>1, LastAppended
<1>4. Len(audit_log) + 1 \in DOMAIN audit_log'
  BY <1>2
<1> QED
  BY <1>2, <1>3, <1>4

\* approve_advisory() on an expired advisory concerns no decision.
LEMMA ExpiredStep ==
    ASSUME ApprovalInv, NEW s \in Snapshots, ApproveExpired(s)
    PROVE  ApprovalInv'
<1> DEFINE e == [state_snapshot |-> s, outcome |-> "EXPIRED"]
<1>1. e \in AuditLogEntry /\ e.outcome = "EXPIRED"
  BY DEF AuditLogEntry
<1>2. audit_log' = Append(audit_log, e)
      /\ UNCHANGED <<approvals, approval_outcomes, now, granted>>
  BY DEF ApproveExpired
<1> HIDE DEF e
<1> TypeOK /\ StoreMatchesAudit /\ GrantsArePast /\ GrantsAreDecided
  BY DEF ApprovalInv
<1>3. audit_log' \in Seq(AuditLogEntry)
  BY <1>1, <1>2, AppendProperties DEF TypeOK
<1>4. TypeOK'
  BY <1>2, <1>3 DEF TypeOK
<1>5. \A id : ~Concerns(e, id, Decisions) /\ ~Concerns(e, id, {"APPROVED"})
  BY <1>1 DEF Concerns, Decisions
<1>6. ASSUME NEW id \in AdvisoryIds, approval_outcomes[id] # "none"
      PROVE  \E k \in DOMAIN audit_log' :
                 /\ IsLast(audit_log', k, id, Decisions, Len(audit_log'))
                 /\ audit_log'[k].outcome = approval_outcomes[id]
  BY <1>1, <1>2, <1>5, <1>6, StoreKept DEF StoreMatchesAudit
<1>7. ASSUME NEW id \in AdvisoryIds, approvals[id] # None
      PROVE  \E k \in DOMAIN audit_log' :
                 /\ IsLast(audit_log', k, id, {"APPROVED"}, Len(audit_log'))
                 /\ audit_log'[k].state_snapshot = approvals[id]
  BY <1>1, <1>2, <1>5, <1>7, StoreKept DEF StoreMatchesAudit
<1>8. StoreMatchesAudit'
  BY <1>2, <1>6, <1>7 DEF StoreMatchesAudit
<1>9. GrantsArePast' /\ GrantsAreDecided'
  BY <1>1, <1>2, GrantsKept
<1> QED
  BY <1>4, <1>8, <1>9 DEF ApprovalInv

\* approve_advisory() with a decision replaces what is stored of that advisory.
LEMMA DecisionStep ==
    ASSUME ApprovalInv, NEW s \in Snapshots, NEW approve \in BOOLEAN,
           ApproveAdvisory(s, approve)
    PROVE  ApprovalInv'
<1> DEFINE outcome == IF approve THEN "APPROVED" ELSE "REJECTED"
           e == [state_snapshot |-> s, outcome |-> outcome]
           own == s.advisory_id
<1>1. outcome \in Decisions /\ (approve <=> outcome = "APPROVED")
  BY DEF Decisions
<1>2. e \in AuditLogEntry /\ e.outcome = outcome /\ e.state_snapshot = s
  BY <1>1 DEF AuditLogEntry
<1>3. own \in AdvisoryIds
  BY SnapshotFacts
<1>4. /\ audit_log' = Append(audit_log, e)
      /\ approvals' = IF approve THEN [approvals EXCEPT ![own] = s] ELSE approvals
      /\ approval_outcomes' = [approval_outcomes EXCEPT ![own] = outcome]
      /\ UNCHANGED <<now, granted>>
  BY DEF ApproveAdvisory
<1> HIDE DEF outcome, e
<1> TypeOK /\ StoreMatchesAudit /\ GrantsArePast /\ GrantsAreDecided
  BY DEF ApprovalInv
<1>5. TypeOK'
  <2>1. audit_log' \in Seq(AuditLogEntry)
    BY <1>2, <1>4, AppendProperties DEF TypeOK
  <2>2. approvals' \in [AdvisoryIds -> Snapshots \cup {None}]
        /\ approval_outcomes' \in [AdvisoryIds -> Decisions \cup {"none"}]
    BY <1>1, <1>3, <1>4 DEF TypeOK
  <2> QED
    BY <1>4, <2>1, <2>2 DEF TypeOK
<1>6. Concerns(e, own, Decisions)
      /\ (Concerns(e, own, {"APPROVED"}) <=> approve)
      /\ \A id : id # own => ~Concerns(e, id, Decisions)
                             /\ ~Concerns(e, id, {"APPROVED"})
  BY <1>1, <1>2 DEF Concerns
<1>7. /\ approval_outcomes'[own] = outcome
      /\ approve => approvals'[own] = s
      /\ ~approve => approvals'[own] = approvals[own]
      /\ \A id \in AdvisoryIds : id # own =>
            approval_outcomes'[id] = approval_outcomes[id] /\ approvals'[id] = approvals[id]
  BY <1>3, <1>4 DEF TypeOK
<1>8. ASSUME NEW id \in AdvisoryIds, approval_outcomes'[id] # "none"
      PROVE  \E k \in DOMAIN audit_log' :
                 /\ IsLast(audit_log', k, id, Decisions, Len(audit_log'))
                 /\ audit_log'[k].outcome = approval_outcomes'[id]
  <2>1. CASE id = own
    BY <1>2, <1>4, <1>6, <1>7, <2>1, StoreReplaced
  <2>2. CASE id # own
    <3>1. ~Concerns(e, id, Decisions) /\ approval_outcomes'[id] = approval_outcomes[id]
      BY <1>6, <1>7, <2>2
    <3>2. PICK k \in DOMAIN audit_log :
             /\ IsLast(audit_log, k, id, Decisions, Len(audit_log))
             /\ audit_log[k].outcome = approval_outcomes[id]
      BY <1>8, <3>1 DEF StoreMatchesAudit
    <3> QED
      BY <1>2, <1>4, <3>1, <3>2, StoreKept
  <2> QED
    BY <2>1, <2>2
<1>9. ASSUME NEW id \in AdvisoryIds, approvals'[id] # None
      PROVE  \E k \in DOMAIN audit_log' :
                 /\ IsLast(audit_log', k, id, {"APPROVED"}, Len(audit_log'))
                 /\ audit_log'[k].state_snapshot = approvals'[id]
  <2>1. CASE id = own /\ approve
    BY <1>2, <1>4, <1>6, <1>7, <2>1, StoreReplaced
  <2>2. CASE ~(id = own /\ approve)
    <3>1. ~Concerns(e, id, {"APPROVED"}) /\ approvals'[id] = approvals[id]
      BY <1>6, <1>7, <2>2
    <3>2. PICK k \in DOMAIN audit_log :
             /\ IsLast(audit_log, k, id, {"APPROVED"}, Len(audit_log))
             /\ audit_log[k].state_snapshot = approvals[id]
      BY <1>9, <3>1 DEF StoreMatchesAudit
    <3> QED
      BY <1>2, <1>4, <3>1, <3>2, StoreKept
  <2> QED
    BY <2>1, <2>2
<1>10. StoreMatchesAudit'
  BY <1>8, <1>9 DEF StoreMatchesAudit
<1>11. GrantsArePast' /\ GrantsAreDecided'
  BY <1>2, <1>4, GrantsKept
<1> QED
  BY <1>5, <1>10, <1>11 DEF ApprovalInv

\* An execution that is let through uses what the last decision approved.
LEMMA ExecuteStep ==
    ASSUME ApprovalInv, NEW id \in AdvisoryIds, ExecuteIfApproved(id)
    PROVE  ApprovalInv'
<1> DEFINE grant == [snapshot |-> approvals[id], at |-> now, audits |-> Len(audit_log)]
<1> TypeOK /\ StoreMatchesAudit /\ GrantsArePast /\ GrantsAreDecided
  BY DEF ApprovalInv
<1>1. approval_outcomes[id] = "APPROVED" /\ approvals[id] # None
      /\ ~Expired(approvals[id])
  BY DEF ExecuteIfApproved, IsApprovalValid
<1>2. approvals[id] \in Snapshots /\ now \in Nat
  BY <1>1 DEF TypeOK
<1>3. audit_log \in Seq(AuditLogEntry) /\ granted \in Seq(Grant)
  BY DEF TypeOK
<1>4. Len(audit_log) \in Nat /\ DOMAIN audit_log = 1..Len(audit_log)
  BY <1>3, LenProperties
<1>5. /\ grant \in Grant
      /\ grant.snapshot = approvals[id] /\ grant.at = now
      /\ grant.audits = Len(audit_log)
  BY <1>2, <1>4 DEF Grant
<1>6. granted' = Append(granted, grant)
      /\ UNCHANGED <<approvals, approval_outcomes, audit_log, now>>
  BY DEF ExecuteIfApproved
<1> HIDE DEF grant
<1>7. /\ granted' \in Seq(Grant)
      /\ Len(granted) \in Nat
      /\ DOMAIN granted = 1..Len(granted)
      /\ DOMAIN granted' = 1..(Len(granted) + 1)
      /\ \A g \in 1..Len(granted) : granted'[g] = granted[g]
      /\ granted'[Len(granted) + 1] = grant
  BY <1>3, <1>5, <1>6, AuditGrows
<1>8. TypeOK' /\ StoreMatchesAudit'
  BY <1>6, <1>7 DEF TypeOK, StoreMatchesAudit
<1>9. \A g \in DOMAIN granted' : g \in DOMAIN granted \/ g = Len(granted) + 1
  BY <1>7
<1>10. GrantsArePast'
  BY <1>4, <1>5, <1>6, <1>7, <1>9 DEF GrantsArePast
<1>11. /\ grant.at <= grant.snapshot.expiration
       /\ \E k \in DOMAIN audit_log :
             /\ IsLast(audit_log, k, grant.snapshot.advisory_id, Decisions, grant.audits)
             /\ audit_log[k].outcome = "APPROVED"
             /\ audit_log[k].state_snapshot = grant.snapshot
  <2>1. PICK j \in DOMAIN audit_log :
           /\ IsLast(audit_log, j, id, Decisions, Len(audit_log))
           /\ audit_log[j].outcome = "APPROVED"
    BY <1>1 DEF StoreMatchesAudit
  <2>2. PICK k \in DOMAIN audit_log :
           /\ IsLast(audit_log, k, id, {"APPROVED"}, Len(audit_log))
           /\ audit_log[k].state_snapshot = approvals[id]
    BY <1>1 DEF StoreMatchesAudit
  <2>3. j = k
    BY <1>4, <2>1, <2>2, LastApproval
  <2>4. approvals[id].advisory_id = id
    BY <2>2 DEF IsLast, Concerns
  <2>5. now <= approvals[id].expiration
    BY <1>1, <1>2, SnapshotFacts DEF Expired
  <2> QED
    BY <1>5, <2>1, <2>2, <2>3, <2>4, <2>5
<1>12. GrantsAreDecided'
  BY <1>6, <1>7, <1>9, <1>11 DEF GrantsAreDecided
<1> QED
  BY <1>8, <1>10, <1>12 DEF ApprovalInv

LEMMA ApprovalStep == ApprovalInv /\ [Next]_vars => ApprovalInv'
<1> SUFFICES ASSUME ApprovalInv, [Next]_vars PROVE ApprovalInv'
  OBVIOUS
<1>1. CASE UNCHANGED vars
  BY <1>1 DEF vars, ApprovalInv, TypeOK, StoreMatchesAudit, GrantsArePast, GrantsAreDecided
<1>2. CASE Tick
  BY <1>2 DEF Tick, ApprovalInv, TypeOK, StoreMatchesAudit, GrantsArePast, GrantsAreDecided
<1>3. CASE AllAnswered
  BY <1>1, <1>3 DEF AllAnswered
<1> QED
  BY <1>1, <1>2, <1>3, ExpiredStep, DecisionStep, ExecuteStep DEF Next

LEMMA ApprovalStays == Spec => []ApprovalInv
BY ApprovalStart, ApprovalStep, PTL DEF Spec

-----------------------------------------------------------------------------
(* Theorems *)

\* The manager's state is well typed after any sequence of calls.
THEOREM ApprovalTypes == Spec => []TypeOK
<1>1. ApprovalInv => TypeOK
  BY DEF ApprovalInv
<1> QED
  BY <1>1, ApprovalStays, PTL

\* The dictionaries can be read off the audit log after any sequence of calls.
THEOREM AuditIsTheTruth == Spec => []StoreMatchesAudit
<1>1. ApprovalInv => StoreMatchesAudit
  BY DEF ApprovalInv
<1> QED
  BY <1>1, ApprovalStays, PTL

\* Whatever execute_if_approved() lets through was approved, by the last human
\* decision about it, with those contents, and has not expired.
THEOREM OnlyDecidedExecutes == Spec => []GrantsAreDecided
<1>1. ApprovalInv => GrantsAreDecided
  BY DEF ApprovalInv
<1> QED
  BY <1>1, ApprovalStays, PTL

-----------------------------------------------------------------------------
(* Types *)

\* Only a lookup that asks Redis pings, and the defaults always answer: no lookup runs
\* past the last backend.
LookupsAskInOrder ==
    \A l \in Lookups :
        /\ lookup[l].backend \in 1..4 /\ lookup[l].version >= -1
        /\ lookup[l].at = "pinging" => lookup[l].backend = 1

ChainBounds ==
    /\ clock \in 0..MaxClock /\ version \in 0..MaxVersion
    /\ connection \in {"none", "untested", "open"}

ChainTypeInv == ChainInv /\ LookupsAskInOrder /\ ChainBounds

\* A backend's answer ends the lookup, and an empty one is never the last backend's.
LEMMA AnswerKeepsOrder ==
    ASSUME ChainInv, LookupsAskInOrder, NEW l \in Lookups, NEW versions, Answered(l, versions),
           \A v \in versions : v \in Int /\ v >= -1,
           versions = {} => lookup[l].backend < 4
    PROVE  LookupsAskInOrder'
<1> DEFINE old == lookup[l]
<1>1. old \in LookupRecord /\ lookup \in [Lookups -> LookupRecord]
  BY DEF ChainInv, ChainTypes
<1>2. old.backend \in 1..4 /\ old.version >= -1
  BY DEF LookupsAskInOrder
<1>3. CASE versions = {}
  <2> DEFINE new == [old EXCEPT !.at = "asking", !.backend = old.backend + 1]
  <2>1. lookup' = [lookup EXCEPT ![l] = new]
    BY <1>3 DEF Answered
  <2>2. new.at = "asking" /\ new.backend = old.backend + 1 /\ new.version = old.version
    BY <1>1 DEF LookupRecord
  <2>3. new.backend \in 1..4
    BY <1>2, <1>3, <2>2
  <2> HIDE DEF new, old
  <2>4. \A m \in Lookups : lookup'[m] = IF m = l THEN new ELSE lookup[m]
    BY <1>1, <2>1
  <2> QED
    BY <1>2, <2>2, <2>3, <2>4 DEF LookupsAskInOrder
<1>4. CASE versions # {}
  <2>1. PICK v \in versions : v = CHOOSE u \in versions : TRUE
    BY <1>4
  <2> DEFINE new == [old EXCEPT !.at = "answered", !.version = v]
  <2>2. lookup' = [lookup EXCEPT ![l] = new]
    BY <1>4, <2>1 DEF Answered
  <2>3. new.at = "answered" /\ new.backend = old.backend /\ new.version = v
    BY <1>1 DEF LookupRecord
  <2> HIDE DEF new, old
  <2>4. \A m \in Lookups : lookup'[m] = IF m = l THEN new ELSE lookup[m]
    BY <1>1, <2>2
  <2> QED
    BY <1>2, <2>3, <2>4 DEF LookupsAskInOrder
<1> QED
  BY <1>3, <1>4

\* A lookup that begins, pings, or asks Redis again stays with its backend.
LEMMA MoveKeepsOrder ==
    ASSUME ChainInv, LookupsAskInOrder, NEW l \in Lookups,
           /\ lookup'[l].backend = lookup[l].backend /\ lookup'[l].version = lookup[l].version
           /\ \A m \in Lookups : m # l => lookup'[m] = lookup[m],
           lookup'[l].at = "pinging" => lookup[l].backend = 1
    PROVE  LookupsAskInOrder'
BY DEF LookupsAskInOrder

LEMMA ChainTypeStep == ChainTypeInv /\ [PolicyChainNext]_chainVars => ChainTypeInv'
<1> SUFFICES ASSUME ChainTypeInv, [PolicyChainNext]_chainVars PROVE ChainTypeInv'
  OBVIOUS
<1> USE DEF ChainTypeInv
<1>1. ChainInv'
  BY ChainStep
<1>2. ChainBounds'
  <2> USE PolicyChainAssumption DEF ChainBounds
  <2>1. ASSUME NEW l \in Lookups,
               GetPolicyBegins(l) \/ AskRedis(l) \/ AskHttp(l) \/ AskLocal(l)
        PROVE  UNCHANGED <<clock, version, connection>>
    BY <2>1 DEF GetPolicyBegins, AskRedis, AskHttp, AskLocal
  <2>2. ASSUME NEW l \in Lookups, EnsureConnection(l) \/ Ping(l)
        PROVE  UNCHANGED <<clock, version>> /\ connection' \in {"none", "untested", "open"}
    BY <2>2 DEF EnsureConnection, Ping
  <2>3. CASE SetPolicy \/ CloseRedis \/ PolicyChanges \/ ClockTick \/ UNCHANGED chainVars
    BY <2>3 DEF SetPolicy, CloseRedis, PolicyChanges, ClockTick, chainVars
  <2> QED
    BY <2>1, <2>2, <2>3 DEF PolicyChainNext
<1>3. ASSUME NEW l \in Lookups PROVE
        /\ lookup[l] \in LookupRecord /\ lookup \in [Lookups -> LookupRecord]
        /\ lookup[l].backend \in 1..4
        /\ Source(l) = "redis" => lookup[l].backend = 1
        /\ Source(l) # "default" => lookup[l].backend < 4
        /\ lookup[l].at = "pinging" => lookup[l].backend = 1
  <2>1. /\ lookup \in [Lookups -> LookupRecord] /\ lookup[l].backend \in 1..4
        /\ lookup[l].at = "pinging" => lookup[l].backend = 1
    BY DEF ChainInv, ChainTypes, LookupsAskInOrder
  <2>2. /\ Backends[1] = "redis" /\ Backends[2] = "http" /\ Backends[3] = "config"
        /\ Backends[4] = "default"
    BY DEF Backends
  <2>3. PICK b \in {1, 2, 3, 4} : b = lookup[l].backend
    BY <2>1
  <2>4. (Backends[b] = "redis" => b = 1) /\ (Backends[b] # "default" => b < 4)
    BY <2>2
  <2>5. Source(l) = Backends[b]
    BY <2>3 DEF Source
  <2>6. lookup[l] \in LookupRecord
    BY <2>1
  <2> QED
    BY <2>1, <2>3, <2>4, <2>5, <2>6
<1>4. ASSUME NEW l \in Lookups, GetPolicyBegins(l) PROVE LookupsAskInOrder'
  <2>1. /\ lookup'[l].at = "asking" /\ lookup'[l].backend = lookup[l].backend
        /\ lookup'[l].version = lookup[l].version
        /\ \A m \in Lookups : m # l => lookup'[m] = lookup[m]
    BY <1>3, <1>4 DEF GetPolicyBegins, LookupRecord
  <2> QED
    BY <2>1, MoveKeepsOrder
<1>5. ASSUME NEW l \in Lookups, EnsureConnection(l) PROVE LookupsAskInOrder'
  <2>1. /\ lookup'[l].backend = lookup[l].backend /\ lookup'[l].version = lookup[l].version
        /\ \A m \in Lookups : m # l => lookup'[m] = lookup[m]
    BY <1>3, <1>5 DEF EnsureConnection, LookupRecord
  <2>2. lookup[l].backend = 1
    BY <1>3, <1>5 DEF EnsureConnection
  <2> QED
    BY <2>1, <2>2, MoveKeepsOrder
<1>6. ASSUME NEW l \in Lookups, Ping(l) PROVE LookupsAskInOrder'
  <2>1. lookup[l].backend = 1
    BY <1>3, <1>6 DEF Ping
  <2>2. CASE lookup' = [lookup EXCEPT ![l].at = "asking"]
    <3>1. /\ lookup'[l].at = "asking" /\ lookup'[l].backend = 1
          /\ lookup'[l].version = lookup[l].version
          /\ \A m \in Lookups : m # l => lookup'[m] = lookup[m]
      BY <1>3, <2>1, <2>2 DEF LookupRecord
    <3> QED
      BY <2>1, <3>1, MoveKeepsOrder
  <2>3. CASE Answered(l, {})
    BY <2>1, <2>3, AnswerKeepsOrder
  <2> QED
    BY <1>6, <2>2, <2>3 DEF Ping
<1>7. ASSUME NEW l \in Lookups, AskRedis(l) PROVE LookupsAskInOrder'
  <2>1. PICK versions \in {Cached, {}} : Answered(l, versions)
    BY <1>7 DEF AskRedis
  <2>2. \A v \in versions : v \in Int /\ v >= -1
    BY <2>1 DEF Cached, ChainInv, CacheIsRecent, ChainTypes
  <2>3. lookup[l].backend < 4
    BY <1>3, <1>7 DEF AskRedis
  <2> QED
    BY <2>1, <2>2, <2>3, AnswerKeepsOrder
<1>8. ASSUME NEW l \in Lookups, AskHttp(l) PROVE LookupsAskInOrder'
  <2>1. PICK versions \in {{version}, {}} : Answered(l, versions)
    BY <1>8 DEF AskHttp
  <2>2. \A v \in versions : v \in Int /\ v >= -1
    BY <2>1 DEF ChainInv, ChainTypes
  <2>3. lookup[l].backend < 4
    BY <1>3, <1>8 DEF AskHttp
  <2> QED
    BY <2>1, <2>2, <2>3, AnswerKeepsOrder
<1>9. ASSUME NEW l \in Lookups, AskLocal(l) PROVE LookupsAskInOrder'
  <2> DEFINE own == IF Source(l) = "default" \/ ConfigHas THEN {-1} ELSE {}
  <2>1. PICK versions : versions = own /\ Answered(l, versions)
    BY <1>9 DEF AskLocal
  <2>2. \A v \in versions : v \in Int /\ v >= -1
    BY <2>1
  <2>3. versions = {} => lookup[l].backend < 4
    <3>1. versions = {} => Source(l) # "default"
      BY <2>1
    <3> QED
      BY <1>3, <3>1
  <2>4. Answered(l, versions)
    BY <2>1
  <2> HIDE DEF own
  <2> QED
    BY <2>2, <2>3, <2>4, AnswerKeepsOrder
<1>10. ASSUME SetPolicy \/ CloseRedis \/ PolicyChanges \/ ClockTick \/ UNCHANGED chainVars
       PROVE  LookupsAskInOrder'
  <2>1. lookup' = lookup
    BY <1>10 DEF SetPolicy, CloseRedis, PolicyChanges, ClockTick, chainVars
  <2> QED
    BY <2>1 DEF LookupsAskInOrder
<1>11. LookupsAskInOrder'
  BY <1>4, <1>5, <1>6, <1>7, <1>8, <1>9, <1>10 DEF PolicyChainNext
<1> QED
  BY <1>1, <1>2, <1>11

\* Clock, versions, cache and lookups of the policy chain keep their types: a lookup asks
\* one of the four backends, and what it knows is a version there has been.
THEOREM ChainTypesHold == PolicyChainSpec => []PolicyChainTypeOK
<1>1. PolicyChainInit => ChainTypeInv
  <2> SUFFICES ASSUME PolicyChainInit PROVE ChainTypeInv
    OBVIOUS
  <2>1. LookupsAskInOrder /\ ChainBounds
    BY PolicyChainAssumption DEF PolicyChainInit, LookupsAskInOrder, ChainBounds
  <2> QED
    BY <2>1, ChainBegins DEF ChainTypeInv
<1>2. ChainTypeInv => PolicyChainTypeOK
  BY DEF ChainTypeInv, ChainInv, ChainTypes, CacheIsRecent, LookupsHaveBegun, LookupsAskInOrder,
         ChainBounds, PolicyChainTypeOK, LookupRecord, Backends
<1> QED
  BY <1>1, <1>2, ChainTypeStep, PTL DEF PolicyChainSpec

LEMMA GovernanceStart == GovernanceInit => GovernanceInv
  BY DEF GovernanceInit, GovernanceInv, TradesAreTyped, JudgedByClosed, Informed, Closed

\* The trader's clock and book stay within their bounds.
GovernanceBounds == hour <= LastHour /\ Len(taken) <= MaxTaken

LEMMA GovernanceBoundsStep ==
    ASSUME GovernanceInv, GovernanceBounds, [GovernanceNext]_governanceVars
    PROVE  GovernanceBounds'
<1>1. hour \in Nat /\ taken \in Seq(Trade) /\ Len(taken) \in Nat /\ LastHour \in Nat /\ MaxTaken \in Nat
  BY GovernanceAssumption, LenProperties DEF GovernanceInv, TradesAreTyped
<1>2. ASSUME NEW c \in TradeContexts, EvaluateTrade(c) PROVE GovernanceBounds'
  <2>1. PICK rec : taken' = Append(taken, rec) /\ Len(taken) < MaxTaken /\ hour' = hour
    BY <1>2 DEF EvaluateTrade
  <2>2. Len(taken') = Len(taken) + 1
    <3>1. taken \in Seq(Trade \cup {rec}) /\ rec \in Trade \cup {rec}
      BY <1>1
    <3> QED
      BY <2>1, <3>1, AppendProperties
  <2> QED
    BY <1>1, <2>1, <2>2 DEF GovernanceBounds
<1>3. ASSUME NEW i \in DOMAIN taken, NEW pnl, TradeCloses(i, pnl) PROVE GovernanceBounds'
  <2>1. PICK rec : taken' = [taken EXCEPT ![i] = rec] /\ hour' = hour
    BY <1>3 DEF TradeCloses
  <2>2. Len(taken') = Len(taken)
    <3>1. taken \in Seq(Trade \cup {rec}) /\ rec \in Trade \cup {rec}
      BY <1>1
    <3> QED
      BY <2>1, <3>1, ExceptSeq
  <2> QED
    BY <2>1, <2>2 DEF GovernanceBounds
<1>4. CASE (\E given : AddOutcomes(given)) \/ HourPasses \/ UNCHANGED governanceVars
  BY <1>1, <1>4 DEF AddOutcomes, HourPasses, governanceVars, GovernanceBounds
<1> QED
  BY <1>2, <1>3, <1>4 DEF GovernanceNext

\* The trades taken keep their types: taken in the past, their pnl one of those possible
\* or unreadable, and the service is told of closed ones only.
THEOREM TradesKeepTheirTypes == GovernanceSpec => []GovernanceTypeOK
<1>1. GovernanceInit => GovernanceBounds
  BY GovernanceAssumption DEF GovernanceInit, GovernanceBounds
<1>2. GovernanceInv /\ GovernanceBounds => GovernanceTypeOK
  <2> SUFFICES ASSUME GovernanceInv, GovernanceBounds PROVE GovernanceTypeOK
    OBVIOUS
  <2>1. hour \in 0..LastHour /\ Len(taken) <= MaxTaken
    BY GovernanceAssumption DEF GovernanceInv, TradesAreTyped, GovernanceBounds
  <2>2. ASSUME NEW i \in DOMAIN taken
        PROVE  taken[i].time \in 0..hour /\ taken[i].pnl \in TradePnl \cup {{}}
    <3>1. taken[i] \in Trade /\ taken[i].time <= hour /\ hour \in Nat
      BY ElementOfSeq, LenProperties DEF GovernanceInv, TradesAreTyped
    <3> QED
      BY <3>1 DEF Trade
  <2>3. told \subseteq {i \in DOMAIN taken : ~taken[i].open}
    BY DEF GovernanceInv, TradesAreTyped, Closed
  <2> QED
    BY <2>1, <2>2, <2>3 DEF GovernanceTypeOK
<1> QED
  BY <1>1, <1>2, GovernanceStart, GovernanceStep, GovernanceBoundsStep, PTL DEF GovernanceSpec

\* One evaluation at a time; the trail tells decisions.
OutcomeBounds ==
    /\ shadow \in {"new", "failed", "ready"} /\ Len(evaluation) <= 1
    /\ auditTrail \in Seq({"allow", "veto"})
    /\ evaluations \in 0..MaxEvaluations /\ ruleChanges \in 0..MaxRuleChanges

LEMMA OutcomeStart == OutcomePolicyInit => OutcomeInv
  BY DEF OutcomePolicyInit, OutcomeInv, PolicyTypes, RAgreesWithPnl

\* An evaluation that is updated stays the only one.
LEMMA EvaluationsStayFew ==
    ASSUME NEW old \in Seq(Evaluation), NEW new \in Seq(Evaluation), DOMAIN new = DOMAIN old,
           Len(old) <= 1
    PROVE  Len(new) <= 1
<1>1. DOMAIN new = 1..Len(new) /\ DOMAIN old = 1..Len(old) /\ Len(new) \in Nat /\ Len(old) \in Nat
  BY LenProperties
<1>2. ASSUME Len(new) > 1 PROVE FALSE
  <2>1. PICK n \in Nat : n = Len(new)
    BY <1>1
  <2>2. n \in 1..Len(new)
    BY <1>2, <2>1
  <2>3. n \in 1..Len(old)
    <3>1. n \in DOMAIN new
      BY <1>1, <2>2
    <3> QED
      BY <1>1, <3>1
  <2> QED
    BY <1>1, <1>2, <2>1, <2>3, SMTT(30)
<1> QED
  BY <1>1, <1>2

LEMMA OutcomeBoundsStep ==
    ASSUME OutcomeInv, OutcomeInv', OutcomeBounds, [OutcomePolicyNext]_outcomeVars
    PROVE  OutcomeBounds'
<1> USE DEF OutcomeBounds
<1>1. evaluation \in Seq(Evaluation) /\ evaluation' \in Seq(Evaluation)
  BY DEF OutcomeInv, PolicyTypes
<1>2. ASSUME NEW t, NEW slippage, NEW exit, ExecutePaperTrade(t, slippage, exit) PROVE OutcomeBounds'
  <2>1. DOMAIN evaluation' = DOMAIN evaluation
        /\ UNCHANGED <<shadow, auditTrail, evaluations, ruleChanges>>
    BY <1>2 DEF ExecutePaperTrade
  <2> QED
    BY <1>1, <2>1, EvaluationsStayFew
<1>3. ASSUME NEW valid, InitializeShadow(valid) PROVE OutcomeBounds'
  BY <1>3 DEF InitializeShadow
<1>4. ASSUME NEW r, AddRule(r) \/ RemoveRule(r) PROVE OutcomeBounds'
  <2>1. /\ DOMAIN evaluation' = DOMAIN evaluation /\ UNCHANGED <<shadow, auditTrail, evaluations>>
        /\ ruleChanges < MaxRuleChanges /\ ruleChanges' = ruleChanges + 1
    BY <1>4 DEF AddRule, RemoveRule
  <2>2. Len(evaluation') <= 1
    BY <1>1, <2>1, EvaluationsStayFew
  <2> QED
    BY <2>1, <2>2, OutcomePolicyAssumption
<1>5. ASSUME NEW signal, NEW symbol, EvaluateDecision(signal, symbol) PROVE OutcomeBounds'
  <2>1. PICK e : evaluation' = <<e>>
    BY <1>5 DEF EvaluateDecision
  <2>2. /\ auditTrail' \in {auditTrail, Append(auditTrail, "allow")} /\ UNCHANGED <<shadow, ruleChanges>>
        /\ evaluations < MaxEvaluations /\ evaluations' = evaluations + 1
    BY <1>5 DEF EvaluateDecision
  <2>3. auditTrail' \in Seq({"allow", "veto"})
    BY <2>2, AppendProperties
  <2> QED
    BY <2>1, <2>2, <2>3, OutcomePolicyAssumption
<1>6. CASE AskRule
  <2>1. \E e : evaluation' = <<e>>
    BY <1>6 DEF AskRule
  <2>2. /\ \E d \in {"allow", "veto"} : auditTrail' \in {auditTrail, Append(auditTrail, d)}
        /\ UNCHANGED <<shadow, evaluations, ruleChanges>>
    BY <1>6 DEF AskRule
  <2>3. auditTrail' \in Seq({"allow", "veto"})
    BY <2>2, AppendProperties
  <2> QED
    BY <2>1, <2>2, <2>3
<1>7. CASE ClearAuditTrail
  BY <1>7, EmptySeq DEF ClearAuditTrail
<1>8. CASE UNCHANGED outcomeVars
  BY <1>8 DEF outcomeVars
<1> QED
  BY <1>2, <1>3, <1>4, <1>5, <1>6, <1>7, <1>8 DEF OutcomePolicyNext

\* Rows, rules, evaluation and trail keep their types: evaluations follow one another, and
\* the trail tells decisions only.
THEOREM OutcomesKeepTheirTypes == OutcomePolicySpec => []OutcomePolicyTypeOK
<1>1. OutcomePolicyInit => OutcomeBounds
  BY OutcomePolicyAssumption, EmptySeq DEF OutcomePolicyInit, OutcomeBounds
<1>2. OutcomeInv /\ OutcomeBounds => OutcomePolicyTypeOK
  <2> SUFFICES ASSUME OutcomeInv, OutcomeBounds PROVE OutcomePolicyTypeOK
    OBVIOUS
  <2>1. ASSUME NEW S, NEW s \in Seq(S) PROVE ToSet(s) \subseteq S
    BY ElementOfSeq, LenProperties DEF ToSet
  <2>2. ToSet(outcomes) \subseteq DecisionOutcome /\ ToSet(rules) \subseteq Rule
    BY <2>1 DEF OutcomeInv, PolicyTypes
  <2>3. ToSet(auditTrail) \subseteq {"allow", "veto"}
    BY <2>1 DEF OutcomeBounds
  <2> QED
    BY <2>2, <2>3 DEF OutcomePolicyTypeOK, OutcomeBounds, Rule
<1> QED
  BY <1>1, <1>2, OutcomeStart, OutcomeStep, OutcomeBoundsStep, PTL DEF OutcomePolicySpec

\* What is wrong with a plan or its context is one error.
LEMMA OneFault ==
    ASSUME NEW p \in AnyPlan, NEW c
    PROVE  {ValidatePlan(p), ValidateContext(p, c)} \subseteq Optional(ExecutionError)
<1>1. ASSUME NEW x, x \in ErrorCode PROVE Fatal(x) \in ExecutionError
  BY <1>1 DEF Fatal, ExecutionError, ErrorSeverity
<1>2. ASSUME NEW e \in ExecutionError PROVE {e} \in Optional(ExecutionError)
  BY FS_Singleton DEF Optional
<1>3. {} \in Optional(ExecutionError)
  BY FS_EmptySet DEF Optional
<1>4. \A x \in ErrorCode : {Fatal(x)} \in Optional(ExecutionError)
  BY <1>1, <1>2
<1>5. /\ "INVALID_PAYLOAD" \in ErrorCode /\ "DEADLINE_EXCEEDED" \in ErrorCode
      /\ "CONTEXT_MISSING" \in ErrorCode /\ "DEPENDENCY_UNRESOLVED" \in ErrorCode
  BY DEF ErrorCode
<1>6. ValidateContext(p, c) \in Optional(ExecutionError)
  BY <1>3, <1>4, <1>5 DEF ValidateContext
<1>7. {Fatal(x) : x \in ErrorOfEdge(p, FirstBadEdge(p))} \in Optional(ExecutionError)
  <2>1. PICK e : e = FirstBadEdge(p)
    OBVIOUS
  <2>2. ErrorOfEdge(p, e) \in {{"DEPENDENCY_UNRESOLVED"}, {"INVALID_PAYLOAD"}, {}}
    BY DEF ErrorOfEdge, EdgeError
  <2>3. {Fatal(x) : x \in ErrorOfEdge(p, e)} \in
           {{Fatal("DEPENDENCY_UNRESOLVED")}, {Fatal("INVALID_PAYLOAD")}, {}}
    BY <2>2
  <2>4. {Fatal(x) : x \in ErrorOfEdge(p, e)} \in Optional(ExecutionError)
    BY <1>3, <1>4, <1>5, <2>3
  <2> QED
    BY <2>1, <2>4
<1>8. ValidatePlan(p) \in Optional(ExecutionError)
  BY <1>3, <1>4, <1>5, <1>7 DEF ValidatePlan
<1> QED
  BY <1>6, <1>8

\* A result of a plan is one, of the steps done and the error given.
LEMMA ResultIsTyped ==
    ASSUME NEW p \in AnyPlan, NEW n \in Nat, NEW error \in Optional(ExecutionError), NEW r,
           r = BuildPlanResult(p, n, error)
    PROVE  {r} \subseteq PlanResult /\ Cardinality({r}) <= 1
<1>1. Len(p.steps) \in Nat
  BY StepsAreNumbered
<1>2. PICK status \in {"success", "partial", "failure"} :
        r = [status |-> status, steps_executed |-> n, steps_total |-> Len(p.steps), error |-> error]
  BY DEF BuildPlanResult
<1>3. r \in PlanResult
  BY <1>1, <1>2 DEF PlanResult
<1> QED
  BY <1>3, FS_Singleton

PlanTypeInv == PlanInv /\ PlanExecutionTypeOK

\* The last call and its result keep their types: validation and context find one error
\* at most, and the result tells it and the steps done.
THEOREM PlansKeepTheirTypes == PlanExecutionSpec => []PlanExecutionTypeOK
<1>1. PlanExecutionInit => PlanTypeInv
  <2> SUFFICES ASSUME PlanExecutionInit PROVE PlanTypeInv
    OBVIOUS
  <2>1. planCall.kind = "none" /\ planCall.result = {}
    BY DEF PlanExecutionInit
  <2> QED
    BY <2>1, PlanStart, FS_EmptySet DEF PlanTypeInv, PlanExecutionTypeOK
<1>2. PlanTypeInv /\ [PlanExecutionNext]_planCall => PlanTypeInv'
  <2> SUFFICES ASSUME PlanTypeInv, [PlanExecutionNext]_planCall PROVE PlanTypeInv'
    OBVIOUS
  <2> USE DEF PlanTypeInv
  <2>1. PlanInv'
    BY PlanMoves
  <2> DEFINE p == planCall.plan
             c == planCall.context
  <2>2. p \in AnyPlan /\ 0 \in Nat
    BY DEF PlanInv
  <2>3. CASE CallExecute
    <3>1. planCall'.kind = "execute" /\ planCall'.result = Execute(p)
      BY <2>3 DEF CallExecute
    <3>2. Execute(p) \subseteq PlanResult /\ Cardinality(Execute(p)) <= 1
      <4>1. CASE ValidatePlan(p) # {}
        <5>1. PICK r : r = BuildPlanResult(p, 0, ValidatePlan(p))
          OBVIOUS
        <5>2. Execute(p) = {r}
          BY <4>1, <5>1 DEF Execute
        <5>3. ValidatePlan(p) \in Optional(ExecutionError)
          BY <2>2, OneFault
        <5> QED
          BY <2>2, <5>1, <5>2, <5>3, ResultIsTyped
      <4>2. CASE ValidatePlan(p) = {}
        BY <4>2, FS_EmptySet DEF Execute
      <4> QED
        BY <4>1, <4>2
    <3> QED
      BY <2>1, <3>1, <3>2 DEF PlanExecutionTypeOK
  <2>4. CASE CallSteps
    <3>1. PICK error, run, r :
             /\ error = IF ValidatePlan(p) # {} THEN ValidatePlan(p) ELSE ValidateContext(p, c)
             /\ run = IF error # {} THEN [steps_executed |-> 0, error |-> error] ELSE ExecuteSteps(p)
             /\ r = BuildPlanResult(p, run.steps_executed, run.error)
             /\ planCall'.kind = "steps" /\ planCall'.result = {r}
      BY <2>4 DEF CallSteps
    <3>2. error \in Optional(ExecutionError)
      BY <2>2, <3>1, OneFault
    <3>3. run.steps_executed \in Nat /\ run.error \in Optional(ExecutionError)
      <4>1. CASE error # {}
        BY <3>1, <3>2, <4>1
      <4>2. CASE error = {}
        <5>1. ValidatePlan(p) = {}
          BY <3>1, <4>2
        <5>2. run = Done(p, Len(p.steps))
          BY <2>2, <3>1, <4>2, <5>1, PassDoesAll
        <5>3. run.steps_executed = Len(p.steps) /\ run.error = error
          BY <4>2, <5>2 DEF Done
        <5> QED
          BY <2>2, <3>2, <5>3, StepsAreNumbered
      <4> QED
        BY <4>1, <4>2
    <3>4. {r} \subseteq PlanResult /\ Cardinality({r}) <= 1
      BY <2>2, <3>1, <3>3, ResultIsTyped
    <3> QED
      BY <2>1, <3>1, <3>4 DEF PlanExecutionTypeOK
  <2>5. CASE UNCHANGED planCall
    BY <2>1, <2>5 DEF PlanExecutionTypeOK
  <2> QED
    BY <2>3, <2>4, <2>5 DEF PlanExecutionNext
<1>3. PlanTypeInv => PlanExecutionTypeOK
  BY DEF PlanTypeInv
<1> QED
  BY <1>1, <1>2, <1>3, PTL DEF PlanExecutionSpec
===============================================================================
