----------------------------- MODULE Intelligence -----------------------------
(***************************************************************************)
(* DecisionIntelligenceArchiveService, to which reports are only appended, *)
(* and DecisionIntelligenceMemoryService, which analyses a copy of what    *)
(* was fetched from it.  Scores are per cent; {} stands for no number.     *)
(***************************************************************************)
EXTENDS Optionals

CONSTANTS
    Reports,       \* [correlation_id ({} when there is none), confidence, regret]
    MaxArchived    \* bound: reports in the archive

ASSUME IntelligenceAssumption ==
    MaxArchived \in Nat /\ \A r \in Reports : r.confidence \subseteq Int /\ r.regret \subseteq Int

VARIABLES
    archive,       \* _archive
    cachedReports, \* _cached_reports
    fetched        \* history: what the memory was loaded with: {} for fetch_all(), or an id
intelligenceVars == <<archive, cachedReports, fetched>>

IntelligenceTypeOK ==
    /\ Len(archive) <= MaxArchived /\ Len(cachedReports) <= MaxArchived
    /\ ToSet(archive) \subseteq {r \in Reports : r.correlation_id # {}}

IntelligenceInit == archive = <<>> /\ cachedReports = <<>> /\ fetched = {}

-----------------------------------------------------------------------------
(* Archive *)

\* A report without a correlation id is dropped without a word.
ArchiveReport_mut_upsert(s, report) ==
    IF report.correlation_id = {} THEN s
    ELSE Append(AtPlaces(s, {i \in DOMAIN s : s[i].correlation_id # report.correlation_id}), report)
ArchiveReport(s, report) == IF report.correlation_id = {} THEN s ELSE Append(s, report)

\* archive_batch(): one bad report does not keep the others out.
ArchiveBatch(reports) ==
    LET after[n \in 0..Len(reports)] ==
            IF n = 0 THEN archive ELSE ArchiveReport(after[n - 1], reports[n])
    IN  /\ Len(archive) + Len(reports) <= MaxArchived
        /\ archive' = after[Len(reports)]
        /\ UNCHANGED <<cachedReports, fetched>>

FetchByCorrelationId(s, id) == AtPlaces(s, {i \in DOMAIN s : s[i].correlation_id = id})

\* load_from_archive() with what fetch_all() or fetch_by_correlation_id() gave
LoadFromArchive(id) ==
    /\ fetched' = id
    /\ cachedReports' = IF id = {} THEN archive ELSE FetchByCorrelationId(archive, id)
    /\ UNCHANGED archive

IntelligenceNext ==
    \/ \E r \in Reports : ArchiveBatch(<<r>>)
    \/ \E q, r \in Reports : q # r /\ ArchiveBatch(<<q, r>>)
    \/ \E r \in Reports : LoadFromArchive(r.correlation_id)

-----------------------------------------------------------------------------
(* Analyses *)

\* The numbers among what may be none, and those of them within bounds
Numbers(s) ==
    LET known == AtPlaces(s, {i \in DOMAIN s : s[i] # {}})
    IN  [i \in DOMAIN known |-> CHOOSE x \in known[i] : TRUE]
Within(s, bounds) == AtPlaces(s, {i \in DOMAIN s : s[i] \in bounds})
Confidences(s) == Numbers([i \in DOMAIN s |-> s[i].confidence])

\* compute_trends() of the archive: without any number the bounds are 0.
ArchiveTrends ==
    LET c == Confidences(archive)
    IN  [total |-> Len(archive), sum |-> SumSeq(c),
         min |-> IF c = <<>> THEN 0 ELSE Min(ToSet(c)), max |-> IF c = <<>> THEN 0 ELSE Max(ToSet(c))]

\* _compute_statistics(): {} without values
Statistics(values) ==
    IF values = <<>> THEN {}
    ELSE {[count |-> Len(values), sum |-> SumSeq(values),
           min |-> Min(ToSet(values)), max |-> Max(ToSet(values))]}

\* compute_trends() of the memory takes only what lies between 0 and 1.
ComputeTrends_mut_noZero == Statistics(Within(Confidences(cachedReports), 1..100))
ComputeTrends == Statistics(Within(Confidences(cachedReports), 0..100))

\* detect_patterns(): where three confidences in a row fall; a report without
\* one does not break the row.
ConfidenceDecaySequences_mut_notStrict ==
    LET c == Confidences(cachedReports)
    IN  {i \in 1..(Len(c) - 2) : c[i] >= c[i + 1] /\ c[i + 1] >= c[i + 2]}
ConfidenceDecaySequences ==
    LET c == Confidences(cachedReports)
    IN  {i \in 1..(Len(c) - 2) : c[i] > c[i + 1] /\ c[i + 1] > c[i + 2]}

\* detect_patterns(): the regrets a standard deviation above the mean, both
\* multiplied out; equal regrets are compared with 1.5 times the mean.
Regrets == Within(Numbers([i \in DOMAIN cachedReports |-> cachedReports[i].regret]), 0..100)
RegretCluster_mut_aboveMean ==
    LET n == Len(Regrets)
    IN  IF n < 3 THEN {} ELSE {i \in 1..n : n * Regrets[i] >= SumSeq(Regrets)}
RegretCluster ==
    LET regrets == Regrets
        n == Len(regrets)
        sum == SumSeq(regrets)
        spread == n * SumSeq([i \in 1..n |-> regrets[i] * regrets[i]]) - sum * sum
        above(x) == IF spread > 0
                    THEN n * x >= sum /\ (n * x - sum) * (n * x - sum) * (n - 1) >= n * spread
                    ELSE IF sum > 0 THEN 2 * n * x >= 3 * sum ELSE 2 * x >= 100
    IN  IF n < 3 \/ Len(cachedReports) < 2 THEN {} ELSE {i \in 1..n : above(regrets[i])}

-----------------------------------------------------------------------------
(* Properties *)

\* What the memory analyses is the archive as it once was, in its order: no later
\* report changes or reorders what was fetched, and none is missing.
MemoryIsAnOldArchive ==
    \E n \in 0..Len(archive) :
        LET old == SubSeq(archive, 1, n)
        IN  cachedReports = IF fetched = {} THEN old ELSE FetchByCorrelationId(old, fetched)

\* The two services, written apart, find the same bounds and sum in the same
\* reports as long as every confidence is between 0 and 1.
TrendsAgree ==
    cachedReports = archive /\ (\A r \in ToSet(archive) : r.confidence \subseteq 0..100) =>
        /\ ComputeTrends = {} => ArchiveTrends.sum = 0 /\ ArchiveTrends.max = 0
        /\ \A t \in ComputeTrends : [ArchiveTrends EXCEPT !.total = t.count] =
              [total |-> t.count, sum |-> t.sum, min |-> t.min, max |-> t.max]

\* The decay sequences are the windows of the falling runs: a run of n reports,
\* of which no two are equal, has n - 2 of them, and nothing else has any.
DecaySequencesAreRuns ==
    LET c == Confidences(cachedReports)
        falls(i, j) == \A k \in i..(j - 1) : c[k] > c[k + 1]
        longest(i, j) == /\ j >= i + 2 /\ falls(i, j)
                         /\ i > 1 => ~falls(i - 1, j)
                         /\ j < Len(c) => ~falls(i, j + 1)
        runs == {run \in (1..Len(c)) \X (1..Len(c)) : longest(run[1], run[2])}
    IN  Cardinality(ConfidenceDecaySequences) =
            SumFunction([run \in runs |-> run[2] - run[1] - 1])

\* A cluster of high regret is never the rule: it holds at most half of the
\* reports that have a regret, and none when all regrets are equal.
ClustersAreMinorities ==
    /\ 2 * Cardinality(RegretCluster) <= Len(Regrets)
    /\ Cardinality(ToSet(Regrets)) = 1 => RegretCluster = {}

\* The memory tells of the archive what a reader of the archive would find.
MemoryIsSound == MemoryIsAnOldArchive /\ TrendsAgree /\ DecaySequencesAreRuns /\ ClustersAreMinorities
=============================================================================
