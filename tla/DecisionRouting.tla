---------------------------- MODULE DecisionRouting ----------------------------
(***************************************************************************)
(* What process_decision() computes of one decision: its normal form, its  *)
(* deduplication key, the channels it is routed to, and which result is    *)
(* filed under which channel; and the filter that advisory signals pass.   *)
(***************************************************************************)
EXTENDS Optionals

CONSTANTS
    RawDecisions,    \* [symbol, recommendation, idempotency_key, signal_id,
                     \*  confidence (thousandths, {} when no number), tags, urgent]
    DecisionTimes,   \* timestamp_ms of decisions
    DedupWindow,     \* DEDUP_WINDOW_SECONDS
    Channels,        \* names of channels
    RoutingRules,    \* sequence of [kind, key, channels]: "symbol", "tags", "prefix"
    Overrides,       \* sequence of [symbol, window, channels]
    QuietHours,      \* {} or {<<start, end>>}
    HoursOfDay,
    Notifiers,       \* channels that have a notifier
    AdvisorySignals, \* [signal_type, confidence ({} for none, {-1} no number)]
    BlockedTypes, MinConfidence,
    MaxProcessed,    \* bound: calls of process_decision()
    PrefixOf(_, _)   \* PrefixOf(pattern, symbol), for keys that end in "*"

ChannelsOf(rules) == [i \in DOMAIN rules |-> rules[i].channels]

ASSUME DecisionRoutingAssumption ==
    /\ DedupWindow \in Int /\ {MinConfidence, MaxProcessed} \subseteq Nat
    /\ DecisionTimes \subseteq Int
    /\ \A raw \in RawDecisions : raw.confidence \subseteq Int
    /\ {ChannelsOf(RoutingRules), ChannelsOf(Overrides)} \subseteq Seq(Seq(Channels))

VARIABLES
    processed,       \* decisions so far: [decision, key]
    delivery,        \* the last notification: [routed, called, results, skipped]
    signals          \* the last call of apply_policies(): [given, passed, failed]
routingVars == <<processed, delivery, signals>>

AllChannels == <<"slack", "discord", "telegram">>

DecisionRoutingTypeOK ==
    /\ Len(processed) <= MaxProcessed
    /\ \A i \in DOMAIN processed : processed[i].decision.confidence \in 0..1000
    /\ ToSet(delivery.called) \subseteq Notifiers
    /\ DOMAIN delivery.results \subseteq ToSet(delivery.routed)
    /\ ToSet(signals.passed) \subseteq ToSet(signals.given)

DecisionRoutingInit ==
    /\ processed = <<>>
    /\ delivery = [routed |-> <<>>, called |-> <<>>, results |-> <<>>, sent |-> FALSE]
    /\ signals = [given |-> <<>>, passed |-> <<>>, failed |-> FALSE]

-----------------------------------------------------------------------------
(* Normal form and key *)

Normal(raw, time, confidence) ==
    [symbol |-> raw.symbol, recommendation |-> raw.recommendation, tags |-> raw.tags,
     urgent |-> raw.urgent, idempotency_key |-> raw.idempotency_key, signal_id |-> raw.signal_id,
     confidence |-> confidence, timestamp_ms |-> time]

NormalizeDecision_mut_unclamped(raw, time) ==
    Normal(raw, time, IF raw.confidence = {} THEN 0 ELSE CHOOSE c \in raw.confidence : TRUE)
NormalizeDecision(raw, time) ==
    Normal(raw, time, IF raw.confidence = {} THEN 0
                      ELSE Max({0, Min({1000, CHOOSE c \in raw.confidence : TRUE})}))

\* round() of the confidence in per cent: a half goes to the even side.
Percent(c) ==
    LET low == c \div 10
    IN  IF c % 10 < 5 \/ (c % 10 = 5 /\ low % 2 = 0) THEN low ELSE low + 1

ComputeDedupKey_mut_noSymbol(d) ==
    IF d.idempotency_key # {} THEN <<"idem", d.idempotency_key>>
    ELSE IF d.signal_id # {} THEN <<"sig", d.signal_id>>
    ELSE <<"norm", d.recommendation, Percent(d.confidence),
           (d.timestamp_ms \div 1000) \div Max({1, DedupWindow})>>
ComputeDedupKey(d) ==
    IF d.idempotency_key # {} THEN <<"idem", d.idempotency_key>>
    ELSE IF d.signal_id # {} THEN <<"sig", d.signal_id>>
    ELSE <<"norm", d.symbol, d.recommendation, Percent(d.confidence),
           (d.timestamp_ms \div 1000) \div Max({1, DedupWindow})>>

-----------------------------------------------------------------------------
(* Routing *)

\* _is_quiet_hours() and _in_override_window(): both ends belong to the window,
\* and a window that ends where it starts is the whole day.
InWindow(window, hour) ==
    IF window[1] < window[2] THEN hour \in window[1]..window[2]
    ELSE hour >= window[1] \/ hour <= window[2]

\* The channels of the first of some rules
FirstChannels(rules, places) == rules[Min(places)].channels

\* list(dict.fromkeys()): every member once, where it comes first
Unique(s) == AtPlaces(s, {i \in DOMAIN s : \A j \in DOMAIN s : s[j] = s[i] => i <= j})

GetRoutingForDecision(d, hour) ==
    LET overridden == {i \in DOMAIN Overrides :
            LET o == Overrides[i]
            IN  o.symbol = d.symbol /\ InWindow(o.window, hour) /\ o.channels # <<>>}
        those(kind) == {i \in DOMAIN RoutingRules : RoutingRules[i].kind = kind}
        exact == {i \in those("symbol") : RoutingRules[i].key = d.symbol}
        tagged == FlattenSeq([i \in DOMAIN RoutingRules |->
            IF i \in those("tags") /\ RoutingRules[i].key \subseteq d.tags
            THEN RoutingRules[i].channels ELSE <<>>])
        wild == {i \in those("prefix") : PrefixOf(RoutingRules[i].key, d.symbol)}
    IN  IF overridden # {} THEN FirstChannels(Overrides, overridden)
        ELSE IF exact # {} THEN FirstChannels(RoutingRules, exact)
        ELSE IF tagged # <<>> THEN Unique(tagged)
        ELSE IF wild # {} THEN FirstChannels(RoutingRules, wild)
        ELSE AllChannels

\* zip() of the routed channels with the results of the notifiers awaited
PairResults_mut_shifted(routed, called) ==
    [c \in {routed[i] : i \in 1..Min({Len(routed), Len(called)})} |->
        LET at == Max({i \in 1..Min({Len(routed), Len(called)}) : routed[i] = c})
        IN  called[(at % Len(called)) + 1]]
PairResults(routed, called) ==
    [c \in {routed[i] : i \in 1..Min({Len(routed), Len(called)})} |->
        called[Max({i \in 1..Min({Len(routed), Len(called)}) : routed[i] = c})]]

\* A result is named by the channel whose notifier gave it.
Deliver(d, hour, skipped) ==
    LET routed == GetRoutingForDecision(d, hour)
        called == AtPlaces(routed, {i \in DOMAIN routed : routed[i] \in Notifiers})
        quiet == (\E q \in QuietHours : InWindow(q, hour)) /\ ~d.urgent
        sent == ~quiet /\ ~skipped /\ called # <<>>
    IN  delivery' = [routed |-> routed, called |-> IF sent THEN called ELSE <<>>, sent |-> sent,
                     results |-> IF sent THEN PairResults(routed, called) ELSE <<>>]

ProcessDecision(raw, time, hour) ==
    LET d == NormalizeDecision(raw, time)
        key == ComputeDedupKey(d)
    IN  /\ Len(processed) < MaxProcessed
        /\ processed' = Append(processed, [decision |-> d, key |-> key])
        /\ Deliver(d, hour, \E i \in DOMAIN processed : processed[i].key = key)
        /\ UNCHANGED signals

\* apply_policies(): any exception lets every signal through.
ApplyPolicies_mut_noBlocked(given, policy) ==
    LET low(s) == s.confidence # {} /\ \A c \in s.confidence : c < MinConfidence
        failed == policy = "error" \/ \E i \in DOMAIN given : given[i].confidence = {-1}
    IN  signals' = [given |-> given, failed |-> failed \/ policy = "none",
                    passed |-> IF failed \/ policy = "none" THEN given
                               ELSE AtPlaces(given, {i \in DOMAIN given : ~low(given[i])})]
ApplyPolicies(given, policy) ==
    LET low(s) == s.confidence # {} /\ \A c \in s.confidence : c < MinConfidence
        failed == policy = "error" \/ \E i \in DOMAIN given :
                      given[i].confidence = {-1} /\ given[i].signal_type \notin BlockedTypes
    IN  signals' = [given |-> given, failed |-> failed \/ policy = "none",
                    passed |-> IF failed \/ policy = "none" THEN given
                               ELSE AtPlaces(given, {i \in DOMAIN given :
                                   given[i].signal_type \notin BlockedTypes /\ ~low(given[i])})]

ProcessNext ==
    \E raw \in RawDecisions, time \in DecisionTimes, hour \in HoursOfDay :
        ProcessDecision(raw, time, hour)

\* The filter shares no state with the decisions.
FilterNext ==
    /\ \E a, b \in AdvisorySignals, policy \in {"none", "error", "found"} :
          ApplyPolicies(<<a, b>>, policy)
    /\ UNCHANGED <<processed, delivery>>

DecisionRoutingNext == ProcessNext \/ FilterNext

-----------------------------------------------------------------------------
(* Properties *)

\* Two decisions share a key only if they carry the same id, or are of one symbol
\* and recommendation, within a per cent and within the window: deduplication
\* drops nothing else.
KeysTellApart ==
    \A i, j \in DOMAIN processed : processed[i].key = processed[j].key =>
        LET a == processed[i].decision
            b == processed[j].decision
        IN  \/ a.idempotency_key # {} /\ a.idempotency_key = b.idempotency_key
            \/ a.signal_id # {} /\ a.signal_id = b.signal_id
            \/ /\ a.symbol = b.symbol /\ a.recommendation = b.recommendation
               /\ a.confidence - b.confidence \in -10..10
               /\ (a.timestamp_ms \div 1000) - (b.timestamp_ms \div 1000)
                    \in (1 - Max({1, DedupWindow}))..(Max({1, DedupWindow}) - 1)

\* A result filed under a channel is that of its notifier, whichever rule chose
\* the channels, if every one of them has a notifier; and a sent decision has a
\* result for each of them.
ResultsTellChannels ==
    delivery.sent /\ ToSet(delivery.routed) \subseteq Notifiers =>
        /\ DOMAIN delivery.results = ToSet(delivery.routed)
        /\ \A c \in DOMAIN delivery.results : delivery.results[c] = c

\* A signal of a blocked type passes only when the policy could not be had or
\* the filter failed on a signal: one without a number lets all others through.
BlockedTypesStop ==
    ~signals.failed => \A i \in DOMAIN signals.passed : signals.passed[i].signal_type \notin BlockedTypes

\* Nothing is dropped, sent or reported for another decision or channel.
RoutingHolds == KeysTellApart /\ ResultsTellChannels /\ BlockedTypesStop
=============================================================================
