------------------------------ MODULE Governance ------------------------------
(***************************************************************************)
(* TradeGovernanceService and a trader who heeds it: the service judges a  *)
(* trade by the outcomes it was last given, and add_outcomes() replaces    *)
(* them.  What it has not been told, or cannot read, does not count.       *)
(***************************************************************************)
EXTENDS Integers, Sequences, FiniteSets, SequencesExt, FiniteSetsExt

CONSTANTS
    TradeContexts,            \* [symbol, timeframe] of the trades in question
    TradePnl,                 \* what an outcome's pnl may be, {} when it is no number
    MaxTradesPerDay, MaxDailyLoss, MaxTradesPerSymbol, MaxTradesPerTimeframe,
    CooldownAfterLoss, MinTradeSpacing,
    KillzoneHours,            \* pairs [start, end)
    HoursPerDay,
    MaxTaken,                 \* bound: trades the trader takes
    LastHour                  \* bound: the clock stops there

ASSUME GovernanceAssumption ==
    /\ {MaxTradesPerDay, MaxDailyLoss, MaxTradesPerSymbol, MaxTradesPerTimeframe,
        CooldownAfterLoss, MinTradeSpacing, MaxTaken, LastHour} \subseteq Nat
    /\ HoursPerDay \in Nat \ {0}

VARIABLES
    hour,     \* the clock
    taken,    \* trades taken: [symbol, timeframe, time, open, pnl, informed]
    told      \* _outcomes: which of them the service knows
governanceVars == <<hour, taken, told>>

GovernanceTypeOK ==
    /\ hour \in 0..LastHour /\ Len(taken) <= MaxTaken
    /\ \A i \in DOMAIN taken : taken[i].time \in 0..hour /\ taken[i].pnl \in TradePnl \cup {{}}
    /\ told \subseteq {i \in DOMAIN taken : ~taken[i].open}

GovernanceInit == hour = 0 /\ taken = <<>> /\ told = {}

-----------------------------------------------------------------------------
(* evaluate_trade() *)

Day(time) == time \div HoursPerDay
Today_mut_before(known) ==
    {i \in known : Day(taken[i].time) = Day(hour) /\ taken[i].time < hour}
Today(known) == {i \in known : Day(taken[i].time) = Day(hour)}

PnlOf(pnl) == CHOOSE x \in pnl : TRUE
SumOver(numbers) == MapThenSumSet(LAMBDA i : numbers[i], DOMAIN numbers)
DayPnl(trades) == SumOver([i \in trades |-> PnlOf(taken[i].pnl)])

\* A pnl that is no number turns the sum into 0, and hides every loss.
CalculateDailyLoss(known) ==
    IF \E i \in Today(known) : taken[i].pnl = {} THEN 0 ELSE DayPnl(Today(known))

\* The outcomes that _find_last_trade_time() sees: not those of this very moment
Earlier_mut_today(known) == {i \in Today(known) : taken[i].time < hour}
Earlier(known) == {i \in known : taken[i].time < hour}

IsLoss(i) == \E x \in taken[i].pnl : x < 0
FindLastLossTime(known) ==
    IF \E i \in Earlier(known) : taken[i].pnl = {} THEN {}
    ELSE {taken[i].time : i \in {j \in Earlier(known) : IsLoss(j)}}
FindLastTradeTime(known) == {taken[i].time : i \in Earlier(known)}

\* The latest of the times is less than the given span ago.
Recent(times, span) == times # {} /\ hour < Max(times) + span

IsInKillzone ==
    \E zone \in KillzoneHours :
        LET now == hour % HoursPerDay
        IN  IF zone[1] <= zone[2] THEN now \in zone[1]..(zone[2] - 1)
            ELSE now >= zone[1] \/ now < zone[2]

CountDailySymbolTrades(symbol, known) ==
    Cardinality({i \in Today(known) : taken[i].symbol = symbol})
CountDailyTimeframeTrades(timeframe, known) ==
    Cardinality({i \in Today(known) : taken[i].timeframe = timeframe})

Violations_mut_netLoss(c, known) ==
    {v \in {"day", "loss", "killzone", "cooldown", "symbol", "timeframe", "spacing"} :
        CASE v = "day" -> Cardinality(Today(known)) >= MaxTradesPerDay
          [] v = "loss" -> CalculateDailyLoss(known) < -MaxDailyLoss
          [] v = "killzone" -> IsInKillzone
          [] v = "cooldown" -> Recent(FindLastLossTime(known), CooldownAfterLoss)
          [] v = "symbol" -> CountDailySymbolTrades(c.symbol, known) >= MaxTradesPerSymbol
          [] v = "timeframe" -> CountDailyTimeframeTrades(c.timeframe, known) >= MaxTradesPerTimeframe
          [] v = "spacing" -> Recent(FindLastTradeTime(known), MinTradeSpacing)}
Violations(c, known) ==
    {v \in {"day", "loss", "killzone", "cooldown", "symbol", "timeframe", "spacing"} :
        CASE v = "day" -> Cardinality(Today(known)) >= MaxTradesPerDay
          [] v = "loss" -> CalculateDailyLoss(known) <= -MaxDailyLoss
          [] v = "killzone" -> IsInKillzone
          [] v = "cooldown" -> Recent(FindLastLossTime(known), CooldownAfterLoss)
          [] v = "symbol" -> CountDailySymbolTrades(c.symbol, known) >= MaxTradesPerSymbol
          [] v = "timeframe" -> CountDailyTimeframeTrades(c.timeframe, known) >= MaxTradesPerTimeframe
          [] v = "spacing" -> Recent(FindLastTradeTime(known), MinTradeSpacing)}

EvaluateTrade(c) ==
    /\ Len(taken) < MaxTaken /\ Violations(c, told) = {}
    /\ taken' = Append(taken, [symbol |-> c.symbol, timeframe |-> c.timeframe, time |-> hour,
                               open |-> TRUE, pnl |-> {}, informed |-> told = DOMAIN taken])
    /\ UNCHANGED <<hour, told>>

-----------------------------------------------------------------------------
(* The trader *)

TradeCloses(i, pnl) ==
    /\ taken[i].open /\ taken' = [taken EXCEPT ![i].open = FALSE, ![i].pnl = pnl]
    /\ UNCHANGED <<hour, told>>

\* The list given replaces the one before: all outcomes so far, or the last one.
AddOutcomes(given) ==
    /\ told' = given /\ UNCHANGED <<hour, taken>>

HourPasses == hour < LastHour /\ hour' = hour + 1 /\ UNCHANGED <<taken, told>>

Closed == {i \in DOMAIN taken : ~taken[i].open}
GovernanceNext ==
    \/ \E c \in TradeContexts : EvaluateTrade(c)
    \/ \E i \in DOMAIN taken, pnl \in TradePnl : TradeCloses(i, pnl)
    \/ Closed # {} /\ \E given \in {Closed, {Max(Closed)}} : AddOutcomes(given)
    \/ HourPasses

-----------------------------------------------------------------------------
(* Properties *)

Before(i) == {j \in 1..(i - 1) : Day(taken[j].time) = Day(taken[i].time)}
Informed == {i \in DOMAIN taken : taken[i].informed}

\* Trades beyond a cap of the day are trades the service judged without knowing
\* all those before: in one batch, before their close, or after a partial list.
CapsHoldWhenTold ==
    \A i \in Informed :
        /\ Cardinality(Before(i)) < MaxTradesPerDay
        /\ Cardinality({j \in Before(i) : taken[j].symbol = taken[i].symbol}) < MaxTradesPerSymbol
        /\ Cardinality({j \in Before(i) : taken[j].timeframe = taken[i].timeframe}) < MaxTradesPerTimeframe

\* As long as every pnl can be read, no trade the service was told everything
\* for is taken on a day that has lost its limit.
LossesEndTheDay ==
    \A i \in Informed :
        (\A j \in Before(i) : taken[j].pnl # {}) => ~(DayPnl(Before(i)) <= -MaxDailyLoss)

\* Also across midnight, a trade the service was told everything for keeps its
\* distance from the trade before, and from a loss, unless they share a moment.
TradesAreSpaced ==
    \A i \in Informed, j \in DOMAIN taken : j < i /\ taken[j].time < taken[i].time =>
        /\ taken[i].time - taken[j].time >= MinTradeSpacing
        /\ IsLoss(j) /\ (\A k \in 1..(i - 1) : taken[k].pnl # {}) =>
              taken[i].time - taken[j].time >= CooldownAfterLoss

\* What a trader who heeds evaluate_trade() and tells it everything may rely on
GovernanceHolds == CapsHoldWhenTold /\ LossesEndTheDay /\ TradesAreSpaced
=============================================================================
